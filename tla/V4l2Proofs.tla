------------------------------- MODULE V4l2Proofs -------------------------------
(***************************************************************************)
(* Proofs about the grab thread over the direct V4L2 backend, for every    *)
(* number of frames and buffers, asked for and granted, every capacity of  *)
(* the blackbox and every frame size.                                      *)
(***************************************************************************)
EXTENDS V4l2Capture, GrabProofs

USE kBufNAssumption, GrabLoopAssumption, kBufCountAssumption, MaxGrantAssumption

--------------------------------------------------------------------------------
(* The invariant *)

\* When the device is open, mapped and streaming.
Device == /\ main = "stopped" => ~fd_open
          /\ main = "starting" => ~fd_open \/ overrun
          /\ ~fd_open => ~streaming /\ mapped = 0
          /\ mapped <= n_bufs
          /\ pc \notin {"none", "done"} => streaming
          /\ ~streaming => /\ current = NoBuf
                           /\ \A b \in Buf : where[b] \notin {"done", "user"}

\* Filled buffers hold different frames, all of them newer than the last dequeued.
Filling == /\ n_push <= sequence
           /\ \A b \in Buf : where[b] = "done" => n_push < holds[b] /\ holds[b] <= sequence
           /\ \A b, c \in Buf : where[b] = "done" /\ where[c] = "done" /\ b # c
                                => holds[b] # holds[c]

\* The frame in hand is in the current buffer, which is out.
InHand == /\ current # NoBuf => where[current] = "user"
          /\ pc \in Holding => /\ current # NoBuf
                               /\ holds[current] = frame.id
                               /\ n_push = frame.id
                               /\ t_capture = frame.id

\* The counters: each frame the counter went past was pulled or reported.
Exact == /\ n_pull + total_drops = last_push_seen
         /\ last_push_seen <= n_push
         /\ grabbed <= n_push
         /\ pc = "account" => last_push_seen < n_push

V4l2Inv == /\ TypeOK
           /\ NodeInv
           /\ Device
           /\ Filling
           /\ InHand
           /\ Exact

\* The device is closed and no buffer exists.
LEMMA V4l2InvInit == Init => V4l2Inv
<1> SUFFICES ASSUME Init PROVE V4l2Inv
  OBVIOUS
<1>1. NodeTypeOK /\ NodeInv
  BY NodeTypeInit, NodeInvInit DEF Init
<1>2. TypeOK
  <2>1. where \in [Buf -> {"none", "driver", "done", "user"}] /\ holds \in [Buf -> Nat]
    BY DEF Init
  <2>2. /\ fd_open = FALSE /\ streaming = FALSE /\ current = NoBuf /\ unqueued = {}
        /\ n_bufs = 0 /\ mapped = 0 /\ sequence = 0 /\ n_push = 0 /\ t_capture = 0
        /\ overrun = FALSE
    BY DEF Init
  <2>3. 0 \in 0 .. kBufCount /\ 0 \in 0 .. MaxGrant
    OBVIOUS
  <2> QED BY <1>1, <2>1, <2>2, <2>3 DEF TypeOK
<1>3. Device /\ Filling /\ InHand /\ Exact
  BY DEF Init, NodeInit, Device, Filling, InHand, Exact, Holding, NoBuf
<1> QED
  BY <1>1, <1>2, <1>3 DEF V4l2Inv

\* DQBUF hands out the oldest filled buffer.
LEMMA DequeueFacts ==
  ASSUME V4l2Inv, Dequeue
  PROVE  \E b \in Buf, size \in Sizes, s \in {"full", "short", "empty"} :
           /\ where[b] = "done"
           /\ s = IF Compressed THEN size ELSE "full"
           /\ Grabbed([id |-> holds[b], size |-> s])
           /\ where' = [where EXCEPT ![b] = "user"]
           /\ current' = b /\ n_push' = holds[b] /\ t_capture' = holds[b]
           /\ holds' = holds /\ sequence' = sequence
           /\ fd_open' = fd_open /\ n_bufs' = n_bufs /\ mapped' = mapped
           /\ streaming' = streaming /\ unqueued' = unqueued /\ overrun' = overrun
           /\ holds[b] > n_push /\ holds[b] <= sequence
           /\ holds[b] \in Nat /\ n_push \in Nat
           /\ \A c \in Buf : where[c] = "done" /\ c # b => holds[b] < holds[c]
<1>1. PICK b \in Buf, size \in Sizes :
        /\ where[b] = "done"
        /\ \A c \in Buf : where[c] = "done" => holds[b] <= holds[c]
        /\ Grabbed([id |-> holds[b], size |-> IF Compressed THEN size ELSE "full"])
        /\ where' = [where EXCEPT ![b] = "user"]
        /\ current' = b /\ n_push' = holds[b] /\ t_capture' = holds[b]
        /\ UNCHANGED <<fd_open, n_bufs, mapped, streaming, holds, sequence, unqueued, overrun>>
  BY DEF Dequeue
<1>2. holds[b] > n_push /\ holds[b] <= sequence /\ holds[b] \in Nat /\ n_push \in Nat
  BY <1>1 DEF V4l2Inv, TypeOK, Filling
<1>3. \A c \in Buf : where[c] = "done" /\ c # b => holds[b] < holds[c]
  BY <1>1 DEF V4l2Inv, TypeOK, Filling
<1>4. (IF Compressed THEN size ELSE "full") \in {"full", "short", "empty"}
  OBVIOUS
<1> QED
  BY <1>1, <1>2, <1>3, <1>4

\* The backend keeps the two promises of NodeStep: what grab() hands out is newer, and
\* push_count() covers it.
LEMMA V4l2GrabStep ==
  ASSUME V4l2Inv,
         GrabNothing \/ Dequeue \/ NodeAccount \/ NodeLogCbk
  PROVE  GrabbedNewer \/ AccountCovers \/ LogCbkAny
<1>1. CASE GrabNothing
  BY <1>1 DEF GrabNothing, GrabbedNewer, Valid, NoFrame, Frames
<1>2. CASE Dequeue
  <2>1. PICK b \in Buf, s \in {"full", "short", "empty"} :
          /\ Grabbed([id |-> holds[b], size |-> s])
          /\ holds[b] > n_push /\ holds[b] \in Nat /\ n_push \in Nat
    BY <1>2, DequeueFacts
  <2> DEFINE f == [id |-> holds[b], size |-> s]
  <2>2. f \in Frames /\ f.id > grabbed
    BY <2>1 DEF Frames, V4l2Inv, Exact, TypeOK, NodeTypeOK
  <2> QED BY <2>1, <2>2 DEF GrabbedNewer
<1>3. CASE NodeAccount
  BY <1>3 DEF NodeAccount, Account, AccountCovers, V4l2Inv, TypeOK, NodeTypeOK, Frames,
              InHand, Exact, Holding
<1>4. CASE NodeLogCbk
  BY <1>4 DEF NodeLogCbk, LogCbkAny, V4l2Inv, TypeOK
<1> QED
  BY <1>1, <1>2, <1>3, <1>4

\* Every step is one of the node under these promises.
LEMMA V4l2NodeStep == V4l2Inv /\ [Next]_vars => NodeStep
<1> SUFFICES ASSUME V4l2Inv, [Next]_vars PROVE NodeStep
  OBVIOUS
<1> USE DEF NodeStep
<1>1. CASE \/ StartStreaming \/ StartOverruns \/ StartFailed \/ MainRequestStop
           \/ MainJoin \/ StopBackend \/ StopOverruns
  BY <1>1 DEF StartStreaming, StartOverruns, StartFailed, MainRequestStop, MainJoin,
              StopBackend, StopOverruns
<1>2. CASE FillBuffer \/ LoseFrame
  BY <1>2 DEF FillBuffer, LoseFrame
<1>3. CASE GrabNothing \/ Dequeue \/ NodeAccount \/ NodeLogCbk
  BY <1>3, V4l2GrabStep
<1>4. CASE \/ NodeLoopHead \/ NodeCopy \/ NodeSend \/ NodeLogPub
           \/ ReleaseRequeues \/ ReleaseFails
  BY <1>4 DEF NodeLoopHead, NodeCopy, NodeSend, NodeLogPub, ReleaseRequeues, ReleaseFails
<1>5. CASE Terminated \/ UNCHANGED vars
  BY <1>5 DEF Terminated, vars
<1> QED
  BY <1>1, <1>2, <1>3, <1>4, <1>5 DEF Next, GrabThread

\* Queued(k) has buffers with the driver or nowhere: none filled, none out.
LEMMA QueuedType ==
  ASSUME NEW k
  PROVE  /\ Queued(k) \in [Buf -> {"none", "driver", "done", "user"}]
         /\ \A b \in Buf : Queued(k)[b] \notin {"done", "user"}
BY DEF Queued

\* A device that is set up, or taken down, by main while there is no grab thread.
LEMMA V4l2InvSetup ==
  ASSUME V4l2Inv, NodeTypeOK', NodeInv', TypeOK',
         pc \in {"none", "done"},
         pc' \in {"none", "done"} \/ streaming',
         current' = NoBuf,
         \A b \in Buf : where'[b] \notin {"done", "user"},
         main' = "stopped" => ~fd_open',
         main' = "starting" => ~fd_open' \/ overrun',
         ~fd_open' => ~streaming' /\ mapped' = 0,
         mapped' <= n_bufs',
         pc' \notin Holding,
         UNCHANGED <<n_push, sequence, grabbed, n_pull, total_drops, last_push_seen>>
  PROVE  V4l2Inv'
<1>1. Device'
  BY DEF Device
<1>2. Filling'
  BY DEF Filling, V4l2Inv
<1>3. InHand'
  BY DEF InHand, NoBuf
<1>4. Exact'
  BY DEF Exact, V4l2Inv, Holding
<1> QED
  BY <1>1, <1>2, <1>3, <1>4 DEF V4l2Inv

\* After stop() the device is closed, whether it was open or not, and nothing of it is left.
LEMMA StopCloses ==
  ASSUME TypeOK, Device, StopBackend
  PROVE  /\ ~fd_open' /\ ~streaming' /\ fd_open' \in BOOLEAN /\ streaming' \in BOOLEAN
         /\ mapped' = 0 /\ current' = NoBuf
         /\ n_bufs' \in 0 .. MaxGrant /\ overrun' = overrun
         /\ overrun' => n_bufs' > kBufCount
         /\ where' \in [Buf -> {"none", "driver", "done", "user"}]
         /\ \A b \in Buf : where'[b] \notin {"done", "user"}
         /\ UNCHANGED <<holds, sequence, n_push, t_capture, unqueued>>
<1> USE DEF TypeOK, Device
<1>1. /\ UNCHANGED <<holds, sequence, n_push, t_capture, unqueued, overrun>>
      /\ ~(fd_open /\ n_bufs > kBufCount)
  BY DEF StopBackend
<1>2. CASE fd_open
  <2>1. Freed
    BY <1>2 DEF StopBackend
  <2>2. 0 \in 0 .. MaxGrant /\ ~overrun
    BY <1>1, <1>2
  <2> QED BY <1>1, <2>1, <2>2, QueuedType DEF Freed
<1>3. CASE ~fd_open
  <2>1. UNCHANGED <<fd_open, n_bufs, mapped, streaming, where, current>>
    BY <1>3 DEF StopBackend
  <2> QED BY <1>1, <1>3, <2>1
<1> QED BY <1>2, <1>3

\* Every step keeps the invariant: one case per action of the driver, the node and main.
LEMMA V4l2InvNext == V4l2Inv /\ [Next]_vars => V4l2Inv'
<1> SUFFICES ASSUME V4l2Inv, [Next]_vars PROVE V4l2Inv'
  OBVIOUS
<1>1. NodeTypeOK' /\ NodeInv'
  BY V4l2NodeStep, NodeTypeNext, NodeInvNext DEF V4l2Inv, TypeOK
<1> USE <1>1 DEF V4l2Inv, TypeOK, NodeTypeOK, Frames, Device, Filling, InHand, Exact,
                 Holding, NoBuf
<1>2. CASE StartStreaming
  <2>1. n_bufs' \in 0 .. kBufCount /\ mapped' = n_bufs' /\ where' = Queued(n_bufs')
    BY <1>2 DEF StartStreaming
  <2>2. n_bufs' \in 0 .. MaxGrant /\ mapped' \in 0 .. kBufCount /\ mapped' <= n_bufs'
    BY <2>1
  <2>3. TypeOK'
    BY <1>1, <1>2, <2>1, <2>2, QueuedType DEF StartStreaming
  <2>4. \A b \in Buf : where'[b] \notin {"done", "user"}
    BY <2>1, QueuedType
  <2>5. current' = NoBuf /\ pc = "none"
    BY <1>2 DEF StartStreaming, StartOk, NodeInv, Control
  <2> QED
    BY <1>1, <1>2, <2>2, <2>3, <2>4, <2>5, V4l2InvSetup DEF StartStreaming, StartOk
<1>3. CASE StartFailed
  <2>1. pc = "none" /\ ~fd_open /\ ~streaming /\ mapped = 0 /\ current = NoBuf
    BY <1>3 DEF StartFailed, StartFails, NodeInv, Control
  <2>2. CASE UNCHANGED <<fd_open, n_bufs, mapped, where>>
    BY <1>1, <1>3, <2>1, <2>2, V4l2InvSetup DEF StartFailed, StartFails
  <2>3. CASE fd_open' = TRUE /\ UNCHANGED <<n_bufs, mapped, where>>
    BY <1>1, <1>3, <2>1, <2>3, V4l2InvSetup DEF StartFailed, StartFails
  <2>4. ASSUME NEW granted \in 0 .. MaxGrant, NEW k \in 0 .. granted,
               SetUpUpTo(k, granted)
        PROVE  V4l2Inv'
    <3>1. fd_open' = TRUE /\ n_bufs' = granted /\ where' = Queued(k)
      BY <2>4 DEF SetUpUpTo
    <3>2. mapped' <= n_bufs' /\ mapped' \in 0 .. kBufCount /\ n_bufs' \in 0 .. MaxGrant
      BY <2>4 DEF SetUpUpTo
    <3>3. /\ where' \in [Buf -> {"none", "driver", "done", "user"}]
          /\ \A b \in Buf : where'[b] \notin {"done", "user"}
      BY <3>1, QueuedType
    <3>4. TypeOK'
      BY <1>1, <1>3, <3>1, <3>2, <3>3 DEF StartFailed
    <3> QED
      BY <1>1, <1>3, <2>1, <3>1, <3>2, <3>3, <3>4, V4l2InvSetup DEF StartFailed, StartFails
  <2> QED BY <1>3, <2>2, <2>3, <2>4 DEF StartFailed
<1>4. CASE MainRequestStop
  BY <1>4 DEF MainRequestStop, RequestStop, devVars
<1>5. CASE MainJoin
  BY <1>5 DEF MainJoin, Join, devVars
<1>6. CASE StopBackend
  <2>1. /\ pc \in {"none", "done"} /\ pc' = pc /\ main' = "stopped"
        /\ UNCHANGED <<n_push, sequence, grabbed, n_pull, total_drops, last_push_seen>>
    BY <1>6 DEF StopBackend, Stopped, NodeInv, Control
  <2>2. TypeOK'
    BY <1>1, <1>6, StopCloses
  <2>3. /\ ~fd_open' /\ ~streaming' /\ mapped' = 0 /\ current' = NoBuf /\ n_bufs' >= 0
        /\ \A b \in Buf : where'[b] \notin {"done", "user"}
    BY <1>6, StopCloses
  <2> QED
    BY <1>1, <2>1, <2>2, <2>3, V4l2InvSetup
<1>7. CASE FillBuffer
  BY <1>7 DEF FillBuffer, nodeVars
<1>8. CASE LoseFrame
  BY <1>8 DEF LoseFrame, nodeVars
<1>9. CASE NodeLoopHead
  BY <1>9 DEF NodeLoopHead, LoopHead, devVars
<1>10. CASE GrabNothing
  BY <1>10 DEF GrabNothing, Grabbed, Valid, NoFrame, devVars
<1>11. CASE Dequeue
  <2>1. PICK b \in Buf, s \in {"full", "short", "empty"} :
          /\ where[b] = "done"
          /\ Grabbed([id |-> holds[b], size |-> s])
          /\ where' = [where EXCEPT ![b] = "user"]
          /\ current' = b /\ n_push' = holds[b] /\ t_capture' = holds[b]
          /\ holds' = holds /\ sequence' = sequence
          /\ fd_open' = fd_open /\ n_bufs' = n_bufs /\ mapped' = mapped
          /\ streaming' = streaming /\ unqueued' = unqueued /\ overrun' = overrun
          /\ holds[b] > n_push /\ holds[b] <= sequence
          /\ \A c \in Buf : where[c] = "done" /\ c # b => holds[b] < holds[c]
    BY <1>11, DequeueFacts
  <2>2. /\ where'[b] = "user" /\ b # NoBuf
        /\ \A c \in Buf : c # b => where'[c] = where[c]
    BY <2>1 DEF Buf
  <2>3. TypeOK'
    BY <1>1, <2>1
  <2>4. Device'
    BY <2>1, <2>2 DEF Grabbed
  <2>5. Filling'
    BY <2>1, <2>2
  <2>6. InHand'
    BY <2>1, <2>2 DEF Grabbed
  <2>7. Exact'
    BY <2>1 DEF Grabbed
  <2> QED BY <1>1, <2>3, <2>4, <2>5, <2>6, <2>7
<1>12. CASE NodeAccount
  BY <1>12 DEF NodeAccount, Account, Drops, devVars
<1>13. CASE NodeCopy
  BY <1>13 DEF NodeCopy, Copy, devVars
<1>14. CASE NodeLogCbk
  BY <1>14 DEF NodeLogCbk, LogCbk, devVars
<1>15. CASE NodeSend
  BY <1>15 DEF NodeSend, Send, devVars
<1>16. CASE NodeLogPub
  BY <1>16 DEF NodeLogPub, LogPub, devVars
<1>17. CASE ReleaseRequeues
  BY <1>17 DEF ReleaseRequeues, Released
<1>18. CASE ReleaseFails
  BY <1>18 DEF ReleaseFails, Released
<1>19. CASE StartOverruns
  <2>1. /\ pc = "none" /\ ~streaming /\ current = NoBuf /\ main = "starting"
        /\ UNCHANGED <<nodeVars, n_push, sequence, streaming, current>>
    BY <1>19 DEF StartOverruns, NodeInv, Control
  <2>2. /\ fd_open' = TRUE /\ overrun' = TRUE /\ mapped' = kBufCount
        /\ n_bufs' \in 0 .. MaxGrant /\ kBufCount < n_bufs'
        /\ where' = Queued(kBufCount)
    BY <1>19 DEF StartOverruns
  <2>3. TypeOK'
    BY <1>1, <1>19, <2>2, QueuedType DEF StartOverruns
  <2> QED
    BY <1>1, <2>1, <2>2, <2>3, QueuedType, V4l2InvSetup DEF nodeVars
<1>20. CASE StopOverruns
  BY <1>20 DEF StopOverruns, nodeVars
<1>21. CASE UNCHANGED vars
  BY <1>21 DEF vars, nodeVars, devVars
<1> QED
  BY <1>2, <1>3, <1>4, <1>5, <1>6, <1>7, <1>8, <1>9, <1>10, <1>11, <1>12, <1>13,
     <1>14, <1>15, <1>16, <1>17, <1>18, <1>19, <1>20, <1>21
     DEF Next, GrabThread, Terminated

\* The inductive invariant holds in every reachable state of the node over V4L2.
THEOREM V4l2Invariant == Spec => []V4l2Inv
<1>1. Init => V4l2Inv
  BY V4l2InvInit
<1>2. V4l2Inv /\ [Next]_vars => V4l2Inv'
  BY V4l2InvNext
<1> QED BY <1>1, <1>2, PTL DEF Spec

--------------------------------------------------------------------------------
(* The properties *)

\* Every variable keeps its type; and whatever number of buffers is asked for and granted,
\* the loops of request_buffers() and stop() leave bufs_ only when more were granted than
\* asked for (opencv_backend.cpp:111, 153-155).
THEOREM V4l2TypeCorrect == Spec => []TypeOK
<1>1. V4l2Inv => TypeOK
  BY DEF V4l2Inv
<1> QED BY <1>1, V4l2Invariant, PTL

\* With this backend the drop accounting of the node is exact.
THEOREM V4l2ExactDrops == Spec => []ExactDrops
<1>1. V4l2Inv => ExactDrops
  BY DEF V4l2Inv, NodeInv, Counted, TypeOK, NodeTypeOK, Filling, Exact, ExactDrops
<1> QED BY <1>1, V4l2Invariant, PTL

\* The driver never writes the buffer of the frame the node is reading.
THEOREM V4l2BorrowedWhileUsed == Spec => []BorrowedWhileUsed
<1>1. V4l2Inv => BorrowedWhileUsed
  BY DEF V4l2Inv, Device, InHand, BorrowedWhileUsed, Holding
<1> QED BY <1>1, V4l2Invariant, PTL

\* However far start() got, stop() leaves nothing open or mapped.
THEOREM V4l2NothingLeft == Spec => []NothingLeft
<1>1. V4l2Inv => NothingLeft
  BY DEF V4l2Inv, Device, NothingLeft
<1> QED BY <1>1, V4l2Invariant, PTL

\* Frames are published in capture order, each once.
THEOREM V4l2InOrderPublish == Spec => InOrderPublish
<1>1. V4l2Inv /\ [Next]_vars =>
        [pc = "send" /\ pc' # "send" => published' > published]_<<pc, published>>
  BY V4l2NodeStep, InOrderStep DEF V4l2Inv, TypeOK
<1> QED BY <1>1, V4l2Invariant, PTL DEF Spec, InOrderPublish

\* The blackbox tells the publish history, also when it is full.
THEOREM V4l2RecordsTellHistory == Spec => []RecordsTellHistory
<1>1. Init => RecordInv
  BY RecordInvInit DEF Init
<1>2. V4l2Inv /\ RecordInv /\ [Next]_vars => RecordInv'
  BY V4l2NodeStep, RecordInvNext DEF V4l2Inv, TypeOK
<1>3. V4l2Inv /\ RecordInv => RecordsTellHistory
  BY RecordsFollow DEF V4l2Inv, TypeOK
<1> QED BY <1>1, <1>2, <1>3, V4l2Invariant, PTL DEF Spec

\* A record has the capture time of its own frame.
THEOREM V4l2RecordHasOwnCapture == Spec => []RecordHasOwnCapture
<1>1. Init => RecordHasOwnCapture
  BY DEF Init, NodeInit, BoxInit, Blank, RecordHasOwnCapture
<1>2. V4l2Inv /\ RecordHasOwnCapture /\ [Next]_vars => RecordHasOwnCapture'
  <2> SUFFICES ASSUME V4l2Inv, RecordHasOwnCapture, [Next]_vars
               PROVE  RecordHasOwnCapture'
    OBVIOUS
  <2> USE DEF RecordHasOwnCapture
  <2>1. CASE NodeLogCbk
    <3>1. log_cbk(frame.id, t_capture) /\ t_capture = frame.id
      BY <2>1 DEF NodeLogCbk, LogCbk, V4l2Inv, InHand, Holding
    <3> QED BY <3>1 DEF log_cbk, V4l2Inv, TypeOK, NodeTypeOK, BoxTypeOK, ImagePubRecord
  <2>2. CASE NodeLogPub
    <3>1. log_pub(record_idx)
      BY <2>2 DEF NodeLogPub, LogPub
    <3> QED BY <3>1 DEF log_pub, V4l2Inv, TypeOK, NodeTypeOK, BoxTypeOK, ImagePubRecord
  <2>3. CASE base' = base
    BY <2>3
  <2> QED
    BY <2>1, <2>2, <2>3
       DEF Next, GrabThread, StartStreaming, StartOk, StartFailed, StartFails,
           MainRequestStop, RequestStop, MainJoin, Join, StopBackend, Stopped,
           StartOverruns, StopOverruns, FillBuffer, LoseFrame, NodeLoopHead, LoopHead,
           GrabNothing, Dequeue, Grabbed, NodeAccount, Account, NodeCopy, Copy, NodeSend,
           Send, ReleaseRequeues, ReleaseFails, Released, Terminated, vars, nodeVars,
           boxVars
<1> QED BY <1>1, <1>2, V4l2Invariant, PTL DEF Spec

--------------------------------------------------------------------------------
(* How a turn ends, and shutdown *)

\* A turn that comes to release() with a whole frame has published it, also when the
\* blackbox is full and when a stop came meanwhile (econ_ros2_driver.cpp:127-183).
THEOREM V4l2WholeFramesPublished == Spec => []TurnPublishes
<1>1. Init => TurnPublishes
  BY DEF Init, NodeInit, TurnPublishes
<1>2. V4l2Inv /\ TurnPublishes /\ [Next]_vars => TurnPublishes'
  BY V4l2NodeStep, TurnPublishesNext DEF V4l2Inv, TypeOK
<1> QED BY <1>1, <1>2, V4l2Invariant, PTL DEF Spec

\* Once stop is set it stays set, and each step of the grab thread or of main is one
\* towards the end; the driver's change nothing of the node.
StopStep == stop => /\ stop'
                    /\ IF GrabThread \/ MainJoin \/ StopBackend
                       THEN StepsLeft' < StepsLeft
                       ELSE UNCHANGED nodeVars

\* In shutdown() main only joins and stops the backend.
LEMMA V4l2StopStep == V4l2Inv /\ StopSet /\ [Next]_vars => StopStep
<1> SUFFICES ASSUME V4l2Inv, StopSet, [Next]_vars, stop
             PROVE  /\ stop'
                    /\ IF GrabThread \/ MainJoin \/ StopBackend
                       THEN StepsLeft' < StepsLeft
                       ELSE UNCHANGED nodeVars
  BY DEF StopStep
<1> USE DEF StopSet
<1>1. CASE GrabThread
  <2>1. CASE \/ NodeLoopHead \/ NodeCopy \/ NodeSend \/ NodeLogPub
             \/ ReleaseRequeues \/ ReleaseFails
    BY <2>1, <1>1, TurnGoesDown, StepsGoDown
       DEF NodeLoopHead, NodeCopy, NodeSend, NodeLogPub, ReleaseRequeues, ReleaseFails
  <2>2. CASE GrabNothing \/ Dequeue \/ NodeAccount \/ NodeLogCbk
    <3>1. GrabbedNewer \/ AccountCovers \/ LogCbkAny
      BY <2>2, V4l2GrabStep
    <3> QED BY <1>1, <3>1, TurnGoesDown, StepsGoDown
  <2> QED BY <1>1, <2>1, <2>2 DEF GrabThread
<1>2. CASE MainJoin \/ StopBackend
  <2>1. (Join \/ Stopped) /\ stop'
    BY <1>2 DEF MainJoin, StopBackend, Join, Stopped
  <2> QED BY <1>2, <2>1, StepsGoDown
<1>3. CASE ~(GrabThread \/ MainJoin \/ StopBackend)
  <2>1. UNCHANGED nodeVars
    BY <1>3 DEF Next, StartStreaming, StartOk, StartFailed, StartFails, MainRequestStop,
                RequestStop, StartOverruns, StopOverruns, FillBuffer, LoseFrame,
                Terminated, vars
  <2> QED BY <1>3, <2>1 DEF nodeVars
<1> QED BY <1>1, <1>2, <1>3

\* Once stop is set it stays set, and shutdown() is complete after at most ten more steps
\* of the grab thread and of main, whatever the driver does meanwhile: no turn starts
\* over, and the loop looks at stop at the end of each (econ_ros2_driver.cpp:127, 185-194).
\* Only a stop() that overruns bufs_ comes to no defined end.
THEOREM V4l2ShutdownIsBounded ==
  Spec => /\ [](stop => StepsLeft \in 0 .. 10 /\ (StepsLeft = 0 <=> main = "stopped"))
          /\ [][StopStep]_vars
<1>1. Init => StopSet
  BY DEF Init, NodeInit, StopSet
<1>2. V4l2Inv /\ StopSet /\ [Next]_vars => StopSet'
  BY V4l2NodeStep, StopSetNext
<1>3. V4l2Inv /\ StopSet
      => (stop => StepsLeft \in 0 .. 10 /\ (StepsLeft = 0 <=> main = "stopped"))
  BY StepsToStopped DEF V4l2Inv
<1>4. V4l2Inv /\ StopSet /\ [Next]_vars => [StopStep]_vars
  BY V4l2StopStep
<1> QED BY <1>1, <1>2, <1>3, <1>4, V4l2Invariant, PTL DEF Spec

--------------------------------------------------------------------------------
(* The buffer pool and the interface, when no empty frame is delivered *)

\* grab() makes a valid Frame of every buffer it dequeues: the conversion of a raw
\* buffer always does, a JPEG buffer has to hold some bytes.
NoEmptyFrames == Compressed => "empty" \notin Sizes

\* Then a buffer is current only from grab() to release(), and accounted for.
PoolInv == /\ pc \notin Holding => current = NoBuf
           /\ BuffersAccounted

\* A valid Frame is always followed by release() (econ_ros2_driver.cpp:146): no buffer is
\* forgotten by the next grab().
LEMMA PoolInvNext ==
  ASSUME NoEmptyFrames
  PROVE  V4l2Inv /\ PoolInv /\ [Next]_vars => PoolInv'
<1> SUFFICES ASSUME V4l2Inv, PoolInv, [Next]_vars PROVE PoolInv'
  OBVIOUS
<1> USE DEF PoolInv, BuffersAccounted, Holding, V4l2Inv, TypeOK
<1>1. CASE StartStreaming
  BY <1>1, QueuedType DEF StartStreaming, StartOk, NodeInv, Control
<1>2. CASE StartFailed
  BY <1>2, QueuedType DEF StartFailed, SetUpUpTo, StartFails, NodeInv, Control
<1>3. CASE MainRequestStop \/ MainJoin
  BY <1>3 DEF MainRequestStop, RequestStop, MainJoin, Join, devVars
<1>4. CASE StopBackend
  BY <1>4, StopCloses DEF StopBackend, Stopped, NodeInv, Control
<1>5. CASE FillBuffer \/ LoseFrame
  BY <1>5 DEF FillBuffer, LoseFrame, nodeVars
<1>6. CASE GrabNothing
  BY <1>6 DEF GrabNothing, Grabbed, devVars
<1>7. CASE Dequeue
  <2>1. PICK b \in Buf, size \in Sizes :
          /\ where[b] = "done"
          /\ Grabbed([id |-> holds[b], size |-> IF Compressed THEN size ELSE "full"])
          /\ where' = [where EXCEPT ![b] = "user"] /\ current' = b
          /\ unqueued' = unqueued
    BY <1>7 DEF Dequeue
  <2>2. pc = "grab" /\ pc' = "account"
    BY <2>1, NoEmptyFrames DEF NoEmptyFrames, Grabbed, Valid, Filling
  <2>3. NoBuf \notin Buf
    BY DEF NoBuf, Buf
  <2>4. \A c \in Buf : where[c] = "user" => c \in unqueued
    BY <2>2, <2>3
  <2> QED BY <2>1, <2>2, <2>4
<1>8. CASE NodeLoopHead \/ NodeAccount \/ NodeCopy \/ NodeLogCbk \/ NodeSend \/ NodeLogPub
  BY <1>8 DEF NodeLoopHead, LoopHead, NodeAccount, Account, NodeCopy, Copy, NodeLogCbk,
              LogCbk, NodeSend, Send, NodeLogPub, LogPub, devVars
<1>9. CASE ReleaseRequeues
  BY <1>9 DEF ReleaseRequeues, Released
<1>10. CASE ReleaseFails
  BY <1>10 DEF ReleaseFails, Released
<1>11. CASE StartOverruns \/ StopOverruns
  BY <1>11, QueuedType DEF StartOverruns, StopOverruns, nodeVars, NodeInv, Control
<1>12. CASE Terminated \/ UNCHANGED vars
  BY <1>12 DEF Terminated, vars, nodeVars, devVars
<1> QED
  BY <1>1, <1>2, <1>3, <1>4, <1>5, <1>6, <1>7, <1>8, <1>9, <1>10, <1>11, <1>12
     DEF Next, GrabThread

\* So the buffer pool is whole but for the QBUFs that failed.
LEMMA V4l2PoolInvariant ==
  ASSUME NoEmptyFrames
  PROVE  Spec => []PoolInv
<1>1. Init => PoolInv
  BY DEF Init, NodeInit, PoolInv, BuffersAccounted
<1>2. V4l2Inv /\ PoolInv /\ [Next]_vars => PoolInv'
  BY NoEmptyFrames, PoolInvNext
<1> QED BY <1>1, <1>2, V4l2Invariant, PTL DEF Spec

\* Only a QBUF that fails takes a buffer from the pool.
THEOREM V4l2BuffersAccounted ==
  ASSUME NoEmptyFrames
  PROVE  Spec => []BuffersAccounted
<1>1. PoolInv => BuffersAccounted
  BY DEF PoolInv
<1> QED BY <1>1, NoEmptyFrames, V4l2PoolInvariant, PTL

\* Every step of the node and the driver is a step of the interface, or none.
LEMMA V4l2StepSimulation ==
  ASSUME NoEmptyFrames
  PROVE  V4l2Inv /\ PoolInv /\ [Next]_vars => [Backend!IfNext]_(Backend!ifVars)
<1> SUFFICES ASSUME V4l2Inv, PoolInv, [Next]_vars
             PROVE  Backend!IfNext \/ UNCHANGED Backend!ifVars
  OBVIOUS
<1> DEFINE borrowed == IF current = NoBuf THEN 0 ELSE holds[current]
<1> USE DEF Backend!ifVars, Life, V4l2Inv, TypeOK, NodeTypeOK, NodeInv, Control, Device
<1>1. CASE StartStreaming \/ StartFailed
  <2>1. Backend!Start
    BY <1>1 DEF StartStreaming, StartOk, StartFailed, StartFails, Backend!Start
  <2> QED BY <2>1 DEF Backend!IfNext
<1>2. CASE MainRequestStop \/ MainJoin
  BY <1>2 DEF MainRequestStop, RequestStop, MainJoin, Join, devVars
<1>3. CASE StopBackend
  <2>1. /\ main = "joined" /\ main' = "stopped" /\ UNCHANGED <<pc, grabbed>>
        /\ current = NoBuf /\ current' = NoBuf /\ n_push' = n_push
    BY <1>3, StopCloses DEF StopBackend, Stopped, PoolInv, Holding
  <2>2. Backend!Stop
    BY <2>1 DEF Backend!Stop
  <2> QED BY <2>2 DEF Backend!IfNext
<1>4. CASE FillBuffer \/ LoseFrame
  BY <1>4 DEF FillBuffer, LoseFrame, nodeVars, InHand
<1>5. CASE Dequeue
  <2>1. PICK b \in Buf, size \in Sizes, s \in {"full", "short", "empty"} :
          /\ s = IF Compressed THEN size ELSE "full"
          /\ Grabbed([id |-> holds[b], size |-> s])
          /\ current' = b /\ n_push' = holds[b] /\ holds' = holds
          /\ streaming' = streaming
          /\ holds[b] > n_push /\ holds[b] \in Nat /\ n_push \in Nat
    BY <1>5, DequeueFacts
  <2>2. pc = "grab" /\ grabbed' = holds[b] /\ main' = main
    BY <2>1, NoEmptyFrames DEF NoEmptyFrames, Grabbed, Valid
  <2>3. borrowed = 0 /\ borrowed' = holds[b]
    BY <2>1, <2>2 DEF PoolInv, Holding, Buf, NoBuf
  <2>4. grabbed <= n_push
    BY DEF Exact
  <2>5. Life = "streaming" /\ Life' = Life
    BY <2>1, <2>2
  <2>6. Backend!Grab
    BY <2>1, <2>2, <2>3, <2>4, <2>5 DEF Backend!Grab
  <2> QED BY <2>6 DEF Backend!IfNext
<1>6. CASE GrabNothing
  BY <1>6 DEF GrabNothing, Grabbed, Valid, NoFrame, devVars
<1>7. CASE NodeLoopHead \/ NodeAccount \/ NodeCopy \/ NodeLogCbk \/ NodeSend \/ NodeLogPub
  BY <1>7 DEF NodeLoopHead, LoopHead, NodeAccount, Account, NodeCopy, Copy, NodeLogCbk,
              LogCbk, NodeSend, Send, NodeLogPub, LogPub, devVars
<1>8. CASE ReleaseRequeues \/ ReleaseFails
  <2>1. Backend!Release
    BY <1>8 DEF ReleaseRequeues, ReleaseFails, Released, Backend!Release, InHand, Turn,
                Holding, Valid
  <2> QED BY <2>1 DEF Backend!IfNext
<1>9. CASE StartOverruns \/ StopOverruns
  BY <1>9 DEF StartOverruns, StopOverruns, nodeVars
<1>10. CASE Terminated \/ UNCHANGED vars
  BY <1>10 DEF Terminated, vars, nodeVars, devVars
<1> QED
  BY <1>1, <1>2, <1>3, <1>4, <1>5, <1>6, <1>7, <1>8, <1>9, <1>10 DEF Next, GrabThread

\* The V4L2 backend implements the interface.
THEOREM V4l2ImplementsBackend ==
  ASSUME NoEmptyFrames
  PROVE  Spec => ImplementsBackend
<1>1. Init => Backend!IfInit
  BY DEF Init, NodeInit, Backend!IfInit, Life
<1>2. V4l2Inv /\ PoolInv /\ [Next]_vars => [Backend!IfNext]_(Backend!ifVars)
  BY NoEmptyFrames, V4l2StepSimulation
<1> QED
  BY <1>1, <1>2, NoEmptyFrames, V4l2Invariant, V4l2PoolInvariant, PTL
     DEF Spec, ImplementsBackend, Backend!Spec

================================================================================
