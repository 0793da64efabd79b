-------------------------------- MODULE GstProofs --------------------------------
(***************************************************************************)
(* Proofs about the grab thread over the GStreamer backend, for every      *)
(* number of frames, every capacity of the blackbox and every frame size.  *)
(***************************************************************************)
EXTENDS GstCapture, GrabProofs, FiniteSetTheorems

USE kBufNAssumption, GrabLoopAssumption

--------------------------------------------------------------------------------
(* The invariant *)

\* Where the streaming thread is with its buffer.
Streaming == /\ n_push <= t_push /\ t_push <= n_push + 1
             /\ t_push > n_push => pipeline = "playing" /\ converting = 0
             /\ converting # 0 => pipeline = "playing" /\ converting = n_push
             /\ pipeline \in {"none", "built"} => queue = {}

\* The appsink holds no more than one frame (gst_backend.cpp:28-29).
OneBuffer == queue = {} \/ \E f \in Nat \ {0} : queue = {f}

\* The frame in conversion is newer than the appsink's, that one newer than the last
\* one grabbed; and the appsink's is the newest, or the one before it when the newest
\* is in conversion or was lost with the stream.
Pipelined == /\ grabbed <= n_push
             /\ last_push_seen <= n_push
             /\ \A f \in queue : grabbed < f /\ f <= n_push /\ n_push <= f + 1
             /\ converting # 0 => grabbed < converting
             /\ converting # 0 => \A f \in queue : f < converting
             /\ converting = 0 /\ pipeline = "playing" => \A f \in queue : f = n_push

\* The thread's sample, while it runs.
Borrowed == /\ pc \notin {"none", "done"} => pipeline \in {"playing", "halted"}
            /\ main \in {"starting", "stopped"} => pipeline = "none"
            /\ pc \in Holding => sample = frame.id

\* FrameConservation, with the appsink's frames counted one by one.
Conserved ==
  n_push = n_pull + lost + b2n(pc = "account") + b2n(converting # 0) + b2n(queue # {})

GstInv == /\ TypeOK
          /\ NodeInv
          /\ Streaming
          /\ OneBuffer
          /\ Pipelined
          /\ Borrowed
          /\ Conserved

\* None or one frame counts as that many.
LEMMA NoneOrOne == Cardinality({}) = 0 /\ \A f : Cardinality({f}) = 1
BY FS_EmptySet, FS_Singleton

\* A frame taken out of the appsink leaves it empty.
LEMMA OldestIsOnly ==
  ASSUME GstInv, NEW f \in queue
  PROVE  /\ queue = {f} /\ queue \ {f} = {} /\ f \in Nat \ {0}
         /\ Cardinality(queue) = 1
<1>1. queue = {f} /\ f \in Nat \ {0}
  BY DEF GstInv, OneBuffer
<1> QED BY <1>1, NoneOrOne

\* The appsink counts for one frame or none.
LEMMA CountsFrames == GstInv => Cardinality(queue) = b2n(queue # {})
BY NoneOrOne DEF GstInv, OneBuffer, b2n

\* The pipeline is not built, no frame is anywhere.
LEMMA GstInvInit == Init => GstInv
<1> SUFFICES ASSUME Init PROVE GstInv
  OBVIOUS
<1>1. NodeTypeOK /\ NodeInv
  BY NodeTypeInit, NodeInvInit DEF Init
<1> QED
  BY <1>1 DEF Init, NodeInit, GstInv, TypeOK, Streaming, OneBuffer, Pipelined, Borrowed,
              Conserved, Holding, b2n

\* The backend keeps the two promises of NodeStep: what grab() hands out is newer, and
\* push_count() covers it.
LEMMA GstGrabStep ==
  ASSUME GstInv,
         GrabFrame \/ GrabDiscards \/ GrabTimeout \/ NodeAccount \/ NodeLogCbk
  PROVE  GrabbedNewer \/ AccountCovers \/ LogCbkAny
<1>1. CASE GrabFrame
  <2>1. PICK n \in queue, size \in Sizes : Grabbed([id |-> n, size |-> size])
    BY <1>1 DEF GrabFrame
  <2> DEFINE f == [id |-> n, size |-> size]
  <2>2. f \in Frames /\ f.id > grabbed
    BY GrabLoopAssumption DEF GstInv, TypeOK, NodeTypeOK, Pipelined, Frames
  <2> QED BY <2>1, <2>2 DEF GrabbedNewer
<1>2. CASE GrabDiscards \/ GrabTimeout
  BY <1>2 DEF GrabDiscards, GrabTimeout, GrabbedNewer, Valid, NoFrame, Frames
<1>3. CASE NodeAccount
  <2>1. PICK push_now \in frame.id .. n_push :
               push_now >= last_push_seen /\ Account(push_now)
    BY <1>3 DEF NodeAccount
  <2>2. push_now \in Nat /\ push_now >= frame.id
    BY <2>1 DEF GstInv, TypeOK, NodeTypeOK, Frames
  <2> QED BY <2>1, <2>2 DEF AccountCovers
<1>4. CASE NodeLogCbk
  <2>1. PICK t \in frame.id .. t_push : LogCbk(t)
    BY <1>4 DEF NodeLogCbk
  <2>2. t \in Nat
    BY <2>1 DEF GstInv, TypeOK, NodeTypeOK, Frames
  <2> QED BY <2>1, <2>2 DEF LogCbkAny
<1> QED
  BY <1>1, <1>2, <1>3, <1>4

\* Every step is one of the node under these promises.
LEMMA GstNodeStep == GstInv /\ [Next]_vars => NodeStep
<1> SUFFICES ASSUME GstInv, [Next]_vars PROVE NodeStep
  OBVIOUS
<1> USE DEF NodeStep
<1>1. CASE StartPlaying \/ StartFailed \/ MainRequestStop \/ MainJoin \/ StopBackend
  BY <1>1 DEF StartPlaying, StartFailed, MainRequestStop, MainJoin, StopBackend
<1>2. CASE ProbeStamp \/ ProbeCount \/ Render \/ Halt
  BY <1>2 DEF ProbeStamp, ProbeCount, Render, Halt
<1>3. CASE GrabFrame \/ GrabDiscards \/ GrabTimeout \/ NodeAccount \/ NodeLogCbk
  BY <1>3, GstGrabStep
<1>4. CASE NodeLoopHead \/ NodeCopy \/ NodeSend \/ NodeLogPub \/ NodeRelease
  BY <1>4 DEF NodeLoopHead, NodeCopy, NodeSend, NodeLogPub, NodeRelease
<1>5. CASE Terminated \/ UNCHANGED vars
  BY <1>5 DEF Terminated, vars
<1> QED
  BY <1>1, <1>2, <1>3, <1>4, <1>5 DEF Next, GrabThread

\* Every step keeps the invariant: one case per action of the pipeline and of the node.
LEMMA GstInvNext == GstInv /\ [Next]_vars => GstInv'
<1> SUFFICES ASSUME GstInv, [Next]_vars PROVE GstInv'
  OBVIOUS
<1>1. NodeTypeOK' /\ NodeInv'
  BY GstNodeStep, NodeTypeNext, NodeInvNext DEF GstInv, TypeOK
<1> USE <1>1 DEF GstInv, TypeOK, NodeTypeOK, Frames, Streaming, Pipelined, Borrowed,
                 Conserved, b2n, Holding
<1>2. CASE StartPlaying
  BY <1>2 DEF StartPlaying, StartOk, NodeInv, Control, OneBuffer
<1>3. CASE StartFailed
  BY <1>3 DEF StartFailed, StartFails, NodeInv, Control, OneBuffer
<1>4. CASE MainRequestStop
  BY <1>4 DEF MainRequestStop, RequestStop, gstVars, OneBuffer
<1>5. CASE MainJoin
  BY <1>5 DEF MainJoin, Join, gstVars, OneBuffer
<1>6. CASE StopBackend
  <2>1. Cardinality(queue) = b2n(queue # {})
    BY CountsFrames
  <2> QED BY <1>6, <2>1 DEF StopBackend, Stopped, NodeInv, Control, OneBuffer
<1>7. CASE ProbeStamp
  BY <1>7 DEF ProbeStamp, nodeVars, OneBuffer
<1>8. CASE ProbeCount
  BY <1>8 DEF ProbeCount, nodeVars, OneBuffer
<1>9. CASE Render
  <2>0. /\ converting # 0 /\ converting' = 0
        /\ UNCHANGED <<nodeVars, pipeline, t_push, n_push, sample>>
    BY <1>9 DEF Render
  <2>1. CASE queue = {}
    <3>1. queue' = {converting} /\ lost' = lost
      BY <2>1, <1>9, NoneOrOne DEF Render, kMaxBuffers
    <3> QED BY <3>1, <2>0, <2>1 DEF nodeVars, OneBuffer
  <2>2. ASSUME NEW f \in queue PROVE GstInv'
    <3>1. queue = {f} /\ Cardinality(queue) = 1
      BY <2>2, OldestIsOnly
    <3>2. queue' = {converting} /\ lost' = lost + 1
      BY <3>1, <1>9 DEF Render, kMaxBuffers
    <3> QED BY <2>0, <3>1, <3>2 DEF nodeVars, OneBuffer
  <2> QED BY <2>1, <2>2
<1>10. CASE Halt
  BY <1>10 DEF Halt, nodeVars, OneBuffer
<1>11. CASE NodeLoopHead
  BY <1>11 DEF NodeLoopHead, LoopHead, gstVars, OneBuffer
<1>12. CASE GrabFrame
  <2>1. PICK f \in queue, size \in Sizes :
               /\ Grabbed([id |-> f, size |-> size])
               /\ lost' = lost + b2n(size = "empty")
               /\ sample' = f
               /\ queue' = queue \ {f}
               /\ UNCHANGED <<pipeline, t_push, n_push, converting>>
    BY <1>12 DEF GrabFrame
  <2>2. queue' = {} /\ queue = {f} /\ f \in Nat \ {0}
    BY <2>1, OldestIsOnly
  <2> QED BY <2>1, <2>2 DEF Grabbed, Valid, OneBuffer
<1>13. CASE GrabDiscards
  <2>1. PICK f \in queue : queue' = queue \ {f}
    BY <1>13 DEF GrabDiscards
  <2>2. queue' = {} /\ queue = {f}
    BY <2>1, OldestIsOnly
  <2> QED BY <1>13, <2>2 DEF GrabDiscards, Grabbed, Valid, NoFrame, OneBuffer
<1>14. CASE GrabTimeout
  BY <1>14 DEF GrabTimeout, Grabbed, Valid, NoFrame, OneBuffer
<1>15. CASE NodeAccount
  BY <1>15 DEF NodeAccount, Account, gstVars, OneBuffer
<1>16. CASE NodeCopy
  BY <1>16 DEF NodeCopy, Copy, gstVars, OneBuffer
<1>17. CASE NodeLogCbk
  BY <1>17 DEF NodeLogCbk, LogCbk, gstVars, OneBuffer
<1>18. CASE NodeSend
  BY <1>18 DEF NodeSend, Send, gstVars, OneBuffer
<1>19. CASE NodeLogPub
  BY <1>19 DEF NodeLogPub, LogPub, gstVars, OneBuffer
<1>20. CASE NodeRelease
  BY <1>20 DEF NodeRelease, Released, OneBuffer
<1>21. CASE UNCHANGED vars
  BY <1>21 DEF vars, nodeVars, gstVars, OneBuffer
<1> QED
  BY <1>2, <1>3, <1>4, <1>5, <1>6, <1>7, <1>8, <1>9, <1>10, <1>11, <1>12, <1>13,
     <1>14, <1>15, <1>16, <1>17, <1>18, <1>19, <1>20, <1>21
     DEF Next, GrabThread, Terminated

\* The inductive invariant holds in every reachable state of the node over GStreamer.
THEOREM GstInvariant == Spec => []GstInv
<1>1. Init => GstInv
  BY GstInvInit
<1>2. GstInv /\ [Next]_vars => GstInv'
  BY GstInvNext
<1> QED BY <1>1, <1>2, PTL DEF Spec

--------------------------------------------------------------------------------
(* The properties *)

\* Every variable keeps its type; the node's unsigned counters never wrap below zero.
THEOREM GstTypeCorrect == Spec => []TypeOK
<1>1. GstInv => TypeOK
  BY DEF GstInv
<1> QED BY <1>1, GstInvariant, PTL

\* No lost frame goes unreported, whatever the relaxed push_count() returns.
THEOREM GstNoDropMissed == Spec => []NoDropMissed
<1>1. GstInv => NoDropMissed
  BY NoDropMissedFollows DEF GstInv, TypeOK
<1> QED BY <1>1, GstInvariant, PTL

\* Every frame pushed is in exactly one place.
THEOREM GstFrameConservation == Spec => []FrameConservation
<1>1. GstInv => FrameConservation
  BY CountsFrames DEF GstInv, Conserved, FrameConservation
<1> QED BY <1>1, GstInvariant, PTL

\* grab() hands out the newest frame pushed or the one before it, however long the turn
\* before took.
THEOREM GstGrabsNewest == Spec => GrabsNewest
<1>1. ASSUME GstInv, [Next]_vars, grabbed' # grabbed
      PROVE  grabbed' + 1 >= n_push
  <2>1. GrabFrame
    BY <1>1 DEF Next, GrabThread, StartPlaying, StartOk, StartFailed, StartFails,
                MainRequestStop, RequestStop, MainJoin, Join, StopBackend, Stopped,
                ProbeStamp, ProbeCount, Render, Halt, NodeLoopHead, LoopHead,
                GrabDiscards, GrabTimeout, Grabbed, Valid, NoFrame, NodeAccount, Account,
                NodeCopy, Copy, NodeLogCbk, LogCbk, NodeSend, Send, NodeLogPub, LogPub,
                NodeRelease, Released, Terminated, vars, nodeVars
  <2>2. PICK f \in queue, size \in Sizes : Grabbed([id |-> f, size |-> size])
    BY <2>1 DEF GrabFrame
  <2>3. grabbed' = f
    BY <1>1, <2>2 DEF Grabbed
  <2> QED BY <1>1, <2>3 DEF GstInv, Pipelined
<1>2. GstInv /\ [Next]_vars
      => [grabbed' # grabbed => grabbed' + 1 >= n_push]_<<grabbed, n_push>>
  BY <1>1
<1> QED BY <1>2, GstInvariant, PTL DEF Spec, GrabsNewest

\* The node only reads frames that are mapped, in a pipeline that is not stopped.
THEOREM GstBorrowedWhileUsed == Spec => []BorrowedWhileUsed
<1>1. GstInv => BorrowedWhileUsed
  BY DEF GstInv, Borrowed, BorrowedWhileUsed, Holding
<1> QED BY <1>1, GstInvariant, PTL

\* Frames are published in capture order, each once.
THEOREM GstInOrderPublish == Spec => InOrderPublish
<1>1. GstInv /\ [Next]_vars =>
        [pc = "send" /\ pc' # "send" => published' > published]_<<pc, published>>
  BY GstNodeStep, InOrderStep DEF GstInv, TypeOK
<1> QED BY <1>1, GstInvariant, PTL DEF Spec, InOrderPublish

\* The blackbox tells the publish history, also when it is full.
THEOREM GstRecordsTellHistory == Spec => []RecordsTellHistory
<1>1. Init => RecordInv
  BY RecordInvInit DEF Init
<1>2. GstInv /\ RecordInv /\ [Next]_vars => RecordInv'
  BY GstNodeStep, RecordInvNext DEF GstInv, TypeOK
<1>3. GstInv /\ RecordInv => RecordsTellHistory
  BY RecordsFollow DEF GstInv, TypeOK
<1> QED BY <1>1, <1>2, <1>3, GstInvariant, PTL DEF Spec

\* The stamp of a record is never that of a frame before its own, nor of one that no
\* stamp was taken of yet (gst_backend.cpp:93, 202).  It may be a later frame's.
StampBetween == \A i \in Slot : /\ base[i].header_stamp <= base[i].t_capture_ns
                                /\ base[i].t_capture_ns <= t_push

\* So the capture time of a record is at worst too late: a latency computed from it is
\* never overstated.
THEOREM GstStampNotEarlier == Spec => []StampBetween
<1>1. Init => StampBetween
  BY DEF Init, NodeInit, BoxInit, Blank, StampBetween
<1>2. GstInv /\ StampBetween /\ [Next]_vars => StampBetween'
  <2> SUFFICES ASSUME GstInv, StampBetween, [Next]_vars PROVE StampBetween'
    OBVIOUS
  <2>1. \A i \in Slot : base[i].t_capture_ns \in Nat
    BY DEF GstInv, TypeOK, NodeTypeOK, BoxTypeOK, ImagePubRecord
  <2>2. ~ProbeStamp => UNCHANGED t_push
    BY DEF Next, GrabThread, StartPlaying, StartFailed, MainRequestStop, MainJoin,
           StopBackend, ProbeCount, Render, Halt, NodeLoopHead, GrabFrame, GrabDiscards,
           GrabTimeout, NodeAccount, NodeCopy, NodeLogCbk, NodeSend, NodeLogPub,
           NodeRelease, Terminated, vars, gstVars
  <2>3. t_push \in Nat /\ t_push' \in Nat /\ t_push' >= t_push
    BY <2>2 DEF ProbeStamp, GstInv, TypeOK
  <2>4. CASE NodeLogCbk
    <3>1. PICK t \in frame.id .. t_push : log_cbk(frame.id, t) /\ t_push' = t_push
      BY <2>4 DEF NodeLogCbk, LogCbk, gstVars
    <3>2. frame.id <= t /\ t <= t_push
      BY <3>1, <2>3 DEF GstInv, TypeOK, NodeTypeOK, Frames
    <3> QED
      BY <3>1, <3>2, <2>1 DEF log_cbk, StampBetween, GstInv, TypeOK, NodeTypeOK, BoxTypeOK,
                              ImagePubRecord
  <2>5. CASE NodeLogPub
    <3>1. log_pub(record_idx) /\ t_push' = t_push
      BY <2>5 DEF NodeLogPub, LogPub, gstVars
    <3> QED
      BY <3>1 DEF log_pub, StampBetween, GstInv, TypeOK, NodeTypeOK, BoxTypeOK, ImagePubRecord
  <2>6. CASE base' = base
    BY <2>1, <2>3, <2>6 DEF StampBetween
  <2> QED
    BY <2>4, <2>5, <2>6
       DEF Next, GrabThread, StartPlaying, StartOk, StartFailed, StartFails,
           MainRequestStop, RequestStop, MainJoin, Join, StopBackend, Stopped,
           ProbeStamp, ProbeCount, Render, Halt, NodeLoopHead, LoopHead, GrabFrame,
           GrabDiscards, GrabTimeout, Grabbed, NodeAccount, Account, NodeCopy, Copy,
           NodeSend, Send, NodeRelease, Released, Terminated, vars, nodeVars, boxVars
<1> QED BY <1>1, <1>2, GstInvariant, PTL DEF Spec

--------------------------------------------------------------------------------
(* How a turn ends, and shutdown *)

\* A turn that comes to release() with a whole frame has published it, also when the
\* blackbox is full and when a stop came meanwhile (econ_ros2_driver.cpp:127-183).
THEOREM GstWholeFramesPublished == Spec => []TurnPublishes
<1>1. Init => TurnPublishes
  BY DEF Init, NodeInit, TurnPublishes
<1>2. GstInv /\ TurnPublishes /\ [Next]_vars => TurnPublishes'
  BY GstNodeStep, TurnPublishesNext DEF GstInv, TypeOK
<1> QED BY <1>1, <1>2, GstInvariant, PTL DEF Spec

\* Once stop is set it stays set, and each step of the grab thread or of main is one
\* towards the end; the pipeline's change nothing of the node.
StopStep == stop => /\ stop'
                    /\ IF GrabThread \/ MainJoin \/ StopBackend
                       THEN StepsLeft' < StepsLeft
                       ELSE UNCHANGED nodeVars

\* In shutdown() main only joins and stops the backend.
LEMMA GstStopStep ==
  GstInv /\ StopSet /\ [Next]_vars => StopStep
<1> SUFFICES ASSUME GstInv, StopSet, [Next]_vars, stop
             PROVE  /\ stop'
                    /\ IF GrabThread \/ MainJoin \/ StopBackend
                       THEN StepsLeft' < StepsLeft
                       ELSE UNCHANGED nodeVars
  BY DEF StopStep
<1> USE DEF StopSet
<1>1. CASE GrabThread
  <2>1. CASE NodeLoopHead \/ NodeCopy \/ NodeSend \/ NodeLogPub \/ NodeRelease
    BY <2>1, <1>1, TurnGoesDown, StepsGoDown
       DEF NodeLoopHead, NodeCopy, NodeSend, NodeLogPub, NodeRelease
  <2>2. CASE GrabFrame \/ GrabDiscards \/ GrabTimeout \/ NodeAccount \/ NodeLogCbk
    <3>1. GrabbedNewer \/ AccountCovers \/ LogCbkAny
      BY <2>2, GstGrabStep
    <3> QED BY <1>1, <3>1, TurnGoesDown, StepsGoDown
  <2> QED BY <1>1, <2>1, <2>2 DEF GrabThread
<1>2. CASE MainJoin \/ StopBackend
  <2>1. (Join \/ Stopped) /\ stop'
    BY <1>2 DEF MainJoin, StopBackend, Join, Stopped
  <2> QED BY <1>2, <2>1, StepsGoDown
<1>3. CASE ~(GrabThread \/ MainJoin \/ StopBackend)
  <2>1. UNCHANGED nodeVars
    BY <1>3 DEF Next, StartPlaying, StartOk, StartFailed, StartFails, MainRequestStop,
                RequestStop, ProbeStamp, ProbeCount, Render, Halt, Terminated, vars
  <2> QED BY <1>3, <2>1 DEF nodeVars
<1> QED BY <1>1, <1>2, <1>3

\* Once stop is set it stays set, and shutdown() is complete after at most ten more steps
\* of the grab thread and of main, whatever the pipeline does meanwhile: no turn starts
\* over, and the loop looks at stop at the end of each (econ_ros2_driver.cpp:127, 185-194).
THEOREM GstShutdownIsBounded ==
  Spec => /\ [](stop => StepsLeft \in 0 .. 10 /\ (StepsLeft = 0 <=> main = "stopped"))
          /\ [][StopStep]_vars
<1>1. Init => StopSet
  BY DEF Init, NodeInit, StopSet
<1>2. GstInv /\ StopSet /\ [Next]_vars => StopSet'
  BY GstNodeStep, StopSetNext
<1>3. GstInv /\ StopSet => (stop => StepsLeft \in 0 .. 10 /\ (StepsLeft = 0 <=> main = "stopped"))
  BY StepsToStopped DEF GstInv
<1>4. GstInv /\ StopSet /\ [Next]_vars
      => [StopStep]_vars
  BY GstStopStep
<1> QED BY <1>1, <1>2, <1>3, <1>4, GstInvariant, PTL DEF Spec

--------------------------------------------------------------------------------
(* The backend keeps the promises of camera_backend.hpp *)

\* An empty buffer would make grab() return an invalid Frame and keep the sample:
\* the promises are kept when the camera delivers none.
NoEmptyFrames == "empty" \notin Sizes

\* Then a sample is held only from grab() to release().
SampleInTurn == pc \notin Holding => sample = 0

\* A turn that got a frame ends in release(), which clears the sample (gst_backend.cpp:77-80).
LEMMA SampleInTurnNext ==
  ASSUME NoEmptyFrames
  PROVE  GstInv /\ SampleInTurn /\ [Next]_vars => SampleInTurn'
<1> SUFFICES ASSUME GstInv, SampleInTurn, [Next]_vars PROVE SampleInTurn'
  OBVIOUS
<1> USE DEF SampleInTurn, Holding
<1>1. CASE StartPlaying \/ StartFailed \/ MainRequestStop \/ MainJoin \/ StopBackend
  BY <1>1 DEF StartPlaying, StartOk, StartFailed, StartFails, MainRequestStop,
              RequestStop, MainJoin, Join, StopBackend, Stopped, gstVars,
              GstInv, NodeInv, Control
<1>2. CASE ProbeStamp \/ ProbeCount \/ Render \/ Halt
  BY <1>2 DEF ProbeStamp, ProbeCount, Render, Halt, nodeVars
<1>3. CASE GrabFrame
  BY <1>3, NoEmptyFrames DEF GrabFrame, Grabbed, Valid, NoEmptyFrames
<1>4. CASE GrabDiscards \/ GrabTimeout
  BY <1>4 DEF GrabDiscards, GrabTimeout
<1>5. CASE NodeLoopHead \/ NodeAccount \/ NodeCopy \/ NodeLogCbk \/ NodeSend \/ NodeLogPub
  BY <1>5 DEF NodeLoopHead, LoopHead, NodeAccount, Account, NodeCopy, Copy, NodeLogCbk,
              LogCbk, NodeSend, Send, NodeLogPub, LogPub, gstVars
<1>6. CASE NodeRelease
  BY <1>6 DEF NodeRelease
<1>7. CASE Terminated \/ UNCHANGED vars
  BY <1>7 DEF Terminated, vars, nodeVars, gstVars
<1> QED
  BY <1>1, <1>2, <1>3, <1>4, <1>5, <1>6, <1>7 DEF Next, GrabThread

\* Every step of the node and the pipeline is a step of the interface, or none.
LEMMA GstStepSimulation ==
  ASSUME NoEmptyFrames
  PROVE  GstInv /\ GstInv' /\ SampleInTurn /\ [Next]_vars
         => [Backend!IfNext]_(Backend!ifVars)
<1> SUFFICES ASSUME GstInv, GstInv', SampleInTurn, [Next]_vars
             PROVE  Backend!IfNext \/ UNCHANGED Backend!ifVars
  OBVIOUS
<1> USE DEF Backend!ifVars, Life, GstInv, TypeOK, NodeTypeOK, NodeInv, Control
<1>1. CASE StartPlaying \/ StartFailed
  <2>1. Backend!Start
    BY <1>1 DEF StartPlaying, StartOk, StartFailed, StartFails, Backend!Start
  <2> QED BY <2>1 DEF Backend!IfNext
<1>2. CASE MainRequestStop \/ MainJoin
  BY <1>2 DEF MainRequestStop, RequestStop, MainJoin, Join, gstVars
<1>3. CASE StopBackend
  <2>1. Backend!Stop
    BY <1>3 DEF StopBackend, Stopped, Backend!Stop, SampleInTurn, Holding
  <2> QED BY <2>1 DEF Backend!IfNext
<1>4. CASE ProbeCount
  <2>1. pipeline = "playing" /\ Life = "streaming"
    BY <1>4 DEF ProbeCount, Streaming, Borrowed
  <2>2. Backend!Push
    BY <1>4, <2>1 DEF ProbeCount, nodeVars, Backend!Push
  <2> QED BY <2>2 DEF Backend!IfNext
<1>5. CASE ProbeStamp \/ Render \/ Halt
  BY <1>5 DEF ProbeStamp, Render, Halt, nodeVars
<1>6. CASE GrabFrame
  <2>1. Backend!Grab
    BY <1>6, NoEmptyFrames
       DEF GrabFrame, Grabbed, Valid, NoEmptyFrames, Backend!Grab, SampleInTurn, Holding,
           Pipelined, Borrowed
  <2> QED BY <2>1 DEF Backend!IfNext
<1>7. CASE GrabDiscards \/ GrabTimeout
  BY <1>7 DEF GrabDiscards, GrabTimeout, Grabbed, Valid, NoFrame, SampleInTurn, Holding
<1>8. CASE NodeLoopHead \/ NodeAccount \/ NodeCopy \/ NodeLogCbk \/ NodeSend \/ NodeLogPub
  BY <1>8 DEF NodeLoopHead, LoopHead, NodeAccount, Account, NodeCopy, Copy, NodeLogCbk,
              LogCbk, NodeSend, Send, NodeLogPub, LogPub, gstVars
<1>9. CASE NodeRelease
  <2>1. Backend!Release
    BY <1>9 DEF NodeRelease, Released, Backend!Release, Borrowed, Turn, Holding, Valid
  <2> QED BY <2>1 DEF Backend!IfNext
<1>10. CASE Terminated \/ UNCHANGED vars
  BY <1>10 DEF Terminated, vars, nodeVars, gstVars
<1> QED
  BY <1>1, <1>2, <1>3, <1>4, <1>5, <1>6, <1>7, <1>8, <1>9, <1>10 DEF Next, GrabThread

\* The GStreamer backend implements the interface.
THEOREM GstImplementsBackend ==
  ASSUME NoEmptyFrames
  PROVE  Spec => ImplementsBackend
<1>1. Init => SampleInTurn /\ Backend!IfInit
  BY DEF Init, NodeInit, SampleInTurn, Backend!IfInit, Life
<1>2. GstInv /\ SampleInTurn /\ [Next]_vars => SampleInTurn'
  BY NoEmptyFrames, SampleInTurnNext
<1>3. GstInv /\ GstInv' /\ SampleInTurn /\ [Next]_vars
      => [Backend!IfNext]_(Backend!ifVars)
  BY NoEmptyFrames, GstStepSimulation
<1> QED
  BY <1>1, <1>2, <1>3, GstInvariant, PTL DEF Spec, ImplementsBackend, Backend!Spec

================================================================================
