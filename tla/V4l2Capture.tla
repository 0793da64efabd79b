------------------------------ MODULE V4l2Capture ------------------------------
(***************************************************************************)
(* The direct V4L2 backend (src/src/opencv_backend.cpp) under the grab     *)
(* thread, with the capture driver it talks to as the environment.         *)
(*                                                                         *)
(* Every mmap buffer is with the driver to be filled, filled and waiting   *)
(* for DQBUF, or out: dequeued by grab() and to be queued again by         *)
(* release().  The driver numbers frames by v4l2_buffer.sequence, from 0;  *)
(* frame n here is the one with sequence n - 1.                            *)
(*                                                                         *)
(* REQBUFS may grant fewer buffers than asked, or more, and the code takes *)
(* what it grants without a look at the size of bufs_.  A step that reads  *)
(* or writes past bufs_ sets overrun; what the process does after it is    *)
(* not defined, and the behaviour ends there.                              *)
(***************************************************************************)
EXTENDS GrabLoop

CONSTANTS kBufCount,    \* buffers asked for and entries of bufs_, 4 in the code
          MaxGrant      \* bound: buffers REQBUFS grants
ASSUME kBufCountAssumption == kBufCount \in Nat \ {0}
ASSUME MaxGrantAssumption == MaxGrant \in Nat /\ kBufCount <= MaxGrant

VARIABLES fd_open,      \* fd_ >= 0
          n_bufs,       \* n_bufs_, what REQBUFS granted
          mapped,       \* buffers 1..mapped have a start address
          streaming,    \* STREAMON done
          where,        \* where each buffer is
          holds,        \* number of the frame in it
          current,      \* current_index_, 0 for -1
          sequence,     \* frames the driver has numbered
          n_push,       \* n_push_
          t_capture,    \* t_capture_ns_, as the number of the frame stamped
          unqueued,     \* ghost: buffers whose QBUF failed in release()
          overrun       \* an entry past the end of bufs_ was read or written

devVars == <<fd_open, n_bufs, mapped, streaming, where, holds, current,
             sequence, n_push, t_capture, unqueued, overrun>>
vars == <<nodeVars, devVars>>

Buf == 1 .. kBufCount
NoBuf == 0

Init == /\ NodeInit
        /\ fd_open = FALSE
        /\ n_bufs = 0
        /\ mapped = 0
        /\ streaming = FALSE
        /\ where = [b \in Buf |-> "none"]
        /\ holds = [b \in Buf |-> 0]
        /\ current = NoBuf
        /\ sequence = 0
        /\ n_push = 0
        /\ t_capture = 0
        /\ unqueued = {}
        /\ overrun = FALSE

--------------------------------------------------------------------------------
(* Main thread *)

\* Buffers 1..k mapped and queued to the driver.
Queued(k) == [b \in Buf |-> IF b <= k THEN "driver" ELSE "none"]

(***************************************************************************)
(* start() succeeds: open, S_FMT, REQBUFS, every granted buffer mapped and *)
(* queued, STREAMON.                                                       *)
(***************************************************************************)
StartStreaming ==
  /\ StartOk /\ ~overrun
  /\ fd_open' = TRUE
  /\ n_bufs' \in 0 .. kBufCount
  /\ mapped' = n_bufs'
  /\ where' = Queued(n_bufs')
  /\ streaming' = TRUE
  /\ UNCHANGED <<holds, current, sequence, n_push, t_capture, unqueued, overrun>>

\* More buffers granted than bufs_ has entries: the loop writes the one after the last.
StartOverruns ==
  /\ main = "starting" /\ ~overrun
  /\ fd_open' = TRUE
  /\ n_bufs' \in kBufCount + 1 .. MaxGrant
  /\ mapped' = kBufCount
  /\ where' = Queued(kBufCount)
  /\ overrun' = TRUE
  /\ UNCHANGED <<nodeVars, streaming, holds, current, sequence, n_push, t_capture, unqueued>>

\* QUERYBUF, mmap or QBUF of one buffer fails, or STREAMON, with k buffers queued.
SetUpUpTo(k, granted) ==
  /\ fd_open' = TRUE
  /\ n_bufs' = granted
  /\ k <= kBufCount
  /\ mapped' = k \/ (mapped' = k + 1 /\ k < granted /\ k < kBufCount)
  /\ where' = Queued(k)

(***************************************************************************)
(* start() fails half-way and cleans nothing up: flip_method or open;      *)
(* S_FMT or REQBUFS with the device open; or a later call.                 *)
(***************************************************************************)
StartFailed ==
  /\ StartFails /\ ~overrun
  /\ \/ UNCHANGED <<fd_open, n_bufs, mapped, where>>
     \/ fd_open' = TRUE /\ UNCHANGED <<n_bufs, mapped, where>>
     \/ \E granted \in 0 .. MaxGrant : \E k \in 0 .. granted : SetUpUpTo(k, granted)
  /\ UNCHANGED <<streaming, holds, current, sequence, n_push, t_capture, unqueued, overrun>>

MainRequestStop == RequestStop /\ UNCHANGED devVars

MainJoin == Join /\ UNCHANGED devVars

\* What stop() does once its loop has gone over the buffers.
Freed == /\ fd_open' = FALSE /\ streaming' = FALSE
         /\ mapped' = IF mapped <= n_bufs THEN 0 ELSE mapped
         /\ n_bufs' = 0 /\ current' = NoBuf
         /\ where' = Queued(0)

\* Slips: nothing to stop when nothing streams; the loop goes one entry too far.
StopOnlyIfStreaming ==
  /\ Stopped /\ ~(fd_open /\ n_bufs > kBufCount)
  /\ IF streaming THEN Freed
     ELSE UNCHANGED <<fd_open, n_bufs, mapped, streaming, where, current>>
  /\ UNCHANGED <<holds, sequence, n_push, t_capture, unqueued, overrun>>

StopOneMore ==
  /\ Stopped /\ ~(fd_open /\ n_bufs > kBufCount)
  /\ overrun' = (fd_open /\ n_bufs = kBufCount)
  /\ IF fd_open /\ n_bufs # kBufCount THEN Freed
     ELSE UNCHANGED <<fd_open, n_bufs, mapped, streaming, where, current>>
  /\ UNCHANGED <<holds, sequence, n_push, t_capture, unqueued>>

\* stop(): STREAMOFF, unmap the n_bufs buffers that have an address, close.
StopBackend ==
  /\ Stopped /\ ~(fd_open /\ n_bufs > kBufCount)
  /\ IF fd_open THEN Freed
     ELSE UNCHANGED <<fd_open, n_bufs, mapped, streaming, where, current>>
  /\ UNCHANGED <<holds, sequence, n_push, t_capture, unqueued, overrun>>

\* After a start() that failed with more buffers granted than bufs_ has entries, the
\* loop of stop() reads and clears past the end.
StopOverruns ==
  /\ main = "joined" /\ ~overrun
  /\ fd_open /\ n_bufs > kBufCount
  /\ overrun' = TRUE
  /\ UNCHANGED <<nodeVars, fd_open, n_bufs, mapped, streaming, where, holds, current,
                 sequence, n_push, t_capture, unqueued>>

--------------------------------------------------------------------------------
(* The driver *)

\* A frame is numbered and fills a buffer the driver has.
FillBuffer ==
  /\ streaming /\ sequence < MaxFrames
  /\ sequence' = sequence + 1
  /\ \E b \in Buf :
       /\ where[b] = "driver"
       /\ where' = [where EXCEPT ![b] = "done"]
       /\ holds' = [holds EXCEPT ![b] = sequence + 1]
  /\ UNCHANGED <<nodeVars, fd_open, n_bufs, mapped, streaming, current,
                 n_push, t_capture, unqueued, overrun>>

\* A frame is numbered and lost: no buffer for it, or a transfer error.
LoseFrame ==
  /\ streaming /\ sequence < MaxFrames
  /\ sequence' = sequence + 1
  /\ UNCHANGED <<nodeVars, fd_open, n_bufs, mapped, streaming, where, holds,
                 current, n_push, t_capture, unqueued, overrun>>

--------------------------------------------------------------------------------
(* Grab thread *)

NodeLoopHead == LoopHead /\ UNCHANGED devVars

\* select() times out or fails, or DQBUF fails: an invalid Frame, nothing changed.
GrabNothing == Grabbed(NoFrame) /\ UNCHANGED devVars

\* Slips: any filled buffer is taken; a frame is counted at its sequence number.
DequeueAny ==
  \E b \in Buf, size \in Sizes :
    /\ where[b] = "done"
    /\ Grabbed([id |-> holds[b], size |-> IF Compressed THEN size ELSE "full"])
    /\ where' = [where EXCEPT ![b] = "user"]
    /\ current' = b
    /\ n_push' = holds[b]
    /\ t_capture' = holds[b]
    /\ UNCHANGED <<fd_open, n_bufs, mapped, streaming, holds, sequence, unqueued, overrun>>

DequeueCountsPulls ==
  \E b \in Buf, size \in Sizes :
    /\ where[b] = "done"
    /\ \A c \in Buf : where[c] = "done" => holds[b] <= holds[c]
    /\ Grabbed([id |-> holds[b], size |-> IF Compressed THEN size ELSE "full"])
    /\ where' = [where EXCEPT ![b] = "user"]
    /\ current' = b
    /\ n_push' = n_push + 1
    /\ t_capture' = holds[b]
    /\ UNCHANGED <<fd_open, n_bufs, mapped, streaming, holds, sequence, unqueued, overrun>>

(***************************************************************************)
(* DQBUF takes the buffer filled first.  The capture time and the counter  *)
(* are written here, by the only thread that reads them.  A JPEG Frame has *)
(* the buffer's bytesused; the raw conversion always makes a whole image.  *)
(***************************************************************************)
Dequeue ==
  \E b \in Buf, size \in Sizes :
    /\ where[b] = "done"
    /\ \A c \in Buf : where[c] = "done" => holds[b] <= holds[c]
    /\ Grabbed([id |-> holds[b], size |-> IF Compressed THEN size ELSE "full"])
    /\ where' = [where EXCEPT ![b] = "user"]
    /\ current' = b
    /\ n_push' = holds[b]
    /\ t_capture' = holds[b]
    /\ UNCHANGED <<fd_open, n_bufs, mapped, streaming, holds, sequence, unqueued, overrun>>

\* push_count() and t_capture_ns() read the thread's own writes.
NodeAccount == Account(n_push) /\ UNCHANGED devVars

\* A slip: the buffer goes back as soon as the message is filled or refused.
CopyAndRequeue ==
  /\ Copy
  /\ where' = [where EXCEPT ![current] = "driver"]
  /\ UNCHANGED <<fd_open, n_bufs, mapped, streaming, holds, current, sequence,
                 n_push, t_capture, unqueued, overrun>>

NodeCopy == Copy /\ UNCHANGED devVars

\* A slip: the time of the newest frame the driver has numbered.
NodeLogCbkNewest == LogCbk(sequence) /\ UNCHANGED devVars

NodeLogCbk == LogCbk(t_capture) /\ UNCHANGED devVars

NodeSend == Send /\ UNCHANGED devVars

NodeLogPub == LogPub /\ UNCHANGED devVars

\* A slip: the index is cleared and the buffer is not queued.
ReleaseForgets ==
  /\ Released
  /\ current' = NoBuf
  /\ UNCHANGED <<fd_open, n_bufs, mapped, streaming, where, holds,
                 sequence, n_push, t_capture, unqueued, overrun>>

\* release(): QBUF of the current buffer.
ReleaseRequeues ==
  /\ Released
  /\ IF current = NoBuf
     THEN UNCHANGED where
     ELSE where' = [where EXCEPT ![current] = "driver"]
  /\ current' = NoBuf
  /\ UNCHANGED <<fd_open, n_bufs, mapped, streaming, holds, sequence, n_push,
                 t_capture, unqueued, overrun>>

\* QBUF fails: a warning, and the buffer is forgotten all the same.
ReleaseFails ==
  /\ Released
  /\ current # NoBuf
  /\ unqueued' = unqueued \union {current}
  /\ current' = NoBuf
  /\ UNCHANGED <<fd_open, n_bufs, mapped, streaming, where, holds,
                 sequence, n_push, t_capture, overrun>>

--------------------------------------------------------------------------------
\* After shutdown nothing moves; after an overrun nothing is said.
Terminated == (main = "stopped" \/ overrun) /\ UNCHANGED vars

GrabThread == \/ NodeLoopHead
              \/ GrabNothing
              \/ Dequeue
              \/ NodeAccount
              \/ NodeCopy
              \/ NodeLogCbk
              \/ NodeSend
              \/ NodeLogPub
              \/ ReleaseRequeues
              \/ ReleaseFails

Next == \/ StartStreaming
        \/ StartOverruns
        \/ StartFailed
        \/ MainRequestStop
        \/ MainJoin
        \/ StopBackend
        \/ StopOverruns
        \/ FillBuffer
        \/ LoseFrame
        \/ GrabThread
        \/ Terminated

Spec == Init /\ [][Next]_vars

\* The grab thread runs, and main in shutdown().  The camera promises nothing.
FairSpec == /\ Spec
            /\ WF_vars(GrabThread)
            /\ WF_vars(MainJoin)
            /\ WF_vars(StopBackend \/ StopOverruns)

--------------------------------------------------------------------------------
(* Properties *)

\* Types; and no loop over the buffers leaves bufs_ (opencv_backend.hpp:52) unless the
\* driver granted more buffers than the kBufCount asked for (opencv_backend.cpp:153, 111).
TypeOK == /\ NodeTypeOK
          /\ fd_open \in BOOLEAN
          /\ n_bufs \in 0 .. MaxGrant
          /\ mapped \in 0 .. kBufCount
          /\ streaming \in BOOLEAN
          /\ where \in [Buf -> {"none", "driver", "done", "user"}]
          /\ holds \in [Buf -> Nat]
          /\ current \in Buf \union {NoBuf}
          /\ sequence \in Nat
          /\ n_push \in Nat
          /\ t_capture \in Nat
          /\ unqueued \subseteq Buf
          /\ overrun \in BOOLEAN
          /\ overrun => n_bufs > kBufCount

(***************************************************************************)
(* The drop accounting is exact with this backend: every frame up to the   *)
(* last one accounted for was pulled or reported, and none reported was    *)
(* pulled, before or later.                                                *)
(***************************************************************************)
ExactDrops == pc # "account" => /\ n_pull + total_drops = last_push_seen
                                /\ grabbed <= last_push_seen
                                /\ \A b \in Buf : where[b] = "done" => holds[b] > last_push_seen

\* No buffer gets lost to the pool but by a QBUF that failed: one that is out is the
\* one release() will queue.
BuffersAccounted == \A b \in Buf : where[b] = "user" => b = current \/ b \in unqueued

\* While the node may read a frame, the device is open and streaming and the driver
\* cannot write the frame's buffer.
BorrowedWhileUsed ==
  pc \in Holding => /\ fd_open /\ streaming
                    /\ current # NoBuf
                    /\ where[current] = "user"
                    /\ holds[current] = frame.id

\* After stop() nothing is open or mapped, however far start() got.
NothingLeft == main = "stopped" => ~fd_open /\ mapped = 0

\* A buffer that is out comes back to the driver unless its QBUF fails, or all are freed.
BufferComesBack ==
  \A b \in Buf : where[b] = "user" ~> where[b] # "user" \/ b \in unqueued

\* What the interface sees of this backend.
Life == IF main = "starting" THEN "idle"
        ELSE IF main = "stopped" THEN "stopped"
        ELSE IF streaming THEN "streaming"
        ELSE "failed"

Backend == INSTANCE CameraBackend
             WITH life <- Life,
                  borrowed <- IF current = NoBuf THEN 0 ELSE holds[current],
                  handed <- grabbed,
                  pushed <- n_push

\* This backend keeps the promises of camera_backend.hpp.
ImplementsBackend == Backend!Spec

\* A requested stop is never held up, whatever the driver does; what follows an
\* overrun of bufs_ is not defined.
ShutdownCompletes == main = "joining" ~> main = "stopped" \/ overrun

================================================================================
