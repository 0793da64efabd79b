------------------------------- MODULE GstCapture -------------------------------
(***************************************************************************)
(* The GStreamer backend (src/src/gst_backend.cpp) under the grab thread.  *)
(*                                                                         *)
(* Three threads: main (start, stop), the grab thread (grab, release,      *)
(* push_count, t_capture_ns) and GStreamer's streaming thread, which takes *)
(* a buffer from v4l2src, runs the pad probe on_src_push, converts it and  *)
(* hands it to the appsink.  There is no queue element: one streaming      *)
(* thread does all of it for one buffer before it takes the next.  How     *)
(* many buffers the appsink keeps, and what it does when it is full, is    *)
(* what the description of the pipeline says of it.                        *)
(***************************************************************************)
EXTENDS GrabLoop, FiniteSets

VARIABLES pipeline,     \* "none", "built", "playing", "halted" (ERROR or EOS)
          t_push,       \* t_push_ns_, as the number of the frame stamped last
          n_push,       \* n_push_
          converting,   \* frame between the probe and the appsink, 0 when none
          queue,        \* numbers of the frames in the appsink
          sample,       \* sample_ (and its memory_), 0 when null
          lost          \* ghost: frames pushed that the node never accounts for

gstVars == <<pipeline, t_push, n_push, converting, queue, sample, lost>>
vars == <<nodeVars, gstVars>>

b2n(b) == IF b THEN 1 ELSE 0

\* A slip: room for a frame more.
KeepsTwo == 2

\* max-buffers and drop of the appsink.
kMaxBuffers == 1
kDrop == TRUE

\* f is what try_pull_sample() takes, and what a full appsink drops.
Oldest(f) == f \in queue /\ \A g \in queue : f <= g

Init == /\ NodeInit
        /\ pipeline = "none"
        /\ t_push = 0
        /\ n_push = 0
        /\ converting = 0
        /\ queue = {}
        /\ sample = 0
        /\ lost = 0

--------------------------------------------------------------------------------
(* Main thread *)

StartPlaying == /\ StartOk
                /\ pipeline' = "playing"
                /\ UNCHANGED <<t_push, n_push, converting, queue, sample, lost>>

\* No pipeline at all, or a pipeline that cannot be linked or set to PLAYING.
StartFailed == /\ StartFails
               /\ pipeline' \in {"none", "built"}
               /\ UNCHANGED <<t_push, n_push, converting, queue, sample, lost>>

MainRequestStop == RequestStop /\ UNCHANGED gstVars

MainJoin == Join /\ UNCHANGED gstVars

(***************************************************************************)
(* stop(): release(), then state NULL, which waits for the streaming       *)
(* thread to leave the probe and drops what is still in the pipeline.      *)
(***************************************************************************)
StopBackend == /\ Stopped
               /\ t_push = n_push
               /\ sample' = 0
               /\ pipeline' = "none"
               /\ converting' = 0
               /\ queue' = {}
               /\ lost' = lost + b2n(converting # 0) + Cardinality(queue)
               /\ UNCHANGED <<t_push, n_push>>

--------------------------------------------------------------------------------
(* Streaming thread *)

\* on_src_push, first statement: the frame's time goes to a plain field.
ProbeStamp == /\ pipeline = "playing"
              /\ t_push = n_push /\ converting = 0
              /\ n_push < MaxFrames
              /\ t_push' = n_push + 1
              /\ UNCHANGED <<nodeVars, pipeline, n_push, converting, queue, sample, lost>>

\* on_src_push, second statement: the counter.  The buffer goes downstream.
ProbeCount == /\ t_push > n_push
              /\ n_push' = n_push + 1
              /\ converting' = t_push
              /\ UNCHANGED <<nodeVars, pipeline, t_push, queue, sample, lost>>

(***************************************************************************)
(* The frame is put in the appsink.  When that is full the oldest frame    *)
(* goes; without drop the streaming thread would wait for room instead.    *)
(***************************************************************************)
Render == /\ converting # 0
          /\ converting' = 0
          /\ \/ /\ Cardinality(queue) < kMaxBuffers
                /\ queue' = queue \union {converting}
                /\ UNCHANGED lost
             \/ /\ Cardinality(queue) >= kMaxBuffers /\ kDrop
                /\ \E f \in queue : /\ Oldest(f)
                                    /\ queue' = (queue \ {f}) \union {converting}
                /\ lost' = lost + 1
          /\ UNCHANGED <<nodeVars, pipeline, t_push, n_push, sample>>

\* v4l2src or a converter posts ERROR or EOS; streaming ends for good, a buffer
\* on its way is gone.  The node only logs the message (drain_bus).
Halt == /\ pipeline = "playing"
        /\ t_push = n_push
        /\ pipeline' = "halted"
        /\ converting' = 0
        /\ lost' = lost + b2n(converting # 0)
        /\ UNCHANGED <<nodeVars, t_push, n_push, queue, sample>>

--------------------------------------------------------------------------------
(* Grab thread *)

NodeLoopHead == LoopHead /\ UNCHANGED gstVars

\* A slip: the frame stays in the appsink.
GrabFramePeeks == \E f \in queue, size \in Sizes :
                    /\ Oldest(f)
                    /\ Grabbed([id |-> f, size |-> size])
                    /\ lost' = lost + b2n(size = "empty")
                    /\ sample' = f
                    /\ UNCHANGED <<pipeline, t_push, n_push, converting, queue>>

(***************************************************************************)
(* try_pull_sample finds a buffer and it can be mapped.  An empty one makes *)
(* an invalid Frame: the node does not release() it and the next grab()    *)
(* overwrites sample_.                                                     *)
(***************************************************************************)
GrabFrame == \E f \in queue, size \in Sizes :
               /\ Oldest(f)
               /\ Grabbed([id |-> f, size |-> size])
               /\ lost' = lost + b2n(size = "empty")
               /\ sample' = f
               /\ queue' = queue \ {f}
               /\ UNCHANGED <<pipeline, t_push, n_push, converting>>

\* The sample has no buffer, no memory, or the map fails: discard_sample().
GrabDiscards == \E f \in queue :
                  /\ Oldest(f)
                  /\ Grabbed(NoFrame)
                  /\ lost' = lost + 1
                  /\ sample' = 0
                  /\ queue' = queue \ {f}
                  /\ UNCHANGED <<pipeline, t_push, n_push, converting>>

\* 100 ms without a buffer, or at once from a pipeline that ended: sample_ is null.
GrabTimeout == /\ queue = {}
               /\ Grabbed(NoFrame)
               /\ sample' = 0
               /\ UNCHANGED <<pipeline, t_push, n_push, converting, queue, lost>>

(***************************************************************************)
(* push_count() is a relaxed load.  It cannot return less than frame.id:   *)
(* the streaming thread counted the frame before it locked the appsink to  *)
(* put it there, and grab() took it under the same lock.  Nor less than    *)
(* the load before it.  It may return more: later frames are on their way. *)
(***************************************************************************)
NodeAccount ==
  /\ \E push_now \in frame.id .. n_push :
       /\ push_now >= last_push_seen
       /\ Account(push_now)
  /\ UNCHANGED gstVars

NodeCopy == Copy /\ UNCHANGED gstVars

\* t_push_ns_ is a plain field written by the streaming thread meanwhile: a data
\* race.  The read returns any of the stamps written since this frame's.
NodeLogCbk == /\ \E t \in frame.id .. t_push : LogCbk(t)
              /\ UNCHANGED gstVars

NodeSend == Send /\ UNCHANGED gstVars

NodeLogPub == LogPub /\ UNCHANGED gstVars

\* A slip: release() forgets the sample.
NodeReleaseForgets == Released /\ UNCHANGED gstVars

NodeRelease == /\ Released
               /\ sample' = 0
               /\ UNCHANGED <<pipeline, t_push, n_push, converting, queue, lost>>

--------------------------------------------------------------------------------
\* After shutdown nothing moves.
Terminated == main = "stopped" /\ UNCHANGED vars

GrabThread == \/ NodeLoopHead
              \/ GrabFrame
              \/ GrabDiscards
              \/ GrabTimeout
              \/ NodeAccount
              \/ NodeCopy
              \/ NodeLogCbk
              \/ NodeSend
              \/ NodeLogPub
              \/ NodeRelease

Next == \/ StartPlaying
        \/ StartFailed
        \/ MainRequestStop
        \/ MainJoin
        \/ StopBackend
        \/ ProbeStamp
        \/ ProbeCount
        \/ Render
        \/ Halt
        \/ GrabThread
        \/ Terminated

Spec == Init /\ [][Next]_vars

(***************************************************************************)
(* Threads run: the grab thread, the streaming thread in the middle of a   *)
(* buffer, and main in shutdown().  Nothing is promised of the camera's    *)
(* triggers, of errors or of signals.                                      *)
(***************************************************************************)
FairSpec == /\ Spec
            /\ WF_vars(GrabThread)
            /\ WF_vars(ProbeCount)
            /\ WF_vars(Render)
            /\ WF_vars(MainJoin)
            /\ WF_vars(StopBackend)

--------------------------------------------------------------------------------
(* Properties *)

\* Types; the unsigned counters of the node stay natural numbers, its record index in range.
TypeOK == /\ NodeTypeOK
          /\ pipeline \in {"none", "built", "playing", "halted"}
          /\ t_push \in Nat
          /\ n_push \in Nat
          /\ converting \in Nat
          /\ queue \subseteq Nat
          /\ sample \in Nat
          /\ lost \in Nat

\* Every frame v4l2src pushed is in exactly one place: pulled by the node, lost, in
\* conversion, in the appsink, or in the node's hands and not yet counted.
FrameConservation ==
  n_push = n_pull + lost + b2n(pc = "account") + b2n(converting # 0) + Cardinality(queue)

\* Latency: however long the node was busy with the frame before, what grab() hands out
\* is the newest frame the driver has pushed by then, or the one before it.
GrabsNewest == [][grabbed' # grabbed => grabbed' + 1 >= n_push]_<<grabbed, n_push>>

\* A frame the node may read is mapped: release() and stop() never come in between.
BorrowedWhileUsed == pc \in Holding => sample = frame.id /\ pipeline \in {"playing", "halted"}

\* What the interface sees of this backend.
Life == IF main = "starting" THEN "idle"
        ELSE IF main = "stopped" THEN "stopped"
        ELSE IF pipeline \in {"playing", "halted"} THEN "streaming"
        ELSE "failed"

Backend == INSTANCE CameraBackend
             WITH life <- Life, borrowed <- sample, handed <- grabbed, pushed <- n_push

\* This backend keeps the promises of camera_backend.hpp.
ImplementsBackend == Backend!Spec

\* A requested stop is never held up, whatever the pipeline does.
ShutdownCompletes == main = "joining" ~> main = "stopped"

\* A frame in the appsink does not stay there.
RenderedFrameLeaves == \A f \in 1 .. MaxFrames : f \in queue ~> f \notin queue

(***************************************************************************)
(* What the README (line 175) says of the drop accounting: the push_count  *)
(* delta minus the one just received IS the drop.  So once no frame is on  *)
(* its way, total_drops is at most the number of frames lost.  It is not:  *)
(* a frame still on its way is reported as dropped, and then delivered.    *)
(***************************************************************************)
DropsAreLost == converting = 0 /\ queue = {} => total_drops <= lost

================================================================================
