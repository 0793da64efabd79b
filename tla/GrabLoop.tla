-------------------------------- MODULE GrabLoop --------------------------------
(***************************************************************************)
(* The grab thread of the node and the part of the main thread that starts *)
(* and stops it (src/src/econ_ros2_driver.cpp): grab a frame from the      *)
(* backend, account for dropped frames, stamp and copy it into the         *)
(* reusable message, log it in the blackbox, publish it, log again, give   *)
(* the frame back; on shutdown join the thread, then stop the backend.     *)
(*                                                                         *)
(* The backend is a parameter in the form of modules that EXTEND this one: *)
(* GstCapture and V4l2Capture add the capture state, grab() and release()  *)
(* and say which values push_count() and t_capture_ns() can return at the  *)
(* step that reads them.  Frames are numbered by the driver from 1.        *)
(*                                                                         *)
(* stop stands for "stop_ is set or rclcpp::ok() is false": the loop reads *)
(* both in one condition.                                                  *)
(***************************************************************************)
EXTENDS BlackboxRecords

CONSTANTS Compressed,   \* Params::compressed: CompressedImage, or raw bgr8 Image
          Sizes,        \* sizes a captured buffer may have
          MaxFrames     \* bound: frames the driver pushes in one behaviour

ASSUME GrabLoopAssumption == /\ Compressed \in BOOLEAN
                             /\ Sizes \subseteq {"full", "short", "empty"}
                             /\ MaxFrames \in Nat

VARIABLES main,             \* main thread, from backend start to backend stop
          stop,             \* the loop has to end
          pc,               \* grab thread, "none" before it is spawned
          frame,            \* the Frame of this turn of the loop
          grabbed,          \* ghost: number of the last valid frame
          record_idx,       \* what log_cbk returned in this turn
          published,        \* ghost: last frame publish() was called with
          n_pull, last_push_seen, total_drops

nodeVars == <<main, stop, pc, frame, grabbed, record_idx, published,
              n_pull, last_push_seen, total_drops, boxVars>>

Main == {"starting", "spinning", "degraded", "joining", "joined", "stopped"}

PC == {"none", "loop", "grab", "account", "copy", "log", "send", "log_pub",
       "release", "done"}

\* Steps at which the thread may read the bytes of its frame, or gives it back.
Holding == {"account", "copy", "log", "send", "log_pub", "release"}

\* "short": fewer bytes than expected_size.  "empty": none at all.
Frames == [id : Nat, size : {"full", "short", "empty"}]

\* The default Frame, returned on timeout and on every failure of grab().
NoFrame == [id |-> 0, size |-> "empty"]

Valid(f) == f.id # 0 /\ f.size # "empty"

NodeTypeOK ==
  /\ main \in Main
  /\ stop \in BOOLEAN
  /\ pc \in PC
  /\ frame \in Frames
  /\ grabbed \in Nat
  /\ record_idx \in Slot \union {SIZE_MAX}
  /\ published \in Nat
  /\ n_pull \in Nat
  /\ last_push_seen \in Nat
  /\ total_drops \in Nat
  /\ BoxTypeOK

NodeInit ==
  /\ main = "starting"
  /\ stop = FALSE
  /\ pc = "none"
  /\ frame = NoFrame
  /\ grabbed = 0
  /\ record_idx = SIZE_MAX
  /\ published = 0
  /\ n_pull = 0
  /\ last_push_seen = 0
  /\ total_drops = 0
  /\ BoxInit

--------------------------------------------------------------------------------
(* Main thread *)

\* backend_->start() returned true: the constructor spawns the grab thread.
StartOk == /\ main = "starting"
           /\ main' = "spinning"
           /\ pc' = "loop"
           /\ UNCHANGED <<stop, frame, grabbed, record_idx, published,
                          n_pull, last_push_seen, total_drops, boxVars>>

\* start() returned false: the constructor returns early, and main() spins the
\* node all the same.
StartFails == /\ main = "starting"
              /\ main' = "degraded"
              /\ UNCHANGED <<stop, pc, frame, grabbed, record_idx, published,
                             n_pull, last_push_seen, total_drops, boxVars>>

\* A signal ends spin(); the destructor calls shutdown().
RequestStop == /\ main \in {"spinning", "degraded"}
               /\ main' = "joining"
               /\ stop' = TRUE
               /\ UNCHANGED <<pc, frame, grabbed, record_idx, published,
                              n_pull, last_push_seen, total_drops, boxVars>>

\* A slip that goes on without waiting for the thread.
JoinWithoutWaiting ==
  /\ main = "joining"
  /\ main' = "joined"
  /\ UNCHANGED <<stop, pc, frame, grabbed, record_idx, published,
                 n_pull, last_push_seen, total_drops, boxVars>>

\* joinable() is false for a thread that never was.
Join == /\ main = "joining"
        /\ pc \in {"none", "done"}
        /\ main' = "joined"
        /\ UNCHANGED <<stop, pc, frame, grabbed, record_idx, published,
                       n_pull, last_push_seen, total_drops, boxVars>>

\* The part of backend_->stop() that the node sees; the backends add theirs.
Stopped == /\ main = "joined"
           /\ main' = "stopped"
           /\ UNCHANGED <<stop, pc, frame, grabbed, record_idx, published,
                          n_pull, last_push_seen, total_drops, boxVars>>

--------------------------------------------------------------------------------
(* Grab thread *)

\* A slip: the loop looks at stop only after a turn with a frame.
LoopHeadWhileFrames ==
  /\ pc = "loop"
  /\ pc' = IF stop /\ grabbed # 0 THEN "done" ELSE "grab"
  /\ UNCHANGED <<main, stop, frame, grabbed, record_idx, published,
                 n_pull, last_push_seen, total_drops, boxVars>>

\* The loop condition: neither stop_ nor a context that was shut down.
LoopHead ==
  /\ pc = "loop"
  /\ pc' = IF stop THEN "done" ELSE "grab"
  /\ UNCHANGED <<main, stop, frame, grabbed, record_idx, published,
                 n_pull, last_push_seen, total_drops, boxVars>>

\* A slip: break where the code has continue.
GrabbedOrBreak(f) ==
  /\ pc = "grab"
  /\ frame' = f
  /\ IF Valid(f)
     THEN pc' = "account" /\ grabbed' = f.id
     ELSE pc' = "done" /\ UNCHANGED grabbed
  /\ UNCHANGED <<main, stop, record_idx, published,
                 n_pull, last_push_seen, total_drops, boxVars>>

\* grab() returns f; the loop starts over on an invalid Frame.
Grabbed(f) ==
  /\ pc = "grab"
  /\ frame' = f
  /\ IF Valid(f)
     THEN pc' = "account" /\ grabbed' = f.id
     ELSE pc' = "loop" /\ UNCHANGED grabbed
  /\ UNCHANGED <<main, stop, record_idx, published,
                 n_pull, last_push_seen, total_drops, boxVars>>

\* A slip in the threshold.
DropsAboveTwo(pushed_since) == IF pushed_since > 2 THEN pushed_since - 1 ELSE 0

\* Driver pushes since the last grab, minus the frame just received.
Drops(pushed_since) == IF pushed_since > 1 THEN pushed_since - 1 ELSE 0

(***************************************************************************)
(* push_now is what push_count() returned.  The subtraction is unsigned in *)
(* the code; it never wraps, because no backend's counter goes back.       *)
(***************************************************************************)
Account(push_now) ==
  /\ pc = "account"
  /\ pc' = "copy"
  /\ n_pull' = n_pull + 1
  /\ last_push_seen' = push_now
  /\ total_drops' = total_drops + Drops(push_now - last_push_seen)
  /\ UNCHANGED <<main, stop, frame, grabbed, record_idx, published, boxVars>>

\* publish() up to the memcpy.  A raw frame that is too small is not published.
Copy ==
  /\ pc = "copy"
  /\ \/ /\ Compressed \/ frame.size = "full"
        /\ pc' = "log"
     \/ /\ ~Compressed /\ frame.size # "full"
        /\ pc' = "release"
  /\ UNCHANGED <<main, stop, frame, grabbed, record_idx, published,
                 n_pull, last_push_seen, total_drops, boxVars>>

\* A slip: a full blackbox ends the turn.
LogCbkOrSkip(t) ==
  /\ pc = "log"
  /\ pc' = IF next_idx = SIZE_MAX THEN "release" ELSE "send"
  /\ record_idx' = next_idx
  /\ log_cbk(frame.id, t)
  /\ UNCHANGED <<main, stop, frame, grabbed, published,
                 n_pull, last_push_seen, total_drops>>

\* t_capture_ns() returned the time of frame t; log_cbk takes a record.
LogCbk(t) ==
  /\ pc = "log"
  /\ pc' = "send"
  /\ record_idx' = next_idx
  /\ log_cbk(frame.id, t)
  /\ UNCHANGED <<main, stop, frame, grabbed, published,
                 n_pull, last_push_seen, total_drops>>

\* publish() of the one reusable message; the copy to DDS is synchronous.  After a
\* signal rclcpp may drop the message and say nothing.
Send ==
  /\ pc = "send"
  /\ pc' = "log_pub"
  /\ published' = frame.id
  /\ UNCHANGED <<main, stop, frame, grabbed, record_idx,
                 n_pull, last_push_seen, total_drops, boxVars>>

LogPub ==
  /\ pc = "log_pub"
  /\ pc' = "release"
  /\ log_pub(record_idx)
  /\ UNCHANGED <<main, stop, frame, grabbed, record_idx, published,
                 n_pull, last_push_seen, total_drops>>

\* The turn ends; the backends add what release() does.  frame goes out of scope.
Released ==
  /\ pc = "release"
  /\ pc' = "loop"
  /\ frame' = NoFrame
  /\ UNCHANGED <<main, stop, grabbed, record_idx, published,
                 n_pull, last_push_seen, total_drops, boxVars>>

--------------------------------------------------------------------------------
(* What the node promises, whatever the backend *)

\* No lost frame goes unreported: when a turn has been accounted for, every frame
\* up to the last one grabbed was pulled or is in total_drops.
NoDropMissed == pc # "account" => grabbed <= n_pull + total_drops

\* Frames are published in capture order and none twice.
InOrderPublish == [][pc = "send" /\ pc' # "send" => published' > published]_<<pc, published>>

\* publish() is called with every whole frame that was pulled, also when the blackbox
\* is full and when a stop comes in the middle of the turn.
PulledIsPublished ==
  \A n \in 1 .. MaxFrames :
    (pc = "account" /\ frame = [id |-> n, size |-> "full"]) ~> published = n

(***************************************************************************)
(* The blackbox tells the publish history: record i has sequence number    *)
(* i + 1, the records are in frame order, all of them are closed but the   *)
(* one of the turn in progress, which is open exactly from log_cbk to      *)
(* log_pub, and a closed record's frame has been published.                *)
(***************************************************************************)
RecordsTellHistory ==
  \A i \in Slot :
    /\ (i < idx) = base[i].cap_done
    /\ base[i].cap_done =>
         /\ base[i].seq = i + 1
         /\ base[i].header_stamp <= grabbed
         /\ \A j \in Slot : j < i => base[j].header_stamp < base[i].header_stamp
         /\ ~base[i].ros_done <=> pc \in {"send", "log_pub"} /\ record_idx = i
         /\ base[i].ros_done => base[i].header_stamp <= published

(***************************************************************************)
(* What blackbox.hpp:59 says of t_capture_ns: the backend's capture stamp  *)
(* of the record's frame.  True of V4l2Capture; in GstCapture it may be    *)
(* the stamp of a later frame.                                             *)
(***************************************************************************)
RecordHasOwnCapture == \A i \in Slot : base[i].t_capture_ns = base[i].header_stamp

================================================================================
