----------------------------- MODULE CameraBackend -----------------------------
(***************************************************************************)
(* What include/camera_backend.hpp promises the node, whatever the backend *)
(* is: start() once, then grab() and release() in turns, then stop().      *)
(* Frames are numbered in the order the driver pushes them, from 1.        *)
(*                                                                         *)
(*   - a grabbed frame is borrowed until the matching release(), and no    *)
(*     second frame is handed out before it;                               *)
(*   - frames come in the order they were captured and never twice;        *)
(*   - push_count covers every frame handed out and never goes back;       *)
(*   - stop() comes when no frame is borrowed, once, and ends everything.  *)
(*                                                                         *)
(* GstCapture and V4l2Capture are shown to implement Spec.                 *)
(***************************************************************************)
EXTENDS Naturals

VARIABLES life,         \* "idle", "streaming", "failed" (start returned false), "stopped"
          borrowed,     \* number of the frame the node may read, 0 when none
          handed,       \* number of the last frame handed out
          pushed        \* what push_count() can report at most

ifVars == <<life, borrowed, handed, pushed>>

IfInit == /\ life = "idle"
          /\ borrowed = 0
          /\ handed = 0
          /\ pushed = 0

\* start() returns true, or false after some setup failure.
Start == /\ life = "idle"
         /\ life' \in {"streaming", "failed"}
         /\ UNCHANGED <<borrowed, handed, pushed>>

\* The driver pushes frames that the node has not seen yet.
Push == /\ life = "streaming"
        /\ pushed' > pushed
        /\ UNCHANGED <<life, borrowed, handed>>

\* grab() returns a valid frame, newer than all before it.
Grab == /\ life = "streaming"
        /\ borrowed = 0
        /\ borrowed' > handed
        /\ handed' = borrowed'
        /\ pushed' >= pushed
        /\ borrowed' <= pushed'
        /\ UNCHANGED life

Release == /\ borrowed # 0
           /\ borrowed' = 0
           /\ UNCHANGED <<life, handed, pushed>>

\* stop(), after the grab thread has ended.
Stop == /\ life \in {"streaming", "failed"}
        /\ borrowed = 0
        /\ life' = "stopped"
        /\ UNCHANGED <<borrowed, handed, pushed>>

IfNext == Start \/ Push \/ Grab \/ Release \/ Stop

Spec == IfInit /\ [][IfNext]_ifVars

================================================================================
