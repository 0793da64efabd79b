----------------------------- MODULE NodeLifecycle -----------------------------
(***************************************************************************)
(* The life of the driver process (src/src/econ_ros2_driver.cpp): the      *)
(* constructor that sets the node up part by part and may stop half-way,   *)
(* spin(), and the destructor that takes it down in the opposite order,    *)
(* while the grab thread and the blackbox's writer thread run and a signal *)
(* may come at any time.                                                   *)
(*                                                                         *)
(* GrabLoop has the data of a turn of the grab thread; here a turn is only *)
(* the resources it touches, in order.                                     *)
(***************************************************************************)

VARIABLES main,         \* where the main thread is
          ok,           \* rclcpp::ok(): no signal yet
          stop,         \* stop_
          grab,         \* the grab thread
          writer,       \* Box::writer
          running,      \* Box::running
          box,          \* the blackbox file: "closed" or "open" (fd, base)
          backend,      \* backend_: "none" (null), "unknown" (null: no such name),
                        \* "failed" (start() was false), "streaming", "stopped"
          stamper,      \* the time share file is mapped
          hid           \* hid_fd_ >= 0

vars == <<main, ok, stop, grab, writer, running, box, backend, stamper, hid>>

Ctor == {"params", "box", "publisher", "hid", "backend", "spawn"}
Dtor == {"d_stop", "d_join", "d_backend", "d_stamper", "d_hid",
         "d_flag", "d_writer", "d_box"}
Over == {"exit", "aborted"}

Init == /\ main = "params"
        /\ ok = TRUE
        /\ stop = FALSE
        /\ grab = "none"
        /\ writer = "none"
        /\ running = FALSE
        /\ box = "closed"
        /\ backend = "none"
        /\ stamper = FALSE
        /\ hid = FALSE

--------------------------------------------------------------------------------
(* Constructor *)

\* An exception leaves main(): the process is aborted, and no destructor runs.
Throw == /\ main' = "aborted"
         /\ grab' = "none"
         /\ writer' = "none"
         /\ UNCHANGED <<ok, stop, running, box, backend, stamper, hid>>

LoadParams == /\ main = "params"
              /\ \/ /\ main' = "box"
                    /\ UNCHANGED <<ok, stop, grab, writer, running, box, backend,
                                   stamper, hid>>
                 \/ Throw

\* blackbox::image::init: open, fallocate and mmap may fail, and throw.
InitBox == /\ main = "box"
           /\ \/ /\ main' = "publisher"
                 /\ box' = "open"
                 /\ running' = TRUE
                 /\ writer' = "head"
                 /\ UNCHANGED <<ok, stop, grab, backend, stamper, hid>>
              \/ Throw

SetupPublisher == /\ main = "publisher"
                  /\ \/ /\ main' = "hid"
                        /\ UNCHANGED <<ok, stop, grab, writer, running, box, backend,
                                       stamper, hid>>
                     \/ Throw

\* A failure may leave the device open; the constructor returns, and main() spins.
\* HidControl has the steps of it, and how long they may take.
InitHid == /\ main = "hid"
           /\ \/ main' = "backend" /\ hid' = TRUE
              \/ main' = "enter" /\ hid' \in BOOLEAN
           /\ UNCHANGED <<ok, stop, grab, writer, running, box, backend, stamper>>

\* An unknown name makes no backend; start() of a known one may fail.
InitBackend == /\ main = "backend"
               /\ \/ main' = "enter" /\ backend' \in {"unknown", "failed"}
                  \/ main' = "spawn" /\ backend' = "streaming"
               /\ UNCHANGED <<ok, stop, grab, writer, running, box, stamper, hid>>

Spawn == /\ main = "spawn"
         /\ main' = "enter"
         /\ grab' = "head"
         /\ UNCHANGED <<ok, stop, writer, running, box, backend, stamper, hid>>

--------------------------------------------------------------------------------
(* Signal, spin, destructor *)

\* The signal handler of rclcpp shuts the context down, at any time.
Signal == /\ ok /\ main \notin Over
          /\ ok' = FALSE
          /\ UNCHANGED <<main, stop, grab, writer, running, box, backend, stamper, hid>>

\* The constructor has returned.  rclcpp::spin throws if a signal has shut the context
\* down meanwhile, or finds that it has nothing to do.
SpinBegins == /\ main = "enter"
              /\ \/ /\ main' = "spin"
                    /\ UNCHANGED <<ok, stop, grab, writer, running, box, backend,
                                   stamper, hid>>
                 \/ ~ok /\ Throw

\* spin() returns, the last reference to the node goes.
SpinReturns == /\ main = "spin" /\ ~ok
               /\ main' = "d_stop"
               /\ UNCHANGED <<ok, stop, grab, writer, running, box, backend, stamper, hid>>

StoreStop == /\ main = "d_stop"
             /\ main' = "d_join"
             /\ stop' = TRUE
             /\ UNCHANGED <<ok, grab, writer, running, box, backend, stamper, hid>>

\* A slip: the thread is left to end by itself.
DetachGrab == /\ main = "d_join"
              /\ main' = "d_backend"
              /\ UNCHANGED <<ok, stop, grab, writer, running, box, backend, stamper, hid>>

JoinGrab == /\ main = "d_join"
            /\ grab \in {"none", "done"}
            /\ main' = "d_backend"
            /\ UNCHANGED <<ok, stop, grab, writer, running, box, backend, stamper, hid>>

\* A slip: no check for a null backend_.
StopBackendUnchecked ==
  /\ main = "d_backend"
  /\ main' = "d_stamper"
  /\ backend' = IF backend \in {"none", "unknown"} THEN "call_on_null" ELSE "stopped"
  /\ UNCHANGED <<ok, stop, grab, writer, running, box, stamper, hid>>

StopBackend == /\ main = "d_backend"
               /\ main' = "d_stamper"
               /\ backend' = IF backend \in {"none", "unknown"} THEN backend ELSE "stopped"
               /\ UNCHANGED <<ok, stop, grab, writer, running, box, stamper, hid>>

CloseStamper == /\ main = "d_stamper"
                /\ main' = "d_hid"
                /\ stamper' = FALSE
                /\ UNCHANGED <<ok, stop, grab, writer, running, box, backend, hid>>

\* A slip: the device is closed only when its set-up had gone through.
CloseHidIfInit == /\ main = "d_hid"
                  /\ main' = "d_flag"
                  /\ hid' = (hid /\ backend = "none")
                  /\ UNCHANGED <<ok, stop, grab, writer, running, box, backend, stamper>>

CloseHid == /\ main = "d_hid"
            /\ main' = "d_flag"
            /\ hid' = FALSE
            /\ UNCHANGED <<ok, stop, grab, writer, running, box, backend, stamper>>

\* A slip: the writer is joined without being told.
BoxKeepsRunning == /\ main = "d_flag"
                   /\ main' = "d_writer"
                   /\ UNCHANGED <<ok, stop, grab, writer, running, box, backend,
                                  stamper, hid>>

\* Box::shutdown, in three steps: the flag, the join, the last sync and the unmap.
BoxStops == /\ main = "d_flag"
            /\ main' = "d_writer"
            /\ running' = FALSE
            /\ UNCHANGED <<ok, stop, grab, writer, box, backend, stamper, hid>>

JoinWriter == /\ main = "d_writer"
              /\ writer = "done"
              /\ main' = "d_box"
              /\ UNCHANGED <<ok, stop, grab, writer, running, box, backend, stamper, hid>>

FreeBox == /\ main = "d_box"
           /\ main' = "exit"
           /\ box' = "closed"
           /\ UNCHANGED <<ok, stop, grab, writer, running, backend, stamper, hid>>

--------------------------------------------------------------------------------
(* Grab thread: backend, then stamper, blackbox and publisher, then backend *)

\* The thread goes from one step to the next and touches nothing of main's.
GrabGoes(from, to) ==
  /\ grab = from
  /\ grab' \in to
  /\ UNCHANGED <<main, ok, stop, writer, running, box, backend, hid>>

GrabHead == GrabGoes("head", IF stop \/ ~ok THEN {"done"} ELSE {"grab"})
            /\ UNCHANGED stamper

\* grab(): a frame to publish, or none.
GrabFrame == GrabGoes("grab", {"stamp", "head"}) /\ UNCHANGED stamper

\* try_open may find the file or not; a short raw frame is not published.
GrabStamp == GrabGoes("stamp", {"log_cbk", "release"}) /\ stamper' \in {stamper, TRUE}

GrabLogCbk == GrabGoes("log_cbk", {"log_pub"}) /\ UNCHANGED stamper

GrabLogPub == GrabGoes("log_pub", {"release"}) /\ UNCHANGED stamper

GrabRelease == GrabGoes("release", {"head"}) /\ UNCHANGED stamper

GrabThread == \/ GrabHead
              \/ GrabFrame
              \/ GrabStamp
              \/ GrabLogCbk
              \/ GrabLogPub
              \/ GrabRelease

(* Writer thread *)

WriterGoes(from, to) ==
  /\ writer = from
  /\ writer' = to
  /\ UNCHANGED <<main, ok, stop, grab, running, box, backend, stamper, hid>>

\* The loop condition, one second of sleep, the flag again, fdatasync.
WriterHead == WriterGoes("head", IF running THEN "sleep" ELSE "done")

WriterWakes == WriterGoes("sleep", IF running THEN "sync" ELSE "done")

WriterSyncs == WriterGoes("sync", "head")

WriterThread == WriterHead \/ WriterWakes \/ WriterSyncs

--------------------------------------------------------------------------------
\* Nothing moves in a process that is over.
Terminated == main \in Over /\ UNCHANGED vars

Main == \/ LoadParams
        \/ InitBox
        \/ SetupPublisher
        \/ InitHid
        \/ InitBackend
        \/ Spawn
        \/ SpinBegins
        \/ SpinReturns
        \/ StoreStop
        \/ JoinGrab
        \/ StopBackend
        \/ CloseStamper
        \/ CloseHid
        \/ BoxStops
        \/ JoinWriter
        \/ FreeBox

Next == \/ Main
        \/ Signal
        \/ GrabThread
        \/ WriterThread
        \/ Terminated

Spec == Init /\ [][Next]_vars

\* Three threads run.  A signal need not come.
FairSpec == Spec /\ WF_vars(Main) /\ WF_vars(GrabThread) /\ WF_vars(WriterThread)

--------------------------------------------------------------------------------
(* Properties *)

\* Types; a null backend_ is never called.
TypeOK ==
  /\ main \in Ctor \union {"enter", "spin"} \union Dtor \union Over
  /\ ok \in BOOLEAN
  /\ stop \in BOOLEAN
  /\ grab \in {"none", "head", "grab", "stamp", "log_cbk", "log_pub", "release", "done"}
  /\ writer \in {"none", "head", "sleep", "sync", "done"}
  /\ running \in BOOLEAN
  /\ box \in {"closed", "open"}
  /\ backend \in {"none", "unknown", "failed", "streaming", "stopped"}
  /\ stamper \in BOOLEAN
  /\ hid \in BOOLEAN

\* Neither thread touches what main() has taken down: the grab thread the backend,
\* the stamper (a late try_open would map it for good) and the blackbox, the writer
\* the file it syncs.
NoUseAfterClose ==
  /\ grab \in {"grab", "stamp", "log_cbk", "log_pub", "release"} => backend = "streaming"
  /\ grab = "stamp" => main \notin {"d_hid", "d_flag", "d_writer", "d_box", "exit"}
  /\ grab \in {"log_cbk", "log_pub"} => box = "open"
  /\ writer = "sync" => box = "open"

\* Wherever the constructor stopped, a process that exits leaves no thread running
\* and nothing open.
CleanExit ==
  main = "exit" => /\ grab \in {"none", "done"}
                   /\ writer = "done"
                   /\ box = "closed"
                   /\ backend \in {"none", "unknown", "stopped"}
                   /\ ~stamper
                   /\ ~hid

\* A signal ends the process, whenever it comes and however far set-up got.
SignalEndsProcess == ~ok ~> main \in Over

(***************************************************************************)
(* What the comment at econ_ros2_driver.cpp:108 says of an unknown backend *)
(* name: the caller stops the node.  It does not: the constructor returns  *)
(* and main() spins a node that will never publish.                        *)
(***************************************************************************)
UnknownBackendStops == (main = "spin" /\ backend = "unknown") ~> main \in Over

================================================================================
