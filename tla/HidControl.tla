------------------------------- MODULE HidControl -------------------------------
(***************************************************************************)
(* The set-up of the camera over hidraw (src/include/hid_control.hpp):     *)
(* open_and_init_trigger drains old reports, sends the OS code, sets the   *)
(* exposure and the TRIGGER stream mode and reads the mode back.  Each     *)
(* command is a write, a select and up to kReads reads for the report that *)
(* has the command's two bytes; reports carry nothing else to tell whose   *)
(* answer they are.                                                        *)
(*                                                                         *)
(* The camera is the environment.  It works its commands off in order, may *)
(* refuse one, may fail to answer, and sends reports nobody asked for, as  *)
(* many as it likes.                                                       *)
(* When the device is opened it may still be busy with the last commands   *)
(* of an earlier run of the driver, which set its own exposure.            *)
(***************************************************************************)
EXTENDS Naturals, Sequences

CONSTANTS Leftovers,    \* what an earlier run may have left: sequences of commands
          kReads,       \* reads for one answer, 10 in the code
          kOsReads,     \* reads after the OS code, 3 in the code
          MaxUnread     \* reports hidraw keeps; it drops the next (64 in the kernel)

Commands == {"os", "exposure", "set_mode", "get_mode"}

ASSUME HidAssumption == /\ Leftovers \subseteq Seq(Commands)
                        /\ kReads \in Nat \ {0}
                        /\ kOsReads \in Nat
                        /\ MaxUnread \in Nat

VARIABLES pc,           \* the driver: a step of open_and_init_trigger
          cmd,          \* the command write_read is at
          attempt,      \* reads done for it
          result,       \* "none" until open_and_init_trigger returns "ok" or "failed"
          stale,        \* ghost: an answer to an earlier run's command was taken as ours
          pending,      \* camera: commands to work off
          inbox,        \* hidraw: reports not read yet
          mode,         \* camera: stream mode
          exposure      \* camera: whose exposure it has

driverVars == <<pc, cmd, attempt, result, stale>>
cameraVars == <<mode, exposure>>
vars == <<driverVars, pending, inbox, cameraVars>>

Modes == {"trigger", "master"}

\* A command in the camera, and the report that answers it (mine is a ghost).
Request == [cmd : Commands, mine : BOOLEAN]
Report == [cmd : Commands \union {"junk"}, mine : BOOLEAN, ok : BOOLEAN, mode : Modes]

\* Types; the two read loops stay within their counts.
TypeOK == /\ pc \in {"open", "init", "os_read", "write", "select", "read", "done"}
          /\ cmd \in Commands
          /\ attempt \in 0 .. (IF pc = "os_read" THEN kOsReads ELSE kReads)
          /\ result \in {"none", "ok", "failed"}
          /\ stale \in BOOLEAN
          /\ pending \in Seq(Request)
          /\ inbox \in Seq(Report)
          /\ mode \in Modes
          /\ exposure \in {"mine", "other"}

Init == /\ pc = "open"
        /\ cmd = "os"
        /\ attempt = 0
        /\ result = "none"
        /\ stale = FALSE
        /\ \E left \in Leftovers :
             pending = [i \in DOMAIN left |-> [cmd |-> left[i], mine |-> FALSE]]
        /\ inbox = <<>>
        /\ mode \in Modes
        /\ exposure = "other"

--------------------------------------------------------------------------------
(* The driver *)

\* open_and_init_trigger returns; the descriptor stays open either way.
Return(r) == /\ pc' = "done"
             /\ result' = r
             /\ UNCHANGED <<cmd, attempt>>

Fail == Return("failed") /\ UNCHANGED <<stale, pending, inbox, cameraVars>>

Send(c) == pending' = Append(pending, [cmd |-> c, mine |-> TRUE])

Open == /\ pc = "open"
        /\ \/ /\ pc' = "init"
              /\ UNCHANGED <<cmd, attempt, result, stale, pending, inbox, cameraVars>>
           \/ Fail

\* drain: one read of the loop that goes on while there are reports.
Drain == /\ pc = "init"
         /\ inbox # <<>>
         /\ inbox' = Tail(inbox)
         /\ UNCHANGED <<driverVars, pending, cameraVars>>

\* init: once nothing is left to drain, write the OS code.  A device that is gone ends
\* the loop too, and fails the write.
InitDevice == /\ pc = "init"
              /\ \/ /\ inbox = <<>>
                    /\ pc' = "os_read"
                    /\ Send("os")
                    /\ UNCHANGED <<cmd, attempt, result, stale, inbox, cameraVars>>
                 \/ Fail

\* init: read a few reports and take no notice of them.
OsRead == /\ pc = "os_read"
          /\ IF attempt < kOsReads
             THEN /\ attempt' = attempt + 1
                  /\ inbox' = IF inbox = <<>> THEN <<>> ELSE Tail(inbox)
                  /\ UNCHANGED <<pc, cmd>>
             ELSE /\ attempt' = 0
                  /\ pc' = "write"
                  /\ cmd' = "exposure"
                  /\ UNCHANGED inbox
          /\ UNCHANGED <<result, stale, pending, cameraVars>>

\* write_read: the command goes out.
Write == /\ pc = "write"
         /\ \/ /\ pc' = "select"
               /\ Send(cmd)
               /\ UNCHANGED <<cmd, attempt, result, stale, inbox, cameraVars>>
            \/ Fail

\* write_read: select finds a report, or times out after 5 or 7 seconds.
Select == /\ pc = "select"
          /\ \/ /\ inbox # <<>>
                /\ pc' = "read"
                /\ attempt' = 0
                /\ UNCHANGED <<cmd, result, stale, pending, inbox, cameraVars>>
             \/ Fail

\* A slip: a status other than 1 is logged and that is all.
TakeAnyStatus(report) ==
  \/ /\ cmd # "get_mode"
     /\ pc' = "write"
     /\ cmd' = IF cmd = "exposure" THEN "set_mode" ELSE "get_mode"
     /\ UNCHANGED <<attempt, result>>
  \/ /\ cmd = "get_mode"
     /\ Return(IF report.mode = "trigger" THEN "ok" ELSE "failed")

(***************************************************************************)
(* What the callers of write_read make of an answer.  The exposure and the *)
(* mode have to be accepted; of the mode read back only the mode counts,   *)
(* the status is not looked at.                                            *)
(***************************************************************************)
Take(report) ==
  \/ /\ cmd # "get_mode" /\ report.ok
     /\ pc' = "write"
     /\ cmd' = IF cmd = "exposure" THEN "set_mode" ELSE "get_mode"
     /\ UNCHANGED <<attempt, result>>
  \/ /\ cmd # "get_mode" /\ ~report.ok
     /\ Return("failed")
  \/ /\ cmd = "get_mode"
     /\ Return(IF report.mode = "trigger" THEN "ok" ELSE "failed")

\* Slips: one read too many; only reports count as attempts, not EAGAIN.
ReadOneMore ==
  /\ pc = "read"
  /\ \/ /\ attempt <= kReads
        /\ inbox # <<>> => Head(inbox).cmd # cmd
        /\ attempt' = attempt + 1
        /\ inbox' = IF inbox = <<>> THEN <<>> ELSE Tail(inbox)
        /\ UNCHANGED <<pc, cmd, result, stale>>
     \/ Return("failed") /\ UNCHANGED <<stale, inbox>>
  /\ UNCHANGED <<pending, cameraVars>>

ReadWaits ==
  /\ pc = "read"
  /\ IF attempt = kReads
     THEN Return("failed") /\ UNCHANGED <<stale, inbox>>
     ELSE IF inbox = <<>>
     THEN UNCHANGED <<driverVars, inbox>>
     ELSE /\ inbox' = Tail(inbox)
          /\ IF Head(inbox).cmd = cmd
             THEN Take(Head(inbox)) /\ stale' = (stale \/ ~Head(inbox).mine)
             ELSE attempt' = attempt + 1 /\ UNCHANGED <<pc, cmd, result, stale>>
  /\ UNCHANGED <<pending, cameraVars>>

\* write_read: one read.  EAGAIN and reports of other commands use up an attempt; a
\* read error, or the last attempt, ends it.
Read ==
  /\ pc = "read"
  /\ \/ /\ attempt < kReads /\ inbox = <<>>
        /\ attempt' = attempt + 1
        /\ UNCHANGED <<pc, cmd, result, stale, inbox>>
     \/ /\ attempt < kReads /\ inbox # <<>>
        /\ inbox' = Tail(inbox)
        /\ \/ /\ Head(inbox).cmd # cmd
              /\ attempt' = attempt + 1
              /\ UNCHANGED <<pc, cmd, result, stale>>
           \/ /\ Head(inbox).cmd = cmd
              /\ Take(Head(inbox))
              /\ stale' = (stale \/ ~Head(inbox).mine)
     \/ Return("failed") /\ UNCHANGED <<stale, inbox>>
  /\ UNCHANGED <<pending, cameraVars>>

--------------------------------------------------------------------------------
(* The camera *)

(***************************************************************************)
(* The next command is carried out (ok) or refused, and answered or not.   *)
(* A refused get_mode answers with a mode that means nothing.  An answer   *)
(* that finds no room in hidraw is lost.                                   *)
(***************************************************************************)
Execute ==
  /\ pending # <<>>
  /\ pending' = Tail(pending)
  /\ \E ok \in BOOLEAN, answered \in BOOLEAN, garbage \in Modes :
       LET c == Head(pending) IN
       /\ answered => Len(inbox) < MaxUnread
       /\ mode' = IF c.cmd = "set_mode" /\ ok THEN "trigger" ELSE mode
       /\ exposure' = IF c.cmd = "exposure" /\ ok
                      THEN (IF c.mine THEN "mine" ELSE "other")
                      ELSE exposure
       /\ inbox' = IF answered
                   THEN Append(inbox, [cmd |-> c.cmd, mine |-> c.mine, ok |-> ok,
                                       mode |-> IF ok THEN mode' ELSE garbage])
                   ELSE inbox
  /\ UNCHANGED driverVars

\* A report that answers no command.
SendJunk == /\ Len(inbox) < MaxUnread
            /\ inbox' = Append(inbox, [cmd |-> "junk", mine |-> FALSE, ok |-> FALSE,
                                       mode |-> "master"])
            /\ UNCHANGED <<driverVars, pending, cameraVars>>

--------------------------------------------------------------------------------
\* The driver has returned; the camera may go on.
Done == pc = "done" /\ UNCHANGED vars

Driver == \/ Open
          \/ Drain
          \/ InitDevice
          \/ OsRead
          \/ Write
          \/ Select
          \/ Read

Next == \/ Driver
        \/ Execute
        \/ SendJunk
        \/ Done

\* The driver's thread runs.  The camera need not answer.
Spec == Init /\ [][Next]_vars /\ WF_vars(Driver)

--------------------------------------------------------------------------------
(* Properties *)

\* When the node goes on to start its backend, the camera is in TRIGGER mode; and it
\* has the node's exposure, if no earlier run's answer was taken for an answer to it.
ReadyMeansSetUp ==
  result = "ok" => mode = "trigger" /\ (stale \/ exposure = "mine")

(***************************************************************************)
(* The constructor is not held up by a camera that does not answer, or     *)
(* that answers something else all the time: every wait for an answer is   *)
(* counted.  Only drain is not (hid_control.hpp:59): set-up ends unless    *)
(* the camera sends it reports for ever while it drains.                   *)
(***************************************************************************)
SetupEnds == <>(pc = "done") \/ []<><<SendJunk /\ pc = "init">>_vars

(***************************************************************************)
(* What README line 7 says: HID puts the camera in TRIGGER mode with the   *)
(* fixed exposure.  The late answer to the exposure command of an earlier  *)
(* run is taken for the answer to ours, and a refusal of ours goes unseen. *)
(***************************************************************************)
ExposureIsOurs == result = "ok" => exposure = "mine"

================================================================================
