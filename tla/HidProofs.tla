------------------------------- MODULE HidProofs -------------------------------
(***************************************************************************)
(* Proofs about HidControl, for whatever an earlier run has left in the    *)
(* camera, every number of reads and of unread reports.  The               *)
(* argument is about order: the camera works its commands off in the order *)
(* they came, so that when it has answered one of ours, no command of the  *)
(* earlier run can undo what was answered.                                 *)
(***************************************************************************)
EXTENDS HidControl, SequenceTheorems, TLAPS

\* No command of an earlier run is left to be worked off.
OursOnly == \A i \in 1 .. Len(pending) : pending[i].mine

\* The earlier run's commands come first.
Queued == \A i, j \in 1 .. Len(pending) : i < j /\ pending[i].mine => pending[j].mine

\* What an unread report proves of the camera.
Proves(r) == /\ r.cmd = "set_mode" /\ r.ok => mode = "trigger"
             /\ r.mine => OursOnly
             /\ r.mine /\ r.cmd = "exposure" /\ r.ok => exposure = "mine"

Answered == \A i \in 1 .. Len(inbox) : Proves(inbox[i])

\* What the driver may go by, at the commands after the first two.
Progress == /\ pc \in {"open", "init"} => attempt = 0
            /\ pc \in {"write", "select", "read"} => cmd # "os"
            /\ cmd \in {"set_mode", "get_mode"} => stale \/ (exposure = "mine" /\ OursOnly)
            /\ cmd = "get_mode" => mode = "trigger"
            /\ result = "ok" => pc = "done" /\ cmd = "get_mode"

HidInv == TypeOK /\ Queued /\ Answered /\ Progress

--------------------------------------------------------------------------------
\* The read counts are numbers, and what an earlier run left are commands.
LEMMA Constants == /\ kReads \in Nat \ {0} /\ kOsReads \in Nat
                   /\ \A left \in Leftovers : left \in Seq(Commands)
BY HidAssumption

\* A report or a command is put at the end.
LEMMA Appended ==
  ASSUME NEW S, NEW s \in Seq(S), NEW x \in S
  PROVE  /\ Append(s, x) \in Seq(S)
         /\ \A i \in 1 .. Len(Append(s, x)) : Append(s, x)[i] = x \/
              (i \in 1 .. Len(s) /\ Append(s, x)[i] = s[i])
         /\ \A i \in 1 .. Len(s) : Append(s, x)[i] = s[i]
         /\ Append(s, x)[Len(s) + 1] = x
         /\ Len(Append(s, x)) = Len(s) + 1
         /\ Len(s) \in Nat
OBVIOUS

\* And taken from the front.
LEMMA Taken ==
  ASSUME NEW S, NEW s \in Seq(S), s # <<>>
  PROVE  /\ Head(s) \in S /\ Tail(s) \in Seq(S)
         /\ 1 \in 1 .. Len(s) /\ Head(s) = s[1]
         /\ Len(Tail(s)) = Len(s) - 1 /\ Len(s) \in Nat
         /\ \A i \in 1 .. Len(Tail(s)) : i + 1 \in 1 .. Len(s) /\ Tail(s)[i] = s[i + 1]
BY HeadTailProperties

\* The driver has sent nothing yet; every command in the camera is an earlier run's.
LEMMA HidInvInit == Init => HidInv
<1> SUFFICES ASSUME Init PROVE HidInv
  OBVIOUS
<1>1. PICK left \in Leftovers :
        pending = [i \in DOMAIN left |-> [cmd |-> left[i], mine |-> FALSE]]
  BY DEF Init
<1>2. /\ Len(left) \in Nat /\ DOMAIN left = 1 .. Len(left)
      /\ \A i \in 1 .. Len(left) : left[i] \in Commands
  BY <1>1, Constants
<1>3. /\ pending \in [1 .. Len(left) -> Request]
      /\ \A i \in 1 .. Len(left) : pending[i].mine = FALSE
  BY <1>1, <1>2 DEF Request
<1>4. pending \in Seq(Request) /\ Len(pending) = Len(left)
  BY <1>2, <1>3
<1>5. stale \in BOOLEAN
  BY Zenon DEF Init
<1>6. TypeOK
  BY <1>4, <1>5, Constants DEF Init, TypeOK, Commands
<1>7. Queued
  BY <1>3, <1>4 DEF Queued
<1>8. Answered /\ Progress
  BY DEF Init, Answered, Progress
<1> QED
  BY <1>6, <1>7, <1>8 DEF HidInv

--------------------------------------------------------------------------------
(* The driver's steps *)

\* A command of the driver goes behind those of an earlier run.
LEMMA SendNext ==
  ASSUME TypeOK, Queued, NEW c \in Commands, Send(c)
  PROVE  /\ pending' \in Seq(Request)
         /\ OursOnly => OursOnly'
         /\ Queued'
<1> DEFINE r == [cmd |-> c, mine |-> TRUE]
<1>1. r \in Request /\ pending \in Seq(Request) /\ pending' = Append(pending, r) /\ r.mine
  BY DEF Request, TypeOK, Send
<1> HIDE DEF r
<1>2. /\ pending' \in Seq(Request) /\ Len(pending') = Len(pending) + 1
      /\ Len(pending) \in Nat
      /\ \A i \in 1 .. Len(pending') :
           pending'[i] = r \/ (i \in 1 .. Len(pending) /\ pending'[i] = pending[i])
      /\ pending'[Len(pending) + 1] = r
  BY <1>1, Appended
<1>3. OursOnly => OursOnly'
  BY <1>1, <1>2 DEF OursOnly
<1>4. Queued'
  BY <1>1, <1>2 DEF Queued
<1> QED
  BY <1>2, <1>3, <1>4

\* What a report proves it goes on proving while the camera stands still.
LEMMA ProvesKept ==
  ASSUME OursOnly => OursOnly', UNCHANGED <<mode, exposure>>, NEW r, Proves(r)
  PROVE  Proves(r)'
BY DEF Proves

\* And so do the reports that stay in the inbox.
LEMMA AnsweredKept ==
  ASSUME Answered, OursOnly => OursOnly', UNCHANGED <<mode, exposure>>,
         inbox \in Seq(Report),
         inbox' \in {inbox, <<>>} \/ (inbox # <<>> /\ inbox' = Tail(inbox))
  PROVE  Answered' /\ inbox' \in Seq(Report)
<1>1. CASE inbox' = inbox
  BY <1>1, ProvesKept DEF Answered
<1>2. CASE inbox' = <<>>
  BY <1>2 DEF Answered
<1>3. CASE inbox # <<>> /\ inbox' = Tail(inbox)
  <2>1. /\ inbox' \in Seq(Report)
        /\ \A i \in 1 .. Len(inbox') : i + 1 \in 1 .. Len(inbox) /\ inbox'[i] = inbox[i + 1]
    BY <1>3, Taken
  <2> QED
    BY <2>1, ProvesKept DEF Answered
<1> QED
  BY <1>1, <1>2, <1>3

\* The driver's part of HidInv: types, and what it may go by (hid_control.hpp).
LEMMA DriverNext == HidInv /\ Driver => HidInv'
<1> SUFFICES ASSUME HidInv, Driver PROVE HidInv'
  OBVIOUS
<1> USE Constants DEF TypeOK, Commands
<1>0. TypeOK /\ Queued /\ Answered /\ Progress
  BY DEF HidInv
<1>1. stale' \in BOOLEAN
  <2>1. stale \in BOOLEAN
    BY <1>0
  <2> QED
    BY <2>1, Zenon DEF Driver, Open, Drain, driverVars, InitDevice, OsRead, Write, Select, Read, Fail
<1>2. ASSUME Fail, pc # "os_read" PROVE HidInv'
  <2>1. OursOnly' <=> OursOnly
    BY <1>2 DEF Fail, OursOnly
  <2>2. Answered' /\ Queued'
    BY <1>0, <1>2, <2>1, AnsweredKept DEF Fail, cameraVars, Queued
  <2>3. TypeOK'
    BY <1>0, <1>1, <1>2 DEF Fail, Return, cameraVars
  <2>4. Progress'
    BY <1>0, <1>2, <2>1 DEF Fail, Return, cameraVars, Progress
  <2> QED
    BY <2>2, <2>3, <2>4 DEF HidInv
<1>3. CASE Open
  <2>1. CASE Fail
    BY <1>2, <1>3, <2>1 DEF Open
  <2>2. CASE pc' = "init" /\ UNCHANGED <<cmd, attempt, result, stale, pending, inbox, cameraVars>>
    <3>1. OursOnly' <=> OursOnly
      BY <2>2 DEF OursOnly
    <3>2. Answered' /\ Queued'
      BY <1>0, <2>2, <3>1, AnsweredKept DEF cameraVars, Queued
    <3>3. TypeOK' /\ Progress'
      BY <1>0, <1>1, <1>3, <2>2, <3>1 DEF Open, cameraVars, Progress
    <3> QED
      BY <3>2, <3>3 DEF HidInv
  <2> QED
    BY <1>3, <2>1, <2>2 DEF Open
<1>4. CASE InitDevice
  <2>1. CASE Fail
    BY <1>2, <1>4, <2>1 DEF InitDevice
  <2>2. CASE pc' = "os_read" /\ Send("os")
             /\ UNCHANGED <<cmd, attempt, result, stale, inbox, cameraVars>>
    <3>1. pending' \in Seq(Request) /\ (OursOnly => OursOnly') /\ Queued'
      BY <1>0, <2>2, SendNext
    <3>2. Answered' /\ inbox' \in Seq(Report)
      BY <1>0, <2>2, <3>1, AnsweredKept DEF cameraVars
    <3>3. TypeOK' /\ Progress'
      BY <1>0, <1>1, <1>4, <2>2, <3>1, <3>2 DEF InitDevice, cameraVars, Progress
    <3> QED
      BY <3>1, <3>2, <3>3 DEF HidInv
  <2> QED
    BY <1>4, <2>1, <2>2 DEF InitDevice
<1>5. CASE OsRead
  <2>1. OursOnly' <=> OursOnly
    BY <1>5 DEF OsRead, OursOnly
  <2>2. Answered' /\ Queued' /\ inbox' \in Seq(Report)
    BY <1>0, <1>5, <2>1, AnsweredKept DEF OsRead, cameraVars, Queued
  <2>3. CASE attempt < kOsReads
    <3>1. TypeOK'
      BY <1>0, <1>1, <1>5, <2>2, <2>3 DEF OsRead, cameraVars
    <3>2. Progress'
      BY <1>0, <1>5, <2>1, <2>3 DEF OsRead, cameraVars, Progress
    <3> QED
      BY <2>2, <3>1, <3>2 DEF HidInv
  <2>4. CASE ~(attempt < kOsReads)
    <3>1. TypeOK'
      BY <1>0, <1>1, <1>5, <2>2, <2>4 DEF OsRead, cameraVars
    <3>2. Progress'
      BY <1>0, <1>5, <2>1, <2>4 DEF OsRead, cameraVars, Progress
    <3> QED
      BY <2>2, <3>1, <3>2 DEF HidInv
  <2> QED
    BY <2>3, <2>4
<1>6. CASE Write
  <2>1. CASE Fail
    BY <1>2, <1>6, <2>1 DEF Write
  <2>2. CASE pc' = "select" /\ Send(cmd)
             /\ UNCHANGED <<cmd, attempt, result, stale, inbox, cameraVars>>
    <3>1. pending' \in Seq(Request) /\ (OursOnly => OursOnly') /\ Queued'
      BY <1>0, <2>2, SendNext
    <3>2. Answered' /\ inbox' \in Seq(Report)
      BY <1>0, <2>2, <3>1, AnsweredKept DEF cameraVars
    <3>3. TypeOK' /\ Progress'
      BY <1>0, <1>1, <1>6, <2>2, <3>1, <3>2 DEF Write, cameraVars, Progress
    <3> QED
      BY <3>1, <3>2, <3>3 DEF HidInv
  <2> QED
    BY <1>6, <2>1, <2>2 DEF Write
<1>7. CASE Select
  <2>1. CASE Fail
    BY <1>2, <1>7, <2>1 DEF Select
  <2>2. CASE pc' = "read" /\ attempt' = 0
             /\ UNCHANGED <<cmd, result, stale, pending, inbox, cameraVars>>
    <3>1. OursOnly' <=> OursOnly
      BY <2>2 DEF OursOnly
    <3>2. Answered' /\ Queued'
      BY <1>0, <2>2, <3>1, AnsweredKept DEF cameraVars, Queued
    <3>3. TypeOK' /\ Progress'
      BY <1>0, <1>1, <1>7, <2>2, <3>1 DEF Select, cameraVars, Progress
    <3> QED
      BY <3>2, <3>3 DEF HidInv
  <2> QED
    BY <1>7, <2>1, <2>2 DEF Select
<1>8. CASE Read
  <2>1. OursOnly' <=> OursOnly
    BY <1>8 DEF Read, OursOnly
  <2>2. Answered' /\ Queued' /\ inbox' \in Seq(Report)
    BY <1>0, <1>8, <2>1, AnsweredKept DEF Read, cameraVars, Queued
  <2>3. TypeOK'
    BY <1>0, <1>1, <1>8, <2>2 DEF Read, Take, Return, cameraVars
  <2>4. Progress'
    <3>1. CASE UNCHANGED <<pc, cmd, result, stale>> \/ Return("failed")
      BY <1>0, <1>8, <2>1, <3>1 DEF Read, Return, cameraVars, Progress
    <3>2. ASSUME inbox # <<>>, Head(inbox).cmd = cmd, Take(Head(inbox)),
                 stale' = (stale \/ ~Head(inbox).mine)
          PROVE  Progress'
      <4>1. Proves(Head(inbox))
        BY <1>0, <3>2, Taken DEF Answered
      <4>2. (stale => stale') /\ (~Head(inbox).mine => stale')
        BY <3>2, Zenon
      <4>3. pc = "read" /\ UNCHANGED <<mode, exposure>>
        BY <1>8 DEF Read, cameraVars
      <4> QED
        BY <1>0, <2>1, <3>2, <4>1, <4>2, <4>3 DEF Take, Return, Proves, Progress
    <3> QED
      BY <1>8, <3>1, <3>2 DEF Read
  <2> QED
    BY <2>2, <2>3, <2>4 DEF HidInv
<1>9. CASE Drain
  <2>1. OursOnly' <=> OursOnly
    BY <1>9 DEF Drain, OursOnly
  <2>2. Answered' /\ Queued' /\ inbox' \in Seq(Report)
    BY <1>0, <1>9, <2>1, AnsweredKept DEF Drain, cameraVars, Queued
  <2>3. TypeOK' /\ Progress'
    BY <1>0, <1>1, <1>9, <2>1, <2>2 DEF Drain, driverVars, cameraVars, Progress
  <2> QED
    BY <2>2, <2>3 DEF HidInv
<1> QED
  BY <1>3, <1>4, <1>5, <1>6, <1>7, <1>8, <1>9 DEF Driver

--------------------------------------------------------------------------------
(* The camera's steps *)

\* A report comes in behind the others.
LEMMA ReportNext ==
  ASSUME inbox \in Seq(Report), NEW r \in Report, inbox' = Append(inbox, r), Proves(r)',
         \A q \in Report : Proves(q) => Proves(q)', Answered
  PROVE  inbox' \in Seq(Report) /\ Answered'
<1>1. /\ inbox' \in Seq(Report)
      /\ \A i \in 1 .. Len(inbox') :
           inbox'[i] = r \/ (i \in 1 .. Len(inbox) /\ inbox'[i] = inbox[i])
  BY Appended
<1> SUFFICES ASSUME NEW i \in 1 .. Len(inbox') PROVE Proves(inbox[i])'
  BY <1>1 DEF Answered
<1>2. \E q \in Report : q = inbox'[i] /\ Proves(q)'
  <2>1. CASE inbox'[i] = r
    BY <2>1
  <2>2. CASE i \in 1 .. Len(inbox) /\ inbox'[i] = inbox[i]
    BY <2>2, ElementOfSeq DEF Answered
  <2> QED
    BY <1>1, <2>1, <2>2
<1> QED
  BY <1>1, <1>2 DEF Proves

\* The camera carries out, or refuses, the command that came first; once that was one of
\* ours there is nothing left that would set another exposure or mode.
LEMMA ExecuteNext == HidInv /\ Execute => HidInv'
<1> SUFFICES ASSUME HidInv, Execute PROVE HidInv'
  OBVIOUS
<1>0. TypeOK /\ Queued /\ Answered /\ Progress
  BY DEF HidInv
<1>1. /\ pending \in Seq(Request) /\ inbox \in Seq(Report)
      /\ mode \in Modes /\ exposure \in {"mine", "other"}
  BY <1>0 DEF TypeOK
<1>2. PICK c \in Request :
      /\ c = Head(pending) /\ pending' \in Seq(Request)
      /\ 1 \in 1 .. Len(pending) /\ c = pending[1] /\ Len(pending) \in Nat
      /\ Len(pending') = Len(pending) - 1
      /\ \A i \in 1 .. Len(pending') :
           i + 1 \in 1 .. Len(pending) /\ pending'[i] = pending[i + 1]
  BY <1>1, Taken DEF Execute
<1>3. OursOnly => c.mine /\ OursOnly'
  BY <1>2 DEF OursOnly
<1>4. c.mine => OursOnly'
  BY <1>0, <1>2 DEF Queued, OursOnly
<1>5. Queued'
  <2> SUFFICES ASSUME NEW i \in 1 .. Len(pending'), NEW j \in 1 .. Len(pending'),
                      i < j, pending'[i].mine
               PROVE  pending'[j].mine
    BY DEF Queued
  <2>1. /\ i + 1 \in 1 .. Len(pending) /\ j + 1 \in 1 .. Len(pending) /\ i + 1 < j + 1
        /\ pending'[i] = pending[i + 1] /\ pending'[j] = pending[j + 1]
    BY <1>2
  <2> QED
    BY <1>0, <2>1 DEF Queued
<1>6. UNCHANGED driverVars
  BY DEF Execute
<1>7. PICK ok \in BOOLEAN, answered \in BOOLEAN, garbage \in Modes :
        /\ mode' = IF c.cmd = "set_mode" /\ ok THEN "trigger" ELSE mode
        /\ exposure' = IF c.cmd = "exposure" /\ ok
                       THEN (IF c.mine THEN "mine" ELSE "other")
                       ELSE exposure
        /\ inbox' = IF answered
                    THEN Append(inbox, [cmd |-> c.cmd, mine |-> c.mine, ok |-> ok,
                                        mode |-> IF ok THEN mode' ELSE garbage])
                    ELSE inbox
  BY <1>2 DEF Execute
<1>8. mode' \in Modes /\ exposure' \in {"mine", "other"}
  BY <1>1, <1>7 DEF Modes
<1>9. /\ mode = "trigger" => mode' = "trigger"
      /\ exposure = "mine" /\ OursOnly => exposure' = "mine"
  BY <1>3, <1>7
<1>10. \A q \in Report : Proves(q) => Proves(q)'
  BY <1>3, <1>9 DEF Proves
<1>11. inbox' \in Seq(Report) /\ Answered'
  <2>1. PICK r \in Report :
           r = [cmd |-> c.cmd, mine |-> c.mine, ok |-> ok,
                mode |-> IF ok THEN mode' ELSE garbage]
    BY <1>8 DEF Request, Report
  <2>2. Proves(r)'
    BY <1>4, <1>7, <2>1 DEF Proves
  <2>3. CASE inbox' = Append(inbox, r)
    BY <1>0, <1>1, <1>10, <2>1, <2>2, <2>3, ReportNext
  <2>4. CASE inbox' = inbox
    <3>1. \A i \in 1 .. Len(inbox) : inbox[i] \in Report
      BY <1>1, ElementOfSeq
    <3> QED
      BY <1>0, <1>1, <1>10, <2>4, <3>1 DEF Answered, Proves
  <2> QED
    BY <1>7, <2>1, <2>3, <2>4
<1>12. TypeOK'
  BY <1>0, <1>2, <1>6, <1>8, <1>11 DEF TypeOK, driverVars
<1>13. Progress'
  BY <1>0, <1>3, <1>6, <1>9 DEF Progress, driverVars
<1> QED
  BY <1>5, <1>11, <1>12, <1>13 DEF HidInv

\* A report that answers no command proves nothing.
LEMMA JunkNext == HidInv /\ SendJunk => HidInv'
<1> SUFFICES ASSUME HidInv, SendJunk PROVE HidInv'
  OBVIOUS
<1> DEFINE r == [cmd |-> "junk", mine |-> FALSE, ok |-> FALSE, mode |-> "master"]
<1>0. TypeOK /\ Queued /\ Answered /\ Progress
  BY DEF HidInv
<1>1. /\ inbox' = Append(inbox, r)
      /\ UNCHANGED <<driverVars, pending, mode, exposure>>
  BY DEF SendJunk, cameraVars
<1>2. OursOnly' <=> OursOnly
  BY <1>1 DEF OursOnly
<1>3. r \in Report /\ Proves(r)'
  BY DEF Report, Modes, Proves
<1>4. \A q \in Report : Proves(q) => Proves(q)'
  BY <1>1, <1>2 DEF Proves
<1>5. inbox' \in Seq(Report) /\ Answered'
  BY <1>0, <1>1, <1>3, <1>4, ReportNext DEF TypeOK
<1>6. TypeOK'
  BY <1>0, <1>1, <1>5, Constants DEF TypeOK, driverVars
<1>7. Queued' /\ Progress'
  BY <1>0, <1>1, <1>2 DEF Queued, Progress, driverVars
<1> QED
  BY <1>5, <1>6, <1>7 DEF HidInv

--------------------------------------------------------------------------------
\* HidInv is an invariant.
THEOREM HidInvariant == Spec => []HidInv
<1>1. ASSUME HidInv, UNCHANGED vars PROVE HidInv'
  <2>1. UNCHANGED <<pc, cmd, attempt, result, stale, pending, inbox, mode, exposure>>
    BY <1>1 DEF vars, driverVars, cameraVars
  <2>2. OursOnly' <=> OursOnly
    BY <2>1 DEF OursOnly
  <2>3. TypeOK' /\ Queued' /\ Progress'
    BY <1>1, <2>1, <2>2 DEF HidInv, TypeOK, Queued, Progress
  <2>4. Answered'
    BY <1>1, <2>1, <2>2, AnsweredKept DEF HidInv, TypeOK
  <2> QED
    BY <2>3, <2>4 DEF HidInv
<1>2. HidInv /\ [Next]_vars => HidInv'
  BY <1>1, DriverNext, ExecuteNext, JunkNext DEF Next, Done
<1> QED
  BY HidInvInit, <1>2, PTL DEF Spec

\* The driver's two read loops stay within their counts.
THEOREM HidTypeCorrect == Spec => []TypeOK
<1>1. HidInv => TypeOK
  BY DEF HidInv
<1> QED
  BY HidInvariant, <1>1, PTL

\* A set-up that reports success has put the camera in TRIGGER mode, and given it the
\* node's exposure if no answer to an earlier run's command was taken for its own.
THEOREM ReadyIsSetUp == Spec => []ReadyMeansSetUp
<1>1. HidInv => ReadyMeansSetUp
  BY DEF HidInv, Progress, ReadyMeansSetUp
<1> QED
  BY HidInvariant, <1>1, PTL

--------------------------------------------------------------------------------
(* The bound on the driver's steps *)

\* What one command takes at most: a write, a select, kReads reads that are of no use
\* and one that ends it.
CommandSteps == kReads + 3

\* Commands that come after the one the driver is at.
CommandsLeft == IF cmd = "exposure" THEN 2 ELSE IF cmd = "set_mode" THEN 1 ELSE 0

\* Steps the driver has before it at most, if every answer is the last one it waits for
\* and every command is accepted.
StepsLeft == IF pc = "open" THEN 3 * CommandSteps + kOsReads + 3
             ELSE IF pc = "init" THEN 3 * CommandSteps + kOsReads + 2
             ELSE IF pc = "os_read" THEN 3 * CommandSteps + (kOsReads - attempt) + 1
             ELSE IF pc = "write" THEN CommandsLeft * CommandSteps + CommandSteps
             ELSE IF pc = "select" THEN CommandsLeft * CommandSteps + kReads + 2
             ELSE IF pc = "read" THEN CommandsLeft * CommandSteps + (kReads - attempt) + 1
             ELSE 0

(***************************************************************************)
(* A step of the driver is a step towards the end, but for a read of       *)
(* drain, which only takes off one of the reports the camera has sent; the *)
(* camera's steps are none of it, whatever it sends.                       *)
(***************************************************************************)
DriverStep ==
  IF Drain THEN StepsLeft' = StepsLeft /\ pc = "init" /\ Len(inbox)' = Len(inbox) - 1
  ELSE IF Driver THEN StepsLeft' < StepsLeft
  ELSE UNCHANGED driverVars

\* The driver is done when no step is left, and not before.
LEMMA StepsLeftType ==
  HidInv => /\ StepsLeft \in 0 .. 3 * CommandSteps + kOsReads + 3
            /\ StepsLeft = 0 <=> pc = "done"
<1> SUFFICES ASSUME HidInv
             PROVE  /\ StepsLeft \in 0 .. 3 * CommandSteps + kOsReads + 3
                    /\ StepsLeft = 0 <=> pc = "done"
  OBVIOUS
<1>1. kReads \in Nat /\ kOsReads \in Nat
  BY Constants
<1>2. /\ pc \in {"open", "init", "os_read", "write", "select", "read", "done"}
      /\ attempt \in 0 .. (IF pc = "os_read" THEN kOsReads ELSE kReads)
  BY DEF HidInv, TypeOK
<1> QED
  BY <1>1, <1>2 DEF StepsLeft, CommandsLeft, CommandSteps

\* Each other step of the driver is one less: a read uses up an attempt, a command taken
\* as answered leaves fewer commands.
LEMMA DriverGoesDown == HidInv /\ Driver /\ ~Drain => StepsLeft' < StepsLeft
<1> SUFFICES ASSUME HidInv, Driver, ~Drain PROVE StepsLeft' < StepsLeft
  OBVIOUS
<1>1. kReads \in Nat /\ kOsReads \in Nat
  BY Constants
<1>2. /\ cmd \in Commands
      /\ attempt \in 0 .. (IF pc = "os_read" THEN kOsReads ELSE kReads)
      /\ pc \in {"open", "init"} => attempt = 0
  BY DEF HidInv, TypeOK, Progress
<1> USE <1>1, <1>2 DEF StepsLeft, CommandsLeft, CommandSteps
<1>3. CASE pc' = "done"
  BY <1>3 DEF Driver, Open, InitDevice, OsRead, Write, Select, Read
<1>4. CASE Open /\ pc' # "done"
  BY <1>4 DEF Open, Fail, Return
<1>5. CASE InitDevice /\ pc' # "done"
  BY <1>5 DEF InitDevice, Fail, Return
<1>6. CASE OsRead /\ pc' # "done"
  BY <1>6 DEF OsRead
<1>7. CASE Write /\ pc' # "done"
  BY <1>7 DEF Write, Fail, Return
<1>8. CASE Select /\ pc' # "done"
  BY <1>8 DEF Select, Fail, Return
<1>9. CASE Read /\ pc' # "done"
  <2>1. CASE pc' = "read" /\ attempt < kReads /\ attempt' = attempt + 1 /\ cmd' = cmd
    BY <1>9, <2>1 DEF Read
  <2>2. CASE /\ pc' = "write" /\ cmd # "get_mode"
             /\ cmd' = IF cmd = "exposure" THEN "set_mode" ELSE "get_mode"
    <3>1. pc = "read" /\ cmd # "os"
      BY <1>9 DEF Read, HidInv, Progress
    <3>2. cmd \in {"exposure", "set_mode"}
      BY <2>2, <3>1 DEF Commands
    <3> QED BY <2>2, <3>1, <3>2
  <2> QED BY <1>9, <2>1, <2>2 DEF Read, Take, Return
<1> QED
  BY <1>3, <1>4, <1>5, <1>6, <1>7, <1>8, <1>9 DEF Driver

(***************************************************************************)
(* Apart from the reads of drain, open_and_init_trigger returns after at   *)
(* most 3 * (kReads + 3) + kOsReads + 3 steps of its own, whatever the     *)
(* camera sends, or does not, and however often (hid_control.hpp:29-53,    *)
(* 63-88, 147-166); with the ten and the three reads of the code that is   *)
(* 45.  drain (hid_control.hpp:59) has no bound of its own: it is only     *)
(* shown that it reads as many reports as the camera sends until it finds  *)
(* none, and that it runs nowhere but before the OS code.                  *)
(***************************************************************************)
THEOREM HidSetupBoundedButForDrain ==
  Spec => /\ [](/\ StepsLeft \in 0 .. 3 * CommandSteps + kOsReads + 3
                /\ StepsLeft = 0 <=> pc = "done")
          /\ [][DriverStep]_vars
<1>1. HidInv /\ [Next]_vars => [DriverStep]_vars
  <2> SUFFICES ASSUME HidInv, Next PROVE DriverStep
    OBVIOUS
  <2>1. CASE Drain
    <3>1. StepsLeft' = StepsLeft /\ pc = "init"
      BY <2>1 DEF Drain, driverVars, StepsLeft, CommandsLeft
    <3>2. Len(inbox)' = Len(inbox) - 1
      BY <2>1, Taken DEF Drain, HidInv, TypeOK
    <3> QED BY <2>1, <3>1, <3>2 DEF DriverStep
  <2>2. CASE Driver /\ ~Drain
    BY <2>2, DriverGoesDown DEF DriverStep
  <2>3. CASE ~Driver /\ ~Drain
    BY <2>3 DEF DriverStep, Next, Execute, SendJunk, Done, vars, driverVars
  <2> QED BY <2>1, <2>2, <2>3
<1> QED
  BY HidInvariant, StepsLeftType, <1>1, PTL DEF Spec

================================================================================
