------------------------------- MODULE GrabProofs -------------------------------
(***************************************************************************)
(* What the grab thread guarantees over any backend that keeps two         *)
(* promises: a valid frame is newer than the one before it, and            *)
(* push_count() covers the frame just handed out and never goes back.      *)
(* NodeStep is a step of the node under these promises.  GstProofs and     *)
(* V4l2Proofs show that every step of their backend is one, and get        *)
(* NodeInv from here.                                                      *)
(***************************************************************************)
EXTENDS GrabLoop, TLAPS

USE kBufNAssumption, GrabLoopAssumption

GrabbedNewer == \E f \in Frames : (Valid(f) => f.id > grabbed) /\ Grabbed(f)

AccountCovers == \E push_now \in Nat : /\ push_now >= frame.id
                                       /\ push_now >= last_push_seen
                                       /\ Account(push_now)

LogCbkAny == \E t \in Nat : LogCbk(t)

NodeStep == \/ StartOk
            \/ StartFails
            \/ RequestStop
            \/ Join
            \/ Stopped
            \/ LoopHead
            \/ GrabbedNewer
            \/ AccountCovers
            \/ Copy
            \/ LogCbkAny
            \/ Send
            \/ LogPub
            \/ Released
            \/ UNCHANGED nodeVars

--------------------------------------------------------------------------------
(* The log calls of the blackbox *)

\* The zero-filled array is an array of records.
LEMMA BoxInitType == BoxInit => BoxTypeOK
<1>1. Blank \in ImagePubRecord
  BY DEF Blank, ImagePubRecord
<1> QED BY <1>1 DEF BoxInit, BoxTypeOK

\* next_idx (blackbox.hpp:135) is an index of the array, or SIZE_MAX.
LEMMA NextIdxType ==
  ASSUME BoxTypeOK
  PROVE  next_idx \in Slot \union {SIZE_MAX}
BY DEF BoxTypeOK, next_idx, Slot, SIZE_MAX

\* log_cbk (blackbox.hpp:160) writes whole records, inside the array only.
LEMMA LogCbkType ==
  ASSUME BoxTypeOK, NEW h \in Nat, NEW t \in Nat, log_cbk(h, t)
  PROVE  BoxTypeOK'
<1>1. idx' \in Nat /\ seq' \in Nat
  BY DEF BoxTypeOK, log_cbk
<1>2. CASE idx < kBufN
  <2> DEFINE r == [seq |-> seq + 1, header_stamp |-> h, t_capture_ns |-> t,
                   cap_done |-> TRUE, ros_done |-> FALSE]
  <2>1. r \in ImagePubRecord
    BY DEF BoxTypeOK, ImagePubRecord
  <2>2. base' = [base EXCEPT ![idx] = r]
    BY <1>2 DEF log_cbk
  <2> QED BY <1>1, <2>1, <2>2 DEF BoxTypeOK
<1>3. CASE ~(idx < kBufN)
  BY <1>1, <1>3 DEF BoxTypeOK, log_cbk
<1> QED BY <1>2, <1>3

\* log_pub (blackbox.hpp:176) keeps the type, whatever index it is given.
LEMMA LogPubType ==
  ASSUME BoxTypeOK, NEW i, log_pub(i)
  PROVE  BoxTypeOK'
<1>1. CASE i \in Slot
  <2> DEFINE r == [base[i] EXCEPT !.ros_done = TRUE]
  <2>1. r \in ImagePubRecord
    BY <1>1 DEF BoxTypeOK, ImagePubRecord
  <2>2. base' = [base EXCEPT ![i] = r]
    BY <1>1 DEF log_pub
  <2> QED BY <2>1, <2>2 DEF BoxTypeOK, log_pub
<1>2. CASE i \notin Slot
  BY <1>2 DEF BoxTypeOK, log_pub
<1> QED BY <1>1, <1>2

--------------------------------------------------------------------------------
(* Types *)

\* The members of the node as constructed have their types.
LEMMA NodeTypeInit == NodeInit => NodeTypeOK
<1> SUFFICES ASSUME NodeInit PROVE NodeTypeOK
  OBVIOUS
<1>1. NoFrame \in Frames
  BY DEF NoFrame, Frames
<1>2. BoxTypeOK
  BY BoxInitType DEF NodeInit
<1> QED
  BY <1>1, <1>2 DEF NodeInit, NodeTypeOK, Main, PC

\* The node's variables keep their types: record_idx is an index or SIZE_MAX, and
\* the unsigned difference in the drop accounting (econ_ros2_driver.cpp:134) never
\* goes below zero.
LEMMA NodeTypeNext == NodeTypeOK /\ NodeStep => NodeTypeOK'
<1> SUFFICES ASSUME NodeTypeOK, NodeStep PROVE NodeTypeOK'
  OBVIOUS
<1> USE DEF NodeTypeOK, Main, PC
<1>1. CASE StartOk
  BY <1>1 DEF StartOk, boxVars, BoxTypeOK
<1>2. CASE StartFails
  BY <1>2 DEF StartFails, boxVars, BoxTypeOK
<1>3. CASE RequestStop
  BY <1>3 DEF RequestStop, boxVars, BoxTypeOK
<1>4. CASE Join
  BY <1>4 DEF Join, boxVars, BoxTypeOK
<1>5. CASE Stopped
  BY <1>5 DEF Stopped, boxVars, BoxTypeOK
<1>6. CASE LoopHead
  BY <1>6 DEF LoopHead, boxVars, BoxTypeOK
<1>7. CASE GrabbedNewer
  BY <1>7 DEF GrabbedNewer, Grabbed, Frames, boxVars, BoxTypeOK
<1>8. CASE AccountCovers
  BY <1>8 DEF AccountCovers, Account, Drops, boxVars, BoxTypeOK
<1>9. CASE Copy
  BY <1>9 DEF Copy, boxVars, BoxTypeOK
<1>10. CASE LogCbkAny
  BY <1>10, NextIdxType, LogCbkType DEF LogCbkAny, LogCbk, Frames
<1>11. CASE Send
  BY <1>11 DEF Send, Frames, boxVars, BoxTypeOK
<1>12. CASE LogPub
  BY <1>12, LogPubType DEF LogPub
<1>13. CASE Released
  BY <1>13 DEF Released, Frames, NoFrame, boxVars, BoxTypeOK
<1>14. CASE UNCHANGED nodeVars
  BY <1>14 DEF nodeVars, boxVars, BoxTypeOK
<1> QED
  BY <1>1, <1>2, <1>3, <1>4, <1>5, <1>6, <1>7, <1>8, <1>9, <1>10, <1>11, <1>12,
     <1>13, <1>14 DEF NodeStep

--------------------------------------------------------------------------------
(* A turn of the loop *)

\* Where the two threads can be at the same time.
Control == /\ main = "starting" => pc = "none"
           /\ main \in {"joined", "stopped"} => pc \in {"none", "done"}

\* The frame of the turn is the last one grabbed, and what has become of it.
Turn == /\ pc \in Holding => frame.id = grabbed /\ Valid(frame)
        /\ published <= grabbed
        /\ pc \in {"account", "copy", "log", "send"} => published < grabbed
        /\ pc = "log_pub" => published = grabbed

\* The counters: what was counted covers what was grabbed.
Counted == /\ last_push_seen <= n_pull + total_drops
           /\ pc # "account" => grabbed <= last_push_seen

NodeInv == Control /\ Turn /\ Counted

\* Nothing grabbed, nothing counted, no thread.
LEMMA NodeInvInit == NodeInit => NodeInv
BY DEF NodeInit, NodeInv, Control, Turn, Counted, Holding

\* Each part of NodeInv is kept by every step.
LEMMA NodeInvNext == NodeTypeOK /\ NodeInv /\ NodeStep => NodeInv'
<1> SUFFICES ASSUME NodeTypeOK, NodeInv, NodeStep PROVE NodeInv'
  OBVIOUS
<1> USE DEF NodeInv, Control, Turn, Counted, Holding, NodeTypeOK, Frames
<1>1. CASE StartOk
  BY <1>1 DEF StartOk
<1>2. CASE StartFails
  BY <1>2 DEF StartFails
<1>3. CASE RequestStop
  BY <1>3 DEF RequestStop
<1>4. CASE Join
  BY <1>4 DEF Join
<1>5. CASE Stopped
  BY <1>5 DEF Stopped
<1>6. CASE LoopHead
  BY <1>6 DEF LoopHead
<1>7. CASE GrabbedNewer
  BY <1>7 DEF GrabbedNewer, Grabbed
<1>8. CASE AccountCovers
  BY <1>8 DEF AccountCovers, Account, Drops
<1>9. CASE Copy
  BY <1>9 DEF Copy
<1>10. CASE LogCbkAny
  BY <1>10 DEF LogCbkAny, LogCbk
<1>11. CASE Send
  BY <1>11 DEF Send
<1>12. CASE LogPub
  BY <1>12 DEF LogPub
<1>13. CASE Released
  BY <1>13 DEF Released
<1>14. CASE UNCHANGED nodeVars
  BY <1>14 DEF nodeVars
<1> QED
  BY <1>1, <1>2, <1>3, <1>4, <1>5, <1>6, <1>7, <1>8, <1>9, <1>10, <1>11, <1>12,
     <1>13, <1>14 DEF NodeStep

--------------------------------------------------------------------------------
(* The blackbox tells the publish history *)

\* The record that is open: from log_cbk to log_pub, the one of this turn.
Open(i) == pc \in {"send", "log_pub"} /\ record_idx = i

(***************************************************************************)
(* RecordsTellHistory made inductive: it says of idx and seq where the     *)
(* next record goes and of record_idx that it is the last record's index,  *)
(* or SIZE_MAX when the array was full; and it says that the open record   *)
(* is the one of the frame in hand.                                        *)
(***************************************************************************)
Filled == /\ idx <= kBufN => seq = idx
          /\ \A i \in Slot : base[i].cap_done <=> i < idx
          /\ \A i \in Slot : i < idx => base[i].seq = i + 1

Latest == pc \in {"send", "log_pub"} =>
            /\ record_idx = IF idx <= kBufN THEN idx - 1 ELSE SIZE_MAX
            /\ record_idx \in Slot => base[record_idx].header_stamp = grabbed

Closed == \A i \in Slot : i < idx =>
            /\ base[i].header_stamp <= grabbed
            /\ ~base[i].ros_done <=> Open(i)
            /\ base[i].ros_done => base[i].header_stamp <= published

Ordered == \A i, j \in Slot : j < i /\ i < idx =>
             base[j].header_stamp < base[i].header_stamp

RecordInv == Filled /\ Latest /\ Closed /\ Ordered

\* A file fresh from fallocate has no record.
LEMMA RecordInvInit == NodeInit => RecordInv
<1> SUFFICES ASSUME NodeInit PROVE RecordInv
  OBVIOUS
<1>1. /\ idx = 0 /\ seq = 0 /\ pc = "none"
      /\ \A i \in Slot : ~(i < idx) /\ base[i].cap_done = FALSE
  BY DEF NodeInit, BoxInit, Blank, Slot
<1> QED
  BY <1>1 DEF RecordInv, Filled, Latest, Closed, Ordered

\* Any step that leaves the blackbox alone and does not go in or out of the part of
\* the turn where a record is open.
LEMMA RecordInvQuiet ==
  ASSUME NodeTypeOK, RecordInv, UNCHANGED boxVars, record_idx' = record_idx,
         grabbed' >= grabbed, published' >= published,
         grabbed' \in Nat, published' \in Nat,
         pc \in {"send", "log_pub"} <=> pc' \in {"send", "log_pub"},
         pc \in {"send", "log_pub"} => grabbed' = grabbed
  PROVE  RecordInv'
<1> USE DEF RecordInv, boxVars, NodeTypeOK, BoxTypeOK, ImagePubRecord
<1>1. Filled'
  BY DEF Filled
<1>2. Latest'
  BY DEF Latest
<1>3. Closed'
  BY DEF Closed, Open
<1>4. Ordered'
  BY DEF Ordered
<1> QED BY <1>1, <1>2, <1>3, <1>4

\* log_cbk adds the record of the frame in hand after the others, which are closed.
LEMMA RecordInvLogCbk ==
  ASSUME NodeTypeOK, NodeInv, RecordInv, NEW t \in Nat, LogCbk(t)
  PROVE  RecordInv'
<1> USE DEF RecordInv, NodeTypeOK
<1>1. /\ frame.id = grabbed /\ published < grabbed
      /\ pc = "log" /\ pc' = "send" /\ grabbed' = grabbed /\ published' = published
      /\ idx' = idx + 1 /\ record_idx' = next_idx
  BY DEF NodeInv, Turn, Holding, LogCbk, log_cbk
<1>2. \A i \in Slot : i < idx => base[i].ros_done /\ base[i].header_stamp <= published
  BY <1>1 DEF Closed, Open
<1>3. CASE idx < kBufN
  <2> DEFINE r == [seq |-> seq + 1, header_stamp |-> frame.id, t_capture_ns |-> t,
                   cap_done |-> TRUE, ros_done |-> FALSE]
  <2>1. seq' = seq + 1 /\ base' = [base EXCEPT ![idx] = r]
    BY <1>3 DEF LogCbk, log_cbk
  <2>2. idx \in Slot /\ record_idx' = idx /\ base'[idx] = r
    BY <1>1, <1>3, <2>1 DEF Slot, next_idx, BoxTypeOK
  <2>3. \A i \in Slot : i # idx => base'[i] = base[i]
    BY <2>1 DEF BoxTypeOK
  <2>4. Filled'
    BY <1>1, <1>3, <2>1, <2>2, <2>3 DEF Filled, Slot, BoxTypeOK
  <2>5. Latest'
    BY <1>1, <1>3, <2>2 DEF Latest, BoxTypeOK
  <2>6. \A i \in Slot : i < idx' => i = idx \/ (i < idx /\ i # idx)
    BY <1>1, <1>3, <2>2 DEF Slot
  <2>7. /\ r.header_stamp = grabbed /\ ~r.ros_done
        /\ grabbed \in Nat /\ published \in Nat
        /\ \A i \in Slot : base[i].header_stamp \in Nat
    BY <1>1 DEF BoxTypeOK, ImagePubRecord
  <2>8. Closed'
    <3> SUFFICES ASSUME NEW i \in Slot, i < idx'
                 PROVE  /\ base'[i].header_stamp <= grabbed
                        /\ ~base'[i].ros_done <=> i = idx
                        /\ base'[i].ros_done => base'[i].header_stamp <= published
      BY <1>1, <2>2 DEF Closed, Open
    <3>1. CASE i = idx
      BY <2>2, <2>7, <3>1
    <3>2. CASE i < idx /\ i # idx
      BY <1>1, <1>2, <2>3, <2>7, <3>2
    <3> QED BY <2>6, <3>1, <3>2
  <2>9. Ordered'
    <3> SUFFICES ASSUME NEW i \in Slot, NEW j \in Slot, j < i, i < idx'
                 PROVE  base'[j].header_stamp < base'[i].header_stamp
      BY DEF Ordered
    <3>1. j < idx /\ j # idx
      BY <2>2, <2>6 DEF Slot
    <3>2. CASE i = idx
      BY <1>1, <1>2, <2>2, <2>3, <2>7, <3>1, <3>2
    <3>3. CASE i < idx /\ i # idx
      BY <2>3, <3>1, <3>3 DEF Ordered
    <3> QED BY <2>6, <3>2, <3>3
  <2> QED BY <2>4, <2>5, <2>8, <2>9
<1>4. CASE ~(idx < kBufN)
  <2>1. seq' = seq /\ base' = base /\ record_idx' = SIZE_MAX
    BY <1>1, <1>4 DEF LogCbk, log_cbk, next_idx
  <2>2. SIZE_MAX \notin Slot /\ idx' > kBufN /\ idx \in Nat
    BY <1>1, <1>4 DEF SIZE_MAX, Slot, BoxTypeOK
  <2>3. Filled'
    BY <1>1, <1>4, <2>1, <2>2 DEF Filled, Slot, BoxTypeOK
  <2>4. Latest'
    BY <1>1, <2>1, <2>2 DEF Latest
  <2>5. Closed'
    BY <1>1, <1>2, <1>4, <2>1, <2>2 DEF Closed, Open, Slot, BoxTypeOK, ImagePubRecord
  <2>6. Ordered'
    BY <1>1, <1>4, <2>1, <2>2 DEF Ordered, Slot, BoxTypeOK
  <2> QED BY <2>3, <2>4, <2>5, <2>6
<1> QED BY <1>3, <1>4 DEF BoxTypeOK

\* log_pub closes the one open record, whose frame has just been published.
LEMMA RecordInvLogPub ==
  ASSUME NodeTypeOK, NodeInv, RecordInv, LogPub
  PROVE  RecordInv'
<1> USE DEF RecordInv, NodeTypeOK
<1>1. /\ pc = "log_pub" /\ pc' = "release" /\ published = grabbed
      /\ grabbed' = grabbed /\ published' = published
      /\ idx' = idx /\ seq' = seq /\ record_idx' = record_idx
  BY DEF NodeInv, Turn, LogPub, log_pub
<1>2. \A i \in Slot : /\ i # record_idx => base'[i] = base[i]
                      /\ i = record_idx => /\ base'[i].ros_done
                                           /\ base'[i].seq = base[i].seq
                                           /\ base'[i].cap_done = base[i].cap_done
                                           /\ base'[i].header_stamp = base[i].header_stamp
  BY DEF LogPub, log_pub, BoxTypeOK, ImagePubRecord
<1>3. Filled'
  BY <1>1, <1>2 DEF Filled
<1>4. Latest'
  BY <1>1 DEF Latest
<1>5. Closed'
  BY <1>1, <1>2 DEF Closed, Open, Latest
<1>6. Ordered'
  BY <1>1, <1>2 DEF Ordered
<1> QED BY <1>3, <1>4, <1>5, <1>6

\* Every step of the node keeps the records in order and closed but for the one in hand.
LEMMA RecordInvNext == NodeTypeOK /\ NodeInv /\ RecordInv /\ NodeStep => RecordInv'
<1> SUFFICES ASSUME NodeTypeOK, NodeInv, RecordInv, NodeStep PROVE RecordInv'
  OBVIOUS
<1>1. NodeTypeOK' /\ grabbed \in Nat /\ published \in Nat
  BY NodeTypeNext DEF NodeTypeOK
<1>2. grabbed' \in Nat /\ published' \in Nat
  BY <1>1 DEF NodeTypeOK
<1>3. CASE \/ StartOk \/ StartFails \/ RequestStop \/ Join \/ Stopped
           \/ LoopHead \/ AccountCovers \/ Copy \/ Released
  BY <1>1, <1>2, <1>3, RecordInvQuiet
     DEF StartOk, StartFails, RequestStop, Join, Stopped, LoopHead, AccountCovers,
         Account, Copy, Released, NodeInv, Control
<1>4. CASE GrabbedNewer
  BY <1>1, <1>2, <1>4, RecordInvQuiet DEF GrabbedNewer, Grabbed, Frames
<1>5. CASE LogCbkAny
  BY <1>5, RecordInvLogCbk DEF LogCbkAny
<1>6. CASE Send
  BY <1>1, <1>2, <1>6, RecordInvQuiet DEF Send, NodeInv, Turn, Holding
<1>7. CASE LogPub
  BY <1>7, RecordInvLogPub
<1>8. CASE UNCHANGED nodeVars
  BY <1>1, <1>2, <1>8, RecordInvQuiet DEF nodeVars
<1> QED
  BY <1>3, <1>4, <1>5, <1>6, <1>7, <1>8 DEF NodeStep

\* The property of the runs is part of the invariant.
LEMMA RecordsFollow == NodeTypeOK /\ RecordInv => RecordsTellHistory
BY DEF RecordsTellHistory, RecordInv, Filled, Closed, Ordered, Open, NodeTypeOK,
       BoxTypeOK, ImagePubRecord, Slot

--------------------------------------------------------------------------------
(* Consequences *)

\* No lost frame goes unreported (econ_ros2_driver.cpp:132).
LEMMA NoDropMissedFollows == NodeTypeOK /\ NodeInv => NoDropMissed
BY DEF NodeTypeOK, NodeInv, Counted, NoDropMissed

\* publish() is given each frame once, in capture order (econ_ros2_driver.cpp:180).
LEMMA InOrderStep ==
  NodeTypeOK /\ NodeInv /\ NodeStep =>
    [pc = "send" /\ pc' # "send" => published' > published]_<<pc, published>>
<1> SUFFICES ASSUME NodeTypeOK, NodeInv, NodeStep, pc = "send", pc' # "send"
             PROVE  published' > published
  OBVIOUS
<1>1. Send
  BY DEF NodeStep, NodeInv, Control, StartOk, StartFails, RequestStop, Join, Stopped,
         LoopHead, GrabbedNewer, Grabbed, AccountCovers, Account, Copy, LogCbkAny, LogCbk,
         LogPub, Released, nodeVars
<1> QED
  BY <1>1 DEF Send, NodeInv, Turn, Holding

--------------------------------------------------------------------------------
(* How a turn ends, and shutdown *)

\* A turn that comes to release() with a frame that is not refused has published it.
TurnPublishes == pc = "release" /\ (Compressed \/ frame.size = "full") => published = frame.id

\* stop() and the end of spin() are one moment (GrabLoop), and main goes on from there.
StopSet == stop <=> main \in {"joining", "joined", "stopped"}

\* Steps the grab thread has before it until it looks at stop, and that one.
TurnLeft == IF pc = "grab" THEN 8
            ELSE IF pc = "account" THEN 7
            ELSE IF pc = "copy" THEN 6
            ELSE IF pc = "log" THEN 5
            ELSE IF pc = "send" THEN 4
            ELSE IF pc = "log_pub" THEN 3
            ELSE IF pc = "release" THEN 2
            ELSE IF pc = "loop" THEN 1
            ELSE 0

\* Steps main has before it in shutdown().
MainLeft == IF main = "joining" THEN 2 ELSE IF main = "joined" THEN 1 ELSE 0

\* Steps of the two threads until shutdown is complete, once stop is set.
StepsLeft == TurnLeft + MainLeft

\* The only way out of a turn without publish() is the size guard.
LEMMA TurnPublishesNext ==
  NodeTypeOK /\ NodeInv /\ TurnPublishes /\ NodeStep => TurnPublishes'
<1> SUFFICES ASSUME NodeTypeOK, NodeInv, TurnPublishes, NodeStep PROVE TurnPublishes'
  OBVIOUS
<1> USE DEF TurnPublishes, NodeInv, Control, Turn, Holding
<1>1. CASE StartOk \/ StartFails \/ RequestStop \/ Join \/ Stopped \/ LoopHead
  BY <1>1 DEF StartOk, StartFails, RequestStop, Join, Stopped, LoopHead
<1>2. CASE GrabbedNewer \/ AccountCovers \/ Copy
  BY <1>2 DEF GrabbedNewer, Grabbed, AccountCovers, Account, Copy
<1>3. CASE LogCbkAny \/ Send \/ LogPub \/ Released
  BY <1>3 DEF LogCbkAny, LogCbk, Send, LogPub, Released
<1>4. CASE UNCHANGED nodeVars
  BY <1>4 DEF nodeVars
<1> QED
  BY <1>1, <1>2, <1>3, <1>4 DEF NodeStep

\* shutdown() is the one place that sets stop, and nothing resets it.
LEMMA StopSetNext == StopSet /\ NodeStep => StopSet'
<1> SUFFICES ASSUME StopSet, NodeStep PROVE StopSet'
  OBVIOUS
<1> USE DEF StopSet
<1>1. CASE StartOk \/ StartFails \/ RequestStop \/ Join \/ Stopped \/ LoopHead
  BY <1>1 DEF StartOk, StartFails, RequestStop, Join, Stopped, LoopHead
<1>2. CASE GrabbedNewer \/ AccountCovers \/ Copy
  BY <1>2 DEF GrabbedNewer, Grabbed, AccountCovers, Account, Copy
<1>3. CASE LogCbkAny \/ Send \/ LogPub \/ Released
  BY <1>3 DEF LogCbkAny, LogCbk, Send, LogPub, Released
<1>4. CASE UNCHANGED nodeVars
  BY <1>4 DEF nodeVars
<1> QED
  BY <1>1, <1>2, <1>3, <1>4 DEF NodeStep

\* There are at most ten steps.
LEMMA StepsLeftType == StepsLeft \in 0 .. 10
<1>1. TurnLeft \in 0 .. 8
  BY DEF TurnLeft
<1>2. MainLeft \in 0 .. 2
  BY DEF MainLeft
<1> QED BY <1>1, <1>2 DEF StepsLeft

\* A step of a turn is one step less; so is the look at stop, when stop is set.
LEMMA TurnGoesDown ==
  ASSUME \/ LoopHead /\ stop
         \/ GrabbedNewer \/ AccountCovers \/ Copy \/ LogCbkAny
         \/ Send \/ LogPub \/ Released
  PROVE  TurnLeft' < TurnLeft /\ UNCHANGED <<main, stop>>
<1> USE DEF TurnLeft
<1>1. CASE LoopHead /\ stop
  BY <1>1 DEF LoopHead
<1>2. CASE GrabbedNewer \/ AccountCovers \/ Copy
  BY <1>2 DEF GrabbedNewer, Grabbed, AccountCovers, Account, Copy
<1>3. CASE LogCbkAny \/ Send \/ LogPub \/ Released
  BY <1>3 DEF LogCbkAny, LogCbk, Send, LogPub, Released
<1> QED
  BY <1>1, <1>2, <1>3

\* Of two counts, one goes down and the other stays.
LEMMA FirstLess ==
  ASSUME NEW t1 \in Nat, NEW t \in Nat, NEW m1 \in Nat, NEW m \in Nat, t1 < t, m1 = m
  PROVE  t1 + m1 < t + m
OBVIOUS

LEMMA SecondLess ==
  ASSUME NEW t1 \in Nat, NEW t \in Nat, NEW m1 \in Nat, NEW m \in Nat, t1 = t, m1 < m
  PROVE  t1 + m1 < t + m
OBVIOUS

\* A step of either thread brings shutdown closer.
LEMMA StepsGoDown ==
  ASSUME \/ LoopHead /\ stop
         \/ GrabbedNewer \/ AccountCovers \/ Copy \/ LogCbkAny
         \/ Send \/ LogPub \/ Released \/ Join \/ Stopped
  PROVE  StepsLeft' < StepsLeft
<1>1. TurnLeft \in Nat /\ TurnLeft' \in Nat
  BY DEF TurnLeft
<1>2. MainLeft \in Nat /\ MainLeft' \in Nat
  BY DEF MainLeft
<1>3. CASE Join \/ Stopped
  <2>1. MainLeft' < MainLeft
    BY <1>3 DEF Join, Stopped, MainLeft
  <2>2. TurnLeft' = TurnLeft
    BY <1>3 DEF Join, Stopped, TurnLeft
  <2> QED BY <1>1, <1>2, <2>1, <2>2, SecondLess DEF StepsLeft
<1>4. CASE ~(Join \/ Stopped)
  <2>1. TurnLeft' < TurnLeft
    BY <1>4, TurnGoesDown
  <2>2. MainLeft' = MainLeft
    BY <1>4, TurnGoesDown DEF MainLeft
  <2> QED BY <1>1, <1>2, <2>1, <2>2, FirstLess DEF StepsLeft
<1> QED
  BY <1>3, <1>4

\* While it waits, nothing of the node moves.
LEMMA StepsStay == UNCHANGED nodeVars => StepsLeft' = StepsLeft /\ stop' = stop
BY DEF nodeVars, StepsLeft, TurnLeft, MainLeft

\* A stop that is not over has a step to go; one that is over has none.
LEMMA StepsToStopped ==
  ASSUME NodeInv, StopSet, stop
  PROVE  StepsLeft \in 0 .. 10 /\ (StepsLeft = 0 <=> main = "stopped")
<1>1. TurnLeft \in Nat /\ MainLeft \in Nat
  BY DEF TurnLeft, MainLeft
<1>2. MainLeft = 0 <=> main = "stopped"
  BY DEF MainLeft, StopSet
<1>3. main = "stopped" => TurnLeft = 0
  BY DEF TurnLeft, NodeInv, Control
<1>4. StepsLeft = 0 <=> TurnLeft = 0 /\ MainLeft = 0
  BY <1>1 DEF StepsLeft
<1> QED BY <1>2, <1>3, <1>4, StepsLeftType

================================================================================
