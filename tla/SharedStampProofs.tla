--------------------------- MODULE SharedStampProofs ---------------------------
(***************************************************************************)
(* Proofs about SharedStamp, for every number of triggers and of files.    *)
(* The invariant ties the word in a file to the triggers so far (Lidar),   *)
(* and the mapped word to the stamps that were already read (Mapping).     *)
(***************************************************************************)
EXTENDS SharedStamp, TLAPS

\* A LiDAR process that is up has sized its file, and has written in it every trigger
\* since its first but the one it owes.
LidarInv == /\ lidar # "down" => lfile = path /\ path # 0
            /\ lidar = "up" => lfile \in sized
            /\ owes => lidar = "up"
            /\ since # 0 => /\ lidar = "up"
                            /\ since <= trigger
                            /\ word[lfile] >= IF owes THEN trigger - 1 ELSE trigger

\* No number is ahead of the triggers.
Bounded == /\ \A f \in File : word[f] <= trigger
           /\ frame <= trigger
           /\ stamp <= trigger
           /\ last <= trigger

\* A file once mapped stays so to the end; a word in it other than zero is not behind a
\* stamp that came from it, and a zero after such a stamp is the work of a truncation.
Mapping ==
  node # "closed" =>
    /\ mapped = 0 => last = 0
    /\ mapped = 0 /\ node = "send" => stamp = 0
    /\ mapped # 0 => /\ word[mapped] = 0 => last = 0 \/ cut
                     /\ word[mapped] # 0 => last <= word[mapped]
                     /\ node = "send" /\ stamp # 0 =>
                          /\ word[mapped] = 0 => cut
                          /\ word[mapped] # 0 => stamp <= word[mapped]

SharedStampInv == /\ TypeOK
                  /\ LidarInv
                  /\ Bounded
                  /\ Mapping
                  /\ StampAtMostOneBehind
                  /\ SharedClockNeverBack
                  /\ SharedClockKept

--------------------------------------------------------------------------------
\* The two bounds are positive numbers.
LEMMA Bounds == /\ MaxTriggers \in Nat \ {0}
                /\ MaxFiles \in Nat \ {0}
BY SharedStampAssumption

\* The first trigger was on an earlier day; nothing has been mapped or written since.
LEMMA SharedStampInvInit == Init => SharedStampInv
<1> SUFFICES ASSUME Init PROVE SharedStampInv
  OBVIOUS
<1>1. TypeOK
  <2>1. {0, 1} \subseteq Time /\ path \in 0 .. MaxFiles
    BY Bounds DEF Init, Time
  <2>2. word \in [File -> Time]
    BY <2>1 DEF Init
  <2>3. sized \subseteq File
    BY Bounds DEF Init, File
  <2>4. owes \in BOOLEAN /\ cut \in BOOLEAN
    BY Zenon DEF Init
  <2> QED
    BY <2>1, <2>2, <2>3, <2>4, Bounds DEF Init, TypeOK
<1>2. Bounded
  BY Bounds DEF Init, Bounded, File
<1>3. LidarInv /\ Mapping
  BY DEF Init, LidarInv, Mapping
<1> QED
  BY <1>1, <1>2, <1>3 DEF Init, SharedStampInv, StampAtMostOneBehind,
     SharedClockNeverBack, SharedClockKept

\* What the LiDAR process owes, and whether the mapped file was cut, stay truth values.
LEMMA BooleanNext ==
  ASSUME owes \in BOOLEAN, cut \in BOOLEAN, [Next]_vars
  PROVE  owes' \in BOOLEAN /\ cut' \in BOOLEAN
<1>1. CASE Trigger \/ Lidar
  BY <1>1, Zenon DEF Trigger, Lidar, LidarWrites, LidarOpens, LidarSizes, LidarDies
<1>2. CASE Node
  BY <1>2, Zenon DEF Node, Grab, try_open, Read, Send, close, lidarVars, fileVars
<1>3. CASE UNCHANGED vars
  BY <1>3, Zenon DEF vars, lidarVars, fileVars
<1> QED
  BY <1>1, <1>2, <1>3 DEF Next, Over

\* Every action of the trigger line, the LiDAR process and the node keeps the types:
\* word and stamp are triggers, and the mapped file is one that was made.
LEMMA TypeNext == TypeOK /\ LidarInv /\ Bounded /\ [Next]_vars => TypeOK'
<1> SUFFICES ASSUME TypeOK, LidarInv, Bounded, [Next]_vars PROVE TypeOK'
  OBVIOUS
<1>0. owes' \in BOOLEAN /\ cut' \in BOOLEAN
  BY BooleanNext DEF TypeOK
<1> USE <1>0, Bounds DEF TypeOK, Time, File
<1>1. CASE Trigger
  BY <1>1 DEF Trigger, nodeVars
<1>2. CASE LidarWrites
  BY <1>2 DEF LidarWrites, nodeVars
<1>3. CASE LidarOpens
  <2>1. /\ path' = path \/ (path < MaxFiles /\ path' = path + 1)
        /\ word' = word \/ word' = [word EXCEPT ![path] = 0]
        /\ sized' = sized \/ sized' = sized \ {path}
        /\ lidar' \in {"up", "opened"}
    BY <1>3, Zenon DEF LidarOpens
  <2>2. lfile' = path' /\ UNCHANGED <<trigger, since, nodeVars>>
    BY <1>3, Zenon DEF LidarOpens
  <2>3. 0 \in Time
    OBVIOUS
  <2>4. word' \in [File -> Time]
    <3>1. CASE word' = word
      BY <3>1
    <3>2. CASE word' = [word EXCEPT ![path] = 0]
      BY <3>2, <2>3
    <3> QED
      BY <2>1, <3>1, <3>2
  <2>5. path' \in 0 .. MaxFiles
    BY <2>1
  <2>6. sized' \subseteq File
    BY <2>1
  <2> QED
    BY <2>1, <2>2, <2>4, <2>5, <2>6 DEF nodeVars
<1>4. CASE LidarSizes
  BY <1>4 DEF LidarSizes, nodeVars, LidarInv
<1>5. CASE LidarDies
  BY <1>5 DEF LidarDies, nodeVars
<1>6. CASE Grab
  BY <1>6 DEF Grab, lidarVars, fileVars
<1>7. CASE try_open
  BY <1>7 DEF try_open, lidarVars, fileVars
<1>8. CASE Read
  <2>1. mapped = 0 \/ word[mapped] \in Time
    OBVIOUS
  <2>2. stamp' \in Time /\ node' \in {"send", "dead"}
    BY <1>8, <2>1 DEF Read
  <2> QED
    BY <1>8, <2>2 DEF Read, fileVars
<1>9. CASE Send
  BY <1>9 DEF Send, lidarVars, fileVars
<1>10. CASE close
  BY <1>10 DEF close, lidarVars, fileVars
<1>11. CASE UNCHANGED vars
  BY <1>11 DEF vars, lidarVars, fileVars, nodeVars
<1> QED
  BY <1>1, <1>2, <1>3, <1>4, <1>5, <1>6, <1>7, <1>8, <1>9, <1>10, <1>11
  DEF Next, Lidar, Node, Over

\* The steps of the environment keep what relates words, triggers and mapping.
LEMMA LidarNext == SharedStampInv /\ (Trigger \/ Lidar) => SharedStampInv'
<1> SUFFICES ASSUME SharedStampInv, Trigger \/ Lidar PROVE SharedStampInv'
  OBVIOUS
<1>0. TypeOK'
  BY TypeNext DEF Next, SharedStampInv
<1> USE <1>0, Bounds DEF SharedStampInv, TypeOK, Time, File, LidarInv, Bounded, Mapping,
        StampAtMostOneBehind, SharedClockNeverBack, SharedClockKept
<1>1. CASE Trigger
  <2>1. /\ trigger' = trigger + 1
        /\ ~owes /\ (owes' => lidar = "up") /\ (lidar = "up" => owes')
        /\ UNCHANGED <<path, word, sized, lidar, since, lfile, nodeVars>>
        /\ cut => cut'
    BY <1>1, Zenon DEF Trigger
  <2> QED
    BY <2>1 DEF nodeVars
<1>2. CASE LidarWrites
  BY <1>2 DEF LidarWrites, nodeVars
<1>3. CASE LidarOpens
  <2>1. /\ lidar = "down" /\ lfile' = path'
        /\ lidar' = IF path' \in sized' THEN "up" ELSE "opened"
        /\ UNCHANGED <<trigger, since, nodeVars>>
        /\ cut => cut'
        /\ owes' => owes
    BY <1>3, Zenon DEF LidarOpens
  <2>2. \/ /\ path # 0
           /\ UNCHANGED <<path, word, sized>>
        \/ /\ path # 0
           /\ word' = [word EXCEPT ![path] = 0]
           /\ mapped = path => cut'
           /\ UNCHANGED path
        \/ path' = path + 1 /\ UNCHANGED <<word, sized>>
    BY <1>3, Zenon DEF LidarOpens
  <2> QED
    BY <2>1, <2>2 DEF nodeVars
<1>4. CASE LidarSizes
  BY <1>4 DEF LidarSizes, nodeVars
<1>5. CASE LidarDies
  BY <1>5 DEF LidarDies, nodeVars
<1> QED
  BY <1>1, <1>2, <1>3, <1>4, <1>5 DEF Lidar

\* And so do the steps of the node: it reads the word after the frame's trigger, and
\* maps a file only as long as it has none.
LEMMA NodeNext == SharedStampInv /\ Node => SharedStampInv'
<1> SUFFICES ASSUME SharedStampInv, Node PROVE SharedStampInv'
  OBVIOUS
<1>0. TypeOK'
  BY TypeNext DEF Next, SharedStampInv
<1> USE <1>0, Bounds DEF SharedStampInv, TypeOK, Time, File, LidarInv, Bounded, Mapping,
        StampAtMostOneBehind, SharedClockNeverBack, SharedClockKept, lidarVars, fileVars
<1>1. CASE Grab
  BY <1>1 DEF Grab
<1>2. CASE try_open
  BY <1>2 DEF try_open
<1>3. CASE Read
  BY <1>3 DEF Read
<1>4. CASE Send
  BY <1>4 DEF Send
<1>5. CASE close
  BY <1>5 DEF close
<1> QED
  BY <1>1, <1>2, <1>3, <1>4, <1>5 DEF Node

\* SharedStampInv is an invariant.
THEOREM SharedStampInvariant == Spec => []SharedStampInv
<1>1. SharedStampInv /\ UNCHANGED vars => SharedStampInv'
  BY DEF SharedStampInv, TypeOK, LidarInv, Bounded, Mapping, StampAtMostOneBehind,
     SharedClockNeverBack, SharedClockKept, vars, lidarVars, fileVars, nodeVars
<1>2. SharedStampInv /\ [Next]_vars => SharedStampInv'
  BY <1>1, LidarNext, NodeNext DEF Next, Over
<1> QED
  BY SharedStampInvInit, <1>2, PTL DEF Spec

--------------------------------------------------------------------------------
\* Words and stamps are triggers, and a stamper that was closed has nothing mapped.
THEOREM StampTypeCorrect == Spec => []TypeOK
BY SharedStampInvariant, PTL DEF SharedStampInv

\* While the LiDAR process that writes the mapped file has been writing since before
\* the frame's trigger, the stamp is at most one trigger behind.
THEOREM StampIsAtMostOneBehind == Spec => []StampAtMostOneBehind
BY SharedStampInvariant, PTL DEF SharedStampInv

\* Stamps on the shared clock never go back.
THEOREM SharedClockNeverGoesBack == Spec => []SharedClockNeverBack
BY SharedStampInvariant, PTL DEF SharedStampInv

\* now() comes back only after the LiDAR process has truncated the file.
THEOREM SharedClockIsKept == Spec => []SharedClockKept
BY SharedStampInvariant, PTL DEF SharedStampInv

================================================================================
