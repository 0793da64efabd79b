------------------------------ MODULE CrashProofs ------------------------------
(***************************************************************************)
(* Proofs about Blackbox, for every capacity, page size, clock and number  *)
(* of frames and sessions.  The properties speak of files; to be kept they *)
(* need where the grab thread is in its record (Calls, Cells), what the    *)
(* fdatasync under way will have done (Sync), and that no session gets the *)
(* file of another one (Names).                                            *)
(***************************************************************************)
EXTENDS Blackbox, FiniteSetTheorems, TLAPS

Down == main \in {"down", "init"}

\* Records that log_cbk has given out.
Taken == IF idx < kBufN THEN idx ELSE kBufN

\* The record is in S with all its fields.
Full(i, S) == \A f \in Field : <<i, f>> \in S

\* Fields of the record in hand that may be missing.
Left == IF grab = "cbk" THEN todo \union {"t_pub", "ros_done"}
        ELSE IF grab = "send" THEN {"t_pub", "ros_done"} ELSE todo

\* Nothing runs in a process that is gone or new, nothing logs but while main runs, and
\* the writer is done before the last fdatasync.
Threads == /\ Down => /\ grab = "idle" /\ idx = 0
                      /\ writer = "none" /\ syncing = {} /\ closed = 0 /\ promised = 0
           /\ grab # "idle" => main = "run"
           /\ main \in {"final", "exit"} => writer = "done"

\* The record in hand is the last one taken, and the ones before it are closed.
Calls == /\ idx <= frames
         /\ idx = kBufN => frames <= MaxFrames
         /\ grab = "idle" => closed = Taken
         /\ grab # "idle" => \/ rec = idx - 1 /\ rec \in Slot /\ closed = rec
                             \/ /\ rec = SIZE_MAX /\ grab = "send"
                                /\ idx > kBufN /\ closed = kBufN

\* No two sessions have one directory.
Names == /\ IsFiniteSet(names)
         /\ \A n \in names : n[2] <= Cardinality(names)
         /\ main = "init" => /\ name \notin names \union older
                             /\ name[2] <= Cardinality(names) + 1
         /\ ~Down => name \in names

\* What the file has of the records, in a process that runs and afterwards.
Cells == /\ \A i \in Slot : i < closed => Full(i, cache[name])
         /\ ~Down => \A i \in Slot, f \in Field : <<i, f>> \in cache[name] => i < Taken
         /\ grab # "idle" /\ rec \in Slot =>
              \A f \in Field \ Left : <<rec, f>> \in cache[name]
         /\ \A n \in names, i, j \in Slot, f \in Field :
              i < j /\ <<j, f>> \in cache[n] => Full(i, cache[n])

\* What fdatasync has done, and will have done when it ends.
Sync == /\ \A n \in Name : synced[n] # 0 => n \in names \union older
        /\ \A n \in Name, i \in Slot : i < synced[n] => Full(i, disk[n])
        /\ \A i \in Slot : i < promised => Full(i, syncing)
        /\ main = "final" => syncing = cache[name] /\ promised = closed
        /\ main = "exit" => disk[name] = cache[name] /\ synced[name] = closed

BoxInv == TypeOK /\ Threads /\ Calls /\ Names /\ Cells /\ Sync

--------------------------------------------------------------------------------
\* The capacity and the bounds are numbers.
LEMMA Constants == /\ kBufN \in Nat \ {0}
                   /\ MaxFrames \in Nat /\ MaxSessions \in Nat
BY BlackboxAssumption

\* The fields of a record, by name.
LEMMA Fields == Field = {"data", "t_pub", "cap_done", "ros_done"}
BY DEF Field, Offset

\* A directory is named by two numbers.
LEMMA NameType == ASSUME NEW n \in Name PROVE n[1] \in Nat /\ n[2] \in Nat
<1>1. Second \subseteq Nat
  BY BlackboxAssumption
<1>2. n[1] \in Second /\ n[2] \in 1 .. MaxSessions
  BY DEF Name
<1>3. n[1] \in Nat
  BY <1>1, <1>2, Zenon
<1>4. \A m \in 1 .. MaxSessions : m \in Nat
  BY Constants
<1> QED
  BY <1>2, <1>3, <1>4, Zenon

\* No file, nothing synced.
LEMMA BoxInvInit == Init => BoxInv
<1> SUFFICES ASSUME Init PROVE BoxInv
  OBVIOUS
<1>1. TypeOK
  <2>1. running \in BOOLEAN
    BY Zenon DEF Init
  <2>2. synced \in [Name -> 0 .. kBufN]
    BY Constants DEF Init
  <2>3. cache \in [Name -> SUBSET Cell] /\ disk \in [Name -> SUBSET Cell]
    BY DEF Init
  <2>4. \A n \in Name : disk[n] \subseteq cache[n]
    BY DEF Init
  <2> QED
    BY Constants, <2>1, <2>2, <2>3, <2>4 DEF Init, TypeOK
<1>2. Threads /\ Calls
  BY Constants DEF Init, Threads, Down, Calls, Taken
<1>3. Names
  BY FS_EmptySet DEF Init, Names, Down
<1>4. Cells /\ Sync
  BY Constants DEF Init, Cells, Sync, Down, Slot
<1> QED
  BY <1>1, <1>2, <1>3, <1>4 DEF BoxInv

--------------------------------------------------------------------------------
(* One step, part by part *)

\* No file has on disk what it does not have in the page cache, and a record index is
\* one of the array, or SIZE_MAX.
LEMMA TypeNext == TypeOK /\ Threads /\ Calls /\ Names /\ [Next]_vars => TypeOK'
<1> SUFFICES ASSUME TypeOK, Threads, Calls, Names, [Next]_vars PROVE TypeOK'
  OBVIOUS
<1>0. running' \in BOOLEAN
  <2>1. running \in BOOLEAN
    BY DEF TypeOK
  <2>2. CASE Begin \/ init \/ Grab
    BY <2>1, <2>2, Zenon DEF Begin, init, NoThreads, Grab, LogCbk, Store, LogPub
  <2>3. CASE Writer \/ Stop \/ Shutdown
    BY <2>1, <2>3, Zenon DEF Writer, Stop, Shutdown, BoxStops, JoinWriter, Close
  <2>4. CASE WriteBack \/ Kill \/ PowerLoss \/ UNCHANGED vars
    BY <2>1, <2>4, Zenon DEF WriteBack, Kill, PowerLoss, NoThreads, vars, procVars
  <2> QED
    BY <2>2, <2>3, <2>4, Zenon DEF Next, Over
<1> USE <1>0, Constants DEF TypeOK
<1>1. CASE Begin
  <2>1. name' \in Name
    BY <1>1 DEF Begin, session_dir, Name
  <2> QED
    BY <1>1, <2>1 DEF Begin, NoThreads
<1>2. CASE init
  BY <1>2 DEF init, syncVars, Threads, Down
<1>3. CASE LogCbk
  <2>1. idx' \in 0 .. MaxFrames + 1 /\ frames' \in 0 .. MaxFrames + 1
    BY <1>3 DEF LogCbk, Calls
  <2>2. rec' \in Slot \union {SIZE_MAX}
    BY <1>3 DEF LogCbk, next_idx, Slot, SIZE_MAX
  <2>3. grab' \in {"cbk", "send"} /\ todo' \subseteq Field
    BY <1>3, Fields DEF LogCbk
  <2> QED
    BY <1>3, <2>1, <2>2, <2>3 DEF LogCbk, fileVars, syncVars
<1>4. ASSUME NEW f \in Field, Store(f) PROVE TypeOK'
  BY <1>4, Fields DEF Store, syncVars, Calls, Slot, SIZE_MAX, Cell
<1>5. CASE LogPub
  BY <1>5, Fields DEF LogPub, fileVars, syncVars
<1>6. CASE Writer
  BY <1>6 DEF Writer, WriterWakes, WriterSyncs, SyncBegins, SyncEnds, syncVars
<1>7. CASE Stop
  BY <1>7 DEF Stop, fileVars, syncVars
<1>8. CASE Shutdown
  BY <1>8 DEF Shutdown, BoxStops, JoinWriter, Close, SyncBegins, SyncEnds, syncVars
<1>9. CASE WriteBack
  BY <1>9 DEF WriteBack, procVars, syncVars
<1>10. CASE Kill
  BY <1>10 DEF Kill, NoThreads, fileVars
<1>11. CASE PowerLoss
  BY <1>11 DEF PowerLoss, NoThreads
<1>12. CASE UNCHANGED vars
  BY <1>12 DEF vars, procVars, fileVars, syncVars
<1> QED
  BY <1>1, <1>2, <1>3, <1>4, <1>5, <1>6, <1>7, <1>8, <1>9, <1>10, <1>11, <1>12
  DEF Next, Grab, Over

\* Where the threads are, and what a new process has in memory.
LEMMA ThreadsNext == TypeOK /\ Threads /\ [Next]_vars => Threads'
<1> SUFFICES ASSUME TypeOK, Threads, [Next]_vars PROVE Threads'
  OBVIOUS
<1> USE DEF Threads, Down
<1>1. CASE Begin
  BY <1>1 DEF Begin, NoThreads
<1>2. CASE init
  BY <1>2 DEF init, syncVars
<1>3. CASE LogCbk
  BY <1>3 DEF LogCbk, syncVars
<1>4. ASSUME NEW f \in Field, Store(f) PROVE Threads'
  BY <1>4 DEF Store, syncVars
<1>5. CASE LogPub
  BY <1>5 DEF LogPub, syncVars
<1>6. CASE Writer
  BY <1>6 DEF Writer, WriterWakes, WriterSyncs, SyncBegins, SyncEnds, syncVars
<1>7. CASE Stop
  BY <1>7 DEF Stop, syncVars
<1>8. CASE Shutdown
  BY <1>8 DEF Shutdown, BoxStops, JoinWriter, Close, SyncBegins, SyncEnds, syncVars
<1>9. CASE WriteBack
  BY <1>9 DEF WriteBack, procVars, syncVars
<1>10. CASE Kill
  BY <1>10 DEF Kill, NoThreads
<1>11. CASE PowerLoss
  BY <1>11 DEF PowerLoss, NoThreads
<1>12. CASE UNCHANGED vars
  BY <1>12 DEF vars, procVars, syncVars
<1> QED
  BY <1>1, <1>2, <1>3, <1>4, <1>5, <1>6, <1>7, <1>8, <1>9, <1>10, <1>11, <1>12
  DEF Next, Grab, Over

\* Which record the grab thread has in hand (next_idx, blackbox.hpp:135).
LEMMA CallsNext == TypeOK /\ Threads /\ Calls /\ [Next]_vars => Calls'
<1> SUFFICES ASSUME TypeOK, Threads, Calls, [Next]_vars PROVE Calls'
  OBVIOUS
<1> USE Constants DEF Calls, Taken, Slot, SIZE_MAX, TypeOK
<1>1. CASE Begin
  BY <1>1 DEF Begin, NoThreads
<1>2. CASE init
  BY <1>2 DEF init
<1>3. CASE LogCbk
  BY <1>3 DEF LogCbk, next_idx
<1>4. ASSUME NEW f \in Field, Store(f) PROVE Calls'
  BY <1>4 DEF Store
<1>5. CASE LogPub
  BY <1>5 DEF LogPub
<1>6. CASE Writer
  BY <1>6 DEF Writer
<1>7. CASE Stop
  BY <1>7 DEF Stop
<1>8. CASE Shutdown
  BY <1>8 DEF Shutdown
<1>9. CASE WriteBack
  BY <1>9 DEF WriteBack, procVars
<1>10. CASE Kill
  BY <1>10 DEF Kill, NoThreads
<1>11. CASE PowerLoss
  BY <1>11 DEF PowerLoss, NoThreads
<1>12. CASE UNCHANGED vars
  BY <1>12 DEF vars, procVars
<1> QED
  BY <1>1, <1>2, <1>3, <1>4, <1>5, <1>6, <1>7, <1>8, <1>9, <1>10, <1>11, <1>12
  DEF Next, Grab, Over

\* The kernel's process ids, and a clock that is ahead after each boot, give every
\* session a directory of its own (session_dir, blackbox.hpp:39-46).
LEMMA NamesNext == TypeOK /\ Names /\ [Next]_vars => Names'
<1> SUFFICES ASSUME TypeOK, Names, [Next]_vars PROVE Names'
  OBVIOUS
<1> USE DEF Names, Down
<1>0. Cardinality(names) \in Nat
  BY FS_CardinalityType
<1>1. CASE Begin
  <2>0. PICK t \in Second, pid \in 1 .. MaxSessions :
          TimeAndPid(t, pid) /\ name' = session_dir(t, pid)
    BY <1>1 DEF Begin
  <2> DEFINE n == session_dir(t, pid)
  <2>1. /\ n \in Name /\ name' = n
        /\ n[2] = Cardinality(names) + 1
        /\ \A o \in older : o[1] < n[1]
    BY <2>0 DEF TimeAndPid, session_dir, Name
  <2> HIDE DEF n
  <2>2. n[1] \in Nat /\ n[2] \in Nat
    BY <2>1, NameType
  <2>3. \A o \in names : o[2] \in Nat
    BY NameType DEF TypeOK
  <2>4. n \notin names
    BY <1>0, <2>1, <2>2, <2>3
  <2>5. n \notin older
    <3>1. \A o \in older : o[1] < n[1]
      BY <2>1, Zenon
    <3>2. ~(n[1] < n[1])
      BY <2>2
    <3> QED
      BY <3>1, <3>2, Zenon
  <2> QED
    BY <1>0, <1>1, <2>1, <2>4, <2>5 DEF Begin
<1>2. CASE init
  <2>1. CASE UNCHANGED names /\ main' = "down"
    BY <1>2, <2>1 DEF init
  <2>2. CASE names' = names \union {name}
    <3>1. IsFiniteSet(names') /\ Cardinality(names') = Cardinality(names) + 1
      BY <1>2, <2>2, FS_AddElement DEF init
    <3>2. \A n \in names : n[2] \in Nat
      BY NameType DEF TypeOK
    <3>3. \A n \in names' : n[2] <= Cardinality(names')
      BY <1>0, <1>2, <2>2, <3>1, <3>2 DEF init
    <3> QED
      BY <1>2, <2>2, <3>1, <3>3 DEF init
  <2> QED
    BY <1>2, <2>1, <2>2 DEF init
<1>3. CASE Grab
  BY <1>3 DEF Grab, LogCbk, Store, LogPub, fileVars
<1>4. CASE Writer
  BY <1>4 DEF Writer
<1>5. CASE Stop
  BY <1>5 DEF Stop, fileVars
<1>6. CASE Shutdown
  BY <1>6 DEF Shutdown, BoxStops, JoinWriter, Close
<1>7. CASE WriteBack
  BY <1>7 DEF WriteBack, procVars
<1>8. CASE Kill
  BY <1>8 DEF Kill, fileVars
<1>9. CASE PowerLoss
  BY <1>9, FS_EmptySet DEF PowerLoss
<1>10. CASE UNCHANGED vars
  BY <1>10 DEF vars, procVars, fileVars
<1> QED
  BY <1>1, <1>2, <1>3, <1>4, <1>5, <1>6, <1>7, <1>8, <1>9, <1>10 DEF Next, Over

\* What the stores of log_cbk and log_pub leave in the page cache, whoever is killed.
LEMMA CellsNext ==
  TypeOK /\ Threads /\ Calls /\ Names /\ Cells /\ [Next]_vars => Cells'
<1> SUFFICES ASSUME TypeOK, Threads, Calls, Names, Cells, [Next]_vars PROVE Cells'
  OBVIOUS
<1> USE Constants DEF Cells, Taken, Full, Left, Down, TypeOK, Slot, SIZE_MAX
<1>1. CASE Begin
  BY <1>1 DEF Begin, NoThreads
<1>2. CASE init
  BY <1>2 DEF init, Threads
<1>3. CASE LogCbk
  <2>1. /\ main = "run" /\ main' = "run" /\ grab = "idle"
        /\ UNCHANGED <<name, names, cache, closed>>
        /\ idx' = idx + 1 /\ rec' = next_idx
        /\ rec' \in Slot => grab' = "cbk" /\ todo' = {"data", "cap_done"}
    BY <1>3 DEF LogCbk, fileVars
  <2>2. Taken <= Taken'
    BY <2>1
  <2>3. rec' \in Slot => Field \ Left' = {}
    BY <2>1, Fields
  <2> QED
    BY <2>1, <2>2, <2>3
<1>4. ASSUME NEW f \in Field, Store(f) PROVE Cells'
  <2>1. /\ grab \in {"cbk", "pub"} /\ main = "run"
        /\ rec = idx - 1 /\ rec \in Slot /\ closed = rec
    BY <1>4 DEF Store, Calls, Threads
  <2>2. /\ f \in todo /\ todo' = todo \ {f}
        /\ grab' = IF todo' # {} THEN grab ELSE IF grab = "cbk" THEN "send" ELSE "idle"
        /\ closed' = IF grab' = "idle" THEN closed + 1 ELSE closed
        /\ UNCHANGED <<main, rec, idx, name, names>>
    BY <1>4 DEF Store
  <2>3. /\ cache'[name] = cache[name] \union {<<rec, f>>}
        /\ \A n \in Name : n # name => cache'[n] = cache[n]
    BY <1>4 DEF Store
  <2>4. \A i \in Slot, g \in Field :
          <<i, g>> \in cache'[name] <=> <<i, g>> \in cache[name] \/ (i = rec /\ g = f)
    BY <2>3
  <2>5. \A g \in Field \ Left' : <<rec, g>> \in cache'[name]
    BY <2>1, <2>2, <2>4, Fields
  <2>6. \A i \in Slot : i < closed' => Full(i, cache'[name])
    BY <2>1, <2>2, <2>4, <2>5
  <2>7. \A i \in Slot, g \in Field : <<i, g>> \in cache'[name] => i < Taken'
    BY <2>1, <2>2, <2>4
  <2>8. \A n \in names, i, j \in Slot, g \in Field :
          i < j /\ <<j, g>> \in cache'[n] => Full(i, cache'[n])
    <3> SUFFICES ASSUME NEW n \in names, NEW i \in Slot, NEW j \in Slot, NEW g \in Field,
                        i < j, <<j, g>> \in cache'[n]
                 PROVE  Full(i, cache'[n])
      OBVIOUS
    <3>1. CASE n # name
      BY <2>3, <3>1
    <3>2. CASE n = name
      BY <2>1, <2>4, <3>2
    <3> QED
      BY <3>1, <3>2
  <2> QED
    BY <2>1, <2>2, <2>5, <2>6, <2>7, <2>8
<1>5. CASE LogPub
  BY <1>5, Fields DEF LogPub, fileVars
<1>6. CASE Writer
  BY <1>6 DEF Writer
<1>7. CASE Stop
  BY <1>7 DEF Stop, fileVars
<1>8. CASE Shutdown
  BY <1>8 DEF Shutdown, BoxStops, JoinWriter, Close
<1>9. CASE WriteBack
  BY <1>9 DEF WriteBack, procVars
<1>10. CASE Kill
  BY <1>10 DEF Kill, NoThreads, fileVars
<1>11. CASE PowerLoss
  BY <1>11 DEF PowerLoss, NoThreads
<1>12. CASE UNCHANGED vars
  BY <1>12 DEF vars, procVars, fileVars
<1> QED
  BY <1>1, <1>2, <1>3, <1>4, <1>5, <1>6, <1>7, <1>8, <1>9, <1>10, <1>11, <1>12
  DEF Next, Grab, Over

\* What fdatasync has promised is on disk.
LEMMA SyncNext == BoxInv /\ [Next]_vars => Sync'
<1> SUFFICES ASSUME TypeOK, Threads, Calls, Names, Cells, Sync, [Next]_vars PROVE Sync'
  BY DEF BoxInv
<1> USE Constants DEF Sync, Full, Down, TypeOK, Slot
<1>1. CASE Begin
  BY <1>1 DEF Begin, NoThreads
<1>2. CASE init
  BY <1>2 DEF init, syncVars, Threads, Names
<1>3. CASE LogCbk
  BY <1>3 DEF LogCbk, fileVars, syncVars
<1>4. ASSUME NEW f \in Field, Store(f) PROVE Sync'
  BY <1>4 DEF Store, syncVars, Threads
<1>5. CASE LogPub
  BY <1>5 DEF LogPub, fileVars, syncVars
<1>6. CASE Writer
  BY <1>6 DEF Writer, WriterWakes, WriterSyncs, SyncBegins, SyncEnds, syncVars, Threads,
              Names, Cells
<1>7. CASE Stop
  BY <1>7 DEF Stop, fileVars, syncVars
<1>8. CASE Shutdown
  BY <1>8 DEF Shutdown, BoxStops, JoinWriter, Close, SyncBegins, SyncEnds, syncVars,
              Threads, Names, Cells
<1>9. CASE WriteBack
  BY <1>9 DEF WriteBack, procVars, syncVars
<1>10. CASE Kill
  BY <1>10 DEF Kill, NoThreads, fileVars
<1>11. CASE PowerLoss
  BY <1>11 DEF PowerLoss, NoThreads
<1>12. CASE UNCHANGED vars
  BY <1>12 DEF vars, procVars, fileVars, syncVars
<1> QED
  BY <1>1, <1>2, <1>3, <1>4, <1>5, <1>6, <1>7, <1>8, <1>9, <1>10, <1>11, <1>12
  DEF Next, Grab, Over

--------------------------------------------------------------------------------
\* BoxInv is an invariant.
THEOREM BoxInvariant == Spec => []BoxInv
<1>1. BoxInv /\ [Next]_vars => BoxInv'
  BY TypeNext, ThreadsNext, CallsNext, NamesNext, CellsNext, SyncNext DEF BoxInv
<1> QED
  BY BoxInvInit, <1>1, PTL DEF Spec

\* No file has on disk what is not in its page cache, and no record lies outside the
\* array.
THEOREM BoxTypeCorrect == Spec => []TypeOK
BY BoxInvariant, PTL DEF BoxInv

\* What an fdatasync has completed survives every crash and every later session.
THEOREM SyncedIsDurable == Spec => []SyncedSurvives
<1>1. BoxInv => SyncedSurvives
  BY DEF BoxInv, Sync, SyncedSurvives, Full
<1> QED
  BY BoxInvariant, <1>1, PTL

\* A killed process leaves whole records without a gap, and at most one that is not.
THEOREM KilledLeavesPrefix == Spec => []KillLeavesPrefix
<1>1. BoxInv => KillLeavesPrefix
  BY DEF BoxInv, Cells, KillLeavesPrefix, Full
<1> QED
  BY BoxInvariant, <1>1, PTL

\* After shutdown() a power loss takes nothing.
THEOREM ExitLosesNothing == Spec => []ExitIsDurable
<1>1. BoxInv => ExitIsDurable
  BY DEF BoxInv, Sync, Calls, Threads, Taken, ExitIsDurable
<1> QED
  BY BoxInvariant, <1>1, PTL

--------------------------------------------------------------------------------
(* The log that SessionLog promises *)

\* A session directory that no run has made is empty.
Fresh == \A n \in Name : n \notin names \union older => cache[n] = {}

\* A field that the grab thread has still to store is not in the file.
Missing == /\ grab = "cbk" => todo # {} /\ todo \subseteq {"data", "cap_done"}
           /\ grab = "pub" => todo # {} /\ todo \subseteq {"t_pub", "ros_done"}
           /\ grab # "idle" /\ rec \in Slot => \A f \in Left : <<rec, f>> \notin cache[name]

\* Only init, Store and PowerLoss write to a file as it is read.
LEMMA FreshNext == BoxInv /\ Fresh /\ [Next]_vars => Fresh'
<1> SUFFICES ASSUME TypeOK, Threads, Names, Fresh, [Next]_vars PROVE Fresh'
  BY DEF BoxInv
<1> USE DEF Fresh, TypeOK
<1>1. CASE Begin \/ LogCbk \/ LogPub \/ Writer \/ Stop \/ Shutdown \/ WriteBack \/ Kill
  BY <1>1 DEF Begin, LogCbk, LogPub, Writer, Stop, Shutdown, BoxStops, JoinWriter, Close,
              WriteBack, Kill, fileVars
<1>2. CASE init
  BY <1>2 DEF init
<1>3. ASSUME NEW f \in Field, Store(f) PROVE Fresh'
  BY <1>3 DEF Store, Names, Threads, Down
<1>4. CASE PowerLoss
  BY <1>4 DEF PowerLoss
<1>5. CASE UNCHANGED vars
  BY <1>5 DEF vars, fileVars
<1> QED
  BY <1>1, <1>2, <1>3, <1>4, <1>5 DEF Next, Grab, Over

\* log_cbk takes a record of which nothing is stored, and no field is stored twice.
LEMMA MissingNext == BoxInv /\ Missing /\ [Next]_vars => Missing'
<1> SUFFICES ASSUME TypeOK, Threads, Calls, Cells, Missing, [Next]_vars PROVE Missing'
  BY DEF BoxInv
<1> USE DEF Missing, Left
<1>1. CASE Begin \/ Kill \/ PowerLoss
  BY <1>1 DEF Begin, Kill, PowerLoss, NoThreads
<1>2. CASE init
  BY <1>2 DEF init, Threads, Down
<1>3. CASE LogCbk
  <2>1. /\ main = "run" /\ cache' = cache /\ name' = name
        /\ rec' \in Slot => rec' = idx /\ idx < kBufN /\ grab' = "cbk" /\ todo' = {"data", "cap_done"}
        /\ rec' \notin Slot => grab' = "send"
    BY <1>3, Constants DEF LogCbk, fileVars, next_idx, Slot, SIZE_MAX, TypeOK
  <2>2. rec' \in Slot => \A f \in Field : <<rec', f>> \notin cache[name]
    BY <2>1, Constants DEF Cells, Down, Taken, Slot, TypeOK
  <2> QED
    BY <2>1, <2>2, Fields
<1>4. ASSUME NEW f \in Field, Store(f) PROVE Missing'
  <2>1. /\ grab \in {"cbk", "pub"} /\ rec \in Slot /\ main = "run" /\ name \in Name
        /\ f \in todo /\ todo' = todo \ {f} /\ rec' = rec /\ name' = name
        /\ grab' = IF todo' # {} THEN grab ELSE IF grab = "cbk" THEN "send" ELSE "idle"
        /\ cache'[name] = cache[name] \union {<<rec, f>>}
    BY <1>4 DEF Store, Calls, Threads, TypeOK
  <2> QED
    BY <2>1
<1>5. CASE LogPub
  BY <1>5 DEF LogPub, fileVars, Slot, SIZE_MAX
<1>6. CASE Writer \/ Stop \/ Shutdown \/ WriteBack
  BY <1>6 DEF Writer, Stop, Shutdown, BoxStops, JoinWriter, Close, WriteBack, procVars, fileVars
<1>7. CASE UNCHANGED vars
  BY <1>7 DEF vars, procVars, fileVars
<1> QED
  BY <1>1, <1>2, <1>3, <1>4, <1>5, <1>6, <1>7 DEF Next, Grab, Over

\* A file that has more has no whole record less.
LEMMA WholeGrows ==
  ASSUME NEW F1, NEW F2, \A n \in Name : F1[n] \subseteq F2[n]
  PROVE  Whole(F1) \subseteq Whole(F2)
BY DEF Whole

\* A record in a set of cells, field by field.
LEMMA FullIs ==
  ASSUME NEW i, NEW S
  PROVE  {i} \X Field \subseteq S <=> Full(i, S)
BY DEF Full

\* A set without a cell has no record.
LEMMA NoneFull == ASSUME NEW i PROVE ~({i} \X Field \subseteq {})
<1>1. "data" \in Field
  BY Fields
<1>2. <<i, "data">> \in {i} \X Field
  BY <1>1
<1> QED
  BY <1>2

\* An fdatasync that is not under way has found nothing, and one is under way only in a
\* process that runs.
LEMMA PledgedNone ==
  ASSUME NEW S, NEW n, S = {}
  PROVE  {r \in Name \X Slot : r[1] = n /\ {r[2]} \X Field \subseteq S} = {}
BY NoneFull

\* The records a reader finds of the session that runs are the ones closed.
WholeClosed == \A i \in Slot : <<name, i>> \in Whole(cache) <=> i < closed

LEMMA WholeIsClosed == BoxInv /\ Missing /\ ~Down => WholeClosed
<1> SUFFICES ASSUME BoxInv, Missing, ~Down, NEW i \in Slot
             PROVE  <<name, i>> \in Whole(cache) <=> i < closed
  BY DEF WholeClosed
<1>1. name \in Name /\ closed \in Nat /\ idx \in Nat /\ i \in Nat /\ i < kBufN
  BY Constants DEF BoxInv, TypeOK, Slot
<1>2. <<name, i>> \in Whole(cache) <=> Full(i, cache[name])
  BY <1>1, FullIs DEF Whole
<1>3. ASSUME Full(i, cache[name]) PROVE i < closed
  <2>1. i < Taken
    BY <1>3, Fields DEF BoxInv, Cells, Full
  <2>2. CASE grab = "idle"
    BY <2>1, <2>2 DEF BoxInv, Calls
  <2>3. CASE grab # "idle" /\ rec \in Slot
    <3>1. Left # {} /\ Left \subseteq Field
      BY <2>3, Fields DEF Left, BoxInv, TypeOK, Missing
    <3>2. i # rec
      BY <1>3, <2>3, <3>1 DEF Full, Missing
    <3> QED
      BY <1>1, <2>1, <2>3, <3>2, Constants DEF BoxInv, Calls, Taken, Slot, SIZE_MAX
  <2>4. CASE grab # "idle" /\ rec \notin Slot
    BY <1>1, <2>4 DEF BoxInv, Calls
  <2> QED
    BY <2>2, <2>3, <2>4
<1>4. ASSUME i < closed PROVE Full(i, cache[name])
  BY <1>4 DEF BoxInv, Cells
<1> QED
  BY <1>2, <1>3, <1>4

LEMMA WholeIsClosedNext == BoxInv' /\ Missing' /\ ~Down' => WholeClosed'
BY WholeIsClosed, PTL

\* Nothing is logged in an empty directory.
LEMMA LogInitial == Init => Log!LogInit
<1> SUFFICES ASSUME Init PROVE Log!LogInit
  OBVIOUS
<1>1. Phase = "none"
  BY DEF Init, Phase
<1>2. \A n \in Name : cache[n] = {} /\ disk[n] = {}
  BY DEF Init
<1>3. Whole(cache) = {} /\ Whole(disk) = {}
  BY <1>2, NoneFull DEF Whole
<1>4. Pledged = {}
  BY PledgedNone DEF Pledged, Init
<1> QED
  BY <1>1, <1>3, <1>4 DEF Log!LogInit, Init

\* A process begins, and opens its session: no other one's records change.
LEMMA BeginStep ==
  BoxInv /\ Fresh /\ (Begin \/ init) => [Log!LogNext]_(Log!logVars)
<1> SUFFICES ASSUME BoxInv, Fresh, Begin \/ init
             PROVE  Log!LogNext \/ UNCHANGED Log!logVars
  OBVIOUS
<1>1. CASE Begin
  <2>1. Phase' = "none" /\ syncing' = {} /\ UNCHANGED <<names, older, cache, disk>>
    BY <1>1 DEF Begin, NoThreads, Phase
  <2>2. Pledged' = {}
    BY <2>1, PledgedNone DEF Pledged
  <2>3. Whole(cache)' = Whole(cache) /\ Whole(disk)' = Whole(disk)
    BY <2>1 DEF Whole
  <2>4. CASE main = "down"
    <3>1. Phase = "none" /\ Pledged = {}
      BY <2>4, PledgedNone DEF Phase, Pledged, BoxInv, Threads, Down
    <3> QED
      BY <2>1, <2>2, <2>3, <3>1 DEF Log!logVars
  <2>5. CASE main = "exit"
    <3>1. Phase = "ended"
      BY <2>5 DEF Phase
    <3>2. Log!ProcessGone
      BY <2>1, <2>2, <2>3, <3>1 DEF Log!ProcessGone, Log!NoProcess
    <3> QED
      BY <3>2 DEF Log!LogNext
  <2> QED
    BY <1>1, <2>4, <2>5 DEF Begin
<1>2. CASE init
  <2>1. /\ Phase = "none" /\ syncing = {} /\ syncing' = {} /\ older' = older /\ name' = name
        /\ name \in Name /\ name \notin names \union older
    BY <1>2 DEF init, Phase, BoxInv, Threads, Names, Down, TypeOK, syncVars
  <2>2. Pledged = {} /\ Pledged' = {}
    BY <2>1, PledgedNone DEF Pledged
  <2>3. cache' = cache /\ disk' = disk
    <3>1. cache[name] = {} /\ disk[name] = {}
      BY <2>1 DEF Fresh, BoxInv, TypeOK
    <3> QED
      BY <1>2, <3>1 DEF init, BoxInv, TypeOK
  <2>4. Whole(cache)' = Whole(cache) /\ Whole(disk)' = Whole(disk)
    BY <2>3 DEF Whole
  <2>5. CASE main' = "down" /\ names' = names
    BY <2>1, <2>2, <2>4, <2>5 DEF Log!logVars, Phase
  <2>6. CASE names' = names \union {name} /\ main' \in {"down", "run"}
    <3>1. (names \union older)' = (names \union older) \union {name}
      BY <2>1, <2>6
    <3>2. Phase' = "none" \/ Phase' = "logging"
      BY <2>6 DEF Phase
    <3>3. Log!OpenSession
      BY <2>1, <2>2, <2>4, <3>1, <3>2 DEF Log!OpenSession
    <3> QED
      BY <3>3 DEF Log!LogNext
  <2> QED
    BY <1>2, <2>5, <2>6 DEF init
<1> QED
  BY <1>1, <1>2

\* The last store of log_pub completes the next record; no other step of the grab thread
\* is one that a reader of whole records sees.
LEMMA GrabStep ==
  BoxInv /\ BoxInv' /\ Missing /\ Missing' /\ Grab => [Log!LogNext]_(Log!logVars)
<1> SUFFICES ASSUME BoxInv, BoxInv', Missing, Missing', Grab
             PROVE  Log!LogNext \/ UNCHANGED Log!logVars
  OBVIOUS
<1>1. CASE LogCbk \/ LogPub
  BY <1>1 DEF LogCbk, LogPub, fileVars, syncVars, Log!logVars, Phase, Whole, Pledged
<1>2. ASSUME NEW f \in Field, Store(f) PROVE Log!LogNext \/ UNCHANGED Log!logVars
  <2>1. /\ main = "run" /\ main' = "run" /\ grab \in {"cbk", "pub"} /\ name \in Name
        /\ rec \in Slot /\ closed = rec
        /\ UNCHANGED <<rec, name, names, older, disk, syncing>>
        /\ closed' = IF grab' = "idle" THEN closed + 1 ELSE closed
        /\ \A n \in Name : n # name => cache'[n] = cache[n]
        /\ \A n \in Name : cache[n] \subseteq cache'[n]
    BY <1>2 DEF Store, BoxInv, Calls, Threads, TypeOK, syncVars
  <2>2. Phase = "logging" /\ Phase' = "logging" /\ Pledged' = Pledged
        /\ Whole(disk)' = Whole(disk)
    BY <2>1 DEF Phase, Pledged, Whole
  <2>3. \A i \in Slot : <<name, i>> \in Whole(cache) <=> i < closed
    BY <2>1, WholeIsClosed DEF Down, WholeClosed
  <2>4. \A i \in Slot : <<name, i>> \in Whole(cache)' <=> i < closed'
    BY <2>1, WholeIsClosedNext DEF Down, WholeClosed
  <2>5. \A n \in Name, i \in Slot :
          n # name => (<<n, i>> \in Whole(cache)' <=> <<n, i>> \in Whole(cache))
    BY <2>1 DEF Whole
  <2>6. Whole(cache) \subseteq Name \X Slot /\ Whole(cache)' \subseteq Name \X Slot
    BY DEF Whole
  <2>7. CASE grab' # "idle"
    <3>1. Whole(cache)' = Whole(cache)
      BY <2>1, <2>3, <2>4, <2>5, <2>6, <2>7
    <3> QED
      BY <2>1, <2>2, <3>1 DEF Log!logVars
  <2>8. CASE grab' = "idle"
    <3>1. Whole(cache)' = Whole(cache) \union {<<name, rec>>}
      <4>1. \A i \in Slot : i < closed' <=> i < closed \/ i = rec
        BY <2>1, <2>8, Constants DEF Slot
      <4> QED
        BY <2>1, <2>3, <2>4, <2>5, <2>6, <4>1
    <3>2. Slot = Log!Index
      BY DEF Slot, Log!Index
    <3>3. Log!LogRecord
      BY <2>1, <2>2, <2>3, <3>1, <3>2 DEF Log!LogRecord
    <3> QED
      BY <3>3 DEF Log!LogNext
  <2> QED
    BY <2>7, <2>8
<1> QED
  BY <1>1, <1>2 DEF Grab

\* What goes to disk stays there, and is what the page cache has.
LEMMA DiskGrows ==
  ASSUME BoxInv, BoxInv', \A n \in Name : disk[n] \subseteq disk'[n],
         UNCHANGED <<name, names, older, cache>>
  PROVE  /\ Log!Persists
         /\ Whole(cache)' = Whole(cache) /\ (names \union older)' = names \union older
<1>1. Whole(disk) \subseteq Whole(disk')
  BY WholeGrows
<1>2. Whole(disk') \subseteq Whole(cache)
  <2>1. \A n \in Name : disk'[n] \subseteq cache[n]
    BY DEF BoxInv, TypeOK
  <2> QED
    BY <2>1, WholeGrows
<1>3. Whole(disk)' = Whole(disk') /\ Whole(cache)' = Whole(cache)
  BY DEF Whole
<1> QED
  BY <1>1, <1>2, <1>3 DEF Log!Persists

\* An fdatasync begins: it will have made durable the records there are.
LEMMA BeginSyncStep ==
  ASSUME BoxInv, SyncBegins, ~Down, main \notin {"exit"}, Phase' = Phase,
         UNCHANGED <<name, names, older, cache, disk>>
  PROVE  Log!SyncBegins
<1>1. Phase \in {"logging", "ending"}
  BY DEF BoxInv, TypeOK, Phase, Down
<1>2. Whole(cache)' = Whole(cache) /\ Whole(disk)' = Whole(disk)
  BY DEF Whole
<1>3. Pledged' = {r \in Whole(cache) : r[1] = name}
  BY DEF SyncBegins, Pledged, Whole
<1> QED
  BY <1>1, <1>2, <1>3 DEF Log!SyncBegins, Log!RecordsOf

\* It ends: they are durable, whatever else is.
LEMMA EndSyncFacts ==
  ASSUME BoxInv, BoxInv', SyncEnds, UNCHANGED <<name, names, older, cache>>
  PROVE  /\ Log!Persists
         /\ Pledged \subseteq Whole(disk)' /\ Pledged' = {}
         /\ Whole(cache)' = Whole(cache) /\ (names \union older)' = names \union older
<1>1. /\ name \in Name /\ disk \in [Name -> SUBSET Cell]
      /\ disk' = [disk EXCEPT ![name] = @ \union syncing] /\ syncing' = {}
  BY DEF SyncEnds, BoxInv, TypeOK
<1>2. \A n \in Name : disk[n] \subseteq disk'[n]
  BY <1>1
<1>3. syncing \subseteq disk'[name]
  BY <1>1
<1>4. Pledged \subseteq Whole(disk)'
  BY <1>1, <1>3 DEF Pledged, Whole
<1>5. Pledged' = {}
  BY <1>1, PledgedNone DEF Pledged
<1> QED
  BY <1>2, <1>4, <1>5, DiskGrows

\* The writer thread.
LEMMA WriterStep == BoxInv /\ BoxInv' /\ Writer => [Log!LogNext]_(Log!logVars)
<1> SUFFICES ASSUME BoxInv, BoxInv', Writer
             PROVE  Log!LogNext \/ UNCHANGED Log!logVars
  OBVIOUS
<1>1. UNCHANGED <<main, name, names, older, cache>> /\ Phase' = Phase
  BY DEF Writer, Phase
<1>2. CASE writer \in {"sleep", "sync"} /\ main # "exit"
  <2>1. ~Down /\ Phase \in {"logging", "ending"}
    BY <1>2 DEF BoxInv, Threads, Down, Phase, TypeOK
  <2>2. CASE WriterWakes /\ running
    <3>1. SyncBegins /\ disk' = disk
      BY <2>2 DEF WriterWakes
    <3>2. Log!SyncBegins
      BY <1>1, <1>2, <2>1, <3>1, BeginSyncStep
    <3> QED
      BY <3>2 DEF Log!LogNext
  <2>3. CASE WriterWakes /\ ~running
    BY <1>1, <2>3 DEF WriterWakes, syncVars, Log!logVars, Whole, Pledged
  <2>4. CASE WriterSyncs
    <3>1. Log!SyncEnds
      BY <1>1, <2>1, <2>4, EndSyncFacts DEF WriterSyncs, Log!SyncEnds
    <3> QED
      BY <3>1 DEF Log!LogNext
  <2> QED
    BY <2>2, <2>3, <2>4 DEF Writer
<1> QED
  BY <1>2 DEF Writer, WriterWakes, WriterSyncs, BoxInv, Threads

\* Main in shutdown(): the last fdatasync finds every record.
LEMMA ShutdownStep ==
  BoxInv /\ BoxInv' /\ (Stop \/ Shutdown) => [Log!LogNext]_(Log!logVars)
<1> SUFFICES ASSUME BoxInv, BoxInv', Stop \/ Shutdown
             PROVE  Log!LogNext \/ UNCHANGED Log!logVars
  OBVIOUS
<1>1. UNCHANGED <<name, names, older, cache>>
  BY DEF Stop, Shutdown, fileVars
<1>2. Whole(cache)' = Whole(cache)
  BY <1>1 DEF Whole
<1>3. CASE Stop
  <2>1. /\ Phase = "logging" /\ Phase' = "ending"
        /\ Whole(disk)' = Whole(disk) /\ Pledged' = Pledged
    BY <1>3 DEF Stop, Phase, fileVars, syncVars, Whole, Pledged
  <2>2. Log!StopLogging
    BY <1>1, <1>2, <2>1 DEF Log!StopLogging
  <2> QED
    BY <2>2 DEF Log!LogNext
<1>4. CASE BoxStops
  BY <1>1, <1>2, <1>4 DEF BoxStops, Phase, syncVars, Log!logVars, Whole, Pledged
<1>5. CASE JoinWriter
  <2>1. /\ Phase' = Phase /\ ~Down /\ main # "exit" /\ SyncBegins /\ disk' = disk
    BY <1>5 DEF JoinWriter, Phase, Down
  <2>2. Log!SyncBegins
    BY <1>1, <2>1, BeginSyncStep
  <2> QED
    BY <2>2 DEF Log!LogNext
<1>6. CASE Close
  <2>1. Phase = "ending" /\ Phase' = "ended" /\ syncing = cache[name]
    BY <1>6 DEF Close, Phase, BoxInv, Sync
  <2>2. Pledged = {r \in Whole(cache) : r[1] = name}
    BY <2>1 DEF Pledged, Whole
  <2>3. Log!EndSession
    BY <1>1, <1>6, <2>1, <2>2, EndSyncFacts DEF Close, Log!EndSession, Log!RecordsOf
  <2> QED
    BY <2>3 DEF Log!LogNext
<1> QED
  BY <1>3, <1>4, <1>5, <1>6 DEF Shutdown

\* The kernel, and the end of a process or of the power.
LEMMA KernelStep ==
  BoxInv /\ BoxInv' /\ (WriteBack \/ Kill \/ PowerLoss) => [Log!LogNext]_(Log!logVars)
<1> SUFFICES ASSUME BoxInv, BoxInv', WriteBack \/ Kill \/ PowerLoss
             PROVE  Log!LogNext \/ UNCHANGED Log!logVars
  OBVIOUS
<1>1. CASE WriteBack
  <2>1. UNCHANGED <<main, name, names, older, cache, syncing>>
    BY <1>1 DEF WriteBack, procVars, syncVars
  <2>2. \A n \in Name : disk[n] \subseteq disk'[n]
    <3>1. PICK n \in names : \E S : disk' = [disk EXCEPT ![n] = @ \union S]
      BY <1>1 DEF WriteBack
    <3> QED
      BY <3>1 DEF BoxInv, TypeOK
  <2>3. Phase' = Phase /\ Pledged' = Pledged
    BY <2>1 DEF Phase, Pledged
  <2>4. Log!WriteBack
    BY <2>1, <2>2, <2>3, DiskGrows DEF Log!WriteBack
  <2> QED
    BY <2>4 DEF Log!LogNext
<1>2. CASE Kill
  <2>1. Phase' = "none" /\ syncing' = {} /\ UNCHANGED <<name, names, older, cache, disk>>
    BY <1>2 DEF Kill, NoThreads, fileVars, Phase
  <2>2. Pledged' = {} /\ Whole(cache)' = Whole(cache) /\ Whole(disk)' = Whole(disk)
    BY <2>1, PledgedNone DEF Pledged, Whole
  <2>3. CASE Phase = "none"
    <3>1. Pledged = {}
      BY <1>2, <2>3, PledgedNone DEF Kill, Phase, Pledged, BoxInv, Threads, Down
    <3> QED
      BY <2>1, <2>2, <2>3, <3>1 DEF Log!logVars
  <2>4. CASE Phase # "none"
    <3>1. Log!ProcessGone
      BY <2>1, <2>2, <2>4 DEF Log!ProcessGone, Log!NoProcess
    <3> QED
      BY <3>1 DEF Log!LogNext
  <2> QED
    BY <2>3, <2>4
<1>3. CASE PowerLoss
  <2>1. /\ Phase' = "none" /\ syncing' = {} /\ cache' = disk /\ disk' = disk
        /\ (names \union older)' = names \union older
    BY <1>3 DEF PowerLoss, NoThreads, Phase
  <2>2. Pledged' = {} /\ Whole(cache)' = Whole(disk) /\ Whole(disk)' = Whole(disk)
    BY <2>1, PledgedNone DEF Pledged, Whole
  <2>3. Log!PowerLoss
    BY <2>1, <2>2 DEF Log!PowerLoss, Log!NoProcess
  <2> QED
    BY <2>3 DEF Log!LogNext
<1> QED
  BY <1>1, <1>2, <1>3

\* Every step of the threads, the kernel and the power is a step of the log, or none.
LEMMA LogStep ==
  BoxInv /\ BoxInv' /\ Fresh /\ Missing /\ Missing' /\ [Next]_vars
  => [Log!LogNext]_(Log!logVars)
<1> SUFFICES ASSUME BoxInv, BoxInv', Fresh, Missing, Missing', [Next]_vars
             PROVE  [Log!LogNext]_(Log!logVars)
  OBVIOUS
<1>1. CASE UNCHANGED vars
  BY <1>1 DEF vars, procVars, fileVars, syncVars, Log!logVars, Phase, Whole, Pledged
<1> QED
  BY <1>1, BeginStep, GrabStep, WriterStep, ShutdownStep, KernelStep DEF Next, Over

\* The mapped file, its writer thread and its directories are the log that blackbox.hpp
\* promises: records come in order, none is overwritten, an fdatasync that has ended and a
\* shutdown() that is over have made durable what they found, and a kill takes nothing.
THEOREM BlackboxImplementsLog == Spec => ImplementsLog
<1>1. Init => Fresh /\ Missing
  BY DEF Init, Fresh, Missing
<1>2. BoxInv /\ Fresh /\ [Next]_vars => Fresh'
  BY FreshNext
<1>3. BoxInv /\ Missing /\ [Next]_vars => Missing'
  BY MissingNext
<1> QED
  BY <1>1, <1>2, <1>3, LogInitial, LogStep, BoxInvariant, PTL DEF Spec, ImplementsLog, Log!Spec

================================================================================
