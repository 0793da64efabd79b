-------------------------------- MODULE Blackbox --------------------------------
(***************************************************************************)
(* What is left of the publish-timing blackbox (src/include/blackbox.hpp)  *)
(* when the driver, or the machine, dies at some moment: the mapped file,  *)
(* its page cache, its writer thread, and the sessions that follow one     *)
(* another in the log directory.                                           *)
(*                                                                         *)
(* BlackboxRecords has what the records say; here a record is the set of   *)
(* its fields that have been stored, and a file is a set of cells          *)
(* <<record, field>>.  log_cbk and log_pub are plain stores, which the     *)
(* compiler may reorder within a call.  A killed process leaves the page   *)
(* cache to the kernel; a power loss leaves what is on disk.               *)
(***************************************************************************)
EXTENDS Naturals, FiniteSets

CONSTANTS kBufN,        \* records in the file, 1 << 20 in the code
          PageSize,     \* bytes in a page
          Second,       \* readings of the clock that session_dir takes
          MaxFrames,    \* bound: frames that get a record, all sessions together
          MaxSessions   \* bound: sessions whose file is opened

ASSUME BlackboxAssumption == /\ kBufN \in Nat \ {0}
                             /\ PageSize \in Nat \ {0}
                             /\ Second \subseteq Nat
                             /\ {MaxFrames, MaxSessions} \subseteq Nat

VARIABLES main,         \* main thread: "down" after a crash, "init", "run", the steps
                        \* of shutdown(), "exit"
          grab,         \* grab thread: between records, or in log_cbk, publish, log_pub
          rec,          \* record_idx
          todo,         \* fields the call has still to store
          idx,          \* Box::idx
          frames,       \* ghost: frames that got a record, and one that found the array full
          running,      \* Box::running
          writer,       \* Box::writer
          syncing,      \* what the fdatasync under way found in the page cache
          name,         \* session directory of this run
          names, older, \* ghosts: sessions of this boot, and of earlier ones
          cache, disk,  \* the file of each session: as a process reads it; after a
                        \* power loss
          closed,       \* ghost: records whose log_pub has returned
          promised,     \* ghost: closed when the fdatasync under way began
          synced        \* ghost: promised by the last one completed, for each session

procVars == <<main, grab, rec, todo, idx, running, writer>>
fileVars == <<name, names, older, cache, disk>>
syncVars == <<syncing, promised, synced>>
vars == <<procVars, fileVars, syncVars, closed, frames>>

Slot == 0 .. kBufN - 1

\* The index of no record; every i >= kBufN will do.
SIZE_MAX == kBufN + 1

\* The fields of a record; data is seq, header_stamp, t_capture_ns and t_cbk_ns.
Offset == [data |-> 0, t_pub |-> 32, cap_done |-> 40, ros_done |-> 41]
Field == DOMAIN Offset
Cell == Slot \X Field

\* The page of a cell.  48 does not divide a page, so records lie across two.
Page(c) == (48 * c[1] + Offset[c[2]]) \div PageSize

\* A session directory: local time and process id.
Name == Second \X (1 .. MaxSessions)

TypeOK ==
  /\ main \in {"down", "init", "run", "flag", "writer", "final", "exit"}
  /\ grab \in {"idle", "cbk", "send", "pub"}
  /\ rec \in Slot \union {SIZE_MAX}
  /\ todo \subseteq Field
  /\ idx \in 0 .. MaxFrames + 1 /\ frames \in 0 .. MaxFrames + 1
  /\ running \in BOOLEAN
  /\ writer \in {"none", "sleep", "sync", "done"}
  /\ name \in Name
  /\ names \subseteq Name /\ older \subseteq Name
  /\ cache \in [Name -> SUBSET Cell] /\ disk \in [Name -> SUBSET Cell]
  /\ \A n \in Name : disk[n] \subseteq cache[n]
  /\ syncing \subseteq cache[name]
  /\ closed \in 0 .. kBufN /\ promised \in 0 .. kBufN
  /\ synced \in [Name -> 0 .. kBufN]

\* A process that is gone, and one that begins, has nothing in memory.
NoThreads == /\ grab' = "idle"
             /\ rec' = SIZE_MAX
             /\ todo' = {}
             /\ idx' = 0
             /\ running' = FALSE
             /\ writer' = "none"
             /\ syncing' = {}
             /\ closed' = 0
             /\ promised' = 0

Init == /\ main = "down" /\ grab = "idle" /\ rec = SIZE_MAX /\ todo = {}
        /\ idx = 0 /\ frames = 0
        /\ running = FALSE /\ writer = "none" /\ syncing = {}
        /\ closed = 0 /\ promised = 0
        /\ name \in Name
        /\ names = {} /\ older = {}
        /\ cache = [n \in Name |-> {}]
        /\ disk = cache
        /\ synced = [n \in Name |-> 0]

--------------------------------------------------------------------------------
(* A session begins *)

(***************************************************************************)
(* What time() and getpid() may return.  Within a boot the clock may stand *)
(* still or be set back, and the kernel counts the process ids up.  A      *)
(* later boot begins with the same ids.  That its clock is ahead of all    *)
(* the sessions before it is an assumption about the machine.              *)
(***************************************************************************)
TimeAndPid(t, pid) == /\ pid = Cardinality(names) + 1
                      /\ \A o \in older : o[1] < t

\* A slip: the directory is named by the time alone.
session_dir_no_pid(t, pid) == <<t, 1>>

session_dir(t, pid) == <<t, pid>>

Begin == /\ main \in {"down", "exit"}
         /\ Cardinality(names \union older) < MaxSessions
         /\ main' = "init"
         /\ \E t \in Second, pid \in 1 .. MaxSessions :
              TimeAndPid(t, pid) /\ name' = session_dir(t, pid)
         /\ NoThreads
         /\ UNCHANGED <<names, older, cache, disk, synced, frames>>

\* Box::init.  open truncates; open, fallocate and mmap may fail, and the exception
\* ends the process.
init == /\ main = "init"
        /\ \/ /\ main' = "down"
              /\ UNCHANGED <<running, writer, names, cache, disk>>
           \/ /\ names' = names \union {name}
              /\ cache' = [cache EXCEPT ![name] = {}]
              /\ disk' = [disk EXCEPT ![name] = {}]
              /\ \/ main' = "down" /\ UNCHANGED <<running, writer>>
                 \/ main' = "run" /\ running' = TRUE /\ writer' = "sleep"
        /\ UNCHANGED <<grab, rec, todo, idx, name, older, syncVars, closed, frames>>

--------------------------------------------------------------------------------
(* Grab thread *)

\* A slip: the index is not checked against the capacity.
next_idx_unchecked == idx

next_idx == IF idx < kBufN THEN idx ELSE SIZE_MAX

\* log_cbk takes a record; t_pub_ns and ros_done it sets to the 0 they have.
LogCbk == /\ main = "run" /\ grab = "idle"
          /\ frames < MaxFrames \/ idx = kBufN
          /\ frames' = frames + 1
          /\ idx' = idx + 1
          /\ rec' = next_idx
          /\ \/ /\ rec' # SIZE_MAX
                /\ grab' = "cbk"
                /\ todo' = {"data", "cap_done"}
             \/ rec' = SIZE_MAX /\ grab' = "send" /\ UNCHANGED todo
          /\ UNCHANGED <<main, running, writer, fileVars, syncVars, closed>>

\* One store into the mapping: it is in the page cache at once.
Store(f) == /\ grab \in {"cbk", "pub"} /\ f \in todo
            /\ cache' = [cache EXCEPT ![name] = @ \union {<<rec, f>>}]
            /\ todo' = todo \ {f}
            /\ grab' = IF todo' # {} THEN grab ELSE IF grab = "cbk" THEN "send" ELSE "idle"
            /\ closed' = IF grab' = "idle" THEN closed + 1 ELSE closed
            /\ UNCHANGED <<main, rec, idx, running, writer, name, names, older, disk, syncVars,
                           frames>>

\* A slip: a frame that nobody subscribes to is not closed.
LogPubIfRead == /\ grab = "send"
                /\ \/ rec # SIZE_MAX /\ grab' = "pub" /\ todo' = {"t_pub", "ros_done"}
                   \/ grab' = "idle" /\ UNCHANGED todo
                /\ UNCHANGED <<main, rec, idx, running, writer, fileVars, syncVars, closed, frames>>

\* log_pub, after publish(): nothing for a frame that got no record.
LogPub == /\ grab = "send"
          /\ \/ rec # SIZE_MAX /\ grab' = "pub" /\ todo' = {"t_pub", "ros_done"}
             \/ rec = SIZE_MAX /\ grab' = "idle" /\ UNCHANGED todo
          /\ UNCHANGED <<main, rec, idx, running, writer, fileVars, syncVars, closed, frames>>

Grab == LogCbk \/ (\E f \in Field : Store(f)) \/ LogPub

--------------------------------------------------------------------------------
(* fdatasync, writer thread, shutdown *)

\* fdatasync writes what it finds at its beginning; later stores may or may not go.
SyncBegins == syncing' = cache[name] /\ promised' = closed /\ UNCHANGED synced

SyncEnds == /\ disk' = [disk EXCEPT ![name] = @ \union syncing]
            /\ synced' = [synced EXCEPT ![name] = promised]
            /\ syncing' = {}
            /\ promised' = 0

\* The second of sleep is over; the flag is read again.
WriterWakes == /\ writer = "sleep"
               /\ \/ running /\ writer' = "sync" /\ SyncBegins
                  \/ ~running /\ writer' = "done" /\ UNCHANGED syncVars
               /\ UNCHANGED disk

\* A slip: the loop ends with its first sync.
WriterSyncsOnce == writer = "sync" /\ writer' = "done" /\ SyncEnds

\* The sync ends, and the loop condition reads the flag.
WriterSyncs == writer = "sync" /\ writer' = (IF running THEN "sleep" ELSE "done") /\ SyncEnds

Writer == /\ WriterWakes \/ WriterSyncs
          /\ UNCHANGED <<main, grab, rec, todo, idx, running, name, names, older, cache, closed, frames>>

\* The node has joined its grab thread, which ends between two records.
Stop == /\ main = "run" /\ grab = "idle"
        /\ main' = "flag"
        /\ UNCHANGED <<grab, rec, todo, idx, running, writer, fileVars, syncVars, closed, frames>>

\* shutdown(): the flag, the join, the last fdatasync, close.
BoxStops == main = "flag" /\ main' = "writer" /\ running' = FALSE /\ UNCHANGED <<disk, syncVars>>

JoinWriter == /\ main = "writer" /\ writer = "done"
              /\ main' = "final"
              /\ SyncBegins
              /\ UNCHANGED <<running, disk>>

\* A slip: what the writer has synced must do.
CloseUnsynced == main = "final" /\ main' = "exit" /\ UNCHANGED <<running, disk, syncVars>>

Close == main = "final" /\ main' = "exit" /\ SyncEnds /\ UNCHANGED running

Shutdown == /\ BoxStops \/ JoinWriter \/ Close
            /\ UNCHANGED <<grab, rec, todo, idx, writer, name, names, older, cache, closed, frames>>

--------------------------------------------------------------------------------
(* Kernel and power *)

\* The kernel may write a dirty page back at any time, also of a process that is gone.
WriteBack == /\ \E n \in names : \E dirty \in cache[n] \ disk[n] :
                  disk' = [disk EXCEPT ![n] =
                             @ \union {c \in cache[n] : Page(c) = Page(dirty)}]
             /\ UNCHANGED <<procVars, name, names, older, cache, syncVars, closed, frames>>

\* The process is killed, or aborts.
Kill == /\ main \notin {"down", "exit"}
        /\ main' = "down"
        /\ NoThreads
        /\ UNCHANGED <<fileVars, synced, frames>>

PowerLoss == /\ names # {}
             /\ main' = "down"
             /\ NoThreads
             /\ cache' = disk
             /\ names' = {}
             /\ older' = older \union names
             /\ UNCHANGED <<name, disk, synced, frames>>

\* No further session.
Over == main \in {"down", "exit"} /\ UNCHANGED vars

Next == \/ Begin
        \/ init
        \/ Grab
        \/ Writer
        \/ Stop
        \/ Shutdown
        \/ WriteBack
        \/ Kill
        \/ PowerLoss
        \/ Over

\* The two threads run and the disk answers.  The kernel need not write by itself.
Spec == Init /\ [][Next]_vars /\ WF_vars(Writer) /\ WF_vars(Shutdown)

--------------------------------------------------------------------------------
(* Properties *)

(***************************************************************************)
(* A record whose log_pub had returned when the last completed fdatasync   *)
(* of its session began is on disk with all its fields, for ever: whatever *)
(* is killed, whenever the power goes, and however many sessions follow.   *)
(***************************************************************************)
SyncedSurvives == \A n \in Name, i \in Slot : i < synced[n] => {i} \X Field \subseteq disk[n]

\* Up to the next power loss a file is whole records without a gap, and after them at
\* most one that is not, whichever store of which call the process died at.
KillLeavesPrefix ==
  \A n \in names, i, j \in Slot :
    i < j /\ (\E f \in Field : <<j, f>> \in cache[n]) => {i} \X Field \subseteq cache[n]

\* When the process has exited, a power loss takes nothing: every record is on disk
\* and closed.
ExitIsDurable ==
  main = "exit" => /\ disk[name] = cache[name]
                   /\ synced[name] = IF idx < kBufN THEN idx ELSE kBufN

\* A record that was logged gets to disk if the process is not killed before, while
\* frames come as well as when none comes any more.
LoggedBecomesDurable ==
  \A k \in 1 .. kBufN : (main = "run" /\ closed >= k) ~> (main = "down" \/ synced[name] >= k)

\* The records of the files that have all their fields.
Whole(files) == {r \in Name \X Slot : {r[2]} \X Field \subseteq files[r[1]]}

\* What the lifecycle sees of the steps of main.
Phase == IF main \in {"down", "init"} THEN "none"
         ELSE IF main = "run" THEN "logging"
         ELSE IF main = "exit" THEN "ended"
         ELSE "ending"

NoName == <<0, 0>>

\* The records of this run whose fields the fdatasync under way has all found.
Pledged == {r \in Name \X Slot : r[1] = name /\ {r[2]} \X Field \subseteq syncing}

Log == INSTANCE SessionLog
         WITH Session <- Name,
              NoSession <- NoName,
              Capacity <- kBufN,
              phase <- Phase,
              session <- IF Phase = "none" THEN NoName ELSE name,
              used <- names \union older,
              filed <- Whole(cache),
              durable <- Whole(disk),
              pledged <- Pledged

\* Whoever reads the log directory finds whole records, as SessionLog has them: in order,
\* never overwritten by a later session, and durable when fdatasync or shutdown() has ended.
ImplementsLog == Log!Spec

================================================================================
