------------------------------ MODULE SharedStamp ------------------------------
(***************************************************************************)
(* The time stamp of a published image (src/include/mmap_stamper.hpp, and  *)
(* publish() in src/src/econ_ros2_driver.cpp): the node maps a file that   *)
(* the LiDAR process makes and in which it writes the time of each         *)
(* trigger, and takes now() as long as it finds no file or a zero.         *)
(*                                                                         *)
(* One trigger line fires both sensors, so a time is the number of its     *)
(* trigger and frame n is the one exposed at trigger n.  The LiDAR process *)
(* is the environment: it may start late, die, and begin anew on the same  *)
(* file, on the file truncated, or on a new file; when it runs it writes a *)
(* trigger's time before the next trigger.  The file may be there from an  *)
(* earlier day.                                                            *)
(***************************************************************************)
EXTENDS Naturals

CONSTANTS MaxTriggers,  \* bound: triggers in a behaviour
          MaxFiles      \* bound: files made

ASSUME SharedStampAssumption == {MaxTriggers, MaxFiles} \subseteq Nat \ {0}

VARIABLES trigger,      \* triggers so far; the first was on an earlier day
          path,         \* the file at ~/timeshare, 0 for none; files are numbered as made
          word,         \* SharedTimestamp::low in each file
          sized,        \* files that are long enough to be read
          lidar,        \* the LiDAR process: "down", "opened" (its file not sized yet), "up"
          owes,         \* it has not written the last trigger yet
          since,        \* first trigger that it has written, 0 for none
          lfile,        \* the file it writes
          node,         \* grab thread: "idle", publish() step by step, "closed"; "dead"
          mapped,       \* the file behind stamp_, 0 while it is not opened
          frame,        \* number of the frame to publish
          stamp,        \* its stamp; 0 stands for now()
          last,         \* ghost: last stamp that was not now()
          cut           \* ghost: the mapped file was truncated since such a stamp was read

fileVars == <<path, word, sized, lidar, owes, since, lfile>>
lidarVars == <<fileVars, cut>>
nodeVars == <<node, mapped, frame, stamp, last>>
vars == <<trigger, lidarVars, nodeVars>>

File == 1 .. MaxFiles
Time == 0 .. MaxTriggers

\* Types; a stamper that was closed has nothing mapped.
TypeOK == /\ trigger \in Time /\ since \in Time
          /\ frame \in Time /\ stamp \in Time /\ last \in Time
          /\ path \in 0 .. MaxFiles /\ lfile \in 0 .. MaxFiles
          /\ mapped \in 0 .. MaxFiles
          /\ word \in [File -> Time]
          /\ sized \subseteq File
          /\ lidar \in {"down", "opened", "up"}
          /\ owes \in BOOLEAN /\ cut \in BOOLEAN
          /\ node \in {"idle", "open", "read", "send", "closed", "dead"}
          /\ node = "closed" => mapped = 0

Init == /\ trigger = 1
        /\ path \in {0, 1}
        /\ word \in [File -> {0, 1}]
        /\ \A f \in File : f # path => word[f] = 0
        /\ sized \in SUBSET ({path} \ {0})
        /\ \A f \in File \ sized : word[f] = 0
        /\ lidar = "down" /\ owes = FALSE /\ since = 0 /\ lfile = 0 /\ cut = FALSE
        /\ node = "idle" /\ mapped = 0 /\ frame = 0 /\ stamp = 0 /\ last = 0

--------------------------------------------------------------------------------
(* Trigger line and LiDAR process *)

Trigger == /\ trigger < MaxTriggers
           /\ ~owes
           /\ trigger' = trigger + 1
           /\ owes' = (lidar = "up")
           /\ UNCHANGED <<path, word, sized, lidar, since, lfile, cut, nodeVars>>

LidarWrites == /\ owes
               /\ owes' = FALSE
               /\ word' = [word EXCEPT ![lfile] = trigger]
               /\ since' = IF since = 0 THEN trigger ELSE since
               /\ UNCHANGED <<trigger, path, sized, lidar, lfile, cut, nodeVars>>

\* O_CREAT without and with O_TRUNC, and a file that replaces the one at the path.
LidarOpens ==
  /\ lidar = "down"
  /\ \/ /\ path # 0
        /\ UNCHANGED <<path, word, sized, cut>>
     \/ /\ path # 0
        /\ word' = [word EXCEPT ![path] = 0]
        /\ sized' = sized \ {path}
        /\ cut' = (cut \/ mapped = path)
        /\ UNCHANGED path
     \/ /\ path < MaxFiles
        /\ path' = path + 1
        /\ UNCHANGED <<word, sized, cut>>
  /\ lidar' = IF path' \in sized' THEN "up" ELSE "opened"
  /\ lfile' = path'
  /\ UNCHANGED <<trigger, owes, since, nodeVars>>

LidarSizes == /\ lidar = "opened"
              /\ lidar' = "up"
              /\ sized' = sized \union {lfile}
              /\ UNCHANGED <<trigger, path, word, owes, since, lfile, cut, nodeVars>>

LidarDies == /\ lidar # "down"
             /\ lidar' = "down"
             /\ owes' = FALSE
             /\ since' = 0
             /\ UNCHANGED <<trigger, path, word, sized, lfile, cut, nodeVars>>

Lidar == LidarWrites \/ LidarOpens \/ LidarSizes \/ LidarDies

--------------------------------------------------------------------------------
(* The node *)

\* The next frame comes out of grab(), after its trigger; frames may be lost.
Grab == /\ node = "idle"
        /\ node' = "open"
        /\ frame' \in (frame + 1) .. trigger
        /\ UNCHANGED <<trigger, lidarVars, mapped, stamp, last>>

\* A slip: the file is opened for every frame.
try_open_always == /\ node = "open"
                   /\ node' = "read"
                   /\ mapped' \in {0, path}
                   /\ UNCHANGED <<trigger, lidarVars, frame, stamp, last>>

\* try_open: once it has succeeded it does nothing any more.  open and mmap may fail.
try_open == /\ node = "open"
            /\ node' = "read"
            /\ mapped' \in IF mapped # 0 THEN {mapped} ELSE {0, path}
            /\ UNCHANGED <<trigger, lidarVars, frame, stamp, last>>

\* Slips: two loads for the two halves of the word; a stamp once read is kept.
ReadTorn == /\ node = "read"
            /\ node' = "send"
            /\ stamp' \in IF mapped = 0 \/ word[mapped] = 0 THEN {0} ELSE 1 .. trigger
            /\ UNCHANGED <<trigger, lidarVars, mapped, frame, last>>

ReadOnce == /\ node = "read"
            /\ node' = "send"
            /\ stamp' = IF stamp # 0 \/ mapped = 0 THEN stamp ELSE word[mapped]
            /\ UNCHANGED <<trigger, lidarVars, mapped, frame, last>>

\* read_low_ns, and now() for a zero.  To read a mapped file that is too short is SIGBUS.
Read == /\ node = "read"
        /\ \/ /\ mapped # 0 /\ mapped \notin sized
              /\ node' = "dead"
              /\ UNCHANGED <<stamp, cut>>
           \/ /\ mapped = 0 \/ mapped \in sized
              /\ node' = "send"
              /\ stamp' = IF mapped = 0 THEN 0 ELSE word[mapped]
              /\ cut' = (cut /\ stamp' = 0)
        /\ UNCHANGED <<trigger, fileVars, mapped, frame, last>>

Send == /\ node = "send"
        /\ node' = "idle"
        /\ last' = IF stamp # 0 THEN stamp ELSE last
        /\ UNCHANGED <<trigger, lidarVars, mapped, frame, stamp>>

\* A slip: the mapping is left to the end of the process.
CloseFileOnly == /\ node = "idle"
                 /\ node' = "closed"
                 /\ UNCHANGED <<trigger, lidarVars, mapped, frame, stamp, last>>

\* shutdown(), after the grab thread has been joined.
close == /\ node = "idle"
         /\ node' = "closed"
         /\ mapped' = 0
         /\ UNCHANGED <<trigger, lidarVars, frame, stamp, last>>

Node == Grab \/ try_open \/ Read \/ Send \/ close

\* The node is gone.
Over == node \in {"closed", "dead"} /\ UNCHANGED vars

Next == Trigger \/ Lidar \/ Node \/ Over

Spec == Init /\ [][Next]_vars

--------------------------------------------------------------------------------
(* Properties *)

(***************************************************************************)
(* What camera and LiDAR data are matched by: when the LiDAR process that  *)
(* writes the mapped file has been writing since before the frame's        *)
(* trigger, the stamp is that trigger's, or the one before when the node   *)
(* was first, or that of a later trigger when the frame was late; never an *)
(* older one and never now().                                              *)
(***************************************************************************)
StampAtMostOneBehind ==
  node = "send" /\ lidar = "up" /\ mapped = lfile /\ since \in 1 .. frame - 1
    => stamp \in frame - 1 .. trigger

\* Stamps on the shared clock never go back, over any restart of the LiDAR process and
\* whatever happens to its file.
SharedClockNeverBack == node = "send" /\ stamp # 0 => stamp >= last

\* After a stamp on the shared clock, now() comes back only when the LiDAR process has
\* truncated the file.
SharedClockKept == node = "send" /\ stamp = 0 /\ last # 0 => cut

================================================================================
