# TLA+ specifications of econ_ros2_driver

This directory models the See3CAM_24CUG camera driver in `src/` (paths below are
relative to that directory: `src/gst_backend.cpp` is the GStreamer backend). TLC
checks the models on small instances; TLAPS proves the most important properties for
every value of the constants. `PROJECT.json` lists the runs, the lines each definition
was translated from, the hazards, the theorems and the findings.

## The system

One process, `econ_ros2_driver`, and two tools that subscribe to its topic.

| Component | State | Operations | Interacts with |
|---|---|---|---|
| Node, grab thread (`econ_ros2_driver.cpp`, `loop`, `publish`) | `n_pull_`, `last_push_seen_`, `total_drops_`, the reusable message | grab, account for drops, stamp, copy, log_cbk, publish, log_pub, release | backend (calls), stamper, blackbox, DDS |
| Node, main thread (constructor, `shutdown`, `main`) | `stop_`, `grab_thread_`, `backend_`, `hid_fd_` | set-up with early returns, spin, shutdown | grab thread (flag, join), everything it opens |
| Backend interface (`camera_backend.hpp`) | none | start, grab, release, stop, push_count, t_capture_ns | called by the node |
| GStreamer backend (`gst_backend.*`) | `pipeline_`, `sample_`, `memory_`, `n_push_` (atomic), `t_push_ns_` (plain) | the six above; the probe `on_src_push` on the streaming thread | appsink with one buffer |
| V4L2/OpenCV backend (`opencv_backend.*`) | `fd_`, `bufs_`, `n_bufs_`, `current_index_`, `n_push_`, `t_capture_ns_` | the six above | capture driver (ioctl, mmap) |
| Blackbox (`blackbox.hpp`) | mapped record array, `idx`, `seq`, `running`, writer thread | init, log_cbk, log_pub, shutdown | grab thread, file system |
| HID set-up (`hid_control.hpp`) | the descriptor, one command at a time | open_and_init_trigger, close | camera over hidraw |
| Time stamper (`mmap_stamper.hpp`) | descriptor, mapping | try_open, read_low_ns, close | LiDAR process (shared file) |
| Parameters (`config.hpp`) | none | load_params, derived sizes | all |
| `image_saver.cpp`, `image_viewer.cpp` | last message, counters | timer and subscription callbacks | topic, best effort |
| launch files, scripts, DDS profiles | - | - | host |

What is hard here:

- *Threads.* GStreamer's streaming thread counts and stamps frames while the grab
  thread, which is still busy with an earlier frame, reads the counter and the stamp.
- *Borrowed memory.* The frame belongs to the backend. Only the order join - stop and
  release - next grab keeps the copy from reading freed or refilled memory.
- *Failure half-way.* start() and the constructor return early and clean nothing up;
  the destructor has to undo exactly what was done. QBUF and the mapping of a sample
  may fail on every frame.
- *Limits.* One buffer in the appsink, four V4L2 buffers, 2^20 records.
- *Request and answer over HID* with nothing in the answer to say whose it is.
- *Crashes.* The blackbox is for the analysis of crashes, and is itself written by plain
  stores into a mapped file that the kernel writes back when it likes.
- *A word in a file* shared with a process that may start late, die or begin anew.
- *A topic that loses messages*, and a saver that starts anew in the same directory.

What makes each component correct: the grab thread publishes in order and misses no
drop; a backend hands out frames in order, one at a time, and keeps them until
release; the blackbox records exactly the publish history; set-up reports success only
for a camera that is set up; shutdown always ends and leaves nothing. What the blackbox
has synced survives, and what a killed process leaves can be read; stamps are those of
the frame's trigger and do not go back; every setting of the parameters fits from the
camera to the message; the tools tell the stream in order.

## Modules

    BlackboxRecords <- GrabLoop <- GstCapture  --implements--> CameraBackend
                               <- V4l2Capture --implements--> CameraBackend
    NodeLifecycle      HidControl <- MCHidControl
    Blackbox --implements--> SessionLog
    SharedStamp        Config <- ImageStream
    GrabProofs (of GrabLoop) <- GstProofs (of GstCapture), V4l2Proofs (of V4l2Capture)
    LifecycleProofs (of NodeLifecycle)
    CrashProofs (of Blackbox)       SharedStampProofs (of SharedStamp)
    HidProofs (of HidControl)       StreamProofs (of ImageStream)

**BlackboxRecords** is the record array: `log_cbk` and `log_pub` as operators on `idx`,
`seq` and `base`. A time is the number of the frame it belongs to, or a flag.

**GrabLoop** is the grab thread, one action per step that touches something shared:
the loop condition, grab, accounting, copy, `log_cbk`, publish, `log_pub`, release; and
main from backend start to backend stop. What a backend returns is a parameter of the
action (`Grabbed(f)`, `Account(push_now)`, `LogCbk(t)`). `stop` is `stop_` or a context
that was shut down, which the code reads in one condition.

**GstCapture** extends it with the streaming thread. Frames are numbered by the probe.
`ProbeStamp` and `ProbeCount` are the two statements of `on_src_push`; `converting` is
the frame between the probe and the appsink, at most one because the chain has no queue
element and one thread does it all; `Render` puts it in the appsink, a set of frames
that holds `kMaxBuffers` and, being told `drop`, gives up its oldest for the newcomer;
these two are what `start` sets, the appsink itself is external. `NodeAccount` may read
any count from the frame's own to the present one (a relaxed load), `NodeLogCbk` any
stamp written since the frame's (a data race on a plain 64-bit field; the value is never
torn on the targets). `Halt` is ERROR or EOS in the pipeline (external: `drain_bus` only
logs it).

**V4l2Capture** extends it with the capture driver: `FillBuffer` and `LoseFrame` number a
frame and fill a buffer or not. `where[b]` says who has buffer `b`. REQBUFS grants any
number up to `MaxGrant`, and the code takes it unchecked (`opencv_backend.cpp:153`): when
it is more than the entries of `bufs_`, `StartOverruns`, or `StopOverruns` after a start()
that failed, is the step that leaves the array. It sets `overrun`, after which nothing is
modelled. `StartFailed` has one alternative per early return of `start`, with as many
buffers mapped and queued as were set up by then.

**CameraBackend** is the abstract specification: what `camera_backend.hpp` promises
whichever backend runs. Both backends are checked and proved to implement it, with
`borrowed` the number of the frame in the sample or in the dequeued buffer.

**NodeLifecycle** is the whole process by the resources it holds: the constructor part
by part with every early return and exception, a signal at any moment (one during the
constructor may make `rclcpp::spin` throw, `SpinBegins`, and then no destructor runs),
the destructor, the grab thread's use of backend, stamper and blackbox, the writer
thread's loop. The data of a turn is left to GrabLoop, the steps of HID set-up to
HidControl: `InitHid` is one step that ends, which HidControl shows but for `drain`;
`SignalEndsProcess` rests on it.

**HidControl** is `open_and_init_trigger` and all it calls, as steps of the driver, each
read of the loop in `drain` one of them (`Drain`), and
the camera as the environment: it works commands off in order, may refuse one, may not
answer, sends reports nobody asked for, and may still be busy with an earlier run's
commands. **MCHidControl** says what an earlier run can leave: it waits for each answer
before the next command, but for the OS code's.

**Blackbox** is the blackbox file under crashes: `Box::init`, `log_cbk` and `log_pub` as
stores, the writer thread, `Box::shutdown`, over sessions that follow one another in the
log directory. A record is the set of its fields that have been stored (`cache`, what a
process reads) and that have reached the disk (`disk`). The stores of one call come in
any order, since they are plain and the compiler may reorder them. `fdatasync` has a
beginning, when it finds what is in the page cache, and an end; in between and at any
other time the kernel may write a page back (`WriteBack`), the process may be killed
(`Kill`) or the power may go (`PowerLoss`). `session_dir` names a session by second and
process id; `TimeAndPid` says which of both the machine may give. BlackboxRecords says
what the records tell; here only whether they are there counts.

**SessionLog** is the abstract specification of Blackbox: what the header comment of
`blackbox.hpp` promises to whoever reads the log directory (lines 9-13 and 32-33). It has
no files, pages, stores or threads. A record is there or it is not; a session is opened,
gets records in order, is synced and ended; the process may go and the power may go.
Under the mapping a record is there when all its fields are (`Whole`): it appears with
the last store of `log_pub`, whichever that is, and an fdatasync pledges the records that
it found whole.

**SharedStamp** is `mmap_stamper.hpp` and the choice of the stamp in `publish`, against the
LiDAR process. A time is the number of its trigger. `LidarOpens` has one alternative per
way to open the file: as it is, truncated, or a new one under the same name. `try_open`,
`Read`, `Send` and `close` are the node's steps; the stamp 0 stands for `now()`. Reading
a mapped file that has no bytes kills the node (SIGBUS): `node = "dead"`.

**Config** is `config.hpp`: both profile tables, `is_quarter_turn`, `load_params`, as
operators. **ImageStream** starts from every setting of the parameters, has what each
backend makes of them (`CaptureCaps`, `RawFrame`, `Turned`, `RawMessage`), the topic as
a reader that keeps the last `Depth` messages, and the callbacks of `image_saver`
(`Receive`, `save_latest`, `Restart`) and `image_viewer` (`Show`, `report`), each a step,
because both tools run them on one thread. `CameraMenu` is what the camera offers.

Operators whose comment begins "A slip" or "Slips" are wrong versions of the definition
after them. No specification uses them; each shows, put in the place of the right one,
that a property can be violated.

## Runs

| Run | Result | What it shows |
|---|---|---|
| `gst` | holds, 55k states | `NoDropMissed`, `RecordsTellHistory`, `FrameConservation`, `GrabsNewest`, `BorrowedWhileUsed`, `InOrderPublish`, `PulledIsPublished`, `ImplementsBackend`, `ShutdownCompletes`, `RenderedFrameLeaves` |
| `v4l2` | holds, 8.7k | `TypeOK` (no loop leaves `bufs_` but by a grant too large), `RecordHasOwnCapture`, `ExactDrops`, `BuffersAccounted`, `BorrowedWhileUsed`, `NothingLeft`, `BufferComesBack`, `ImplementsBackend`, `ShutdownCompletes` |
| `lifecycle` | holds, 436 | `NoUseAfterClose`, `CleanExit`, `SignalEndsProcess` |
| `hid` | holds, 49k | `ReadyMeansSetUp`, `SetupEnds` (unless reports come for ever in `drain`) |
| `blackbox` | holds, 95k | `SyncedSurvives`, `KillLeavesPrefix`, `ExitIsDurable`, `LoggedBecomesDurable`, `ImplementsLog` |
| `shared_stamp` | holds, 161k | `StampAtMostOneBehind`, `SharedClockNeverBack`, `SharedClockKept` |
| `image_stream` | holds, 61k | `EverySettingFits`, `ToolsTellTheStream` |
| `gst_false_drop` | violated | `DropsAreLost`: a frame is reported as dropped and then delivered |
| `gst_capture_stamp` | violated | `RecordHasOwnCapture`: a record has a later frame's capture time |
| `v4l2_empty_frame` | violated | `BuffersAccounted`: an empty JPEG buffer is never queued again |
| `lifecycle_zombie` | violated | `UnknownBackendStops`: an unknown backend leaves a spinning node |
| `hid_stale_answer` | violated | `ExposureIsOurs`: an old answer hides the refusal of our exposure |

The passing runs also check the type invariant of their module. The five violated runs
each state what a comment or the README of the driver says; PROJECT.json quotes the line.

*Bounds and why they are enough.*

- `MaxFrames = 4` with `kBufN = 2` records: one frame can be lost between two that are
  published, the blackbox fills up and then goes on full, and a frame can be in hand, in
  the appsink and in conversion while a fourth is stamped. The proofs cover the rest.
- `kBufCount = 2`, `MaxGrant = 3`: one buffer out, one filled; with one granted, a pool
  of one; a start() that fails at the first, the second or after the last; and one
  buffer more than `bufs_` has entries.
- `gst` runs raw with full and short frames (the guard in `publish` fires), `v4l2` runs
  JPEG, whose size is the driver's. `Compressed` decides no other step of the model.
- `hid`: 4 reads and a hidraw buffer of 3 reports (`MaxUnread`; the kernel's has 64 and
  drops what does not fit), fewer than the reads. How many unwanted reports the camera
  sends in all is not bounded, so both "found in time" and "used up" happen, and `drain`
  may go on for ever. The code's 10 and 3 reads only make this longer. The camera moves
  between any two steps of the driver, which covers every delay.
- `blackbox`: 2 records, of which the second lies across two pages, as a record of 48
  bytes does at two of every three page boundaries of 4096 bytes, where 16 or 32 of its
  bytes come before the boundary. `PageSize = 80` is the cut after 32 bytes; one after
  16 falls among the fields the model writes as one. 2 sessions, in one boot or two,
  with a clock that moves or stands still; a third frame finds the array full.
- `shared_stamp`: 6 triggers, the first of an earlier day, are enough for a stamp, a
  restart of the LiDAR process in each of the three ways, and stamps after it. 2 files.
- `image_stream`: all 5 x 2 x 2 x 4 settings (four profiles and an unknown one). 4
  messages against readers that keep 2, 2 runs of the saver, 3 pictures: losses,
  repeated pictures, and pictures that are overwritten by a later run.
- Time is not counted: a timeout is a choice the environment makes at any moment.

*Fairness.* `GstCapture` and `V4l2Capture`: weak fairness of the grab thread as one
process (grab() returns within 100 ms; the other calls do not block), of main once it
is in shutdown, and, for GStreamer, of the streaming thread in the middle of a buffer.
None of the camera's frames, errors or signals. `NodeLifecycle`: the three threads.
`HidControl`: the driver only, so SetupEnds holds for a camera that never answers. It
does not hold of `drain` (`hid_control.hpp:59`), a loop without a count: the property says
that set-up ends unless the camera sends a report again and again while drain reads.
`Blackbox`: the writer and shutdown, that is, fdatasync returns; not the kernel's own
write-back, so durability comes from the driver's syncs. `SharedStamp` and `ImageStream`
have safety properties only.

Join waits for the other thread, so weak fairness suffices: once that thread is done
it stays done. No run disables the deadlock check: terminal states stutter by
`Terminated`, `Done` or `Over`.

*What the models of files assume.* fdatasync succeeds and does what its manual says; the
directory entry of a session is on disk with it; after a boot the clock is ahead of
every earlier session (so a clock that is set back across a boot to the second of an
earlier session, with the process id used again too, is assumed away: `open` would
truncate that session), and within a boot process ids are not used again. The LiDAR
process writes a trigger's time before the next trigger.

## Proofs

Proved with TLAPS, for every capacity, number of buffers, set of sizes and number of
frames, from the assumptions on the constants that the modules name:

| Property | GstProofs | V4l2Proofs |
|---|---|---|
| `TypeOK` | yes | yes, for every grant of REQBUFS |
| `NoDropMissed` / `ExactDrops` | `NoDropMissed` | `ExactDrops` |
| `BorrowedWhileUsed`, `InOrderPublish` | yes | yes |
| `RecordsTellHistory` | yes | yes |
| `FrameConservation`, `GrabsNewest` | yes | - |
| `NothingLeft`, `RecordHasOwnCapture` | - | yes |
| `BuffersAccounted` | - | if no JPEG buffer is empty |
| `ImplementsBackend` | if no buffer is empty | if no JPEG buffer is empty |
| every whole frame is published in its turn (`TurnPublishes`) | yes | yes |
| at most ten steps from stop to stopped (`StopStep`) | yes | yes |
| the capture time of a record is never too early (`StampBetween`) | yes | by `RecordHasOwnCapture` |

The argument. GrabProofs does the node once for both backends. `NodeStep` is a step of
the node under two promises: a valid frame is newer than the last one grabbed, and
push_count covers the frame in hand and never goes back. Under it `NodeInv` is
inductive: *Control* ties main, `stop` and the thread's program counter together (stop()
only after the thread has ended), *Turn* says what the thread knows at each step of
its turn, *Counted* is the arithmetic of the drop accounting. No property here is
inductive by itself: `NoDropMissed`, for one, says nothing at the step "account",
where the frame has been taken and not counted, and needs the bound on
`last_push_seen` there. `RecordInv` (*Filled*, *Latest*, *Closed*, *Ordered*) does the
same for the blackbox.

Each backend then strengthens its type invariant to `GstInv` or `V4l2Inv`, which say
where each frame or buffer is (the order frame in hand < appsink < conversion < probe;
the order in which filled buffers are numbered), proves from it that every step of the
composition is a `NodeStep`, and that the invariant is kept, action by action. The
refinement theorems add what is true only without empty frames: a sample, or a current
buffer, exists only in a turn. With an empty frame the second does not hold, which is
the finding of `v4l2_empty_frame`.

The last three rows are of formulas that no run checks. `TurnPublishes` is what remains of
`PulledIsPublished` without fairness: the only way out of a turn without `publish` is
the size guard. `StepsLeft` counts the steps that the grab thread needs to look at `stop`
again and those of main in `shutdown()`. It is at most ten when `stop` is set; every
step of either thread takes one from it or more, no step of any other thread adds to it,
and it is zero in the state "stopped" only. So what `ShutdownCompletes` owes to fairness
is that the two threads take their steps, and nothing else. `StampBetween` bounds the
finding of `gst_capture_stamp`: the stamp may be a later frame's, never an earlier one's.

Proved besides, each from an invariant of its own module, for every value of its constants:

| Module | Properties | Inductive invariant |
|---|---|---|
| NodeLifecycle (LifecycleProofs) | `TypeOK`, `NoUseAfterClose`, `CleanExit` | `LifecycleInv` |
| Blackbox (CrashProofs) | `TypeOK`, `SyncedSurvives`, `KillLeavesPrefix`, `ExitIsDurable`, `ImplementsLog` | `BoxInv`; with `Fresh`, `Missing` for the last |
| SharedStamp | `TypeOK`, `StampAtMostOneBehind`, `SharedClockNeverBack`, `SharedClockKept` | `SharedStampInv` |
| HidControl (HidProofs) | `TypeOK`, `ReadyMeansSetUp`, a bound on the steps of set-up but for `drain` | `HidInv` |
| ImageStream (StreamProofs) | `TypeOK`, `ToolsTellTheStream`, `EverySettingFits` | `StreamInv`; `Derived`, `Accepted` for the last |

- *LifecycleInv.* How far main() has come bounds the two threads (*Threads*: the grab
  thread is spawned last and joined first, the writer the other way round) and what is
  open (*Resources*).
- *BoxInv.* The properties are about files; what keeps them is where the grab thread is.
  *Calls*: the record in hand is the last one taken, those before it are closed.
  *Cells*: of that record, at most the fields in `Left` are missing. *Sync*: the
  fdatasync under way found all of every record that was closed when it began. *Names*:
  no session gets the directory, and so the truncation, of another; this is where the
  assumptions about clock and process ids are used. Nothing is assumed of the page size.
- *ImplementsLog.* Two more facts are needed to say when a record becomes whole.
  *Fresh*: a directory that no run has made is empty. *Missing*: what the grab thread
  has still to store is not in the file. From them and *Calls* the whole records of the
  present session are those closed (`WholeClosed`). Then one lemma per group of actions
  maps each step to a step of SessionLog or to a stutter: a store is `LogRecord` if it
  is the last of its record and a stutter otherwise, a page written back is `WriteBack`,
  and the munmap and close of `shutdown()` are `EndSession`.
- *SharedStampInv.* *LidarInv*: a LiDAR process that is up has written every trigger
  since its first but the one it owes. *Mapping*: a word other than zero in the mapped
  file is not behind a stamp that was read from it, and a zero after such a stamp comes
  from a truncation.
- *HidInv.* The camera works its commands off in order. So when it has answered a
  command of this run, no command of an earlier one is left (*Queued*, *OursOnly*), and
  what an unread report proves (*Answered*) stays true until the driver takes it.
  Nothing is assumed of what earlier runs have left: MCHidControl's six cases are for
  TLC only. The bound is a rank like that of shutdown: each command has at most kReads
  reads, the OS code kOsReads, so that `open_and_init_trigger` returns after 3 (kReads +
  3) + kOsReads + 3 steps of its own, 45 with the code's ten and three, and the reads of
  `drain`. Those have no bound: each takes one report off and leaves the rank as it is
  (`DriverStep`).
- *StreamInv.* *InOrder*: no picture shows a message later than one still to be read, or
  than the one that is saved next. *Indexed*: pictures after the last index are of
  earlier runs. Both hold over a restart because a new reader has only later messages.
- *Derived* says that the parameters are those `load_params` makes of a profile and a
  rotation, *Accepted* which of them a backend starts with. Both are kept by every step,
  since no step assigns parameters.

Only model-checked: liveness (`PulledIsPublished`, `ShutdownCompletes`,
`RenderedFrameLeaves`, `BufferComesBack`, `SignalEndsProcess`, `SetupEnds`,
`LoggedBecomesDurable`), which depends on fairness and so on ENABLED, out of the prover's
reach. Three of them have a safety core that is proved (above): `PulledIsPublished`,
`ShutdownCompletes` and `SetupEnds`. Every other property of a passing run is a theorem.
The order of publication is checked by the run `gst` and, for V4L2, through
`ImplementsBackend` and `ExactDrops` of the run `v4l2`; it is proved for both.

## What is not modelled

- Pixels: conversion, S_FMT adjusting a size, incomplete buffers, JPEG decoding.
- What the process does once it has written beyond `bufs_`: the behaviour ends there, and
  `ShutdownCompletes` of the run `v4l2` says so.
- `v4l2_buffer.sequence` wrapping at 2^32.
- The reusable message and DDS beyond "publish copies before it returns" and "a reader
  keeps the last messages, and one may be lost". `published` counts calls of publish():
  after a signal rclcpp may drop the message and say nothing.
- How the two GStreamer chains are built: start() finds the pipeline made or not.
- fdatasync failing: the code does not look at its result.
- The saver's index beyond seven digits; parameters outside the documented ranges, but for
  the profile's and the backend's name.
- Launch files, scripts and DDS profiles: configuration, no state of the program.

## Plan

Done, in this order: BlackboxRecords, GrabLoop, CameraBackend, GstCapture, V4l2Capture,
NodeLifecycle, HidControl and the proofs of the two compositions; then Blackbox,
SharedStamp, Config, ImageStream, and the proofs of these, of HidControl and of
NodeLifecycle; then SessionLog with the proof that Blackbox implements it, the bounds on
shutdown and set-up, and the rest of the safety properties. What is left:

1. The content of records in SessionLog: a record there has only an index. With the
   values of BlackboxRecords, survival and content would be one statement.
2. A bound on the steps of the whole process from a signal to its exit, as
   `SignalEndsProcess` has only a fairness argument.
