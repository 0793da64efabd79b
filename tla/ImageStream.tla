------------------------------ MODULE ImageStream ------------------------------
(***************************************************************************)
(* The picture from the camera to a subscriber: which sizes capture, frame *)
(* and message have for every setting of the parameters                    *)
(* (src/src/econ_ros2_driver.cpp and the two backends), and what the two   *)
(* tools make of the messages that reach them over a best-effort topic     *)
(* (src/src/image_saver.cpp, src/src/image_viewer.cpp).                    *)
(*                                                                         *)
(* Parameters are fixed at the start, and with them the layout of every    *)
(* message, so a message is its number.  The tool is one of the saver and  *)
(* the viewer with either encoding; with another encoding the viewer       *)
(* throws in its constructor.  Every tool runs its callbacks on one        *)
(* thread, so that a callback is a step.                                   *)
(***************************************************************************)
EXTENDS Config, Sequences

CONSTANTS Depth,        \* messages a reader keeps, KeepLast(5) in the code
          MaxMessages,  \* bound: messages published
          MaxPictures,  \* bound: pictures saved in one run of the saver
          MaxRuns       \* bound: runs of the saver

ASSUME ImageStreamAssumption == /\ {Depth, MaxRuns} \subseteq Nat \ {0}
                                /\ {MaxMessages, MaxPictures} \subseteq Nat

VARIABLES p,            \* Params
          node,         \* "starting", "publishing", "refused"
          sent,         \* messages published
          tool,         \* "saver", "raw" or "compressed" (viewer)
          queue,        \* messages the tool's reader has for it
          latest,       \* saver: latest_, 0 for none
          count,        \* saver: count_
          run,          \* ghost: runs of the saver so far
          pictures,     \* saver: the files of save_dir_, by index
          window_count, \* viewer: messages since the last report
          received,     \* ghost: messages the viewer was called with
          reported      \* ghost: sum of the counts reported

saverVars == <<latest, count, run, pictures>>
viewerVars == <<window_count, received, reported>>
vars == <<p, node, sent, tool, queue, saverVars, viewerVars>>

Message == 1 .. MaxMessages

\* The file frame_<i>.png: the run that wrote it and the message it shows.
NoPicture == [run |-> 0, shows |-> 0]

TypeOK == /\ node \in {"starting", "publishing", "refused"}
          /\ sent \in 0 .. MaxMessages
          /\ tool \in {"saver", "raw", "compressed"}
          /\ queue \in Seq(Message) /\ Len(queue) <= Depth
          /\ latest \in 0 .. sent
          /\ count \in 0 .. MaxPictures
          /\ run \in 1 .. MaxRuns
          /\ pictures \in [1 .. MaxPictures -> [run : 0 .. MaxRuns, shows : 0 .. sent]]
          /\ window_count \in 0 .. received
          /\ received \in 0 .. sent /\ reported \in 0 .. sent

Init == /\ \E backend \in {"gstreamer", "opencv"}, profile \in Profiles \union {"8k"},
              compressed \in BOOLEAN, flip_method \in 0 .. 3 :
             p = load_params(backend, profile, compressed, flip_method)
        /\ node = "starting" /\ sent = 0
        /\ tool \in {"saver", "raw", "compressed"}
        /\ queue = <<>>
        /\ latest = 0 /\ count = 0 /\ run = 1
        /\ pictures = [i \in 1 .. MaxPictures |-> NoPicture]
        /\ window_count = 0 /\ received = 0 /\ reported = 0

--------------------------------------------------------------------------------
(* Geometry *)

\* Rows of BGR in GStreamer begin at multiples of four bytes.
RoundUp4(n) == ((n + 3) \div 4) * 4

\* The frame a backend hands out for raw pictures, with the bytes from row to row:
\* nvvidconv scales to the published size, cv::resize to the output size.
RawFrame == IF p.backend = "gstreamer"
            THEN [width |-> p.pub_width, height |-> p.pub_height,
                  step |-> RoundUp4(p.pub_width * 3)]
            ELSE [width |-> p.res.output_width, height |-> p.res.output_height,
                  step |-> p.res.output_width * 3]

\* The scene as captured and turned; the opencv backend turns nothing.
Turned == IF p.backend = "gstreamer" /\ p.flip_method \in {1, 3}
          THEN [width |-> p.res.capture_height, height |-> p.res.capture_width]
          ELSE [width |-> p.res.capture_width, height |-> p.res.capture_height]

\* The header of a raw message, set up once.
RawMessage == [width |-> p.pub_width, height |-> p.pub_height,
               step |-> p.pub_width * 3, size |-> p.expected_size]

\* What the GStreamer chains ask of the camera: format, size and rate.
CaptureCaps == <<IF p.compressed THEN "MJPG" ELSE "UYVY",
                 p.res.capture_width, p.res.capture_height, p.res.fps>>

\* What the camera offers at these sizes.
CameraMenu == {"UYVY", "MJPG"} \X {1280} \X {720} \X {60, 120}
                \union {<<"UYVY", 1920, 1080, 60>>, <<"UYVY", 1920, 1200, 55>>}
                \union {"MJPG"} \X {1920} \X {1080} \X {30, 60, 120}
                \union {"MJPG"} \X {1920} \X {1200} \X {60, 114}

--------------------------------------------------------------------------------
(* The node *)

\* A slip: the backend that turns nothing starts with any rotation.
StartAny == /\ node = "starting"
            /\ node' = "publishing"
            /\ UNCHANGED <<p, sent, tool, queue, saverVars, viewerVars>>

\* start(): the opencv backend refuses a rotation; GStreamer ignores it for JPEG.
StartBackend == /\ node = "starting"
                /\ node' = IF p.backend = "opencv" /\ p.flip_method # 0
                           THEN "refused" ELSE "publishing"
                /\ UNCHANGED <<p, sent, tool, queue, saverVars, viewerVars>>

\* The topic of the other format has another name and another type.
Matched == p.compressed = (tool = "compressed")

\* A slip: KeepAll.
KeptAll(m) == Append(queue, m)

\* KeepLast: a full reader drops its oldest message.
Kept(m) == Append(IF Len(queue) < Depth THEN queue ELSE Tail(queue), m)

\* publish(), if the frame has the bytes of a message.  A message may be lost.
Publish ==
  /\ node = "publishing" /\ sent < MaxMessages
  /\ p.compressed \/ RawFrame.step * RawFrame.height >= p.expected_size
  /\ sent' = sent + 1
  /\ \/ UNCHANGED queue
     \/ Matched /\ queue' = Kept(sent')
  /\ UNCHANGED <<p, node, tool, saverVars, viewerVars>>

--------------------------------------------------------------------------------
(* image_saver *)

\* A slip: the newest message is taken first, and the others after it.
ReceiveNewest ==
  /\ tool = "saver" /\ queue # <<>>
  /\ queue' = SubSeq(queue, 1, Len(queue) - 1)
  /\ latest' = queue[Len(queue)]
  /\ UNCHANGED <<p, node, sent, tool, count, run, pictures, viewerVars>>

\* The subscription's callback.
Receive ==
  /\ tool = "saver" /\ queue # <<>>
  /\ queue' = Tail(queue)
  /\ latest' = Head(queue)
  /\ UNCHANGED <<p, node, sent, tool, count, run, pictures, viewerVars>>

\* save_latest: the index is used up also when imwrite fails, and a frame is saved
\* again as long as no other comes.  The publisher's raw messages are all bgr8.
save_latest ==
  /\ tool = "saver" /\ latest # 0 /\ count < MaxPictures
  /\ count' = count + 1
  /\ pictures' \in {pictures, [pictures EXCEPT ![count'] = [run |-> run, shows |-> latest]]}
  /\ UNCHANGED <<p, node, sent, tool, queue, latest, run, viewerVars>>

\* The saver ends and is started again, in the same directory.
Restart ==
  /\ tool = "saver" /\ run < MaxRuns
  /\ run' = run + 1
  /\ queue' = <<>> /\ latest' = 0 /\ count' = 0
  /\ UNCHANGED <<p, node, sent, tool, pictures, viewerVars>>

--------------------------------------------------------------------------------
(* image_viewer *)

\* on_raw, on_compressed: counted before the picture is looked at.
Show == /\ tool # "saver" /\ queue # <<>>
        /\ queue' = Tail(queue)
        /\ window_count' = window_count + 1
        /\ received' = received + 1
        /\ UNCHANGED <<p, node, sent, tool, saverVars, reported>>

report == /\ tool # "saver" /\ window_count > 0
          /\ reported' = reported + window_count
          /\ window_count' = 0
          /\ UNCHANGED <<p, node, sent, tool, queue, saverVars, received>>

\* Nothing more to publish or to read.
Over == queue = <<>> /\ UNCHANGED vars

Next == \/ StartBackend
        \/ Publish
        \/ Receive
        \/ save_latest
        \/ Restart
        \/ Show
        \/ report
        \/ Over

Spec == Init /\ [][Next]_vars

--------------------------------------------------------------------------------
(* Properties *)

(***************************************************************************)
(* Every setting of the parameters that starts fits together: what the     *)
(* GStreamer chains ask for is on the camera's menu, the rows of a raw     *)
(* frame lie where the message says (for rows of GStreamer that takes a    *)
(* width of whole words), the copy reads no byte beyond the frame, and the *)
(* scene is turned but not stretched.                                      *)
(***************************************************************************)
EverySettingFits ==
  node = "publishing" =>
    /\ p.backend = "gstreamer" => CaptureCaps \in CameraMenu
    /\ ~p.compressed =>
         /\ RawMessage.width = RawFrame.width
         /\ RawMessage.height = RawFrame.height
         /\ RawMessage.step = RawFrame.step
         /\ RawMessage.size = RawFrame.step * RawFrame.height
         /\ RawFrame.width * Turned.height = RawFrame.height * Turned.width

\* Picture i was written before picture j.
Earlier(i, j) == \/ pictures[i].run < pictures[j].run
                 \/ pictures[i].run = pictures[j].run /\ i < j

\* However messages are lost and whenever the saver starts anew: its pictures, by run
\* and index, show the stream in order, and those after the last index are of earlier
\* runs; and the viewer's reports miss no message it was called with.
ToolsTellTheStream ==
  /\ \A i, j \in DOMAIN pictures :
       NoPicture \notin {pictures[i], pictures[j]} /\ Earlier(i, j)
         => pictures[i].shows <= pictures[j].shows
  /\ \A i \in DOMAIN pictures : pictures[i].run = run => i <= count
  /\ received = reported + window_count

================================================================================
