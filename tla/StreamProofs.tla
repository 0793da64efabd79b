------------------------------ MODULE StreamProofs ------------------------------
(***************************************************************************)
(* Proofs about the two tools of ImageStream, for every depth of a reader  *)
(* and every number of messages, pictures and runs of the saver.  A        *)
(* picture is never ahead of the message that is saved next, over all runs *)
(* (InOrder), and the pictures of a run fill the indices it has used       *)
(* (Indexed).  And about the sizes: every row of the profile tables, with  *)
(* every rotation, is worked out (Derived).                                *)
(***************************************************************************)
EXTENDS ImageStream, SequenceTheorems, TLAPS

\* Pictures, the message at hand and the ones still to be read follow one another.
InOrder == /\ \A j \in 1 .. Len(queue) : latest <= queue[j] /\ queue[j] <= sent
           /\ \A i, j \in 1 .. Len(queue) : i < j => queue[i] <= queue[j]
           /\ \A i \in DOMAIN pictures, j \in 1 .. Len(queue) : pictures[i].shows <= queue[j]
           /\ latest # 0 => \A i \in DOMAIN pictures : pictures[i].shows <= latest

\* Where the pictures of a run are.
Indexed == \A i \in DOMAIN pictures : /\ pictures[i].run <= run
                                      /\ pictures[i].run = run => i <= count

\* No message is counted that was not sent.
Counted == /\ received + Len(queue) <= sent
           /\ received = reported + window_count

StreamInv == TypeOK /\ InOrder /\ Indexed /\ Counted /\ ToolsTellTheStream

--------------------------------------------------------------------------------
\* The depth and the bounds are numbers.
LEMMA Constants == /\ Depth \in Nat \ {0} /\ MaxRuns \in Nat \ {0}
                   /\ MaxMessages \in Nat /\ MaxPictures \in Nat
BY ImageStreamAssumption

\* A message is put at the end.
LEMMA Appended ==
  ASSUME NEW S, NEW s \in Seq(S), NEW x \in S
  PROVE  /\ Append(s, x) \in Seq(S)
         /\ Len(Append(s, x)) = Len(s) + 1 /\ Len(s) \in Nat
         /\ \A i \in 1 .. Len(s) : Append(s, x)[i] = s[i]
         /\ Append(s, x)[Len(s) + 1] = x
OBVIOUS

\* And taken from the front.
LEMMA Taken ==
  ASSUME NEW S, NEW s \in Seq(S), s # <<>>
  PROVE  /\ Head(s) \in S /\ Tail(s) \in Seq(S)
         /\ 1 \in 1 .. Len(s) /\ Head(s) = s[1]
         /\ Len(Tail(s)) = Len(s) - 1 /\ Len(s) \in Nat
         /\ \A i \in 1 .. Len(Tail(s)) : i + 1 \in 1 .. Len(s) /\ Tail(s)[i] = s[i + 1]
BY HeadTailProperties

\* A message is a number.
LEMMA QueueNumbers == TypeOK => \A k \in 1 .. Len(queue) : queue[k] \in Nat
<1> SUFFICES ASSUME TypeOK, NEW k \in 1 .. Len(queue) PROVE queue[k] \in Nat
  OBVIOUS
<1>1. queue[k] \in Message
  BY ElementOfSeq DEF TypeOK
<1> QED
  BY <1>1 DEF Message

\* Nothing sent, saved or counted.
LEMMA StreamInvInit == Init => StreamInv
<1> SUFFICES ASSUME Init PROVE StreamInv
  OBVIOUS
<1> USE Constants DEF NoPicture
<1>1. /\ node = "starting" /\ sent = 0 /\ tool \in {"saver", "raw", "compressed"}
      /\ queue = <<>> /\ latest = 0 /\ count = 0 /\ run = 1
      /\ pictures = [i \in 1 .. MaxPictures |-> NoPicture]
      /\ window_count = 0 /\ received = 0 /\ reported = 0
  BY DEF Init
<1>2. pictures \in [1 .. MaxPictures -> [run : 0 .. MaxRuns, shows : 0 .. sent]]
  BY <1>1
<1>3. TypeOK
  BY <1>1, <1>2, EmptySeq DEF TypeOK, Message
<1>4. InOrder /\ Indexed /\ Counted /\ ToolsTellTheStream
  BY <1>1 DEF InOrder, Indexed, Counted, ToolsTellTheStream
<1> QED
  BY <1>3, <1>4 DEF StreamInv

--------------------------------------------------------------------------------
\* A message comes in, and a full reader gives up its oldest (KeepLast).
LEMMA KeptNext ==
  ASSUME TypeOK, InOrder, NEW m \in Message, m > sent
  PROVE  /\ Kept(m) \in Seq(Message) /\ Len(Kept(m)) <= Depth
         /\ Len(Kept(m)) <= Len(queue) + 1
         /\ \A i \in 1 .. Len(Kept(m)) : Kept(m)[i] = m \/
              \E k \in 1 .. Len(queue) : Kept(m)[i] = queue[k]
         /\ \A i, j \in 1 .. Len(Kept(m)) : i < j => Kept(m)[i] <= Kept(m)[j]
<1> USE Constants DEF TypeOK
<1> DEFINE rest == IF Len(queue) < Depth THEN queue ELSE Tail(queue)
<1>1. /\ rest \in Seq(Message) /\ Len(rest) < Depth /\ Len(rest) <= Len(queue)
      /\ \A i \in 1 .. Len(rest) : rest[i] <= sent /\ \E k \in 1 .. Len(queue) : rest[i] = queue[k]
      /\ \A i, j \in 1 .. Len(rest) : i < j => rest[i] <= rest[j]
  <2>1. CASE Len(queue) < Depth
    BY <2>1 DEF InOrder
  <2>2. CASE ~(Len(queue) < Depth)
    <3>1. queue \in Seq(Message) /\ queue # <<>>
      BY <2>2
    <3>2. /\ Tail(queue) \in Seq(Message) /\ Len(queue) \in Nat
          /\ Len(Tail(queue)) = Len(queue) - 1
          /\ \A i \in 1 .. Len(Tail(queue)) :
               i + 1 \in 1 .. Len(queue) /\ Tail(queue)[i] = queue[i + 1]
      BY <3>1, Taken
    <3> QED
      BY <2>2, <3>2 DEF InOrder
  <2> QED
    BY <2>1, <2>2
<1> HIDE DEF rest
<1>2. /\ Append(rest, m) \in Seq(Message)
      /\ Len(Append(rest, m)) = Len(rest) + 1 /\ Len(rest) \in Nat
      /\ \A i \in 1 .. Len(rest) : Append(rest, m)[i] = rest[i]
      /\ Append(rest, m)[Len(rest) + 1] = m
  BY <1>1, Appended
<1>3. \A i \in 1 .. Len(rest) + 1 : i = Len(rest) + 1 \/ i \in 1 .. Len(rest)
  BY <1>2
<1>4. Kept(m) = Append(rest, m)
  BY DEF Kept, rest
<1>5. \A i \in 1 .. Len(Kept(m)) : Kept(m)[i] = m \/
        \E k \in 1 .. Len(queue) : Kept(m)[i] = queue[k]
  BY <1>1, <1>2, <1>3, <1>4
<1>6. \A i, j \in 1 .. Len(Kept(m)) : i < j => Kept(m)[i] <= Kept(m)[j]
  <2> SUFFICES ASSUME NEW i \in 1 .. Len(Kept(m)), NEW j \in 1 .. Len(Kept(m)), i < j
               PROVE  Kept(m)[i] <= Kept(m)[j]
    OBVIOUS
  <2>0. i \in 1 .. Len(rest)
    BY <1>2, <1>4
  <2>1. Kept(m)[i] = rest[i] /\ rest[i] <= sent /\ rest[i] \in Message
    BY <1>1, <1>2, <1>4, <2>0, ElementOfSeq
  <2>2. CASE j = Len(rest) + 1
    BY <1>2, <1>4, <2>1, <2>2 DEF Message
  <2>3. CASE j \in 1 .. Len(rest)
    BY <1>1, <1>2, <1>4, <2>0, <2>1, <2>3
  <2> QED
    BY <1>2, <1>3, <1>4, <2>2, <2>3
<1>7. /\ Kept(m) \in Seq(Message)
      /\ Len(Kept(m)) = Len(rest) + 1 /\ Len(rest) \in Nat
      /\ Len(queue) \in Nat /\ Len(rest) < Depth /\ Len(rest) <= Len(queue)
  BY <1>1, <1>2, <1>4
<1> QED
  BY <1>5, <1>6, <1>7

\* A message is newer than all before it, read or lost.
LEMMA PublishNext == StreamInv /\ Publish => StreamInv'
<1> SUFFICES ASSUME StreamInv, Publish PROVE StreamInv'
  OBVIOUS
<1>0. TypeOK /\ InOrder /\ Indexed /\ Counted /\ ToolsTellTheStream
  BY DEF StreamInv
<1> USE Constants DEF TypeOK
<1>1. /\ sent < MaxMessages /\ sent' = sent + 1
      /\ queue' = queue \/ queue' = Kept(sent')
      /\ UNCHANGED <<p, node, tool, saverVars, viewerVars>>
  BY DEF Publish
<1>2. sent' \in Message /\ sent' > sent
  BY <1>0, <1>1 DEF Message
<1>3. /\ queue' \in Seq(Message) /\ Len(queue') <= Depth /\ Len(queue') <= Len(queue) + 1
      /\ \A i \in 1 .. Len(queue') : queue'[i] = sent' \/
           \E k \in 1 .. Len(queue) : queue'[i] = queue[k]
      /\ \A i, j \in 1 .. Len(queue') : i < j => queue'[i] <= queue'[j]
  <2>1. CASE queue' = queue
    BY <1>0, <2>1 DEF InOrder
  <2>2. CASE queue' = Kept(sent')
    BY <1>0, <1>2, <2>2, KeptNext
  <2> QED
    BY <1>1, <2>1, <2>2
<1>4. \A i \in DOMAIN pictures : pictures[i].shows \in 0 .. sent
  BY <1>0
<1>5. pictures' \in [1 .. MaxPictures -> [run : 0 .. MaxRuns, shows : 0 .. sent']]
  BY <1>0, <1>1 DEF saverVars
<1>6. TypeOK'
  BY <1>0, <1>1, <1>3, <1>5 DEF saverVars, viewerVars
<1>7. InOrder'
  <2>1. latest <= sent /\ latest \in Nat /\ sent \in Nat
    BY <1>0
  <2>2. ASSUME NEW j \in 1 .. Len(queue')
        PROVE  /\ latest <= queue'[j] /\ queue'[j] <= sent'
               /\ \A i \in DOMAIN pictures : pictures[i].shows <= queue'[j]
    <3>1. CASE queue'[j] = sent'
      BY <1>1, <1>4, <2>1, <3>1
    <3>2. ASSUME NEW k \in 1 .. Len(queue), queue'[j] = queue[k]
          PROVE  /\ latest <= queue'[j] /\ queue'[j] <= sent'
                 /\ \A i \in DOMAIN pictures : pictures[i].shows <= queue'[j]
      <4>1. queue[k] \in Nat /\ latest <= queue[k] /\ queue[k] <= sent
        BY <1>0, QueueNumbers DEF InOrder
      <4>2. \A i \in DOMAIN pictures : pictures[i].shows <= queue[k]
        BY <1>0 DEF InOrder
      <4> QED
        BY <1>1, <2>1, <3>2, <4>1, <4>2
    <3> QED
      BY <1>3, <3>1, <3>2
  <2>3. pictures' = pictures /\ latest' = latest
    BY <1>1 DEF saverVars
  <2>4. latest # 0 => \A i \in DOMAIN pictures : pictures[i].shows <= latest
    BY <1>0 DEF InOrder
  <2> QED
    BY <1>3, <2>2, <2>3, <2>4 DEF InOrder
<1>8. Indexed' /\ Counted' /\ ToolsTellTheStream'
  BY <1>0, <1>1, <1>3 DEF Indexed, Counted, ToolsTellTheStream, Earlier, saverVars, viewerVars
<1> QED
  BY <1>6, <1>7, <1>8 DEF StreamInv

\* A tool takes the oldest message its reader has.
LEMMA ReadNext == StreamInv /\ (Receive \/ Show) => StreamInv'
<1> SUFFICES ASSUME StreamInv, Receive \/ Show PROVE StreamInv'
  OBVIOUS
<1>0. TypeOK /\ InOrder /\ Indexed /\ Counted /\ ToolsTellTheStream
  BY DEF StreamInv
<1> USE Constants DEF TypeOK
<1>1. /\ Head(queue) \in Message /\ queue' \in Seq(Message)
      /\ 1 \in 1 .. Len(queue) /\ Head(queue) = queue[1]
      /\ Len(queue') = Len(queue) - 1 /\ Len(queue) \in Nat
      /\ \A i \in 1 .. Len(queue') :
           i + 1 \in 1 .. Len(queue) /\ queue'[i] = queue[i + 1]
  <2>1. queue # <<>> /\ queue' = Tail(queue)
    BY DEF Receive, Show
  <2>2. queue \in Seq(Message)
    BY <1>0
  <2> QED
    BY <2>1, <2>2, Taken
<1>2. \A i, j \in 1 .. Len(queue') : i < j => queue'[i] <= queue'[j]
  <2> SUFFICES ASSUME NEW i \in 1 .. Len(queue'), NEW j \in 1 .. Len(queue'), i < j
               PROVE  queue'[i] <= queue'[j]
    OBVIOUS
  <2>1. i + 1 \in 1 .. Len(queue) /\ j + 1 \in 1 .. Len(queue) /\ i + 1 < j + 1
    BY <1>1
  <2> QED
    BY <1>0, <1>1, <2>1 DEF InOrder
<1>3. \A i \in 1 .. Len(queue') : Head(queue) <= queue'[i]
  BY <1>0, <1>1 DEF InOrder
<1>4. CASE Receive
  <2>1. /\ latest' = Head(queue) /\ latest' \in 0 .. sent
        /\ UNCHANGED <<p, node, sent, tool, count, run, pictures, viewerVars>>
    <3>1. Head(queue) \in Nat /\ Head(queue) <= sent
      BY <1>0, <1>1, QueueNumbers DEF InOrder
    <3> QED
      BY <1>0, <1>4, <3>1 DEF Receive
  <2>2. TypeOK'
    BY <1>0, <1>1, <2>1 DEF viewerVars
  <2>3. InOrder'
    BY <1>0, <1>1, <1>2, <1>3, <2>1 DEF InOrder
  <2>4. Indexed' /\ Counted' /\ ToolsTellTheStream'
    BY <1>0, <1>1, <2>1 DEF Indexed, Counted, ToolsTellTheStream, Earlier, viewerVars
  <2> QED
    BY <2>2, <2>3, <2>4 DEF StreamInv
<1>5. CASE Show
  <2>1. /\ window_count' = window_count + 1 /\ received' = received + 1
        /\ UNCHANGED <<p, node, sent, tool, saverVars, reported>>
    BY <1>5 DEF Show
  <2>2. TypeOK'
    BY <1>0, <1>1, <2>1 DEF saverVars, Counted
  <2>3. InOrder'
    BY <1>0, <1>1, <1>2, <2>1 DEF InOrder, saverVars
  <2>4. Indexed' /\ Counted' /\ ToolsTellTheStream'
    BY <1>0, <1>1, <2>1 DEF Indexed, Counted, ToolsTellTheStream, Earlier, saverVars
  <2> QED
    BY <2>2, <2>3, <2>4 DEF StreamInv
<1> QED
  BY <1>4, <1>5

\* The saver writes the picture of the next index, over the one of an earlier run.
LEMMA SaveNext == StreamInv /\ save_latest => StreamInv'
<1> SUFFICES ASSUME StreamInv, save_latest PROVE StreamInv'
  OBVIOUS
<1>0. TypeOK /\ InOrder /\ Indexed /\ Counted /\ ToolsTellTheStream
  BY DEF StreamInv
<1> USE Constants DEF TypeOK
<1>1. /\ latest # 0 /\ count < MaxPictures /\ count' = count + 1
      /\ UNCHANGED <<p, node, sent, tool, queue, latest, run, viewerVars>>
  BY DEF save_latest
<1>2. DOMAIN pictures = 1 .. MaxPictures /\ count' \in 1 .. MaxPictures
  BY <1>0, <1>1
<1>3. /\ pictures' \in [1 .. MaxPictures -> [run : 0 .. MaxRuns, shows : 0 .. sent]]
      /\ \A i \in 1 .. MaxPictures :
           \/ pictures'[i] = pictures[i]
           \/ i = count' /\ pictures'[i].run = run /\ pictures'[i].shows = latest
  <2>1. CASE pictures' = pictures
    BY <1>0, <2>1
  <2>2. CASE pictures' = [pictures EXCEPT ![count'] = [run |-> run, shows |-> latest]]
    <3>1. [run |-> run, shows |-> latest] \in [run : 0 .. MaxRuns, shows : 0 .. sent]
      BY <1>0
    <3> QED
      BY <1>0, <1>2, <2>2, <3>1
  <2> QED
    BY <2>1, <2>2 DEF save_latest
<1>4. latest <= latest
  BY <1>0
<1>5. TypeOK'
  BY <1>0, <1>1, <1>3 DEF viewerVars
<1>6. InOrder'
  <2>1. ASSUME NEW i \in 1 .. MaxPictures PROVE pictures'[i].shows <= latest
    <3>1. pictures[i].shows <= latest
      BY <1>0, <1>1, <1>2 DEF InOrder
    <3> QED
      BY <1>3, <1>4, <3>1
  <2>2. ASSUME NEW i \in 1 .. MaxPictures, NEW j \in 1 .. Len(queue)
        PROVE  pictures'[i].shows <= queue[j]
    <3>1. pictures[i].shows <= queue[j] /\ latest <= queue[j]
      BY <1>0, <1>2 DEF InOrder
    <3> QED
      BY <1>3, <3>1
  <2>3. DOMAIN pictures' = 1 .. MaxPictures
    BY <1>3
  <2> QED
    BY <1>0, <1>1, <2>1, <2>2, <2>3 DEF InOrder
<1>7. Indexed' /\ Counted'
  BY <1>0, <1>1, <1>2, <1>3 DEF Indexed, Counted, viewerVars
<1>8. ToolsTellTheStream'
  <2>1. \A i \in DOMAIN pictures' : pictures'[i].run = run' => i <= count'
    BY <1>7 DEF Indexed
  <2>2. ASSUME NEW i \in DOMAIN pictures', NEW j \in DOMAIN pictures',
               NoPicture \notin {pictures'[i], pictures'[j]}, Earlier(i, j)'
        PROVE  pictures'[i].shows <= pictures'[j].shows
    <3>1. i \in 1 .. MaxPictures /\ j \in 1 .. MaxPictures
      BY <1>3
    <3>2. CASE pictures'[j] # pictures[j]
      <4>1. \A k \in 1 .. MaxPictures : pictures[k].shows <= latest
        BY <1>0, <1>1, <1>2 DEF InOrder
      <4>2. pictures'[i].shows <= latest
        BY <1>3, <1>4, <3>1, <4>1
      <4> QED
        BY <1>3, <3>1, <3>2, <4>2
    <3>3. CASE pictures'[j] = pictures[j] /\ pictures'[i] = pictures[i]
      BY <1>0, <1>2, <2>2, <3>1, <3>3 DEF ToolsTellTheStream, Earlier
    <3>4. CASE pictures'[j] = pictures[j] /\ pictures'[i] # pictures[i]
      <4>1. i = count' /\ pictures'[i].run = run
        BY <1>3, <3>1, <3>4
      <4>2. pictures[j].run <= run /\ (pictures[j].run = run => j <= count)
        BY <1>0, <1>2, <3>1 DEF Indexed
      <4>3. pictures[j].run \in 0 .. MaxRuns
        BY <1>0, <3>1
      <4> QED
        BY <1>0, <1>1, <2>2, <3>1, <3>4, <4>1, <4>2, <4>3 DEF Earlier
    <3> QED
      BY <3>2, <3>3, <3>4
  <2> QED
    BY <1>7, <2>1, <2>2 DEF ToolsTellTheStream, Counted
<1> QED
  BY <1>5, <1>6, <1>7, <1>8 DEF StreamInv

\* A new run of the saver has no message yet, and the viewer's report no new one.
LEMMA RestartNext == StreamInv /\ (Restart \/ report) => StreamInv'
<1> SUFFICES ASSUME StreamInv, Restart \/ report PROVE StreamInv'
  OBVIOUS
<1>0. TypeOK /\ InOrder /\ Indexed /\ Counted /\ ToolsTellTheStream
  BY DEF StreamInv
<1> USE Constants DEF TypeOK
<1>1. CASE Restart
  <2>1. /\ run < MaxRuns /\ run' = run + 1 /\ queue' = <<>> /\ latest' = 0 /\ count' = 0
        /\ UNCHANGED <<p, node, sent, tool, pictures, viewerVars>>
    BY <1>1 DEF Restart
  <2>2. TypeOK'
    BY <1>0, <2>1 DEF viewerVars
  <2>3. InOrder' /\ Counted'
    BY <1>0, <2>1 DEF InOrder, Counted, viewerVars
  <2>4. Indexed'
    BY <1>0, <2>1 DEF Indexed
  <2>5. ToolsTellTheStream'
    BY <1>0, <2>1, <2>3, <2>4 DEF ToolsTellTheStream, Earlier, Indexed, Counted
  <2> QED
    BY <2>2, <2>3, <2>4, <2>5 DEF StreamInv
<1>2. CASE report
  <2>1. /\ reported' = reported + window_count /\ window_count' = 0
        /\ UNCHANGED <<p, node, sent, tool, queue, saverVars, received>>
    BY <1>2 DEF report
  <2>2. TypeOK'
    BY <1>0, <2>1 DEF saverVars, Counted
  <2>3. InOrder' /\ Indexed' /\ Counted'
    BY <1>0, <2>1 DEF InOrder, Indexed, Counted, saverVars
  <2>4. ToolsTellTheStream'
    BY <1>0, <2>1, <2>3 DEF ToolsTellTheStream, Earlier, Counted, saverVars
  <2> QED
    BY <2>2, <2>3, <2>4 DEF StreamInv
<1> QED
  BY <1>1, <1>2

--------------------------------------------------------------------------------
\* StreamInv is an invariant.
THEOREM StreamInvariant == Spec => []StreamInv
<1>1. StreamInv /\ StartBackend => StreamInv'
  BY DEF StreamInv, StartBackend, TypeOK, InOrder, Indexed, Counted, ToolsTellTheStream,
         Earlier, saverVars, viewerVars
<1>2. StreamInv /\ UNCHANGED vars => StreamInv'
  BY DEF StreamInv, vars, TypeOK, InOrder, Indexed, Counted, ToolsTellTheStream,
         Earlier, saverVars, viewerVars
<1>3. StreamInv /\ [Next]_vars => StreamInv'
  BY <1>1, <1>2, PublishNext, ReadNext, SaveNext, RestartNext DEF Next, Over
<1> QED
  BY StreamInvInit, <1>3, PTL DEF Spec

\* A reader keeps no more than its depth, and no tool counts a message that was not sent.
THEOREM StreamTypeCorrect == Spec => []TypeOK
<1>1. StreamInv => TypeOK
  BY DEF StreamInv
<1> QED
  BY StreamInvariant, <1>1, PTL

\* The saver's pictures show the stream in order over all its runs, and the viewer's
\* reports miss no message.
THEOREM ToolsAreInOrder == Spec => []ToolsTellTheStream
<1>1. StreamInv => ToolsTellTheStream
  BY DEF StreamInv
<1> QED
  BY StreamInvariant, <1>1, PTL

--------------------------------------------------------------------------------
(* The sizes *)

\* The four settings of the camera; the fastest rate at full size is for JPEG alone.
Table == {Resolution(1280, 720, 640, 360, 60), Resolution(1280, 720, 1280, 720, 60),
          Resolution(1920, 1080, 1920, 1080, 60)}

\* What load_params makes of any setting, whatever the profile is called.
Derived == /\ p.backend \in {"gstreamer", "opencv"}
           /\ p.compressed \in BOOLEAN
           /\ p.res \in Table
                \union {Resolution(1920, 1200, 1920, 1200, IF p.compressed THEN 60 ELSE 55)}
           /\ p.pub_width = IF p.flip_method \in {1, 3} THEN p.res.output_height
                                                        ELSE p.res.output_width
           /\ p.pub_height = IF p.flip_method \in {1, 3} THEN p.res.output_width
                                                         ELSE p.res.output_height
           /\ p.expected_size = p.pub_width * p.pub_height * 3

\* A backend that publishes turns the picture, or was not asked to.
Accepted == node = "publishing" => p.backend = "gstreamer" \/ p.flip_method = 0

\* Whatever the name of the profile, it is one of the tables' rows (config.hpp:60-90).
LEMMA ProfileRow ==
  ASSUME NEW profile, NEW compressed \in BOOLEAN
  PROVE  (IF compressed THEN resolve_profile_mjpg(profile) ELSE resolve_profile_uyvy(profile))
           \in Table \union {Resolution(1920, 1200, 1920, 1200, IF compressed THEN 60 ELSE 55)}
<1>1. resolve_profile_uyvy(profile) \in
        Table \union {Resolution(1920, 1200, 1920, 1200, 55)}
  <2>1. CASE profile \in Profiles
    BY <2>1 DEF resolve_profile_uyvy, uyvy, Profiles, Table
  <2>2. CASE profile \notin Profiles
    BY <2>2 DEF resolve_profile_uyvy, uyvy, Table
  <2> QED BY <2>1, <2>2
<1>2. profile # "wuxga" => resolve_profile_uyvy(profile) \in Table
  <2>1. CASE profile \in Profiles
    BY <2>1 DEF resolve_profile_uyvy, uyvy, Profiles, Table
  <2>2. CASE profile \notin Profiles
    BY <2>2 DEF resolve_profile_uyvy, uyvy, Table
  <2> QED BY <2>1, <2>2
<1>3. CASE compressed
  BY <1>2, <1>3 DEF resolve_profile_mjpg
<1>4. CASE ~compressed
  BY <1>1, <1>4
<1> QED
  BY <1>3, <1>4

\* The parts of the record of parameters (config.hpp:92-126).
LEMMA DerivedFromLoad ==
  ASSUME NEW backend \in {"gstreamer", "opencv"}, NEW profile,
         NEW compressed \in BOOLEAN, NEW flip_method,
         p = load_params(backend, profile, compressed, flip_method)
  PROVE  Derived
<1> DEFINE res == IF compressed THEN resolve_profile_mjpg(profile)
                                ELSE resolve_profile_uyvy(profile)
           width == IF flip_method \in {1, 3} THEN res.output_height ELSE res.output_width
           height == IF flip_method \in {1, 3} THEN res.output_width ELSE res.output_height
<1>1. res \in Table \union {Resolution(1920, 1200, 1920, 1200, IF compressed THEN 60 ELSE 55)}
  BY ProfileRow
<1>2. p = [backend |-> backend, compressed |-> compressed, flip_method |-> flip_method,
           res |-> res, pub_width |-> width, pub_height |-> height,
           expected_size |-> width * height * 3]
  BY DEF load_params, is_quarter_turn
<1> HIDE DEF res
<1> QED
  BY <1>1, <1>2 DEF Derived

\* What the GStreamer chains ask for is on the menu (gst_backend.cpp:95-167).
LEMMA CapsOnMenu == Derived => CaptureCaps \in CameraMenu
<1>1. Derived /\ p.compressed => CaptureCaps \in CameraMenu
  BY DEF Derived, Table, Resolution, CaptureCaps, CameraMenu
<1>2. Derived /\ ~p.compressed => CaptureCaps \in CameraMenu
  BY DEF Derived, Table, Resolution, CaptureCaps, CameraMenu
<1> QED
  BY <1>1, <1>2

\* A raw frame has the rows and the bytes of its message, and the shape of the scene.
RawFits == /\ RawMessage.width = RawFrame.width
           /\ RawMessage.height = RawFrame.height
           /\ RawMessage.step = RawFrame.step
           /\ RawMessage.size = RawFrame.step * RawFrame.height
           /\ RawFrame.width * Turned.height = RawFrame.height * Turned.width

\* Turned and upright by GStreamer, and upright by the opencv backend.
LEMMA RawFrameFits ==
  ASSUME Derived, p.backend = "gstreamer" \/ p.flip_method = 0, ~p.compressed
  PROVE  RawFits
<1> USE DEF Derived, Table, Resolution, RawFits, RawMessage, RawFrame, Turned, RoundUp4
<1>1. CASE p.backend = "gstreamer" /\ p.flip_method \in {1, 3}
  BY <1>1
<1>2. CASE p.backend = "gstreamer" /\ p.flip_method \notin {1, 3}
  BY <1>2
<1>3. CASE p.backend # "gstreamer"
  BY <1>3
<1> QED
  BY <1>1, <1>2, <1>3

\* Every setting that starts fits from the camera to the message.
THEOREM SettingsFit == Spec => []EverySettingFits
<1>1. Init => Derived /\ Accepted
  BY DerivedFromLoad DEF Init, Accepted
<1>2. Derived /\ Accepted /\ [Next]_vars => Derived' /\ Accepted'
  <2> SUFFICES ASSUME Derived, Accepted, [Next]_vars PROVE Derived' /\ Accepted'
    OBVIOUS
  <2>1. p' = p /\ (node' = node \/ StartBackend)
    BY DEF Next, StartBackend, Publish, Receive, save_latest, Restart, Show, report, Over, vars
  <2>2. Derived'
    BY <2>1 DEF Derived
  <2>3. Accepted'
    BY <2>1 DEF Derived, Accepted, StartBackend
  <2> QED
    BY <2>2, <2>3
<1>3. Derived /\ Accepted => EverySettingFits
  BY CapsOnMenu, RawFrameFits DEF Accepted, RawFits, EverySettingFits
<1> QED
  BY <1>1, <1>2, <1>3, PTL DEF Spec

================================================================================
