---------------------------- MODULE LifecycleProofs ----------------------------
(***************************************************************************)
(* Proofs about NodeLifecycle.  The process has no parameter, so TLC's run *)
(* is complete; the proof says why it holds: how far main() has come       *)
(* bounds what the two threads can be doing (Threads) and what is open     *)
(* (Resources).                                                            *)
(***************************************************************************)
EXTENDS NodeLifecycle, TLAPS

\* Main's steps from each of the joins to the end.
Joined == {"d_backend", "d_stamper", "d_hid", "d_flag", "d_writer", "d_box", "exit"}
Flagged == {"d_flag", "d_writer", "d_box", "exit"}

\* The grab thread is spawned last and joined first, the writer the other way round.
Threads == /\ main \in Ctor \union Joined \union {"aborted"} => grab \in {"none", "done"}
           /\ main \in {"params", "box", "aborted"} => writer = "none"
           /\ main \in {"d_box", "exit"} => writer = "done"

\* What is open while main is where it is.
Resources == /\ main \notin {"params", "box"} \union Over => box = "open"
             /\ main = "exit" => box = "closed"
             /\ main = "spawn" => backend = "streaming"
             /\ grab \notin {"none", "done"} => backend = "streaming"
             /\ main \in Joined \ {"d_backend"} => backend \in {"none", "unknown", "stopped"}
             /\ main \in {"d_hid"} \union Flagged => ~stamper
             /\ main \in Flagged => ~hid

LifecycleInv == TypeOK /\ Threads /\ Resources

--------------------------------------------------------------------------------
\* Before the constructor there is nothing.
LEMMA LifecycleInvInit == Init => LifecycleInv
<1> SUFFICES ASSUME Init PROVE LifecycleInv
  OBVIOUS
<1>1. ok \in BOOLEAN /\ stop \in BOOLEAN /\ running \in BOOLEAN /\ stamper \in BOOLEAN /\ hid \in BOOLEAN
  BY Zenon DEF Init
<1> QED
  BY <1>1 DEF Init, LifecycleInv, TypeOK, Threads, Resources, Ctor, Dtor, Over, Joined, Flagged

\* The flags stay truth values.
LEMMA FlagsNext ==
  ASSUME TypeOK, [Next]_vars
  PROVE  ok' \in BOOLEAN /\ stop' \in BOOLEAN /\ running' \in BOOLEAN
           /\ stamper' \in BOOLEAN /\ hid' \in BOOLEAN
<1>0. ok \in BOOLEAN /\ stop \in BOOLEAN /\ running \in BOOLEAN /\ stamper \in BOOLEAN /\ hid \in BOOLEAN
  BY DEF TypeOK
<1>1. CASE LoadParams \/ InitBox \/ SetupPublisher \/ InitHid \/ InitBackend \/ Spawn
  BY <1>0, <1>1, Zenon DEF LoadParams, InitBox, SetupPublisher, InitHid, InitBackend, Spawn, Throw
<1>2. CASE SpinBegins \/ SpinReturns \/ StoreStop \/ JoinGrab \/ StopBackend \/ CloseStamper
  BY <1>0, <1>2, Zenon DEF SpinBegins, Throw, SpinReturns, StoreStop, JoinGrab, StopBackend, CloseStamper
<1>3. CASE CloseHid \/ BoxStops \/ JoinWriter \/ FreeBox \/ Signal
  BY <1>0, <1>3, Zenon DEF CloseHid, BoxStops, JoinWriter, FreeBox, Signal
<1>4. CASE GrabThread
  BY <1>0, <1>4, Zenon DEF GrabThread, GrabHead, GrabFrame, GrabStamp, GrabLogCbk, GrabLogPub,
     GrabRelease, GrabGoes
<1>5. CASE WriterThread
  BY <1>0, <1>5, Zenon DEF WriterThread, WriterHead, WriterWakes, WriterSyncs, WriterGoes
<1>6. CASE UNCHANGED vars
  BY <1>0, <1>6, Zenon DEF vars
<1> QED
  BY <1>1, <1>2, <1>3, <1>4, <1>5, <1>6, Zenon DEF Next, Main, Terminated

\* One step of main, of a signal or of a thread (econ_ros2_driver.cpp).
LEMMA LifecycleInvNext == LifecycleInv /\ [Next]_vars => LifecycleInv'
<1> SUFFICES ASSUME LifecycleInv, [Next]_vars PROVE LifecycleInv'
  OBVIOUS
<1>0. ok' \in BOOLEAN /\ stop' \in BOOLEAN /\ running' \in BOOLEAN
        /\ stamper' \in BOOLEAN /\ hid' \in BOOLEAN
  BY FlagsNext DEF LifecycleInv
<1> USE <1>0 DEF LifecycleInv, TypeOK, Threads, Resources, Ctor, Dtor, Over, Joined, Flagged
<1>1. CASE LoadParams
  BY <1>1 DEF LoadParams, Throw
<1>2. CASE InitBox
  BY <1>2 DEF InitBox, Throw
<1>3. CASE SetupPublisher
  BY <1>3 DEF SetupPublisher, Throw
<1>4. CASE InitHid
  BY <1>4 DEF InitHid
<1>5. CASE InitBackend
  BY <1>5 DEF InitBackend
<1>6. CASE Spawn
  BY <1>6 DEF Spawn
<1>7. CASE SpinReturns
  BY <1>7 DEF SpinReturns
<1>8. CASE StoreStop
  BY <1>8 DEF StoreStop
<1>9. CASE JoinGrab
  BY <1>9 DEF JoinGrab
<1>10. CASE StopBackend
  BY <1>10 DEF StopBackend
<1>11. CASE CloseStamper
  BY <1>11 DEF CloseStamper
<1>12. CASE CloseHid
  BY <1>12 DEF CloseHid
<1>13. CASE BoxStops
  BY <1>13 DEF BoxStops
<1>14. CASE JoinWriter
  BY <1>14 DEF JoinWriter
<1>15. CASE FreeBox
  BY <1>15 DEF FreeBox
<1>16. CASE Signal
  BY <1>16 DEF Signal
<1>17. CASE GrabThread
  <2> USE DEF GrabGoes
  <2>1. CASE GrabHead
    BY <2>1 DEF GrabHead
  <2>2. CASE GrabFrame
    BY <2>2 DEF GrabFrame
  <2>3. CASE GrabStamp
    BY <2>3 DEF GrabStamp
  <2>4. CASE GrabLogCbk
    BY <2>4 DEF GrabLogCbk
  <2>5. CASE GrabLogPub
    BY <2>5 DEF GrabLogPub
  <2>6. CASE GrabRelease
    BY <2>6 DEF GrabRelease
  <2> QED
    BY <1>17, <2>1, <2>2, <2>3, <2>4, <2>5, <2>6, Zenon DEF GrabThread
<1>18. CASE WriterThread
  BY <1>18 DEF WriterThread, WriterHead, WriterWakes, WriterSyncs, WriterGoes
<1>19. CASE SpinBegins
  BY <1>19 DEF SpinBegins, Throw
<1>20. CASE UNCHANGED vars
  BY <1>20 DEF vars
<1> QED
  BY <1>1, <1>2, <1>3, <1>4, <1>5, <1>6, <1>7, <1>8, <1>9, <1>10, <1>11, <1>12, <1>13,
     <1>14, <1>15, <1>16, <1>17, <1>18, <1>19, <1>20 DEF Next, Main, Terminated

\* LifecycleInv is an invariant.
THEOREM LifecycleInvariant == Spec => []LifecycleInv
BY LifecycleInvInit, LifecycleInvNext, PTL DEF Spec

\* A null backend_ is never called, wherever the constructor returned.
THEOREM LifecycleTypeCorrect == Spec => []TypeOK
<1>1. LifecycleInv => TypeOK
  BY DEF LifecycleInv
<1> QED
  BY LifecycleInvariant, <1>1, PTL

\* Neither thread touches what main() has taken down.
THEOREM NothingUsedAfterClose == Spec => []NoUseAfterClose
<1>1. LifecycleInv => NoUseAfterClose
  BY DEF LifecycleInv, TypeOK, Threads, Resources, Ctor, Dtor, Over, Joined, Flagged, NoUseAfterClose
<1> QED
  BY LifecycleInvariant, <1>1, PTL

\* A process that exits leaves no thread running and nothing open.
THEOREM ExitIsClean == Spec => []CleanExit
<1>1. LifecycleInv => CleanExit
  BY DEF LifecycleInv, TypeOK, Threads, Resources, Ctor, Dtor, Over, Joined, Flagged, CleanExit
<1> QED
  BY LifecycleInvariant, <1>1, PTL

================================================================================
