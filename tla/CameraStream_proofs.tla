------------------------ MODULE CameraStream_proofs -------------------------
(***************************************************************************)
(* Theorems about the frames of the camera, for any number of viewers,     *)
(* looks, captures, stalls and restarts of the process.                    *)
(***************************************************************************)
EXTENDS CameraStream, TLAPS, FiniteSetTheorems

Producing == {v \in Viewers : vpc[v] # "off"}

(* The camera lock is held by the thread that is taking a frame, and by    *)
(* nobody when none is: no two threads are at the camera.                  *)
OneAtCamera ==
  /\ ppc = "shoot" <=> lock = "preview"
  /\ qpc = "shoot" <=> lock = "poll"
  /\ cpc = "shoot" <=> lock = "capture"

StreamFacts == TypeOK /\ ViewersCounted /\ OneAtCamera
-----------------------------------------------------------------------------
(* A set of viewers has a size, at most that of all. *)
LEMMA CountBound ==
  ASSUME NEW S, S \subseteq Viewers
  PROVE  IsFiniteSet(S) /\ Cardinality(S) \in 0..Cardinality(Viewers)
<1>1. IsFiniteSet(S) /\ Cardinality(S) <= Cardinality(Viewers)
  BY CameraStreamAssumption, FS_Subset
<1>2. Cardinality(S) \in Nat /\ Cardinality(Viewers) \in Nat
  BY <1>1, CameraStreamAssumption, FS_CardinalityType
<1> QED BY <1>1, <1>2

(* An engine that starts has no viewers and a free lock. *)
LEMMA StreamFactsInit == Init => StreamFacts
<1> SUFFICES ASSUME Init PROVE StreamFacts
  OBVIOUS
<1>1. Producing = {}
  BY DEF Init, Producing
<1>2. ViewersCounted
  BY <1>1, FS_EmptySet DEF Init, ViewersCounted, Producing
<1>3. up \in BOOLEAN /\ stalled \in BOOLEAN /\ recent \in BOOLEAN /\ pending \in BOOLEAN
  BY Zenon DEF Init
<1>4. /\ open \in [Viewers -> BOOLEAN] /\ fresh \in [Viewers -> BOOLEAN]
      /\ vpc \in [Viewers -> {"off", "wait", "put"}] /\ chunks \in [Viewers -> 0..ChunkCap]
  BY CameraStreamAssumption DEF Init
<1>5. count \in 0..Cardinality(Viewers)
  <2>1. Producing \subseteq Viewers
    BY DEF Producing
  <2> QED BY <1>2, <2>1, CountBound DEF ViewersCounted, Producing
<1>6. TypeOK
  BY <1>3, <1>4, <1>5, CameraStreamAssumption DEF Init, TypeOK
<1>7. OneAtCamera
  BY CameraStreamAssumption DEF Init, OneAtCamera, Holders
<1> QED BY <1>2, <1>6, <1>7 DEF StreamFacts

(* The count follows the producers. *)
LEMMA ViewersKept == TypeOK /\ ViewersCounted /\ [Next]_vars => ViewersCounted'
<1> SUFFICES ASSUME TypeOK, ViewersCounted, [Next]_vars PROVE ViewersCounted'
  OBVIOUS
<1>f. IsFiniteSet(Producing) /\ count = Cardinality(Producing) /\ count \in Nat
  BY CountBound DEF ViewersCounted, Producing, TypeOK
<1>1. CASE UNCHANGED <<count, vpc>>
  BY <1>1 DEF ViewersCounted
<1>2. CASE ProcessExits
  <2>1. Producing' = {} /\ count' = 0
    BY <1>2 DEF ProcessExits, Producing
  <2> QED BY <2>1, FS_EmptySet DEF ViewersCounted, Producing
<1>3. ASSUME NEW v \in Viewers, StreamOpens(v)
      PROVE  ViewersCounted'
  <2>1. Producing' = Producing \cup {v} /\ v \notin Producing
    BY <1>3 DEF StreamOpens, Producing, TypeOK
  <2> QED BY <1>3, <1>f, <2>1, FS_AddElement DEF StreamOpens, ViewersCounted, Producing
<1>4. ASSUME NEW v \in Viewers, vpc[v] # "off", ProducerEnds(v)
      PROVE  ViewersCounted'
  <2>1. Producing' = Producing \ {v} /\ v \in Producing
    BY <1>4 DEF ProducerEnds, Producing, TypeOK
  <2>2. Cardinality(Producing') = Cardinality(Producing) - 1
    BY <1>f, <2>1, FS_RemoveElement
  <2>3. Cardinality(Producing') \in Nat
    BY <1>f, <2>1, FS_Subset, FS_CardinalityType
  <2> QED BY <1>4, <1>f, <2>2, <2>3 DEF ProducerEnds, ViewersCounted, Producing
<1>5. ASSUME NEW v \in Viewers, ProducerTakes(v) \/ ProducerPuts(v)
      PROVE  ViewersCounted'
  <2>1. Producing' = Producing /\ count' = count
    BY <1>5 DEF ProducerTakes, ProducerPuts, Producing, TypeOK
  <2> QED BY <1>f, <2>1 DEF ViewersCounted, Producing
<1>6. ASSUME NEW v \in Viewers, ProducerStep(v)
      PROVE  ViewersCounted'
  <2>1. ASSUME PutTimesOut(v) \/ ProducerStops(v)
        PROVE  vpc[v] # "off" /\ ProducerEnds(v)
    BY <2>1 DEF PutTimesOut, ProducerStops
  <2> QED BY <1>4, <1>5, <1>6, <2>1 DEF ProducerStep
<1>7. ASSUME NEW v \in Viewers, ClientReads(v) \/ ClientLeaves(v)
      PROVE  UNCHANGED <<count, vpc>>
  BY <1>7 DEF ClientReads, ClientLeaves
<1>8. CASE PreviewStep \/ PreviewLocks
  BY <1>1, <1>2, <1>8
  DEF PreviewStep, PreviewLocks, PreviewWakes, PreviewShoots, PreviewFails, PreviewStores, stream
<1>9. CASE PollStep \/ PollLocks
  BY <1>1, <1>9
  DEF PollStep, PollLocks, PollServes, PollStarts, PollShoots, PollFails, PollStores, stream
<1>10. CASE CaptureStarts \/ CaptureLocks \/ CaptureShoots \/ CaptureFails
  BY <1>1, <1>2, <1>10
  DEF CaptureStarts, CaptureLocks, CaptureShoots, CaptureFails, stream
<1>11. CASE RestartEngine \/ Stall \/ Recover \/ FrameAges \/ ChangeLook \/ DropFrame
  BY <1>1, <1>11 DEF RestartEngine, Stall, Recover, FrameAges, ChangeLook, DropFrame, stream
<1>12. CASE UNCHANGED vars
  BY <1>1, <1>12 DEF vars, stream
<1> QED BY <1>1, <1>3, <1>6, <1>7, <1>8, <1>9, <1>10, <1>11, <1>12 DEF Next

(* The lock changes hands only between two frames. *)
LEMMA OneAtCameraKept == TypeOK /\ OneAtCamera /\ [Next]_vars => OneAtCamera'
<1> SUFFICES ASSUME TypeOK, OneAtCamera, [Next]_vars PROVE OneAtCamera'
  OBVIOUS
<1> USE CameraStreamAssumption
    DEF OneAtCamera, Holders, thread, poll, capture, stream, bounds
<1>1. CASE UNCHANGED vars
  BY <1>1 DEF vars, thread, poll, capture, stream, bounds
<1>2. CASE RestartEngine
  BY <1>2 DEF RestartEngine
<1>3. CASE Stall
  BY <1>3 DEF Stall
<1>4. CASE Recover
  BY <1>4 DEF Recover
<1>5. CASE FrameAges
  BY <1>5 DEF FrameAges
<1>6. CASE PreviewWakes
  BY <1>6 DEF PreviewWakes, MayShoot
<1>7. CASE PreviewLocks
  BY <1>7 DEF PreviewLocks, MayShoot
<1>8. CASE PreviewShoots
  BY <1>8 DEF PreviewShoots
<1>9. CASE PreviewStores
  BY <1>9 DEF PreviewStores
<1>10. CASE PreviewFails
  BY <1>10 DEF PreviewFails, ProcessExits
<1>11. CASE PollServes
  BY <1>11 DEF PollServes, Servable
<1>12. CASE PollStarts
  BY <1>12 DEF PollStarts, Servable
<1>13. CASE PollLocks
  BY <1>13 DEF PollLocks
<1>14. CASE PollShoots
  BY <1>14 DEF PollShoots
<1>15. CASE PollStores
  BY <1>15 DEF PollStores
<1>16. CASE PollFails
  BY <1>16 DEF PollFails
<1>17. CASE ChangeLook
  BY <1>17 DEF ChangeLook
<1>18. CASE DropFrame
  BY <1>18 DEF DropFrame
<1>19. CASE CaptureStarts
  BY <1>19 DEF CaptureStarts
<1>20. CASE CaptureLocks
  BY <1>20 DEF CaptureLocks
<1>21. CASE CaptureShoots
  BY <1>21 DEF CaptureShoots
<1>22. CASE CaptureFails
  BY <1>22 DEF CaptureFails, ProcessExits
<1>23. ASSUME NEW v \in Viewers, StreamOpens(v)
      PROVE  OneAtCamera'
  BY <1>23 DEF StreamOpens
<1>24. ASSUME NEW v \in Viewers, ClientReads(v)
      PROVE  OneAtCamera'
  BY <1>24 DEF ClientReads
<1>25. ASSUME NEW v \in Viewers, ClientLeaves(v)
      PROVE  OneAtCamera'
  BY <1>25 DEF ClientLeaves
<1>26. ASSUME NEW v \in Viewers, ProducerTakes(v)
      PROVE  OneAtCamera'
  BY <1>26 DEF ProducerTakes
<1>27. ASSUME NEW v \in Viewers, ProducerPuts(v)
      PROVE  OneAtCamera'
  BY <1>27 DEF ProducerPuts
<1>28. ASSUME NEW v \in Viewers, PutTimesOut(v)
      PROVE  OneAtCamera'
  BY <1>28 DEF PutTimesOut, ProducerEnds
<1>29. ASSUME NEW v \in Viewers, ProducerStops(v)
      PROVE  OneAtCamera'
  BY <1>29 DEF ProducerStops, ProducerEnds
<1> QED BY <1>1, <1>2, <1>3, <1>4, <1>5, <1>6, <1>7, <1>8, <1>9, <1>10, <1>11, <1>12,
           <1>13, <1>14, <1>15, <1>16, <1>17, <1>18, <1>19, <1>20, <1>21, <1>22, <1>23,
           <1>24, <1>25, <1>26, <1>27, <1>28, <1>29
        DEF Next, PreviewStep, PollStep, ProducerStep

(* Every step keeps the domains; the count does with the viewers. *)
LEMMA StreamTypes == TypeOK /\ ViewersCounted /\ [Next]_vars => TypeOK'
<1> SUFFICES ASSUME TypeOK, ViewersCounted, [Next]_vars PROVE TypeOK'
  OBVIOUS
<1>c. count' \in 0..Cardinality(Viewers)
  <2>1. ViewersCounted'
    BY ViewersKept
  <2>2. Producing' \subseteq Viewers
    BY DEF Producing
  <2> QED BY <2>1, <2>2, CountBound DEF ViewersCounted, Producing
<1> USE CameraStreamAssumption DEF TypeOK, Holders, thread, poll, capture, stream, bounds
<1>x. ASSUME ProcessExits PROVE TypeOK'
  <2>1. up' \in BOOLEAN /\ recent' \in BOOLEAN /\ pending' \in BOOLEAN
    BY <1>x, Zenon DEF ProcessExits
  <2>2. /\ open' \in [Viewers -> BOOLEAN] /\ fresh' \in [Viewers -> BOOLEAN]
        /\ vpc' \in [Viewers -> {"off", "wait", "put"}] /\ chunks' \in [Viewers -> 0..ChunkCap]
    BY <1>x DEF ProcessExits
  <2> QED BY <1>x, <1>c, <2>1, <2>2 DEF ProcessExits
<1>1. CASE UNCHANGED vars
  BY <1>1, <1>c DEF vars, thread, poll, capture, stream, bounds
<1>2. CASE RestartEngine
  <2>1. up' \in BOOLEAN /\ stalled' \in BOOLEAN
    BY <1>2, Zenon DEF RestartEngine
  <2> QED BY <1>2, <1>c, <2>1 DEF RestartEngine
<1>3. CASE Stall
  BY <1>3, <1>c DEF Stall
<1>4. CASE Recover
  <2>1. stalled' \in BOOLEAN
    BY <1>4, Zenon DEF Recover
  <2> QED BY <1>4, <1>c, <2>1 DEF Recover
<1>5. CASE FrameAges
  <2>1. recent' \in BOOLEAN
    BY <1>5, Zenon DEF FrameAges
  <2> QED BY <1>5, <1>c, <2>1 DEF FrameAges
<1>6. CASE PreviewWakes
  BY <1>6, <1>c DEF PreviewWakes, MayShoot
<1>7. CASE PreviewLocks
  BY <1>7, <1>c DEF PreviewLocks, MayShoot
<1>8. CASE PreviewShoots
  BY <1>8, <1>c DEF PreviewShoots
<1>9. CASE PreviewStores
  BY <1>9, <1>c DEF PreviewStores
<1>10. CASE PreviewFails
  <2>1. CASE failures + 1 >= MaxFailures
    <3>1. ~(failures + 1 < MaxFailures)
      BY <2>1
    <3>2. ProcessExits
      BY <1>10, <3>1, Zenon DEF PreviewFails
    <3> QED BY <1>x, <3>2
  <2>2. CASE failures + 1 < MaxFailures
    <3>1. ~(failures + 1 >= MaxFailures)
      BY <2>2
    <3>2. /\ failures' = failures + 1 /\ lock' = None /\ ppc' = "wait"
          /\ UNCHANGED <<up, stalled, look, latest, recent, pframe, poll, upc, capture,
                         stream, bounds>>
      BY <1>10, <3>1, Zenon DEF PreviewFails
    <3> QED BY <2>2, <3>2
  <2> QED BY <2>1, <2>2
<1>11. CASE PollServes
  BY <1>11, <1>c DEF PollServes, Servable
<1>12. CASE PollStarts
  BY <1>12, <1>c DEF PollStarts, Servable
<1>13. CASE PollLocks
  BY <1>13, <1>c DEF PollLocks
<1>14. CASE PollShoots
  BY <1>14, <1>c DEF PollShoots
<1>15. CASE PollStores
  BY <1>15, <1>c DEF PollStores
<1>16. CASE PollFails
  BY <1>16, <1>c DEF PollFails
<1>17. CASE ChangeLook
  BY <1>17, <1>c DEF ChangeLook
<1>18. CASE DropFrame
  BY <1>18, <1>c DEF DropFrame
<1>19. CASE CaptureStarts
  BY <1>19, <1>c DEF CaptureStarts
<1>20. CASE CaptureLocks
  BY <1>20, <1>c DEF CaptureLocks
<1>21. CASE CaptureShoots
  BY <1>21, <1>c DEF CaptureShoots
<1>22. CASE CaptureFails
  BY <1>x, <1>22 DEF CaptureFails
<1>23. ASSUME NEW v \in Viewers, StreamOpens(v)
      PROVE  TypeOK'
  BY <1>23, <1>c DEF StreamOpens
<1>24. ASSUME NEW v \in Viewers, ClientReads(v)
      PROVE  TypeOK'
  BY <1>24, <1>c DEF ClientReads
<1>25. ASSUME NEW v \in Viewers, ClientLeaves(v)
      PROVE  TypeOK'
  BY <1>25, <1>c DEF ClientLeaves
<1>26. ASSUME NEW v \in Viewers, ProducerTakes(v)
      PROVE  TypeOK'
  BY <1>26, <1>c DEF ProducerTakes
<1>27. ASSUME NEW v \in Viewers, ProducerPuts(v)
      PROVE  TypeOK'
  BY <1>27, <1>c DEF ProducerPuts
<1>28. ASSUME NEW v \in Viewers, PutTimesOut(v)
      PROVE  TypeOK'
  BY <1>28, <1>c DEF PutTimesOut, ProducerEnds
<1>29. ASSUME NEW v \in Viewers, ProducerStops(v)
      PROVE  TypeOK'
  BY <1>29, <1>c DEF ProducerStops, ProducerEnds
<1> QED BY <1>1, <1>2, <1>3, <1>4, <1>5, <1>6, <1>7, <1>8, <1>9, <1>10, <1>11, <1>12,
           <1>13, <1>14, <1>15, <1>16, <1>17, <1>18, <1>19, <1>20, <1>21, <1>22, <1>23,
           <1>24, <1>25, <1>26, <1>27, <1>28, <1>29
        DEF Next, PreviewStep, PollStep, ProducerStep

(* StreamFacts is an invariant. *)
LEMMA StreamFactsHold == Spec => []StreamFacts
<1>1. StreamFacts /\ [Next]_vars => StreamFacts'
  BY ViewersKept, OneAtCameraKept, StreamTypes DEF StreamFacts
<1> QED BY <1>1, StreamFactsInit, PTL DEF Spec
-----------------------------------------------------------------------------
(* Type correctness: among others, the failures counted in a row stay      *)
(* below the number at which the process restarts, and no queue of chunks  *)
(* outgrows its bound.                                                     *)
THEOREM StreamTypesOK == Spec => []TypeOK
<1>1. StreamFacts => TypeOK
  BY DEF StreamFacts
<1> QED BY <1>1, StreamFactsHold, PTL

(* The viewers counted are those whose producers run. *)
THEOREM StreamsCounted == Spec => []ViewersCounted
<1>1. StreamFacts => ViewersCounted
  BY DEF StreamFacts
<1> QED BY <1>1, StreamFactsHold, PTL

(* No two of preview thread, poll and capture are at the camera together,  *)
(* and none leaves with the lock, whatever failed or stalled.              *)
THEOREM CameraIsOne == Spec => []OneAtCamera
<1>1. StreamFacts => OneAtCamera
  BY DEF StreamFacts
<1> QED BY <1>1, StreamFactsHold, PTL
=============================================================================
