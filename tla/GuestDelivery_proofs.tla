------------------------ MODULE GuestDelivery_proofs ------------------------
(***************************************************************************)
(* Proofs about GuestDelivery, for every set of sessions, events and admin *)
(* requests and every bound.  The queue's theorems are used through QP.    *)
(***************************************************************************)
EXTENDS GuestDelivery, TLAPS

QP == INSTANCE UploadQueue_proofs

(* The upload thread holds a session exactly while it is not idle, and has *)
(* an attempt left while it works on it or records an exception.           *)
WorkerHolds == /\ worker \in Sessions <=> wpc # "idle"
               /\ wpc \notin {"idle", "raise", "done"} => attempt < MaxRetries

(* A finalize request past its first step works on a session. *)
FinalizeHolds == fpc # "idle" => fjob \in Sessions

Shape == TypeOK /\ WorkerHolds /\ FinalizeHolds

(* The upload thread has seen event e alive and may still store a strip. *)
Admitted(e) == wpc \in {"tombstone", "inspect", "upload"} /\ EventOf[worker] = e

(* A request that deletes an event carries the event's own target, and no *)
(* other request does.                                                    *)
CommitTargets ==
  \A o \in Ops : opc[o] = "commit" =>
    /\ okind[o] = "delete" => EventTarget(oevent[o]) \in otargets[o]
    /\ \A e \in Events : EventTarget(e) \in otargets[o] => okind[o] = "delete" /\ e = oevent[o]

(* An event's tombstone, wherever a copy of it has got to, means that the *)
(* event's row is gone.                                                   *)
TombstonedEventsGone ==
  /\ \A e \in Events : EventTarget(e) \in tombs => e \notin events
  /\ \A w \in Sweepers, e \in Events :
       EventTarget(e) \in stodo[w] \/ starget[w] = EventTarget(e) => e \notin events

(* A deletion thread past the conflict check has the event to itself, and *)
(* once its delete call returned the event's prefix stays empty.          *)
SweepAlone ==
  \A w \in Sweepers, e \in Events :
    /\ spc[w] \in {"delete", "complete"} /\ starget[w] = EventTarget(e) => ~Admitted(e)
    /\ spc[w] = "complete" /\ starget[w] = EventTarget(e) =>
         \A s \in Sessions : EventOf[s] = e => cloud[s] = "none"

(* EventDeletionIsFinal, and that no upload is under way that could break it. *)
DeletedStaysEmpty ==
  \A e \in Events : e \notin events /\ EventTarget(e) \notin tombs =>
    /\ ~Admitted(e)
    /\ \A s \in Sessions : EventOf[s] = e => cloud[s] = "none"

DeletionFacts == CommitTargets /\ TombstonedEventsGone /\ SweepAlone /\ DeletedStaysEmpty

DeletionInv == Shape /\ QP!IInv /\ DeletionFacts
-----------------------------------------------------------------------------
(* Every step does to the queue what UploadQueue allows, or leaves it alone. *)
LEMMA StepIsQueueStep == Shape /\ [Next]_vars => [Q!Next]_Q!vars
<1> SUFFICES ASSUME Shape, [Next]_vars PROVE [Q!Next]_Q!vars
  OBVIOUS
<1> USE DEF qvars, Q!vars, Q!Next
<1>1. CASE UNCHANGED vars
  BY <1>1 DEF vars
<1>2. ASSUME NEW s \in Sessions, StartCheck(s) \/ StartCreate(s) \/ FinalizeBegin(s)
      PROVE  [Q!Next]_Q!vars
  BY <1>2 DEF StartCheck, StartCreate, FinalizeBegin
<1>3. CASE FinalizeStep
  <2>1. CASE FinalizeCompose \/ FinalizeFails \/ FinalizeMeta
    BY <2>1 DEF FinalizeCompose, FinalizeFails, FinalizeMeta
  <2>2. CASE FinalizeEnqueue
    BY <2>2 DEF FinalizeEnqueue, Enqueuers, Shape, FinalizeHolds
  <2>3. CASE FinalizePut
    BY <2>3 DEF FinalizePut, Enqueuers
  <2> QED BY <1>3, <2>1, <2>2, <2>3 DEF FinalizeStep
<1>4. CASE WorkerStep
  <2>1. CASE WorkerGet \/ WorkerFinish
    BY <2>1 DEF WorkerGet, WorkerFinish
  <2>2. CASE WorkerRefused \/ WorkerUploadFails \/ WorkerPurgeFails \/ WorkerVerifyFails
             \/ WorkerCallFails
    BY <2>2 DEF WorkerRefused, WorkerUploadFails, WorkerPurgeFails, WorkerVerifyFails,
                WorkerCallFails, WorkerRaises, WorkerFrame
  <2>3. CASE WorkerAdmit \/ WorkerTombstone \/ WorkerInspect \/ WorkerUpload \/ WorkerRecheck
    BY <2>3 DEF WorkerAdmit, WorkerTombstone, WorkerInspect, WorkerUpload, WorkerRecheck,
                WorkerFrame
  <2>4. CASE WorkerPurge \/ WorkerDischarge \/ WorkerVerify \/ WorkerReverify \/ WorkerCommit
    BY <2>4 DEF WorkerPurge, WorkerDischarge, WorkerVerify, WorkerReverify, WorkerCommit,
                WorkerFrame
  <2>5. CASE HandlerStep
    BY <2>5 DEF HandlerStep, AttemptFails, AttemptUnrecorded, WorkerRecords, WorkerDies
  <2> QED BY <1>4, <2>1, <2>2, <2>3, <2>4, <2>5 DEF WorkerStep
<1>5. CASE RescanStep
  <2>1. CASE RescanList \/ RescanSweep \/ RescanFails \/ RescanPrune
    BY <2>1 DEF RescanList, RescanSweep, RescanFails, RescanPrune
  <2>2. CASE RescanEnqueue
    BY <2>2 DEF RescanEnqueue, Enqueuers, Shape, TypeOK, ThreadTypeOK
  <2>3. CASE RescanPut \/ RescanPutFull
    BY <2>3 DEF RescanPut, RescanPutFull, Enqueuers
  <2> QED BY <1>5, <2>1, <2>2, <2>3 DEF RescanStep
<1>6. ASSUME NEW w \in Sweepers, SweepStep(w)
      PROVE  [Q!Next]_Q!vars
  BY <1>6 DEF SweepStep, SweepDefer, SweepTake, SweepDelete, SweepDeleteFails, SweepComplete, SweepCompleteFails,
              SweepEnd, SweepFrame
<1>7. ASSUME NEW o \in Ops, NEW k \in {"clear", "delete"}, NEW e \in Events, OpRead(o, k, e)
      PROVE  [Q!Next]_Q!vars
  BY <1>7 DEF OpRead, OpFrame
<1>8. ASSUME NEW o \in Ops, OpStep(o)
      PROVE  [Q!Next]_Q!vars
  BY <1>8 DEF OpStep, OpCommit, OpRemove, OpFails, OpSweep, OpFrame
<1>9. CASE Crash
  BY <1>9 DEF Crash
<1> QED BY <1>1, <1>2, <1>3, <1>4, <1>5, <1>6, <1>7, <1>8, <1>9 DEF Next

(* The constants of the delivery suit the queue it uses. *)
LEMMA QueueAssumed == QP!QueueAssumption
BY DeliveryAssumption DEF QP!QueueAssumption

(* The queue's own inductive invariant, taken from its proof. *)
LEMMA QueueInv == QP!IInv /\ [Q!Next]_Q!vars => QP!IInv'
<1>1. [Q!Next]_Q!vars => [QP!Next]_QP!vars
  BY DEF Q!Next, QP!Next, Q!vars, QP!vars, Q!Mark, QP!Mark, Q!Duplicate, QP!Duplicate,
         Q!Put, QP!Put, Q!PutFull, QP!PutFull, Q!Get, QP!Get, Q!Exit, QP!Exit,
         Q!Finish, QP!Finish, Q!Die, QP!Die, Q!Close, QP!Close, Q!Restart, QP!Restart
<1> QED BY <1>1, QueueAssumed, QP!NextIInv
-----------------------------------------------------------------------------
(* Types, and the two facts that tie a process's step to the session it    *)
(* works on.  The queue's own types are the queue's theorem.               *)
LEMMA InitShape == Init => Shape /\ QP!IInv
<1> SUFFICES ASSUME Init PROVE Shape /\ QP!IInv
  OBVIOUS
<1>1. QP!IInv
  BY QueueAssumed, QP!InitIInv DEF Init, Q!Init, QP!Init
<1>2. Q!TypeOK
  BY <1>1 DEF QP!IInv, QP!TypeOK, Q!TypeOK
<1>3. DurableTypeOK
  BY DEF Init, DurableTypeOK, Live
<1>4. ThreadTypeOK
  BY DeliveryAssumption DEF Init, ThreadTypeOK, WorkerSteps
<1>5. SweepTypeOK
  BY DEF Init, SweepTypeOK
<1>6. OpTypeOK
  BY DEF Init, OpTypeOK
<1>7. BoundTypeOK
  BY DeliveryAssumption DEF Init, BoundTypeOK
<1>8. worker = None /\ None \notin Sessions
  BY DeliveryAssumption DEF Init, Q!Init
<1> QED BY <1>1, <1>2, <1>3, <1>4, <1>5, <1>6, <1>7, <1>8
        DEF Init, Shape, TypeOK, WorkerHolds, FinalizeHolds

(* A row takes any status of a living session. *)
LEMMA SetStatusType ==
  ASSUME DurableTypeOK, NEW s \in Sessions, NEW st \in Live, SetStatus(s, st)
  PROVE  row' \in [Sessions -> Live \cup {"fresh", "starting", "erased", "pruned"}]
BY DEF DurableTypeOK, SetStatus

(* A deletion in the bucket leaves strips or nothing. *)
LEMMA EmptiedType ==
  ASSUME DurableTypeOK, NEW t
  PROVE  Emptied(t) \in [Sessions -> {"none", "intact", "torn"}]
BY DEF DurableTypeOK, Emptied

(* The bounds of the environment only run down. *)
LEMMA BoundsType ==
  ASSUME BoundTypeOK, Fault \/ UNCHANGED boundVars
  PROVE  BoundTypeOK'
BY DeliveryAssumption DEF BoundTypeOK, Fault, boundVars

(* The handlers change the row, the counter and the thread's step. *)
LEMMA HandlerShape ==
  ASSUME Shape, HandlerStep, Q!TypeOK'
  PROVE  Shape'
<1> USE DEF Shape, TypeOK, HandlerStep, AttemptFails, AttemptUnrecorded, WorkerRecords,
            WorkerDies, HandlerFrame
<1>1. worker \in Sessions
  BY DEF WorkerHolds
<1>2. DurableTypeOK'
  <2>1. row' = row \/ SetStatus(worker, "failed")
    OBVIOUS
  <2> QED BY <1>1, <2>1, SetStatusType DEF DurableTypeOK, Live
<1>3. attempt' \in 0..MaxRetries /\ (wpc' = "admit" => attempt' < MaxRetries)
  BY DeliveryAssumption DEF ThreadTypeOK, WorkerHolds
<1>4. ThreadTypeOK' /\ FinalizeHolds'
  BY <1>3 DEF ThreadTypeOK, WorkerSteps, FinalizeHolds, finalVars, rescanVars
<1>5. SweepTypeOK' /\ OpTypeOK'
  BY DEF SweepTypeOK, OpTypeOK, sweepVars, opVars
<1>6. BoundTypeOK'
  BY BoundsType
<1>7. WorkerHolds'
  BY <1>1, <1>3, DeliveryAssumption DEF WorkerHolds, qvars, Q!Die
<1> QED BY <1>2, <1>4, <1>5, <1>6, <1>7

(* Guests keep the types. *)
LEMMA GuestShape ==
  ASSUME Shape, NEW s \in Sessions, StartCheck(s) \/ StartCreate(s) \/ FinalizeBegin(s)
  PROVE  Shape'
<1> USE DEF Shape, TypeOK
<1>1. DurableTypeOK'
  BY DEF DurableTypeOK, StartCheck, StartCreate, FinalizeBegin, durableVars, Live
<1>2. ThreadTypeOK' /\ FinalizeHolds'
  BY DEF ThreadTypeOK, FinalizeHolds, StartCheck, StartCreate, FinalizeBegin, workerVars, finalVars, rescanVars
<1>3. SweepTypeOK' /\ OpTypeOK'
  BY DEF SweepTypeOK, OpTypeOK, StartCheck, StartCreate, FinalizeBegin, sweepVars, opVars
<1>4. BoundTypeOK'
  BY DeliveryAssumption DEF BoundTypeOK, StartCheck, StartCreate, FinalizeBegin, boundVars
<1>5. Q!TypeOK' /\ WorkerHolds'
  BY DEF Q!TypeOK, WorkerHolds, StartCheck, StartCreate, FinalizeBegin, qvars, workerVars
<1> QED BY <1>1, <1>2, <1>3, <1>4, <1>5

(* So does finalize. *)
LEMMA FinalizeShape ==
  ASSUME Shape, FinalizeStep, Q!TypeOK'
  PROVE  Shape'
<1> USE DEF Shape, TypeOK, FinalizeStep
<1>1. fjob \in Sessions
  BY DEF FinalizeHolds, FinalizeCompose, FinalizeFails, FinalizeMeta, FinalizeEnqueue, FinalizePut
<1>2. DurableTypeOK'
  BY <1>1 DEF DurableTypeOK, FinalizeCompose, FinalizeFails, FinalizeMeta, FinalizeEnqueue,
              FinalizePut, durableVars
<1>3. ThreadTypeOK' /\ FinalizeHolds'
  BY <1>1 DEF ThreadTypeOK, FinalizeHolds, FinalizeCompose, FinalizeFails, FinalizeMeta,
              FinalizeEnqueue, FinalizePut, workerVars, rescanVars
<1>4. SweepTypeOK' /\ OpTypeOK' /\ BoundTypeOK'
  BY BoundsType DEF SweepTypeOK, OpTypeOK, FinalizeCompose, FinalizeFails, FinalizeMeta,
         FinalizeEnqueue, FinalizePut, sweepVars, opVars
<1>5. UNCHANGED <<worker, wpc, attempt>>
  BY DEF FinalizeCompose, FinalizeFails, FinalizeMeta, FinalizeEnqueue, FinalizePut, qvars,
         workerVars, Q!Mark, Q!Duplicate, Q!vars, Q!Put, Q!PutFull
<1>6. WorkerHolds'
  BY <1>5 DEF WorkerHolds
<1> QED BY <1>2, <1>3, <1>4, <1>6

(* So does the upload thread, which holds its session until it is done. *)
LEMMA WorkerShape ==
  ASSUME Shape, WorkerStep, Q!TypeOK'
  PROVE  Shape'
<1> USE DEF Shape, TypeOK
<1>1. CASE WorkerGet
  <2>1. worker' \in Sessions
    BY <1>1, DeliveryAssumption DEF WorkerGet, Q!Get, Q!TypeOK
  <2>2. DurableTypeOK' /\ SweepTypeOK' /\ OpTypeOK' /\ BoundTypeOK' /\ FinalizeHolds'
    BY <1>1 DEF DurableTypeOK, SweepTypeOK, OpTypeOK, BoundTypeOK, FinalizeHolds, WorkerGet,
                durableVars, finalVars, sweepVars, opVars, boundVars
  <2>3. ThreadTypeOK' /\ WorkerHolds'
    BY <1>1, <2>1, DeliveryAssumption
       DEF ThreadTypeOK, WorkerHolds, WorkerGet, WorkerSteps, finalVars, rescanVars
  <2> QED BY <2>2, <2>3
<1>2. CASE WorkerFinish
  <2>1. DurableTypeOK' /\ SweepTypeOK' /\ OpTypeOK' /\ BoundTypeOK' /\ FinalizeHolds'
    BY <1>2 DEF DurableTypeOK, SweepTypeOK, OpTypeOK, BoundTypeOK, FinalizeHolds, WorkerFinish,
                durableVars, finalVars, sweepVars, opVars, boundVars
  <2>2. ThreadTypeOK' /\ WorkerHolds'
    BY <1>2, DeliveryAssumption
       DEF ThreadTypeOK, WorkerHolds, WorkerFinish, WorkerSteps, finalVars, rescanVars, Q!Finish
  <2> QED BY <2>1, <2>2
<1>3. CASE \/ WorkerAdmit \/ WorkerTombstone \/ WorkerInspect \/ WorkerUpload \/ WorkerRecheck
           \/ WorkerPurge \/ WorkerDischarge \/ WorkerVerify \/ WorkerReverify \/ WorkerCommit
           \/ WorkerRefused \/ WorkerUploadFails \/ WorkerPurgeFails \/ WorkerVerifyFails
           \/ WorkerCallFails
  <2> USE <1>3 DEF WorkerAdmit, WorkerTombstone, WorkerInspect, WorkerUpload, WorkerRecheck,
                WorkerPurge, WorkerDischarge, WorkerVerify, WorkerReverify, WorkerCommit,
                WorkerRefused, WorkerUploadFails, WorkerPurgeFails, WorkerVerifyFails,
                WorkerCallFails, WorkerRaises, WorkerFrame
  <2>1. worker \in Sessions /\ attempt < MaxRetries
    BY DEF WorkerHolds
  <2>2. row' \in [Sessions -> Live \cup {"fresh", "starting", "erased", "pruned"}]
    <3>1. \/ row' = row
          \/ \E st \in Live : SetStatus(worker, st)
      BY DEF Live
    <3> QED BY <2>1, <3>1, SetStatusType DEF DurableTypeOK
  <2>3. cloud' \in [Sessions -> {"none", "intact", "torn"}]
    BY <2>1, EmptiedType DEF DurableTypeOK, StripReadable
  <2>4. meta' \in [Sessions -> BOOLEAN] /\ tombs' \in SUBSET Targets
    BY DEF DurableTypeOK
  <2>5. DurableTypeOK'
    BY <2>2, <2>3, <2>4 DEF DurableTypeOK
  <2>6. wpc' \in WorkerSteps \ {"idle"} /\ attempt' = attempt
    BY DEF WorkerSteps
  <2>7. ThreadTypeOK' /\ FinalizeHolds'
    BY <2>6 DEF ThreadTypeOK, FinalizeHolds, finalVars, rescanVars
  <2>8. SweepTypeOK' /\ OpTypeOK'
    BY DEF SweepTypeOK, OpTypeOK, sweepVars, opVars
  <2>9. BoundTypeOK'
    BY BoundsType
  <2>10. WorkerHolds'
    BY <2>1, <2>6 DEF WorkerHolds, qvars
  <2> QED BY <2>5, <2>7, <2>8, <2>9, <2>10
<1> QED BY <1>1, <1>2, <1>3, HandlerShape DEF WorkerStep

(* So does the rescan thread. *)
LEMMA RescanShape ==
  ASSUME Shape, RescanStep, Q!TypeOK'
  PROVE  Shape'
<1> USE DEF Shape, TypeOK, RescanStep
<1>1. DurableTypeOK'
  BY DEF DurableTypeOK, RescanList, RescanEnqueue, RescanPut, RescanPutFull, RescanSweep, RescanFails,
         RescanPrune, RescanFrame, durableVars, Live
<1>2. ThreadTypeOK' /\ FinalizeHolds'
  BY DEF ThreadTypeOK, FinalizeHolds, RescanList, RescanEnqueue, RescanPut, RescanPutFull,
         RescanSweep, RescanFails, RescanPrune, RescanFrame, workerVars, finalVars
<1>3. SweepTypeOK'
  BY DEF SweepTypeOK, DurableTypeOK, RescanList, RescanEnqueue, RescanPut, RescanPutFull,
         RescanSweep, RescanFails, RescanPrune, RescanFrame, SweepStart, sweepVars
<1>4. OpTypeOK' /\ BoundTypeOK'
  BY BoundsType DEF OpTypeOK, RescanList, RescanEnqueue, RescanPut, RescanPutFull,
         RescanSweep, RescanFails, RescanPrune, RescanFrame, opVars
<1>5. UNCHANGED <<worker, wpc, attempt>>
  BY DEF RescanList, RescanEnqueue, RescanPut, RescanPutFull, RescanSweep, RescanFails, RescanPrune,
         RescanFrame, qvars, workerVars, Q!Mark, Q!Duplicate, Q!vars, Q!Put, Q!PutFull
<1>6. WorkerHolds'
  BY <1>5 DEF WorkerHolds
<1> QED BY <1>1, <1>2, <1>3, <1>4, <1>6

(* So does each deletion thread. *)
LEMMA SweepShape ==
  ASSUME Shape, NEW w \in Sweepers, SweepStep(w), Q!TypeOK'
  PROVE  Shape'
<1> USE DEF Shape, TypeOK, SweepStep
<1>1. cloud' \in [Sessions -> {"none", "intact", "torn"}]
  BY EmptiedType DEF DurableTypeOK, SweepDefer, SweepTake, SweepDelete, SweepDeleteFails,
                     SweepComplete, SweepCompleteFails, SweepEnd
<1>2. DurableTypeOK'
  BY <1>1 DEF DurableTypeOK, SweepDefer, SweepTake, SweepDelete, SweepDeleteFails,
              SweepComplete, SweepCompleteFails, SweepEnd, SweepFrame
<1>3. SweepTypeOK'
  BY DEF SweepTypeOK, SweepDefer, SweepTake, SweepDelete, SweepDeleteFails, SweepComplete, SweepCompleteFails, SweepEnd
<1>4. BoundTypeOK'
  BY BoundsType DEF SweepDefer, SweepTake, SweepDelete, SweepDeleteFails, SweepComplete, SweepCompleteFails, SweepEnd
<1>5. ThreadTypeOK' /\ FinalizeHolds' /\ WorkerHolds' /\ OpTypeOK'
  BY DEF ThreadTypeOK, FinalizeHolds, WorkerHolds, OpTypeOK, SweepDefer, SweepTake, SweepDelete,
         SweepDeleteFails, SweepComplete, SweepCompleteFails, SweepEnd, SweepFrame, qvars, workerVars, finalVars,
         rescanVars, opVars
<1> QED BY <1>2, <1>3, <1>4, <1>5

(* So does each admin request. *)
LEMMA OpShape ==
  ASSUME Shape, Q!TypeOK', NEW o \in Ops,
         OpStep(o) \/ \E k \in {"clear", "delete"}, e \in Events : OpRead(o, k, e)
  PROVE  Shape'
<1> USE DEF Shape, TypeOK, OpStep
<1>1. DurableTypeOK'
  <2>1. CASE \E k \in {"clear", "delete"}, e \in Events : OpRead(o, k, e)
    BY <2>1 DEF OpRead, DurableTypeOK, OpFrame, durableVars
  <2>2. CASE OpCommit(o)
    <3>1. row' \in [Sessions -> Live \cup {"fresh", "starting", "erased", "pruned"}]
      BY <2>2 DEF OpCommit, DurableTypeOK
    <3>2. tombs' \in SUBSET Targets
      BY <2>2 DEF OpCommit, DurableTypeOK, OpTypeOK
    <3>3. oevent[o] \in Events
      BY <2>2 DEF OpTypeOK, OpCommit
    <3> QED BY <2>2, <3>1, <3>2, <3>3 DEF OpCommit, DurableTypeOK, OpFrame
  <2>3. CASE OpRemove(o) \/ OpFails(o) \/ OpSweep(o)
    BY <2>3 DEF OpRemove, OpFails, OpSweep, DurableTypeOK, OpFrame, durableVars
  <2> QED BY <2>1, <2>2, <2>3
<1>2. OpTypeOK'
  <2>1. ASSUME NEW k \in {"clear", "delete"}, NEW e \in Events, OpRead(o, k, e)
        PROVE  OpTypeOK'
    <3>1. {SessionTarget(s) : s \in {s \in Sessions : EventOf[s] = e /\ HasRow(s) /\ meta[s]}}
            \cup {OwnTarget(k, e)} \in SUBSET Targets
      BY DEF Targets, OwnTarget
    <3> QED BY <2>1, <3>1 DEF OpRead, OpTypeOK
  <2>2. CASE OpStep(o)
    BY <2>2 DEF OpTypeOK, OpCommit, OpRemove, OpFails, OpSweep
  <2> QED BY <2>1, <2>2
<1>3. SweepTypeOK'
  BY DEF SweepTypeOK, DurableTypeOK, OpRead, OpCommit, OpRemove, OpFails, OpSweep,
         SweepStart, Sweepers, sweepVars
<1>4. BoundTypeOK'
  BY BoundsType DEF OpRead, OpCommit, OpRemove, OpFails, OpSweep
<1>5. ThreadTypeOK' /\ FinalizeHolds' /\ WorkerHolds'
  BY DEF ThreadTypeOK, FinalizeHolds, WorkerHolds, OpRead, OpCommit, OpRemove, OpFails,
         OpSweep, OpFrame, qvars, workerVars, finalVars, rescanVars
<1> QED BY <1>1, <1>2, <1>3, <1>4, <1>5

(* So do a power cut and the boot after it. *)
LEMMA CrashShape ==
  ASSUME Shape, Q!TypeOK', Crash
  PROVE  Shape'
<1> USE DEF Shape, TypeOK, Crash
<1>1. DurableTypeOK'
  BY DEF DurableTypeOK
<1>2. ThreadTypeOK' /\ FinalizeHolds' /\ WorkerHolds'
  BY DeliveryAssumption DEF ThreadTypeOK, FinalizeHolds, WorkerHolds, WorkerSteps, Q!Restart
<1>3. SweepTypeOK' /\ OpTypeOK' /\ BoundTypeOK'
  BY DeliveryAssumption DEF SweepTypeOK, OpTypeOK, BoundTypeOK
<1> QED BY <1>1, <1>2, <1>3

(* Types and the queue's invariant, in every step. *)
LEMMA ShapeStep == Shape /\ QP!IInv /\ [Next]_vars => Shape' /\ QP!IInv'
<1> SUFFICES ASSUME Shape, QP!IInv, [Next]_vars PROVE Shape' /\ QP!IInv'
  OBVIOUS
<1>1. QP!IInv'
  BY StepIsQueueStep, QueueInv
<1>2. Q!TypeOK'
  BY <1>1 DEF QP!IInv, QP!TypeOK, Q!TypeOK
<1>3. CASE UNCHANGED vars
  <2> USE <1>3 DEF vars, Shape, TypeOK
  <2>1. DurableTypeOK'
    BY DEF DurableTypeOK, durableVars
  <2>2. ThreadTypeOK' /\ WorkerHolds' /\ FinalizeHolds'
    BY DEF ThreadTypeOK, WorkerHolds, FinalizeHolds, qvars, workerVars, finalVars, rescanVars
  <2>3. SweepTypeOK'
    BY DEF SweepTypeOK, sweepVars
  <2>4. OpTypeOK' /\ BoundTypeOK'
    BY DEF OpTypeOK, BoundTypeOK, opVars, boundVars
  <2> QED BY <1>1, <1>2, <2>1, <2>2, <2>3, <2>4
<1> QED BY <1>1, <1>2, <1>3, GuestShape, FinalizeShape, WorkerShape, RescanShape, SweepShape,
           OpShape, CrashShape DEF Next
-----------------------------------------------------------------------------
(* Deletion of an event.                                                   *)
LEMMA TargetsDistinct ==
  /\ \A e \in Events : EventTarget(e) # None
  /\ \A e \in Events, s \in Sessions : EventTarget(e) # SessionTarget(s)
  /\ \A e, f \in Events : EventTarget(e) # ContentTarget(f)
  /\ \A e, f \in Events : EventTarget(e) = EventTarget(f) => e = f
  /\ \A e \in Events, s \in Sessions : Covers(EventTarget(e), s) <=> EventOf[s] = e
  /\ \A s \in Sessions : EventOf[s] \in Events
BY DeliveryAssumption, TargetAssumption
   DEF Targets, EventTarget, SessionTarget, ContentTarget, Covers

(* At first nothing is deleted and nothing is being deleted. *)
LEMMA InitDeletion == Init => DeletionFacts
<1> SUFFICES ASSUME Init PROVE DeletionFacts
  OBVIOUS
<1>1. CommitTargets
  BY DEF Init, CommitTargets
<1>2. TombstonedEventsGone
  BY TargetsDistinct DEF Init, TombstonedEventsGone
<1>3. SweepAlone
  BY DEF Init, SweepAlone
<1>4. DeletedStaysEmpty
  BY DEF Init, DeletedStaysEmpty, Admitted
<1> QED BY <1>1, <1>2, <1>3, <1>4 DEF DeletionFacts

(* A step of the guest, the rescan or the upload thread: no request and no *)
(* deletion moves, the event tombstones stay, an upload is admitted only   *)
(* to an event that is there, and only an admitted upload fills the bucket.*)
LEMMA DeletionBystander ==
  ASSUME DeletionFacts, UNCHANGED <<events, spc, stodo, starget, opc, oevent, okind, otargets>>,
         \A e \in Events : EventTarget(e) \in tombs' <=> EventTarget(e) \in tombs,
         \A e \in Events : Admitted(e)' => Admitted(e) \/ e \in events,
         \A s \in Sessions : cloud[s] = "none" => cloud'[s] = "none" \/ Admitted(EventOf[s])
  PROVE  DeletionFacts'
<1> USE DEF DeletionFacts
<1>1. CommitTargets'
  BY DEF CommitTargets
<1>2. TombstonedEventsGone'
  BY DEF TombstonedEventsGone
<1>3. SweepAlone'
  BY DEF SweepAlone, TombstonedEventsGone
<1>4. DeletedStaysEmpty'
  BY DEF DeletedStaysEmpty
<1> QED BY <1>1, <1>2, <1>3, <1>4

(* Guests are bystanders of a deletion. *)
LEMMA GuestDeletion ==
  ASSUME DeletionFacts, NEW s \in Sessions, StartCheck(s) \/ StartCreate(s) \/ FinalizeBegin(s)
  PROVE  DeletionFacts'
<1>1. UNCHANGED <<events, tombs, cloud, spc, stodo, starget, opc, oevent, okind, otargets, wpc, worker>>
  BY DEF StartCheck, StartCreate, FinalizeBegin, durableVars, sweepVars, opVars, workerVars, qvars
<1> QED BY <1>1, DeletionBystander DEF Admitted

(* So is finalize. *)
LEMMA FinalizeDeletion == ASSUME DeletionFacts, FinalizeStep PROVE DeletionFacts'
<1>1. UNCHANGED <<events, tombs, cloud, spc, stodo, starget, opc, oevent, okind, otargets, wpc>>
  BY DEF FinalizeStep, FinalizeCompose, FinalizeFails, FinalizeMeta, FinalizeEnqueue, FinalizePut,
         durableVars, sweepVars, opVars, workerVars
<1>2. worker' = worker
  BY DEF FinalizeStep, FinalizeCompose, FinalizeFails, FinalizeMeta, FinalizeEnqueue, FinalizePut,
         qvars, Q!Mark, Q!Duplicate, Q!vars, Q!Put, Q!PutFull
<1> QED BY <1>1, <1>2, DeletionBystander DEF Admitted

(* The upload thread admits no strip of a deleted event. *)
LEMMA WorkerDeletion == ASSUME Shape, DeletionFacts, WorkerStep PROVE DeletionFacts'
<1>1. UNCHANGED <<events, spc, stodo, starget, opc, oevent, okind, otargets>>
  BY DEF WorkerStep, WorkerGet, WorkerAdmit, WorkerRefused, WorkerTombstone, WorkerInspect,
         WorkerUpload, WorkerUploadFails, WorkerRecheck, WorkerPurge, WorkerPurgeFails,
         WorkerDischarge, WorkerVerify, WorkerVerifyFails, WorkerReverify, WorkerCommit,
         WorkerFinish, WorkerCallFails, WorkerRaises,
         HandlerStep, AttemptFails, AttemptUnrecorded, WorkerRecords, WorkerDies, HandlerFrame, WorkerFrame, durableVars, sweepVars, opVars
<1>2. wpc # "idle" => worker \in Sessions
  BY DEF Shape, WorkerHolds
<1>3. ASSUME NEW e \in Events
      PROVE  EventTarget(e) \in tombs' <=> EventTarget(e) \in tombs
  BY <1>2, TargetsDistinct
     DEF WorkerStep, WorkerGet, WorkerAdmit, WorkerRefused, WorkerTombstone, WorkerInspect,
         WorkerUpload, WorkerUploadFails, WorkerRecheck, WorkerPurge, WorkerPurgeFails,
         WorkerDischarge, WorkerVerify, WorkerVerifyFails, WorkerReverify, WorkerCommit,
         WorkerFinish, WorkerCallFails, WorkerRaises,
         HandlerStep, AttemptFails, AttemptUnrecorded, WorkerRecords, WorkerDies, HandlerFrame, durableVars
<1>4. ASSUME NEW e \in Events, Admitted(e)'
      PROVE  Admitted(e) \/ e \in events
  BY <1>4 DEF WorkerStep, WorkerGet, WorkerAdmit, WorkerRefused, WorkerTombstone, WorkerInspect,
         WorkerUpload, WorkerUploadFails, WorkerRecheck, WorkerPurge, WorkerPurgeFails,
         WorkerDischarge, WorkerVerify, WorkerVerifyFails, WorkerReverify, WorkerCommit,
         WorkerFinish, WorkerCallFails, WorkerRaises,
         HandlerStep, AttemptFails, AttemptUnrecorded, WorkerRecords, WorkerDies, HandlerFrame, WorkerFrame, qvars, Admitted
<1>5. ASSUME NEW s \in Sessions, cloud[s] = "none"
      PROVE  cloud'[s] = "none" \/ Admitted(EventOf[s])
  <2>1. CASE WorkerUpload \/ WorkerUploadFails
    BY <1>2, <1>5, <2>1 DEF WorkerUpload, WorkerUploadFails, Admitted, Shape, TypeOK, DurableTypeOK
  <2>2. CASE WorkerPurge \/ WorkerPurgeFails
    BY <1>5, <2>2 DEF WorkerPurge, WorkerPurgeFails, Emptied
  <2>3. CASE ~(WorkerUpload \/ WorkerUploadFails \/ WorkerPurge \/ WorkerPurgeFails)
    BY <1>5, <2>3
       DEF WorkerStep, WorkerGet, WorkerAdmit, WorkerRefused, WorkerTombstone, WorkerInspect,
           WorkerRecheck, WorkerDischarge, WorkerVerify, WorkerVerifyFails, WorkerReverify,
           WorkerCommit, WorkerFinish, WorkerCallFails, WorkerRaises,
         HandlerStep, AttemptFails, AttemptUnrecorded, WorkerRecords, WorkerDies, HandlerFrame, durableVars
  <2> QED BY <2>1, <2>2, <2>3
<1> QED BY <1>1, <1>3, <1>4, <1>5, DeletionBystander

(* A thread that takes its snapshot of the tombstones. *)
LEMMA SweepStartDeletion ==
  ASSUME Shape, DeletionFacts, NEW w \in Sweepers, SweepStart(w),
         UNCHANGED <<events, tombs, cloud, wpc, worker>>, CommitTargets'
  PROVE  DeletionFacts'
<1> USE DEF DeletionFacts
<1>1. /\ spc' = [spc EXCEPT ![w] = "scan"] /\ spc \in [Sweepers -> {"idle", "scan", "delete", "complete"}]
      /\ stodo' = [stodo EXCEPT ![w] = tombs] /\ stodo \in [Sweepers -> SUBSET Targets]
      /\ starget' = starget
  BY DEF SweepStart, Shape, TypeOK, SweepTypeOK
<1>2. TombstonedEventsGone'
  BY <1>1 DEF TombstonedEventsGone
<1>3. SweepAlone'
  BY <1>1 DEF SweepAlone, Admitted
<1>4. DeletedStaysEmpty'
  BY DEF DeletedStaysEmpty, Admitted
<1> QED BY <1>2, <1>3, <1>4

(* The rescan hands its deletion thread tombstones that are there. *)
LEMMA RescanDeletion == ASSUME Shape, DeletionFacts, RescanStep PROVE DeletionFacts'
<1>1. CASE RescanSweep
  <2>1. UNCHANGED <<events, tombs, cloud, wpc, worker, opc, oevent, okind, otargets>>
    BY <1>1 DEF RescanSweep, durableVars, workerVars, qvars, opVars
  <2>2. CommitTargets'
    BY <2>1 DEF CommitTargets, DeletionFacts
  <2> QED BY <1>1, <2>1, <2>2, SweepStartDeletion DEF RescanSweep, Sweepers
<1>2. CASE RescanList \/ RescanEnqueue \/ RescanPut \/ RescanPutFull \/ RescanFails \/ RescanPrune
  <2>1. UNCHANGED <<events, tombs, cloud, spc, stodo, starget, opc, oevent, okind, otargets, wpc>>
    BY <1>2 DEF RescanList, RescanEnqueue, RescanPut, RescanPutFull, RescanFails, RescanPrune, RescanFrame,
                durableVars, sweepVars, opVars, workerVars
  <2>2. worker' = worker
    BY <1>2 DEF RescanList, RescanEnqueue, RescanPut, RescanPutFull, RescanFails, RescanPrune, RescanFrame,
                qvars, Q!Mark, Q!Duplicate, Q!vars, Q!Put, Q!PutFull
  <2> QED BY <2>1, <2>2, DeletionBystander DEF Admitted
<1> QED BY <1>1, <1>2 DEF RescanStep

(* The session an admitted upload works on is in flight, so the conflict   *)
(* check sees it.                                                          *)
LEMMA AdmittedConflicts ==
  ASSUME Shape, QP!IInv, NEW e \in Events, Admitted(e)
  PROVE  Conflicts(EventTarget(e))
<1>1. worker \in Sessions
  BY DEF Shape, WorkerHolds, Admitted
<1>2. worker \in inflight
  BY <1>1 DEF QP!IInv, QP!InflightExact
<1> QED BY <1>1, <1>2, TargetsDistinct DEF Conflicts, Admitted

(* A deletion thread empties its prefix before it drops the tombstone. *)
LEMMA SweepDeletion ==
  ASSUME Shape, QP!IInv, DeletionFacts, NEW w \in Sweepers, SweepStep(w)
  PROVE  DeletionFacts'
<1> USE DEF DeletionFacts
<1>1. UNCHANGED <<events, wpc, worker, opc, oevent, okind, otargets>>
  BY DEF SweepStep, SweepDefer, SweepTake, SweepDelete, SweepDeleteFails, SweepComplete, SweepCompleteFails, SweepEnd,
         SweepFrame, workerVars, qvars, opVars
<1>2. CommitTargets'
  BY <1>1 DEF CommitTargets
<1>3. /\ spc \in [Sweepers -> {"idle", "scan", "delete", "complete"}]
      /\ stodo \in [Sweepers -> SUBSET Targets]
      /\ starget \in [Sweepers -> Targets \cup {None}]
      /\ cloud \in [Sessions -> {"none", "intact", "torn"}]
  BY DEF Shape, TypeOK, SweepTypeOK, DurableTypeOK
<1>4. ASSUME NEW e \in Events PROVE Admitted(e)' <=> Admitted(e)
  BY <1>1 DEF Admitted
<1>5. CASE SweepDefer(w) \/ SweepEnd(w)
  <2>1. UNCHANGED <<tombs, cloud, starget>>
    BY <1>5 DEF SweepDefer, SweepEnd
  <2>2. /\ \A v \in Sweepers : stodo'[v] \in SUBSET stodo[v]
        /\ \A v \in Sweepers : spc'[v] \in {"delete", "complete"} => spc'[v] = spc[v]
    BY <1>3, <1>5 DEF SweepDefer, SweepEnd
  <2> QED BY <1>1, <1>2, <1>4, <2>1, <2>2 DEF TombstonedEventsGone, SweepAlone, DeletedStaysEmpty
<1>6. CASE SweepTake(w)
  <2>1. PICK t \in stodo[w] : /\ ~Conflicts(t)
                              /\ stodo' = [stodo EXCEPT ![w] = @ \ {t}]
                              /\ starget' = [starget EXCEPT ![w] = t]
                              /\ spc' = [spc EXCEPT ![w] = "delete"]
                              /\ UNCHANGED <<tombs, cloud>>
    BY <1>6 DEF SweepTake
  <2>2. TombstonedEventsGone'
    BY <1>1, <1>3, <2>1 DEF TombstonedEventsGone
  <2>3. SweepAlone'
    BY <1>3, <1>4, <2>1, AdmittedConflicts DEF SweepAlone
  <2> QED BY <1>1, <1>2, <1>4, <2>1, <2>2, <2>3 DEF DeletedStaysEmpty
<1>7. CASE SweepDelete(w)
  <2>1. /\ spc[w] = "delete" /\ cloud' = Emptied(starget[w])
        /\ spc' = [spc EXCEPT ![w] = "complete"]
        /\ UNCHANGED <<stodo, starget, tombs>>
    BY <1>7 DEF SweepDelete
  <2>2. \A s \in Sessions : cloud[s] = "none" => cloud'[s] = "none"
    BY <2>1 DEF Emptied
  <2>3. ASSUME NEW e \in Events, starget[w] = EventTarget(e), NEW s \in Sessions, EventOf[s] = e
        PROVE  cloud'[s] = "none"
    BY <2>1, <2>3, TargetsDistinct DEF Emptied
  <2>4. SweepAlone'
    BY <1>3, <1>4, <2>1, <2>2, <2>3 DEF SweepAlone
  <2> QED BY <1>1, <1>2, <1>4, <2>1, <2>2, <2>4 DEF TombstonedEventsGone, DeletedStaysEmpty
<1>8. CASE SweepDeleteFails(w)
  <2>1. /\ cloud' \in {cloud, Emptied(starget[w])}
        /\ spc' = [spc EXCEPT ![w] = "scan"]
        /\ starget' = [starget EXCEPT ![w] = None]
        /\ UNCHANGED <<stodo, tombs>>
    BY <1>8 DEF SweepDeleteFails
  <2>2. \A s \in Sessions : cloud[s] = "none" => cloud'[s] = "none"
    BY <2>1 DEF Emptied
  <2>3. \A v \in Sweepers : /\ spc'[v] \in {"delete", "complete"} => v # w
                            /\ v # w => spc'[v] = spc[v] /\ starget'[v] = starget[v]
    BY <1>3, <2>1
  <2>4. SweepAlone'
    BY <1>4, <2>2, <2>3 DEF SweepAlone
  <2>5. TombstonedEventsGone'
    BY <1>1, <1>3, <2>1, TargetsDistinct DEF TombstonedEventsGone
  <2> QED BY <1>1, <1>2, <1>4, <2>1, <2>2, <2>4, <2>5 DEF DeletedStaysEmpty
<1>9. CASE SweepComplete(w)
  <2>1. /\ spc[w] = "complete"
        /\ tombs' = tombs \ {starget[w]}
        /\ spc' = [spc EXCEPT ![w] = "scan"]
        /\ starget' = [starget EXCEPT ![w] = None]
        /\ UNCHANGED <<stodo, cloud>>
    BY <1>9 DEF SweepComplete
  <2>2. \A v \in Sweepers : /\ spc'[v] \in {"delete", "complete"} => v # w
                            /\ v # w => spc'[v] = spc[v] /\ starget'[v] = starget[v]
    BY <1>3, <2>1
  <2>3. SweepAlone'
    BY <1>4, <2>1, <2>2 DEF SweepAlone
  <2>4. TombstonedEventsGone'
    BY <1>1, <1>3, <2>1, TargetsDistinct DEF TombstonedEventsGone
  <2>5. DeletedStaysEmpty'
    BY <1>1, <1>4, <2>1 DEF DeletedStaysEmpty, SweepAlone
  <2> QED BY <1>2, <2>3, <2>4, <2>5
<1>10. CASE SweepCompleteFails(w)
  <2>1. /\ spc' = [spc EXCEPT ![w] = "scan"]
        /\ starget' = [starget EXCEPT ![w] = None]
        /\ UNCHANGED <<stodo, tombs, cloud>>
    BY <1>10 DEF SweepCompleteFails
  <2>2. \A v \in Sweepers : /\ spc'[v] \in {"delete", "complete"} => v # w
                            /\ v # w => spc'[v] = spc[v] /\ starget'[v] = starget[v]
    BY <1>3, <2>1
  <2>3. SweepAlone'
    BY <1>4, <2>1, <2>2 DEF SweepAlone
  <2>4. TombstonedEventsGone'
    BY <1>1, <1>3, <2>1, TargetsDistinct DEF TombstonedEventsGone
  <2> QED BY <1>1, <1>2, <1>4, <2>1, <2>3, <2>4 DEF DeletedStaysEmpty
<1> QED BY <1>5, <1>6, <1>7, <1>8, <1>9, <1>10 DEF SweepStep

(* A request records the event's tombstone with the loss of its row. *)
LEMMA OpDeletion ==
  ASSUME Shape, DeletionFacts, NEW o \in Ops,
         OpStep(o) \/ \E k \in {"clear", "delete"}, e \in Events : OpRead(o, k, e)
  PROVE  DeletionFacts'
<1> USE DEF DeletionFacts
<1>1. UNCHANGED <<cloud, wpc, worker>>
  BY DEF OpStep, OpRead, OpCommit, OpRemove, OpFails, OpSweep, OpFrame, workerVars, qvars
<1>2. /\ opc \in [Ops -> {"ready", "commit", "remove", "sweep", "done"}]
      /\ oevent \in [Ops -> Events \cup {None}]
      /\ okind \in [Ops -> {"clear", "delete"}]
      /\ otargets \in [Ops -> SUBSET Targets]
  BY DEF Shape, TypeOK, OpTypeOK
<1>3. ASSUME NEW e \in Events PROVE Admitted(e)' <=> Admitted(e)
  BY <1>1 DEF Admitted
<1>4. ASSUME NEW k \in {"clear", "delete"}, NEW e \in Events, OpRead(o, k, e)
      PROVE  DeletionFacts'
  <2>1. UNCHANGED <<events, tombs, spc, stodo, starget>>
    BY <1>4 DEF OpRead, durableVars, sweepVars
  <2>2. /\ opc' = [opc EXCEPT ![o] = "commit"]
        /\ oevent' = [oevent EXCEPT ![o] = e]
        /\ okind' = [okind EXCEPT ![o] = k]
        /\ otargets' = [otargets EXCEPT ![o] = otargets'[o]]
    BY <1>2, <1>4 DEF OpRead
  <2>3. /\ k = "delete" => EventTarget(e) \in otargets'[o]
        /\ \A f \in Events : EventTarget(f) \in otargets'[o] => k = "delete" /\ f = e
    BY <1>2, <1>4, TargetsDistinct DEF OpRead, OwnTarget
  <2>4. CommitTargets'
    BY <1>2, <2>2, <2>3 DEF CommitTargets
  <2> QED BY <1>1, <1>3, <2>1, <2>4 DEF TombstonedEventsGone, SweepAlone, DeletedStaysEmpty
<1>5. CASE OpCommit(o)
  <2>1. /\ opc[o] = "commit" /\ opc' = [opc EXCEPT ![o] = "remove"]
        /\ tombs' = tombs \cup otargets[o]
        /\ otargets' = [otargets EXCEPT ![o] = {}]
        /\ events' = IF okind[o] = "delete" THEN events \ {oevent[o]} ELSE events
        /\ UNCHANGED <<oevent, okind, spc, stodo, starget>>
    BY <1>5 DEF OpCommit, sweepVars
  <2>2. CommitTargets'
    BY <1>2, <2>1 DEF CommitTargets
  <2>3. TombstonedEventsGone'
    BY <2>1 DEF TombstonedEventsGone, CommitTargets
  <2>4. SweepAlone'
    BY <1>1, <1>3, <2>1 DEF SweepAlone
  <2>5. DeletedStaysEmpty'
    BY <1>1, <1>3, <2>1 DEF DeletedStaysEmpty, CommitTargets
  <2> QED BY <2>2, <2>3, <2>4, <2>5
<1>6. CASE OpRemove(o) \/ OpFails(o) \/ OpSweep(o)
  <2>1. UNCHANGED <<events, tombs, oevent, okind>>
    BY <1>6 DEF OpRemove, OpFails, OpSweep, durableVars
  <2>2. \A p \in Ops : opc'[p] = "commit" => opc[p] = "commit" /\ otargets'[p] = otargets[p]
    BY <1>2, <1>6 DEF OpRemove, OpFails, OpSweep
  <2>3. CommitTargets'
    BY <2>1, <2>2 DEF CommitTargets
  <2>4. CASE OpSweep(o)
    BY <1>1, <2>1, <2>3, <2>4, SweepStartDeletion DEF OpSweep, Sweepers
  <2>5. CASE OpRemove(o) \/ OpFails(o)
    <3>1. UNCHANGED <<spc, stodo, starget>>
      BY <2>5 DEF OpRemove, OpFails, sweepVars
    <3> QED BY <1>1, <1>3, <2>1, <2>3, <3>1 DEF TombstonedEventsGone, SweepAlone, DeletedStaysEmpty
  <2> QED BY <1>6, <2>4, <2>5
<1> QED BY <1>4, <1>5, <1>6 DEF OpStep

(* A power cut ends every copy of a tombstone but the one in the table. *)
LEMMA CrashDeletion == ASSUME Shape, DeletionFacts, Crash PROVE DeletionFacts'
<1> USE DEF DeletionFacts, Crash
<1>1. \A o \in Ops : opc'[o] # "commit"
  BY DEF Shape, TypeOK, OpTypeOK
<1>2. CommitTargets'
  BY <1>1 DEF CommitTargets
<1>3. TombstonedEventsGone'
  BY TargetsDistinct DEF TombstonedEventsGone
<1>4. SweepAlone'
  BY DEF SweepAlone
<1>5. DeletedStaysEmpty'
  BY DEF DeletedStaysEmpty, Admitted
<1> QED BY <1>2, <1>3, <1>4, <1>5

(* All of DeletionInv, in every step. *)
LEMMA DeletionStep == DeletionInv /\ [Next]_vars => DeletionInv'
<1> SUFFICES ASSUME DeletionInv, [Next]_vars PROVE DeletionInv'
  OBVIOUS
<1> USE DEF DeletionInv
<1>1. Shape' /\ QP!IInv'
  BY ShapeStep
<1>2. CASE UNCHANGED vars
  <2>1. UNCHANGED <<events, tombs, cloud, spc, stodo, starget, opc, oevent, okind, otargets, wpc, worker>>
    BY <1>2 DEF vars, durableVars, qvars, workerVars, sweepVars, opVars
  <2> QED BY <1>1, <2>1, DeletionBystander DEF Admitted
<1>3. CASE Next
  BY <1>1, <1>3, GuestDeletion, FinalizeDeletion, WorkerDeletion, RescanDeletion, SweepDeletion,
     OpDeletion, CrashDeletion DEF Next
<1> QED BY <1>2, <1>3

(* DeletionInv is an invariant. *)
LEMMA DeletionInvariance == Spec => []DeletionInv
<1>1. Init => DeletionInv
  BY InitShape, InitDeletion DEF DeletionInv
<1> QED BY <1>1, DeletionStep, PTL DEF Spec
-----------------------------------------------------------------------------
(* Every variable keeps to its type: no step of any thread or request      *)
(* leaves, for instance, the attempt counter past MAX_RETRIES or a status  *)
(* the code does not know.                                                 *)
THEOREM DeliveryTypes == Spec => []TypeOK
<1>1. DeletionInv => TypeOK
  BY DEF DeletionInv, Shape
<1> QED BY <1>1, DeletionInvariance, PTL

(* A deleted event whose tombstone is discharged has no strip in the       *)
(* bucket, however uploads, retries, deletions and power cuts interleave.  *)
THEOREM DeletionIsFinal == Spec => []EventDeletionIsFinal
<1>1. DeletionInv => EventDeletionIsFinal
  BY TargetsDistinct DEF DeletionInv, DeletionFacts, DeletedStaysEmpty, EventDeletionIsFinal
<1> QED BY <1>1, DeletionInvariance, PTL

(* The queue's exclusion holds of the composed system: no session is       *)
(* held twice and the registry names exactly the sessions in flight.       *)
THEOREM DeliveryHoldsOnce == Spec => [](Q!OneHolder /\ Q!InflightExact)
<1>1. DeletionInv => Q!OneHolder /\ Q!InflightExact
  BY DEF DeletionInv, QP!IInv, QP!OneHolder, QP!InflightExact, Q!OneHolder, Q!InflightExact,
         QP!Queued, QP!Putting, Q!Queued, Q!Putting, QP!ToSet, Q!ToSet
<1> QED BY <1>1, DeletionInvariance, PTL
-----------------------------------------------------------------------------
(* A torn strip stays out of the bucket: the upload thread has seen the    *)
(* strip intact, and only a power cut, which ends the upload, tears it.    *)
TornFacts == NeverPublishTorn /\ (wpc = "upload" => dir[worker] # "torn")

(* Who neither uploads nor tears a strip keeps TornFacts. *)
LEMMA TornBystander ==
  ASSUME TornFacts, UNCHANGED <<wpc, worker, cloud>>, \A s \in Sessions : dir[s] # "torn" => dir'[s] # "torn",
         wpc # "idle" => worker \in Sessions
  PROVE  TornFacts'
BY DEF TornFacts, NeverPublishTorn

(* The upload thread looks at a strip before it reads it. *)
LEMMA WorkerTorn == ASSUME Shape, TornFacts, WorkerStep PROVE TornFacts'
<1> USE DEF TornFacts, NeverPublishTorn
<1>1. wpc # "idle" => worker \in Sessions
  BY DEF Shape, WorkerHolds
<1>2. dir' = dir
  BY DEF WorkerStep, WorkerGet, WorkerAdmit, WorkerRefused, WorkerTombstone, WorkerInspect,
         WorkerUpload, WorkerUploadFails, WorkerRecheck, WorkerPurge, WorkerPurgeFails,
         WorkerDischarge, WorkerVerify, WorkerVerifyFails, WorkerReverify, WorkerCommit,
         WorkerFinish, WorkerCallFails, WorkerRaises,
         HandlerStep, AttemptFails, AttemptUnrecorded, WorkerRecords, WorkerDies, HandlerFrame, durableVars
<1>3. ASSUME NEW s \in Sessions PROVE cloud'[s] # "torn"
  <2>1. CASE WorkerUpload \/ WorkerUploadFails
    BY <1>1, <2>1 DEF WorkerUpload, WorkerUploadFails, Shape, TypeOK, DurableTypeOK
  <2>2. CASE WorkerPurge \/ WorkerPurgeFails
    BY <2>2 DEF WorkerPurge, WorkerPurgeFails, Emptied
  <2>3. CASE ~(WorkerUpload \/ WorkerUploadFails \/ WorkerPurge \/ WorkerPurgeFails)
    BY <2>3
       DEF WorkerStep, WorkerGet, WorkerAdmit, WorkerRefused, WorkerTombstone, WorkerInspect,
           WorkerRecheck, WorkerDischarge, WorkerVerify, WorkerVerifyFails, WorkerReverify,
           WorkerCommit, WorkerFinish, WorkerCallFails, WorkerRaises,
         HandlerStep, AttemptFails, AttemptUnrecorded, WorkerRecords, WorkerDies, HandlerFrame, durableVars
  <2> QED BY <2>1, <2>2, <2>3
<1>4. wpc' = "upload" => dir[worker'] # "torn"
  BY DEF WorkerStep, WorkerGet, WorkerAdmit, WorkerRefused, WorkerTombstone, WorkerInspect,
         WorkerUpload, WorkerUploadFails, WorkerRecheck, WorkerPurge, WorkerPurgeFails,
         WorkerDischarge, WorkerVerify, WorkerVerifyFails, WorkerReverify, WorkerCommit,
         WorkerFinish, WorkerCallFails, WorkerRaises,
         HandlerStep, AttemptFails, AttemptUnrecorded, WorkerRecords, WorkerDies, HandlerFrame, WorkerFrame, qvars, JpegIsIntact
<1> QED BY <1>2, <1>3, <1>4

(* Nobody else tears a strip the upload thread has looked at. *)
LEMMA OtherTorn ==
  ASSUME Shape, TornFacts,
         \/ \E s \in Sessions : StartCheck(s) \/ StartCreate(s) \/ FinalizeBegin(s)
         \/ FinalizeStep \/ RescanStep
         \/ \E w \in Sweepers : SweepStep(w)
         \/ \E o \in Ops, k \in {"clear", "delete"}, e \in Events : OpRead(o, k, e)
         \/ \E o \in Ops : OpStep(o)
  PROVE  TornFacts'
<1> DEFINE DirKept   == \A s \in Sessions : dir[s] # "torn" => dir'[s] # "torn"
           CloudKept == \A s \in Sessions : cloud[s] # "torn" => cloud'[s] # "torn"
<1> SUFFICES UNCHANGED <<wpc, worker>> /\ DirKept /\ CloudKept
  BY DEF TornFacts, NeverPublishTorn, Shape, WorkerHolds
<1>1. ASSUME NEW s \in Sessions, StartCheck(s) \/ StartCreate(s) \/ FinalizeBegin(s)
      PROVE  UNCHANGED <<wpc, worker>> /\ DirKept /\ CloudKept
  BY <1>1 DEF StartCheck, StartCreate, FinalizeBegin, durableVars, workerVars, qvars, Shape,
              TypeOK, DurableTypeOK
<1>2. CASE FinalizeStep
  BY <1>2 DEF FinalizeStep, FinalizeCompose, FinalizeFails, FinalizeMeta, FinalizeEnqueue,
              FinalizePut, durableVars, workerVars, qvars, Shape, TypeOK, DurableTypeOK,
              Q!Mark, Q!Duplicate, Q!vars, Q!Put, Q!PutFull
<1>3. CASE RescanStep
  BY <1>3 DEF RescanStep, RescanList, RescanEnqueue, RescanPut, RescanPutFull, RescanSweep, RescanFails,
              RescanPrune, RescanFrame, durableVars, workerVars, qvars,
              Q!Mark, Q!Duplicate, Q!vars, Q!Put, Q!PutFull
<1>4. ASSUME NEW w \in Sweepers, SweepStep(w)
      PROVE  UNCHANGED <<wpc, worker>> /\ DirKept /\ CloudKept
  BY <1>4 DEF SweepStep, SweepDefer, SweepTake, SweepDelete, SweepDeleteFails, SweepComplete, SweepCompleteFails,
              SweepEnd, SweepFrame, Emptied, workerVars, qvars
<1>5. ASSUME NEW o \in Ops, OpStep(o) \/ \E k \in {"clear", "delete"}, e \in Events : OpRead(o, k, e)
      PROVE  UNCHANGED <<wpc, worker>> /\ DirKept /\ CloudKept
  BY <1>5 DEF OpStep, OpRead, OpCommit, OpRemove, OpFails, OpSweep, OpFrame, durableVars,
              workerVars, qvars
<1> QED BY <1>1, <1>2, <1>3, <1>4, <1>5

(* TornFacts, in every step. *)
LEMMA TornStep == Shape /\ TornFacts /\ [Next]_vars => TornFacts'
<1> SUFFICES ASSUME Shape, TornFacts, [Next]_vars PROVE TornFacts'
  OBVIOUS
<1>1. CASE UNCHANGED vars
  BY <1>1 DEF vars, durableVars, workerVars, qvars, TornFacts, NeverPublishTorn
<1>2. CASE Crash
  BY <1>2 DEF Crash, TornFacts, NeverPublishTorn
<1> QED BY <1>1, <1>2, WorkerTorn, OtherTorn DEF Next

(* No torn strip is ever in the bucket, whatever power cuts do to files.   *)
THEOREM TornStaysHome == Spec => []NeverPublishTorn
<1>1. Init => TornFacts
  BY DEF Init, TornFacts, NeverPublishTorn
<1>2. DeletionInv => Shape
  BY DEF DeletionInv
<1>3. TornFacts => NeverPublishTorn
  BY DEF TornFacts
<1> QED BY <1>1, <1>2, <1>3, TornStep, DeletionInvariance, PTL DEF Spec
-----------------------------------------------------------------------------
(* Session tombstones and session rows.                                    *)
Gone    == {"erased", "pruned"}
Unborn  == {"fresh", "starting"}

(* A tombstone of a session, recorded or about to be, is of a session that *)
(* was started, belongs to the request's event, and goes with its row.     *)
RowFacts ==
  /\ \A s \in Sessions : SessionTarget(s) \in tombs => row[s] \in Gone
  /\ \A o \in Ops, s \in Sessions :
       opc[o] = "commit" /\ SessionTarget(s) \in otargets[o] =>
         EventOf[s] = oevent[o] /\ row[s] \notin Unborn

(* Targets of sessions name one session and no event. *)
LEMMA SessionTargets ==
  /\ \A s, r \in Sessions : SessionTarget(s) = SessionTarget(r) => s = r
  /\ \A s \in Sessions, e \in Events : SessionTarget(s) # ContentTarget(e) /\ SessionTarget(s) # EventTarget(e)
BY DEF SessionTarget, ContentTarget, EventTarget

(* What every step but the read and the commit of a request does to rows.  *)
RowsForward ==
  /\ \A s \in Sessions : row[s] \in Gone => row'[s] \in Gone
  /\ \A s \in Sessions : row[s] \notin Unborn => row'[s] \notin Unborn
TombsShrink == tombs' \in SUBSET tombs
RequestsStay == \A o \in Ops : opc'[o] = "commit" =>
                  opc[o] = "commit" /\ otargets'[o] = otargets[o] /\ oevent'[o] = oevent[o]

(* Rows that only move on and tombstones that only go keep RowFacts. *)
LEMMA RowBystander ==
  ASSUME RowFacts, RowsForward, TombsShrink, RequestsStay
  PROVE  RowFacts'
BY DEF RowFacts, RowsForward, TombsShrink, RequestsStay

(* Setting a status never brings an erased row back. *)
LEMMA SetStatusForward ==
  ASSUME Shape, NEW s \in Sessions, NEW st \in Live, SetStatus(s, st)
  PROVE  RowsForward
BY DEF SetStatus, HasRow, Live, RowsForward, Gone, Unborn, Shape, TypeOK, DurableTypeOK

(* The upload thread moves rows on and discharges tombstones. *)
LEMMA WorkerRows == ASSUME Shape, WorkerStep PROVE RowsForward /\ TombsShrink /\ RequestsStay
<1>1. TombsShrink /\ RequestsStay
  BY DEF TombsShrink, RequestsStay, WorkerStep, WorkerGet, WorkerAdmit, WorkerRefused,
         WorkerTombstone, WorkerInspect, WorkerUpload, WorkerUploadFails, WorkerRecheck,
         WorkerPurge, WorkerPurgeFails, WorkerDischarge, WorkerVerify, WorkerVerifyFails,
         WorkerReverify, WorkerCommit, WorkerFinish, WorkerCallFails, WorkerRaises,
         HandlerStep, AttemptFails, AttemptUnrecorded, WorkerRecords, WorkerDies, HandlerFrame, WorkerFrame, durableVars, opVars
<1>2. row' = row \/ (wpc # "idle" /\ \E st \in Live : SetStatus(worker, st))
  BY DEF Live, WorkerStep, WorkerGet, WorkerAdmit, WorkerRefused,
         WorkerTombstone, WorkerInspect, WorkerUpload, WorkerUploadFails, WorkerRecheck,
         WorkerPurge, WorkerPurgeFails, WorkerDischarge, WorkerVerify, WorkerVerifyFails,
         WorkerReverify, WorkerCommit, WorkerFinish, WorkerCallFails, WorkerRaises,
         HandlerStep, AttemptFails, AttemptUnrecorded, WorkerRecords, WorkerDies, HandlerFrame, durableVars
<1>3. RowsForward
  BY <1>2, SetStatusForward DEF RowsForward, Shape, WorkerHolds
<1> QED BY <1>1, <1>3

(* So does everyone who records no tombstone. *)
LEMMA OtherRows ==
  ASSUME Shape,
         \/ \E s \in Sessions : StartCheck(s) \/ StartCreate(s) \/ FinalizeBegin(s)
         \/ FinalizeStep \/ RescanStep
         \/ \E w \in Sweepers : SweepStep(w)
         \/ \E o \in Ops : OpRemove(o) \/ OpFails(o) \/ OpSweep(o)
         \/ Crash
  PROVE  RowsForward /\ TombsShrink /\ RequestsStay
<1> USE DEF RowsForward, TombsShrink, RequestsStay, Gone, Unborn
<1>1. ASSUME NEW s \in Sessions, StartCheck(s) \/ StartCreate(s) \/ FinalizeBegin(s)
      PROVE  RowsForward /\ TombsShrink /\ RequestsStay
  BY <1>1 DEF StartCheck, StartCreate, FinalizeBegin, durableVars, opVars, Shape, TypeOK,
              DurableTypeOK
<1>2. CASE FinalizeStep
  BY <1>2 DEF FinalizeStep, FinalizeCompose, FinalizeFails, FinalizeMeta, FinalizeEnqueue,
              FinalizePut, durableVars, opVars
<1>3. CASE RescanStep
  BY <1>3 DEF RescanStep, RescanList, RescanEnqueue, RescanPut, RescanPutFull, RescanSweep, RescanFails,
              RescanPrune, RescanFrame, durableVars, opVars, HasRow, Waiting, Live
<1>4. ASSUME NEW w \in Sweepers, SweepStep(w)
      PROVE  RowsForward /\ TombsShrink /\ RequestsStay
  BY <1>4 DEF SweepStep, SweepDefer, SweepTake, SweepDelete, SweepDeleteFails, SweepComplete, SweepCompleteFails,
              SweepEnd, SweepFrame, opVars
<1>5. ASSUME NEW o \in Ops, OpRemove(o) \/ OpFails(o) \/ OpSweep(o)
      PROVE  RowsForward /\ TombsShrink /\ RequestsStay
  BY <1>5 DEF OpRemove, OpFails, OpSweep, durableVars, Shape, TypeOK, OpTypeOK
<1>6. CASE Crash
  BY <1>6 DEF Crash
<1> QED BY <1>1, <1>2, <1>3, <1>4, <1>5, <1>6

(* What a request reads are sessions of its event. *)
LEMMA ReadRows ==
  ASSUME Shape, RowFacts, NEW o \in Ops, NEW k \in {"clear", "delete"}, NEW e \in Events,
         OpRead(o, k, e)
  PROVE  RowFacts'
<1>1. UNCHANGED <<row, tombs>>
  BY DEF OpRead, durableVars
<1>2. \A p \in Ops : p # o => opc'[p] = opc[p] /\ oevent'[p] = oevent[p] /\ otargets'[p] = otargets[p]
  BY DEF OpRead, Shape, TypeOK, OpTypeOK
<1>3. /\ oevent'[o] = e
      /\ otargets'[o] = {SessionTarget(s) : s \in {s \in Sessions : EventOf[s] = e /\ HasRow(s) /\ meta[s]}}
                        \cup {OwnTarget(k, e)}
  BY DEF OpRead, Shape, TypeOK, OpTypeOK
<1>4. ASSUME NEW s \in Sessions, SessionTarget(s) \in otargets'[o]
      PROVE  EventOf[s] = e /\ row[s] \notin Unborn
  BY <1>3, <1>4, SessionTargets DEF OwnTarget, HasRow, Live, Unborn
<1> QED BY <1>1, <1>2, <1>3, <1>4 DEF RowFacts

(* Its transaction erases each row it records a tombstone for. *)
LEMMA CommitRows == ASSUME Shape, RowFacts, NEW o \in Ops, OpCommit(o) PROVE RowFacts'
<1>1. /\ opc[o] = "commit" /\ opc' = [opc EXCEPT ![o] = "remove"]
      /\ tombs' = tombs \cup otargets[o]
      /\ otargets' = [otargets EXCEPT ![o] = {}]
      /\ oevent' = oevent
      /\ \A s \in Sessions :
           row'[s] = IF EventOf[s] = oevent[o] /\ HasRow(s) THEN "erased" ELSE row[s]
  BY DEF OpCommit
<1>2. \A s \in Sessions : row[s] \in Live \cup Gone \cup Unborn
  BY DEF Shape, TypeOK, DurableTypeOK, Gone, Unborn
<1>3. RowsForward
  BY <1>1 DEF RowsForward, Gone, Unborn
<1>4. ASSUME NEW s \in Sessions, SessionTarget(s) \in tombs' PROVE row'[s] \in Gone
  BY <1>1, <1>2, <1>3, <1>4 DEF RowFacts, RowsForward, HasRow, Gone
<1>5. \A p \in Ops : opc'[p] = "commit" => opc[p] = "commit" /\ otargets'[p] = otargets[p]
  BY <1>1 DEF Shape, TypeOK, OpTypeOK
<1> QED BY <1>1, <1>3, <1>4, <1>5 DEF RowFacts, RowsForward

(* RowFacts, in every step. *)
LEMMA RowStep == Shape /\ RowFacts /\ [Next]_vars => RowFacts'
<1> SUFFICES ASSUME Shape, RowFacts, [Next]_vars PROVE RowFacts'
  OBVIOUS
<1>1. CASE UNCHANGED vars
  BY <1>1 DEF vars, durableVars, opVars, RowFacts
<1>2. CASE WorkerStep
  BY <1>2, WorkerRows, RowBystander
<1>3. ASSUME NEW o \in Ops, OpStep(o) PROVE RowFacts'
  BY <1>3, CommitRows, OtherRows, RowBystander DEF OpStep
<1> QED BY <1>1, <1>2, <1>3, ReadRows, OtherRows, RowBystander DEF Next

(* A session tombstone never outlives the decision to erase the session's  *)
(* row, so the upload thread does not skip a session that still waits.     *)
THEOREM TombstonesGoWithRows == Spec => []TombstonedRowsGone
<1>1. Init => RowFacts
  BY DEF Init, RowFacts
<1>2. DeletionInv => Shape
  BY DEF DeletionInv
<1>3. RowFacts => TombstonedRowsGone
  BY DEF RowFacts, TombstonedRowsGone, HasRow, Live, Gone
<1> QED BY <1>1, <1>2, <1>3, RowStep, DeletionInvariance, PTL DEF Spec
-----------------------------------------------------------------------------
(* What keeps a delivered strip where it is, and nameable.  Nobody works on *)
(* a session before its row was inserted.                                  *)
NewbornUntouched ==
  \A s \in Sessions : row[s] \in Unborn =>
    s \notin inflight \cup rtodo /\ fjob # s /\ cloud[s] = "none"

Working(s) == worker = s /\ wpc \notin {"idle", "admit", "except", "raise", "done"}

(* A row inserted after its event was deleted is never admitted. *)
LateRowsRefused ==
  \A s \in Sessions : HasRow(s) /\ EventOf[s] \notin events =>
    row[s] # "complete" /\ cloud[s] = "none" /\ ~Working(s)

(* Wherever a target has got to, somebody asked for what it erases. *)
Listed(t) == t \in tombs \/ \E w \in Sweepers : t \in stodo[w] \/ t = starget[w]
ErasuresMeant ==
  /\ \A e \in Events : Listed(ContentTarget(e)) => e \in cleared
  /\ \A s \in Sessions : Listed(SessionTarget(s)) => row[s] \in Gone
  /\ \A o \in Ops, e \in Events : opc[o] = "commit" /\ ContentTarget(e) \in otargets[o] =>
       okind[o] = "clear" /\ e = oevent[o]

(* So has a request that is about to remove an event's files. *)
RemovalsMeant ==
  \A o \in Ops : opc[o] = "remove" =>
    IF okind[o] = "clear" THEN oevent[o] \in cleared ELSE oevent[o] \notin events

(* What the upload thread has made sure of on its way. *)
Uncleared(s) == HasRow(s) /\ EventOf[s] \notin cleared
WorkerPromises ==
  /\ wpc = "upload" /\ Uncleared(worker) => meta[worker]
  /\ wpc = "purge" => row[worker] \in Gone
  /\ wpc \in {"reverify", "commit"} /\ Uncleared(worker) => cloud[worker] = "intact"

Outcome   == UploadedHasTarget /\ DeliveredUnlessCleared
KeptFacts == NewbornUntouched /\ LateRowsRefused /\ ErasuresMeant /\ RemovalsMeant
KeptInv   == DeletionInv /\ TornFacts /\ RowFacts /\ KeptFacts /\ WorkerPromises /\ Outcome

(* In every step rows only move on. *)
LEMMA StepRows == ASSUME Shape, [Next]_vars PROVE RowsForward
<1>1. CASE UNCHANGED vars
  BY <1>1 DEF vars, durableVars, RowsForward
<1>2. ASSUME NEW o \in Ops, NEW k \in {"clear", "delete"}, NEW e \in Events, OpRead(o, k, e)
      PROVE  RowsForward
  BY <1>2 DEF OpRead, durableVars, RowsForward
<1>3. ASSUME NEW o \in Ops, OpCommit(o) PROVE RowsForward
  BY <1>3 DEF OpCommit, RowsForward, Gone, Unborn
<1>4. CASE WorkerStep
  BY <1>4, WorkerRows
<1> QED BY <1>1, <1>2, <1>3, <1>4, OtherRows DEF Next, OpStep

(* The session the upload thread holds is registered. *)
LEMMA Registered == ASSUME QP!IInv, worker \in Sessions PROVE worker \in inflight
BY DEF QP!IInv, QP!InflightExact

(* Nobody touches a session before its row is there. *)
LEMMA NewbornStep ==
  ASSUME Shape, QP!IInv, NewbornUntouched, [Next]_vars
  PROVE  NewbornUntouched'
<1> SUFFICES ASSUME NEW s \in Sessions, row'[s] \in Unborn
             PROVE  s \notin inflight' \cup rtodo' /\ fjob' # s /\ cloud'[s] = "none"
  BY DEF NewbornUntouched
<1>1. row[s] \in Unborn
  BY StepRows DEF RowsForward
<1>2. s \notin inflight \cup rtodo /\ fjob # s /\ cloud[s] = "none" /\ None # s
  BY <1>1, DeliveryAssumption DEF NewbornUntouched
<1>3. worker # s
  BY <1>2, Registered
<1>4. cloud \in [Sessions -> {"none", "intact", "torn"}]
  BY DEF Shape, TypeOK, DurableTypeOK
<1>5. CASE UNCHANGED vars
  BY <1>2, <1>5 DEF vars, durableVars, qvars, finalVars, rescanVars
<1>6. ASSUME NEW r \in Sessions, StartCheck(r) \/ StartCreate(r) \/ FinalizeBegin(r)
      PROVE  s \notin inflight' \cup rtodo' /\ fjob' # s /\ cloud'[s] = "none"
  BY <1>1, <1>2, <1>6 DEF StartCheck, StartCreate, FinalizeBegin, durableVars, qvars, finalVars,
                          rescanVars, HasRow, Live, Unborn
<1>7. CASE FinalizeStep
  BY <1>2, <1>7 DEF FinalizeStep, FinalizeCompose, FinalizeFails, FinalizeMeta, FinalizeEnqueue,
                    FinalizePut, durableVars, qvars, rescanVars, Q!Mark, Q!Duplicate, Q!vars,
                    Q!Put, Q!PutFull
<1>8. CASE WorkerStep
  <2>1. UNCHANGED <<rtodo, fjob>> /\ inflight' \in SUBSET inflight
    BY <1>8 DEF WorkerStep, WorkerGet, WorkerAdmit, WorkerRefused, WorkerTombstone,
         WorkerInspect, WorkerUpload, WorkerUploadFails, WorkerRecheck, WorkerPurge,
         WorkerPurgeFails, WorkerDischarge, WorkerVerify, WorkerVerifyFails, WorkerReverify,
         WorkerCommit, WorkerFinish, WorkerCallFails, WorkerRaises,
         HandlerStep, AttemptFails, AttemptUnrecorded, WorkerRecords, WorkerDies, HandlerFrame, WorkerFrame, finalVars, rescanVars, qvars,
         Q!Get, Q!Finish, Q!Die
  <2>2. cloud'[s] = "none"
    BY <1>2, <1>3, <1>4, <1>8
       DEF WorkerStep, WorkerGet, WorkerAdmit, WorkerRefused, WorkerTombstone,
         WorkerInspect, WorkerUpload, WorkerUploadFails, WorkerRecheck, WorkerPurge,
         WorkerPurgeFails, WorkerDischarge, WorkerVerify, WorkerVerifyFails, WorkerReverify,
         WorkerCommit, WorkerFinish, WorkerCallFails, WorkerRaises,
         HandlerStep, AttemptFails, AttemptUnrecorded, WorkerRecords, WorkerDies, HandlerFrame, WorkerFrame, durableVars, Emptied
  <2> QED BY <1>2, <2>1, <2>2
<1>9. CASE RescanStep
  BY <1>1, <1>2, <1>9
     DEF RescanStep, RescanList, RescanEnqueue, RescanPut, RescanPutFull, RescanSweep, RescanFails,
         RescanPrune, RescanFrame, durableVars, qvars, finalVars, Waiting, Unborn, Q!Mark,
         Q!Duplicate, Q!vars, Q!Put, Q!PutFull
<1>10. ASSUME NEW w \in Sweepers, SweepStep(w)
       PROVE  s \notin inflight' \cup rtodo' /\ fjob' # s /\ cloud'[s] = "none"
  BY <1>2, <1>10 DEF SweepStep, SweepDefer, SweepTake, SweepDelete, SweepDeleteFails,
                     SweepComplete, SweepCompleteFails, SweepEnd, SweepFrame, qvars, finalVars, rescanVars, Emptied
<1>11. ASSUME NEW o \in Ops, OpStep(o) \/ \E k \in {"clear", "delete"}, e \in Events : OpRead(o, k, e)
       PROVE  s \notin inflight' \cup rtodo' /\ fjob' # s /\ cloud'[s] = "none"
  BY <1>2, <1>11 DEF OpStep, OpRead, OpCommit, OpRemove, OpFails, OpSweep, OpFrame, qvars,
                     finalVars, rescanVars
<1>12. CASE Crash
  BY <1>2, <1>12 DEF Crash, Q!Restart
<1> QED BY <1>5, <1>6, <1>7, <1>8, <1>9, <1>10, <1>11, <1>12 DEF Next

(* Rows appear only by StartCreate, and events go only with their rows.    *)
LEMMA RowOrigin ==
  ASSUME Shape, [Next]_vars, NEW s \in Sessions, HasRow(s)',
         \A r \in Sessions : StartCreate(r) => r # s
  PROVE  HasRow(s) /\ (EventOf[s] \in events => EventOf[s] \in events')
<1>0. row \in [Sessions -> Live \cup {"fresh", "starting", "erased", "pruned"}]
  BY DEF Shape, TypeOK, DurableTypeOK
<1>1. CASE UNCHANGED vars
  BY <1>1 DEF vars, durableVars, HasRow
<1>2. ASSUME NEW r \in Sessions, StartCheck(r) \/ StartCreate(r) \/ FinalizeBegin(r)
      PROVE  HasRow(s) /\ events' = events
  BY <1>0, <1>2 DEF StartCheck, StartCreate, FinalizeBegin, durableVars, HasRow, Live
<1>3. CASE FinalizeStep
  BY <1>3 DEF FinalizeStep, FinalizeCompose, FinalizeFails, FinalizeMeta, FinalizeEnqueue,
              FinalizePut, durableVars, HasRow
<1>4. CASE WorkerStep
  <2>1. row' = row \/ (\E st \in Live : SetStatus(worker, st) /\ worker \in Sessions)
    BY <1>4 DEF Live, Shape, WorkerHolds, WorkerStep, WorkerGet, WorkerAdmit, WorkerRefused,
         WorkerTombstone, WorkerInspect, WorkerUpload, WorkerUploadFails, WorkerRecheck,
         WorkerPurge, WorkerPurgeFails, WorkerDischarge, WorkerVerify, WorkerVerifyFails,
         WorkerReverify, WorkerCommit, WorkerFinish, WorkerCallFails, WorkerRaises,
         HandlerStep, AttemptFails, AttemptUnrecorded, WorkerRecords, WorkerDies, HandlerFrame, durableVars
  <2>2. events' = events
    BY <1>4 DEF WorkerStep, WorkerGet, WorkerAdmit, WorkerRefused, WorkerTombstone, WorkerInspect,
         WorkerUpload, WorkerUploadFails, WorkerRecheck, WorkerPurge, WorkerPurgeFails,
         WorkerDischarge, WorkerVerify, WorkerVerifyFails, WorkerReverify, WorkerCommit,
         WorkerFinish, WorkerCallFails, WorkerRaises,
         HandlerStep, AttemptFails, AttemptUnrecorded, WorkerRecords, WorkerDies, HandlerFrame, WorkerFrame, durableVars
  <2> QED BY <1>0, <2>1, <2>2 DEF SetStatus, HasRow
<1>5. CASE RescanStep
  BY <1>0, <1>5 DEF RescanStep, RescanList, RescanEnqueue, RescanPut, RescanPutFull, RescanSweep, RescanFails,
              RescanPrune, RescanFrame, durableVars, HasRow, Live, Waiting
<1>6. ASSUME NEW w \in Sweepers, SweepStep(w)
      PROVE  HasRow(s) /\ events' = events
  BY <1>6 DEF SweepStep, SweepDefer, SweepTake, SweepDelete, SweepDeleteFails, SweepComplete, SweepCompleteFails,
              SweepEnd, SweepFrame, HasRow
<1>7. ASSUME NEW o \in Ops, OpCommit(o)
      PROVE  HasRow(s) /\ (EventOf[s] \in events => EventOf[s] \in events')
  BY <1>7 DEF OpCommit, HasRow, Live
<1>8. ASSUME NEW o \in Ops, OpRemove(o) \/ OpFails(o) \/ OpSweep(o)
                            \/ \E k \in {"clear", "delete"}, e \in Events : OpRead(o, k, e)
      PROVE  HasRow(s) /\ events' = events
  BY <1>8 DEF OpRead, OpRemove, OpFails, OpSweep, durableVars, HasRow
<1>9. CASE Crash
  BY <1>0, <1>9 DEF Crash, HasRow, Live
<1> QED BY <1>1, <1>2, <1>3, <1>4, <1>5, <1>6, <1>7, <1>8, <1>9 DEF Next, OpStep

(* A row that came after its event went stays refused. *)
LEMMA LateStep ==
  ASSUME Shape, QP!IInv, NewbornUntouched, LateRowsRefused, [Next]_vars
  PROVE  LateRowsRefused'
<1> SUFFICES ASSUME NEW s \in Sessions, HasRow(s)', EventOf[s] \notin events'
             PROVE  row'[s] # "complete" /\ cloud'[s] = "none" /\ ~Working(s)'
  BY DEF LateRowsRefused
<1>0. row \in [Sessions -> Live \cup {"fresh", "starting", "erased", "pruned"}]
  BY DEF Shape, TypeOK, DurableTypeOK
<1>1. CASE StartCreate(s)
  <2>1. row[s] = "starting" /\ row'[s] = "pending" /\ UNCHANGED <<cloud, worker>>
    BY <1>0, <1>1 DEF StartCreate, qvars
  <2>2. cloud[s] = "none" /\ worker # s
    BY <2>1, Registered DEF NewbornUntouched, Unborn
  <2> QED BY <2>1, <2>2 DEF Working
<1>2. CASE ~StartCreate(s)
  <2>1. HasRow(s) /\ EventOf[s] \notin events
    BY <1>2, RowOrigin, Zenon
  <2>2. row[s] # "complete" /\ cloud[s] = "none" /\ ~Working(s)
    BY <2>1 DEF LateRowsRefused
  <2>3. CASE WorkerStep
    <3>1. wpc # "idle" => worker \in Sessions
      BY DEF Shape, WorkerHolds
    <3>2. ~Working(s)'
      BY <2>1, <2>2, <2>3, <3>1
         DEF Working, WorkerStep, WorkerGet, WorkerAdmit, WorkerRefused, WorkerTombstone,
             WorkerInspect, WorkerUpload, WorkerUploadFails, WorkerRecheck, WorkerPurge,
             WorkerPurgeFails, WorkerDischarge, WorkerVerify, WorkerVerifyFails, WorkerReverify,
             WorkerCommit, WorkerFinish, WorkerCallFails, WorkerRaises,
         HandlerStep, AttemptFails, AttemptUnrecorded, WorkerRecords, WorkerDies, HandlerFrame, WorkerFrame, qvars
    <3>3. cloud'[s] = "none"
      BY <2>2, <2>3, <3>1
         DEF Working, WorkerStep, WorkerGet, WorkerAdmit, WorkerRefused, WorkerTombstone,
             WorkerInspect, WorkerUpload, WorkerUploadFails, WorkerRecheck, WorkerPurge,
             WorkerPurgeFails, WorkerDischarge, WorkerVerify, WorkerVerifyFails, WorkerReverify,
             WorkerCommit, WorkerFinish, WorkerCallFails, WorkerRaises,
         HandlerStep, AttemptFails, AttemptUnrecorded, WorkerRecords, WorkerDies, HandlerFrame, WorkerFrame, durableVars, Emptied, Shape,
             TypeOK, DurableTypeOK
    <3>4. row'[s] # "complete"
      BY <1>0, <2>2, <2>3, <3>1
         DEF Working, WorkerStep, WorkerGet, WorkerAdmit, WorkerRefused, WorkerTombstone,
             WorkerInspect, WorkerUpload, WorkerUploadFails, WorkerRecheck, WorkerPurge,
             WorkerPurgeFails, WorkerDischarge, WorkerVerify, WorkerVerifyFails, WorkerReverify,
             WorkerCommit, WorkerFinish, WorkerCallFails, WorkerRaises,
         HandlerStep, AttemptFails, AttemptUnrecorded, WorkerRecords, WorkerDies, HandlerFrame, WorkerFrame, durableVars, SetStatus
    <3> QED BY <3>2, <3>3, <3>4
  <2>4. CASE UNCHANGED vars
    BY <2>2, <2>4 DEF vars, durableVars, qvars, workerVars, Working
  <2>5. ASSUME NEW r \in Sessions, StartCheck(r) \/ StartCreate(r) \/ FinalizeBegin(r)
        PROVE  row'[s] # "complete" /\ cloud'[s] = "none" /\ ~Working(s)'
    BY <1>0, <2>2, <2>5 DEF StartCheck, StartCreate, FinalizeBegin, durableVars, qvars,
                            workerVars, Working
  <2>6. CASE FinalizeStep
    BY <2>2, <2>6 DEF FinalizeStep, FinalizeCompose, FinalizeFails, FinalizeMeta, FinalizeEnqueue,
              FinalizePut, durableVars, qvars, workerVars, Working, Q!Mark, Q!Duplicate, Q!vars,
              Q!Put, Q!PutFull
  <2>7. CASE RescanStep
    BY <2>2, <2>7 DEF RescanStep, RescanList, RescanEnqueue, RescanPut, RescanPutFull, RescanSweep, RescanFails,
              RescanPrune, RescanFrame, durableVars, qvars, workerVars, Working, Q!Mark,
              Q!Duplicate, Q!vars, Q!Put, Q!PutFull
  <2>8. ASSUME NEW w \in Sweepers, SweepStep(w)
        PROVE  row'[s] # "complete" /\ cloud'[s] = "none" /\ ~Working(s)'
    BY <2>2, <2>8 DEF SweepStep, SweepDefer, SweepTake, SweepDelete, SweepDeleteFails,
              SweepComplete, SweepCompleteFails, SweepEnd, SweepFrame, qvars, workerVars, Working, Emptied
  <2>9. ASSUME NEW o \in Ops, OpStep(o) \/ \E k \in {"clear", "delete"}, e \in Events : OpRead(o, k, e)
        PROVE  row'[s] # "complete" /\ cloud'[s] = "none" /\ ~Working(s)'
    BY <2>2, <2>9 DEF OpStep, OpRead, OpCommit, OpRemove, OpFails, OpSweep, OpFrame,
              durableVars, qvars, workerVars, Working
  <2>10. CASE Crash
    BY <2>2, <2>10 DEF Crash, Working
  <2> QED BY <2>3, <2>4, <2>5, <2>6, <2>7, <2>8, <2>9, <2>10 DEF Next
<1> QED BY <1>1, <1>2

(* Targets are only copied from the table to the threads that sweep it.    *)
LEMMA ListedOrigin ==
  ASSUME Shape, [Next]_vars, NEW t \in Targets, Listed(t)'
  PROVE  Listed(t) \/ \E o \in Ops : OpCommit(o) /\ t \in otargets[o]
<1> USE DEF Listed
<1>0. /\ stodo \in [Sweepers -> SUBSET Targets] /\ starget \in [Sweepers -> Targets \cup {None}]
      /\ None # t
  BY TargetAssumption DEF Shape, TypeOK, SweepTypeOK
<1>1. CASE UNCHANGED vars
  BY <1>1 DEF vars, durableVars, sweepVars
<1>2. ASSUME NEW r \in Sessions, StartCheck(r) \/ StartCreate(r) \/ FinalizeBegin(r)
      PROVE  Listed(t)
  BY <1>2 DEF StartCheck, StartCreate, FinalizeBegin, durableVars, sweepVars
<1>3. CASE FinalizeStep
  BY <1>3 DEF FinalizeStep, FinalizeCompose, FinalizeFails, FinalizeMeta, FinalizeEnqueue,
              FinalizePut, durableVars, sweepVars
<1>4. CASE WorkerStep
  BY <1>4 DEF WorkerStep, WorkerGet, WorkerAdmit, WorkerRefused, WorkerTombstone, WorkerInspect,
         WorkerUpload, WorkerUploadFails, WorkerRecheck, WorkerPurge, WorkerPurgeFails,
         WorkerDischarge, WorkerVerify, WorkerVerifyFails, WorkerReverify, WorkerCommit,
         WorkerFinish, WorkerCallFails, WorkerRaises,
         HandlerStep, AttemptFails, AttemptUnrecorded, WorkerRecords, WorkerDies, HandlerFrame, WorkerFrame, durableVars, sweepVars
<1>5. CASE RescanStep
  BY <1>0, <1>5 DEF RescanStep, RescanList, RescanEnqueue, RescanPut, RescanPutFull, RescanSweep, RescanFails,
              RescanPrune, RescanFrame, SweepStart, durableVars, sweepVars
<1>6. ASSUME NEW w \in Sweepers, SweepStep(w)
      PROVE  Listed(t)
  BY <1>0, <1>6 DEF SweepStep, SweepDefer, SweepTake, SweepDelete, SweepDeleteFails,
                    SweepComplete, SweepCompleteFails, SweepEnd
<1>7. ASSUME NEW o \in Ops, OpCommit(o)
      PROVE  Listed(t) \/ t \in otargets[o]
  BY <1>7 DEF OpCommit, sweepVars
<1>8. ASSUME NEW o \in Ops, OpRemove(o) \/ OpFails(o) \/ OpSweep(o)
                            \/ \E k \in {"clear", "delete"}, e \in Events : OpRead(o, k, e)
      PROVE  Listed(t)
  BY <1>0, <1>8 DEF OpRead, OpRemove, OpFails, OpSweep, SweepStart, durableVars, sweepVars
<1>9. CASE Crash
  BY <1>0, <1>9 DEF Crash
<1> QED BY <1>1, <1>2, <1>3, <1>4, <1>5, <1>6, <1>7, <1>8, <1>9 DEF Next, OpStep

(* A clear marks its event as cleared in the transaction that records its  *)
(* targets, and nothing ever unmarks it; deleted events stay deleted.      *)
LEMMA OpsForward ==
  ASSUME Shape, [Next]_vars
  PROVE  /\ cleared \in SUBSET cleared' /\ events' \in SUBSET events
         /\ \A o \in Ops : opc'[o] = "commit" =>
              \/ opc[o] = "commit" /\ oevent'[o] = oevent[o] /\ okind'[o] = okind[o]
                 /\ otargets'[o] = otargets[o]
              \/ \E k \in {"clear", "delete"}, e \in Events : OpRead(o, k, e)
         /\ \A o \in Ops : opc'[o] = "remove" =>
              \/ opc[o] = "remove" /\ oevent'[o] = oevent[o] /\ okind'[o] = okind[o]
              \/ OpCommit(o)
<1> DEFINE Forward(o) ==
      /\ opc'[o] = "commit" =>
           \/ opc[o] = "commit" /\ oevent'[o] = oevent[o] /\ okind'[o] = okind[o]
              /\ otargets'[o] = otargets[o]
           \/ \E k \in {"clear", "delete"}, e \in Events : OpRead(o, k, e)
      /\ opc'[o] = "remove" =>
           \/ opc[o] = "remove" /\ oevent'[o] = oevent[o] /\ okind'[o] = okind[o]
           \/ OpCommit(o)
<1>0. /\ opc \in [Ops -> {"ready", "commit", "remove", "sweep", "done"}]
      /\ oevent \in [Ops -> Events \cup {None}] /\ okind \in [Ops -> {"clear", "delete"}]
      /\ otargets \in [Ops -> SUBSET Targets]
  BY DEF Shape, TypeOK, OpTypeOK
<1> SUFFICES /\ cleared \in SUBSET cleared' /\ events' \in SUBSET events
             /\ \A o \in Ops : Forward(o)
  OBVIOUS
<1>1. CASE UNCHANGED vars
  BY <1>1 DEF vars, durableVars, opVars
<1>2. ASSUME NEW r \in Sessions, StartCheck(r) \/ StartCreate(r) \/ FinalizeBegin(r)
      PROVE  UNCHANGED <<cleared, events, opc, oevent, okind, otargets>>
  BY <1>2 DEF StartCheck, StartCreate, FinalizeBegin, durableVars, opVars
<1>3. CASE FinalizeStep
  BY <1>3 DEF FinalizeStep, FinalizeCompose, FinalizeFails, FinalizeMeta, FinalizeEnqueue,
              FinalizePut, durableVars, opVars
<1>4. CASE WorkerStep
  BY <1>4 DEF WorkerStep, WorkerGet, WorkerAdmit, WorkerRefused, WorkerTombstone, WorkerInspect,
         WorkerUpload, WorkerUploadFails, WorkerRecheck, WorkerPurge, WorkerPurgeFails,
         WorkerDischarge, WorkerVerify, WorkerVerifyFails, WorkerReverify, WorkerCommit,
         WorkerFinish, WorkerCallFails, WorkerRaises,
         HandlerStep, AttemptFails, AttemptUnrecorded, WorkerRecords, WorkerDies, HandlerFrame, WorkerFrame, durableVars, opVars
<1>5. CASE RescanStep
  BY <1>5 DEF RescanStep, RescanList, RescanEnqueue, RescanPut, RescanPutFull, RescanSweep, RescanFails,
              RescanPrune, RescanFrame, durableVars, opVars
<1>6. ASSUME NEW w \in Sweepers, SweepStep(w)
      PROVE  UNCHANGED <<cleared, events, opc, oevent, okind, otargets>>
  BY <1>6 DEF SweepStep, SweepDefer, SweepTake, SweepDelete, SweepDeleteFails,
              SweepComplete, SweepCompleteFails, SweepEnd, SweepFrame, opVars
<1>7. ASSUME NEW p \in Ops, OpCommit(p)
      PROVE  /\ cleared \in SUBSET cleared' /\ events' \in SUBSET events
             /\ \A o \in Ops : Forward(o)
  <2>1. cleared \in SUBSET cleared' /\ events' \in SUBSET events
    BY <1>7 DEF OpCommit, Shape, TypeOK, DurableTypeOK
  <2>2. /\ opc' = [opc EXCEPT ![p] = "remove"] /\ otargets' = [otargets EXCEPT ![p] = {}]
        /\ UNCHANGED <<oevent, okind>>
    BY <1>7 DEF OpCommit
  <2>3. ASSUME NEW o \in Ops PROVE Forward(o)
    BY <1>0, <1>7, <2>2
  <2> QED BY <2>1, <2>3
<1>8. ASSUME NEW p \in Ops, OpRemove(p) \/ OpFails(p) \/ OpSweep(p)
      PROVE  /\ cleared \in SUBSET cleared' /\ events' \in SUBSET events
             /\ \A o \in Ops : Forward(o)
  BY <1>0, <1>8 DEF OpRemove, OpFails, OpSweep, durableVars
<1>9. ASSUME NEW p \in Ops, NEW k \in {"clear", "delete"}, NEW e \in Events, OpRead(p, k, e)
      PROVE  /\ cleared \in SUBSET cleared' /\ events' \in SUBSET events
             /\ \A o \in Ops : Forward(o)
  <2>1. UNCHANGED <<cleared, events>>
    BY <1>9 DEF OpRead, durableVars
  <2>2. \A o \in Ops : o # p => /\ opc'[o] = opc[o] /\ oevent'[o] = oevent[o]
                                /\ okind'[o] = okind[o] /\ otargets'[o] = otargets[o]
    BY <1>0, <1>9 DEF OpRead
  <2>3. opc'[p] = "commit"
    BY <1>0, <1>9 DEF OpRead
  <2>4. ASSUME NEW o \in Ops PROVE Forward(o)
    BY <1>9, <2>2, <2>3
  <2> QED BY <2>1, <2>4
<1>10. CASE Crash
  BY <1>0, <1>10 DEF Crash
<1> QED BY <1>1, <1>2, <1>3, <1>4, <1>5, <1>6, <1>7, <1>8, <1>9, <1>10 DEF Next, OpStep

(* The three kinds of target are told apart. *)
LEMMA TargetKinds ==
  /\ \A s \in Sessions : SessionTarget(s) \in Targets
  /\ \A e \in Events : ContentTarget(e) \in Targets /\ EventTarget(e) \in Targets
  /\ \A e, f \in Events : /\ ContentTarget(e) # EventTarget(f)
                          /\ ContentTarget(e) = ContentTarget(f) => e = f
  /\ \A s \in Sessions, e \in Events : SessionTarget(s) # ContentTarget(e)
BY DEF Targets, SessionTarget, ContentTarget, EventTarget

(* No step lists a target nobody asked to erase. *)
LEMMA ErasuresStep ==
  ASSUME Shape, RowFacts, ErasuresMeant, [Next]_vars, RowFacts'
  PROVE  ErasuresMeant'
<1>1. ASSUME NEW e \in Events, Listed(ContentTarget(e))' PROVE e \in cleared'
  <2>1. CASE Listed(ContentTarget(e))
    BY <2>1, OpsForward DEF ErasuresMeant
  <2>2. ASSUME NEW o \in Ops, OpCommit(o), ContentTarget(e) \in otargets[o]
        PROVE  e \in cleared'
    BY <2>2 DEF OpCommit, ErasuresMeant
  <2> QED BY <1>1, <2>1, <2>2, ListedOrigin, TargetKinds, Zenon DEF Listed
<1>2. ASSUME NEW s \in Sessions, Listed(SessionTarget(s))' PROVE row'[s] \in Gone
  <2>1. CASE Listed(SessionTarget(s))
    BY <2>1, StepRows DEF ErasuresMeant, RowsForward
  <2>2. ASSUME NEW o \in Ops, OpCommit(o), SessionTarget(s) \in otargets[o]
        PROVE  row'[s] \in Gone
    BY <2>2 DEF OpCommit, RowFacts
  <2> QED BY <1>2, <2>1, <2>2, ListedOrigin, TargetKinds, Zenon DEF Listed
<1>3. ASSUME NEW o \in Ops, NEW e \in Events, opc'[o] = "commit", ContentTarget(e) \in otargets'[o]
      PROVE  okind'[o] = "clear" /\ e = oevent'[o]
  <2>1. ASSUME NEW k \in {"clear", "delete"}, NEW f \in Events, OpRead(o, k, f)
        PROVE  okind'[o] = "clear" /\ e = oevent'[o]
    <3>1. /\ oevent'[o] = f /\ okind'[o] = k
          /\ otargets'[o] = {SessionTarget(s) : s \in {s \in Sessions : EventOf[s] = f /\ HasRow(s) /\ meta[s]}}
                            \cup {OwnTarget(k, f)}
      BY <2>1 DEF OpRead, Shape, TypeOK, OpTypeOK
    <3>2. ContentTarget(e) = OwnTarget(k, f)
      BY <1>3, <3>1, TargetKinds
    <3> QED BY <3>1, <3>2, TargetKinds DEF OwnTarget
  <2> QED BY <1>3, <2>1, OpsForward DEF ErasuresMeant
<1> QED BY <1>1, <1>2, <1>3 DEF ErasuresMeant

(* No step removes the files of an event nobody cleared or deleted. *)
LEMMA RemovalsStep ==
  ASSUME Shape, RemovalsMeant, [Next]_vars
  PROVE  RemovalsMeant'
<1> SUFFICES ASSUME NEW o \in Ops, opc'[o] = "remove"
             PROVE  IF okind'[o] = "clear" THEN oevent'[o] \in cleared' ELSE oevent'[o] \notin events'
  BY DEF RemovalsMeant
<1>1. CASE OpCommit(o)
  BY <1>1 DEF OpCommit, Shape, TypeOK, OpTypeOK
<1>2. CASE ~OpCommit(o)
  <2>1. opc[o] = "remove" /\ oevent'[o] = oevent[o] /\ okind'[o] = okind[o]
    BY <1>2, OpsForward
  <2> QED BY <2>1, OpsForward DEF RemovalsMeant
<1> QED BY <1>1, <1>2

(* Nobody erases the strip of a live row whose event was never cleared,   *)
(* once it is in the bucket or on its way there.                          *)
LEMMA Spared ==
  ASSUME TombstonedEventsGone, LateRowsRefused, ErasuresMeant,
         NEW s \in Sessions, Uncleared(s), cloud[s] # "none" \/ Working(s),
         NEW w \in Sweepers
  PROVE  ~Covers(starget[w], s)
<1>1. EventOf[s] \in Events
  BY DeliveryAssumption
<1>2. EventOf[s] \in events
  BY DEF LateRowsRefused, Uncleared
<1>3. starget[w] # EventTarget(EventOf[s])
  BY <1>1, <1>2 DEF TombstonedEventsGone
<1>4. starget[w] # ContentTarget(EventOf[s])
  BY <1>1 DEF ErasuresMeant, Listed, Uncleared
<1>5. starget[w] # SessionTarget(s)
  BY DEF ErasuresMeant, Listed, Uncleared, HasRow, Live, Gone
<1> QED BY <1>3, <1>4, <1>5 DEF Covers

(* An uncleared strip that is in the bucket stays there. *)
LEMMA CloudStays ==
  ASSUME Shape, TombstonedEventsGone, LateRowsRefused, ErasuresMeant, WorkerPromises,
         [Next]_vars, NeverPublishTorn',
         NEW s \in Sessions, Uncleared(s), cloud[s] = "intact"
  PROVE  cloud'[s] = "intact"
<1>0. cloud \in [Sessions -> {"none", "intact", "torn"}] /\ (wpc # "idle" => worker \in Sessions)
  BY DEF Shape, TypeOK, DurableTypeOK, WorkerHolds
<1>1. CASE UNCHANGED vars
  BY <1>1 DEF vars, durableVars
<1>2. ASSUME NEW r \in Sessions, StartCheck(r) \/ StartCreate(r) \/ FinalizeBegin(r)
      PROVE  cloud' = cloud
  BY <1>2 DEF StartCheck, StartCreate, FinalizeBegin, durableVars
<1>3. CASE FinalizeStep
  BY <1>3 DEF FinalizeStep, FinalizeCompose, FinalizeFails, FinalizeMeta, FinalizeEnqueue,
              FinalizePut, durableVars
<1>4. CASE WorkerUpload \/ WorkerUploadFails
  <2>1. \/ cloud' = cloud
        \/ dir[worker] \in {"intact", "torn"} /\ cloud' = [cloud EXCEPT ![worker] = dir[worker]]
    BY <1>4 DEF WorkerUpload, WorkerUploadFails, StripReadable
  <2> QED BY <1>0, <2>1 DEF NeverPublishTorn
<1>5. CASE WorkerPurge \/ WorkerPurgeFails
  <2>1. row[worker] \in Gone /\ worker \in Sessions
    BY <1>0, <1>5 DEF WorkerPurge, WorkerPurgeFails, WorkerPromises
  <2>2. worker # s
    BY <2>1 DEF Uncleared, HasRow, Live, Gone
  <2>3. ~Covers(SessionTarget(worker), s)
    BY <2>1, <2>2, DeliveryAssumption, TargetKinds, TargetsDistinct, SessionTargets DEF Covers
  <2> QED BY <1>5, <2>3 DEF WorkerPurge, WorkerPurgeFails, Emptied
<1>6. CASE WorkerStep /\ ~(WorkerUpload \/ WorkerUploadFails \/ WorkerPurge \/ WorkerPurgeFails)
  BY <1>6 DEF WorkerStep, WorkerGet, WorkerAdmit, WorkerRefused, WorkerTombstone, WorkerInspect,
              WorkerRecheck, WorkerDischarge, WorkerVerify, WorkerVerifyFails, WorkerReverify,
              WorkerCommit, WorkerFinish, WorkerCallFails, WorkerRaises,
         HandlerStep, AttemptFails, AttemptUnrecorded, WorkerRecords, WorkerDies, HandlerFrame, durableVars
<1>7. CASE RescanStep
  BY <1>7 DEF RescanStep, RescanList, RescanEnqueue, RescanPut, RescanPutFull, RescanSweep, RescanFails,
              RescanPrune, RescanFrame, durableVars
<1>8. ASSUME NEW w \in Sweepers, SweepStep(w)
      PROVE  cloud'[s] = "intact"
  <2>1. cloud' \in {cloud, Emptied(starget[w])}
    BY <1>8 DEF SweepStep, SweepDefer, SweepTake, SweepDelete, SweepDeleteFails,
                SweepComplete, SweepCompleteFails, SweepEnd
  <2>2. ~Covers(starget[w], s)
    BY Spared
  <2> QED BY <2>1, <2>2 DEF Emptied
<1>9. ASSUME NEW o \in Ops, OpStep(o) \/ \E k \in {"clear", "delete"}, e \in Events : OpRead(o, k, e)
      PROVE  cloud' = cloud
  BY <1>9 DEF OpStep, OpRead, OpCommit, OpRemove, OpFails, OpSweep, OpFrame
<1>10. CASE Crash
  BY <1>10 DEF Crash
<1> QED BY <1>1, <1>2, <1>3, <1>4, <1>5, <1>6, <1>7, <1>8, <1>9, <1>10 DEF Next

(* An uncleared session's meta.json keeps naming its target. *)
LEMMA MetaStays ==
  ASSUME Shape, LateRowsRefused, RemovalsMeant, [Next]_vars,
         NEW s \in Sessions, Uncleared(s), Uncleared(s)', meta[s],
         cloud[s] # "none" \/ Working(s)
  PROVE  meta'[s]
<1>0. meta \in [Sessions -> BOOLEAN] /\ (wpc # "idle" => worker \in Sessions)
  BY DEF Shape, TypeOK, DurableTypeOK, WorkerHolds
<1>1. CASE UNCHANGED vars
  BY <1>1 DEF vars, durableVars
<1>2. ASSUME NEW r \in Sessions, StartCheck(r) \/ StartCreate(r) \/ FinalizeBegin(r)
      PROVE  meta' = meta
  BY <1>2 DEF StartCheck, StartCreate, FinalizeBegin, durableVars
<1>3. CASE FinalizeStep
  BY <1>0, <1>3 DEF FinalizeStep, FinalizeCompose, FinalizeFails, FinalizeMeta, FinalizeEnqueue,
              FinalizePut, durableVars, Shape, TypeOK, ThreadTypeOK
<1>4. CASE WorkerStep
  BY <1>0, <1>4
     DEF WorkerStep, WorkerGet, WorkerAdmit, WorkerRefused, WorkerTombstone, WorkerInspect,
         WorkerUpload, WorkerUploadFails, WorkerRecheck, WorkerPurge, WorkerPurgeFails,
         WorkerDischarge, WorkerVerify, WorkerVerifyFails, WorkerReverify, WorkerCommit,
         WorkerFinish, WorkerCallFails, WorkerRaises,
         HandlerStep, AttemptFails, AttemptUnrecorded, WorkerRecords, WorkerDies, HandlerFrame, WorkerFrame, durableVars
<1>5. CASE RescanPrune
  <2>1. PICK old \in SUBSET Sessions :
          /\ row' = [r \in Sessions |-> IF r \in old THEN "pruned" ELSE row[r]]
          /\ meta' = [r \in Sessions |-> r \notin old /\ meta[r]]
    BY <1>5 DEF RescanPrune
  <2>2. s \notin old
    BY <2>1 DEF Uncleared, HasRow, Live
  <2> QED BY <2>1, <2>2
<1>6. CASE RescanStep /\ ~RescanPrune
  BY <1>6 DEF RescanStep, RescanList, RescanEnqueue, RescanPut, RescanPutFull, RescanSweep, RescanFails,
              RescanFrame, durableVars
<1>7. ASSUME NEW w \in Sweepers, SweepStep(w)
      PROVE  meta' = meta
  BY <1>7 DEF SweepStep, SweepDefer, SweepTake, SweepDelete, SweepDeleteFails,
              SweepComplete, SweepCompleteFails, SweepEnd, SweepFrame
<1>8. ASSUME NEW o \in Ops, OpRemove(o)
      PROVE  meta'[s]
  <2>1. opc[o] = "remove" /\ meta' = [r \in Sessions |-> EventOf[r] # oevent[o] /\ meta[r]]
    BY <1>8 DEF OpRemove
  <2>2. EventOf[s] \in events
    BY DEF LateRowsRefused, Uncleared
  <2>3. EventOf[s] # oevent[o]
    BY <2>1, <2>2 DEF RemovalsMeant, Uncleared
  <2> QED BY <2>1, <2>3
<1>9. ASSUME NEW o \in Ops, OpCommit(o) \/ OpFails(o) \/ OpSweep(o)
                            \/ \E k \in {"clear", "delete"}, e \in Events : OpRead(o, k, e)
      PROVE  meta' = meta
  BY <1>9 DEF OpRead, OpCommit, OpFails, OpSweep, durableVars
<1>10. CASE Crash
  BY <1>10 DEF Crash, Uncleared
<1> QED BY <1>1, <1>2, <1>3, <1>4, <1>5, <1>6, <1>7, <1>8, <1>9, <1>10 DEF Next, OpStep

(* A row the upload thread may change or that is complete was there before. *)
LEMMA UnclearedOrigin ==
  ASSUME Shape, QP!IInv, NewbornUntouched, [Next]_vars, NEW s \in Sessions, Uncleared(s)',
         worker = s \/ row[s] \in Live \/ cloud[s] # "none"
  PROVE  Uncleared(s)
<1>1. row[s] # "starting"
  BY Registered DEF NewbornUntouched, Unborn, Live
<1>2. ASSUME NEW r \in Sessions, StartCreate(r) PROVE r # s
  BY <1>1, <1>2 DEF StartCreate
<1>3. HasRow(s)
  BY <1>2, RowOrigin DEF Uncleared
<1> QED BY <1>3, OpsForward DEF Uncleared

(* What the upload thread has made sure of stays so until it acts on it. *)
LEMMA PromisesStep ==
  ASSUME KeptInv, [Next]_vars, NeverPublishTorn'
  PROVE  WorkerPromises'
<1> USE DEF KeptInv, DeletionInv, DeletionFacts, KeptFacts
<1>0. /\ wpc # "idle" => worker \in Sessions
      /\ row \in [Sessions -> Live \cup {"fresh", "starting", "erased", "pruned"}]
      /\ meta \in [Sessions -> BOOLEAN]
  BY DEF Shape, WorkerHolds, TypeOK, DurableTypeOK
<1>1. CASE WorkerStep
  <2>1. ASSUME wpc' = "upload", Uncleared(worker)' PROVE meta'[worker']
    <3>1. wpc = "inspect" /\ WorkerInspect
      BY <1>1, <2>1 DEF WorkerStep, WorkerGet, WorkerAdmit, WorkerRefused, WorkerTombstone,
         WorkerInspect, WorkerUpload, WorkerUploadFails, WorkerRecheck, WorkerPurge,
         WorkerPurgeFails, WorkerDischarge, WorkerVerify, WorkerVerifyFails, WorkerReverify,
         WorkerCommit, WorkerFinish, WorkerCallFails, WorkerRaises,
         HandlerStep, AttemptFails, AttemptUnrecorded, WorkerRecords, WorkerDies, HandlerFrame, WorkerFrame
    <3>2. worker' = worker /\ worker \in Sessions
      BY <1>0, <3>1 DEF WorkerInspect, WorkerFrame, qvars
    <3>3. HasRow(worker)
      BY <2>1, <3>2, UnclearedOrigin DEF Uncleared, HasRow
    <3> QED BY <1>0, <2>1, <3>1, <3>2, <3>3 DEF WorkerInspect
  <2>2. ASSUME wpc' = "purge" PROVE row'[worker'] \in Gone
    <3>1. wpc # "idle" /\ SessionTarget(worker) \in tombs /\ UNCHANGED <<row, worker>>
      BY <1>1, <2>2 DEF WorkerStep, WorkerGet, WorkerAdmit, WorkerRefused, WorkerTombstone,
         WorkerInspect, WorkerUpload, WorkerUploadFails, WorkerRecheck, WorkerPurge,
         WorkerPurgeFails, WorkerDischarge, WorkerVerify, WorkerVerifyFails, WorkerReverify,
         WorkerCommit, WorkerFinish, WorkerCallFails, WorkerRaises,
         HandlerStep, AttemptFails, AttemptUnrecorded, WorkerRecords, WorkerDies, HandlerFrame, WorkerFrame, qvars
    <3> QED BY <1>0, <3>1 DEF RowFacts
  <2>3. ASSUME wpc' \in {"reverify", "commit"}, Uncleared(worker)'
        PROVE  cloud'[worker'] = "intact"
    <3>1. /\ wpc # "idle" /\ UNCHANGED <<row, worker, cloud, cleared>>
          /\ \/ wpc = "verify" /\ StripReadable /\ cloud[worker] = dir[worker]
             \/ wpc = "reverify"
      BY <1>1, <2>3 DEF WorkerStep, WorkerGet, WorkerAdmit, WorkerRefused, WorkerTombstone,
         WorkerInspect, WorkerUpload, WorkerUploadFails, WorkerRecheck, WorkerPurge,
         WorkerPurgeFails, WorkerDischarge, WorkerVerify, WorkerVerifyFails, WorkerReverify,
         WorkerCommit, WorkerFinish, WorkerCallFails, WorkerRaises,
         HandlerStep, AttemptFails, AttemptUnrecorded, WorkerRecords, WorkerDies, HandlerFrame, WorkerFrame, qvars
    <3>2. Uncleared(worker)
      BY <2>3, <3>1 DEF Uncleared, HasRow
    <3>3. CASE wpc = "reverify"
      BY <3>1, <3>2, <3>3 DEF WorkerPromises
    <3>4. CASE StripReadable /\ cloud[worker] = dir[worker]
      BY <1>0, <3>1, <3>4 DEF StripReadable, TornFacts, NeverPublishTorn
    <3> QED BY <3>1, <3>3, <3>4
  <2> QED BY <2>1, <2>2, <2>3 DEF WorkerPromises
<1>2. CASE wpc' = "idle"
  BY <1>2 DEF WorkerPromises
<1>3. CASE UNCHANGED <<wpc, worker>> /\ wpc # "idle"
  <2>1. worker \in Sessions /\ worker' = worker
    BY <1>0, <1>3
  <2>2. ASSUME wpc = "upload", Uncleared(worker)' PROVE meta'[worker]
    <3>1. Uncleared(worker)
      BY <1>3, <2>1, <2>2, UnclearedOrigin DEF Uncleared, HasRow
    <3>2. meta[worker] /\ Working(worker)
      BY <2>2, <3>1 DEF WorkerPromises, Working
    <3> QED BY <2>1, <2>2, <3>1, <3>2, MetaStays DEF Uncleared, HasRow
  <2>3. wpc = "purge" => row'[worker] \in Gone
    BY <2>1, StepRows DEF RowsForward, WorkerPromises
  <2>4. ASSUME wpc \in {"reverify", "commit"}, Uncleared(worker)' PROVE cloud'[worker] = "intact"
    <3>1. Uncleared(worker)
      BY <1>3, <2>1, <2>4, UnclearedOrigin DEF Uncleared, HasRow
    <3>2. cloud[worker] = "intact"
      BY <2>4, <3>1 DEF WorkerPromises
    <3> QED BY <2>1, <3>1, <3>2, CloudStays
  <2> QED BY <1>3, <2>2, <2>3, <2>4 DEF WorkerPromises
<1>4. WorkerStep \/ wpc' = "idle" \/ (UNCHANGED <<wpc, worker>> /\ wpc # "idle")
  BY DEF Next, vars, qvars, workerVars, StartCheck, StartCreate, FinalizeBegin, FinalizeStep,
         FinalizeCompose, FinalizeFails, FinalizeMeta, FinalizeEnqueue, FinalizePut, RescanStep,
         RescanList, RescanEnqueue, RescanPut, RescanPutFull, RescanSweep, RescanFails, RescanPrune,
         RescanFrame, SweepStep, SweepDefer, SweepTake, SweepDelete, SweepDeleteFails,
         SweepComplete, SweepCompleteFails, SweepEnd, SweepFrame, OpStep, OpRead, OpCommit, OpRemove, OpFails,
         OpSweep, OpFrame, Crash, Q!Mark, Q!Duplicate, Q!vars, Q!Put, Q!PutFull
<1> QED BY <1>1, <1>2, <1>3, <1>4

(* The two properties follow in the next state. *)
LEMMA OutcomeStep ==
  ASSUME KeptInv, [Next]_vars, NeverPublishTorn'
  PROVE  Outcome'
<1> USE DEF KeptInv, DeletionInv, DeletionFacts, KeptFacts, Outcome
<1>0. /\ wpc # "idle" => worker \in Sessions
      /\ row \in [Sessions -> Live \cup {"fresh", "starting", "erased", "pruned"}]
      /\ cloud \in [Sessions -> {"none", "intact", "torn"}]
  BY DEF Shape, WorkerHolds, TypeOK, DurableTypeOK
<1>1. ASSUME NEW s \in Sessions, cloud'[s] # "none", Uncleared(s)' PROVE meta'[s]
  <2>1. CASE cloud[s] # "none"
    <3>1. Uncleared(s)
      BY <1>1, <2>1, UnclearedOrigin
    <3>2. meta[s]
      BY <2>1, <3>1 DEF UploadedHasTarget, Uncleared
    <3> QED BY <1>1, <2>1, <3>1, <3>2, MetaStays
  <2>2. CASE cloud[s] = "none"
    <3>1. wpc = "upload" /\ worker = s /\ meta' = meta
      <4>1. CASE WorkerStep
        BY <1>0, <1>1, <2>2, <4>1
           DEF WorkerStep, WorkerGet, WorkerAdmit, WorkerRefused, WorkerTombstone,
         WorkerInspect, WorkerUpload, WorkerUploadFails, WorkerRecheck, WorkerPurge,
         WorkerPurgeFails, WorkerDischarge, WorkerVerify, WorkerVerifyFails, WorkerReverify,
         WorkerCommit, WorkerFinish, WorkerCallFails, WorkerRaises,
         HandlerStep, AttemptFails, AttemptUnrecorded, WorkerRecords, WorkerDies, HandlerFrame, WorkerFrame, durableVars, Emptied
      <4>2. CASE ~WorkerStep
        <5>1. cloud' = cloud \/ \E w \in Sweepers : cloud' = Emptied(starget[w])
          BY <4>2 DEF Next, vars, durableVars, StartCheck, StartCreate, FinalizeBegin, FinalizeStep,
         FinalizeCompose, FinalizeFails, FinalizeMeta, FinalizeEnqueue, FinalizePut, RescanStep,
         RescanList, RescanEnqueue, RescanPut, RescanPutFull, RescanSweep, RescanFails, RescanPrune,
         RescanFrame, SweepStep, SweepDefer, SweepTake, SweepDelete, SweepDeleteFails,
         SweepComplete, SweepCompleteFails, SweepEnd, SweepFrame, OpStep, OpRead, OpCommit, OpRemove, OpFails,
         OpSweep, OpFrame, Crash
        <5> QED BY <1>1, <2>2, <5>1 DEF Emptied
      <4> QED BY <4>1, <4>2
    <3>2. Uncleared(s)
      BY <1>1, <3>1, UnclearedOrigin
    <3> QED BY <3>1, <3>2 DEF WorkerPromises
  <2> QED BY <2>1, <2>2
<1>2. ASSUME NEW s \in Sessions, row'[s] = "complete", EventOf[s] \notin cleared'
      PROVE  cloud'[s] = "intact"
  <2>0. Uncleared(s)'
    BY <1>2 DEF Uncleared, HasRow, Live
  <2>1. CASE row[s] = "complete"
    <3>1. Uncleared(s)
      BY <2>0, <2>1, UnclearedOrigin DEF Live
    <3>2. cloud[s] = "intact"
      BY <2>1, <3>1 DEF DeliveredUnlessCleared, Uncleared
    <3> QED BY <3>1, <3>2, CloudStays
  <2>2. CASE row[s] # "complete"
    <3>1. wpc = "commit" /\ worker = s /\ cloud' = cloud
      <4>1. CASE WorkerStep
        BY <1>0, <1>2, <2>2, <4>1
           DEF WorkerStep, WorkerGet, WorkerAdmit, WorkerRefused, WorkerTombstone,
         WorkerInspect, WorkerUpload, WorkerUploadFails, WorkerRecheck, WorkerPurge,
         WorkerPurgeFails, WorkerDischarge, WorkerVerify, WorkerVerifyFails, WorkerReverify,
         WorkerCommit, WorkerFinish, WorkerCallFails, WorkerRaises,
         HandlerStep, AttemptFails, AttemptUnrecorded, WorkerRecords, WorkerDies, HandlerFrame, WorkerFrame, durableVars, SetStatus
      <4>2. CASE ~WorkerStep
        BY <1>0, <1>2, <2>2, <4>2 DEF Next, vars, durableVars, StartCheck, StartCreate, FinalizeBegin,
         FinalizeStep, FinalizeCompose, FinalizeFails, FinalizeMeta, FinalizeEnqueue, FinalizePut,
         RescanStep, RescanList, RescanEnqueue, RescanPut, RescanPutFull, RescanSweep, RescanFails, RescanPrune,
         RescanFrame, SweepStep, SweepDefer, SweepTake, SweepDelete, SweepDeleteFails,
         SweepComplete, SweepCompleteFails, SweepEnd, SweepFrame, OpStep, OpRead, OpCommit, OpRemove, OpFails,
         OpSweep, OpFrame, Crash
      <4> QED BY <4>1, <4>2
    <3>2. Uncleared(s)
      BY <2>0, <3>1, UnclearedOrigin
    <3> QED BY <3>1, <3>2 DEF WorkerPromises
  <2> QED BY <2>1, <2>2
<1> QED BY <1>1, <1>2 DEF UploadedHasTarget, DeliveredUnlessCleared, Uncleared

(* All of KeptInv, in every step. *)
LEMMA KeptStep == KeptInv /\ [Next]_vars => KeptInv'
<1> SUFFICES ASSUME KeptInv, [Next]_vars PROVE KeptInv'
  OBVIOUS
<1>1. DeletionInv' /\ TornFacts' /\ RowFacts'
  BY DeletionStep, TornStep, RowStep DEF KeptInv, DeletionInv
<1>2. NeverPublishTorn'
  BY <1>1 DEF TornFacts
<1>3. KeptFacts'
  BY <1>1, NewbornStep, LateStep, ErasuresStep, RemovalsStep DEF KeptInv, DeletionInv, KeptFacts
<1> QED BY <1>1, <1>2, <1>3, PromisesStep, OutcomeStep DEF KeptInv

(* KeptInv is an invariant. *)
LEMMA KeptInvariance == Spec => []KeptInv
<1>1. ASSUME Init PROVE KeptInv
  <2>1. DeletionInv
    BY <1>1, InitShape, InitDeletion DEF DeletionInv
  <2>2. TornFacts /\ RowFacts
    BY <1>1 DEF Init, TornFacts, NeverPublishTorn, RowFacts
  <2>3. NewbornUntouched
    BY <1>1, DeliveryAssumption DEF Init, Q!Init, NewbornUntouched
  <2>4. LateRowsRefused /\ RemovalsMeant /\ WorkerPromises /\ Outcome
    BY <1>1 DEF Init, LateRowsRefused, RemovalsMeant, WorkerPromises, Outcome, UploadedHasTarget,
                DeliveredUnlessCleared, HasRow, Live
  <2>5. ErasuresMeant
    BY <1>1, TargetAssumption, TargetKinds DEF Init, ErasuresMeant, Listed
  <2> QED BY <2>1, <2>2, <2>3, <2>4, <2>5 DEF KeptInv, KeptFacts
<1> QED BY <1>1, KeptStep, PTL DEF Spec

(* A strip in the bucket whose row is there is named by its meta.json, so  *)
(* that a later deletion finds it, unless the event was cleared before.    *)
THEOREM UploadsAreNamed == Spec => []UploadedHasTarget
<1>1. KeptInv => UploadedHasTarget
  BY DEF KeptInv, Outcome
<1> QED BY <1>1, KeptInvariance, PTL

(* What is shown as delivered is in the bucket, whole, unless the event's  *)
(* photos were cleared: no failing call, retry, deletion or power cut in   *)
(* between is taken for a delivery or undoes one.                          *)
THEOREM DeliveredIsThere == Spec => []DeliveredUnlessCleared
<1>1. KeptInv => DeliveredUnlessCleared
  BY DEF KeptInv, Outcome
<1> QED BY <1>1, KeptInvariance, PTL
=============================================================================
