--------------------------- MODULE GuestDelivery ----------------------------
(***************************************************************************)
(* How a guest's strip reaches the private R2 bucket and how an operator's *)
(* deletion takes it out again: the upload thread, the rescan thread, the  *)
(* finalize request, clear-photos and delete-event requests with the       *)
(* deletion thread each starts, the SQLite rows, the files on /data and    *)
(* the bucket.  The in-memory queue is module UploadQueue.                 *)
(*                                                                         *)
(* One action per access to state another thread or a power cut can see.   *)
(* Left out: URLs, share tokens, upload_error texts, photo_count, the      *)
(* event gallery, cloud health.  "R2 unreachable", "R2 not configured" and *)
(* any other failing call, SQLite's included, are one kind of fault, at    *)
(* most MaxFaults of them.                                                 *)
(***************************************************************************)
EXTENDS Integers, Sequences, FiniteSets

CONSTANTS
  Sessions, Events,  \* ids; neither is ever reused (uuid4)
  EventOf,           \* the event of each session
  Ops,               \* admin requests, each clears or deletes one event
  QueueCap,          \* MAX_QUEUE_SIZE
  MaxRetries,        \* MAX_RETRIES
  MaxFaults,         \* bound: failing network and file operations
  MaxCrashes,        \* bound: power cuts
  MaxTaps,           \* bound: finalize requests
  None, Stop         \* as in UploadQueue

ASSUME DeliveryAssumption ==
  /\ EventOf \in [Sessions -> Events]
  /\ QueueCap \in Nat \ {0} /\ MaxRetries \in Nat \ {0}
  /\ MaxFaults \in Nat /\ MaxCrashes \in Nat /\ MaxTaps \in Nat
  /\ None \notin Sessions /\ Stop \notin Sessions /\ None # Stop
  /\ "rescan" \notin Ops

Enqueuers == {"finalize", "rescan"}
Sweepers  == Ops \cup {"rescan"}   \* threads in retry_pending_deletions

VARIABLES
  (* durable: SQLite, /data, the bucket *)
  events,    \* rows of table events
  row,       \* sessions.upload_status, or why there is no row
  tombs,     \* rows of table r2_deletions
  dir,       \* what a session's directory holds
  meta,      \* meta.json is there and names r2_target
  cloud,     \* the strip object in the bucket
  cleared,   \* history: events whose photos were ever cleared
  (* the upload queue *)
  queue, inflight, putting, worker, stopping,
  (* the upload thread inside _process_with_retry *)
  wpc, attempt,
  (* the finalize request: finalize_lock admits one *)
  fpc, fjob,
  (* the rescan thread *)
  rpc, rtodo,
  (* retry_pending_deletions, by the thread running it *)
  spc, stodo, starget,
  (* clear-photos and delete-event requests *)
  opc, oevent, okind, otargets,
  (* used-up bounds *)
  faults, crashes, taps

Q == INSTANCE UploadQueue

qvars       == <<queue, inflight, putting, worker, stopping>>
workerVars  == <<wpc, attempt>>
finalVars   == <<fpc, fjob>>
rescanVars  == <<rpc, rtodo>>
sweepVars   == <<spc, stodo, starget>>
opVars      == <<opc, oevent, okind, otargets>>
boundVars   == <<faults, crashes, taps>>
durableVars == <<events, row, tombs, dir, meta, cloud, cleared>>
vars == <<durableVars, qvars, workerVars, finalVars, rescanVars, sweepVars,
          opVars, boundVars>>
-----------------------------------------------------------------------------
(* Deletion targets: "event-session:e:s", "event-content:e", "event:e". *)
SessionTarget(s) == <<"session", s>>
ContentTarget(e) == <<"content", e>>
EventTarget(e)   == <<"event", e>>
Targets == {SessionTarget(s) : s \in Sessions}
           \cup {ContentTarget(e) : e \in Events} \cup {EventTarget(e) : e \in Events}

ASSUME TargetAssumption == None \notin Targets

(* delete_target: the sessions whose strip lies under the target's prefix. *)
Covers(t, s) == t \in {SessionTarget(s), ContentTarget(EventOf[s]), EventTarget(EventOf[s])}
Emptied(t)   == [s \in Sessions |-> IF Covers(t, s) THEN "none" ELSE cloud[s]]

Live    == {"pending", "uploading", "failed", "complete", "corrupt"}
Waiting == {"pending", "uploading", "failed"}
HasRow(s) == row[s] \in Live

(* Mutated form: the strip only has to exist. *)
JpegExists(s) == dir[s] \in {"intact", "torn"}

(* jpeg_is_intact of the session's strip. *)
JpegIsIntact(s) == dir[s] = "intact"

(* UPDATE ... WHERE id = ? has no effect when the row is gone. *)
SetStatus(s, status) ==
  row' = IF HasRow(s) THEN [row EXCEPT ![s] = status] ELSE row

WorkerSteps == {"idle", "admit", "tombstone", "inspect", "upload", "recheck", "purge",
                "discharge", "verify", "reverify", "commit", "except", "raise", "done"}

DurableTypeOK ==
  /\ events \in SUBSET Events /\ cleared \in SUBSET Events
  /\ row \in [Sessions -> Live \cup {"fresh", "starting", "erased", "pruned"}]
  /\ tombs \in SUBSET Targets
  /\ dir \in [Sessions -> {"absent", "photos", "intact", "torn"}]
  /\ meta \in [Sessions -> BOOLEAN]
  /\ cloud \in [Sessions -> {"none", "intact", "torn"}]

ThreadTypeOK ==
  /\ wpc \in WorkerSteps /\ attempt \in 0..MaxRetries
  /\ fpc \in {"idle", "compose", "meta", "enqueue", "put"}
  /\ fjob \in Sessions \cup {None}
  /\ rpc \in {"idle", "resume", "put", "sweep"} /\ rtodo \in SUBSET Sessions

SweepTypeOK ==
  /\ spc \in [Sweepers -> {"idle", "scan", "delete", "complete"}]
  /\ stodo \in [Sweepers -> SUBSET Targets]
  /\ starget \in [Sweepers -> Targets \cup {None}]

OpTypeOK ==
  /\ opc \in [Ops -> {"ready", "commit", "remove", "sweep", "done"}]
  /\ oevent \in [Ops -> Events \cup {None}]
  /\ okind \in [Ops -> {"clear", "delete"}]
  /\ otargets \in [Ops -> SUBSET Targets]
  /\ \A o \in Ops : opc[o] = "commit" => oevent[o] \in Events

BoundTypeOK == faults \in 0..MaxFaults /\ crashes \in 0..MaxCrashes /\ taps \in 0..MaxTaps

TypeOK ==
  DurableTypeOK /\ Q!TypeOK /\ ThreadTypeOK /\ SweepTypeOK /\ OpTypeOK /\ BoundTypeOK

Init ==
  /\ events = Events /\ cleared = {}
  /\ row = [s \in Sessions |-> "fresh"]
  /\ tombs = {}
  /\ dir = [s \in Sessions |-> "absent"]
  /\ meta = [s \in Sessions |-> FALSE]
  /\ cloud = [s \in Sessions |-> "none"]
  /\ Q!Init
  /\ wpc = "idle" /\ attempt = 0
  /\ fpc = "idle" /\ fjob = None
  /\ rpc = "idle" /\ rtodo = {}
  /\ spc = [w \in Sweepers |-> "idle"]
  /\ stodo = [w \in Sweepers |-> {}]
  /\ starget = [w \in Sweepers |-> None]
  /\ opc = [o \in Ops |-> "ready"]
  /\ oevent = [o \in Ops |-> None]
  /\ okind = [o \in Ops |-> "clear"]
  /\ otargets = [o \in Ops |-> {}]
  /\ faults = 0 /\ crashes = 0 /\ taps = 0

Fault == faults < MaxFaults /\ faults' = faults + 1 /\ UNCHANGED <<crashes, taps>>
-----------------------------------------------------------------------------
(* start_session looks the event up; a deletion may come before the insert. *)
StartCheck(s) ==
  /\ row[s] = "fresh" /\ EventOf[s] \in events
  /\ row' = [row EXCEPT ![s] = "starting"]
  /\ UNCHANGED <<events, tombs, dir, meta, cloud, cleared, qvars, workerVars, finalVars,
                 rescanVars, sweepVars, opVars, boundVars>>

(* create_session, and the guest's three photos. *)
StartCreate(s) ==
  /\ row[s] = "starting"
  /\ row' = [row EXCEPT ![s] = "pending"]
  /\ dir' = [dir EXCEPT ![s] = "photos"]
  /\ UNCHANGED <<events, tombs, meta, cloud, cleared, qvars, workerVars, finalVars,
                 rescanVars, sweepVars, opVars, boundVars>>

(* finalize_session: look the session up.  An intact strip was finalized  *)
(* before and is only enqueued again; otherwise the photos are opened.    *)
FinalizeBegin(s) ==
  /\ fpc = "idle" /\ taps < MaxTaps
  /\ HasRow(s) /\ EventOf[s] \in events
  /\ dir[s] # "absent"
  /\ fpc' = IF JpegIsIntact(s) THEN "enqueue" ELSE "compose"
  /\ fjob' = s /\ taps' = taps + 1
  /\ UNCHANGED <<durableVars, qvars, workerVars, rescanVars, sweepVars, opVars,
                 faults, crashes>>

(* compose_strip writes the strip atomically, recreating the directory if *)
(* a deletion removed it while the strip was being composed.              *)
FinalizeCompose ==
  /\ fpc = "compose"
  /\ dir' = [dir EXCEPT ![fjob] = "intact"]
  /\ fpc' = "meta"
  /\ UNCHANGED <<events, row, tombs, meta, cloud, cleared, qvars, workerVars, fjob,
                 rescanVars, sweepVars, opVars, boundVars>>

(* The template or a photo cannot be read, or meta.json cannot be written: *)
(* the request fails.                                                      *)
FinalizeFails ==
  /\ \/ fpc = "compose" /\ UNCHANGED boundVars
     \/ fpc = "meta" /\ Fault
  /\ fpc' = "idle" /\ fjob' = None
  /\ UNCHANGED <<durableVars, qvars, workerVars, rescanVars, sweepVars, opVars>>

FinalizeMeta ==
  /\ fpc = "meta"
  /\ meta' = [meta EXCEPT ![fjob] = TRUE]
  /\ fpc' = "enqueue"
  /\ UNCHANGED <<events, row, tombs, dir, cloud, cleared, qvars, workerVars, fjob,
                 rescanVars, sweepVars, opVars, boundVars>>

(* enqueue_best_effort: a full queue is left to the rescan. *)
FinalizeEnqueue ==
  /\ fpc = "enqueue"
  /\ \/ Q!Mark("finalize", fjob) /\ fpc' = "put" /\ UNCHANGED fjob
     \/ Q!Duplicate("finalize", fjob) /\ fpc' = "idle" /\ fjob' = None
  /\ UNCHANGED <<durableVars, workerVars, rescanVars, sweepVars, opVars, boundVars>>

FinalizePut ==
  /\ fpc = "put"
  /\ Q!Put("finalize") \/ Q!PutFull("finalize")
  /\ fpc' = "idle" /\ fjob' = None
  /\ UNCHANGED <<durableVars, workerVars, rescanVars, sweepVars, opVars, boundVars>>
-----------------------------------------------------------------------------
WorkerGet ==
  /\ Q!Get
  /\ wpc' = "admit" /\ attempt' = 0
  /\ UNCHANGED <<durableVars, finalVars, rescanVars, sweepVars, opVars, boundVars>>

(* The frame of a step that only moves the upload thread on. *)
WorkerFrame ==
  UNCHANGED <<attempt, cleared, events, qvars, finalVars, rescanVars, sweepVars, opVars>>

(* An exception in _process, caught in _process_with_retry. *)
WorkerRaises == wpc' = "except" /\ WorkerFrame

(* The handler's frame: it writes the row and moves the thread on. *)
HandlerFrame ==
  UNCHANGED <<events, tombs, dir, meta, cloud, cleared, finalVars, rescanVars, sweepVars, opVars>>

(* Mutated form: one retry too many. *)
AttemptFailsOffByOne ==
  /\ wpc = "except"
  /\ SetStatus(worker, "failed")
  /\ attempt' = attempt + 1
  /\ wpc' = IF attempt < MaxRetries THEN "admit" ELSE "raise"
  /\ UNCHANGED <<qvars, boundVars>> /\ HandlerFrame

(* The attempt is recorded, and retried unless it was the last. *)
AttemptFails ==
  /\ wpc = "except"
  /\ SetStatus(worker, "failed")
  /\ attempt' = attempt + 1
  /\ wpc' = IF attempt + 1 < MaxRetries THEN "admit" ELSE "raise"
  /\ UNCHANGED <<qvars, boundVars>> /\ HandlerFrame

(* Recording it raises: no attempt is left to it, however many there were. *)
AttemptUnrecorded ==
  /\ wpc = "except" /\ Fault
  /\ wpc' = "raise"
  /\ UNCHANGED <<row, attempt, qvars>> /\ HandlerFrame

(* _worker catches what _process_with_retry raised and records it again. *)
WorkerRecords ==
  /\ wpc = "raise"
  /\ SetStatus(worker, "failed")
  /\ wpc' = "done"
  /\ UNCHANGED <<attempt, qvars, boundVars>> /\ HandlerFrame

(* That raises too, outside every try: the only upload thread ends. *)
WorkerDies ==
  /\ wpc = "raise" /\ Fault
  /\ Q!Die
  /\ wpc' = "idle" /\ attempt' = 0
  /\ UNCHANGED row /\ HandlerFrame

(* _process: get_event. *)
WorkerAdmit ==
  /\ wpc = "admit" /\ EventOf[worker] \in events
  /\ wpc' = "tombstone"
  /\ WorkerFrame /\ UNCHANGED <<row, tombs, dir, meta, cloud, boundVars>>

WorkerRefused ==
  /\ wpc = "admit" /\ EventOf[worker] \notin events
  /\ WorkerRaises /\ UNCHANGED <<row, tombs, dir, meta, cloud, boundVars>>

(* _process: a session already marked for deletion is not uploaded. *)
WorkerTombstone ==
  /\ wpc = "tombstone"
  /\ wpc' = IF SessionTarget(worker) \in tombs THEN "done" ELSE "inspect"
  /\ WorkerFrame /\ UNCHANGED <<row, tombs, dir, meta, cloud, boundVars>>

(* Mutated form: the target is left for finalize to write. *)
WorkerInspectWithoutTarget ==
  /\ wpc = "inspect" /\ JpegIsIntact(worker)
  /\ SetStatus(worker, "uploading")
  /\ wpc' = "upload"
  /\ WorkerFrame /\ UNCHANGED <<tombs, dir, meta, cloud, boundVars>>

(* _process: a torn or missing strip is terminal; an intact one goes on,  *)
(* and r2_target is on disk before the first network side effect.         *)
WorkerInspect ==
  /\ wpc = "inspect"
  /\ \/ /\ JpegIsIntact(worker)
        /\ SetStatus(worker, "uploading")
        /\ meta' = IF HasRow(worker) THEN [meta EXCEPT ![worker] = TRUE] ELSE meta
        /\ wpc' = "upload"
     \/ /\ ~JpegIsIntact(worker)
        /\ SetStatus(worker, "corrupt")
        /\ UNCHANGED meta
        /\ wpc' = "done"
  /\ WorkerFrame /\ UNCHANGED <<tombs, dir, cloud, boundVars>>

StripReadable == dir[worker] \in {"intact", "torn"}

(* upload_session: the strip object, then the event manifest. *)
WorkerUpload ==
  /\ wpc = "upload" /\ StripReadable
  /\ cloud' = [cloud EXCEPT ![worker] = dir[worker]]
  /\ wpc' = "recheck"
  /\ WorkerFrame /\ UNCHANGED <<row, tombs, dir, meta, boundVars>>

(* Mutated form: the exception is swallowed and the upload taken as done. *)
WorkerUploadFailureIgnored ==
  /\ wpc = "upload" /\ Fault
  /\ wpc' = "commit"
  /\ WorkerFrame /\ UNCHANGED <<row, tombs, dir, meta, cloud>>

(* It raises: the file is gone, or a call failed, perhaps after the strip *)
(* object was stored.                                                     *)
WorkerUploadFails ==
  /\ wpc = "upload"
  /\ \/ ~StripReadable /\ UNCHANGED <<cloud, boundVars>>
     \/ /\ StripReadable /\ Fault
        /\ cloud' \in {cloud, [cloud EXCEPT ![worker] = dir[worker]]}
  /\ WorkerRaises /\ UNCHANGED <<row, tombs, dir, meta>>

(* _process: deletion requested while uploading. *)
WorkerRecheck ==
  /\ wpc = "recheck"
  /\ wpc' = IF SessionTarget(worker) \in tombs THEN "purge" ELSE "verify"
  /\ WorkerFrame /\ UNCHANGED <<row, tombs, dir, meta, cloud, boundVars>>

WorkerPurge ==
  /\ wpc = "purge"
  /\ cloud' = Emptied(SessionTarget(worker))
  /\ wpc' = "discharge"
  /\ WorkerFrame /\ UNCHANGED <<row, tombs, dir, meta, boundVars>>

WorkerPurgeFails ==
  /\ wpc = "purge" /\ Fault
  /\ cloud' \in {cloud, Emptied(SessionTarget(worker))}
  /\ WorkerRaises /\ UNCHANGED <<row, tombs, dir, meta>>

WorkerDischarge ==
  /\ wpc = "discharge"
  /\ tombs' = tombs \ {SessionTarget(worker)}
  /\ wpc' = "done"
  /\ WorkerFrame /\ UNCHANGED <<row, dir, meta, cloud, boundVars>>

(* verify_guest_download: the link must return the bytes of the strip. *)
WorkerVerify ==
  /\ wpc = "verify" /\ StripReadable /\ cloud[worker] = dir[worker]
  /\ wpc' = "reverify"
  /\ WorkerFrame /\ UNCHANGED <<row, tombs, dir, meta, cloud, boundVars>>

WorkerVerifyFails ==
  /\ wpc = "verify"
  /\ \/ (~StripReadable \/ cloud[worker] # dir[worker]) /\ UNCHANGED boundVars
     \/ StripReadable /\ cloud[worker] = dir[worker] /\ Fault
  /\ WorkerRaises /\ UNCHANGED <<row, tombs, dir, meta, cloud>>

(* _process: deletion requested while verifying. *)
WorkerReverify ==
  /\ wpc = "reverify"
  /\ wpc' = IF SessionTarget(worker) \in tombs THEN "purge" ELSE "commit"
  /\ WorkerFrame /\ UNCHANGED <<row, tombs, dir, meta, cloud, boundVars>>

(* _process: the row is complete, and meta.json says so if the row exists. *)
WorkerCommit ==
  /\ wpc = "commit"
  /\ SetStatus(worker, "complete")
  /\ meta' = IF HasRow(worker) THEN [meta EXCEPT ![worker] = TRUE] ELSE meta
  /\ wpc' = "done"
  /\ WorkerFrame /\ UNCHANGED <<tombs, dir, cloud, boundVars>>

(* Any other call of _process may raise: R2 is not configured, or SQLite or *)
(* meta.json fails, perhaps after the row was already written.              *)
WorkerCallFails ==
  /\ wpc \in {"admit", "tombstone", "inspect", "recheck", "discharge", "reverify", "commit"}
  /\ Fault
  /\ \/ UNCHANGED row
     \/ wpc = "inspect" /\ JpegIsIntact(worker) /\ SetStatus(worker, "uploading")
     \/ wpc = "commit" /\ SetStatus(worker, "complete")
  /\ WorkerRaises /\ UNCHANGED <<tombs, dir, meta, cloud>>

WorkerFinish ==
  /\ wpc = "done"
  /\ Q!Finish
  /\ wpc' = "idle" /\ attempt' = 0
  /\ UNCHANGED <<durableVars, finalVars, rescanVars, sweepVars, opVars, boundVars>>
-----------------------------------------------------------------------------
(* retry_pending_deletions, run by thread w.  SweepStart is the snapshot  *)
(* of r2_deletions, written into the caller's action.                     *)
SweepStart(w) ==
  /\ spc' = [spc EXCEPT ![w] = "scan"]
  /\ stodo' = [stodo EXCEPT ![w] = tombs]
  /\ UNCHANGED starget

SweepFrame ==
  UNCHANGED <<events, row, dir, meta, cleared, qvars, workerVars, finalVars, rescanVars, opVars>>

(* Mutated form: a deletion never waits for a running upload. *)
ConflictsNever(t) == FALSE

(* _deletion_conflicts_with_upload, against the in-flight registry. *)
Conflicts(t) == \E s \in inflight : Covers(t, s)

SweepDefer(w) == \E t \in stodo[w] :
  /\ spc[w] = "scan" /\ Conflicts(t)
  /\ stodo' = [stodo EXCEPT ![w] = @ \ {t}]
  /\ UNCHANGED <<spc, starget, tombs, cloud, boundVars>> /\ SweepFrame

SweepTake(w) == \E t \in stodo[w] :
  /\ spc[w] = "scan" /\ ~Conflicts(t)
  /\ stodo' = [stodo EXCEPT ![w] = @ \ {t}]
  /\ starget' = [starget EXCEPT ![w] = t]
  /\ spc' = [spc EXCEPT ![w] = "delete"]
  /\ UNCHANGED <<tombs, cloud, boundVars>> /\ SweepFrame

SweepDelete(w) ==
  /\ spc[w] = "delete"
  /\ cloud' = Emptied(starget[w])
  /\ spc' = [spc EXCEPT ![w] = "complete"]
  /\ UNCHANGED <<stodo, starget, tombs, boundVars>> /\ SweepFrame

(* The call fails; the objects may be gone all the same. *)
SweepDeleteFails(w) ==
  /\ spc[w] = "delete" /\ Fault
  /\ cloud' \in {cloud, Emptied(starget[w])}
  /\ spc' = [spc EXCEPT ![w] = "scan"]
  /\ starget' = [starget EXCEPT ![w] = None]
  /\ UNCHANGED <<stodo, tombs>> /\ SweepFrame

(* complete_r2_deletion raises: the tombstone stays for the next round. *)
SweepCompleteFails(w) ==
  /\ spc[w] = "complete" /\ Fault
  /\ spc' = [spc EXCEPT ![w] = "scan"]
  /\ starget' = [starget EXCEPT ![w] = None]
  /\ UNCHANGED <<stodo, tombs, cloud>> /\ SweepFrame

SweepComplete(w) ==
  /\ spc[w] = "complete"
  /\ tombs' = tombs \ {starget[w]}
  /\ spc' = [spc EXCEPT ![w] = "scan"]
  /\ starget' = [starget EXCEPT ![w] = None]
  /\ UNCHANGED <<stodo, cloud, boundVars>> /\ SweepFrame

SweepEnd(w) ==
  /\ spc[w] = "scan" /\ stodo[w] = {}
  /\ spc' = [spc EXCEPT ![w] = "idle"]
  /\ UNCHANGED <<stodo, starget, tombs, cloud, boundVars>> /\ SweepFrame
-----------------------------------------------------------------------------
(* Mutated form: only rows that were never tried are listed. *)
RescanListPendingOnly ==
  /\ rpc = "idle"
  /\ rtodo' = {s \in Sessions : row[s] = "pending" /\ JpegIsIntact(s)}
  /\ rpc' = "resume"
  /\ UNCHANGED <<durableVars, qvars, workerVars, finalVars, sweepVars, opVars, boundVars>>

(* One round of _rescan_loop, or resume_pending at boot.  list_sessions_  *)
(* needing_upload snapshots the rows and condemns torn strips.            *)
RescanList ==
  /\ rpc = "idle"
  /\ LET needing == {s \in Sessions : row[s] \in Waiting}
     IN /\ rtodo' = {s \in needing : JpegIsIntact(s)}
        /\ row' = [s \in Sessions |->
                     IF s \in needing /\ dir[s] = "torn" /\ ~JpegIsIntact(s) THEN "corrupt" ELSE row[s]]
  /\ rpc' = "resume"
  /\ UNCHANGED <<events, tombs, dir, meta, cloud, cleared, qvars, workerVars, finalVars,
                 sweepVars, opVars, boundVars>>

RescanFrame ==
  UNCHANGED <<durableVars, workerVars, finalVars, sweepVars, opVars, boundVars>>

RescanEnqueue == \E s \in rtodo :
  /\ rpc = "resume"
  /\ rtodo' = rtodo \ {s}
  /\ \/ Q!Mark("rescan", s) /\ rpc' = "put"
     \/ Q!Duplicate("rescan", s) /\ UNCHANGED rpc
  /\ RescanFrame

RescanPut ==
  /\ rpc = "put" /\ Q!Put("rescan")
  /\ rpc' = "resume"
  /\ UNCHANGED rtodo /\ RescanFrame

(* A full queue ends resume_pending. *)
RescanPutFull ==
  /\ rpc = "put" /\ Q!PutFull("rescan")
  /\ rpc' = "resume" /\ rtodo' = {}
  /\ RescanFrame

(* Mutated form: deletions are only tried when they are requested. *)
RescanSweepNothing ==
  /\ rpc = "resume" /\ rtodo = {}
  /\ rpc' = "sweep"
  /\ UNCHANGED <<durableVars, qvars, workerVars, finalVars, rtodo, sweepVars, opVars,
                 boundVars>>

RescanSweep ==
  /\ rpc = "resume" /\ rtodo = {}
  /\ rpc' = "sweep" /\ SweepStart("rescan")
  /\ UNCHANGED <<durableVars, qvars, workerVars, finalVars, rtodo, opVars, boundVars>>

(* An exception in the rescan is caught, and ends its round. *)
RescanFails ==
  /\ rpc = "resume" /\ rtodo = {} /\ Fault
  /\ rpc' = "idle"
  /\ UNCHANGED <<durableVars, qvars, workerVars, finalVars, rtodo, sweepVars, opVars>>

(* prune_abandoned_sessions: rows older than a day without a usable strip. *)
(* Age is not modelled: any such session but the one being finalized may   *)
(* be that old.                                                            *)
RescanPrune ==
  /\ rpc = "sweep" /\ spc["rescan"] = "idle"
  /\ \E old \in SUBSET {s \in Sessions : /\ HasRow(s) /\ s # fjob
                                         /\ \/ dir[s] \in {"absent", "photos"}
                                            \/ row[s] = "corrupt"} :
       /\ row' = [s \in Sessions |-> IF s \in old THEN "pruned" ELSE row[s]]
       /\ dir' = [s \in Sessions |-> IF s \in old THEN "absent" ELSE dir[s]]
       /\ meta' = [s \in Sessions |-> s \notin old /\ meta[s]]
  /\ rpc' = "idle"
  /\ UNCHANGED <<events, tombs, cloud, cleared, qvars, workerVars, finalVars, rtodo,
                 sweepVars, opVars, boundVars>>
-----------------------------------------------------------------------------
OpFrame == UNCHANGED <<cloud, qvars, workerVars, finalVars, rescanVars>>

OwnTarget(kind, e) == IF kind = "clear" THEN ContentTarget(e) ELSE EventTarget(e)

(* clear_event_photos and delete_event first read the session rows and    *)
(* each session's meta.json; the write transaction starts afterwards.     *)
OpRead(o, kind, e) ==
  /\ opc[o] = "ready" /\ e \in events
  /\ opc' = [opc EXCEPT ![o] = "commit"]
  /\ oevent' = [oevent EXCEPT ![o] = e]
  /\ okind' = [okind EXCEPT ![o] = kind]
  /\ otargets' = [otargets EXCEPT ![o] =
       {SessionTarget(s) : s \in {s \in Sessions : EventOf[s] = e /\ HasRow(s) /\ meta[s]}}
       \cup {OwnTarget(kind, e)}]
  /\ UNCHANGED <<durableVars, sweepVars, boundVars>> /\ OpFrame

(* Mutated form: the tombstones are recorded, the session rows stay. *)
OpCommitKeepsRows(o) ==
  /\ opc[o] = "commit"
  /\ tombs' = tombs \cup otargets[o]
  /\ events' = IF okind[o] = "delete" THEN events \ {oevent[o]} ELSE events
  /\ cleared' = IF okind[o] = "clear" THEN cleared \cup {oevent[o]} ELSE cleared
  /\ opc' = [opc EXCEPT ![o] = "remove"]
  /\ otargets' = [otargets EXCEPT ![o] = {}]
  /\ UNCHANGED <<row, dir, meta, oevent, okind, sweepVars, boundVars>> /\ OpFrame

(* The transaction: tombstones in, session rows and the event row out. *)
OpCommit(o) ==
  /\ opc[o] = "commit"
  /\ tombs' = tombs \cup otargets[o]
  /\ row' = [s \in Sessions |->
               IF EventOf[s] = oevent[o] /\ HasRow(s) THEN "erased" ELSE row[s]]
  /\ events' = IF okind[o] = "delete" THEN events \ {oevent[o]} ELSE events
  /\ cleared' = IF okind[o] = "clear" THEN cleared \cup {oevent[o]} ELSE cleared
  /\ opc' = [opc EXCEPT ![o] = "remove"]
  /\ otargets' = [otargets EXCEPT ![o] = {}]
  /\ UNCHANGED <<dir, meta, oevent, okind, sweepVars, boundVars>> /\ OpFrame

(* rmtree of the event's session directories. *)
OpRemove(o) ==
  /\ opc[o] = "remove"
  /\ dir' = [s \in Sessions |-> IF EventOf[s] = oevent[o] THEN "absent" ELSE dir[s]]
  /\ meta' = [s \in Sessions |-> EventOf[s] # oevent[o] /\ meta[s]]
  /\ opc' = [opc EXCEPT ![o] = "sweep"]
  /\ UNCHANGED <<events, row, tombs, cleared, oevent, okind, otargets, sweepVars, boundVars>>
  /\ OpFrame

(* The request fails before its transaction, delete_event's rmtree raises *)
(* (clear ignores errors), or the deletion thread cannot read its targets. *)
OpFails(o) ==
  /\ opc[o] \in {"commit", "remove", "sweep"} /\ Fault
  /\ opc[o] = "remove" => okind[o] = "delete"
  /\ opc' = [opc EXCEPT ![o] = "done"]
  /\ otargets' = [otargets EXCEPT ![o] = {}]
  /\ UNCHANGED <<events, row, tombs, dir, meta, cleared, oevent, okind, sweepVars>>
  /\ OpFrame

(* retry_pending_deletions_async: a new thread takes its snapshot. *)
OpSweep(o) ==
  /\ opc[o] = "sweep"
  /\ SweepStart(o)
  /\ opc' = [opc EXCEPT ![o] = "done"]
  /\ UNCHANGED <<durableVars, oevent, okind, otargets, boundVars>> /\ OpFrame
-----------------------------------------------------------------------------
(* A power cut or crash and the next boot: memory is gone, requests are   *)
(* never resumed, a damaged file system may have torn strips, and         *)
(* sweep_orphan_dirs removes directories without a row.                   *)
Crash ==
  /\ crashes < MaxCrashes /\ crashes' = crashes + 1
  /\ Q!Restart
  /\ wpc' = "idle" /\ attempt' = 0
  /\ fpc' = "idle" /\ fjob' = None
  /\ rpc' = "idle" /\ rtodo' = {}
  /\ spc' = [w \in Sweepers |-> "idle"]
  /\ stodo' = [w \in Sweepers |-> {}]
  /\ starget' = [w \in Sweepers |-> None]
  /\ opc' = [o \in Ops |-> IF opc[o] = "ready" THEN "ready" ELSE "done"]
  /\ \E torn \in SUBSET {s \in Sessions : dir[s] = "intact"} :
       dir' = [s \in Sessions |->
                 IF ~HasRow(s) THEN "absent" ELSE IF s \in torn THEN "torn" ELSE dir[s]]
  /\ meta' = [s \in Sessions |-> HasRow(s) /\ meta[s]]
  /\ row' = [s \in Sessions |-> IF row[s] = "starting" THEN "fresh" ELSE row[s]]
  /\ UNCHANGED <<events, tombs, cloud, cleared, oevent, okind, otargets, faults, taps>>
-----------------------------------------------------------------------------
HandlerStep == AttemptFails \/ AttemptUnrecorded \/ WorkerRecords \/ WorkerDies

WorkerStep ==
  \/ WorkerGet \/ WorkerAdmit \/ WorkerRefused \/ WorkerTombstone \/ WorkerInspect
  \/ WorkerUpload \/ WorkerUploadFails \/ WorkerRecheck \/ WorkerPurge
  \/ WorkerPurgeFails \/ WorkerDischarge \/ WorkerVerify \/ WorkerVerifyFails
  \/ WorkerReverify \/ WorkerCommit \/ WorkerCallFails \/ WorkerFinish
  \/ HandlerStep

FinalizeStep ==
  FinalizeCompose \/ FinalizeFails \/ FinalizeMeta \/ FinalizeEnqueue \/ FinalizePut

SweepStep(w) ==
  \/ SweepDefer(w) \/ SweepTake(w) \/ SweepDelete(w) \/ SweepDeleteFails(w)
  \/ SweepComplete(w) \/ SweepCompleteFails(w) \/ SweepEnd(w)

RescanStep ==
  \/ RescanList \/ RescanEnqueue \/ RescanPut \/ RescanPutFull \/ RescanSweep
  \/ RescanFails \/ RescanPrune

OpStep(o) == OpCommit(o) \/ OpRemove(o) \/ OpFails(o) \/ OpSweep(o)

Next ==
  \/ \E s \in Sessions : StartCheck(s) \/ StartCreate(s) \/ FinalizeBegin(s)
  \/ FinalizeStep \/ WorkerStep \/ RescanStep
  \/ \E w \in Sweepers : SweepStep(w)
  \/ \E o \in Ops, k \in {"clear", "delete"}, e \in Events : OpRead(o, k, e)
  \/ \E o \in Ops : OpStep(o)
  \/ Crash

(* Threads run while they live and calls return (every network call has a  *)
(* timeout); guests, operators, faults and power cuts owe nothing, and so   *)
(* nobody starts a dead upload thread again.                                *)
Fairness ==
  /\ WF_vars(FinalizeStep) /\ WF_vars(WorkerStep) /\ WF_vars(RescanStep)
  /\ \A w \in Sweepers : WF_vars(SweepStep(w))
  /\ \A o \in Ops : WF_vars(OpStep(o))

Spec == Init /\ [][Next]_vars
FairSpec == Spec /\ Fairness
-----------------------------------------------------------------------------
(* Once an event is deleted and its tombstone has been discharged, no      *)
(* strip of it is in the bucket, and none will be: an upload that was      *)
(* running when the event was deleted cannot slip in behind the deletion   *)
(* (upload_queue.py:133 defers it, :267 refuses the next job).             *)
EventDeletionIsFinal ==
  \A s \in Sessions :
    EventOf[s] \notin events /\ EventTarget(EventOf[s]) \notin tombs => cloud[s] = "none"

(* A strip in the bucket whose row is still there can be deleted by name: *)
(* meta.json holds its target, so clear-photos and delete-event find it   *)
(* however the upload ended.  (A clear removes the event's whole sessions *)
(* directory after its transaction, so a session started in between loses *)
(* its meta.json: events that were ever cleared are left out.)            *)
UploadedHasTarget ==
  \A s \in Sessions :
    cloud[s] # "none" /\ HasRow(s) /\ EventOf[s] \notin cleared => meta[s]

(* A tombstone for one session's strip means its row is gone; otherwise   *)
(* the upload thread would skip the session at every retry, forever.      *)
TombstonedRowsGone ==
  \A s \in Sessions : SessionTarget(s) \in tombs => ~HasRow(s)

(* A torn strip never reaches the bucket, whatever a power cut did to the *)
(* files between finalize and upload (upload_queue.py:271).               *)
NeverPublishTorn == \A s \in Sessions : cloud[s] # "torn"

(* A session shown as delivered has its strip in the bucket, unless the   *)
(* operator cleared that event's photos at some time.                     *)
DeliveredUnlessCleared ==
  \A s \in Sessions :
    row[s] = "complete" => cloud[s] = "intact" \/ EventOf[s] \in cleared

(* A rescan that lists a session just before its upload commits enqueues  *)
(* it again just after; both liveness properties need that this does not  *)
(* recur at every rescan, for such a session takes a slot of the queue    *)
(* and defers the deletions of its event each time.                       *)
NoEndlessReupload ==
  <>[][\A s \in Sessions : row[s] = "complete" => row'[s] # "uploading"]_vars

(* An upload thread that ended stays so until the process does. *)
UploadThreadDied == worker = Stop

Undelivered(s) == row[s] \in Waiting /\ dir[s] = "intact"

(* A composed strip waiting for upload is uploaded, found torn, or deleted, *)
(* although attempts fail and the queue may have been full when the guest   *)
(* finished: the rescan finds it again (upload_queue.py:177), unless the    *)
(* upload thread has died meanwhile (WorkerDies).                           *)
StripsAreDelivered ==
  NoEndlessReupload =>
    \A s \in Sessions : Undelivered(s) ~> (~Undelivered(s) \/ UploadThreadDied)

(* Every tombstone is discharged in the end: a deletion deferred because an *)
(* upload was running, or that failed, is retried until it succeeds, again  *)
(* unless the upload thread has died and left its queue in flight.          *)
DeletionsHappen ==
  NoEndlessReupload =>
    \A t \in Targets : t \in tombs ~> (t \notin tombs \/ UploadThreadDied)
-----------------------------------------------------------------------------
(* The promises of the code and its documents that the model refutes. *)

(* The guest whose strip could not be uploaded is told that it "will upload *)
(* automatically when cloud access returns" (app.js:620): once no call      *)
(* fails any more, it does.                                                 *)
UploadsWhenCloudReturns ==
  NoEndlessReupload => \A s \in Sessions : Undelivered(s) ~> ~Undelivered(s)

(* A guest of a session shown as delivered can use the link: "signed guest *)
(* download links that work for seven days" (docs/software-setup.md:187).  *)
CompleteMeansDelivered ==
  \A s \in Sessions : row[s] = "complete" => cloud[s] = "intact"

(* A deletion "during that window still wins" and "the final cloud state   *)
(* is always empty" (upload_queue.py:314): once no request, thread or      *)
(* tombstone refers to an erased session, its strip is not in the bucket.  *)
AtRest(s) ==
  /\ s \notin inflight \cup rtodo /\ fjob # s
  /\ \A t \in tombs : ~Covers(t, s)
  /\ \A w \in Sweepers : spc[w] = "idle"
  /\ \A o \in Ops : opc[o] \in {"ready", "done"}
ErasedMeansGone ==
  \A s \in Sessions : row[s] = "erased" /\ AtRest(s) => cloud[s] = "none"
=============================================================================
