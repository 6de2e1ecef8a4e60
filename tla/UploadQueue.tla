---------------------------- MODULE UploadQueue -----------------------------
(***************************************************************************)
(* The in-memory half of engine/upload_queue.py: the bounded queue.Queue,  *)
(* the in-flight registry kept under its own lock, the threads that        *)
(* enqueue, and the one upload thread.  Registering a session and putting  *)
(* its job on the queue are two steps, because the lock is released in     *)
(* between.  What the upload thread does with a job is GuestDelivery's.    *)
(*                                                                         *)
(* An UploadJob is represented by its session: event_id and session_dir    *)
(* are functions of the session, and cloud_target, when it is not None, is *)
(* the value _resolve_target would compute anyway.  For the same reason    *)
(* _inflight_events is determined by _inflight and is not a variable.      *)
(***************************************************************************)
EXTENDS Integers, Sequences, SequencesExt

CONSTANTS
  Sessions,    \* session ids
  Enqueuers,   \* threads that call enqueue: a finalize request, the rescan
  QueueCap,    \* MAX_QUEUE_SIZE
  None,        \* no session
  Stop         \* the None sentinel close() puts on the queue

ASSUME QueueAssumption ==
  /\ QueueCap \in Nat \ {0}
  /\ None \notin Sessions /\ Stop \notin Sessions /\ None # Stop

VARIABLES
  queue,       \* queue.Queue: sessions and, once closing, the sentinel
  inflight,    \* _inflight
  putting,     \* per enqueuer: the session between the lock and queue.put
  worker,      \* the session the upload thread holds, None, or Stop: ended
  stopping     \* _stop_event

vars == <<queue, inflight, putting, worker, stopping>>

TypeOK ==
  /\ queue \in Seq(Sessions \cup {Stop})
  /\ Len(queue) <= QueueCap
  /\ inflight \in SUBSET Sessions
  /\ putting \in [Enqueuers -> Sessions \cup {None}]
  /\ worker \in Sessions \cup {None, Stop}
  /\ stopping \in BOOLEAN

Init ==
  /\ queue = <<>>
  /\ inflight = {}
  /\ putting = [q \in Enqueuers |-> None]
  /\ worker = None
  /\ stopping = FALSE
-----------------------------------------------------------------------------
(* Mutated forms, used only to show that the properties can fail. *)

(* The registry is consulted but the early return is missing. *)
MarkWithoutCheck(q, s) ==
  /\ putting[q] = None
  /\ putting' = [putting EXCEPT ![q] = s]
  /\ inflight' = inflight \cup {s}
  /\ UNCHANGED <<queue, worker, stopping>>

(* The queue has no maxsize. *)
PutUnbounded(q) ==
  /\ putting[q] # None
  /\ queue' = Append(queue, putting[q])
  /\ putting' = [putting EXCEPT ![q] = None]
  /\ UNCHANGED <<inflight, worker, stopping>>

(* queue.Full is reported, but the session is not unregistered first. *)
PutFullKeepsMark(q) ==
  /\ putting[q] # None
  /\ Len(queue) >= QueueCap
  /\ putting' = [putting EXCEPT ![q] = None]
  /\ UNCHANGED <<queue, inflight, worker, stopping>>

(* The finally clause is missing, so a processed session stays registered. *)
FinishKeepsMark ==
  /\ worker \in Sessions
  /\ worker' = None
  /\ UNCHANGED <<queue, inflight, putting, stopping>>
-----------------------------------------------------------------------------
(* enqueue: under the lock, refuse a session in flight, else register it. *)
Mark(q, s) ==
  /\ putting[q] = None
  /\ s \notin inflight
  /\ inflight' = inflight \cup {s}
  /\ putting' = [putting EXCEPT ![q] = s]
  /\ UNCHANGED <<queue, worker, stopping>>

(* enqueue of a session in flight returns and changes nothing. *)
Duplicate(q, s) ==
  /\ putting[q] = None
  /\ s \in inflight
  /\ UNCHANGED vars

(* enqueue: the put, after the lock was released. *)
Put(q) ==
  /\ putting[q] # None
  /\ Len(queue) < QueueCap
  /\ queue' = Append(queue, putting[q])
  /\ putting' = [putting EXCEPT ![q] = None]
  /\ UNCHANGED <<inflight, worker, stopping>>

(* enqueue: queue.Full unregisters the session and raises. *)
PutFull(q) ==
  /\ putting[q] # None
  /\ Len(queue) >= QueueCap
  /\ inflight' = inflight \ {putting[q]}
  /\ putting' = [putting EXCEPT ![q] = None]
  /\ UNCHANGED <<queue, worker, stopping>>

(* _worker: take the oldest job. *)
Get ==
  /\ worker = None
  /\ queue # <<>> /\ Head(queue) # Stop
  /\ worker' = Head(queue)
  /\ queue' = Tail(queue)
  /\ UNCHANGED <<inflight, putting, stopping>>

(* _worker: the sentinel ends the thread. *)
Exit ==
  /\ worker = None
  /\ queue # <<>> /\ Head(queue) = Stop
  /\ worker' = Stop
  /\ queue' = Tail(queue)
  /\ UNCHANGED <<inflight, putting, stopping>>

(* _worker: the finally clause, reached however the job ended. *)
Finish ==
  /\ worker \in Sessions
  /\ inflight' = inflight \ {worker}
  /\ worker' = None
  /\ UNCHANGED <<queue, putting, stopping>>

(* _worker: the handler of a failed job writes to SQLite, and that call    *)
(* raises: the finally clause still runs, and the thread ends with it.     *)
Die ==
  /\ worker \in Sessions
  /\ inflight' = inflight \ {worker}
  /\ worker' = Stop
  /\ UNCHANGED <<queue, putting, stopping>>

(* close: the sentinel goes in only if there is room for it. *)
Close ==
  /\ ~stopping
  /\ stopping' = TRUE
  /\ queue' = IF Len(queue) < QueueCap THEN Append(queue, Stop) ELSE queue
  /\ UNCHANGED <<inflight, putting, worker>>

(* The process ends (power cut, crash, or close's joins timing out) and a *)
(* new one starts.                                                        *)
Restart ==
  /\ queue' = <<>>
  /\ inflight' = {}
  /\ putting' = [q \in Enqueuers |-> None]
  /\ worker' = None
  /\ stopping' = FALSE

Next ==
  \/ \E q \in Enqueuers, s \in Sessions : Mark(q, s) \/ Duplicate(q, s)
  \/ \E q \in Enqueuers : Put(q) \/ PutFull(q)
  \/ Get \/ Exit \/ Finish \/ Die \/ Close \/ Restart

(* The threads run as long as they live; nothing starts a dead upload     *)
(* thread again.  A close is followed by the end of the process, since    *)
(* close joins its threads for ten seconds at most.                       *)
Fairness ==
  /\ \A q \in Enqueuers : WF_vars(Put(q) \/ PutFull(q))
  /\ WF_vars(Get) /\ WF_vars(Exit) /\ WF_vars(Finish)
  /\ WF_vars(stopping /\ Restart)

Spec == Init /\ [][Next]_vars
FairSpec == Spec /\ Fairness
-----------------------------------------------------------------------------
Queued == ToSet(queue)
Putting == {putting[q] : q \in Enqueuers} \ {None}

(* A session in flight is held in exactly one place: one thread about to  *)
(* put it, one slot of the queue, or the upload thread.  This is what the *)
(* in-flight registry is for: "the periodic rescan never double-enqueues  *)
(* a job that is already in flight" (upload_queue.py:43).                 *)
OneHolder ==
  /\ \A i, j \in DOMAIN queue : queue[i] = queue[j] => i = j
  /\ \A p, q \in Enqueuers : putting[p] = putting[q] /\ putting[p] # None => p = q
  /\ Queued \cap Putting = {}
  /\ worker \in Sessions => worker \notin Queued \cup Putting

(* The registry is neither stale nor short: it names the sessions held by *)
(* a thread or the queue, and no others.  A session left in it by mistake *)
(* would never be uploaded again; one missing could be uploaded twice.    *)
InflightExact ==
  inflight = (Queued \cup Putting \cup {worker}) \cap Sessions

(* The upload thread ended although nobody closed the queue. *)
Died == worker = Stop /\ ~stopping

(* Every session accepted for upload leaves the registry again, so that a *)
(* later rescan can retry it, as long as the upload thread lives; a full  *)
(* queue at shutdown, which swallows the sentinel, does not leave it      *)
(* stranded.                                                              *)
Drains == \A s \in Sessions : s \in inflight ~> (s \notin inflight \/ Died)

(* The session's place in the ledger. *)
LedgerStatus == [s \in Sessions |->
  IF worker = s THEN "processing"
  ELSE IF s \in Queued \cup Putting THEN "waiting" ELSE "idle"]

Ledger == INSTANCE UploadLedger WITH status <- LedgerStatus

(* The threads, the lock and the queue together behave as the ledger: no  *)
(* session is accepted twice or goes back to waiting once processed.      *)
ImplementsLedger == Ledger!Spec
=============================================================================
