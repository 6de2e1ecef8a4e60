---------------------------- MODULE UploadLedger ----------------------------
(***************************************************************************)
(* What the in-memory upload queue promises the rest of the engine, with   *)
(* its threads, its lock and its queue left out: a session is idle,        *)
(* waiting for the upload thread, or being processed by it; it waits at    *)
(* most once, and only one session is processed at a time.                 *)
(***************************************************************************)
CONSTANT Sessions

VARIABLE status

LedgerTypeOK == status \in [Sessions -> {"idle", "waiting", "processing"}]

Init == status = [s \in Sessions |-> "idle"]

(* A caller hands over a session that is not in flight. *)
Submit(s) == /\ status[s] = "idle"
             /\ status' = [status EXCEPT ![s] = "waiting"]

(* The queue had no room: the session is handed back. *)
Withdraw(s) == /\ status[s] = "waiting"
               /\ status' = [status EXCEPT ![s] = "idle"]

(* The single upload thread takes a waiting session. *)
Begin(s) == /\ status[s] = "waiting"
            /\ \A t \in Sessions : status[t] # "processing"
            /\ status' = [status EXCEPT ![s] = "processing"]

Finish(s) == /\ status[s] = "processing"
             /\ status' = [status EXCEPT ![s] = "idle"]

(* The process ends: nothing in memory survives. *)
Restart == status' = [s \in Sessions |-> "idle"]

Next == \/ \E s \in Sessions : Submit(s) \/ Withdraw(s) \/ Begin(s) \/ Finish(s)
        \/ Restart

Spec == Init /\ [][Next]_status
=============================================================================
