------------------------- MODULE UploadQueue_proofs -------------------------
(***************************************************************************)
(* Proofs about UploadQueue, for every set of sessions, every set of       *)
(* enqueuing threads and every queue capacity.                             *)
(***************************************************************************)
EXTENDS UploadQueue, TLAPS

(* Appending adds one element to a queue's set. *)
LEMMA AppendToSet ==
  ASSUME NEW S, NEW q \in Seq(S), NEW x \in S
  PROVE  /\ Append(q, x) \in Seq(S)
         /\ Len(Append(q, x)) = Len(q) + 1
         /\ ToSet(Append(q, x)) = ToSet(q) \cup {x}
         /\ DOMAIN Append(q, x) = DOMAIN q \cup {Len(q) + 1}
         /\ \A i \in DOMAIN q : Append(q, x)[i] = q[i]
         /\ Append(q, x)[Len(q) + 1] = x
<1> DEFINE r == Append(q, x)
<1>1. /\ r \in Seq(S) /\ Len(r) = Len(q) + 1
      /\ \A i \in 1..Len(q) : r[i] = q[i]
      /\ r[Len(q) + 1] = x
  OBVIOUS
<1>2. DOMAIN q = 1..Len(q) /\ DOMAIN r = 1..(Len(q) + 1) /\ Len(q) \in Nat
  BY <1>1
<1>3. DOMAIN r = DOMAIN q \cup {Len(q) + 1}
  BY <1>2
<1> HIDE DEF r
<1>4. ToSet(r) = ToSet(q) \cup {x}
  BY <1>1, <1>2, <1>3 DEF ToSet
<1> QED BY <1>1, <1>2, <1>3, <1>4 DEF r

(* Taking the head leaves the rest. *)
LEMMA TailToSet ==
  ASSUME NEW S, NEW q \in Seq(S), q # <<>>
  PROVE  /\ Tail(q) \in Seq(S)
         /\ Head(q) \in S
         /\ Len(Tail(q)) = Len(q) - 1
         /\ Len(q) \in Nat \ {0}
         /\ DOMAIN q = 1..Len(q)
         /\ DOMAIN Tail(q) = 1..(Len(q) - 1)
         /\ \A i \in DOMAIN Tail(q) : Tail(q)[i] = q[i + 1]
         /\ Head(q) = q[1]
         /\ ToSet(q) = ToSet(Tail(q)) \cup {Head(q)}
<1> DEFINE r == Tail(q)
<1>1. /\ r \in Seq(S) /\ Head(q) \in S /\ Len(r) = Len(q) - 1 /\ Len(q) \in Nat \ {0}
      /\ \A i \in 1..(Len(q) - 1) : r[i] = q[i + 1]
      /\ Head(q) = q[1]
  OBVIOUS
<1>2. DOMAIN q = 1..Len(q) /\ DOMAIN r = 1..(Len(q) - 1)
  BY <1>1
<1> HIDE DEF r
<1>3. ToSet(q) \subseteq ToSet(r) \cup {Head(q)}
  <2> SUFFICES ASSUME NEW i \in 1..Len(q), i # 1
               PROVE  q[i] \in ToSet(r)
    BY <1>1, <1>2 DEF ToSet
  <2>1. i - 1 \in 1..(Len(q) - 1) /\ (i - 1) + 1 = i
    BY <1>1
  <2>2. r[i - 1] = q[i]
    BY <1>1, <2>1
  <2> QED BY <1>2, <2>1, <2>2 DEF ToSet
<1>4. ToSet(r) \cup {Head(q)} \subseteq ToSet(q)
  <2>1. Head(q) \in ToSet(q)
    BY <1>1, <1>2 DEF ToSet
  <2>2. ASSUME NEW i \in 1..(Len(q) - 1)
        PROVE  r[i] \in ToSet(q)
    <3>1. i + 1 \in 1..Len(q)
      BY <1>1
    <3> QED BY <1>1, <1>2, <3>1 DEF ToSet
  <2> QED BY <1>2, <2>1, <2>2 DEF ToSet
<1>5. ToSet(q) = ToSet(r) \cup {Head(q)}
  BY <1>3, <1>4
<1> QED BY <1>1, <1>2, <1>5 DEF r
-----------------------------------------------------------------------------
(* The inductive invariant: neither of the two properties is inductive     *)
(* without the other.  That a session to be registered is held nowhere     *)
(* needs the registry to be complete, and that Finish leaves the registry  *)
(* exact needs the session to be held by the upload thread only.  That the *)
(* sentinel is queued at most once needs that it only follows a close.     *)
SentinelAfterClose == Stop \in Queued => stopping

IInv == TypeOK /\ OneHolder /\ InflightExact /\ SentinelAfterClose

(* An empty queue satisfies IInv. *)
LEMMA InitIInv == Init => IInv
<1> SUFFICES ASSUME Init PROVE IInv
  OBVIOUS
<1> USE QueueAssumption DEF Init
<1>0. <<>> \in Seq(Sessions \cup {Stop}) /\ Len(<<>>) = 0
  OBVIOUS
<1>1. TypeOK
  <2>1. queue \in Seq(Sessions \cup {Stop}) /\ Len(queue) <= QueueCap
    BY <1>0
  <2> QED BY <2>1 DEF TypeOK
<1>2. Queued = {} /\ Putting = {}
  BY DEF Queued, Putting, ToSet
<1>3. OneHolder
  BY <1>2 DEF OneHolder
<1>4. InflightExact
  BY <1>2 DEF InflightExact
<1>5. SentinelAfterClose
  BY <1>2 DEF SentinelAfterClose
<1> QED BY <1>1, <1>3, <1>4, <1>5 DEF IInv

(* Registering a session that is held nowhere keeps IInv. *)
LEMMA MarkStep ==
  ASSUME IInv, NEW q \in Enqueuers, NEW s \in Sessions, Mark(q, s)
  PROVE  IInv'
<1> USE QueueAssumption DEF IInv, TypeOK, Mark
<1>1. TypeOK'
  OBVIOUS
<1>2. Queued' = Queued /\ Putting' = Putting \cup {s}
  BY DEF Queued, Putting
<1>3. s \notin Queued /\ s \notin Putting /\ worker # s
  BY DEF InflightExact
<1>4. OneHolder'
  BY <1>2, <1>3 DEF OneHolder, Putting
<1>5. InflightExact'
  BY <1>2 DEF InflightExact
<1>6. SentinelAfterClose'
  BY <1>2 DEF SentinelAfterClose
<1> QED BY <1>1, <1>4, <1>5, <1>6

(* So does putting it in a free slot. *)
LEMMA PutStep ==
  ASSUME IInv, NEW q \in Enqueuers, Put(q)
  PROVE  IInv'
<1> DEFINE s == putting[q]
<1> USE QueueAssumption DEF IInv, TypeOK, Put
<1>1. s \in Sessions
  OBVIOUS
<1>2. /\ queue' \in Seq(Sessions \cup {Stop})
      /\ Len(queue') = Len(queue) + 1
      /\ ToSet(queue') = ToSet(queue) \cup {s}
      /\ DOMAIN queue' = DOMAIN queue \cup {Len(queue) + 1}
      /\ \A i \in DOMAIN queue : queue'[i] = queue[i]
      /\ queue'[Len(queue) + 1] = s
  <2>1. s \in Sessions \cup {Stop} /\ queue \in Seq(Sessions \cup {Stop}) /\ queue' = Append(queue, s)
    BY <1>1
  <2> QED BY <2>1, AppendToSet
<1>3. TypeOK'
  BY <1>2
<1>4. s \notin Queued /\ worker # s
  BY <1>1 DEF OneHolder, Putting
<1>5. Putting' = Putting \ {s}
  BY <1>1 DEF OneHolder, Putting
<1>6. Queued' = Queued \cup {s}
  BY <1>2 DEF Queued
<1>7. \A i, j \in DOMAIN queue' : queue'[i] = queue'[j] => i = j
  <2>1. \A i \in DOMAIN queue : queue[i] # s
    BY <1>4 DEF Queued, ToSet
  <2> QED BY <1>2, <2>1 DEF OneHolder
<1>8. OneHolder'
  <2>1. \A p, r \in Enqueuers : putting'[p] = putting'[r] /\ putting'[p] # None => p = r
    BY DEF OneHolder
  <2>2. Queued' \cap Putting' = {}
    BY <1>5, <1>6 DEF OneHolder
  <2>3. worker' \in Sessions => worker' \notin Queued' \cup Putting'
    BY <1>4, <1>5, <1>6 DEF OneHolder
  <2> QED BY <1>7, <2>1, <2>2, <2>3 DEF OneHolder
<1>9. InflightExact'
  <2>1. s \in Putting
    BY <1>1 DEF Putting
  <2> QED BY <1>5, <1>6, <2>1 DEF InflightExact
<1>10. SentinelAfterClose'
  BY <1>1, <1>6 DEF SentinelAfterClose
<1> QED BY <1>3, <1>8, <1>9, <1>10

(* So does taking the mark back when there is none. *)
LEMMA PutFullStep ==
  ASSUME IInv, NEW q \in Enqueuers, PutFull(q)
  PROVE  IInv'
<1> DEFINE s == putting[q]
<1> USE QueueAssumption DEF IInv, TypeOK, PutFull
<1>1. s \in Sessions /\ s \in Putting
  BY DEF Putting
<1>2. Putting' = Putting \ {s} /\ Queued' = Queued
  BY <1>1 DEF OneHolder, Putting, Queued
<1>3. TypeOK'
  OBVIOUS
<1>4. s \notin Queued /\ worker # s
  BY <1>1 DEF OneHolder
<1>5. OneHolder'
  <2>1. \A p, r \in Enqueuers : putting'[p] = putting'[r] /\ putting'[p] # None => p = r
    BY DEF OneHolder
  <2> QED BY <1>2, <2>1 DEF OneHolder
<1>6. InflightExact'
  BY <1>1, <1>2, <1>4 DEF InflightExact
<1>7. SentinelAfterClose'
  BY <1>2 DEF SentinelAfterClose
<1> QED BY <1>3, <1>5, <1>6, <1>7

(* The upload thread taking the head of the queue, a session or the sentinel. *)
LEMMA TakeStep ==
  ASSUME IInv, Get \/ Exit
  PROVE  IInv'
<1> USE QueueAssumption DEF IInv, TypeOK, Get, Exit
<1>1. /\ queue' = Tail(queue) /\ queue # <<>> /\ worker = None
      /\ worker' = Head(queue)
      /\ UNCHANGED <<inflight, putting, stopping>>
  OBVIOUS
<1>2. /\ queue' \in Seq(Sessions \cup {Stop})
      /\ Head(queue) \in Sessions \cup {Stop}
      /\ Len(queue') = Len(queue) - 1
      /\ Len(queue) \in Nat \ {0}
      /\ DOMAIN queue = 1..Len(queue)
      /\ DOMAIN queue' = 1..(Len(queue) - 1)
      /\ \A i \in DOMAIN queue' : queue'[i] = queue[i + 1]
      /\ Head(queue) = queue[1]
      /\ Queued = Queued' \cup {Head(queue)}
  <2>1. queue \in Seq(Sessions \cup {Stop})
    OBVIOUS
  <2> QED BY <1>1, <2>1, TailToSet DEF Queued
<1>3. TypeOK'
  BY <1>1, <1>2
<1>4. Putting' = Putting
  BY <1>1 DEF Putting
<1>5. \A i, j \in DOMAIN queue' : queue'[i] = queue'[j] => i = j
  <2> SUFFICES ASSUME NEW i \in DOMAIN queue', NEW j \in DOMAIN queue', queue'[i] = queue'[j]
               PROVE  i = j
    OBVIOUS
  <2>1. i + 1 \in DOMAIN queue /\ j + 1 \in DOMAIN queue
    BY <1>2
  <2>2. queue[i + 1] = queue[j + 1]
    BY <1>2
  <2>3. i + 1 = j + 1
    BY <2>1, <2>2 DEF OneHolder
  <2> QED BY <1>2, <2>3
<1>6. Head(queue) \notin Queued'
  <2> SUFFICES ASSUME NEW i \in DOMAIN queue', queue'[i] = Head(queue)
               PROVE  FALSE
    BY DEF Queued, ToSet
  <2>1. i + 1 \in DOMAIN queue /\ 1 \in DOMAIN queue /\ i + 1 # 1
    BY <1>2
  <2> QED BY <1>2, <2>1 DEF OneHolder
<1>7. OneHolder'
  <2>1. Queued' \subseteq Queued /\ Head(queue) \in Queued
    BY <1>2
  <2>2. Queued' \cap Putting' = {}
    BY <2>1, <1>4 DEF OneHolder
  <2>3. worker' \in Sessions => worker' \notin Queued' \cup Putting'
    BY <2>1, <1>1, <1>4, <1>6 DEF OneHolder
  <2>4. \A p, r \in Enqueuers : putting'[p] = putting'[r] /\ putting'[p] # None => p = r
    BY <1>1 DEF OneHolder
  <2> QED BY <1>5, <2>2, <2>3, <2>4 DEF OneHolder
<1>8. InflightExact'
  BY <1>1, <1>2, <1>4 DEF InflightExact
<1>9. SentinelAfterClose'
  BY <1>1, <1>2 DEF SentinelAfterClose
<1> QED BY <1>3, <1>7, <1>8, <1>9

(* So does the end of an upload, with or without the end of the thread. *)
LEMMA FinishStep ==
  ASSUME IInv, Finish \/ Die
  PROVE  IInv'
<1> USE QueueAssumption DEF IInv, TypeOK, Finish, Die
<1>1. Queued' = Queued /\ Putting' = Putting
  BY DEF Queued, Putting
<1>2. TypeOK'
  OBVIOUS
<1>3. OneHolder'
  BY <1>1 DEF OneHolder
<1>4. InflightExact'
  BY <1>1 DEF InflightExact, OneHolder
<1>5. SentinelAfterClose'
  BY <1>1 DEF SentinelAfterClose
<1> QED BY <1>2, <1>3, <1>4, <1>5

(* So does closing, with or without room for the sentinel. *)
LEMMA CloseStep ==
  ASSUME IInv, Close
  PROVE  IInv'
<1> USE QueueAssumption DEF IInv, TypeOK, Close
<1>1. Stop \notin Queued
  BY DEF SentinelAfterClose
<1>2. Putting' = Putting
  BY DEF Putting
<1>3. CASE Len(queue) < QueueCap
  <2>1. /\ queue' \in Seq(Sessions \cup {Stop})
        /\ Len(queue') = Len(queue) + 1
        /\ Queued' = Queued \cup {Stop}
        /\ DOMAIN queue' = DOMAIN queue \cup {Len(queue) + 1}
        /\ \A i \in DOMAIN queue : queue'[i] = queue[i]
        /\ queue'[Len(queue) + 1] = Stop
    <3>1. /\ Stop \in Sessions \cup {Stop} /\ queue \in Seq(Sessions \cup {Stop})
          /\ queue' = Append(queue, Stop)
      BY <1>3
    <3> QED BY <3>1, AppendToSet DEF Queued
  <2>2. TypeOK'
    BY <1>3, <2>1
  <2>3. \A i, j \in DOMAIN queue' : queue'[i] = queue'[j] => i = j
    <3>1. \A i \in DOMAIN queue : queue[i] # Stop
      BY <1>1 DEF Queued, ToSet
    <3> QED BY <2>1, <3>1 DEF OneHolder
  <2>4. Stop \notin Putting
    BY DEF Putting
  <2>5. OneHolder'
    BY <1>2, <2>1, <2>3, <2>4 DEF OneHolder
  <2>6. InflightExact'
    BY <1>2, <2>1 DEF InflightExact
  <2>7. SentinelAfterClose'
    BY DEF SentinelAfterClose
  <2> QED BY <2>2, <2>5, <2>6, <2>7
<1>4. CASE ~(Len(queue) < QueueCap)
  <2>1. queue' = queue /\ Queued' = Queued
    BY <1>4 DEF Queued
  <2> QED BY <1>2, <2>1 DEF OneHolder, InflightExact, SentinelAfterClose
<1> QED BY <1>3, <1>4

(* So does a new process. *)
LEMMA RestartStep ==
  ASSUME Restart
  PROVE  IInv'
<1> USE QueueAssumption DEF Restart
<1>0. <<>> \in Seq(Sessions \cup {Stop}) /\ Len(<<>>) = 0
  OBVIOUS
<1>1. TypeOK'
  <2>1. queue' \in Seq(Sessions \cup {Stop}) /\ Len(queue') <= QueueCap
    BY <1>0
  <2> QED BY <2>1 DEF TypeOK
<1>2. Queued' = {} /\ Putting' = {}
  BY DEF Queued, Putting, ToSet
<1>3. OneHolder'
  BY <1>2 DEF OneHolder
<1> QED BY <1>1, <1>2, <1>3 DEF IInv, InflightExact, SentinelAfterClose

(* IInv is inductive. *)
LEMMA NextIInv == IInv /\ [Next]_vars => IInv'
<1> SUFFICES ASSUME IInv, [Next]_vars PROVE IInv'
  OBVIOUS
<1>1. CASE UNCHANGED vars
  BY <1>1 DEF IInv, TypeOK, OneHolder, InflightExact, SentinelAfterClose, Queued, Putting, vars
<1>2. ASSUME NEW q \in Enqueuers, NEW s \in Sessions, Mark(q, s)
      PROVE  IInv'
  BY <1>2, MarkStep
<1>3. ASSUME NEW q \in Enqueuers, NEW s \in Sessions, Duplicate(q, s)
      PROVE  IInv'
  BY <1>1, <1>3 DEF Duplicate
<1>4. ASSUME NEW q \in Enqueuers, Put(q)
      PROVE  IInv'
  BY <1>4, PutStep
<1>5. ASSUME NEW q \in Enqueuers, PutFull(q)
      PROVE  IInv'
  BY <1>5, PutFullStep
<1>6. CASE Get \/ Exit
  BY <1>6, TakeStep
<1>7. CASE Finish \/ Die
  BY <1>7, FinishStep
<1>8. CASE Close
  BY <1>8, CloseStep
<1>9. CASE Restart
  BY <1>9, RestartStep
<1> QED BY <1>1, <1>2, <1>3, <1>4, <1>5, <1>6, <1>7, <1>8, <1>9 DEF Next

(* IInv is an invariant. *)
LEMMA Invariance == Spec => []IInv
BY InitIInv, NextIInv, PTL DEF Spec

(* The queue's variables keep their types; in particular the queue never  *)
(* holds more than MAX_QUEUE_SIZE jobs (upload_queue.py:35).              *)
THEOREM TypeCorrect == Spec => []TypeOK
<1>1. IInv => TypeOK
  BY DEF IInv
<1> QED BY <1>1, Invariance, PTL

(* No session is ever held twice: not queued twice, not queued while it is *)
(* being uploaded, not put by two threads (upload_queue.py:43).            *)
THEOREM NeverHeldTwice == Spec => []OneHolder
<1>1. IInv => OneHolder
  BY DEF IInv
<1> QED BY <1>1, Invariance, PTL

(* The in-flight registry names exactly the sessions held by a thread or  *)
(* the queue, so no session is shut out of later rescans and none can be  *)
(* enqueued beside itself (upload_queue.py:90-102, 218-221).              *)
THEOREM RegistryExact == Spec => []InflightExact
<1>1. IInv => InflightExact
  BY DEF IInv
<1> QED BY <1>1, Invariance, PTL
-----------------------------------------------------------------------------
(* The queue implements the ledger.  Every step moves at most one session, *)
(* except Restart; the lemmas say what each step does to Queued and Putting *)
(* and the ledger's view follows.                                           *)
LEMMA OneMoves ==
  ASSUME NEW s \in Sessions, NEW st,
         \A r \in Sessions \ {s} : LedgerStatus'[r] = LedgerStatus[r],
         LedgerStatus'[s] = st
  PROVE  LedgerStatus' = [LedgerStatus EXCEPT ![s] = st]
BY DEF LedgerStatus

(* Registering submits the session to the ledger. *)
LEMMA MarkSubmits ==
  ASSUME IInv, NEW q \in Enqueuers, NEW s \in Sessions, Mark(q, s)
  PROVE  Ledger!Submit(s)
<1> USE DEF IInv, TypeOK, Mark
<1>1. Queued' = Queued /\ Putting' = Putting \cup {s} /\ worker' = worker
  BY QueueAssumption DEF Queued, Putting
<1>2. s \notin Queued \cup Putting /\ worker # s
  BY DEF InflightExact
<1>3. LedgerStatus[s] = "idle" /\ LedgerStatus'[s] = "waiting"
  BY <1>1, <1>2 DEF LedgerStatus
<1>4. \A r \in Sessions \ {s} : LedgerStatus'[r] = LedgerStatus[r]
  BY <1>1 DEF LedgerStatus
<1> QED BY <1>3, <1>4, OneMoves DEF Ledger!Submit

(* A put changes nothing in the ledger. *)
LEMMA PutStutters ==
  ASSUME IInv, NEW q \in Enqueuers, Put(q)
  PROVE  LedgerStatus' = LedgerStatus
<1> DEFINE s == putting[q]
<1> USE DEF IInv, TypeOK, Put
<1>1. s \in Sessions /\ s \in Putting
  BY QueueAssumption DEF Putting
<1>2. Putting' = Putting \ {s}
  BY <1>1, QueueAssumption DEF OneHolder, Putting
<1>3. Queued' = Queued \cup {s}
  <2>1. s \in Sessions \cup {Stop} /\ queue \in Seq(Sessions \cup {Stop}) /\ queue' = Append(queue, s)
    BY <1>1
  <2> QED BY <2>1, AppendToSet DEF Queued
<1>4. Queued' \cup Putting' = Queued \cup Putting
  BY <1>1, <1>2, <1>3
<1> QED BY <1>4 DEF LedgerStatus

(* A full queue withdraws the session. *)
LEMMA PutFullWithdraws ==
  ASSUME IInv, NEW q \in Enqueuers, PutFull(q)
  PROVE  Ledger!Withdraw(putting[q])
<1> DEFINE s == putting[q]
<1> USE DEF IInv, TypeOK, PutFull
<1>1. s \in Sessions /\ s \in Putting /\ s \notin Queued /\ worker # s
  BY QueueAssumption DEF OneHolder, Putting
<1>2. Putting' = Putting \ {s} /\ Queued' = Queued /\ worker' = worker
  BY <1>1, QueueAssumption DEF OneHolder, Putting, Queued
<1>3. LedgerStatus[s] = "waiting" /\ LedgerStatus'[s] = "idle"
  BY <1>1, <1>2 DEF LedgerStatus
<1>4. \A r \in Sessions \ {s} : LedgerStatus'[r] = LedgerStatus[r]
  BY <1>2 DEF LedgerStatus
<1> HIDE DEF s
<1>5. Ledger!Withdraw(s)
  BY <1>1, <1>3, <1>4, OneMoves DEF Ledger!Withdraw
<1> QED BY <1>5 DEF s

(* Taking from the queue moves no other session. *)
LEMMA TakeMoves ==
  ASSUME IInv, Get \/ Exit
  PROVE  /\ Queued = Queued' \cup {Head(queue)} /\ Head(queue) \notin Queued'
         /\ Putting' = Putting
<1> USE DEF IInv, TypeOK, Get, Exit
<1>1. /\ queue \in Seq(Sessions \cup {Stop}) /\ queue # <<>> /\ queue' = Tail(queue)
  OBVIOUS
<1>2. /\ Len(queue) \in Nat \ {0}
      /\ DOMAIN queue = 1..Len(queue)
      /\ DOMAIN queue' = 1..(Len(queue) - 1)
      /\ \A i \in DOMAIN queue' : queue'[i] = queue[i + 1]
      /\ Head(queue) = queue[1]
      /\ Queued = Queued' \cup {Head(queue)}
  BY <1>1, TailToSet DEF Queued
<1>3. Head(queue) \notin Queued'
  <2> SUFFICES ASSUME NEW i \in DOMAIN queue', queue'[i] = Head(queue)
               PROVE  FALSE
    BY DEF Queued, ToSet
  <2>1. i + 1 \in DOMAIN queue /\ 1 \in DOMAIN queue /\ i + 1 # 1
    BY <1>2
  <2> QED BY <1>2, <2>1 DEF OneHolder
<1> QED BY <1>2, <1>3 DEF Putting

(* A get begins the session's processing. *)
LEMMA GetBegins ==
  ASSUME IInv, Get
  PROVE  Ledger!Begin(Head(queue)) /\ Head(queue) \in Sessions
<1> DEFINE s == Head(queue)
<1>1. /\ Queued = Queued' \cup {s} /\ s \notin Queued' /\ Putting' = Putting
  BY TakeMoves
<1>2. worker = None /\ worker' = s /\ s # Stop
  BY DEF Get
<1>3. s \in Sessions
  BY <1>2, TailToSet DEF IInv, TypeOK, Get
<1> HIDE DEF s
<1>4. LedgerStatus[s] = "waiting" /\ LedgerStatus'[s] = "processing"
  BY <1>1, <1>2, <1>3, QueueAssumption DEF LedgerStatus
<1>5. \A r \in Sessions : LedgerStatus[r] # "processing"
  BY <1>2, QueueAssumption DEF LedgerStatus
<1>6. \A r \in Sessions \ {s} : LedgerStatus'[r] = LedgerStatus[r]
  BY <1>1, <1>2, QueueAssumption DEF LedgerStatus
<1>7. Ledger!Begin(s)
  BY <1>3, <1>4, <1>5, <1>6, OneMoves DEF Ledger!Begin
<1> QED BY <1>3, <1>7 DEF s

(* The end of the thread changes nothing in the ledger. *)
LEMMA ExitStutters ==
  ASSUME IInv, Exit
  PROVE  LedgerStatus' = LedgerStatus
<1>1. /\ Queued = Queued' \cup {Stop} /\ Putting' = Putting
  BY TakeMoves DEF Exit
<1>2. worker = None /\ worker' = Stop
  BY DEF Exit
<1> QED BY <1>1, <1>2, QueueAssumption DEF LedgerStatus

(* The finally clause finishes the session. *)
LEMMA FinishFinishes ==
  ASSUME IInv, Finish \/ Die
  PROVE  Ledger!Finish(worker)
<1> USE DEF IInv, TypeOK, Finish, Die
<1>1. Queued' = Queued /\ Putting' = Putting
  BY DEF Queued, Putting
<1>2. worker \in Sessions /\ worker \notin Queued \cup Putting /\ worker' \in {None, Stop}
  BY DEF OneHolder
<1>3. LedgerStatus[worker] = "processing" /\ LedgerStatus'[worker] = "idle"
  BY <1>1, <1>2, QueueAssumption DEF LedgerStatus
<1>4. \A r \in Sessions \ {worker} : LedgerStatus'[r] = LedgerStatus[r]
  BY <1>1, <1>2, QueueAssumption DEF LedgerStatus
<1> QED BY <1>2, <1>3, <1>4, OneMoves DEF Ledger!Finish

(* Closing changes nothing in the ledger. *)
LEMMA CloseStutters ==
  ASSUME IInv, Close
  PROVE  LedgerStatus' = LedgerStatus
<1> USE DEF IInv, TypeOK, Close
<1>1. Putting' = Putting /\ worker' = worker
  BY DEF Putting
<1>2. Queued' = Queued \/ Queued' = Queued \cup {Stop}
  <2>1. CASE queue' = queue
    BY <2>1 DEF Queued
  <2>2. CASE queue' = Append(queue, Stop)
    <3>1. Stop \in Sessions \cup {Stop} /\ queue \in Seq(Sessions \cup {Stop})
      OBVIOUS
    <3> QED BY <2>2, <3>1, AppendToSet DEF Queued
  <2> QED BY <2>1, <2>2
<1> QED BY <1>1, <1>2, QueueAssumption DEF LedgerStatus

(* A restart makes every session idle. *)
LEMMA RestartRestarts ==
  ASSUME Restart
  PROVE  Ledger!Restart
<1>1. Queued' = {} /\ Putting' = {} /\ worker' = None
  BY DEF Restart, Queued, Putting, ToSet
<1> QED BY <1>1, QueueAssumption DEF LedgerStatus, Ledger!Restart

(* The threads, the lock and the queue together are the ledger: every     *)
(* behaviour of the queue, its registry and its upload thread is one of   *)
(* the ledger's, where a session waits once and is processed alone.       *)
THEOREM QueueIsLedger == Spec => ImplementsLedger
<1>1. Init => Ledger!Init
  <2>1. Init => Queued = {} /\ Putting = {} /\ worker = None
    BY DEF Init, Queued, Putting, ToSet
  <2> QED BY <2>1, QueueAssumption DEF LedgerStatus, Ledger!Init
<1>2. IInv /\ [Next]_vars => [Ledger!Next]_LedgerStatus
  <2> SUFFICES ASSUME IInv, [Next]_vars PROVE [Ledger!Next]_LedgerStatus
    OBVIOUS
  <2>1. CASE UNCHANGED vars
    BY <2>1 DEF vars, LedgerStatus, Queued, Putting
  <2>2. ASSUME NEW q \in Enqueuers, NEW s \in Sessions, Mark(q, s)
        PROVE  Ledger!Next
    BY <2>2, MarkSubmits DEF Ledger!Next
  <2>3. ASSUME NEW q \in Enqueuers, NEW s \in Sessions, Duplicate(q, s)
        PROVE  UNCHANGED vars
    BY <2>3 DEF Duplicate
  <2>4. ASSUME NEW q \in Enqueuers, Put(q)
        PROVE  LedgerStatus' = LedgerStatus
    BY <2>4, PutStutters
  <2>5. ASSUME NEW q \in Enqueuers, PutFull(q)
        PROVE  Ledger!Next
    <3>1. putting[q] \in Sessions
      BY <2>5 DEF PutFull, IInv, TypeOK
    <3> QED BY <2>5, <3>1, PutFullWithdraws DEF Ledger!Next
  <2>6. CASE Get
    BY <2>6, GetBegins DEF Ledger!Next
  <2>7. CASE Exit
    BY <2>7, ExitStutters
  <2>8. CASE Finish \/ Die
    BY <2>8, FinishFinishes DEF Ledger!Next, Finish, Die
  <2>9. CASE Close
    BY <2>9, CloseStutters
  <2>10. CASE Restart
    BY <2>10, RestartRestarts DEF Ledger!Next
  <2> QED BY <2>1, <2>2, <2>3, <2>4, <2>5, <2>6, <2>7, <2>8, <2>9, <2>10 DEF Next
<1> QED BY <1>1, <1>2, Invariance, PTL DEF Spec, ImplementsLedger, Ledger!Spec
=============================================================================
