----------------------- MODULE OntologyJobs_proofs -----------------------
(***************************************************************************)
(* Safety of the background job queue for every number of owners, request *)
(* threads, jobs, resumes and crashes.                                     *)
(*                                                                         *)
(* The argument: ids are handed out once, so an INSERT never overwrites a  *)
(* row (IdsInv); created_at numbers rows uniquely, so a resume requeues at *)
(* most one row per owner (BornInv); and a row taken by the live worker    *)
(* stays running under its lease until the worker itself lets it go        *)
(* (HoldInv), which is what relates the attempts of a row to the crashes.  *)
(* As long as nothing crashes and nobody resumes, all that is queued or in *)
(* the worker's hand keeps its registration (CalmInv).                     *)
(***************************************************************************)
EXTENDS OntologyJobs, TLAPS

----------------------------------------------------------------------------
(* Types.                                                                  *)

\* The initial and cleared thread records.
LEMMA IdleTypes ==
    /\ IdleClient \in ClientRecords
    /\ IdleClient.at = "idle"
    /\ IdleWorker \in WorkerRecords
    /\ IdleWorker.at = "down"
    /\ IdleWorker.job = NoJob
    /\ IdleWorker.outcome = "none"
  BY OntologyJobsAssumption
     DEF IdleClient, IdleWorker, ClientRecords, WorkerRecords, NoJob

\* A stored row has the fields of a row.
LEMMA StoredRow ==
    ASSUME TypeOK, NEW j \in JobIds, row[j] # NoRow
    PROVE  row[j] \in Rows
  BY DEF TypeOK

\* Moving a row to a state keeps everything but its lease.
LEMMA MoveFacts ==
    ASSUME NEW r \in Rows, NEW s \in {"queued", "failed"}, NEW q, q = Move(r, s, 0)
    PROVE  /\ q \in Rows
           /\ q.state = s
           /\ q.owner = r.owner
           /\ q.born = r.born
           /\ q.attempts = r.attempts
  BY DEF Rows, Move

LEMMA ClaimedFacts ==
    ASSUME NEW r \in Rows, NEW l \in Nat
    PROVE  /\ Claimed(r, l) \in Rows
           /\ Claimed(r, l).state = "running"
           /\ Claimed(r, l).lease = l
           /\ Claimed(r, l).owner = r.owner
           /\ Claimed(r, l).born = r.born
           /\ Claimed(r, l).attempts = r.attempts + 1
<1>1. r.attempts + 1 \in Nat
  BY DEF Rows
<1> DEFINE n == r.attempts + 1
<1>2. Claimed(r, l) = [Move(r, "running", l) EXCEPT !.attempts = n]
  BY DEF Claimed
<1> HIDE DEF n
<1> SUFFICES /\ Claimed(r, l) \in Rows
             /\ Claimed(r, l).state = "running"
             /\ Claimed(r, l).lease = l
             /\ Claimed(r, l).owner = r.owner
             /\ Claimed(r, l).born = r.born
             /\ Claimed(r, l).attempts = n
  BY DEF n
<1>3. n \in Nat
  BY <1>1 DEF n
<1> QED
  BY <1>2, <1>3 DEF Rows, Move

LEMMA FinishedFacts ==
    ASSUME NEW r \in Rows, NEW p \in BOOLEAN
    PROVE  /\ Finished(r, p) \in Rows
           /\ Finished(r, p).state = "done"
           /\ Finished(r, p).owner = r.owner
           /\ Finished(r, p).born = r.born
           /\ Finished(r, p).attempts = r.attempts
  BY DEF Rows, Move, Finished

LEMMA ResumedFacts ==
    ASSUME NEW r \in Rows
    PROVE  /\ Resumed(r) \in Rows
           /\ Resumed(r).state = "queued"
           /\ Resumed(r).owner = r.owner
           /\ Resumed(r).born = r.born
           /\ Resumed(r).attempts = 0
<1> DEFINE z == IF r.prio > ResumePrio THEN r.prio ELSE ResumePrio
<1>1. z \in Int
  BY OntologyJobsAssumption DEF Rows
<1> DEFINE m == Move(r, "queued", 0)
           a == [m EXCEPT !.attempts = 0]
<1>2. Resumed(r) = [a EXCEPT !.prio = z]
  BY DEF Resumed
<1>3. m \in Rows /\ m.state = "queued" /\ m.owner = r.owner /\ m.born = r.born
  BY MoveFacts
<1> HIDE DEF m, z
<1>4. /\ a \in Rows /\ a.state = "queued" /\ a.owner = r.owner /\ a.born = r.born
      /\ a.attempts = 0
  BY <1>3 DEF Rows
<1> HIDE DEF a
<1> QED
  BY <1>1, <1>2, <1>4 DEF Rows

LEMMA SetExpired ==
    ASSUME NEW r \in Rows, NEW q, q = [r EXCEPT !.expired = TRUE]
    PROVE  /\ q \in Rows
           /\ q.state = r.state /\ q.lease = r.lease
           /\ q.owner = r.owner /\ q.born = r.born
           /\ q.attempts = r.attempts
  BY DEF Rows

\* A row in one of the four states of the table is stored.
LEMMA StateStored ==
    ASSUME TypeOK, NEW j \in JobIds,
           row[j].state \in {"queued", "running", "done", "failed"}
    PROVE  j \in Stored /\ row[j] \in Rows
  BY DEF TypeOK, Stored, NoRow

\* Updates of one row or of one thread keep the type.
LEMMA Updates ==
    ASSUME TypeOK
    PROVE  /\ \A c \in Clients, r \in ClientRecords :
                 [client EXCEPT ![c] = r] \in [Clients -> ClientRecords]
           /\ \A j \in JobIds, r \in Rows :
                 [row EXCEPT ![j] = r] \in [JobIds -> Rows \union {NoRow}]
  BY DEF TypeOK

\* Threads between enqueue_job's check and its INSERT.
Enqueuing(c) == client[c].at \in {"register", "insert"}

\* A job id is handed to one enqueue, and has no row before that INSERT.
IdsInv ==
    /\ \A j \in Stored : j <= issued
    /\ \A c \in Clients : Enqueuing(c) =>
          client[c].job \in JobIds \ Stored /\ client[c].job <= issued
    /\ \A c, d \in Clients : Enqueuing(c) /\ Enqueuing(d) /\ c # d
                              => client[c].job # client[d].job

----------------------------------------------------------------------------
(* What each writing action does to the rows.                              *)

RowMap == [JobIds -> Rows \union {NoRow}]

\* A step of an existing row keeps its owner and its place in time.
SameIdentity(j) ==
    /\ row'[j] \in Rows
    /\ row'[j].owner = row[j].owner
    /\ row'[j].born = row[j].born

LEMMA RowRecover ==
    ASSUME TypeOK, RecoverExpired
    PROVE  /\ row' \in RowMap
           /\ \A j \in Stored :
                /\ SameIdentity(j)
                /\ row'[j].attempts = row[j].attempts
                /\ \/ row'[j] = row[j]
                   \/ row[j].state = "running" /\ row'[j].state = "queued"
           /\ \A j \in JobIds \ Stored : row'[j] = row[j]
<1>1. \A j \in Stored : j \in JobIds /\ row[j] \in Rows
  BY StoredRow DEF Stored
<1>2. \A j \in Stored : Move(row[j], "queued", 0) \in Rows
  BY <1>1, MoveFacts
<1>3. row' \in RowMap
  BY <1>2 DEF RecoverExpired, RowMap, TypeOK
<1>4. ASSUME NEW j \in Stored
      PROVE  /\ SameIdentity(j)
             /\ row'[j].attempts = row[j].attempts
             /\ \/ row'[j] = row[j]
                \/ row[j].state = "running" /\ row'[j].state = "queued"
  <2>1. CASE Reclaimable(j)
    <3>1. row'[j] = Move(row[j], "queued", 0) /\ row[j].state = "running"
      BY <1>1, <2>1 DEF RecoverExpired, Reclaimable
    <3> QED
      BY <1>1, <3>1, MoveFacts DEF SameIdentity
  <2>2. CASE ~ Reclaimable(j)
    BY <1>1, <2>2 DEF RecoverExpired, SameIdentity
  <2> QED
    BY <2>1, <2>2
<1> QED
  BY <1>3, <1>4 DEF RecoverExpired

LEMMA RowClaim ==
    ASSUME TypeOK, NEW k \in JobIds, ClaimNext(k)
    PROVE  /\ row' \in RowMap
           /\ k \in Stored
           /\ \A j \in Stored : SameIdentity(j)
           /\ \A j \in JobIds \ {k} : row'[j] = row[j]
           /\ row[k].state = "queued" /\ row'[k].state = "running"
           /\ row'[k].attempts = row[k].attempts + 1
           /\ row'[k].lease = epoch
<1>1. k \in Stored /\ row[k].state = "queued"
  BY DEF ClaimNext, NextQueued, Claimable
<1>2. \A j \in Stored : j \in JobIds /\ row[j] \in Rows
  BY StoredRow DEF Stored
<1>3. epoch \in Nat
  BY DEF TypeOK
<1>4. row' = [row EXCEPT ![k] = Claimed(row[k], epoch)]
  BY DEF ClaimNext
<1>5. row'[k] = Claimed(row[k], epoch) /\ \A j \in JobIds \ {k} : row'[j] = row[j]
  BY <1>4 DEF TypeOK
<1>6. row' \in RowMap
  BY <1>1, <1>2, <1>3, <1>4, ClaimedFacts, Updates DEF RowMap
<1> QED
  BY <1>1, <1>2, <1>3, <1>5, <1>6, ClaimedFacts DEF SameIdentity

LEMMA RowDone ==
    ASSUME TypeOK, NEW paused \in BOOLEAN, RunDone(paused)
    PROVE  /\ row' \in RowMap
           /\ \A j \in Stored :
                /\ SameIdentity(j)
                /\ row'[j].attempts = row[j].attempts
                /\ \/ row'[j] = row[j] /\ ~ (j = worker.job /\ Held(j))
                   \/ row[j].state = "running" /\ row'[j].state = "done"
           /\ \A j \in JobIds \ Stored : row'[j] = row[j]
<1> DEFINE k == worker.job
<1>1. \A j \in Stored : j \in JobIds /\ row[j] \in Rows
  BY StoredRow DEF Stored
<1>2. CASE k \in JobIds /\ Held(k)
  <2>1. k \in Stored /\ row[k] \in Rows /\ row[k].state = "running"
    BY <1>2, StateStored DEF Held
  <2>2. row' = [row EXCEPT ![k] = Finished(row[k], paused)]
    BY <1>2 DEF RunDone
  <2>3. row'[k] = Finished(row[k], paused) /\ \A j \in JobIds \ {k} : row'[j] = row[j]
    BY <1>2, <2>2 DEF TypeOK
  <2>4. row' \in RowMap
    BY <1>2, <2>1, <2>2, FinishedFacts, Updates DEF RowMap
  <2> QED
    BY <1>1, <2>1, <2>3, <2>4, FinishedFacts DEF SameIdentity
<1>3. CASE ~ (k \in JobIds /\ Held(k))
  <2>1. \A j \in JobIds : row'[j] = row[j]
    BY <1>3 DEF RunDone, TypeOK
  <2>2. row' \in RowMap
    BY <1>3 DEF RunDone, RowMap, TypeOK
  <2> QED
    BY <1>1, <1>3, <2>1, <2>2 DEF SameIdentity
<1> QED
  BY <1>2, <1>3

LEMMA RowFail ==
    ASSUME TypeOK, FailJob
    PROVE  /\ row' \in RowMap
           /\ \A j \in Stored :
                /\ SameIdentity(j)
                /\ row'[j].attempts = row[j].attempts
                /\ \/ row'[j] = row[j] /\ ~ (j = worker.job /\ Held(j))
                   \/ row[j].state = "running" /\ row'[j].state = "failed"
                   \/ /\ row[j].state = "running" /\ row'[j].state = "queued"
                      /\ row[j].attempts < MaxAttempts
           /\ \A j \in JobIds \ Stored : row'[j] = row[j]
<1> DEFINE k == worker.job
<1>1. \A j \in Stored : j \in JobIds /\ row[j] \in Rows
  BY StoredRow DEF Stored
<1>2. ASSUME NEW j \in Stored, NEW s \in {"queued", "failed"}
      PROVE  /\ Move(row[j], s, 0) \in Rows
             /\ Move(row[j], s, 0).state = s
             /\ Move(row[j], s, 0).owner = row[j].owner
             /\ Move(row[j], s, 0).born = row[j].born
             /\ Move(row[j], s, 0).attempts = row[j].attempts
  BY <1>1, MoveFacts
<1>3. CASE k \in JobIds /\ Held(k)
  <2>1. k \in Stored /\ row[k] \in Rows /\ row[k].state = "running"
    BY <1>3, StateStored DEF Held
  <2>2. CASE Retries(k)
    <3>1. row' = [row EXCEPT ![k] = Move(row[k], "queued", 0)]
      BY <1>3, <2>2 DEF FailJob
    <3>2. /\ row'[k] = Move(row[k], "queued", 0)
          /\ \A j \in JobIds \ {k} : row'[j] = row[j]
      BY <1>3, <3>1 DEF TypeOK
    <3>3. row' \in RowMap
      BY <1>3, <1>2, <2>1, <3>1, Updates DEF RowMap
    <3> QED
      BY <1>1, <2>1, <2>2, <1>2, <3>2, <3>3 DEF SameIdentity, Retries
  <2>3. CASE ~ Retries(k)
    <3>1. row' = [row EXCEPT ![k] = Move(row[k], "failed", 0)]
      BY <1>3, <2>3 DEF FailJob
    <3>2. /\ row'[k] = Move(row[k], "failed", 0)
          /\ \A j \in JobIds \ {k} : row'[j] = row[j]
      BY <1>3, <3>1 DEF TypeOK
    <3>3. row' \in RowMap
      BY <1>3, <1>2, <2>1, <3>1, Updates DEF RowMap
    <3> QED
      BY <1>1, <2>1, <1>2, <3>2, <3>3 DEF SameIdentity
  <2> QED
    BY <2>2, <2>3
<1>4. CASE ~ (k \in JobIds /\ Held(k))
  <2>1. \A j \in JobIds : row'[j] = row[j]
    BY <1>4 DEF FailJob, TypeOK
  <2>2. row' \in RowMap
    BY <1>4 DEF FailJob, RowMap, TypeOK
  <2> QED
    BY <1>1, <1>4, <2>1, <2>2 DEF SameIdentity
<1> QED
  BY <1>3, <1>4

LEMMA RowResume ==
    ASSUME TypeOK, NEW c \in Clients, ResumeRequeue(c)
    PROVE  /\ row' \in RowMap
           /\ \A j \in Stored :
                /\ SameIdentity(j)
                /\ \/ row'[j] = row[j] /\ j \notin Requeued(c)
                   \/ /\ j \in Requeued(c) /\ row'[j].state = "queued"
                      /\ row'[j].attempts = 0
           /\ \A j \in JobIds \ Stored : row'[j] = row[j]
<1>1. \A j \in Stored : j \in JobIds /\ row[j] \in Rows
  BY StoredRow DEF Stored
<1>2. row' = [j \in JobIds |-> IF j \in Requeued(c) THEN Resumed(row[j]) ELSE row[j]]
  BY DEF ResumeRequeue
<1>3. Requeued(c) \subseteq Stored /\ Stored \subseteq JobIds
  BY DEF Requeued, Stored
<1>4. row' \in RowMap
  BY <1>1, <1>2, <1>3, ResumedFacts DEF RowMap, TypeOK
<1>5. \A j \in JobIds : row'[j] = IF j \in Requeued(c) THEN Resumed(row[j]) ELSE row[j]
  BY <1>2
<1> QED
  BY <1>1, <1>3, <1>4, <1>5, ResumedFacts DEF SameIdentity

LEMMA RowExpires ==
    ASSUME TypeOK, NEW k \in JobIds, LeaseExpires(k)
    PROVE  /\ row' \in RowMap
           /\ \A j \in Stored :
                /\ SameIdentity(j)
                /\ row'[j].attempts = row[j].attempts
                /\ row'[j].state = row[j].state
                /\ row'[j].lease = row[j].lease
           /\ \A j \in JobIds \ Stored : row'[j] = row[j]
<1> DEFINE q == [row[k] EXCEPT !.expired = TRUE]
<1>1. \A j \in Stored : j \in JobIds /\ row[j] \in Rows
  BY StoredRow DEF Stored
<1>2. k \in Stored
  BY DEF LeaseExpires
<1>3. /\ q \in Rows /\ q.state = row[k].state /\ q.lease = row[k].lease
      /\ q.owner = row[k].owner /\ q.born = row[k].born
      /\ q.attempts = row[k].attempts
  <2>1. q = [row[k] EXCEPT !.expired = TRUE]
    OBVIOUS
  <2> HIDE DEF q
  <2> QED
    BY <1>1, <1>2, <2>1, SetExpired
<1>4. row' = [row EXCEPT ![k] = q]
  BY DEF LeaseExpires
<1> HIDE DEF q
<1>5. row'[k] = q /\ \A j \in JobIds \ {k} : row'[j] = row[j]
  BY <1>4 DEF TypeOK
<1>6. row' \in RowMap
  BY <1>3, <1>4, Updates DEF RowMap
<1> QED
  BY <1>1, <1>2, <1>3, <1>5, <1>6 DEF SameIdentity

\* An INSERT adds the row of its own id, when the index allows it, and
\* touches no other.
LEMMA RowInsert ==
    ASSUME TypeOK, IdsInv, NEW c \in Clients, EnqueueInsert(c)
    PROVE  /\ client[c].job \in JobIds \ Stored
           /\ row' \in RowMap
           /\ \/ UNCHANGED <<row, inserted>>
              \/ /\ ~ IndexRefuses(c)
                 /\ inserted' = inserted + 1
                 /\ \A j \in JobIds \ {client[c].job} : row'[j] = row[j]
                 /\ row'[client[c].job] \in Rows
                 /\ row'[client[c].job].state = InsertedState(c)
                 /\ row'[client[c].job].owner = client[c].owner
                 /\ row'[client[c].job].born = inserted + 1
                 /\ row'[client[c].job].attempts = 0
<1> DEFINE new == [state |-> InsertedState(c),
                   owner |-> client[c].owner, prio |-> Priority[client[c].owner],
                   born |-> inserted + 1, attempts |-> 0, lease |-> 0,
                   expired |-> FALSE, paused |-> FALSE]
<1>1. client[c].job \in JobIds \ Stored /\ client[c] \in ClientRecords
  BY DEF EnqueueInsert, IdsInv, Enqueuing, TypeOK
<1>2. CASE ~ IndexRefuses(c)
  <2>1. row' = [row EXCEPT ![client[c].job] = new] /\ inserted' = inserted + 1
    BY <1>2 DEF EnqueueInsert
  <2>2. client[c].owner \in Owners
    BY <1>1 DEF ClientRecords
  <2>3. new \in Rows
    BY <2>2, OntologyJobsAssumption DEF Rows, InsertedState, TypeOK
  <2>4. /\ new.state = InsertedState(c) /\ new.owner = client[c].owner
        /\ new.born = inserted + 1 /\ new.attempts = 0
    OBVIOUS
  <2> HIDE DEF new
  <2>5. row'[client[c].job] = new /\ \A j \in JobIds \ {client[c].job} : row'[j] = row[j]
    BY <1>1, <2>1 DEF TypeOK
  <2>6. row' \in RowMap
    BY <1>1, <2>1, <2>3, Updates DEF RowMap
  <2> QED
    BY <1>1, <1>2, <2>1, <2>3, <2>4, <2>5, <2>6
<1>3. CASE IndexRefuses(c)
  BY <1>1, <1>3 DEF EnqueueInsert, RowMap, TypeOK
<1> QED
  BY <1>2, <1>3

----------------------------------------------------------------------------
(* Type correctness.                                                       *)

LEMMA TypeInit == Init => TypeOK
  BY IdleTypes, OntologyJobsAssumption DEF Init, TypeOK, JobIds

\* Every step keeps the type of every variable.
LEMMA TypeStep == TypeOK /\ IdsInv /\ [Next]_vars => TypeOK'
<1> SUFFICES ASSUME TypeOK, IdsInv, [Next]_vars PROVE TypeOK'
  OBVIOUS
<1> USE OntologyJobsAssumption
<1>1. CASE Boot
  BY <1>1, IdleTypes DEF Boot, TypeOK, WorkerRecords
<1>2. CASE RecoverExpired
  BY <1>2, RowRecover DEF RecoverExpired, RowMap, TypeOK, WorkerRecords
<1>3. ASSUME NEW j \in JobIds, ClaimNext(j) PROVE TypeOK'
  <2>1. worker' \in WorkerRecords
    BY <1>3 DEF ClaimNext, WorkerRecords
  <2> QED
    BY <1>3, <2>1, RowClaim DEF ClaimNext, RowMap, TypeOK
<1>4. CASE PollIdle
  BY <1>4 DEF PollIdle, TypeOK, vars
<1>5. CASE Activate
  BY <1>5 DEF Activate, TypeOK, WorkerRecords
<1>6. ASSUME NEW paused \in BOOLEAN, RunDone(paused) PROVE TypeOK'
  BY <1>6, RowDone DEF RunDone, RowMap, TypeOK, WorkerRecords
<1>7. CASE RunRaises
  BY <1>7 DEF RunRaises, TypeOK, WorkerRecords
<1>8. CASE Unregister
  BY <1>8, IdleTypes DEF Unregister, TypeOK, WorkerRecords
<1>9. CASE FailJob
  BY <1>9, RowFail, IdleTypes DEF FailJob, RowMap, TypeOK, WorkerRecords
<1>10. ASSUME NEW c \in Clients, NEW o \in Owners, EnqueueCheck(c, o) PROVE TypeOK'
  <2>1. [IdleClient EXCEPT !.at = "register", !.owner = o, !.job = issued + 1]
          \in ClientRecords
    <3>1. issued + 1 \in JobIds
      BY <1>10 DEF EnqueueCheck, TypeOK, JobIds
    <3> QED
      BY <3>1, IdleTypes DEF ClientRecords
  <2>2. issued' \in 0..MaxJobs
    BY <1>10 DEF EnqueueCheck, TypeOK
  <2> QED
    BY <1>10, <2>1, <2>2, Updates DEF EnqueueCheck, TypeOK
<1>11. ASSUME NEW c \in Clients, EnqueueRegister(c) PROVE TypeOK'
  <2>1. client[c] \in ClientRecords
    BY DEF TypeOK
  <2>2. /\ [client[c] EXCEPT !.at = "insert"] \in ClientRecords
        /\ [client[c] EXCEPT !.at = "insert", !.ok = FALSE] \in ClientRecords
    BY <2>1 DEF ClientRecords
  <2>3. client' \in [Clients -> ClientRecords]
    BY <1>11, <2>2, Updates DEF EnqueueRegister
  <2>4. origin' \subseteq JobIds
    BY <1>11, <2>1 DEF EnqueueRegister, Enqueuing, IdsInv, TypeOK
  <2> QED
    BY <1>11, <2>3, <2>4 DEF EnqueueRegister, TypeOK
<1>12. ASSUME NEW c \in Clients, EnqueueInsert(c) PROVE TypeOK'
  <2>1. client' \in [Clients -> ClientRecords]
    BY <1>12, Updates, IdleTypes DEF EnqueueInsert, Idle
  <2>2. row' \in RowMap /\ inserted' \in Nat
    BY <1>12, RowInsert DEF TypeOK
  <2> QED
    BY <1>12, <2>1, <2>2 DEF EnqueueInsert, RowMap, TypeOK
<1>13. ASSUME NEW c \in Clients, NEW target \in JobIds \union {NoJob},
              ResumeScan(c, target)
       PROVE  TypeOK'
  <2> DEFINE cand == {j \in Stored : InScope(j, target) /\ recoverable_job(j)}
  <2>1. [IdleClient EXCEPT !.at = "resume", !.target = target, !.cand = cand]
          \in ClientRecords
    BY IdleTypes DEF ClientRecords, Stored
  <2> QED
    BY <1>13, <2>1, Updates DEF ResumeScan, TypeOK
<1>14. ASSUME NEW c \in Clients, NEW j \in JobIds, ResumeRegister(c, j) PROVE TypeOK'
  <2>1. client[c] \in ClientRecords
    BY DEF TypeOK
  <2>2. [client[c] EXCEPT !.cand = @ \ {j}] \in ClientRecords
    BY <2>1 DEF ClientRecords
  <2>3. client' \in [Clients -> ClientRecords]
    BY <1>14, <2>2, IdleTypes, Updates DEF ResumeRegister, Idle
  <2> QED
    BY <1>14, <2>3 DEF ResumeRegister, TypeOK
<1>15. ASSUME NEW c \in Clients, ResumeRequeue(c) PROVE TypeOK'
  BY <1>15, RowResume, IdleTypes, Updates DEF ResumeRequeue, Idle, RowMap, TypeOK
<1>16. ASSUME NEW j \in JobIds, LeaseExpires(j) PROVE TypeOK'
  BY <1>16, RowExpires DEF LeaseExpires, RowMap, TypeOK
<1>17. CASE Crash
  BY <1>17, IdleTypes DEF Crash, TypeOK
<1>18. CASE UNCHANGED vars
  BY <1>18 DEF vars, TypeOK
<1> QED
  BY <1>1, <1>2, <1>3, <1>4, <1>5, <1>6, <1>7, <1>8, <1>9, <1>10, <1>11, <1>12,
     <1>13, <1>14, <1>15, <1>16, <1>17, <1>18
     DEF Next, WorkerStep, ClientStep, ClientStarts

----------------------------------------------------------------------------
(* What a step does to the rows.                                           *)

\* The seven actions that write to the table.
LEMMA RowSteps ==
    ASSUME [Next]_vars
    PROVE  \/ UNCHANGED <<row, inserted>>
           \/ RecoverExpired
           \/ \E j \in JobIds : ClaimNext(j)
           \/ \E paused \in BOOLEAN : RunDone(paused)
           \/ FailJob
           \/ \E c \in Clients : EnqueueInsert(c)
           \/ \E c \in Clients : ResumeRequeue(c)
           \/ \E j \in JobIds : LeaseExpires(j)
  BY DEF Next, WorkerStep, ClientStep, ClientStarts, vars, Boot, PollIdle, Activate,
         RunRaises, Unregister, EnqueueCheck, EnqueueRegister, ResumeScan,
         ResumeRegister, Crash

\* A stored row stays stored, with its owner and its place in time; a row
\* that is new was inserted.
LEMMA RowKept ==
    ASSUME TypeOK, IdsInv, [Next]_vars
    PROVE  /\ \A j \in Stored : SameIdentity(j)
           /\ Stored \subseteq Stored'
           /\ \A j \in Stored' \ Stored : \E c \in Clients :
                 EnqueueInsert(c) /\ ~ IndexRefuses(c) /\ j = client[c].job
<1>1. \A j \in Stored : j \in JobIds /\ row[j] \in Rows
  BY StoredRow DEF Stored
<1>2. \A j \in Stored' : j \in JobIds /\ row'[j] # NoRow
  BY DEF Stored, JobIds
<1>3. ASSUME NEW c \in Clients, EnqueueInsert(c)
      PROVE  /\ \A j \in Stored : row'[j] = row[j]
             /\ \A j \in JobIds \ Stored : \/ row'[j] = row[j]
                                           \/ j = client[c].job /\ ~ IndexRefuses(c)
  BY <1>1, <1>3, RowInsert
<1>4. ASSUME NEW j \in Stored PROVE SameIdentity(j)
  BY <1>1, <1>3, RowSteps, RowRecover, RowClaim, RowDone, RowFail, RowResume,
     RowExpires DEF SameIdentity
<1>5. ASSUME NEW j \in JobIds \ Stored, row'[j] # row[j]
      PROVE  \E c \in Clients :
                EnqueueInsert(c) /\ ~ IndexRefuses(c) /\ j = client[c].job
  BY <1>3, <1>5, RowSteps, RowRecover, RowClaim, RowDone, RowFail, RowResume,
     RowExpires
<1>6. Stored \subseteq Stored'
  <2>1. \A r \in Rows : r # NoRow
    BY DEF Rows, NoRow
  <2> QED
    BY <1>1, <1>4, <2>1 DEF SameIdentity, Stored
<1>7. \A j \in Stored' \ Stored : j \in JobIds \ Stored /\ row'[j] # row[j]
  BY <1>2 DEF Stored
<1> QED
  BY <1>4, <1>5, <1>6, <1>7

----------------------------------------------------------------------------
(* Job ids.                                                                *)

LEMMA IdsInit == Init => IdsInv
  BY IdleTypes DEF Init, IdsInv, Enqueuing, Stored

\* The thread a step moves is the only one whose record changes.
LEMMA ClientUpdate ==
    ASSUME TypeOK, NEW c \in Clients, NEW r, client' = [client EXCEPT ![c] = r]
    PROVE  client'[c] = r /\ \A d \in Clients \ {c} : client'[d] = client[d]
  BY DEF TypeOK

LEMMA IdsStep == TypeOK /\ IdsInv /\ [Next]_vars => IdsInv'
<1> SUFFICES ASSUME TypeOK, IdsInv, [Next]_vars PROVE IdsInv'
  OBVIOUS
<1> USE DEF JobIds
<1>1. ASSUME NEW c \in Clients, NEW o \in Owners, EnqueueCheck(c, o) PROVE IdsInv'
  <2> DEFINE r == [IdleClient EXCEPT !.at = "register", !.owner = o, !.job = issued + 1]
  <2>1. r.job = issued + 1 /\ r.at = "register"
    BY IdleTypes DEF ClientRecords
  <2>2. client' = [client EXCEPT ![c] = r] /\ row' = row /\ issued' = issued + 1
    BY <1>1 DEF EnqueueCheck
  <2> HIDE DEF r
  <2>3. client'[c] = r /\ \A d \in Clients \ {c} : client'[d] = client[d]
    BY <2>2, ClientUpdate
  <2>4. issued + 1 \in 1..MaxJobs /\ issued \in Nat
    BY <1>1, OntologyJobsAssumption DEF EnqueueCheck, TypeOK
  <2>5. Stored' = Stored /\ \A j \in Stored : j \in Int /\ j <= issued
    BY <2>2 DEF Stored, IdsInv
  <2>6. /\ issued + 1 \notin Stored
        /\ \A d \in Clients : Enqueuing(d) =>
             client[d].job \in Int /\ client[d].job <= issued
    BY <2>4, <2>5 DEF IdsInv
  <2> QED
    BY <2>1, <2>2, <2>3, <2>4, <2>5, <2>6 DEF IdsInv, Enqueuing
<1>2. ASSUME NEW c \in Clients, EnqueueRegister(c) PROVE IdsInv'
  <2>1. client[c] \in ClientRecords
    BY DEF TypeOK
  <2>2. PICK r : /\ client' = [client EXCEPT ![c] = r]
                 /\ r.at = "insert" /\ r.job = client[c].job
    BY <1>2, <2>1 DEF EnqueueRegister, ClientRecords
  <2>3. client'[c] = r /\ \A d \in Clients \ {c} : client'[d] = client[d]
    BY <2>2, ClientUpdate
  <2>4. Stored' = Stored /\ issued' = issued /\ Enqueuing(c)
    BY <1>2 DEF EnqueueRegister, Stored, Enqueuing
  <2> QED
    BY <2>2, <2>3, <2>4 DEF IdsInv, Enqueuing
<1>3. ASSUME NEW c \in Clients, Idle(c), issued' = issued,
             \A j \in Stored' : j \in Stored \/ (Enqueuing(c) /\ j = client[c].job)
      PROVE  IdsInv'
  <2>1. /\ ~ Enqueuing(c)' 
        /\ \A d \in Clients \ {c} : client'[d] = client[d]
    BY <1>3, IdleTypes, ClientUpdate DEF Idle, Enqueuing
  <2> QED
    BY <1>3, <2>1 DEF IdsInv, Enqueuing
<1>4. ASSUME client' = client, issued' = issued, Stored' = Stored PROVE IdsInv'
  BY <1>4 DEF IdsInv, Enqueuing
<1>5. ASSUME NEW c \in Clients, NEW r, client' = [client EXCEPT ![c] = r],
             r.at = "resume", issued' = issued, row' = row
      PROVE  IdsInv'
  <2>1. client'[c] = r /\ \A d \in Clients \ {c} : client'[d] = client[d]
    BY <1>5, ClientUpdate
  <2>2. Stored' = Stored
    BY <1>5 DEF Stored
  <2> QED
    BY <1>5, <2>1, <2>2 DEF IdsInv, Enqueuing
<1>6. CASE Crash
  <2>1. \A c \in Clients : ~ Enqueuing(c)'
    BY <1>6, IdleTypes DEF Crash, Enqueuing
  <2> QED
    BY <1>6, <2>1 DEF Crash, IdsInv, Stored
<1>7. Stored' \ Stored = {} \/ \E c \in Clients : EnqueueInsert(c)
  BY RowKept
<1>8. ASSUME ~ \E c \in Clients : EnqueueInsert(c) PROVE Stored' = Stored
  BY <1>7, <1>8, RowKept
<1>9. ASSUME NEW c \in Clients, EnqueueInsert(c) PROVE IdsInv'
  <2>1. \A j \in Stored' : j \in Stored \/ j = client[c].job
    <3>1. \A j \in JobIds \ Stored : row'[j] = row[j] \/ j = client[c].job
      BY <1>9, RowInsert
    <3> QED
      BY <3>1 DEF Stored
  <2>2. Enqueuing(c) /\ Idle(c) /\ issued' = issued
    BY <1>9 DEF EnqueueInsert, Enqueuing
  <2> QED
    BY <1>3, <2>1, <2>2
<1>10. ASSUME NEW c \in Clients, NEW target \in JobIds \union {NoJob},
              ResumeScan(c, target)
       PROVE  IdsInv'
  <2> DEFINE r == [IdleClient EXCEPT !.at = "resume", !.target = target,
                     !.cand = {j \in Stored : InScope(j, target) /\ recoverable_job(j)}]
  <2>1. r.at = "resume" /\ client' = [client EXCEPT ![c] = r]
    BY <1>10, IdleTypes DEF ResumeScan, ClientRecords
  <2> HIDE DEF r
  <2> QED
    BY <1>5, <1>10, <2>1 DEF ResumeScan
<1>11. ASSUME NEW c \in Clients, NEW j \in JobIds, ResumeRegister(c, j) PROVE IdsInv'
  <2>1. CASE Idle(c)
    <3>1. Stored' = Stored /\ issued' = issued
      BY <1>11 DEF ResumeRegister, Stored
    <3> QED
      BY <1>3, <2>1, <3>1
  <2>2. CASE client' = [client EXCEPT ![c] = [client[c] EXCEPT !.cand = @ \ {j}]]
    <3>1. [client[c] EXCEPT !.cand = @ \ {j}].at = "resume"
      BY <1>11 DEF ResumeRegister, TypeOK, ClientRecords
    <3> QED
      BY <1>5, <1>11, <2>2, <3>1 DEF ResumeRegister
  <2> QED
    BY <1>11, <2>1, <2>2 DEF ResumeRegister
<1>12. ASSUME NEW c \in Clients, ResumeRequeue(c) PROVE IdsInv'
  <2>1. \A j \in JobIds \ Stored : row'[j] = row[j]
    BY <1>12, RowResume
  <2>2. \A j \in Stored' : j \in Stored
    BY <2>1 DEF Stored
  <2>3. Idle(c) /\ issued' = issued
    BY <1>12 DEF ResumeRequeue
  <2> QED
    BY <1>3, <2>2, <2>3
<1>13. CASE UNCHANGED <<client, issued>> /\ ~ \E c \in Clients : EnqueueInsert(c)
  BY <1>4, <1>8, <1>13
<1>14. CASE WorkerStep \/ (\E j \in JobIds : LeaseExpires(j)) \/ UNCHANGED vars
  <2>1. UNCHANGED <<client, issued>>
    BY <1>14 DEF WorkerStep, Boot, RecoverExpired, ClaimNext, PollIdle, Activate,
         RunDone, RunRaises, Unregister, FailJob, LeaseExpires, vars
  <2> QED
    BY <1>9, <1>13, <2>1
<1> QED
  BY <1>1, <1>2, <1>6, <1>9, <1>10, <1>11, <1>12, <1>14
     DEF Next, ClientStep, ClientStarts

\* Every variable has its type in every reachable state.
THEOREM TypeCorrect == Spec => []TypeOK
<1>1. Init => TypeOK /\ IdsInv
  BY TypeInit, IdsInit
<1>2. TypeOK /\ IdsInv /\ [Next]_vars => (TypeOK /\ IdsInv)'
  BY TypeStep, IdsStep
<1> QED
  BY <1>1, <1>2, PTL DEF Spec

\* A job id is used for one row only.
THEOREM IdsOnce == Spec => []IdsInv
<1>1. Init => TypeOK /\ IdsInv
  BY TypeInit, IdsInit
<1>2. TypeOK /\ IdsInv /\ [Next]_vars => (TypeOK /\ IdsInv)'
  BY TypeStep, IdsStep
<1> QED
  BY <1>1, <1>2, PTL DEF Spec

----------------------------------------------------------------------------
(* One active job per owner.                                               *)

\* created_at numbers the rows in the order of their INSERTs.
BornInv ==
    /\ \A j \in Stored : row[j].born <= inserted
    /\ \A j, k \in Stored : row[j].born = row[k].born => j = k

\* An INSERT is the only step that adds a row, and it adds one.
LEMMA OneInsert ==
    ASSUME TypeOK, IdsInv, [Next]_vars, NEW j \in Stored' \ Stored
    PROVE  /\ \A k \in Stored' : k = j \/ (k \in Stored /\ row'[k] = row[k])
           /\ inserted' = inserted + 1
           /\ row'[j] \in Rows
           /\ row'[j].born = inserted + 1
           /\ row'[j].attempts = 0
           /\ \/ row'[j].state = "failed"
              \/ row'[j].state = "queued" /\ ~ Active(row'[j].owner)
<1>1. PICK c \in Clients : EnqueueInsert(c) /\ ~ IndexRefuses(c) /\ j = client[c].job
  BY RowKept
<1>2. j \in JobIds /\ row'[j] # row[j]
  BY DEF Stored
<1>3. /\ inserted' = inserted + 1
      /\ \A k \in JobIds \ {j} : row'[k] = row[k]
      /\ row'[j] \in Rows
      /\ row'[j].state = InsertedState(c)
      /\ row'[j].owner = client[c].owner
      /\ row'[j].born = inserted + 1
      /\ row'[j].attempts = 0
  BY <1>1, <1>2, RowInsert
<1>4. \A k \in Stored' : k = j \/ (k \in Stored /\ row'[k] = row[k])
  BY <1>3 DEF Stored
<1>5. \/ row'[j].state = "failed"
      \/ row'[j].state = "queued" /\ ~ Active(row'[j].owner)
  BY <1>1, <1>3 DEF InsertedState, IndexRefuses
<1> QED
  BY <1>3, <1>4, <1>5

LEMMA BornStep == TypeOK /\ IdsInv /\ BornInv /\ [Next]_vars => BornInv'
<1> SUFFICES ASSUME TypeOK, IdsInv, BornInv, [Next]_vars PROVE BornInv'
  OBVIOUS
<1>1. \A j \in Stored : row[j].born \in Nat /\ row'[j].born = row[j].born
  <2>1. \A j \in Stored : row[j] \in Rows
    BY StoredRow DEF Stored
  <2> QED
    BY <2>1, RowKept DEF SameIdentity, Rows
<1>2. inserted \in Nat
  BY DEF TypeOK
<1>3. CASE Stored' \subseteq Stored
  <2>1. inserted' \in Nat /\ inserted' >= inserted
    <3>1. ASSUME NEW c \in Clients, EnqueueInsert(c)
          PROVE  inserted' = inserted \/ inserted' = inserted + 1
      BY <3>1 DEF EnqueueInsert
    <3>2. (~ \E c \in Clients : EnqueueInsert(c)) => inserted' = inserted
      BY RowSteps DEF RecoverExpired, ClaimNext, RunDone, FailJob, ResumeRequeue,
         LeaseExpires
    <3> QED
      BY <1>2, <3>1, <3>2
  <2> QED
    BY <1>1, <1>2, <1>3, <2>1 DEF BornInv
<1>4. ASSUME NEW j \in Stored' \ Stored PROVE BornInv'
  <2>1. /\ inserted' = inserted + 1 /\ row'[j].born = inserted + 1
        /\ \A k \in Stored' : k = j \/ k \in Stored
    BY OneInsert
  <2> QED
    BY <1>1, <1>2, <2>1 DEF BornInv
<1> QED
  BY <1>3, <1>4

\* A step that adds no row and activates none keeps the owners' exclusion.
LEMMA NoActivation ==
    ASSUME TypeOK, IdsInv, [Next]_vars, OneActivePerOwner, Stored' = Stored,
           \A j \in Stored : row'[j].state \in {"queued", "running"}
                             => row[j].state \in {"queued", "running"}
    PROVE  OneActivePerOwner'
<1>1. \A j \in Stored : row'[j].owner = row[j].owner
  BY RowKept DEF SameIdentity
<1> QED
  BY <1>1 DEF OneActivePerOwner

LEMMA OneActiveStep ==
    TypeOK /\ IdsInv /\ BornInv /\ OneActivePerOwner /\ [Next]_vars
    => OneActivePerOwner'
<1> SUFFICES ASSUME TypeOK, IdsInv, BornInv, OneActivePerOwner, [Next]_vars
             PROVE  OneActivePerOwner'
  OBVIOUS
<1>1. \A j \in Stored : row'[j].owner = row[j].owner
  BY RowKept DEF SameIdentity
<1>2. ASSUME NEW j \in Stored' \ Stored PROVE OneActivePerOwner'
  <2>1. /\ \A k \in Stored' : k = j \/ (k \in Stored /\ row'[k] = row[k])
        /\ \/ row'[j].state = "failed"
           \/ row'[j].state = "queued" /\ ~ Active(row'[j].owner)
    BY OneInsert
  <2> QED
    BY <2>1 DEF OneActivePerOwner, Active
<1>3. CASE Stored' \subseteq Stored
  <2>1. Stored' = Stored
    BY <1>3, RowKept
  <2>2. CASE UNCHANGED <<row, inserted>> \/ \E c \in Clients : EnqueueInsert(c)
    <3>1. \A j \in Stored : row'[j] = row[j]
      BY <2>2, RowInsert DEF Stored
    <3> QED
      BY <2>1, <3>1, NoActivation
  <2>3. CASE RecoverExpired
    BY <2>1, <2>3, RowRecover, NoActivation
  <2>4. ASSUME NEW k \in JobIds, ClaimNext(k) PROVE OneActivePerOwner'
    <3>1. \A j \in Stored : j \in JobIds
      BY DEF Stored
    <3> QED
      BY <2>1, <2>4, <3>1, RowClaim, NoActivation
  <2>5. ASSUME NEW paused \in BOOLEAN, RunDone(paused) PROVE OneActivePerOwner'
    BY <2>1, <2>5, RowDone, NoActivation
  <2>6. CASE FailJob
    BY <2>1, <2>6, RowFail, NoActivation
  <2>7. ASSUME NEW k \in JobIds, LeaseExpires(k) PROVE OneActivePerOwner'
    BY <2>1, <2>7, RowExpires, NoActivation
  <2>8. ASSUME NEW c \in Clients, ResumeRequeue(c) PROVE OneActivePerOwner'
    <3>1. \A j \in Stored : row'[j] = row[j] \/ j \in Requeued(c)
      BY <2>8, RowResume
    <3>2. \A j \in Requeued(c) : /\ ~ Active(row[j].owner)
                                /\ \A k \in Stored : row[k].owner = row[j].owner
                                                     => row[k].born <= row[j].born
      BY DEF Requeued, InScope, Latest
    <3>3. \A j \in Stored : row[j].born \in Nat
      <4>1. \A j \in Stored : row[j] \in Rows
        BY StoredRow DEF Stored
      <4> QED
        BY <4>1 DEF Rows
    <3>4. ASSUME NEW j \in Stored, NEW k \in Stored, row[j].owner = row[k].owner,
                 j \in Requeued(c), k \in Requeued(c)
          PROVE  j = k
      BY <3>2, <3>3, <3>4 DEF BornInv
    <3>5. ASSUME NEW j \in Stored, NEW k \in Stored, row[j].owner = row[k].owner,
                 j \in Requeued(c), row[k].state \in {"queued", "running"}
          PROVE  FALSE
      BY <3>2, <3>5 DEF Active
    <3> QED
      BY <1>1, <2>1, <3>1, <3>4, <3>5 DEF OneActivePerOwner
  <2> QED
    BY <2>2, <2>3, <2>4, <2>5, <2>6, <2>7, <2>8, RowSteps
<1> QED
  BY <1>2, <1>3

\* At most one queued or running job per owner in every reachable state,
\* whatever enqueues, resumes, retries, reclaims and crashes interleave.
THEOREM ExclusiveOwners == Spec => []OneActivePerOwner
<1> DEFINE Inv == TypeOK /\ IdsInv /\ BornInv /\ OneActivePerOwner
<1>1. Init => Inv
  BY TypeInit, IdsInit DEF Init, Stored, BornInv, OneActivePerOwner
<1>2. Inv /\ [Next]_vars => Inv'
  BY TypeStep, IdsStep, BornStep, OneActiveStep
<1>3. Inv => OneActivePerOwner
  OBVIOUS
<1> QED
  BY <1>1, <1>2, <1>3, PTL DEF Spec

----------------------------------------------------------------------------
(* No job runs without its origin.                                         *)

LEMMA OriginStep == TypeOK /\ RunsUnderOrigin /\ [Next]_vars => RunsUnderOrigin'
<1> SUFFICES ASSUME TypeOK, RunsUnderOrigin, [Next]_vars PROVE RunsUnderOrigin'
  OBVIOUS
<1>1. CASE Activate
  BY <1>1 DEF Activate, OriginFound, RunsUnderOrigin, TypeOK, WorkerRecords
<1>2. CASE Unregister
  BY <1>2, IdleTypes DEF Unregister, RunsUnderOrigin, TypeOK, WorkerRecords
<1>3. CASE Boot \/ RecoverExpired \/ RunRaises \/ FailJob \/ Crash
  <2>1. worker' \in WorkerRecords /\ worker'.at # "run"
    BY <1>3, IdleTypes DEF Boot, RecoverExpired, RunRaises, FailJob, Crash, TypeOK,
       WorkerRecords
  <2> QED
    BY <2>1 DEF RunsUnderOrigin
<1>4. ASSUME NEW j \in JobIds, ClaimNext(j) PROVE RunsUnderOrigin'
  BY <1>4 DEF ClaimNext, RunsUnderOrigin
<1>5. ASSUME NEW paused \in BOOLEAN, RunDone(paused) PROVE RunsUnderOrigin'
  BY <1>5 DEF RunDone, RunsUnderOrigin, TypeOK, WorkerRecords
<1>6. CASE worker' = worker /\ origin \subseteq origin'
  BY <1>6 DEF RunsUnderOrigin
<1>7. ASSUME NEW c \in Clients, ClientStep(c) \/ ClientStarts(c)
      PROVE  worker' = worker /\ origin \subseteq origin'
  BY <1>7 DEF ClientStep, ClientStarts, EnqueueCheck, EnqueueRegister, EnqueueInsert,
     ResumeScan, ResumeRegister, ResumeRequeue
<1>8. ASSUME NEW j \in JobIds, LeaseExpires(j) PROVE RunsUnderOrigin'
  BY <1>6, <1>8 DEF LeaseExpires
<1>9. CASE PollIdle \/ UNCHANGED vars
  BY <1>6, <1>9 DEF PollIdle, vars
<1> QED
  BY <1>1, <1>2, <1>3, <1>4, <1>5, <1>6, <1>7, <1>8, <1>9 DEF Next, WorkerStep

\* The worker runs a job only while its execution origin is stored.
THEOREM AuthorizedRuns == Spec => []RunsUnderOrigin
<1>1. Init => RunsUnderOrigin
  BY IdleTypes DEF Init, RunsUnderOrigin
<1> QED
  BY <1>1, TypeCorrect, OriginStep, PTL DEF Spec

----------------------------------------------------------------------------
(* The retry budget.                                                       *)

\* The worker is between claiming its job and letting it go.
Holding == \/ worker.at \in {"activate", "run"}
           \/ worker.at \in {"unregister", "fail"} /\ worker.outcome # "done"

\* The job it holds is running under its lease; a job whose result it has
\* stored is not running; between jobs it has none.
HoldInv ==
    /\ Holding => worker.job \in Stored /\ Held(worker.job)
    /\ worker.at \in {"unregister", "fail"} /\ worker.outcome = "done"
         => worker.job \in Stored /\ row[worker.job].state # "running"
    /\ worker.at \in {"down", "recover", "poll"} => worker.job = NoJob

\* Only the held job may have used its whole budget.
AttemptsInv ==
    /\ AttemptsBounded
    /\ \A j \in Stored :
          \/ row[j].state = "queued"
          \/ row[j].state = "running" /\ j # worker.job
          => row[j].attempts < MaxAttempts + crashes

\* A request thread leaves a stored row alone or requeues it, and it requeues
\* only the current failures and pauses.
LEMMA ClientRows ==
    ASSUME TypeOK, IdsInv, [Next]_vars, NEW c \in Clients,
           ClientStep(c) \/ ClientStarts(c)
    PROVE  /\ worker' = worker /\ epoch' = epoch /\ crashes' = crashes
           /\ \A j \in Stored :
                \/ row'[j] = row[j]
                \/ /\ recoverable_job(j) /\ Latest(j)
                   /\ row'[j].state = "queued" /\ row'[j].attempts = 0
<1>1. worker' = worker /\ epoch' = epoch /\ crashes' = crashes
  BY DEF ClientStep, ClientStarts, EnqueueCheck, EnqueueRegister, EnqueueInsert,
     ResumeScan, ResumeRegister, ResumeRequeue
<1>2. CASE row' = row
  BY <1>1, <1>2
<1>3. CASE EnqueueInsert(c)
  <2>1. \A j \in Stored : row'[j] = row[j]
    BY <1>3, RowInsert DEF Stored
  <2> QED
    BY <1>1, <2>1
<1>4. CASE ResumeRequeue(c)
  <2>1. \A j \in Requeued(c) : recoverable_job(j) /\ Latest(j)
    BY DEF Requeued, InScope
  <2> QED
    BY <1>1, <1>4, <2>1, RowResume
<1> QED
  BY <1>2, <1>3, <1>4 DEF ClientStep, ClientStarts, EnqueueCheck, EnqueueRegister,
     ResumeScan, ResumeRegister

LEMMA HoldStep == TypeOK /\ IdsInv /\ HoldInv /\ [Next]_vars => HoldInv'
<1> SUFFICES ASSUME TypeOK, IdsInv, HoldInv, [Next]_vars PROVE HoldInv'
  OBVIOUS
<1> USE DEF HoldInv, Holding
<1>1. worker \in WorkerRecords
  BY DEF TypeOK
<1>2. Stored \subseteq Stored' /\ Stored \subseteq JobIds
  BY RowKept DEF Stored
<1>3. ASSUME worker' \in {[IdleWorker EXCEPT !.at = "recover"],
                          [IdleWorker EXCEPT !.at = "poll"], IdleWorker}
      PROVE  HoldInv'
  BY <1>3, IdleTypes DEF WorkerRecords
<1>4. CASE RecoverExpired
  <2>1. worker'.at = "poll" /\ worker'.job = NoJob
    BY <1>1, <1>4 DEF RecoverExpired, WorkerRecords
  <2> QED
    BY <2>1
<1>5. ASSUME NEW j \in JobIds, ClaimNext(j) PROVE HoldInv'
  <2>1. /\ worker'.at = "activate" /\ worker'.job = j /\ epoch' = epoch
    BY <1>5 DEF ClaimNext
  <2>2. j \in Stored' /\ row'[j].state = "running" /\ row'[j].lease = epoch
    BY <1>2, <1>5, RowClaim
  <2> QED
    BY <2>1, <2>2 DEF Held
<1>6. CASE Activate \/ RunRaises
  <2>1. /\ Holding /\ Holding' /\ worker'.job = worker.job
        /\ ~ (worker'.at \in {"unregister", "fail"} /\ worker'.outcome = "done")
        /\ worker'.at \notin {"down", "recover", "poll"}
    BY <1>1, <1>6 DEF Activate, RunRaises, WorkerRecords
  <2>2. row' = row /\ epoch' = epoch
    BY <1>6 DEF Activate, RunRaises
  <2> QED
    BY <2>1, <2>2 DEF Held, Stored
<1>7. ASSUME NEW paused \in BOOLEAN, RunDone(paused) PROVE HoldInv'
  <2>1. worker.job \in Stored /\ Held(worker.job)
    BY <1>7 DEF RunDone
  <2>2. worker.job \in Stored' /\ row'[worker.job].state = "done"
    BY <1>2, <1>7, <2>1, RowDone
  <2>3. worker'.at = "unregister" /\ worker'.job = worker.job /\ worker'.outcome = "done"
    BY <1>1, <1>7 DEF RunDone, WorkerRecords
  <2> QED
    BY <2>2, <2>3
<1>8. CASE Unregister
  <2>1. row' = row /\ epoch' = epoch /\ worker.at = "unregister"
    BY <1>8 DEF Unregister
  <2>2. CASE worker' = [worker EXCEPT !.at = "fail"]
    <3>1. worker'.at = "fail" /\ worker'.job = worker.job /\ worker'.outcome = worker.outcome
      BY <1>1, <2>2 DEF WorkerRecords
    <3> QED
      BY <2>1, <3>1 DEF Held, Stored
  <2> QED
    BY <1>3, <1>8, <2>2 DEF Unregister
<1>9. ASSUME worker' = worker, epoch' = epoch,
             \A j \in Stored :
                \/ row'[j] = row[j]
                \/ row'[j].state = row[j].state /\ row'[j].lease = row[j].lease
                \/ row[j].state # "running" /\ row'[j].state # "running"
      PROVE  HoldInv'
  BY <1>2, <1>9 DEF Held
<1>10. ASSUME NEW c \in Clients, ClientStep(c) \/ ClientStarts(c) PROVE HoldInv'
  <2>1. \A j \in Stored : \/ row'[j] = row[j]
                          \/ row[j].state # "running" /\ row'[j].state # "running"
    BY <1>10, ClientRows DEF recoverable_job
  <2> QED
    BY <1>9, <1>10, <2>1, ClientRows
<1>11. ASSUME NEW j \in JobIds, LeaseExpires(j) PROVE HoldInv'
  BY <1>9, <1>11, RowExpires DEF LeaseExpires
<1>12. CASE PollIdle \/ UNCHANGED vars
  BY <1>9, <1>12 DEF PollIdle, vars
<1>13. CASE Boot \/ FailJob \/ Crash
  BY <1>3, <1>13 DEF Boot, FailJob, Crash
<1> QED
  BY <1>4, <1>5, <1>6, <1>7, <1>8, <1>10, <1>11, <1>12, <1>13 DEF Next, WorkerStep

\* What a job may have spent when it is not the held one.
LEMMA AttemptsStep ==
    TypeOK /\ IdsInv /\ HoldInv /\ AttemptsInv /\ [Next]_vars => AttemptsInv'
<1> SUFFICES ASSUME TypeOK, IdsInv, HoldInv, AttemptsInv, [Next]_vars
             PROVE  AttemptsInv'
  OBVIOUS
<1> DEFINE Spent(j) == /\ row[j].attempts <= MaxAttempts + crashes
                       /\ \/ row[j].state = "queued"
                          \/ row[j].state = "running" /\ j # worker.job
                          => row[j].attempts < MaxAttempts + crashes
<1>1. /\ MaxAttempts \in Nat /\ MaxAttempts > 0 /\ crashes \in Nat
      /\ worker \in WorkerRecords
  BY OntologyJobsAssumption DEF TypeOK
<1>2. /\ \A j \in Stored : j \in JobIds /\ j # NoJob /\ row[j].attempts \in Nat
      /\ \A j \in Stored : Spent(j)
  <2>1. \A j \in Stored : row[j] \in Rows
    BY StoredRow DEF Stored
  <2> QED
    BY <2>1 DEF Rows, Stored, JobIds, NoJob, AttemptsInv, AttemptsBounded
<1>3. crashes' \in Nat /\ crashes' >= crashes
  <2>1. Crash \/ crashes' = crashes
    BY DEF Next, WorkerStep, ClientStep, ClientStarts, vars, Boot, RecoverExpired,
       ClaimNext, PollIdle, Activate, RunDone, RunRaises, Unregister, FailJob,
       EnqueueCheck, EnqueueRegister, EnqueueInsert, ResumeScan, ResumeRegister,
       ResumeRequeue, LeaseExpires
  <2> QED
    BY <1>1, <2>1 DEF Crash
<1>4. SUFFICES ASSUME NEW j \in Stored PROVE Spent(j)'
  <2>1. ASSUME NEW j \in Stored' \ Stored PROVE Spent(j)'
    <3>1. row'[j].attempts = 0
      BY OneInsert
    <3>2. 0 < MaxAttempts + crashes' /\ 0 <= MaxAttempts + crashes'
      <4>1. MaxAttempts \in Nat /\ MaxAttempts > 0
        BY <1>1
      <4>2. crashes' \in Nat
        BY <1>3
      <4>3. \A a, b \in Nat : a > 0 => 0 < a + b /\ 0 <= a + b
        OBVIOUS
      <4> QED
        BY <4>1, <4>2, <4>3
    <3> QED
      BY <3>1, <3>2
  <2> QED
    BY <1>4, <2>1 DEF AttemptsInv, AttemptsBounded
<1>5. CASE RecoverExpired
  <2>1. worker.job = NoJob /\ crashes' = crashes
    BY <1>5 DEF RecoverExpired, HoldInv
  <2>2. /\ row'[j].attempts = row[j].attempts
        /\ row'[j] = row[j] \/ row[j].state = "running"
    BY <1>5, RowRecover
  <2> QED
    BY <1>2, <2>1, <2>2
<1>6. ASSUME NEW k \in JobIds, ClaimNext(k) PROVE Spent(j)'
  <2>1. crashes' = crashes /\ worker'.job = k /\ worker.job = NoJob
    BY <1>6 DEF ClaimNext, HoldInv
  <2>2. CASE j = k
    BY <1>1, <1>2, <1>6, <2>1, <2>2, RowClaim
  <2>3. CASE j # k
    BY <1>2, <1>6, <2>1, <2>3, RowClaim
  <2> QED
    BY <2>2, <2>3
<1>7. ASSUME NEW paused \in BOOLEAN, RunDone(paused) PROVE Spent(j)'
  <2>1. crashes' = crashes /\ worker'.job = worker.job
    BY <1>1, <1>7 DEF RunDone, WorkerRecords
  <2> QED
    BY <1>2, <1>7, <2>1, RowDone
<1>8. CASE FailJob
  <2>1. crashes' = crashes /\ worker'.job = NoJob
    BY <1>8, IdleTypes DEF FailJob, WorkerRecords
  <2>2. CASE j = worker.job /\ row[j].state = "running"
    <3>1. Held(j)
      BY <1>8, <2>2 DEF FailJob, HoldInv, Holding
    <3>2. /\ row'[j].attempts = row[j].attempts
          /\ \/ row'[j].state = "failed"
             \/ row'[j].state = "queued" /\ row[j].attempts < MaxAttempts
      BY <1>8, <2>2, <3>1, RowFail
    <3> QED
      BY <1>1, <1>2, <2>1, <3>2
  <2>3. CASE ~ (j = worker.job /\ row[j].state = "running")
    <3>1. /\ row'[j].attempts = row[j].attempts
          /\ \/ row'[j] = row[j]
             \/ row'[j].state = "failed"
             \/ row'[j].state = "queued" /\ row[j].attempts < MaxAttempts
      BY <1>8, RowFail
    <3> QED
      BY <1>1, <1>2, <2>1, <2>3, <3>1
  <2> QED
    BY <2>2, <2>3
<1>9. ASSUME NEW c \in Clients, ClientStep(c) \/ ClientStarts(c) PROVE Spent(j)'
  BY <1>1, <1>2, <1>9, ClientRows
<1>10. ASSUME NEW k \in JobIds, LeaseExpires(k) PROVE Spent(j)'
  BY <1>2, <1>10, RowExpires DEF LeaseExpires
<1>11. CASE Crash
  <2>1. row' = row /\ crashes' = crashes + 1
    BY <1>11 DEF Crash
  <2> QED
    BY <1>1, <1>2, <2>1
<1>12. CASE Boot \/ Unregister
  <2>1. row' = row /\ crashes' = crashes
    BY <1>12 DEF Boot, Unregister
  <2>2. worker'.job = worker.job \/ worker'.job = NoJob
    BY <1>1, <1>12, IdleTypes DEF Boot, Unregister, WorkerRecords
  <2>3. worker'.job # worker.job => row[worker.job].state # "running"
                                    \/ worker.job = NoJob
    BY <1>1, <1>12, IdleTypes DEF Boot, Unregister, HoldInv, WorkerRecords
  <2> QED
    BY <1>2, <2>1, <2>2, <2>3
<1>13. CASE PollIdle \/ Activate \/ RunRaises \/ UNCHANGED vars
  <2>1. row' = row /\ crashes' = crashes /\ worker'.job = worker.job
    BY <1>1, <1>13 DEF PollIdle, Activate, RunRaises, vars, WorkerRecords
  <2> QED
    BY <1>2, <2>1
<1> QED
  BY <1>5, <1>6, <1>7, <1>8, <1>9, <1>10, <1>11, <1>12, <1>13 DEF Next, WorkerStep

\* Between two resumes a job is claimed at most MaxAttempts times, plus once
\* for each crash: the reclaim of a lost job does not look at the budget.
THEOREM RetryBudget == Spec => []AttemptsBounded
<1> DEFINE Inv == TypeOK /\ IdsInv /\ HoldInv /\ AttemptsInv
<1>1. Init => Inv
  BY TypeInit, IdsInit, IdleTypes
     DEF Init, Stored, HoldInv, Holding, AttemptsInv, AttemptsBounded
<1>2. Inv /\ [Next]_vars => Inv'
  BY TypeStep, IdsStep, HoldStep, AttemptsStep
<1>3. Inv => AttemptsBounded
  BY DEF AttemptsInv
<1> QED
  BY <1>1, <1>2, <1>3, PTL DEF Spec

----------------------------------------------------------------------------
(* Resuming.                                                               *)

\* The body of RevivesOnlyCurrent.
RevivesCurrent ==
    \A j \in Stored :
       row[j].state \in {"done", "failed"} /\ row'[j].state \notin {"done", "failed"}
       => /\ Latest(j)
          /\ row[j].state = "done" => row[j].paused

LEMMA RevivesStep == TypeOK /\ IdsInv /\ [Next]_vars => RevivesCurrent
<1> SUFFICES ASSUME TypeOK, IdsInv, [Next]_vars, NEW j \in Stored,
                    row[j].state \in {"done", "failed"},
                    row'[j].state \notin {"done", "failed"}
             PROVE  /\ Latest(j)
                    /\ row[j].state = "done" => row[j].paused
  BY DEF RevivesCurrent
<1>1. row'[j] # row[j]
  OBVIOUS
<1>2. PICK c \in Clients : ClientStep(c) \/ ClientStarts(c)
  <2>1. ~ RecoverExpired /\ ~ FailJob /\ \A k \in JobIds : ~ LeaseExpires(k)
    BY <1>1, RowRecover, RowFail, RowExpires
  <2>2. \A k \in JobIds : ~ ClaimNext(k)
    BY <1>1, RowClaim DEF Stored
  <2>3. \A paused \in BOOLEAN : ~ RunDone(paused)
    BY <1>1, RowDone
  <2> QED
    BY <1>1, <2>1, <2>2, <2>3 DEF Next, WorkerStep, vars, Boot, PollIdle, Activate,
       RunRaises, Unregister, Crash
<1>3. recoverable_job(j) /\ Latest(j)
  BY <1>1, <1>2, ClientRows
<1> QED
  BY <1>3 DEF recoverable_job

\* Only a failed or paused job that is its owner's newest is ever queued
\* again.
THEOREM ResumesCurrent == Spec => RevivesOnlyCurrent
<1>1. TypeOK /\ IdsInv /\ [Next]_vars => [RevivesCurrent]_vars
  BY RevivesStep
<1> QED
  BY <1>1, TypeCorrect, IdsOnce, PTL DEF Spec, RevivesOnlyCurrent, RevivesCurrent

----------------------------------------------------------------------------
(* The origin of what is queued, while nobody resumes and nothing crashes. *)

Undisturbed == crashes = 0 /\ resumes = 0

\* What is queued, and what may be queued next, has its origin: the INSERT of
\* a registered job and the retry of a held one.  Only the held job runs, so a
\* reclaim queues nothing; the job whose registration is given up is not queued.
Calm ==
    /\ QueuedHasOrigin
    /\ \A c \in Clients : client[c].at # "resume"
    /\ \A c \in Clients : client[c].at = "insert" /\ client[c].ok => client[c].job \in origin
    /\ \A j \in Stored : row[j].state = "running" => Holding /\ worker.job = j
    /\ worker.at = "fail" /\ worker.outcome = "retry" => worker.job \in origin
    /\ worker.at = "unregister" => worker.outcome # "retry"
    /\ worker.at \in {"unregister", "fail"} /\ worker.outcome = "done"
         => row[worker.job].state # "queued"

CalmInv == Undisturbed => Calm

\* A step that ends undisturbed began so, and is no crash and no resume.
LEMMA StaysUndisturbed ==
    ASSUME TypeOK, [Next]_vars, Undisturbed'
    PROVE  /\ Undisturbed
           /\ ~ Crash
           /\ \A c \in Clients, target \in JobIds \union {NoJob} : ~ ResumeScan(c, target)
<1>1. crashes \in Nat /\ resumes \in Nat
  BY DEF TypeOK
<1>2. ~ Crash
  BY <1>1 DEF Crash, Undisturbed
<1>3. \A c \in Clients, target \in JobIds \union {NoJob} : ~ ResumeScan(c, target)
  BY <1>1 DEF ResumeScan, Undisturbed
<1>4. UNCHANGED <<crashes, resumes>>
  BY <1>2, <1>3 DEF Next, WorkerStep, ClientStep, ClientStarts, vars, Boot, RecoverExpired,
     ClaimNext, PollIdle, Activate, RunDone, RunRaises, Unregister, FailJob, EnqueueCheck,
     EnqueueRegister, EnqueueInsert, ResumeRegister, ResumeRequeue, LeaseExpires
<1> QED
  BY <1>2, <1>3, <1>4 DEF Undisturbed

\* The worker's steps, while nothing disturbs it.
LEMMA CalmWorker ==
    ASSUME TypeOK, IdsInv, HoldInv, RunsUnderOrigin, Calm, [Next]_vars, WorkerStep
    PROVE  Calm'
<1> USE DEF HoldInv, Holding
<1>1. worker \in WorkerRecords /\ Stored \subseteq JobIds
  BY DEF TypeOK, Stored
<1>2. client' = client
  BY DEF WorkerStep, Boot, RecoverExpired, ClaimNext, PollIdle, Activate, RunDone, RunRaises,
     Unregister, FailJob, vars
<1>3. Stored' = Stored
  <2>1. \A c \in Clients : EnqueueInsert(c) => client[c].at = "insert" /\ client'[c].at = "idle"
    BY IdleTypes, ClientUpdate DEF EnqueueInsert, Idle
  <2> QED
    BY <1>2, <2>1, RowKept
<1>4. ASSUME UNCHANGED row, origin \subseteq origin',
             worker'.at \notin {"unregister", "fail"},
             Holding => Holding' /\ worker'.job = worker.job
      PROVE  Calm'
  BY <1>2, <1>3, <1>4 DEF Calm, QueuedHasOrigin
<1>5. CASE Boot
  <2>1. worker'.at = "recover" /\ UNCHANGED <<row, origin>> /\ ~ Holding
    BY <1>5, IdleTypes DEF Boot, WorkerRecords
  <2> QED
    BY <1>4, <2>1
<1>6. CASE RecoverExpired
  <2>1. worker.at = "recover" /\ worker'.at = "poll" /\ origin' = origin
    BY <1>1, <1>6 DEF RecoverExpired, WorkerRecords
  <2>2. \A j \in Stored : row[j].state # "running" /\ row'[j] = row[j]
    BY <1>6, <2>1, RowRecover DEF Calm
  <2> QED
    BY <1>2, <1>3, <2>1, <2>2 DEF Calm, QueuedHasOrigin
<1>7. ASSUME NEW k \in JobIds, ClaimNext(k)
      PROVE  Calm'
  <2>1. /\ worker.at = "poll" /\ worker'.at = "activate" /\ worker'.job = k
        /\ origin' = origin
    BY <1>7 DEF ClaimNext
  <2>2. /\ row'[k].state = "running"
        /\ \A j \in Stored \ {k} : row'[j] = row[j]
    BY <1>1, <1>7, RowClaim
  <2>3. \A j \in Stored : row[j].state # "running"
    BY <2>1 DEF Calm
  <2> QED
    BY <1>2, <1>3, <2>1, <2>2, <2>3 DEF Calm, QueuedHasOrigin
<1>8. CASE PollIdle
  BY <1>8 DEF PollIdle, vars, Calm, QueuedHasOrigin, Stored
<1>9. CASE Activate
  <2>1. /\ worker.at = "activate" /\ worker'.job = worker.job /\ UNCHANGED <<row, origin>>
        /\ worker'.at = "run" \/ (worker'.at = "fail" /\ worker'.outcome = "fatal")
    BY <1>1, <1>9 DEF Activate, WorkerRecords
  <2> QED
    BY <1>2, <1>3, <2>1 DEF Calm, QueuedHasOrigin
<1>10. ASSUME NEW paused \in BOOLEAN, RunDone(paused)
       PROVE  Calm'
  <2>1. /\ worker.at = "run" /\ worker'.at = "unregister" /\ worker'.job = worker.job
        /\ worker'.outcome = "done" /\ origin' = origin
    BY <1>1, <1>10 DEF RunDone, WorkerRecords
  <2>2. worker.job \in Stored /\ Held(worker.job)
    BY <2>1
  <2>3. \A j \in Stored : \/ row'[j] = row[j] /\ j # worker.job
                          \/ row'[j].state = "done"
    BY <1>10, <2>2, RowDone
  <2>4. \A j \in Stored \ {worker.job} : row'[j].state # "running"
    BY <2>3 DEF Calm
  <2>5. row'[worker.job].state = "done"
    BY <2>2, <2>3
  <2> QED
    BY <1>2, <1>3, <2>1, <2>3, <2>4, <2>5 DEF Calm, QueuedHasOrigin
<1>11. CASE RunRaises
  <2>1. /\ worker.at = "run" /\ worker'.job = worker.job /\ UNCHANGED <<row, origin>>
        /\ \/ worker'.at = "fail" /\ worker'.outcome = "retry"
           \/ worker'.at = "unregister" /\ worker'.outcome = "fatal"
    BY <1>1, <1>11 DEF RunRaises, WorkerRecords
  <2>2. worker.job \in origin
    BY <2>1 DEF RunsUnderOrigin
  <2> QED
    BY <1>2, <1>3, <2>1, <2>2 DEF Calm, QueuedHasOrigin
<1>12. CASE Unregister
  <2>1. /\ worker.at = "unregister" /\ row' = row /\ worker.outcome # "retry"
        /\ origin \ {worker.job} \subseteq origin'
        /\ \/ worker'.at = "poll" /\ worker.outcome = "done"
           \/ /\ worker'.at = "fail" /\ worker'.job = worker.job
              /\ worker'.outcome = worker.outcome
    BY <1>1, <1>12, IdleTypes DEF Unregister, WorkerRecords, Calm
  <2>2. worker.job \in Stored /\ row[worker.job].state # "queued"
    BY <2>1 DEF Calm, Held
  <2>3. ASSUME NEW c \in Clients, client[c].at = "insert"
        PROVE  client[c].job # worker.job
    BY <2>2, <2>3 DEF IdsInv, Enqueuing
  <2>4. QueuedHasOrigin'
    BY <1>3, <2>1, <2>2 DEF Calm, QueuedHasOrigin
  <2>5. \A c \in Clients : client'[c].at = "insert" /\ client'[c].ok => client'[c].job \in origin'
    BY <1>2, <2>1, <2>3 DEF Calm
  <2> QED
    BY <1>2, <1>3, <2>1, <2>2, <2>4, <2>5 DEF Calm
<1>13. CASE FailJob
  <2>1. worker.at = "fail" /\ worker'.at = "poll" /\ origin' = origin
    BY <1>13, IdleTypes DEF FailJob, WorkerRecords
  <2>2. \A j \in Stored : row[j].state = "running" => j = worker.job /\ Held(j)
    BY <2>1 DEF Calm
  <2>3. ASSUME NEW j \in Stored
        PROVE  /\ row'[j].state # "running"
               /\ row'[j].state = "queued" => j \in origin
    <3>1. CASE row'[j] = row[j] /\ ~ (j = worker.job /\ Held(j))
      BY <2>2, <3>1 DEF Calm, QueuedHasOrigin
    <3>2. CASE row[j].state = "running" /\ row'[j].state = "failed"
      BY <3>2
    <3>3. CASE row[j].state = "running" /\ row'[j].state = "queued"
      <4>1. j = worker.job /\ j \in JobIds
        BY <1>1, <2>2, <3>3
      <4>2. worker.outcome = "retry"
        <5>1. CASE Retries(j)
          BY <5>1 DEF Retries
        <5>2. CASE ~ Retries(j)
          <6>1. row' = [row EXCEPT ![j] = Move(row[j], "failed", 0)]
            BY <1>13, <2>2, <3>3, <4>1, <5>2 DEF FailJob
          <6>2. Move(row[j], "failed", 0).state = "failed"
            BY StateStored, <3>3, <4>1, MoveFacts
          <6> QED
            BY <3>3, <4>1, <6>1, <6>2 DEF TypeOK
        <5> QED
          BY <5>1, <5>2
      <4> QED
        BY <2>1, <3>3, <4>1, <4>2 DEF Calm
    <3> QED
      BY <1>13, <3>1, <3>2, <3>3, RowFail
  <2> QED
    BY <1>2, <1>3, <2>1, <2>3 DEF Calm, QueuedHasOrigin
<1> QED
  BY <1>5, <1>6, <1>7, <1>8, <1>9, <1>10, <1>11, <1>12, <1>13 DEF WorkerStep

\* A request thread's steps: no resume is under way, and an INSERT queues a
\* job whose registration was accepted.
LEMMA CalmClient ==
    ASSUME TypeOK, IdsInv, HoldInv, Calm, [Next]_vars, NEW c \in Clients,
           ClientStep(c) \/ \E o \in Owners : EnqueueCheck(c, o)
    PROVE  Calm'
<1> USE DEF HoldInv, Holding
<1>1. client[c] \in ClientRecords /\ Stored \subseteq JobIds
  BY DEF TypeOK, Stored
<1>2. worker' = worker /\ epoch' = epoch
  BY ClientRows DEF ClientStarts
<1>3. ASSUME UNCHANGED row, origin \subseteq origin',
             client'[c].at # "resume",
             client'[c].at = "insert" /\ client'[c].ok => client'[c].job \in origin',
             \A d \in Clients \ {c} : client'[d] = client[d]
      PROVE  Calm'
  <2>1. /\ \A d \in Clients : client'[d].at # "resume"
        /\ \A d \in Clients : client'[d].at = "insert" /\ client'[d].ok
                                => client'[d].job \in origin'
    BY <1>3 DEF Calm
  <2> QED
    BY <1>2, <1>3, <2>1 DEF Calm, QueuedHasOrigin, Stored
<1>4. ASSUME NEW o \in Owners, EnqueueCheck(c, o)
      PROVE  Calm'
  <2>1. issued + 1 \in JobIds \union {NoJob}
    <3>1. issued < MaxJobs
      BY <1>4, Zenon DEF EnqueueCheck
    <3>2. issued \in 0..MaxJobs
      BY DEF TypeOK
    <3> QED
      BY <3>1, <3>2, OntologyJobsAssumption DEF JobIds
  <2>2. PICK i \in ClientRecords, n \in JobIds \union {NoJob} : i = IdleClient /\ n = issued + 1
    BY <2>1, IdleTypes
  <2>3. PICK r : r = [i EXCEPT !.at = "register", !.owner = o, !.job = n]
    OBVIOUS
  <2>4. r.at = "register"
    BY <2>3 DEF ClientRecords
  <2>5. client' = [client EXCEPT ![c] = r] /\ UNCHANGED <<row, origin>>
    BY <1>4, <2>2, <2>3 DEF EnqueueCheck
  <2> QED
    BY <1>3, <2>4, <2>5, ClientUpdate
<1>5. CASE EnqueueRegister(c)
  <2>1. PICK k \in ClientRecords : k = client[c]
    BY <1>1
  <2>2. CASE /\ origin' = origin \union {client[c].job}
             /\ client' = [client EXCEPT ![c] = [client[c] EXCEPT !.at = "insert"]]
    <3>1. PICK r : r = [k EXCEPT !.at = "insert"]
      OBVIOUS
    <3>2. r.at = "insert" /\ r.job = k.job
      BY <3>1 DEF ClientRecords
    <3>3. client' = [client EXCEPT ![c] = r] /\ row' = row
      BY <1>5, <2>1, <2>2, <3>1 DEF EnqueueRegister
    <3> QED
      BY <1>3, <2>1, <2>2, <3>2, <3>3, ClientUpdate
  <2>3. CASE /\ origin' = origin
             /\ client' = [client EXCEPT ![c] =
                             [client[c] EXCEPT !.at = "insert", !.ok = FALSE]]
    <3>1. PICK r : r = [k EXCEPT !.at = "insert", !.ok = FALSE]
      OBVIOUS
    <3>2. r.at = "insert" /\ ~ r.ok
      BY <3>1 DEF ClientRecords
    <3>3. client' = [client EXCEPT ![c] = r] /\ row' = row
      BY <1>5, <2>1, <2>3, <3>1 DEF EnqueueRegister
    <3> QED
      BY <1>3, <2>3, <3>2, <3>3, ClientUpdate
  <2> QED
    BY <1>5, <2>2, <2>3 DEF EnqueueRegister
<1>6. CASE EnqueueInsert(c)
  <2>1. /\ client[c].at = "insert" /\ client' = [client EXCEPT ![c] = IdleClient]
        /\ origin' = origin
    BY <1>6 DEF EnqueueInsert, Idle
  <2>2. client'[c].at = "idle" /\ \A d \in Clients \ {c} : client'[d] = client[d]
    BY <2>1, IdleTypes, ClientUpdate
  <2>3. CASE row' = row
    BY <1>3, <2>1, <2>2, <2>3
  <2>4. CASE row' # row
    <3>1. PICK k \in JobIds : k = client[c].job
      BY <1>6, RowInsert
    <3>2. /\ \A j \in JobIds \ {k} : row'[j] = row[j]
          /\ row'[k].state = InsertedState(c)
          /\ k \notin Stored
      BY <1>6, <2>4, <3>1, RowInsert
    <3>3. \/ row'[k].state = "failed"
          \/ row'[k].state = "queued" /\ k \in origin
      BY <2>1, <3>1, <3>2 DEF InsertedState, Calm
    <3>4. \A j \in Stored' : j = k \/ (j \in Stored /\ row'[j] = row[j])
      BY <3>2 DEF Stored
    <3>5. \A j \in Stored' : row'[j].state = "queued" => j \in origin'
      BY <2>1, <3>3, <3>4 DEF Calm, QueuedHasOrigin
    <3>6. \A j \in Stored' : row'[j].state = "running" => Holding' /\ worker'.job = j
      BY <1>2, <3>3, <3>4 DEF Calm
    <3>7. worker.at \in {"unregister", "fail"} /\ worker.outcome = "done" =>
            row'[worker.job] = row[worker.job]
      BY <1>1, <3>2
    <3>8. /\ \A d \in Clients : client'[d].at # "resume"
          /\ \A d \in Clients : client'[d].at = "insert" /\ client'[d].ok
                                  => client'[d].job \in origin'
      BY <2>1, <2>2 DEF Calm
    <3> QED
      BY <1>2, <2>1, <3>5, <3>6, <3>7, <3>8 DEF Calm, QueuedHasOrigin
  <2> QED
    BY <2>3, <2>4
<1>7. ~ ResumeRequeue(c) /\ \A j \in JobIds : ~ ResumeRegister(c, j)
  BY DEF Calm, ResumeRequeue, ResumeRegister
<1> QED
  BY <1>4, <1>5, <1>6, <1>7 DEF ClientStep

\* Every step keeps it: a lease that expires stays with its job, and the client and
\* the worker are above.
LEMMA CalmStep ==
    TypeOK /\ IdsInv /\ HoldInv /\ RunsUnderOrigin /\ CalmInv /\ [Next]_vars => CalmInv'
<1> SUFFICES ASSUME TypeOK, IdsInv, HoldInv, RunsUnderOrigin, CalmInv, [Next]_vars,
                    Undisturbed'
             PROVE  Calm'
  BY DEF CalmInv
<1>1. Calm /\ ~ Crash
  BY StaysUndisturbed DEF CalmInv
<1>2. CASE WorkerStep
  BY <1>1, <1>2, CalmWorker
<1>3. ASSUME NEW c \in Clients, ClientStep(c) \/ ClientStarts(c)
      PROVE  Calm'
  BY <1>1, <1>3, StaysUndisturbed, CalmClient DEF ClientStarts
<1>4. ASSUME NEW k \in JobIds, LeaseExpires(k)
      PROVE  Calm'
  <2>1. UNCHANGED <<origin, client, worker, epoch>>
    BY <1>4 DEF LeaseExpires
  <2>2. Stored' = Stored
    <3>1. \A c \in Clients : EnqueueInsert(c) => client[c].at = "insert" /\ client'[c].at = "idle"
      BY IdleTypes, ClientUpdate DEF EnqueueInsert, Idle
    <3> QED
      BY <2>1, <3>1, RowKept
  <2>3. \A j \in Stored : row'[j].state = row[j].state
    BY <1>4, RowExpires
  <2>4. worker.at \in {"unregister", "fail"} /\ worker.outcome = "done" => worker.job \in Stored
    BY DEF HoldInv
  <2> QED
    BY <1>1, <2>1, <2>2, <2>3, <2>4 DEF Calm, QueuedHasOrigin, Holding
<1>5. CASE UNCHANGED vars
  BY <1>1, <1>5 DEF vars, Calm, QueuedHasOrigin, Stored, Holding
<1> QED
  BY <1>1, <1>2, <1>3, <1>4, <1>5 DEF Next

\* Without a crash and without a resume, every queued job has its origin: a
\* retry does not give the registration up, and what is given up is not queued.
THEOREM OriginUndisturbed == Spec => []QueuedHasOriginUndisturbed
<1> DEFINE Inv == TypeOK /\ IdsInv /\ HoldInv /\ RunsUnderOrigin /\ CalmInv
<1>1. Init => Inv
  BY TypeInit, IdsInit, IdleTypes
     DEF Init, Stored, HoldInv, Holding, RunsUnderOrigin, CalmInv, Calm, QueuedHasOrigin
<1>2. Inv /\ [Next]_vars => Inv'
  BY TypeStep, IdsStep, HoldStep, OriginStep, CalmStep
<1>3. Inv => QueuedHasOriginUndisturbed
  BY DEF CalmInv, Calm, Undisturbed, QueuedHasOriginUndisturbed
<1> QED
  BY <1>1, <1>2, <1>3, PTL DEF Spec
==========================================================================
