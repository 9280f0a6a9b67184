---------------------------- MODULE ModelJobs_proofs ----------------------------
(***************************************************************************)
(* The jobs of local models: what a succeeded pull stands for, how often a *)
(* job is started, when it has failed for good and that a final state is   *)
(* final, proved for every number of targets, clients, jobs and crashes.   *)
(***************************************************************************)
EXTENDS ModelJobs, TLAPS

----------------------------------------------------------------------------
(* The inductive invariant.                                                *)

\* Where the worker has a job in its hand.
AtWork == {"start", "operate", "check", "errcheck", "succeed", "fail"}
Hand == AtWork \union {"cancel", "retry"}
Idle == {"down", "recover", "list", "resolve", "poll"}

InHand(j) == worker.job = j /\ worker.at \in Hand

Limit(r) == MaxAttempts[r.target] + crashes

\* A row: what is queued, or left running by a crash, may be started once
\* more, and what failed for good may not.
RowSound(j) ==
    LET r == row[j] IN
    /\ j <= issued
    /\ r.attempts <= Limit(r)
    /\ r.state = "queued" => r.attempts + 1 <= Limit(r)
    /\ r.state = "running" /\ ~ InHand(j) => r.attempts + 1 <= Limit(r)
    /\ r.state = "running" /\ InHand(j) => r.owner = epoch
    /\ crashes = 0 /\ r.state = "failed" /\ ~ InHand(j) => r.attempts = MaxAttempts[r.target]
    /\ r.state = "succeeded" /\ r.target \in Pulls => r.target \in installed

RowInv(j) == row[j] # NoRow => RowSound(j)

\* The worker and the row in its hand.
WorkerInv ==
    LET r == row[worker.job] IN
    /\ worker.at \in Idle => worker.job = NoJob
    /\ worker.at \notin Idle => worker.job \in JobIds
    /\ worker.at \in Hand => r # NoRow
    /\ worker.at \in AtWork => r.state \in {"running", "cancel_requested"}
    /\ worker.at = "cancel" => r.state = "cancel_requested"
    /\ worker.at = "retry" => r.state \in {"failed", "cancel_requested"}
    /\ worker.at \in {"check", "succeed"} /\ r.target \in Pulls => r.target \in installed

\* A job about to be inserted is new to the table and to the other clients.
ClientInv(c) ==
    /\ client[c].at # "idle" => client[c].job \in JobIds
    /\ client[c].at = "insert" =>
          /\ client[c].job <= issued
          /\ row[client[c].job] = NoRow
          /\ \A d \in Clients \ {c} : client[d].at = "insert" => client[d].job # client[c].job

JobsInv ==
    /\ TypeOK
    /\ \A j \in JobIds : RowInv(j)
    /\ WorkerInv
    /\ \A c \in Clients : ClientInv(c)

----------------------------------------------------------------------------
(* Rows.                                                                   *)

States == ActiveStates \union TerminalStates

\* A row is one of the table's records.
Stands(j) == row[j] \in Rows

\* The mark of an empty place is no row.
LEMMA NoRowIsNone == NoRow \notin Rows
<1>1. NoRow.state = "absent"
  BY DEF NoRow
<1>2. \A r \in Rows : r.state \in States
  BY DEF Rows, States
<1>3. "absent" \notin States
  BY DEF States, ActiveStates, TerminalStates
<1> QED
  BY <1>1, <1>2, <1>3

\* Clearing the lease leaves target, attempts and owner.
LEMMA EndedRow ==
    ASSUME NEW r \in Rows, NEW s \in States
    PROVE  /\ Ended(r, s) \in Rows
           /\ Ended(r, s).state = s
           /\ Ended(r, s).target = r.target
           /\ Ended(r, s).attempts = r.attempts
           /\ Ended(r, s).owner = r.owner
BY DEF Ended, Rows, States

\* Giving a row up clears its owner, and leaves target and attempts.
LEMMA ReleasedRow ==
    ASSUME NEW r \in Rows, NEW s \in States
    PROVE  /\ Released(r, s) \in Rows
           /\ Released(r, s).state = s
           /\ Released(r, s).target = r.target
           /\ Released(r, s).attempts = r.attempts
<1>1. PICK q \in Rows : q = Ended(r, s)
  BY EndedRow
<1>2. /\ q.state = s
      /\ q.target = r.target
      /\ q.attempts = r.attempts
  BY <1>1, EndedRow
<1>3. Released(r, s) = [q EXCEPT !.owner = 0]
  BY <1>1 DEF Released
<1> QED
  BY <1>2, <1>3 DEF Rows

\* The row of a claimed job.
Claimed(r, n) == [Ended(r, "running") EXCEPT !.owner = n, !.attempts = r.attempts + 1]

\* A claim counts one attempt more.
LEMMA ClaimedRow ==
    ASSUME NEW r \in Rows, NEW n \in Nat
    PROVE  /\ Claimed(r, n) \in Rows
           /\ Claimed(r, n).state = "running"
           /\ Claimed(r, n).target = r.target
           /\ Claimed(r, n).attempts = r.attempts + 1
           /\ Claimed(r, n).owner = n
<1>1. PICK e \in Rows : e = Ended(r, "running")
  BY EndedRow DEF States, ActiveStates
<1>2. e.target = r.target /\ e.attempts = r.attempts /\ e.state = "running"
  BY <1>1, EndedRow DEF States, ActiveStates
<1>3. PICK a \in Nat : a = r.attempts + 1
  BY DEF Rows
<1>4. Claimed(r, n) = [e EXCEPT !.owner = n, !.attempts = a]
  BY <1>1, <1>3 DEF Claimed
<1>5. PICK q : q = Claimed(r, n)
  OBVIOUS
<1>6. q \in Rows /\ q.attempts = a /\ q.owner = n /\ q.state = e.state /\ q.target = e.target
  BY <1>4, <1>5 DEF Rows
<1> QED
  BY <1>2, <1>3, <1>5, <1>6

\* A job that is not in the table has no row; every other one has.
LEMMA StoredRow ==
    ASSUME TypeOK, NEW j \in JobIds
    PROVE  /\ j \in Stored <=> row[j] # NoRow
           /\ j \in Stored <=> row[j] \in Rows
BY NoRowIsNone DEF TypeOK, Stored

\* What has a state of the table is in the table.
LEMMA StateStored ==
    ASSUME TypeOK, NEW j \in JobIds, row[j].state \in States
    PROVE  j \in Stored /\ row[j] \in Rows
<1>1. NoRow.state = "absent"
  BY DEF NoRow
<1> QED
  BY <1>1, StoredRow DEF States, ActiveStates, TerminalStates, Stored

\* Writing one row of the table.
LEMMA RowWritten ==
    ASSUME TypeOK, NEW j \in JobIds, NEW r \in Rows \union {NoRow},
           row' = [row EXCEPT ![j] = r]
    PROVE  /\ row' \in [JobIds -> Rows \union {NoRow}]
           /\ row'[j] = r
           /\ \A k \in JobIds \ {j} : row'[k] = row[k]
BY DEF TypeOK

----------------------------------------------------------------------------
(* The records of the worker and of a client.                              *)

\* An idle client and an idle worker.
LEMMA IdleRecords ==
    /\ IdleClient \in ClientRecords
    /\ IdleClient.at = "idle"
    /\ IdleWorker \in WorkerRecords
    /\ IdleWorker.at = "down"
    /\ IdleWorker.job = NoJob
<1>1. PICK t \in Targets : t = CHOOSE u \in Targets : TRUE
  BY ModelJobsAssumption
<1>2. IdleClient = [at |-> "idle", job |-> NoJob, target |-> t, seen |-> "none"]
  BY <1>1 DEF IdleClient
<1>3. IdleClient \in ClientRecords /\ IdleClient.at = "idle"
  BY <1>2 DEF ClientRecords
<1>4. PICK p \in SUBSET JobIds : p = {}
  OBVIOUS
<1>5. IdleWorker = [at |-> "down", job |-> NoJob, pending |-> p]
  BY <1>4 DEF IdleWorker
<1> QED
  BY <1>3, <1>5 DEF WorkerRecords

\* The places of the worker's program.
Places == {"down", "recover", "list", "resolve", "poll", "claim", "start", "operate",
           "check", "errcheck", "succeed", "cancel", "fail", "retry"}

\* The worker goes to another place with the same job.
LEMMA WorkerGoes ==
    ASSUME worker \in WorkerRecords, NEW at \in Places, Goto(at)
    PROVE  /\ worker' \in WorkerRecords
           /\ worker'.at = at
           /\ worker'.job = worker.job
<1>1. PICK w \in WorkerRecords : w = worker
  OBVIOUS
<1>2. worker' = [w EXCEPT !.at = at]
  BY <1>1 DEF Goto
<1> QED
  BY <1>1, <1>2 DEF WorkerRecords, Places

\* The worker is back in its loop with nothing in its hand.
LEMMA WorkerReturns ==
    ASSUME Return
    PROVE  /\ worker' \in WorkerRecords
           /\ worker'.at = "poll"
           /\ worker'.job = NoJob
<1>1. PICK w \in WorkerRecords : w = IdleWorker
  BY IdleRecords
<1>2. worker' = [w EXCEPT !.at = "poll"]
  BY <1>1 DEF Return
<1> QED
  BY <1>1, <1>2, IdleRecords DEF WorkerRecords

----------------------------------------------------------------------------
(* What a step leaves alone.                                               *)

\* A row that is not written stays sound while the worker keeps it in hand,
\* or does not take it up: budgets and installed models only grow.
LEMMA RowKept ==
    ASSUME TypeOK, TypeOK', NEW j \in JobIds, RowInv(j), row'[j] = row[j],
           issued <= issued', installed \subseteq installed', crashes <= crashes',
           InHand(j)' <=> InHand(j), InHand(j) => epoch' = epoch
    PROVE  RowInv(j)'
<1> SUFFICES ASSUME row'[j] # NoRow
             PROVE  RowSound(j)'
  BY DEF RowInv
<1>1. row[j] # NoRow /\ RowSound(j)
  BY DEF RowInv
<1>2. PICK r \in Rows : r = row[j]
  BY <1>1 DEF TypeOK
<1>3. r.target \in Targets /\ r.attempts \in Nat /\ MaxAttempts[r.target] \in Nat
  BY ModelJobsAssumption DEF Rows
<1>4. issued \in Nat /\ issued' \in Nat /\ crashes \in Nat /\ crashes' \in Nat /\ j \in Nat
  BY ModelJobsAssumption DEF TypeOK, JobIds
<1>5. MaxAttempts[r.target] + crashes <= MaxAttempts[r.target] + crashes'
  BY <1>3, <1>4
<1>6. row'[j] = r
  BY <1>2
<1>7. /\ j <= issued
      /\ r.attempts <= MaxAttempts[r.target] + crashes
      /\ r.state = "queued" => r.attempts + 1 <= MaxAttempts[r.target] + crashes
      /\ r.state = "running" /\ ~ InHand(j)
           => r.attempts + 1 <= MaxAttempts[r.target] + crashes
      /\ r.state = "running" /\ InHand(j) => r.owner = epoch
      /\ crashes = 0 /\ r.state = "failed" /\ ~ InHand(j)
           => r.attempts = MaxAttempts[r.target]
      /\ r.state = "succeeded" /\ r.target \in Pulls => r.target \in installed
  BY <1>1, <1>2 DEF RowSound, Limit
<1>8. crashes' = 0 => crashes = 0
  BY <1>4
<1>9. /\ j <= issued'
      /\ r.attempts <= MaxAttempts[r.target] + crashes'
      /\ r.state = "queued" => r.attempts + 1 <= MaxAttempts[r.target] + crashes'
      /\ r.state = "running" /\ ~ InHand(j)'
           => r.attempts + 1 <= MaxAttempts[r.target] + crashes'
  BY <1>3, <1>4, <1>5, <1>7
<1>10. /\ r.state = "running" /\ InHand(j)' => r.owner = epoch'
       /\ crashes' = 0 /\ r.state = "failed" /\ ~ InHand(j)'
            => r.attempts = MaxAttempts[r.target]
       /\ r.state = "succeeded" /\ r.target \in Pulls => r.target \in installed'
  BY <1>7, <1>8
<1> QED
  BY <1>6, <1>9, <1>10 DEF RowSound, Limit

\* The clients stay sound when none of them moves, no number is handed out
\* and no row appears.
LEMMA ClientsKept ==
    ASSUME \A c \in Clients : ClientInv(c), UNCHANGED <<client, issued>>,
           \A k \in JobIds : row[k] = NoRow => row'[k] = NoRow
    PROVE  \A c \in Clients : ClientInv(c)'
BY DEF ClientInv

\* The worker stays sound when it does not move and nobody writes the row in
\* its hand.
LEMMA WorkerKept ==
    ASSUME WorkerInv, UNCHANGED worker, installed \subseteq installed',
           worker.at \in Hand => row'[worker.job] = row[worker.job]
    PROVE  WorkerInv'
<1> DEFINE r == row[worker.job]
<1>1. CASE worker.at \in Hand
  <2>1. row'[worker'.job] = r
    BY <1>1
  <2> HIDE DEF r
  <2> QED
    BY <1>1, <2>1 DEF WorkerInv, r
<1>2. CASE worker.at \notin Hand
  BY <1>2 DEF WorkerInv, Hand, AtWork
<1> QED
  BY <1>1, <1>2

\* The worker moves on with the job in its hand; what it requires of the
\* row, which nobody writes, is shown for each move.
LEMMA WorkerMoves ==
    ASSUME JobsInv, TypeOK', WorkerInv',
           UNCHANGED <<row, issued, client, crashes, epoch>>, installed \subseteq installed',
           worker'.job = worker.job, worker.at \in Hand, worker'.at \in Hand
    PROVE  JobsInv'
<1>1. ASSUME NEW j \in JobIds
      PROVE  RowInv(j)'
  <2>1. InHand(j)' <=> InHand(j)
    BY DEF InHand
  <2>2. issued <= issued' /\ crashes <= crashes'
    BY ModelJobsAssumption DEF JobsInv, TypeOK
  <2> QED
    BY <2>1, <2>2, RowKept DEF JobsInv
<1>2. \A c \in Clients : ClientInv(c)'
  BY ClientsKept DEF JobsInv
<1> QED
  BY <1>1, <1>2 DEF JobsInv

\* The worker moves with empty hands.
LEMMA WorkerIdles ==
    ASSUME JobsInv, TypeOK', UNCHANGED <<row, issued, client, crashes, installed>>,
           worker.at \notin Hand,
           \/ worker'.at \in Idle /\ worker'.job = NoJob
           \/ worker'.at = "claim" /\ worker'.job \in JobIds
    PROVE  JobsInv'
<1>1. worker'.at \notin Hand
  BY DEF Idle, Hand, AtWork
<1>2. ASSUME NEW j \in JobIds
      PROVE  RowInv(j)'
  <2>1. ~ InHand(j)' /\ ~ InHand(j)
    BY <1>1 DEF InHand
  <2>2. issued <= issued' /\ crashes <= crashes'
    BY ModelJobsAssumption DEF JobsInv, TypeOK
  <2> QED
    BY <2>1, <2>2, RowKept DEF JobsInv
<1>3. \A c \in Clients : ClientInv(c)'
  BY ClientsKept DEF JobsInv
<1>4. WorkerInv'
  BY <1>1 DEF WorkerInv, Hand, AtWork, Idle
<1> QED
  BY <1>2, <1>3, <1>4 DEF JobsInv

----------------------------------------------------------------------------
(* The moves of the worker that write no row.                              *)

\* A new worker has nothing in its hand.
LEMMA BootKeeps == ASSUME JobsInv, Boot PROVE JobsInv'
<1>1. PICK w \in WorkerRecords : w = IdleWorker
  BY IdleRecords
<1>2. worker' = [w EXCEPT !.at = "recover"]
  BY <1>1 DEF Boot
<1>3. worker' \in WorkerRecords /\ worker'.at = "recover" /\ worker'.job = NoJob
  BY <1>1, <1>2, IdleRecords DEF WorkerRecords
<1>4. TypeOK'
  BY <1>3 DEF JobsInv, TypeOK, Boot
<1> QED
  BY <1>3, <1>4, WorkerIdles DEF Boot, Idle, Hand, AtWork

\* The list of recovered pulls is a set of job numbers.
LEMMA ListRecoveredKeeps == ASSUME JobsInv, ListRecovered PROVE JobsInv'
<1>1. PICK p \in SUBSET JobIds :
        p = {j \in Stored : /\ row[j].state = "queued"
                            /\ row[j].target \in Pulls
                            /\ row[j].attempts >= 1}
  BY DEF Stored
<1>2. PICK w \in WorkerRecords : w = worker
  BY DEF JobsInv, TypeOK
<1>3. worker' = [w EXCEPT !.at = "resolve", !.pending = p]
  BY <1>1, <1>2 DEF ListRecovered
<1>4. worker' \in WorkerRecords /\ worker'.at = "resolve" /\ worker'.job = worker.job
  BY <1>2, <1>3 DEF WorkerRecords
<1>5. TypeOK'
  BY <1>4 DEF JobsInv, TypeOK, ListRecovered
<1>6. worker.at = "list" /\ worker.job = NoJob
  BY DEF JobsInv, WorkerInv, ListRecovered, Idle
<1> QED
  BY <1>4, <1>5, <1>6, WorkerIdles DEF ListRecovered, Idle, Hand, AtWork

\* The recovery of pulls ends.
LEMMA ResolvedKeeps == ASSUME JobsInv, Resolved PROVE JobsInv'
<1>1. PICK w \in WorkerRecords : w = worker
  BY DEF JobsInv, TypeOK
<1>2. worker' = [w EXCEPT !.at = "poll"]
  BY <1>1 DEF Resolved
<1>3. worker' \in WorkerRecords /\ worker'.at = "poll" /\ worker'.job = worker.job
  BY <1>1, <1>2 DEF WorkerRecords
<1>4. TypeOK'
  BY <1>3 DEF JobsInv, TypeOK, Resolved
<1>5. worker.at = "resolve" /\ worker.job = NoJob
  BY DEF JobsInv, WorkerInv, Resolved, Idle
<1> QED
  BY <1>3, <1>4, <1>5, WorkerIdles DEF Resolved, Idle, Hand, AtWork

\* A job has been chosen; its row is not taken yet.
LEMMA ClaimReadKeeps == ASSUME JobsInv, NEW j \in JobIds, ClaimRead(j) PROVE JobsInv'
<1>1. PICK w \in WorkerRecords : w = worker
  BY DEF JobsInv, TypeOK
<1>2. worker' = [w EXCEPT !.at = "claim", !.job = j]
  BY <1>1 DEF ClaimRead
<1>3. worker' \in WorkerRecords /\ worker'.at = "claim" /\ worker'.job = j
  BY <1>1, <1>2 DEF WorkerRecords
<1>4. TypeOK'
  BY <1>3 DEF JobsInv, TypeOK, ClaimRead
<1> QED
  BY <1>3, <1>4, WorkerIdles DEF ClaimRead, Hand, AtWork

----------------------------------------------------------------------------
(* The moves of the worker with a job in its hand that write no row.       *)

\* The worker goes on with its job: to the cancellation only when it saw a
\* cancel request, to a success of a pull only when the model is there.
LEMMA WorkerGoesOn ==
    ASSUME JobsInv, worker.at \in AtWork, NEW at \in AtWork \union {"cancel"}, Goto(at),
           UNCHANGED <<row, issued, client, epoch, cancels, crashes>>,
           installed \subseteq installed', installed' \subseteq Targets,
           at = "cancel" => CancelSeen,
           at \in {"check", "succeed"} /\ Target \in Pulls => Target \in installed'
    PROVE  JobsInv'
<1>1. /\ worker' \in WorkerRecords
      /\ worker'.at = at
      /\ worker'.job = worker.job
  BY WorkerGoes DEF JobsInv, TypeOK, AtWork, Places
<1>2. TypeOK'
  BY <1>1 DEF JobsInv, TypeOK
<1>3. worker.at \in Hand /\ worker'.at \in Hand
  BY <1>1 DEF Hand
<1>4. PICK r : r = row[worker.job]
  OBVIOUS
<1>5. /\ worker.job \in JobIds
      /\ r # NoRow
      /\ r.state \in {"running", "cancel_requested"}
  BY <1>3, <1>4 DEF JobsInv, WorkerInv, Hand, AtWork, Idle
<1>6. row'[worker'.job] = r
  BY <1>1, <1>4
<1>7. WorkerInv'
  BY <1>1, <1>4, <1>5, <1>6 DEF WorkerInv, Hand, AtWork, Idle, CancelSeen, Target
<1> QED
  BY <1>1, <1>2, <1>3, <1>7, WorkerMoves

\* The first look at the row.
LEMMA StartKeeps == ASSUME JobsInv, Start PROVE JobsInv'
<1>1. PICK at \in {"cancel", "operate"} : at = IF CancelSeen THEN "cancel" ELSE "operate"
  OBVIOUS
<1>2. Goto(at)
  BY <1>1 DEF Start
<1>3. at = "cancel" => CancelSeen
  BY <1>1
<1> QED
  BY <1>2, <1>3, WorkerGoesOn DEF Start, AtWork, JobsInv, TypeOK

\* A pull that is aborted, as its row said.
LEMMA PullAbortsKeeps == ASSUME JobsInv, PullAborts PROVE JobsInv'
BY WorkerGoesOn DEF PullAborts, Pulling, AtWork, JobsInv, TypeOK

\* A target that the worker has in its hand is a target.
LEMMA TargetInHand ==
    ASSUME JobsInv, worker.at \in AtWork
    PROVE  Target \in Targets
<1>1. worker.job \in JobIds /\ row[worker.job] # NoRow
  BY DEF JobsInv, WorkerInv, Hand, AtWork, Idle
<1>2. row[worker.job] \in Rows
  BY <1>1, StoredRow DEF JobsInv
<1> QED
  BY <1>2 DEF Target, Rows

\* A pull that returns: only a success goes to the check that leads to it.
LEMMA PullReturnsKeeps ==
    ASSUME JobsInv, NEW status \in {"success", "error", "unknown"}, PullReturns(status)
    PROVE  JobsInv'
<1>1. PICK at \in {"check", "errcheck"} :
        at = IF Finished(status) THEN "check" ELSE "errcheck"
  OBVIOUS
<1>2. Goto(at)
  BY <1>1 DEF PullReturns
<1>3. worker.at = "operate" /\ UNCHANGED <<row, issued, client, epoch, cancels, crashes>>
  BY DEF PullReturns, Pulling
<1>4. Target \in Targets
  BY <1>3, TargetInHand DEF AtWork
<1>5. installed \subseteq installed' /\ installed' \subseteq Targets
  BY <1>4 DEF PullReturns, JobsInv, TypeOK
<1>6. at = "check" => Target \in installed'
  BY <1>1 DEF PullReturns, Finished
<1> QED
  BY <1>2, <1>3, <1>5, <1>6, WorkerGoesOn DEF AtWork

\* A load or unload that returns.
LEMMA LoadReturnsKeeps == ASSUME JobsInv, LoadReturns PROVE JobsInv'
BY WorkerGoesOn DEF LoadReturns, AtWork, JobsInv, TypeOK

\* An operation that raises.
LEMMA RaisesKeeps == ASSUME JobsInv, Raises PROVE JobsInv'
<1>1. Target \in Targets
  BY TargetInHand DEF Raises, AtWork
<1>2. installed \subseteq installed' /\ installed' \subseteq Targets
  BY <1>1 DEF Raises, JobsInv, TypeOK
<1> QED
  BY <1>2, WorkerGoesOn DEF Raises, AtWork

\* The last look at the row: a pull goes on to its success only with the
\* model that its check already found.
LEMMA CheckKeeps == ASSUME JobsInv, Check PROVE JobsInv'
<1>1. UNCHANGED <<row, issued, client, epoch, cancels, crashes, installed>>
  BY DEF Check
<1>2. CASE worker.at = "check" /\ Goto(IF Cancels THEN "cancel" ELSE "succeed")
  <2>1. PICK at \in {"cancel", "succeed"} : at = IF Cancels THEN "cancel" ELSE "succeed"
    OBVIOUS
  <2>2. Goto(at)
    BY <1>2, <2>1
  <2>3. Target \in Pulls => Target \in installed
    BY <1>2 DEF JobsInv, WorkerInv, Target
  <2> QED
    BY <1>1, <1>2, <2>1, <2>2, <2>3, WorkerGoesOn DEF AtWork, Cancels, JobsInv, TypeOK
<1>3. CASE worker.at = "errcheck" /\ Goto(IF Cancels THEN "cancel" ELSE "fail")
  <2>1. PICK at \in {"cancel", "fail"} : at = IF Cancels THEN "cancel" ELSE "fail"
    OBVIOUS
  <2>2. Goto(at)
    BY <1>3, <2>1
  <2> QED
    BY <1>1, <1>3, <2>1, <2>2, WorkerGoesOn DEF AtWork, Cancels, JobsInv, TypeOK
<1> QED
  BY <1>2, <1>3 DEF Check

----------------------------------------------------------------------------
(* The moves of the worker that write the row of its job.                  *)

\* A row of the table is written, by the worker that has this job in its
\* hand or none, or by somebody else; the others stay as they are.
LEMMA RowWrites ==
    ASSUME JobsInv, TypeOK', NEW j \in JobIds,
           row[j] = NoRow => row'[j] = NoRow, \A k \in JobIds \ {j} : row'[k] = row[k],
           UNCHANGED <<issued, client, crashes, epoch, installed>>,
           \/ worker.job \in {j, NoJob} /\ worker'.job \in {j, NoJob}
           \/ UNCHANGED worker,
           RowInv(j)', WorkerInv'
    PROVE  JobsInv'
<1>1. ASSUME NEW k \in JobIds, k # j
      PROVE  RowInv(k)'
  <2>1. InHand(k)' <=> InHand(k)
    BY <1>1 DEF InHand, JobIds, NoJob
  <2>2. issued <= issued' /\ crashes <= crashes'
    BY ModelJobsAssumption DEF JobsInv, TypeOK
  <2>3. row'[k] = row[k]
    BY <1>1
  <2> QED
    BY <2>1, <2>2, <2>3, RowKept DEF JobsInv
<1>2. \A c \in Clients : ClientInv(c)'
  BY ClientsKept DEF JobsInv
<1> QED
  BY <1>1, <1>2 DEF JobsInv

\* The worker comes back with nothing in its hand: what it wrote, if it
\* wrote at all, is sound by itself.
LEMMA WorkerComesBack ==
    ASSUME JobsInv, worker.at \notin Idle, NEW r \in Rows \union {NoRow},
           row' = [row EXCEPT ![worker.job] = r], row[worker.job] = NoRow => r = NoRow, Return,
           UNCHANGED <<issued, client, epoch, installed, cancels, crashes>>,
           r # NoRow =>
             /\ worker.job <= issued
             /\ r.attempts <= Limit(r)
             /\ r.state \in {"queued", "running"} => r.attempts + 1 <= Limit(r)
             /\ crashes = 0 /\ r.state = "failed" => r.attempts = MaxAttempts[r.target]
             /\ r.state = "succeeded" /\ r.target \in Pulls => r.target \in installed
    PROVE  JobsInv'
<1>1. PICK j \in JobIds : j = worker.job
  BY DEF JobsInv, WorkerInv
<1>2. worker' \in WorkerRecords /\ worker'.at = "poll" /\ worker'.job = NoJob
  BY WorkerReturns
<1>3. /\ row' \in [JobIds -> Rows \union {NoRow}]
      /\ row'[j] = r
      /\ \A k \in JobIds \ {j} : row'[k] = row[k]
  BY <1>1, RowWritten DEF JobsInv
<1>4. TypeOK'
  BY <1>2, <1>3 DEF JobsInv, TypeOK
<1>5. RowInv(j)'
  BY <1>1, <1>2, <1>3 DEF RowInv, RowSound, InHand, Limit, Hand, AtWork
<1>6. WorkerInv'
  BY <1>2 DEF WorkerInv, Hand, AtWork, Idle
<1> QED
  BY <1>1, <1>2, <1>3, <1>4, <1>5, <1>6, RowWrites

\* The worker comes back and has written nothing.
LEMMA WorkerGivesUp ==
    ASSUME JobsInv, worker.at \notin Idle, Return,
           UNCHANGED <<row, issued, client, epoch, installed, cancels, crashes>>,
           LET r == row[worker.job] IN
             /\ r.state = "running" => ~ InHand(worker.job)
             /\ crashes = 0 /\ r.state = "failed" /\ InHand(worker.job)
                  => r.attempts >= MaxAttempts[r.target]
    PROVE  JobsInv'
<1>1. PICK j \in JobIds : j = worker.job
  BY DEF JobsInv, WorkerInv
<1>2. PICK r \in Rows \union {NoRow} : r = row[j]
  BY DEF JobsInv, TypeOK
<1>3. row' = [row EXCEPT ![j] = r]
  BY <1>2 DEF JobsInv, TypeOK
<1>4. ASSUME r # NoRow
      PROVE  /\ j <= issued
             /\ r.attempts <= Limit(r)
             /\ r.state \in {"queued", "running"} => r.attempts + 1 <= Limit(r)
             /\ crashes = 0 /\ r.state = "failed" => r.attempts = MaxAttempts[r.target]
             /\ r.state = "succeeded" /\ r.target \in Pulls => r.target \in installed
  <2>1. RowSound(j)
    BY <1>2, <1>4 DEF JobsInv, RowInv
  <2>2. r.attempts \in Nat /\ MaxAttempts[r.target] \in Nat /\ crashes \in Nat
    BY <1>4, ModelJobsAssumption DEF Rows, JobsInv, TypeOK
  <2> QED
    BY <1>1, <1>2, <2>1, <2>2 DEF RowSound, Limit
<1> QED
  BY <1>1, <1>2, <1>3, <1>4, WorkerComesBack

\* A claim takes a queued row, which is entitled to one attempt more.
LEMMA ClaimWriteKeeps == ASSUME JobsInv, ClaimWrite PROVE JobsInv'
<1>1. PICK j \in JobIds : j = worker.job
  BY DEF JobsInv, WorkerInv, ClaimWrite, Idle
<1>2. worker.at = "claim" /\ UNCHANGED <<issued, client, epoch, installed, cancels, crashes>>
  BY DEF ClaimWrite
<1>3. CASE ~ Claimable(j)
  <2>1. Return /\ UNCHANGED row
    BY <1>1, <1>3 DEF ClaimWrite
  <2>2. ~ InHand(j)
    BY <1>2 DEF InHand, Hand, AtWork
  <2> QED
    BY <1>1, <1>2, <2>1, <2>2, WorkerGivesUp DEF Idle
<1>4. CASE Claimable(j)
  <2>1. row[j] \in Rows /\ row[j] # NoRow /\ RowSound(j) /\ row[j].state = "queued"
    BY <1>4, StateStored, StoredRow
       DEF Claimable, States, ActiveStates, JobsInv, RowInv
  <2>2. PICK r \in Rows : r = row[j]
    BY <2>1
  <2>3. PICK e \in Nat : e = epoch
    BY DEF JobsInv, TypeOK
  <2>4. PICK q : q = Claimed(r, e)
    OBVIOUS
  <2>5. /\ q \in Rows
        /\ q.state = "running"
        /\ q.target = r.target
        /\ q.attempts = r.attempts + 1
        /\ q.owner = e
    BY <2>4, ClaimedRow
  <2>6. row' = [row EXCEPT ![j] = q] /\ Goto("start")
    BY <1>1, <1>4, <2>2, <2>3, <2>4 DEF ClaimWrite, Claimed
  <2>7. worker' \in WorkerRecords /\ worker'.at = "start" /\ worker'.job = j
    BY <1>1, <2>6, WorkerGoes DEF JobsInv, TypeOK, Places
  <2>8. /\ row' \in [JobIds -> Rows \union {NoRow}]
        /\ row'[j] = q
        /\ \A k \in JobIds \ {j} : row'[k] = row[k]
    BY <2>5, <2>6, RowWritten DEF JobsInv
  <2>9. TypeOK'
    BY <1>2, <2>7, <2>8 DEF JobsInv, TypeOK
  <2>10. j <= issued /\ r.attempts + 1 <= MaxAttempts[r.target] + crashes
    BY <2>1, <2>2 DEF RowSound, Limit
  <2>11. RowInv(j)'
    BY <1>2, <2>3, <2>5, <2>7, <2>8, <2>10
       DEF RowInv, RowSound, Limit, InHand, Hand, AtWork
  <2>12. WorkerInv'
    BY <2>5, <2>7, <2>8, NoRowIsNone DEF WorkerInv, Hand, AtWork, Idle
  <2> QED
    BY <1>1, <1>2, <2>1, <2>7, <2>8, <2>9, <2>11, <2>12, RowWrites
<1> QED
  BY <1>3, <1>4

\* The row in the worker's hand.
LEMMA RowInHand ==
    ASSUME JobsInv, worker.at \in Hand
    PROVE  /\ worker.job \in JobIds
           /\ row[worker.job] \in Rows
           /\ row[worker.job] # NoRow
           /\ RowSound(worker.job)
           /\ InHand(worker.job)
<1>1. worker.job \in JobIds /\ row[worker.job] # NoRow
  BY DEF JobsInv, WorkerInv, Hand, AtWork, Idle
<1> QED
  BY <1>1, StoredRow DEF JobsInv, RowInv, InHand

\* A success is recorded for a row that is still running and whose model the
\* check found.
LEMMA SucceedKeeps == ASSUME JobsInv, Succeed PROVE JobsInv'
<1>1. /\ worker.at = "succeed"
      /\ worker.at \in Hand
      /\ worker.at \notin Idle
      /\ UNCHANGED <<issued, client, epoch, installed, cancels, crashes>>
      /\ Return
  BY DEF Succeed, End, Hand, AtWork, Idle
<1>2. PICK j \in JobIds : j = worker.job
  BY <1>1, RowInHand
<1>3. PICK r \in Rows : r = row[j]
  BY <1>1, <1>2, RowInHand
<1>4. r.state \in {"running", "cancel_requested"} /\ (r.target \in Pulls => r.target \in installed)
  BY <1>1, <1>2, <1>3 DEF JobsInv, WorkerInv, AtWork
<1>5. RowSound(j) /\ InHand(j) /\ row[j] # NoRow
  BY <1>1, <1>2, RowInHand
<1>6. CASE Holds("running")
  <2>1. PICK q \in Rows : q = Ended(r, "succeeded")
    BY EndedRow DEF States, TerminalStates
  <2>2. q.state = "succeeded" /\ q.target = r.target /\ q.attempts = r.attempts
    BY <2>1, EndedRow DEF States, TerminalStates
  <2>3. row' = [row EXCEPT ![j] = q]
    BY <1>2, <1>3, <1>6, <2>1 DEF Succeed, End
  <2>4. j <= issued /\ q.attempts <= Limit(q)
    BY <1>3, <1>5, <2>2 DEF RowSound, Limit
  <2> QED
    BY <1>1, <1>2, <1>4, <1>5, <2>2, <2>3, <2>4, WorkerComesBack
<1>7. CASE ~ Holds("running")
  <2>1. UNCHANGED row
    BY <1>7 DEF Succeed, End
  <2>2. r.state = "cancel_requested"
    BY <1>2, <1>3, <1>4, <1>5, <1>7 DEF Holds, RowSound
  <2> QED
    BY <1>1, <1>2, <1>3, <2>1, <2>2, WorkerGivesUp
<1> QED
  BY <1>6, <1>7

\* A cancellation ends the row.
LEMMA MarkCancelledKeeps == ASSUME JobsInv, MarkCancelled PROVE JobsInv'
<1>1. /\ worker.at = "cancel"
      /\ worker.at \in Hand
      /\ worker.at \notin Idle
      /\ UNCHANGED <<issued, client, epoch, installed, cancels, crashes>>
      /\ Return
  BY DEF MarkCancelled, End, Hand, AtWork, Idle
<1>2. PICK j \in JobIds : j = worker.job
  BY <1>1, RowInHand
<1>3. PICK r \in Rows : r = row[j]
  BY <1>1, <1>2, RowInHand
<1>4. r.state = "cancel_requested"
  BY <1>1, <1>2, <1>3 DEF JobsInv, WorkerInv
<1>5. RowSound(j) /\ row[j] # NoRow
  BY <1>1, <1>2, RowInHand
<1>6. CASE Holds("cancel_requested")
  <2>1. PICK q \in Rows : q = Ended(r, "cancelled")
    BY EndedRow DEF States, TerminalStates
  <2>2. q.state = "cancelled" /\ q.target = r.target /\ q.attempts = r.attempts
    BY <2>1, EndedRow DEF States, TerminalStates
  <2>3. row' = [row EXCEPT ![j] = q]
    BY <1>2, <1>3, <1>6, <2>1 DEF MarkCancelled, End
  <2>4. j <= issued /\ q.attempts <= Limit(q)
    BY <1>3, <1>5, <2>2 DEF RowSound, Limit
  <2> QED
    BY <1>1, <1>2, <1>5, <2>2, <2>3, <2>4, WorkerComesBack
<1>7. CASE ~ Holds("cancel_requested")
  <2>1. UNCHANGED row
    BY <1>7 DEF MarkCancelled, End
  <2> QED
    BY <1>1, <1>2, <1>3, <1>4, <2>1, WorkerGivesUp
<1> QED
  BY <1>6, <1>7

\* A failure is recorded; whether it is for good is for the retry to say.
LEMMA FailKeeps == ASSUME JobsInv, Fail PROVE JobsInv'
<1>1. /\ worker.at = "fail"
      /\ worker.at \in Hand
      /\ UNCHANGED <<issued, client, epoch, installed, cancels, crashes>>
      /\ Goto("retry")
  BY DEF Fail, Hand, AtWork
<1>2. PICK j \in JobIds : j = worker.job
  BY <1>1, RowInHand
<1>3. PICK r \in Rows : r = row[j]
  BY <1>1, <1>2, RowInHand
<1>4. r.state \in {"running", "cancel_requested"}
  BY <1>1, <1>2, <1>3 DEF JobsInv, WorkerInv, AtWork
<1>5. RowSound(j) /\ InHand(j) /\ row[j] # NoRow
  BY <1>1, <1>2, RowInHand
<1>6. worker' \in WorkerRecords /\ worker'.at = "retry" /\ worker'.job = j
  BY <1>1, <1>2, WorkerGoes DEF JobsInv, TypeOK, Places
<1>7. PICK q \in Rows :
        /\ row' = [row EXCEPT ![j] = q]
        /\ q.state \in {"failed", "cancel_requested"}
        /\ q.target = r.target
        /\ q.attempts = r.attempts
  <2>1. CASE Holds("running")
    <3>1. PICK q \in Rows : q = Ended(r, "failed")
      BY EndedRow DEF States, TerminalStates
    <3>2. q.state = "failed" /\ q.target = r.target /\ q.attempts = r.attempts
      BY <3>1, EndedRow DEF States, TerminalStates
    <3>3. row' = [row EXCEPT ![j] = q]
      BY <1>2, <1>3, <2>1, <3>1 DEF Fail
    <3> QED
      BY <3>2, <3>3
  <2>2. CASE ~ Holds("running")
    <3>1. row' = [row EXCEPT ![j] = r]
      BY <1>3, <2>2 DEF Fail, JobsInv, TypeOK
    <3>2. r.state = "cancel_requested"
      BY <1>2, <1>3, <1>4, <1>5, <2>2 DEF Holds, RowSound
    <3> QED
      BY <3>1, <3>2
  <2> QED
    BY <2>1, <2>2
<1>8. /\ row' \in [JobIds -> Rows \union {NoRow}]
      /\ row'[j] = q
      /\ \A k \in JobIds \ {j} : row'[k] = row[k]
  BY <1>7, RowWritten DEF JobsInv
<1>9. TypeOK'
  BY <1>1, <1>6, <1>8 DEF JobsInv, TypeOK
<1>10. j <= issued /\ r.attempts <= MaxAttempts[r.target] + crashes
  BY <1>3, <1>5 DEF RowSound, Limit
<1>11. RowInv(j)'
  BY <1>1, <1>6, <1>7, <1>8, <1>10 DEF RowInv, RowSound, Limit, InHand, Hand
<1>12. WorkerInv'
  BY <1>6, <1>7, <1>8, NoRowIsNone DEF WorkerInv, Hand, AtWork, Idle
<1> QED
  BY <1>1, <1>2, <1>5, <1>6, <1>8, <1>9, <1>11, <1>12, RowWrites

\* A retry queues a job that is entitled to one attempt more; the one that
\* stays failed has none left.
LEMMA RetryKeeps == ASSUME JobsInv, Retry PROVE JobsInv'
<1>1. /\ worker.at = "retry"
      /\ worker.at \in Hand
      /\ worker.at \notin Idle
      /\ UNCHANGED <<issued, client, epoch, installed, cancels, crashes>>
      /\ Return
  BY DEF Retry, Hand, AtWork, Idle
<1>2. PICK j \in JobIds : j = worker.job
  BY <1>1, RowInHand
<1>3. PICK r \in Rows : r = row[j]
  BY <1>1, <1>2, RowInHand
<1>4. r.state \in {"failed", "cancel_requested"}
  BY <1>1, <1>2, <1>3 DEF JobsInv, WorkerInv
<1>5. RowSound(j) /\ row[j] # NoRow /\ j \in Stored
  BY <1>1, <1>2, RowInHand DEF Stored
<1>6. r.attempts \in Nat /\ MaxAttempts[r.target] \in Nat /\ crashes \in Nat
  BY ModelJobsAssumption DEF Rows, JobsInv, TypeOK
<1>7. CASE Requeues(j)
  <2>1. PICK q \in Rows : q = Released(r, "queued")
    BY ReleasedRow DEF States, ActiveStates
  <2>2. q.state = "queued" /\ q.target = r.target /\ q.attempts = r.attempts
    BY <2>1, ReleasedRow DEF States, ActiveStates
  <2>3. row' = [row EXCEPT ![j] = q]
    BY <1>2, <1>3, <1>5, <1>7, <2>1 DEF Retry
  <2>4. j <= issued /\ r.attempts < MaxAttempts[r.target]
    BY <1>3, <1>5, <1>7 DEF RowSound, Requeues
  <2>5. q.attempts <= Limit(q) /\ q.attempts + 1 <= Limit(q)
    BY <1>6, <2>2, <2>4 DEF Limit
  <2> QED
    BY <1>1, <1>2, <1>5, <2>2, <2>3, <2>4, <2>5, WorkerComesBack
<1>8. CASE ~ Requeues(j)
  <2>1. UNCHANGED row
    BY <1>2, <1>8 DEF Retry
  <2>2. r.state = "failed" => r.attempts >= MaxAttempts[r.target]
    BY <1>3, <1>6, <1>8 DEF Requeues
  <2> QED
    BY <1>1, <1>2, <1>3, <1>4, <2>1, <2>2, WorkerGivesUp
<1> QED
  BY <1>7, <1>8

----------------------------------------------------------------------------
(* The recovery.                                                           *)

\* A row after the recovery: the same, or given up without a new attempt.
LEMMA RecoveredRow ==
    ASSUME NEW j \in JobIds, NEW r \in Rows, r = row[j]
    PROVE  /\ Recovered(j) \in Rows
           /\ Recovered(j).target = r.target
           /\ Recovered(j).attempts = r.attempts
           /\ \/ Recovered(j).state = r.state
              \/ r.state = "cancel_requested" /\ Recovered(j).state = "cancelled"
              \/ r.state = "running" /\ Recovered(j).state = "queued"
<1>1. "cancelled" \in States /\ "queued" \in States
  BY DEF States, ActiveStates, TerminalStates
<1>2. CASE r.state = "cancel_requested" /\ Lapsed(j)
  <2>1. Recovered(j) = Released(r, "cancelled")
    BY <1>2 DEF Recovered
  <2> QED
    BY <1>1, <1>2, <2>1, ReleasedRow
<1>3. CASE r.state = "running" /\ Lapsed(j)
  <2>1. Recovered(j) = Released(r, "queued")
    BY <1>3 DEF Recovered
  <2> QED
    BY <1>1, <1>3, <2>1, ReleasedRow
<1>4. CASE ~ Lapsed(j) \/ r.state \notin {"cancel_requested", "running"}
  BY <1>4 DEF Recovered
<1> QED
  BY <1>2, <1>3, <1>4

\* The recovery writes many rows at once, all of them out of hand.
LEMMA RecoverExpiredKeeps == ASSUME JobsInv, RecoverExpired PROVE JobsInv'
<1>1. /\ worker.at = "recover"
      /\ UNCHANGED <<issued, client, epoch, installed, cancels, crashes>>
      /\ Goto("list")
  BY DEF RecoverExpired, Goto
<1>2. worker' \in WorkerRecords /\ worker'.at = "list" /\ worker'.job = NoJob
  BY <1>1, WorkerGoes DEF JobsInv, TypeOK, Places, WorkerInv, Idle
<1>3. ASSUME NEW j \in JobIds
      PROVE  row'[j] = IF j \in Stored THEN Recovered(j) ELSE row[j]
  BY DEF RecoverExpired
<1>4. ASSUME NEW j \in JobIds
      PROVE  row'[j] \in Rows \union {NoRow} /\ (row[j] = NoRow => row'[j] = NoRow)
  <2>1. CASE j \in Stored
    BY <1>3, <2>1, RecoveredRow, StoredRow DEF JobsInv
  <2>2. CASE j \notin Stored
    BY <1>3, <2>2, StoredRow DEF JobsInv
  <2> QED
    BY <2>1, <2>2
<1>5. row' \in [JobIds -> Rows \union {NoRow}]
  BY <1>4 DEF RecoverExpired
<1>6. TypeOK'
  BY <1>1, <1>2, <1>5 DEF JobsInv, TypeOK
<1>7. ASSUME NEW j \in JobIds
      PROVE  RowInv(j)'
  <2>1. CASE j \notin Stored
    BY <1>3, <2>1, StoredRow DEF RowInv, JobsInv
  <2>2. CASE j \in Stored
    <3>1. PICK r \in Rows : r = row[j]
      BY <2>2, StoredRow DEF JobsInv
    <3>2. RowSound(j) /\ ~ InHand(j) /\ ~ InHand(j)'
      BY <1>1, <1>2, <2>2 DEF JobsInv, RowInv, Stored, InHand, Hand, AtWork
    <3>3. PICK q \in Rows :
            /\ q = row'[j]
            /\ q.target = r.target
            /\ q.attempts = r.attempts
            /\ \/ q.state = r.state
               \/ r.state = "cancel_requested" /\ q.state = "cancelled"
               \/ r.state = "running" /\ q.state = "queued"
      BY <1>3, <2>2, <3>1, RecoveredRow
    <3> QED
      BY <1>1, <3>1, <3>2, <3>3 DEF RowInv, RowSound, Limit
  <2> QED
    BY <2>1, <2>2
<1>8. \A c \in Clients : ClientInv(c)'
  BY <1>1, <1>4, ClientsKept DEF JobsInv
<1>9. WorkerInv'
  BY <1>2 DEF WorkerInv, Hand, AtWork, Idle
<1> QED
  BY <1>6, <1>7, <1>8, <1>9 DEF JobsInv

\* A pull is marked as succeeded when Ollama holds its model.
LEMMA ResolveKeeps == ASSUME JobsInv, NEW j \in JobIds, Resolve(j) PROVE JobsInv'
<1>1. /\ worker.at = "resolve"
      /\ worker.job = NoJob
      /\ UNCHANGED <<issued, client, epoch, installed, cancels, crashes>>
  BY DEF Resolve, JobsInv, WorkerInv, Idle
<1>2. PICK w \in WorkerRecords : w = worker
  BY DEF JobsInv, TypeOK
<1>3. PICK p \in SUBSET JobIds : p = worker.pending \ {j}
  BY <1>2 DEF WorkerRecords
<1>4. worker' = [w EXCEPT !.pending = p]
  BY <1>2, <1>3 DEF Resolve
<1>5. worker' \in WorkerRecords /\ worker'.at = "resolve" /\ worker'.job = NoJob
  BY <1>1, <1>2, <1>4 DEF WorkerRecords
<1>6. CASE ~ (j \in Stored /\ MarksInstalled(j))
  <2>1. UNCHANGED row
    BY <1>6 DEF Resolve
  <2>2. TypeOK'
    BY <1>1, <1>5, <2>1 DEF JobsInv, TypeOK
  <2> QED
    BY <1>1, <1>5, <2>1, <2>2, WorkerIdles DEF Idle, Hand, AtWork
<1>7. CASE j \in Stored /\ MarksInstalled(j)
  <2>1. PICK r \in Rows : r = row[j]
    BY <1>7, StoredRow DEF JobsInv
  <2>2. PICK q \in Rows : q = Released(r, "succeeded")
    BY ReleasedRow DEF States, TerminalStates
  <2>3. q.state = "succeeded" /\ q.target = r.target /\ q.attempts = r.attempts
    BY <2>2, ReleasedRow DEF States, TerminalStates
  <2>4. row' = [row EXCEPT ![j] = q]
    BY <1>7, <2>1, <2>2 DEF Resolve
  <2>5. /\ row' \in [JobIds -> Rows \union {NoRow}]
        /\ row'[j] = q
        /\ \A k \in JobIds \ {j} : row'[k] = row[k]
    BY <2>4, RowWritten DEF JobsInv
  <2>6. TypeOK'
    BY <1>1, <1>5, <2>5 DEF JobsInv, TypeOK
  <2>7. RowSound(j) /\ row[j] # NoRow /\ r.target \in installed
    BY <1>7, <2>1 DEF JobsInv, RowInv, Stored, MarksInstalled
  <2>8. RowInv(j)'
    BY <1>1, <2>1, <2>3, <2>5, <2>7 DEF RowInv, RowSound, Limit
  <2>9. WorkerInv'
    BY <1>5 DEF WorkerInv, Hand, AtWork, Idle
  <2> QED
    BY <1>1, <1>5, <2>5, <2>6, <2>7, <2>8, <2>9, RowWrites
<1> QED
  BY <1>6, <1>7

----------------------------------------------------------------------------
(* The handlers, time and crashes.                                         *)

\* One client is idle again and the rows it did not write stay.
LEMMA ClientReturns ==
    ASSUME JobsInv, NEW c \in Clients, client' = [client EXCEPT ![c] = IdleClient],
           UNCHANGED issued,
           \A k \in JobIds : row[k] = NoRow /\ row'[k] # NoRow
                               => client[c].at = "insert" /\ client[c].job = k
    PROVE  /\ client' \in [Clients -> ClientRecords]
           /\ \A d \in Clients : ClientInv(d)'
<1>1. /\ client' \in [Clients -> ClientRecords]
      /\ client'[c].at = "idle"
      /\ \A d \in Clients \ {c} : client'[d] = client[d]
  BY IdleRecords DEF JobsInv, TypeOK
<1>2. ASSUME NEW d \in Clients, client'[d].at # "idle"
      PROVE  ClientInv(d)'
  <2>1. d # c /\ client'[d] = client[d]
    BY <1>1, <1>2
  <2>2. ClientInv(d) /\ ClientInv(c)
    BY DEF JobsInv
  <2>3. client[d].job \in JobIds
    BY <1>2, <2>1, <2>2 DEF ClientInv
  <2>4. ASSUME client[d].at = "insert"
        PROVE  row'[client[d].job] = NoRow
    <3>1. row[client[d].job] = NoRow
      BY <2>2, <2>4 DEF ClientInv
    <3>2. client[c].at = "insert" => client[c].job # client[d].job
      BY <2>1, <2>2, <2>4 DEF ClientInv
    <3> QED
      BY <2>3, <3>1, <3>2
  <2>5. ASSUME client[d].at = "insert", NEW e \in Clients \ {d}, client'[e].at = "insert"
        PROVE  client'[e].job # client[d].job
    <3>1. e # c /\ client'[e] = client[e]
      BY <1>1, <2>5
    <3> QED
      BY <2>2, <2>5, <3>1 DEF ClientInv
  <2> QED
    BY <1>2, <2>1, <2>2, <2>3, <2>4, <2>5 DEF ClientInv
<1>3. ASSUME NEW d \in Clients, client'[d].at = "idle"
      PROVE  ClientInv(d)'
  BY <1>3 DEF ClientInv
<1> QED
  BY <1>1, <1>2, <1>3

\* One row is written by a client or by time: its soundness and that of the
\* worker are shown for each.
LEMMA OthersKept ==
    ASSUME JobsInv, TypeOK', NEW j \in JobIds, \A k \in JobIds \ {j} : row'[k] = row[k],
           UNCHANGED <<issued, worker, epoch, installed, crashes>>,
           RowInv(j)', InHand(j) => WorkerInv',
           \A c \in Clients : ClientInv(c)'
    PROVE  JobsInv'
<1>1. ASSUME NEW k \in JobIds, k # j
      PROVE  RowInv(k)'
  <2>1. InHand(k)' <=> InHand(k)
    BY DEF InHand
  <2>2. issued <= issued' /\ crashes <= crashes'
    BY ModelJobsAssumption DEF JobsInv, TypeOK
  <2>3. row'[k] = row[k]
    BY <1>1
  <2> QED
    BY <2>1, <2>2, <2>3, RowKept DEF JobsInv
<1>2. ASSUME ~ InHand(j)
      PROVE  WorkerInv'
  <2>1. worker.at \in Hand => worker.job \in JobIds /\ worker.job # j
    BY <1>2, RowInHand DEF InHand
  <2> QED
    BY <2>1, WorkerKept DEF JobsInv
<1> QED
  BY <1>1, <1>2 DEF JobsInv

\* A new number is beyond every row and every other client's number.
LEMMA CreateCheckKeeps ==
    ASSUME JobsInv, NEW c \in Clients, NEW t \in Targets, CreateCheck(c, t)
    PROVE  JobsInv'
<1>1. /\ client[c].at = "idle"
      /\ issued < MaxJobs
      /\ issued' = issued + 1
      /\ UNCHANGED <<row, worker, epoch, installed, cancels, crashes>>
  BY DEF CreateCheck
<1>2. issued \in Nat /\ MaxJobs \in Nat /\ issued' \in 0..MaxJobs /\ issued' \in JobIds
  BY <1>1, ModelJobsAssumption DEF JobsInv, TypeOK, JobIds
<1>3. PICK n \in JobIds : n = issued + 1
  BY <1>1, <1>2
<1>4. PICK i \in ClientRecords : i = IdleClient
  BY IdleRecords
<1>5. PICK q \in ClientRecords :
        q = [i EXCEPT !.at = "insert", !.job = n, !.target = t]
  BY DEF ClientRecords
<1>6. q.at = "insert" /\ q.job = n
  BY <1>5 DEF ClientRecords
<1>7. client' = [client EXCEPT ![c] = q]
  BY <1>3, <1>4, <1>5 DEF CreateCheck
<1>8. /\ client' \in [Clients -> ClientRecords]
      /\ client'[c] = q
      /\ \A d \in Clients \ {c} : client'[d] = client[d]
  BY <1>7 DEF JobsInv, TypeOK
<1>9. TypeOK'
  BY <1>1, <1>2, <1>8 DEF JobsInv, TypeOK
<1>10. ASSUME NEW j \in JobIds
       PROVE  RowInv(j)'
  <2>1. InHand(j)' <=> InHand(j)
    BY <1>1 DEF InHand
  <2>2. issued <= issued' /\ crashes <= crashes'
    BY <1>1, <1>2 DEF JobsInv, TypeOK
  <2> QED
    BY <1>1, <1>9, <2>1, <2>2, RowKept DEF JobsInv
<1>11. WorkerInv'
  BY <1>1, WorkerKept DEF JobsInv
<1>12. row[n] = NoRow
  BY <1>2, <1>3 DEF JobsInv, RowInv, RowSound
<1>13. \A d \in Clients \ {c} : client[d].at = "insert" => client[d].job \in JobIds /\ client[d].job # n
  BY <1>2, <1>3 DEF JobsInv, ClientInv, JobIds
<1>14. ASSUME NEW d \in Clients
       PROVE  ClientInv(d)'
  <2>1. CASE d = c
    BY <1>1, <1>2, <1>3, <1>6, <1>8, <1>12, <1>13, <2>1 DEF ClientInv
  <2>2. CASE d # c
    <3>1. client'[d] = client[d] /\ ClientInv(d)
      BY <1>8, <2>2 DEF JobsInv
    <3>2. client[d].at = "insert" => client[d].job # q.job
      BY <1>6, <1>13, <2>2
    <3>3. client[d].at = "insert" => client[d].job <= issued'
      BY <1>1, <1>2, <3>1 DEF ClientInv, JobIds
    <3>4. \A e \in Clients \ {d} : client[d].at = "insert" /\ client'[e].at = "insert"
                                     => client'[e].job # client[d].job
      BY <1>8, <3>1, <3>2 DEF ClientInv
    <3> QED
      BY <1>1, <3>1, <3>3, <3>4 DEF ClientInv
  <2> QED
    BY <2>1, <2>2
<1> QED
  BY <1>9, <1>10, <1>11, <1>14 DEF JobsInv

\* A new row is queued, with its attempts before it.
LEMMA CreateInsertKeeps ==
    ASSUME JobsInv, NEW c \in Clients, CreateInsert(c)
    PROVE  JobsInv'
<1>1. /\ client[c].at = "insert"
      /\ client' = [client EXCEPT ![c] = IdleClient]
      /\ UNCHANGED <<issued, worker, epoch, installed, cancels, crashes>>
  BY DEF CreateInsert
<1>2. PICK j \in JobIds : j = client[c].job
  BY <1>1 DEF JobsInv, ClientInv
<1>3. PICK t \in Targets : t = client[c].target
  BY DEF JobsInv, TypeOK, ClientRecords
<1>4. PICK q \in Rows : q = [state |-> "queued", target |-> t, attempts |-> 0, owner |-> 0,
                             expired |-> FALSE]
  BY DEF Rows, ActiveStates
<1>5. q.state = "queued" /\ q.target = t /\ q.attempts = 0
  BY <1>4
<1>6. row' = [row EXCEPT ![j] = q]
  BY <1>2, <1>3, <1>4 DEF CreateInsert
<1>7. /\ row' \in [JobIds -> Rows \union {NoRow}]
      /\ row'[j] = q
      /\ \A k \in JobIds \ {j} : row'[k] = row[k]
  BY <1>6, RowWritten DEF JobsInv
<1>8. \A k \in JobIds : row[k] = NoRow /\ row'[k] # NoRow
                          => client[c].at = "insert" /\ client[c].job = k
  BY <1>1, <1>2, <1>7
<1>9. /\ client' \in [Clients -> ClientRecords]
      /\ \A d \in Clients : ClientInv(d)'
  BY <1>1, <1>8, ClientReturns
<1>10. TypeOK'
  BY <1>1, <1>7, <1>9 DEF JobsInv, TypeOK
<1>11. row[j] = NoRow /\ j <= issued
  BY <1>1, <1>2 DEF JobsInv, ClientInv
<1>12. ~ InHand(j)
  BY <1>11, RowInHand DEF InHand
<1>13. MaxAttempts[t] \in Nat \ {0} /\ crashes \in Nat
  BY ModelJobsAssumption DEF JobsInv, TypeOK
<1>14. q.attempts + 1 <= MaxAttempts[t] + crashes /\ q.attempts <= MaxAttempts[t] + crashes
  BY <1>5, <1>13
<1>15. RowInv(j)'
  BY <1>1, <1>5, <1>7, <1>11, <1>14 DEF RowInv, RowSound, Limit
<1> QED
  BY <1>1, <1>7, <1>9, <1>10, <1>12, <1>15, OthersKept

\* A client that is about to cancel has no part in the table yet.
LEMMA CancelReadKeeps ==
    ASSUME JobsInv, NEW c \in Clients, NEW j \in JobIds, CancelRead(c, j)
    PROVE  JobsInv'
<1>1. /\ client[c].at = "idle"
      /\ row[j].state \in {"queued", "running"}
      /\ cancels' = cancels + 1
      /\ UNCHANGED <<row, issued, worker, epoch, installed, crashes>>
  BY DEF CancelRead
<1>2. PICK i \in ClientRecords : i = IdleClient
  BY IdleRecords
<1>3. PICK s \in {"queued", "running"} : s = row[j].state
  BY <1>1
<1>4. PICK q \in ClientRecords : q = [i EXCEPT !.at = "cancel", !.job = j, !.seen = s]
  BY DEF ClientRecords
<1>5. q.at = "cancel" /\ q.job = j
  BY <1>4 DEF ClientRecords
<1>6. client' = [client EXCEPT ![c] = q]
  BY <1>2, <1>3, <1>4 DEF CancelRead
<1>7. /\ client' \in [Clients -> ClientRecords]
      /\ client'[c] = q
      /\ \A d \in Clients \ {c} : client'[d] = client[d]
  BY <1>6 DEF JobsInv, TypeOK
<1>8. TypeOK'
  BY <1>1, <1>7 DEF JobsInv, TypeOK
<1>9. ASSUME NEW k \in JobIds
      PROVE  RowInv(k)'
  BY <1>1 DEF JobsInv, RowInv, RowSound, InHand, Limit
<1>10. WorkerInv'
  BY <1>1, WorkerKept DEF JobsInv
<1>11. ASSUME NEW d \in Clients
       PROVE  ClientInv(d)'
  <2>1. CASE d = c
    BY <1>5, <1>7, <2>1 DEF ClientInv
  <2>2. CASE d # c
    BY <1>1, <1>5, <1>7, <2>2 DEF ClientInv, JobsInv
  <2> QED
    BY <2>1, <2>2
<1> QED
  BY <1>8, <1>9, <1>10, <1>11 DEF JobsInv

\* A cancel finds the row as it was read, or does nothing: a queued row ends,
\* a running one keeps its worker.
LEMMA CancelWriteKeeps ==
    ASSUME JobsInv, NEW c \in Clients, CancelWrite(c)
    PROVE  JobsInv'
<1>1. /\ client[c].at = "cancel"
      /\ client' = [client EXCEPT ![c] = IdleClient]
      /\ UNCHANGED <<issued, worker, epoch, installed, cancels, crashes>>
  BY DEF CancelWrite
<1>2. PICK j \in JobIds : j = client[c].job
  BY <1>1 DEF JobsInv, ClientInv
<1>3. PICK s \in {"none", "queued", "running"} : s = client[c].seen
  BY DEF JobsInv, TypeOK, ClientRecords
<1>4. CASE row[j].state # s
  <2>1. UNCHANGED row
    BY <1>2, <1>3, <1>4 DEF CancelWrite
  <2>2. /\ client' \in [Clients -> ClientRecords]
        /\ \A d \in Clients : ClientInv(d)'
    BY <1>1, <2>1, ClientReturns
  <2>3. TypeOK'
    BY <1>1, <2>1, <2>2 DEF JobsInv, TypeOK
  <2>4. ASSUME NEW k \in JobIds
        PROVE  RowInv(k)'
    BY <1>1, <2>1 DEF JobsInv, RowInv, RowSound, InHand, Limit
  <2>5. WorkerInv'
    BY <1>1, <2>1, WorkerKept DEF JobsInv
  <2> QED
    BY <2>2, <2>3, <2>4, <2>5 DEF JobsInv
<1>5. CASE row[j].state = s
  <2>1. row[j] \in Rows \union {NoRow}
    BY DEF JobsInv, TypeOK
  <2>2. s # "none"
    <3>1. NoRow.state = "absent"
      BY DEF NoRow
    <3> QED
      BY <1>5, <2>1, <3>1 DEF Rows, ActiveStates, TerminalStates
  <2>3. row[j] \in Rows /\ row[j] # NoRow
    BY <1>5, <2>2, StateStored, StoredRow DEF JobsInv, States, ActiveStates
  <2>4. PICK r \in Rows : r = row[j]
    BY <2>3
  <2>5. RowSound(j)
    BY <2>3 DEF JobsInv, RowInv
  <2>6. PICK q \in Rows :
          /\ row' = [row EXCEPT ![j] = q]
          /\ q.target = r.target
          /\ q.attempts = r.attempts
          /\ \/ r.state = "queued" /\ q.state = "cancelled"
             \/ r.state = "running" /\ q.state = "cancel_requested"
    <3>1. CASE s = "queued"
      <4>1. PICK q \in Rows : q = Ended(r, "cancelled")
        BY EndedRow DEF States, TerminalStates
      <4>2. q.state = "cancelled" /\ q.target = r.target /\ q.attempts = r.attempts
        BY <4>1, EndedRow DEF States, TerminalStates
      <4>3. row' = [row EXCEPT ![j] = q]
        BY <1>2, <1>3, <1>5, <2>4, <3>1, <4>1 DEF CancelWrite
      <4> QED
        BY <1>5, <2>4, <3>1, <4>2, <4>3
    <3>2. CASE s = "running"
      <4>1. PICK q \in Rows : q = [r EXCEPT !.state = "cancel_requested"]
        BY DEF Rows, ActiveStates
      <4>2. q.state = "cancel_requested" /\ q.target = r.target /\ q.attempts = r.attempts
        BY <4>1 DEF Rows
      <4>3. row' = [row EXCEPT ![j] = q]
        BY <1>2, <1>3, <1>5, <2>4, <3>2, <4>1 DEF CancelWrite
      <4> QED
        BY <1>5, <2>4, <3>2, <4>2, <4>3
    <3> QED
      BY <2>2, <3>1, <3>2
  <2>7. /\ row' \in [JobIds -> Rows \union {NoRow}]
        /\ row'[j] = q
        /\ \A k \in JobIds \ {j} : row'[k] = row[k]
    BY <2>6, RowWritten DEF JobsInv
  <2>8. \A k \in JobIds : row[k] = NoRow => row'[k] = NoRow
    BY <2>3, <2>7
  <2>9. /\ client' \in [Clients -> ClientRecords]
        /\ \A d \in Clients : ClientInv(d)'
    BY <1>1, <2>8, ClientReturns
  <2>10. TypeOK'
    BY <1>1, <2>7, <2>9 DEF JobsInv, TypeOK
  <2>11. RowInv(j)'
    BY <1>1, <2>4, <2>5, <2>6, <2>7 DEF RowInv, RowSound, Limit
  <2>12. ASSUME InHand(j)
         PROVE  WorkerInv'
    <3>1. r.state = "running" /\ q.state = "cancel_requested"
      BY <2>4, <2>6, <2>12 DEF JobsInv, WorkerInv, InHand, Hand, AtWork
    <3>2. worker' = worker /\ worker.job = j /\ row'[worker'.job] = q
      BY <1>1, <2>7, <2>12 DEF InHand
    <3> QED
      BY <1>1, <2>4, <2>6, <2>12, <3>1, <3>2, NoRowIsNone
         DEF JobsInv, WorkerInv, InHand, Hand, AtWork, Idle
  <2> QED
    BY <1>1, <2>7, <2>9, <2>10, <2>11, <2>12, OthersKept
<1> QED
  BY <1>4, <1>5

\* A lease that runs out changes nothing else.
LEMMA LeaseExpiresKeeps ==
    ASSUME JobsInv, NEW j \in JobIds, LeaseExpires(j)
    PROVE  JobsInv'
<1>1. UNCHANGED <<issued, client, worker, epoch, installed, cancels, crashes>>
  BY DEF LeaseExpires
<1>2. PICK r \in Rows : r = row[j]
  BY StoredRow DEF LeaseExpires, JobsInv
<1>3. PICK q \in Rows : q = [r EXCEPT !.expired = TRUE]
  BY DEF Rows
<1>4. q.state = r.state /\ q.target = r.target /\ q.attempts = r.attempts /\ q.owner = r.owner
  BY <1>3 DEF Rows
<1>5. row' = [row EXCEPT ![j] = q]
  BY <1>2, <1>3 DEF LeaseExpires
<1>6. /\ row' \in [JobIds -> Rows \union {NoRow}]
      /\ row'[j] = q
      /\ \A k \in JobIds \ {j} : row'[k] = row[k]
  BY <1>5, RowWritten DEF JobsInv
<1>7. TypeOK'
  BY <1>1, <1>6 DEF JobsInv, TypeOK
<1>8. row[j] # NoRow /\ RowSound(j)
  BY <1>2, NoRowIsNone DEF JobsInv, RowInv
<1>9. RowInv(j)'
  BY <1>1, <1>2, <1>4, <1>6, <1>8 DEF RowInv, RowSound, Limit, InHand
<1>10. ASSUME InHand(j)
       PROVE  WorkerInv'
  <2>1. worker' = worker /\ worker.job = j /\ row'[worker'.job] = q
    BY <1>1, <1>6, <1>10 DEF InHand
  <2> QED
    BY <1>1, <1>2, <1>4, <2>1, NoRowIsNone DEF JobsInv, WorkerInv
<1>11. \A c \in Clients : ClientInv(c)'
  BY <1>1, <1>6, <1>8, ClientsKept DEF JobsInv
<1> QED
  BY <1>1, <1>6, <1>7, <1>9, <1>10, <1>11, OthersKept

\* A row that is deleted is in nobody's hand.
LEMMA PurgeKeeps ==
    ASSUME JobsInv, NEW j \in JobIds, Purge(j)
    PROVE  JobsInv'
<1>1. UNCHANGED <<issued, client, worker, epoch, installed, cancels, crashes>>
  BY DEF Purge
<1>2. /\ row' \in [JobIds -> Rows \union {NoRow}]
      /\ row'[j] = NoRow
      /\ \A k \in JobIds \ {j} : row'[k] = row[k]
  BY RowWritten DEF JobsInv, Purge
<1>3. TypeOK'
  BY <1>1, <1>2 DEF JobsInv, TypeOK
<1>4. RowInv(j)'
  BY <1>2 DEF RowInv
<1>5. ~ InHand(j)
  BY DEF Purge, Executing, InHand, Hand, AtWork
<1>6. \A c \in Clients : ClientInv(c)'
  BY <1>1, <1>2, ClientsKept DEF JobsInv
<1> QED
  BY <1>1, <1>2, <1>3, <1>4, <1>5, <1>6, OthersKept

\* A crash that takes a job out of the worker's hand allows every job one
\* attempt more.
LEMMA CrashKeeps == ASSUME JobsInv, Crash PROVE JobsInv'
<1>1. /\ crashes' = crashes + 1
      /\ worker' = IdleWorker
      /\ client' = [c \in Clients |-> IdleClient]
      /\ UNCHANGED <<row, issued, epoch, installed, cancels>>
  BY DEF Crash
<1>2. TypeOK'
  BY <1>1, IdleRecords DEF JobsInv, TypeOK
<1>3. ASSUME NEW j \in JobIds, row[j] # NoRow
      PROVE  RowSound(j)'
  <2>1. PICK r \in Rows : r = row[j]
    BY <1>3 DEF JobsInv, TypeOK
  <2>2. r.attempts \in Nat /\ MaxAttempts[r.target] \in Nat /\ crashes \in Nat
    BY ModelJobsAssumption DEF Rows, JobsInv, TypeOK
  <2>3. /\ j <= issued
        /\ r.attempts <= MaxAttempts[r.target] + crashes
        /\ r.state = "succeeded" /\ r.target \in Pulls => r.target \in installed
    BY <1>3, <2>1 DEF JobsInv, RowInv, RowSound, Limit
  <2>4. r.attempts + 1 <= MaxAttempts[r.target] + crashes' /\ crashes' # 0
    BY <1>1, <2>2, <2>3
  <2>5. r.attempts <= MaxAttempts[r.target] + crashes'
    BY <1>1, <2>2, <2>3
  <2>6. ~ InHand(j)'
    BY <1>1, IdleRecords DEF InHand, Hand, AtWork
  <2> QED
    BY <1>1, <2>1, <2>3, <2>4, <2>5, <2>6 DEF RowSound, Limit
<1>4. \A j \in JobIds : RowInv(j)'
  BY <1>1, <1>3 DEF RowInv
<1>5. WorkerInv'
  BY <1>1, IdleRecords DEF WorkerInv, Hand, AtWork, Idle
<1>6. \A c \in Clients : ClientInv(c)'
  BY <1>1, IdleRecords DEF ClientInv
<1> QED
  BY <1>2, <1>4, <1>5, <1>6 DEF JobsInv

----------------------------------------------------------------------------
(* The invariant of every run.                                             *)

\* A step that changes nothing, such as an idle poll.
LEMMA UnchangedKeeps == ASSUME JobsInv, UNCHANGED vars PROVE JobsInv'
<1>1. UNCHANGED <<row, issued, client, worker, epoch, installed, cancels, crashes>>
  BY DEF vars
<1>2. TypeOK'
  BY <1>1 DEF JobsInv, TypeOK
<1>3. \A j \in JobIds : RowInv(j)'
  BY <1>1 DEF JobsInv, RowInv, RowSound, InHand, Limit
<1>4. WorkerInv'
  BY <1>1, WorkerKept DEF JobsInv
<1>5. \A c \in Clients : ClientInv(c)'
  BY <1>1, ClientsKept DEF JobsInv
<1> QED
  BY <1>2, <1>3, <1>4, <1>5 DEF JobsInv

\* An empty table, an idle process.
LEMMA JobsInit == Init => JobsInv
<1> SUFFICES ASSUME Init
             PROVE  JobsInv
  OBVIOUS
<1>1. TypeOK
  BY IdleRecords, ModelJobsAssumption DEF Init, TypeOK
<1>2. \A j \in JobIds : RowInv(j)
  BY DEF Init, RowInv
<1>3. WorkerInv
  BY IdleRecords DEF Init, WorkerInv, Idle, Hand, AtWork
<1>4. \A c \in Clients : ClientInv(c)
  BY IdleRecords DEF Init, ClientInv
<1> QED
  BY <1>1, <1>2, <1>3, <1>4 DEF JobsInv

\* Every step keeps the invariant.
LEMMA JobsNext == JobsInv /\ [Next]_vars => JobsInv'
<1> SUFFICES ASSUME JobsInv, [Next]_vars
             PROVE  JobsInv'
  OBVIOUS
<1>1. CASE WorkerStep
  BY <1>1, BootKeeps, RecoverExpiredKeeps, ListRecoveredKeeps, ResolveKeeps, ClaimReadKeeps,
     ResolvedKeeps, ClaimWriteKeeps, StartKeeps, PullAbortsKeeps, PullReturnsKeeps,
     LoadReturnsKeeps, RaisesKeeps, CheckKeeps, SucceedKeeps, MarkCancelledKeeps, FailKeeps,
     RetryKeeps, UnchangedKeeps DEF WorkerStep, PollIdle
<1>2. ASSUME NEW c \in Clients, ClientStep(c)
      PROVE  JobsInv'
  BY <1>2, CreateInsertKeeps, CancelWriteKeeps DEF ClientStep
<1>3. CASE UNCHANGED vars
  BY <1>3, UnchangedKeeps
<1> QED
  BY <1>1, <1>2, <1>3, CreateCheckKeeps, CancelReadKeeps, LeaseExpiresKeeps, PurgeKeeps,
     CrashKeeps DEF Next

\* Rows, worker and clients fit together in every reachable state.
THEOREM JobsSafe == Spec => []JobsInv
BY JobsInit, JobsNext, PTL DEF Spec

\* Every variable has its type in every reachable state.
THEOREM JobsTyped == Spec => []TypeOK
<1>1. JobsInv => TypeOK
  BY DEF JobsInv
<1> QED
  BY <1>1, JobsSafe, PTL

\* A pull that the table records as succeeded is of a model that Ollama
\* holds, whoever recorded it: the run that pulled it, or a recovery.
THEOREM SuccessMeansInstalled == Spec => []SucceededPullInstalled
<1>1. JobsInv => SucceededPullInstalled
  BY DEF JobsInv, RowInv, RowSound, SucceededPullInstalled, Stored
<1> QED
  BY <1>1, JobsSafe, PTL

\* No job is started more often than its type allows, crashes apart.
THEOREM AttemptBudget == Spec => []AttemptsBounded
<1>1. JobsInv => AttemptsBounded
  BY DEF JobsInv, RowInv, RowSound, Limit, AttemptsBounded, Stored
<1> QED
  BY <1>1, JobsSafe, PTL

\* A job fails for good only when no attempt is left.
THEOREM FailuresSpent == Spec => []FailsWhenSpent
<1>1. ASSUME NEW j \in JobIds, ~ Executing(j)
      PROVE  ~ InHand(j)
  BY <1>1 DEF Executing, InHand, Hand, AtWork
<1>2. JobsInv => FailsWhenSpent
  BY <1>1 DEF JobsInv, RowInv, RowSound, FailsWhenSpent, Stored
<1> QED
  BY <1>2, JobsSafe, PTL

----------------------------------------------------------------------------
(* Final states.                                                           *)

\* The row of a job keeps a final state, or is deleted.
Final(j) ==
    /\ row[j].state = "succeeded" => row'[j].state \in {"succeeded", "absent"}
    /\ row[j].state = "cancelled" => row'[j].state \in {"cancelled", "absent"}
    /\ row[j].state = "cancel_requested" => row'[j].state \in {"cancel_requested", "cancelled"}

\* Only a row that is queued, running or failed is written, except by a
\* completed cancellation and by the retention of ended rows.
LEMMA FinalOneRow ==
    ASSUME JobsInv, NEW i \in JobIds, NEW r \in Rows, row' = [row EXCEPT ![i] = r],
           \/ row[i].state \in {"queued", "running", "failed", "absent"}
           \/ row[i].state = "cancel_requested" /\ r.state \in {"cancel_requested", "cancelled"}
    PROVE  \A j \in JobIds : Final(j)
<1>1. row'[i] = r /\ \A k \in JobIds \ {i} : row'[k] = row[k]
  BY RowWritten DEF JobsInv
<1> QED
  BY <1>1 DEF Final

\* The worker's writes.
LEMMA FinalWorker == ASSUME JobsInv, WorkerStep, NEW j \in JobIds PROVE Final(j)
<1>1. CASE row' = row
  BY <1>1 DEF Final
<1>2. CASE RecoverExpired
  <2>1. row'[j] = IF j \in Stored THEN Recovered(j) ELSE row[j]
    BY <1>2 DEF RecoverExpired
  <2>2. CASE j \notin Stored
    BY <2>1, <2>2 DEF Final
  <2>3. CASE j \in Stored
    <3>1. PICK r \in Rows : r = row[j]
      BY <2>3, StoredRow DEF JobsInv
    <3> QED
      BY <2>1, <2>3, <3>1, RecoveredRow DEF Final
  <2> QED
    BY <2>2, <2>3
<1>3. ASSUME NEW i \in JobIds, Resolve(i), row' # row
      PROVE  Final(j)
  <2>1. PICK r \in Rows : r = row[i]
    BY <1>3, StoredRow DEF Resolve, JobsInv
  <2>2. PICK q \in Rows : q = Released(r, "succeeded")
    BY ReleasedRow DEF States, TerminalStates
  <2>3. row' = [row EXCEPT ![i] = q] /\ row[i].state = "queued"
    BY <1>3, <2>1, <2>2 DEF Resolve, MarksInstalled
  <2> QED
    BY <2>3, FinalOneRow
<1>4. ASSUME ClaimWrite, row' # row
      PROVE  Final(j)
  <2>1. PICK i \in JobIds : i = worker.job
    BY <1>4 DEF JobsInv, WorkerInv, ClaimWrite, Idle
  <2>2. Claimable(i)
    BY <1>4, <2>1 DEF ClaimWrite
  <2>3. PICK r \in Rows : r = row[i]
    BY <2>2, StateStored DEF Claimable, States, ActiveStates, JobsInv
  <2>4. PICK e \in Nat : e = epoch
    BY DEF JobsInv, TypeOK
  <2>5. PICK q \in Rows : q = Claimed(r, e)
    BY ClaimedRow
  <2>6. row' = [row EXCEPT ![i] = q]
    BY <1>4, <2>1, <2>2, <2>3, <2>4, <2>5 DEF ClaimWrite, Claimed
  <2> QED
    BY <2>2, <2>6, FinalOneRow DEF Claimable
<1>5. ASSUME NEW from \in {"running", "cancel_requested"},
             NEW to \in {"succeeded", "cancelled", "failed"}, from = "running" \/ to = "cancelled",
             worker.at \in Hand, Holds(from),
             row' = [row EXCEPT ![worker.job] = Ended(row[worker.job], to)]
      PROVE  Final(j)
  <2>1. PICK i \in JobIds : i = worker.job
    BY <1>5, RowInHand
  <2>2. PICK r \in Rows : r = row[i]
    BY <1>5, <2>1, RowInHand
  <2>3. PICK q \in Rows : q = Ended(r, to)
    BY EndedRow DEF States, TerminalStates
  <2>4. q.state = to
    BY <2>3, EndedRow DEF States, TerminalStates
  <2>5. row' = [row EXCEPT ![i] = q]
    BY <1>5, <2>1, <2>2, <2>3
  <2>6. row[i].state = from
    BY <1>5, <2>1 DEF Holds
  <2> QED
    BY <1>5, <2>4, <2>5, <2>6, FinalOneRow
<1>6. ASSUME Succeed, row' # row
      PROVE  Final(j)
  BY <1>5, <1>6 DEF Succeed, End, Hand, AtWork
<1>7. ASSUME MarkCancelled, row' # row
      PROVE  Final(j)
  BY <1>5, <1>7 DEF MarkCancelled, End, Hand
<1>8. ASSUME Fail, row' # row
      PROVE  Final(j)
  BY <1>5, <1>8 DEF Fail, Hand, AtWork
<1>9. ASSUME Retry, row' # row
      PROVE  Final(j)
  <2>1. PICK i \in JobIds : i = worker.job
    BY <1>9, RowInHand DEF Retry, Hand
  <2>2. PICK r \in Rows : r = row[i]
    BY <1>9, <2>1, RowInHand DEF Retry, Hand
  <2>3. PICK q \in Rows : q = Released(r, "queued")
    BY ReleasedRow DEF States, ActiveStates
  <2>4. row' = [row EXCEPT ![i] = q] /\ row[i].state = "failed"
    BY <1>9, <2>1, <2>2, <2>3 DEF Retry, Requeues
  <2> QED
    BY <2>4, FinalOneRow
<1>10. CASE Boot \/ ListRecovered \/ Resolved \/ (\E i \in JobIds : ClaimRead(i)) \/ Start
            \/ PollIdle
  BY <1>1, <1>10 DEF Boot, ListRecovered, Resolved, ClaimRead, Start, PollIdle, vars
<1>11. CASE \/ PullAborts \/ LoadReturns \/ Raises \/ Check
            \/ \E status \in {"success", "error", "unknown"} : PullReturns(status)
  BY <1>1, <1>11 DEF PullAborts, LoadReturns, Raises, Check, PullReturns
<1> QED
  BY <1>1, <1>2, <1>3, <1>4, <1>6, <1>7, <1>8, <1>9, <1>10, <1>11 DEF WorkerStep

\* The writes of the handlers, of time and of the retention.
LEMMA FinalOthers ==
    ASSUME JobsInv, NEW j \in JobIds, j \in Stored,
           \/ \E c \in Clients : ClientStep(c)
           \/ \E i \in JobIds : LeaseExpires(i) \/ Purge(i)
    PROVE  Final(j)
<1>1. CASE row' = row
  BY <1>1 DEF Final
<1>2. ASSUME NEW c \in Clients, CreateInsert(c)
      PROVE  Final(j)
  <2>1. client[c].job \in JobIds /\ client[c].job # j
    BY <1>2 DEF JobsInv, ClientInv, CreateInsert, Stored
  <2>2. row'[j] = row[j]
    BY <1>2, <2>1 DEF CreateInsert, JobsInv, TypeOK
  <2> QED
    BY <2>2 DEF Final
<1>3. ASSUME NEW c \in Clients, CancelWrite(c), row' # row
      PROVE  Final(j)
  <2>1. PICK i \in JobIds : i = client[c].job
    BY <1>3 DEF JobsInv, ClientInv, CancelWrite
  <2>2. PICK s \in {"none", "queued", "running"} : s = client[c].seen
    BY DEF JobsInv, TypeOK, ClientRecords
  <2>3. row[i].state = s
    BY <1>3, <2>1, <2>2 DEF CancelWrite
  <2>4. i # j => row'[j] = row[j]
    BY <1>3, <2>1 DEF CancelWrite, JobsInv, TypeOK
  <2> QED
    BY <2>2, <2>3, <2>4 DEF Final
<1>4. ASSUME NEW i \in JobIds, LeaseExpires(i)
      PROVE  Final(j)
  <2>1. PICK r \in Rows : r = row[i]
    BY <1>4, StoredRow DEF LeaseExpires, JobsInv
  <2>2. PICK q \in Rows : q = [r EXCEPT !.expired = TRUE]
    BY DEF Rows
  <2>3. q.state = r.state
    BY <2>2 DEF Rows
  <2>4. row' = [row EXCEPT ![i] = q]
    BY <1>4, <2>1, <2>2 DEF LeaseExpires
  <2> QED
    BY <1>4, <2>1, <2>3, <2>4, FinalOneRow DEF LeaseExpires
<1>5. ASSUME NEW i \in JobIds, Purge(i)
      PROVE  Final(j)
  <2>1. row'[i] = NoRow /\ \A k \in JobIds \ {i} : row'[k] = row[k]
    BY <1>5, RowWritten DEF Purge, JobsInv
  <2>2. NoRow.state = "absent"
    BY DEF NoRow
  <2> QED
    BY <1>5, <2>1, <2>2 DEF Final, Purge, TerminalStates
<1> QED
  BY <1>1, <1>2, <1>3, <1>4, <1>5 DEF ClientStep

\* What has succeeded or was cancelled stays so, and an accepted cancel
\* request is never undone: not by a retry, a late claim or a recovery.
THEOREM FinalStates == Spec => EndsForGood
<1>1. ASSUME JobsInv, [Next]_vars, NEW j \in JobIds, j \in Stored
      PROVE  Final(j)
  <2>1. CASE row' = row
    BY <2>1 DEF Final
  <2>2. CASE Crash \/ \E c \in Clients : \/ \E t \in Targets : CreateCheck(c, t)
                                         \/ \E i \in JobIds : CancelRead(c, i)
    BY <2>1, <2>2 DEF Crash, CreateCheck, CancelRead
  <2>3. CASE UNCHANGED vars
    BY <2>1, <2>3 DEF vars
  <2>4. CASE WorkerStep
    BY <1>1, <2>4, FinalWorker
  <2>5. CASE \/ \E c \in Clients : ClientStep(c)
             \/ \E i \in JobIds : LeaseExpires(i) \/ Purge(i)
    BY <1>1, <2>5, FinalOthers
  <2> QED
    BY <1>1, <2>2, <2>3, <2>4, <2>5 DEF Next
<1>2. JobsInv /\ [Next]_vars
        => [\A j \in Stored :
              /\ row[j].state = "succeeded" => row'[j].state \in {"succeeded", "absent"}
              /\ row[j].state = "cancelled" => row'[j].state \in {"cancelled", "absent"}
              /\ row[j].state = "cancel_requested"
                   => row'[j].state \in {"cancel_requested", "cancelled"}]_vars
  BY <1>1 DEF Final, Stored
<1> QED
  BY <1>2, JobsSafe, PTL DEF Spec, EndsForGood
=============================================================================
