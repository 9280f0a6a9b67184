--------------------------- MODULE OntologyJobs ---------------------------
(***************************************************************************)
(* The durable queue of background organisation jobs ("ontology jobs") of  *)
(* one workspace, the request threads that enqueue and resume jobs, the    *)
(* single worker thread that processes them, and the registration that     *)
(* lets a job use the workspace's capabilities.                            *)
(*                                                                         *)
(*   backend/mindos/stores/ontology_store.py   the table and its calls     *)
(*   backend/mindos/stores/routing_store.py    resuming paused/failed jobs *)
(*   backend/mindos/zhijun/jobs.py             OntologyWorker              *)
(*   backend/zhijun_worker/background.py       register/activated/finish   *)
(*   backend/zhijun_worker/app.py              one worker per workspace    *)
(*                                                                         *)
(* Each SQLite transaction and each remote call is one step; the worker    *)
(* and the request threads interleave between them, and a crash of the     *)
(* process may fall between any two.  Wall-clock time is the action        *)
(* LeaseExpires: no product code renews a lease, so a claimed row's lease  *)
(* runs out on its own.  SQLite errors other than the unique index are not *)
(* modelled.  All owners belong to one conversation and one task, the      *)
(* scope of a resume call.                                                 *)
(*                                                                         *)
(* A definition marked "Variation" is a plausible defect of the definition *)
(* that follows it, kept to show which property notices it; no action      *)
(* uses it.                                                                *)
(***************************************************************************)
EXTENDS Integers, FiniteSets

CONSTANTS
    Owners,       \* (kind, owner_id) pairs, at most one active job each
    Priority,     \* the priority an owner's kind is enqueued with
    ResumePrio,   \* the priority a resumed job is raised to
    Clients,      \* request threads of the worker process
    MaxAttempts,  \* fail_job's max_attempts
    MaxJobs,      \* bound: job ids handed out
    MaxResumes,   \* bound: resume calls
    MaxCrashes    \* bound: crashes of the process

ASSUME OntologyJobsAssumption ==
    /\ Owners # {}
    /\ Priority \in [Owners -> Int]
    /\ ResumePrio \in Int
    /\ MaxAttempts \in Nat \ {0}
    /\ MaxJobs \in Nat
    /\ MaxResumes \in Nat
    /\ MaxCrashes \in Nat

JobIds == 1..MaxJobs
NoJob  == 0
NoRow  == [state |-> "absent"]

VARIABLES
    row,       \* ontology_jobs: a record per job id, NoRow before its INSERT
    inserted,  \* rows inserted so far; the next row's created_at
    issued,    \* job ids handed out so far
    origin,    \* workspace_background_origins: ids with a stored origin
    client,    \* where each request thread is
    worker,    \* where the worker thread is
    epoch,     \* the lease_owner name of the current worker thread
    resumes,   \* resume calls so far
    crashes    \* crashes so far

vars == <<row, inserted, issued, origin, client, worker, epoch,
          resumes, crashes>>

----------------------------------------------------------------------------
(* Rows.                                                                   *)

Rows == [state: {"queued", "running", "done", "failed"}, owner: Owners,
         prio: Int, born: Nat, attempts: Nat,
         lease: Nat, expired: BOOLEAN, paused: BOOLEAN]

\* Every state change of a row also sets or clears its lease.
Move(r, s, l)   == [r EXCEPT !.state = s, !.lease = l, !.expired = FALSE]
Claimed(r, l)   == [Move(r, "running", l) EXCEPT !.attempts = r.attempts + 1]

\* Variation: a paused run would be stored in a state the table does not have.
StoredAsPaused(r, p) == Move(r, IF p THEN "paused" ELSE "done", 0)

Finished(r, p)  == [Move(r, "done", 0) EXCEPT !.paused = p]
Resumed(r)      == [Move(r, "queued", 0) EXCEPT !.attempts = 0,
                      !.prio = IF r.prio > ResumePrio THEN r.prio ELSE ResumePrio]

Stored == {j \in JobIds : row[j] # NoRow}

Active(o) == \E j \in Stored : /\ row[j].owner = o
                               /\ row[j].state \in {"queued", "running"}

\* The newest attempt of its owner: attempt_rank = 1.
Latest(j) == \A k \in Stored : row[k].owner = row[j].owner => row[k].born <= row[j].born

\* Variation: resume would also take jobs that finished their work.
SettledJob(j) == row[j].state \in {"failed", "done"}

recoverable_job(j) == \/ row[j].state = "failed"
                      \/ row[j].state = "done" /\ row[j].paused

\* Variation: a claim would pass over rows whose retry budget is used up.
ClaimableInBudget(j) == row[j].state = "queued" /\ row[j].attempts < MaxAttempts

Claimable(j) == row[j].state = "queued"

\* ORDER BY priority DESC, created_at LIMIT 1 over the queued rows.
NextQueued(j) ==
    /\ j \in Stored
    /\ Claimable(j)
    /\ \A k \in Stored : Claimable(k) =>
          \/ row[k].prio < row[j].prio
          \/ row[k].prio = row[j].prio /\ row[j].born <= row[k].born

----------------------------------------------------------------------------
(* Threads.                                                                *)

IdleClient == [at |-> "idle", owner |-> CHOOSE o \in Owners : TRUE,
               job |-> NoJob, ok |-> TRUE, target |-> NoJob, cand |-> {}]

Idle(c) == client' = [client EXCEPT ![c] = IdleClient]

IdleWorker == [at |-> "down", job |-> NoJob, outcome |-> "none"]

Up == worker.at # "down"

Init ==
    /\ row = [j \in JobIds |-> NoRow]
    /\ inserted = 0
    /\ issued = 0
    /\ origin = {}
    /\ client = [c \in Clients |-> IdleClient]
    /\ worker = IdleWorker
    /\ epoch = 0
    /\ resumes = 0
    /\ crashes = 0

----------------------------------------------------------------------------
(* OntologyStore.enqueue_job, one thread.                                  *)

\* The unlocked check for an active row of the same owner; a duplicate
\* returns None here and changes nothing.
EnqueueCheck(c, o) ==
    /\ Up
    /\ client[c].at = "idle"
    /\ issued < MaxJobs
    /\ ~ Active(o)
    /\ issued' = issued + 1
    /\ client' = [client EXCEPT ![c] = [IdleClient EXCEPT
                    !.at = "register", !.owner = o, !.job = issued + 1]]
    /\ UNCHANGED <<row, inserted, origin, worker, epoch, resumes, crashes>>

\* register.  The gateway accepts the id and the origin row is stored; or
\* the call raises and the job will be stored as failed.
EnqueueRegister(c) ==
    /\ client[c].at = "register"
    /\ \/ /\ origin' = origin \union {client[c].job}
          /\ client' = [client EXCEPT ![c] = [client[c] EXCEPT !.at = "insert"]]
       \/ /\ client' = [client EXCEPT ![c] = [client[c] EXCEPT !.at = "insert", !.ok = FALSE]]
          /\ UNCHANGED origin
    /\ UNCHANGED <<row, inserted, issued, worker, epoch, resumes, crashes>>

\* Variation: the table without its partial unique index.
NoIndex(c) == FALSE

\* ux_ontology_jobs_active: no second active row of an owner.
IndexRefuses(c) == client[c].ok /\ Active(client[c].owner)

\* Variation: a job whose registration raised is queued all the same.
AlwaysQueued(c) == "queued"

InsertedState(c) == IF client[c].ok THEN "queued" ELSE "failed"

\* The INSERT: 'queued', or 'failed' when registration raised.  An
\* IntegrityError makes the call return None and leaves the registration.
EnqueueInsert(c) ==
    LET j == client[c].job IN
    /\ client[c].at = "insert"
    /\ Idle(c)
    /\ IF IndexRefuses(c)
       THEN UNCHANGED <<row, inserted>>
       ELSE /\ inserted' = inserted + 1
            /\ row' = [row EXCEPT ![j] =
                 [state |-> InsertedState(c),
                  owner |-> client[c].owner, prio |-> Priority[client[c].owner],
                  born |-> inserted + 1, attempts |-> 0, lease |-> 0,
                  expired |-> FALSE, paused |-> FALSE]]
    /\ UNCHANGED <<issued, origin, worker, epoch, resumes, crashes>>

----------------------------------------------------------------------------
(* RoutingStore.resume_jobs, one thread.                                   *)

\* The current generation a resume call addresses: all owners, or one job.
InScope(j, target) == Latest(j) /\ (target = NoJob \/ j = target)

\* The first read, outside any transaction: which jobs to register again.
ResumeScan(c, target) ==
    /\ Up
    /\ client[c].at = "idle"
    /\ resumes < MaxResumes
    /\ IF target = NoJob THEN Stored # {} ELSE target \in Stored /\ Latest(target)
    /\ resumes' = resumes + 1
    /\ client' = [client EXCEPT ![c] = [IdleClient EXCEPT
          !.at = "resume", !.target = target,
          !.cand = {j \in Stored : InScope(j, target) /\ recoverable_job(j)}]]
    /\ UNCHANGED <<row, inserted, issued, origin, worker, epoch, crashes>>

\* The candidates are registered one by one, oldest first; a call that
\* raises ends the resume.
ResumeRegister(c, j) ==
    /\ client[c].at = "resume"
    /\ j \in client[c].cand
    /\ \A k \in client[c].cand : row[j].born <= row[k].born
    /\ \/ /\ origin' = origin \union {j}
          /\ client' = [client EXCEPT ![c] = [client[c] EXCEPT !.cand = @ \ {j}]]
       \/ Idle(c) /\ UNCHANGED origin
    /\ UNCHANGED <<row, inserted, issued, worker, epoch, resumes, crashes>>

\* What the transaction requeues: it reads the current generation again.
Requeued(c) == {j \in Stored : /\ InScope(j, client[c].target)
                               /\ recoverable_job(j)
                               /\ ~ Active(row[j].owner)}

ResumeRequeue(c) ==
    LET js == Requeued(c) IN
    /\ client[c].at = "resume"
    /\ client[c].cand = {}
    /\ row' = [j \in JobIds |->
          IF j \in js THEN Resumed(row[j]) ELSE row[j]]
    /\ Idle(c)
    /\ UNCHANGED <<inserted, issued, origin, worker, epoch, resumes, crashes>>

----------------------------------------------------------------------------
(* OntologyWorker._run and .process, the one worker thread.                *)

Boot ==
    /\ worker.at = "down"
    /\ worker' = [IdleWorker EXCEPT !.at = "recover"]
    /\ epoch' = epoch + 1
    /\ UNCHANGED <<row, inserted, issued, origin, client, resumes, crashes>>

\* Variation: the reclaim forgets the rows whose lease ran out.
UnleasedOnly(j) == row[j].state = "running" /\ row[j].lease = 0

\* Only a lease that has run out is reclaimed.
Reclaimable(j) == row[j].state = "running" /\ (row[j].lease = 0 \/ row[j].expired)

RecoverExpired ==
    /\ worker.at = "recover"
    /\ row' = [j \in JobIds |->
          IF j \in Stored /\ Reclaimable(j)
          THEN Move(row[j], "queued", 0)
          ELSE row[j]]
    /\ worker' = [worker EXCEPT !.at = "poll"]
    /\ UNCHANGED <<inserted, issued, origin, client, epoch, resumes, crashes>>

ClaimNext(j) ==
    /\ worker.at = "poll"
    /\ NextQueued(j)
    /\ row' = [row EXCEPT ![j] = Claimed(row[j], epoch)]
    /\ worker' = [at |-> "activate", job |-> j, outcome |-> "none"]
    /\ UNCHANGED <<inserted, issued, origin, client, epoch, resumes, crashes>>

\* Nothing is queued: the thread waits and polls again.
PollIdle ==
    /\ worker.at = "poll"
    /\ \A j \in Stored : ~ Claimable(j)
    /\ UNCHANGED vars

\* Variation: the origin row is not looked up.
OriginAssumed(j) == TRUE

OriginFound(j) == j \in origin

\* activated: without a stored origin the job fails without running.
Activate ==
    /\ worker.at = "activate"
    /\ worker' = IF OriginFound(worker.job)
                 THEN [worker EXCEPT !.at = "run"]
                 ELSE [worker EXCEPT !.at = "fail", !.outcome = "fatal"]
    /\ UNCHANGED <<row, inserted, issued, origin, client, epoch, resumes, crashes>>

\* The WHERE clause of finish_job and fail_job.
Held(j) == row[j].state = "running" /\ row[j].lease = epoch

\* run_job returned (paused or not) and finish_job stores the result.
RunDone(paused) ==
    LET j == worker.job IN
    /\ worker.at = "run"
    /\ row' = IF Held(j)
              THEN [row EXCEPT ![j] = Finished(row[j], paused)]
              ELSE row
    /\ worker' = [worker EXCEPT !.at = "unregister", !.outcome = "done"]
    /\ UNCHANGED <<inserted, issued, origin, client, epoch, resumes, crashes>>

\* A retryable ProviderError keeps the registration; every other exception
\* gives it up before the row is failed.
RunRaises ==
    /\ worker.at = "run"
    /\ \/ worker' = [worker EXCEPT !.at = "fail", !.outcome = "retry"]
       \/ worker' = [worker EXCEPT !.at = "unregister", !.outcome = "fatal"]
    /\ UNCHANGED <<row, inserted, issued, origin, client, epoch, resumes, crashes>>

\* finish.  The gateway drops the registration and the origin row goes; or
\* the call raises and the row stays.  A job already done stays done even
\* then, because fail_job no longer finds its lease.
Unregister ==
    /\ worker.at = "unregister"
    /\ \/ /\ origin' = origin \ {worker.job}
          /\ worker' = IF worker.outcome = "done"
                       THEN [IdleWorker EXCEPT !.at = "poll"]
                       ELSE [worker EXCEPT !.at = "fail"]
       \/ /\ worker' = [worker EXCEPT !.at = "fail"]
          /\ UNCHANGED origin
    /\ UNCHANGED <<row, inserted, issued, client, epoch, resumes, crashes>>

\* Variation: an off-by-one in the retry budget.
RetryOnceMore(j) == worker.outcome = "retry" /\ row[j].attempts <= MaxAttempts

\* retry and attempts < max_attempts
Retries(j) == worker.outcome = "retry" /\ row[j].attempts < MaxAttempts

FailJob ==
    LET j == worker.job IN
    /\ worker.at = "fail"
    /\ row' = IF Held(j)
              THEN [row EXCEPT ![j] =
                      Move(row[j], IF Retries(j) THEN "queued" ELSE "failed", 0)]
              ELSE row
    /\ worker' = [IdleWorker EXCEPT !.at = "poll"]
    /\ UNCHANGED <<inserted, issued, origin, client, epoch, resumes, crashes>>

----------------------------------------------------------------------------
(* Time and crashes.                                                       *)

LeaseExpires(j) ==
    /\ j \in Stored
    /\ row[j].state = "running"
    /\ ~ row[j].expired
    /\ row' = [row EXCEPT ![j] = [row[j] EXCEPT !.expired = TRUE]]
    /\ UNCHANGED <<inserted, issued, origin, client, worker, epoch, resumes, crashes>>

\* The process ends: its worker thread and request threads vanish, tables
\* and registrations stay.  WorkspaceLock keeps a second process out.
Crash ==
    /\ Up
    /\ crashes < MaxCrashes
    /\ crashes' = crashes + 1
    /\ worker' = IdleWorker
    /\ client' = [c \in Clients |-> IdleClient]
    /\ UNCHANGED <<row, inserted, issued, origin, epoch, resumes>>

----------------------------------------------------------------------------

WorkerStep ==
    \/ Boot
    \/ RecoverExpired
    \/ \E j \in JobIds : ClaimNext(j)
    \/ PollIdle
    \/ Activate
    \/ \E paused \in BOOLEAN : RunDone(paused)
    \/ RunRaises
    \/ Unregister
    \/ FailJob

ClientStep(c) ==
    \/ EnqueueRegister(c)
    \/ EnqueueInsert(c)
    \/ \E j \in JobIds : ResumeRegister(c, j)
    \/ ResumeRequeue(c)

ClientStarts(c) ==
    \/ \E o \in Owners : EnqueueCheck(c, o)
    \/ \E target \in JobIds \union {NoJob} : ResumeScan(c, target)

Next ==
    \/ WorkerStep
    \/ \E c \in Clients : ClientStep(c) \/ ClientStarts(c)
    \/ \E j \in JobIds : LeaseExpires(j)
    \/ Crash

Spec == Init /\ [][Next]_vars

\* Threads that can go on do so, and time passes; nothing obliges a user to
\* start a call or the process to crash.
Fairness ==
    /\ WF_vars(WorkerStep)
    /\ \A c \in Clients : WF_vars(ClientStep(c))
    /\ \A j \in JobIds : WF_vars(LeaseExpires(j))

FairSpec == Spec /\ Fairness
----------------------------------------------------------------------------
(* Properties.                                                             *)

ClientRecords == [at: {"idle", "register", "insert", "resume"}, owner: Owners,
                  job: JobIds \union {NoJob}, ok: BOOLEAN,
                  target: JobIds \union {NoJob}, cand: SUBSET JobIds]
WorkerRecords == [at: {"down", "recover", "poll", "activate", "run", "unregister",
                       "fail"},
                  job: JobIds \union {NoJob},
                  outcome: {"none", "done", "retry", "fatal"}]

\* Every variable has its type.
TypeOK ==
    /\ row \in [JobIds -> Rows \union {NoRow}]
    /\ inserted \in Nat
    /\ issued \in 0..MaxJobs
    /\ origin \subseteq JobIds
    /\ client \in [Clients -> ClientRecords]
    /\ worker \in WorkerRecords
    /\ epoch \in Nat
    /\ resumes \in Nat
    /\ crashes \in Nat

\* At most one queued or running job per (kind, owner_id), whatever two
\* enqueues that both passed the unlocked check, a resume, a retry and a
\* reclaim do to one another (enqueue_job is idempotent per owner).
OneActivePerOwner ==
    \A j, k \in Stored :
        /\ row[j].owner = row[k].owner
        /\ row[j].state \in {"queued", "running"}
        /\ row[k].state \in {"queued", "running"}
        => j = k

\* "Never queue a task whose execution origin was not authorized": every
\* queued job has the origin row that process() will look for.
QueuedHasOrigin == \A j \in Stored : row[j].state = "queued" => j \in origin

\* Without a crash and without a resume, enqueueing and retrying keep that
\* promise: a retryable failure does not give the registration up.
QueuedHasOriginUndisturbed == crashes = 0 /\ resumes = 0 => QueuedHasOrigin

\* No job runs without a stored origin, also after the crashes and resumes
\* that queue one without it.
RunsUnderOrigin == worker.at = "run" => worker.job \in origin

\* A job is claimed at most MaxAttempts times between two resumes, plus once
\* for each crash that interrupted it: fail_job checks the budget, the
\* reclaim does not.
AttemptsBounded == \A j \in Stored : row[j].attempts <= MaxAttempts + crashes

\* Resuming revives only the current failures and pauses: a job that did its
\* work, or whose owner has a newer attempt, is never queued again.
RevivesOnlyCurrent ==
    [][\A j \in Stored :
          row[j].state \in {"done", "failed"} /\ row'[j].state \notin {"done", "failed"}
          => /\ Latest(j)
             /\ row[j].state = "done" => row[j].paused]_vars

\* A row that still runs under the lease of a worker thread that is gone,
\* after the one reclaim of the new process.
Stranded(j) == /\ row[j].state = "running"
               /\ row[j].lease # epoch
               /\ worker.at \notin {"down", "recover"}

\* Every queued job is settled in the end, retries included, unless a crash
\* and a restart within the lease leave it stranded.
QueuedSettles ==
    \A j \in JobIds : row[j].state = "queued" ~>
        row[j].state \in {"done", "failed"} \/ Stranded(j)

\* A job whose lease ran out while the process was down does not stay running.
ExpiredIsReclaimed ==
    \A j \in JobIds : row[j].state = "running" /\ row[j].expired /\ ~ Up
                      ~> row[j].state # "running"
============================================================================
