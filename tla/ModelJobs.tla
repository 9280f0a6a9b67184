----------------------------- MODULE ModelJobs -----------------------------
(***************************************************************************)
(* Jobs that pull, load or unload a local model: the HTTP handlers that    *)
(* create and cancel them, the one worker thread that executes them        *)
(* against Ollama, and the recovery of a restarted server.                 *)
(*                                                                         *)
(*   backend/mindos/stores/model_job_store.py   the table and its calls    *)
(*   backend/mindos/model_job_worker.py         the worker                 *)
(*   backend/mindos/ollama_client.py            pull, load, unload         *)
(*   backend/mindos/model_runtime.py            the HTTP handlers          *)
(*                                                                         *)
(* A SELECT and the UPDATE or INSERT that follows it are two steps,        *)
(* because sqlite3 opens the transaction at the write.  Progress figures,  *)
(* error texts and the configuration snapshot of a job are left out.  A    *)
(* crash stands for every end of the process: a stop that outlives its two *)
(* seconds of join leaves the same rows.  SQLite errors are not modelled.  *)
(*                                                                         *)
(* A definition marked "Variation" is a plausible defect of the definition *)
(* that follows it; no action uses it.                                     *)
(***************************************************************************)
EXTENDS Integers, FiniteSets

CONSTANTS
    Targets,      \* (type, target_model) pairs
    Pulls,        \* those of type "pull"; the others load or unload
    MaxAttempts,  \* MAX_ATTEMPTS of the type of each target
    Clients,      \* HTTP request threads
    MaxJobs,      \* bound: jobs created
    MaxCancels,   \* bound: cancel calls
    MaxCrashes    \* bound: crashes of the server

ASSUME ModelJobsAssumption ==
    /\ Targets # {}
    /\ Pulls \subseteq Targets
    /\ MaxAttempts \in [Targets -> Nat \ {0}]
    /\ MaxJobs \in Nat
    /\ MaxCancels \in Nat
    /\ MaxCrashes \in Nat

JobIds == 1..MaxJobs
NoJob  == 0
NoRow  == [state |-> "absent"]

ActiveStates   == {"queued", "running", "cancel_requested"}
TerminalStates == {"succeeded", "failed", "cancelled"}

VARIABLES
    row,        \* model_jobs: a record per job id; ids follow created_at
    issued,     \* job ids handed out so far
    client,     \* where each request thread is
    worker,     \* where the worker thread is
    epoch,      \* the owner name of the current worker thread
    installed,  \* targets whose model Ollama holds completely
    cancels,    \* cancel calls so far
    crashes     \* crashes so far

vars == <<row, issued, client, worker, epoch, installed, cancels, crashes>>

----------------------------------------------------------------------------
(* Rows.                                                                   *)

Rows == [state: ActiveStates \union TerminalStates, target: Targets,
         attempts: Nat, owner: Nat, expired: BOOLEAN]

\* A row whose lease is cleared.
Ended(r, s) == [r EXCEPT !.state = s, !.expired = FALSE]

\* Variation: a row that is given up waits in a state the table has no name for.
ReleasedPending(r, s) == [Ended(r, "pending") EXCEPT !.owner = 0]

\* A row whose owner is cleared as well.
Released(r, s) == [Ended(r, s) EXCEPT !.owner = 0]

Stored == {j \in JobIds : row[j] # NoRow}

Active(t) == \E j \in Stored : row[j].target = t /\ row[j].state \in ActiveStates

\* Variation: rows that used up their attempts would not be claimed.
ClaimableInBudget(j) == row[j].state = "queued" /\ row[j].attempts < MaxAttempts[row[j].target]

Claimable(j) == row[j].state = "queued"

\* ORDER BY created_at LIMIT 1
OldestQueued(j) ==
    /\ j \in Stored
    /\ Claimable(j)
    /\ \A k \in Stored : Claimable(k) => j <= k

IdleClient == [at |-> "idle", job |-> NoJob, target |-> CHOOSE t \in Targets : TRUE,
               seen |-> "none"]
IdleWorker == [at |-> "down", job |-> NoJob, pending |-> {}]

Up == worker.at # "down"

Init ==
    /\ row = [j \in JobIds |-> NoRow]
    /\ issued = 0
    /\ client = [c \in Clients |-> IdleClient]
    /\ worker = IdleWorker
    /\ epoch = 0
    /\ installed = {}
    /\ cancels = 0
    /\ crashes = 0

----------------------------------------------------------------------------
(* HTTP handlers.                                                          *)

\* create_job's SELECT; an active job of the same target is returned as it
\* is and nothing changes.
CreateCheck(c, t) ==
    /\ Up
    /\ client[c].at = "idle"
    /\ issued < MaxJobs
    /\ ~ Active(t)
    /\ issued' = issued + 1
    /\ client' = [client EXCEPT ![c] = [IdleClient EXCEPT
                    !.at = "insert", !.job = issued + 1, !.target = t]]
    /\ UNCHANGED <<row, worker, epoch, installed, cancels, crashes>>

\* create_job's INSERT; no index forbids a second active row.
CreateInsert(c) ==
    /\ client[c].at = "insert"
    /\ row' = [row EXCEPT ![client[c].job] =
                 [state |-> "queued", target |-> client[c].target,
                  attempts |-> 0, owner |-> 0, expired |-> FALSE]]
    /\ client' = [client EXCEPT ![c] = IdleClient]
    /\ UNCHANGED <<issued, worker, epoch, installed, cancels, crashes>>

\* request_cancel's SELECT.  A terminal job is refused and one that is being
\* cancelled is returned as it is.
CancelRead(c, j) ==
    /\ Up
    /\ client[c].at = "idle"
    /\ cancels < MaxCancels
    /\ j \in Stored
    /\ row[j].state \in {"queued", "running"}
    /\ cancels' = cancels + 1
    /\ client' = [client EXCEPT ![c] = [IdleClient EXCEPT
                    !.at = "cancel", !.job = j, !.seen = row[j].state]]
    /\ UNCHANGED <<row, issued, worker, epoch, installed, crashes>>

\* request_cancel's UPDATE, which does nothing when the state has changed.
CancelWrite(c) ==
    LET j == client[c].job IN
    /\ client[c].at = "cancel"
    /\ row' = IF row[j].state # client[c].seen THEN row
              ELSE [row EXCEPT ![j] =
                      IF client[c].seen = "queued" THEN Ended(row[j], "cancelled")
                      ELSE [row[j] EXCEPT !.state = "cancel_requested"]]
    /\ client' = [client EXCEPT ![c] = IdleClient]
    /\ UNCHANGED <<issued, worker, epoch, installed, cancels, crashes>>

----------------------------------------------------------------------------
(* The worker: start, recovery and claims.                                 *)

Boot ==
    /\ worker.at = "down"
    /\ worker' = [IdleWorker EXCEPT !.at = "recover"]
    /\ epoch' = epoch + 1
    /\ UNCHANGED <<row, issued, client, installed, cancels, crashes>>

\* owner IS NOT NULL AND lease_until < now
Lapsed(j) == row[j].owner # 0 /\ row[j].expired

\* Variation: the recovery without its UPDATE of cancelled jobs.
RequeuesOnly(j) == IF row[j].state = "running" /\ Lapsed(j)
                   THEN Released(row[j], "queued") ELSE row[j]

Recovered(j) ==
    CASE row[j].state = "cancel_requested" /\ Lapsed(j) -> Released(row[j], "cancelled")
      [] row[j].state = "running" /\ Lapsed(j)          -> Released(row[j], "queued")
      [] OTHER                                          -> row[j]

RecoverExpired ==
    /\ worker.at = "recover"
    /\ row' = [j \in JobIds |-> IF j \in Stored THEN Recovered(j) ELSE row[j]]
    /\ worker' = [worker EXCEPT !.at = "list"]
    /\ UNCHANGED <<issued, client, epoch, installed, cancels, crashes>>

\* _resolve_recovered_pulls: the queued pulls that have been tried before.
ListRecovered ==
    /\ worker.at = "list"
    /\ worker' = [worker EXCEPT !.at = "resolve",
          !.pending = {j \in Stored : /\ row[j].state = "queued"
                                      /\ row[j].target \in Pulls
                                      /\ row[j].attempts >= 1}]
    /\ UNCHANGED <<row, issued, client, epoch, installed, cancels, crashes>>

MarksInstalled(j) == row[j].target \in installed /\ row[j].state = "queued"

\* Newest first: ask Ollama for the model, mark_pull_installed.
Resolve(j) ==
    /\ worker.at = "resolve"
    /\ j \in worker.pending
    /\ \A k \in worker.pending : k <= j
    /\ row' = IF j \in Stored /\ MarksInstalled(j)
              THEN [row EXCEPT ![j] = Released(row[j], "succeeded")] ELSE row
    /\ worker' = [worker EXCEPT !.pending = worker.pending \ {j}]
    /\ UNCHANGED <<issued, client, epoch, installed, cancels, crashes>>

Resolved ==
    /\ worker.at = "resolve"
    /\ worker.pending = {}
    /\ worker' = [worker EXCEPT !.at = "poll"]
    /\ UNCHANGED <<row, issued, client, epoch, installed, cancels, crashes>>

\* claim_next's SELECT.
ClaimRead(j) ==
    /\ worker.at = "poll"
    /\ OldestQueued(j)
    /\ worker' = [worker EXCEPT !.at = "claim", !.job = j]
    /\ UNCHANGED <<row, issued, client, epoch, installed, cancels, crashes>>

\* Nothing is queued: the thread waits and polls again.
PollIdle ==
    /\ worker.at = "poll"
    /\ \A j \in Stored : ~ Claimable(j)
    /\ UNCHANGED vars

\* Back to the loop with the row written.
Return == worker' = [IdleWorker EXCEPT !.at = "poll"]

Goto(at) == worker' = [worker EXCEPT !.at = at]

\* claim_next's UPDATE, refused when the row is no longer queued.
ClaimWrite ==
    LET j == worker.job IN
    /\ worker.at = "claim"
    /\ \/ /\ Claimable(j)
          /\ row' = [row EXCEPT ![j] =
                [Ended(row[j], "running") EXCEPT !.owner = epoch,
                                                 !.attempts = row[j].attempts + 1]]
          /\ Goto("start")
       \/ ~ Claimable(j) /\ Return /\ UNCHANGED row
    /\ UNCHANGED <<issued, client, epoch, installed, cancels, crashes>>

----------------------------------------------------------------------------
(* The worker: executing a job.                                            *)

Target == row[worker.job].target

CancelSeen == row[worker.job].state = "cancel_requested"

\* The first look at the row in _execute.
Start ==
    /\ worker.at = "start"
    /\ Goto(IF CancelSeen THEN "cancel" ELSE "operate")
    /\ UNCHANGED <<row, issued, client, epoch, installed, cancels, crashes>>

\* A pull is under way.  Its request has no timeout: a stream that neither goes
\* on nor breaks off holds the worker for ever, while the heartbeat renews the
\* lease.
Pulling == worker.at = "operate" /\ Target \in Pulls

\* should_abort when the next line of the pull's stream arrives.
PullAborts ==
    /\ Pulling
    /\ CancelSeen
    /\ Goto("cancel")
    /\ UNCHANGED <<row, issued, client, epoch, installed, cancels, crashes>>

\* Variation: a stream that breaks off counts as a finished pull.
NotRefused(status) == status # "error"

Finished(status) == status = "success"

\* pull returns: its last line says success or error, and should_abort was
\* false before it; or the stream ends without either, whatever Ollama has.
PullReturns(status) ==
    /\ Pulling
    /\ status = "unknown" \/ ~ CancelSeen
    /\ \/ status # "error" /\ installed' = installed \union {Target}
       \/ status # "success" /\ UNCHANGED installed
    /\ Goto(IF Finished(status) THEN "check" ELSE "errcheck")
    /\ UNCHANGED <<row, issued, client, epoch, cancels, crashes>>

LoadReturns ==
    /\ worker.at = "operate"
    /\ Target \notin Pulls
    /\ Goto("check")
    /\ UNCHANGED <<row, issued, client, epoch, installed, cancels, crashes>>

\* pull, load or unload raises; the model may have become complete.
Raises ==
    /\ worker.at = "operate"
    /\ installed' \in {installed, installed \union ({Target} \intersect Pulls)}
    /\ Goto("fail")
    /\ UNCHANGED <<row, issued, client, epoch, cancels, crashes>>

\* Variation: _terminal without its look at the row.
NeverCancels == FALSE

Cancels == CancelSeen

\* _terminal's look at the row, and the one after an unsuccessful pull.
Check ==
    /\ \/ worker.at = "check" /\ Goto(IF Cancels THEN "cancel" ELSE "succeed")
       \/ worker.at = "errcheck" /\ Goto(IF Cancels THEN "cancel" ELSE "fail")
    /\ UNCHANGED <<row, issued, client, epoch, installed, cancels, crashes>>

\* WHERE owner = ? AND state = ?
Holds(state) == row[worker.job].owner = epoch /\ row[worker.job].state = state

\* succeed and mark_cancelled.
End(at, from, to) ==
    LET j == worker.job IN
    /\ worker.at = at
    /\ row' = IF Holds(from) THEN [row EXCEPT ![j] = Ended(row[j], to)] ELSE row
    /\ Return
    /\ UNCHANGED <<issued, client, epoch, installed, cancels, crashes>>

Succeed       == End("succeed", "running", "succeeded")
MarkCancelled == End("cancel", "cancel_requested", "cancelled")

\* fail, the first half of _retry_or_fail.
Fail ==
    LET j == worker.job IN
    /\ worker.at = "fail"
    /\ row' = IF Holds("running") THEN [row EXCEPT ![j] = Ended(row[j], "failed")] ELSE row
    /\ Goto("retry")
    /\ UNCHANGED <<issued, client, epoch, installed, cancels, crashes>>

\* Variation: requeue_for_retry without its condition on the state.
RequeuesAny(j) == row[j].attempts < MaxAttempts[row[j].target]

\* Variation: off-by-one, one attempt more than the type allows.
RequeuesOnceMore(j) == /\ row[j].attempts <= MaxAttempts[row[j].target]
                       /\ row[j].state = "failed"

\* Variation: off-by-one, the last attempt is never made.
RequeuesOnceLess(j) == /\ row[j].attempts + 1 < MaxAttempts[row[j].target]
                       /\ row[j].state = "failed"

Requeues(j) == /\ row[j].attempts < MaxAttempts[row[j].target]
               /\ row[j].state = "failed"

\* requeue_for_retry, the second half.
Retry ==
    LET j == worker.job IN
    /\ worker.at = "retry"
    /\ row' = IF j \in Stored /\ Requeues(j)
              THEN [row EXCEPT ![j] = Released(row[j], "queued")] ELSE row
    /\ Return
    /\ UNCHANGED <<issued, client, epoch, installed, cancels, crashes>>

----------------------------------------------------------------------------
(* Time, retention and crashes.                                            *)

Executing(j) == worker.job = j /\ worker.at \notin {"down", "recover", "poll", "claim"}

\* The heartbeat renews the lease while the job runs; once a cancel is
\* requested renew no longer matches, and nothing renews a lost job.
LeaseExpires(j) ==
    /\ j \in Stored
    /\ row[j].state \in {"running", "cancel_requested"}
    /\ ~ row[j].expired
    /\ ~ (row[j].state = "running" /\ Executing(j))
    /\ row' = [row EXCEPT ![j] = [row[j] EXCEPT !.expired = TRUE]]
    /\ UNCHANGED <<issued, client, worker, epoch, installed, cancels, crashes>>

\* purge_expired_terminal_jobs: rows that ended days ago, so none that the
\* worker is about to retry.
Purge(j) ==
    /\ Up
    /\ j \in Stored
    /\ row[j].state \in TerminalStates
    /\ ~ Executing(j)
    /\ row' = [row EXCEPT ![j] = NoRow]
    /\ UNCHANGED <<issued, client, worker, epoch, installed, cancels, crashes>>

\* The process ends: threads vanish, the table and Ollama stay.
Crash ==
    /\ Up
    /\ crashes < MaxCrashes
    /\ crashes' = crashes + 1
    /\ worker' = IdleWorker
    /\ client' = [c \in Clients |-> IdleClient]
    /\ UNCHANGED <<row, issued, epoch, installed, cancels>>

----------------------------------------------------------------------------

WorkerStep ==
    \/ Boot
    \/ RecoverExpired
    \/ ListRecovered
    \/ \E j \in JobIds : Resolve(j) \/ ClaimRead(j)
    \/ Resolved
    \/ PollIdle
    \/ ClaimWrite
    \/ Start
    \/ PullAborts
    \/ \E status \in {"success", "error", "unknown"} : PullReturns(status)
    \/ LoadReturns
    \/ Raises
    \/ Check
    \/ Succeed
    \/ MarkCancelled
    \/ Fail
    \/ Retry

ClientStep(c) == CreateInsert(c) \/ CancelWrite(c)

Next ==
    \/ WorkerStep
    \/ \E c \in Clients :
          \/ ClientStep(c)
          \/ \E t \in Targets : CreateCheck(c, t)
          \/ \E j \in JobIds : CancelRead(c, j)
    \/ \E j \in JobIds : LeaseExpires(j) \/ Purge(j)
    \/ Crash

Spec == Init /\ [][Next]_vars

\* Threads go on, loads and unloads have a timeout, and time passes.  Nothing
\* is assumed of a pull, neither that it ends nor that its stream has another
\* line; no user is obliged to call and no process to crash.
Fairness ==
    /\ WF_vars(~ Pulling /\ WorkerStep)
    /\ \A c \in Clients : WF_vars(ClientStep(c))
    /\ \A j \in JobIds : WF_vars(LeaseExpires(j))

FairSpec == Spec /\ Fairness
----------------------------------------------------------------------------
(* Properties.                                                             *)

ClientRecords == [at: {"idle", "insert", "cancel"}, job: JobIds \union {NoJob},
                  target: Targets, seen: {"none", "queued", "running"}]
WorkerRecords == [at: {"down", "recover", "list", "resolve", "poll", "claim", "start",
                       "operate", "check", "errcheck", "succeed", "cancel", "fail",
                       "retry"},
                  job: JobIds \union {NoJob}, pending: SUBSET JobIds]

\* Every variable has its type.
TypeOK ==
    /\ row \in [JobIds -> Rows \union {NoRow}]
    /\ issued \in 0..MaxJobs
    /\ client \in [Clients -> ClientRecords]
    /\ worker \in WorkerRecords
    /\ epoch \in Nat
    /\ installed \subseteq Targets
    /\ cancels \in Nat
    /\ crashes \in Nat

\* A pull is recorded as succeeded only when Ollama holds the model, be it
\* finished by this run, by a run that crashed, or found at recovery.
SucceededPullInstalled ==
    \A j \in Stored : row[j].state = "succeeded" /\ row[j].target \in Pulls
                      => row[j].target \in installed

\* A job starts at most MAX_ATTEMPTS times, plus once per crash that put it
\* back: recover_expired does not look at the attempts.
AttemptsBounded ==
    \A j \in Stored : row[j].attempts <= MaxAttempts[row[j].target] + crashes

\* Without a crash, a job that has failed for good used all its attempts.
FailsWhenSpent ==
    crashes = 0 => \A j \in Stored : row[j].state = "failed" /\ ~ Executing(j)
                                     => row[j].attempts = MaxAttempts[row[j].target]

\* A job that has succeeded, was cancelled, or whose cancellation was
\* accepted is never queued or run again, by a retry, a late claim, a
\* recovery or a mark of an installed pull.
EndsForGood ==
    [][\A j \in Stored :
          /\ row[j].state = "succeeded" => row'[j].state \in {"succeeded", "absent"}
          /\ row[j].state = "cancelled" => row'[j].state \in {"cancelled", "absent"}
          /\ row[j].state = "cancel_requested"
               => row'[j].state \in {"cancel_requested", "cancelled"}]_vars

\* A lost job: running under a worker that is gone, after the one recovery
\* of its successor.
Stranded(j) == /\ row[j].state = "running"
               /\ row[j].owner # epoch
               /\ worker.at \notin {"down", "recover"}

\* Every queued job comes to an end or to a cancel request, retries and
\* recoveries included, unless a restart within the lease strands it or a pull,
\* its own or that of a job before it, never lets go of the worker.
QueuedSettles ==
    []<> ~ Pulling =>
        \A j \in JobIds : row[j].state = "queued" ~>
            \/ row[j].state \in TerminalStates \union {"absent", "cancel_requested"}
            \/ Stranded(j)

\* "Expired leases complete the cancellation": the next start finishes a
\* cancellation that a crash interrupted and whose lease ran out.
ExpiredCancelSettles ==
    \A j \in JobIds : row[j].state = "cancel_requested" /\ row[j].expired /\ ~ Up
                      ~> row[j].state \in {"cancelled", "absent"}

\* The cancel of job j has landed before the worker's last look at its row.
InTime(j) ==
    /\ row[j].state = "cancel_requested"
    /\ worker.job = j
    /\ worker.at \in {"start", "operate", "check", "errcheck"}

\* A cancel that lands before the worker's last look at the row takes
\* effect, unless the operation raises, the process ends first, or a pull
\* never lets go of the worker.
TimelyCancelSettles ==
    []<> ~ Pulling =>
        \A j \in JobIds : InTime(j) ~>
            row[j].state \in {"cancelled", "absent"} \/ worker.at = "fail" \/ ~ Up

\* "avoid a job staying in cancel_requested for ever after a cancel": although
\* every pull ends, and in time for a last look or not, every cancel request is
\* completed.
CancelCompletes ==
    []<> ~ Pulling =>
        \A j \in JobIds : row[j].state = "cancel_requested" ~> row[j].state = "cancelled"

\* "return the existing job while one of the same type and target model is
\* active": no target has two active jobs.
OneActivePerTarget ==
    \A j, k \in Stored :
        /\ row[j].target = row[k].target
        /\ row[j].state \in ActiveStates
        /\ row[k].state \in ActiveStates
        => j = k
============================================================================
