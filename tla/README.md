# Zhijun: models, checks and proofs

Zhijun keeps a user's materials, conversations and an *ontology*, a table of
claims about the user, on the user's own device. Much of it happens beside the
user: background jobs read messages and materials, propose claims, compare them
with one another and ask local or remote models. This directory holds TLA+
modules of the parts in which several actors change the same rows, the TLC
configurations that check them, and TLAPS proofs of every safety property that
those check.

Paths below are relative to `src/`; `mindos/` stands for `backend/mindos/`.

| file | what it is |
|---|---|
| `OntologyJobs.tla` | the queue of background jobs, resume calls, execution origins |
| `OntologyJobs_proofs.tla` | its safety, for every value of the constants |
| `ModelJobs.tla` | jobs that pull, load and unload local models |
| `ModelJobs_proofs.tla` | its safety |
| `ClaimTrust.tla` | abstract: what the trust machine promises about a claim |
| `OntologyClaims.tla` | detailed: the claims table and everyone who writes it |
| `OntologyClaims_proofs.tla` | its safety, and that it implements `ClaimTrust` |
| `ProviderGate.tla` | the slots in front of the models |
| `Answers.tla` | abstract: what a conversation promises of each request |
| `ConversationTurn.tla` | a turn of a conversation; uses the gate |
| `ChatImport.tla` | files dropped into a conversation; composes the two above |
| `ProviderGate_proofs.tla`, `ChatImport_proofs.tla` | their safety, and that `Answers` is implemented |
| `MaterialPipeline.tla` | material jobs, snapshots and their files, the user's calls, recovery |
| `MaterialPipeline_proofs.tla` | its safety |
| `RagReview.tla` | what the user decides about retrieved materials |
| `RagReview_proofs.tla` | its safety |
| `MC*.tla`, `*.cfg` | small instances for TLC |
| `PROJECT.json` | components, runs, the map from definitions to source lines, hazards, findings, theorems |

A definition marked *Variation* is a plausible defect of the definition that
follows it (a dropped guard, an off-by-one, a forgotten case). No action uses
it. Put in the place of the definition it varies, it makes TLC report the
property it is listed with, which shows that the property depends on that code.

## 1. The system

One worker process serves one workspace. It has an HTTP server whose request
threads act for the user's clients, one thread for background jobs, one for
model jobs, and schedulers for materials. State lives in SQLite databases. The
process holds a lock on its workspace, so no second process writes them. Four
facts shape every model:

- a *call of a store* takes the store's lock and is one transaction, but
  callers combine several of them: what one call read may be old when the next
  one writes;
- sqlite3 opens a transaction at the first write, so a SELECT in front of an
  UPDATE is not protected by it unless the store's lock is held or the code says
  BEGIN IMMEDIATE;
- two stores, or a store and a remote service, are never changed in one
  transaction;
- a stop of the process is a crash between any two of these steps, and what
  restores order is what the next start does.

### Inventory

**Ontology background jobs** (modelled) - `mindos/zhijun/jobs.py`,
`mindos/stores/ontology_store.py` (its calls on `ontology_jobs`),
`backend/zhijun_worker/background.py`, `mindos/stores/routing_store.py`.
*State*: a row per job (state, owner, priority, attempts, lease), a table of
execution origins, the worker thread. *Operations*: enqueue, claim, finish,
fail with or without retry, reclaim at start, resume by the user. *Interaction*:
turns, events and finished jobs enqueue; the queue runs the extraction and the
consolidator of the claims; an origin is registered with the gateway before the
row exists and given up when the job ends. *Hard*: check and insert in two
transactions, leases that nobody renews, a resume call that reads twice, two
databases, crashes. *Correct when*: an owner has one active job; nothing runs
without its origin; retries are bounded; every job is settled.

**Model jobs** (modelled) - `mindos/stores/model_job_store.py`,
`mindos/model_job_worker.py`, `mindos/ollama_client.py`. *State*: rows with a
lease and its owner, the worker, and what Ollama has installed. *Operations*:
create, cancel, claim, execute, succeed, fail, requeue, recover, resolve
recovered pulls, purge. *Hard*: cancel against the end of the operation, a crash
after Ollama finished but before the row says so, a failure that commits before
its retry. *Correct when*: an ended job stays ended, "succeeded" means
installed, budgets hold, cancels complete, one job per model.

**Ontology claims** (partly modelled) - `mindos/stores/ontology_store.py`,
`mindos/zhijun/extract.py`, `materials.py`, `consolidate.py`,
`growth_hooks.py`. *State*: claims (trust state, who set it, content, evidence,
challenge), entities, conflicts. *Operations*: the user's reviews, extraction
from messages and materials, the consolidator in two modes, the purge of a
material. *Hard*: each of these looks first and writes later, with calls of a
model in between. *Correct when*: the trust machine is kept, no two active
claims say the same, what the user withdrew is not proposed again, a challenge
has an end, a deleted material leaves nothing.

**Conversation turn** (partly modelled) - `mindos/zhijun/turn.py`, `gate.py`,
`mindos/conversations.py`, `mindos/stores/conversation_store.py`. *State*: a lock
per conversation, slots of each provider channel, messages, receipts, follow-up
jobs. *Operations*: take the lock, replay or prepare, wait for a slot, store the
message and an aborted placeholder, stream, complete, receipt, enqueue
follow-ups, give slot and lock back; delete the conversation. *Hard*: a client
that leaves the stream, a request that is sent twice, a deletion under the
stream, a crash between the placeholder and the reply, a time-out that races a
wake-up. *Correct when*: one turn at a time, a complete reply is final and
followed up at most once, nothing is written to a deleted conversation, slots
and locks always come back.

**Chat imports** (partly modelled) - `mindos/chat_imports.py`,
`chat_import_routes.py`, `mindos/stores/chat_import_store.py`. *State*: a batch of
files per import and its state, the worker that polls the batches. *Operations*:
create, upload, seal, retry, consent, decision; look at the files, run the turn
about them, conclude; recover. *Hard*: a route checks the state of a batch and
writes it later, while the worker moves the same batch. *Correct when*: a batch
is complete only with its reply and never stuck in "replying".

**System events** (not modelled) - `backend/zhijun_worker/events.py`. Events of the
surrounding platform with a table of results for duplicates. The handlers of one
process are serialised by a lock, and what they repeat after a crash changes
nothing more; what they call is in the modules above and below.

**Egress consent and routing** (not modelled) - `mindos/zhijun/routing.py`,
`backend/zhijun_worker/consent.py`, `capabilities.py`. Which sources may leave
the device for which service: previews, grants by revision, receipts. *Correct
when*: nothing is sent, and no answer is used, under a grant of another revision.

**Review of retrieved materials** (partly modelled) - `mindos/data_agent_rag.py`.
*State*: one entry per interaction in memory, with its prompt, its tokens and
what was delivered. *Operations*: search, replay, decide (seven actions),
validate, prune. *Hard*: no lock is held during a call of the data agent, so an
entry may be replaced, decided or expire meanwhile; answers are lost; several
windows show the same or an old prompt. *Correct when*: what enters a reply is
what the user picked from the prompt of that search, as it read then.

**Material pipeline** (partly modelled) - `mindos/material_worker.py`,
`material_snapshot_saga.py`, `services/ingestion.py`, `lifecycle.py`,
`mindos/stores/material_pipeline_store.py`, `job_store.py`. *State*: a record and a
source file per material, a job, the rows and the files of its snapshots.
*Operations*: upload, repair, retry, resume, cancel, remove, recycle, restore,
purge; claim, extract, compare, begin, write, commit, finish; recover. *Hard*:
three stores that never change together, a source file that anybody may edit,
calls that come while the worker is between two of its steps, restarts.
*Correct when*: a snapshot can be read and is what it says it is, the current one
survives failed attempts, nothing interrupted resumes by itself, jobs end.

**Memory, learning and growth** - `mindos/stores/memory_store.py`,
`learning_store.py`, `growth_store.py`, `alignment_store.py` and their routes.
Outlines, calibration, decisions and reviews, charters; mostly one transaction
with a check of a revision. *Correct when*: an edit of an old revision is
refused.

**Worker process and settings** - `backend/zhijun_worker/app.py`,
`workspace.py`, `backend/instance_lock.py`. Start, stop, the lock of a
workspace. The models take from it: one process at a time, and stopping it is a
crash.

**Connectivity, consumer API and MCP**, **legacy file index**, **desktop, web
and mobile clients** - sessions and tickets, file and vector I/O, user
interfaces. They reach the parts above through the calls modelled there, in any
order; see section 7.

`PROJECT.json` lists the hazards of these parts, each at its line with the
properties that would notice it, or the reason why none does yet.

## 2. How model and code correspond

Conventions in all modules: a variable that holds a table maps ids to records,
`NoRow` before the INSERT; a thread is a record whose `at` names the point it has
reached and whose other fields are what it read there; each transaction or remote
call is one action, guarded by the code's condition and early return; a branch
that does nothing and leaves the thread where it was is no step. Counters in
lower case (`issued`, `resumes`, `crashes`, `cancels`) exist for a bound in upper
case.

### OntologyJobs

| code | model |
|---|---|
| `enqueue_job` (`ontology_store.py:1435`) | `EnqueueCheck` (unlocked SELECT), `EnqueueRegister` (gateway, origin row), `EnqueueInsert` (INSERT, refused by the partial unique index) |
| `resume_jobs` (`routing_store.py`) | `ResumeScan`, one `ResumeRegister` per candidate, `ResumeRequeue` (reads again and updates) |
| `OntologyWorker._run`, `process` | `Boot`, `RecoverExpired`, `ClaimNext`/`PollIdle`, `Activate`, `RunDone`/`RunRaises`, `Unregister`, `FailJob` |
| `lease_until` | `LeaseExpires`: no product code calls `heartbeat_job`, so the lease may run out under a running job as well |
| the process ends | `Crash`: threads vanish, tables stay |

`epoch` is the name `lease_owner`; it is new at each `Boot`. What a job does is
its outcome: done, paused, a retryable error, another exception. A job that
enqueues a follow-up job does so on the worker thread in the same three steps; a
client stands for it, which only adds interleavings.

### ModelJobs

| code | model |
|---|---|
| `create_job`, `request_cancel` | SELECT and write as two actions: `CreateCheck`/`CreateInsert`, `CancelRead`/`CancelWrite` |
| `recover_expired`, `_resolve_recovered_pulls` | `RecoverExpired`, `ListRecovered`, `Resolve`, `Resolved` |
| `claim_next` | `ClaimRead`, `ClaimWrite` |
| `_execute`, `_do_pull`, `_terminal` | `Start`, `PullAborts`, `PullReturns`, `LoadReturns`, `Raises`, `Check`, `Succeed`, `MarkCancelled` |
| `_retry_or_fail` | `Fail`, `Retry`: two transactions |
| `renew` by the heartbeat | `LeaseExpires` is disabled while the live worker executes a running row; a cancel request stops the renewal |
| `purge_expired_terminal_jobs` | `Purge` |

Ollama is external: `installed` grows when a pull succeeds, or silently when a
stream breaks off or raises. `Pulling` is the time a pull holds the worker. Its request
has no timeout (`_PULL_TIMEOUT = None`, `model_job_worker.py:39`) and `should_abort` is
looked at only when a line arrives (`ollama_client.py:84`), so a silent stream may keep
the worker there for ever, with the heartbeat renewing the lease.

### ClaimTrust and OntologyClaims

`ClaimTrust` is the trust machine described at the top of `ontology_store.py`:
the system may propose a claim and withdraw one that is still a proposal;
everything else needs the user; what is withdrawn or replaced stays so.

`OntologyClaims` has the claims and four kinds of actor. The user's reviews
(`Confirm`, `Withdraw`, `Defer`, `Partial`, `UserCreates`) and the lessons that a
decision review leaves (`LessonLearned`) are single calls of the store and
single actions. Extraction is `StartExtraction` (no active claim says it),
`CheckTombstone` (nothing withdrawn said it), `ExtractionCreates` or
`CreateRefused`; from a material it is `StartMaterial`, then `MaterialCreates` or
`MaterialSupports`. A run of the consolidator reads its list in `StartRun` and then
judges pair by pair, with any verdict in any order: `Contradict`, `Fold` and
`FoldRejects`, `EndPairs`, and in a direct run `Decay` and `EndRun`. The purge of
a material is `PurgeScan`, `PurgeCheck`, `PurgeRetract`, `PurgeDetach`,
`PurgeRecord`. `Month` stands for thirty days without a write.

The worker runs one job at a time, so an extraction and a managed run exclude
one another (`WorkerIdle`). A direct run comes from a request and goes on
beside everything else.

The refinement mapping is a projection: `Trusted` keeps of each claim its state
and who put it there.

### ProviderGate, ConversationTurn and ChatImport

Each module EXTENDS the one before: a turn acquires and releases the gate, and
the import worker is one of the threads that run turns.

| code | model |
|---|---|
| `ProviderGate.acquire`, `release` | `Enter`, `Overdue`, `Retest`, `Release`, `Refused`; `notify_all` is `Notify`, and the wake-up and the test that follows it are two steps |
| `run_turn` | `Begin` (conversation there, lock free), `Unlock` (its `finally`) |
| `_run_routed` | `Resolve` (replay, or rows of an earlier run), `Prepare`, `AtGate`/`Deadline`/`Busy`, `WriteUser`, `Placeholder`, `Stream`, `Finish`, `Receipt`, `Report`, `FollowUp`, `FreeSlot` |
| the client leaves the generator | `LeaveEarly`, `LeaveFollow`, and the outcome "aborted" of `Stream` |
| `delete_conversation` | `DeleteConversation`: messages and receipts go by cascade |
| `process_batch` | `ReadBatch`, `LookUploads`, `LookFiles`, `PrepareFails`/`StartTurn`, `InTurn`, `ErrorEvent`, `TurnOver` |
| the seven routes that write a batch (`resume` is in `routing_routes.py`) | `RouteRead`, then `RouteWrite` with the state decided there |
| `recover` | `Recovered`, in `StartWorker` |
| the process ends | `Crash`: threads, lock and slots vanish, rows stay |

`Answers` is the order that the head of `turn.py` gives: the user's message, then the
reply, its receipt and the follow-ups. The refinement mapping takes the rows as they
are and forgets the threads, the lock, the gate and the batch.

A request is identified by its request id (or its import); the same thread or
another may send it again at any time. What the files of a batch look like is an
arbitrary choice at each look, which is what the pipeline, as seen from here, can
do.

### MaterialPipeline

| code | model |
|---|---|
| `MaterialWorker._process` | `Claim`, `Extract`, `CheckHeld`, `Fence`, `Begin`, `WriteFile`, `Commit`, `Discard`, `Derive`, `Finish` |
| `start_ingestion`, `_submit_material_job` | `Upload` (record), `Enqueue` (job, or the conflict) |
| `_repair_missing_material_job` | `Repair` |
| `retry_ingestion` | `RetryRead` (state and fingerprint), `RetryWrite` |
| `resume_material_job`, `cancel_material_job` | `Resume`, `Cancel` |
| `remove_from_queue` | `RemoveRead`, `RemoveFile`, `RemoveRows`, `DeleteRecord` |
| `recycle_material`, `unrecycle_material`, `purge_material` | `RecycleStart`, `RecycleFile`, `RecycleEnd`; `Unrecycle`; `PurgeStart`, `PurgeFiles`, `DeleteRecord` |
| `recover_pipeline` | `Boot` (pause), `RollBack` per row (file, then row), `Recovered` |
| another program writes the file | `Edit` |

A content is a number that also stands for its fingerprint, which is the SHA-1 of the
bytes (`parser.py:560`) with the parsing strategy (`material_worker.py:94`) and knows
nothing of time: `Edit` gives a file any other content, an earlier one included, and
with it the earlier fingerprint. `current` stands for "the job's run_epoch is that of
this process". Two fields are history. `fenced`: both fingerprints could be read and
were compared. `restored`: between the parsing and the comparison an edit gave the
file the content the job was queued with (`Restores`).

### RagReview

One interaction, that is, one key of `_entries`. Each section under `_lock` and
each answer of the data agent is a step; the agent may fail, and an answer may be
lost after it took effect. `SearchBegin`, `Replay`, `ReplayDrop`, `Ask`, `Resolve`
and `Store` are `_search`; `ValidateBegin`, `ValidateResolve` and `ValidateEnd` are
`reviewed_evidence`; `Decide`, `Recheck`, `SendSelected`, `SendConfirm`, `SendRisk`,
`Commit` and `DecisionDrop` are `decide` and `_decide`; `Prune` is `_prune`. An entry
that is no longer under the key lives on in the threads that hold it (`Held`);
what can no longer be observed of it is forgotten (`Entered`), which keeps the
state space small and loses no behaviour.

## 3. Runs

TLC checks every passing run for deadlock as well. Figures are distinct states.

| run | instance | shows |
|---|---|---|
| `OntologyJobs` (448,554) | 2 owners of different priority, 2 request threads, 2 jobs, budget 2, 1 resume, 1 crash | all safety properties; queued jobs settle; expired leases are reclaimed |
| `OntologyJobsOrigin` | 1 thread, 1 job, 1 resume, no crash | finding 1 |
| `ModelJobs` (358,282) | a pull and a load, 2 threads, 2 jobs, budget 2, 2 cancels, 1 crash | all safety properties; jobs and timely cancels come to an end unless a pull keeps the worker for ever; expired cancels do in any case |
| `ModelJobsCancel` | 1 thread, 1 job, 1 cancel, no crash | finding 2 |
| `ModelJobsDuplicate` | 1 thread, 2 jobs, no cancel, no crash | finding 3 |
| `OntologyClaims` (622,778) | 2 contents, 1 material, both kinds of run, 2 claims; contents symmetric | `ClaimTrust` implemented; uniqueness; no hidden confirmed claim; no second proposal |
| `OntologyClaimsFold` | 2 claims, a direct run | finding 4 |
| `OntologyClaimsDecay` | 2 claims, direct runs, months | finding 5 |
| `OntologyClaimsPurge` | 1 material, its purge, a direct run | finding 6 |
| `ChatImport` (1,129,031) | 2 request threads, the import worker, a background job and another interactive call, all on one channel with one slot; 1 request, 1 batch, 1 route, any number of crashes | `Answers` implemented; the gate, the turn and the batch; the lock comes back |
| `MaterialPipeline` (1,705,720) | 1 material, 2 clients, 2 contents of which one is long, 2 edits, 1 retry or resume, any number of crashes | snapshots, jobs, recovery; queued jobs end |
| `RagReview` (2,911,504) | 1 turn, 2 windows, 2 searches of which one is reviewed, 3 entries, 2 contents; entries and windows symmetric | what may enter a reply, tokens, decisions |

### Why the bounds are enough to meet the cases

*OntologyJobs.* Two jobs are what an owner needs for a race of two enqueues, for
an old and a new generation under one resume, and for two owners competing by
priority. Two threads allow two enqueues of one owner, or an enqueue beside a
resume. A budget of two has a run that is retried and one that is not. One crash
can fall between any two steps, and after it the next worker meets rows of the
first. What larger values add is covered by the proofs, except for liveness.

*ModelJobs.* The two jobs are of one target (duplicates, retries between two
jobs of one model) or of both. Two cancels may hit one job twice or both jobs.
One crash suffices for a stranded job, an interrupted pull that Ollama has
completed, and a cancel whose owner is gone.

*OntologyClaims.* Two claims are one pair: folded, contradictory, or a rewording
and its origin. A row is never deleted, so the second claim may also be the
repetition of a withdrawn first one. One material is enough for
evidence that comes and goes; the effects of two purges at once are in the list
of hazards without a property. `SYMMETRY` permutes contents, which no definition
distinguishes, and is used in no run with a liveness property.

*ChatImport.* One slot makes every caller wait; a background and an interactive
call from elsewhere are the two kinds of competitor. Two threads may send the
same request at once or one after the other, and the batch is a second request
of the conversation. Nothing is counted, so crashes, retries and routes come as
often as they like; only the follow-ups are counted up to two, one more than
there may be.

*MaterialPipeline.* One of the two contents is long, so that an inline text and a
file meet in one history. Two edits are what it takes to leave a content and come
back to it, on either side of the parsing. Two clients give
two calls between the steps of each other and of the worker; one retry or resume
gives a second attempt, with a snapshot to lose. With one material the order of
the queue by priority is not exercised, and no property is about it.

*RagReview.* Three entries are one under the key, one a turn still holds and one
a decision still holds. Two windows decide the same entry at once, or one of
them an old one. One change of the materials separates what was shown from what
is there. `Symmetry` permutes entries and windows, which no definition tells
apart; the run has no liveness property.

The bounds are guards on the action that counts (`issued < MaxJobs`, `crashes <
MaxCrashes`). Only liveness could be made easier by them: after the last job has
been issued nobody disturbs the worker. The queue serves by priority, so with an
unending supply of higher jobs a lower one may starve; `QueuedSettles` says only
that finitely many jobs are all settled.

### What the properties say

*OntologyJobs.* `OneActivePerOwner`: an owner has one queued or running job,
though every enqueue checks first and inserts later. `RunsUnderOrigin`: no body
of a job runs without a stored origin, whatever was queued.
`QueuedHasOriginUndisturbed`: without crash and resume every queued job still
has its origin, also when it is retried. `AttemptsBounded`: attempts exceed the
budget by no more than the crashes. `RevivesOnlyCurrent`: only the newest job of
an owner, failed or paused, is resumed. `QueuedSettles`: every queued job is done
or failed in the end, or *stranded*: still running under the lease of a worker
that is gone, after the one reclaim of its successor. That exception is real
behaviour: the reclaim runs once, at start, and a restart within the lease
passes over the row; the owner cannot enqueue again before the next restart.
`ExpiredIsReclaimed`: if the lease ran out while the process was down, the job
does not stay running.

*ModelJobs.* `SucceededPullInstalled`, `AttemptsBounded`, `FailsWhenSpent`
(without a crash, "failed" means that the budget was used), `EndsForGood` (a
succeeded or cancelled job, or an accepted cancel, is never reversed),
`QueuedSettles` (with the same exception), `ExpiredCancelSettles` (the next
start completes a cancel whose worker died), `TimelyCancelSettles` (a cancel
before the worker's last look takes effect, unless the operation raises or the
process ends). `QueuedSettles` and `TimelyCancelSettles` speak of behaviours in which
no pull keeps the worker for ever (`[]<> ~Pulling`): the code does not rule such a pull
out (section 4). `ExpiredCancelSettles` needs no such
condition, since the recovery precedes the first pull of a worker.

*OntologyClaims.* `TrustKept`: every step is a step of `ClaimTrust` or leaves it
alone. `ActiveContentUnique`, `ConfirmedUnchallenged` (a challenge hides a claim
from the context; one that the user has confirmed since the list was read is
not hidden), `NeverProposedTwice` (what extraction inserts, no claim older than
the extraction says, active or withdrawn, although look, second look and insert
are three calls).

*ChatImport.* `AnswersKept`: every step is a step of `Answers` or leaves its rows
alone; that a receipt has its answer, in particular, is up to the order of the
calls, since the table of receipts refers to the conversation only.
`CompleteReplyFinal` follows from it and has a theorem, but no check of its own.
`GateCounted` and `NoLostWakeup`: the two counters of a channel never drift from the
threads they count, and nobody sleeps before a free gate. `FollowedUpOnce`,
`FollowUpHasReply`: a request sent again, whatever crashed or left, neither
overwrites a complete reply nor repeats its follow-ups, and these find what they
work on. `NoOrphanRows`: a turn that goes on after its conversation was deleted
leaves nothing behind. `ReplyingHasWorker` and `BatchCompleteHasReply`: routes that
write a state they checked long ago, the worker and the recovery never leave a batch
stuck or complete without a reply. `LockGivenBack`: whatever way a turn takes, its
conversation can be used again.

*MaterialPipeline.* `SnapshotReadable`: no rollback, retry or failed attempt takes
the file of a ready snapshot, not even of a superseded one, which conversations
cite. `FencedUnlessRestored`: a text whose fingerprint was compared is that of its
fingerprint, unless an edit put that content back between the parsing and the
comparison; edits before, a trip to the bin and back, a removal or a new attempt
never get past the fence. `DraftReadyIsCurrent`: one visible snapshot, and a job that
ended well has produced it, under the fingerprint it was queued with. `CurrentKept`: an
attempt never costs what could be read before.
`OnlyAskedWork`: after a restart nothing runs that no user asked this process
for, and what is marked as being processed has its worker. `JobSettles`.

*RagReview.* `EvidenceAsReviewed`: evidence in a reply is the selection from the
prompt of that very search, with the content it showed. `RiskTokenOnce`: a token
for one use is presented once, also after a lost answer. `DeliveredAsDecided`:
each kind of piece that is delivered has the decision it needs. `DecisionStands`:
a settled decision is not replaced by one that was under way.

### Fairness

`FairSpec` of the two queues: weak fairness of the worker's next step, which
includes the start of a process (the platform restarts it) and the end of an
operation: the body of an ontology job, a load or an unload, whose calls have
timeouts. A pull has none, so nothing is assumed of it, neither that it ends nor that
its stream has another line: in `ModelJobs` the fairness is that of
`~Pulling /\ WorkerStep`. Further, weak fairness of the next step of every request
thread that is inside a call; and weak fairness of the expiry of leases, which
is the passing of time. Nobody is obliged to start a call, and no crash is
obliged to happen or not to happen. Weak fairness is enough because a thread's
next step stays enabled until the thread takes it.

`FairSpec` of the claims, used by `OntologyClaimsDecay` only: direct runs are
started and go on, and months pass. `Month` has strong fairness because it is
disabled during a run. The antecedent of `ChallengeEnds` is that from some time
on nobody but these acts, the situation most favourable to the promise.

`Spec` of `ChatImport` has weak fairness of the import worker's step (its thread
polls until the process ends, and the process is started again), of the next step
of each turn (threads are scheduled, and the calls of the provider have time-outs)
and of the deadline of a waiting turn. Clients owe nothing: they need not read
the stream to its end, send or route. `Spec` of `MaterialPipeline` has weak
fairness of the worker's step (parsing ends) and of the recovery (a server that
went down is started again); users owe nothing. `RagReview` has no liveness
property and no fairness.

## 4. Where the code and its comments part

Each is a run that TLC reports as violated, for one sentence of the repository.
`PROJECT.json` has them in full.

1. **A resumed job without its origin** (`OntologyJobsOrigin`). "Never queue a
   task whose execution origin was not authorized" (`ontology_store.py:1456`).
   `resume_jobs` registers what its first read found recoverable and requeues
   what its second read finds. A job that fails in between is queued without an
   origin. It does not run (`RunsUnderOrigin`): it fails again at once.
2. **A cancel that stays for ever** (`ModelJobsCancel`). `should_abort` is there
   to avoid jobs staying in `cancel_requested` (`model_job_worker.py:229`). A
   cancel during an operation that raises, or after the worker's last look,
   matches none of the worker's final updates, and only a later start completes
   it. Until then it is handed out as the duplicate of every new request.
3. **Two jobs of one model** (`ModelJobsDuplicate`). `create_job` returns the
   existing active job (`model_job_store.py:170`), but its SELECT and INSERT are
   two transactions, and `fail` commits before `requeue_for_retry`.
4. **Folded into a withdrawn claim** (`OntologyClaimsFold`). "The newer is merged
   into the older" (`consolidate.py:7`). The older one may have been withdrawn
   since the list was read; the newer one is rejected all the same, and its
   tombstone keeps extraction from proposing it again.
5. **A challenge without end** (`OntologyClaimsDecay`). "Challenged for more than
   30 days: withdrawn" (`consolidate.py:10`). Age is counted from `updated_at`,
   and each run challenges the pair afresh before it looks at the age.
6. **Evidence of a deleted material** (`OntologyClaimsPurge`). "Its evidence is
   deleted" (`ontology_store.py:1828`). An extraction that passed its check of
   the material, or a run that listed the evidence, writes it after the purge.

Other disagreements and losses were met while modelling. They are in the models as
the code has them. The first two are the exceptions that properties of passing runs name;
of the others, either nothing in the repository promises the contrary or what differs is
outside the model:

- *A pull that nobody can cancel.* Reading line by line "is backed by the timeout of the
  socket" (`ollama_client.py:67`), but the worker passes none. When the stream of a pull
  falls silent, a cancel is never looked at, the heartbeat keeps the lease alive and the
  only worker starts no other job. The model has these behaviours; the two properties
  that they would refute leave them out by name.
- *The text of an edit under the old fingerprint.* "Never commit an old content as the
  current version" (`material_worker.py:317`). The fence compares the fingerprint of the
  enqueue with that of the file after the parsing. A file that is edited before it is
  parsed and restored before the comparison passes, and the snapshot holds the text that
  was there in between. `FencedUnlessRestored` states that nothing else passes.
- *A complete reply without receipt or follow-up.* Both come after the reply is
  complete (`turn.py:322`, `:331`), and a replayed request repeats neither.
- *A file for a batch that is being concluded* is accepted after a check that has
  become old (`chat_import_routes.py:150`), and the batch ends without discussing it.
- *The conflict that "does not happen".* The repair of the list can queue the job
  between record and job of an upload (`ingestion.py:184`), which then takes record
  and file back; `ingestion.py:127` says the branch is only a precaution.
- *The mark of a cancelled upload* is never cleared (`job_store.py:741`), so a
  material retried after a cancel is shown as failed although it succeeds.
- *Cancelling what is being processed* does nothing to the job: it still ends with
  a ready snapshot (`uploads.py:1156`).
- *`remove_from_queue`* looks, then deletes (`ingestion.py:372`); a job that ends in
  between is removed with its result.
- *Recycling and purging* leave the rows of the snapshots and of the job
  (`lifecycle.py:594`); unreachable, but stored.
- *A recovery that fails* is only logged (`server.py:657`) and the worker starts.
- *A failing decision* removes what is under its key, even a newer prompt
  (`data_agent_rag.py:751`); the user has to search again.
- *Two purges at once* of the only two materials that support a claim each see the
  other's evidence (`ontology_store.py:1839`), and the claim stays without any.

## 5. What is proved

The proofs hold for every number of owners, clients, jobs, resumes, crashes,
contents, materials, claims, callers, channels, slots, threads, requests, routes,
targets, cancels, windows, searches, entries and retries. They assume only

- `OntologyJobsAssumption`: priorities are integers, the budget is positive, the bounds
  are numbers;
- `ModelJobsAssumption`: pulls are some of the targets, each target has a positive
  budget, the bounds are numbers;
- `OntologyClaimsAssumption`: `Talk` is no material, runs are of the two kinds, the
  bound is a number;
- `ProviderGateAssumption`: finitely many callers, each with its channel, every channel
  with a slot;
- `ConversationTurnAssumption`: the threads of turns are interactive callers;
- `ChatImportAssumption`: the batch is the one import, the worker one of the threads;
- `MaterialPipelineAssumption`: the long contents are some of the contents, the bounds
  are numbers;
- `RagReviewAssumption` and `RagReviewNames`: the reviewed queries are some of the
  queries, there is a content, and the id of a search is not Python's `None`.

TLC checks the properties on the instances of section 3; the strengthenings that make
them inductive are stated in the proof modules. Every safety invariant and every action
property of the passing runs is the statement of a theorem.

### The queue (`OntologyJobs_proofs`)

| theorem | statement |
|---|---|
| `TypeCorrect` | `Spec => []TypeOK` |
| `IdsOnce` | `Spec => []IdsInv` |
| `ExclusiveOwners` | `Spec => []OneActivePerOwner` |
| `AuthorizedRuns` | `Spec => []RunsUnderOrigin` |
| `RetryBudget` | `Spec => []AttemptsBounded` |
| `ResumesCurrent` | `Spec => RevivesOnlyCurrent` |
| `OriginUndisturbed` | `Spec => []QueuedHasOriginUndisturbed` |

The type invariant is not inductive alone: an INSERT that hit an existing row
would need nothing more than a thread with an old id. `IdsInv` says that every
thread which is enqueueing owns an id that no row and no other thread has. With
it an INSERT adds a row and never overwrites one, so each other action moves rows
that exist, keeping owner and creation order (`SameIdentity`).

`OneActivePerOwner` needs more than the unique index, because a resume moves
several rows in one UPDATE. `BornInv`, that creation numbers are unique, makes the
newest row of an owner unique, so the UPDATE revives at most one row of an owner
that has none active; of the other actions only the INSERT makes a row active.

`AttemptsBounded` needs to know where the worker is. `HoldInv`: from the claim
until the row is settled, the worker's row is running under the worker's own
lease, though the lease may have run out, since the reclaim is done before the
first claim. `AttemptsInv` then distinguishes the job in hand, which may have
spent its budget, from every other queued or running job, which has an attempt
left or a crash to account for it.

`QueuedHasOriginUndisturbed` says something of histories without a crash and without a
resume only, so its invariant is conditional too (`CalmInv`): in such a history the
only running job is the one in the worker's hand, hence the reclaim at the start queues
nothing, and what `Unregister` takes away belongs to a job that has ended or is
about to fail for good. A retry does not pass through `Unregister` at all. Both
exceptions are necessary: with a crash a job can be reclaimed after its origin was
given up, and a resume is finding 1.

### The model jobs (`ModelJobs_proofs`)

| theorem | statement |
|---|---|
| `JobsSafe` | `Spec => []JobsInv` |
| `JobsTyped` | `Spec => []TypeOK` |
| `SuccessMeansInstalled` | `Spec => []SucceededPullInstalled` |
| `AttemptBudget` | `Spec => []AttemptsBounded` |
| `FailuresSpent` | `Spec => []FailsWhenSpent` |
| `FinalStates` | `Spec => EndsForGood` |

`JobsInv` has a part for each actor. `RowInv` says of a row what may still become of
it: one that is queued, or running but in nobody's hand, can be started once more
within its budget and the crashes so far; one that failed and is in nobody's hand has
used its budget, unless there was a crash; one that runs in the worker's hand has the
worker's epoch as its owner. `WorkerInv` ties the position of the worker to the state
of the row it holds: it is running or being cancelled until the worker lets it go,
whatever requests cancel it meanwhile, and after a pull that returned the model is
installed. `ClientInv` says that the id of a thread about to insert is new.

`AttemptsBounded` and `FailsWhenSpent` need one another's parts: `fail` commits before
the retry is decided, so a row is "failed" with attempts left, but only while the
worker stands between the two transactions. `EndsForGood` then goes by action: each
UPDATE names in its WHERE the states it may leave, and none of them is final, except
"failed" for the retry, which `EndsForGood` does not count among the final ones.

### The claims (`OntologyClaims_proofs`)

| theorem | statement |
|---|---|
| `ClaimsTyped` | `Spec => []TypeOK` |
| `OneClaimPerContent` | `Spec => []ActiveContentUnique` |
| `NeverHidden` | `Spec => []ConfirmedUnchallenged` |
| `TrustImplemented` | `Spec => TrustKept` |
| `NoSecondProposal` | `Spec => NeverProposedTwice` |

The inductive invariant is `Inv == TypeOK /\ KnownInv`; `KnownInv` says that what a
thread remembers (the claim an extraction found, the pairs a run has still to
judge) are claims that exist. It is what makes a write from a stale list a
write to a row.

Under `Inv` every step that touches the table is one of four moves (`Moves`): it
*rewrites* one row by a legal change of trust, *writes* a fresh row whose content
no active row has, *replaces* a row by a rewording, or *keeps* trust and content of
every row. Each theorem is an argument over the four moves and not over the
twenty-odd actions. `MoveTrusted` maps each to a step of `ClaimTrust` or a
stutter, which is the step half of the refinement.

`NeverProposedTwice` spans three steps of the worker with any number of steps of
others between them. `SoughtInv` carries it: after the first look no claim older
than the extraction is active with its content; after the second none has it at
all. The first half survives because no move brings a row back to life
(`Continues`), and the two halves join because a row that is neither active nor
withdrawn nor replaced does not exist.

### The gate (`ProviderGate_proofs`)

| theorem | statement |
|---|---|
| `SlotsCounted` | `GateSpec => [](GateTypeOK /\ GateCounted)` |
| `WokenInTime` | `GateSpec => []NoLostWakeup` |

`GateCounted` is inductive: a step moves one thread, and a set that gains or loses
one member changes its cardinality by one. `NoLostWakeup` needs it, since a slot is
given back as `max(0, n - 1)`: only because the count is right does giving back free
a slot, and only then is a wake-up due. The rest of the argument is by channel: what
makes the condition of a sleeper true (a slot given back, the last interactive
caller gone) is always a step that also wakes every sleeper.

### The conversation and its imports (`ChatImport_proofs`)

| theorem | statement |
|---|---|
| `GateUsed` | `Spec => GateSpec` |
| `GateSafe` | `Spec => [](GateCounted /\ NoLostWakeup)` |
| `CompleteRepliesStay` | `Spec => CompleteReplyFinal` |
| `FollowUpsAreOnce` | `Spec => []FollowedUpOnce` |
| `FollowUpsHaveReply` | `Spec => []FollowUpHasReply` |
| `NothingOrphaned` | `Spec => []NoOrphanRows` |
| `AnswersImplemented` | `Spec => AnswersKept` |
| `RepliesInHand` | `Spec => []ReplyingHasWorker` |
| `CompleteBatches` | `Spec => []BatchCompleteHasReply` |

`GateUsed` is the composition: every step of a turn, a batch, a route, a deletion or a
crash is a step of the gate or leaves it alone, so the theorems about the gate hold
for the whole.

The properties of the rows rest on `TurnInv`. It says of each thread what it may
rely on where it is (`ThreadInv`): between `Begin` and `Unlock` it has the lock; until
it stores the end of its stream, its reply is not complete and not followed up; and as
long as the conversation is open, the rows it wrote are there. A step of one thread
finds every other thread outside of its turn (`OwnStep`), so nothing that another thread
relies on can break, with one exception: an ended turn of the import worker still
relies on its reply being complete, and a complete reply stays (`ReplyKept`). The
delicate case is a thread that began before the deletion of the conversation: its
request may have been followed up, its rows are gone, and it might follow up again.
It cannot, because a message can only be appended to an open conversation; only a
request whose user message it *knew* may go on, and that one was not followed up.

`AnswersImplemented` is the refinement. Each write of a turn is mapped to one move
(`UserMoves`, `PlaceholderMoves`, `FinishMoves`, `ReceiptMoves`, `FollowMoves`), and
everything else leaves the rows alone. What the moves of `Answers` demand, a question
for an answer, an answer for a receipt, a complete reply with its receipt for a
follow-up, is what `ThreadInv` says of a thread at that place; a repeated placeholder
and an answer that ends aborted are stutters.

`BatchInv` adds what the worker knows. A batch that a route queued behind its back
may have any state but "replying" when an error event was reported (`Reported`),
which is why leaving the batch as it is, at the end of such a turn, does not leave it
stuck.

### The material pipeline (`MaterialPipeline_proofs`)

| theorem | statement |
|---|---|
| `PipelineSafe` | `Spec => []PipelineInv` |
| `PipelineTyped` | `Spec => []TypeOK` |
| `SnapshotsReadable` | `Spec => []SnapshotReadable` |
| `ExactUnlessRestored` | `Spec => []FencedUnlessRestored` |
| `ReadyIsCurrent` | `Spec => []DraftReadyIsCurrent` |
| `WorkIsAsked` | `Spec => []OnlyAskedWork` |
| `CurrentStays` | `Spec => CurrentKept` |

`PipelineInv` is built in five layers, each kept by every step with the help of those
before it.

- *Types*, including the positions of the worker and of the clients.
- *Files*: a file is in one place, the folder or the bin. `WorkerExact` is about the
  interval between parsing and comparison: if what the job was queued with is what
  the file holds now, wherever it is, then the worker has parsed it or the file was
  given it back since (`restored`). Parsing establishes it, and only an edit brings a
  content to a file that did not have it (`FileMoves`), which is when `restored` is set;
  bin and folder merely change places. So `FencedUnlessRestored` needs no lock on the
  file; without its exception it would.
- *Asked*: an active job carries the epoch of this process, and a processing one is in
  the worker's hand; after a crash none is active once the pause has been written.
- *Counts*: the highest version used, the run of the job that has no row yet and the
  retries that were counted but have not written their job are together at most
  `1 + requeues`. This is what gives `Begin` a free version above all others, hence a
  row of its own. `Highest` is a CHOOSE; that a finite set of versions has one is proved
  by well-founded induction on its subsets (`HighestOf`).
- *Sound*: a ready row in a file has its file, a fenced one that is not `restored` has the
  text of its fingerprint, no two rows are visible, a job in "draft_ready" has its product; and for
  the worker, at each of its places, what it holds fits its row and its job.

The rollback is where readability could be lost: it unlinks a file and then discards its
row, while attempts before and after it have rows and files of the same material. It
takes only rows in preparation, and while the server is recovering there is no worker,
so no ready row can refer to that file. `CurrentKept` follows from the invariant and the one
step that supersedes a row, `Commit`, which makes another visible in the same
transaction.

### The review (`RagReview_proofs`)

| theorem | statement |
|---|---|
| `RagSafe` | `Spec => []RagInv` |
| `OnlyReviewedEvidence` | `Spec => []EvidenceAsReviewed` |
| `OneUsePerToken` | `Spec => []RiskTokenOnce` |
| `DecidedInFull` | `Spec => []DeliveredAsDecided` |
| `DecisionsStand` | `Spec => DecisionStands` |

No lock is held while the agent answers, so the invariant says of every thread what it
may still believe of the entry it holds. `UserHolds`: a decision under way holds the
entry's own lock and the entry is not settled; while the entry is also the one under
the key, what the user chose fits what it shows. `TurnHolds`: a turn that has come to
read evidence has a settled entry of its own query, in a review a delivered one, and
the content is the one the entry was shown with. `TurnAlone`: an entry that was not yet
stored is known to its turn alone, so nothing can be decided about it. `EntrySound` is
what the pieces that were passed and delivered require of the token and of the decisions.

`RiskTokenOnce` needs `RiskOver`: once the token was presented, an entry that can
still be read is settled, or shows materials, or its decision is on its way to say so.
The lost answer is the reason: the token is counted when it is sent, not when the answer
comes. A dropped or replaced entry lives on in the threads that hold it; `Gone` says
that what nobody holds is forgotten, so a reused id begins empty.

### Only model-checked

Liveness (`QueuedSettles` of both queues, `ExpiredIsReclaimed`, `ExpiredCancelSettles`,
`TimelyCancelSettles`, `LockGivenBack`, `JobSettles`): fairness and ENABLED are beyond
the prover. The six sentences of section 4 are refuted by TLC's counterexamples.

## 6. Plan

Done: the modules and runs of sections 2 and 3 and the proofs of section 5. Next:

1. An abstract specification of a queue's promise (a job is asked for, started within
   its budget, and settled once) that `OntologyJobs` and `ModelJobs` both implement, with
   the steps mapped in their proof modules.
2. `EgressConsent` (`mindos/zhijun/routing.py`, `backend/zhijun_worker/consent.py`): grants
   by revision against dispatch and answer.
3. What the pipeline derives from a snapshot (`mindos/derived.py`), with the
   generations of an index, and entities and their merges in the claims.

## 7. What is not modelled, and why

- *Content.* What a model answers, how claims are worded and hashed, scores,
  prompts. Verdicts are any verdict, contents are values that are equal or not.
- *Of the claims*: entities and their merges, conflict cards, review events,
  promotion, reaffirmation, deferral dates, export, `purge_all`. Merges and
  `purge_all` change claims and are left for a later module; the others touch
  neither trust state nor content. Extraction in the model sees every
  claim; the code filters by scope, so an extraction may overlook an active claim
  of another scope and is then stopped by the unique index.
- *Crashes in OntologyClaims.* Each of its writes is one transaction and
  the threads keep nothing that a restart reads; a crash is an interleaving in
  which the thread does not go on, which `Spec` (without fairness) contains. What a
  restart does to the job that was running is `OntologyJobs`.
- *SQLite errors* (disk full, busy) other than the unique indexes, and file I/O.
- *The legacy index, connectivity, the consumer API, MCP servers and clients*: I/O,
  sessions and user interfaces. They call the modelled parts in any order, and
  the models let request threads do so.
- *Of the turn*: the older path without routing, the plan of a turn and what it looks
  up, citations, titles and pins. *Of chat imports*: the mode of a workspace, in which
  imports are refused, and the registration of single files.
- *Of the material pipeline*: what is derived from a snapshot, families of versions,
  folders, the scheduler of local models, an upload whose job was repaired and has
  ended before the upload goes on; a file that is written while it is being read (it is
  read in one step).
- *Of the review*: searches of more than 100 materials, which are several
  interactions one after the other; the contract each answer is checked
  against, which only adds failures that the model has; and an answer "ok" with a notice
  that withholds no piece, only titles: the code asks in one more prompt, without a token
  to release anything (`data_agent_rag.py:522`, `:563`), and no property is about it.
- *Memory, learning and growth, settings*: see the notes in `PROJECT.json`; mostly
  one transaction with a check of a revision.
