--------------------------- MODULE MaterialPipeline ---------------------------
(***************************************************************************)
(* From an uploaded file to the text the rest of the system reads: the     *)
(* queue of material jobs, the one worker that parses files, the snapshots *)
(* of their text (a row, and a file when the text is long), the user's     *)
(* calls on a material, and the recovery of a restarted server.            *)
(*                                                                         *)
(*   backend/mindos/material_worker.py                the worker           *)
(*   backend/mindos/material_snapshot_saga.py         files and recovery   *)
(*   backend/mindos/stores/material_pipeline_store.py jobs and snapshots   *)
(*   backend/mindos/services/ingestion.py             the user's calls     *)
(*   backend/mindos/lifecycle.py                      recycle, purge       *)
(*                                                                         *)
(* Jobs and snapshots are in one database, the records of materials in     *)
(* another, texts and source files in the file system: a call that touches *)
(* two of them has a step for each.  A content is a number; it also stands *)
(* for its fingerprint, a hash of the bytes and of the way they are parsed *)
(* (0 for none), so a file that gets an old content back gets its old      *)
(* fingerprint back.  A file is read in one step.  Leases are written but  *)
(* read by nobody.  What is derived from a snapshot is left out.           *)
(*                                                                         *)
(* A definition marked "Variation" is a plausible defect of the definition *)
(* that follows it; no action uses it.                                     *)
(***************************************************************************)
EXTENDS Integers, FiniteSets

CONSTANTS
    Materials,    \* material ids
    Clients,      \* request threads with a call of several steps
    MaxContent,   \* bound: contents a source file may take
    Long,         \* those whose text exceeds _INLINE_TEXT_LIMIT
    MaxEdits,     \* bound: times another program writes a source file
    MaxRequeues   \* bound: retry and resume calls together

ASSUME MaterialPipelineAssumption ==
    /\ Long \subseteq 1..MaxContent
    /\ MaxContent \in Nat \ {0}
    /\ MaxEdits \in Nat
    /\ MaxRequeues \in Nat

NoMaterial == "no material"

\* A job is run for its upload and for each time it is queued again.
Versions == 1..(1 + MaxRequeues)

VARIABLES
    record,   \* job_records: none, kept, recycled or deleted
    source,   \* content of the source file
    trash,    \* content of the file in the recycle bin
    edits,    \* times a source file was edited
    job,      \* material_jobs: the job of each material
    rows,     \* material_content_snapshots: the rows of each material
    files,    \* snapshot files on disk, as <<material, version>>
    server,   \* the process: down, recovering or up
    worker,   \* the job the worker holds, as it read it, and its position
    client,   \* where each request is
    requeues  \* retry and resume calls so far

matVars == <<record, source, trash, edits>>
dbVars == <<job, rows, files>>
vars == <<matVars, dbVars, server, worker, client, requeues>>

NoJob == [state |-> "none", hash |-> 0, current |-> FALSE, resumed |-> FALSE, priority |-> 0]
NoRow == [state |-> "none", hash |-> 0, text |-> 0, file |-> FALSE,
          superseded |-> FALSE, fenced |-> FALSE, restored |-> FALSE]
IdleWorker == [pc |-> "idle", m |-> NoMaterial, hash |-> 0, text |-> 0, version |-> 0,
               fenced |-> FALSE, restored |-> FALSE]
IdleClient == [pc |-> "idle", m |-> NoMaterial, hash |-> 0]

Active == {"queued", "processing"}
Settled == {"draft_ready", "failed", "canceled"}

Init ==
    /\ record = [m \in Materials |-> "none"]
    /\ source = [m \in Materials |-> 0]
    /\ trash = [m \in Materials |-> 0]
    /\ edits = 0
    /\ job = [m \in Materials |-> NoJob]
    /\ rows = [m \in Materials |-> [v \in Versions |-> NoRow]]
    /\ files = {}
    /\ server = "up"
    /\ worker = IdleWorker
    /\ client = [u \in Clients |-> IdleClient]
    /\ requeues = 0

----------------------------------------------------------------------------
(* The two tables.                                                         *)

State(m) == job[m].state

SetState(m, s) == job' = [job EXCEPT ![m].state = s]

Present(m) == record[m] \in {"kept", "recycled"}

\* The highest of some version numbers, 0 for none.
Highest(vs) == IF vs = {} THEN 0 ELSE CHOOSE v \in vs : \A w \in vs : w <= v

Visible(r) == r.state = "ready" /\ ~ r.superseded

\* current_snapshot
Current(m) == Highest({v \in Versions : Visible(rows[m][v])})

\* A job as a new process finds it: its run_epoch is not that of the process.
Aged(j) == [j EXCEPT !.current = FALSE]

\* Variation: only jobs that had been taken are paused at the start.
PausesTaken(j) ==
    IF j.state = "processing" THEN [Aged(j) EXCEPT !.state = "paused"] ELSE Aged(j)

\* pause_pending_jobs
Paused(j) ==
    IF j.state \in Active THEN [Aged(j) EXCEPT !.state = "paused"] ELSE Aged(j)

\* Variation: a new attempt also clears the row that is ready.
ClearedAny(m) == [rows[m] EXCEPT ![1] = NoRow]

\* A row left in preparation under the material's own version number gives
\* way to the next one.
Cleared(m) ==
    [rows[m] EXCEPT ![1] = IF @.state = "preparing" THEN NoRow ELSE @]

\* Revisions advance by themselves: a row that is there is never reused.
NextVersion(m) == Highest({v \in Versions : Cleared(m)[v].state # "none"}) + 1

\* History: "fenced" when both fingerprints could be read and compared,
\* "restored" when the file got the content of the fingerprint back after the
\* worker had parsed it.
Begun(m, hash, fenced, restored) ==
    [Cleared(m) EXCEPT ![NextVersion(m)] =
        [NoRow EXCEPT !.state = "preparing", !.hash = hash, !.file = TRUE,
                      !.fenced = fenced, !.restored = restored]]

\* Variation: the row is ready but the one it replaces stays visible.
ReadiedOnly(m, v, text) ==
    [rows[m] EXCEPT ![v].state = "ready", ![v].text = text, ![v].file = text \in Long]

\* commit_snapshot: the row becomes ready, the others are superseded.
Committed(m, v, text) ==
    [w \in Versions |->
        LET r == rows[m][w] IN
        IF w = v THEN [r EXCEPT !.state = "ready", !.text = text, !.file = text \in Long]
        ELSE IF Visible(r) THEN [r EXCEPT !.superseded = TRUE]
        ELSE r]

Discarded(m, v) ==
    [rows EXCEPT ![m][v] = IF @.state = "preparing" THEN [@ EXCEPT !.state = "discarded"] ELSE @]

----------------------------------------------------------------------------
(* The worker.                                                             *)

Claimable(m) ==
    /\ State(m) = "queued"
    /\ job[m].current \/ job[m].resumed

\* ORDER BY priority DESC; the order of arrival is left open.
NextQueued(m) ==
    /\ Claimable(m)
    /\ \A n \in Materials : Claimable(n) => job[n].priority <= job[m].priority

\* The worker at pc, with what it has read no longer needed.
Goes(pc) == worker' = [IdleWorker EXCEPT !.pc = pc, !.m = worker.m]

Claim(m) ==
    /\ server = "up"
    /\ worker.pc = "idle"
    /\ NextQueued(m)
    /\ SetState(m, "processing")
    /\ worker' = [IdleWorker EXCEPT !.pc = "extract", !.m = m, !.hash = job[m].hash]
    /\ UNCHANGED <<matVars, rows, files, server, client, requeues>>

\* The file is read and parsed, or cannot be.
Extract ==
    /\ worker.pc = "extract"
    /\ \/ /\ source[worker.m] # 0
          /\ worker' = [worker EXCEPT !.pc = "extracted", !.text = source[worker.m]]
       \/ Goes("failed")
    /\ UNCHANGED <<matVars, dbVars, server, client, requeues>>

StillProcessing == State(worker.m) = "processing"

CheckHeld ==
    /\ worker.pc = "extracted"
    /\ worker' = IF StillProcessing THEN [worker EXCEPT !.pc = "fence"] ELSE IdleWorker
    /\ UNCHANGED <<matVars, dbVars, server, client, requeues>>

\* Variation: the fingerprint is not compared again.
AlwaysMatches(hash, now) == TRUE

\* The file has not changed since the job was queued; no fence where one of
\* the fingerprints could not be read.
Matches(hash, now) == hash = 0 \/ now = 0 \/ now = hash

Fence ==
    /\ worker.pc = "fence"
    /\ worker' = [worker EXCEPT
          !.pc = IF Matches(worker.hash, source[worker.m]) THEN "begin" ELSE "failed",
          !.fenced = worker.hash # 0 /\ source[worker.m] # 0]
    /\ UNCHANGED <<matVars, dbVars, server, client, requeues>>

MayBegin == StillProcessing

\* begin_snapshot
Begin ==
    LET m == worker.m IN
    /\ worker.pc = "begin"
    /\ IF MayBegin
       THEN /\ rows' = [rows EXCEPT ![m] =
                    Begun(m, worker.hash, worker.fenced, worker.restored)]
            /\ worker' = [worker EXCEPT !.pc = IF worker.text \in Long THEN "write" ELSE "commit",
                                        !.version = NextVersion(m),
                                        !.hash = 0, !.fenced = FALSE, !.restored = FALSE]
       ELSE worker' = IdleWorker /\ UNCHANGED rows
    /\ UNCHANGED <<matVars, job, files, server, client, requeues>>

\* A long text goes to a file first: written aside, then moved into place.
WriteFile ==
    /\ worker.pc = "write"
    /\ \/ files' = files \union {<<worker.m, worker.version>>}
          /\ worker' = [worker EXCEPT !.pc = "commit"]
       \/ worker' = [worker EXCEPT !.pc = "discard"] /\ UNCHANGED files
    /\ UNCHANGED <<matVars, job, rows, server, client, requeues>>

Commit ==
    LET m == worker.m
        v == worker.version
    IN
    /\ worker.pc = "commit"
    /\ IF rows[m][v].state = "preparing"
       THEN rows' = [rows EXCEPT ![m] = Committed(m, v, worker.text)] /\ Goes("derive")
       ELSE worker' = [worker EXCEPT !.pc = "discard"] /\ UNCHANGED rows
    /\ UNCHANGED <<matVars, job, files, server, client, requeues>>

Discard ==
    /\ worker.pc = "discard"
    /\ rows' = Discarded(worker.m, worker.version)
    /\ Goes("failed")
    /\ UNCHANGED <<matVars, job, files, server, client, requeues>>

\* The looks at the job before and after the derived work is submitted.
Derive ==
    /\ worker.pc = "derive"
    /\ IF StillProcessing THEN Goes("ready") ELSE worker' = IdleWorker
    /\ UNCHANGED <<matVars, dbVars, server, client, requeues>>

\* Variation: a job that failed is left as it is.
EndedWell(s) == IF StillProcessing /\ s = "draft_ready" THEN s ELSE State(worker.m)

\* finish_material_job ends only what is still being processed.
Finished(s) == IF StillProcessing THEN s ELSE State(worker.m)

Finish ==
    /\ worker.pc \in {"ready", "failed"}
    /\ SetState(worker.m, Finished(IF worker.pc = "ready" THEN "draft_ready" ELSE "failed"))
    /\ worker' = IdleWorker
    /\ UNCHANGED <<matVars, rows, files, server, client, requeues>>

WorkerStep ==
    \/ \E m \in Materials : Claim(m)
    \/ Extract
    \/ CheckHeld
    \/ Fence
    \/ Begin
    \/ WriteFile
    \/ Commit
    \/ Discard
    \/ Derive
    \/ Finish

----------------------------------------------------------------------------
(* The user's calls.                                                       *)

Idle(u) == client[u].pc = "idle"

\* u goes on with m at pc, with the fingerprint it has read.
Continues(u, pc, m, hash) ==
    client' = [client EXCEPT ![u] = [pc |-> pc, m |-> m, hash |-> hash]]

Returns(u) == client' = [client EXCEPT ![u] = IdleClient]

Queued(hash, resumed, priority) ==
    [state |-> "queued", hash |-> hash, current |-> TRUE, resumed |-> resumed,
     priority |-> priority]

\* start_ingestion: the record, and the fingerprint of the new file.
Upload(u, m) ==
    /\ Idle(u)
    /\ record[m] = "none"
    /\ record' = [record EXCEPT ![m] = "kept"]
    /\ source' = [source EXCEPT ![m] = 1]
    /\ Continues(u, "enqueue", m, 1)
    /\ UNCHANGED <<trash, edits, dbVars, server, worker, requeues>>

\* The job.  When the repair of the list has queued it meanwhile, the upload
\* takes its record and its file back.  That such a job has also ended by now is left out.
Enqueue(u) ==
    LET m == client[u].m IN
    /\ client[u].pc = "enqueue"
    /\ State(m) \notin Settled
    /\ IF State(m) \in Active
       THEN /\ record' = [record EXCEPT ![m] = "deleted"]
            /\ source' = [source EXCEPT ![m] = 0]
            /\ UNCHANGED job
       ELSE /\ job' = [job EXCEPT ![m] = Queued(client[u].hash, FALSE, 0)]
            /\ UNCHANGED <<record, source>>
    /\ Returns(u)
    /\ UNCHANGED <<trash, edits, rows, files, server, worker, requeues>>

\* _repair_missing_material_job, when the list of materials is shown.  The
\* mark of a cancelled upload, which also rules it out, is left out.
Repair(m) ==
    /\ Present(m)
    /\ source[m] # 0
    /\ State(m) = "none"
    /\ job' = [job EXCEPT ![m] = Queued(source[m], FALSE, 0)]
    /\ UNCHANGED <<matVars, rows, files, server, worker, client, requeues>>

\* retry_ingestion: the first look, and the fingerprint of the file as it is.
RetryRead(u, m) ==
    /\ Idle(u)
    /\ Present(m)
    /\ State(m) \in Settled
    /\ requeues < MaxRequeues
    /\ requeues' = requeues + 1
    /\ Continues(u, "retry", m, source[m])
    /\ UNCHANGED <<matVars, dbVars, server, worker>>

\* retry_material_job; it refuses a job that is active by now, or gone.
RetryWrite(u) ==
    LET m == client[u].m IN
    /\ client[u].pc = "retry"
    /\ job' = [job EXCEPT ![m] = IF @.state \in Active \union {"none"} THEN @
                                 ELSE Queued(client[u].hash, FALSE, 10)]
    /\ Returns(u)
    /\ UNCHANGED <<matVars, rows, files, server, worker, requeues>>

\* resume_ingestion
Resume(m) ==
    /\ Present(m)
    /\ State(m) = "paused"
    /\ requeues < MaxRequeues
    /\ requeues' = requeues + 1
    /\ job' = [job EXCEPT ![m] = Queued(@.hash, TRUE, @.priority)]
    /\ UNCHANGED <<matVars, rows, files, server, worker, client>>

\* mindos_upload_cancel: what is being processed goes on.
Cancel(m) ==
    /\ Present(m)
    /\ State(m) \in {"queued", "paused"}
    /\ SetState(m, "canceled")
    /\ UNCHANGED <<matVars, rows, files, server, worker, client, requeues>>

\* remove_from_queue: the look, the file, the rows, the record.
RemoveRead(u, m) ==
    /\ Idle(u)
    /\ Present(m)
    /\ State(m) \in {"queued", "paused", "failed", "canceled"}
    /\ Continues(u, "unlink", m, 0)
    /\ UNCHANGED <<matVars, dbVars, server, worker, requeues>>

RemoveFile(u) ==
    /\ client[u].pc = "unlink"
    /\ source' = [source EXCEPT ![client[u].m] = 0]
    /\ Continues(u, "rows", client[u].m, 0)
    /\ UNCHANGED <<record, trash, edits, dbVars, server, worker, requeues>>

RemoveRows(u) ==
    LET m == client[u].m IN
    /\ client[u].pc = "rows"
    /\ job' = [job EXCEPT ![m] = NoJob]
    /\ rows' = [rows EXCEPT ![m] = [v \in Versions |-> NoRow]]
    /\ Continues(u, "delete", m, 0)
    /\ UNCHANGED <<matVars, files, server, worker, requeues>>

DeleteRecord(u) ==
    /\ client[u].pc = "delete"
    /\ record' = [record EXCEPT ![client[u].m] = "deleted"]
    /\ Returns(u)
    /\ UNCHANGED <<source, trash, edits, dbVars, server, worker, requeues>>

\* cancel_for_lifecycle, the first act of recycling and of purging.
CancelForLifecycle(m) ==
    SetState(m, IF State(m) \in Active THEN "canceled" ELSE State(m))

RecycleStart(u, m) ==
    /\ Idle(u)
    /\ Present(m)
    /\ record[m] = "kept"
    /\ CancelForLifecycle(m)
    /\ Continues(u, "bin", m, 0)
    /\ UNCHANGED <<matVars, rows, files, server, worker, requeues>>

\* The source file goes to the bin, if there is one; when the next step
\* fails it comes back.
RecycleFile(u) ==
    LET m == client[u].m IN
    /\ client[u].pc = "bin"
    /\ \/ /\ source[m] # 0
          /\ source' = [source EXCEPT ![m] = 0]
          /\ trash' = [trash EXCEPT ![m] = source[m]]
          /\ Continues(u, "recycled", m, 0)
       \/ UNCHANGED <<source, trash>> /\ Returns(u)
    /\ UNCHANGED <<record, edits, dbVars, server, worker, requeues>>

RecycleEnd(u) ==
    LET m == client[u].m IN
    /\ client[u].pc = "recycled"
    /\ \/ Present(m) /\ record' = [record EXCEPT ![m] = "recycled"]
          /\ UNCHANGED <<source, trash>>
       \/ source' = [source EXCEPT ![m] = trash[m]] /\ trash' = [trash EXCEPT ![m] = 0]
          /\ UNCHANGED record
    /\ Returns(u)
    /\ UNCHANGED <<edits, dbVars, server, worker, requeues>>

Unrecycle(m) ==
    /\ Present(m)
    /\ record[m] = "recycled"
    /\ source[m] # 0 \/ trash[m] # 0
    /\ source' = [source EXCEPT ![m] = IF @ = 0 THEN trash[m] ELSE @]
    /\ trash' = [trash EXCEPT ![m] = IF source[m] = 0 THEN 0 ELSE @]
    /\ record' = [record EXCEPT ![m] = "kept"]
    /\ UNCHANGED <<edits, dbVars, server, worker, client, requeues>>

\* purge_material: the job and the snapshots stay, unreachable.
PurgeStart(u, m) ==
    /\ Idle(u)
    /\ Present(m)
    /\ CancelForLifecycle(m)
    /\ Continues(u, "erase", m, 0)
    /\ UNCHANGED <<matVars, rows, files, server, worker, requeues>>

PurgeFiles(u) ==
    LET m == client[u].m IN
    /\ client[u].pc = "erase"
    /\ source' = [source EXCEPT ![m] = 0]
    /\ trash' = [trash EXCEPT ![m] = IF record[m] = "recycled" THEN 0 ELSE @]
    /\ Continues(u, "delete", m, 0)
    /\ UNCHANGED <<record, edits, dbVars, server, worker, requeues>>

\* Calls of several steps, each in a request thread.
Call(u) ==
    \/ \E m \in Materials :
          Upload(u, m) \/ RetryRead(u, m) \/ RemoveRead(u, m)
          \/ RecycleStart(u, m) \/ PurgeStart(u, m)
    \/ Enqueue(u) \/ RetryWrite(u)
    \/ RemoveFile(u) \/ RemoveRows(u) \/ DeleteRecord(u)
    \/ RecycleFile(u) \/ RecycleEnd(u) \/ PurgeFiles(u)

\* Calls of one step, from any thread.
QuickCall(m) == Repair(m) \/ Resume(m) \/ Cancel(m) \/ Unrecycle(m)

\* The file is given content c, the one the job was queued with, while the
\* worker holds what it parsed before.
Restores(m, c) ==
    worker.m = m /\ worker.pc \in {"extracted", "fence"} /\ worker.hash = c

\* Another program writes the source file: a new content, or an old one (an
\* undo, a synchronised folder).
Edit(m) ==
    /\ source[m] # 0
    /\ edits < MaxEdits
    /\ edits' = edits + 1
    /\ \E c \in 1..MaxContent \ {source[m]} :
          /\ source' = [source EXCEPT ![m] = c]
          /\ worker' = [worker EXCEPT !.restored = @ \/ Restores(m, c)]
    /\ UNCHANGED <<record, trash, dbVars, server, client, requeues>>

----------------------------------------------------------------------------
(* The process.                                                            *)

Crash ==
    /\ server # "down"
    /\ server' = "down"
    /\ worker' = IdleWorker
    /\ client' = [u \in Clients |-> IdleClient]
    /\ UNCHANGED <<matVars, dbVars, requeues>>

\* recover_pipeline, first half: what was under way waits for the user.
Boot ==
    /\ server = "down"
    /\ server' = "recovering"
    /\ job' = [m \in Materials |-> Paused(job[m])]
    /\ UNCHANGED <<matVars, rows, files, worker, client, requeues>>

\* Variation: recovery takes every row that names a file for an unfinished one.
NamesFile(r) == r.state # "none" /\ r.file

Unfinished(r) == r.state = "preparing"

\* _rollback_preparing: the file, then the row.
RollBack(m, v) ==
    /\ server = "recovering"
    /\ Unfinished(rows[m][v])
    /\ IF <<m, v>> \in files
       THEN files' = files \ {<<m, v>>} /\ UNCHANGED rows
       ELSE rows' = Discarded(m, v) /\ UNCHANGED files
    /\ UNCHANGED <<matVars, job, server, worker, client, requeues>>

Recovered ==
    /\ server = "recovering"
    /\ \A m \in Materials, v \in Versions : rows[m][v].state # "preparing"
    /\ server' = "up"
    /\ UNCHANGED <<matVars, dbVars, worker, client, requeues>>

Recovery == Boot \/ Recovered \/ \E m \in Materials, v \in Versions : RollBack(m, v)

Next ==
    \/ WorkerStep
    \/ Recovery
    \/ Crash
    \/ \E u \in Clients : server = "up" /\ Call(u)
    \/ \E m \in Materials : (server = "up" /\ QuickCall(m)) \/ Edit(m)

\* The worker's thread is scheduled and parsing ends; a server that went
\* down is started again.  Nothing is assumed of the users.
Fairness == WF_vars(WorkerStep) /\ WF_vars(Recovery)

Spec == Init /\ [][Next]_vars /\ Fairness

----------------------------------------------------------------------------
(* Properties.                                                             *)

TypeOK ==
    /\ record \in [Materials -> {"none", "kept", "recycled", "deleted"}]
    /\ source \in [Materials -> 0..MaxContent]
    /\ trash \in [Materials -> 0..MaxContent]
    /\ job \in [Materials ->
          [state : {"none", "paused"} \union Active \union Settled, hash : 0..MaxContent,
           current : BOOLEAN, resumed : BOOLEAN, priority : {0, 10}]]
    /\ rows \in [Materials -> [Versions ->
          [state : {"none", "preparing", "ready", "discarded"}, hash : 0..MaxContent,
           text : 0..MaxContent, file : BOOLEAN, superseded : BOOLEAN,
           fenced : BOOLEAN, restored : BOOLEAN]]]
    /\ files \subseteq Materials \X Versions
    /\ server \in {"down", "recovering", "up"}

\* The text of every ready snapshot can be read, superseded ones included,
\* which conversations cite: its file was in place before the row said so,
\* and no rollback, retry or failed attempt takes it away or writes over it.
SnapshotReadable == \A m \in Materials, v \in Versions :
    rows[m][v].state = "ready" /\ rows[m][v].file => <<m, v>> \in files

\* A snapshot whose fingerprint was compared holds the text of that very
\* content, although the file is edited, recycled, restored from the bin or
\* removed at any time between the enqueue, the parsing, the comparison and
\* the commit; the one way past the fence is an edit that puts the content of
\* the fingerprint back between the parsing and the comparison.
FencedUnlessRestored == \A m \in Materials, v \in Versions :
    LET r == rows[m][v] IN
    r.state = "ready" /\ r.fenced /\ ~ r.restored => r.text = r.hash

\* A material has at most one visible snapshot, and a job that ended well has
\* produced it: the snapshot bears the fingerprint the job was last queued
\* with (that its text is that of the fingerprint is up to the fence).
DraftReadyIsCurrent == \A m \in Materials :
    /\ Cardinality({v \in Versions : Visible(rows[m][v])}) <= 1
    /\ State(m) = "draft_ready" =>
          Current(m) # 0 /\ rows[m][Current(m)].hash = job[m].hash

\* What could be read stays readable while it is parsed again: a failed,
\* cancelled or interrupted attempt never costs the current snapshot, and only
\* a newer one or the removal of the material takes its place.
CurrentKept ==
    [][\A m \in Materials : Current(m)' >= Current(m) \/ State(m)' = "none"]_vars

\* Work that was interrupted is not resumed by itself: what is being processed
\* was queued or resumed by a user of this process, and the worker is at it
\* (no job is left processing by a path that forgot to end it).
OnlyAskedWork == \A m \in Materials :
    State(m) = "processing" /\ server = "up" =>
        job[m].current /\ worker.m = m

\* A job that is queued comes to an end, or waits for the user after a restart.
JobSettles == \A m \in Materials : State(m) = "queued" ~> State(m) \notin Active

=============================================================================
