----------------------------- MODULE ChatImport -----------------------------
(***************************************************************************)
(* A batch of files dropped into a conversation: the routes that move it   *)
(* on, the worker that waits for its files and has the conversation reply, *)
(* and the recovery of a restarted server.  Composes ConversationTurn, in  *)
(* which the worker is one of the threads, and through it ProviderGate.    *)
(*                                                                         *)
(*   backend/mindos/chat_imports.py              process_batch, recover    *)
(*   backend/mindos/chat_import_routes.py        the routes                *)
(*   backend/mindos/stores/chat_import_store.py  the table                 *)
(*                                                                         *)
(* Outside a workspace (with ZHIJUN_WORKSPACE_ID imports are disabled).    *)
(* The files of the batch are seen only through what batch_view says of    *)
(* them together, any of which may be the case at any time.  A route reads *)
(* the batch, does work that takes a while (an upload, the material        *)
(* pipeline, a remote decision) and then writes a state without a second   *)
(* look: two steps.                                                        *)
(*                                                                         *)
(* A definition marked "Variation" is a plausible defect of the definition *)
(* that follows it; no action uses it.                                     *)
(***************************************************************************)
EXTENDS ConversationTurn

CONSTANTS
    Batch,   \* the batch, a request of the conversation
    Routes   \* request threads that act on the batch

ASSUME ChatImportAssumption == Imports = {Batch} /\ Importer \in Turns

BatchStates == {"absent", "uploading", "queued", "waiting", "replying", "paused",
                "consent", "rag_consent", "failed", "complete"}

\* The files together: one is still to be sent, being read, or paused;
\* none can be read; or what can be read has been.
FileViews == {"pending", "reading", "paused", "none", "ready"}

VARIABLES
    batch,   \* chat_import_batches: state of the batch
    worker,  \* where the import worker is
    route    \* what each route is about to write

importVars == <<batch, worker, route>>
vars == <<gateVars, turnVars, importVars>>

Up == worker # "down"

Init ==
    /\ TurnInit
    /\ batch = "absent"
    /\ worker = "down"
    /\ route = [p \in Routes |-> "idle"]

\* update: a write that finds no row changes nothing.
SetBatch(s) == batch' = IF batch = "absent" THEN batch ELSE s

----------------------------------------------------------------------------
(* The routes.                                                             *)

\* create: the user message and the batch in one transaction.
CreateImport ==
    /\ Up
    /\ conv = "open"
    /\ batch = "absent"
    /\ batch' = "uploading"
    /\ user' = user \union {Batch}
    /\ UNCHANGED <<gateVars, conv, reply, receipt, enqueued, lock, turn,
                   worker, route>>

\* The states in which each route goes on.  resume asks for a pending task,
\* which a batch may have from a missing consent until after its reply,
\* whatever its state is by then.
Admits(kind) ==
    CASE kind = "upload"     -> batch = "complete"
      [] kind = "seal"       -> batch \notin {"complete", "replying"}
      [] kind = "retry"      -> batch \notin {"complete", "replying"}
      [] kind = "retry_file" -> batch # "replying"
      [] kind = "consent"    -> batch = "consent"
      [] kind = "rag"        -> batch = "rag_consent"
      [] kind = "resume"     -> TRUE

RouteKinds == {"upload", "seal", "retry", "retry_file", "consent", "rag", "resume"}

\* What it will write: an upload to a complete batch reopens it, a decision
\* about sensitive material releases or pauses it, the others queue it.
Writes(kind) ==
    CASE kind = "upload" -> {"uploading"}
      [] kind = "rag"    -> {"queued", "paused"}
      [] OTHER           -> {"queued"}

RouteRead(p, kind) ==
    /\ Up
    /\ route[p] = "idle"
    /\ batch # "absent"
    /\ Admits(kind)
    /\ \E s \in Writes(kind) : route' = [route EXCEPT ![p] = s]
    /\ UNCHANGED <<gateVars, turnVars, batch, worker>>

RouteWrite(p) ==
    /\ route[p] # "idle"
    /\ SetBatch(route[p])
    /\ route' = [route EXCEPT ![p] = "idle"]
    /\ UNCHANGED <<gateVars, turnVars, worker>>

----------------------------------------------------------------------------
(* The worker.                                                             *)

\* Variation: a batch that was being replied to is not recovered.
SkipsReplying ==
    CASE batch = "rag_consent" -> "queued"
      [] batch \in {"uploading", "waiting", "queued"} ->
            IF reply[Batch] = "complete" THEN "complete" ELSE "paused"
      [] OTHER -> batch

\* recover
Recovered ==
    CASE batch = "rag_consent" -> "queued"
      [] batch \in {"uploading", "replying", "waiting", "queued"} ->
            IF reply[Batch] = "complete" THEN "complete" ELSE "paused"
      [] OTHER -> batch

StartWorker ==
    /\ worker = "down"
    /\ batch' = Recovered
    /\ worker' = "poll"
    /\ UNCHANGED <<gateVars, turnVars, route>>

\* store.batches(); other states than these give the worker nothing to do.
ReadBatch ==
    /\ worker = "poll"
    /\ \/ batch = "uploading" /\ worker' = "uploads"
       \/ batch \in {"queued", "waiting"} /\ worker' = "files"
    /\ UNCHANGED <<gateVars, turnVars, batch, route>>

\* A batch that was being uploaded: every file is there, or the upload has
\* made no progress for three minutes, or nothing yet.
LookUploads ==
    /\ worker = "uploads"
    /\ \/ SetBatch("queued") /\ worker' = "files"
       \/ SetBatch("paused") /\ worker' = "poll"
       \/ UNCHANGED batch /\ worker' = "poll"
    /\ UNCHANGED <<gateVars, turnVars, route>>

\* What the look at the files makes of a batch that waits for them.
Looked(view) ==
    CASE view \in {"pending", "reading"} -> "waiting"
      [] view = "paused"                 -> "paused"
      [] view = "none"                   -> "failed"
      [] view = "ready"                  -> "replying"

LookFiles(view) ==
    /\ worker = "files"
    /\ SetBatch(Looked(view))
    /\ worker' = IF view = "ready" THEN "prepare" ELSE "poll"
    /\ UNCHANGED <<gateVars, turnVars, route>>

\* How an exception leaves the batch.
RaisedStates == {"consent", "rag_consent", "failed"}

\* prepare_chat raises, the conversation is gone, or its lock is taken.
PrepareFails ==
    /\ worker = "prepare"
    /\ \/ \E s \in RaisedStates : SetBatch(s)
       \/ conv = "deleted" /\ SetBatch("failed")
       \/ conv = "open" /\ ~ LockAvailable /\ SetBatch("queued")
    /\ worker' = "poll"
    /\ UNCHANGED <<gateVars, turnVars, route>>

StartTurn ==
    /\ worker = "prepare"
    /\ Begin(Importer, Batch)
    /\ worker' = "turn"
    /\ UNCHANGED <<batch, route>>

InTurn ==
    /\ worker = "turn"
    /\ Proceed(Importer)
    /\ UNCHANGED importVars

\* The error event reaches the worker while the turn still runs.
ErrorEvent ==
    /\ worker = "turn"
    /\ Report(Importer)
    /\ SetBatch("failed")
    /\ UNCHANGED <<worker, route>>

\* Variation: a refused turn is taken for an answer.
DoneWith(out) ==
    CASE out \in {"complete", "busy"} -> {"complete"}
      [] out = "error"                -> {batch}
      [] out = "aborted"              -> {"failed"}
      [] out = "raised"               -> RaisedStates

\* What becomes of the batch when run_turn is over; after an error event it
\* is left as it is, which may no longer be failed.
Concludes(out) ==
    CASE out = "complete" -> {"complete"}
      [] out = "busy"     -> {"queued"}
      [] out = "error"    -> {batch}
      [] out = "aborted"  -> {"failed"}
      [] out = "raised"   -> RaisedStates

TurnOver ==
    /\ worker = "turn"
    /\ turn[Importer].pc = "ended"
    /\ \E s \in Concludes(turn[Importer].out) : SetBatch(s)
    /\ turn' = [turn EXCEPT ![Importer] = IdleTurn]
    /\ worker' = "poll"
    /\ UNCHANGED <<gateVars, conv, rows, enqueued, lock, route>>

WorkerStep ==
    \/ StartWorker
    \/ ReadBatch
    \/ LookUploads
    \/ \E view \in FileViews : LookFiles(view)
    \/ PrepareFails
    \/ StartTurn
    \/ InTurn
    \/ ErrorEvent
    \/ TurnOver

----------------------------------------------------------------------------

ThreadStep(t) ==
    /\ Proceed(t) \/ Report(t)
    /\ UNCHANGED importVars

\* A request is sent, for the first time or once more.
Submit(t) ==
    /\ Up
    /\ \E r \in Requests \ Imports : Begin(t, r)
    /\ UNCHANGED importVars

Delete ==
    /\ Up
    /\ DeleteConversation
    /\ batch' = "absent"
    /\ UNCHANGED <<worker, route>>

Crash ==
    /\ Up
    /\ TurnCrash
    /\ worker' = "down"
    /\ route' = [p \in Routes |-> "idle"]
    /\ UNCHANGED batch

Threads == Turns \ {Importer}

Next ==
    \/ WorkerStep
    \/ \E t \in Threads : ThreadStep(t) \/ Submit(t) \/ (Leave(t) /\ UNCHANGED importVars)
    \/ \E t \in Turns : Deadline(t) /\ UNCHANGED importVars
    \/ \E c \in Callers : Up /\ OtherCall(c) /\ UNCHANGED importVars
    \/ \E p \in Routes : RouteWrite(p) \/ \E kind \in RouteKinds : RouteRead(p, kind)
    \/ CreateImport
    \/ Delete
    \/ Crash

\* Threads are scheduled, deadlines pass and providers time out; nothing is
\* assumed of clients, of other callers of the gate, or of the files.
Fairness ==
    /\ WF_vars(WorkerStep)
    /\ \A t \in Threads : WF_vars(ThreadStep(t))
    /\ \A t \in Turns : WF_vars(Deadline(t) /\ UNCHANGED importVars)

Spec == Init /\ [][Next]_vars /\ Fairness

----------------------------------------------------------------------------
(* Properties.                                                             *)

TypeOK ==
    /\ GateTypeOK
    /\ conv \in {"open", "deleted"}
    /\ user \subseteq Requests
    /\ reply \in [Requests -> {"none", "aborted", "complete"}]
    /\ receipt \subseteq Requests
    /\ enqueued \in [Requests -> [Kinds -> 0..2]]
    /\ lock \in Turns \union {NoTurn}
    /\ batch \in BatchStates
    /\ worker \in {"down", "poll", "uploads", "files", "prepare", "turn"}
    /\ route \in [Routes -> {"idle", "uploading", "queued", "paused"}]

\* A complete reply is never turned back into an aborted or failed one: not
\* by a request that is sent twice, a retry, a crash, a batch that is queued
\* again or a turn that began before; it goes only with its conversation.
CompleteReplyFinal ==
    [][\A r \in Requests :
          reply[r] = "complete" => reply'[r] = "complete" \/ conv' = "deleted"]_vars

\* Every row of the conversation changes only as Answers allows, whichever
\* turns, retries, imports, leaving clients, deletions and crashes interleave:
\* a question before its answer, one completion, a receipt of what is stored,
\* follow-ups once and after the receipt, and nothing after a deletion.
Rows == INSTANCE Answers WITH asked <- user, answer <- reply, followed <- enqueued

AnswersKept == Rows!Spec

\* A request is organized once: however often it is sent again and whatever
\* crashed or left, none of its follow-up jobs is enqueued twice.
FollowedUpOnce == \A r \in Requests, k \in Kinds : enqueued[r][k] <= 1

\* A follow-up works on a reply that is complete and has its receipt, unless
\* the conversation was deleted.
FollowUpHasReply == \A r \in Requests, k \in Kinds :
    enqueued[r][k] > 0 =>
        conv = "deleted" \/ (reply[r] = "complete" /\ r \in receipt)

\* What a turn still writes after its conversation was deleted leaves no
\* message, receipt or batch behind.
NoOrphanRows == conv = "deleted" =>
    /\ user = {}
    /\ \A r \in Requests : reply[r] = "none"
    /\ receipt = {}
    /\ batch = "absent"

\* A batch that shows "replying" refuses uploads and retries, so somebody
\* must be about to move it on: the worker, or the recovery of the next start.
ReplyingHasWorker == batch = "replying" => worker \in {"prepare", "turn", "down"}

\* A batch is complete only with a complete reply, also when it was reopened,
\* queued behind the worker's back or recovered.
BatchCompleteHasReply == batch = "complete" => reply[Batch] = "complete"

\* The conversation is always usable again: every turn that takes its lock
\* gives it back, whether the gate refuses it, its rows vanish, the client
\* leaves or the server ends.
LockGivenBack == []<>(lock = NoTurn)

=============================================================================
