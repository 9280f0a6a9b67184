-------------------------- MODULE ConversationTurn --------------------------
(***************************************************************************)
(* One conversation: the threads that run its turns, the rows they write,  *)
(* the jobs they leave behind, and the deletion of the conversation.       *)
(*                                                                         *)
(*   backend/mindos/zhijun/turn.py               run_turn, _run_routed     *)
(*   backend/mindos/zhijun/gate.py               ConversationLocks         *)
(*   backend/mindos/stores/conversation_store.py messages and receipts     *)
(*   backend/mindos/conversations.py             post_message, delete      *)
(*                                                                         *)
(* A request is what the client gives one requestId (or the message id of  *)
(* an import): submitted again, it finds the user message and the reply of *)
(* its first run under the same ids.  run_turn is a generator; wherever it *)
(* yields, the client may leave, and what follows is its finally clauses.  *)
(* The path of the demonstration provider (_run_locked), the plan of a     *)
(* turn and its supplementary lookup are left out.                         *)
(*                                                                         *)
(* A definition marked "Variation" is a plausible defect of the definition *)
(* that follows it; no action uses it.                                     *)
(***************************************************************************)
EXTENDS ProviderGate, Sequences

CONSTANTS
    Turns,       \* threads that run a turn of this conversation
    Importer,    \* the one of them that is the import worker, which never leaves
    Requests,    \* requests, each with its own user message and reply ids
    Imports,     \* those that are batches of files
    Deliberate   \* those sent in the mode "deliberate"

NoTurn == "free"
NoRequest == "none"

ASSUME ConversationTurnAssumption ==
    /\ Turns \subseteq Callers \ Background
    /\ NoTurn \notin Turns
    /\ Imports \subseteq Requests
    /\ Deliberate \subseteq Requests \ Imports

\* In the order in which they are enqueued.
FollowUps == <<"draft_turn", "charter_draft", "extract_turn">>
Kinds == {FollowUps[i] : i \in DOMAIN FollowUps}

VARIABLES
    conv,      \* the conversation: open or deleted
    user,      \* requests whose user message is stored
    reply,     \* messages: status of the reply of each request
    receipt,   \* turn_receipts: requests whose reply has one
    enqueued,  \* how often each follow-up of a request was enqueued
    lock,      \* the conversation's lock: the turn that holds it
    turn       \* where each thread is

rows == <<user, reply, receipt>>
turnVars == <<conv, user, reply, receipt, enqueued, lock, turn>>

IdleTurn == [pc |-> "idle", req |-> NoRequest, known |-> FALSE, had |-> FALSE,
             out |-> "none", next |-> 1]

TurnInit ==
    /\ GateInit
    /\ conv = "open"
    /\ user = {}
    /\ reply = [r \in Requests |-> "none"]
    /\ receipt = {}
    /\ enqueued = [r \in Requests |-> [k \in Kinds |-> 0]]
    /\ lock = NoTurn
    /\ turn = [t \in Turns |-> IdleTurn]

----------------------------------------------------------------------------
(* Where a turn goes next.                                                 *)

Request(t) == turn[t].req

At(t, pc) == turn[t].pc = pc

Go(t, pc) == turn' = [turn EXCEPT ![t].pc = pc]

\* A turn at pc that remembers nothing but its request and its outcome.
TurnAt(t, pc, out) == [IdleTurn EXCEPT !.pc = pc, !.req = turn[t].req, !.out = out]

Goes(t, pc, out) == turn' = [turn EXCEPT ![t] = TurnAt(t, pc, out)]

\* Variation: the lock is not looked at.
AlwaysAvailable == TRUE

\* conversation_locks.acquire, which does not wait.
LockAvailable == lock = NoTurn

\* The conversation exists and its lock is taken; otherwise 404 or 409.
Begin(t, r) ==
    /\ At(t, "idle")
    /\ conv = "open"
    /\ LockAvailable
    /\ lock' = t
    /\ turn' = [turn EXCEPT ![t] = [IdleTurn EXCEPT !.pc = "resolve", !.req = r]]
    /\ UNCHANGED <<gateVars, conv, rows, enqueued>>

\* Variation: a stored reply is generated again.
NothingToReplay(r) == FALSE

Replays(r) == reply[r] = "complete"

\* The rows of an earlier run.  A complete reply is replayed and the turn
\* over; a retry whose user message is gone fails.
Resolve(t) ==
    LET r == Request(t) IN
    /\ At(t, "resolve")
    /\ \/ Replays(r) /\ Goes(t, "unlock", "complete")
       \/ ~ Replays(r) /\ (r \in user \/ r \notin Imports)
          /\ turn' = [turn EXCEPT ![t].pc = "prepare",
                                  ![t].known = r \in user, ![t].had = reply[r] # "none"]
       \/ ~ Replays(r) /\ r \notin user /\ Goes(t, "unlock", "raised")
    /\ UNCHANGED <<gateVars, conv, rows, enqueued, lock>>

\* prepare_chat and the first check of the plan.
Prepare(t) ==
    /\ At(t, "prepare")
    /\ Go(t, "gate") \/ Goes(t, "unlock", "raised")
    /\ UNCHANGED <<gateVars, conv, rows, enqueued, lock>>

AtGate(t) ==
    /\ At(t, "gate")
    /\ Enter(t) \/ Retest(t)
    /\ UNCHANGED turnVars

Deadline(t) ==
    /\ At(t, "gate")
    /\ Overdue(t)
    /\ UNCHANGED turnVars

Busy(t) ==
    /\ At(t, "gate")
    /\ Refused(t)
    /\ Goes(t, "unlock", "busy")
    /\ UNCHANGED <<conv, rows, enqueued, lock>>

----------------------------------------------------------------------------
(* The rows of a turn.  Each write is a transaction of its own.            *)

\* append_message raises when the conversation is gone; for an import the
\* update of the known message finds no row and falls through to it.
WriteUser(t) ==
    LET r == Request(t)
        writes == conv = "open" \/ (turn[t].known /\ r \notin Imports)
    IN
    /\ At(t, "gate")
    /\ call[t] = "in"
    /\ IF writes THEN Go(t, "placeholder") ELSE Goes(t, "free", "raised")
    /\ user' = IF conv = "open" THEN user \union {r} ELSE user
    /\ UNCHANGED <<gateVars, conv, reply, receipt, enqueued, lock>>

\* Variation: a status is written whether or not the row is there.
Upserts(r, status) == [reply EXCEPT ![r] = status]

\* update_message changes nothing when the row is gone.
Updates(r, status) == [reply EXCEPT ![r] = IF @ = "none" THEN @ ELSE status]

\* The reply as it is when nothing more is heard of this turn: aborted.
Placeholder(t) ==
    LET r == Request(t) IN
    /\ At(t, "placeholder")
    /\ \/ turn[t].had /\ reply' = Updates(r, "aborted") /\ Goes(t, "stream", "none")
       \/ ~ turn[t].had /\ conv = "open"
          /\ reply' = [reply EXCEPT ![r] = "aborted"] /\ Goes(t, "stream", "none")
       \/ ~ turn[t].had /\ conv = "deleted"
          /\ UNCHANGED reply /\ Goes(t, "free", "raised")
    /\ UNCHANGED <<gateVars, conv, user, receipt, enqueued, lock>>

\* The client leaves at meta or at the first provenance, before the stream.
LeaveEarly(t) ==
    /\ At(t, "stream")
    /\ t # Importer
    /\ Goes(t, "free", "raised")
    /\ UNCHANGED <<gateVars, conv, rows, enqueued, lock>>

\* The stream ends: with an answer, an error, or an exception that is not
\* caught (the client left, above all), which leaves the status aborted.
Stream(t, out) ==
    /\ At(t, "stream")
    /\ Goes(t, "finish", out)
    /\ UNCHANGED <<gateVars, conv, rows, enqueued, lock>>

\* Neither an error nor an aborted reply is replayed; they are stored alike.
Stored(out) == IF out = "complete" THEN "complete" ELSE "aborted"

\* The finally of the stream, first half.
Finish(t) ==
    /\ At(t, "finish")
    /\ reply' = Updates(Request(t), Stored(turn[t].out))
    /\ Go(t, "receipt")
    /\ UNCHANGED <<gateVars, conv, user, receipt, enqueued, lock>>

\* Variation: follow-ups whatever became of the reply.
FollowsAlways(out) == "follow"

\* Where a turn goes with its receipt stored.
AfterReceipt(out) ==
    CASE out = "complete" -> "follow"
      [] out = "error"    -> "report"
      [] out = "aborted"  -> "free"

\* The second half: the row refers to the conversation, which must be there.
Receipt(t) ==
    /\ At(t, "receipt")
    /\ \/ /\ conv = "open"
          /\ receipt' = receipt \union {Request(t)}
          /\ Go(t, AfterReceipt(turn[t].out))
       \/ /\ conv = "deleted"
          /\ Goes(t, "free", "raised")
          /\ UNCHANGED receipt
    /\ UNCHANGED <<gateVars, conv, user, reply, enqueued, lock>>

\* The error event of a turn without an answer.
Report(t) ==
    /\ At(t, "report")
    /\ Go(t, "free")
    /\ UNCHANGED <<gateVars, conv, rows, enqueued, lock>>

----------------------------------------------------------------------------
(* The follow-ups, the end of a turn, and the other callers.               *)

\* Discussions of files are not followed up by charter or memory work; for
\* memory the conversation must still be there.
MayFollow(r, k) ==
    /\ k = "draft_turn" => r \in Deliberate
    /\ k = "charter_draft" => r \notin Imports
    /\ k = "extract_turn" => r \notin Imports /\ conv = "open"

\* Enqueued, or skipped: by policy, or because the enqueue failed, which
\* does not harm the answer.
FollowUp(t) ==
    LET r == Request(t)
        k == FollowUps[turn[t].next]
    IN
    /\ At(t, "follow")
    /\ IF turn[t].next < Len(FollowUps)
       THEN turn' = [turn EXCEPT ![t].next = @ + 1]
       ELSE Goes(t, "free", "complete")
    /\ \/ MayFollow(r, k)
          /\ enqueued' = [enqueued EXCEPT ![r][k] = IF @ < 2 THEN @ + 1 ELSE @]
       \/ UNCHANGED enqueued
    /\ UNCHANGED <<gateVars, conv, rows, lock>>

\* The client leaves between two follow-ups.
LeaveFollow(t) ==
    /\ At(t, "follow")
    /\ t # Importer
    /\ Goes(t, "free", "complete")
    /\ UNCHANGED <<gateVars, conv, rows, enqueued, lock>>

FreeSlot(t) ==
    /\ At(t, "free")
    /\ Release(t)
    /\ Go(t, "unlock")
    /\ UNCHANGED <<conv, rows, enqueued, lock>>

\* Variation: the early return of a refused turn keeps the lock.
UnlockUnlessBusy(t) ==
    /\ At(t, "unlock")
    /\ lock' = IF turn[t].out = "busy" THEN lock ELSE NoTurn
    /\ IF t = Importer THEN Go(t, "ended") ELSE turn' = [turn EXCEPT ![t] = IdleTurn]
    /\ UNCHANGED <<gateVars, conv, rows, enqueued>>

\* The outcome of the import worker's turn is looked at later.
Unlock(t) ==
    /\ At(t, "unlock")
    /\ lock' = NoTurn
    /\ IF t = Importer THEN Go(t, "ended") ELSE turn' = [turn EXCEPT ![t] = IdleTurn]
    /\ UNCHANGED <<gateVars, conv, rows, enqueued>>

\* Calls of other conversations and of background jobs.
OtherCall(c) ==
    /\ c \in Callers \ Turns
    /\ GateStep(c)
    /\ UNCHANGED turnVars

\* DELETE FROM conversations; messages and receipts go with it.
DeleteConversation ==
    /\ conv = "open"
    /\ conv' = "deleted"
    /\ user' = {}
    /\ reply' = [r \in Requests |-> "none"]
    /\ receipt' = {}
    /\ UNCHANGED <<gateVars, enqueued, lock, turn>>

\* The process ends: threads, locks and slots vanish, the rows stay.
TurnCrash ==
    /\ GateReset
    /\ lock' = NoTurn
    /\ turn' = [t \in Turns |-> IdleTurn]
    /\ UNCHANGED <<conv, rows, enqueued>>

\* What a turn does on its own, once begun.
Proceed(t) ==
    \/ Resolve(t)
    \/ Prepare(t)
    \/ AtGate(t)
    \/ Busy(t)
    \/ WriteUser(t)
    \/ Placeholder(t)
    \/ \E out \in {"complete", "error", "aborted"} : Stream(t, out)
    \/ Finish(t)
    \/ Receipt(t)
    \/ FollowUp(t)
    \/ FreeSlot(t)
    \/ Unlock(t)

Leave(t) == LeaveEarly(t) \/ LeaveFollow(t)

=============================================================================
