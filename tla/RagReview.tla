------------------------------- MODULE RagReview -------------------------------
(***************************************************************************)
(* What the user is asked about retrieved materials before they enter a    *)
(* reply: the entry a search leaves behind, the decisions on it, and the   *)
(* validation of the chosen evidence before each request to a model.       *)
(*                                                                         *)
(*   backend/mindos/data_agent_rag.py                                      *)
(*                                                                         *)
(* One interaction id, a key of _entries.  An entry that is no longer      *)
(* under the key lives on in the threads that hold it, then it is gone;    *)
(* its name, which stands for its actual_search_id, may then be used for   *)
(* another search.  Each section under _lock is a step, and each answer of *)
(* the data agent, which is outside the repository: it gives nothing for a *)
(* token once the content has changed, and answers a repeated idempotency  *)
(* key as before.  A content is a number.                                  *)
(*                                                                         *)
(* A definition marked "Variation" is a plausible defect of the definition *)
(* that follows it; no action uses it.                                     *)
(***************************************************************************)
EXTENDS Integers

CONSTANTS
    Turns,         \* threads that search and that validate
    Users,         \* threads of requests that decide
    Queries,       \* query, materials and top_k of a search
    Reviewed,      \* those searched with require_review
    Entries,       \* names of entries
    MaxText        \* bound: contents of the materials

ASSUME RagReviewAssumption ==
    /\ Reviewed \subseteq Queries
    /\ MaxText \in Nat \ {0}

NoQuery == "no query"
Nobody == "no entry"

\* A search id is never the None of a missing entry.
ASSUME RagReviewNames == Nobody \notin Entries

\* Checked, sensitive as confirmed, and not checked for sensitive content.
Pieces == {"clean", "sensitive", "unchecked"}

\* The decisions that say what becomes of the pieces that were not checked.
OnWithheld == {"without", "passed", "risk"}

Actions == {"cancel", "without", "selected", "passed", "masked", "original", "risk"}

VARIABLES
    live,     \* the entry under the key, if there is one
    entry,    \* the entries somebody holds
    locked,   \* entries whose decision_lock is taken
    turn,     \* where each turn is, and the evidence it holds
    user,     \* where each decision is
    text      \* the agent: the content of the materials

vars == <<live, entry, locked, turn, user, text>>

\* Of the agent: the action the entry's confirmation token was spent on, and
\* how often its risk token was presented.  History: the pieces the user
\* picked last from its prompt, and the decisions on what was withheld.
NoEntry == [query |-> NoQuery, state |-> "none", passed |-> {}, withheld |-> FALSE,
            text |-> 0, settled |-> FALSE, delivered |-> {}, token |-> "unspent",
            risks |-> 0, picked |-> {}, decided |-> {}]
IdleTurn == [pc |-> "idle", query |-> NoQuery, e |-> Nobody, text |-> 0, again |-> FALSE]
IdleUser == [pc |-> "idle", e |-> Nobody, action |-> "none", pieces |-> {}]

Init ==
    /\ live = Nobody
    /\ entry = [e \in Entries |-> NoEntry]
    /\ locked = {}
    /\ turn = [t \in Turns |-> IdleTurn]
    /\ user = [u \in Users |-> IdleUser]
    /\ text = 1

----------------------------------------------------------------------------
(* Entries.                                                                *)

\* Whose evidence can still be read.
Readable(e) == e = live \/ \E t \in Turns : turn[t].e = e

Held(e) == Readable(e) \/ \E u \in Users : user[u].e = e

\* What a decision still presents to the agent when its entry was replaced.
Detached(r) == [NoEntry EXCEPT !.text = r.text, !.token = r.token, !.risks = r.risks]

\* The entries after a step, of those that are still held.
Entered(after) ==
    entry' = [e \in Entries |-> IF Readable(e)' THEN after[e]
                                ELSE IF Held(e)' THEN Detached(after[e])
                                ELSE NoEntry]

NeedsReview(e) == entry[e].query \in Reviewed

\* An entry serves the very search that made it: the fingerprints agree, and
\* with them whether a review was asked for.
Serves(e, q) == entry[e].query = q

\* What the agent may answer: the outcome, and whether pieces are withheld
\* because they could not be checked.
Outcomes == ({"ok", "confirmation"} \X BOOLEAN)
            \union {<<"nothing", FALSE>>, <<"incomplete", TRUE>>}

\* The entry for an answer, as it is stored or handed on.
Answered(q, outcome, withheld) ==
    [NoEntry EXCEPT
        !.query = q,
        !.state = CASE outcome = "confirmation" -> "confirmation"
                    [] withheld -> "incomplete"
                    [] OTHER -> "materials",
        !.passed = IF outcome = "ok" THEN {"clean"} ELSE {},
        !.withheld = withheld,
        !.text = text]

----------------------------------------------------------------------------
(* A search.                                                               *)

InSearch(t) == turn[t].pc \in {"ask", "resolve", "store", "replay", "drop"}

Moves(t, pc) == turn' = [turn EXCEPT ![t].pc = pc]
Stops(t) == turn' = [turn EXCEPT ![t] = IdleTurn]

\* t holds the evidence of e, with the content the agent resolved it to.
Gets(t, e) == turn' = [turn EXCEPT ![t].pc = "got", ![t].e = e, ![t].text = text]

SearchUnchanged == UNCHANGED <<locked, user, text>>

\* One search of an interaction at a time.  Where an entry waits for the user
\* the prompt is shown again, and where it holds no evidence none is returned.
SearchBegin(t, q) ==
    /\ turn[t].pc = "idle"
    /\ \A s \in Turns : ~ InSearch(s)
    /\ \/ /\ live # Nobody /\ Serves(live, q) /\ entry[live].delivered # {}
          /\ turn' = [turn EXCEPT ![t] = [IdleTurn EXCEPT !.pc = "replay", !.query = q, !.e = live]]
          /\ UNCHANGED live
       \/ /\ live # Nobody => ~ Serves(live, q)
          /\ live' = Nobody
          /\ turn' = [turn EXCEPT ![t] = [IdleTurn EXCEPT !.pc = "ask", !.query = q]]
    /\ SearchUnchanged /\ Entered(entry)

\* Variation: evidence is taken as it is resolved now.
SameAsAny(e) == TRUE

\* _review_resolve: what the user chose among reads as it did then.
SameAsSeen(e) == entry[e].text = text

\* Delivered evidence is resolved again; a reference may be gone, the answer
\* may break the contract, or not come.
Replay(t) ==
    LET e == turn[t].e IN
    /\ turn[t].pc = "replay"
    /\ \/ (NeedsReview(e) => SameAsSeen(e)) /\ Gets(t, e)
       \/ Moves(t, "drop")
       \/ turn' = [turn EXCEPT ![t].pc = "drop", ![t].again = TRUE]
       \/ Stops(t)
    /\ UNCHANGED live /\ SearchUnchanged /\ Entered(entry)

\* The entry under the key goes; a search follows where the references were
\* gone.
ReplayDrop(t) ==
    /\ turn[t].pc = "drop"
    /\ live' = Nobody
    /\ IF turn[t].again
       THEN turn' = [turn EXCEPT ![t].pc = "ask", ![t].again = FALSE, ![t].e = Nobody]
       ELSE Stops(t)
    /\ SearchUnchanged /\ Entered(entry)

\* The agent fails, or finds nothing where there is nothing to review, or its
\* answer becomes an entry.
Ask(t) ==
    LET q == turn[t].query IN
    /\ turn[t].pc = "ask"
    /\ UNCHANGED live /\ SearchUnchanged
    /\ \/ Stops(t) /\ Entered(entry)
       \/ \E o \in Outcomes, e \in Entries :
            /\ ~ Held(e)
            /\ q \in Reviewed \/ o[1] # "nothing"
            /\ turn' = [turn EXCEPT ![t].e = e,
                  ![t].pc = IF q \notin Reviewed /\ o = <<"ok", FALSE>>
                            THEN "resolve" ELSE "store"]
            /\ Entered([entry EXCEPT ![e] = Answered(q, o[1], o[2])])

\* Without a review, checked pieces are resolved and delivered at once; a
\* reference that is gone by then makes the search be repeated, once.
Resolve(t) ==
    LET e == turn[t].e IN
    /\ turn[t].pc = "resolve"
    /\ UNCHANGED live /\ SearchUnchanged
    /\ \/ /\ turn' = [turn EXCEPT ![t].pc = "store", ![t].text = text]
          /\ Entered([entry EXCEPT ![e] = [@ EXCEPT !.state = "ok", !.settled = TRUE,
                                                   !.delivered = entry[e].passed]])
       \/ /\ ~ turn[t].again
          /\ turn' = [turn EXCEPT ![t].pc = "ask", ![t].again = TRUE, ![t].e = Nobody]
          /\ Entered(entry)
       \/ Stops(t) /\ Entered(entry)

\* The entry goes under the key, whatever is there; the turn goes on with the
\* evidence, or ends with the prompt.
Store(t) ==
    /\ turn[t].pc = "store"
    /\ live' = turn[t].e
    /\ IF entry[turn[t].e].settled THEN Moves(t, "got") ELSE Stops(t)
    /\ SearchUnchanged /\ Entered(entry)

----------------------------------------------------------------------------
(* reviewed_evidence: the validation before a request to a model.          *)

ValidateBegin(t) ==
    /\ turn[t].pc = "idle"
    /\ live # Nobody
    /\ NeedsReview(live)
    /\ entry[live].delivered # {}
    /\ turn' = [turn EXCEPT ![t] =
          [IdleTurn EXCEPT !.pc = "validate", !.e = live, !.query = entry[live].query]]
    /\ UNCHANGED live /\ SearchUnchanged /\ Entered(entry)

ValidateResolve(t) ==
    /\ turn[t].pc = "validate"
    /\ \/ /\ SameAsSeen(turn[t].e)
          /\ turn' = [turn EXCEPT ![t].pc = "validated", ![t].text = text]
       \/ Moves(t, "forget")
    /\ UNCHANGED live /\ SearchUnchanged /\ Entered(entry)

ValidateEnd(t) ==
    /\ turn[t].pc \in {"validated", "forget"}
    /\ live' = IF turn[t].pc = "forget" /\ live = turn[t].e THEN Nobody ELSE live
    /\ IF turn[t].pc = "validated" /\ live = turn[t].e THEN Moves(t, "got") ELSE Stops(t)
    /\ SearchUnchanged /\ Entered(entry)

\* The evidence goes into the reply.
Used(t) ==
    /\ turn[t].pc = "got"
    /\ Stops(t)
    /\ UNCHANGED live /\ SearchUnchanged /\ Entered(entry)

TurnStep(t) ==
    \/ \E q \in Queries : SearchBegin(t, q)
    \/ Replay(t)
    \/ ReplayDrop(t)
    \/ Ask(t)
    \/ Resolve(t)
    \/ Store(t)
    \/ ValidateBegin(t)
    \/ ValidateResolve(t)
    \/ ValidateEnd(t)
    \/ Used(t)

----------------------------------------------------------------------------
(* A decision.                                                             *)

\* Variation: decisions of one entry are not serialised.
NeverLocked(e) == TRUE

Lockable(e) == e \notin locked

DecisionUnchanged == UNCHANGED <<turn, text>>

\* What the state of an entry allows to be decided; nothing comes of anything
\* else.  To cancel also stands for to retry, and the agent offers a risk token
\* whenever it withholds pieces.
Allowed(e, a) ==
    CASE a \in {"cancel", "without"} -> TRUE
      [] a = "selected" -> NeedsReview(e) /\ entry[e].state = "materials"
      [] a = "passed" -> entry[e].state # "materials" /\ entry[e].passed # {}
      [] a \in {"masked", "original"} -> entry[e].state = "confirmation"
      [] a = "risk" -> entry[e].state # "materials" /\ entry[e].withheld

\* decide: the answer to a prompt.  In a review it must name the very search
\* of the entry under the key, otherwise the interaction; nothing is found for
\* the answer to an older prompt of a review.
Decide(u, a, picks) ==
    /\ user[u].pc = "idle"
    /\ live # Nobody
    /\ ~ entry[live].settled
    /\ Allowed(live, a)
    /\ Lockable(live)
    /\ picks \subseteq entry[live].passed
    /\ (picks # {}) = (a = "selected")
    /\ locked' = locked \union {live}
    /\ user' = [user EXCEPT ![u] = [pc |-> "held", e |-> live, action |-> a, pieces |-> picks]]
    /\ UNCHANGED live /\ DecisionUnchanged
    /\ Entered(IF a = "selected" THEN [entry EXCEPT ![live].picked = picks] ELSE entry)

\* The decision ends, well or not, and gives the lock back.
Ends(u) ==
    /\ user' = [user EXCEPT ![u] = IdleUser]
    /\ locked' = locked \ {user[u].e}

\* The entry is looked up again.
Recheck(u) ==
    LET e == user[u].e
        a == user[u].action
    IN
    /\ user[u].pc = "held"
    /\ \/ /\ live = e /\ ~ entry[e].settled
          /\ user' = [user EXCEPT
                ![u].pc = CASE a = "cancel" -> "drop"
                            [] a \in {"without", "passed"} -> "commit"
                            [] OTHER -> "send",
                ![u].pieces = IF a = "passed" THEN entry[e].passed ELSE @]
          /\ UNCHANGED locked
       \/ ~ (live = e /\ ~ entry[e].settled) /\ Ends(u)
    /\ UNCHANGED live /\ DecisionUnchanged /\ Entered(entry)

\* The picked pieces are resolved again.
SendSelected(u) ==
    /\ user[u].pc = "send"
    /\ user[u].action = "selected"
    /\ \/ SameAsSeen(user[u].e) /\ user' = [user EXCEPT ![u].pc = "commit"]
       \/ user' = [user EXCEPT ![u].pc = "drop"]
    /\ UNCHANGED <<live, locked>> /\ DecisionUnchanged /\ Entered(entry)

\* confirm: the key of the request is made of the search, the action and the
\* token; the answer may be lost, and the entry then stays for another try.
SendConfirm(u) ==
    LET e == user[u].e
        a == user[u].action
        accepted == entry[e].token \in {"unspent", a} /\ entry[e].text = text
    IN
    /\ user[u].pc = "send"
    /\ a \in {"masked", "original"}
    /\ UNCHANGED live /\ DecisionUnchanged
    /\ \/ /\ accepted
          /\ \/ /\ user' = [user EXCEPT ![u].pc = "commit",
                      ![u].pieces = IF a = "masked" THEN {"clean"} ELSE {"clean", "sensitive"}]
                /\ UNCHANGED locked
             \/ Ends(u)
          /\ Entered([entry EXCEPT ![e].token = a])
       \/ ~ accepted /\ user' = [user EXCEPT ![u].pc = "drop"] /\ UNCHANGED locked /\ Entered(entry)
       \/ Ends(u) /\ Entered(entry)

\* Variation: after a lost answer the entry stays, as for a confirmation.
AfterLostRiskKept(u) == Ends(u)

AfterLostRisk(u) == user' = [user EXCEPT ![u].pc = "drop"] /\ UNCHANGED locked

\* confirm_unverified: a token for one use.
SendRisk(u) ==
    LET e == user[u].e IN
    /\ user[u].pc = "send"
    /\ user[u].action = "risk"
    /\ UNCHANGED live /\ DecisionUnchanged
    /\ \/ /\ entry[e].risks = 0
          /\ entry[e].text = text
          /\ user' = [user EXCEPT ![u].pc = "commit",
                                  ![u].pieces = entry[e].passed \union {"unchecked"}]
          /\ UNCHANGED locked
       \/ AfterLostRisk(u)
    /\ Entered([entry EXCEPT ![e].risks = @ + 1])

\* Variation: what was withheld is passed over after a confirmation.
NothingLeft(e, a) == FALSE

\* A confirmation leaves open what to do with what could not be checked.
AsksAgain(e, a) == a \in {"masked", "original"} /\ entry[e].withheld

\* An entry after a decision.
Decided(e, a, pieces) ==
    LET d == [entry[e] EXCEPT !.decided = @ \union ({a} \intersect OnWithheld)] IN
    IF AsksAgain(e, a) THEN [d EXCEPT !.state = "incomplete", !.passed = pieces]
    ELSE IF NeedsReview(e) /\ a \notin {"selected", "without"}
         THEN [d EXCEPT !.state = "materials", !.passed = pieces]
    ELSE [d EXCEPT !.settled = TRUE, !.delivered = pieces]

\* It counts only if the entry is still under the key.
Commit(u) ==
    LET e == user[u].e IN
    /\ user[u].pc = "commit"
    /\ Ends(u)
    /\ UNCHANGED live
    /\ DecisionUnchanged
    /\ Entered(IF live = e
               THEN [entry EXCEPT ![e] = Decided(e, user[u].action, user[u].pieces)]
               ELSE entry)

\* What is under the key goes, this entry or a newer one.
DecisionDrop(u) ==
    /\ user[u].pc = "drop"
    /\ live' = Nobody
    /\ Ends(u)
    /\ DecisionUnchanged /\ Entered(entry)

UserStep(u) ==
    \/ \E a \in Actions, picks \in SUBSET Pieces : Decide(u, a, picks)
    \/ Recheck(u)
    \/ SendSelected(u)
    \/ SendConfirm(u)
    \/ SendRisk(u)
    \/ Commit(u)
    \/ DecisionDrop(u)

----------------------------------------------------------------------------

\* _prune: an entry is too old, or one too many.
Prune ==
    /\ live # Nobody
    /\ live' = Nobody
    /\ UNCHANGED <<locked, turn, user, text>>
    /\ Entered(entry)

\* The materials, their policy or the detector change.
Change ==
    /\ text < MaxText
    /\ text' = text + 1
    /\ UNCHANGED <<live, entry, locked, turn, user>>

Next ==
    \/ \E t \in Turns : TurnStep(t)
    \/ \E u \in Users : UserStep(u)
    \/ Prune
    \/ Change

Spec == Init /\ [][Next]_vars

----------------------------------------------------------------------------
(* Properties.                                                             *)

TypeOK ==
    /\ live \in Entries \union {Nobody}
    /\ entry \in [Entries ->
          [query : Queries \union {NoQuery}, passed : SUBSET Pieces, withheld : BOOLEAN,
           state : {"none", "materials", "confirmation", "incomplete", "ok"},
           text : 0..MaxText, settled : BOOLEAN, delivered : SUBSET Pieces,
           token : {"unspent", "masked", "original"}, risks : Nat,
           picked : SUBSET Pieces, decided : SUBSET OnWithheld]]
    /\ locked \subseteq Entries
    /\ text \in 1..MaxText

\* Evidence that enters a reply answers the query of that turn, and in a
\* review it is what the user picked from the prompt of that very search, with
\* the content the prompt showed: later searches, changed materials, prompts
\* still open in a window and decisions under way never let in anything else.
EvidenceAsReviewed == \A t \in Turns :
    LET e == turn[t].e IN
    turn[t].pc = "got" =>
        /\ entry[e].query = turn[t].query
        /\ NeedsReview(e) => /\ entry[e].delivered = entry[e].picked
                             /\ turn[t].text = entry[e].text

\* A risk token is presented to the agent at most once, also when its answer
\* is lost and the user tries again, from another window or after a new search.
RiskTokenOnce == \A e \in Entries : entry[e].risks <= 1

\* What is delivered was decided in full: sensitive pieces come from a token
\* that was spent on the originals, unchecked ones from an acceptance of the
\* risk, and where pieces were withheld a confirmation of the others never
\* settles by itself what becomes of them.
DeliveredAsDecided == \A e \in Entries :
    LET r == entry[e] IN
    r.settled =>
        /\ "sensitive" \in r.delivered => r.token = "original"
        /\ "unchecked" \in r.delivered => "risk" \in r.decided
        /\ r.withheld => r.decided # {}

\* A decision stands: what it delivered is never replaced by another decision
\* that was under way, nor by a late answer of the agent.
DecisionStands ==
    [][\A e \in Entries : entry[e].settled /\ Readable(e)' => entry'[e] = entry[e]]_vars

=============================================================================
