------------------------------ MODULE Answers ------------------------------
(***************************************************************************)
(* What a conversation promises of each request, whoever sends it, how     *)
(* often, and whatever stops in between: a question is stored before its   *)
(* answer, an answer is first marked aborted and completed at most once, a *)
(* receipt is of a stored answer, each follow-up comes once and after the  *)
(* receipt of a complete answer, and a deleted conversation stays empty.   *)
(*                                                                         *)
(*   backend/mindos/zhijun/turn.py:1                 the order of a turn   *)
(*   backend/mindos/stores/conversation_store.py:23  the tables            *)
(***************************************************************************)

CONSTANTS Requests, Kinds

VARIABLES
    conv,      \* the conversation: open or deleted
    asked,     \* requests whose question is stored
    answer,    \* the answer of each request
    receipt,   \* requests whose answer has a receipt
    followed   \* how often each kind of follow-up was enqueued for it

vars == <<conv, asked, answer, receipt, followed>>

Init ==
    /\ conv = "open"
    /\ asked = {}
    /\ answer = [r \in Requests |-> "none"]
    /\ receipt = {}
    /\ followed = [r \in Requests |-> [k \in Kinds |-> 0]]

Ask(r) ==
    /\ conv = "open"
    /\ asked' = asked \union {r}
    /\ UNCHANGED <<conv, answer, receipt, followed>>

Answer(r, from, to) ==
    /\ conv = "open"
    /\ r \in asked
    /\ answer[r] = from
    /\ answer' = [answer EXCEPT ![r] = to]
    /\ UNCHANGED <<conv, asked, receipt, followed>>

Attempt(r)  == Answer(r, "none", "aborted")
Complete(r) == Answer(r, "aborted", "complete")

Confirm(r) ==
    /\ answer[r] # "none"
    /\ receipt' = receipt \union {r}
    /\ UNCHANGED <<conv, asked, answer, followed>>

\* A turn that was complete goes on although its conversation is deleted.
Follow(r, k) ==
    /\ conv = "open" => answer[r] = "complete" /\ r \in receipt
    /\ followed[r][k] = 0
    /\ followed' = [followed EXCEPT ![r][k] = 1]
    /\ UNCHANGED <<conv, asked, answer, receipt>>

Delete ==
    /\ conv = "open"
    /\ conv' = "deleted"
    /\ asked' = {}
    /\ answer' = [r \in Requests |-> "none"]
    /\ receipt' = {}
    /\ UNCHANGED followed

Next ==
    \/ \E r \in Requests :
          \/ Ask(r)
          \/ Attempt(r)
          \/ Complete(r)
          \/ Confirm(r)
          \/ \E k \in Kinds : Follow(r, k)
    \/ Delete

Spec == Init /\ [][Next]_vars

=============================================================================
