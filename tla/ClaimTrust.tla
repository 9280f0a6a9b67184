----------------------------- MODULE ClaimTrust -----------------------------
(***************************************************************************)
(* What the trust machine of the ontology promises about a claim, whoever  *)
(* touches it and in whatever order: the system may propose a claim and    *)
(* withdraw one that is still a proposal; everything else is the user's    *)
(* word, and a claim that was withdrawn or replaced stays so.              *)
(*                                                                         *)
(*   backend/mindos/stores/ontology_store.py:1-14   the states             *)
(***************************************************************************)

CONSTANT Ids

VARIABLE trust    \* the state of each claim and who put it there

Unborn == [state |-> "none", by |-> "nobody"]

Init == trust = [i \in Ids |-> Unborn]

Step(i, states, s, who) ==
    /\ trust[i].state \in states
    /\ trust' = [trust EXCEPT ![i] = [state |-> s, by |-> who]]

Propose(i) == Step(i, {"none"}, "working", "system")

Declare(i) == Step(i, {"none", "working"}, "confirmed", "user")

Withdraw(i) == \E who \in {"user", "system"} : Step(i, {"working"}, "retracted", who)

Retract(i) == Step(i, {"confirmed"}, "retracted", "user")

\* The user's rewording j takes the place of i in one step.
Replace(i, j) ==
    /\ trust[i].state \in {"working", "confirmed"}
    /\ trust[j].state = "none"
    /\ trust' = [trust EXCEPT ![i] = [state |-> "superseded", by |-> "user"],
                              ![j] = [state |-> "confirmed", by |-> "user"]]

Next ==
    \E i \in Ids :
        \/ Propose(i)
        \/ Declare(i)
        \/ Withdraw(i)
        \/ Retract(i)
        \/ \E j \in Ids : Replace(i, j)

Spec == Init /\ [][Next]_trust

=============================================================================
