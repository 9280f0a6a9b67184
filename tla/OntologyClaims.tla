--------------------------- MODULE OntologyClaims ---------------------------
(***************************************************************************)
(* The user's ontology: claims, their trust states, and everyone who       *)
(* changes them concurrently.                                              *)
(*                                                                         *)
(*   backend/mindos/stores/ontology_store.py   the claims and their calls  *)
(*   backend/mindos/zhijun/extract.py          extraction from a message   *)
(*   backend/mindos/zhijun/materials.py        extraction from a material  *)
(*   backend/mindos/zhijun/consolidate.py      the consolidator            *)
(*   backend/mindos/lifecycle.py               the purge of a material     *)
(*                                                                         *)
(* A call of the store is atomic: it holds the lock and one transaction.   *)
(* What is not atomic is every caller that reads first: extraction looks   *)
(* for duplicates and tombstones, the consolidator works from a list it    *)
(* read before it asked the model about each pair, and detach_material     *)
(* counts evidence without the lock.  Reviews and the resolution of a      *)
(* conflict hold the lock throughout, so each is one action.               *)
(*                                                                         *)
(* A claim's content stands for its content hash; a verdict of the model   *)
(* is any verdict; the order in which pairs are judged is any order.  One  *)
(* direct run goes on at a time, and extraction sees every claim.  Left    *)
(* out are the cards for two confirmed or, in a managed run, equivalent    *)
(* claims, promotion, reaffirmation and deferral dates, which change no    *)
(* state, and merges of entities and purge_all, the deletion of all data.  *)
(* The process is not stopped.                                             *)
(*                                                                         *)
(* A definition marked "Variation" is a plausible defect of the definition *)
(* that follows it; no action uses it.                                     *)
(***************************************************************************)
EXTENDS Integers, FiniteSets

CONSTANTS
    Contents,    \* what claims say
    Materials,   \* material ids
    Talk,        \* evidence that is not a material's: a turn, an edit, a review
    Runs,        \* "managed": by the background worker; "direct": by POST /consolidate
    MaxClaims    \* bound: claims created

ASSUME OntologyClaimsAssumption ==
    /\ Talk \notin Materials
    /\ Runs \subseteq {"managed", "direct"}
    /\ MaxClaims \in Nat

Ids      == 1..MaxClaims
Active   == {"working", "confirmed"}
Evidence == Materials \union {Talk}
NoRow    == [state |-> "none", by |-> "nobody"]

VARIABLES
    claim,    \* claims: a record per id; ids follow created_at
    issued,   \* claims created so far
    worker,   \* what the background worker is extracting
    run,      \* where each run of the consolidator is
    purge     \* where the purge of each material is

vars == <<claim, issued, worker, run, purge>>

----------------------------------------------------------------------------
(* Rows.                                                                   *)

\* challenged: "overdue" if it was set, and updated_at written, 30 days ago.
Rows == [state: Active \union {"retracted", "superseded"}, by: {"user", "system"},
         content: Contents, evidence: SUBSET Evidence,
         challenged: {"no", "recent", "overdue"}]

Row(s, who, c, e) ==
    [state |-> s, by |-> who, content |-> c, evidence |-> e, challenged |-> "no"]

Live == {i \in Ids : claim[i].state \in Active}

\* Variation: only confirmed claims are unique by content.
ConfirmedWith(c) == \E i \in Live : claim[i].state = "confirmed" /\ claim[i].content = c

\* find_active_by_hash; ux_claims_active_hash refuses an insert while it holds.
Held(c) == \E i \in Live : claim[i].content = c

\* Variation: only what the user withdrew counts.
UserBuried(c) ==
    \E i \in 1..issued : claim[i].state = "retracted" /\ claim[i].by = "user" /\ claim[i].content = c

\* find_tombstone_by_hash
Buried(c) ==
    \E i \in Ids : claim[i].state \in {"retracted", "superseded"} /\ claim[i].content = c

\* A write of updated_at, from which the age of a challenge is counted.
Written(r) == IF r.challenged = "overdue" THEN [r EXCEPT !.challenged = "recent"] ELSE r

Settled(r, s, who) == [Written(r) EXCEPT !.state = s, !.by = who]

\* Variation: a withdrawn row is marked with a state the table has no name for.
Rejected(r, who) == Settled(r, "rejected", who)

Withdrawn(r, who) == Settled(r, "retracted", who)

\* confirm and context_only
Confirmed(r) == [Settled(r, "confirmed", "user") EXCEPT !.challenged = "no"]

Supported(r, e) == [Written(r) EXCEPT !.evidence = @ \union e]

\* Variation: set_challenged trusts its caller.
AnyChallenged(r) == [r EXCEPT !.challenged = "recent"]

Challenged(r) == IF r.state = "working" THEN [r EXCEPT !.challenged = "recent"] ELSE r

\* Variation: system_retract takes what was listed as working for granted.
RetractedListed(r) == Withdrawn(r, "system")

\* system_retract
SystemRetracted(r) == IF r.state = "working" THEN Withdrawn(r, "system") ELSE r

Update(i, r) == claim' = [claim EXCEPT ![i] = r]

\* create_claim
Create(r) ==
    /\ issued < MaxClaims
    /\ ~Held(r.content)
    /\ issued' = issued + 1
    /\ Update(issued + 1, r)

----------------------------------------------------------------------------
(* Init.                                                                   *)

Pairs(S) == {{i, j} : i, j \in S} \ {{i} : i \in S}

IdleWorker == [at |-> "idle"]
IdleRun    == [at |-> "idle", seen |-> [i \in Ids |-> NoRow], todo |-> {}]
NoPurge    == [at |-> "kept", todo |-> {}]

\* since: the claims there were when the extraction began, for NeverProposedTwice.
Extractions == [at: {"tombstone", "create"}, content: Contents, since: 0..MaxClaims]

Readings ==
    [at: {"material"}, material: Materials, content: Contents, found: 0..MaxClaims]

Lists    == [Ids -> [state: Active, evidence: SUBSET Evidence] \union {NoRow}]
Judging  == [at: {"pairs"}, seen: Lists, todo: SUBSET Pairs(Ids)]
Folding  == [at: {"fold"}, seen: Lists, todo: SUBSET Pairs(Ids), into: Ids, from: Ids]
Decaying == [at: {"decay"}, seen: Lists, todo: SUBSET Ids]

Init ==
    /\ claim = [i \in Ids |-> NoRow]
    /\ issued = 0
    /\ worker = IdleWorker
    /\ run = [r \in Runs |-> IdleRun]
    /\ purge = [m \in Materials |-> NoPurge]

----------------------------------------------------------------------------
(* The user's own calls, and the lessons a decision review leaves.         *)

UserCreates(c) ==
    /\ Create(Row("confirmed", "user", c, {Talk}))
    /\ UNCHANGED <<worker, run, purge>>

\* on_review and the first observation look for no tombstone.
LessonLearned(c) ==
    /\ Create(Row("working", "system", c, {Talk}))
    /\ UNCHANGED <<worker, run, purge>>

Review(i, states, r) ==
    /\ claim[i].state \in states
    /\ Update(i, r)
    /\ UNCHANGED <<issued, worker, run, purge>>

Confirm(i) == Review(i, {"working"}, Confirmed(claim[i]))

\* reject, retract, and the side a resolved conflict does not keep
Withdraw(i) == Review(i, Active, Withdrawn(claim[i], "user"))

Defer(i) == Review(i, {"working"}, Written(claim[i]))

Partial(i, c) ==
    /\ claim[i].state \in Active
    /\ c # claim[i].content
    /\ ~Held(c)
    /\ issued < MaxClaims
    /\ issued' = issued + 1
    /\ claim' = [claim EXCEPT
         ![i] = Settled(claim[i], "superseded", "user"),
         ![issued + 1] = Row("confirmed", "user", c, claim[i].evidence \union {Talk})]
    /\ UNCHANGED <<worker, run, purge>>

UserStep ==
    \/ \E c \in Contents : UserCreates(c) \/ LessonLearned(c)
    \/ \E i \in Ids :
         \/ Confirm(i)
         \/ Withdraw(i)
         \/ Defer(i)
         \/ \E c \in Contents : Partial(i, c)

----------------------------------------------------------------------------
(* The background worker, which does one job at a time.                    *)

WorkerIdle == worker = IdleWorker /\ \A r \in Runs : r = "managed" => run[r] = IdleRun

\* A candidate that an active claim holds already is suppressed.
StartExtraction(c) ==
    /\ WorkerIdle
    /\ ~Held(c)
    /\ worker' = [at |-> "tombstone", content |-> c, since |-> issued]
    /\ UNCHANGED <<claim, issued, run, purge>>

CheckTombstone ==
    /\ worker.at = "tombstone"
    /\ worker' = IF Buried(worker.content) THEN IdleWorker
                                           ELSE [worker EXCEPT !.at = "create"]
    /\ UNCHANGED <<claim, issued, run, purge>>

ExtractionCreates ==
    /\ worker.at = "create"
    /\ Create(Row("working", "system", worker.content, {Talk}))
    /\ worker' = IdleWorker
    /\ UNCHANGED <<run, purge>>

\* An insert the index refuses; the bound on claims ends extractions as well.
CreateRefused ==
    /\ worker.at \in {"create", "material"}
    /\ worker.at = "material" => worker.found = 0
    /\ Held(worker.content) \/ issued = MaxClaims
    /\ worker' = IdleWorker
    /\ UNCHANGED <<claim, issued, run, purge>>

\* One relation of a material: the record is still there, then the claim is
\* looked up with its evidence.
StartMaterial(m, c) ==
    /\ WorkerIdle
    /\ purge[m].at # "gone"
    /\ \/ /\ ~Held(c)
          /\ worker' = [at |-> "material", material |-> m, content |-> c, found |-> 0]
       \/ \E i \in Live :
            /\ claim[i].content = c
            /\ m \notin claim[i].evidence
            /\ worker' = [at |-> "material", material |-> m, content |-> c, found |-> i]
    /\ UNCHANGED <<claim, issued, run, purge>>

MaterialCreates ==
    /\ worker.at = "material"
    /\ worker.found = 0
    /\ Create(Row("working", "system", worker.content, {worker.material}))
    /\ worker' = IdleWorker
    /\ UNCHANGED <<run, purge>>

MaterialSupports ==
    /\ worker.at = "material"
    /\ worker.found # 0
    /\ Update(worker.found, Supported(claim[worker.found], {worker.material}))
    /\ worker' = IdleWorker
    /\ UNCHANGED <<issued, run, purge>>

WorkerStep ==
    \/ \E c \in Contents : StartExtraction(c) \/ \E m \in Materials : StartMaterial(m, c)
    \/ CheckTombstone
    \/ ExtractionCreates
    \/ CreateRefused
    \/ MaterialCreates
    \/ MaterialSupports

----------------------------------------------------------------------------
(* The consolidator.  A managed run only suggests: it challenges, and puts *)
(* equivalent claims on a card.  A direct run folds and withdraws.         *)

\* What a run knows of a claim from the list it read: only a direct run uses
\* the evidence.
Seen(r, i) ==
    IF i \in Live
    THEN [state |-> claim[i].state,
          evidence |-> IF r = "direct" THEN claim[i].evidence ELSE {}]
    ELSE NoRow

StartRun(r) ==
    /\ run[r].at = "idle"
    /\ r = "managed" => WorkerIdle
    /\ run' = [run EXCEPT ![r] = [at |-> "pairs", seen |-> [i \in Ids |-> Seen(r, i)],
                                  todo |-> Pairs(Live)]]
    /\ UNCHANGED <<claim, issued, worker, purge>>

\* The working side of a contradiction is challenged; of two, one is.
Contradict(r, i, j) ==
    /\ run[r].at = "pairs"
    /\ {i, j} \in run[r].todo
    /\ run[r].seen[i].state = "working"
    /\ Update(i, Challenged(claim[i]))
    /\ run' = [run EXCEPT ![r].todo = @ \ {{i, j}}]
    /\ UNCHANGED <<issued, worker, purge>>

\* Equivalent claims: the older takes the evidence the list showed for the newer.
Fold(i, j) ==
    LET r == "direct" IN
    /\ run[r].at = "pairs"
    /\ i < j
    /\ {i, j} \in run[r].todo
    /\ run[r].seen[j].state = "working"
    /\ IF run[r].seen[j].evidence = {} THEN UNCHANGED claim
       ELSE Update(i, Supported(claim[i], run[r].seen[j].evidence))
    /\ run' = [run EXCEPT ![r] = [at |-> "fold", seen |-> run[r].seen,
                                  todo |-> run[r].todo \ {{i, j}}, into |-> i, from |-> j]]
    /\ UNCHANGED <<issued, worker, purge>>

\* The newer is rejected.  If it is no longer working the run ends in an error.
FoldRejects ==
    LET r == "direct"
        j == run[r].from IN
    /\ run[r].at = "fold"
    /\ IF claim[j].state = "working"
       THEN /\ Update(j, Withdrawn(claim[j], "system"))
            /\ run' = [run EXCEPT ![r] = [at |-> "pairs", seen |-> run[r].seen,
                                          todo |-> run[r].todo]]
       ELSE /\ run' = [run EXCEPT ![r] = IdleRun]
            /\ UNCHANGED claim
    /\ UNCHANGED <<issued, worker, purge>>

\* The remaining pairs are unrelated, beyond the cap, or both sides are
\* confirmed.  A direct run then lists the working claims again.
EndPairs(r) ==
    /\ run[r].at = "pairs"
    /\ run' = [run EXCEPT ![r] =
         IF r = "managed" THEN IdleRun
         ELSE [IdleRun EXCEPT !.at = "decay",
                 !.todo = {i \in Live : claim[i].state = "working"
                                          /\ claim[i].challenged = "overdue"}]]
    /\ UNCHANGED <<claim, issued, worker, purge>>

Decay(i) ==
    LET r == "direct" IN
    /\ run[r].at = "decay"
    /\ i \in run[r].todo
    /\ Update(i, SystemRetracted(claim[i]))
    /\ run' = [run EXCEPT ![r].todo = @ \ {i}]
    /\ UNCHANGED <<issued, worker, purge>>

EndRun ==
    LET r == "direct" IN
    /\ run[r].at = "decay"
    /\ run[r].todo = {}
    /\ run' = [run EXCEPT ![r] = IdleRun]
    /\ UNCHANGED <<claim, issued, worker, purge>>

DirectStep ==
    /\ "direct" \in Runs
    /\ \/ \E i, j \in Ids : Contradict("direct", i, j) \/ Fold(i, j)
       \/ FoldRejects
       \/ EndPairs("direct")
       \/ \E i \in Ids : Decay(i)
       \/ EndRun

ManagedStep ==
    /\ "managed" \in Runs
    /\ \/ \E i, j \in Ids : Contradict("managed", i, j)
       \/ EndPairs("managed")

----------------------------------------------------------------------------
(* detach_material, and the deletion of the material's record after it.    *)

\* The claims that have evidence of the material, read without the lock.
PurgeScan(m) ==
    /\ purge[m].at = "kept"
    /\ purge' = [purge EXCEPT ![m] = [at |-> "check",
                   todo |-> {i \in 1..issued : m \in claim[i].evidence}]]
    /\ UNCHANGED <<claim, issued, worker, run>>

\* Each is looked at on its own, again without the lock.
PurgeCheck(m, i) ==
    /\ purge[m].at = "check"
    /\ i \in purge[m].todo
    /\ LET rest == purge[m].todo \ {i} IN
       purge' = [purge EXCEPT ![m] =
         IF claim[i].evidence \subseteq {m} /\ claim[i].state = "working"
         THEN [at |-> "retract", todo |-> rest, victim |-> i]
         ELSE [at |-> "check", todo |-> rest]]
    /\ UNCHANGED <<claim, issued, worker, run>>

PurgeRetract(m) ==
    /\ purge[m].at = "retract"
    /\ Update(purge[m].victim, SystemRetracted(claim[purge[m].victim]))
    /\ purge' = [purge EXCEPT ![m] = [at |-> "check", todo |-> purge[m].todo]]
    /\ UNCHANGED <<issued, worker, run>>

PurgeDetach(m) ==
    /\ purge[m].at = "check"
    /\ purge[m].todo = {}
    /\ claim' = [i \in Ids |-> IF i <= issued
                               THEN [claim[i] EXCEPT !.evidence = @ \ {m}] ELSE claim[i]]
    /\ purge' = [purge EXCEPT ![m] = [at |-> "detached", todo |-> {}]]
    /\ UNCHANGED <<issued, worker, run>>

PurgeRecord(m) ==
    /\ purge[m].at = "detached"
    /\ purge' = [purge EXCEPT ![m].at = "gone"]
    /\ UNCHANGED <<claim, issued, worker, run>>

PurgeStep ==
    \E m \in Materials :
        \/ PurgeScan(m)
        \/ \E i \in Ids : PurgeCheck(m, i)
        \/ PurgeRetract(m)
        \/ PurgeDetach(m)
        \/ PurgeRecord(m)

----------------------------------------------------------------------------
(* Thirty days without a write.  No run lasts as long.                     *)

Month ==
    /\ \A r \in Runs : run[r] = IdleRun
    /\ \E i \in 1..issued : claim[i].challenged = "recent"
    /\ claim' = [i \in Ids |-> IF i <= issued /\ claim[i].challenged = "recent"
                               THEN [claim[i] EXCEPT !.challenged = "overdue"] ELSE claim[i]]
    /\ UNCHANGED <<issued, worker, run, purge>>

Next ==
    \/ UserStep
    \/ WorkerStep
    \/ \E r \in Runs : StartRun(r)
    \/ DirectStep
    \/ ManagedStep
    \/ PurgeStep
    \/ Month

Spec == Init /\ [][Next]_vars

----------------------------------------------------------------------------
(* Properties.                                                             *)

\* The table holds what its constraints allow, and every thread is somewhere
\* its code can be, holding what it read there.
TypeOK ==
    /\ claim \in [Ids -> Rows \union {NoRow}]
    /\ issued \in 0..MaxClaims
    /\ \A i \in Ids : claim[i] # NoRow <=> i <= issued
    /\ worker \in {IdleWorker} \union Extractions \union Readings
    /\ run \in [Runs -> {IdleRun} \union Judging \union Folding \union Decaying]

\* The trust machine of ClaimTrust is kept by reviews, extraction, runs that
\* work from a stale list and purges, in every interleaving (transition,
\* system_retract, ontology_store.py:5).
Trusted == [i \in Ids |-> [state |-> claim[i].state, by |-> claim[i].by]]

Trust == INSTANCE ClaimTrust WITH trust <- Trusted

TrustKept == Trust!Spec

\* Two active claims never say the same, although every caller looks for a
\* duplicate first and inserts later (ux_claims_active_hash).
ActiveContentUnique ==
    \A i, j \in Live : claim[i].content = claim[j].content => i = j

\* What the user confirmed is never hidden from the context by a challenge,
\* also when the consolidator's list still shows it as working
\* (set_challenged).
ConfirmedUnchallenged ==
    \A i \in Ids : claim[i].state = "confirmed" => claim[i].challenged = "no"

\* Extraction never proposes again what a claim said when it began, active or
\* buried (persist, process_candidates).
NeverProposedTwice ==
    [][ExtractionCreates =>
         \A i \in Ids : i <= worker.since => claim[i].content # worker.content]_vars

\* consolidate.py:7: of two equivalent claims "the newer one is folded into
\* the older": the claim that took the evidence is still active when the newer
\* one is rejected.
FoldedIntoActive ==
    [][FoldRejects => (run["direct"].into \in Live \/ claim' = claim)]_vars

\* ontology_store.py:1828: the evidence of a permanently deleted material is
\* deleted.
PurgedGone ==
    \A m \in Materials : purge[m].at = "gone" =>
        \A i \in 1..issued : m \notin claim[i].evidence

\* Runs are started and go on, and time passes.
FairSpec ==
    /\ Spec
    /\ WF_vars("direct" \in Runs /\ StartRun("direct"))
    /\ WF_vars(DirectStep)
    /\ SF_vars(Month)

\* consolidate.py:10: a challenged claim that is not confirmed for 30 days is
\* withdrawn: left alone with the runs and time, a challenge comes to an end.
ChallengeEnds ==
    <>[][DirectStep \/ StartRun("direct") \/ Month]_vars =>
        \A i \in Ids :
            []<>(claim[i].state # "working" \/ claim[i].challenged = "no")

=============================================================================
