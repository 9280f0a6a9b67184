----------------------- MODULE OntologyClaims_proofs -----------------------
(***************************************************************************)
(* Proofs about OntologyClaims.                                            *)
(*                                                                         *)
(* Lemma Moves says what any step may do to the table: rewrite one row     *)
(* within the trust machine, write a fresh row whose content no active     *)
(* claim holds, replace a row by a fresh one, or change ages and evidence  *)
(* only.  Each theorem then splits on these four kinds of move instead of  *)
(* on the actions of Next.                                                 *)
(***************************************************************************)
EXTENDS OntologyClaims, TLAPS

----------------------------------------------------------------------------
(* Invariants.                                                             *)

\* What the threads remember names claims that exist.
KnownInv ==
    /\ worker.at \in {"tombstone", "create"} => worker.since <= issued
    /\ worker.at = "material" => worker.found <= issued
    /\ \A r \in Runs : run[r].at \in {"pairs", "fold"} =>
         \A p \in run[r].todo : p \subseteq 1..issued

\* No claim older than an extraction is active with its content, and after the
\* second look none has its content at all.
SoughtInv ==
    /\ worker.at = "tombstone" =>
         \A i \in 1..worker.since :
             claim[i].content = worker.content => claim[i].state \notin Active
    /\ worker.at = "create" =>
         \A i \in 1..worker.since : claim[i].content # worker.content

Inv == TypeOK /\ KnownInv

----------------------------------------------------------------------------
(* Moves of the table.                                                     *)

\* Row r may take the place of row q.
Legal(q, r) ==
    /\ r.content = q.content
    /\ \/ r.state = q.state /\ r.by = q.by
       \/ q.state = "working" /\ r.state = "confirmed" /\ r.by = "user"
       \/ q.state = "working" /\ r.state = "retracted"
       \/ q.state = "confirmed" /\ r.state = "retracted" /\ r.by = "user"
    /\ r.state = "confirmed" /\ r.challenged # "no" =>
         q.state = "confirmed" /\ q.challenged # "no"

Rewrites ==
    /\ issued' = issued
    /\ \E i \in 1..issued, r \in Rows :
         Legal(claim[i], r) /\ claim' = [claim EXCEPT ![i] = r]

FreshRow(r) ==
    /\ r \in Rows
    /\ r.challenged = "no"
    /\ ~Held(r.content)
    /\ \/ r.state = "working" /\ r.by = "system"
       \/ r.state = "confirmed" /\ r.by = "user"

Writes ==
    /\ issued < MaxClaims
    /\ issued' = issued + 1
    /\ \E r \in Rows : FreshRow(r) /\ claim' = [claim EXCEPT ![issued + 1] = r]

Replaces ==
    /\ issued < MaxClaims
    /\ issued' = issued + 1
    /\ \E i \in 1..issued, q \in Rows, r \in Rows :
         /\ claim[i].state \in Active
         /\ q.state = "superseded" /\ q.by = "user" /\ q.content = claim[i].content
         /\ FreshRow(r) /\ r.state = "confirmed"
         /\ claim' = [claim EXCEPT ![i] = q, ![issued + 1] = r]

Same(q, r) ==
    /\ r.content = q.content /\ r.state = q.state /\ r.by = q.by
    /\ r.challenged = "no" <=> q.challenged = "no"

Keeps ==
    /\ issued' = issued
    /\ claim' \in [Ids -> Rows \union {NoRow}]
    /\ \A i \in Ids : IF i <= issued THEN claim'[i] \in Rows /\ Same(claim[i], claim'[i])
                                     ELSE claim'[i] = claim[i]

Move == Rewrites \/ Writes \/ Replaces \/ Keeps

----------------------------------------------------------------------------
(* Rows.                                                                   *)

LEMMA StoredRow ==
    ASSUME TypeOK, NEW i \in Ids
    PROVE  /\ i <= issued <=> claim[i] \in Rows
           /\ claim[i].state # "none" => claim[i] \in Rows /\ i \in 1..issued
           /\ i > issued <=> claim[i] = NoRow
           /\ claim[i].state = "none" => claim[i] = NoRow
  <1>1. i \in Int /\ i >= 1 /\ issued \in Int
    BY OntologyClaimsAssumption DEF TypeOK, Ids
  <1>2. claim[i] \in Rows \/ claim[i] = NoRow
    BY DEF TypeOK
  <1>3. \A q \in Rows : q.state \in {"working", "confirmed", "retracted", "superseded"}
    BY DEF Rows, Active
  <1>4. NoRow.state = "none" /\ NoRow \notin Rows
    BY <1>3 DEF NoRow
  <1>5. claim[i] # NoRow <=> i <= issued
    BY DEF TypeOK
  <1> QED BY <1>1, <1>2, <1>3, <1>4, <1>5

LEMMA RowWritten ==
    ASSUME NEW q \in Rows
    PROVE  /\ Written(q) \in Rows
           /\ Legal(q, Written(q))
           /\ Written(q).evidence = q.evidence
           /\ Written(q).challenged # "no" <=> q.challenged # "no"
  BY DEF Written, Rows, Legal, Active

LEMMA RowSettled ==
    ASSUME NEW q \in Rows, NEW s \in {"confirmed", "retracted", "superseded"},
           NEW who \in {"user", "system"}, NEW r, r = Settled(q, s, who)
    PROVE  /\ r \in Rows
           /\ r.content = q.content /\ r.state = s /\ r.by = who
           /\ r.challenged # "no" <=> q.challenged # "no"
  <1>1. Written(q) \in Rows /\ Written(q).content = q.content
        /\ (Written(q).challenged # "no" <=> q.challenged # "no")
    BY RowWritten DEF Legal
  <1> QED BY <1>1 DEF Settled, Rows, Active

LEMMA RowWithdrawn ==
    ASSUME NEW q \in Rows, NEW who \in {"user", "system"},
           q.state = "working" \/ (q.state = "confirmed" /\ who = "user"),
           NEW r, r = Withdrawn(q, who)
    PROVE  r \in Rows /\ Legal(q, r)
  <1>1. r \in Rows /\ r.content = q.content /\ r.state = "retracted" /\ r.by = who
    BY RowSettled DEF Withdrawn
  <1> QED BY <1>1 DEF Legal

LEMMA RowConfirmed ==
    ASSUME NEW q \in Rows, q.state = "working", NEW r, r = Confirmed(q)
    PROVE  r \in Rows /\ Legal(q, r)
  <1> DEFINE s == Settled(q, "confirmed", "user")
  <1>1. s \in Rows /\ s.content = q.content /\ s.state = "confirmed" /\ s.by = "user"
    BY RowSettled
  <1>2. r = [s EXCEPT !.challenged = "no"]
    BY DEF Confirmed
  <1>3. r \in Rows /\ r.content = q.content /\ r.state = "confirmed" /\ r.by = "user"
        /\ r.challenged = "no"
    <2> HIDE DEF s
    <2> QED BY <1>1, <1>2 DEF Rows, Active
  <1> QED BY <1>3 DEF Legal

LEMMA RowSupported ==
    ASSUME NEW q \in Rows, NEW e \in SUBSET Evidence, NEW r, r = Supported(q, e)
    PROVE  r \in Rows /\ Legal(q, r)
  <1> DEFINE s == Written(q)
  <1>1. s \in Rows /\ Legal(q, s)
    BY RowWritten
  <1>2. r = [s EXCEPT !.evidence = s.evidence \union e]
    BY DEF Supported
  <1>3. r \in Rows /\ r.content = s.content /\ r.state = s.state /\ r.by = s.by
        /\ r.challenged = s.challenged
    <2> HIDE DEF s
    <2>1. s.evidence \union e \in SUBSET Evidence
      BY <1>1 DEF Rows
    <2> QED BY <1>1, <1>2, <2>1 DEF Rows, Active
  <1> HIDE DEF s
  <1> QED BY <1>1, <1>3 DEF Legal

LEMMA RowChallenged ==
    ASSUME NEW q \in Rows, NEW r, r = Challenged(q)
    PROVE  r \in Rows /\ Legal(q, r)
  BY DEF Challenged, Rows, Active, Legal

LEMMA RowSystemRetracted ==
    ASSUME NEW q \in Rows, NEW r, r = SystemRetracted(q)
    PROVE  r \in Rows /\ Legal(q, r)
  <1>1. CASE q.state = "working"
    BY <1>1, RowWithdrawn DEF SystemRetracted
  <1>2. CASE q.state # "working"
    BY <1>2 DEF SystemRetracted, Legal
  <1> QED BY <1>1, <1>2

\* What an absent row turns into when it is challenged or withdrawn: nothing.
LEMMA AbsentRow == Challenged(NoRow) = NoRow /\ SystemRetracted(NoRow) = NoRow
  BY DEF Challenged, SystemRetracted, NoRow

----------------------------------------------------------------------------
(* Every step is a move of the table or leaves it alone.                   *)

LEMMA UpdateMoves ==
    ASSUME TypeOK, NEW i, NEW r, Update(i, r), issued' = issued,
           i \in Ids /\ claim[i] \in Rows => r \in Rows /\ Legal(claim[i], r),
           i \in Ids /\ claim[i] \notin Rows => r = claim[i]
    PROVE  Rewrites \/ UNCHANGED <<claim, issued>>
  <1>1. claim' = [claim EXCEPT ![i] = r] /\ claim = [j \in Ids |-> claim[j]]
    BY DEF Update, TypeOK
  <1>2. CASE i \notin Ids
    <2>1. claim' = claim
      BY <1>1, <1>2
    <2> QED BY <2>1
  <1>3. CASE i \in Ids /\ claim[i] \notin Rows
    <2>1. claim' = claim
      BY <1>1, <1>3
    <2> QED BY <2>1
  <1>4. CASE i \in Ids /\ claim[i] \in Rows
    <2>1. i \in 1..issued
      BY <1>4, StoredRow DEF Rows, Active
    <2>2. r \in Rows /\ Legal(claim[i], r)
      BY <1>4
    <2> QED BY <1>1, <2>1, <2>2 DEF Rewrites
  <1> QED BY <1>2, <1>3, <1>4

LEMMA CreateMoves ==
    ASSUME TypeOK, NEW s, NEW who, NEW c \in Contents, NEW e \in SUBSET Evidence,
           <<s, who>> \in {<<"working", "system">>, <<"confirmed", "user">>},
           Create(Row(s, who, c, e))
    PROVE  Writes
  <1> DEFINE r == Row(s, who, c, e)
  <1>1. r \in Rows /\ r.challenged = "no" /\ r.state = s /\ r.by = who
    BY DEF Row, Rows, Active
  <1>2. FreshRow(r)
    BY <1>1 DEF FreshRow, Create
  <1>3. claim' = [claim EXCEPT ![issued + 1] = r] /\ issued < MaxClaims /\ issued' = issued + 1
    BY DEF Create, Update
  <1> HIDE DEF r
  <1> QED BY <1>1, <1>2, <1>3 DEF Writes

\* A row the consolidator or a purge touches, present or absent.
LEMMA SystemMoves ==
    ASSUME TypeOK, NEW i, NEW r, Update(i, r), issued' = issued,
           r = Challenged(claim[i]) \/ r = SystemRetracted(claim[i])
    PROVE  Rewrites \/ UNCHANGED <<claim, issued>>
  <1>1. i \in Ids /\ claim[i] \in Rows => r \in Rows /\ Legal(claim[i], r)
    BY RowChallenged, RowSystemRetracted
  <1>2. i \in Ids /\ claim[i] \notin Rows => r = claim[i]
    BY AbsentRow DEF TypeOK
  <1> QED BY <1>1, <1>2, UpdateMoves

LEMMA UserMoves ==
    ASSUME TypeOK, UserStep
    PROVE  Move
  <1>1. ASSUME NEW c \in Contents, UserCreates(c) \/ LessonLearned(c)
        PROVE  Writes
    <2>1. {Talk} \in SUBSET Evidence
      BY DEF Evidence
    <2> QED BY <1>1, <2>1, CreateMoves DEF UserCreates, LessonLearned
  <1>2. ASSUME NEW i \in Ids, Confirm(i) \/ Withdraw(i) \/ Defer(i)
        PROVE  Rewrites
    <2>1. claim[i].state \in Active /\ claim[i] \in Rows /\ i \in 1..issued
      BY <1>2, StoredRow DEF Confirm, Withdraw, Defer, Review, Active
    <2>2. PICK r : /\ r \in Rows /\ Legal(claim[i], r)
                   /\ claim' = [claim EXCEPT ![i] = r] /\ issued' = issued
      <3>1. CASE Confirm(i)
        <4>1. claim[i].state = "working"
          BY <3>1 DEF Confirm, Review
        <4> QED BY <2>1, <3>1, <4>1, RowConfirmed DEF Confirm, Review, Update
      <3>2. CASE Withdraw(i)
        BY <2>1, <3>2, RowWithdrawn DEF Withdraw, Review, Update, Active
      <3>3. CASE Defer(i)
        BY <2>1, <3>3, RowWritten DEF Defer, Review, Update
      <3> QED BY <1>2, <3>1, <3>2, <3>3
    <2> QED BY <2>1, <2>2 DEF Rewrites
  <1>3. ASSUME NEW i \in Ids, NEW c \in Contents, Partial(i, c)
        PROVE  Replaces
    <2>1. claim[i] \in Rows /\ i \in 1..issued /\ claim[i].state \in Active
      BY <1>3, StoredRow DEF Partial, Active
    <2> DEFINE q == Settled(claim[i], "superseded", "user")
               r == Row("confirmed", "user", c, claim[i].evidence \union {Talk})
    <2>2. q \in Rows /\ q.state = "superseded" /\ q.by = "user" /\ q.content = claim[i].content
      BY <2>1, RowSettled
    <2>3. claim[i].evidence \union {Talk} \in SUBSET Evidence
      BY <2>1 DEF Rows, Evidence
    <2>4. r \in Rows /\ r.state = "confirmed" /\ r.by = "user" /\ r.challenged = "no"
          /\ r.content = c
      BY <2>3 DEF Row, Rows, Active
    <2>5. FreshRow(r)
      BY <1>3, <2>4 DEF FreshRow, Partial
    <2>6. /\ claim' = [claim EXCEPT ![i] = q, ![issued + 1] = r]
          /\ issued < MaxClaims /\ issued' = issued + 1
      BY <1>3 DEF Partial
    <2> HIDE DEF q, r
    <2> QED BY <2>1, <2>2, <2>4, <2>5, <2>6 DEF Replaces
  <1> QED BY <1>1, <1>2, <1>3 DEF UserStep, Move

LEMMA WorkerMoves ==
    ASSUME Inv, WorkerStep
    PROVE  Move \/ UNCHANGED <<claim, issued>>
  <1>1. ASSUME ExtractionCreates PROVE Writes
    <2>1. {Talk} \in SUBSET Evidence
      BY DEF Evidence
    <2>2. worker.content \in Contents
      BY <1>1 DEF Inv, TypeOK, IdleWorker, Extractions, Readings, ExtractionCreates
    <2> QED BY <1>1, <2>1, <2>2, CreateMoves DEF ExtractionCreates, Inv
  <1>2. ASSUME MaterialCreates PROVE Writes
    <2>1. worker.content \in Contents /\ {worker.material} \in SUBSET Evidence
      BY <1>2 DEF Inv, TypeOK, IdleWorker, Extractions, Readings, MaterialCreates, Evidence
    <2> QED BY <1>2, <2>1, CreateMoves DEF MaterialCreates, Inv
  <1>3. ASSUME MaterialSupports PROVE Rewrites
    <2>1. /\ worker.found \in 0..MaxClaims /\ worker.found # 0 /\ worker.found <= issued
          /\ {worker.material} \in SUBSET Evidence
      BY <1>3 DEF Inv, KnownInv, TypeOK, IdleWorker, Extractions, Readings,
                  MaterialSupports, Evidence
    <2>2. worker.found \in Ids /\ worker.found \in 1..issued
      BY <2>1, OntologyClaimsAssumption DEF Ids, Inv, TypeOK
    <2>3. claim[worker.found] \in Rows
      BY <2>1, <2>2, StoredRow DEF Inv
    <2> QED BY <1>3, <2>1, <2>2, <2>3, RowSupported DEF MaterialSupports, Update, Rewrites
  <1>4. ASSUME \/ \E c \in Contents : StartExtraction(c) \/ \E m \in Materials : StartMaterial(m, c)
               \/ CheckTombstone
               \/ CreateRefused
        PROVE  UNCHANGED <<claim, issued>>
    BY <1>4 DEF StartExtraction, StartMaterial, CheckTombstone, CreateRefused
  <1> QED BY <1>1, <1>2, <1>3, <1>4 DEF WorkerStep, Move

LEMMA RunMoves ==
    ASSUME Inv, DirectStep \/ ManagedStep
    PROVE  Move \/ UNCHANGED <<claim, issued>>
  <1>1. ASSUME NEW r \in Runs, NEW i \in Ids, NEW j \in Ids, Contradict(r, i, j)
        PROVE  Rewrites \/ UNCHANGED <<claim, issued>>
    BY <1>1, SystemMoves DEF Contradict, Inv
  <1>2. ASSUME "direct" \in Runs, NEW i \in Ids, NEW j \in Ids, Fold(i, j)
        PROVE  Rewrites \/ UNCHANGED <<claim, issued>>
    <2> DEFINE d == run["direct"]
               e == d.seen[j].evidence
    <2>1. d \in Judging
      BY <1>2 DEF Inv, TypeOK, IdleRun, Judging, Folding, Decaying, Fold
    <2>2. d.seen[j].state = "working" /\ d.seen \in Lists
      BY <1>2, <2>1 DEF Fold, Judging
    <2>3. e \in SUBSET Evidence
      BY <2>2 DEF Lists, NoRow
    <2>4. {i, j} \subseteq 1..issued
      BY <1>2 DEF Inv, KnownInv, Fold
    <2>5. i \in 1..issued /\ claim[i] \in Rows
      BY <2>4, StoredRow DEF Inv
    <2>6. CASE e = {}
      BY <1>2, <2>6 DEF Fold
    <2>7. CASE e # {}
      <3> DEFINE r == Supported(claim[i], e)
      <3>1. r \in Rows /\ Legal(claim[i], r)
        BY <2>3, <2>5, RowSupported
      <3>2. claim' = [claim EXCEPT ![i] = r] /\ issued' = issued
        BY <1>2, <2>7 DEF Fold, Update
      <3> HIDE DEF r
      <3> QED BY <2>5, <3>1, <3>2 DEF Rewrites
    <2> QED BY <2>6, <2>7
  <1>3. ASSUME FoldRejects
        PROVE  Rewrites \/ UNCHANGED <<claim, issued>>
    <2> DEFINE j == run["direct"].from
    <2>1. CASE claim[j].state = "working"
      <3>1. Update(j, Withdrawn(claim[j], "system")) /\ issued' = issued
        BY <1>3, <2>1 DEF FoldRejects
      <3>2. SystemRetracted(claim[j]) = Withdrawn(claim[j], "system")
        BY <2>1 DEF SystemRetracted
      <3> QED BY <3>1, <3>2, SystemMoves DEF Inv
    <2>2. CASE claim[j].state # "working"
      BY <1>3, <2>2 DEF FoldRejects
    <2> QED BY <2>1, <2>2
  <1>4. ASSUME NEW i \in Ids, Decay(i)
        PROVE  Rewrites \/ UNCHANGED <<claim, issued>>
    BY <1>4, SystemMoves DEF Decay, Inv
  <1>5. ASSUME NEW r \in Runs, EndPairs(r) \/ EndRun
        PROVE  UNCHANGED <<claim, issued>>
    BY <1>5 DEF EndPairs, EndRun
  <1>6. CASE DirectStep
    BY <1>1, <1>2, <1>3, <1>4, <1>5, <1>6 DEF DirectStep, Move
  <1>7. CASE ManagedStep
    BY <1>1, <1>5, <1>7 DEF ManagedStep, Move
  <1> QED BY <1>6, <1>7

LEMMA PurgeMoves ==
    ASSUME TypeOK, PurgeStep
    PROVE  Move \/ UNCHANGED <<claim, issued>>
  <1>1. ASSUME NEW m \in Materials, PurgeRetract(m)
        PROVE  Rewrites \/ UNCHANGED <<claim, issued>>
    BY <1>1, SystemMoves DEF PurgeRetract
  <1>2. ASSUME NEW m \in Materials, PurgeDetach(m)
        PROVE  Keeps
    <2> DEFINE after(i) == IF i <= issued
                           THEN [claim[i] EXCEPT !.evidence = @ \ {m}] ELSE claim[i]
    <2>1. claim' = [i \in Ids |-> after(i)] /\ issued' = issued
      BY <1>2 DEF PurgeDetach
    <2>2. ASSUME NEW i \in Ids, i <= issued
          PROVE  after(i) \in Rows /\ Same(claim[i], after(i))
      <3>1. claim[i] \in Rows
        BY <2>2, StoredRow
      <3> QED BY <2>2, <3>1 DEF Rows, Active, Same
    <2>3. ASSUME NEW i \in Ids, ~(i <= issued)
          PROVE  after(i) = claim[i] /\ claim[i] \in Rows \union {NoRow}
      BY <2>3 DEF TypeOK
    <2> HIDE DEF after
    <2> QED BY <2>1, <2>2, <2>3 DEF Keeps
  <1>3. ASSUME NEW m \in Materials,
               \/ PurgeScan(m) \/ PurgeRecord(m)
               \/ \E i \in Ids : PurgeCheck(m, i)
        PROVE  UNCHANGED <<claim, issued>>
    BY <1>3 DEF PurgeScan, PurgeRecord, PurgeCheck
  <1> QED BY <1>1, <1>2, <1>3 DEF PurgeStep, Move

LEMMA MonthMoves ==
    ASSUME TypeOK, Month
    PROVE  Keeps
  <1> DEFINE after(i) == IF i <= issued /\ claim[i].challenged = "recent"
                         THEN [claim[i] EXCEPT !.challenged = "overdue"] ELSE claim[i]
  <1>1. claim' = [i \in Ids |-> after(i)] /\ issued' = issued
    BY DEF Month
  <1>2. ASSUME NEW i \in Ids, i <= issued
        PROVE  after(i) \in Rows /\ Same(claim[i], after(i))
    <2>1. claim[i] \in Rows
      BY <1>2, StoredRow
    <2> QED BY <1>2, <2>1 DEF Rows, Active, Same
  <1>3. ASSUME NEW i \in Ids, ~(i <= issued)
        PROVE  after(i) = claim[i] /\ claim[i] \in Rows \union {NoRow}
    BY <1>3 DEF TypeOK
  <1> HIDE DEF after
  <1> QED BY <1>1, <1>2, <1>3 DEF Keeps

LEMMA Moves ==
    ASSUME Inv, [Next]_vars
    PROVE  Move \/ UNCHANGED <<claim, issued>>
  <1>1. ASSUME NEW r \in Runs, StartRun(r)
        PROVE  UNCHANGED <<claim, issued>>
    BY <1>1 DEF StartRun
  <1>2. CASE UNCHANGED vars
    BY <1>2 DEF vars
  <1> QED BY <1>1, <1>2, UserMoves, WorkerMoves, RunMoves, PurgeMoves, MonthMoves
          DEF Next, Inv, Move

----------------------------------------------------------------------------
(* What every move preserves.                                              *)

\* Rows of the table stay there, with their content, and never come back to
\* life; a row that appears says what no active row says.
Continues ==
    /\ issued' \in issued..MaxClaims
    /\ claim' \in [Ids -> Rows \union {NoRow}]
    /\ \A i \in Ids : claim'[i] # NoRow <=> i <= issued'
    /\ \A i \in 1..issued :
         /\ claim'[i].content = claim[i].content
         /\ claim'[i].state \in Active => claim[i].state \in Active
    /\ \A i \in 1..issued' : i \in 1..issued \/ (i = issued + 1 /\ ~Held(claim'[i].content))

LEMMA MoveContinues ==
    ASSUME TypeOK, Move \/ UNCHANGED <<claim, issued>>
    PROVE  Continues
  <1>0. /\ issued \in Nat /\ MaxClaims \in Nat /\ issued <= MaxClaims
        /\ claim \in [Ids -> Rows \union {NoRow}] /\ 1..issued \subseteq Ids
        /\ \A i \in Ids : claim[i] # NoRow <=> i <= issued
        /\ NoRow \notin Rows
        /\ \A i \in Ids : i \in Nat /\ i >= 1
    BY OntologyClaimsAssumption DEF TypeOK, Ids, Rows, NoRow, Active
  <1>1. CASE Rewrites
    <2>1. PICK i \in 1..issued, r \in Rows :
            Legal(claim[i], r) /\ claim' = [claim EXCEPT ![i] = r] /\ issued' = issued
      BY <1>1 DEF Rewrites
    <2>2. r.content = claim[i].content /\ (r.state \in Active => claim[i].state \in Active)
      BY <2>1 DEF Legal, Active
    <2> QED BY <1>0, <2>1, <2>2 DEF Continues
  <1>2. CASE Writes
    <2>1. PICK r \in Rows : /\ FreshRow(r) /\ claim' = [claim EXCEPT ![issued + 1] = r]
                            /\ issued < MaxClaims /\ issued' = issued + 1
      BY <1>2 DEF Writes
    <2>2. issued + 1 \in Ids /\ claim'[issued + 1] = r
      BY <1>0, <2>1 DEF Ids
    <2>3. ~Held(claim'[issued + 1].content)
      BY <2>1, <2>2 DEF FreshRow
    <2>4. \A i \in Ids : i # issued + 1 => claim'[i] = claim[i]
      BY <1>0, <2>1
    <2> QED BY <1>0, <2>1, <2>2, <2>3, <2>4 DEF Continues
  <1>3. CASE Replaces
    <2>1. PICK i \in 1..issued, q \in Rows, r \in Rows :
            /\ q.state = "superseded" /\ q.content = claim[i].content
            /\ FreshRow(r) /\ claim' = [claim EXCEPT ![i] = q, ![issued + 1] = r]
            /\ issued < MaxClaims /\ issued' = issued + 1
      BY <1>3 DEF Replaces
    <2>2. issued + 1 \in Ids /\ claim'[issued + 1] = r
      BY <1>0, <2>1 DEF Ids
    <2>3. ~Held(claim'[issued + 1].content)
      BY <2>1, <2>2 DEF FreshRow
    <2>4. \A j \in Ids : j # issued + 1 => claim'[j] = IF j = i THEN q ELSE claim[j]
      BY <1>0, <2>1
    <2>5. q.state \notin Active
      BY <2>1 DEF Active
    <2> QED BY <1>0, <2>1, <2>2, <2>3, <2>4, <2>5 DEF Continues
  <1>4. CASE Keeps
    BY <1>0, <1>4 DEF Keeps, Same, Continues
  <1>5. CASE UNCHANGED <<claim, issued>>
    BY <1>0, <1>5 DEF Continues
  <1> QED BY <1>1, <1>2, <1>3, <1>4, <1>5 DEF Move

----------------------------------------------------------------------------
(* Types, and what the threads remember.                                   *)

WorkerTyped == worker \in {IdleWorker} \union Extractions \union Readings

RunTyped == run \in [Runs -> {IdleRun} \union Judging \union Folding \union Decaying]

LEMMA WorkerKeepsType ==
    ASSUME TypeOK, WorkerStep
    PROVE  WorkerTyped' /\ RunTyped'
  <1>1. UNCHANGED run
    BY DEF WorkerStep, StartExtraction, StartMaterial, CheckTombstone, ExtractionCreates,
           CreateRefused, MaterialCreates, MaterialSupports
  <1>2. ASSUME NEW c \in Contents, StartExtraction(c)
        PROVE  worker' \in Extractions
    BY <1>2 DEF StartExtraction, Extractions, TypeOK
  <1>3. ASSUME NEW c \in Contents, NEW m \in Materials, StartMaterial(m, c)
        PROVE  worker' \in Readings
    <2>1. 0 \in 0..MaxClaims /\ \A i \in Live : i \in 0..MaxClaims
      BY OntologyClaimsAssumption DEF Live, Ids
    <2> QED BY <1>3, <2>1 DEF StartMaterial, Readings
  <1>4. ASSUME CheckTombstone
        PROVE  worker' \in {IdleWorker} \union Extractions
    <2>1. worker \in Extractions
      BY <1>4 DEF CheckTombstone, TypeOK, IdleWorker, Extractions, Readings
    <2> QED BY <1>4, <2>1 DEF CheckTombstone, Extractions
  <1>5. ASSUME ExtractionCreates \/ CreateRefused \/ MaterialCreates \/ MaterialSupports
        PROVE  worker' = IdleWorker
    BY <1>5 DEF ExtractionCreates, CreateRefused, MaterialCreates, MaterialSupports
  <1>6. WorkerTyped'
    BY <1>2, <1>3, <1>4, <1>5 DEF WorkerStep, WorkerTyped
  <1> QED BY <1>1, <1>6 DEF TypeOK, RunTyped

\* The list a run reads, and the pairs it forms.
LEMMA ListTyped ==
    ASSUME TypeOK, NEW r \in Runs
    PROVE  /\ [i \in Ids |-> Seen(r, i)] \in Lists
           /\ Pairs(Live) \in SUBSET Pairs(Ids)
           /\ \A p \in Pairs(Live) : p \subseteq 1..issued
  <1>1. ASSUME NEW i \in Ids
        PROVE  Seen(r, i) \in [state: Active, evidence: SUBSET Evidence] \union {NoRow}
    <2>1. CASE i \in Live
      <3>1. claim[i] \in Rows /\ claim[i].state \in Active
        BY <2>1, StoredRow DEF Live, Active
      <3> QED BY <2>1, <3>1 DEF Seen, Rows
    <2>2. CASE i \notin Live
      BY <2>2 DEF Seen
    <2> QED BY <2>1, <2>2
  <1>2. Live \subseteq Ids /\ Live \subseteq 1..issued
    BY StoredRow DEF Live, Active
  <1> QED BY <1>1, <1>2 DEF Lists, Pairs

LEMMA RunKeepsType ==
    ASSUME TypeOK, (\E r \in Runs : StartRun(r)) \/ DirectStep \/ ManagedStep
    PROVE  WorkerTyped' /\ RunTyped'
  <1> DEFINE States == {IdleRun} \union Judging \union Folding \union Decaying
  <1>1. UNCHANGED worker
    BY DEF StartRun, DirectStep, ManagedStep, Contradict, Fold, FoldRejects, EndPairs, Decay,
           EndRun
  <1>2. run \in [Runs -> States] /\ IdleRun.seen \in Lists
    BY DEF TypeOK, IdleRun, Lists
  <1>3. \A r \in Runs : /\ run[r].at = "pairs" => run[r] \in Judging
                        /\ run[r].at = "fold" => run[r] \in Folding
                        /\ run[r].at = "decay" => run[r] \in Decaying
    <2> TAKE r \in Runs
    <2>1. \/ run[r] = IdleRun \/ run[r] \in Judging
          \/ run[r] \in Folding \/ run[r] \in Decaying
      BY <1>2
    <2>2. /\ IdleRun.at = "idle"
          /\ \A q \in Judging : q.at = "pairs"
          /\ \A q \in Folding : q.at = "fold"
          /\ \A q \in Decaying : q.at = "decay"
      BY DEF IdleRun, Judging, Folding, Decaying
    <2> QED BY <2>1, <2>2
  <1>4. ASSUME NEW r \in Runs, NEW q \in States, run' = [run EXCEPT ![r] = q]
        PROVE  RunTyped'
    BY <1>2, <1>4 DEF RunTyped
  <1>5. ASSUME NEW r \in Runs, StartRun(r)
        PROVE  RunTyped'
    <2> DEFINE q == [at |-> "pairs", seen |-> [i \in Ids |-> Seen(r, i)], todo |-> Pairs(Live)]
    <2>1. q \in Judging
      BY ListTyped DEF Judging
    <2>2. run' = [run EXCEPT ![r] = q]
      BY <1>5 DEF StartRun
    <2> HIDE DEF q
    <2> QED BY <1>4, <2>1, <2>2
  <1>6. ASSUME NEW r \in Runs, NEW i \in Ids, NEW j \in Ids, Contradict(r, i, j)
        PROVE  RunTyped'
    <2> DEFINE q == [run[r] EXCEPT !.todo = run[r].todo \ {{i, j}}]
    <2>1. run[r] \in Judging
      BY <1>2, <1>3, <1>6 DEF Contradict
    <2>2. q \in Judging
      BY <2>1 DEF Judging
    <2>3. run' = [run EXCEPT ![r] = q]
      BY <1>6 DEF Contradict
    <2> HIDE DEF q
    <2> QED BY <1>4, <2>2, <2>3
  <1>7. ASSUME "direct" \in Runs, NEW i \in Ids, NEW j \in Ids, Fold(i, j)
        PROVE  RunTyped'
    <2> DEFINE q == [at |-> "fold", seen |-> run["direct"].seen,
                     todo |-> run["direct"].todo \ {{i, j}}, into |-> i, from |-> j]
    <2>1. run["direct"] \in Judging
      BY <1>2, <1>3, <1>7 DEF Fold
    <2>2. q \in Folding
      BY <2>1 DEF Judging, Folding
    <2>3. run' = [run EXCEPT !["direct"] = q]
      BY <1>7 DEF Fold
    <2> HIDE DEF q
    <2> QED BY <1>4, <1>7, <2>2, <2>3
  <1>8. ASSUME "direct" \in Runs, FoldRejects
        PROVE  RunTyped'
    <2> DEFINE q == [at |-> "pairs", seen |-> run["direct"].seen, todo |-> run["direct"].todo]
    <2>1. run["direct"] \in Folding
      BY <1>2, <1>3, <1>8 DEF FoldRejects
    <2>2. q \in Judging
      BY <2>1 DEF Judging, Folding
    <2>3. run' = [run EXCEPT !["direct"] = q] \/ run' = [run EXCEPT !["direct"] = IdleRun]
      BY <1>8 DEF FoldRejects
    <2> HIDE DEF q
    <2> QED BY <1>4, <1>8, <2>2, <2>3
  <1>9. ASSUME NEW r \in Runs, EndPairs(r)
        PROVE  RunTyped'
    <2> DEFINE due == {i \in Live : claim[i].state = "working" /\ claim[i].challenged = "overdue"}
               q == [IdleRun EXCEPT !.at = "decay", !.todo = due]
    <2>1. q \in Decaying
      BY <1>2 DEF Decaying, IdleRun, Live
    <2>2. run' = [run EXCEPT ![r] = q] \/ run' = [run EXCEPT ![r] = IdleRun]
      BY <1>9 DEF EndPairs
    <2> HIDE DEF q
    <2> QED BY <1>4, <2>1, <2>2
  <1>10. ASSUME "direct" \in Runs, NEW i \in Ids, Decay(i)
         PROVE  RunTyped'
    <2> DEFINE q == [run["direct"] EXCEPT !.todo = run["direct"].todo \ {i}]
    <2>1. run["direct"] \in Decaying
      BY <1>2, <1>3, <1>10 DEF Decay
    <2>2. q \in Decaying
      BY <2>1 DEF Decaying
    <2>3. run' = [run EXCEPT !["direct"] = q]
      BY <1>10 DEF Decay
    <2> HIDE DEF q
    <2> QED BY <1>4, <1>10, <2>2, <2>3
  <1>11. ASSUME "direct" \in Runs, EndRun
         PROVE  RunTyped'
    BY <1>4, <1>11 DEF EndRun
  <1>12. RunTyped'
    BY <1>5, <1>6, <1>7, <1>8, <1>9, <1>10, <1>11 DEF DirectStep, ManagedStep
  <1>13. WorkerTyped'
    BY <1>1 DEF TypeOK, WorkerTyped
  <1> QED BY <1>12, <1>13

LEMMA OthersKeepType ==
    ASSUME TypeOK, UserStep \/ PurgeStep \/ Month \/ UNCHANGED vars
    PROVE  UNCHANGED <<worker, run>>
  BY DEF UserStep, UserCreates, LessonLearned, Confirm, Withdraw, Defer, Review, Partial,
         PurgeStep, PurgeScan, PurgeCheck, PurgeRetract, PurgeDetach, PurgeRecord, Month, vars

LEMMA StepKeepsType ==
    ASSUME Inv, [Next]_vars
    PROVE  TypeOK'
  <1>1. Continues
    BY Moves, MoveContinues DEF Inv
  <1>2. WorkerTyped' /\ RunTyped'
    <2>1. WorkerTyped /\ RunTyped
      BY DEF Inv, TypeOK, WorkerTyped, RunTyped
    <2>2. CASE UserStep \/ PurgeStep \/ Month \/ UNCHANGED vars
      BY <2>1, <2>2, OthersKeepType DEF Inv, WorkerTyped, RunTyped
    <2>3. CASE WorkerStep
      BY <2>3, WorkerKeepsType DEF Inv
    <2>4. CASE (\E r \in Runs : StartRun(r)) \/ DirectStep \/ ManagedStep
      BY <2>4, RunKeepsType DEF Inv
    <2> QED BY <2>2, <2>3, <2>4 DEF Next
  <1>3. issued' \in 0..MaxClaims
    BY <1>1, OntologyClaimsAssumption DEF Continues, Inv, TypeOK
  <1> QED BY <1>1, <1>2, <1>3 DEF Continues, TypeOK, WorkerTyped, RunTyped

\* A list of pairs a run works through stays within the claims there are.
LEMMA RunKeepsKnown ==
    ASSUME Inv, (\E r \in Runs : StartRun(r)) \/ DirectStep \/ ManagedStep,
           NEW r \in Runs, run'[r].at \in {"pairs", "fold"}
    PROVE  \A p \in run'[r].todo : p \subseteq 1..issued
  <1> DEFINE Within(T) == \A p \in T : p \subseteq 1..issued
  <1>1. /\ run[r].at \in {"pairs", "fold"} => Within(run[r].todo)
        /\ run = [s \in Runs |-> run[s]]
        /\ run[r] \in {IdleRun} \union Judging \union Folding \union Decaying
    BY DEF Inv, KnownInv, TypeOK
  <1>2. ASSUME NEW s \in Runs, NEW q, run' = [run EXCEPT ![s] = q],
               q.at \in {"pairs", "fold"} /\ s = r => Within(q.todo)
        PROVE  Within(run'[r].todo)
    <2>1. CASE s = r
      BY <1>1, <1>2, <2>1
    <2>2. CASE s # r
      BY <1>1, <1>2, <2>2
    <2> QED BY <2>1, <2>2
  <1>3. ASSUME NEW s \in Runs, StartRun(s)
        PROVE  Within(run'[r].todo)
    BY <1>2, <1>3, ListTyped DEF StartRun, Inv
  <1>4. ASSUME NEW s \in Runs, NEW i \in Ids, NEW j \in Ids, Contradict(s, i, j)
        PROVE  Within(run'[r].todo)
    <2> DEFINE q == [run[s] EXCEPT !.todo = run[s].todo \ {{i, j}}]
    <2>1. run[s] \in Judging
      BY <1>4 DEF Contradict, Inv, TypeOK, IdleRun, Judging, Folding, Decaying
    <2>2. q.todo = run[s].todo \ {{i, j}} /\ run[s].at = "pairs"
      BY <2>1 DEF Judging
    <2>3. s = r => Within(q.todo)
      BY <1>1, <2>2
    <2>4. run' = [run EXCEPT ![s] = q]
      BY <1>4 DEF Contradict
    <2> HIDE DEF q
    <2> QED BY <1>2, <2>3, <2>4
  <1>5. ASSUME "direct" \in Runs, NEW i \in Ids, NEW j \in Ids, Fold(i, j)
        PROVE  Within(run'[r].todo)
    <2> DEFINE q == [at |-> "fold", seen |-> run["direct"].seen,
                     todo |-> run["direct"].todo \ {{i, j}}, into |-> i, from |-> j]
    <2>1. run["direct"].at = "pairs" /\ run' = [run EXCEPT !["direct"] = q]
      BY <1>5 DEF Fold
    <2>2. "direct" = r => Within(q.todo)
      BY <1>1, <2>1
    <2> HIDE DEF q
    <2> QED BY <1>2, <1>5, <2>1, <2>2
  <1>6. ASSUME "direct" \in Runs, FoldRejects
        PROVE  Within(run'[r].todo)
    <2> DEFINE q == [at |-> "pairs", seen |-> run["direct"].seen, todo |-> run["direct"].todo]
    <2>1. /\ run["direct"].at = "fold"
          /\ run' = [run EXCEPT !["direct"] = q] \/ run' = [run EXCEPT !["direct"] = IdleRun]
      BY <1>6 DEF FoldRejects
    <2>2. "direct" = r => Within(q.todo)
      BY <1>1, <2>1
    <2>3. IdleRun.at = "idle"
      BY DEF IdleRun
    <2> HIDE DEF q
    <2> QED BY <1>2, <1>6, <2>1, <2>2, <2>3
  <1>7. ASSUME NEW s \in Runs, EndPairs(s)
        PROVE  Within(run'[r].todo)
    <2> DEFINE q == run'[s]
    <2>1. run' = [run EXCEPT ![s] = q] /\ q.at \in {"idle", "decay"}
      BY <1>1, <1>7 DEF EndPairs, IdleRun, Inv, TypeOK
    <2> HIDE DEF q
    <2> QED BY <1>2, <2>1
  <1>8. ASSUME "direct" \in Runs, NEW i \in Ids, Decay(i)
        PROVE  Within(run'[r].todo)
    <2> DEFINE q == [run["direct"] EXCEPT !.todo = run["direct"].todo \ {i}]
    <2>1. run["direct"] \in Decaying
      BY <1>8 DEF Decay, Inv, TypeOK, IdleRun, Judging, Folding, Decaying
    <2>2. q.at = "decay"
      BY <2>1 DEF Decaying
    <2>3. run' = [run EXCEPT !["direct"] = q]
      BY <1>8 DEF Decay
    <2> HIDE DEF q
    <2> QED BY <1>2, <1>8, <2>2, <2>3
  <1>9. ASSUME "direct" \in Runs, EndRun
        PROVE  Within(run'[r].todo)
    <2>1. IdleRun.at = "idle"
      BY DEF IdleRun
    <2> QED BY <1>2, <1>9, <2>1 DEF EndRun
  <1>10. Within(run'[r].todo)
    BY <1>3, <1>4, <1>5, <1>6, <1>7, <1>8, <1>9 DEF DirectStep, ManagedStep
  <1> QED BY <1>10

LEMMA StepKeepsKnown ==
    ASSUME Inv, [Next]_vars
    PROVE  KnownInv'
  <1>1. /\ issued <= issued' /\ issued \in Nat /\ issued' \in Nat
        /\ 1..issued \subseteq 1..issued'
    BY Moves, MoveContinues, OntologyClaimsAssumption DEF Inv, TypeOK, Continues
  <1>2. CASE UserStep \/ PurgeStep \/ Month \/ UNCHANGED vars
    <2>1. UNCHANGED <<worker, run>>
      BY <1>2, OthersKeepType DEF Inv
    <2>2. /\ worker.at \in {"tombstone", "create"} => worker.since \in Nat
          /\ worker.at = "material" => worker.found \in Nat
      BY OntologyClaimsAssumption DEF Inv, TypeOK, IdleWorker, Extractions, Readings
    <2> QED BY <1>1, <2>1, <2>2 DEF Inv, KnownInv
  <1>3. CASE WorkerStep
    <2>1. UNCHANGED run
      BY <1>3 DEF WorkerStep, StartExtraction, StartMaterial, CheckTombstone, ExtractionCreates,
             CreateRefused, MaterialCreates, MaterialSupports
    <2>2. \A i \in Live : i <= issued
      BY StoredRow DEF Live, Active, Inv
    <2>3. IdleWorker.at = "idle"
      BY DEF IdleWorker
    <2>4. worker.at = "tombstone" => worker \in Extractions
      BY DEF Inv, TypeOK, IdleWorker, Extractions, Readings
    <2>5. /\ worker'.at \in {"tombstone", "create"} => worker'.since <= issued'
          /\ worker'.at = "material" => worker'.found <= issued'
      <3>1. ASSUME NEW c \in Contents, StartExtraction(c)
            PROVE  worker'.at = "tombstone" /\ worker'.since <= issued
        BY <1>1, <3>1 DEF StartExtraction
      <3>2. ASSUME NEW c \in Contents, NEW m \in Materials, StartMaterial(m, c)
            PROVE  worker'.at = "material" /\ worker'.found <= issued
        BY <1>1, <2>2, <3>2 DEF StartMaterial
      <3>3. ASSUME CheckTombstone
            PROVE  \/ worker' = IdleWorker
                   \/ worker'.at = "create" /\ worker'.since <= issued
        BY <2>4, <3>3 DEF CheckTombstone, Extractions, Inv, KnownInv
      <3>4. ASSUME ExtractionCreates \/ CreateRefused \/ MaterialCreates \/ MaterialSupports
            PROVE  worker' = IdleWorker
        BY <3>4 DEF ExtractionCreates, CreateRefused, MaterialCreates, MaterialSupports
      <3>5. worker'.at \in {"tombstone", "create"} => worker'.since <= issued
        BY <1>3, <2>3, <3>1, <3>2, <3>3, <3>4 DEF WorkerStep
      <3>6. worker'.at = "material" => worker'.found <= issued
        BY <1>3, <2>3, <3>1, <3>2, <3>3, <3>4 DEF WorkerStep
      <3>7. WorkerTyped'
        BY <1>3, WorkerKeepsType DEF Inv
      <3>8. /\ worker'.at \in {"tombstone", "create"} => worker'.since \in Nat
            /\ worker'.at = "material" => worker'.found \in Nat
        BY <3>7, OntologyClaimsAssumption DEF WorkerTyped, IdleWorker, Extractions, Readings
      <3> QED BY <1>1, <3>5, <3>6, <3>8
    <2> QED BY <1>1, <2>1, <2>5 DEF Inv, KnownInv
  <1>4. CASE (\E r \in Runs : StartRun(r)) \/ DirectStep \/ ManagedStep
    <2>1. UNCHANGED <<worker, issued>>
      BY <1>4 DEF StartRun, DirectStep, ManagedStep, Contradict, Fold, FoldRejects, EndPairs,
             Decay, EndRun
    <2> QED BY <1>4, <2>1, RunKeepsKnown DEF Inv, KnownInv
  <1> QED BY <1>2, <1>3, <1>4 DEF Next

LEMMA InvHolds == Spec => []Inv
  <1>1. Init => Inv
    <2> SUFFICES ASSUME Init PROVE Inv
      OBVIOUS
    <2>1. issued = 0 /\ 0 \in 0..MaxClaims /\ \A i \in Ids : ~(i <= 0)
      BY OntologyClaimsAssumption DEF Init, Ids
    <2>2. \A i \in Ids : claim[i] = NoRow
      BY DEF Init
    <2>3. TypeOK
      BY <2>1, <2>2 DEF Init, TypeOK
    <2>4. KnownInv
      BY DEF Init, KnownInv, IdleWorker, IdleRun
    <2> QED BY <2>3, <2>4 DEF Inv
  <1>2. Inv /\ [Next]_vars => Inv'
    BY StepKeepsType, StepKeepsKnown DEF Inv
  <1> QED BY <1>1, <1>2, PTL DEF Spec

----------------------------------------------------------------------------
(* Theorems.                                                               *)

\* The claims table and every thread's position stay within their types,
\* whatever the callers of the store interleave.
THEOREM ClaimsTyped == Spec => []TypeOK
  <1>1. Inv => TypeOK
    BY DEF Inv
  <1> QED BY <1>1, InvHolds, PTL

\* No two active claims have the same content: a row that appears is held by
\* no active row, and a row that left is not revived (create_claim, transition).
THEOREM OneClaimPerContent == Spec => []ActiveContentUnique
  <1>1. Init => ActiveContentUnique
    BY DEF Init, ActiveContentUnique, Live, Active, NoRow
  <1>2. ASSUME Inv, ActiveContentUnique, [Next]_vars
        PROVE  ActiveContentUnique'
    <2>1. Continues
      BY <1>2, Moves, MoveContinues DEF Inv
    <2> SUFFICES ASSUME NEW i \in Live', NEW j \in Live',
                        claim'[i].content = claim'[j].content, i # j
                 PROVE  FALSE
      BY DEF ActiveContentUnique
    <2>2. i \in Ids /\ j \in Ids /\ claim'[i].state \in Active /\ claim'[j].state \in Active
      BY DEF Live
    <2>3. NoRow.state \notin Active
      BY DEF NoRow, Active
    <2>4. i \in 1..issued' /\ j \in 1..issued'
      <3>1. i <= issued' /\ j <= issued'
        BY <2>1, <2>2, <2>3 DEF Continues
      <3>2. issued' \in Int
        BY <1>2, <2>1, OntologyClaimsAssumption DEF Continues, Inv, TypeOK
      <3> QED BY <2>2, <3>1, <3>2 DEF Ids
    <2>5. CASE i \in 1..issued /\ j \in 1..issued
      <3>1. i \in Live /\ j \in Live /\ claim[i].content = claim[j].content
        BY <2>1, <2>2, <2>5 DEF Continues, Live
      <3> QED BY <1>2, <3>1 DEF ActiveContentUnique
    <2>6. ASSUME NEW a \in {i, j}, NEW b \in {i, j}, a \in 1..issued, b \notin 1..issued
          PROVE  FALSE
      <3>1. ~Held(claim'[b].content)
        BY <2>1, <2>4, <2>6 DEF Continues
      <3>2. a \in Live /\ claim[a].content = claim'[b].content
        BY <2>1, <2>2, <2>6 DEF Continues, Live
      <3> QED BY <3>1, <3>2 DEF Held
    <2>7. CASE i \notin 1..issued /\ j \notin 1..issued
      BY <2>1, <2>4, <2>7 DEF Continues
    <2> QED BY <2>5, <2>6, <2>7
  <1> QED BY <1>1, <1>2, InvHolds, PTL DEF Spec

\* A claim the user confirmed carries no challenge, also when a run challenges
\* it from a list that shows it as working (set_challenged).
THEOREM NeverHidden == Spec => []ConfirmedUnchallenged
  <1>1. Init => ConfirmedUnchallenged
    BY DEF Init, ConfirmedUnchallenged, NoRow
  <1>2. ASSUME Inv, ConfirmedUnchallenged, [Next]_vars
        PROVE  ConfirmedUnchallenged'
    <2>0. /\ claim \in [Ids -> Rows \union {NoRow}]
          /\ 1..issued \subseteq Ids
          /\ \A i \in Ids : claim[i].state = "confirmed" => claim[i].challenged = "no"
      BY <1>2, OntologyClaimsAssumption DEF Inv, TypeOK, Ids, ConfirmedUnchallenged
    <2>1. CASE Rewrites
      <3>1. PICK i \in 1..issued, r \in Rows :
              Legal(claim[i], r) /\ claim' = [claim EXCEPT ![i] = r]
        BY <2>1 DEF Rewrites
      <3>2. r.state = "confirmed" => r.challenged = "no"
        BY <2>0, <3>1 DEF Legal
      <3> QED BY <2>0, <3>1, <3>2 DEF ConfirmedUnchallenged
    <2>2. CASE Writes
      <3>1. PICK r \in Rows : r.challenged = "no" /\ claim' = [claim EXCEPT ![issued + 1] = r]
        BY <2>2 DEF Writes, FreshRow
      <3> QED BY <2>0, <3>1 DEF ConfirmedUnchallenged
    <2>3. CASE Replaces
      <3>1. PICK i \in 1..issued, q \in Rows, r \in Rows :
              /\ q.state = "superseded" /\ r.challenged = "no"
              /\ claim' = [claim EXCEPT ![i] = q, ![issued + 1] = r]
        BY <2>3 DEF Replaces, FreshRow
      <3> QED BY <2>0, <3>1 DEF ConfirmedUnchallenged
    <2>4. CASE Keeps
      <3>1. \A i \in Ids : claim'[i] = claim[i] \/ Same(claim[i], claim'[i])
        BY <2>4 DEF Keeps
      <3> QED BY <2>0, <3>1 DEF Same, ConfirmedUnchallenged
    <2>5. CASE UNCHANGED <<claim, issued>>
      BY <2>0, <2>5 DEF ConfirmedUnchallenged
    <2> QED BY <1>2, <2>1, <2>2, <2>3, <2>4, <2>5, Moves DEF Move
  <1> QED BY <1>1, <1>2, InvHolds, PTL DEF Spec

\* Each kind of move is a step of the trust machine or leaves it where it is.
LEMMA MoveTrusted ==
    ASSUME TypeOK, Move \/ UNCHANGED <<claim, issued>>
    PROVE  [Trust!Next]_Trusted
  <1> DEFINE T(r) == [state |-> r.state, by |-> r.by]
  <1>0. /\ claim \in [Ids -> Rows \union {NoRow}]
        /\ 1..issued \subseteq Ids
        /\ Trusted = [i \in Ids |-> T(claim[i])]
        /\ Trusted' = [i \in Ids |-> T(claim'[i])]
    BY OntologyClaimsAssumption DEF TypeOK, Ids, Trusted
  <1>1. CASE Rewrites
    <2>1. PICK i \in 1..issued, r \in Rows :
            Legal(claim[i], r) /\ claim' = [claim EXCEPT ![i] = r]
      BY <1>1 DEF Rewrites
    <2>2. i \in Ids
      BY <1>0, <2>1
    <2>3. Trusted' = [Trusted EXCEPT ![i] = T(r)]
      BY <1>0, <2>1, <2>2
    <2>4. Trusted[i].state = claim[i].state /\ Trusted[i] = T(claim[i])
      BY <1>0, <2>2
    <2>5. CASE r.state = claim[i].state /\ r.by = claim[i].by
      <3>1. Trusted' = Trusted
        BY <1>0, <2>2, <2>3, <2>4, <2>5
      <3> QED BY <3>1
    <2>6. CASE claim[i].state = "working" /\ r.state = "confirmed" /\ r.by = "user"
      <3>1. Trust!Declare(i)
        BY <2>3, <2>4, <2>6 DEF Trust!Declare, Trust!Step
      <3> QED BY <2>2, <3>1 DEF Trust!Next
    <2>7. CASE claim[i].state = "working" /\ r.state = "retracted"
      <3>1. r.by \in {"user", "system"}
        BY <2>1 DEF Rows
      <3>2. Trust!Withdraw(i)
        BY <2>3, <2>4, <2>7, <3>1 DEF Trust!Withdraw, Trust!Step
      <3> QED BY <2>2, <3>2 DEF Trust!Next
    <2>8. CASE claim[i].state = "confirmed" /\ r.state = "retracted" /\ r.by = "user"
      <3>1. Trust!Retract(i)
        BY <2>3, <2>4, <2>8 DEF Trust!Retract, Trust!Step
      <3> QED BY <2>2, <3>1 DEF Trust!Next
    <2> QED BY <2>1, <2>5, <2>6, <2>7, <2>8 DEF Legal
  <1>2. ASSUME Writes \/ Replaces
        PROVE  /\ issued + 1 \in Ids
               /\ Trusted[issued + 1].state = "none"
               /\ \A i \in 1..issued : i \in Ids /\ i # issued + 1
    <2>1. issued + 1 \in Ids /\ issued \in Nat
      BY <1>2, OntologyClaimsAssumption DEF Writes, Replaces, TypeOK, Ids
    <2>2. claim[issued + 1] = NoRow
      BY <2>1 DEF TypeOK
    <2> QED BY <1>0, <2>1, <2>2 DEF NoRow
  <1>3. CASE Writes
    <2>1. PICK r \in Rows : FreshRow(r) /\ claim' = [claim EXCEPT ![issued + 1] = r]
      BY <1>3 DEF Writes
    <2>2. Trusted' = [Trusted EXCEPT ![issued + 1] = T(r)]
      BY <1>0, <1>2, <1>3, <2>1
    <2>3. Trust!Propose(issued + 1) \/ Trust!Declare(issued + 1)
      BY <1>2, <1>3, <2>1, <2>2 DEF FreshRow, Trust!Propose, Trust!Declare, Trust!Step
    <2> QED BY <1>2, <1>3, <2>3 DEF Trust!Next
  <1>4. CASE Replaces
    <2>1. PICK i \in 1..issued, q \in Rows, r \in Rows :
            /\ claim[i].state \in Active
            /\ q.state = "superseded" /\ q.by = "user"
            /\ FreshRow(r) /\ r.state = "confirmed"
            /\ claim' = [claim EXCEPT ![i] = q, ![issued + 1] = r]
      BY <1>4 DEF Replaces
    <2>2. i \in Ids /\ issued + 1 \in Ids /\ i # issued + 1
      BY <1>2, <1>4
    <2>3. T(q) = [state |-> "superseded", by |-> "user"]
      BY <2>1
    <2>4. T(r) = [state |-> "confirmed", by |-> "user"]
      BY <2>1 DEF FreshRow
    <2>5. Trusted' = [Trusted EXCEPT ![i] = T(q), ![issued + 1] = T(r)]
      BY <1>0, <2>1, <2>2
    <2>6. Trusted[i].state \in {"working", "confirmed"}
      BY <1>0, <2>1, <2>2 DEF Active
    <2> HIDE DEF T
    <2>7. Trust!Replace(i, issued + 1)
      BY <1>2, <1>4, <2>3, <2>4, <2>5, <2>6 DEF Trust!Replace
    <2> QED BY <2>2, <2>7 DEF Trust!Next
  <1>5. CASE Keeps
    <2>1. \A i \in Ids : T(claim'[i]) = T(claim[i])
      BY <1>5 DEF Keeps, Same
    <2>2. Trusted' = Trusted
      BY <1>0, <2>1
    <2> QED BY <2>2
  <1>6. CASE UNCHANGED <<claim, issued>>
    BY <1>0, <1>6
  <1> QED BY <1>1, <1>3, <1>4, <1>5, <1>6 DEF Move

\* The claims implement the abstract trust machine: only the user confirms or
\* withdraws what is confirmed, and what is withdrawn stays so (transition,
\* system_retract, create_claim).
THEOREM TrustImplemented == Spec => TrustKept
  <1>1. Init => Trust!Init
    BY DEF Init, Trusted, NoRow, Trust!Init, Trust!Unborn
  <1>2. Inv /\ [Next]_vars => [Trust!Next]_Trusted
    BY Moves, MoveTrusted DEF Inv
  <1> QED BY <1>1, <1>2, InvHolds, PTL DEF Spec, TrustKept, Trust!Spec

LEMMA StepKeepsSought ==
    ASSUME Inv, SoughtInv, [Next]_vars
    PROVE  SoughtInv'
  <1>1. Continues
    BY Moves, MoveContinues DEF Inv
  <1>2. ASSUME worker.at \in {"tombstone", "create"}
        PROVE  /\ worker \in Extractions
               /\ 1..worker.since \subseteq 1..issued
    <2>1. worker \in Extractions
      BY <1>2 DEF Inv, TypeOK, IdleWorker, Extractions, Readings
    <2>2. worker.since \in Int /\ issued \in Int /\ worker.since <= issued
      BY <1>2, <2>1, OntologyClaimsAssumption DEF Extractions, Inv, TypeOK, KnownInv
    <2> QED BY <2>1, <2>2
  <1>3. CASE UNCHANGED worker
    BY <1>1, <1>2, <1>3 DEF Continues, SoughtInv
  <1>4. CASE WorkerStep
    <2>1. ASSUME NEW c \in Contents, StartExtraction(c)
          PROVE  SoughtInv'
      <3>1. /\ worker' = [at |-> "tombstone", content |-> c, since |-> issued]
            /\ claim' = claim /\ ~Held(c)
        BY <2>1 DEF StartExtraction
      <3>2. 1..issued \subseteq Ids
        BY OntologyClaimsAssumption DEF Inv, TypeOK, Ids
      <3>3. \A i \in 1..issued : claim[i].content = c => claim[i].state \notin Active
        BY <3>1, <3>2 DEF Held, Live
      <3> QED BY <3>1, <3>3 DEF SoughtInv
    <2>2. ASSUME CheckTombstone
          PROVE  SoughtInv'
      <3>1. CASE Buried(worker.content)
        BY <2>2, <3>1 DEF CheckTombstone, IdleWorker, SoughtInv
      <3>2. CASE ~Buried(worker.content)
        <4>1. worker.at = "tombstone" /\ worker \in Extractions /\ claim' = claim
          BY <1>2, <2>2 DEF CheckTombstone
        <4>2. /\ worker'.at = "create" /\ worker'.content = worker.content
              /\ worker'.since = worker.since
          BY <2>2, <3>2, <4>1 DEF CheckTombstone, Extractions
        <4>3. ASSUME NEW i \in 1..worker.since, claim[i].content = worker.content
              PROVE  FALSE
          <5>1. i \in Ids /\ i <= issued
            BY <1>2, <4>1, OntologyClaimsAssumption DEF Inv, TypeOK, Ids
          <5>2. claim[i] \in Rows
            BY <5>1, StoredRow DEF Inv
          <5>3. claim[i].state \in {"retracted", "superseded"}
            BY <4>1, <4>3, <5>2 DEF SoughtInv, Rows
          <5> QED BY <3>2, <4>3, <5>1, <5>3 DEF Buried
        <4> QED BY <4>1, <4>2, <4>3 DEF SoughtInv
      <3> QED BY <3>1, <3>2
    <2>3. ASSUME \/ \E c \in Contents, m \in Materials : StartMaterial(m, c)
                 \/ ExtractionCreates \/ CreateRefused
                 \/ MaterialCreates \/ MaterialSupports
          PROVE  SoughtInv'
      <3>1. worker'.at \in {"idle", "material"}
        BY <2>3 DEF StartMaterial, ExtractionCreates, CreateRefused, MaterialCreates,
                    MaterialSupports, IdleWorker
      <3> QED BY <3>1 DEF SoughtInv
    <2> QED BY <1>4, <2>1, <2>2, <2>3 DEF WorkerStep
  <1>5. CASE (\E r \in Runs : StartRun(r)) \/ DirectStep \/ ManagedStep
    <2>1. UNCHANGED worker
      BY <1>5 DEF StartRun, DirectStep, ManagedStep, Contradict, Fold, FoldRejects, EndPairs,
             Decay, EndRun
    <2> QED BY <1>3, <2>1
  <1>6. CASE UserStep \/ PurgeStep \/ Month \/ UNCHANGED vars
    BY <1>3, <1>6, OthersKeepType DEF Inv
  <1> QED BY <1>4, <1>5, <1>6 DEF Next

\* What extraction writes, no claim older than the extraction says, active or
\* buried, although the two looks and the insert are separate calls (persist,
\* process_candidates).
THEOREM NoSecondProposal == Spec => NeverProposedTwice
  <1>1. Init => SoughtInv
    BY DEF Init, SoughtInv, IdleWorker
  <1>2. Inv /\ SoughtInv /\ [Next]_vars => SoughtInv'
    BY StepKeepsSought
  <1>3. ASSUME Inv, SoughtInv, ExtractionCreates, NEW i \in Ids, i <= worker.since
        PROVE  claim[i].content # worker.content
    <2>1. worker.at = "create" /\ worker \in Extractions
      BY <1>3 DEF ExtractionCreates, Inv, TypeOK, IdleWorker, Extractions, Readings
    <2>2. i \in 1..worker.since
      BY <1>3, <2>1, OntologyClaimsAssumption DEF Extractions, Ids
    <2> QED BY <1>3, <2>1, <2>2 DEF SoughtInv
  <1>4. Inv /\ SoughtInv /\ [Next]_vars =>
          [ExtractionCreates =>
             \A i \in Ids : i <= worker.since => claim[i].content # worker.content]_vars
    BY <1>3
  <1> QED BY <1>1, <1>2, <1>4, InvHolds, PTL DEF Spec, NeverProposedTwice

============================================================================
