---------------------------- MODULE RagReview_proofs ----------------------------
(***************************************************************************)
(* The review of retrieved materials: what enters a reply, how often a     *)
(* risk token is used, what a delivery was decided from, and that a        *)
(* decision stands, proved for every number of turns, windows, queries and *)
(* entries.                                                                *)
(***************************************************************************)
EXTENDS RagReview, TLAPS

----------------------------------------------------------------------------
(* The inductive invariant.                                                *)

EntryRecords ==
    [query : Queries \union {NoQuery}, passed : SUBSET Pieces, withheld : BOOLEAN,
     state : {"none", "materials", "confirmation", "incomplete", "ok"},
     text : 0..MaxText, settled : BOOLEAN, delivered : SUBSET Pieces,
     token : {"unspent", "masked", "original"}, risks : Nat,
     picked : SUBSET Pieces, decided : SUBSET OnWithheld]

\* Where a turn has an entry that only it knows, and where it has evidence.
Fresh == {"resolve", "store"}
Reading == {"replay", "drop", "validate", "validated", "forget", "got"}

TurnRecords == [pc : {"idle", "ask"} \union Fresh \union Reading,
                query : Queries \union {NoQuery}, e : Entries \union {Nobody},
                text : 0..MaxText, again : BOOLEAN]
UserRecords == [pc : {"idle", "held", "send", "commit", "drop"},
                e : Entries \union {Nobody}, action : Actions \union {"none"},
                pieces : SUBSET Pieces]

RagTypes ==
    /\ TypeOK
    /\ turn \in [Turns -> TurnRecords]
    /\ user \in [Users -> UserRecords]

\* What holds of every entry by itself.
EntrySound(r) ==
    /\ r.risks <= 1
    /\ r.delivered # {} => r.settled
    /\ r.settled /\ r.query \in Reviewed /\ r.delivered # {} => r.delivered = r.picked
    /\ "sensitive" \in r.passed => r.token = "original"
    /\ "unchecked" \in r.passed => "risk" \in r.decided
    /\ r.withheld /\ r.state = "materials" => r.decided # {}
    /\ r.settled =>
          /\ "sensitive" \in r.delivered => r.token = "original"
          /\ "unchecked" \in r.delivered => "risk" \in r.decided
          /\ r.withheld => r.decided # {}

\* An entry nobody holds is as good as gone.
Gone(e) == ~ Held(e) => entry[e] = NoEntry

\* A spent risk token cannot be asked for again from the entry under the key.
RiskOver(e) ==
    live = e /\ entry[e].risks # 0 =>
        \/ entry[e].settled
        \/ entry[e].state = "materials"
        \/ \E u \in Users : /\ user[u].e = e
                            /\ user[u].action = "risk"
                            /\ user[u].pc \in {"commit", "drop"}

EntryInv(e) == EntrySound(entry[e]) /\ Gone(e) /\ RiskOver(e)

\* A turn and the entry it holds.
TurnHolds(t) ==
    LET x == turn[t]
        r == entry[x.e]
    IN
    /\ x.pc \in {"idle", "ask"} => x.e = Nobody
    /\ x.pc # "idle" => x.query \in Queries
    /\ x.pc \in Fresh \union Reading => x.e \in Entries /\ r.query = x.query
    /\ x.pc \in Reading => r.settled /\ (x.query \in Reviewed => r.delivered # {})
    /\ x.pc \in {"validated", "got"} /\ x.query \in Reviewed => x.text = r.text
    /\ x.pc = "store" /\ r.settled => x.query \notin Reviewed
    /\ x.pc \in Fresh => r.risks = 0
    /\ x.pc = "resolve" => /\ ~ r.settled
                           /\ ~ r.withheld
                           /\ x.query \notin Reviewed

\* An entry that was not yet stored is known to its turn alone.
TurnAlone(t) ==
    turn[t].pc \in Fresh =>
        /\ live # turn[t].e
        /\ \A s \in Turns \ {t} : turn[s].e # turn[t].e
        /\ \A u \in Users : user[u].e # turn[t].e

TurnInv(t) == TurnHolds(t) /\ TurnAlone(t)

\* A decision and the entry it is about.
UserHolds(u) ==
    LET x == user[u]
        r == entry[x.e]
    IN
    /\ x.pc = "idle" => x.e = Nobody
    /\ x.pc # "idle" => /\ x.e \in Entries
                        /\ x.e \in locked
                        /\ ~ r.settled
                        /\ x.action \in Actions
    /\ x.pc = "send" => x.action \in {"selected", "masked", "original", "risk"}
    /\ x.pc = "commit" => x.action # "cancel"
    /\ x.pc \in {"held", "send"} /\ x.action = "risk" => r.risks = 0
    /\ x.pc # "idle" /\ live = x.e =>
          /\ x.action = "selected" => /\ x.pieces = r.picked
                                      /\ r.withheld => r.decided # {}
          /\ x.action \in {"masked", "original"} => r.state = "confirmation"
          /\ x.action = "without" => x.pieces = {}
          /\ "sensitive" \in x.pieces => r.token = "original"
          /\ "unchecked" \in x.pieces => x.action = "risk" \/ "risk" \in r.decided

\* One decision per entry.
UserAlone(u) ==
    user[u].pc # "idle" => \A v \in Users \ {u} : user[v].e # user[u].e

UserInv(u) == UserHolds(u) /\ UserAlone(u)

RagInv ==
    /\ RagTypes
    /\ \A e \in Entries : EntryInv(e)
    /\ \A t \in Turns : TurnInv(t)
    /\ \A u \in Users : UserInv(u)

----------------------------------------------------------------------------
(* Entries after a step.                                                   *)

\* The empty entry is typed and sound.
LEMMA NoEntrySound ==
    /\ NoEntry \in EntryRecords
    /\ EntrySound(NoEntry)
    /\ NoEntry.settled = FALSE
    /\ NoEntry.risks = 0
    /\ NoEntry.delivered = {}
  BY RagReviewAssumption DEF NoEntry, EntryRecords, EntrySound

\* An entry that was replaced keeps its tokens and nothing to deliver.
LEMMA DetachedSound ==
    ASSUME NEW r \in EntryRecords
    PROVE  /\ Detached(r) \in EntryRecords
           /\ r.risks <= 1 => EntrySound(Detached(r))
           /\ Detached(r).settled = FALSE
           /\ Detached(r).risks = r.risks
  BY NoEntrySound DEF Detached, NoEntry, EntryRecords, EntrySound

\* The entries after a step: what can be read is as written, what only a
\* decision holds is detached, and the rest is gone.
LEMMA EnteredEach ==
    ASSUME NEW after, Entered(after), NEW e \in Entries
    PROVE  /\ Readable(e)' => entry'[e] = after[e]
           /\ ~ Readable(e)' /\ Held(e)' => entry'[e] = Detached(after[e])
           /\ ~ Held(e)' => entry'[e] = NoEntry
           /\ Readable(e)' => Held(e)'
  BY DEF Entered, Held

\* Sound entries are sound after a step, and what nobody holds is gone.
LEMMA EntrySoundAfter ==
    ASSUME NEW after \in [Entries -> EntryRecords], Entered(after),
           NEW e \in Entries, EntrySound(after[e])
    PROVE  /\ entry'[e] \in EntryRecords
           /\ EntrySound(entry'[e])
           /\ Gone(e)'
  <1>1. after[e] \in EntryRecords /\ after[e].risks <= 1
    BY DEF EntrySound
  <1>2. CASE Readable(e)'
    BY <1>1, <1>2, EnteredEach DEF Gone
  <1>3. CASE ~ Readable(e)' /\ Held(e)'
    BY <1>1, <1>3, EnteredEach, DetachedSound DEF Gone
  <1>4. CASE ~ Held(e)'
    BY <1>4, EnteredEach, NoEntrySound DEF Gone
  <1>5. QED
    BY <1>2, <1>3, <1>4, EnteredEach

\* The entries after a step are typed.
LEMMA EntriesTyped ==
    ASSUME NEW after \in [Entries -> EntryRecords], Entered(after),
           \A e \in Entries : EntrySound(after[e])
    PROVE  entry' \in [Entries -> EntryRecords]
  <1>1. \A e \in Entries : entry'[e] \in EntryRecords
    BY EntrySoundAfter
  <1>2. entry' = [e \in Entries |-> entry'[e]]
    BY DEF Entered
  <1>3. QED
    BY <1>1, <1>2

----------------------------------------------------------------------------
(* What a step keeps for those it does not move.                           *)

\* A turn that is left alone, with its entry, still holds it.
LEMMA TurnKept ==
    ASSUME RagInv, NEW after, Entered(after),
           NEW s \in Turns, turn'[s] = turn[s],
           turn[s].e \in Entries => after[turn[s].e] = entry[turn[s].e]
    PROVE  TurnHolds(s)'
  <1>1. PICK e : e = turn[s].e
    OBVIOUS
  <1>2. TurnHolds(s)
    BY DEF RagInv, TurnInv
  <1>3. CASE e \in Entries
    <2>1. Readable(e)'
      BY <1>1 DEF Readable
    <2>2. entry'[e] = entry[e]
      BY <1>1, <1>3, <2>1, EnteredEach
    <2>3. QED
      BY <1>1, <1>2, <2>2 DEF TurnHolds
  <1>4. CASE e \notin Entries
    <2>1. turn[s].pc \notin Fresh \union Reading
      BY <1>1, <1>2, <1>4 DEF TurnHolds
    <2>2. QED
      BY <1>2, <2>1 DEF TurnHolds, Fresh, Reading
  <1>5. QED
    BY <1>3, <1>4

\* A decision that is left alone, with its entry and its lock, is still
\* about that entry.
LEMMA UserKept ==
    ASSUME RagInv, NEW after \in [Entries -> EntryRecords], Entered(after),
           NEW v \in Users, user'[v] = user[v],
           user[v].e \in Entries =>
              /\ after[user[v].e] = entry[user[v].e]
              /\ user[v].e \in locked => user[v].e \in locked'
              /\ live' = user[v].e => live = user[v].e
    PROVE  UserHolds(v)'
  <1>1. PICK e : e = user[v].e
    OBVIOUS
  <1>2. UserHolds(v)
    BY DEF RagInv, UserInv
  <1>3. CASE e \in Entries
    <2>1. Held(e)'
      BY <1>1 DEF Held
    <2>2. \/ entry'[e] = entry[e]
          \/ /\ entry'[e] = Detached(entry[e])
             /\ ~ Readable(e)'
      BY <1>1, <1>3, <2>1, EnteredEach
    <2>3. entry[e] \in EntryRecords
      BY <1>1, <1>3
    <2>4. CASE entry'[e] = entry[e]
      BY <1>1, <1>2, <1>3, <2>4 DEF UserHolds
    <2>5. CASE entry'[e] = Detached(entry[e]) /\ ~ Readable(e)'
      <3>1. live' # e
        BY <2>5 DEF Readable
      <3>2. ~ entry'[e].settled /\ entry'[e].risks = entry[e].risks
        BY <2>3, <2>5, DetachedSound
      <3>3. QED
        BY <1>1, <1>2, <1>3, <3>1, <3>2 DEF UserHolds
    <2>6. QED
      BY <2>2, <2>4, <2>5
  <1>4. CASE e \notin Entries
    <2>1. user[v].pc = "idle"
      BY <1>1, <1>2, <1>4 DEF UserHolds
    <2>2. QED
      BY <1>2, <2>1 DEF UserHolds
  <1>5. QED
    BY <1>3, <1>4

\* What is not settled is read by no turn that has evidence.
LEMMA NotReading ==
    ASSUME RagInv, NEW s \in Turns, NEW e \in Entries, ~ entry[e].settled,
           turn[s].pc \in Fresh => turn[s].e # e
    PROVE  turn[s].e # e
  <1>1. turn[s].pc \in {"idle", "ask"} \union Fresh \union Reading
    BY DEF RagInv, RagTypes, TurnRecords
  <1>2. TurnHolds(s)
    BY DEF RagInv, TurnInv
  <1>3. QED
    BY <1>1, <1>2, RagReviewNames DEF TurnHolds

\* What is settled and can still be read is as it was.
Stands == \A e \in Entries : entry[e].settled /\ Readable(e)' => entry'[e] = entry[e]

----------------------------------------------------------------------------
(* A turn moves, a decision moves, or an entry is made.                    *)

\* A turn moves, the entries stay as they are, and the key is left alone,
\* emptied, or given to the entry of the turn.
LEMMA TurnMoves ==
    ASSUME RagInv, NEW t \in Turns, Entered(entry),
           turn' \in [Turns -> TurnRecords],
           \A s \in Turns \ {t} : turn'[s] = turn[s],
           UNCHANGED <<locked, user, text>>,
           \/ live' = live
           \/ live' = Nobody
           \/ turn[t].pc = "store" /\ live' = turn[t].e,
           turn'[t].e \in {Nobody, turn[t].e, live},
           turn'[t].pc \notin Fresh,
           TurnHolds(t)'
    PROVE  RagInv' /\ Stands
  <1>1. /\ entry \in [Entries -> EntryRecords]
        /\ \A e \in Entries : EntrySound(entry[e])
    BY DEF RagInv, RagTypes, TypeOK, EntryRecords, EntryInv
  <1>2. entry' \in [Entries -> EntryRecords]
    BY <1>1, EntriesTyped
  <1>3. turn[t].pc = "store" => turn[t].e \in Entries
    BY DEF RagInv, TurnInv, TurnHolds, Fresh
  <1>4. RagTypes'
    BY <1>2, <1>3 DEF RagInv, RagTypes, TypeOK, EntryRecords
  <1>5. ASSUME NEW s \in Turns
        PROVE  TurnInv(s)'
    <2>1. CASE s = t
      BY <2>1 DEF TurnInv, TurnAlone
    <2>2. CASE s # t
      <3>1. turn'[s] = turn[s]
        BY <2>2
      <3>2. TurnHolds(s)'
        BY <3>1, TurnKept
      <3>3. ASSUME turn[s].pc \in Fresh
            PROVE  /\ live' # turn[s].e
                   /\ \A r \in Turns \ {s} : turn'[r].e # turn[s].e
        <4>1. /\ turn[s].e \in Entries
              /\ live # turn[s].e
              /\ \A r \in Turns \ {s} : turn[r].e # turn[s].e
          BY <3>3 DEF RagInv, TurnInv, TurnHolds, TurnAlone
        <4>2. turn[t].e # turn[s].e /\ Nobody # turn[s].e
          BY <2>2, <4>1, RagReviewNames
        <4>3. QED
          BY <4>1, <4>2
      <3>4. TurnAlone(s)'
        BY <3>1, <3>3 DEF TurnAlone, RagInv, TurnInv
      <3>5. QED
        BY <3>2, <3>4 DEF TurnInv
    <2>3. QED
      BY <2>1, <2>2
  <1>6. ASSUME NEW e \in Entries, live' = e
        PROVE  live = e \/ (turn[t].pc = "store" /\ turn[t].e = e)
    BY <1>6, RagReviewNames
  <1>7. turn[t].pc = "store" => \A v \in Users : user[v].e # turn[t].e
    BY DEF RagInv, TurnInv, TurnAlone, Fresh
  <1>8. ASSUME NEW v \in Users
        PROVE  UserInv(v)'
    <2>1. user'[v] = user[v]
      OBVIOUS
    <2>2. user[v].e \in Entries => (live' = user[v].e => live = user[v].e)
      BY <1>6, <1>7
    <2>3. UserHolds(v)'
      BY <1>1, <2>1, <2>2, UserKept
    <2>4. QED
      BY <2>3 DEF RagInv, UserInv, UserAlone
  <1>9. ASSUME NEW e \in Entries
        PROVE  EntryInv(e)'
    <2>1. EntrySound(entry'[e]) /\ Gone(e)'
      BY <1>1, EntrySoundAfter
    <2>2. ASSUME live' = e
          PROVE  RiskOver(e)'
      <3>1. entry'[e] = entry[e]
        <4>1. Readable(e)'
          BY <2>2 DEF Readable
        <4>2. QED
          BY <4>1, EnteredEach
      <3>2. CASE live = e
        BY <3>1, <3>2 DEF RagInv, EntryInv, RiskOver
      <3>3. CASE turn[t].pc = "store" /\ turn[t].e = e
        BY <3>1, <3>3 DEF RagInv, TurnInv, TurnHolds, RiskOver, Fresh
      <3>4. QED
        BY <1>6, <2>2, <3>2, <3>3
    <2>3. RiskOver(e)'
      BY <2>2 DEF RiskOver
    <2>4. QED
      BY <2>1, <2>3 DEF EntryInv
  <1>10. Stands
    BY EnteredEach DEF Stands
  <1>11. QED
    BY <1>4, <1>5, <1>8, <1>9, <1>10 DEF RagInv

\* A turn writes an entry that it alone knows.
LEMMA FreshMoves ==
    ASSUME RagInv, NEW t \in Turns, NEW d \in Entries,
           NEW after \in [Entries -> EntryRecords], Entered(after),
           \A e \in Entries \ {d} : after[e] = entry[e],
           EntrySound(after[d]),
           ~ entry[d].settled,
           live # d,
           \A s \in Turns \ {t} : turn[s].e # d,
           \A u \in Users : user[u].e # d,
           turn' \in [Turns -> TurnRecords],
           \A s \in Turns \ {t} : turn'[s] = turn[s],
           turn'[t].e = d,
           TurnHolds(t)',
           UNCHANGED <<live, locked, user, text>>
    PROVE  RagInv' /\ Stands
  <1>1. \A e \in Entries : EntrySound(after[e])
    BY DEF RagInv, EntryInv
  <1>2. entry' \in [Entries -> EntryRecords]
    BY <1>1, EntriesTyped
  <1>3. RagTypes'
    BY <1>2 DEF RagInv, RagTypes, TypeOK, EntryRecords
  <1>4. ASSUME NEW s \in Turns
        PROVE  TurnInv(s)'
    <2>1. CASE s = t
      BY <2>1 DEF TurnInv, TurnAlone
    <2>2. CASE s # t
      <3>1. turn'[s] = turn[s] /\ turn[s].e # d
        BY <2>2
      <3>2. TurnHolds(s)'
        BY <3>1, TurnKept
      <3>3. TurnAlone(s)'
        BY <3>1 DEF TurnAlone, RagInv, TurnInv
      <3>4. QED
        BY <3>2, <3>3 DEF TurnInv
    <2>3. QED
      BY <2>1, <2>2
  <1>5. ASSUME NEW v \in Users
        PROVE  UserInv(v)'
    <2>1. user'[v] = user[v] /\ user[v].e # d
      OBVIOUS
    <2>2. UserHolds(v)'
      BY <2>1, UserKept
    <2>3. QED
      BY <2>2 DEF RagInv, UserInv, UserAlone
  <1>6. ASSUME NEW e \in Entries
        PROVE  EntryInv(e)'
    <2>1. EntrySound(entry'[e]) /\ Gone(e)'
      BY <1>1, EntrySoundAfter
    <2>2. ASSUME live' = e
          PROVE  RiskOver(e)'
      <3>1. entry'[e] = entry[e]
        <4>1. Readable(e)' /\ e # d
          BY <2>2 DEF Readable
        <4>2. QED
          BY <4>1, EnteredEach
      <3>2. QED
        BY <2>2, <3>1 DEF RagInv, EntryInv, RiskOver
    <2>3. RiskOver(e)'
      BY <2>2 DEF RiskOver
    <2>4. QED
      BY <2>1, <2>3 DEF EntryInv
  <1>7. Stands
    <2>1. \A e \in Entries : entry[e].settled => e # d
      OBVIOUS
    <2>2. QED
      BY <2>1, EnteredEach DEF Stands
  <1>8. QED
    BY <1>3, <1>4, <1>5, <1>6, <1>7 DEF RagInv

\* A decision moves and writes an entry that is not settled: the one it is
\* about, or the one under the key.
LEMMA UserMoves ==
    ASSUME RagInv, NEW u \in Users, NEW d \in Entries,
           d \in {live, user[u].e},
           user[u].e \in {Nobody, d},
           ~ entry[d].settled,
           NEW after \in [Entries -> EntryRecords], Entered(after),
           \A e \in Entries \ {d} : after[e] = entry[e],
           EntrySound(after[d]),
           \A v \in Users \ {u} : user[v].e # d,
           user' \in [Users -> UserRecords],
           \A v \in Users \ {u} : user'[v] = user[v],
           user'[u].e \in {Nobody, d},
           UserHolds(u)',
           RiskOver(d)',
           locked' \subseteq Entries,
           locked \ {d} \subseteq locked',
           live' \in {live, Nobody},
           UNCHANGED <<turn, text>>
    PROVE  RagInv' /\ Stands
  <1>1. \A e \in Entries : EntrySound(after[e])
    BY DEF RagInv, EntryInv
  <1>2. entry' \in [Entries -> EntryRecords]
    BY <1>1, EntriesTyped
  <1>3. RagTypes'
    BY <1>2 DEF RagInv, RagTypes, TypeOK, EntryRecords
  <1>4. ASSUME NEW s \in Turns
        PROVE  TurnInv(s)'
    <2>1. turn[s].pc \in Fresh => /\ turn[s].e \in Entries
                                  /\ turn[s].e # d
                                  /\ turn[s].e # Nobody
                                  /\ \A r \in Turns \ {s} : turn[r].e # turn[s].e
                                  /\ live # turn[s].e
                                  /\ \A v \in Users : user[v].e # turn[s].e
      BY RagReviewNames DEF RagInv, TurnInv, TurnHolds, TurnAlone
    <2>2. turn[s].e # d
      BY <2>1, NotReading
    <2>3. TurnHolds(s)'
      BY <2>2, TurnKept
    <2>4. TurnAlone(s)'
      BY <2>1 DEF TurnAlone
    <2>5. QED
      BY <2>3, <2>4 DEF TurnInv
  <1>5. ASSUME NEW v \in Users
        PROVE  UserInv(v)'
    <2>1. CASE v = u
      <3>1. user'[u].pc # "idle" => user'[u].e = d
        BY RagReviewNames DEF UserHolds
      <3>2. QED
        BY <2>1, <3>1 DEF UserInv, UserAlone
    <2>2. CASE v # u
      <3>1. user'[v] = user[v] /\ user[v].e # d
        BY <2>2
      <3>2. user[v].e \in Entries => (live' = user[v].e => live = user[v].e)
        BY RagReviewNames
      <3>3. UserHolds(v)'
        BY <3>1, <3>2, UserKept
      <3>4. user[v].pc # "idle" => /\ user[v].e \in Entries
                                   /\ \A w \in Users \ {v} : user[w].e # user[v].e
        BY DEF RagInv, UserInv, UserHolds, UserAlone
      <3>5. UserAlone(v)'
        BY <3>1, <3>4, RagReviewNames DEF UserAlone
      <3>6. QED
        BY <3>3, <3>5 DEF UserInv
    <2>3. QED
      BY <2>1, <2>2
  <1>6. ASSUME NEW e \in Entries
        PROVE  EntryInv(e)'
    <2>1. EntrySound(entry'[e]) /\ Gone(e)'
      BY <1>1, EntrySoundAfter
    <2>2. ASSUME live' = e, e # d
          PROVE  RiskOver(e)'
      <3>1. live = e
        BY <2>2, RagReviewNames
      <3>2. entry'[e] = entry[e]
        <4>1. Readable(e)'
          BY <2>2 DEF Readable
        <4>2. QED
          BY <2>2, <4>1, EnteredEach
      <3>3. RiskOver(e) /\ user[u].e # e
        BY <2>2, RagReviewNames DEF RagInv, EntryInv
      <3>4. \A v \in Users : user[v].e = e => user'[v] = user[v]
        BY <3>3
      <3>5. QED
        BY <3>1, <3>2, <3>3, <3>4 DEF RiskOver
    <2>3. RiskOver(e)'
      BY <2>2 DEF RiskOver
    <2>4. QED
      BY <2>1, <2>3 DEF EntryInv
  <1>7. Stands
    <2>1. \A e \in Entries : entry[e].settled => e # d
      OBVIOUS
    <2>2. QED
      BY <2>1, EnteredEach DEF Stands
  <1>8. QED
    BY <1>3, <1>4, <1>5, <1>6, <1>7 DEF RagInv

----------------------------------------------------------------------------
(* The steps of a turn.                                                    *)

\* A turn that only moves on keeps what it holds.
LEMMA MovesFields ==
    ASSUME RagInv, NEW t \in Turns, NEW pc \in {"idle", "ask"} \union Fresh \union Reading,
           Moves(t, pc)
    PROVE  /\ turn' \in [Turns -> TurnRecords]
           /\ \A s \in Turns \ {t} : turn'[s] = turn[s]
           /\ turn'[t].pc = pc
           /\ turn'[t].e = turn[t].e
           /\ turn'[t].query = turn[t].query
           /\ turn'[t].text = turn[t].text
  BY DEF RagInv, RagTypes, TurnRecords, Moves

\* The idle turn is typed.
LEMMA IdleTurnTyped ==
    /\ IdleTurn \in TurnRecords
    /\ IdleTurn.pc = "idle"
    /\ IdleTurn.e = Nobody
  BY RagReviewAssumption DEF IdleTurn, TurnRecords

\* A turn that stops holds nothing.
LEMMA StopsFields ==
    ASSUME RagInv, NEW t \in Turns, Stops(t)
    PROVE  /\ turn' \in [Turns -> TurnRecords]
           /\ \A s \in Turns \ {t} : turn'[s] = turn[s]
           /\ turn'[t].pc = "idle"
           /\ turn'[t].e = Nobody
           /\ TurnHolds(t)'
  <1>1. turn \in [Turns -> TurnRecords]
    BY DEF RagInv, RagTypes
  <1>2. /\ turn' \in [Turns -> TurnRecords]
        /\ \A s \in Turns \ {t} : turn'[s] = turn[s]
        /\ turn'[t].pc = "idle"
        /\ turn'[t].e = Nobody
    BY <1>1, IdleTurnTyped DEF Stops
  <1>3. TurnHolds(t)'
    BY <1>2 DEF TurnHolds, Fresh, Reading
  <1>4. QED
    BY <1>2, <1>3

\* A turn that gets evidence keeps its entry.
LEMMA GetsFields ==
    ASSUME RagInv, NEW t \in Turns, NEW e \in Entries, Gets(t, e)
    PROVE  /\ turn' \in [Turns -> TurnRecords]
           /\ \A s \in Turns \ {t} : turn'[s] = turn[s]
           /\ turn'[t].pc = "got"
           /\ turn'[t].e = e
           /\ turn'[t].query = turn[t].query
           /\ turn'[t].text = text
  <1>1. text \in 0..MaxText
    BY RagReviewAssumption DEF RagInv, RagTypes, TypeOK
  <1>2. QED
    BY <1>1 DEF RagInv, RagTypes, TurnRecords, Gets, Reading

\* A turn reads its entry as it was written.
LEMMA HeldAsWritten ==
    ASSUME NEW after, Entered(after), NEW t \in Turns, NEW e \in Entries, turn'[t].e = e
    PROVE  entry'[e] = after[e]
  <1>1. Readable(e)'
    BY DEF Readable
  <1>2. QED
    BY <1>1, EnteredEach

\* What a turn with evidence knows of its entry.
LEMMA ReadingFacts ==
    ASSUME RagInv, NEW t \in Turns, turn[t].pc \in Reading
    PROVE  /\ turn[t].e \in Entries
           /\ turn[t].query \in Queries
           /\ entry[turn[t].e].query = turn[t].query
           /\ entry[turn[t].e].settled
           /\ turn[t].query \in Reviewed => entry[turn[t].e].delivered # {}
           /\ turn[t].pc \in {"validated", "got"} /\ turn[t].query \in Reviewed =>
                 turn[t].text = entry[turn[t].e].text
  <1>1. TurnHolds(t)
    BY DEF RagInv, TurnInv
  <1>2. QED
    BY <1>1 DEF TurnHolds, Reading

\* A turn with evidence goes on with it.
LEMMA ReadingOn ==
    ASSUME RagInv, NEW t \in Turns, turn[t].pc \in Reading, Entered(entry),
           turn' \in [Turns -> TurnRecords],
           \A s \in Turns \ {t} : turn'[s] = turn[s],
           turn'[t].e = turn[t].e,
           turn'[t].query = turn[t].query,
           turn'[t].pc \in Reading,
           turn'[t].pc \in {"validated", "got"} /\ turn[t].query \in Reviewed =>
              turn'[t].text = entry[turn[t].e].text,
           live' \in {live, Nobody},
           UNCHANGED <<locked, user, text>>
    PROVE  RagInv' /\ Stands
  <1>1. PICK e : e = turn[t].e
    OBVIOUS
  <1>2. e \in Entries
    BY <1>1, ReadingFacts
  <1>3. entry'[e] = entry[e]
    BY <1>1, <1>2, HeldAsWritten
  <1>4. TurnHolds(t)'
    BY <1>1, <1>2, <1>3, ReadingFacts DEF TurnHolds, Fresh, Reading
  <1>5. QED
    BY <1>4, TurnMoves DEF Fresh, Reading

\* A search begins: the evidence under the key is replayed, or the key is
\* emptied and the agent asked.
LEMMA SearchBeginStep ==
    ASSUME RagInv, NEW t \in Turns, NEW q \in Queries, SearchBegin(t, q)
    PROVE  RagInv' /\ Stands
  <1>1. /\ turn \in [Turns -> TurnRecords]
        /\ UNCHANGED <<locked, user, text>>
        /\ Entered(entry)
    BY DEF SearchBegin, SearchUnchanged, RagInv, RagTypes
  <1>2. CASE /\ live # Nobody
             /\ Serves(live, q)
             /\ entry[live].delivered # {}
             /\ turn' = [turn EXCEPT ![t] =
                            [IdleTurn EXCEPT !.pc = "replay", !.query = q, !.e = live]]
             /\ UNCHANGED live
    <2>1. PICK e : e = live
      OBVIOUS
    <2>2. e \in Entries
      BY <1>2, <2>1 DEF RagInv, RagTypes, TypeOK
    <2>3. /\ entry[e].query = q
          /\ entry[e].delivered # {}
          /\ entry[e].settled
      BY <1>2, <2>1, <2>2 DEF Serves, RagInv, EntryInv, EntrySound
    <2>4. PICK i \in TurnRecords : i = IdleTurn
      BY IdleTurnTyped
    <2> DEFINE x == [i EXCEPT !.pc = "replay", !.query = q, !.e = e]
    <2>5. x \in TurnRecords /\ x.pc = "replay" /\ x.query = q /\ x.e = e
      BY <2>2 DEF TurnRecords, Reading
    <2>6. turn' = [turn EXCEPT ![t] = x]
      BY <1>2, <2>1, <2>4
    <2> HIDE DEF x
    <2>7. /\ turn' \in [Turns -> TurnRecords]
          /\ \A s \in Turns \ {t} : turn'[s] = turn[s]
          /\ turn'[t].pc = "replay"
          /\ turn'[t].query = q
          /\ turn'[t].e = e
      BY <1>1, <2>5, <2>6
    <2>8. entry'[e] = entry[e]
      BY <1>1, <2>2, <2>7, HeldAsWritten
    <2>9. TurnHolds(t)'
      BY <2>2, <2>3, <2>7, <2>8 DEF TurnHolds, Fresh, Reading
    <2>10. QED
      BY <1>1, <1>2, <2>1, <2>7, <2>9, TurnMoves DEF Fresh
  <1>3. CASE /\ live' = Nobody
             /\ turn' = [turn EXCEPT ![t] = [IdleTurn EXCEPT !.pc = "ask", !.query = q]]
    <2>1. PICK i \in TurnRecords : i = IdleTurn /\ i.e = Nobody
      BY IdleTurnTyped
    <2> DEFINE x == [i EXCEPT !.pc = "ask", !.query = q]
    <2>2. x \in TurnRecords /\ x.pc = "ask" /\ x.query = q /\ x.e = Nobody
      BY <2>1 DEF TurnRecords
    <2>3. turn' = [turn EXCEPT ![t] = x]
      BY <1>3, <2>1
    <2> HIDE DEF x
    <2>4. /\ turn' \in [Turns -> TurnRecords]
          /\ \A s \in Turns \ {t} : turn'[s] = turn[s]
          /\ turn'[t].pc = "ask"
          /\ turn'[t].query = q
          /\ turn'[t].e = Nobody
      BY <1>1, <2>2, <2>3
    <2>5. TurnHolds(t)'
      BY <2>4 DEF TurnHolds, Fresh, Reading
    <2>6. QED
      BY <1>1, <1>3, <2>4, <2>5, TurnMoves DEF Fresh
  <1>4. QED
    BY <1>2, <1>3 DEF SearchBegin

\* Delivered evidence is resolved again.
LEMMA ReplayStep ==
    ASSUME RagInv, NEW t \in Turns, Replay(t)
    PROVE  RagInv' /\ Stands
  <1>1. PICK e : e = turn[t].e
    OBVIOUS
  <1>2. /\ turn[t].pc = "replay"
        /\ turn[t].pc \in Reading
        /\ turn \in [Turns -> TurnRecords]
        /\ UNCHANGED <<live, locked, user, text>>
        /\ Entered(entry)
    BY DEF Replay, SearchUnchanged, RagInv, RagTypes, Reading
  <1>3. e \in Entries /\ entry[e].query = turn[t].query
    BY <1>1, <1>2, ReadingFacts
  <1>4. CASE (NeedsReview(e) => SameAsSeen(e)) /\ Gets(t, e)
    <2>1. turn[t].query \in Reviewed => entry[e].text = text
      BY <1>3, <1>4 DEF NeedsReview, SameAsSeen
    <2>2. QED
      BY <1>1, <1>2, <1>3, <1>4, <2>1, GetsFields, ReadingOn DEF Reading
  <1>5. CASE Moves(t, "drop")
    BY <1>2, <1>5, MovesFields, ReadingOn DEF Reading
  <1>6. CASE turn' = [turn EXCEPT ![t].pc = "drop", ![t].again = TRUE]
    <2>1. /\ turn' \in [Turns -> TurnRecords]
          /\ \A s \in Turns \ {t} : turn'[s] = turn[s]
          /\ turn'[t].pc = "drop"
          /\ turn'[t].e = turn[t].e
          /\ turn'[t].query = turn[t].query
      BY <1>2, <1>6 DEF TurnRecords, Reading
    <2>2. QED
      BY <1>2, <2>1, ReadingOn DEF Reading
  <1>7. CASE Stops(t)
    BY <1>2, <1>7, StopsFields, TurnMoves DEF Fresh
  <1>8. QED
    BY <1>1, <1>4, <1>5, <1>6, <1>7 DEF Replay

\* The entry under the key goes, and a search may follow.
LEMMA ReplayDropStep ==
    ASSUME RagInv, NEW t \in Turns, ReplayDrop(t)
    PROVE  RagInv' /\ Stands
  <1>1. /\ turn[t].pc = "drop"
        /\ turn \in [Turns -> TurnRecords]
        /\ live' = Nobody
        /\ UNCHANGED <<locked, user, text>>
        /\ Entered(entry)
    BY DEF ReplayDrop, SearchUnchanged, RagInv, RagTypes
  <1>2. CASE turn' = [turn EXCEPT ![t].pc = "ask", ![t].again = FALSE, ![t].e = Nobody]
    <2>1. turn[t].query \in Queries
      BY <1>1, ReadingFacts DEF Reading
    <2>2. /\ turn' \in [Turns -> TurnRecords]
          /\ \A s \in Turns \ {t} : turn'[s] = turn[s]
          /\ turn'[t].pc = "ask"
          /\ turn'[t].e = Nobody
          /\ turn'[t].query = turn[t].query
      BY <1>1, <1>2 DEF TurnRecords
    <2>3. TurnHolds(t)'
      BY <2>1, <2>2 DEF TurnHolds, Fresh, Reading
    <2>4. QED
      BY <1>1, <2>2, <2>3, TurnMoves DEF Fresh
  <1>3. CASE Stops(t)
    BY <1>1, <1>3, StopsFields, TurnMoves DEF Fresh
  <1>4. QED
    BY <1>2, <1>3 DEF ReplayDrop

\* An answer of the agent is a sound entry that nothing was decided on.
LEMMA AnsweredSound ==
    ASSUME NEW q \in Queries, NEW outcome, NEW w \in BOOLEAN, text \in 1..MaxText
    PROVE  /\ Answered(q, outcome, w) \in EntryRecords
           /\ EntrySound(Answered(q, outcome, w))
           /\ Answered(q, outcome, w).query = q
           /\ ~ Answered(q, outcome, w).settled
           /\ Answered(q, outcome, w).withheld = w
           /\ Answered(q, outcome, w).risks = 0
  <1> DEFINE st == CASE outcome = "confirmation" -> "confirmation"
                     [] w -> "incomplete"
                     [] OTHER -> "materials"
             ps == IF outcome = "ok" THEN {"clean"} ELSE {}
  <1>1. /\ st \in {"confirmation", "incomplete", "materials"}
        /\ w => st # "materials"
    OBVIOUS
  <1>2. /\ ps \in SUBSET Pieces
        /\ "sensitive" \notin ps
        /\ "unchecked" \notin ps
    BY DEF Pieces
  <1>3. PICK n \in EntryRecords : n = NoEntry /\ ~ n.settled /\ n.risks = 0 /\ n.delivered = {}
    BY NoEntrySound
  <1>4. text \in 0..MaxText
    BY RagReviewAssumption
  <1> HIDE DEF st, ps
  <1> DEFINE r == [n EXCEPT !.query = q, !.state = st, !.passed = ps, !.withheld = w,
                            !.text = text]
  <1>5. Answered(q, outcome, w) = r
    BY <1>3 DEF Answered, st, ps
  <1>6. /\ r \in EntryRecords
        /\ r.query = q
        /\ r.state = st
        /\ r.passed = ps
        /\ r.withheld = w
        /\ ~ r.settled
        /\ r.risks = 0
        /\ r.delivered = {}
    BY <1>1, <1>2, <1>3, <1>4 DEF EntryRecords
  <1> HIDE DEF r
  <1>7. EntrySound(r)
    BY <1>1, <1>2, <1>6 DEF EntrySound
  <1>8. QED
    BY <1>5, <1>6, <1>7

\* The answer of the agent becomes an entry that only its turn knows.
LEMMA AskStep ==
    ASSUME RagInv, NEW t \in Turns, Ask(t)
    PROVE  RagInv' /\ Stands
  <1>1. PICK q : q = turn[t].query
    OBVIOUS
  <1>2. /\ turn[t].pc = "ask"
        /\ UNCHANGED <<live, locked, user, text>>
        /\ turn \in [Turns -> TurnRecords]
        /\ entry \in [Entries -> EntryRecords]
        /\ text \in 1..MaxText
        /\ TurnHolds(t)
    BY DEF Ask, SearchUnchanged, RagInv, RagTypes, TypeOK, EntryRecords, TurnInv
  <1>3. q \in Queries
    BY <1>1, <1>2 DEF TurnHolds
  <1>4. CASE Stops(t) /\ Entered(entry)
    BY <1>2, <1>4, StopsFields, TurnMoves DEF Fresh
  <1>5. ASSUME NEW o \in Outcomes, NEW d \in Entries,
               ~ Held(d),
               turn' = [turn EXCEPT ![t].e = d,
                  ![t].pc = IF q \notin Reviewed /\ o = <<"ok", FALSE>>
                            THEN "resolve" ELSE "store"],
               Entered([entry EXCEPT ![d] = Answered(q, o[1], o[2])])
        PROVE  RagInv' /\ Stands
    <2>1. PICK oc \in {"ok", "confirmation", "nothing", "incomplete"}, w \in BOOLEAN :
             o = <<oc, w>>
      <3>1. CASE o \in {"ok", "confirmation"} \X BOOLEAN
        BY <3>1
      <3>2. CASE o \in {<<"nothing", FALSE>>, <<"incomplete", TRUE>>}
        BY <3>2
      <3>3. QED
        BY <3>1, <3>2 DEF Outcomes
    <2>2. PICK r : r = Answered(q, o[1], w)
      OBVIOUS
    <2>3. /\ r \in EntryRecords
          /\ EntrySound(r)
          /\ r.query = q
          /\ ~ r.settled
          /\ r.withheld = w
          /\ r.risks = 0
      BY <1>2, <1>3, <2>2, AnsweredSound
    <2> DEFINE after == [entry EXCEPT ![d] = r]
    <2>4. /\ after \in [Entries -> EntryRecords]
          /\ after[d] = r
          /\ \A e \in Entries \ {d} : after[e] = entry[e]
          /\ Entered(after)
      BY <1>2, <1>5, <2>1, <2>2, <2>3
    <2> HIDE DEF after
    <2>5. PICK pc \in Fresh : pc = IF q \notin Reviewed /\ o = <<"ok", FALSE>>
                                   THEN "resolve" ELSE "store"
      BY DEF Fresh
    <2>6. pc = "resolve" => q \notin Reviewed /\ ~ w
      BY <2>1, <2>5
    <2>7. /\ turn' \in [Turns -> TurnRecords]
          /\ \A s \in Turns \ {t} : turn'[s] = turn[s]
          /\ turn'[t].pc = pc
          /\ turn'[t].e = d
          /\ turn'[t].query = q
      <3>1. turn' = [turn EXCEPT ![t].e = d, ![t].pc = pc]
        BY <1>5, <2>5
      <3>2. QED
        BY <1>1, <1>2, <3>1 DEF TurnRecords
    <2>8. /\ entry[d] = NoEntry
          /\ live # d
          /\ \A s \in Turns : turn[s].e # d
          /\ \A v \in Users : user[v].e # d
      BY <1>5 DEF RagInv, EntryInv, Gone, Held, Readable
    <2>9. entry'[d] = r
      BY <2>4, <2>7, HeldAsWritten
    <2>10. TurnHolds(t)'
      BY <1>3, <2>3, <2>5, <2>6, <2>7, <2>9 DEF TurnHolds, Fresh, Reading
    <2>11. ~ entry[d].settled
      BY <2>8, NoEntrySound
    <2>12. QED
      BY <1>2, <2>3, <2>4, <2>7, <2>8, <2>10, <2>11, FreshMoves
  <1>6. QED
    BY <1>1, <1>4, <1>5 DEF Ask

\* What is delivered at once is what was checked and passed.
LEMMA DeliveredRecord ==
    ASSUME NEW x \in EntryRecords, EntrySound(x), x.query \notin Reviewed, ~ x.withheld
    PROVE  LET r == [x EXCEPT !.state = "ok", !.settled = TRUE, !.delivered = x.passed] IN
           /\ r \in EntryRecords
           /\ EntrySound(r)
           /\ r.settled
           /\ r.query = x.query
           /\ r.risks = x.risks
  <1>1. PICK ps \in SUBSET Pieces : ps = x.passed
    BY DEF EntryRecords
  <1> DEFINE r == [x EXCEPT !.state = "ok", !.settled = TRUE, !.delivered = ps]
  <1>2. /\ r \in EntryRecords
        /\ r.query = x.query
        /\ r.passed = ps
        /\ r.withheld = x.withheld
        /\ r.state = "ok"
        /\ r.settled
        /\ r.delivered = ps
        /\ r.token = x.token
        /\ r.risks = x.risks
        /\ r.decided = x.decided
    BY <1>1 DEF EntryRecords
  <1> HIDE DEF r
  <1>3. EntrySound(r)
    BY <1>1, <1>2 DEF EntrySound
  <1>4. QED
    BY <1>1, <1>2, <1>3 DEF r

\* Without a review, checked pieces are delivered at once.
LEMMA ResolveStep ==
    ASSUME RagInv, NEW t \in Turns, Resolve(t)
    PROVE  RagInv' /\ Stands
  <1>1. PICK d : d = turn[t].e
    OBVIOUS
  <1>2. PICK x : x = entry[d]
    OBVIOUS
  <1>3. /\ turn[t].pc = "resolve"
        /\ UNCHANGED <<live, locked, user, text>>
        /\ turn \in [Turns -> TurnRecords]
        /\ entry \in [Entries -> EntryRecords]
        /\ text \in 0..MaxText
        /\ TurnHolds(t)
        /\ TurnAlone(t)
    BY RagReviewAssumption
    DEF Resolve, SearchUnchanged, RagInv, RagTypes, TypeOK, EntryRecords, TurnInv
  <1>4. /\ d \in Entries
        /\ turn[t].query \in Queries \ Reviewed
        /\ x.query = turn[t].query
        /\ x.risks = 0
        /\ ~ x.settled
        /\ ~ x.withheld
    BY <1>1, <1>2, <1>3 DEF TurnHolds, Fresh
  <1>5. /\ live # d
        /\ \A s \in Turns \ {t} : turn[s].e # d
        /\ \A v \in Users : user[v].e # d
    BY <1>1, <1>3 DEF TurnAlone, Fresh
  <1>6. x \in EntryRecords /\ EntrySound(x)
    BY <1>2, <1>3, <1>4 DEF RagInv, EntryInv
  <1>7. CASE /\ turn' = [turn EXCEPT ![t].pc = "store", ![t].text = text]
             /\ Entered([entry EXCEPT ![d] = [@ EXCEPT !.state = "ok", !.settled = TRUE,
                                                      !.delivered = entry[d].passed]])
    <2> DEFINE r == [x EXCEPT !.state = "ok", !.settled = TRUE, !.delivered = x.passed]
               after == [entry EXCEPT ![d] = r]
    <2>1. /\ r \in EntryRecords
          /\ EntrySound(r)
          /\ r.settled
          /\ r.query = x.query
          /\ r.risks = x.risks
      BY <1>4, <1>6, DeliveredRecord
    <2>2. Entered(after)
      BY <1>2, <1>3, <1>4, <1>7
    <2> HIDE DEF r
    <2>3. /\ after \in [Entries -> EntryRecords]
          /\ after[d] = r
          /\ \A e \in Entries \ {d} : after[e] = entry[e]
      BY <1>3, <1>4, <2>1
    <2> HIDE DEF after
    <2>4. /\ turn' \in [Turns -> TurnRecords]
          /\ \A s \in Turns \ {t} : turn'[s] = turn[s]
          /\ turn'[t].pc = "store"
          /\ turn'[t].e = d
          /\ turn'[t].query = turn[t].query
      BY <1>1, <1>3, <1>7 DEF TurnRecords, Fresh
    <2>5. entry'[d] = r
      BY <1>4, <2>2, <2>3, <2>4, HeldAsWritten
    <2>6. TurnHolds(t)'
      BY <1>4, <2>1, <2>4, <2>5 DEF TurnHolds, Fresh, Reading
    <2>7. QED
      BY <1>2, <1>3, <1>4, <1>5, <2>1, <2>2, <2>3, <2>4, <2>6, FreshMoves
  <1>8. CASE /\ turn' = [turn EXCEPT ![t].pc = "ask", ![t].again = TRUE, ![t].e = Nobody]
             /\ Entered(entry)
    <2>1. /\ turn' \in [Turns -> TurnRecords]
          /\ \A s \in Turns \ {t} : turn'[s] = turn[s]
          /\ turn'[t].pc = "ask"
          /\ turn'[t].e = Nobody
          /\ turn'[t].query = turn[t].query
      BY <1>3, <1>8 DEF TurnRecords
    <2>2. TurnHolds(t)'
      BY <1>4, <2>1 DEF TurnHolds, Fresh, Reading
    <2>3. QED
      BY <1>3, <1>8, <2>1, <2>2, TurnMoves DEF Fresh
  <1>9. CASE Stops(t) /\ Entered(entry)
    BY <1>3, <1>9, StopsFields, TurnMoves DEF Fresh
  <1>10. QED
    BY <1>1, <1>7, <1>8, <1>9 DEF Resolve

\* The entry goes under the key.
LEMMA StoreStep ==
    ASSUME RagInv, NEW t \in Turns, Store(t)
    PROVE  RagInv' /\ Stands
  <1>1. PICK d : d = turn[t].e
    OBVIOUS
  <1>2. /\ turn[t].pc = "store"
        /\ live' = d
        /\ UNCHANGED <<locked, user, text>>
        /\ Entered(entry)
        /\ TurnHolds(t)
    BY <1>1 DEF Store, SearchUnchanged, RagInv, TurnInv
  <1>3. /\ d \in Entries
        /\ turn[t].query \in Queries
        /\ entry[d].query = turn[t].query
        /\ entry[d].settled => turn[t].query \notin Reviewed
    BY <1>1, <1>2 DEF TurnHolds, Fresh
  <1>4. CASE entry[d].settled /\ Moves(t, "got")
    <2>1. /\ turn' \in [Turns -> TurnRecords]
          /\ \A s \in Turns \ {t} : turn'[s] = turn[s]
          /\ turn'[t].pc = "got"
          /\ turn'[t].e = d
          /\ turn'[t].query = turn[t].query
      BY <1>1, <1>4, MovesFields DEF Reading
    <2>2. entry'[d] = entry[d]
      BY <1>2, <1>3, <2>1, HeldAsWritten
    <2>3. TurnHolds(t)'
      BY <1>3, <1>4, <2>1, <2>2 DEF TurnHolds, Fresh, Reading
    <2>4. QED
      BY <1>1, <1>2, <2>1, <2>3, TurnMoves DEF Fresh
  <1>5. CASE Stops(t)
    BY <1>1, <1>2, <1>5, StopsFields, TurnMoves DEF Fresh
  <1>6. QED
    BY <1>1, <1>4, <1>5 DEF Store

\* A validation begins with the evidence under the key.
LEMMA ValidateBeginStep ==
    ASSUME RagInv, NEW t \in Turns, ValidateBegin(t)
    PROVE  RagInv' /\ Stands
  <1>1. PICK d : d = live
    OBVIOUS
  <1>2. /\ live # Nobody
        /\ d \in Entries
        /\ entry[d].delivered # {}
        /\ entry[d].query \in Queries
        /\ UNCHANGED <<live, locked, user, text>>
        /\ Entered(entry)
        /\ turn \in [Turns -> TurnRecords]
    BY <1>1, RagReviewAssumption
    DEF ValidateBegin, NeedsReview, SearchUnchanged, RagInv, RagTypes, TypeOK
  <1>3. entry[d].settled
    BY <1>2 DEF RagInv, EntryInv, EntrySound
  <1>4. PICK i \in TurnRecords : i = IdleTurn
    BY IdleTurnTyped
  <1>5. PICK q \in Queries : q = entry[d].query
    BY <1>2
  <1> DEFINE x == [i EXCEPT !.pc = "validate", !.e = d, !.query = q]
  <1>6. x \in TurnRecords /\ x.pc = "validate" /\ x.query = q /\ x.e = d
    BY <1>2, <1>4 DEF TurnRecords, Reading
  <1>7. turn' = [turn EXCEPT ![t] = x]
    BY <1>1, <1>4, <1>5 DEF ValidateBegin
  <1> HIDE DEF x
  <1>8. /\ turn' \in [Turns -> TurnRecords]
        /\ \A s \in Turns \ {t} : turn'[s] = turn[s]
        /\ turn'[t].pc = "validate"
        /\ turn'[t].query = q
        /\ turn'[t].e = d
    BY <1>2, <1>6, <1>7
  <1>9. entry'[d] = entry[d]
    BY <1>2, <1>8, HeldAsWritten
  <1>10. TurnHolds(t)'
    BY <1>2, <1>3, <1>5, <1>8, <1>9 DEF TurnHolds, Fresh, Reading
  <1>11. QED
    BY <1>1, <1>2, <1>8, <1>10, TurnMoves DEF Fresh

\* A validation goes on and ends, and what it got enters the reply.
LEMMA ValidateStep ==
    ASSUME RagInv, NEW t \in Turns,
           ValidateResolve(t) \/ ValidateEnd(t) \/ Used(t)
    PROVE  RagInv' /\ Stands
  <1>1. PICK e : e = turn[t].e
    OBVIOUS
  <1>2. CASE ValidateResolve(t)
    <2>1. /\ turn[t].pc = "validate"
          /\ turn[t].pc \in Reading
          /\ UNCHANGED <<live, locked, user, text>>
          /\ Entered(entry)
          /\ turn \in [Turns -> TurnRecords]
          /\ text \in 0..MaxText
      BY <1>2, RagReviewAssumption
      DEF ValidateResolve, SearchUnchanged, RagInv, RagTypes, TypeOK, Reading
    <2>2. CASE SameAsSeen(e) /\ turn' = [turn EXCEPT ![t].pc = "validated", ![t].text = text]
      <3>1. /\ turn' \in [Turns -> TurnRecords]
            /\ \A s \in Turns \ {t} : turn'[s] = turn[s]
            /\ turn'[t].pc = "validated"
            /\ turn'[t].e = turn[t].e
            /\ turn'[t].query = turn[t].query
            /\ turn'[t].text = text
        BY <2>1, <2>2 DEF TurnRecords, Reading
      <3>2. QED
        BY <1>1, <2>1, <2>2, <3>1, ReadingOn DEF SameAsSeen, Reading
    <2>3. CASE Moves(t, "forget")
      BY <2>1, <2>3, MovesFields, ReadingOn DEF Reading
    <2>4. QED
      BY <1>1, <1>2, <2>2, <2>3 DEF ValidateResolve
  <1>3. CASE ValidateEnd(t)
    <2>1. /\ turn[t].pc \in {"validated", "forget"}
          /\ turn[t].pc \in Reading
          /\ live' \in {live, Nobody}
          /\ UNCHANGED <<locked, user, text>>
          /\ Entered(entry)
      BY <1>3 DEF ValidateEnd, SearchUnchanged, Reading
    <2>2. CASE turn[t].pc = "validated" /\ Moves(t, "got")
      <3>1. turn[t].query \in Reviewed => turn[t].text = entry[turn[t].e].text
        BY <2>1, <2>2, ReadingFacts
      <3>2. QED
        BY <2>1, <2>2, <3>1, MovesFields, ReadingOn DEF Reading
    <2>3. CASE Stops(t)
      BY <2>1, <2>3, StopsFields, TurnMoves DEF Fresh
    <2>4. QED
      BY <1>3, <2>2, <2>3 DEF ValidateEnd
  <1>4. CASE Used(t)
    <2>1. /\ Stops(t)
          /\ UNCHANGED <<live, locked, user, text>>
          /\ Entered(entry)
      BY <1>4 DEF Used, SearchUnchanged
    <2>2. QED
      BY <2>1, StopsFields, TurnMoves DEF Fresh
  <1>5. QED
    BY <1>2, <1>3, <1>4

\* Every step of a turn keeps the invariant and what was settled.
LEMMA TurnSteps ==
    ASSUME RagInv, NEW t \in Turns, TurnStep(t)
    PROVE  RagInv' /\ Stands
  BY SearchBeginStep, ReplayStep, ReplayDropStep, AskStep, ResolveStep, StoreStep,
     ValidateBeginStep, ValidateStep
  DEF TurnStep

----------------------------------------------------------------------------
(* The steps of a decision.                                                *)

\* A decision under way: what the invariant says of it and its entry.
LEMMA DecidingFacts ==
    ASSUME RagInv, NEW u \in Users, user[u].pc # "idle"
    PROVE  /\ user[u] \in UserRecords
           /\ user[u].e \in Entries
           /\ user[u].e \in locked
           /\ ~ entry[user[u].e].settled
           /\ user[u].action \in Actions
           /\ entry[user[u].e] \in EntryRecords
           /\ EntrySound(entry[user[u].e])
           /\ \A v \in Users \ {u} : user[v].e # user[u].e
  <1>1. UserHolds(u) /\ UserAlone(u) /\ user[u] \in UserRecords
    BY DEF RagInv, UserInv, RagTypes
  <1>2. user[u].e \in Entries
    BY <1>1 DEF UserHolds
  <1>3. entry[user[u].e] \in EntryRecords /\ EntrySound(entry[user[u].e])
    BY <1>2 DEF RagInv, RagTypes, TypeOK, EntryRecords, EntryInv
  <1>4. QED
    BY <1>1, <1>3 DEF UserHolds, UserAlone

\* The entry of a decision after a step: as it was written where it can be
\* read, and never settled by being detached.
LEMMA DecisionAfter ==
    ASSUME NEW after \in [Entries -> EntryRecords], Entered(after),
           NEW u \in Users, NEW d \in Entries, user'[u].e = d, ~ after[d].settled
    PROVE  /\ ~ entry'[d].settled
           /\ entry'[d].risks = after[d].risks
           /\ live' = d => entry'[d] = after[d]
  <1>1. Held(d)'
    BY DEF Held
  <1>2. live' = d => Readable(d)'
    BY DEF Readable
  <1>3. CASE Readable(d)'
    BY <1>3, EnteredEach
  <1>4. CASE ~ Readable(d)'
    <2>1. PICK r \in EntryRecords : r = after[d]
      OBVIOUS
    <2>2. entry'[d] = Detached(r)
      BY <1>1, <1>4, <2>1, EnteredEach
    <2>3. Detached(r).settled = FALSE /\ Detached(r).risks = r.risks
      BY DetachedSound
    <2>4. QED
      BY <1>2, <1>4, <2>1, <2>2, <2>3
  <1>5. QED
    BY <1>3, <1>4

\* A decision that ends holds nothing and gives its lock back.
LEMMA EndsFields ==
    ASSUME RagInv, NEW u \in Users, Ends(u)
    PROVE  /\ user' \in [Users -> UserRecords]
           /\ \A v \in Users \ {u} : user'[v] = user[v]
           /\ user'[u].e = Nobody
           /\ user'[u].pc = "idle"
           /\ UserHolds(u)'
           /\ locked' \subseteq Entries
           /\ locked \ {user[u].e} \subseteq locked'
  <1>1. /\ IdleUser \in UserRecords
        /\ IdleUser.pc = "idle"
        /\ IdleUser.e = Nobody
    BY DEF IdleUser, UserRecords
  <1>2. /\ user \in [Users -> UserRecords]
        /\ locked \subseteq Entries
    BY DEF RagInv, RagTypes, TypeOK
  <1>3. /\ user' \in [Users -> UserRecords]
        /\ \A v \in Users \ {u} : user'[v] = user[v]
        /\ user'[u] = IdleUser
        /\ locked' = locked \ {user[u].e}
    BY <1>1, <1>2 DEF Ends
  <1>4. UserHolds(u)'
    BY <1>1, <1>3 DEF UserHolds
  <1>5. QED
    BY <1>1, <1>2, <1>3, <1>4

\* No other decision is about the entry: where its risk token was spent and
\* the entry goes on, this decision spent it.
LEMMA RiskOverNow ==
    ASSUME RagInv, NEW u \in Users, NEW d \in Entries, live = d,
           \A v \in Users \ {u} : user[v].e # d, ~ entry[d].settled
    PROVE  entry[d].risks # 0 => \/ entry[d].state = "materials"
                                 \/ user[u].e = d /\ user[u].action = "risk"
                                    /\ user[u].pc \in {"commit", "drop"}
  BY DEF RagInv, EntryInv, RiskOver

\* A decision ends and its entry stays as it is.
LEMMA DecisionEnds ==
    ASSUME RagInv, NEW u \in Users, user[u].pc # "idle", Ends(u), Entered(entry),
           live' \in {live, Nobody},
           live' = user[u].e => ~ /\ user[u].action = "risk"
                                  /\ user[u].pc \in {"commit", "drop"},
           UNCHANGED <<turn, text>>
    PROVE  RagInv' /\ Stands
  <1>1. PICK d : d = user[u].e
    OBVIOUS
  <1>2. /\ d \in Entries
        /\ ~ entry[d].settled
        /\ EntrySound(entry[d])
        /\ \A v \in Users \ {u} : user[v].e # d
        /\ entry \in [Entries -> EntryRecords]
    BY <1>1, DecidingFacts DEF RagInv, RagTypes, TypeOK, EntryRecords
  <1>3. RiskOver(d)'
    <2> SUFFICES ASSUME live' = d
                 PROVE  RiskOver(d)'
      BY DEF RiskOver
    <2>1. live = d /\ Readable(d)'
      BY <1>2, RagReviewNames DEF Readable
    <2>2. entry'[d] = entry[d]
      BY <1>2, <2>1, EnteredEach
    <2>3. entry[d].risks # 0 => entry[d].state = "materials"
      BY <1>1, <1>2, <2>1, RiskOverNow
    <2>4. QED
      BY <2>2, <2>3 DEF RiskOver
  <1>4. QED
    BY <1>1, <1>2, <1>3, EndsFields, UserMoves

\* A decision goes on and its entry stays as it is.
LEMMA DecisionGoesOn ==
    ASSUME RagInv, NEW u \in Users, user[u].pc # "idle", Entered(entry),
           user' \in [Users -> UserRecords],
           \A v \in Users \ {u} : user'[v] = user[v],
           user'[u].e = user[u].e,
           user[u].pc \notin {"commit", "drop"},
           UserHolds(u)',
           UNCHANGED <<live, locked, turn, text>>
    PROVE  RagInv' /\ Stands
  <1>1. PICK d : d = user[u].e
    OBVIOUS
  <1>2. /\ d \in Entries
        /\ ~ entry[d].settled
        /\ EntrySound(entry[d])
        /\ \A v \in Users \ {u} : user[v].e # d
        /\ entry \in [Entries -> EntryRecords]
        /\ locked \subseteq Entries
    BY <1>1, DecidingFacts DEF RagInv, RagTypes, TypeOK, EntryRecords
  <1>3. RiskOver(d)'
    <2> SUFFICES ASSUME live' = d
                 PROVE  RiskOver(d)'
      BY DEF RiskOver
    <2>1. live = d /\ Readable(d)'
      BY DEF Readable
    <2>2. entry'[d] = entry[d]
      BY <1>2, <2>1, EnteredEach
    <2>3. entry[d].risks # 0 => entry[d].state = "materials"
      BY <1>1, <1>2, <2>1, RiskOverNow
    <2>4. QED
      BY <2>2, <2>3 DEF RiskOver
  <1>4. QED
    BY <1>1, <1>2, <1>3, UserMoves

\* What the user picks changes nothing else of an open entry.
LEMMA PickedRecord ==
    ASSUME NEW x \in EntryRecords, EntrySound(x), ~ x.settled, NEW picks \in SUBSET Pieces
    PROVE  LET r == [x EXCEPT !.picked = picks] IN
           /\ r \in EntryRecords
           /\ EntrySound(r)
           /\ ~ r.settled
           /\ r.picked = picks
           /\ r.passed = x.passed
           /\ r.token = x.token
           /\ r.state = x.state
           /\ r.risks = x.risks
           /\ r.withheld = x.withheld
           /\ r.decided = x.decided
  <1> DEFINE r == [x EXCEPT !.picked = picks]
  <1>1. /\ r \in EntryRecords
        /\ ~ r.settled
        /\ r.picked = picks
        /\ r.delivered = x.delivered
        /\ r.passed = x.passed
        /\ r.token = x.token
        /\ r.state = x.state
        /\ r.risks = x.risks
        /\ r.withheld = x.withheld
        /\ r.decided = x.decided
    BY DEF EntryRecords
  <1> HIDE DEF r
  <1>2. EntrySound(r)
    BY <1>1 DEF EntrySound
  <1>3. QED
    BY <1>1, <1>2 DEF r

\* A decision begins, alone, on what its entry allows to be decided.
LEMMA DecideStep ==
    ASSUME RagInv, NEW u \in Users, NEW a \in Actions, NEW picks \in SUBSET Pieces,
           Decide(u, a, picks)
    PROVE  RagInv' /\ Stands
  <1>1. PICK d : d = live
    OBVIOUS
  <1>2. PICK x : x = entry[d]
    OBVIOUS
  <1>3. /\ user[u].pc = "idle"
        /\ d \in Entries
        /\ ~ x.settled
        /\ Allowed(d, a)
        /\ d \notin locked
        /\ picks \subseteq x.passed
        /\ (picks # {}) <=> (a = "selected")
        /\ locked' = locked \union {d}
        /\ user' = [user EXCEPT ![u] = [pc |-> "held", e |-> d, action |-> a, pieces |-> picks]]
        /\ UNCHANGED <<live, turn, text>>
        /\ user \in [Users -> UserRecords]
        /\ entry \in [Entries -> EntryRecords]
        /\ locked \subseteq Entries
    BY <1>1, <1>2
    DEF Decide, Lockable, DecisionUnchanged, RagInv, RagTypes, TypeOK, EntryRecords
  <1>4. \A v \in Users : user[v].e # d
    BY <1>3, RagReviewNames DEF RagInv, UserInv, UserHolds
  <1>5. x \in EntryRecords /\ EntrySound(x)
    BY <1>2, <1>3 DEF RagInv, EntryInv
  <1>6. user[u].e = Nobody
    BY <1>3 DEF RagInv, UserInv, UserHolds
  <1>7. x.risks # 0 => x.state = "materials"
    BY <1>1, <1>2, <1>3, <1>4, RiskOverNow
  <1>8. /\ a = "selected" => x.state = "materials"
        /\ a \in {"masked", "original"} => x.state = "confirmation"
        /\ a = "risk" => x.state # "materials"
    BY <1>2, <1>3 DEF Allowed
  <1>9. PICK r \in EntryRecords : /\ r = IF a = "selected" THEN [x EXCEPT !.picked = picks] ELSE x
                                  /\ EntrySound(r)
                                  /\ ~ r.settled
                                  /\ a = "selected" => r.picked = picks
                                  /\ r.passed = x.passed
                                  /\ r.token = x.token
                                  /\ r.state = x.state
                                  /\ r.risks = x.risks
                                  /\ r.withheld = x.withheld
                                  /\ r.decided = x.decided
    <2>1. CASE a = "selected"
      BY <1>3, <1>5, <2>1, PickedRecord
    <2>2. CASE a # "selected"
      BY <1>3, <1>5, <2>2
    <2>3. QED
      BY <2>1, <2>2
  <1> DEFINE after == [entry EXCEPT ![d] = r]
  <1>10. Entered(after)
    <2>1. CASE a = "selected"
      <3>1. after = [entry EXCEPT ![live].picked = picks]
        BY <1>1, <1>2, <1>3, <1>9, <2>1
      <3>2. QED
        BY <2>1, <3>1 DEF Decide
    <2>2. CASE a # "selected"
      <3>1. after = entry
        BY <1>2, <1>3, <1>9, <2>2
      <3>2. QED
        BY <2>2, <3>1 DEF Decide
    <2>3. QED
      BY <2>1, <2>2
  <1>11. /\ after \in [Entries -> EntryRecords]
         /\ after[d] = r
         /\ \A e \in Entries \ {d} : after[e] = entry[e]
    BY <1>3, <1>9
  <1> HIDE DEF after
  <1>12. /\ user' \in [Users -> UserRecords]
         /\ \A v \in Users \ {u} : user'[v] = user[v]
         /\ user'[u].pc = "held"
         /\ user'[u].e = d
         /\ user'[u].action = a
         /\ user'[u].pieces = picks
    BY <1>3 DEF UserRecords
  <1>13. /\ ~ entry'[d].settled
         /\ entry'[d].risks = r.risks
         /\ live' = d => entry'[d] = r
    <2>1. ~ after[d].settled
      BY <1>9, <1>11
    <2>2. /\ ~ entry'[d].settled
          /\ entry'[d].risks = after[d].risks
          /\ live' = d => entry'[d] = after[d]
      BY <1>3, <1>10, <1>11, <1>12, <2>1, DecisionAfter
    <2>3. QED
      BY <1>11, <2>2
  <1>14. a = "risk" => r.risks = 0
    BY <1>7, <1>8, <1>9
  <1>15. /\ a = "selected" /\ r.withheld => r.decided # {}
         /\ a = "without" => picks = {}
         /\ "sensitive" \in picks => r.token = "original"
         /\ "unchecked" \in picks => "risk" \in r.decided
    BY <1>3, <1>5, <1>8, <1>9 DEF EntrySound
  <1>16. UserHolds(u)'
    BY <1>1, <1>3, <1>8, <1>9, <1>12, <1>13, <1>14, <1>15 DEF UserHolds
  <1>17. RiskOver(d)'
    BY <1>7, <1>9, <1>13 DEF RiskOver
  <1>18. QED
    BY <1>1, <1>2, <1>3, <1>4, <1>6, <1>9, <1>10, <1>11, <1>12, <1>16, <1>17, UserMoves

\* The second look: the decision goes on, or finds its entry gone or settled.
LEMMA RecheckStep ==
    ASSUME RagInv, NEW u \in Users, Recheck(u)
    PROVE  RagInv' /\ Stands
  <1>1. PICK d : d = user[u].e
    OBVIOUS
  <1>2. PICK a : a = user[u].action
    OBVIOUS
  <1>3. /\ user[u].pc = "held"
        /\ UNCHANGED <<live, turn, text>>
        /\ Entered(entry)
        /\ user \in [Users -> UserRecords]
        /\ UserHolds(u)
    BY DEF Recheck, DecisionUnchanged, RagInv, RagTypes, UserInv
  <1>4. /\ d \in Entries
        /\ d \in locked
        /\ ~ entry[d].settled
        /\ a \in Actions
        /\ entry[d] \in EntryRecords
        /\ EntrySound(entry[d])
        /\ user[u].pieces \in SUBSET Pieces
        /\ entry \in [Entries -> EntryRecords]
    BY <1>1, <1>2, <1>3, DecidingFacts DEF UserRecords, RagInv, RagTypes, TypeOK, EntryRecords
  <1>5. CASE Ends(u)
    BY <1>3, <1>5, DecisionEnds
  <1>6. CASE /\ live = d
             /\ user' = [user EXCEPT
                   ![u].pc = CASE a = "cancel" -> "drop"
                               [] a \in {"without", "passed"} -> "commit"
                               [] OTHER -> "send",
                   ![u].pieces = IF a = "passed" THEN entry[d].passed ELSE @]
             /\ UNCHANGED locked
    <2>1. PICK pc \in {"drop", "commit", "send"} :
             pc = CASE a = "cancel" -> "drop"
                    [] a \in {"without", "passed"} -> "commit"
                    [] OTHER -> "send"
      OBVIOUS
    <2>2. PICK ps \in SUBSET Pieces :
             ps = IF a = "passed" THEN entry[d].passed ELSE user[u].pieces
      BY <1>4 DEF EntryRecords
    <2>3. user' = [user EXCEPT ![u].pc = pc, ![u].pieces = ps]
      BY <1>1, <1>2, <1>3, <1>6, <2>1, <2>2
    <2>4. /\ user' \in [Users -> UserRecords]
          /\ \A v \in Users \ {u} : user'[v] = user[v]
          /\ user'[u].pc = pc
          /\ user'[u].e = d
          /\ user'[u].action = a
          /\ user'[u].pieces = ps
      BY <1>1, <1>2, <1>3, <2>3 DEF UserRecords
    <2>5. /\ pc = "commit" => a # "cancel"
          /\ pc = "send" => a \in {"selected", "masked", "original", "risk"}
      BY <1>4, <2>1 DEF Actions
    <2>6. /\ ~ entry'[d].settled
          /\ entry'[d].risks = entry[d].risks
          /\ live' = d => entry'[d] = entry[d]
      BY <1>3, <1>4, <2>4, DecisionAfter
    <2>7. /\ a = "selected" => /\ ps = entry[d].picked
                               /\ entry[d].withheld => entry[d].decided # {}
          /\ a \in {"masked", "original"} => entry[d].state = "confirmation"
          /\ a = "without" => ps = {}
          /\ "sensitive" \in ps => entry[d].token = "original"
          /\ "unchecked" \in ps => a = "risk" \/ "risk" \in entry[d].decided
          /\ a = "risk" => entry[d].risks = 0
      <3>1. CASE a = "passed"
        BY <1>4, <2>2, <3>1 DEF EntrySound
      <3>2. CASE a # "passed"
        BY <1>1, <1>2, <1>3, <1>6, <2>2, <3>2 DEF UserHolds
      <3>3. QED
        BY <3>1, <3>2
    <2>8. UserHolds(u)'
      BY <1>3, <1>4, <1>6, <2>4, <2>5, <2>6, <2>7 DEF UserHolds
    <2>9. QED
      BY <1>1, <1>3, <1>6, <2>4, <2>8, DecisionGoesOn
  <1>7. QED
    BY <1>1, <1>2, <1>5, <1>6 DEF Recheck

\* What was sent goes to the commit or comes to nothing.
LEMMA GoesOnTo ==
    ASSUME RagInv, NEW u \in Users, user[u].pc = "send", NEW pc \in {"commit", "drop"},
           user' = [user EXCEPT ![u].pc = pc], Entered(entry),
           UNCHANGED <<live, locked, turn, text>>
    PROVE  RagInv' /\ Stands
  <1>1. PICK d : d = user[u].e
    OBVIOUS
  <1>2. /\ user \in [Users -> UserRecords]
        /\ entry \in [Entries -> EntryRecords]
        /\ UserHolds(u)
    BY DEF RagInv, RagTypes, TypeOK, EntryRecords, UserInv
  <1>3. /\ user' \in [Users -> UserRecords]
        /\ \A v \in Users \ {u} : user'[v] = user[v]
        /\ user'[u].pc = pc
        /\ user'[u].e = d
        /\ user'[u].action = user[u].action
        /\ user'[u].pieces = user[u].pieces
    BY <1>1, <1>2 DEF UserRecords
  <1>4. d \in Entries /\ ~ entry[d].settled
    BY <1>1, DecidingFacts
  <1>5. /\ ~ entry'[d].settled
        /\ live' = d => entry'[d] = entry[d]
    BY <1>2, <1>3, <1>4, DecisionAfter
  <1>6. UserHolds(u)'
    BY <1>1, <1>2, <1>3, <1>5 DEF UserHolds
  <1>7. QED
    BY <1>1, <1>3, <1>6, DecisionGoesOn

\* The picked pieces are resolved again.
LEMMA SendSelectedStep ==
    ASSUME RagInv, NEW u \in Users, SendSelected(u)
    PROVE  RagInv' /\ Stands
  BY GoesOnTo DEF SendSelected, DecisionUnchanged

\* A confirmation token is spent on an action it was not spent on before.
LEMMA SpentRecord ==
    ASSUME NEW x \in EntryRecords, EntrySound(x), ~ x.settled,
           NEW a \in {"masked", "original"}, x.token \in {"unspent", a}
    PROVE  LET r == [x EXCEPT !.token = a] IN
           /\ r \in EntryRecords
           /\ EntrySound(r)
           /\ ~ r.settled
           /\ r.token = a
           /\ r.state = x.state
           /\ r.risks = x.risks
           /\ r.decided = x.decided
  <1> DEFINE r == [x EXCEPT !.token = a]
  <1>1. /\ r \in EntryRecords
        /\ ~ r.settled
        /\ r.token = a
        /\ r.delivered = x.delivered
        /\ r.passed = x.passed
        /\ r.state = x.state
        /\ r.risks = x.risks
        /\ r.withheld = x.withheld
        /\ r.decided = x.decided
    BY DEF EntryRecords
  <1> HIDE DEF r
  <1>2. EntrySound(r)
    BY <1>1 DEF EntrySound
  <1>3. QED
    BY <1>1, <1>2 DEF r

\* A confirmation is accepted, refused, or its answer is lost.
LEMMA SendConfirmStep ==
    ASSUME RagInv, NEW u \in Users, SendConfirm(u)
    PROVE  RagInv' /\ Stands
  <1>1. PICK d : d = user[u].e
    OBVIOUS
  <1>2. PICK a : a = user[u].action
    OBVIOUS
  <1>3. /\ user[u].pc = "send"
        /\ a \in {"masked", "original"}
        /\ UNCHANGED <<live, turn, text>>
        /\ user \in [Users -> UserRecords]
        /\ entry \in [Entries -> EntryRecords]
        /\ locked \subseteq Entries
        /\ UserHolds(u)
    BY <1>2
    DEF SendConfirm, DecisionUnchanged, RagInv, RagTypes, UserInv, TypeOK, EntryRecords
  <1>4. /\ d \in Entries
        /\ d \in locked
        /\ ~ entry[d].settled
        /\ entry[d] \in EntryRecords
        /\ EntrySound(entry[d])
        /\ \A v \in Users \ {u} : user[v].e # d
    BY <1>1, <1>3, DecidingFacts
  <1>5. CASE /\ entry[d].token \in {"unspent", a}
             /\ \/ /\ user' = [user EXCEPT ![u].pc = "commit",
                         ![u].pieces = IF a = "masked" THEN {"clean"}
                                       ELSE {"clean", "sensitive"}]
                   /\ UNCHANGED locked
                \/ Ends(u)
             /\ Entered([entry EXCEPT ![d].token = a])
    <2> DEFINE r == [entry[d] EXCEPT !.token = a]
               after == [entry EXCEPT ![d].token = a]
               ps == IF a = "masked" THEN {"clean"} ELSE {"clean", "sensitive"}
    <2>1. /\ r \in EntryRecords
          /\ EntrySound(r)
          /\ ~ r.settled
          /\ r.token = a
          /\ r.state = entry[d].state
          /\ r.risks = entry[d].risks
          /\ r.decided = entry[d].decided
      BY <1>3, <1>4, <1>5, SpentRecord
    <2>2. /\ after[d] = r
          /\ \A e \in Entries \ {d} : after[e] = entry[e]
          /\ after \in [Entries -> EntryRecords]
      BY <1>3, <1>4, <2>1
    <2>3. /\ ps \in SUBSET Pieces
          /\ "sensitive" \in ps => a = "original"
          /\ "unchecked" \notin ps
      BY <1>3 DEF Pieces
    <2>4. Entered(after)
      BY <1>5
    <2> HIDE DEF r, after, ps
    <2>5. RiskOver(d)'
      <3> SUFFICES ASSUME live' = d
                   PROVE  RiskOver(d)'
        BY DEF RiskOver
      <3>1. Readable(d)' /\ live = d
        BY <1>3 DEF Readable
      <3>2. entry'[d] = r
        BY <1>4, <2>2, <2>4, <3>1, EnteredEach
      <3>3. entry[d].risks # 0 => entry[d].state = "materials"
        BY <1>2, <1>3, <1>4, <3>1, RiskOverNow
      <3>4. QED
        BY <2>1, <3>2, <3>3 DEF RiskOver
    <2>6. CASE user' = [user EXCEPT ![u].pc = "commit", ![u].pieces = ps] /\ UNCHANGED locked
      <3>1. /\ user' \in [Users -> UserRecords]
            /\ \A v \in Users \ {u} : user'[v] = user[v]
            /\ user'[u].pc = "commit"
            /\ user'[u].e = d
            /\ user'[u].action = a
            /\ user'[u].pieces = ps
        BY <1>1, <1>2, <1>3, <2>3, <2>6 DEF UserRecords
      <3>2. /\ ~ entry'[d].settled
            /\ live' = d => entry'[d] = r
        BY <1>4, <2>1, <2>2, <2>4, <3>1, DecisionAfter
      <3>3. UserHolds(u)'
        BY <1>1, <1>2, <1>3, <1>4, <2>1, <2>3, <2>6, <3>1, <3>2 DEF UserHolds
      <3>4. QED
        BY <1>1, <1>3, <1>4, <2>1, <2>2, <2>4, <2>5, <2>6, <3>1, <3>3, UserMoves
    <2>7. CASE Ends(u)
      BY <1>1, <1>3, <1>4, <2>1, <2>2, <2>4, <2>5, <2>7, EndsFields, UserMoves
    <2>8. QED
      BY <1>5, <2>6, <2>7 DEF ps
  <1>6. CASE user' = [user EXCEPT ![u].pc = "drop"] /\ UNCHANGED locked /\ Entered(entry)
    BY <1>3, <1>6, GoesOnTo
  <1>7. CASE Ends(u) /\ Entered(entry)
    BY <1>3, <1>7, DecisionEnds
  <1>8. QED
    BY <1>1, <1>2, <1>5, <1>6, <1>7 DEF SendConfirm

\* One use of a risk token more.
LEMMA RiskedRecord ==
    ASSUME NEW x \in EntryRecords, EntrySound(x), x.risks = 0
    PROVE  LET r == [x EXCEPT !.risks = x.risks + 1] IN
           /\ r \in EntryRecords
           /\ EntrySound(r)
           /\ r.settled = x.settled
           /\ r.passed = x.passed
           /\ r.token = x.token
           /\ r.decided = x.decided
  <1> DEFINE r == [x EXCEPT !.risks = x.risks + 1]
  <1>1. /\ r \in EntryRecords
        /\ r.token = x.token
        /\ r.settled = x.settled
        /\ r.delivered = x.delivered
        /\ r.passed = x.passed
        /\ r.query = x.query
        /\ r.state = x.state
        /\ r.decided = x.decided
        /\ r.withheld = x.withheld
        /\ r.risks = 1
        /\ r.picked = x.picked
    BY DEF EntryRecords
  <1> HIDE DEF r
  <1>2. EntrySound(r)
    BY <1>1 DEF EntrySound
  <1>3. QED
    BY <1>1, <1>2 DEF r

\* A risk token is presented for the first time; whatever the agent answers,
\* the decision goes to its end or to the drop.
LEMMA SendRiskStep ==
    ASSUME RagInv, NEW u \in Users, SendRisk(u)
    PROVE  RagInv' /\ Stands
  <1>1. PICK d : d = user[u].e
    OBVIOUS
  <1>2. /\ user[u].pc = "send"
        /\ user[u].action = "risk"
        /\ UNCHANGED <<live, turn, text>>
        /\ Entered([entry EXCEPT ![d].risks = @ + 1])
        /\ user \in [Users -> UserRecords]
        /\ entry \in [Entries -> EntryRecords]
        /\ locked \subseteq Entries
        /\ UserHolds(u)
    BY <1>1 DEF SendRisk, DecisionUnchanged, RagInv, RagTypes, UserInv, TypeOK, EntryRecords
  <1>3. /\ d \in Entries
        /\ d \in locked
        /\ ~ entry[d].settled
        /\ entry[d] \in EntryRecords
        /\ EntrySound(entry[d])
        /\ entry[d].risks = 0
        /\ \A v \in Users \ {u} : user[v].e # d
    BY <1>1, <1>2, DecidingFacts DEF UserHolds
  <1> DEFINE r == [entry[d] EXCEPT !.risks = entry[d].risks + 1]
             after == [entry EXCEPT ![d].risks = @ + 1]
             ps == entry[d].passed \union {"unchecked"}
  <1>4. /\ r \in EntryRecords
        /\ EntrySound(r)
        /\ ~ r.settled
        /\ r.passed = entry[d].passed
        /\ r.token = entry[d].token
        /\ r.decided = entry[d].decided
    <2>1. r.settled = entry[d].settled
      BY <1>3, RiskedRecord
    <2>2. QED
      BY <1>3, <2>1, RiskedRecord
  <1>5. /\ after[d] = r
        /\ \A e \in Entries \ {d} : after[e] = entry[e]
        /\ after \in [Entries -> EntryRecords]
    BY <1>2, <1>3, <1>4
  <1>6. Entered(after)
    BY <1>2
  <1>7. ps \in SUBSET Pieces
    BY <1>3 DEF EntryRecords, Pieces
  <1>8. "sensitive" \in ps => entry[d].token = "original"
    BY <1>3 DEF EntrySound
  <1> HIDE DEF r, after
  <1>9. PICK pc \in {"commit", "drop"}, qs \in {ps, user[u].pieces} :
           /\ user' \in [Users -> UserRecords]
           /\ \A v \in Users \ {u} : user'[v] = user[v]
           /\ user'[u].pc = pc
           /\ user'[u].e = d
           /\ user'[u].action = "risk"
           /\ user'[u].pieces = qs
           /\ UNCHANGED locked
    <2>1. CASE /\ user' = [user EXCEPT ![u].pc = "commit", ![u].pieces = ps]
               /\ UNCHANGED locked
      <3> HIDE DEF ps
      <3>1. /\ user' \in [Users -> UserRecords]
            /\ \A v \in Users \ {u} : user'[v] = user[v]
            /\ user'[u].pc = "commit"
            /\ user'[u].e = d
            /\ user'[u].action = "risk"
            /\ user'[u].pieces = ps
        BY <1>1, <1>2, <1>7, <2>1 DEF UserRecords
      <3>2. QED
        BY <2>1, <3>1
    <2>2. CASE AfterLostRisk(u)
      <3>1. user' = [user EXCEPT ![u].pc = "drop"] /\ UNCHANGED locked
        BY <2>2 DEF AfterLostRisk
      <3> HIDE DEF ps
      <3>2. /\ user' \in [Users -> UserRecords]
            /\ \A v \in Users \ {u} : user'[v] = user[v]
            /\ user'[u].pc = "drop"
            /\ user'[u].e = d
            /\ user'[u].action = "risk"
            /\ user'[u].pieces = user[u].pieces
        BY <1>1, <1>2, <3>1 DEF UserRecords
      <3>3. QED
        BY <3>1, <3>2
    <2>3. QED
      BY <1>1, <2>1, <2>2 DEF SendRisk
  <1>10. /\ ~ entry'[d].settled
         /\ live' = d => entry'[d] = r
    BY <1>3, <1>4, <1>5, <1>6, <1>9, DecisionAfter
  <1>11. live = d => ("sensitive" \in qs => r.token = "original")
    BY <1>1, <1>2, <1>4, <1>8, <1>9 DEF UserHolds
  <1>12. UserHolds(u)'
    BY <1>2, <1>3, <1>4, <1>9, <1>10, <1>11 DEF UserHolds, Actions
  <1>13. RiskOver(d)'
    BY <1>9 DEF RiskOver
  <1>14. QED
    BY <1>1, <1>2, <1>3, <1>4, <1>5, <1>6, <1>9, <1>12, <1>13, UserMoves

\* What a decision makes of its entry: it is asked again, shown again as
\* materials, or settled with what was decided.
DecidedAs(r, x, e, a, ps) ==
    /\ r \in EntryRecords
    /\ r.query = x.query
    /\ r.token = x.token
    /\ r.risks = x.risks
    /\ r.withheld = x.withheld
    /\ r.picked = x.picked
    /\ r.decided = x.decided \union ({a} \intersect OnWithheld)
    /\ \/ /\ AsksAgain(e, a)
          /\ r.state = "incomplete"
          /\ r.passed = ps
          /\ r.settled = x.settled
          /\ r.delivered = x.delivered
       \/ /\ ~ AsksAgain(e, a)
          /\ NeedsReview(e)
          /\ a \notin {"selected", "without"}
          /\ r.state = "materials"
          /\ r.passed = ps
          /\ r.settled = x.settled
          /\ r.delivered = x.delivered
       \/ /\ ~ AsksAgain(e, a)
          /\ NeedsReview(e) => a \in {"selected", "without"}
          /\ r.state = x.state
          /\ r.passed = x.passed
          /\ r.settled = TRUE
          /\ r.delivered = ps

\* Decided is one of the three.
LEMMA DecidedFields ==
    ASSUME NEW e, entry[e] \in EntryRecords, NEW a, NEW ps \in SUBSET Pieces
    PROVE  DecidedAs(Decided(e, a, ps), entry[e], e, a, ps)
  <1>1. PICK x : x = entry[e]
    OBVIOUS
  <1>2. x \in EntryRecords
    BY <1>1
  <1>3. PICK D \in SUBSET OnWithheld : D = x.decided \union ({a} \intersect OnWithheld)
    BY <1>2 DEF EntryRecords
  <1> DEFINE d == [x EXCEPT !.decided = D]
  <1>4. d = [entry[e] EXCEPT !.decided = @ \union ({a} \intersect OnWithheld)]
    BY <1>1, <1>3
  <1>5. /\ d \in EntryRecords
        /\ d.query = x.query
        /\ d.token = x.token
        /\ d.risks = x.risks
        /\ d.withheld = x.withheld
        /\ d.picked = x.picked
        /\ d.decided = D
        /\ d.state = x.state
        /\ d.passed = x.passed
        /\ d.settled = x.settled
        /\ d.delivered = x.delivered
    BY <1>2 DEF EntryRecords
  <1> HIDE DEF d
  <1>6. CASE AsksAgain(e, a)
    <2> DEFINE r == [d EXCEPT !.state = "incomplete", !.passed = ps]
    <2>1. Decided(e, a, ps) = r
      BY <1>4, <1>6 DEF Decided
    <2>2. /\ r \in EntryRecords
          /\ r.query = d.query
          /\ r.token = d.token
          /\ r.risks = d.risks
          /\ r.withheld = d.withheld
          /\ r.picked = d.picked
          /\ r.decided = d.decided
          /\ r.state = "incomplete"
          /\ r.passed = ps
          /\ r.settled = d.settled
          /\ r.delivered = d.delivered
      BY <1>5 DEF EntryRecords
    <2> HIDE DEF r
    <2>3. QED
      BY <1>1, <1>3, <1>5, <1>6, <2>1, <2>2 DEF DecidedAs
  <1>7. CASE /\ ~ AsksAgain(e, a)
             /\ NeedsReview(e)
             /\ a \notin {"selected", "without"}
    <2> DEFINE r == [d EXCEPT !.state = "materials", !.passed = ps]
    <2>1. Decided(e, a, ps) = r
      BY <1>4, <1>7 DEF Decided
    <2>2. /\ r \in EntryRecords
          /\ r.query = d.query
          /\ r.token = d.token
          /\ r.risks = d.risks
          /\ r.withheld = d.withheld
          /\ r.picked = d.picked
          /\ r.decided = d.decided
          /\ r.state = "materials"
          /\ r.passed = ps
          /\ r.settled = d.settled
          /\ r.delivered = d.delivered
      BY <1>5 DEF EntryRecords
    <2> HIDE DEF r
    <2>3. QED
      BY <1>1, <1>3, <1>5, <1>7, <2>1, <2>2 DEF DecidedAs
  <1>8. CASE /\ ~ AsksAgain(e, a)
             /\ NeedsReview(e) => a \in {"selected", "without"}
    <2> DEFINE r == [d EXCEPT !.settled = TRUE, !.delivered = ps]
    <2>1. Decided(e, a, ps) = r
      BY <1>4, <1>8 DEF Decided
    <2>2. /\ r \in EntryRecords
          /\ r.query = d.query
          /\ r.token = d.token
          /\ r.risks = d.risks
          /\ r.withheld = d.withheld
          /\ r.picked = d.picked
          /\ r.decided = d.decided
          /\ r.state = d.state
          /\ r.passed = d.passed
          /\ r.settled = TRUE
          /\ r.delivered = ps
      BY <1>5 DEF EntryRecords
    <2> HIDE DEF r
    <2>3. QED
      BY <1>1, <1>3, <1>5, <1>8, <2>1, <2>2 DEF DecidedAs
  <1>9. QED
    BY <1>6, <1>7, <1>8

\* A decision counts if its entry is still under the key; what it settles
\* was decided in full, and a spent risk token is over with it.
LEMMA CommitStep ==
    ASSUME RagInv, NEW u \in Users, Commit(u)
    PROVE  RagInv' /\ Stands
  <1>1. PICK d : d = user[u].e
    OBVIOUS
  <1>2. PICK a : a = user[u].action
    OBVIOUS
  <1>3. PICK ps : ps = user[u].pieces
    OBVIOUS
  <1>4. /\ user[u].pc = "commit"
        /\ Ends(u)
        /\ UNCHANGED <<live, turn, text>>
        /\ user \in [Users -> UserRecords]
        /\ entry \in [Entries -> EntryRecords]
        /\ UserHolds(u)
    BY DEF Commit, DecisionUnchanged, RagInv, RagTypes, UserInv, TypeOK, EntryRecords
  <1>5. /\ d \in Entries
        /\ ~ entry[d].settled
        /\ a \in Actions
        /\ entry[d] \in EntryRecords
        /\ EntrySound(entry[d])
        /\ \A v \in Users \ {u} : user[v].e # d
        /\ ps \in SUBSET Pieces
    BY <1>1, <1>2, <1>3, <1>4, DecidingFacts DEF UserRecords
  <1>6. CASE live # d
    <2>1. Entered(entry)
      BY <1>1, <1>6 DEF Commit
    <2>2. QED
      BY <1>1, <1>4, <1>6, <2>1, DecisionEnds
  <1>7. CASE live = d
    <2> DEFINE r == Decided(d, a, ps)
               x == entry[d]
               after == [entry EXCEPT ![d] = r]
    <2>1. Entered(after)
      BY <1>1, <1>2, <1>3, <1>7 DEF Commit
    <2>2. /\ a = "selected" => ps = x.picked /\ (x.withheld => x.decided # {})
          /\ a \in {"masked", "original"} => x.state = "confirmation"
          /\ a = "without" => ps = {}
          /\ "sensitive" \in ps => x.token = "original"
          /\ "unchecked" \in ps => a = "risk" \/ "risk" \in x.decided
          /\ a # "cancel"
      BY <1>1, <1>2, <1>3, <1>4, <1>7 DEF UserHolds
    <2>3. DecidedAs(r, x, d, a, ps)
      BY <1>5, DecidedFields
    <2>4. /\ after[d] = r
          /\ \A e \in Entries \ {d} : after[e] = entry[e]
          /\ after \in [Entries -> EntryRecords]
      BY <1>4, <1>5, <2>3 DEF DecidedAs
    <2>5. entry[d].risks # 0 => entry[d].state = "materials" \/ a = "risk"
      BY <1>2, <1>4, <1>5, <1>7, RiskOverNow
    <2>6. EntrySound(x) /\ ~ x.settled
      BY <1>5
    <2>7. NeedsReview(d) <=> x.query \in Reviewed
      BY DEF NeedsReview
    <2>8. AsksAgain(d, a) <=> a \in {"masked", "original"} /\ x.withheld
      BY DEF AsksAgain
    <2> HIDE DEF r, after, x
    <2>9. a \in OnWithheld => a \in r.decided
      BY <2>3 DEF DecidedAs
    <2>10. /\ "sensitive" \in ps => r.token = "original"
           /\ "unchecked" \in ps => "risk" \in r.decided
      BY <2>2, <2>3, <2>9 DEF OnWithheld, DecidedAs
    <2>11. ~ AsksAgain(d, a) /\ r.withheld => r.decided # {}
      <3> SUFFICES ASSUME ~ AsksAgain(d, a), r.withheld
                   PROVE  r.decided # {}
        OBVIOUS
      <3>1. CASE a \in OnWithheld
        BY <2>9, <3>1
      <3>2. CASE a = "selected"
        BY <2>2, <2>3, <3>2 DEF DecidedAs
      <3>3. CASE a \in {"masked", "original"}
        BY <2>3, <2>8, <3>3 DEF DecidedAs
      <3>4. QED
        BY <1>5, <2>2, <3>1, <3>2, <3>3 DEF Actions, OnWithheld
    <2>12. /\ "sensitive" \in x.passed => r.token = "original"
           /\ "unchecked" \in x.passed => "risk" \in r.decided
           /\ r.risks <= 1
           /\ x.delivered = {}
      BY <2>3, <2>6 DEF EntrySound, DecidedAs
    <2>13. EntrySound(r)
      <3>1. CASE AsksAgain(d, a) /\ r.state = "incomplete" /\ r.passed = ps
                 /\ r.settled = x.settled /\ r.delivered = x.delivered
        BY <2>6, <2>10, <2>12, <3>1 DEF EntrySound
      <3>2. CASE /\ ~ AsksAgain(d, a)
                 /\ r.passed = ps
                 /\ r.settled = x.settled
                 /\ r.delivered = x.delivered
        BY <2>6, <2>10, <2>11, <2>12, <3>2 DEF EntrySound
      <3>3. CASE /\ ~ AsksAgain(d, a)
                 /\ NeedsReview(d) => a \in {"selected", "without"}
                 /\ r.passed = x.passed
                 /\ r.settled = TRUE
                 /\ r.delivered = ps
        <4>1. r.query \in Reviewed /\ ps # {} => ps = r.picked
          BY <2>2, <2>3, <2>7, <3>3 DEF DecidedAs
        <4>2. QED
          BY <2>10, <2>11, <2>12, <3>3, <4>1 DEF EntrySound
      <3>4. QED
        BY <2>3, <3>1, <3>2, <3>3 DEF DecidedAs
    <2>14. r.risks # 0 => r.settled \/ r.state = "materials"
      BY <2>2, <2>3, <2>5, <2>8 DEF x, DecidedAs
    <2>15. RiskOver(d)'
      <3>1. live' = d => Readable(d)'
        BY DEF Readable
      <3>2. live' = d => entry'[d] = r
        BY <1>5, <2>1, <2>4, <3>1, EnteredEach
      <3>3. QED
        BY <2>14, <3>2 DEF RiskOver
    <2>16. QED
      BY <1>1, <1>4, <1>5, <2>1, <2>4, <2>13, <2>15, EndsFields, UserMoves
  <1>8. QED
    BY <1>6, <1>7

\* A decision that came to nothing empties the key, whatever is under it.
LEMMA DecisionDropStep ==
    ASSUME RagInv, NEW u \in Users, DecisionDrop(u)
    PROVE  RagInv' /\ Stands
  <1>1. /\ user[u].pc = "drop"
        /\ live' = Nobody
        /\ Ends(u)
        /\ UNCHANGED <<turn, text>>
        /\ Entered(entry)
    BY DEF DecisionDrop, DecisionUnchanged
  <1>2. user[u].e \in Entries
    BY <1>1, DecidingFacts
  <1>3. live' # user[u].e
    BY <1>1, <1>2, RagReviewNames
  <1>4. QED
    BY <1>1, <1>3, DecisionEnds

\* Every step of a decision keeps the invariant and what was settled.
LEMMA UserSteps ==
    ASSUME RagInv, NEW u \in Users, UserStep(u)
    PROVE  RagInv' /\ Stands
  BY DecideStep, RecheckStep, SendSelectedStep, SendConfirmStep, SendRiskStep, CommitStep,
     DecisionDropStep
  DEF UserStep

----------------------------------------------------------------------------
(* The other steps, and the theorems.                                      *)

\* An entry that is too old, or one too many, leaves the key.
LEMMA PruneStep ==
    ASSUME RagInv, Prune
    PROVE  RagInv' /\ Stands
  <1>1. /\ live' = Nobody
        /\ UNCHANGED <<locked, turn, user, text>>
        /\ Entered(entry)
    BY DEF Prune
  <1>2. /\ entry \in [Entries -> EntryRecords]
        /\ \A e \in Entries : EntrySound(entry[e])
    BY DEF RagInv, RagTypes, TypeOK, EntryRecords, EntryInv
  <1>3. entry' \in [Entries -> EntryRecords]
    BY <1>1, <1>2, EntriesTyped
  <1>4. RagTypes'
    BY <1>1, <1>3 DEF RagInv, RagTypes, TypeOK, EntryRecords
  <1>5. ASSUME NEW e \in Entries
        PROVE  EntryInv(e)'
    <2>1. EntrySound(entry'[e]) /\ Gone(e)'
      BY <1>1, <1>2, EntrySoundAfter
    <2>2. RiskOver(e)'
      BY <1>1, RagReviewNames DEF RiskOver
    <2>3. QED
      BY <2>1, <2>2 DEF EntryInv
  <1>6. ASSUME NEW t \in Turns
        PROVE  TurnInv(t)'
    <2>1. TurnHolds(t)'
      BY <1>1, TurnKept
    <2>2. turn[t].pc \in Fresh => turn[t].e # Nobody
      BY RagReviewNames DEF RagInv, TurnInv, TurnHolds
    <2>3. TurnAlone(t)'
      BY <1>1, <2>2 DEF RagInv, TurnInv, TurnAlone
    <2>4. QED
      BY <2>1, <2>3 DEF TurnInv
  <1>7. ASSUME NEW v \in Users
        PROVE  UserInv(v)'
    <2>1. user[v].e \in Entries => live' # user[v].e
      BY <1>1, RagReviewNames
    <2>2. UserHolds(v)'
      BY <1>1, <1>2, <2>1, UserKept
    <2>3. QED
      BY <1>1, <2>2 DEF RagInv, UserInv, UserAlone
  <1>8. Stands
    BY <1>1, EnteredEach DEF Stands
  <1>9. QED
    BY <1>4, <1>5, <1>6, <1>7, <1>8 DEF RagInv

\* The content of the materials is no part of what the invariant says.
LEMMA ChangeStep ==
    ASSUME RagInv, Change
    PROVE  RagInv' /\ Stands
  <1>1. /\ text \in 1..MaxText
        /\ text' \in 1..MaxText
        /\ UNCHANGED <<live, entry, locked, turn, user>>
    BY RagReviewAssumption DEF RagInv, RagTypes, TypeOK, Change
  <1>2. RagTypes'
    BY <1>1 DEF RagInv, RagTypes, TypeOK
  <1>3. \A e \in Entries : EntryInv(e)'
    BY <1>1 DEF RagInv, EntryInv, Gone, Held, Readable, RiskOver
  <1>4. \A t \in Turns : TurnInv(t)'
    BY <1>1 DEF RagInv, TurnInv, TurnHolds, TurnAlone
  <1>5. \A u \in Users : UserInv(u)'
    BY <1>1 DEF RagInv, UserInv, UserHolds, UserAlone
  <1>6. QED
    BY <1>1, <1>2, <1>3, <1>4, <1>5 DEF RagInv, Stands

\* A step in which nothing happens.
LEMMA RagStutter ==
    ASSUME RagInv, UNCHANGED vars
    PROVE  RagInv' /\ Stands
  <1>1. UNCHANGED <<live, entry, locked, turn, user, text>>
    BY DEF vars
  <1>2. RagTypes'
    BY <1>1 DEF RagInv, RagTypes, TypeOK
  <1>3. \A e \in Entries : EntryInv(e)'
    BY <1>1 DEF RagInv, EntryInv, Gone, Held, Readable, RiskOver
  <1>4. \A t \in Turns : TurnInv(t)'
    BY <1>1 DEF RagInv, TurnInv, TurnHolds, TurnAlone
  <1>5. \A u \in Users : UserInv(u)'
    BY <1>1 DEF RagInv, UserInv, UserHolds, UserAlone
  <1>6. QED
    BY <1>1, <1>2, <1>3, <1>4, <1>5 DEF RagInv, Stands

\* Nothing was searched yet.
LEMMA RagInit == Init => RagInv
  <1> SUFFICES ASSUME Init
               PROVE  RagInv
    OBVIOUS
  <1>1. /\ \A e \in Entries : entry[e] = NoEntry
        /\ \A t \in Turns : turn[t] = IdleTurn
        /\ \A u \in Users : user[u] = IdleUser
        /\ live = Nobody
        /\ text = 1
    BY DEF Init
  <1>2. /\ IdleUser \in UserRecords
        /\ IdleUser.pc = "idle"
        /\ IdleUser.e = Nobody
    BY DEF IdleUser, UserRecords
  <1>3. /\ entry \in [Entries -> EntryRecords]
        /\ turn \in [Turns -> TurnRecords]
        /\ user \in [Users -> UserRecords]
        /\ locked = {}
        /\ text \in 1..MaxText
    BY <1>1, <1>2, NoEntrySound, IdleTurnTyped, RagReviewAssumption DEF Init
  <1>4. RagTypes
    BY <1>1, <1>3 DEF RagTypes, TypeOK, EntryRecords
  <1>5. \A e \in Entries : EntryInv(e)
    BY <1>1, NoEntrySound, RagReviewNames DEF EntryInv, Gone, RiskOver
  <1>6. \A t \in Turns : TurnInv(t)
    BY <1>1, IdleTurnTyped DEF TurnInv, TurnHolds, TurnAlone, Fresh, Reading
  <1>7. \A u \in Users : UserInv(u)
    BY <1>1, <1>2 DEF UserInv, UserHolds, UserAlone
  <1>8. QED
    BY <1>4, <1>5, <1>6, <1>7 DEF RagInv

\* Every step keeps the invariant and what was settled.
LEMMA RagNext == RagInv /\ [Next]_vars => RagInv' /\ Stands
  BY TurnSteps, UserSteps, PruneStep, ChangeStep, RagStutter DEF Next

\* The inductive invariant: whoever searches, decides and validates, in
\* whatever order, the entries, the turns and the decisions agree.
THEOREM RagSafe == Spec => []RagInv
  BY RagInit, RagNext, PTL DEF Spec

\* Evidence that enters a reply answers the query of its turn, and in a review
\* it is what the user picked, as the prompt showed it.
THEOREM OnlyReviewedEvidence == Spec => []EvidenceAsReviewed
  <1>1. RagInv => EvidenceAsReviewed
    <2> SUFFICES ASSUME RagInv, NEW t \in Turns, turn[t].pc = "got"
                 PROVE  /\ entry[turn[t].e].query = turn[t].query
                        /\ NeedsReview(turn[t].e) =>
                              /\ entry[turn[t].e].delivered = entry[turn[t].e].picked
                              /\ turn[t].text = entry[turn[t].e].text
      BY DEF EvidenceAsReviewed
    <2>1. TurnHolds(t)
      BY DEF RagInv, TurnInv
    <2>2. turn[t].e \in Entries => EntrySound(entry[turn[t].e])
      BY DEF RagInv, EntryInv
    <2>3. QED
      BY <2>1, <2>2 DEF TurnHolds, EntrySound, Reading, NeedsReview
  <1>2. QED
    BY RagSafe, <1>1, PTL

\* A risk token is presented to the agent at most once.
THEOREM OneUsePerToken == Spec => []RiskTokenOnce
  <1>1. RagInv => RiskTokenOnce
    BY DEF RagInv, EntryInv, EntrySound, RiskTokenOnce
  <1>2. QED
    BY RagSafe, <1>1, PTL

\* What is delivered was decided in full.
THEOREM DecidedInFull == Spec => []DeliveredAsDecided
  <1>1. RagInv => DeliveredAsDecided
    BY DEF RagInv, EntryInv, EntrySound, DeliveredAsDecided
  <1>2. QED
    BY RagSafe, <1>1, PTL

\* A decision stands: no step changes an entry that is settled and read.
THEOREM DecisionsStand == Spec => DecisionStands
  <1>1. RagInv /\ [Next]_vars =>
           [\A e \in Entries : entry[e].settled /\ Readable(e)' => entry'[e] = entry[e]]_vars
    BY RagNext DEF Stands
  <1>2. QED
    BY RagSafe, <1>1, PTL DEF Spec, DecisionStands

=============================================================================
