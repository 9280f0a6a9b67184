------------------------ MODULE ProviderGate_proofs ------------------------
(***************************************************************************)
(* Proofs about ProviderGate: its counters and its wake-ups, for any       *)
(* number of callers, channels and slots.                                  *)
(*                                                                         *)
(* A caller is a holder or an interactive waiter of its own channel only,  *)
(* so a caller that moves changes at most one count of each kind, and the  *)
(* sleepers it wakes change none.  Lemma Counts says this once; the step   *)
(* of each action is then arithmetic on the counters.                      *)
(***************************************************************************)
EXTENDS ProviderGate, FiniteSetTheorems, TLAPS

Positions == {"out", "in", "refused"} \union Waiting

\* c moves to a position; others may have been woken.
Moves(c, to) ==
    /\ call' \in [Callers -> Positions]
    /\ call'[c] = to
    /\ \A d \in Callers \ {c} :
         call'[d] = call[d] \/ (call[d] = "asleep" /\ call'[d] = "woken")

\* What a caller at a position counts for.
Holds(p) == IF p = "in" THEN 1 ELSE 0
Waits(c, p) == IF c \notin Background /\ p \in Waiting THEN 1 ELSE 0

\* The counters of its channel change by what the move of c counts for.
Shifts(c, to) ==
    /\ active' \in [Channels -> Int]
    /\ interactive' \in [Channels -> Int]
    /\ \A ch \in Channels :
         /\ active'[ch] = active[ch]
              + (IF ch = ChannelOf[c] THEN Holds(to) - Holds(call[c]) ELSE 0)
         /\ interactive'[ch] = interactive[ch]
              + (IF ch = ChannelOf[c] THEN Waits(c, to) - Waits(c, call[c]) ELSE 0)

----------------------------------------------------------------------------
(* Sets of callers.                                                        *)

\* The callers of a channel that hold a slot or wait are finitely many.
LEMMA FiniteCallers ==
    ASSUME NEW S \in SUBSET Callers
    PROVE  IsFiniteSet(S) /\ Cardinality(S) \in Nat
<1>1. IsFiniteSet(Callers)
  BY ProviderGateAssumption
<1>2. IsFiniteSet(S)
  BY <1>1, FS_Subset
<1>3. QED  BY <1>2, FS_CardinalityType

\* A set that loses or gains one element, or neither.
LEMMA OneElement ==
    ASSUME NEW S, NEW T, NEW c, IsFiniteSet(S),
           T \ {c} = S \ {c}
    PROVE  Cardinality(T) = Cardinality(S)
             - (IF c \in S THEN 1 ELSE 0) + (IF c \in T THEN 1 ELSE 0)
<1>1. Cardinality(S) \in Nat
  BY FS_CardinalityType
<1>2. CASE c \in T
  <2>1. T = S \union {c}
    BY <1>2
  <2>2. QED  BY <1>1, <1>2, <2>1, FS_AddElement
<1>3. CASE c \notin T
  <2>1. T = S \ {c}
    BY <1>3
  <2>2. QED  BY <1>1, <1>3, <2>1, FS_RemoveElement
<1>4. QED  BY <1>2, <1>3

\* When c moves, the counts of its own channel change by what c counts for,
\* and those of the others not at all.
LEMMA Counts ==
    ASSUME GateTypeOK, NEW c \in Callers, NEW to \in Positions, Moves(c, to),
           NEW ch \in Channels
    PROVE  /\ Cardinality(Holders(ch))' = Cardinality(Holders(ch))
                + (IF ch = ChannelOf[c] THEN Holds(to) - Holds(call[c]) ELSE 0)
           /\ Cardinality(InteractiveWaiters(ch))' = Cardinality(InteractiveWaiters(ch))
                + (IF ch = ChannelOf[c] THEN Waits(c, to) - Waits(c, call[c]) ELSE 0)
<1>1. /\ Holders(ch)' \ {c} = Holders(ch) \ {c}
      /\ InteractiveWaiters(ch)' \ {c} = InteractiveWaiters(ch) \ {c}
  BY DEF Moves, Holders, InteractiveWaiters, Waiting, Positions
<1>2. /\ IsFiniteSet(Holders(ch)) /\ Cardinality(Holders(ch)) \in Nat
      /\ IsFiniteSet(InteractiveWaiters(ch)) /\ Cardinality(InteractiveWaiters(ch)) \in Nat
  BY FiniteCallers DEF Holders, InteractiveWaiters
<1>3. /\ (c \in Holders(ch)) <=> (ch = ChannelOf[c] /\ call[c] = "in")
      /\ (c \in Holders(ch)') <=> (ch = ChannelOf[c] /\ to = "in")
      /\ (c \in InteractiveWaiters(ch)) <=>
            (ch = ChannelOf[c] /\ c \notin Background /\ call[c] \in Waiting)
      /\ (c \in InteractiveWaiters(ch)') <=>
            (ch = ChannelOf[c] /\ c \notin Background /\ to \in Waiting)
  BY DEF Moves, Holders, InteractiveWaiters
<1>4. Cardinality(Holders(ch)') = Cardinality(Holders(ch))
         - (IF c \in Holders(ch) THEN 1 ELSE 0) + (IF c \in Holders(ch)' THEN 1 ELSE 0)
  BY <1>1, <1>2, OneElement
<1>5. Cardinality(InteractiveWaiters(ch)') = Cardinality(InteractiveWaiters(ch))
         - (IF c \in InteractiveWaiters(ch) THEN 1 ELSE 0)
         + (IF c \in InteractiveWaiters(ch)' THEN 1 ELSE 0)
  BY <1>1, <1>2, OneElement
<1>6. QED  BY <1>2, <1>3, <1>4, <1>5 DEF Holds, Waits

\* notify_all wakes sleepers and moves its caller.
LEMMA NotifyMoves ==
    ASSUME GateTypeOK, NEW c \in Callers, NEW to \in Positions, call' = Notify(c, to)
    PROVE  Moves(c, to)
BY DEF Notify, Moves, GateTypeOK, Positions, Waiting

\* A caller that moves without a notify.
LEMMA QuietMoves ==
    ASSUME GateTypeOK, NEW c \in Callers, NEW to \in Positions,
           call' = [call EXCEPT ![c] = to]
    PROVE  Moves(c, to)
BY DEF Moves, GateTypeOK, Positions, Waiting

----------------------------------------------------------------------------
(* The counters.                                                           *)

CountInv == GateTypeOK /\ GateCounted

\* A move that changes the counters of the caller's channel by what the move
\* counts for, within the limit, keeps them right.
LEMMA Counted ==
    ASSUME CountInv, NEW c \in Callers, NEW to \in Positions, Moves(c, to), Shifts(c, to),
           Holds(to) > Holds(call[c]) => active[ChannelOf[c]] < Limit[ChannelOf[c]]
    PROVE  CountInv'
<1> USE DEF CountInv
<1>0. ChannelOf[c] \in Channels /\ call[c] \in Positions
  BY ProviderGateAssumption DEF GateTypeOK, Positions
<1>1. ASSUME NEW ch \in Channels
      PROVE  /\ active'[ch] = Cardinality(Holders(ch))'
             /\ active'[ch] <= Limit[ch]
             /\ interactive'[ch] = Cardinality(InteractiveWaiters(ch))'
             /\ active'[ch] \in Nat /\ interactive'[ch] \in Nat
  <2>1. /\ Cardinality(Holders(ch)) \in Nat /\ Cardinality(Holders(ch))' \in Nat
        /\ Cardinality(InteractiveWaiters(ch)) \in Nat /\ Cardinality(InteractiveWaiters(ch))' \in Nat
    BY FiniteCallers DEF Holders, InteractiveWaiters
  <2>2. /\ active[ch] = Cardinality(Holders(ch)) /\ active[ch] <= Limit[ch]
        /\ interactive[ch] = Cardinality(InteractiveWaiters(ch))
    BY <1>1 DEF GateCounted
  <2>3. /\ active'[ch] = active[ch] + (IF ch = ChannelOf[c] THEN Holds(to) - Holds(call[c]) ELSE 0)
        /\ interactive'[ch] = interactive[ch]
              + (IF ch = ChannelOf[c] THEN Waits(c, to) - Waits(c, call[c]) ELSE 0)
    BY <1>1 DEF Shifts
  <2>4. Limit[ch] \in Nat
    BY <1>1, ProviderGateAssumption
  <2>5. /\ active'[ch] = Cardinality(Holders(ch))'
        /\ interactive'[ch] = Cardinality(InteractiveWaiters(ch))'
    BY <1>1, <2>2, <2>3, Counts
  <2>6. active'[ch] <= Limit[ch]
    BY <1>0, <2>1, <2>2, <2>3, <2>4 DEF Holds
  <2>7. QED  BY <2>1, <2>5, <2>6
<1>2. GateCounted'
  BY <1>1 DEF GateCounted
<1>3. active' \in [Channels -> Nat] /\ interactive' \in [Channels -> Nat]
  BY <1>1 DEF Shifts
<1>4. call' \in [Callers -> Positions]
  BY DEF Moves
<1>5. QED  BY <1>2, <1>3, <1>4 DEF GateTypeOK, Positions

\* Nobody holds a slot or waits where everybody is out.
LEMMA AllOut == GateInit => CountInv
<1> SUFFICES ASSUME GateInit PROVE CountInv
  OBVIOUS
<1> USE DEF GateInit
<1>1. GateTypeOK
  BY DEF GateTypeOK
<1>2. ASSUME NEW ch \in Channels
      PROVE  Holders(ch) = {} /\ InteractiveWaiters(ch) = {}
  BY DEF Holders, InteractiveWaiters, Waiting
<1>3. Cardinality({}) = 0
  BY FS_EmptySet
<1>4. GateCounted
  BY <1>2, <1>3, ProviderGateAssumption DEF GateCounted
<1>5. QED  BY <1>1, <1>4 DEF CountInv

\* Every step of a caller is a counted move.
LEMMA StepCounts ==
    ASSUME CountInv, NEW c \in Callers, GateStep(c)
    PROVE  CountInv'
<1> USE DEF CountInv
<1>0. ChannelOf[c] \in Channels /\ active \in [Channels -> Nat] /\ interactive \in [Channels -> Nat]
  BY ProviderGateAssumption DEF GateTypeOK
<1>1. CASE Enter(c)
  <2>1. CASE Free(c) /\ active' = Taken(c) /\ call' = Notify(c, "in") /\ UNCHANGED interactive
    <3>1. Moves(c, "in")
      BY <2>1, NotifyMoves DEF Positions
    <3>2. Holds("in") = 1 /\ Holds(call[c]) = 0 /\ Waits(c, "in") = 0 /\ Waits(c, call[c]) = 0
      BY <1>1 DEF Enter, Holds, Waits, Waiting
    <3>3. Shifts(c, "in")
      BY <1>0, <2>1, <3>2 DEF Taken, Shifts
    <3>4. QED  BY <2>1, <3>1, <3>2, <3>3, Counted DEF Free, Positions
  <2>2. CASE /\ ~ Free(c)
             /\ call' = [call EXCEPT ![c] = "asleep"]
             /\ interactive' = IF c \in Background THEN interactive
                               ELSE [interactive EXCEPT ![ChannelOf[c]] = @ + 1]
             /\ UNCHANGED active
    <3>1. Moves(c, "asleep")
      BY <2>2, QuietMoves DEF Positions, Waiting
    <3>2. /\ Holds("asleep") = 0 /\ Holds(call[c]) = 0 /\ Waits(c, call[c]) = 0
          /\ Waits(c, "asleep") = IF c \in Background THEN 0 ELSE 1
      BY <1>1 DEF Enter, Holds, Waits, Waiting
    <3>3. Shifts(c, "asleep")
      BY <1>0, <2>2, <3>2 DEF Shifts
    <3>4. QED  BY <3>1, <3>2, <3>3, Counted DEF Positions, Waiting
  <2>3. QED  BY <1>1, <2>1, <2>2 DEF Enter
<1>2. CASE Overdue(c)
  <2>1. Moves(c, "due")
    BY <1>2, QuietMoves DEF Overdue, Positions, Waiting
  <2>2. Holds("due") = 0 /\ Holds(call[c]) = 0 /\ Waits(c, "due") = Waits(c, call[c])
    BY <1>2 DEF Overdue, Holds, Waits, Waiting
  <2>3. Waits(c, "due") \in Nat
    BY DEF Waits
  <2>4. Shifts(c, "due")
    BY <1>0, <1>2, <2>2, <2>3 DEF Overdue, Shifts
  <2>5. QED  BY <2>1, <2>2, <2>4, Counted DEF Positions, Waiting
<1>3. CASE Retest(c)
  <2>0. Holds(call[c]) = 0 /\ Waits(c, call[c]) = IF c \in Background THEN 0 ELSE 1
    BY <1>3 DEF Retest, Holds, Waits, Waiting
  <2>1. CASE /\ Free(c) /\ active' = Taken(c) /\ interactive' = NoLongerWaits(c, "in")
             /\ call' = Notify(c, "in")
    <3>1. Moves(c, "in")
      BY <2>1, NotifyMoves DEF Positions
    <3>2. Holds("in") = 1 /\ Waits(c, "in") = 0
      BY DEF Holds, Waits, Waiting
    <3>3. Shifts(c, "in")
      BY <1>0, <2>0, <2>1, <3>2 DEF Taken, NoLongerWaits, Shifts
    <3>4. QED  BY <2>0, <2>1, <3>1, <3>2, <3>3, Counted DEF Free, Positions
  <2>2. CASE /\ interactive' = NoLongerWaits(c, "refused") /\ call' = Notify(c, "refused")
             /\ UNCHANGED active
    <3>1. Moves(c, "refused")
      BY <2>2, NotifyMoves DEF Positions
    <3>2. Holds("refused") = 0 /\ Waits(c, "refused") = 0
      BY DEF Holds, Waits, Waiting
    <3>3. Shifts(c, "refused")
      BY <1>0, <2>0, <2>2, <3>2 DEF NoLongerWaits, Shifts
    <3>4. QED  BY <2>0, <3>1, <3>2, <3>3, Counted DEF Positions
  <2>3. CASE call' = [call EXCEPT ![c] = "asleep"] /\ UNCHANGED <<active, interactive>>
    <3>1. Moves(c, "asleep")
      BY <2>3, QuietMoves DEF Positions, Waiting
    <3>2. Holds("asleep") = 0 /\ Waits(c, "asleep") = Waits(c, call[c])
      BY <2>0 DEF Holds, Waits, Waiting
    <3>3. Shifts(c, "asleep")
      BY <1>0, <2>0, <2>3, <3>2 DEF Shifts
    <3>4. QED  BY <2>0, <3>1, <3>2, <3>3, Counted DEF Positions, Waiting
  <2>4. QED  BY <1>3, <2>1, <2>2, <2>3 DEF Retest
<1>4. CASE Release(c)
  <2>1. Moves(c, "out")
    BY <1>4, NotifyMoves DEF Release, Positions
  <2>2. Holds("out") = 0 /\ Holds(call[c]) = 1 /\ Waits(c, "out") = 0 /\ Waits(c, call[c]) = 0
    BY <1>4 DEF Release, Holds, Waits, Waiting
  <2>3. active[ChannelOf[c]] > 0
    <3>1. c \in Holders(ChannelOf[c])
      BY <1>4 DEF Release, Holders
    <3>2. Cardinality(Holders(ChannelOf[c])) # 0
      BY <3>1, FiniteCallers, FS_EmptySet DEF Holders
    <3>3. active[ChannelOf[c]] = Cardinality(Holders(ChannelOf[c]))
      BY <1>0 DEF GateCounted
    <3>4. QED  BY <1>0, <3>2, <3>3
  <2>4. Shifts(c, "out")
    BY <1>0, <1>4, <2>2, <2>3 DEF Release, GivenUp, Shifts
  <2>5. QED  BY <2>1, <2>2, <2>4, Counted DEF Positions
<1>5. CASE Refused(c)
  <2>1. Moves(c, "out")
    BY <1>5, QuietMoves DEF Refused, Positions
  <2>2. Holds("out") = 0 /\ Holds(call[c]) = 0 /\ Waits(c, "out") = 0 /\ Waits(c, call[c]) = 0
    BY <1>5 DEF Refused, Holds, Waits, Waiting
  <2>3. Shifts(c, "out")
    BY <1>0, <1>5, <2>2 DEF Refused, Shifts
  <2>4. QED  BY <2>1, <2>2, <2>3, Counted DEF Positions
<1>6. QED  BY <1>1, <1>2, <1>3, <1>4, <1>5 DEF GateStep

\* Slots taken and interactive callers waiting are counted exactly, and no
\* channel serves more calls than it may (acquire and release of gate.py).
THEOREM SlotsCounted == GateSpec => [](GateTypeOK /\ GateCounted)
<1>1. GateInit => CountInv
  BY AllOut
<1>2. CountInv /\ [GateNext]_gateVars => CountInv'
  <2> SUFFICES ASSUME CountInv, [GateNext]_gateVars PROVE CountInv'
    OBVIOUS
  <2>1. CASE GateReset
    <3>1. GateInit'
      BY <2>1 DEF GateReset, GateInit
    <3>2. QED  BY <3>1, AllOut, PTL
  <2>2. CASE \E c \in Callers : GateStep(c)
    BY <2>2, StepCounts
  <2>3. CASE UNCHANGED gateVars
    BY <2>3 DEF gateVars, CountInv, GateTypeOK, GateCounted, Holders, InteractiveWaiters
  <2>4. QED  BY <2>1, <2>2, <2>3 DEF GateNext
<1>3. QED  BY <1>1, <1>2, PTL DEF GateSpec, CountInv

----------------------------------------------------------------------------
(* The wake-ups.                                                           *)

\* Nobody sleeps once notify_all was called.
LEMMA NobodyAsleep ==
    ASSUME NEW c \in Callers, NEW to, to # "asleep", call' = Notify(c, to)
    PROVE  NoLostWakeup'
BY DEF Notify, NoLostWakeup

\* A step that frees the gate for somebody calls notify_all.
LEMMA StepWakes ==
    ASSUME GateTypeOK, NoLostWakeup, NEW c \in Callers, GateStep(c)
    PROVE  NoLostWakeup'
<1>0. /\ ChannelOf \in [Callers -> Channels] /\ Limit \in [Channels -> Nat]
      /\ active \in [Channels -> Nat] /\ interactive \in [Channels -> Nat]
  BY ProviderGateAssumption DEF GateTypeOK
<1>1. CASE Enter(c)
  <2>1. CASE call' = Notify(c, "in")
    BY <2>1, NobodyAsleep
  <2>2. CASE /\ ~ Free(c)
             /\ call' = [call EXCEPT ![c] = "asleep"]
             /\ interactive' = IF c \in Background THEN interactive
                               ELSE [interactive EXCEPT ![ChannelOf[c]] = @ + 1]
             /\ UNCHANGED active
    <3>1. ASSUME NEW d \in Callers, ~ Free(d)
          PROVE  ~ Free(d)'
      BY <1>0, <2>2, <3>1 DEF Free
    <3>2. QED  BY <2>2, <3>1 DEF NoLostWakeup, GateTypeOK
  <2>3. QED  BY <1>1, <2>1, <2>2 DEF Enter
<1>2. CASE Overdue(c)
  BY <1>2 DEF Overdue, NoLostWakeup, Free, GateTypeOK
<1>3. CASE Retest(c)
  <2>1. CASE call' = Notify(c, "in") \/ call' = Notify(c, "refused")
    BY <2>1, NobodyAsleep
  <2>2. CASE ~ Free(c) /\ call' = [call EXCEPT ![c] = "asleep"] /\ UNCHANGED <<active, interactive>>
    BY <2>2 DEF NoLostWakeup, Free, GateTypeOK
  <2>3. QED  BY <1>3, <2>1, <2>2 DEF Retest
<1>4. CASE Release(c)
  BY <1>4, NobodyAsleep DEF Release
<1>5. CASE Refused(c)
  BY <1>5 DEF Refused, NoLostWakeup, Free, GateTypeOK
<1>6. QED  BY <1>1, <1>2, <1>3, <1>4, <1>5 DEF GateStep

\* A thread that sleeps in acquire could not go on: whatever frees the gate
\* for it, a release, a refusal or another's entry, has woken it.
THEOREM WokenInTime == GateSpec => []NoLostWakeup
<1>1. GateInit => NoLostWakeup
  BY DEF GateInit, NoLostWakeup
<1>2. GateTypeOK /\ NoLostWakeup /\ [GateNext]_gateVars => NoLostWakeup'
  <2> SUFFICES ASSUME GateTypeOK, NoLostWakeup, [GateNext]_gateVars PROVE NoLostWakeup'
    OBVIOUS
  <2>1. CASE GateReset
    BY <2>1 DEF GateReset, NoLostWakeup
  <2>2. CASE \E c \in Callers : GateStep(c)
    BY <2>2, StepWakes
  <2>3. CASE UNCHANGED gateVars
    BY <2>3 DEF gateVars, NoLostWakeup, Free
  <2>4. QED  BY <2>1, <2>2, <2>3 DEF GateNext
<1>3. QED  BY <1>1, <1>2, SlotsCounted, PTL DEF GateSpec

=============================================================================
