---------------------------- MODULE ProviderGate ----------------------------
(***************************************************************************)
(* The gate in front of the models: each channel serves a limited number   *)
(* of calls at once, a call waits for its slot up to a deadline, and a     *)
(* background call stays out while an interactive one waits.               *)
(*                                                                         *)
(*   backend/mindos/zhijun/gate.py   ProviderGate                          *)
(*                                                                         *)
(* The channels share one condition variable, so that every notify_all     *)
(* wakes the sleepers of all of them.  A thread that was woken or whose    *)
(* deadline has passed tests the gate again only when it holds the lock    *)
(* once more: the wake-up and the test are two steps, and others may come  *)
(* between them.  Times are abstracted to "the deadline has passed".       *)
(*                                                                         *)
(* A definition marked "Variation" is a plausible defect of the definition *)
(* that follows it; no action uses it.                                     *)
(***************************************************************************)
EXTENDS Integers, FiniteSets

CONSTANTS
    Callers,     \* threads that call a model
    Background,  \* those that pass background=True
    Channels,    \* "local" and "external"
    ChannelOf,   \* the channel each caller uses
    Limit        \* slots of each channel

ASSUME ProviderGateAssumption ==
    /\ IsFiniteSet(Callers)
    /\ Background \subseteq Callers
    /\ ChannelOf \in [Callers -> Channels]
    /\ Limit \in [Channels -> Nat \ {0}]

VARIABLES
    active,       \* _active: slots taken
    interactive,  \* _interactive: interactive callers that wait
    call          \* where each caller is

gateVars == <<active, interactive, call>>

Waiting == {"asleep", "woken", "due"}

GateInit ==
    /\ active = [ch \in Channels |-> 0]
    /\ interactive = [ch \in Channels |-> 0]
    /\ call = [c \in Callers |-> "out"]

----------------------------------------------------------------------------

\* The negation of the loop's condition in acquire.
Free(c) ==
    /\ active[ChannelOf[c]] < Limit[ChannelOf[c]]
    /\ c \in Background => interactive[ChannelOf[c]] = 0

Sleepers == {c \in Callers : call[c] = "asleep"}

\* Variation: notify in place of notify_all.
NotifyOne(c, to) ==
    LET first == IF Sleepers \ {c} = {} THEN c ELSE CHOOSE d \in Sleepers \ {c} : TRUE
    IN  [d \in Callers |-> IF d = c THEN to ELSE IF d = first THEN "woken" ELSE call[d]]

\* c moves and notify_all wakes every sleeper.
Notify(c, to) ==
    [d \in Callers |-> IF d = c THEN to
                       ELSE IF call[d] = "asleep" THEN "woken" ELSE call[d]]

\* The channel with one slot more taken, and with one given back.
Taken(c)    == [active EXCEPT ![ChannelOf[c]] = @ + 1]
GivenUp(c)  == [active EXCEPT ![ChannelOf[c]] = IF @ > 0 THEN @ - 1 ELSE 0]

\* Variation: only a caller that gets in leaves the count of those that wait.
StillCounted(c, to) ==
    IF c \in Background \/ to = "refused" THEN interactive
    ELSE [interactive EXCEPT ![ChannelOf[c]] = @ - 1]

\* The finally of acquire, for a caller that waited.
NoLongerWaits(c, to) ==
    IF c \in Background THEN interactive
    ELSE [interactive EXCEPT ![ChannelOf[c]] = @ - 1]

\* acquire, up to its end or its first wait.
Enter(c) ==
    /\ call[c] = "out"
    /\ \/ /\ Free(c)
          /\ active' = Taken(c)
          /\ call' = Notify(c, "in")
          /\ UNCHANGED interactive
       \/ /\ ~ Free(c)
          /\ call' = [call EXCEPT ![c] = "asleep"]
          /\ interactive' = IF c \in Background THEN interactive
                            ELSE [interactive EXCEPT ![ChannelOf[c]] = @ + 1]
          /\ UNCHANGED active

\* The deadline passes.
Overdue(c) ==
    /\ call[c] \in {"asleep", "woken"}
    /\ call' = [call EXCEPT ![c] = "due"]
    /\ UNCHANGED <<active, interactive>>

\* wait returns: in, asleep again, or False once the deadline has passed.
Retest(c) ==
    /\ call[c] \in {"woken", "due"}
    /\ \/ /\ Free(c)
          /\ active' = Taken(c)
          /\ interactive' = NoLongerWaits(c, "in")
          /\ call' = Notify(c, "in")
       \/ /\ ~ Free(c)
          /\ call[c] = "due"
          /\ interactive' = NoLongerWaits(c, "refused")
          /\ call' = Notify(c, "refused")
          /\ UNCHANGED active
       \/ /\ ~ Free(c)
          /\ call[c] = "woken"
          /\ call' = [call EXCEPT ![c] = "asleep"]
          /\ UNCHANGED <<active, interactive>>

Release(c) ==
    /\ call[c] = "in"
    /\ active' = GivenUp(c)
    /\ call' = Notify(c, "out")
    /\ UNCHANGED interactive

\* PROVIDER_BUSY reaches the caller.
Refused(c) ==
    /\ call[c] = "refused"
    /\ call' = [call EXCEPT ![c] = "out"]
    /\ UNCHANGED <<active, interactive>>

GateStep(c) == Enter(c) \/ Overdue(c) \/ Retest(c) \/ Release(c) \/ Refused(c)

\* The process ends; the gate of the next one is new.
GateReset ==
    /\ active' = [ch \in Channels |-> 0]
    /\ interactive' = [ch \in Channels |-> 0]
    /\ call' = [c \in Callers |-> "out"]

GateNext == GateReset \/ \E c \in Callers : GateStep(c)

GateSpec == GateInit /\ [][GateNext]_gateVars

----------------------------------------------------------------------------
(* Properties.                                                             *)

GateTypeOK ==
    /\ active \in [Channels -> Nat]
    /\ interactive \in [Channels -> Nat]
    /\ call \in [Callers -> {"out", "in", "refused"} \union Waiting]

Holders(ch) == {c \in Callers : ChannelOf[c] = ch /\ call[c] = "in"}

InteractiveWaiters(ch) ==
    {c \in Callers \ Background : ChannelOf[c] = ch /\ call[c] \in Waiting}

\* The two counters never drift from the threads they count, whatever the
\* order of entries, time-outs, refusals and releases: no slot is lost or
\* granted twice, and no caller that gave up keeps background work out.
GateCounted == \A ch \in Channels :
    /\ active[ch] = Cardinality(Holders(ch))
    /\ active[ch] <= Limit[ch]
    /\ interactive[ch] = Cardinality(InteractiveWaiters(ch))

\* A thread that sleeps in wait() could not go on if it looked: whatever
\* frees the gate for it has also woken it, so nobody sleeps out its whole
\* deadline before a free channel.
NoLostWakeup == \A c \in Callers : call[c] = "asleep" => ~ Free(c)

=============================================================================
