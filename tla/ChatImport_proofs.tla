------------------------- MODULE ChatImport_proofs -------------------------
(***************************************************************************)
(* Proofs about ChatImport, and through it about ConversationTurn: what    *)
(* the composition keeps of the gate, and what a conversation keeps of its *)
(* replies, for any number of threads, requests and routes.                *)
(*                                                                         *)
(* The inductive invariant says of each thread what it may rely on where   *)
(* it is (ThreadInv).  A thread inside a turn holds the lock, so a step of *)
(* one thread finds every other thread outside: only what ThreadInv says   *)
(* of an ended turn, that its reply is complete, must survive the steps of *)
(* others, and it does because a complete reply is final.  The batch       *)
(* needs that, and what the worker's own turn says when it is over         *)
(* (BatchInv).                                                             *)
(***************************************************************************)
EXTENDS ChatImport, ProviderGate_proofs

----------------------------------------------------------------------------
(* The gate in the composition.                                            *)

\* No step of a turn, a batch or a route does anything to the gate but what
\* the gate itself allows.
LEMMA StepsOfGate == [Next]_vars => [GateNext]_gateVars
<1> SUFFICES ASSUME [Next]_vars PROVE [GateNext]_gateVars
  OBVIOUS
<1>0. Turns \subseteq Callers /\ Importer \in Turns
  BY ConversationTurnAssumption, ChatImportAssumption
<1>1. ASSUME NEW t \in Turns, Proceed(t)
      PROVE  [GateNext]_gateVars
  BY <1>0, <1>1 DEF Proceed, Resolve, Prepare, AtGate, Busy, WriteUser, Placeholder, Stream,
     Finish, Receipt, FollowUp, FreeSlot, Unlock, GateNext, GateStep, gateVars
<1>2. ASSUME NEW t \in Turns, NEW r, Begin(t, r) \/ Report(t) \/ Leave(t)
      PROVE  UNCHANGED gateVars
  BY <1>2 DEF Begin, Report, Leave, LeaveEarly, LeaveFollow
<1>3. CASE WorkerStep
  <2>1. CASE StartWorker \/ ReadBatch \/ LookUploads \/ PrepareFails \/ TurnOver
             \/ \E view \in FileViews : LookFiles(view)
    BY <2>1 DEF StartWorker, ReadBatch, LookUploads, PrepareFails, TurnOver, LookFiles
  <2>2. CASE StartTurn \/ InTurn \/ ErrorEvent
    BY <1>0, <1>1, <1>2, <2>2 DEF StartTurn, InTurn, ErrorEvent
  <2>3. QED  BY <1>3, <2>1, <2>2 DEF WorkerStep
<1>4. CASE \E t \in Threads : ThreadStep(t) \/ Submit(t) \/ (Leave(t) /\ UNCHANGED importVars)
  BY <1>1, <1>2, <1>4 DEF Threads, ThreadStep, Submit
<1>5. CASE \E t \in Turns : Deadline(t) /\ UNCHANGED importVars
  BY <1>0, <1>5 DEF Deadline, GateNext, GateStep
<1>6. CASE \E c \in Callers : Up /\ OtherCall(c) /\ UNCHANGED importVars
  BY <1>6 DEF OtherCall, GateNext
<1>7. CASE \E p \in Routes : RouteWrite(p) \/ \E kind \in RouteKinds : RouteRead(p, kind)
  BY <1>7 DEF RouteWrite, RouteRead
<1>8. CASE CreateImport \/ Delete \/ Crash
  BY <1>8 DEF CreateImport, Delete, DeleteConversation, Crash, TurnCrash, GateNext
<1>9. CASE UNCHANGED vars
  BY <1>9 DEF vars
<1>10. QED  BY <1>3, <1>4, <1>5, <1>6, <1>7, <1>8, <1>9 DEF Next

\* Turns, imports and routes use the gate only through acquire and release,
\* and a turn gives back what it took (slot of gate.py).
THEOREM GateUsed == Spec => GateSpec
<1>1. Init => GateInit
  BY DEF Init, TurnInit
<1>2. QED  BY <1>1, StepsOfGate, PTL DEF Spec, GateSpec

\* In the whole composition slots are counted right and sleepers are woken.
THEOREM GateSafe == Spec => [](GateCounted /\ NoLostWakeup)
BY GateUsed, SlotsCounted, WokenInTime, PTL

----------------------------------------------------------------------------
(* The invariant of the conversation.                                      *)

Holding == {"resolve", "prepare", "gate", "placeholder", "stream", "finish",
            "receipt", "report", "follow", "free", "unlock"}
PCs == Holding \union {"idle", "ended"}
Ends == {"complete", "error", "aborted"}
Outs == Ends \union {"none", "raised", "busy"}
Places == [pc : PCs, req : Requests \union {NoRequest}, known : BOOLEAN, had : BOOLEAN,
           out : Outs, next : 1..3]

TurnTypes ==
    /\ conv \in {"open", "deleted"}
    /\ user \subseteq Requests
    /\ reply \in [Requests -> {"none", "aborted", "complete"}]
    /\ receipt \subseteq Requests
    /\ enqueued \in [Requests -> [Kinds -> 0..2]]
    /\ turn \in [Turns -> Places]

Unfollowed(r) == \A k \in Kinds : enqueued[r][k] = 0

\* Which requests a thread works on, and when it has the lock.
ThreadOwns(t) ==
    /\ turn[t].pc \in Holding => lock = t
    /\ turn[t].pc # "idle" => turn[t].req \in Requests
    /\ turn[t].pc \in {"finish", "receipt", "report"} => turn[t].out \in Ends
    /\ turn[t].pc \in {"free", "unlock", "ended"} => turn[t].out # "none"

\* Before its end a turn works on a reply that is not complete and was not
\* followed up, once it may write.
ThreadFresh(t) ==
    LET r == turn[t].req IN
    /\ turn[t].pc \in {"prepare", "gate", "placeholder", "stream", "finish"} =>
          reply[r] # "complete"
    /\ turn[t].pc \in {"prepare", "gate"} /\ (conv = "open" \/ turn[t].known) => Unfollowed(r)
    /\ turn[t].pc \in {"placeholder", "stream", "finish", "receipt"} => Unfollowed(r)
    /\ turn[t].pc = "follow" =>
          \A i \in 1..3 : i >= turn[t].next => enqueued[r][FollowUps[i]] = 0

\* As long as the conversation is there, so are the rows a turn wrote.
ThreadFinds(t) ==
    LET r == turn[t].req IN
    conv = "open" =>
        /\ turn[t].pc \in {"prepare", "gate", "placeholder"} /\ turn[t].had => reply[r] # "none"
        /\ turn[t].pc = "placeholder" => r \in user
        /\ turn[t].pc \in {"stream", "finish", "receipt"} => reply[r] # "none"
        /\ turn[t].pc = "receipt" /\ turn[t].out = "complete" => reply[r] = "complete"
        /\ turn[t].pc = "follow" => reply[r] = "complete" /\ r \in receipt
        /\ turn[t].pc \in {"report", "free", "unlock", "ended"} /\ turn[t].out = "complete" =>
              reply[r] = "complete"

ThreadInv(t) == ThreadOwns(t) /\ ThreadFresh(t) /\ ThreadFinds(t)

\* The rows of the conversation, without the batch.
RowsInv ==
    /\ FollowedUpOnce
    /\ FollowUpHasReply
    /\ \A r \in Requests : reply[r] # "none" => r \in user
    /\ conv = "deleted" => /\ user = {}
                           /\ receipt = {}
                           /\ \A r \in Requests : reply[r] = "none"

TurnInv == TurnTypes /\ RowsInv /\ \A t \in Turns : ThreadInv(t)

ReplyKept == \A r \in Requests :
    reply[r] = "complete" => reply'[r] = "complete" \/ conv' = "deleted"

----------------------------------------------------------------------------
(* Steps of one thread.                                                    *)

\* The three follow-ups are different.
LEMMA KindsOf ==
    /\ FollowUps[1] = "draft_turn" /\ FollowUps[2] = "charter_draft"
    /\ FollowUps[3] = "extract_turn"
    /\ Len(FollowUps) = 3
    /\ Kinds = {"draft_turn", "charter_draft", "extract_turn"}
<1>1. DOMAIN FollowUps = 1..3 /\ Len(FollowUps) = 3
  BY DEF FollowUps
<1>2. /\ FollowUps[1] = "draft_turn" /\ FollowUps[2] = "charter_draft"
      /\ FollowUps[3] = "extract_turn"
  BY DEF FollowUps
<1>3. QED  BY <1>1, <1>2 DEF Kinds

\* What a thread's own assignment makes of its place, and of no other.
LEMMA GoesTo ==
    ASSUME TurnTypes, NEW t \in Turns, NEW p \in PCs, NEW out \in Outs, Goes(t, p, out)
    PROVE  /\ turn' \in [Turns -> Places]
           /\ turn'[t].pc = p /\ turn'[t].req = turn[t].req /\ turn'[t].out = out
           /\ \A u \in Turns \ {t} : turn'[u] = turn[u]
<1>1. turn[t] \in Places
  BY DEF TurnTypes
<1>2. IdleTurn \in Places
  BY DEF IdleTurn, Places, PCs, Holding, Outs
<1>3. TurnAt(t, p, out) \in Places /\ TurnAt(t, p, out).pc = p
      /\ TurnAt(t, p, out).req = turn[t].req /\ TurnAt(t, p, out).out = out
  BY <1>1, <1>2 DEF TurnAt, Places
<1>4. QED  BY <1>3 DEF Goes, TurnTypes

\* Go changes nothing but where the thread is.
LEMMA GoTo ==
    ASSUME TurnTypes, NEW t \in Turns, NEW p \in PCs, Go(t, p)
    PROVE  /\ turn' \in [Turns -> Places]
           /\ turn'[t].pc = p /\ turn'[t].req = turn[t].req /\ turn'[t].out = turn[t].out
           /\ turn'[t].had = turn[t].had /\ turn'[t].known = turn[t].known
           /\ turn'[t].next = turn[t].next
           /\ \A u \in Turns \ {t} : turn'[u] = turn[u]
<1>1. turn[t] \in Places
  BY DEF TurnTypes
<1>2. [turn[t] EXCEPT !.pc = p] \in Places
  BY <1>1 DEF Places
<1>3. turn' = [turn EXCEPT ![t] = [turn[t] EXCEPT !.pc = p]]
  BY DEF Go
<1>4. QED  BY <1>1, <1>2, <1>3 DEF TurnTypes, Places

\* While t has the lock or takes it, no other thread is in a turn: a step of
\* t need only keep complete replies, and show its own place and the rows.
LEMMA OwnStep ==
    ASSUME TurnInv, NEW t \in Turns, lock \in {t, NoTurn}, conv' = conv, ReplyKept,
           \A u \in Turns \ {t} : turn'[u] = turn[u],
           TurnTypes', RowsInv', ThreadInv(t)'
    PROVE  TurnInv'
<1>1. ASSUME NEW u \in Turns \ {t} PROVE ThreadInv(u)'
  <2>1. turn[u].pc \notin Holding /\ turn'[u] = turn[u] /\ ThreadInv(u)
    BY <1>1, ConversationTurnAssumption DEF TurnInv, ThreadInv, ThreadOwns
  <2>2. turn[u].pc # "idle" => turn[u].req \in Requests
    BY <2>1 DEF ThreadInv, ThreadOwns
  <2>3. ThreadOwns(u)'
    BY <2>1, <2>2 DEF ThreadInv, ThreadOwns, Holding
  <2>4. ThreadFresh(u)'
    BY <2>1 DEF ThreadFresh, Holding
  <2>5. ThreadFinds(u)'
    BY <2>1, <2>2 DEF ThreadInv, ThreadFinds, Holding, ReplyKept
  <2>6. QED  BY <2>3, <2>4, <2>5 DEF ThreadInv
<1>2. QED  BY <1>1 DEF TurnInv

\* A step that leaves the rows alone keeps what holds of them.
LEMMA SameRows ==
    ASSUME TurnInv, UNCHANGED <<conv, user, reply, receipt, enqueued>>
    PROVE  RowsInv' /\ ReplyKept
BY DEF TurnInv, RowsInv, FollowedUpOnce, FollowUpHasReply, ReplyKept

\* What TurnInv says of a thread in a turn.
LEMMA InTurnOf ==
    ASSUME TurnInv, NEW t \in Turns, turn[t].pc \in Holding
    PROVE  /\ lock = t /\ turn[t].req \in Requests /\ turn[t] \in Places /\ t # NoTurn
           /\ ThreadOwns(t) /\ ThreadFresh(t) /\ ThreadFinds(t) /\ TurnTypes
BY ConversationTurnAssumption DEF TurnInv, ThreadInv, ThreadOwns, TurnTypes, Holding

----------------------------------------------------------------------------
(* The steps of a thread.                                                  *)

\* 1. A turn begins.
LEMMA Begins ==
    ASSUME TurnInv, NEW t \in Turns, NEW r \in Requests, Begin(t, r)
    PROVE  TurnInv' /\ ReplyKept
<1> DEFINE place == [IdleTurn EXCEPT !.pc = "resolve", !.req = r]
<1>1. turn' = [turn EXCEPT ![t] = place] /\ lock = NoTurn /\ lock' = t
      /\ UNCHANGED <<conv, user, reply, receipt, enqueued>>
  BY DEF Begin, LockAvailable, rows
<1>2. "resolve" \in PCs /\ IdleTurn \in Places
  BY DEF IdleTurn, Places, PCs, Holding, Outs
<1>3. place \in Places /\ place.pc = "resolve" /\ place.req = r
  BY <1>2 DEF Places
<1>4. turn'[t] = place /\ \A u \in Turns \ {t} : turn'[u] = turn[u]
  BY <1>1 DEF TurnInv, TurnTypes
<1>5. TurnTypes'
  BY <1>1, <1>3 DEF TurnInv, TurnTypes
<1>6. ThreadInv(t)'
  BY <1>1, <1>3, <1>4 DEF ThreadInv, ThreadOwns, ThreadFresh, ThreadFinds
<1>7. QED  BY <1>1, <1>4, <1>5, <1>6, SameRows, OwnStep

\* 2. It finds what an earlier run left.
LEMMA Resolves ==
    ASSUME TurnInv, NEW t \in Turns, Resolve(t)
    PROVE  TurnInv' /\ ReplyKept
<1>1. turn[t].pc = "resolve" /\ UNCHANGED <<conv, user, reply, receipt, enqueued, lock>>
  BY DEF Resolve, At, rows
<1>2. /\ lock = t /\ turn[t].req \in Requests /\ turn[t] \in Places /\ TurnTypes
  BY <1>1, InTurnOf DEF Holding
<1>3. CASE \/ Replays(Request(t)) /\ Goes(t, "unlock", "complete")
           \/ Goes(t, "unlock", "raised")
  <2>1. PICK out \in {"complete", "raised"} :
            /\ out = "complete" => reply[turn[t].req] = "complete"
            /\ Goes(t, "unlock", out)
    BY <1>3 DEF Replays, Request
  <2>2. /\ turn' \in [Turns -> Places]
        /\ turn'[t].pc = "unlock" /\ turn'[t].req = turn[t].req /\ turn'[t].out = out
        /\ \A u \in Turns \ {t} : turn'[u] = turn[u]
    BY <1>2, <2>1, GoesTo DEF PCs, Holding, Outs, Ends
  <2>3. TurnTypes'
    BY <1>1, <1>2, <2>2 DEF TurnTypes
  <2>4. ThreadInv(t)'
    BY <1>1, <1>2, <2>1, <2>2 DEF ThreadInv, ThreadOwns, ThreadFresh, ThreadFinds
  <2>5. QED  BY <1>1, <1>2, <2>2, <2>3, <2>4, SameRows, OwnStep
<1>4. CASE /\ ~ Replays(Request(t))
           /\ turn' = [turn EXCEPT ![t].pc = "prepare", ![t].known = Request(t) \in user,
                                   ![t].had = reply[Request(t)] # "none"]
  <2> DEFINE known == Request(t) \in user
             had == reply[Request(t)] # "none"
             place == [turn[t] EXCEPT !.pc = "prepare", !.known = known, !.had = had]
  <2>1. place \in Places
    <3>1. known \in BOOLEAN /\ had \in BOOLEAN /\ "prepare" \in PCs
      BY DEF PCs, Holding
    <3> HIDE DEF known, had
    <3>2. QED  BY <1>2, <3>1 DEF Places
  <2>2. turn' = [turn EXCEPT ![t] = place]
    BY <1>4
  <2>3. /\ turn'[t].pc = "prepare" /\ turn'[t].req = turn[t].req
        /\ turn'[t].had => reply[turn[t].req] # "none"
        /\ turn'[t].known => turn[t].req \in user
        /\ \A u \in Turns \ {t} : turn'[u] = turn[u]
    BY <1>2, <2>1, <2>2 DEF TurnTypes, Places, Request
  <2>4. TurnTypes'
    BY <1>1, <1>2, <2>1, <2>2 DEF TurnTypes
  <2>5. conv = "open" \/ turn'[t].known => Unfollowed(turn[t].req)
    <3>1. turn'[t].known => conv = "open"
      BY <2>3 DEF TurnInv, RowsInv, TurnTypes
    <3>2. reply[turn[t].req] # "complete"
      BY <1>4 DEF Replays, Request
    <3>3. conv = "open" => \A k \in Kinds : ~ (enqueued[turn[t].req][k] > 0)
      BY <1>2, <3>2 DEF TurnInv, RowsInv, FollowUpHasReply
    <3>4. \A k \in Kinds : enqueued[turn[t].req][k] \in 0..2
      BY <1>2 DEF TurnTypes
    <3>5. QED  BY <3>1, <3>3, <3>4 DEF Unfollowed
  <2>6. ThreadInv(t)'
    BY <1>1, <1>2, <1>4, <2>3, <2>5
       DEF ThreadInv, ThreadOwns, ThreadFresh, ThreadFinds, Replays, Request, Unfollowed
  <2>7. QED  BY <1>1, <1>2, <2>3, <2>4, <2>6, SameRows, OwnStep
<1>5. QED  BY <1>3, <1>4 DEF Resolve

\* 3. It goes to its end without a further write.
LEMMA Withdraws ==
    ASSUME TurnInv, NEW t \in Turns, turn[t].pc \in Holding,
           UNCHANGED <<conv, user, reply, receipt, enqueued, lock>>,
           NEW p \in {"free", "unlock"}, NEW out \in Outs,
           Goes(t, p, out) \/ (Go(t, p) /\ out = turn[t].out),
           out # "none",
           out = "complete" /\ conv = "open" => reply[turn[t].req] = "complete"
    PROVE  TurnInv' /\ ReplyKept
<1>1. lock = t /\ turn[t].req \in Requests /\ turn[t] \in Places /\ TurnTypes
  BY InTurnOf
<1>2. /\ turn' \in [Turns -> Places]
      /\ turn'[t].pc = p /\ turn'[t].req = turn[t].req /\ turn'[t].out = out
      /\ \A u \in Turns \ {t} : turn'[u] = turn[u]
  BY <1>1, GoesTo, GoTo DEF PCs, Holding
<1>3. TurnTypes'
  BY <1>1, <1>2 DEF TurnTypes
<1>4. ThreadInv(t)'
  BY <1>1, <1>2 DEF ThreadInv, ThreadOwns, ThreadFresh, ThreadFinds
<1>5. QED  BY <1>1, <1>2, <1>3, <1>4, SameRows, OwnStep

\* 4. It comes to the gate and waits there.
LEMMA AtTheGate ==
    ASSUME TurnInv, UNCHANGED turnVars
    PROVE  TurnInv' /\ ReplyKept
<1>1. UNCHANGED <<conv, user, reply, receipt, enqueued, lock, turn>>
  BY DEF turnVars
<1>2. TurnTypes' /\ \A u \in Turns : ThreadInv(u)'
  BY <1>1 DEF TurnInv, TurnTypes, ThreadInv, ThreadOwns, ThreadFresh, ThreadFinds, Unfollowed
<1>3. QED  BY <1>1, <1>2, SameRows DEF TurnInv

\* Materials are prepared, or that fails.
LEMMA Prepares ==
    ASSUME TurnInv, NEW t \in Turns, Prepare(t)
    PROVE  TurnInv' /\ ReplyKept
<1>1. turn[t].pc = "prepare" /\ UNCHANGED <<conv, user, reply, receipt, enqueued, lock>>
  BY DEF Prepare, At, rows
<1>2. /\ lock = t /\ turn[t].req \in Requests /\ turn[t] \in Places /\ TurnTypes
      /\ ThreadFresh(t) /\ ThreadFinds(t)
  BY <1>1, InTurnOf DEF Holding
<1>3. CASE Go(t, "gate")
  <2>1. /\ turn' \in [Turns -> Places]
        /\ turn'[t].pc = "gate" /\ turn'[t].req = turn[t].req
        /\ turn'[t].had = turn[t].had /\ turn'[t].known = turn[t].known
        /\ \A u \in Turns \ {t} : turn'[u] = turn[u]
    BY <1>2, <1>3, GoTo DEF PCs, Holding
  <2>2. TurnTypes'
    BY <1>1, <1>2, <2>1 DEF TurnTypes
  <2>3. ThreadInv(t)'
    BY <1>1, <1>2, <2>1 DEF ThreadInv, ThreadOwns, ThreadFresh, ThreadFinds, Unfollowed
  <2>4. QED  BY <1>1, <1>2, <2>1, <2>2, <2>3, SameRows, OwnStep
<1>4. CASE Goes(t, "unlock", "raised")
  BY <1>1, <1>4, Withdraws DEF Holding, Outs
<1>5. QED  BY <1>3, <1>4 DEF Prepare

\* 5. The stream ends.
LEMMA Streams ==
    ASSUME TurnInv, NEW t \in Turns, NEW out \in Ends, Stream(t, out)
    PROVE  TurnInv' /\ ReplyKept
<1>1. /\ turn[t].pc = "stream" /\ UNCHANGED <<conv, user, reply, receipt, enqueued, lock>>
      /\ Goes(t, "finish", out)
  BY DEF Stream, At, rows
<1>2. /\ lock = t /\ turn[t].req \in Requests /\ turn[t] \in Places /\ TurnTypes
      /\ ThreadFresh(t) /\ ThreadFinds(t)
  BY <1>1, InTurnOf DEF Holding
<1>3. /\ turn' \in [Turns -> Places]
      /\ turn'[t].pc = "finish" /\ turn'[t].req = turn[t].req /\ turn'[t].out = out
      /\ \A u \in Turns \ {t} : turn'[u] = turn[u]
  BY <1>1, <1>2, GoesTo DEF PCs, Holding, Outs
<1>4. TurnTypes'
  BY <1>1, <1>2, <1>3 DEF TurnTypes
<1>5. ThreadInv(t)'
  BY <1>1, <1>2, <1>3 DEF ThreadInv, ThreadOwns, ThreadFresh, ThreadFinds, Unfollowed
<1>6. QED  BY <1>1, <1>2, <1>3, <1>4, <1>5, SameRows, OwnStep

\* 6. It is refused, its client leaves, it reports an error, or its slot is
\* given back.
LEMMA GoesOff ==
    ASSUME TurnInv, NEW t \in Turns,
           Busy(t) \/ LeaveEarly(t) \/ LeaveFollow(t) \/ Report(t) \/ FreeSlot(t)
    PROVE  TurnInv' /\ ReplyKept
<1>1. "raised" \in Outs /\ "busy" \in Outs /\ "complete" \in Outs
  BY DEF Outs, Ends
<1>2. CASE Busy(t) \/ LeaveEarly(t)
  <2>1. /\ UNCHANGED <<conv, user, reply, receipt, enqueued, lock>>
        /\ turn[t].pc \in Holding
        /\ Goes(t, "unlock", "busy") \/ Goes(t, "free", "raised")
    BY <1>2 DEF Busy, LeaveEarly, At, rows, Holding
  <2>2. QED  BY <1>1, <2>1, Withdraws
<1>3. CASE LeaveFollow(t)
  <2>1. /\ UNCHANGED <<conv, user, reply, receipt, enqueued, lock>>
        /\ turn[t].pc = "follow" /\ Goes(t, "free", "complete")
    BY <1>3 DEF LeaveFollow, At, rows
  <2>2. turn[t].pc \in Holding /\ conv = "open" => reply[turn[t].req] = "complete"
    BY <2>1, InTurnOf DEF Holding, ThreadFinds
  <2>3. QED  BY <1>1, <2>1, <2>2, Withdraws DEF Holding
<1>4. CASE Report(t) \/ FreeSlot(t)
  <2>1. /\ UNCHANGED <<conv, user, reply, receipt, enqueued, lock>>
        /\ turn[t].pc \in {"report", "free"}
        /\ Go(t, "free") \/ Go(t, "unlock")
    BY <1>4 DEF Report, FreeSlot, At, rows
  <2>2. turn[t].pc \in Holding /\ ThreadOwns(t) /\ ThreadFinds(t) /\ turn[t] \in Places
    BY <2>1, InTurnOf DEF Holding
  <2>3. turn[t].out \in Outs /\ turn[t].out # "none"
    BY <2>1, <2>2 DEF Places, ThreadOwns, Ends
  <2>4. turn[t].out = "complete" /\ conv = "open" => reply[turn[t].req] = "complete"
    BY <2>1, <2>2 DEF ThreadFinds
  <2>5. QED  BY <2>1, <2>2, <2>3, <2>4, Withdraws
<1>5. QED  BY <1>2, <1>3, <1>4

----------------------------------------------------------------------------
(* The steps that write.                                                   *)

\* 7. The user message.
LEMMA WritesUser ==
    ASSUME TurnInv, NEW t \in Turns, WriteUser(t)
    PROVE  TurnInv' /\ ReplyKept
<1> DEFINE r == turn[t].req
           writes == conv = "open" \/ (turn[t].known /\ r \notin Imports)
<1>1. /\ turn[t].pc = "gate" /\ UNCHANGED <<conv, reply, receipt, enqueued, lock>>
      /\ user' = IF conv = "open" THEN user \union {r} ELSE user
  BY DEF WriteUser, At, Request
<1>2. /\ lock = t /\ r \in Requests /\ turn[t] \in Places /\ TurnTypes
      /\ ThreadFresh(t) /\ ThreadFinds(t)
  BY <1>1, InTurnOf DEF Holding
<1>3. RowsInv' /\ ReplyKept
  BY <1>1 DEF TurnInv, RowsInv, FollowedUpOnce, FollowUpHasReply, ReplyKept, TurnTypes
<1>4. user' \subseteq Requests
  BY <1>1, <1>2 DEF TurnTypes
<1>5. CASE writes /\ Go(t, "placeholder")
  <2>1. /\ turn' \in [Turns -> Places]
        /\ turn'[t].pc = "placeholder" /\ turn'[t].req = r /\ turn'[t].had = turn[t].had
        /\ \A u \in Turns \ {t} : turn'[u] = turn[u]
    BY <1>2, <1>5, GoTo DEF PCs, Holding
  <2>2. TurnTypes'
    BY <1>1, <1>2, <1>4, <2>1 DEF TurnTypes
  <2>3. ThreadInv(t)'
    BY <1>1, <1>2, <1>5, <2>1 DEF ThreadInv, ThreadOwns, ThreadFresh, ThreadFinds, Unfollowed
  <2>4. QED  BY <1>1, <1>2, <1>3, <2>1, <2>2, <2>3, OwnStep
<1>6. CASE Goes(t, "free", "raised")
  <2>1. /\ turn' \in [Turns -> Places]
        /\ turn'[t].pc = "free" /\ turn'[t].req = r /\ turn'[t].out = "raised"
        /\ \A u \in Turns \ {t} : turn'[u] = turn[u]
    BY <1>2, <1>6, GoesTo DEF PCs, Holding, Outs
  <2>2. TurnTypes'
    BY <1>1, <1>2, <1>4, <2>1 DEF TurnTypes
  <2>3. ThreadInv(t)'
    BY <1>1, <1>2, <2>1 DEF ThreadInv, ThreadOwns, ThreadFresh, ThreadFinds
  <2>4. QED  BY <1>1, <1>2, <1>3, <2>1, <2>2, <2>3, OwnStep
<1>7. (writes /\ Go(t, "placeholder")) \/ Goes(t, "free", "raised")
  BY DEF WriteUser, Request
<1>8. QED  BY <1>5, <1>6, <1>7

\* What a write of one reply that is not complete leaves alone.
LEMMA WriteReply ==
    ASSUME TurnInv, NEW r \in Requests, NEW s \in {"none", "aborted", "complete"},
           reply[r] # "complete", Unfollowed(r), conv = "deleted" => s = "none",
           s # "none" => r \in user,
           reply' = [reply EXCEPT ![r] = s], UNCHANGED <<conv, user, receipt, enqueued>>
    PROVE  RowsInv' /\ ReplyKept /\ reply' \in [Requests -> {"none", "aborted", "complete"}]
<1>1. TurnTypes
  BY DEF TurnInv
<1>2. reply'[r] = s /\ \A q \in Requests \ {r} : reply'[q] = reply[q]
  BY <1>1 DEF TurnTypes
<1>3. reply' \in [Requests -> {"none", "aborted", "complete"}]
  BY <1>1 DEF TurnTypes
<1>4. ReplyKept
  BY <1>2 DEF ReplyKept
<1>5. FollowUpHasReply'
  <2> SUFFICES ASSUME NEW q \in Requests, NEW k \in Kinds, enqueued[q][k] > 0, conv # "deleted"
               PROVE  reply'[q] = "complete" /\ q \in receipt
    BY DEF FollowUpHasReply
  <2>1. q # r
    BY DEF Unfollowed
  <2>2. QED  BY <1>2, <2>1 DEF TurnInv, RowsInv, FollowUpHasReply
<1>6. QED  BY <1>2, <1>3, <1>4, <1>5 DEF TurnInv, RowsInv, FollowedUpOnce

\* 8. The placeholder of the reply.
LEMMA WritesPlaceholder ==
    ASSUME TurnInv, NEW t \in Turns, Placeholder(t)
    PROVE  TurnInv' /\ ReplyKept
<1> DEFINE r == turn[t].req
<1>1. turn[t].pc = "placeholder" /\ UNCHANGED <<conv, user, receipt, enqueued, lock>>
  BY DEF Placeholder, At
<1>2. /\ lock = t /\ r \in Requests /\ turn[t] \in Places /\ TurnTypes
      /\ ThreadFresh(t) /\ ThreadFinds(t)
  BY <1>1, InTurnOf DEF Holding
<1>3. /\ reply[r] # "complete" /\ Unfollowed(r)
      /\ turn[t].had /\ conv = "open" => reply[r] # "none"
      /\ conv = "open" => r \in user
  BY <1>1, <1>2 DEF ThreadFresh, ThreadFinds
<1>4. CASE UNCHANGED reply /\ Goes(t, "free", "raised")
  BY <1>1, <1>4, Withdraws DEF Holding, Outs
<1>5. CASE /\ Goes(t, "stream", "none") /\ conv = "deleted" /\ turn[t].had
           /\ reply' = Updates(r, "aborted")
  <2>1. reply' = [reply EXCEPT ![r] = "none"]
    BY <1>2, <1>5 DEF Updates, TurnInv, RowsInv
  <2>2. RowsInv' /\ ReplyKept /\ reply' \in [Requests -> {"none", "aborted", "complete"}]
    BY <1>1, <1>2, <1>3, <2>1, WriteReply
  <2>3. /\ turn' \in [Turns -> Places]
        /\ turn'[t].pc = "stream" /\ turn'[t].req = r
        /\ \A u \in Turns \ {t} : turn'[u] = turn[u]
    BY <1>2, <1>5, GoesTo DEF PCs, Holding, Outs
  <2>4. TurnTypes'
    BY <1>1, <1>2, <2>2, <2>3 DEF TurnTypes
  <2>5. ThreadInv(t)'
    BY <1>1, <1>2, <1>3, <1>5, <2>1, <2>3
       DEF ThreadInv, ThreadOwns, ThreadFresh, ThreadFinds, Unfollowed, TurnTypes
  <2>6. QED  BY <1>1, <1>2, <2>2, <2>3, <2>4, <2>5, OwnStep
<1>6. CASE Goes(t, "stream", "none") /\ conv = "open" /\ reply' = [reply EXCEPT ![r] = "aborted"]
  <2>1. RowsInv' /\ ReplyKept /\ reply' \in [Requests -> {"none", "aborted", "complete"}]
    BY <1>1, <1>2, <1>3, <1>6, WriteReply
  <2>2. /\ turn' \in [Turns -> Places]
        /\ turn'[t].pc = "stream" /\ turn'[t].req = r
        /\ \A u \in Turns \ {t} : turn'[u] = turn[u]
    BY <1>2, <1>6, GoesTo DEF PCs, Holding, Outs
  <2>3. TurnTypes'
    BY <1>1, <1>2, <2>1, <2>2 DEF TurnTypes
  <2>4. ThreadInv(t)'
    BY <1>1, <1>2, <1>3, <1>6, <2>2
       DEF ThreadInv, ThreadOwns, ThreadFresh, ThreadFinds, Unfollowed, TurnTypes
  <2>5. QED  BY <1>1, <1>2, <2>1, <2>2, <2>3, <2>4, OwnStep
<1>7. CASE /\ turn[t].had /\ conv = "open"
           /\ reply' = Updates(r, "aborted") /\ Goes(t, "stream", "none")
  <2>1. reply' = [reply EXCEPT ![r] = "aborted"]
    BY <1>3, <1>7 DEF Updates
  <2>2. QED  BY <1>6, <1>7, <2>1
<1>8. conv \in {"open", "deleted"}
  BY <1>2 DEF TurnTypes
<1>9. QED  BY <1>4, <1>5, <1>6, <1>7, <1>8 DEF Placeholder, Request

\* 9. The end of the stream is stored.
LEMMA Finishes ==
    ASSUME TurnInv, NEW t \in Turns, Finish(t)
    PROVE  TurnInv' /\ ReplyKept
<1> DEFINE r == turn[t].req
           s == IF reply[r] = "none" THEN "none" ELSE Stored(turn[t].out)
<1>1. turn[t].pc = "finish" /\ UNCHANGED <<conv, user, receipt, enqueued, lock>>
      /\ reply' = Updates(r, Stored(turn[t].out)) /\ Go(t, "receipt")
  BY DEF Finish, At, Request
<1>2. /\ lock = t /\ r \in Requests /\ turn[t] \in Places /\ TurnTypes
      /\ ThreadOwns(t) /\ ThreadFresh(t) /\ ThreadFinds(t)
  BY <1>1, InTurnOf DEF Holding
<1>3. reply[r] # "complete" /\ Unfollowed(r) /\ (conv = "open" => reply[r] # "none")
      /\ turn[t].out \in Ends
  BY <1>1, <1>2 DEF ThreadOwns, ThreadFresh, ThreadFinds
<1>4. reply' = [reply EXCEPT ![r] = s] /\ s \in {"none", "aborted", "complete"}
  BY <1>1 DEF Updates, Stored
<1>5. conv = "deleted" => reply[r] = "none"
  BY <1>2 DEF TurnInv, RowsInv
<1>6. RowsInv' /\ ReplyKept /\ reply' \in [Requests -> {"none", "aborted", "complete"}]
  <2>1. (conv = "deleted" => s = "none") /\ (s # "none" => r \in user)
    BY <1>2, <1>5 DEF TurnInv, RowsInv
  <2> HIDE DEF s
  <2>2. QED  BY <1>1, <1>2, <1>3, <1>4, <2>1, WriteReply
<1>7. /\ turn' \in [Turns -> Places]
      /\ turn'[t].pc = "receipt" /\ turn'[t].req = r /\ turn'[t].out = turn[t].out
      /\ \A u \in Turns \ {t} : turn'[u] = turn[u]
  BY <1>1, <1>2, GoTo DEF PCs, Holding
<1>8. TurnTypes'
  BY <1>1, <1>2, <1>6, <1>7 DEF TurnTypes
<1>9. /\ conv = "open" /\ turn[t].out = "complete" => reply'[r] = "complete"
      /\ conv = "open" => reply'[r] # "none"
  BY <1>2, <1>3, <1>4 DEF Stored, TurnTypes
<1>10. ThreadInv(t)'
  BY <1>1, <1>2, <1>3, <1>7, <1>9 DEF ThreadInv, ThreadOwns, ThreadFresh, ThreadFinds, Unfollowed
<1>11. QED  BY <1>1, <1>2, <1>6, <1>7, <1>8, <1>10, OwnStep

\* 10. The receipt.
LEMMA WritesReceipt ==
    ASSUME TurnInv, NEW t \in Turns, Receipt(t)
    PROVE  TurnInv' /\ ReplyKept
<1> DEFINE r == turn[t].req
           out == turn[t].out
<1>1. turn[t].pc = "receipt" /\ UNCHANGED <<conv, user, reply, enqueued, lock>>
  BY DEF Receipt, At
<1>2. /\ lock = t /\ r \in Requests /\ turn[t] \in Places /\ TurnTypes
      /\ ThreadOwns(t) /\ ThreadFresh(t) /\ ThreadFinds(t)
  BY <1>1, InTurnOf DEF Holding
<1>3. out \in Ends /\ Unfollowed(r) /\ (conv = "open" /\ out = "complete" => reply[r] = "complete")
  BY <1>1, <1>2 DEF ThreadOwns, ThreadFresh, ThreadFinds
<1>4. CASE Goes(t, "free", "raised") /\ UNCHANGED receipt
  BY <1>1, <1>4, Withdraws DEF Holding, Outs
<1>5. CASE conv = "open" /\ receipt' = receipt \union {r} /\ Go(t, AfterReceipt(out))
  <2> DEFINE p == AfterReceipt(out)
  <2>1. /\ p \in {"follow", "report", "free"}
        /\ p = "follow" => out = "complete"
        /\ out # "none" /\ out \in Ends
    BY <1>3 DEF AfterReceipt, Ends
  <2> HIDE DEF p
  <2>2. p \in PCs
    BY <2>1 DEF PCs, Holding
  <2>3. /\ turn' \in [Turns -> Places]
        /\ turn'[t].pc = p /\ turn'[t].req = r /\ turn'[t].out = out
        /\ turn'[t].next = turn[t].next
        /\ \A u \in Turns \ {t} : turn'[u] = turn[u]
    BY <1>2, <1>5, <2>2, GoTo DEF p
  <2>4. TurnTypes'
    BY <1>1, <1>2, <1>5, <2>3 DEF TurnTypes
  <2>5. turn[t].next \in 1..3 /\ \A i \in 1..3 : FollowUps[i] \in Kinds
    BY <1>2, KindsOf DEF Places
  <2>6. ThreadInv(t)'
    <3>1. ThreadOwns(t)'
      BY <1>1, <1>2, <2>1, <2>3 DEF ThreadOwns
    <3>2. ThreadFresh(t)'
      BY <1>1, <1>2, <1>3, <2>1, <2>3, <2>5 DEF ThreadFresh, Unfollowed
    <3>3. ThreadFinds(t)'
      BY <1>1, <1>2, <1>3, <1>5, <2>1, <2>3 DEF ThreadFinds
    <3>4. QED  BY <3>1, <3>2, <3>3 DEF ThreadInv
  <2>7. RowsInv' /\ ReplyKept
    BY <1>1, <1>5 DEF TurnInv, RowsInv, FollowedUpOnce, FollowUpHasReply, ReplyKept
  <2>8. QED  BY <1>1, <1>2, <2>3, <2>4, <2>6, <2>7, OwnStep
<1>6. QED  BY <1>4, <1>5 DEF Receipt, Request

\* 11. A follow-up is enqueued or skipped.
LEMMA FollowsUp ==
    ASSUME TurnInv, NEW t \in Turns, FollowUp(t)
    PROVE  TurnInv' /\ ReplyKept
<1> DEFINE r == turn[t].req
           i == turn[t].next
           k == FollowUps[i]
<1>1. /\ turn[t].pc = "follow" /\ UNCHANGED <<conv, user, reply, receipt, lock>>
      /\ \/ i < Len(FollowUps) /\ turn' = [turn EXCEPT ![t].next = @ + 1]
         \/ Goes(t, "free", "complete")
      /\ \/ enqueued' = [enqueued EXCEPT ![r][k] = IF @ < 2 THEN @ + 1 ELSE @]
         \/ UNCHANGED enqueued
  BY DEF FollowUp, At, rows, Request
<1>2. /\ lock = t /\ r \in Requests /\ turn[t] \in Places /\ TurnTypes
      /\ ThreadOwns(t) /\ ThreadFresh(t) /\ ThreadFinds(t)
  BY <1>1, InTurnOf DEF Holding
<1>3. i \in 1..3 /\ k \in Kinds /\ enqueued[r][k] = 0
      /\ \A j \in 1..3 : j # i => FollowUps[j] # k
  <2>1. i \in 1..3
    BY <1>2 DEF Places
  <2>2. QED  BY <1>1, <1>2, <2>1, KindsOf DEF ThreadFresh
<1>4. conv = "open" => reply[r] = "complete" /\ r \in receipt
  BY <1>1, <1>2 DEF ThreadFinds
<1>5. /\ enqueued' \in [Requests -> [Kinds -> 0..2]]
      /\ enqueued'[r][k] <= 1
      /\ \A q \in Requests, l \in Kinds : q # r \/ l # k => enqueued'[q][l] = enqueued[q][l]
  <2>1. enqueued \in [Requests -> [Kinds -> 0..2]]
    BY <1>2 DEF TurnTypes
  <2>2. CASE UNCHANGED enqueued
    BY <1>3, <2>1, <2>2
  <2>3. CASE enqueued' = [enqueued EXCEPT ![r][k] = IF @ < 2 THEN @ + 1 ELSE @]
    <3>1. enqueued' = [enqueued EXCEPT ![r][k] = 1]
      BY <1>3, <2>3
    <3> HIDE DEF k, r
    <3>2. QED  BY <1>2, <1>3, <2>1, <3>1
  <2>4. QED  BY <1>1, <2>2, <2>3
<1>6. RowsInv' /\ ReplyKept
  <2>1. FollowedUpOnce'
    BY <1>5 DEF TurnInv, RowsInv, FollowedUpOnce
  <2>2. FollowUpHasReply'
    <3>1. conv \in {"open", "deleted"}
      BY <1>2 DEF TurnTypes
    <3>2. QED  BY <1>1, <1>4, <1>5, <3>1 DEF TurnInv, RowsInv, FollowUpHasReply
  <2>3. QED  BY <1>1, <2>1, <2>2 DEF TurnInv, RowsInv, ReplyKept
<1>7. CASE Goes(t, "free", "complete")
  <2>1. /\ turn' \in [Turns -> Places]
        /\ turn'[t].pc = "free" /\ turn'[t].req = r /\ turn'[t].out = "complete"
        /\ \A u \in Turns \ {t} : turn'[u] = turn[u]
    BY <1>2, <1>7, GoesTo DEF PCs, Holding, Outs, Ends
  <2>2. TurnTypes'
    BY <1>1, <1>2, <1>5, <2>1 DEF TurnTypes
  <2>3. ThreadInv(t)'
    BY <1>1, <1>2, <1>4, <2>1 DEF ThreadInv, ThreadOwns, ThreadFresh, ThreadFinds
  <2>4. QED  BY <1>1, <1>2, <1>6, <2>1, <2>2, <2>3, OwnStep
<1>8. CASE i < Len(FollowUps) /\ turn' = [turn EXCEPT ![t].next = @ + 1]
  <2>1. i + 1 \in 1..3
    BY <1>3, <1>8, KindsOf
  <2> DEFINE place == [turn[t] EXCEPT !.next = i + 1]
  <2>2. place \in Places /\ place.pc = "follow" /\ place.req = r /\ place.next = i + 1
        /\ place.out = turn[t].out
    BY <1>1, <1>2, <2>1 DEF Places
  <2>3. turn' = [turn EXCEPT ![t] = place]
    BY <1>8
  <2>4. turn'[t] = place /\ \A u \in Turns \ {t} : turn'[u] = turn[u]
    BY <1>2, <2>3 DEF TurnTypes
  <2>5. TurnTypes'
    BY <1>1, <1>2, <1>5, <2>2, <2>3 DEF TurnTypes
  <2> HIDE DEF place
  <2>6. ThreadOwns(t)' /\ ThreadFinds(t)'
    BY <1>1, <1>2, <1>4, <2>2, <2>4 DEF ThreadOwns, ThreadFinds
  <2>7. ThreadFresh(t)'
    <3>1. \A j \in 1..3 : j >= i + 1 => j >= i /\ j # i
      BY <1>3
    <3>2. \A j \in 1..3 : FollowUps[j] \in Kinds
      BY KindsOf
    <3>3. \A j \in 1..3 : j >= i + 1 => enqueued'[r][FollowUps[j]] = 0
      BY <1>1, <1>2, <1>3, <1>5, <3>1, <3>2 DEF ThreadFresh
    <3>4. QED  BY <2>2, <2>4, <3>3 DEF ThreadFresh
  <2>8. ThreadInv(t)'
    BY <2>6, <2>7 DEF ThreadInv
  <2>9. QED  BY <1>1, <1>2, <1>6, <2>4, <2>5, <2>8, OwnStep
<1>9. QED  BY <1>1, <1>7, <1>8

\* 12. The lock is given back.
LEMMA Unlocks ==
    ASSUME TurnInv, NEW t \in Turns, Unlock(t)
    PROVE  TurnInv' /\ ReplyKept
<1>1. /\ turn[t].pc = "unlock" /\ UNCHANGED <<conv, user, reply, receipt, enqueued>>
      /\ lock' = NoTurn
      /\ Go(t, "ended") \/ turn' = [turn EXCEPT ![t] = IdleTurn]
  BY DEF Unlock, At, rows
<1>2. /\ lock = t /\ turn[t].req \in Requests /\ turn[t] \in Places /\ TurnTypes
      /\ ThreadOwns(t) /\ ThreadFinds(t)
  BY <1>1, InTurnOf DEF Holding
<1>3. /\ turn' \in [Turns -> Places]
      /\ turn'[t].pc = "idle" \/ (/\ turn'[t].pc = "ended" /\ turn'[t].req = turn[t].req
                                  /\ turn'[t].out = turn[t].out)
      /\ \A u \in Turns \ {t} : turn'[u] = turn[u]
  <2>1. CASE Go(t, "ended")
    BY <1>2, <2>1, GoTo DEF PCs
  <2>2. CASE turn' = [turn EXCEPT ![t] = IdleTurn]
    <3>1. IdleTurn \in Places /\ IdleTurn.pc = "idle"
      BY DEF IdleTurn, Places, PCs, Holding, Outs
    <3>2. QED  BY <1>2, <2>2, <3>1 DEF TurnTypes
  <2>3. QED  BY <1>1, <2>1, <2>2
<1>4. TurnTypes'
  BY <1>1, <1>2, <1>3 DEF TurnTypes
<1>5. ThreadInv(t)'
  BY <1>1, <1>2, <1>3 DEF ThreadInv, ThreadOwns, ThreadFresh, ThreadFinds, Holding
<1>6. QED  BY <1>1, <1>2, <1>3, <1>4, <1>5, SameRows, OwnStep

\* Whatever a turn does on its own.
LEMMA Proceeds ==
    ASSUME TurnInv, NEW t \in Turns, Proceed(t)
    PROVE  TurnInv' /\ ReplyKept
<1>1. CASE AtGate(t)
  BY <1>1, AtTheGate DEF AtGate
<1>2. CASE \E out \in {"complete", "error", "aborted"} : Stream(t, out)
  BY <1>2, Streams DEF Ends
<1>3. CASE Resolve(t) \/ Prepare(t) \/ Busy(t) \/ FreeSlot(t)
  BY <1>3, Resolves, Prepares, GoesOff
<1>4. CASE WriteUser(t) \/ Placeholder(t) \/ Finish(t)
  BY <1>4, WritesUser, WritesPlaceholder, Finishes
<1>5. CASE Receipt(t) \/ FollowUp(t) \/ Unlock(t)
  BY <1>5, WritesReceipt, FollowsUp, Unlocks
<1>6. QED  BY <1>1, <1>2, <1>3, <1>4, <1>5 DEF Proceed

----------------------------------------------------------------------------
(* The steps of others, and the conversation as a whole.                   *)

\* 13. A batch is created: only its user message is new.
LEMMA Creates ==
    ASSUME TurnInv, CreateImport
    PROVE  TurnInv' /\ ReplyKept
<1>1. /\ conv = "open" /\ user' = user \union {Batch}
      /\ UNCHANGED <<conv, reply, receipt, enqueued, lock, turn>>
  BY DEF CreateImport
<1>2. Batch \in Requests
  BY ConversationTurnAssumption, ChatImportAssumption
<1>3. RowsInv' /\ ReplyKept
  BY <1>1 DEF TurnInv, RowsInv, FollowedUpOnce, FollowUpHasReply, ReplyKept
<1>4. TurnTypes' /\ \A u \in Turns : ThreadInv(u)'
  BY <1>1, <1>2 DEF TurnInv, TurnTypes, ThreadInv, ThreadOwns, ThreadFresh, ThreadFinds, Unfollowed
<1>5. QED  BY <1>3, <1>4 DEF TurnInv

\* 14. The conversation is deleted under whatever turn it has.
LEMMA Deletes ==
    ASSUME TurnInv, DeleteConversation
    PROVE  TurnInv' /\ ReplyKept
<1>1. /\ conv' = "deleted" /\ user' = {} /\ receipt' = {}
      /\ reply' = [q \in Requests |-> "none"]
      /\ UNCHANGED <<enqueued, lock, turn>>
  BY DEF DeleteConversation
<1>2. RowsInv' /\ ReplyKept /\ TurnTypes'
  BY <1>1 DEF TurnInv, RowsInv, FollowedUpOnce, FollowUpHasReply, ReplyKept, TurnTypes
<1>3. ASSUME NEW t \in Turns PROVE ThreadInv(t)'
  <2>1. ThreadInv(t) /\ turn[t] \in Places
    BY DEF TurnInv, TurnTypes
  <2>2. ThreadOwns(t)' /\ ThreadFinds(t)'
    BY <1>1, <2>1 DEF ThreadInv, ThreadOwns, ThreadFinds
  <2>3. turn[t].pc # "idle" => reply'[turn[t].req] = "none"
    BY <1>1, <2>1 DEF ThreadInv, ThreadOwns
  <2>4. ThreadFresh(t)'
    BY <1>1, <2>1, <2>3 DEF ThreadInv, ThreadFresh, Unfollowed
  <2>5. QED  BY <2>2, <2>4 DEF ThreadInv
<1>4. QED  BY <1>2, <1>3 DEF TurnInv

\* 15. A crash, and the look at the outcome of an ended turn: threads that
\* are idle rely on nothing.
LEMMA Idles ==
    ASSUME TurnInv, UNCHANGED <<conv, user, reply, receipt, enqueued>>,
           turn' \in [Turns -> Places],
           lock' = lock \/ (\A t \in Turns : turn'[t] = IdleTurn),
           \A t \in Turns : turn'[t] \in {turn[t], IdleTurn}
    PROVE  TurnInv' /\ ReplyKept
<1>1. TurnTypes'
  BY DEF TurnInv, TurnTypes
<1>2. ASSUME NEW t \in Turns PROVE ThreadInv(t)'
  <2>1. CASE turn'[t] = IdleTurn
    <3>1. turn'[t].pc = "idle"
      BY <2>1 DEF IdleTurn
    <3>2. QED  BY <3>1 DEF ThreadInv, ThreadOwns, ThreadFresh, ThreadFinds, Holding
  <2>2. CASE turn'[t] = turn[t] /\ lock' = lock
    BY <2>2 DEF TurnInv, ThreadInv, ThreadOwns, ThreadFresh, ThreadFinds, Unfollowed
  <2>3. QED  BY <2>1, <2>2
<1>3. QED  BY <1>1, <1>2, SameRows DEF TurnInv

\* A thread without a turn has its place.
LEMMA Idle == IdleTurn \in Places /\ IdleTurn.pc = "idle"
BY DEF IdleTurn, Places, PCs, Holding, Outs

\* Every step keeps the invariant, and every complete reply.
LEMMA TurnStep == TurnInv /\ [Next]_vars => TurnInv' /\ ReplyKept
<1> SUFFICES ASSUME TurnInv, [Next]_vars PROVE TurnInv' /\ ReplyKept
  OBVIOUS
<1>0. Importer \in Turns /\ Batch \in Requests
  BY ConversationTurnAssumption, ChatImportAssumption
<1>1. CASE UNCHANGED turnVars
  BY <1>1, AtTheGate
<1>2. CASE WorkerStep
  <2>1. CASE StartWorker \/ ReadBatch \/ LookUploads \/ PrepareFails
             \/ \E view \in FileViews : LookFiles(view)
    BY <1>1, <2>1 DEF StartWorker, ReadBatch, LookUploads, PrepareFails, LookFiles
  <2>2. CASE StartTurn \/ InTurn \/ ErrorEvent
    BY <1>0, <2>2, Begins, Proceeds, GoesOff DEF StartTurn, InTurn, ErrorEvent
  <2>3. CASE TurnOver
    <3>1. /\ UNCHANGED <<conv, user, reply, receipt, enqueued>>
          /\ lock' = lock
          /\ turn' = [turn EXCEPT ![Importer] = IdleTurn]
      BY <2>3 DEF TurnOver, rows
    <3>2. turn' \in [Turns -> Places]
      BY <3>1, Idle DEF TurnInv, TurnTypes
    <3>3. \A t \in Turns : turn'[t] \in {turn[t], IdleTurn}
      BY <3>1 DEF TurnInv, TurnTypes
    <3>4. lock' = lock \/ (\A t \in Turns : turn'[t] = IdleTurn)
      BY <3>1
    <3>5. QED  BY <3>1, <3>2, <3>3, <3>4, Idles
  <2>4. QED  BY <1>2, <2>1, <2>2, <2>3 DEF WorkerStep
<1>3. CASE \E t \in Threads : ThreadStep(t) \/ Submit(t) \/ (Leave(t) /\ UNCHANGED importVars)
  <2>1. PICK t \in Turns : ThreadStep(t) \/ Submit(t) \/ Leave(t)
    BY <1>3 DEF Threads
  <2>2. CASE ThreadStep(t) \/ Leave(t)
    BY <2>2, Proceeds, GoesOff DEF ThreadStep, Leave
  <2>3. CASE Submit(t)
    BY <2>3, Begins DEF Submit
  <2>4. QED  BY <2>1, <2>2, <2>3
<1>4. CASE \E t \in Turns : Deadline(t) /\ UNCHANGED importVars
  BY <1>1, <1>4 DEF Deadline
<1>5. CASE \E c \in Callers : Up /\ OtherCall(c) /\ UNCHANGED importVars
  BY <1>1, <1>5 DEF OtherCall
<1>6. CASE \E p \in Routes : RouteWrite(p) \/ \E kind \in RouteKinds : RouteRead(p, kind)
  BY <1>1, <1>6 DEF RouteWrite, RouteRead
<1>7. CASE CreateImport \/ Delete
  BY <1>7, Creates, Deletes DEF Delete
<1>8. CASE Crash
  <2>1. /\ UNCHANGED <<conv, user, reply, receipt, enqueued>>
        /\ lock' = NoTurn /\ turn' = [t \in Turns |-> IdleTurn]
    BY <1>8 DEF Crash, TurnCrash, rows
  <2>2. turn' \in [Turns -> Places] /\ \A t \in Turns : turn'[t] = IdleTurn
    BY <2>1, Idle
  <2>3. QED  BY <2>1, <2>2, Idles
<1>9. CASE UNCHANGED vars
  BY <1>1, <1>9 DEF vars
<1>10. QED  BY <1>2, <1>3, <1>4, <1>5, <1>6, <1>7, <1>8, <1>9 DEF Next

\* The conversation begins empty.
LEMMA TurnBegins == Init => TurnInv
<1> SUFFICES ASSUME Init PROVE TurnInv
  OBVIOUS
<1>1. /\ conv = "open" /\ user = {} /\ receipt = {} /\ lock = NoTurn
      /\ reply = [r \in Requests |-> "none"]
      /\ enqueued = [r \in Requests |-> [k \in Kinds |-> 0]]
      /\ turn = [t \in Turns |-> IdleTurn]
  BY DEF Init, TurnInit
<1>2. TurnTypes
  BY <1>1, Idle DEF TurnTypes
<1>3. RowsInv
  BY <1>1 DEF RowsInv, FollowedUpOnce, FollowUpHasReply
<1>4. ASSUME NEW t \in Turns PROVE ThreadInv(t)
  <2>1. turn[t].pc = "idle"
    BY <1>1, Idle
  <2>2. QED  BY <2>1 DEF ThreadInv, ThreadOwns, ThreadFresh, ThreadFinds, Holding
<1>5. QED  BY <1>2, <1>3, <1>4 DEF TurnInv

\* The invariant of the conversation.
LEMMA TurnSafe == Spec => []TurnInv
BY TurnBegins, TurnStep, PTL DEF Spec

\* A request is followed up once, however often it is sent and whatever
\* interrupts its turns (_run_routed, the stored reply).
THEOREM FollowUpsAreOnce == Spec => []FollowedUpOnce
<1>1. TurnInv => FollowedUpOnce
  BY DEF TurnInv, RowsInv
<1>2. QED  BY <1>1, TurnSafe, PTL

\* What is enqueued refers to a complete reply with its receipt.
THEOREM FollowUpsHaveReply == Spec => []FollowUpHasReply
<1>1. TurnInv => FollowUpHasReply
  BY DEF TurnInv, RowsInv
<1>2. QED  BY <1>1, TurnSafe, PTL

\* No step of any thread takes a complete reply back.
THEOREM CompleteRepliesStay == Spec => CompleteReplyFinal
<1>1. TurnInv /\ [Next]_vars =>
        [\A r \in Requests :
            reply[r] = "complete" => reply'[r] = "complete" \/ conv' = "deleted"]_vars
  BY TurnStep DEF ReplyKept
<1>2. QED  BY <1>1, TurnSafe, PTL DEF Spec, CompleteReplyFinal

----------------------------------------------------------------------------
(* Answers is implemented: each step is mapped.                            *)

SameAnswers == UNCHANGED <<conv, user, reply, receipt, enqueued>>

\* What an assignment to one reply of a thread in its turn amounts to.
LEMMA ReplyMoves ==
    ASSUME TurnInv, NEW r \in Requests, NEW s \in {"none", "aborted", "complete"},
           reply' = [reply EXCEPT ![r] = s], UNCHANGED <<conv, user, receipt, enqueued>>,
           reply[r] = s \/ (/\ conv = "open" /\ r \in user
                            /\ \/ reply[r] = "none" /\ s = "aborted"
                               \/ reply[r] = "aborted" /\ s = "complete")
    PROVE  SameAnswers \/ Rows!Next
<1>1. reply \in [Requests -> {"none", "aborted", "complete"}]
  BY DEF TurnInv, TurnTypes
<1>2. CASE reply[r] = s
  BY <1>1, <1>2 DEF SameAnswers
<1>3. CASE /\ conv = "open" /\ r \in user
           /\ reply[r] = "none" /\ s = "aborted"
  BY <1>3 DEF Rows!Next, Rows!Attempt, Rows!Answer
<1>4. CASE /\ conv = "open" /\ r \in user
           /\ reply[r] = "aborted" /\ s = "complete"
  BY <1>4 DEF Rows!Next, Rows!Complete, Rows!Answer
<1>5. QED  BY <1>2, <1>3, <1>4

\* The question of a turn.
LEMMA UserMoves ==
    ASSUME TurnInv, NEW t \in Turns, WriteUser(t)
    PROVE  SameAnswers \/ Rows!Next
<1>1. /\ turn[t].pc = "gate" /\ UNCHANGED <<conv, reply, receipt, enqueued>>
      /\ user' = IF conv = "open" THEN user \union {turn[t].req} ELSE user
  BY DEF WriteUser, At, Request
<1>2. turn[t].req \in Requests
  BY <1>1, InTurnOf DEF Holding
<1>3. QED  BY <1>1, <1>2 DEF SameAnswers, Rows!Next, Rows!Ask

\* Its placeholder: new, or aborted as before.
LEMMA PlaceholderMoves ==
    ASSUME TurnInv, NEW t \in Turns, Placeholder(t)
    PROVE  SameAnswers \/ Rows!Next
<1> DEFINE r == turn[t].req
<1>1. /\ turn[t].pc = "placeholder" /\ UNCHANGED <<conv, user, receipt, enqueued>>
      /\ \/ reply' = Updates(r, "aborted")
         \/ conv = "open" /\ reply' = [reply EXCEPT ![r] = "aborted"]
         \/ UNCHANGED reply
  BY DEF Placeholder, At, Request
<1>2. r \in Requests /\ TurnTypes /\ ThreadFresh(t) /\ ThreadFinds(t)
  BY <1>1, InTurnOf DEF Holding
<1>3. reply[r] \in {"none", "aborted"} /\ (conv = "open" => r \in user)
  BY <1>1, <1>2 DEF TurnTypes, ThreadFresh, ThreadFinds
<1>4. CASE reply' = Updates(r, "aborted")
  <2>1. reply' = [reply EXCEPT ![r] = reply[r]]
    BY <1>3, <1>4 DEF Updates
  <2>2. QED  BY <1>1, <1>2, <1>3, <2>1, ReplyMoves
<1>5. CASE conv = "open" /\ reply' = [reply EXCEPT ![r] = "aborted"]
  BY <1>1, <1>2, <1>3, <1>5, ReplyMoves
<1>6. CASE UNCHANGED reply
  BY <1>1, <1>6 DEF SameAnswers
<1>7. QED  BY <1>1, <1>4, <1>5, <1>6

\* The end of its stream: the placeholder becomes complete or stays.
LEMMA FinishMoves ==
    ASSUME TurnInv, NEW t \in Turns, Finish(t)
    PROVE  SameAnswers \/ Rows!Next
<1> DEFINE r == turn[t].req
           s == IF reply[r] = "none" THEN "none" ELSE Stored(turn[t].out)
<1>1. /\ turn[t].pc = "finish" /\ UNCHANGED <<conv, user, receipt, enqueued>>
      /\ reply' = [reply EXCEPT ![r] = s]
  BY DEF Finish, At, Request, Updates
<1>2. r \in Requests /\ TurnTypes /\ ThreadFresh(t)
  BY <1>1, InTurnOf DEF Holding
<1>3. reply[r] \in {"none", "aborted"} /\ s \in {"none", "aborted", "complete"}
      /\ (reply[r] = "none" => s = "none") /\ (reply[r] # "none" => s \in {"aborted", "complete"})
  BY <1>1, <1>2 DEF TurnTypes, ThreadFresh, Stored
<1>4. reply[r] # "none" => conv = "open" /\ r \in user
  BY <1>2 DEF TurnInv, RowsInv, TurnTypes
<1> HIDE DEF s
<1>5. QED  BY <1>1, <1>2, <1>3, <1>4, ReplyMoves

\* Its receipt.
LEMMA ReceiptMoves ==
    ASSUME TurnInv, NEW t \in Turns, Receipt(t)
    PROVE  SameAnswers \/ Rows!Next
<1> DEFINE r == turn[t].req
<1>1. /\ turn[t].pc = "receipt" /\ UNCHANGED <<conv, user, reply, enqueued>>
      /\ UNCHANGED receipt \/ (conv = "open" /\ receipt' = receipt \union {r})
  BY DEF Receipt, At, Request
<1>2. r \in Requests /\ ThreadFinds(t)
  BY <1>1, InTurnOf DEF Holding
<1>3. conv = "open" => reply[r] # "none"
  BY <1>1, <1>2 DEF ThreadFinds
<1>4. QED  BY <1>1, <1>2, <1>3 DEF SameAnswers, Rows!Next, Rows!Confirm

\* Each of its follow-ups.
LEMMA FollowMoves ==
    ASSUME TurnInv, NEW t \in Turns, FollowUp(t)
    PROVE  SameAnswers \/ Rows!Next
<1> DEFINE r == turn[t].req
           k == FollowUps[turn[t].next]
<1>1. /\ turn[t].pc = "follow" /\ UNCHANGED <<conv, user, reply, receipt>>
      /\ \/ enqueued' = [enqueued EXCEPT ![r][k] = IF @ < 2 THEN @ + 1 ELSE @]
         \/ UNCHANGED enqueued
  BY DEF FollowUp, At, rows, Request
<1>2. r \in Requests /\ turn[t] \in Places /\ ThreadFresh(t) /\ ThreadFinds(t)
  BY <1>1, InTurnOf DEF Holding
<1>3. k \in Kinds /\ enqueued[r][k] = 0
  <2>1. turn[t].next \in 1..3
    BY <1>2 DEF Places
  <2>2. QED  BY <1>1, <1>2, <2>1, KindsOf DEF ThreadFresh
<1>4. conv = "open" => reply[r] = "complete" /\ r \in receipt
  BY <1>1, <1>2 DEF ThreadFinds
<1>5. CASE UNCHANGED enqueued
  BY <1>1, <1>5 DEF SameAnswers
<1>6. CASE enqueued' = [enqueued EXCEPT ![r][k] = IF @ < 2 THEN @ + 1 ELSE @]
  <2>1. enqueued' = [enqueued EXCEPT ![r][k] = 1]
    BY <1>3, <1>6
  <2> HIDE DEF r, k
  <2>2. Rows!Follow(r, k)
    BY <1>1, <1>3, <1>4, <2>1 DEF Rows!Follow
  <2>3. QED  BY <1>2, <1>3, <2>2 DEF Rows!Next
<1>7. QED  BY <1>1, <1>5, <1>6

\* Whatever a turn does on its own.
LEMMA ProceedMoves ==
    ASSUME TurnInv, NEW t \in Turns, Proceed(t)
    PROVE  SameAnswers \/ Rows!Next
<1>1. CASE WriteUser(t) \/ Placeholder(t) \/ Finish(t) \/ Receipt(t) \/ FollowUp(t)
  BY <1>1, UserMoves, PlaceholderMoves, FinishMoves, ReceiptMoves, FollowMoves
<1>2. CASE AtGate(t) \/ Busy(t) \/ FreeSlot(t) \/ Unlock(t)
  BY <1>2 DEF AtGate, Busy, FreeSlot, Unlock, turnVars, rows, SameAnswers
<1>3. CASE Resolve(t) \/ Prepare(t) \/ \E out \in {"complete", "error", "aborted"} : Stream(t, out)
  BY <1>3 DEF Resolve, Prepare, Stream, rows, SameAnswers
<1>4. QED  BY <1>1, <1>2, <1>3 DEF Proceed

\* Every step is a step of Answers or leaves its rows alone.
LEMMA AnswersStep == TurnInv /\ [Next]_vars => SameAnswers \/ Rows!Next
<1> SUFFICES ASSUME TurnInv, [Next]_vars PROVE SameAnswers \/ Rows!Next
  OBVIOUS
<1>0. Importer \in Turns /\ Batch \in Requests
  BY ConversationTurnAssumption, ChatImportAssumption
<1>1. CASE WorkerStep
  <2>1. CASE StartWorker \/ ReadBatch \/ LookUploads \/ PrepareFails
             \/ \E view \in FileViews : LookFiles(view)
    BY <2>1 DEF StartWorker, ReadBatch, LookUploads, PrepareFails, LookFiles, turnVars,
                SameAnswers
  <2>2. CASE StartTurn \/ ErrorEvent \/ TurnOver
    BY <2>2 DEF StartTurn, Begin, ErrorEvent, Report, TurnOver, rows, SameAnswers
  <2>3. CASE InTurn
    BY <1>0, <2>3, ProceedMoves DEF InTurn
  <2>4. QED  BY <1>1, <2>1, <2>2, <2>3 DEF WorkerStep
<1>2. CASE \E t \in Threads : ThreadStep(t) \/ Submit(t) \/ (Leave(t) /\ UNCHANGED importVars)
  <2>1. PICK t \in Turns : ThreadStep(t) \/ Submit(t) \/ Leave(t)
    BY <1>2 DEF Threads
  <2>2. CASE Proceed(t)
    BY <2>2, ProceedMoves
  <2>3. CASE Report(t) \/ Submit(t) \/ Leave(t)
    BY <2>3 DEF Report, Submit, Begin, Leave, LeaveEarly, LeaveFollow, rows, SameAnswers
  <2>4. QED  BY <2>1, <2>2, <2>3 DEF ThreadStep
<1>3. CASE \/ \E t \in Turns : Deadline(t) /\ UNCHANGED importVars
           \/ \E c \in Callers : Up /\ OtherCall(c) /\ UNCHANGED importVars
           \/ \E p \in Routes : RouteWrite(p) \/ \E kind \in RouteKinds : RouteRead(p, kind)
  BY <1>3 DEF Deadline, OtherCall, RouteWrite, RouteRead, turnVars, SameAnswers
<1>4. CASE CreateImport
  BY <1>0, <1>4 DEF CreateImport, Rows!Next, Rows!Ask
<1>5. CASE Delete
  BY <1>5 DEF Delete, DeleteConversation, Rows!Next, Rows!Delete
<1>6. CASE Crash
  BY <1>6 DEF Crash, TurnCrash, rows, SameAnswers
<1>7. CASE UNCHANGED vars
  BY <1>7 DEF vars, turnVars, SameAnswers
<1>8. QED  BY <1>1, <1>2, <1>3, <1>4, <1>5, <1>6, <1>7 DEF Next

\* The conversation implements Answers: whatever turns, imports, deletions and
\* crashes interleave, its rows change by the moves of one answer at a time.
THEOREM AnswersImplemented == Spec => AnswersKept
<1>1. Init => Rows!Init
  BY DEF Init, TurnInit, Rows!Init
<1>2. TurnInv /\ [Next]_vars => [Rows!Next]_(Rows!vars)
  BY AnswersStep DEF SameAnswers, Rows!vars
<1>3. QED  BY <1>1, <1>2, TurnSafe, PTL DEF Spec, AnswersKept, Rows!Spec

----------------------------------------------------------------------------
(* The batch.                                                              *)

\* After an error event the batch was marked failed, and only the worker,
\* which is in the turn, would mark it replying again.
Reported(t) == turn[t].pc \in {"free", "unlock", "ended"} /\ turn[t].out = "error"

BatchInv ==
    /\ ReplyingHasWorker
    /\ BatchCompleteHasReply
    /\ conv = "deleted" => batch = "absent"
    /\ worker = "turn" => turn[Importer].req = Batch
    /\ worker = "turn" /\ Reported(Importer) => batch # "replying"
    /\ route \in [Routes -> {"idle", "uploading", "queued", "paused"}]

\* The worker's turn stays with its request, and ends in an error only after
\* the error event.
LEMMA ImporterMoves ==
    ASSUME TurnInv, NEW t \in Turns, Proceed(t), t = Importer
    PROVE  turn'[t].req = turn[t].req /\ (Reported(t)' => Reported(t))
<1>1. turn[t] \in Places /\ TurnTypes
  BY DEF TurnInv, TurnTypes
<1>2. ASSUME NEW p \in PCs, NEW out \in Outs \ {"error"}, Goes(t, p, out)
      PROVE  turn'[t].req = turn[t].req /\ ~ Reported(t)'
  BY <1>1, <1>2, GoesTo DEF Reported
<1>3. ASSUME NEW p \in {"gate", "placeholder", "receipt", "follow", "report"}, Go(t, p)
      PROVE  turn'[t].req = turn[t].req /\ ~ Reported(t)'
  <2>1. p \in PCs
    BY DEF PCs, Holding
  <2>2. QED  BY <1>1, <1>3, <2>1, GoTo DEF Reported
<1>4. "unlock" \in PCs /\ "free" \in PCs /\ "stream" \in PCs /\ "finish" \in PCs /\ "ended" \in PCs
  BY DEF PCs, Holding
<1>5. {"none", "raised", "busy", "complete", "aborted"} \subseteq Outs \ {"error"}
  BY DEF Outs, Ends
<1>6. CASE AtGate(t)
  BY <1>6 DEF AtGate, turnVars, Reported
<1>7. CASE Resolve(t)
  <2>1. CASE Goes(t, "unlock", "complete") \/ Goes(t, "unlock", "raised")
    BY <1>2, <1>4, <1>5, <2>1
  <2>2. CASE turn' = [turn EXCEPT ![t].pc = "prepare", ![t].known = Request(t) \in user,
                                  ![t].had = reply[Request(t)] # "none"]
    <3>1. turn'[t].pc = "prepare" /\ turn'[t].req = turn[t].req
      BY <1>1, <2>2 DEF TurnTypes, Places
    <3>2. QED  BY <3>1 DEF Reported
  <2>3. QED  BY <1>7, <2>1, <2>2 DEF Resolve
<1>8. CASE Prepare(t) \/ Busy(t) \/ WriteUser(t)
  <2>1. \/ Go(t, "gate") \/ Goes(t, "unlock", "raised") \/ Goes(t, "unlock", "busy")
        \/ Go(t, "placeholder") \/ Goes(t, "free", "raised")
    BY <1>8 DEF Prepare, Busy, WriteUser
  <2>2. QED  BY <1>2, <1>3, <1>4, <1>5, <2>1
<1>9. CASE Placeholder(t) \/ Finish(t)
  <2>1. Goes(t, "stream", "none") \/ Goes(t, "free", "raised") \/ Go(t, "receipt")
    BY <1>9 DEF Placeholder, Finish
  <2>2. QED  BY <1>2, <1>3, <1>4, <1>5, <2>1
<1>10. CASE \E out \in {"complete", "error", "aborted"} : Stream(t, out)
  <2>1. PICK out \in Outs : Goes(t, "finish", out)
    BY <1>10 DEF Stream, Outs, Ends
  <2>2. turn'[t].pc = "finish" /\ turn'[t].req = turn[t].req
    BY <1>1, <1>4, <2>1, GoesTo
  <2>3. QED  BY <2>2 DEF Reported
<1>11. CASE Receipt(t)
  <2>1. CASE Goes(t, "free", "raised")
    BY <1>2, <1>4, <1>5, <2>1
  <2>2. CASE Go(t, AfterReceipt(turn[t].out)) /\ turn[t].pc = "receipt"
    <3>1. turn[t].out \in Ends
      BY <2>2 DEF TurnInv, ThreadInv, ThreadOwns
    <3>2. \/ Go(t, "follow") \/ Go(t, "report")
          \/ Go(t, "free") /\ turn[t].out = "aborted"
      BY <2>2, <3>1 DEF AfterReceipt, Ends
    <3>3. CASE Go(t, "free") /\ turn[t].out = "aborted"
      BY <1>1, <1>4, <3>3, GoTo DEF Reported
    <3>4. QED  BY <1>3, <3>2, <3>3
  <2>3. QED  BY <1>11, <2>1, <2>2 DEF Receipt, At
<1>12. CASE FollowUp(t)
  <2>1. CASE Goes(t, "free", "complete")
    BY <1>2, <1>4, <1>5, <2>1
  <2>2. CASE turn' = [turn EXCEPT ![t].next = @ + 1] /\ turn[t].pc = "follow"
    <3>1. turn'[t].pc = "follow" /\ turn'[t].req = turn[t].req
      BY <1>1, <2>2 DEF TurnTypes, Places
    <3>2. QED  BY <3>1 DEF Reported
  <2>3. QED  BY <1>12, <2>1, <2>2 DEF FollowUp, At
<1>13. CASE FreeSlot(t) \/ Unlock(t)
  <2>1. /\ turn[t].pc \in {"free", "unlock"}
        /\ Go(t, "unlock") \/ Go(t, "ended")
    BY <1>13 DEF FreeSlot, Unlock, At
  <2>2. turn'[t].out = turn[t].out /\ turn'[t].req = turn[t].req
    BY <1>1, <1>4, <2>1, GoTo
  <2>3. QED  BY <2>1, <2>2 DEF Reported
<1>14. QED
  BY <1>6, <1>7, <1>8, <1>9, <1>10, <1>11, <1>12, <1>13 DEF Proceed

\* What the other conjuncts need when a step leaves the worker's turn alone
\* and moves the batch to one of the plain states, or not at all.
LEMMA PlainStep ==
    ASSUME BatchInv, UNCHANGED <<conv, reply, turn>>, worker' = worker \/ worker' # "turn",
           batch' = batch \/ batch' \notin {"replying", "complete"},
           batch = "absent" => batch' = "absent",
           batch' = "replying" => worker' \in {"prepare", "turn", "down"},
           route' \in [Routes -> {"idle", "uploading", "queued", "paused"}]
    PROVE  BatchInv'
BY DEF BatchInv, ReplyingHasWorker, BatchCompleteHasReply, Reported

\* The worker's steps between two turns.
LEMMA WorkerTurns ==
    ASSUME BatchInv, UNCHANGED turnVars,
           StartWorker \/ ReadBatch \/ LookUploads \/ PrepareFails
           \/ \E view \in FileViews : LookFiles(view)
    PROVE  BatchInv'
<1>1. UNCHANGED <<conv, reply, turn>>
  BY DEF turnVars
<1>2. CASE StartWorker
  <2>1. batch' = Recovered /\ worker' = "poll" /\ UNCHANGED route
    BY <1>2 DEF StartWorker
  <2>2. /\ batch' # "replying"
        /\ batch' = "complete" => reply[Batch] = "complete"
        /\ batch = "absent" => batch' = "absent"
    BY <2>1 DEF Recovered, BatchInv, BatchCompleteHasReply
  <2>3. QED
    BY <1>1, <2>1, <2>2 DEF BatchInv, ReplyingHasWorker, BatchCompleteHasReply
<1>3. CASE ReadBatch
  <2>1. batch' = batch /\ batch # "replying" /\ worker' # "turn" /\ UNCHANGED route
    BY <1>3 DEF ReadBatch
  <2>2. QED  BY <1>1, <2>1, PlainStep DEF BatchInv
<1>4. CASE LookUploads
  <2>1. /\ SetBatch("queued") \/ SetBatch("paused") \/ UNCHANGED batch
        /\ worker = "uploads" /\ worker' \in {"files", "poll"} /\ UNCHANGED route
    BY <1>4 DEF LookUploads
  <2>2. batch # "replying"
    BY <2>1 DEF BatchInv, ReplyingHasWorker
  <2>3. batch' = batch \/ batch' \in {"queued", "paused"}
    BY <2>1 DEF SetBatch
  <2>4. batch = "absent" => batch' = "absent"
    BY <2>1 DEF SetBatch
  <2>5. QED  BY <1>1, <2>1, <2>2, <2>3, <2>4, PlainStep DEF BatchInv
<1>5. CASE PrepareFails
  <2>1. PICK s \in {"consent", "rag_consent", "failed", "queued"} : SetBatch(s)
    BY <1>5 DEF PrepareFails, RaisedStates
  <2>2. worker = "prepare" /\ worker' = "poll" /\ UNCHANGED route
    BY <1>5 DEF PrepareFails
  <2>3. (batch' = batch /\ batch = "absent") \/ batch' = s
    BY <2>1 DEF SetBatch
  <2>4. batch = "absent" => batch' = "absent"
    BY <2>1 DEF SetBatch
  <2>5. batch' \notin {"replying", "complete"}
    BY <2>1, <2>3
  <2>6. QED  BY <1>1, <2>2, <2>4, <2>5, PlainStep DEF BatchInv
<1>6. CASE \E view \in FileViews : LookFiles(view)
  <2>1. PICK view \in FileViews : LookFiles(view)
    BY <1>6
  <2>2. /\ batch' = batch \/ batch' = Looked(view)
        /\ batch = "absent" => batch' = "absent"
        /\ worker = "files"
        /\ worker' = IF view = "ready" THEN "prepare" ELSE "poll"
        /\ UNCHANGED route
    BY <2>1 DEF LookFiles, SetBatch
  <2>3. /\ Looked(view) # "complete"
        /\ Looked(view) = "replying" => view = "ready"
    BY DEF Looked, FileViews
  <2>4. batch # "replying"
    BY <2>2 DEF BatchInv, ReplyingHasWorker
  <2>5. QED
    BY <1>1, <2>2, <2>3, <2>4 DEF BatchInv, ReplyingHasWorker, BatchCompleteHasReply
<1>7. QED  BY <1>2, <1>3, <1>4, <1>5, <1>6

\* The worker in a turn.
LEMMA WorkerReplies ==
    ASSUME TurnInv, TurnInv', ReplyKept, BatchInv, StartTurn \/ InTurn \/ ErrorEvent \/ TurnOver
    PROVE  BatchInv'
<1>0. Importer \in Turns /\ Batch \in Requests
  BY ConversationTurnAssumption, ChatImportAssumption
<1>1. CASE StartTurn
  <2>1. /\ turn' = [turn EXCEPT ![Importer] =
                       [IdleTurn EXCEPT !.pc = "resolve", !.req = Batch]]
        /\ worker' = "turn" /\ UNCHANGED <<conv, reply, batch, route>>
    BY <1>1 DEF StartTurn, Begin, rows
  <2>2. turn'[Importer].pc = "resolve" /\ turn'[Importer].req = Batch
    <3>1. turn'[Importer] = [IdleTurn EXCEPT !.pc = "resolve", !.req = Batch]
      BY <1>0, <2>1 DEF TurnInv, TurnTypes
    <3>2. QED  BY <3>1, Idle DEF Places
  <2>3. QED
    BY <2>1, <2>2 DEF BatchInv, ReplyingHasWorker, BatchCompleteHasReply, Reported
<1>2. CASE InTurn
  <2>1. worker = "turn" /\ Proceed(Importer) /\ UNCHANGED <<batch, worker, route>>
    BY <1>2 DEF InTurn, importVars
  <2>2. conv' = conv
    BY <2>1 DEF Proceed, Resolve, Prepare, AtGate, Busy, WriteUser, Placeholder, Stream,
       Finish, Receipt, FollowUp, FreeSlot, Unlock, turnVars
  <2>3. turn'[Importer].req = turn[Importer].req /\ (Reported(Importer)' => Reported(Importer))
    BY <1>0, <2>1, ImporterMoves
  <2>4. batch = "complete" => reply'[Batch] = "complete"
    <3>1. batch = "complete" => conv' # "deleted" /\ reply[Batch] = "complete"
      BY <2>2 DEF BatchInv, BatchCompleteHasReply
    <3>2. QED  BY <1>0, <3>1 DEF ReplyKept
  <2>5. QED
    BY <2>1, <2>2, <2>3, <2>4 DEF BatchInv, ReplyingHasWorker, BatchCompleteHasReply
<1>3. CASE ErrorEvent
  <2>1. /\ worker = "turn" /\ Report(Importer) /\ SetBatch("failed")
        /\ UNCHANGED <<conv, reply, worker, route>>
    BY <1>3 DEF ErrorEvent, Report, rows
  <2>2. turn'[Importer].req = turn[Importer].req
    BY <1>0, <2>1, GoTo DEF Report, PCs, Holding, TurnInv
  <2>3. batch' \in {"absent", "failed"} /\ (batch = "absent" => batch' = "absent")
    BY <2>1 DEF SetBatch
  <2>4. QED
    BY <2>1, <2>2, <2>3 DEF BatchInv, ReplyingHasWorker, BatchCompleteHasReply
<1>4. CASE TurnOver
  <2>1. PICK s \in Concludes(turn[Importer].out) : SetBatch(s)
    BY <1>4 DEF TurnOver
  <2>2. /\ worker = "turn" /\ worker' = "poll" /\ turn[Importer].pc = "ended"
        /\ UNCHANGED <<conv, reply, route>>
    BY <1>4 DEF TurnOver, rows
  <2>3. turn[Importer].req = Batch
    BY <2>2 DEF BatchInv
  <2>4. conv = "open" /\ turn[Importer].out = "complete" => reply[Batch] = "complete"
    BY <1>0, <2>2, <2>3 DEF TurnInv, ThreadInv, ThreadFinds
  <2>5. turn[Importer].out = "error" => batch # "replying"
    BY <2>2 DEF BatchInv, Reported
  <2>6. conv \in {"open", "deleted"} /\ (conv = "deleted" => batch = "absent")
    BY DEF TurnInv, TurnTypes, BatchInv
  <2>7. (batch = "absent" /\ batch' = batch) \/ (batch # "absent" /\ batch' = s)
    BY <2>1 DEF SetBatch
  <2>8. \/ turn[Importer].out = "complete" /\ s = "complete"
        \/ s \in {"queued", "failed", "consent", "rag_consent"}
        \/ turn[Importer].out = "error" /\ s = batch
        \/ turn[Importer].out \in {"none"}
    <3>1. turn[Importer].out \in Outs
      BY <1>0 DEF TurnInv, TurnTypes, Places
    <3>2. QED  BY <2>1, <3>1 DEF Concludes, RaisedStates, Outs, Ends
  <2>9. turn[Importer].out # "none"
    BY <1>0, <2>2 DEF TurnInv, ThreadInv, ThreadOwns
  <2>10. QED
    BY <2>2, <2>4, <2>5, <2>6, <2>7, <2>8, <2>9
       DEF BatchInv, ReplyingHasWorker, BatchCompleteHasReply
<1>5. QED  BY <1>1, <1>2, <1>3, <1>4

\* Every step keeps what holds of the batch.
LEMMA BatchStep ==
    TurnInv /\ TurnInv' /\ BatchInv /\ [Next]_vars => BatchInv'
<1> SUFFICES ASSUME TurnInv, TurnInv', BatchInv, [Next]_vars PROVE BatchInv'
  OBVIOUS
<1>0. Importer \in Turns /\ Batch \in Requests /\ ReplyKept
  BY ConversationTurnAssumption, ChatImportAssumption, TurnStep
<1>1. CASE WorkerStep
  <2>1. CASE StartTurn \/ InTurn \/ ErrorEvent \/ TurnOver
    BY <1>0, <2>1, WorkerReplies
  <2>2. CASE StartWorker \/ ReadBatch \/ LookUploads \/ PrepareFails
             \/ \E view \in FileViews : LookFiles(view)
    <3>1. UNCHANGED turnVars
      BY <2>2 DEF StartWorker, ReadBatch, LookUploads, PrepareFails, LookFiles
    <3>2. QED  BY <2>2, <3>1, WorkerTurns
  <2>3. QED  BY <1>1, <2>1, <2>2 DEF WorkerStep
<1>2. CASE \E t \in Threads : ThreadStep(t) \/ Submit(t) \/ (Leave(t) /\ UNCHANGED importVars)
  <2>1. PICK t \in Turns \ {Importer} :
            ThreadStep(t) \/ Submit(t) \/ (Leave(t) /\ UNCHANGED importVars)
    BY <1>2 DEF Threads
  <2>2. UNCHANGED <<batch, worker, route>>
    BY <2>1 DEF ThreadStep, Submit, importVars
  <2>3. conv' = conv
    BY <2>1 DEF ThreadStep, Submit, Leave, LeaveEarly, LeaveFollow, Report, Begin,
       Proceed, Resolve, Prepare, AtGate, Busy, WriteUser, Placeholder, Stream,
       Finish, Receipt, FollowUp, FreeSlot, Unlock, turnVars
  <2>4. turn'[Importer] = turn[Importer]
    <3>1. turn \in [Turns -> Places]
      BY DEF TurnInv, TurnTypes
    <3>2. UNCHANGED turn \/ \E place : turn' = [turn EXCEPT ![t] = place]
      BY <2>1 DEF ThreadStep, Submit, Leave, LeaveEarly, LeaveFollow, Report, Begin,
         Proceed, Resolve, Prepare, AtGate, Busy, WriteUser, Placeholder, Stream,
         Finish, Receipt, FollowUp, FreeSlot, Unlock, turnVars, Go, Goes
    <3>3. QED  BY <1>0, <2>1, <3>1, <3>2
  <2>5. batch = "complete" => reply'[Batch] = "complete"
    <3>1. batch = "complete" => conv' # "deleted" /\ reply[Batch] = "complete"
      BY <2>3 DEF BatchInv, BatchCompleteHasReply
    <3>2. QED  BY <1>0, <3>1 DEF ReplyKept
  <2>6. QED
    BY <2>2, <2>3, <2>4, <2>5 DEF BatchInv, ReplyingHasWorker, BatchCompleteHasReply, Reported
<1>3. CASE UNCHANGED <<conv, reply, turn, batch, worker, route>>
  BY <1>3, PlainStep DEF BatchInv, ReplyingHasWorker
<1>4. CASE \/ \E t \in Turns : Deadline(t) /\ UNCHANGED importVars
           \/ \E c \in Callers : Up /\ OtherCall(c) /\ UNCHANGED importVars
           \/ UNCHANGED vars
  <2>1. UNCHANGED <<conv, reply, turn, batch, worker, route>>
    BY <1>4 DEF Deadline, OtherCall, turnVars, importVars, vars
  <2>2. QED  BY <1>3, <2>1
<1>5. CASE \E p \in Routes : RouteWrite(p) \/ \E kind \in RouteKinds : RouteRead(p, kind)
  <2>1. PICK p \in Routes : RouteWrite(p) \/ \E kind \in RouteKinds : RouteRead(p, kind)
    BY <1>5
  <2>2. CASE RouteWrite(p)
    <3>1. /\ UNCHANGED <<conv, reply, turn>> /\ worker' = worker
          /\ route[p] # "idle" /\ SetBatch(route[p])
          /\ route' = [route EXCEPT ![p] = "idle"]
      BY <2>2 DEF RouteWrite, turnVars
    <3>2. batch' = batch \/ batch' \in {"uploading", "queued", "paused"}
      BY <3>1 DEF SetBatch, BatchInv
    <3>3. batch = "absent" => batch' = "absent"
      BY <3>1 DEF SetBatch
    <3>4. route' \in [Routes -> {"idle", "uploading", "queued", "paused"}]
      BY <3>1 DEF BatchInv
    <3>5. QED  BY <3>1, <3>2, <3>3, <3>4, PlainStep DEF BatchInv, ReplyingHasWorker
  <2>3. CASE \E kind \in RouteKinds : RouteRead(p, kind)
    <3>1. PICK kind \in RouteKinds : \E s \in Writes(kind) : route' = [route EXCEPT ![p] = s]
      BY <2>3 DEF RouteRead
    <3>2. UNCHANGED <<conv, reply, turn, batch, worker>>
      BY <2>3 DEF RouteRead, turnVars
    <3>3. Writes(kind) \subseteq {"uploading", "queued", "paused"}
      BY DEF Writes, RouteKinds
    <3>4. route' \in [Routes -> {"idle", "uploading", "queued", "paused"}]
      BY <3>1, <3>3 DEF BatchInv
    <3>5. QED  BY <3>2, <3>4, PlainStep DEF BatchInv, ReplyingHasWorker
  <2>4. QED  BY <2>1, <2>2, <2>3
<1>6. CASE CreateImport
  <2>1. /\ conv = "open" /\ batch' = "uploading"
        /\ UNCHANGED <<conv, reply, turn, worker, route>>
    BY <1>6 DEF CreateImport
  <2>2. QED
    BY <2>1 DEF BatchInv, ReplyingHasWorker, BatchCompleteHasReply, Reported
<1>7. CASE Delete
  BY <1>7 DEF Delete, DeleteConversation, BatchInv, ReplyingHasWorker, BatchCompleteHasReply,
     Reported
<1>8. CASE Crash
  <2>1. /\ worker' = "down" /\ UNCHANGED <<conv, reply, batch>>
        /\ route' = [p \in Routes |-> "idle"]
    BY <1>8 DEF Crash, TurnCrash, rows
  <2>2. QED  BY <2>1 DEF BatchInv, ReplyingHasWorker, BatchCompleteHasReply
<1>9. QED  BY <1>1, <1>2, <1>4, <1>5, <1>6, <1>7, <1>8 DEF Next

\* The invariant of the batch.
LEMMA BatchSafe == Spec => []BatchInv
<1>1. Init => BatchInv
  BY DEF Init, TurnInit, BatchInv, ReplyingHasWorker, BatchCompleteHasReply
<1>2. TurnInv /\ BatchInv /\ TurnInv' /\ [Next]_vars => BatchInv'
  BY BatchStep
<1>3. QED  BY <1>1, <1>2, TurnSafe, PTL DEF Spec

\* A batch that shows "replying" is in the hands of the worker, or the
\* server is down (chat_imports.py, process_batch and recover).
THEOREM RepliesInHand == Spec => []ReplyingHasWorker
<1>1. BatchInv => ReplyingHasWorker
  BY DEF BatchInv
<1>2. QED  BY <1>1, BatchSafe, PTL

\* A complete batch has its complete reply, through every race of routes,
\* worker, deletion and recovery.
THEOREM CompleteBatches == Spec => []BatchCompleteHasReply
<1>1. BatchInv => BatchCompleteHasReply
  BY DEF BatchInv
<1>2. QED  BY <1>1, BatchSafe, PTL

\* A deleted conversation keeps no rows and no batch.
THEOREM NothingOrphaned == Spec => []NoOrphanRows
<1>1. TurnInv /\ BatchInv => NoOrphanRows
  BY DEF TurnInv, RowsInv, BatchInv, NoOrphanRows
<1>2. QED  BY <1>1, TurnSafe, BatchSafe, PTL

=============================================================================
