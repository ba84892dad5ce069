--------------------------- MODULE PpprHostProofs ---------------------------
(***************************************************************************)
(* Proofs about PpprHost for every set of sessions and every bound.        *)
(*                                                                         *)
(* An effect can be performed again only while its request is pending in   *)
(* the state the next call will work on.  The inductive invariant says how *)
(* often it has been performed by then: no more than states were given up. *)
(***************************************************************************)
EXTENDS PpprHost, WellFoundedInduction, TLAPS

\* What every state a session has, in memory or saved, satisfies while n is
\* the last id handed out.
GoodState(s, st, n) ==
  /\ st.state = "awaiting_effect" => st.pending # {}
  /\ PendingIds(st) \cap FulfilledIds(st) = {}
  /\ st.session = s
  /\ \A q \in st.pending : q.session = s /\ q.id <= n
  /\ \A i \in DOMAIN st.fulfilled : st.fulfilled[i].request <= n

(* A state that is good stays good when later requests raise the last id.  *)
LEMMA GoodStateMonotone ==
  ASSUME NEW s \in Sessions, NEW st \in RuntimeState,
         NEW n \in Nat, NEW m \in Nat, GoodState(s, st, n), n <= m
  PROVE  GoodState(s, st, m)
<1>1. \A q \in st.pending : q.id \in Nat
  BY DEF RuntimeState, Request
<1>2. \A i \in DOMAIN st.fulfilled : st.fulfilled[i].request \in Nat
  <2>1. st.fulfilled \in Seq(Fulfillment)
    BY DEF RuntimeState
  <2>2. \A i \in DOMAIN st.fulfilled : st.fulfilled[i] \in Fulfillment
    BY <2>1
  <2>. QED
    BY <2>2 DEF Fulfillment
<1>. QED
  BY <1>1, <1>2 DEF GoodState, PendingIds, FulfilledIds

(* Appending a fulfillment record adds exactly its id to the settled ids.  *)
LEMMA FulfilledAppend ==
  ASSUME NEW seq \in Seq(Fulfillment), NEW f \in Fulfillment
  PROVE  {Append(seq, f)[i].request : i \in DOMAIN Append(seq, f)}
           = {seq[i].request : i \in DOMAIN seq} \cup {f.request}
<1>1. /\ DOMAIN Append(seq, f) = 1 .. Len(seq) + 1
      /\ DOMAIN seq = 1 .. Len(seq)
      /\ Len(seq) \in Nat
      /\ \A i \in 1 .. Len(seq) : Append(seq, f)[i] = seq[i]
      /\ Append(seq, f)[Len(seq) + 1] = f
  OBVIOUS
<1>2. 1 .. Len(seq) + 1 = (1 .. Len(seq)) \cup {Len(seq) + 1}
  BY <1>1
<1>. QED
  BY <1>1, <1>2

(***************************************************************************)
(* One lemma per transition function: it returns a runtime state, and a    *)
(* good one when it is given a good one.                                   *)
(***************************************************************************)
(* A seeded session is idle, waits for nothing and has no records.         *)
LEMMA CreateGood ==
  ASSUME NEW s \in Sessions, NEW n \in Nat
  PROVE  /\ createPpprRuntimeState(s) \in RuntimeState
         /\ GoodState(s, createPpprRuntimeState(s), n)
  BY DEF createPpprRuntimeState, RuntimeState, GoodState, PendingIds, FulfilledIds,
         Lifecycle, NoRun

(* What session.start builds, field by field (runtime.ts 98-127).          *)
LEMMA StartState ==
  ASSUME NEW s \in Sessions, NEW fresh \in Nat
  PROVE  applyPpprSessionStart(s, fresh).state
           = [session |-> s, state |-> "running", runId |-> fresh, pending |-> {},
              fulfilled |-> <<>>, conversation |-> <<>>]
  BY DEF applyPpprSessionStart, createPpprRuntimeState, ensureRunId, Transition, NoRun

(* A started session is good: it has nothing pending and no records.       *)
LEMMA StartGood ==
  ASSUME NEW s \in Sessions, NEW n \in Nat, NEW fresh \in Nat
  PROVE  /\ applyPpprSessionStart(s, fresh).state \in RuntimeState
         /\ GoodState(s, applyPpprSessionStart(s, fresh).state, n)
<1>. DEFINE new == [session |-> s, state |-> "running", runId |-> fresh, pending |-> {},
                    fulfilled |-> <<>>, conversation |-> <<>>]
<1>1. new \in RuntimeState
  BY DEF RuntimeState, Lifecycle
<1>2. GoodState(s, new, n)
  BY DEF GoodState, PendingIds, FulfilledIds
<1>. QED
  BY <1>1, <1>2, StartState

(* A prompt touches neither pending effects nor records (runtime.ts        *)
(* 144-175).                                                               *)
LEMMA PromptGood ==
  ASSUME NEW s \in Sessions, NEW st \in RuntimeState, NEW n \in Nat, GoodState(s, st, n), NEW fresh \in Nat
  PROVE  /\ appendPpprUserMessage(st, fresh).state \in RuntimeState
         /\ GoodState(s, appendPpprUserMessage(st, fresh).state, n)
<1>. DEFINE new == appendPpprUserMessage(st, fresh).state
<1>0. Append(st.conversation, "user") \in Seq({"user", "assistant"})
  BY DEF RuntimeState
<1>1. /\ new \in RuntimeState
      /\ new.session = st.session /\ new.pending = st.pending
      /\ new.fulfilled = st.fulfilled
      /\ new.state = "running"
  BY <1>0 DEF appendPpprUserMessage, Transition, RuntimeState, Lifecycle
<1>. QED
  BY <1>1 DEF GoodState, PendingIds, FulfilledIds

(* Cancelling stops the session and keeps what is pending (runtime.ts      *)
(* 252-268).                                                               *)
LEMMA CancelGood ==
  ASSUME NEW s \in Sessions, NEW st \in RuntimeState, NEW n \in Nat, GoodState(s, st, n), NEW fresh \in Nat
  PROVE  /\ cancelPpprRuntime(st, fresh).state \in RuntimeState
         /\ GoodState(s, cancelPpprRuntime(st, fresh).state, n)
<1>. DEFINE new == cancelPpprRuntime(st, fresh).state
<1>1. /\ new \in RuntimeState
      /\ new.session = st.session /\ new.pending = st.pending
      /\ new.fulfilled = st.fulfilled
      /\ new.state = "stopped"
  BY DEF cancelPpprRuntime, ensureRunId, Transition, RuntimeState, Lifecycle
<1>. QED
  BY <1>1 DEF GoodState, PendingIds, FulfilledIds

(* A result of a request already handed out moves its id from pending to   *)
(* fulfilled, and the session out of awaiting_effect (runtime.ts 213-250). *)
LEMMA ResultGood ==
  ASSUME NEW s \in Sessions, NEW st \in RuntimeState, NEW n \in Nat, GoodState(s, st, n), NEW fresh \in Nat,
         NEW id \in Nat, NEW outcome \in Outcomes, id <= n
  PROVE  /\ ingestPpprEffectResult(st, id, outcome, fresh).state \in RuntimeState
         /\ GoodState(s, ingestPpprEffectResult(st, id, outcome, fresh).state, n)
<1>. DEFINE f   == [request |-> id, outcome |-> outcome]
            new == ingestPpprEffectResult(st, id, outcome, fresh).state
<1>1. f \in Fulfillment /\ st.fulfilled \in Seq(Fulfillment)
  BY DEF Fulfillment, RuntimeState
<1>2. /\ new.session = st.session
      /\ new.state \in {"running", "failed"}
      /\ new.pending = {q \in st.pending : q.id # id}
      /\ new.fulfilled = Append(st.fulfilled, f)
  BY DEF ingestPpprEffectResult, Transition, RuntimeState
<1>3. new \in RuntimeState
  <2>1. Append(st.fulfilled, f) \in Seq(Fulfillment)
    BY <1>1
  <2>. QED
    BY <2>1 DEF ingestPpprEffectResult, ensureRunId, Transition, RuntimeState, Lifecycle
<1>4. FulfilledIds(new) = FulfilledIds(st) \cup {id}
  <2>1. FulfilledIds(new)
          = {Append(st.fulfilled, f)[i].request : i \in DOMAIN Append(st.fulfilled, f)}
    BY <1>2 DEF FulfilledIds
  <2>2. f.request = id
    OBVIOUS
  <2>. HIDE DEF f, new
  <2>3. {Append(st.fulfilled, f)[i].request : i \in DOMAIN Append(st.fulfilled, f)}
          = {st.fulfilled[i].request : i \in DOMAIN st.fulfilled} \cup {f.request}
    BY <1>1, FulfilledAppend
  <2>. QED
    BY <2>1, <2>2, <2>3 DEF FulfilledIds
<1>5. PendingIds(new) = PendingIds(st) \ {id}
  BY <1>2 DEF PendingIds
<1>6. \A i \in DOMAIN new.fulfilled : new.fulfilled[i].request <= n
  <2>1. \A k \in FulfilledIds(st) : k <= n
    BY DEF GoodState, FulfilledIds
  <2>2. \A k \in FulfilledIds(new) : k <= n
    BY <2>1, <1>4
  <2>. QED
    BY <2>2 DEF FulfilledIds
<1>. QED
  BY <1>2, <1>3, <1>4, <1>5, <1>6 DEF GoodState

(* A request whose id is above every id handed out leaves the state good   *)
(* once that id counts as handed out.                                      *)
LEMMA RequestGood ==
  ASSUME NEW s \in Sessions, NEW st \in RuntimeState, NEW n \in Nat, GoodState(s, st, n),
         NEW q \in Request, q.id = n + 1, q.session = s
  PROVE  /\ requestPpprEffect(st, q).state \in RuntimeState
         /\ GoodState(s, requestPpprEffect(st, q).state, n + 1)
<1>. DEFINE new == requestPpprEffect(st, q).state
<1>1. /\ new \in RuntimeState
      /\ new.session = st.session
      /\ new.pending = st.pending \cup {q}
      /\ new.fulfilled = st.fulfilled
  BY DEF requestPpprEffect, Transition, RuntimeState, Lifecycle
<1>2. GoodState(s, st, n + 1)
  BY GoodStateMonotone
<1>3. PendingIds(new) = PendingIds(st) \cup {n + 1}
  BY <1>1 DEF PendingIds
<1>4. n + 1 \notin FulfilledIds(st)
  <2>1. \A i \in DOMAIN st.fulfilled : st.fulfilled[i] \in Fulfillment
    <3>1. st.fulfilled \in Seq(Fulfillment)
      BY DEF RuntimeState
    <3>. QED
      BY <3>1
  <2>2. \A i \in DOMAIN st.fulfilled : st.fulfilled[i].request \in Nat
    BY <2>1 DEF Fulfillment
  <2>. QED
    BY <2>2 DEF GoodState, FulfilledIds
<1>. HIDE DEF new
<1>5. FulfilledIds(new) = FulfilledIds(st)
  BY <1>1 DEF FulfilledIds
<1>6. GoodState(s, new, n + 1)
  BY <1>1, <1>2, <1>3, <1>4, <1>5 DEF GoodState
<1>. QED
  BY <1>1, <1>6 DEF new
-----------------------------------------------------------------------------
Typed ==
  /\ held \in RuntimeState \cup {NoState}
  /\ persisted \in RuntimeState \cup {NoState}
  /\ current \in RuntimeState \cup {NoState}
  /\ phase \in {"caller", "loop", "fulfilling"}
  /\ phase = "caller" <=> current = NoState
  /\ rounds \in 0 .. MaxEffectRounds
  /\ nextId \in 0 .. MaxRequests /\ nextRun \in Nat /\ losses \in Nat
  /\ result \in [id : 0 .. nextId, outcome : Outcomes]
  /\ performed \in [1 .. MaxRequests -> Nat]

States == {held, persisted, current} \ {NoState}

\* The state the loop works on, or the one the next call will begin with.
Basis == IF phase # "caller" THEN current ELSE IF held # NoState THEN held ELSE persisted

\* The request whose effect was performed and whose result is on its way.
InHand == IF phase = "fulfilling" THEN {result.id} ELSE {}

\* A pending effect was performed at most once for each state given up.
PendingBound ==
  Basis # NoState => \A i \in PendingIds(Basis) \ InHand : performed[i] <= losses

\* What the snapshot has a record of is pending nowhere.
RecordsRespected ==
  persisted # NoState =>
    \A st \in States : PendingIds(st) \cap FulfilledIds(persisted) = {}

HostInv ==
  /\ Typed
  /\ \A st \in States : GoodState(S, st, nextId)
  /\ RepeatedOnlyAfterLoss
  /\ \A i \in 1 .. MaxRequests : i > nextId => performed[i] = 0
  /\ PendingBound
  /\ RecordsRespected

(* There is a session to work with.                                        *)
LEMMA SessionExists == S \in Sessions
  BY HostAssumption DEF S

(* Nothing has been asked for or performed at first.                       *)
LEMMA InitHostInv == Init => HostInv
<1>. SUFFICES ASSUME Init PROVE HostInv
  OBVIOUS
<1>. DEFINE st == createPpprRuntimeState(S)
<1>1. st \in RuntimeState /\ GoodState(S, st, 0) /\ PendingIds(st) = {}
  BY SessionExists, CreateGood DEF createPpprRuntimeState, PendingIds
<1>. HIDE DEF st
<1>2. held \in {NoState, st}
  BY DEF Init, st
<1>3. Typed
  BY <1>1, <1>2, HostAssumption DEF Init, Typed, NoResult, Outcomes
<1>4. \A x \in States : x = st
  BY <1>2 DEF Init, States
<1>. QED
  BY <1>1, <1>3, <1>4
  DEF Init, HostInv, RepeatedOnlyAfterLoss, PendingBound, RecordsRespected, Basis, InHand,
      States

(* A pending request has an id that was handed out.                        *)
LEMMA PendingId ==
  ASSUME HostInv, NEW st \in RuntimeState, GoodState(S, st, nextId), NEW i \in PendingIds(st)
  PROVE  i \in 1 .. MaxRequests /\ i <= nextId
<1>1. PICK q \in st.pending : q.id = i
  BY DEF PendingIds
<1>2. q.id \in Nat \ {0} /\ q.id <= nextId
  BY DEF RuntimeState, Request, GoodState
<1>. QED
  BY <1>1, <1>2, HostAssumption DEF HostInv, Typed

(* The states at hand, by the phase.                                       *)
LEMMA StatesGood ==
  ASSUME HostInv
  PROVE  /\ held # NoState => held \in RuntimeState /\ GoodState(S, held, nextId)
         /\ persisted # NoState => persisted \in RuntimeState /\ GoodState(S, persisted, nextId)
         /\ phase # "caller" => current \in RuntimeState /\ GoodState(S, current, nextId)
  BY DEF HostInv, Typed, States

(* The loop goes on with a new state that is good, has no pending effect   *)
(* that was performed too often, and none that the snapshot has a record   *)
(* of.                                                                     *)
LEMMA LoopInvariant ==
  ASSUME HostInv, NEW st \in RuntimeState, GoodState(S, st, nextId),
         phase' = "loop", current' = st, UNCHANGED <<held, persisted, nextId>>,
         rounds' \in 0 .. MaxEffectRounds, nextRun' \in Nat, losses' \in Nat,
         result' \in [id : 0 .. nextId, outcome : Outcomes],
         performed' \in [1 .. MaxRequests -> Nat], RepeatedOnlyAfterLoss',
         \A i \in 1 .. MaxRequests : i > nextId => performed'[i] = 0,
         \A i \in PendingIds(st) : performed'[i] <= losses',
         persisted # NoState => PendingIds(st) \cap FulfilledIds(persisted) = {}
  PROVE  HostInv'
<1>0. st # NoState
  BY HostAssumption
<1>1. Typed'
  BY <1>0 DEF HostInv, Typed
<1>2. States' \subseteq States \cup {st}
  BY DEF States
<1>3. \A x \in States' : GoodState(S, x, nextId')
  BY <1>2 DEF HostInv
<1>4. PendingBound'
  BY DEF PendingBound, Basis
<1>5. RecordsRespected'
  BY <1>2 DEF HostInv, RecordsRespected
<1>. QED
  BY <1>1, <1>3, <1>4, <1>5 DEF HostInv

(* A newer state is given up: any effect may now be performed once more.   *)
LEMMA LossInvariant ==
  ASSUME HostInv, LeaveCall, losses' = losses + 1, held' \in {held, NoState},
         UNCHANGED <<persisted, performed, nextId, nextRun>>
  PROVE  HostInv'
<1>1. Typed'
  BY HostAssumption DEF HostInv, Typed, LeaveCall, NoResult, Outcomes
<1>2. States' \subseteq States
  BY DEF States, LeaveCall
<1>3. \A x \in States' : GoodState(S, x, nextId')
  BY <1>2 DEF HostInv
<1>4. \A i \in 1 .. MaxRequests : performed'[i] <= losses'
  BY DEF HostInv, Typed, RepeatedOnlyAfterLoss
<1>5. RepeatedOnlyAfterLoss'
  BY <1>1, <1>4 DEF RepeatedOnlyAfterLoss, Typed
<1>6. PendingBound'
  <2>. SUFFICES ASSUME Basis' # NoState, NEW i \in PendingIds(Basis') PROVE performed'[i] <= losses'
    BY DEF PendingBound
  <2>1. Basis' \in RuntimeState /\ GoodState(S, Basis', nextId)
    BY StatesGood DEF Basis, LeaveCall
  <2>2. i \in 1 .. MaxRequests
    BY <2>1, PendingId
  <2>. QED
    BY <1>4, <2>2
<1>7. RecordsRespected'
  BY <1>2 DEF HostInv, RecordsRespected
<1>. QED
  BY <1>1, <1>3, <1>5, <1>6, <1>7 DEF HostInv

(* A call begins with the held state or the snapshot, or with a new one.   *)
LEMMA InvokeInvariant ==
  ASSUME HostInv, NEW o \in {"start", "resume", "prompt", "cancel"}, Invoke(o)
  PROVE  HostInv'
<1>. DEFINE st == Advance(o)
            From(x) == \/ PendingIds(x) = {}
                       \/ \E y \in States : /\ PendingIds(x) = PendingIds(y)
                                            /\ y = Basis \/ (o = "resume" /\ held # NoState)
<1>0. Fresh \in Nat /\ S \in Sessions /\ nextId \in Nat /\ losses \in Nat
  BY SessionExists DEF HostInv, Typed, Fresh
<1>1. st \in RuntimeState /\ GoodState(S, st, nextId) /\ From(st)
  <2>1. CASE o = "start"
    <3>1. st = applyPpprSessionStart(S, Fresh).state
      BY <2>1 DEF Advance
    <3>. HIDE DEF st
    <3>2. st.pending = {}
      <4>1. applyPpprSessionStart(S, Fresh).state
              = [session |-> S, state |-> "running", runId |-> Fresh, pending |-> {},
                 fulfilled |-> <<>>, conversation |-> <<>>]
        BY <1>0, StartState
      <4>. QED
        BY <3>1, <4>1
    <3>. QED
      BY <1>0, <3>1, <3>2, StartGood DEF PendingIds
  <2>2. CASE o = "resume"
    <3>1. st = persisted /\ persisted # NoState /\ phase = "caller"
      BY <2>2 DEF Invoke, Accepted, Advance
    <3>. HIDE DEF st
    <3>2. st \in States /\ (held = NoState => Basis = st)
      BY <3>1 DEF States, Basis
    <3>. QED
      BY <2>2, <3>1, <3>2, StatesGood
  <2>3. CASE o = "prompt"
    <3>. DEFINE said == appendPpprUserMessage(held, Fresh).state
    <3>1. st = [said EXCEPT !.conversation = <<>>] /\ held # NoState /\ phase = "caller"
      BY <2>3 DEF Invoke, Accepted, Advance
    <3>2. held \in RuntimeState /\ GoodState(S, held, nextId)
      BY <3>1, StatesGood
    <3>3. said \in RuntimeState /\ GoodState(S, said, nextId)
      BY <1>0, <3>2, PromptGood
    <3>4. said.pending = held.pending
      BY <3>2 DEF appendPpprUserMessage, Transition, RuntimeState
    <3>. HIDE DEF said, st
    <3>5. /\ st \in RuntimeState
          /\ st.state = said.state /\ st.session = said.session
          /\ st.pending = said.pending /\ st.fulfilled = said.fulfilled
      <4>1. <<>> \in Seq({"user", "assistant"})
        OBVIOUS
      <4>. QED
        BY <3>1, <3>3, <4>1 DEF RuntimeState
    <3>6. GoodState(S, st, nextId) /\ PendingIds(st) = PendingIds(held)
      BY <3>3, <3>4, <3>5 DEF GoodState, PendingIds, FulfilledIds
    <3>7. held \in States /\ Basis = held
      BY <3>1 DEF States, Basis
    <3>. QED
      BY <3>5, <3>6, <3>7
  <2>4. CASE o = "cancel"
    <3>1. st = cancelPpprRuntime(held, Fresh).state /\ held # NoState /\ phase = "caller"
      BY <2>4 DEF Invoke, Accepted, Advance
    <3>2. held \in RuntimeState /\ GoodState(S, held, nextId)
      BY <3>1, StatesGood
    <3>. HIDE DEF st
    <3>3. st.pending = held.pending
      BY <3>1, <3>2 DEF cancelPpprRuntime, Transition, RuntimeState
    <3>4. PendingIds(st) = PendingIds(held)
      BY <3>3 DEF PendingIds
    <3>5. held \in States /\ Basis = held
      BY <3>1 DEF States, Basis
    <3>. QED
      BY <1>0, <3>1, <3>2, <3>4, <3>5, CancelGood
  <2>. QED
    BY <2>1, <2>2, <2>3, <2>4
<1>. HIDE DEF st
<1>2. persisted # NoState => PendingIds(st) \cap FulfilledIds(persisted) = {}
  BY <1>1 DEF HostInv, RecordsRespected
<1>3. /\ phase = "caller" /\ phase' = "loop" /\ current' = st /\ rounds' = 0
      /\ nextRun' \in Nat /\ losses' \in Nat /\ losses <= losses'
      /\ o = "resume" /\ held # NoState => losses' = losses + 1
      /\ UNCHANGED <<held, persisted, result, performed, nextId>>
  BY <1>0 DEF Invoke, Allocate, HostInv, Typed, st
<1>4. \A i \in 1 .. MaxRequests : performed[i] \in Nat /\ performed[i] <= 1 + losses
  BY DEF HostInv, Typed, RepeatedOnlyAfterLoss
<1>5. \A i \in PendingIds(st) : i \in 1 .. MaxRequests
  BY <1>1, PendingId
<1>6. \A i \in PendingIds(st) : performed'[i] <= losses'
  <2>1. CASE o = "resume" /\ held # NoState
    BY <1>0, <1>3, <1>4, <1>5, <2>1
  <2>2. CASE ~(o = "resume" /\ held # NoState)
    <3>. SUFFICES ASSUME NEW i \in PendingIds(st) PROVE performed[i] <= losses'
      BY <1>3
    <3>1. Basis # NoState /\ i \in PendingIds(Basis) \ InHand
      BY <1>1, <1>3, <2>2 DEF InHand, States
    <3>2. performed[i] <= losses
      BY <3>1 DEF HostInv, PendingBound
    <3>. QED
      BY <3>2, <1>3, <1>4, <1>5 DEF HostInv, Typed
  <2>. QED
    BY <2>1, <2>2
<1>7. RepeatedOnlyAfterLoss'
  BY <1>3, <1>4 DEF RepeatedOnlyAfterLoss, HostInv, Typed
<1>. QED
  BY <1>1, <1>2, <1>3, <1>6, <1>7, LoopInvariant, HostAssumption DEF HostInv, Typed

(* A worker's result of a pending effect: performed once more, and settled *)
(* in the state the call goes on with.                                     *)
LEMMA InvokeEffectResultInvariant ==
  ASSUME HostInv, InvokeEffectResult
  PROVE  HostInv'
<1>1. PICK q \in (IF held = NoState THEN {} ELSE held.pending), outcome \in {"success", "failed"} :
        /\ phase = "caller" /\ phase' = "loop"
        /\ performed' = [performed EXCEPT ![q.id] = @ + 1]
        /\ current' = ingestPpprEffectResult(held, q.id, outcome, Fresh).state
        /\ rounds' = 0 /\ Allocate(current')
        /\ UNCHANGED <<held, persisted, result, losses, nextId>>
  BY DEF InvokeEffectResult
<1>2. /\ held # NoState /\ q \in held.pending
      /\ held \in RuntimeState /\ GoodState(S, held, nextId)
      /\ held \in States /\ Basis = held /\ InHand = {}
  BY <1>1, StatesGood DEF States, Basis, InHand
<1>3. q.id \in PendingIds(held) /\ q.id \in 1 .. MaxRequests /\ q.id <= nextId
  BY <1>2, PendingId DEF PendingIds
<1>4. Fresh \in Nat /\ nextId \in Nat /\ losses \in Nat /\ S \in Sessions /\ outcome \in Outcomes
  BY SessionExists DEF HostInv, Typed, Fresh, Outcomes
<1>5. \A i \in PendingIds(held) : performed[i] <= losses
  BY <1>2 DEF HostInv, PendingBound
<1>6. current' \in RuntimeState /\ GoodState(S, current', nextId)
  BY <1>1, <1>2, <1>3, <1>4, ResultGood
<1>7. PendingIds(current') = PendingIds(held) \ {q.id}
  <2>1. current'.pending = {r \in held.pending : r.id # q.id}
    BY <1>1, <1>2 DEF ingestPpprEffectResult, Transition, RuntimeState
  <2>. QED
    BY <2>1 DEF PendingIds
<1>8. /\ performed' \in [1 .. MaxRequests -> Nat]
      /\ performed'[q.id] = performed[q.id] + 1
      /\ \A i \in 1 .. MaxRequests : i # q.id => performed'[i] = performed[i]
  BY <1>1, <1>3 DEF HostInv, Typed
<1>9. RepeatedOnlyAfterLoss'
  BY <1>1, <1>3, <1>4, <1>5, <1>8 DEF RepeatedOnlyAfterLoss, HostInv, Typed
<1>10. \A i \in PendingIds(current') : performed'[i] <= losses'
  BY <1>1, <1>2, <1>5, <1>7, <1>8, PendingId
<1>11. persisted # NoState => PendingIds(current') \cap FulfilledIds(persisted) = {}
  BY <1>2, <1>7 DEF HostInv, RecordsRespected
<1>12. \A i \in 1 .. MaxRequests : i > nextId => performed'[i] = 0
  BY <1>3, <1>4, <1>8 DEF HostInv
<1>13. nextRun' \in Nat
  BY <1>1, <1>4 DEF Allocate, HostInv, Typed
<1>. QED
  BY <1>1, <1>4, <1>6, <1>8, <1>9, <1>10, <1>11, <1>12, <1>13, LoopInvariant, HostAssumption
  DEF HostInv, Typed

(* A new request has an id nothing was performed or recorded for.          *)
LEMMA AskEffectInvariant ==
  ASSUME HostInv, AskEffect
  PROVE  HostInv'
<1>. DEFINE q == [id |-> nextId + 1, session |-> S]
<1>1. /\ held # NoState /\ phase = "caller" /\ held \in RuntimeState /\ GoodState(S, held, nextId)
      /\ held \in States /\ Basis = held /\ InHand = {}
  BY StatesGood DEF AskEffect, States, Basis, InHand
<1>2. /\ nextId \in Nat /\ nextId < MaxRequests /\ S \in Sessions
      /\ MaxRequests \in Nat /\ losses \in Nat
  BY SessionExists, HostAssumption DEF AskEffect, HostInv, Typed
<1>3. q \in Request /\ q.id = nextId + 1 /\ q.session = S
  BY <1>2 DEF Request
<1>. HIDE DEF q
<1>4. /\ held' = requestPpprEffect(held, q).state /\ nextId' = nextId + 1
      /\ UNCHANGED <<persisted, phase, current, rounds, result, performed, losses, nextRun>>
  BY DEF AskEffect, q
<1>5. held' \in RuntimeState /\ GoodState(S, held', nextId + 1)
  BY <1>1, <1>2, <1>3, <1>4, RequestGood
<1>6. PendingIds(held') = PendingIds(held) \cup {nextId + 1}
  <2>1. held'.pending = held.pending \cup {q}
    BY <1>1, <1>4 DEF requestPpprEffect, Transition, RuntimeState
  <2>. QED
    BY <1>3, <2>1 DEF PendingIds
<1>7. Typed'
  BY <1>1, <1>2, <1>4, <1>5 DEF HostInv, Typed
<1>8. States' \subseteq States \cup {held'}
  BY <1>4 DEF States
<1>9. \A st \in States' : GoodState(S, st, nextId')
  <2>. SUFFICES ASSUME NEW st \in States' PROVE GoodState(S, st, nextId')
    OBVIOUS
  <2>1. CASE st = held'
    BY <1>4, <1>5, <2>1
  <2>2. CASE st \in States
    <3>1. st \in RuntimeState /\ GoodState(S, st, nextId)
      BY <2>2 DEF HostInv, Typed, States
    <3>. QED
      BY <1>2, <1>4, <3>1, GoodStateMonotone
  <2>. QED
    BY <1>8, <2>1, <2>2
<1>10. \A i \in 1 .. MaxRequests : i > nextId' => performed'[i] = 0
  BY <1>2, <1>4 DEF HostInv
<1>11. PendingBound'
  <2>1. Basis' = held' /\ InHand' = {}
    BY <1>1, <1>4, <1>5, HostAssumption DEF Basis, InHand
  <2>2. \A i \in PendingIds(held) : performed[i] <= losses
    BY <1>1 DEF HostInv, PendingBound
  <2>3. performed[nextId + 1] = 0
    BY <1>2 DEF HostInv
  <2>. QED
    BY <1>2, <1>4, <1>6, <2>1, <2>2, <2>3 DEF PendingBound
<1>12. RecordsRespected'
  <2>1. persisted # NoState => nextId + 1 \notin FulfilledIds(persisted)
    <3>. SUFFICES ASSUME persisted # NoState PROVE nextId + 1 \notin FulfilledIds(persisted)
      OBVIOUS
    <3>1. persisted \in RuntimeState /\ GoodState(S, persisted, nextId)
      BY StatesGood
    <3>2. \A i \in DOMAIN persisted.fulfilled : persisted.fulfilled[i].request <= nextId
      BY <3>1 DEF GoodState
    <3>. QED
      BY <1>2, <3>2 DEF FulfilledIds
  <2>. QED
    BY <1>1, <1>4, <1>6, <1>8, <2>1 DEF HostInv, RecordsRespected
<1>13. RepeatedOnlyAfterLoss'
  BY <1>4 DEF HostInv, RepeatedOnlyAfterLoss
<1>. QED
  BY <1>7, <1>9, <1>10, <1>11, <1>12, <1>13 DEF HostInv

(* A snapshot that is stored replaces an older one by the held state.      *)
LEMMA PersistInvariant ==
  ASSUME HostInv, Persist
  PROVE  HostInv'
<1>1. /\ phase = "caller" /\ held # NoState /\ persisted' = held /\ current = NoState
      /\ UNCHANGED <<held, phase, current, rounds, result, performed, losses, nextId, nextRun>>
  BY DEF Persist, HostInv, Typed
<1>2. States' = {held} /\ held \in States
  BY <1>1 DEF States
<1>3. Typed' /\ RepeatedOnlyAfterLoss'
  BY <1>1 DEF HostInv, Typed, RepeatedOnlyAfterLoss
<1>4. GoodState(S, held, nextId)
  BY <1>2 DEF HostInv
<1>5. PendingBound'
  BY <1>1 DEF HostInv, PendingBound, Basis, InHand
<1>6. RecordsRespected'
  BY <1>1, <1>2, <1>4 DEF RecordsRespected, GoodState
<1>. QED
  BY <1>1, <1>2, <1>3, <1>4, <1>5, <1>6 DEF HostInv

(* The request the host executes first is one of the pending ones: their   *)
(* ids have a least element.                                               *)
LEMMA OldestIsPending ==
  ASSUME NEW st \in RuntimeState, st.pending # {}
  PROVE  OldestPending(st) \in st.pending
<1>1. PendingIds(st) \subseteq Nat /\ PendingIds(st) # {}
  BY DEF PendingIds, RuntimeState, Request
<1>. DEFINE R == OpToRel(<, Nat)
<1>2. \E i \in PendingIds(st) : \A j \in PendingIds(st) : ~ (<<j, i>> \in R)
  BY <1>1, NatLessThanWellFounded, WFMin, Zenon
<1>3. \E i \in PendingIds(st) : \A j \in PendingIds(st) : i <= j
  <2>1. \A i, j \in Nat : <<j, i>> \in R <=> j < i
    BY DEF OpToRel
  <2>. HIDE DEF R
  <2>2. PICK i \in PendingIds(st) : \A j \in PendingIds(st) : ~ (<<j, i>> \in R)
    BY <1>2
  <2>3. ASSUME NEW j \in PendingIds(st) PROVE i <= j
    <3>1. i \in Nat /\ j \in Nat
      BY <1>1
    <3>2. ~ (j < i)
      BY <2>1, <2>2, <3>1
    <3>. QED
      BY <3>1, <3>2
  <2>. QED
    BY <2>3
<1>4. \E q \in st.pending : \A p \in st.pending : q.id <= p.id
  BY <1>3 DEF PendingIds
<1>. QED
  BY <1>4 DEF OldestPending

(* An effect is performed: once more than states were given up, at most,   *)
(* and from now on its request is in hand.                                 *)
LEMMA FulfillInvariant ==
  ASSUME HostInv, Fulfill
  PROVE  HostInv'
<1>1. PICK outcome \in Outcomes, times \in {0, 1} :
        /\ result' = [id |-> OldestPending(current).id, outcome |-> outcome]
        /\ performed' = [performed EXCEPT ![OldestPending(current).id] = @ + times]
  BY DEF Fulfill
<1>. DEFINE id == OldestPending(current).id
<1>2. /\ phase = "loop" /\ phase' = "fulfilling" /\ current.pending # {}
      /\ rounds < MaxEffectRounds /\ rounds' = rounds + 1
      /\ UNCHANGED <<held, persisted, current, losses, nextId, nextRun>>
  BY DEF Fulfill
<1>3. current \in RuntimeState /\ GoodState(S, current, nextId) /\ current # NoState
  BY <1>2, StatesGood, HostAssumption
<1>4. id \in PendingIds(current) /\ id \in 1 .. MaxRequests /\ id <= nextId
  BY <1>2, <1>3, OldestIsPending, PendingId DEF PendingIds
<1>. HIDE DEF id
<1>5. Basis = current /\ Basis' = current /\ InHand = {} /\ InHand' = {id}
  <2>1. result'.id = id
    BY <1>1 DEF id
  <2>. QED
    BY <1>2, <2>1 DEF Basis, InHand
<1>6. /\ performed' \in [1 .. MaxRequests -> Nat]
      /\ performed'[id] <= performed[id] + 1
      /\ \A i \in 1 .. MaxRequests : i # id => performed'[i] = performed[i]
  BY <1>1, <1>4 DEF HostInv, Typed, id
<1>7. \A i \in PendingIds(current) : performed[i] <= losses
  BY <1>3, <1>5 DEF HostInv, PendingBound
<1>8. Typed'
  <2>1. result' \in [id : 0 .. nextId, outcome : Outcomes]
    BY <1>1, <1>4, HostAssumption DEF HostInv, Typed, id
  <2>2. rounds' \in 0 .. MaxEffectRounds
    BY <1>2, HostAssumption DEF HostInv, Typed
  <2>. QED
    BY <1>2, <1>6, <2>1, <2>2 DEF HostInv, Typed
<1>9. RepeatedOnlyAfterLoss'
  BY <1>2, <1>4, <1>6, <1>7 DEF HostInv, Typed, RepeatedOnlyAfterLoss
<1>10. \A i \in 1 .. MaxRequests : i > nextId => performed'[i] = 0
  BY <1>4, <1>6 DEF HostInv, Typed
<1>11. PendingBound'
  BY <1>2, <1>3, <1>5, <1>6, <1>7, PendingId DEF PendingBound
<1>12. States' = States
  BY <1>2 DEF States
<1>13. (\A st \in States' : GoodState(S, st, nextId')) /\ RecordsRespected'
  BY <1>2, <1>12 DEF HostInv, RecordsRespected
<1>. QED
  BY <1>2, <1>8, <1>9, <1>10, <1>11, <1>13 DEF HostInv

(* The result in hand is settled in the state the loop goes on with.       *)
LEMMA DeliverInvariant ==
  ASSUME HostInv, Deliver
  PROVE  HostInv'
<1>. DEFINE next == ingestPpprEffectResult(current, result.id, result.outcome, Fresh).state
<1>1. /\ phase = "fulfilling" /\ phase' = "loop" /\ current' = next
      /\ result' = NoResult /\ Allocate(next)
      /\ UNCHANGED <<held, persisted, rounds, performed, losses, nextId>>
  BY DEF Deliver
<1>2. /\ current \in RuntimeState /\ GoodState(S, current, nextId) /\ current # NoState
      /\ current \in States /\ Basis = current /\ InHand = {result.id}
  BY <1>1, StatesGood, HostAssumption DEF States, Basis, InHand
<1>3. /\ Fresh \in Nat /\ nextId \in Nat /\ losses \in Nat /\ S \in Sessions
      /\ result.id \in Nat /\ result.id <= nextId /\ result.outcome \in Outcomes
  BY SessionExists DEF HostInv, Typed, Fresh
<1>4. next \in RuntimeState /\ GoodState(S, next, nextId)
  BY <1>2, <1>3, ResultGood
<1>5. PendingIds(next) = PendingIds(current) \ {result.id}
  <2>1. next.pending = {r \in current.pending : r.id # result.id}
    BY <1>2 DEF ingestPpprEffectResult, Transition, RuntimeState
  <2>. QED
    BY <2>1 DEF PendingIds
<1>. HIDE DEF next
<1>6. \A i \in PendingIds(next) : performed'[i] <= losses'
  BY <1>1, <1>2, <1>5 DEF HostInv, PendingBound
<1>7. persisted # NoState => PendingIds(next) \cap FulfilledIds(persisted) = {}
  BY <1>2, <1>5 DEF HostInv, RecordsRespected
<1>8. nextRun' \in Nat /\ result' \in [id : 0 .. nextId, outcome : Outcomes]
  BY <1>1, <1>3 DEF Allocate, HostInv, Typed, NoResult, Outcomes
<1>9. /\ RepeatedOnlyAfterLoss' /\ rounds' \in 0 .. MaxEffectRounds /\ losses' \in Nat
      /\ performed' \in [1 .. MaxRequests -> Nat]
      /\ \A i \in 1 .. MaxRequests : i > nextId => performed'[i] = 0
  BY <1>1 DEF HostInv, Typed, RepeatedOnlyAfterLoss
<1>. QED
  BY <1>1, <1>4, <1>6, <1>7, <1>8, <1>9, LoopInvariant

(* The caller adopts the state the loop ended with.                        *)
LEMMA ReturnInvariant ==
  ASSUME HostInv, Return
  PROVE  HostInv'
<1>1. /\ phase = "loop" /\ phase' = "caller" /\ current' = NoState /\ held' = current
      /\ rounds' = 0 /\ result' = NoResult
      /\ UNCHANGED <<persisted, performed, losses, nextId, nextRun>>
  BY DEF Return, LeaveCall
<1>2. current \in RuntimeState /\ current # NoState
  BY <1>1 DEF HostInv, Typed
<1>3. Typed'
  BY <1>1, <1>2, HostAssumption DEF HostInv, Typed, NoResult, Outcomes
<1>4. States' \subseteq States
  BY <1>1 DEF States
<1>5. PendingBound'
  BY <1>1, <1>2 DEF HostInv, PendingBound, Basis, InHand
<1>6. RecordsRespected' /\ RepeatedOnlyAfterLoss'
  BY <1>1, <1>4 DEF HostInv, RecordsRespected, RepeatedOnlyAfterLoss
<1>. QED
  BY <1>1, <1>3, <1>4, <1>5, <1>6 DEF HostInv

(* Every step keeps the invariant: one case per action.                    *)
LEMMA NextHostInv == HostInv /\ [Next]_vars => HostInv'
<1>. SUFFICES ASSUME HostInv, [Next]_vars PROVE HostInv'
  OBVIOUS
<1>1. ASSUME NEW o \in {"start", "resume", "prompt", "cancel"}, Invoke(o) PROVE HostInv'
  BY <1>1, InvokeInvariant
<1>2. CASE InvokeEffectResult
  BY <1>2, InvokeEffectResultInvariant
<1>3. CASE AskEffect
  BY <1>3, AskEffectInvariant
<1>4. CASE Persist
  BY <1>4, PersistInvariant
<1>5. CASE Fulfill
  BY <1>5, FulfillInvariant
<1>6. CASE Deliver
  BY <1>6, DeliverInvariant
<1>7. CASE Return
  BY <1>7, ReturnInvariant
<1>8. CASE Throw
  BY <1>8, LossInvariant DEF Throw
<1>9. CASE Crash
  BY <1>9, LossInvariant DEF Crash
<1>10. CASE UNCHANGED vars
  BY <1>10
  DEF vars, HostInv, Typed, States, RepeatedOnlyAfterLoss, PendingBound, RecordsRespected,
      Basis, InHand
<1>. QED
  BY <1>1, <1>2, <1>3, <1>4, <1>5, <1>6, <1>7, <1>8, <1>9, <1>10 DEF Next

(* The strengthened invariant holds in every reachable state.              *)
LEMMA HostInvariant == Spec => []HostInv
  BY InitHostInv, NextHostInv, PTL DEF Spec

(* The host's and the caller's states are always runtime states, and the   *)
(* loop stays within its round limit (proof-host.ts 409-431).              *)
THEOREM HostTypeCorrect == Spec => []TypeOK
<1>1. HostInv => TypeOK
  BY DEF HostInv, Typed, TypeOK
<1>. QED
  BY <1>1, HostInvariant, PTL

(* However many calls, effects, losses and rounds: an effect is performed  *)
(* at most once more than states were given up (proof-host.ts 409-431).    *)
THEOREM EffectsOncePerLoss == Spec => []RepeatedOnlyAfterLoss
<1>1. HostInv => RepeatedOnlyAfterLoss
  BY DEF HostInv
<1>. QED
  BY <1>1, HostInvariant, PTL

(* No effect that the stored snapshot has a record of is ever performed    *)
(* again (runtime.ts 218-224, proof-host.ts 420-430).                      *)
THEOREM RecordsPreventRepeats == Spec => RecordedNeverRepeated
<1>. DEFINE Kept == \A i \in 1 .. MaxRequests :
                      performed'[i] # performed[i] /\ persisted # NoState
                      => i \notin FulfilledIds(persisted)
<1>1. HostInv /\ [Next]_vars => [Kept]_vars
  <2>. SUFFICES ASSUME HostInv, Next, NEW i \in 1 .. MaxRequests,
                       performed'[i] # performed[i], persisted # NoState
                PROVE  i \notin FulfilledIds(persisted)
    OBVIOUS
  <2>1. performed \in [1 .. MaxRequests -> Nat]
    BY DEF HostInv, Typed
  <2>2. CASE InvokeEffectResult
    <3>1. PICK q \in (IF held = NoState THEN {} ELSE held.pending) :
            performed' = [performed EXCEPT ![q.id] = @ + 1]
      BY <2>2 DEF InvokeEffectResult
    <3>2. held \in States /\ i \in PendingIds(held)
      BY <2>1, <3>1 DEF States, PendingIds
    <3>. QED
      BY <3>2 DEF HostInv, RecordsRespected
  <2>3. CASE Fulfill
    <3>1. i = OldestPending(current).id
      BY <2>1, <2>3 DEF Fulfill
    <3>2. current \in RuntimeState /\ current.pending # {} /\ current \in States
      BY <2>3, StatesGood, HostAssumption DEF Fulfill, States
    <3>3. i \in PendingIds(current)
      BY <3>1, <3>2, OldestIsPending DEF PendingIds
    <3>. QED
      BY <3>2, <3>3 DEF HostInv, RecordsRespected
  <2>4. CASE ~InvokeEffectResult /\ ~Fulfill
    BY <2>4 DEF Next, Invoke, AskEffect, Persist, Deliver, Return, Throw, Crash
  <2>. QED
    BY <2>2, <2>3, <2>4
<1>. HIDE DEF Kept
<1>2. Spec => [][Kept]_vars
  BY <1>1, HostInvariant, PTL DEF Spec
<1>. QED
  BY <1>2 DEF RecordedNeverRepeated, Kept
=============================================================================
