------------------------- MODULE PpprRuntimeProofs -------------------------
(***************************************************************************)
(* Proofs about PpprRuntime for every set of sessions and every bound.     *)
(* The three effect invariants are proved together from an inductive       *)
(* strengthening: ids of requests and of fulfillment records never exceed  *)
(* the last id handed out, so the id of a new request is new.  The same    *)
(* invariant gives that the runtime implements EffectLedger.  The two      *)
(* theorems about histories and status reports are action properties.      *)
(***************************************************************************)
EXTENDS PpprRuntime, TLAPS

\* What every state a session has, in memory or saved, satisfies while n is
\* the last id handed out.
GoodState(s, st, n) ==
  /\ st.state = "awaiting_effect" => st.pending # {}
  /\ PendingIds(st) \cap FulfilledIds(st) = {}
  /\ st.session = s
  /\ \A q \in st.pending : q.session = s /\ q.id <= n
  /\ \A i \in DOMAIN st.fulfilled : st.fulfilled[i].request <= n

(* A state that is good stays good when later requests raise the last id.  *)
LEMMA GoodStateMonotone ==
  ASSUME NEW s \in Sessions, NEW st \in RuntimeState,
         NEW n \in Nat, NEW m \in Nat, GoodState(s, st, n), n <= m
  PROVE  GoodState(s, st, m)
<1>1. \A q \in st.pending : q.id \in Nat
  BY DEF RuntimeState, Request
<1>2. \A i \in DOMAIN st.fulfilled : st.fulfilled[i].request \in Nat
  <2>1. st.fulfilled \in Seq(Fulfillment)
    BY DEF RuntimeState
  <2>2. \A i \in DOMAIN st.fulfilled : st.fulfilled[i] \in Fulfillment
    BY <2>1
  <2>. QED
    BY <2>2 DEF Fulfillment
<1>. QED
  BY <1>1, <1>2 DEF GoodState, PendingIds, FulfilledIds

(* Appending a fulfillment record adds exactly its id to the settled ids.  *)
LEMMA FulfilledAppend ==
  ASSUME NEW seq \in Seq(Fulfillment), NEW f \in Fulfillment
  PROVE  {Append(seq, f)[i].request : i \in DOMAIN Append(seq, f)}
           = {seq[i].request : i \in DOMAIN seq} \cup {f.request}
<1>1. /\ DOMAIN Append(seq, f) = 1 .. Len(seq) + 1
      /\ DOMAIN seq = 1 .. Len(seq)
      /\ Len(seq) \in Nat
      /\ \A i \in 1 .. Len(seq) : Append(seq, f)[i] = seq[i]
      /\ Append(seq, f)[Len(seq) + 1] = f
  OBVIOUS
<1>2. 1 .. Len(seq) + 1 = (1 .. Len(seq)) \cup {Len(seq) + 1}
  BY <1>1
<1>. QED
  BY <1>1, <1>2

(***************************************************************************)
(* One lemma per transition function: it returns a runtime state, and a    *)
(* good one when it is given a good one.                                   *)
(***************************************************************************)
(* A seeded session is idle, waits for nothing and has no records.         *)
LEMMA CreateGood ==
  ASSUME NEW s \in Sessions, NEW n \in Nat
  PROVE  /\ createPpprRuntimeState(s) \in RuntimeState
         /\ GoodState(s, createPpprRuntimeState(s), n)
  BY DEF createPpprRuntimeState, RuntimeState, GoodState, PendingIds, FulfilledIds,
         Lifecycle, NoRun

(* What session.start builds, field by field (runtime.ts 98-127).          *)
LEMMA StartState ==
  ASSUME NEW s \in Sessions, NEW fresh \in Nat
  PROVE  applyPpprSessionStart(s, fresh).state
           = [session |-> s, state |-> "running", runId |-> fresh, pending |-> {},
              fulfilled |-> <<>>, conversation |-> <<>>]
  BY DEF applyPpprSessionStart, createPpprRuntimeState, ensureRunId, Transition, NoRun

(* A started session is good: it has nothing pending and no records.       *)
LEMMA StartGood ==
  ASSUME NEW s \in Sessions, NEW n \in Nat, NEW fresh \in Nat
  PROVE  /\ applyPpprSessionStart(s, fresh).state \in RuntimeState
         /\ GoodState(s, applyPpprSessionStart(s, fresh).state, n)
<1>. DEFINE new == [session |-> s, state |-> "running", runId |-> fresh, pending |-> {},
                    fulfilled |-> <<>>, conversation |-> <<>>]
<1>1. new \in RuntimeState
  BY DEF RuntimeState, Lifecycle
<1>2. GoodState(s, new, n)
  BY DEF GoodState, PendingIds, FulfilledIds
<1>. QED
  BY <1>1, <1>2, StartState

(* A prompt touches neither pending effects nor records (runtime.ts        *)
(* 144-175).                                                               *)
LEMMA PromptGood ==
  ASSUME NEW s \in Sessions, NEW st \in RuntimeState, NEW n \in Nat, GoodState(s, st, n), NEW fresh \in Nat
  PROVE  /\ appendPpprUserMessage(st, fresh).state \in RuntimeState
         /\ GoodState(s, appendPpprUserMessage(st, fresh).state, n)
<1>. DEFINE new == appendPpprUserMessage(st, fresh).state
<1>0. Append(st.conversation, "user") \in Seq({"user", "assistant"})
  BY DEF RuntimeState
<1>1. /\ new \in RuntimeState
      /\ new.session = st.session /\ new.pending = st.pending
      /\ new.fulfilled = st.fulfilled
      /\ new.state = "running"
  BY <1>0 DEF appendPpprUserMessage, Transition, RuntimeState, Lifecycle
<1>. QED
  BY <1>1 DEF GoodState, PendingIds, FulfilledIds

(* Assistant output leaves lifecycle and effects alone (runtime.ts         *)
(* 177-197).                                                               *)
LEMMA AssistantGood ==
  ASSUME NEW s \in Sessions, NEW st \in RuntimeState, NEW n \in Nat, GoodState(s, st, n)
  PROVE  /\ appendPpprAssistantMessage(st).state \in RuntimeState
         /\ GoodState(s, appendPpprAssistantMessage(st).state, n)
<1>. DEFINE new == appendPpprAssistantMessage(st).state
<1>0. Append(st.conversation, "assistant") \in Seq({"user", "assistant"})
  BY DEF RuntimeState
<1>1. /\ new \in RuntimeState
      /\ new.session = st.session /\ new.pending = st.pending
      /\ new.fulfilled = st.fulfilled
      /\ new.state = st.state
  BY <1>0 DEF appendPpprAssistantMessage, Transition, RuntimeState
<1>. QED
  BY <1>1 DEF GoodState, PendingIds, FulfilledIds

(* Cancelling stops the session and keeps what is pending (runtime.ts      *)
(* 252-268).                                                               *)
LEMMA CancelGood ==
  ASSUME NEW s \in Sessions, NEW st \in RuntimeState, NEW n \in Nat, GoodState(s, st, n), NEW fresh \in Nat
  PROVE  /\ cancelPpprRuntime(st, fresh).state \in RuntimeState
         /\ GoodState(s, cancelPpprRuntime(st, fresh).state, n)
<1>. DEFINE new == cancelPpprRuntime(st, fresh).state
<1>1. /\ new \in RuntimeState
      /\ new.session = st.session /\ new.pending = st.pending
      /\ new.fulfilled = st.fulfilled
      /\ new.state = "stopped"
  BY DEF cancelPpprRuntime, ensureRunId, Transition, RuntimeState, Lifecycle
<1>. QED
  BY <1>1 DEF GoodState, PendingIds, FulfilledIds

(* A fork belongs to the child session and waits for nothing (cli-host.ts  *)
(* 197-226).                                                               *)
LEMMA ForkGood ==
  ASSUME NEW s \in Sessions, NEW child \in Sessions, NEW st \in RuntimeState,
         NEW n \in Nat, GoodState(s, st, n)
  PROVE  /\ createPpprForkSessionAction(st, child) \in RuntimeState
         /\ GoodState(child, createPpprForkSessionAction(st, child), n)
  BY DEF createPpprForkSessionAction, RuntimeState, GoodState, PendingIds,
         FulfilledIds, Lifecycle, NoRun

(* A result of a request already handed out moves its id from pending to   *)
(* fulfilled, and the session out of awaiting_effect (runtime.ts 213-250). *)
LEMMA ResultGood ==
  ASSUME NEW s \in Sessions, NEW st \in RuntimeState, NEW n \in Nat, GoodState(s, st, n), NEW fresh \in Nat,
         NEW id \in Nat, NEW outcome \in Outcomes, id <= n
  PROVE  /\ ingestPpprEffectResult(st, id, outcome, fresh).state \in RuntimeState
         /\ GoodState(s, ingestPpprEffectResult(st, id, outcome, fresh).state, n)
<1>. DEFINE f   == [request |-> id, outcome |-> outcome]
            new == ingestPpprEffectResult(st, id, outcome, fresh).state
<1>1. f \in Fulfillment /\ st.fulfilled \in Seq(Fulfillment)
  BY DEF Fulfillment, RuntimeState
<1>2. /\ new.session = st.session
      /\ new.state \in {"running", "failed"}
      /\ new.pending = {q \in st.pending : q.id # id}
      /\ new.fulfilled = Append(st.fulfilled, f)
  BY DEF ingestPpprEffectResult, Transition, RuntimeState
<1>3. new \in RuntimeState
  <2>1. Append(st.fulfilled, f) \in Seq(Fulfillment)
    BY <1>1
  <2>. QED
    BY <2>1 DEF ingestPpprEffectResult, ensureRunId, Transition, RuntimeState, Lifecycle
<1>4. FulfilledIds(new) = FulfilledIds(st) \cup {id}
  <2>1. FulfilledIds(new)
          = {Append(st.fulfilled, f)[i].request : i \in DOMAIN Append(st.fulfilled, f)}
    BY <1>2 DEF FulfilledIds
  <2>2. f.request = id
    OBVIOUS
  <2>. HIDE DEF f, new
  <2>3. {Append(st.fulfilled, f)[i].request : i \in DOMAIN Append(st.fulfilled, f)}
          = {st.fulfilled[i].request : i \in DOMAIN st.fulfilled} \cup {f.request}
    BY <1>1, FulfilledAppend
  <2>. QED
    BY <2>1, <2>2, <2>3 DEF FulfilledIds
<1>5. PendingIds(new) = PendingIds(st) \ {id}
  BY <1>2 DEF PendingIds
<1>6. \A i \in DOMAIN new.fulfilled : new.fulfilled[i].request <= n
  <2>1. \A k \in FulfilledIds(st) : k <= n
    BY DEF GoodState, FulfilledIds
  <2>2. \A k \in FulfilledIds(new) : k <= n
    BY <2>1, <1>4
  <2>. QED
    BY <2>2 DEF FulfilledIds
<1>. QED
  BY <1>2, <1>3, <1>4, <1>5, <1>6 DEF GoodState

(* A request whose id is above every id handed out leaves the state good   *)
(* once that id counts as handed out.                                      *)
LEMMA RequestGood ==
  ASSUME NEW s \in Sessions, NEW st \in RuntimeState, NEW n \in Nat, GoodState(s, st, n),
         NEW q \in Request, q.id = n + 1, q.session = s
  PROVE  /\ requestPpprEffect(st, q).state \in RuntimeState
         /\ GoodState(s, requestPpprEffect(st, q).state, n + 1)
<1>. DEFINE new == requestPpprEffect(st, q).state
<1>1. /\ new \in RuntimeState
      /\ new.session = st.session
      /\ new.pending = st.pending \cup {q}
      /\ new.fulfilled = st.fulfilled
  BY DEF requestPpprEffect, Transition, RuntimeState, Lifecycle
<1>2. GoodState(s, st, n + 1)
  BY GoodStateMonotone
<1>3. PendingIds(new) = PendingIds(st) \cup {n + 1}
  BY <1>1 DEF PendingIds
<1>4. n + 1 \notin FulfilledIds(st)
  <2>1. \A i \in DOMAIN st.fulfilled : st.fulfilled[i] \in Fulfillment
    <3>1. st.fulfilled \in Seq(Fulfillment)
      BY DEF RuntimeState
    <3>. QED
      BY <3>1
  <2>2. \A i \in DOMAIN st.fulfilled : st.fulfilled[i].request \in Nat
    BY <2>1 DEF Fulfillment
  <2>. QED
    BY <2>2 DEF GoodState, FulfilledIds
<1>. HIDE DEF new
<1>5. FulfilledIds(new) = FulfilledIds(st)
  BY <1>1 DEF FulfilledIds
<1>6. GoodState(s, new, n + 1)
  BY <1>1, <1>2, <1>3, <1>4, <1>5 DEF GoodState
<1>. QED
  BY <1>1, <1>6 DEF new
-----------------------------------------------------------------------------
IInv ==
  /\ TypeOK
  /\ \A q \in asked : q.id <= nextId
  /\ \A s \in Sessions : \A st \in StatesOf(s) : GoodState(s, st, nextId)

(* The initial state is good.                                              *)
LEMMA InitInvariant == Init => IInv
  BY DEF Init, IInv, TypeOK, StatesOf, GoodState

(* A step that replaces the state of one session by a good one, and        *)
(* nothing else but the run counter, keeps the invariant.                  *)
LEMMA CommitInvariant ==
  ASSUME IInv, NEW s \in Sessions, NEW t, Commit(s, t),
         t.state \in RuntimeState, GoodState(s, t.state, nextId),
         UNCHANGED <<saved, asked, nextId>>, nextRun' \in Nat
  PROVE  IInv'
<1>1. rt' \in [Sessions -> RuntimeState \cup {NoState}]
  BY DEF IInv, TypeOK, Commit
<1>2. TypeOK'
  BY <1>1 DEF IInv, TypeOK
<1>3. ASSUME NEW r \in Sessions, NEW st \in StatesOf(r)' PROVE GoodState(r, st, nextId)'
  <2>1. CASE st \in StatesOf(r)
    BY <2>1 DEF IInv, GoodState
  <2>2. CASE st \notin StatesOf(r)
    <3>1. st = t.state /\ r = s
      BY <2>2, <1>3 DEF StatesOf, Commit, IInv, TypeOK
    <3>. QED
      BY <3>1 DEF GoodState
  <2>. QED
    BY <2>1, <2>2
<1>. QED
  BY <1>2, <1>3 DEF IInv

(* A state a session has is a runtime state, and good.                     *)
LEMMA LiveGood ==
  ASSUME IInv, NEW s \in Sessions, Live(s)
  PROVE  rt[s] \in RuntimeState /\ GoodState(s, rt[s], nextId)
  BY DEF IInv, TypeOK, Live, StatesOf

(* A snapshot is a runtime state, and good.                                *)
LEMMA SavedGood ==
  ASSUME IInv, NEW s \in Sessions, saved[s] # NoState
  PROVE  saved[s] \in RuntimeState /\ GoodState(s, saved[s], nextId)
  BY DEF IInv, TypeOK, StatesOf

(* Allocating a run id keeps the run counter a number.                     *)
LEMMA AllocateNat ==
  ASSUME IInv, NEW s \in Sessions, Allocate(s)
  PROVE  nextRun' \in Nat
  BY DEF IInv, TypeOK, Allocate, Fresh

(* Asking for an effect is the one step that moves nextId, for the states  *)
(* of all sessions.                                                        *)
LEMMA RequestEffectInvariant ==
  ASSUME IInv, NEW s \in Sessions, RequestEffect(s)
  PROVE  IInv'
<1>. DEFINE q == NewRequest(s)
            new == requestPpprEffect(rt[s], q).state
<1>1. /\ rt[s] \in RuntimeState /\ GoodState(s, rt[s], nextId)
      /\ nextId \in Nat /\ nextId' = nextId + 1
      /\ rt' = [rt EXCEPT ![s] = new] /\ asked' = asked \cup {q}
      /\ saved' = saved /\ nextRun' = nextRun
  BY LiveGood DEF RequestEffect, Commit, IInv, TypeOK
<1>2. q.id = nextId + 1 /\ q.session = s /\ q \in Request
  BY <1>1 DEF NewRequest, Request
<1>. HIDE DEF q
<1>3. new \in RuntimeState /\ GoodState(s, new, nextId + 1)
  BY <1>1, <1>2, RequestGood
<1>. HIDE DEF new
<1>4. TypeOK'
  BY <1>1, <1>2, <1>3 DEF IInv, TypeOK
<1>5. \A p \in asked' : p.id <= nextId'
  BY <1>1, <1>2 DEF IInv, TypeOK, Request
<1>6. ASSUME NEW r \in Sessions, NEW st \in StatesOf(r)' PROVE GoodState(r, st, nextId')
  <2>1. CASE st \in StatesOf(r)
    <3>1. st \in RuntimeState /\ GoodState(r, st, nextId)
      BY <2>1 DEF IInv, TypeOK, StatesOf
    <3>. QED
      BY <1>1, <3>1, GoodStateMonotone
  <2>2. CASE st \notin StatesOf(r)
    <3>1. st = new /\ r = s
      BY <1>1, <2>2, <1>6 DEF StatesOf, IInv, TypeOK
    <3>. QED
      BY <1>1, <1>3, <3>1
  <2>. QED
    BY <2>1, <2>2
<1>. QED
  BY <1>4, <1>5, <1>6 DEF IInv

(* Every step keeps the invariant: one case per action of the host.        *)
LEMMA NextInvariant == IInv /\ [Next]_vars => IInv'
<1>. SUFFICES ASSUME IInv, [Next]_vars PROVE IInv'
  OBVIOUS
<1>0. nextId \in Nat /\ nextRun \in Nat /\ Fresh \in Nat
  BY DEF IInv, TypeOK, Fresh
<1>1. ASSUME NEW s \in Sessions, Seed(s) PROVE IInv'
  BY <1>0, <1>1, CreateGood, CommitInvariant DEF Seed, Transition
<1>2. ASSUME NEW s \in Sessions, Start(s) PROVE IInv'
  BY <1>0, <1>2, StartGood, CommitInvariant, AllocateNat DEF Start
<1>3. ASSUME NEW s \in Sessions, Prompt(s) PROVE IInv'
  BY <1>0, <1>3, LiveGood, PromptGood, CommitInvariant, AllocateNat DEF Prompt
<1>4. ASSUME NEW s \in Sessions, AppendAssistant(s) PROVE IInv'
  BY <1>0, <1>4, LiveGood, AssistantGood, CommitInvariant DEF AppendAssistant
<1>5. ASSUME NEW s \in Sessions, RequestEffect(s) PROVE IInv'
  BY <1>5, RequestEffectInvariant
<1>6. ASSUME NEW s \in Sessions, EffectResult(s) PROVE IInv'
  <2>. PICK q \in asked, outcome \in Outcomes :
         /\ Live(s)
         /\ Commit(s, ingestPpprEffectResult(rt[s], q.id, outcome, Fresh))
         /\ Allocate(s)
         /\ UNCHANGED <<saved, asked, nextId>>
    BY <1>6 DEF EffectResult
  <2>1. q.id \in Nat /\ q.id <= nextId
    BY DEF IInv, TypeOK, Request
  <2>. QED
    BY <1>0, <2>1, LiveGood, ResultGood, CommitInvariant, AllocateNat
<1>7. ASSUME NEW s \in Sessions, Cancel(s) PROVE IInv'
  BY <1>0, <1>7, LiveGood, CancelGood, CommitInvariant, AllocateNat DEF Cancel
<1>8. ASSUME NEW s \in Sessions, Save(s) PROVE IInv'
  <2>1. rt[s] \in RuntimeState
    BY <1>8, LiveGood DEF Save
  <2>2. TypeOK'
    BY <1>8, <2>1 DEF Save, IInv, TypeOK
  <2>3. \A r \in Sessions : StatesOf(r)' \subseteq StatesOf(r)
    BY <1>8 DEF Save, StatesOf, IInv, TypeOK
  <2>. QED
    BY <1>8, <2>2, <2>3 DEF Save, IInv
<1>9. ASSUME NEW s \in Sessions, Resume(s) PROVE IInv'
  BY <1>0, <1>9, SavedGood, CommitInvariant DEF Resume, Transition
<1>10. ASSUME NEW s \in Sessions, NEW child \in Sessions, Fork(s, child) PROVE IInv'
  BY <1>0, <1>10, LiveGood, ForkGood, CommitInvariant DEF Fork, Transition
<1>11. CASE Crash
  <2>1. TypeOK'
    BY <1>11 DEF Crash, IInv, TypeOK
  <2>2. \A r \in Sessions : StatesOf(r)' \subseteq StatesOf(r)
    BY <1>11 DEF Crash, StatesOf, IInv, TypeOK
  <2>. QED
    BY <1>11, <2>1, <2>2 DEF Crash, IInv
<1>12. CASE UNCHANGED vars
  BY <1>12 DEF vars, IInv, TypeOK, StatesOf
<1>. QED
  BY <1>1, <1>2, <1>3, <1>4, <1>5, <1>6, <1>7, <1>8, <1>9, <1>10, <1>11, <1>12 DEF Next

(* The strengthened invariant holds in every reachable state.              *)
LEMMA InvariantHolds == Spec => []IInv
  BY InitInvariant, NextInvariant, PTL DEF Spec

(* The states in memory and in store are always runtime states.            *)
THEOREM TypeCorrect == Spec => []TypeOK
<1>1. IInv => TypeOK
  BY DEF IInv
<1>. QED
  BY <1>1, InvariantHolds, PTL

(* A session that reports awaiting_effect always has a pending request.    *)
THEOREM NeverWaitsForNothing == Spec => []AwaitingHasPending
<1>1. IInv => AwaitingHasPending
  BY DEF IInv, AwaitingHasPending, GoodState
<1>. QED
  BY <1>1, InvariantHolds, PTL

(* A request with a recorded result is never pending, in memory or in a    *)
(* snapshot, however results, crashes, resumes and forks interleave.       *)
THEOREM NeverPendingAndFulfilled == Spec => []PendingNotFulfilled
<1>1. IInv => PendingNotFulfilled
  BY DEF IInv, PendingNotFulfilled, GoodState
<1>. QED
  BY <1>1, InvariantHolds, PTL

(* No session ever waits for a request of another one.                     *)
THEOREM NeverWaitsForAnother == Spec => []PendingOwned
<1>1. IInv => PendingOwned
  BY DEF IInv, PendingOwned, GoodState
<1>. QED
  BY <1>1, InvariantHolds, PTL
-----------------------------------------------------------------------------
(* PpprRuntime implements EffectLedger: every step of a host maps to a     *)
(* step of the ledger or leaves it alone.                                  *)

(* Replacing the state of one session replaces its ledger.                 *)
LEMMA LedgerCommit ==
  ASSUME IInv, NEW s \in Sessions, NEW t, Commit(s, t), t.state \in RuntimeState
  PROVE  /\ outstandingBar' = [outstandingBar EXCEPT ![s] = t.state.pending]
         /\ settledBar' = [settledBar EXCEPT ![s] = FulfilledIds(t.state)]
<1>1. t.state # NoState /\ rt' = [rt EXCEPT ![s] = t.state]
  BY SessionsAssumption DEF Commit
<1>2. \A r \in Sessions : rt'[r] = IF r = s THEN t.state ELSE rt[r]
  BY <1>1 DEF IInv, TypeOK
<1>3. outstandingBar' = [outstandingBar EXCEPT ![s] = t.state.pending]
  <2>1. \A r \in Sessions : outstandingBar'[r]
          = IF r = s THEN t.state.pending ELSE outstandingBar[r]
    BY <1>1, <1>2 DEF outstandingBar, Live
  <2>. QED
    BY <2>1 DEF outstandingBar
<1>4. settledBar' = [settledBar EXCEPT ![s] = FulfilledIds(t.state)]
  <2>1. \A r \in Sessions : settledBar'[r]
          = IF r = s THEN FulfilledIds(t.state) ELSE settledBar[r]
    <3>1. \A r \in Sessions : settledBar'[r]
            = IF rt'[r] # NoState THEN FulfilledIds(rt'[r]) ELSE {}
      BY DEF settledBar, Live
    <3>2. \A r \in Sessions : settledBar[r]
            = IF rt[r] # NoState THEN FulfilledIds(rt[r]) ELSE {}
      BY DEF settledBar, Live
    <3>. QED
      BY <1>1, <1>2, <3>1, <3>2
  <2>. QED
    BY <2>1 DEF settledBar
<1>. QED
  BY <1>3, <1>4

(* The ledger of a live session is that of its state.                      *)
LEMMA LedgerOfLive ==
  ASSUME NEW s \in Sessions, Live(s)
  PROVE  outstandingBar[s] = rt[s].pending /\ settledBar[s] = FulfilledIds(rt[s])
  BY DEF outstandingBar, settledBar

(* A transition that leaves pending and fulfilled alone leaves the ledger. *)
LEMMA LedgerUntouched ==
  ASSUME IInv, NEW s \in Sessions, Live(s), NEW t, Commit(s, t), t.state \in RuntimeState,
         t.state.pending = rt[s].pending, t.state.fulfilled = rt[s].fulfilled
  PROVE  UNCHANGED <<outstandingBar, settledBar>>
<1>1. FulfilledIds(t.state) = FulfilledIds(rt[s])
  BY DEF FulfilledIds
<1>2. /\ outstandingBar' = [outstandingBar EXCEPT ![s] = outstandingBar[s]]
      /\ settledBar' = [settledBar EXCEPT ![s] = settledBar[s]]
  BY <1>1, LedgerCommit, LedgerOfLive
<1>3. [outstandingBar EXCEPT ![s] = outstandingBar[s]] = outstandingBar
  BY DEF outstandingBar
<1>4. [settledBar EXCEPT ![s] = settledBar[s]] = settledBar
  BY DEF settledBar
<1>. QED
  BY <1>2, <1>3, <1>4

(* The snapshots' ledgers move only with the snapshots.                    *)
LEMMA StableUntouched == UNCHANGED saved => UNCHANGED stableBar
  BY DEF stableBar, FulfilledIds

(* The initial states of the runtime have empty ledgers.                   *)
LEMMA LedgerInit == Init => Ledger!Init
  BY DEF Init, Ledger!Init, outstandingBar, settledBar, stableBar, Live

(* Every step of a host is a step of the ledger, or leaves it alone.       *)
LEMMA LedgerNext == IInv /\ [Next]_vars => [Ledger!Next]_(Ledger!ledgerVars)
<1>. SUFFICES ASSUME IInv, [Next]_vars PROVE [Ledger!Next]_(Ledger!ledgerVars)
  OBVIOUS
<1>0. nextId \in Nat /\ nextRun \in Nat /\ Fresh \in Nat
  BY DEF IInv, TypeOK, Fresh
<1>1. ASSUME NEW s \in Sessions, Seed(s) PROVE Ledger!Open(s)
  <2>1. /\ createPpprRuntimeState(s) \in RuntimeState
        /\ createPpprRuntimeState(s).pending = {}
        /\ FulfilledIds(createPpprRuntimeState(s)) = {}
    BY <1>0, CreateGood DEF createPpprRuntimeState, FulfilledIds
  <2>. QED
    BY <1>1, <2>1, LedgerCommit, StableUntouched
       DEF Seed, Transition, Ledger!Open, Ledger!Set
<1>2. ASSUME NEW s \in Sessions, Start(s) PROVE Ledger!Open(s)
  <2>1. /\ applyPpprSessionStart(s, Fresh).state \in RuntimeState
        /\ applyPpprSessionStart(s, Fresh).state.pending = {}
        /\ FulfilledIds(applyPpprSessionStart(s, Fresh).state) = {}
    <3>. DEFINE new == [session |-> s, state |-> "running", runId |-> Fresh,
                        pending |-> {}, fulfilled |-> <<>>, conversation |-> <<>>]
    <3>1. new.pending = {} /\ FulfilledIds(new) = {}
      BY DEF FulfilledIds
    <3>. QED
      BY <1>0, <3>1, StartGood, StartState
  <2>. QED
    BY <1>2, <2>1, LedgerCommit, StableUntouched DEF Start, Ledger!Open, Ledger!Set
<1>3. ASSUME NEW s \in Sessions, Prompt(s) PROVE UNCHANGED Ledger!ledgerVars
  <2>. DEFINE t == appendPpprUserMessage(rt[s], Fresh)
  <2>1. rt[s] \in RuntimeState /\ t.state \in RuntimeState
    BY <1>0, <1>3, LiveGood, PromptGood DEF Prompt
  <2>2. t.state.pending = rt[s].pending /\ t.state.fulfilled = rt[s].fulfilled
    BY <2>1 DEF appendPpprUserMessage, Transition, RuntimeState
  <2>. QED
    BY <1>3, <2>1, <2>2, LedgerUntouched, StableUntouched DEF Prompt, Ledger!ledgerVars
<1>4. ASSUME NEW s \in Sessions, AppendAssistant(s) PROVE UNCHANGED Ledger!ledgerVars
  <2>. DEFINE t == appendPpprAssistantMessage(rt[s])
  <2>1. rt[s] \in RuntimeState /\ t.state \in RuntimeState
    BY <1>0, <1>4, LiveGood, AssistantGood DEF AppendAssistant
  <2>2. t.state.pending = rt[s].pending /\ t.state.fulfilled = rt[s].fulfilled
    BY <2>1 DEF appendPpprAssistantMessage, Transition, RuntimeState
  <2>. QED
    BY <1>4, <2>1, <2>2, LedgerUntouched, StableUntouched
       DEF AppendAssistant, Ledger!ledgerVars
<1>5. ASSUME NEW s \in Sessions, RequestEffect(s) PROVE Ledger!Ask(s)
  <2>. DEFINE q == NewRequest(s)
              t == requestPpprEffect(rt[s], q)
  <2>1. q \in Request /\ q.id = nextId + 1 /\ q.session = s
    BY <1>0 DEF NewRequest, Request
  <2>2. rt[s] \in RuntimeState /\ t.state \in RuntimeState
    BY <1>0, <1>5, <2>1, LiveGood, RequestGood DEF RequestEffect
  <2>3. t.state.pending = rt[s].pending \cup {q} /\ t.state.fulfilled = rt[s].fulfilled
    BY <2>2 DEF requestPpprEffect, Transition, RuntimeState
  <2>4. FulfilledIds(t.state) = FulfilledIds(rt[s])
    BY <2>3 DEF FulfilledIds
  <2>. QED
    BY <1>5, <2>2, <2>3, <2>4, LedgerCommit, LedgerOfLive, StableUntouched
       DEF RequestEffect, NewRequest, Ledger!Ask, Ledger!Set
<1>6. ASSUME NEW s \in Sessions, EffectResult(s) PROVE Ledger!Settle(s)
  <2>. PICK q \in asked, outcome \in Outcomes :
         /\ Live(s)
         /\ Commit(s, ingestPpprEffectResult(rt[s], q.id, outcome, Fresh))
         /\ UNCHANGED <<saved, asked, nextId>>
    BY <1>6 DEF EffectResult
  <2>. DEFINE t == ingestPpprEffectResult(rt[s], q.id, outcome, Fresh)
              f == [request |-> q.id, outcome |-> outcome]
  <2>1. q.id \in Nat /\ q.id <= nextId
    BY DEF IInv, TypeOK, Request
  <2>2. rt[s] \in RuntimeState /\ t.state \in RuntimeState
    BY <1>0, <2>1, LiveGood, ResultGood
  <2>3. /\ t.state.pending = {p \in rt[s].pending : p.id # q.id}
        /\ t.state.fulfilled = Append(rt[s].fulfilled, f)
    BY <2>2 DEF ingestPpprEffectResult, Transition, RuntimeState
  <2>4. FulfilledIds(t.state) = FulfilledIds(rt[s]) \cup {q.id}
    <3>1. f \in Fulfillment /\ f.request = q.id /\ rt[s].fulfilled \in Seq(Fulfillment)
      BY <2>1, <2>2 DEF Fulfillment, RuntimeState
    <3>. HIDE DEF f, t
    <3>2. FulfilledIds(t.state)
            = {Append(rt[s].fulfilled, f)[i].request : i \in DOMAIN Append(rt[s].fulfilled, f)}
      BY <2>3 DEF FulfilledIds
    <3>3. {Append(rt[s].fulfilled, f)[i].request : i \in DOMAIN Append(rt[s].fulfilled, f)}
            = {rt[s].fulfilled[i].request : i \in DOMAIN rt[s].fulfilled} \cup {f.request}
      BY <3>1, FulfilledAppend
    <3>. QED
      BY <3>1, <3>2, <3>3 DEF FulfilledIds
  <2>. QED
    BY <2>2, <2>3, <2>4, LedgerCommit, LedgerOfLive, StableUntouched
       DEF Ledger!Settle, Ledger!Set
<1>7. ASSUME NEW s \in Sessions, Cancel(s) PROVE UNCHANGED Ledger!ledgerVars
  <2>. DEFINE t == cancelPpprRuntime(rt[s], Fresh)
  <2>1. rt[s] \in RuntimeState /\ t.state \in RuntimeState
    BY <1>0, <1>7, LiveGood, CancelGood DEF Cancel
  <2>2. t.state.pending = rt[s].pending /\ t.state.fulfilled = rt[s].fulfilled
    BY <2>1 DEF cancelPpprRuntime, Transition, RuntimeState
  <2>. QED
    BY <1>7, <2>1, <2>2, LedgerUntouched, StableUntouched DEF Cancel, Ledger!ledgerVars
<1>8. ASSUME NEW s \in Sessions, Save(s) PROVE Ledger!Checkpoint(s)
  <2>1. rt[s] \in RuntimeState /\ rt[s] # NoState
    BY <1>8, LiveGood DEF Save, Live
  <2>2. UNCHANGED <<outstandingBar, settledBar>>
    BY <1>8 DEF Save, outstandingBar, settledBar, Live, FulfilledIds
  <2>3. \A r \in Sessions : saved'[r] = IF r = s THEN rt[s] ELSE saved[r]
    BY <1>8 DEF Save, IInv, TypeOK
  <2>4. stableBar' = [stableBar EXCEPT ![s] =
          {[outstanding |-> rt[s].pending, settled |-> FulfilledIds(rt[s])]}]
    BY <2>1, <2>3 DEF stableBar, FulfilledIds
  <2>. QED
    BY <1>8, <2>2, <2>4, LedgerOfLive DEF Save, Ledger!Checkpoint
<1>9. ASSUME NEW s \in Sessions, Resume(s) PROVE Ledger!Restore(s)
  <2>1. saved[s] \in RuntimeState
    BY <1>9, SavedGood DEF Resume
  <2>. DEFINE copy == [outstanding |-> saved[s].pending, settled |-> FulfilledIds(saved[s])]
  <2>2. copy \in stableBar[s]
    BY <1>9 DEF Resume, stableBar
  <2>. QED
    BY <1>9, <2>1, <2>2, LedgerCommit, StableUntouched
       DEF Resume, Transition, Ledger!Restore, Ledger!Set
<1>10. ASSUME NEW s \in Sessions, NEW child \in Sessions, Fork(s, child)
       PROVE  Ledger!Copy(s, child)
  <2>. DEFINE st == createPpprForkSessionAction(rt[s], child)
  <2>1. rt[s] \in RuntimeState /\ st \in RuntimeState
    BY <1>0, <1>10, LiveGood, ForkGood DEF Fork
  <2>2. st.pending = {} /\ st.fulfilled = rt[s].fulfilled
    BY <2>1 DEF createPpprForkSessionAction, RuntimeState
  <2>3. FulfilledIds(st) = FulfilledIds(rt[s])
    BY <2>2 DEF FulfilledIds
  <2>. QED
    BY <1>10, <2>1, <2>2, <2>3, LedgerCommit, LedgerOfLive, StableUntouched
       DEF Fork, Transition, Ledger!Copy, Ledger!Set
<1>11. CASE Crash
  <2>1. Ledger!Forget
    BY <1>11, StableUntouched DEF Crash, Ledger!Forget, outstandingBar, settledBar, Live
  <2>. QED
    BY <2>1 DEF Ledger!Next
<1>12. CASE UNCHANGED vars
  BY <1>12 DEF vars, Ledger!ledgerVars, outstandingBar, settledBar, stableBar, Live,
               FulfilledIds
<1>. QED
  BY <1>1, <1>2, <1>3, <1>4, <1>5, <1>6, <1>7, <1>8, <1>9, <1>10, <1>11, <1>12
     DEF Next, Ledger!Next

(* For any sessions and bounds, the runtime under an arbitrary host         *)
(* implements the effect ledger: results, cancellations, snapshots, crashes *)
(* and forks can neither lose an outstanding request nor revive a settled   *)
(* one within a line of states.                                             *)
THEOREM RuntimeKeepsLedger == Spec => LedgerSpec
<1>1. Init => Ledger!Init
  BY LedgerInit
<1>2. IInv /\ [Next]_vars => [Ledger!Next]_(Ledger!ledgerVars)
  BY LedgerNext
<1>. QED
  BY <1>1, <1>2, InvariantHolds, PTL DEF Spec, LedgerSpec, Ledger!Spec
-----------------------------------------------------------------------------
(* The action properties: what a step adds to the history of a session,    *)
(* and what it reports.  They need only that the states are runtime        *)
(* states.                                                                 *)

(* A sequence extends itself, and so does it with one more element.        *)
LEMMA ExtendsAppend ==
  ASSUME NEW T, NEW seq \in Seq(T), NEW e \in T
  PROVE  Extends(seq, seq) /\ Extends(seq, Append(seq, e))
<1>1. Extends(seq, seq)
  BY DEF Extends
<1>2. SubSeq(Append(seq, e), 1, Len(seq)) = seq
  OBVIOUS
<1>3. Len(Append(seq, e)) = Len(seq) + 1 /\ Len(seq) \in Nat
  OBVIOUS
<1>. QED
  BY <1>1, <1>2, <1>3 DEF Extends

\* HistoryKept for one session, and the part of it that needs an argument.
Kept(old, new) ==
  /\ Extends(old.conversation, new.conversation)
  /\ Extends(old.fulfilled, new.fulfilled)
  /\ PendingIds(old) \subseteq PendingIds(new) \cup FulfilledIds(new)

(* A state that stays keeps its history.                                   *)
LEMMA KeptSame ==
  ASSUME NEW st \in RuntimeState, NEW new,
         new.conversation = st.conversation, new.fulfilled = st.fulfilled,
         st.pending \subseteq new.pending
  PROVE  Kept(st, new)
<1>1. st.conversation \in Seq({"user", "assistant"}) /\ st.fulfilled \in Seq(Fulfillment)
  BY DEF RuntimeState
<1>2. Extends(st.conversation, st.conversation) /\ Extends(st.fulfilled, st.fulfilled)
  BY <1>1 DEF Extends
<1>. QED
  BY <1>2 DEF Kept, PendingIds

(* One more message is one more entry of the conversation.                 *)
LEMMA KeptMessage ==
  ASSUME NEW st \in RuntimeState, NEW new, NEW author \in {"user", "assistant"},
         new.conversation = Append(st.conversation, author), new.fulfilled = st.fulfilled,
         new.pending = st.pending
  PROVE  Kept(st, new)
<1>1. st.conversation \in Seq({"user", "assistant"}) /\ st.fulfilled \in Seq(Fulfillment)
  BY DEF RuntimeState
<1>2. Extends(st.conversation, Append(st.conversation, author))
  BY <1>1, ExtendsAppend
<1>3. Extends(st.fulfilled, st.fulfilled)
  BY <1>1 DEF Extends
<1>. QED
  BY <1>2, <1>3 DEF Kept, PendingIds

(* A request is one more pending effect.                                   *)
LEMMA KeptRequest ==
  ASSUME NEW st \in RuntimeState, NEW q
  PROVE  Kept(st, requestPpprEffect(st, q).state)
<1>1. /\ requestPpprEffect(st, q).state.conversation = st.conversation
      /\ requestPpprEffect(st, q).state.fulfilled = st.fulfilled
      /\ requestPpprEffect(st, q).state.pending = st.pending \cup {q}
  BY DEF requestPpprEffect, Transition, RuntimeState
<1>. QED
  BY <1>1, KeptSame

(* A result moves its id from the pending to the fulfilled ones.           *)
LEMMA KeptResult ==
  ASSUME NEW st \in RuntimeState, NEW id \in Nat, NEW outcome \in Outcomes, NEW fresh
  PROVE  Kept(st, ingestPpprEffectResult(st, id, outcome, fresh).state)
<1>. DEFINE f   == [request |-> id, outcome |-> outcome]
            new == ingestPpprEffectResult(st, id, outcome, fresh).state
<1>1. /\ st.conversation \in Seq({"user", "assistant"})
      /\ st.fulfilled \in Seq(Fulfillment) /\ f \in Fulfillment
  BY DEF RuntimeState, Fulfillment
<1>2. /\ new.conversation = st.conversation
      /\ new.pending = {q \in st.pending : q.id # id}
      /\ new.fulfilled = Append(st.fulfilled, f)
  BY DEF ingestPpprEffectResult, Transition, RuntimeState
<1>3. f.request = id
  OBVIOUS
<1>. HIDE DEF f, new
<1>4. Extends(st.conversation, st.conversation)
  BY <1>1 DEF Extends
<1>5. Extends(st.fulfilled, new.fulfilled)
  BY <1>1, <1>2, ExtendsAppend
<1>6. id \in FulfilledIds(new)
  BY <1>1, <1>2, <1>3, FulfilledAppend DEF FulfilledIds
<1>7. PendingIds(st) \subseteq PendingIds(new) \cup {id}
  BY <1>2 DEF PendingIds
<1>8. Kept(st, new)
  BY <1>2, <1>4, <1>5, <1>6, <1>7 DEF Kept
<1>. QED
  BY <1>8 DEF new

(* A step of one session leaves the others as they are.                    *)
LEMMA OthersStay ==
  ASSUME IInv, NEW s \in Sessions, NEW t, Commit(s, t)
  PROVE  /\ rt'[s] = t.state
         /\ \A r \in Sessions : r # s => rt'[r] = rt[r]
  BY DEF Commit, IInv, TypeOK

(* Every step keeps the history of every session that it lets progress.    *)
LEMMA NextKeepsHistory ==
  ASSUME IInv, Next, NEW r \in Sessions, Progressed(r)
  PROVE  Kept(rt[r], rt'[r])
<1>0. rt[r] \in RuntimeState
  BY LiveGood DEF Progressed
<1>1. CASE rt'[r] = rt[r]
  BY <1>0, <1>1, KeptSame
<1>2. ASSUME NEW s \in Sessions, Start(s), rt'[r] # rt[r] PROVE Kept(rt[r], rt'[r])
  <2>1. r = s /\ rt'[r] = applyPpprSessionStart(s, Fresh).state /\ Fresh \in Nat
    BY <1>2, OthersStay DEF Start, IInv, TypeOK, Fresh
  <2>2. rt'[r] = [session |-> s, state |-> "running", runId |-> Fresh, pending |-> {},
                  fulfilled |-> <<>>, conversation |-> <<>>]
    BY <2>1, StartState
  <2>. QED
    BY <2>2 DEF Progressed
<1>3. ASSUME NEW s \in Sessions, Prompt(s), rt'[r] # rt[r] PROVE Kept(rt[r], rt'[r])
  <2>1. r = s /\ rt'[r] = appendPpprUserMessage(rt[r], Fresh).state
    BY <1>3, OthersStay DEF Prompt
  <2>2. /\ rt'[r].conversation = Append(rt[r].conversation, "user")
        /\ rt'[r].fulfilled = rt[r].fulfilled /\ rt'[r].pending = rt[r].pending
    BY <1>0, <2>1 DEF appendPpprUserMessage, Transition, RuntimeState
  <2>. QED
    BY <1>0, <2>2, KeptMessage
<1>4. ASSUME NEW s \in Sessions, AppendAssistant(s), rt'[r] # rt[r] PROVE Kept(rt[r], rt'[r])
  <2>1. r = s /\ rt'[r] = appendPpprAssistantMessage(rt[r]).state
    BY <1>4, OthersStay DEF AppendAssistant
  <2>2. /\ rt'[r].conversation = Append(rt[r].conversation, "assistant")
        /\ rt'[r].fulfilled = rt[r].fulfilled /\ rt'[r].pending = rt[r].pending
    BY <1>0, <2>1 DEF appendPpprAssistantMessage, Transition, RuntimeState
  <2>. QED
    BY <1>0, <2>2, KeptMessage
<1>5. ASSUME NEW s \in Sessions, RequestEffect(s), rt'[r] # rt[r] PROVE Kept(rt[r], rt'[r])
  <2>1. r = s /\ rt'[r] = requestPpprEffect(rt[r], NewRequest(r)).state
    BY <1>5, OthersStay DEF RequestEffect
  <2>. QED
    BY <1>0, <2>1, KeptRequest
<1>6. ASSUME NEW s \in Sessions, EffectResult(s), rt'[r] # rt[r] PROVE Kept(rt[r], rt'[r])
  <2>. PICK q \in asked, outcome \in Outcomes :
         Commit(s, ingestPpprEffectResult(rt[s], q.id, outcome, Fresh))
    BY <1>6 DEF EffectResult
  <2>1. r = s /\ rt'[r] = ingestPpprEffectResult(rt[r], q.id, outcome, Fresh).state
    BY <1>6, OthersStay
  <2>2. q.id \in Nat
    BY DEF IInv, TypeOK, Request
  <2>. QED
    BY <1>0, <2>1, <2>2, KeptResult
<1>7. ASSUME NEW s \in Sessions, Cancel(s), rt'[r] # rt[r] PROVE Kept(rt[r], rt'[r])
  <2>1. r = s /\ rt'[r] = cancelPpprRuntime(rt[r], Fresh).state
    BY <1>7, OthersStay DEF Cancel
  <2>2. /\ rt'[r].conversation = rt[r].conversation
        /\ rt'[r].fulfilled = rt[r].fulfilled /\ rt'[r].pending = rt[r].pending
    BY <1>0, <2>1 DEF cancelPpprRuntime, Transition, RuntimeState
  <2>. QED
    BY <1>0, <2>2, KeptSame
<1>8. ASSUME NEW s \in Sessions, Seed(s) \/ Save(s) \/ Resume(s), rt'[r] # rt[r]
      PROVE  Kept(rt[r], rt'[r])
  <2>1. CASE Seed(s)
    BY <1>8, <2>1, OthersStay DEF Seed, Progressed
  <2>2. CASE Save(s)
    BY <1>8, <2>2 DEF Save
  <2>3. CASE Resume(s)
    BY <1>8, <2>3, OthersStay DEF Resume, Progressed, Transition
  <2>. QED
    BY <1>8, <2>1, <2>2, <2>3
<1>9. ASSUME NEW s \in Sessions, NEW child \in Sessions, Fork(s, child), rt'[r] # rt[r]
      PROVE  Kept(rt[r], rt'[r])
  BY <1>9, OthersStay DEF Fork, Progressed
<1>10. CASE Crash
  BY <1>10 DEF Crash, Progressed, Live
<1>. QED
  BY <1>1, <1>2, <1>3, <1>4, <1>5, <1>6, <1>7, <1>8, <1>9, <1>10 DEF Next

(* Progress only adds to the history of a session (runtime.ts 144-268).    *)
THEOREM HistoryIsKept == Spec => HistoryKept
<1>. DEFINE Step == \A s \in Sessions : Progressed(s) => Kept(rt[s], rt'[s])
<1>1. IInv /\ [Next]_vars => [Step]_vars
  BY NextKeepsHistory
<1>. HIDE DEF Step
<1>2. Spec => [][Step]_vars
  BY <1>1, InvariantHolds, PTL DEF Spec
<1>. QED
  BY <1>2 DEF HistoryKept, Step, Kept

\* StatusReported for one session: the status events among the outputs tell
\* how the lifecycle moved from old to new.
StatusRecords == [kind : {"status.changed"}, session : Sessions, from : Lifecycle, to : Lifecycle]

EventsOf(out) == {out[i] : i \in DOMAIN out} \cap StatusRecords

Reported(s, old, new, out) ==
  IF new.state # old.state \/ EventsOf(out) # {}
  THEN EventsOf(out) = {[kind |-> "status.changed", session |-> s,
                         from |-> old.state, to |-> new.state]}
  ELSE out = <<>> \/ out = <<AssistantSaid(old)>>

\* The one status event a transition from old to new may emit.
Change(s, old, new) ==
  [kind |-> "status.changed", session |-> s, from |-> old.state, to |-> new.state]

(* The status event of a transition is a status record of its session.     *)
LEMMA StatusRecord ==
  ASSUME NEW s \in Sessions, NEW old \in RuntimeState, NEW new \in RuntimeState,
         new.session = s
  PROVE  /\ StatusChanged(old.state, new) = Change(s, old, new)
         /\ Change(s, old, new) \in StatusRecords
  BY DEF StatusChanged, Change, StatusRecords, RuntimeState

(* An output that holds the status event, alone or with one event of       *)
(* another kind, reports the change.                                       *)
LEMMA ReportedWith ==
  ASSUME NEW s \in Sessions, NEW old \in RuntimeState, NEW new \in RuntimeState,
         NEW other, other.kind # "status.changed",
         NEW out \in {<<Change(s, old, new)>>, <<other, Change(s, old, new)>>,
                      <<Change(s, old, new), other>>}
  PROVE  Reported(s, old, new, out)
<1>. DEFINE e == Change(s, old, new)
<1>1. e \in StatusRecords /\ other \notin StatusRecords
  BY DEF Change, StatusRecords, RuntimeState
<1>2. {out[i] : i \in DOMAIN out} \in {{e}, {e, other}}
  <2>. HIDE DEF e
  <2>1. CASE out = <<e>>
    <3>1. DOMAIN out = {1}
      BY <2>1
    <3>. QED
      BY <2>1, <3>1
  <2>2. CASE out = <<other, e>>
    <3>1. DOMAIN out = {1, 2}
      BY <2>2
    <3>. QED
      BY <2>2, <3>1
  <2>3. CASE out = <<e, other>>
    <3>1. DOMAIN out = {1, 2}
      BY <2>3
    <3>. QED
      BY <2>3, <3>1
  <2>. QED
    BY <2>1, <2>2, <2>3 DEF e
<1>. HIDE DEF e
<1>3. EventsOf(out) = {e}
  BY <1>1, <1>2 DEF EventsOf
<1>. QED
  BY <1>3 DEF Reported, e, Change

(* Without a change there may be no event, or an assistant message.        *)
LEMMA ReportedQuietly ==
  ASSUME NEW s \in Sessions, NEW old \in RuntimeState, NEW new, new.state = old.state,
         NEW out, out = <<>> \/ out = <<AssistantSaid(old)>>
  PROVE  Reported(s, old, new, out)
<1>1. AssistantSaid(old) \notin StatusRecords
  BY DEF AssistantSaid, StatusRecords
<1>2. EventsOf(out) = {}
  <2>1. CASE out = <<>>
    BY <2>1 DEF EventsOf
  <2>2. CASE out = <<AssistantSaid(old)>>
    <3>. DEFINE a == AssistantSaid(old)
    <3>. HIDE DEF a
    <3>1. out = <<a>>
      BY <2>2 DEF a
    <3>2. DOMAIN out = {1} /\ out[1] = a
      BY <3>1
    <3>. QED
      BY <1>1, <3>2 DEF EventsOf, a
  <2>. QED
    BY <2>1, <2>2
<1>. QED
  BY <1>2 DEF Reported

(* A prompt reports that a session runs, unless it does already.           *)
LEMMA PromptReported ==
  ASSUME NEW s \in Sessions, NEW st \in RuntimeState, NEW n \in Nat, GoodState(s, st, n),
         NEW fresh \in Nat
  PROVE  Reported(s, st, appendPpprUserMessage(st, fresh).state,
                  appendPpprUserMessage(st, fresh).outputs)
<1>. DEFINE new == appendPpprUserMessage(st, fresh).state
            out == appendPpprUserMessage(st, fresh).outputs
<1>1. new \in RuntimeState /\ GoodState(s, new, n)
  BY PromptGood
<1>2. new.session = s
  BY <1>1 DEF GoodState
<1>3. CASE st.state = "running"
  <2>1. new.state = st.state /\ out = <<>>
    BY <1>3 DEF appendPpprUserMessage, Transition, RuntimeState
  <2>. HIDE DEF new, out
  <2>2. Reported(s, st, new, out)
    BY <2>1, ReportedQuietly
  <2>. QED
    BY <2>2 DEF new, out
<1>4. CASE st.state # "running"
  <2>1. out = <<RunStarted(new), StatusChanged(st.state, new)>>
    BY <1>4 DEF appendPpprUserMessage, Transition
  <2>2. RunStarted(new).kind # "status.changed"
    BY DEF RunStarted
  <2>. HIDE DEF new, out
  <2>3. out = <<RunStarted(new), Change(s, st, new)>>
    BY <1>1, <1>2, <2>1, StatusRecord
  <2>4. Reported(s, st, new, out)
    BY <1>1, <1>2, <2>2, <2>3, ReportedWith
  <2>. QED
    BY <2>4 DEF new, out
<1>. QED
  BY <1>3, <1>4

(* A request reports that a session waits.                                 *)
LEMMA RequestReported ==
  ASSUME NEW s \in Sessions, NEW st \in RuntimeState, NEW n \in Nat, GoodState(s, st, n),
         NEW q \in Request, q.id = n + 1, q.session = s
  PROVE  Reported(s, st, requestPpprEffect(st, q).state, requestPpprEffect(st, q).outputs)
<1>. DEFINE new == requestPpprEffect(st, q).state
            out == requestPpprEffect(st, q).outputs
<1>1. new \in RuntimeState /\ GoodState(s, new, n + 1)
  BY RequestGood
<1>2. new.session = s
  BY <1>1 DEF GoodState
<1>3. out = <<EffectRequested(new, q), StatusChanged(st.state, new)>>
  BY DEF requestPpprEffect, Transition
<1>4. EffectRequested(new, q).kind # "status.changed"
  BY DEF EffectRequested
<1>. HIDE DEF new, out
<1>5. Reported(s, st, new, out)
  BY <1>1, <1>2, <1>3, <1>4, StatusRecord, ReportedWith
<1>. QED
  BY <1>5 DEF new, out

(* A result reports that a session runs on, or has failed.                 *)
LEMMA ResultReported ==
  ASSUME NEW s \in Sessions, NEW st \in RuntimeState, NEW n \in Nat, GoodState(s, st, n),
         NEW fresh \in Nat, NEW id \in Nat, NEW outcome \in Outcomes, id <= n
  PROVE  Reported(s, st, ingestPpprEffectResult(st, id, outcome, fresh).state,
                  ingestPpprEffectResult(st, id, outcome, fresh).outputs)
<1>. DEFINE new == ingestPpprEffectResult(st, id, outcome, fresh).state
            out == ingestPpprEffectResult(st, id, outcome, fresh).outputs
<1>1. new \in RuntimeState /\ GoodState(s, new, n)
  BY ResultGood
<1>2. new.session = s
  BY <1>1 DEF GoodState
<1>3. \/ out = <<StatusChanged(st.state, new)>>
      \/ out = <<StatusChanged(st.state, new), RunFailed(new)>>
  BY DEF ingestPpprEffectResult, Transition
<1>4. RunFailed(new).kind # "status.changed"
  BY DEF RunFailed
<1>. HIDE DEF new, out
<1>5. /\ out \in {<<Change(s, st, new)>>, <<RunFailed(new), Change(s, st, new)>>,
                 <<Change(s, st, new), RunFailed(new)>>}
  <2>1. StatusChanged(st.state, new) = Change(s, st, new)
    BY <1>1, <1>2, StatusRecord
  <2>. QED
    BY <1>3, <2>1
<1>6. Reported(s, st, new, out)
  BY <1>1, <1>2, <1>4, <1>5, ReportedWith
<1>. QED
  BY <1>6 DEF new, out

(* A cancelled session reports that it has stopped.                        *)
LEMMA CancelReported ==
  ASSUME NEW s \in Sessions, NEW st \in RuntimeState, NEW n \in Nat, GoodState(s, st, n),
         NEW fresh \in Nat
  PROVE  Reported(s, st, cancelPpprRuntime(st, fresh).state, cancelPpprRuntime(st, fresh).outputs)
<1>. DEFINE new == cancelPpprRuntime(st, fresh).state
            out == cancelPpprRuntime(st, fresh).outputs
<1>1. new \in RuntimeState /\ GoodState(s, new, n)
  BY CancelGood
<1>2. new.session = s
  BY <1>1 DEF GoodState
<1>3. out = <<StatusChanged(st.state, new), RunCompleted(new)>>
  BY DEF cancelPpprRuntime, Transition
<1>4. RunCompleted(new).kind # "status.changed"
  BY DEF RunCompleted
<1>. HIDE DEF new, out
<1>5. Reported(s, st, new, out)
  BY <1>1, <1>2, <1>3, <1>4, StatusRecord, ReportedWith
<1>. QED
  BY <1>5 DEF new, out

(* Every step reports what it does to a session that it lets progress.     *)
LEMMA NextReports ==
  ASSUME IInv, Next, NEW r \in Sessions, Progressed(r), rt'[r] # rt[r]
  PROVE  Reported(r, rt[r], rt'[r], outputs')
<1>0. /\ rt[r] \in RuntimeState /\ GoodState(r, rt[r], nextId)
      /\ Fresh \in Nat /\ nextId \in Nat
  BY LiveGood DEF Progressed, IInv, TypeOK, Fresh
<1>1. ASSUME NEW s \in Sessions, Seed(s) \/ Start(s) \/ Save(s) \/ Resume(s) PROVE FALSE
  <2>1. CASE Seed(s)
    BY <2>1, OthersStay DEF Seed, Progressed
  <2>2. CASE Start(s)
    <3>1. r = s /\ rt'[r] = applyPpprSessionStart(s, Fresh).state
      BY <2>2, OthersStay DEF Start
    <3>2. rt'[r] = [session |-> s, state |-> "running", runId |-> Fresh, pending |-> {},
                    fulfilled |-> <<>>, conversation |-> <<>>]
      BY <1>0, <3>1, StartState
    <3>. QED
      BY <3>2 DEF Progressed
  <2>3. CASE Save(s)
    BY <2>3 DEF Save
  <2>4. CASE Resume(s)
    BY <2>4, OthersStay DEF Resume, Progressed, Transition
  <2>. QED
    BY <1>1, <2>1, <2>2, <2>3, <2>4
<1>2. ASSUME NEW s \in Sessions, Prompt(s) PROVE Reported(r, rt[r], rt'[r], outputs')
  <2>1. /\ rt'[r] = appendPpprUserMessage(rt[r], Fresh).state
        /\ outputs' = appendPpprUserMessage(rt[r], Fresh).outputs
    BY <1>2, OthersStay DEF Prompt, Commit
  <2>. QED
    BY <1>0, <2>1, PromptReported
<1>3. ASSUME NEW s \in Sessions, AppendAssistant(s) PROVE Reported(r, rt[r], rt'[r], outputs')
  <2>1. /\ rt'[r] = appendPpprAssistantMessage(rt[r]).state
        /\ outputs' = appendPpprAssistantMessage(rt[r]).outputs
    BY <1>3, OthersStay DEF AppendAssistant, Commit
  <2>2. rt'[r].state = rt[r].state /\ outputs' = <<AssistantSaid(rt[r])>>
    BY <1>0, <2>1 DEF appendPpprAssistantMessage, Transition, RuntimeState
  <2>. QED
    BY <1>0, <2>2, ReportedQuietly
<1>4. ASSUME NEW s \in Sessions, RequestEffect(s) PROVE Reported(r, rt[r], rt'[r], outputs')
  <2>1. /\ rt'[r] = requestPpprEffect(rt[r], NewRequest(r)).state
        /\ outputs' = requestPpprEffect(rt[r], NewRequest(r)).outputs
    BY <1>4, OthersStay DEF RequestEffect, Commit
  <2>2. /\ NewRequest(r) \in Request
        /\ NewRequest(r).id = nextId + 1 /\ NewRequest(r).session = r
    BY <1>0 DEF NewRequest, Request
  <2>. QED
    BY <1>0, <2>1, <2>2, RequestReported
<1>5. ASSUME NEW s \in Sessions, EffectResult(s) PROVE Reported(r, rt[r], rt'[r], outputs')
  <2>. PICK q \in asked, outcome \in Outcomes :
         Commit(s, ingestPpprEffectResult(rt[s], q.id, outcome, Fresh))
    BY <1>5 DEF EffectResult
  <2>1. /\ rt'[r] = ingestPpprEffectResult(rt[r], q.id, outcome, Fresh).state
        /\ outputs' = ingestPpprEffectResult(rt[r], q.id, outcome, Fresh).outputs
    BY OthersStay DEF Commit
  <2>2. q.id \in Nat /\ q.id <= nextId
    BY DEF IInv, TypeOK, Request
  <2>. QED
    BY <1>0, <2>1, <2>2, ResultReported
<1>6. ASSUME NEW s \in Sessions, Cancel(s) PROVE Reported(r, rt[r], rt'[r], outputs')
  <2>1. /\ rt'[r] = cancelPpprRuntime(rt[r], Fresh).state
        /\ outputs' = cancelPpprRuntime(rt[r], Fresh).outputs
    BY <1>6, OthersStay DEF Cancel, Commit
  <2>. QED
    BY <1>0, <2>1, CancelReported
<1>7. ASSUME NEW s \in Sessions, NEW child \in Sessions, Fork(s, child) PROVE FALSE
  BY <1>7, OthersStay DEF Fork, Progressed
<1>8. CASE Crash
  BY <1>8 DEF Crash, Progressed, Live
<1>. QED
  BY <1>1, <1>2, <1>3, <1>4, <1>5, <1>6, <1>7, <1>8 DEF Next

(* A host that reads status.changed events only can follow the lifecycle   *)
(* of a session until it is started anew or resumed: a resume is silent    *)
(* (runtime.ts 40-56, 129-142).                                            *)
THEOREM StatusIsReported == Spec => StatusReported
<1>. DEFINE Told ==
       \A s \in Sessions : Progressed(s) /\ rt'[s] # rt[s] =>
         IF rt'[s].state # rt[s].state \/ StatusEvents' # {}
         THEN StatusEvents' = {[kind |-> "status.changed", session |-> s,
                                from |-> rt[s].state, to |-> rt'[s].state]}
         ELSE outputs' = <<>> \/ outputs' = <<AssistantSaid(rt[s])>>
<1>1. IInv /\ [Next]_vars => [Told]_vars
  <2>1. StatusEvents' = EventsOf(outputs')
    BY DEF StatusEvents, EventsOf, StatusRecords
  <2>. QED
    BY <2>1, NextReports DEF Reported
<1>. HIDE DEF Told
<1>2. Spec => [][Told]_vars
  BY <1>1, InvariantHolds, PTL DEF Spec
<1>. QED
  BY <1>2 DEF StatusReported, Told
=============================================================================
