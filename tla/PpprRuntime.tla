---------------------------- MODULE PpprRuntime ----------------------------
(***************************************************************************)
(* The runtime of PpprTransitions in the hands of a host that owns several *)
(* sessions, asks for effects, delivers their results in time, late or     *)
(* twice, persists snapshots, crashes, resumes and forks (ir.ts,           *)
(* cli-host.ts).                                                           *)
(***************************************************************************)
EXTENDS PpprTransitions

CONSTANTS
  NoState,          \* the runtime state of a session that has none (undefined)
  MaxRuns,          \* bound on run ids
  MaxRequests,      \* bound on effect requests
  MaxConversation,  \* bound on conversation entries of a state
  MaxFulfilled      \* bound on fulfillment records of a state

VARIABLES
  rt,         \* session -> runtime state held in memory, or NoState
  saved,      \* session -> snapshot the host has persisted, or NoState
  outputs,    \* output events returned by the last transition
  asked,      \* every effect request created so far, in any session
  nextId,     \* number of request ids allocated so far
  nextRun     \* number of run ids allocated so far

vars == <<rt, saved, outputs, asked, nextId, nextRun>>

ASSUME SessionsAssumption == NoState \notin RuntimeState
ASSUME BoundsAssumption ==
  /\ MaxRuns \in Nat /\ MaxRequests \in Nat
  /\ MaxConversation \in Nat /\ MaxFulfilled \in Nat
-----------------------------------------------------------------------------
Live(s) == rt[s] # NoState

Fresh == nextRun + 1

Commit(s, t) ==
  /\ rt' = [rt EXCEPT ![s] = t.state]
  /\ outputs' = t.outputs

\* nextRun moves exactly when the transition consumed the fresh id.
Allocate(s) ==
  /\ nextRun' = IF rt'[s].runId = Fresh THEN Fresh ELSE nextRun
  /\ nextRun' <= MaxRuns

\* A host builds an idle state without an input (createPpprIrSession with a
\* state of createPpprRuntimeState).
Seed(s) ==
  /\ ~Live(s)
  /\ Commit(s, Transition(createPpprRuntimeState(s), <<>>))
  /\ UNCHANGED <<saved, asked, nextId, nextRun>>

Start(s) ==
  /\ Commit(s, applyPpprSessionStart(s, Fresh))
  /\ Allocate(s)
  /\ UNCHANGED <<saved, asked, nextId>>

Prompt(s) ==
  /\ Live(s)
  /\ Len(rt[s].conversation) < MaxConversation
  /\ Commit(s, appendPpprUserMessage(rt[s], Fresh))
  /\ Allocate(s)
  /\ UNCHANGED <<saved, asked, nextId>>

AppendAssistant(s) ==
  /\ Live(s)
  /\ Len(rt[s].conversation) < MaxConversation
  /\ Commit(s, appendPpprAssistantMessage(rt[s]))
  /\ UNCHANGED <<saved, asked, nextId, nextRun>>

NewRequest(s) == [id |-> nextId + 1, session |-> s]

RequestEffect(s) ==
  /\ Live(s) /\ nextId < MaxRequests
  /\ Commit(s, requestPpprEffect(rt[s], NewRequest(s)))
  /\ asked' = asked \cup {NewRequest(s)}
  /\ nextId' = nextId + 1
  /\ UNCHANGED <<saved, nextRun>>

\* A result of some request: in time, late, once more, or, as nothing compares
\* it with what is pending, of a request another session made.
EffectResult(s) ==
  \E q \in asked, outcome \in Outcomes :
    /\ Live(s)
    /\ Len(rt[s].fulfilled) < MaxFulfilled
    /\ Commit(s, ingestPpprEffectResult(rt[s], q.id, outcome, Fresh))
    /\ Allocate(s)
    /\ UNCHANGED <<saved, asked, nextId>>

Cancel(s) ==
  /\ Live(s)
  /\ Commit(s, cancelPpprRuntime(rt[s], Fresh))
  /\ Allocate(s)
  /\ UNCHANGED <<saved, asked, nextId>>

\* The host persists createPpprSnapshot(state).
Save(s) ==
  /\ Live(s)
  /\ saved' = [saved EXCEPT ![s] = rt[s]]
  /\ outputs' = <<>>
  /\ UNCHANGED <<rt, asked, nextId, nextRun>>

\* The process of the host stops: every in-memory state is gone.
Crash ==
  /\ \E s \in Sessions : Live(s)
  /\ rt' = [s \in Sessions |-> NoState]
  /\ outputs' = <<>>
  /\ UNCHANGED <<saved, asked, nextId, nextRun>>

\* session.resume replaces whatever the session held, and is silent.
Resume(s) ==
  /\ saved[s] # NoState
  /\ Commit(s, Transition(saved[s], <<>>))
  /\ UNCHANGED <<saved, asked, nextId, nextRun>>

\* A fork is resumed under a session id nothing was asked in or saved for.
Fork(s, child) ==
  /\ Live(s) /\ ~Live(child) /\ saved[child] = NoState
  /\ \A q \in asked : q.session # child
  /\ Commit(child, Transition(createPpprForkSessionAction(rt[s], child), <<>>))
  /\ UNCHANGED <<saved, asked, nextId, nextRun>>

Init ==
  /\ rt = [s \in Sessions |-> NoState]
  /\ saved = [s \in Sessions |-> NoState]
  /\ outputs = <<>>
  /\ asked = {}
  /\ nextId = 0
  /\ nextRun = 0

Next ==
  \/ Crash
  \/ \E s \in Sessions :
       \/ Seed(s) \/ Start(s) \/ Prompt(s) \/ AppendAssistant(s)
       \/ RequestEffect(s) \/ EffectResult(s) \/ Cancel(s)
       \/ Save(s) \/ Resume(s)
       \/ \E child \in Sessions : Fork(s, child)

Spec == Init /\ [][Next]_vars
-----------------------------------------------------------------------------
TypeOK ==
  /\ rt \in [Sessions -> RuntimeState \cup {NoState}]
  /\ saved \in [Sessions -> RuntimeState \cup {NoState}]
  /\ asked \subseteq Request
  /\ nextId \in Nat
  /\ nextRun \in Nat

\* The states of a session that exist: the one in memory and the snapshot.
StatesOf(s) == {rt[s], saved[s]} \ {NoState}

(* A session that reports awaiting_effect has an unanswered request to wait *)
(* for, also after a crash, a resume, a fork or a cancelled run: it is not  *)
(* stuck in a state no result can end (runtime.ts 199-268, cli-host.ts      *)
(* 210-213).                                                                *)
AwaitingHasPending ==
  \A s \in Sessions : \A st \in StatesOf(s) :
    st.state = "awaiting_effect" => st.pending # {}

(* No request is both pending and fulfilled: a result removes its request   *)
(* for good, whatever is redelivered, rolled back or forked, so a host that *)
(* executes what is pending never repeats an effect it has a record of      *)
(* (runtime.ts 218-224).                                                    *)
PendingNotFulfilled ==
  \A s \in Sessions : \A st \in StatesOf(s) :
    PendingIds(st) \cap FulfilledIds(st) = {}

(* A session only waits for requests it made itself: results are routed by  *)
(* the session id of the request, so an inherited request would never be    *)
(* answered (cli-host.ts 206-213 empties a fork's pending list).            *)
PendingOwned ==
  \A s \in Sessions : \A st \in StatesOf(s) :
    /\ st.session = s
    /\ \A q \in st.pending : q.session = s

\* The new state of s was produced from its old one, not by a fresh start
\* (nothing recorded yet) or by a resume (the snapshot).
Progressed(s) ==
  /\ Live(s) /\ Live(s)'
  /\ rt'[s] # saved[s]
  /\ ~(rt'[s].conversation = <<>> /\ rt'[s].fulfilled = <<>> /\ rt'[s].pending = {})

Extends(seq, longer) ==
  Len(seq) <= Len(longer) /\ SubSeq(longer, 1, Len(seq)) = seq

(* Progress only adds to the history of a session: conversation and         *)
(* fulfillment records are never rewritten, and a pending request leaves    *)
(* the pending list only when its own result was recorded (runtime.ts       *)
(* 144-268).                                                                *)
HistoryKept ==
  [][\A s \in Sessions : Progressed(s) =>
       /\ Extends(rt[s].conversation, rt'[s].conversation)
       /\ Extends(rt[s].fulfilled, rt'[s].fulfilled)
       /\ PendingIds(rt[s]) \subseteq PendingIds(rt'[s]) \cup FulfilledIds(rt'[s])]_vars

StatusEvents == {outputs[i] : i \in DOMAIN outputs} \cap
                [kind : {"status.changed"}, session : Sessions, from : Lifecycle, to : Lifecycle]

(* As long as a session is neither started anew nor resumed, a consumer     *)
(* that only reads status.changed events can follow its lifecycle: a step   *)
(* that moves the lifecycle emits exactly one such event, from the old to   *)
(* the new state, and a step that emits none leaves the lifecycle alone     *)
(* (runtime.ts 40-56).  A resume is excepted (Progressed): it puts the      *)
(* lifecycle of the snapshot in place and emits nothing, so after one the   *)
(* consumer has to look at the restored state (runtime.ts 129-142,          *)
(* PROTOCOL.md 464-468).                                                    *)
StatusReported ==
  [][\A s \in Sessions : Progressed(s) /\ rt'[s] # rt[s] =>
       IF rt'[s].state # rt[s].state \/ StatusEvents' # {}
       THEN StatusEvents' = {[kind |-> "status.changed", session |-> s,
                              from |-> rt[s].state, to |-> rt'[s].state]}
       ELSE outputs' = <<>> \/ outputs' = <<AssistantSaid(rt[s])>>]_vars
-----------------------------------------------------------------------------
\* What the runtime promises about effects, whatever the lifecycle does: the
\* ledger of EffectLedger, read off the states and snapshots.
outstandingBar == [s \in Sessions |-> IF Live(s) THEN rt[s].pending ELSE {}]

settledBar == [s \in Sessions |-> IF Live(s) THEN FulfilledIds(rt[s]) ELSE {}]

stableBar ==
  [s \in Sessions |->
     IF saved[s] = NoState THEN {}
     ELSE {[outstanding |-> saved[s].pending, settled |-> FulfilledIds(saved[s])]}]

Ledger == INSTANCE EffectLedger WITH
  outstanding <- outstandingBar, settled <- settledBar, stable <- stableBar

(* The runtime keeps the effect ledger: whatever the order of prompts,      *)
(* cancellations, late or repeated results, snapshots, crashes, resumes and *)
(* forks, a request is outstanding until its own result, a restart or a     *)
(* rollback, and never comes back.                                          *)
LedgerSpec == Ledger!Spec
=============================================================================
