--------------------------- MODULE PpprTransitions ---------------------------
(***************************************************************************)
(* The sans-I/O runtime of packages/pppr: pure functions from a runtime    *)
(* state and an input to a new state and a list of output events           *)
(* (runtime.ts), and the snapshot a fork is made of (cli-host.ts).         *)
(*                                                                         *)
(* Abstractions.  Message texts, policies, metadata and log references are *)
(* dropped.  A run id (randomUUID) is a fresh natural number.  An effect   *)
(* request is its id and its session; ids are handed out in increasing     *)
(* order, so the set "pending" ordered by id is the array of the code      *)
(* (requests are only ever pushed, see OldestPending).                     *)
(***************************************************************************)
EXTENDS Naturals, Sequences

CONSTANT Sessions  \* session ids

Lifecycle == {"idle", "running", "awaiting_effect", "stopped", "failed"}
Terminal  == {"stopped", "failed"}
Outcomes  == {"success", "denied", "failed"}
NoRun     == 0

Request     == [id : Nat \ {0}, session : Sessions]
Fulfillment == [request : Nat, outcome : Outcomes]

RuntimeState ==
  [session : Sessions, state : Lifecycle, runId : Nat,
   pending : SUBSET Request, fulfilled : Seq(Fulfillment),
   conversation : Seq({"user", "assistant"})]

FulfilledIds(st) == {st.fulfilled[i].request : i \in DOMAIN st.fulfilled}

PendingIds(st) == {q.id : q \in st.pending}
-----------------------------------------------------------------------------
(* Output events.                                                          *)

RunStarted(st)         == [kind |-> "run.started", session |-> st.session, run |-> st.runId]
RunFailed(st)          == [kind |-> "run.failed", session |-> st.session, run |-> st.runId]
RunCompleted(st)       == [kind |-> "run.completed", session |-> st.session, run |-> st.runId]
EffectRequested(st, q) == [kind |-> "effect.requested", session |-> st.session, request |-> q.id]
AssistantSaid(st)      == [kind |-> "message.assistant", session |-> st.session]
StatusChanged(from, st) ==
  [kind |-> "status.changed", session |-> st.session, from |-> from, to |-> st.state]

Transition(st, evs) == [state |-> st, outputs |-> evs]
-----------------------------------------------------------------------------
(* Transition functions.  "fresh" is the id randomUUID returns if the      *)
(* function calls it.                                                      *)

createPpprRuntimeState(s) ==
  [session |-> s, state |-> "idle", runId |-> NoRun, pending |-> {},
   fulfilled |-> <<>>, conversation |-> <<>>]

ensureRunId(st, fresh) == IF st.runId = NoRun THEN fresh ELSE st.runId

applyPpprSessionStart(s, fresh) ==
  LET new == createPpprRuntimeState(s)
      st  == [new EXCEPT !.runId = ensureRunId(new, fresh), !.state = "running"]
  IN  Transition(st, <<RunStarted(st), StatusChanged(new.state, st)>>)

appendPpprUserMessage(st, fresh) ==
  LET said == [st EXCEPT !.conversation = Append(@, "user")]
      run  == [said EXCEPT !.runId = fresh, !.state = "running"]
  IN  IF st.state = "running"
      THEN Transition(said, <<>>)
      ELSE Transition(run, <<RunStarted(run), StatusChanged(st.state, run)>>)

appendPpprAssistantMessage(st) ==
  Transition([st EXCEPT !.conversation = Append(@, "assistant")], <<AssistantSaid(st)>>)

requestPpprEffect(st, q) ==
  LET next == [st EXCEPT !.pending = @ \cup {q}, !.state = "awaiting_effect"]
  IN  Transition(next, <<EffectRequested(next, q), StatusChanged(st.state, next)>>)

\* Deliberately wrong variants of a transition, one plausible slip each; the
\* runs use them to show that a property can fail.
ingestKeepsPending(st, id, outcome, fresh) ==
  LET next == [st EXCEPT !.fulfilled = Append(@, [request |-> id, outcome |-> outcome]),
                         !.state = IF outcome = "success" THEN "running" ELSE "failed"]
  IN  Transition(next, <<StatusChanged(st.state, next)>>)

ingestDropsAllPending(st, id, outcome, fresh) ==
  LET next == [st EXCEPT !.fulfilled = Append(@, [request |-> id, outcome |-> outcome]),
                         !.pending = {},
                         !.state = IF outcome = "success" THEN "running" ELSE "failed"]
  IN  Transition(next, <<StatusChanged(st.state, next)>>)

ingestOutcomeAsLifecycle(st, id, outcome, fresh) ==
  LET next == [st EXCEPT !.pending = {q \in @ : q.id # id}, !.state = outcome]
  IN  Transition(next, <<StatusChanged(st.state, next)>>)

cancelDropsPending(st, fresh) ==
  Transition([st EXCEPT !.state = "stopped", !.pending = {}], <<>>)

cancelKeepsWaiting(st, fresh) == Transition([st EXCEPT !.pending = {}], <<>>)

cancelWithoutStatus(st, fresh) ==
  LET next == [st EXCEPT !.state = "stopped", !.runId = ensureRunId(st, fresh)]
  IN  Transition(next, <<RunCompleted(next)>>)

forkKeepsPending(st, s) == [st EXCEPT !.session = s, !.state = "idle", !.runId = NoRun]
-----------------------------------------------------------------------------
ingestPpprEffectResult(st, id, outcome, fresh) ==
  LET settled == [st EXCEPT !.pending   = {q \in @ : q.id # id},
                            !.fulfilled = Append(@, [request |-> id, outcome |-> outcome])]
      resumed == [settled EXCEPT !.state = "running"]
      failed  == [settled EXCEPT !.state = "failed", !.runId = ensureRunId(st, fresh)]
  IN  IF outcome = "success"
      THEN Transition(resumed, <<StatusChanged(st.state, resumed)>>)
      ELSE Transition(failed, <<StatusChanged(st.state, failed), RunFailed(failed)>>)

cancelPpprRuntime(st, fresh) ==
  LET next == [st EXCEPT !.state = "stopped", !.runId = ensureRunId(st, fresh)]
  IN  Transition(next, <<StatusChanged(st.state, next), RunCompleted(next)>>)

\* The snapshot a fork resumes from: same history, no pending effect, no run.
createPpprForkSessionAction(st, s) ==
  [st EXCEPT !.session = s, !.pending = {}, !.state = "idle", !.runId = NoRun]

\* The request a host executes first: pending[0], the oldest one.
OldestPending(st) == CHOOSE q \in st.pending : \A p \in st.pending : q.id <= p.id
=============================================================================
