------------------------------ MODULE PpprHost ------------------------------
(***************************************************************************)
(* executePpprProofHostInvocation (proof-host.ts): a caller hands the host *)
(* its state and an invocation; the host applies it and then executes      *)
(* pending effects, oldest first, until none is left.  The runtime is that *)
(* of PpprTransitions.  Effects change the outside world, so what matters  *)
(* is how often one is performed and which state the caller ends up with.  *)
(*                                                                         *)
(* A call that throws, or a process that dies, loses the state the loop    *)
(* had reached; the caller goes on from the one it holds, or from the      *)
(* snapshot it persisted.                                                  *)
(***************************************************************************)
EXTENDS PpprTransitions

CONSTANTS
  NoState,         \* runtimeState undefined
  MaxEffectRounds, \* options.maxEffectRounds
  MaxRequests,     \* bound on effect requests
  MaxRuns,         \* bound on run ids
  MaxLosses        \* bound on losses (see the variable)

VARIABLES
  held,       \* the runtime state in the hostState the caller holds
  persisted,  \* the snapshot the caller has stored, or NoState
  phase,      \* "caller", "loop", or "fulfilling" while an effect is awaited
  current,    \* runtime state of currentHostState inside the call
  rounds,     \* effect rounds of the call
  result,     \* id and outcome of the effect just performed, while it is awaited
  performed,  \* id -> how often the effect reached the outside world
  losses,     \* times a newer state was given up: a call that threw, a crash,
              \* a resume over a held state
  nextId, nextRun

vars == <<held, persisted, phase, current, rounds, result, performed, losses, nextId, nextRun>>

ASSUME HostAssumption ==
  /\ Sessions # {} /\ NoState \notin RuntimeState
  /\ MaxEffectRounds \in Nat /\ MaxRequests \in Nat /\ MaxRuns \in Nat /\ MaxLosses \in Nat

\* One session is enough: a call touches only the session it names.
S == CHOOSE s \in Sessions : TRUE

NoResult == [id |-> 0, outcome |-> "success"]

Fresh == nextRun + 1

\* The state advancePpprRuntime returns for an invocation on the held state.
Advance(o) ==
  CASE o = "start"  -> applyPpprSessionStart(S, Fresh).state
    [] o = "resume" -> persisted
    [] o = "prompt" -> [appendPpprUserMessage(held, Fresh).state EXCEPT !.conversation = <<>>]
    [] o = "cancel" -> cancelPpprRuntime(held, Fresh).state

\* requireState: without a state only a start and a resume are accepted, and a
\* resume needs the snapshot it restores; the other invocations throw.
Accepted(o) ==
  CASE o = "start"  -> TRUE
    [] o = "resume" -> persisted # NoState
    [] OTHER        -> held # NoState

Allocate(st) ==
  /\ nextRun' = IF st.runId = Fresh THEN Fresh ELSE nextRun
  /\ nextRun' <= MaxRuns

Invoke(o) ==
  /\ phase = "caller" /\ Accepted(o)
  /\ phase' = "loop"
  /\ current' = Advance(o)
  /\ rounds' = 0
  /\ Allocate(Advance(o))
  /\ losses' = IF o = "resume" /\ held # NoState THEN losses + 1 ELSE losses
  /\ losses' <= MaxLosses
  /\ UNCHANGED <<held, persisted, result, performed, nextId>>

\* The effect_result invocation: a worker performed a pending effect and the
\* caller hands in its result.
InvokeEffectResult ==
  \E q \in (IF held = NoState THEN {} ELSE held.pending), outcome \in {"success", "failed"} :
    /\ phase = "caller"
    /\ phase' = "loop"
    /\ performed' = [performed EXCEPT ![q.id] = @ + 1]
    /\ current' = ingestPpprEffectResult(held, q.id, outcome, Fresh).state
    /\ rounds' = 0
    /\ Allocate(current')
    /\ UNCHANGED <<held, persisted, result, losses, nextId>>

\* Between calls the caller asks for an effect with the runtime helper.
AskEffect ==
  /\ phase = "caller" /\ held # NoState /\ nextId < MaxRequests
  /\ held' = requestPpprEffect(held, [id |-> nextId + 1, session |-> S]).state
  /\ nextId' = nextId + 1
  /\ UNCHANGED <<persisted, phase, current, rounds, result, performed, losses, nextRun>>

\* ... and stores the snapshot the last call returned.
Persist ==
  /\ phase = "caller" /\ held # NoState
  /\ persisted' = held
  /\ UNCHANGED <<held, phase, current, rounds, result, performed, losses, nextId, nextRun>>

\* Wrong variants, to show that the properties can fail: a limit that is off by
\* one, and a loop that dispatches on the state the call began with.
FulfillOffByOne ==
  /\ phase = "loop" /\ current.pending # {} /\ rounds <= MaxEffectRounds
  /\ rounds' = rounds + 1
  /\ phase' = "fulfilling"
  /\ result' = [id |-> OldestPending(current).id, outcome |-> "success"]
  /\ performed' = [performed EXCEPT ![result'.id] = @ + 1]
  /\ UNCHANGED <<held, persisted, current, losses, nextId, nextRun>>

DeliverOnHeldState ==
  /\ phase = "fulfilling" /\ held # NoState
  /\ phase' = "loop"
  /\ current' = ingestPpprEffectResult(held, result.id, result.outcome, Fresh).state
  /\ result' = NoResult
  /\ Allocate(current')
  /\ UNCHANGED <<held, persisted, rounds, performed, losses, nextId>>

\* fulfillPpprEffectRequest: the policy or the provider may deny the request,
\* and the provider may fail before or after the effect took place.
Fulfill ==
  /\ phase = "loop" /\ current.pending # {} /\ rounds < MaxEffectRounds
  /\ rounds' = rounds + 1
  /\ phase' = "fulfilling"
  /\ \E outcome \in Outcomes, times \in {0, 1} :
       /\ outcome = "success" => times = 1
       /\ result' = [id |-> OldestPending(current).id, outcome |-> outcome]
       /\ performed' = [performed EXCEPT ![OldestPending(current).id] = @ + times]
  /\ UNCHANGED <<held, persisted, current, losses, nextId, nextRun>>

\* The awaited result is dispatched on the loop's own state.
Deliver ==
  LET next == ingestPpprEffectResult(current, result.id, result.outcome, Fresh).state
  IN  /\ phase = "fulfilling"
      /\ phase' = "loop"
      /\ current' = next
      /\ result' = NoResult
      /\ Allocate(next)
      /\ UNCHANGED <<held, persisted, rounds, performed, losses, nextId>>

\* The locals of a call end with it.
LeaveCall == phase' = "caller" /\ current' = NoState /\ rounds' = 0 /\ result' = NoResult

\* The loop ends, also when the caller gave no effect host or turned
\* autoFulfillPendingEffects off; the caller adopts the returned hostState.
Return ==
  /\ phase = "loop"
  /\ current.pending = {} \/ rounds = 0
  /\ LeaveCall
  /\ held' = current
  /\ UNCHANGED <<persisted, performed, losses, nextId, nextRun>>

\* "Exceeded proof-host effect fulfillment round limit".
Throw ==
  /\ phase = "loop" /\ current.pending # {} /\ rounds >= MaxEffectRounds
  /\ losses < MaxLosses
  /\ losses' = losses + 1
  /\ LeaveCall
  /\ UNCHANGED <<held, persisted, performed, nextId, nextRun>>

Crash ==
  /\ losses < MaxLosses
  /\ losses' = losses + 1
  /\ LeaveCall
  /\ held' = NoState
  /\ UNCHANGED <<persisted, performed, nextId, nextRun>>

Init ==
  /\ held \in {NoState, createPpprRuntimeState(S)}
  /\ persisted = NoState
  /\ phase = "caller"
  /\ current = NoState
  /\ rounds = 0 /\ result = NoResult
  /\ performed = [i \in 1 .. MaxRequests |-> 0]
  /\ losses = 0 /\ nextId = 0 /\ nextRun = 0

Next ==
  \/ \E o \in {"start", "resume", "prompt", "cancel"} : Invoke(o)
  \/ InvokeEffectResult
  \/ AskEffect \/ Persist \/ Fulfill \/ Deliver \/ Return \/ Throw \/ Crash

Spec == Init /\ [][Next]_vars
-----------------------------------------------------------------------------
TypeOK ==
  /\ held \in RuntimeState \cup {NoState}
  /\ persisted \in RuntimeState \cup {NoState}
  /\ current \in RuntimeState \cup {NoState}
  /\ phase \in {"caller", "loop", "fulfilling"}
  /\ rounds \in 0 .. MaxEffectRounds
  /\ result.id \in 0 .. nextId

(* An effect reaches the outside world again only when its record was lost: *)
(* once more per call that threw or process that died, never within or      *)
(* between calls that return (proof-host.ts 409-431).                       *)
RepeatedOnlyAfterLoss ==
  \A i \in 1 .. MaxRequests : performed[i] <= 1 + losses

(* An effect whose result is in the stored snapshot is never performed      *)
(* again, whatever is lost afterwards: the record travels with every state  *)
(* that descends from the snapshot (runtime.ts 218-224, proof-host.ts       *)
(* 420-430).                                                                *)
RecordedNeverRepeated ==
  [][\A i \in 1 .. MaxRequests :
       performed'[i] # performed[i] /\ persisted # NoState
       => i \notin FulfilledIds(persisted)]_vars
=============================================================================
