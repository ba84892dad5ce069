------------------------------- MODULE Agent -------------------------------
(***************************************************************************)
(* The Agent of packages/agent.  A run has a producer, the agent loop      *)
(* (agent-loop.ts), which calls the model and the tools and pushes events  *)
(* on a stream, and a consumer, Agent._runLoop (agent.ts), which takes the *)
(* events one by one, updates the state of the agent and tells the         *)
(* listeners.  Callers and listeners steer, queue, abort, clear and prompt *)
(* at any moment.                                                          *)
(*                                                                         *)
(* An action is what JavaScript runs between two awaits.  Abstractions:    *)
(* a message is its role and its numbers; events that change no state of   *)
(* the agent (agent_start, turn_start, updates) are left out, and          *)
(* message_start and message_end of a complete message are one event.      *)
(* A provider or a tool that never answers, or a provider stream that      *)
(* throws or ends without a final message, is not modelled.                *)
(***************************************************************************)
EXTENDS Naturals, Sequences, FiniteSets, SequencesExt

CONSTANTS
  SteeringMode, FollowUpMode,  \* "one-at-a-time" or "all"
  EagerCallers,      \* callers may prompt as soon as isStreaming is false, as a
                     \* listener of agent_end can; otherwise they await prompt()
  ListenersThrow,    \* a listener may throw
  QueueWhenIdle,     \* messages are also queued while no run is active
  MaxRuns,           \* bound on prompt() and continue() calls
  MaxMessages,       \* bound on user messages
  MaxToolTurns,      \* bound on assistant messages with tool calls
  MaxCalls           \* bound on tool calls of one assistant message

VARIABLES
  messages, isStreaming, streamMessage, pendingToolCalls, error,  \* _state
  steeringQueue, followUpQueue,
  abortController,   \* the run it belongs to, or NoRun
  runningPrompt,     \* the run whose promise waitForIdle returns, or NoRun
  runs,              \* the runs so far, see Run
  sent,              \* user messages so far
  turns, toolTurns,  \* assistant messages so far; those with tool calls
  dropped            \* user messages cleared on purpose (history variable)

state     == <<messages, isStreaming, streamMessage, pendingToolCalls, error>>
queues    == <<steeringQueue, followUpQueue>>
ownership == <<abortController, runningPrompt>>
counters  == <<sent, turns, toolTurns, dropped>>
vars      == <<state, queues, ownership, runs, counters>>

ASSUME AgentAssumption ==
  /\ {SteeringMode, FollowUpMode} \subseteq {"one-at-a-time", "all"}
  /\ {EagerCallers, ListenersThrow, QueueWhenIdle} \subseteq BOOLEAN
  /\ {MaxRuns, MaxMessages, MaxToolTurns, MaxCalls} \subseteq Nat

NoRun == 0
-----------------------------------------------------------------------------
(* Messages.  n is the number of tool calls of an assistant message, the   *)
(* position of the call a tool result answers, or the way a user message   *)
(* came in.                                                                *)

prompted == 0
steered  == 1
followed == 2

Message == [role : {"user", "assistant", "toolResult"}, id : Nat, n : Nat,
            stop : {"", "partial", "stop", "error"}]

User(i, way)       == [role |-> "user", id |-> i, n |-> way, stop |-> ""]
Assistant(i, n, s) == [role |-> "assistant", id |-> i, n |-> n, stop |-> s]
Result(a, k)       == [role |-> "toolResult", id |-> a.id, n |-> k, stop |-> ""]

NoMessage == User(0, prompted)

Event(type, m) == [type |-> type, message |-> m]

\* message_start and message_end of complete messages.
Ends(ms) == [i \in 1 .. Len(ms) |-> Event("message_end", ms[i])]

(* A run: locals of runLoop and executeToolCalls, the event stream, and    *)
(* the consumer.                                                           *)
Run ==
  [phase : {"polled", "model", "streaming", "tool", "toolPolled", "followUpPolled", "ended"},
   context : Seq(Message),    \* currentContext.messages
   pending : Seq(Message),    \* pendingMessages, or the steering messages just polled
   results : Seq(Message),    \* toolResults of the turn, not yet in the context
   more : BOOLEAN,            \* hasMoreToolCalls
   stream : Seq([type : {"message_start", "message_end", "tool_start", "tool_end",
                         "turn_end", "agent_end"}, message : Message]),
   aborted : BOOLEAN,         \* signal.aborted
   consumer : {"active", "gone"},
   idle : {"pending", "resolved"},  \* the promise waitForIdle returned meanwhile
   over : SUBSET Nat,         \* runs that were not over when it began (history)
   threw : BOOLEAN]           \* a listener threw in it (history)

Started == 1 .. Len(runs)
Active  == {r \in Started : runs[r].consumer = "active"}

\* stream.push: nobody can see the events of a stream without a consumer.
Push(run, evs) ==
  IF run.consumer = "gone" THEN run ELSE [run EXCEPT !.stream = @ \o evs]
-----------------------------------------------------------------------------
(* Queues.                                                                 *)

Taken(queue, mode) ==
  IF mode = "all" \/ queue = <<>> THEN queue ELSE <<Head(queue)>>

\* Wrong variants of definitions, one plausible slip each, show that the
\* properties can fail.  This one forgets the queue when it takes one message.
LeftNothing(queue, mode) == <<>>

Left(queue, mode) == SubSeq(queue, Len(Taken(queue, mode)) + 1, Len(queue))

\* getSteeringMessages of the run's config; what it returns becomes pending.
PollSteering(r, run) ==
  /\ runs' = [runs EXCEPT ![r] = [run EXCEPT !.pending = Taken(steeringQueue, SteeringMode)]]
  /\ steeringQueue' = Left(steeringQueue, SteeringMode)
  /\ UNCHANGED followUpQueue

PollFollowUp(r, run) ==
  /\ runs' = [runs EXCEPT ![r] = [run EXCEPT !.pending = Taken(followUpQueue, FollowUpMode)]]
  /\ followUpQueue' = Left(followUpQueue, FollowUpMode)
  /\ UNCHANGED steeringQueue
-----------------------------------------------------------------------------
(* The producer.                                                           *)

\* The top of the inner loop: inject the pending messages, call the model.
CallModel(run) ==
  [Push(run, Ends(run.pending)) EXCEPT
     !.context = @ \o run.pending, !.pending = <<>>, !.phase = "model"]

\* Wrong: the results never reach the context.
EndTurnWithoutResults(run) ==
  [Push(run, <<Event("turn_end", Last(run.context))>>) EXCEPT !.results = <<>>]

EndTurn(run) ==
  [Push(run, <<Event("turn_end", Last(run.context))>>) EXCEPT
     !.context = @ \o run.results, !.results = <<>>]

EndRun(run) ==
  [Push(run, <<Event("agent_end", Last(run.context))>>) EXCEPT !.phase = "ended"]

StartTool(run, k) ==
  [Push(run, <<Event("tool_start", Result(Last(run.context), k))>>) EXCEPT !.phase = "tool"]

\* tool_execution_end and the result message.
FinishTool(run, k) ==
  LET m == Result(Last(run.context), k)
  IN  [Push(run, <<Event("tool_end", m), Event("message_end", m)>>) EXCEPT
         !.results = Append(@, m)]

\* Wrong: the calls that are skipped stay without a result.
SkipToolsSilently(run, k) == run

\* skipToolCall for the calls from k on.
SkipTools(run, k) ==
  LET a       == Last(run.context)
      skipped == [i \in 1 .. a.n + 1 - k |-> Result(a, k + i - 1)]
      evs     == [i \in DOMAIN skipped |->
                    <<Event("tool_start", skipped[i]), Event("tool_end", skipped[i]),
                      Event("message_end", skipped[i])>>]
  IN  [Push(run, FlattenSeq(evs)) EXCEPT !.results = @ \o skipped]

AfterPoll(r) ==
  LET run == runs[r]
  IN  /\ run.phase = "polled"
      /\ \/ /\ run.more \/ run.pending # <<>>
            /\ runs' = [runs EXCEPT ![r] = CallModel(run)]
            /\ UNCHANGED queues
         \/ /\ ~run.more /\ run.pending = <<>>
            /\ PollFollowUp(r, [run EXCEPT !.phase = "followUpPolled"])
      /\ UNCHANGED <<state, ownership, counters>>

AfterFollowUpPoll(r) ==
  LET run == runs[r]
  IN  /\ run.phase = "followUpPolled"
      /\ runs' = [runs EXCEPT ![r] = IF run.pending # <<>> THEN CallModel(run) ELSE EndRun(run)]
      /\ UNCHANGED <<state, queues, ownership, counters>>

\* The provider's "start" event.
ModelStarts(r) ==
  LET run     == runs[r]
      partial == Assistant(turns + 1, 0, "partial")
  IN  /\ run.phase = "model"
      /\ runs' = [runs EXCEPT ![r] =
           [Push(run, <<Event("message_start", partial)>>) EXCEPT
              !.context = Append(@, partial), !.phase = "streaming"]]
      /\ turns' = turns + 1
      /\ UNCHANGED <<state, queues, ownership, sent, toolTurns, dropped>>

\* The context once the final message replaced the partial one, or was added.
Finalised(run, m) ==
  LET ctx == IF run.phase = "streaming" THEN Front(run.context) ELSE run.context
  IN  [Push(run, Ends(<<m>>)) EXCEPT !.context = Append(ctx, m)]

MessageId(run) == IF run.phase = "streaming" THEN Last(run.context).id ELSE turns + 1

\* The provider's "error" event: stopReason error or aborted.  The answer may
\* hold calls; none of them is executed.
ModelFails(r) ==
  \E n \in 0 .. MaxCalls :
    LET run  == runs[r]
        done == Finalised(run, Assistant(MessageId(run), n, "error"))
    IN  /\ run.phase \in {"model", "streaming"}
        /\ n > 0 => toolTurns < MaxToolTurns
        /\ runs' = [runs EXCEPT ![r] = EndRun(EndTurn(done))]
        /\ turns' = IF run.phase = "model" THEN turns + 1 ELSE turns
        /\ toolTurns' = IF n > 0 THEN toolTurns + 1 ELSE toolTurns
        /\ UNCHANGED <<state, queues, ownership, sent, dropped>>

\* The provider's "done" event.  Providers fail a request whose signal is
\* aborted, also at its end.
ModelAnswers(r) ==
  \E n \in 0 .. MaxCalls :
    LET run  == runs[r]
        done == [Finalised(run, Assistant(MessageId(run), n, "stop")) EXCEPT !.more = n > 0]
    IN  /\ run.phase \in {"model", "streaming"} /\ ~run.aborted
        /\ n > 0 => toolTurns < MaxToolTurns
        /\ \/ /\ n > 0
              /\ runs' = [runs EXCEPT ![r] = StartTool(done, 1)]
              /\ UNCHANGED queues
           \/ /\ n = 0
              /\ PollSteering(r, [EndTurn(done) EXCEPT !.phase = "polled"])
        /\ turns' = IF run.phase = "model" THEN turns + 1 ELSE turns
        /\ toolTurns' = IF n > 0 THEN toolTurns + 1 ELSE toolTurns
        /\ UNCHANGED <<state, ownership, sent, dropped>>

\* A tool returns, or throws and has an error result.
ToolFinishes(r) ==
  LET run == runs[r]
  IN  /\ run.phase = "tool"
      /\ PollSteering(r, [FinishTool(run, Len(run.results) + 1) EXCEPT !.phase = "toolPolled"])
      /\ UNCHANGED <<state, ownership, counters>>

AfterToolPoll(r) ==
  LET run  == runs[r]
      next == Len(run.results) + 1
  IN  /\ run.phase = "toolPolled"
      /\ \/ /\ run.pending # <<>>
            /\ runs' = [runs EXCEPT ![r] = CallModel(EndTurn(SkipTools(run, next)))]
            /\ UNCHANGED queues
         \/ /\ run.pending = <<>> /\ next <= Last(run.context).n
            /\ runs' = [runs EXCEPT ![r] = StartTool(run, next)]
            /\ UNCHANGED queues
         \/ /\ run.pending = <<>> /\ next > Last(run.context).n
            /\ PollSteering(r, [EndTurn(run) EXCEPT !.phase = "polled"])
      /\ UNCHANGED <<state, ownership, counters>>

Produce(r) ==
  \/ AfterPoll(r) \/ AfterFollowUpPoll(r) \/ ModelStarts(r) \/ ModelFails(r)
  \/ ModelAnswers(r) \/ ToolFinishes(r) \/ AfterToolPoll(r)
-----------------------------------------------------------------------------
(* The consumer.                                                           *)

\* The switch of _runLoop.
Apply(ev) ==
  /\ messages' = IF ev.type = "message_end" THEN Append(messages, ev.message) ELSE messages
  /\ streamMessage' =
       CASE ev.type = "message_start" -> ev.message
         [] ev.type \in {"message_end", "agent_end"} -> NoMessage
         [] OTHER -> streamMessage
  /\ pendingToolCalls' =
       CASE ev.type = "tool_start" -> pendingToolCalls \cup {ev.message}
         [] ev.type = "tool_end" -> pendingToolCalls \ {ev.message}
         [] OTHER -> pendingToolCalls
  /\ error' = (error \/ (ev.type = "turn_end" /\ ev.message.stop = "error"))
  /\ isStreaming' = (isStreaming /\ ev.type # "agent_end")

\* The listeners are told, and return.
Consume(r) ==
  LET run == runs[r]
  IN  /\ run.consumer = "active" /\ run.stream # <<>>
      /\ Apply(Head(run.stream))
      /\ runs' = [runs EXCEPT ![r].stream = Tail(@)]
      /\ UNCHANGED <<queues, ownership, counters>>

\* Wrong: a finally block that keeps the controller.
LeaveWithController(r, throws) ==
  /\ isStreaming' = FALSE /\ streamMessage' = NoMessage /\ pendingToolCalls' = {}
  /\ runningPrompt' = NoRun
  /\ runs' = [runs EXCEPT ![r].consumer = "gone", ![r].stream = <<>>, ![r].idle = "resolved"]
  /\ UNCHANGED abortController

\* Wrong: a finally block that does not resolve the promise.
LeaveWithoutResolving(r, throws) ==
  /\ isStreaming' = FALSE /\ streamMessage' = NoMessage /\ pendingToolCalls' = {}
  /\ abortController' = NoRun /\ runningPrompt' = NoRun
  /\ runs' = [runs EXCEPT ![r].consumer = "gone", ![r].stream = <<>>]

\* The finally block: it resolves and clears whatever promise and controller
\* the agent holds.
Leave(r, throws) ==
  /\ isStreaming' = FALSE /\ streamMessage' = NoMessage /\ pendingToolCalls' = {}
  /\ abortController' = NoRun /\ runningPrompt' = NoRun
  /\ runs' = [q \in Started |->
       [runs[q] EXCEPT !.consumer = IF q = r THEN "gone" ELSE @,
                       !.stream = IF q = r THEN <<>> ELSE @,
                       !.threw = IF q = r THEN throws ELSE @,
                       !.idle = IF q = runningPrompt THEN "resolved" ELSE @]]

\* The stream is done.
Finish(r) ==
  /\ runs[r].consumer = "active" /\ runs[r].stream = <<>> /\ runs[r].phase = "ended"
  /\ Leave(r, FALSE)
  /\ UNCHANGED <<messages, error, queues, counters>>

\* A listener throws: the catch block records an error message.  The producer
\* is not told.
ListenerThrows(r) ==
  LET ev       == Head(runs[r].stream)
      errorMsg == Assistant(0, 0, "error")
  IN  /\ ListenersThrow
      /\ runs[r].consumer = "active" /\ runs[r].stream # <<>>
      /\ messages' = Append(IF ev.type = "message_end" THEN Append(messages, ev.message)
                            ELSE messages, errorMsg)
      /\ error' = TRUE
      /\ Leave(r, TRUE)
      /\ UNCHANGED <<queues, counters>>
-----------------------------------------------------------------------------
(* The callers.                                                            *)

\* Wrong: prompt() and continue() do not look at isStreaming.
MayStartUnchecked == Len(runs) < MaxRuns

MayStart == ~isStreaming /\ Len(runs) < MaxRuns

\* _runLoop and the synchronous part of agentLoop and runLoop, down to the
\* first poll, of a queue the caller may have taken messages from; skip is
\* skipInitialSteeringPoll.
StartRun(ms, queue, skip) ==
  LET run == [phase |-> "polled", context |-> messages \o ms,
              pending |-> IF skip THEN <<>> ELSE Taken(queue, SteeringMode),
              results |-> <<>>, more |-> TRUE, stream |-> Ends(ms),
              aborted |-> FALSE, consumer |-> "active", idle |-> "pending",
              over |-> Active, threw |-> FALSE]
  IN  /\ runs' = Append(runs, run)
      /\ steeringQueue' = IF skip THEN queue ELSE Left(queue, SteeringMode)
      /\ abortController' = Len(runs) + 1 /\ runningPrompt' = Len(runs) + 1
      /\ isStreaming' = TRUE /\ streamMessage' = NoMessage /\ error' = FALSE
      /\ UNCHANGED <<messages, pendingToolCalls>>

Prompt ==
  /\ MayStart /\ sent < MaxMessages
  /\ StartRun(<<User(sent + 1, prompted)>>, steeringQueue, FALSE)
  /\ sent' = sent + 1
  /\ UNCHANGED <<followUpQueue, turns, toolTurns, dropped>>

Continue ==
  LET afterAssistant == Last(messages).role = "assistant"
  IN  /\ MayStart /\ messages # <<>>
      /\ \/ /\ ~afterAssistant
            /\ StartRun(<<>>, steeringQueue, FALSE)
            /\ UNCHANGED followUpQueue
         \/ /\ afterAssistant /\ steeringQueue # <<>>
            /\ StartRun(Taken(steeringQueue, SteeringMode), Left(steeringQueue, SteeringMode), TRUE)
            /\ UNCHANGED followUpQueue
         \/ /\ afterAssistant /\ steeringQueue = <<>> /\ followUpQueue # <<>>
            /\ StartRun(Taken(followUpQueue, FollowUpMode), steeringQueue, FALSE)
            /\ followUpQueue' = Left(followUpQueue, FollowUpMode)
      /\ UNCHANGED counters

MayQueue == sent < MaxMessages /\ (isStreaming \/ QueueWhenIdle)

\* Wrong: the newest message goes first.
SteerInFront ==
  /\ MayQueue
  /\ steeringQueue' = <<User(sent + 1, steered)>> \o steeringQueue
  /\ sent' = sent + 1
  /\ UNCHANGED <<state, followUpQueue, ownership, runs, turns, toolTurns, dropped>>

Steer ==
  /\ MayQueue
  /\ steeringQueue' = Append(steeringQueue, User(sent + 1, steered))
  /\ sent' = sent + 1
  /\ UNCHANGED <<state, followUpQueue, ownership, runs, turns, toolTurns, dropped>>

FollowUp ==
  /\ MayQueue
  /\ followUpQueue' = Append(followUpQueue, User(sent + 1, followed))
  /\ sent' = sent + 1
  /\ UNCHANGED <<state, steeringQueue, ownership, runs, turns, toolTurns, dropped>>

Ids(ms) == {ms[i].id : i \in {j \in DOMAIN ms : ms[j].role = "user"}}

ClearAllQueues ==
  /\ steeringQueue # <<>> \/ followUpQueue # <<>>
  /\ dropped' = dropped \cup Ids(steeringQueue) \cup Ids(followUpQueue)
  /\ steeringQueue' = <<>> /\ followUpQueue' = <<>>
  /\ UNCHANGED <<state, ownership, runs, sent, turns, toolTurns>>

Abort ==
  /\ abortController # NoRun /\ ~runs[abortController].aborted
  /\ runs' = [runs EXCEPT ![abortController].aborted = TRUE]
  /\ UNCHANGED <<state, queues, ownership, counters>>

\* Callers reset an agent they have aborted and waited for.
Reset ==
  /\ Active = {} /\ messages # <<>>
  /\ dropped' = dropped \cup Ids(messages) \cup Ids(steeringQueue) \cup Ids(followUpQueue)
  /\ messages' = <<>> /\ isStreaming' = FALSE /\ streamMessage' = NoMessage
  /\ pendingToolCalls' = {} /\ error' = FALSE
  /\ steeringQueue' = <<>> /\ followUpQueue' = <<>>
  /\ UNCHANGED <<ownership, runs, sent, turns, toolTurns>>

\* Before it retries, a caller takes a failed answer off with replaceMessages.
DropFailedAnswer ==
  /\ Active = {} /\ messages # <<>> /\ Last(messages).stop = "error"
  /\ messages' = Front(messages)
  /\ UNCHANGED <<isStreaming, streamMessage, pendingToolCalls, error, queues, ownership,
                 runs, counters>>

\* What callers that await prompt() or waitForIdle() wait for; the code does
\* not ask it of them.
Patient == EagerCallers \/ Active = {}

Call ==
  \/ Patient /\ (Prompt \/ Continue)
  \/ Steer \/ FollowUp \/ ClearAllQueues \/ Abort \/ Reset
  \/ DropFailedAnswer

Init ==
  /\ messages = <<>> /\ isStreaming = FALSE /\ streamMessage = NoMessage
  /\ pendingToolCalls = {} /\ error = FALSE
  /\ steeringQueue = <<>> /\ followUpQueue = <<>>
  /\ abortController = NoRun /\ runningPrompt = NoRun
  /\ runs = <<>>
  /\ sent = 0 /\ turns = 0 /\ toolTurns = 0 /\ dropped = {}

Next ==
  \/ Call
  \/ \E r \in Started : Produce(r) \/ Consume(r) \/ Finish(r) \/ ListenerThrows(r)

\* The event loop runs a continuation whenever it has one; providers and tools
\* answer.  Nothing is assumed of callers.
Fairness == WF_vars(\E r \in Started : Produce(r) \/ Consume(r) \/ Finish(r))

Spec == Init /\ [][Next]_vars /\ Fairness
-----------------------------------------------------------------------------
TypeOK ==
  /\ messages \in Seq(Message) /\ streamMessage \in Message
  /\ isStreaming \in BOOLEAN /\ error \in BOOLEAN
  /\ pendingToolCalls \subseteq Message
  /\ steeringQueue \in Seq(Message) /\ followUpQueue \in Seq(Message)
  /\ {abortController, runningPrompt} \subseteq Active \cup {NoRun}
  /\ runs \in Seq(Run)
  /\ sent \in 0 .. MaxMessages /\ turns \in Nat /\ toolTurns \in 0 .. MaxToolTurns
  /\ dropped \subseteq 1 .. sent

\* The messages a stream still has to hand to the consumer.
InFlight(run) ==
  LET upTo[i \in 0 .. Len(run.stream)] ==
        IF i = 0 THEN <<>>
        ELSE IF run.stream[i].type = "message_end"
             THEN Append(upTo[i - 1], run.stream[i].message)
        ELSE upTo[i - 1]
  IN  upTo[Len(run.stream)]

\* The context of the loop without a message that is still streaming.
Complete(run) == IF run.phase = "streaming" THEN Front(run.context) ELSE run.context

(* The state of the agent is the loop's own context as far as the consumer  *)
(* has got: with the events in flight it is the whole context, so that the  *)
(* next run starts from what the model saw (agent-loop.ts 131-171, agent.ts *)
(* 464-511).                                                                *)
StateMirrorsLoop ==
  \A r \in Active :
    messages \o InFlight(runs[r]) = Complete(runs[r]) \o runs[r].results

\* Each call of an assistant message is followed by its result, in the order
\* of the calls, and each result follows the message that made the call.  An
\* answer that failed is left out of what a provider is sent
\* (transform-messages.ts 126-134): its calls need no result, and have none.
Answered(ctx) ==
  /\ \A i \in DOMAIN ctx : \A k \in 1 .. ctx[i].n :
       ctx[i].role = "assistant" /\ ctx[i].stop # "error"
       => i + k <= Len(ctx) /\ ctx[i + k] = Result(ctx[i], k)
  /\ \A i \in DOMAIN ctx : ctx[i].role = "toolResult" =>
       LET call == ctx[i - ctx[i].n]
       IN  /\ ctx[i].n < i
           /\ call.role = "assistant" /\ call.id = ctx[i].id /\ call.stop # "error"

(* Every tool call a model is shown has exactly one result, in the order of *)
(* the calls and right after the message that made them, also when steering *)
(* skipped it; a provider rejects anything else (agent-loop.ts 144-171,     *)
(* 305-375).                                                                *)
ToolCallsAnswered ==
  \A r \in Started :
    runs[r].phase \in {"model", "streaming"} => Answered(Complete(runs[r]))

\* The messages in the order they are dealt with, those that wait at the end.
Line ==
  LET inHand == [r \in Started |->
                   IF r \in Active THEN InFlight(runs[r]) \o runs[r].pending ELSE <<>>]
  IN  messages \o FlattenSeq(inHand) \o steeringQueue \o followUpQueue

(* A message that was accepted is delivered once or still waits: whatever   *)
(* the interleaving of polls, calls, aborts and failures, it is in exactly  *)
(* one of the queues, the loop's hands, the stream and the state, unless a  *)
(* caller dropped it (agent.ts 289-317, 380-406, agent-loop.ts 114-190).    *)
NoMessageLost ==
  LET line == Line
  IN  /\ Ids(line) = (1 .. sent) \ dropped
      /\ \A i, j \in DOMAIN line :
           line[i].role = "user" /\ line[j].role = "user" /\ line[i].id = line[j].id => i = j

(* Messages that came in the same way are dealt with in the order they came *)
(* in, whichever poll or continue() takes them (agent.ts 260-270, 289-317). *)
DeliveredInOrder ==
  LET line == Line
  IN  \A i, j \in DOMAIN line :
        i < j /\ line[i].role = "user" /\ line[j].role = "user" /\ line[i].n = line[j].n
        => line[i].id < line[j].id

(* While a run has work left abort() reaches it and waitForIdle() waits for *)
(* it, except in two cases: a listener threw in it, which abandons its loop *)
(* in the background, or it was begun when another was not over, which then *)
(* clears the controller and the promise that are no longer its own         *)
(* (agent.ts 345-349, 413-424, 532-560).                                    *)
RunReachable ==
  \A r \in Started :
    runs[r].phase # "ended" \/ runs[r].stream # <<>>
    => \/ abortController = r /\ runningPrompt = r
       \/ runs[r].threw \/ runs[r].over # {}

(* Every run ends, whatever fails, aborts or throws, and whoever waits for  *)
(* it is told, unless another run was begun before it was over, which takes *)
(* its promise's place (agent-loop.ts 144-149, 196-197, agent.ts 426-428,   *)
(* 552-560).                                                                *)
RunsEnd ==
  \A r \in 1 .. MaxRuns :
    r \in Started ~>
      /\ r \in Started /\ runs[r].consumer = "gone" /\ runs[r].phase = "ended"
      /\ runs[r].idle = "resolved" \/ \E q \in Started : r \in runs[q].over
=============================================================================
