---------------------------- MODULE AgentSession ----------------------------
(***************************************************************************)
(* AgentSession (coding-agent/src/core/agent-session.ts) stands between    *)
(* the front ends and the agent.  It stores the agent's messages in the    *)
(* session file by a queue of events that are handled one after the other, *)
(* repeats an answer that failed for a passing reason, compacts the        *)
(* context after an answer and before a prompt, and switches sessions.     *)
(*                                                                         *)
(* The Agent is reduced to what the session sees of it: one run at a time, *)
(* its messages and its end.  An action is what runs between two awaits    *)
(* that wait for something outside: a model, a timer, a summary, the end   *)
(* of a run.  Handlers of extensions that wait themselves, the queues of   *)
(* steering and follow-up messages (module Agent), fork and /tree (module  *)
(* Compaction) and runs that fail without an answer are left out; /new is  *)
(* a switch to an empty file.                                              *)
(***************************************************************************)
EXTENDS Naturals, Sequences, FiniteSets, SequencesExt

CONSTANTS
  Callers,       \* each awaits its prompt() before it prompts again
  Sessions,      \* session files
  FirstSession,
  MaxRetries,    \* settings.retry.maxRetries
  Outcomes,      \* how an answer can end, besides "ok" and "aborted"
  MaxPrompts,    \* bound on prompts
  MaxTrouble,    \* bound on answers that do not end well
  MaxBash,       \* bound on bash commands
  MaxActs        \* bound on aborts, manual compactions and switches

errors  == {"retryable", "overflow", "fatal"}
aborted == {"aborted", "abortedBig"}

\* A good answer whose usage says how full the context was: below the threshold of the
\* compaction, above it, or beyond the window ("silent", isContextOverflow case 2).
measured == {"ok", "big", "toolUse", "silent"}

ASSUME AgentSessionAssumption ==
  /\ FirstSession \in Sessions
  /\ Outcomes \subseteq errors \cup measured \cup aborted
  /\ {MaxRetries, MaxPrompts, MaxTrouble, MaxBash, MaxActs} \subseteq Nat
  /\ Callers \cap {"worker", "manual", "nobody"} = {}

VARIABLES
  agent,        \* the Agent: streaming, aborted (the signal of its run), tool (the id of
                \* the call that runs, or 0), messages
  connected,    \* _unsubscribeAgent is set
  eventQueue,   \* events whose handling is chained on _agentEventQueue
  worker,       \* the handler of the event that left the queue last: phase, message
  lastAssistant,  \* _lastAssistantMessage, or NoMessage
  retry,        \* promise (is _retryPromise set), attempt, controller
  overflowRecoveryAttempted,
  autoController,  \* _autoCompactionAbortController: the job that set it, aborted
  jobs,         \* compactions under way: what was prepared, or NoJob
  timers,       \* setTimeout(agent.continue) still to fire
  callers,      \* where the prompt() of a caller is
  manual,       \* where compact() is
  switching,    \* where switchSession() is: phase, target
  files, current,  \* the entries of each session file; the open one
  pendingBash,  \* _pendingBashMessages
  used,         \* prompts, trouble, bash and acts so far, and the ids given out
  spoiled       \* why context and file may differ (history variable): "early", the
                \* context was rebuilt before the file held all messages; "unheard",
                \* messages came while the session was disconnected; "late", a run
                \* began while events of earlier ones were still to be handled;
                \* "revived", compact() put back the error a retry had dropped

agentVars   == <<agent, connected>>
handling    == <<eventQueue, worker, lastAssistant>>
retryVars   == <<retry, timers>>
compaction  == <<overflowRecoveryAttempted, autoController, jobs>>
operations  == <<callers, manual, switching>>
storage     == <<files, current, pendingBash>>
vars == <<agentVars, handling, retryVars, compaction, operations, storage, used, spoiled>>
-----------------------------------------------------------------------------
(* Messages and entries.  The id is the time: messages and compactions are *)
(* numbered as they come.                                                  *)

Message == [id : Nat, role : {"user", "assistant", "toolResult", "bash", "summary"},
            out : {"none"} \cup errors \cup measured \cup aborted,
            call : Nat]  \* the message whose tool call this answers, 0 if none

Msg(role, out) == [id |-> used.ids + 1, role |-> role, out |-> out, call |-> 0]
NoMessage      == [id |-> 0, role |-> "user", out |-> "none", call |-> 0]

\* A file is a sequence of messages and compactions; kept is the id of the first
\* message a compaction keeps, 0 in a message entry.
Stored(m)          == [message |-> m, kept |-> 0]
Compacted(i, kept) == [message |-> [NoMessage EXCEPT !.id = i, !.role = "summary"], kept |-> kept]

IsCompaction(e) == e.message.role = "summary"

\* Id of the latest compaction entry, 0 if there is none.
LatestCompaction(file) ==
  LET at == SelectLastInSeq(file, IsCompaction)
  IN  IF at = 0 THEN 0 ELSE file[at].message.id

Messages(file) == [i \in DOMAIN file |-> file[i].message]

\* The messages of a part of a file that has compactions of its own.
Uncompacted(es) ==
  LET upTo[i \in 0 .. Len(es)] ==
        IF i = 0 THEN <<>>
        ELSE IF IsCompaction(es[i]) THEN upTo[i - 1]
        ELSE Append(upTo[i - 1], es[i].message)
  IN  upTo[Len(es)]

\* buildSessionContext.
Context(file) ==
  LET at    == SelectLastInSeq(file, IsCompaction)
      found == SelectInSeq(file, LAMBDA e : e.message.id = file[at].kept)
      kept  == IF found \in 1 .. at - 1 THEN SubSeq(file, found, at - 1) ELSE <<>>
  IN  IF at = 0 THEN Messages(file)
      ELSE <<file[at].message>>
           \o Uncompacted(kept)
           \o Messages(SubSeq(file, at + 1, Len(file)))

LastIs(msgs, role) == msgs # <<>> /\ Last(msgs).role = role

\* Wrong variant: the last message is dropped whatever it is.
DropLast(msgs) == IF msgs # <<>> THEN Front(msgs) ELSE msgs

DropAssistant(msgs) == IF LastIs(msgs, "assistant") THEN Front(msgs) ELSE msgs

DropError(msgs) ==
  IF LastIs(msgs, "assistant") /\ Last(msgs).out \in errors THEN Front(msgs) ELSE msgs

\* Wrong variant: the results of tools are not stored.
SaveWithoutResults(m) ==
  files' = IF m.role = "toolResult" THEN files ELSE [files EXCEPT ![current] = Append(@, Stored(m))]

\* sessionManager.appendMessage.
Save(m) == files' = [files EXCEPT ![current] = Append(@, Stored(m))]

Use(field) == used' = [used EXCEPT ![field] = @ + 1]
Number     == used' = [used EXCEPT !.ids = @ + 1]
-----------------------------------------------------------------------------
(* Retry.                                                                  *)

\* Callers that await waitForRetry() when the promise is resolved.
Woken == [c \in Callers |-> IF callers[c] = "waitRetry" THEN "idle" ELSE callers[c]]

\* Wrong variant: the attempts are counted anew, and nobody is told.
CountAnew == retry' = [retry EXCEPT !.attempt = 0] /\ UNCHANGED callers

\* _resolveRetry with the attempts counted anew.
ResolveRetry ==
  /\ retry' = [retry EXCEPT !.promise = FALSE, !.attempt = 0]
  /\ callers' = Woken

\* abortRetry.
AbortRetry ==
  /\ retry' = [retry EXCEPT !.promise = FALSE,
                            !.controller = IF @ = "armed" THEN "aborted" ELSE @]
  /\ callers' = Woken

\* Handlers, aborted sleeps, prompts and those who waited for the agent to be idle go
\* on before anything comes in from outside.
Settled ==
  /\ \A c \in Callers : callers[c] # "starting"
  /\ worker.phase = "free" => eventQueue = <<>>
  /\ retry.controller # "aborted"
  /\ "waiting" \in {manual.phase, switching.phase} => agent.streaming

\* Wrong variant: new events go before those that wait.
EmitFirst(evs) == eventQueue' = IF connected THEN evs \o eventQueue ELSE eventQueue

\* _handleAgentEvent: the events of one step of the agent join the queue.
Emit(evs) == eventQueue' = IF connected THEN eventQueue \o evs ELSE eventQueue

Unheard == IF connected THEN spoiled ELSE spoiled \cup {"unheard"}

\* The context is rebuilt from the file.
Rebuilt == IF agent.streaming \/ eventQueue # <<>> THEN spoiled \cup {"early"} ELSE spoiled \ {"unheard"}
Revived == IF retry.promise THEN {"revived"} ELSE {}

MessageEvent(m) == [type |-> "message", message |-> m]
EndEvent(m)     == [type |-> "agent_end", message |-> m]
-----------------------------------------------------------------------------
(* Compaction.                                                             *)

NoJob        == [active |-> FALSE, session |-> FirstSession, kept |-> 0, base |-> 0, willRetry |-> FALSE]
NoController == [job |-> "nobody", aborted |-> FALSE]
Jobs         == Callers \cup {"worker"}

CanPrepare(file) == file # <<>> /\ ~IsCompaction(Last(file))

\* prepareCompaction, which cuts before the newest entry; module Compaction has
\* the real cut.  base is the compaction the summary goes on from.
Prepared(file, willRetry) ==
  [active |-> TRUE, session |-> current, kept |-> Last(file).message.id,
   base |-> LatestCompaction(file), willRetry |-> willRetry]

\* What _checkCompaction makes of the answer m: usage says whether the context was
\* over the threshold, errors have none and take that of the last good answer.
Verdict(m, skipAborted, msgs, file, attempted) ==
  LET base  == LatestCompaction(file)
      usage == SelectLastInSeq(msgs, LAMBDA x : x.role = "assistant" /\ x.out \in measured)
      big   == IF m.out \in errors
               THEN usage # 0 /\ msgs[usage].id > base /\ msgs[usage].out \in {"big", "silent"}
               ELSE m.out \in {"big", "abortedBig"}
  IN  IF (skipAborted /\ m.out \in aborted) \/ m.id <= base THEN "none"
      ELSE IF m.out \in {"overflow", "silent"} THEN (IF attempted THEN "failed" ELSE "overflow")
      ELSE IF big THEN "threshold" ELSE "none"

\* _checkCompaction, and _runAutoCompaction up to the summary.
Check(j, m, skipAborted, msgs, file, attempted) ==
  LET verdict == Verdict(m, skipAborted, msgs, file, attempted)
      starts  == verdict \in {"overflow", "threshold"}
  IN  /\ overflowRecoveryAttempted' = (attempted \/ verdict = "overflow")
      /\ agent' = [agent EXCEPT !.messages = IF verdict = "overflow" THEN DropAssistant(msgs) ELSE msgs]
      /\ autoController' = IF ~starts THEN autoController
                           ELSE IF CanPrepare(file) THEN [job |-> j, aborted |-> FALSE]
                           ELSE NoController
      /\ jobs' = IF starts /\ CanPrepare(file)
                 THEN [jobs EXCEPT ![j] = Prepared(file, verdict = "overflow")] ELSE jobs

\* appendCompaction, and the context rebuilt from the open session.
SaveCompaction(job) ==
  LET file == Append(files[current], Compacted(used.ids + 1, job.kept))
  IN  /\ files' = [files EXCEPT ![current] = file]
      /\ agent' = [agent EXCEPT !.messages = IF job.willRetry THEN DropError(Context(file)) ELSE Context(file)]
      /\ Number

\* The summary arrives, or fails, in _runAutoCompaction.  It looks for its abort
\* controller in the field that every automatic compaction sets and clears; if
\* another one has cleared it, the compaction fails.
FinishCompaction(j) ==
  /\ Settled /\ jobs[j].active
  /\ \/ /\ autoController.job # "nobody" /\ ~autoController.aborted
        /\ SaveCompaction(jobs[j])
        /\ spoiled' = Rebuilt
        /\ timers' = IF jobs[j].willRetry THEN timers + 1 ELSE timers
     \/ UNCHANGED <<files, agent, used, timers, spoiled>>
  /\ autoController' = NoController
  /\ jobs' = [jobs EXCEPT ![j] = NoJob]
  /\ IF j = "worker"
     THEN worker' = [worker EXCEPT !.phase = "free"] /\ UNCHANGED callers
     ELSE callers' = [callers EXCEPT ![j] = "starting"] /\ UNCHANGED worker
  /\ UNCHANGED <<connected, eventQueue, lastAssistant, retry, overflowRecoveryAttempted,
                 manual, switching, current, pendingBash>>
-----------------------------------------------------------------------------
(* The handling of the agent's events.                                     *)

Handles(type) ==
  /\ worker.phase = "free" /\ retry.controller # "aborted"
  /\ eventQueue # <<>> /\ Head(eventQueue).type = type
  /\ eventQueue' = Tail(eventQueue)

Good(m) == m.out \notin errors

\* message_start and message_end.
HandleMessage ==
  /\ Handles("message")
  /\ LET m == Head(eventQueue).message IN
       /\ Save(m)
       /\ overflowRecoveryAttempted' =
            (overflowRecoveryAttempted /\ (m.role = "toolResult" \/ ~Good(m)))
       /\ lastAssistant' = IF m.role = "assistant" THEN m ELSE lastAssistant
       /\ IF m.role = "assistant" /\ Good(m) /\ retry.attempt > 0
          THEN ResolveRetry ELSE UNCHANGED <<retry, callers>>
  /\ UNCHANGED <<agentVars, worker, timers, autoController, jobs, manual, switching,
                 current, pendingBash, used, spoiled>>

MayRetry(m) == m.out = "retryable" /\ retry.attempt < MaxRetries

\* agent_end: _handleRetryableError, when another attempt is left.
HandleEndWithRetry ==
  /\ Handles("agent_end")
  /\ MayRetry(lastAssistant)
  /\ lastAssistant' = NoMessage
  /\ retry' = [promise |-> TRUE, attempt |-> retry.attempt + 1, controller |-> "armed"]
  /\ agent' = [agent EXCEPT !.messages = DropAssistant(@)]
  /\ worker' = [phase |-> "sleeping", message |-> lastAssistant]
  /\ UNCHANGED <<connected, timers, compaction, operations, storage, used, spoiled>>

\* agent_end without a retry: give up if the attempts are spent, then compact.
HandleEnd ==
  /\ Handles("agent_end")
  /\ ~MayRetry(lastAssistant)
  /\ lastAssistant' = NoMessage
  /\ IF lastAssistant.out = "retryable" THEN ResolveRetry ELSE UNCHANGED <<retry, callers>>
  /\ Check("worker", lastAssistant, TRUE, agent.messages, files[current], overflowRecoveryAttempted)
  /\ worker' = [phase |-> IF jobs'["worker"].active THEN "compacting" ELSE "free",
                message |-> lastAssistant]
  /\ UNCHANGED <<connected, timers, manual, switching, storage, used, spoiled>>

\* The backoff is over: continue from a timer.
SleepEnds ==
  /\ worker.phase = "sleeping" /\ Settled
  /\ worker' = [worker EXCEPT !.phase = "free"]
  /\ retry' = [retry EXCEPT !.controller = "none"]
  /\ timers' = timers + 1
  /\ UNCHANGED <<agentVars, eventQueue, lastAssistant, compaction, operations, storage, used, spoiled>>

\* The backoff was aborted: give up, then compact.
SleepAborted ==
  /\ worker.phase = "sleeping" /\ retry.controller = "aborted"
  /\ retry' = [promise |-> FALSE, attempt |-> 0, controller |-> "none"]
  /\ callers' = Woken
  /\ Check("worker", worker.message, TRUE, agent.messages, files[current], overflowRecoveryAttempted)
  /\ worker' = [worker EXCEPT !.phase = IF jobs'["worker"].active THEN "compacting" ELSE "free"]
  /\ UNCHANGED <<connected, eventQueue, lastAssistant, timers, manual, switching, storage, used, spoiled>>
-----------------------------------------------------------------------------
(* The agent, as far as the session sees it.                               *)

\* Agent.prompt, or Agent.continue: a run that begins with these messages.
StartRun(msgs) ==
  /\ agent' = [streaming |-> TRUE, aborted |-> FALSE, tool |-> 0, messages |-> msgs]
  /\ spoiled' = Unheard \cup IF eventQueue = <<>> /\ worker.phase = "free" THEN {} ELSE {"late"}

\* prompt() when agent.prompt() returns: wait for a retry that has been announced.
AfterRun(phase) == IF phase # "running" THEN phase ELSE IF retry'.promise THEN "waitRetry" ELSE "idle"

\* An answer ends the run, or asks for a tool; the answer to a run whose signal is
\* aborted is cut off.
Answer ==
  /\ Settled /\ agent.streaming /\ agent.tool = 0
  /\ \E out \in IF agent.aborted THEN {"aborted"} \cup (Outcomes \cap aborted)
                ELSE {"ok"} \cup (Outcomes \ aborted) :
       LET m    == Msg("assistant", out)
           ends == out # "toolUse"
           fine == out \in {"ok", "aborted"}
       IN  /\ fine \/ used.trouble < MaxTrouble
           /\ agent' = [streaming |-> ~ends, aborted |-> FALSE, tool |-> IF ends THEN 0 ELSE m.id,
                        messages |-> Append(agent.messages, m)]
           /\ Emit(IF ends THEN <<MessageEvent(m), EndEvent(m)>> ELSE <<MessageEvent(m)>>)
           /\ retry' = [retry EXCEPT !.promise = @ \/ (connected /\ out = "retryable")]
           /\ callers' = IF ends THEN [c \in Callers |-> AfterRun(callers[c])] ELSE callers
           /\ used' = [used EXCEPT !.ids = @ + 1, !.trouble = IF fine THEN @ ELSE @ + 1]
  /\ spoiled' = Unheard
  /\ UNCHANGED <<connected, worker, lastAssistant, timers, compaction, manual, switching, storage>>

\* The tool returns, or gives up because of an abort.
ToolResult ==
  /\ Settled /\ agent.tool # 0
  /\ LET m == [Msg("toolResult", "none") EXCEPT !.call = agent.tool] IN
       /\ agent' = [agent EXCEPT !.tool = 0, !.messages = Append(@, m)]
       /\ Emit(<<MessageEvent(m)>>)
  /\ Number
  /\ spoiled' = Unheard
  /\ UNCHANGED <<connected, worker, lastAssistant, retryVars, compaction, operations, storage>>

\* The timer of a retry or of an overflow: agent.continue(), whose error is dropped.
ContinueTimer ==
  /\ Settled /\ timers > 0
  /\ timers' = timers - 1
  /\ IF agent.streaming \/ agent.messages = <<>> \/ LastIs(agent.messages, "assistant")
     THEN UNCHANGED <<agent, spoiled>> ELSE StartRun(agent.messages)
  /\ UNCHANGED <<connected, handling, retry, compaction, operations, storage, used>>
-----------------------------------------------------------------------------
(* What the front end calls.                                               *)

\* prompt() up to its first wait: store deferred bash results, compact if needed.
Prompt(c) ==
  /\ Settled /\ callers[c] = "idle" /\ used.prompts < MaxPrompts
  /\ ~agent.streaming
  /\ Use("prompts")
  /\ LET msgs == agent.messages \o pendingBash
         file == files[current] \o [i \in DOMAIN pendingBash |-> Stored(pendingBash[i])]
         at   == SelectLastInSeq(msgs, LAMBDA x : x.role = "assistant")
     IN  /\ files' = [files EXCEPT ![current] = file]
         /\ pendingBash' = <<>>
         /\ IF at # 0 THEN Check(c, msgs[at], FALSE, msgs, file, overflowRecoveryAttempted)
            ELSE agent' = [agent EXCEPT !.messages = msgs] /\ UNCHANGED compaction
  /\ callers' = [callers EXCEPT ![c] = IF jobs'[c].active THEN "compacting" ELSE "starting"]
  /\ UNCHANGED <<connected, handling, retryVars, manual, switching, current, spoiled>>

\* The end of prompt(): agent.prompt() with the user message, or its error.
StartPrompt(c) ==
  /\ callers[c] = "starting"
  /\ IF agent.streaming
     THEN callers' = [callers EXCEPT ![c] = "idle"] /\ UNCHANGED <<agent, eventQueue, used, spoiled>>
     ELSE /\ StartRun(Append(agent.messages, Msg("user", "none")))
          /\ Emit(<<MessageEvent(Msg("user", "none"))>>)
          /\ callers' = [callers EXCEPT ![c] = "running"]
          /\ Number
  /\ UNCHANGED <<connected, worker, lastAssistant, retryVars, compaction, manual, switching, storage>>

Act == Settled /\ used.acts < MaxActs /\ Use("acts")

AbortRun == agent' = [agent EXCEPT !.aborted = agent.streaming]

\* abort(), which then waits until the agent is idle.
Abort ==
  /\ Act /\ AbortRetry /\ AbortRun
  /\ UNCHANGED <<connected, handling, timers, compaction, manual, switching, storage, spoiled>>

\* abortCompaction(), for the compaction whose controller is in the field.
AbortCompaction ==
  /\ Act /\ (autoController.job # "nobody" \/ manual.phase = "summarizing")
  /\ autoController' = [autoController EXCEPT !.aborted = autoController.job # "nobody"]
  /\ manual' = [manual EXCEPT !.aborted = manual.phase = "summarizing"]
  /\ UNCHANGED <<agentVars, handling, retryVars, overflowRecoveryAttempted, jobs, callers,
                 switching, storage, spoiled>>

\* Wrong variant: a result is deferred only while the model answers.
DeferDuringAnswer == agent.streaming /\ agent.tool = 0

Defer == agent.streaming

\* recordBashResult.
RecordBash ==
  /\ Settled /\ used.bash < MaxBash
  /\ LET m == Msg("bash", "none") IN
       IF Defer
       THEN pendingBash' = Append(pendingBash, m) /\ UNCHANGED <<agent, files>>
       ELSE /\ agent' = [agent EXCEPT !.messages = Append(@, m)]
            /\ Save(m)
            /\ UNCHANGED pendingBash
  /\ used' = [used EXCEPT !.bash = @ + 1, !.ids = @ + 1]
  /\ UNCHANGED <<connected, handling, retryVars, compaction, operations, current, spoiled>>
-----------------------------------------------------------------------------
(* compact(): disconnect and abort; when the agent is idle prepare; save    *)
(* the summary; reconnect in any case.                                     *)

NotCompacting == [phase |-> "none", job |-> NoJob, aborted |-> FALSE]

Compact ==
  /\ Act /\ manual.phase = "none" /\ AbortRetry /\ AbortRun
  /\ connected' = FALSE
  /\ manual' = [manual EXCEPT !.phase = "waiting"]
  /\ UNCHANGED <<handling, timers, compaction, switching, storage, spoiled>>

PrepareManual ==
  /\ manual.phase = "waiting" /\ ~agent.streaming
  /\ IF CanPrepare(files[current])
     THEN /\ manual' = [phase |-> "summarizing", aborted |-> FALSE,
                        job |-> Prepared(files[current], FALSE)]
          /\ UNCHANGED connected
     ELSE manual' = NotCompacting /\ connected' = TRUE
  /\ UNCHANGED <<agent, handling, retryVars, compaction, callers, switching, storage, used, spoiled>>

FinishManual ==
  /\ Settled /\ manual.phase = "summarizing"
  /\ \/ ~manual.aborted /\ SaveCompaction(manual.job) /\ spoiled' = Rebuilt \cup Revived
     \/ UNCHANGED <<files, agent, used, spoiled>>
  /\ manual' = NotCompacting
  /\ connected' = TRUE
  /\ UNCHANGED <<handling, retryVars, compaction, callers, switching, current, pendingBash>>
-----------------------------------------------------------------------------
(* switchSession(): disconnect and abort; when the agent is idle open the   *)
(* other file; give the agent its context; reconnect.                      *)

NotSwitching == [phase |-> "none", target |-> FirstSession]

SwitchSession ==
  /\ Act /\ switching.phase = "none" /\ AbortRetry /\ AbortRun
  /\ \E s \in Sessions \ {current} : switching' = [phase |-> "waiting", target |-> s]
  /\ connected' = FALSE
  /\ UNCHANGED <<handling, timers, compaction, manual, storage, spoiled>>

OpenSession ==
  /\ switching.phase = "waiting" /\ ~agent.streaming
  /\ current' = switching.target
  /\ agent' = [agent EXCEPT !.messages = Context(files[current'])]
  /\ connected' = TRUE
  /\ switching' = NotSwitching
  /\ spoiled' = Rebuilt
  /\ UNCHANGED <<handling, retryVars, compaction, callers, manual, files, pendingBash, used>>
-----------------------------------------------------------------------------
Init ==
  /\ agent = [streaming |-> FALSE, aborted |-> FALSE, tool |-> 0, messages |-> <<>>]
  /\ connected = TRUE
  /\ eventQueue = <<>> /\ worker = [phase |-> "free", message |-> NoMessage]
  /\ lastAssistant = NoMessage
  /\ retry = [promise |-> FALSE, attempt |-> 0, controller |-> "none"]
  /\ timers = 0
  /\ overflowRecoveryAttempted = FALSE
  /\ autoController = NoController /\ jobs = [j \in Jobs |-> NoJob]
  /\ callers = [c \in Callers |-> "idle"]
  /\ manual = NotCompacting /\ switching = NotSwitching
  /\ files = [s \in Sessions |-> <<>>] /\ current = FirstSession
  /\ pendingBash = <<>>
  /\ used = [ids |-> 0, prompts |-> 0, trouble |-> 0, bash |-> 0, acts |-> 0]
  /\ spoiled = {}

Handle == HandleMessage \/ HandleEndWithRetry \/ HandleEnd

Finish == (\E j \in Jobs : FinishCompaction(j)) \/ FinishManual

Next ==
  \/ Handle \/ SleepEnds \/ SleepAborted \/ Finish
  \/ Answer \/ ToolResult \/ ContinueTimer
  \/ (\E c \in Callers : Prompt(c) \/ StartPrompt(c))
  \/ Abort \/ AbortCompaction \/ RecordBash
  \/ Compact \/ PrepareManual
  \/ SwitchSession \/ OpenSession

\* The event loop runs handlers, timers and continuations; the model answers and
\* writes its summaries.  Nothing obliges the user to do anything.
Fairness ==
  /\ WF_vars(Handle) /\ WF_vars(SleepEnds) /\ WF_vars(SleepAborted) /\ WF_vars(Finish)
  /\ WF_vars(Answer) /\ WF_vars(ToolResult) /\ WF_vars(ContinueTimer)
  /\ \A c \in Callers : WF_vars(StartPrompt(c))
  /\ WF_vars(PrepareManual) /\ WF_vars(OpenSession)

Spec == Init /\ [][Next]_vars /\ Fairness
-----------------------------------------------------------------------------
(* Properties.                                                             *)

\* A caller that waits for the end of a retry waits for something: the retry sleeps,
\* its timer is set, its run goes on, or its events are still to be handled.  A run
\* that ended in a fatal error or in a second overflow is the known exception (see
\* PromptReturns).
WaiterHasProgress ==
  (\E c \in Callers : callers[c] = "waitRetry") /\ spoiled = {} =>
    \/ worker.phase # "free" \/ timers > 0 \/ agent.streaming \/ eventQueue # <<>>
    \/ \E j \in Jobs : jobs[j].active
    \/ worker.message.out \in {"overflow", "fatal"}

\* prompt() returns: when the run has ended and with it every retry
\* (agent-session.ts:2362, "Wait for any in-progress retry to complete").
PromptReturns ==
  \A c \in Callers : callers[c] # "idle" ~> callers[c] = "idle"

\* The messages that only a compaction takes out of the context: all but errors and
\* answers beyond the window.
Heard(msgs) == {m \in ToSet(msgs) : m.out \notin errors \cup {"silent"}}

Quiet ==
  /\ ~agent.streaming /\ eventQueue = <<>> /\ worker.phase = "free"
  /\ manual.phase = "none" /\ switching.phase = "none"
  /\ \A c \in Callers : callers[c] = "idle"

\* When nothing is under way, the next prompt goes on from what the session rebuilds from
\* its file and the bash results that still wait: only that prompt writes them
\* (agent-session.ts:860), and a restart loses them.  Apart from these, and from answers
\* that are errors or beyond the window, it makes no difference to what the model is told
\* whether the program was restarted.
ContextMatchesSession ==
  Quiet /\ spoiled = {} =>
    Heard(agent.messages \o pendingBash) = Heard(Context(files[current]) \o pendingBash)

\* Only a compaction and a switch take messages out of the context: the retry of an error
\* drops the error, and the recovery from an overflow the answer that overflowed, which
\* may be a good one whose usage is beyond the window (agent-session.ts:1710-1729,
\* overflow.ts:107-113).
DropsByCompaction ==
  [][(spoiled = {} /\ current' = current /\ files' = files) =>
        Heard(agent.messages) \subseteq Heard(agent'.messages)]_vars

\* A message is stored once, in one file, and the messages of the agent in the order
\* in which they came, however far the handling of events lags behind the agent and
\* whatever it stops for.
PersistedOnceInOrder ==
  \A s, t \in Sessions : \A i \in DOMAIN files[s], j \in DOMAIN files[t] :
    LET m == files[s][i].message  n == files[t][j].message IN
      /\ m.id = n.id => s = t /\ i = j
      /\ (s = t /\ i < j /\ {m.role, n.role} \cap {"bash", "summary"} = {}) => m.id < n.id

\* A bash result never stands between the call of a tool and its result
\* (agent-session.ts:2446, "to avoid breaking tool_use/tool_result ordering").
BashKeepsToolPairs ==
  \A msgs \in {agent.messages} \cup {Messages(files[s]) : s \in Sessions} :
    \A j \in DOMAIN msgs : msgs[j].role = "bash" =>
      \A i \in 1 .. j - 1, k \in j + 1 .. Len(msgs) : msgs[k].call # msgs[i].id
=============================================================================
