# Models of pppr

TLA+ models of the stateful core of this repository, the TLC configurations that
check them on small instances, and theorems about them that TLAPS checks.
Line numbers refer to files under `src/packages/`.

## The system

The repository is a coding agent built in layers. Each layer keeps state of its
own and is driven by calls, callbacks or events from the next one.

| component | state | operations | hard behaviour |
|---|---|---|---|
| **pppr runtime** `pppr/src/runtime.ts`, `runtime-protocol.ts`, `ir.ts` | per session: lifecycle, run id, conversation, pending effect requests, fulfillment records | session start and resume, user message, assistant message, effect request, effect result, cancel, snapshot | results arrive late, twice, after a cancel or after a restart; a snapshot may be older than the last result; forks copy a state that waits for effects |
| **pppr CLI host** `coding-agent/src/pppr/cli-host.ts` | map of sessions, histories for display | dispatch, fork | a fork must not wait for its parent's effects |
| **pppr proof host** `coding-agent/src/pppr/proof-host.ts`, `cli-effect-fulfillment.ts`, `effect-policy.ts` | the state a caller holds, the state of the loop, the round counter | apply an invocation, perform pending effects until none is left | effects happen in the world before their result is recorded; the call throws at its round limit, the process dies |
| **agent** `agent/src/agent.ts`, `agent-loop.ts`, `ai/src/utils/event-stream.ts` | messages, streaming flags, two queues, abort controller, promise of the run, event stream between loop and agent | prompt, continue, steer, follow-up, clear, abort, reset; the loop's model and tool calls; the consumer's event handling | producer and consumer run at different speeds, callers act between any two awaits, listeners throw |
| **session manager** `coding-agent/src/core/session-manager.ts` | append-only tree of entries, leaf, session file, `flushed` | append, branch, branch to a new file, reload, migrate | the file and the memory differ until the first answer; restart returns to the last entry of the file |
| **agent session** `coding-agent/src/core/agent-session.ts` | event queue, retry and compaction controllers, deferred bash results | event persistence, retry with back-off, compaction, bash, switching and forking sessions | timers and aborts race, switching while events are queued |
| **compaction** `coding-agent/src/core/compaction/` | none (pure) | token estimates, cut points, summaries | a cut must not separate a tool result from its call |
| **mom** `mom/src/` | per channel: queue, running flag, stop request; event timers; log | mention, stop, event, log sync | a stop races the end of a run, the queue is bounded, timers overflow |
| **settings, credentials** `coding-agent/src/core/settings-manager.ts`, `auth-storage.ts` | JSON files, a copy in the memory of each process, a lock | login, logout, refresh of tokens, reload | several processes, a lock held while a provider answers, which ages and is renewed or stolen |
| **extensions, tools, front ends, providers, UI, pods** | mostly I/O | | see "Not modelled" |

How they interact: a front end (interactive, print, RPC, mom) calls the agent
session; that calls the agent and listens to its events, writes them to the
session manager, and starts retries and compactions, which replace the messages
of the agent. The agent calls a provider and the tools. The pppr packages are a
separate path: a runtime without I/O, driven by a host that stores its snapshots
and performs the effects it asks for.

What makes each part correct:

* runtime: a session that waits has something to wait for and asks for no effect
  twice; nothing recorded is forgotten; status events tell the lifecycle until
  the next start or resume;
* proof host: an effect is repeated only if the record of it was lost;
* agent: no message is lost, repeated or overtaken; every tool call is answered;
  the agent's state agrees with the context of the loop; a run can always be
  aborted and awaited, and it ends;
* session manager: what is in the file is what is in memory, and a branch is the
  path from the root to its leaf;
* agent session: messages are stored once and in order, the context of the agent is
  what the file would give back, whoever waits for a retry is told;
* compaction: a tool result stays with its call, what is recent is kept, and what is
  cut is summarized;
* mom: the model is told every message of the channel once, events are handled in
  order and none waits without a run, timers follow the event files;
* credentials: a refresh token is spent once and its successor kept, and no process
  overwrites what another has written.

## Modules

| module | models | state and actions |
|---|---|---|
| `PpprTransitions` | the functions of `runtime.ts` and the fork of `cli-host.ts:197-226` | no variables: a state is a record, a transition a pair of new state and output events, one operator per function, with its name |
| `PpprRuntime` | several sessions in the hands of a host (`ir.ts`, dispatch of `cli-host.ts`) | `rt` is the runtime state of a session in memory, `saved` its stored snapshot; one action per input event or helper, plus `Save`, `Crash`, `Resume`, `Fork` |
| `EffectLedger` | what the runtime promises about effects | per session the outstanding and settled requests and the stable copies of both; no code corresponds to it |
| `PpprHost` | `executePpprProofHostInvocation` and its callers | `held` and `persisted` belong to the caller, `current`, `rounds` and `result` are locals of the call; `Fulfill` and `Deliver` are the two sides of the `await` at `proof-host.ts:419` |
| `Agent` | the class `Agent`, `runLoop`, `executeToolCalls`, the event stream | see below |
| `SessionManager` | the class `SessionManager` and the session files | `sm` is the object (file, entries, leaf, labels, `flushed`), `files` the file system; one action per operation, and `Write` lets a crash leave any part of what an operation writes |
| `SessionStore` | what the session manager promises of what is kept | the log of the open session, the set of its entries, and all logs; no code corresponds to it |
| `Compaction` | `core/compaction/`, and `/compact` and `/tree` between the runs of the agent | `entries` and `leaf` are the session tree, `run` what the running agent waits for; the algorithms are operators with the names of their functions |
| `AgentSession` | the class `AgentSession` over an abstract agent | `eventQueue`, `worker`, `lastAssistant`, `retry`, `autoController` are its fields, `jobs`, `callers`, `manual`, `switching` the places where its asynchronous functions wait, `files` the sessions |
| `MomChannel` | one channel of the bot: `slack.ts`, `main.ts`, the log sync of `context.ts` | `queue`, `run`, `stop` are the state of the channel, `log` and `context` the two files, `inbox` what Slack has still to deliver; one action per handler and one per part of a run between two waits |
| `MomEvents` | `EventsWatcher` (`events.ts`), extends `MomChannel` | `dir` is the directory, `notice`, `reading`, `got`, `known`, `live` and `mapped` the watcher; one action for the read of `handleFile` and one per kind of event file after it, per timer and cron job; its `Next` is the composition of watcher and channel |
| `AuthStorage` | the class `AuthStorage` and its file back end in several processes | `file`, `status`, `lock` are shared, `data`, `loadError`, `refresh` belong to a process, `tokens` and `used` to the providers |
| `PpprRuntimeProofs`, `PpprHostProofs` | theorems about the pppr modules | |
| `AgentProofs`, `AgentSessionProofs`, `SessionManagerProofs` | theorems about `Agent`, `AgentSession`, `SessionManager` | |
| `CompactionProofs`, `MomProofs`, `AuthStorageProofs` | theorems about `Compaction`, `MomEvents`, `AuthStorage` | |
| `MC…` | instances for TLC; symmetry sets of model values | |

`PpprRuntime` and `PpprHost` both extend `PpprTransitions`: the same transitions,
once with every input in every order and once under the control of the loop.
`PpprRuntime` implements `EffectLedger` (`LedgerSpec`, an `INSTANCE … WITH`
refinement mapping that forgets lifecycle, conversation and outputs).
`SessionManager` implements `SessionStore` (`StoreSpec`; the mapping forgets the tree, the
leaf, the labels and the order of entries).

### Abstractions

*Runtime.* Texts, usage, metadata, log references, correlation ids and time
stamps are dropped; a conversation is the sequence of its roles; a request is its
number and its session. Ids come from counters, as `crypto.randomUUID` never
repeats. The pending list is a set: requests are numbered in the order they were
asked, so `OldestPending` still finds `pending[0]`. An outcome is one of those of
`runtime-protocol.ts:261`.

*Agent.* An action is what JavaScript runs between two awaits. A run is a record
with the locals of the loop (`phase` names the await it is at), the stream of
events not yet consumed, the signal and the promise. Messages are roles and
numbers. Events that change no state of the agent (`agent_start`, `turn_start`,
updates) are left out, and the start and end of a message that is complete from the
beginning are one event. Events of a stream whose consumer is gone are not kept,
nobody can see them. A provider fails a request whose signal is aborted, and a
provider or tool may fail at any time otherwise.

*Session manager.* An entry is its type, its place in the tree and the entry it
refers to; `user` stands for every entry shown to the model that is not an answer,
`custom` for every entry that is not shown and changes no label. A file is a
sequence of lines, a line is written whole or not at all. A file that is empty and
one without a valid header are the same: both are started afresh. Ids come from a
counter, as `generateId` checks for collisions.

*Compaction.* A message is its role and its estimated tokens; a summary is the set of
the entries it was generated from, directly or through earlier summaries. The budgets
are small numbers instead of 20 000 and more. Files and crashes in the middle of a
write belong to `SessionManager`; a crash here only ends the run of the agent.

*Agent session.* An action runs from one wait for something outside (a model, a timer,
a summary, the end of a run) to the next; `Settled` lets the handlers, aborted sleeps
and continuations that are ready go first, as the microtasks of JavaScript do. The
agent is one run with its messages. An answer is its kind: good, good and over the
compaction threshold, good and beyond the window (which `isContextOverflow` takes for an
overflow), a tool call, one of three errors, or aborted, below or over the threshold.
The model stays the same, and the waits for an API key before a run or a compaction
(`agent-session.ts:872`, `1557`, `1777`) are part of the step they stand in. Compaction
cuts before the newest entry, the real cut is in `Compaction`. The history variable
`spoiled` names the four situations in which file and context are known to part (see
Findings).

*Mom.* A message is its place in the channel, its text and whether it addresses the
bot. Delivery may come late and out of order, and Slack may send a logged message again
at any time, to the same process or to the next. What a timer will run is fixed when it
is set. History variables: `synced`, the log as the run saw it when it brought the
context up to date; `repeated`, messages that began a run when they were logged already;
`crossed`, files with a change that was handled in the middle of a call of `handleFile`.

*Credentials.* A credential is the number of a token pair; a provider accepts each
refresh token once. The age of the lock has three values, as the code compares it with
10 and with 30 seconds. History variables: `orphans`, tokens whose successor may be
lost; `robbed`, processes that lost the lock while they wait for a provider.

## Runs

| run | question | instance | distinct states |
|---|---|---|---|
| `session` | Does one session survive every order of inputs, late and repeated results, crashes and resumes? | 1 session, 2 runs, 2 requests, 1 message, 2 results | 531 000 |
| `fork` | Do parent and fork stay apart, and is the ledger kept? | 2 sessions, 2 requests, 1 result each | 352 000 |
| `host` | When is an effect performed twice? | 3 requests, limit of 2 rounds, 1 loss | 792 000 |
| `agent` | Do state, loop and queues agree under every interleaving? | 2 runs, 3 user messages, 1 turn with up to 2 tools, one-at-a-time queues | 1 313 000 |
| `agent_throw` | What if listeners throw: can the next run be reached, does every run end? | 2 runs, 2 messages, 1 turn with 1 tool, callers that do not wait, queues taken whole | 607 000 |
| `session_file` | Do file and memory agree through branches, forks, reloads and crashes, and does a branch keep its context? | 3 appended entries of any type, 2 files, 1 crash | 216 000 |
| `compaction` | Do cuts and summaries keep what they should, wherever the leaf is moved? | 6 entries, 2 of them asides, sizes 1 and 2, 2 tokens kept, budget 4 | 4 913 000 |
| `compaction_twice` | Is every message shown or summarized? No. | the same, 1 aside | violation |
| `agent_session` | Do context, file and retries survive a queue of events that lags behind? | 2 callers, 2 prompts, 2 answers that do not end well, 1 retry, 1 bash command, 2 aborts, compactions or switches, 2 sessions | 3 337 000 |
| `session_retry` | Does every prompt return? No. | 1 caller, 1 prompt | violation |
| `mom` | Is the model told everything once, are events served in order, do timers follow the files? | 4 inputs (messages, repeated deliveries, crashes, changes of files), 3 events, queue of 2, 1 event file | 3 427 000 |
| `credentials` | Is a refresh token ever spent without its successor, or a credential overwritten? | 2 processes, 2 providers, 3 token pairs, 1 crash | 1 833 000 |

What they show:

* `session`. `AwaitingHasPending`: no state in memory or on disk reports
  `awaiting_effect` with an empty pending list, which no result could end.
  `PendingNotFulfilled`: a result removes its request for good. `HistoryKept`:
  transitions only add to conversation and records, and a request leaves the
  pending list only with its result. `StatusReported`: until the next
  start or resume, a reader of `status.changed` alone can follow the lifecycle.
  A resume is excepted: it is silent, and PROTOCOL.md §6.4 says that a consumer
  has to inspect the restored state.
* `fork`. `PendingOwned`: a session waits for its own requests only, although a
  fork copies the state of a session that waits. `LedgerSpec`: the effect
  ledger is implemented, through crashes and rollbacks.
* `host`. `RepeatedOnlyAfterLoss`: an effect is performed at most once plus once
  for each state that was given up, so never twice by calls that return.
  `RecordedNeverRepeated`: an effect whose result is in the stored snapshot is
  never performed again.
* `agent`. `StateMirrorsLoop`: messages of the agent plus events in flight are the
  context of the loop. `ToolCallsAnswered`: what a model is shown has one
  result per tool call, in order, also when steering skips calls. An answer that failed
  or was aborted keeps calls without results in the context (`agent-loop.ts:144-149`);
  it is excepted, as such answers are left out of requests
  (`ai/src/providers/transform-messages.ts:126-134`).
  `NoMessageLost` and `DeliveredInOrder`: an accepted message is in exactly one
  place, and messages of one kind keep their order.
* `agent_throw`. A listener that throws ends the run for the agent, and the loop goes
  on alone; a caller that does not wait begins a run before another is over.
  `RunReachable`: `abort()` and `waitForIdle()` reach every run that has work left, but
  for these two, which the formula names (`threw`, `over`). `RunsEnd`: every run ends,
  the abandoned loops too, and its waiters are told, unless another was begun over it.
  `NoMessageLost` is not stated here, and does not hold: the
  abandoned loop keeps taking messages from the queues and nobody sees them.
* `session_file`. `FileHoldsSession`: once there is an answer, whoever opens the file
  sees the entries and labels the process has. (Entries may be written twice: a file
  that exists without an answer has `flushed` set by `setSessionFile`, the next append
  clears it, and the first answer writes header and entries again.) `StoreSpec`: the
  manager implements `SessionStore`. Nothing is written before the first answer, and
  with it and ever after an operation returns when the file holds the session; files only grow,
  whatever is opened, branched, forked or cut short; what is opened is what was stored, and a
  copy has what its original had, but for its own labels. `MessageExtendsContext`: a message
  extends what the model is shown and changes nothing before it, wherever the leaf was
  moved and whatever was compacted. `BranchKeepsSession`: a session branched into a new
  file shows the model what the old one showed there, with the labels of its path,
  except on paths on which entries follow a label.
* `compaction`. `ToolResultsKeepCall`: no cut, summary or move of the leaf shows the
  model a tool result without its call. `KeepsRecentMessages`: what is within the token
  budget is kept, and about as much as the budget. `CompactionCoversWhatItCuts`: what
  came after the previous compaction is kept or summarized, and not both.
  `BranchSummaryTellsWhatIsLeft`: the summary of an abandoned branch that fits its
  budget tells what the model was shown there, and nothing else.
* `agent_session`. `PersistedOnceInOrder`: a message is stored once, in one file, in the
  order of the agent, however far the queue lags. `ContextMatchesSession`: when nothing
  is under way, a restart would not change what the model is told, apart from errors,
  answers beyond the window and bash results that wait for the next prompt (see
  Findings). `DropsByCompaction`: only a compaction or a switch takes anything else out of
  the context; retry and overflow recovery drop the answer that was at fault and nothing
  that came after it.
  `BashKeepsToolPairs`: a bash result never stands between a call and its result.
  `WaiterHasProgress`: who waits for a retry waits for something that is under way,
  with the exception `session_retry` is about.
* `mom`. `ContextHoldsLog`: when the model is asked, it has the text of every message
  that was logged when the run brought its context up to date; what is logged between
  that and the prompt is left to the next run. `MessageOnce`: none is put before it twice,
  in spite of repeated deliveries, backfills and messages that are both logged and
  prompted, except a message that comes again when the channel is idle (see Findings).
  `QueueServed`: queued work has a run that takes it up. `EventsInOrder`: in the order
  it came. `ScheduleMatchesFiles`: once the watcher has caught up, there is exactly one
  timer or cron job for a file that asks for it, and none for one that is gone, except
  for `crossed` files (see Findings).
* `credentials`. `NotStranded`: `auth.json` never holds a spent token, unless its
  successor was lost on the way. `OneRefreshAtATime` and `KeepsOthers`: while nobody is
  robbed of the lock, one process at a time refreshes, and a step changes the
  credential of one provider.

Each property was also run against a mutated definition, kept next to the
original (`ingestKeepsPending`, `LeaveWithController`, …): TLC finds it violated.

### Bounds

* `session`, `fork`, `host`: two requests let one be pending while the other
  settles; `MaxFulfilled = 2` leaves room for a duplicate result beside a first
  one; two run ids let a run end and another begin. In `fork` conversations are
  empty, as the properties do not read them, and one result per state is enough
  to make a fork inherit a record. Three requests against a limit of two rounds
  let the loop finish, throw and be retried.
* `agent`: two runs, because the second one starts from what the first left
  behind; three user messages, so that a prompt can be followed by two queued
  messages of the same kind, or one of each; one turn with two tool calls, so that
  steering finds a call before and after it. In `agent_throw` one tool call is
  enough for an abandoned loop to outlive its run; liveness checking is expensive.
* `session_file`: three appended entries are a question, an answer and something
  between or behind them (a label set and cleared, a compaction, another branch); a
  branch adds label entries beyond that bound. Two files are a source and its branch or
  copy, or an empty file named by the user. One crash hits any write; with a
  reload and an answer after it the held-back entries are flushed a second time.
* `compaction`: six entries are a turn with a tool call, its result and a further
  answer, an aside and a summary, or a shorter turn and two summaries; the sizes make one tool
  result reach the budget alone or with a neighbour. A second compaction needs six
  entries as well, which `compaction_twice` shows.
* `agent_session`: two answers that do not end well (neither plainly good nor plainly
  aborted) are a failure and its failed retry, an overflow and a second one, or a tool
  call and a good answer beyond the window; two callers let one prompt while the other waits
  for a retry; two acts let an abort meet a compaction or a switch. A second session
  is enough for events to arrive in the wrong one. The case `"revived"` of `spoiled`
  takes three acts (a compaction, a switch and the switch back) and is beyond this
  run's time; the theorems below cover it, as they do any number of acts.
* `mom`: with a queue of two (five in the code) the third event behind a run meets the
  limit. The four inputs may be any of messages, repeated deliveries, crashes and changes
  of the file: a mention with chatter or a stop beside it and one of them sent again, a
  file that is written, replaced and deleted with a restart in between, an event behind
  a run that a crash cuts off. Files are treated alike and share only the queue, so one
  is enough; the theorems are for any number of files and inputs.
* `credentials`: three token pairs let a token be refreshed twice or one provider be
  refreshed beside a login for the other. Processes and providers are symmetric.
* Deadlock is not checked: a program without inputs or with its bounds used up
  stops, and waiting for input is its normal state. That the agent is not stuck
  is `RunsEnd`.

### Fairness

Two modules have a liveness property.

`Agent` (`RunsEnd`) has one weak fairness condition on the disjunction of all steps of
loop and consumer: the JavaScript event loop runs some continuation while there is one,
and providers and tools answer. Nothing is assumed of callers or of listeners that
throw. One condition for all runs is weaker than one per run; it suffices because the
work of every run is bounded by the messages left.

`AgentSession` (`PromptReturns`) has weak fairness for the handlers of the queue, for
timers and sleeps, for the model, its tools and summaries, and for the continuations of
`prompt`, `compact` and `switchSession`. Nothing is assumed of the front end. The
counterexample of `session_retry` is a behaviour that satisfies all of it.

`SessionManager`, `Compaction`, the mom modules and `AuthStorage` state no liveness: Slack,
users and providers may stay silent, and a process may never be started again. What
must not get stuck there is stated as safety (`QueueServed`, `ScheduleMatchesFiles`).

## Findings

Shown by a run:

* `compaction_twice`: "Compaction summarizes older messages while keeping recent ones"
  (`coding-agent/README.md:222`). `prepareCompaction` starts behind the entry of the
  previous compaction (`compaction.ts:616`), so the messages which that compaction had
  kept, and which lie before its entry, are dropped by the next one, neither kept nor
  summarized. When the turn is split and nothing lies before it, the previous summary is
  dropped too (`compaction.ts:743`).
* `session_retry`: "Wait for any in-progress retry to complete"
  (`agent-session.ts:2362`), "Retry failed - will be caught by next agent_end"
  (`agent-session.ts:2345`). The promise of a retry is resolved by a good answer, by
  spent attempts and by an abort. When the repeated request fails with an error that is
  not retried (or overflows), nothing resolves it (`agent-session.ts:427`): `prompt()`
  never returns.

Met while modelling; the models contain the behaviour, and properties name it as an
exception or do not state what it breaks:

* PROTOCOL.md:85 says that every transition into `running` allocates or reuses a run id.
  An effect asked for in an idle session and answered with success enters `running`
  without one (`runtime.ts:226`); only the branch for failures calls `ensureRunId`.
* `isStreaming` is cleared when `agent_end` is handled (`agent.ts:504`), the controller
  and promise of the run only in `finally` (`agent.ts:552-560`), which resolves and
  clears whatever the fields then hold. A listener of `agent_end` that prompts starts a
  run whose controller and promise the `finally` of the first run drops: the second can
  be neither aborted nor awaited, its waiters are released too early, and those of the
  first never, as their promise was overwritten. `RunReachable` and `RunsEnd` except
  runs begun like this and begun over (`over`).
* After a listener has thrown, the loop of its run goes on, calls the model and tools and
  takes queued messages, and nothing can abort it (`agent.ts:529-567`): the other
  exception of `RunReachable` (`threw`).
* A follow-up queued after the last poll (`agent-loop.ts:185`) and before `agent_end` is
  handled is accepted (`agent.ts:265`) and not processed by that run.
* `/fork` copies the history up to the selected point (`coding-agent/README.md:218`), but
  `createBranchedSession` drops label entries from the path (`session-manager.ts:1164`)
  and keeps the `parentId` of the entries behind them: the chain to the root is cut at
  the label. `BranchKeepsSession` excepts paths on which entries follow a label.
* A compaction or a switch rebuilds the context from a file that lacks the messages
  whose events are still queued; events of a run that ends while the session is
  disconnected for a compaction are not heard at all (`agent-session.ts:1548`). These
  are the first three cases of `spoiled`.
* A switch there and back reconnects the session while `compact()` still waits for its
  summary. A prompt sent then fails, its retry drops the error from the context
  (`agent-session.ts:2319`) and sleeps; the summary arrives and the context is rebuilt
  from the file, error included (`agent-session.ts:1630`). The timer's `continue()`
  refuses a context that ends in an answer, its error is dropped
  (`agent-session.ts:2344`), and `prompt()` never returns. This is the case `"revived"`
  of `spoiled`. It needs three acts and came to light when `WaiterHasProgress` would not
  become inductive.
* `isContextOverflow` also holds for a good answer whose usage is beyond the window
  (`overflow.ts:107-113`). `_checkCompaction` then cuts this answer from the context, as
  "the error message" (`agent-session.ts:1724`). When the compaction fails or is aborted
  the model no longer knows its answer, which is in the file; when it succeeds the answer
  is back, and the `continue()` of the retry refuses a context that ends in an answer.
  `ContextMatchesSession` and `DropsByCompaction` except these answers.
* Bash results that come during a run "will be flushed on agent_end"
  (`agent-session.ts:2448`), "after agent turn completes" (`agent-session.ts:2478`). Only
  the next `prompt()` flushes them (`agent-session.ts:860`): a restart before it loses
  them, and after a switch they are written to the other session.
  `ContextMatchesSession` counts them on both sides.
* Two calls of `handleFile` that read the same file at once set two timers, and the map
  keeps one of them (`events.ts:141`). And `mom/docs/events.md:94-95` says that the
  deletion of a file cancels its timer: a deletion that is handled while a call has read
  the file (`events.ts:188`) and has not yet noted it as known (`events.ts:205`) is passed
  over (`events.ts:158`), and the call then sets the timer of a file that is gone.
  `ScheduleMatchesFiles` excepts both (`crossed`).
* The handlers of messages do not look whether they had a message before
  (`slack.ts:274-409`): one that Slack sends again, because it was not acknowledged in
  time (`mom/docs/slack-bot-minimal-guide.md:369`) or after a reconnection
  (`mom/CHANGELOG.md:315`), is logged again and, when the channel is idle, begins a
  second run, which puts it before the model again. Only messages older than `startupTs` are
  held back. `MessageOnce` excepts them (`repeated`).
* `auth-storage.ts:5` promises that locking prevents races of refreshes. A synchronous
  call counts a lock as abandoned after 10 seconds (`lockSync` without `stale`), the
  asynchronous holder renews it every 15: a login, logout or reload in another process
  can take the lock from a refresh that waits for its provider, a second refresh of the
  same token can begin, and the end of the first then removes the lock of the second. A
  process that notices the loss discards the new token pair after the old one is spent.
  `ensureFileExists` writes the empty object outside the lock, over a file that was
  created meanwhile. And the two locks are one only while `auth.json` is no symbolic
  link: `lockSync` takes the path as it is (`auth-storage.ts:69`), `lock` resolves it
  (`auth-storage.ts:124`), and `mom/README.md:115` recommends a link. The model assumes
  there is none.

## Proofs

Every theorem holds for all values of the constants that satisfy the named assumptions
of its module (`SessionsAssumption`, `BoundsAssumption`, `HostAssumption`,
`AgentAssumption`, `AgentSessionAssumption`, `SessionAssumption`, `MomChannelAssumption`,
`MomEventsAssumption`, `CompactionAssumption`, `AuthStorageAssumption`): bounds are
naturals, switches are Boolean and special values are not among the ordinary ones. Two
switches of `Agent` are hypotheses of theorems, see below. The prover takes nothing else.

| module | theorem | property |
|---|---|---|
| `PpprRuntimeProofs` | `TypeCorrect` | `TypeOK` |
| | `NeverWaitsForNothing` | `AwaitingHasPending` |
| | `NeverPendingAndFulfilled` | `PendingNotFulfilled` |
| | `NeverWaitsForAnother` | `PendingOwned` |
| | `RuntimeKeepsLedger` | `LedgerSpec` |
| | `HistoryIsKept` | `HistoryKept` |
| | `StatusIsReported` | `StatusReported` |
| `PpprHostProofs` | `HostTypeCorrect` | `TypeOK` |
| | `EffectsOncePerLoss` | `RepeatedOnlyAfterLoss` |
| | `RecordsPreventRepeats` | `RecordedNeverRepeated` |
| `AgentProofs` | `AgentTyped` | `TypeOK` |
| | `RunsAreReachable` | `RunReachable` |
| | `LoopIsMirrored` | `StateMirrorsLoop` |
| | `CallsAreAnswered` | `ToolCallsAnswered` |
| | `MessagesAreKept` | `NoMessageLost` |
| | `MessagesKeepOrder` | `DeliveredInOrder` |
| `AgentSessionProofs` | `SessionTyped` | types, `TypeInv` |
| | `StoredOnceInOrder` | `PersistedOnceInOrder` |
| | `BashKeepsPairs` | `BashKeepsToolPairs` |
| | `WaitersMakeProgress` | `WaiterHasProgress` |
| | `ContextMatches` | `ContextMatchesSession` |
| | `OnlyCompactionsDrop` | `DropsByCompaction` |
| `SessionManagerProofs` | `TypesHold` | `TypeOK` |
| | `FileHolds` | `FileHoldsSession` |
| | `SessionIsStored` | `StoreSpec` |
| | `MessagesExtend` | `MessageExtendsContext` |
| | `BranchKeeps` | `BranchKeepsSession` |
| `CompactionProofs` | `NothingCutIsForgotten` | `CompactionCoversWhatItCuts` |
| | `ResultsKeepTheirCalls` | `ToolResultsKeepCall` |
| | `RecentMessagesAreKept` | `KeepsRecentMessages` |
| | `SummariesTellWhatIsLeft` | `BranchSummaryTellsWhatIsLeft` |
| `MomProofs` | `MomTypeCorrect` | `TypeOK` |
| | `QueueIsServed` | `QueueServed` |
| | `EventsAreOrdered` | `EventsInOrder` |
| | `ScheduleIsKept` | `ScheduleMatchesFiles` |
| | `ContextIsUpToDate` | `ContextHoldsLog` |
| | `MessagesAreToldOnce` | `MessageOnce` |
| `AuthStorageProofs` | `RefreshesTakeTurns` | `OneRefreshAtATime` |
| | `NobodyStranded` | `NotStranded` |
| | `OthersAreKept` | `KeepsOthers` |

The arguments.

*Runtime.* None of the properties is inductive alone. A resume puts a
snapshot back into memory, so the invariant must speak of snapshots too; a
new request is not fulfilled already only because ids are fresh, so it must bound
every id in every state by `nextId`; a result may empty the pending list only
while it also leaves `awaiting_effect`. The inductive invariant `IInv` therefore
says: `TypeOK`, ids of all requests asked are at most `nextId`, and every state,
in memory or saved, is a `GoodState` (waiting implies pending, pending and
fulfilled disjoint, pending owned by the session, all ids at most `nextId`). Each
transition of `PpprTransitions` has a lemma that it takes good states to good states;
the step theorem has one case per action and cites them.
The ledger proof uses the same invariant: it maps each action to one of the ledger or
to a stutter. The two history theorems are action properties and need only that the
states are runtime states.

*Host* (`HostInv`). An effect can be performed again only while its request is pending
in the state the next call will work on. That state is the caller's, the snapshot, or
the loop's own, depending on where the host is; in it, a pending request was performed at most
as often as states were given up, unless its result is already in hand, and nothing the
snapshot has a record of is pending anywhere. The lemmas about transitions are those of
the runtime, stated again because the two modules have different variables.

*Agent*. Six invariants, each resting on those before it. `TypeInv`: types of state and
runs, and that signal and promise belong to a run that is consumed. `ReachInv` speaks of
all callers and listeners: a run that began when no other was left and still has events
to come is the only one consumed, it has the controller and the promise, and the agent is
streaming, so that nobody can begin another; a run whose consumer is gone has ended, or a
listener threw in it. `OneRun`: there is
no second run with work left. It has the hypothesis `~EagerCallers`: nobody calls
`prompt()` in the moment between the end of a stream and the promise it resolves, the
callers of this repository await it. `StateMirrorsLoop`: state and stream in flight are the
context of the loop. `AllAnswered`: every context is complete, or ends in the turn the
loop is at; calls of failed answers are nowhere answered. `LineInv`: the line of all messages that came in one way, first those that
are through, then stream, loop and queue, is in the order of their numbers and misses
none. The last two have the hypothesis `~ListenersThrow`: after a listener has thrown,
the next run starts from a context that may lack results. Without these hypotheses the
properties are false; the `agent` run checks them with the same values.

*Agent session*. Five invariants, `TypeInv`, `OnceInv`, `PairsInv`, `WaitInv` and `InStep`. For the
first three the actions are sorted into eight kinds by what they do to queue, files and
context (`NextMoves`), and each invariant has one lemma per kind. `OnceInv`: a stored id is not in the queue, queue
and agent have ids in ascending order, and what is in the queue is newer than all that
the handlers have stored. `PairsInv`: a bash result is put aside while the agent streams, and when it
is stored afterwards every call whose result has still to come is itself still in the
queue; so it lands before the call, never between. A context after a compaction picks
some of the messages of the session in their order; which ones, the proof keeps open.
`WaitInv` follows a failure on its way: it is the last event of the only run in the queue
and the last message of the context; without it the context is one the model can be asked
with; the worker drops it and sleeps on such a context; the timer finds it, or a run that
a prompt has begun instead. A good answer has resolved the promise before the end of its
run is handled, and a switch has aborted run and retry before it opens a file. What
depends on the order of runs excepts the cases of `spoiled` in which the events of two
runs are mixed or the context was exchanged under the retry. One lemma per action.
`InStep` strengthens `ContextMatchesSession` to every moment: errors and answers beyond
the window apart, the context holds what a restart would rebuild from the open file and
what the queue still has to store. What is stored comes to what is rebuilt, whatever the
latest compaction keeps (`ContextGets`); what is dropped is the answer at fault, because
by `WaitInv` it is still the last message when its end is handled and nothing rebuilds
the context in between; a switch leads to another file, so that its new context is no
loss. `DropsByCompaction`
follows step by step from the same lemmas.

*Session manager* (`Inv`). Entries in memory and in every file are `Sound`: an id belongs
to one entry and was given out, and parents are older than their children. So the walk to
the root ends (a least entry where it does not would have an older parent), and
`getBranch` returns the one path that is `Linked` from the root to the leaf. The map of
labels has the targets whose last change is a label (`Live`), whether it was kept up entry
by entry or rebuilt from a file. A file is `Held`: it ends with all entries of the process,
behind others that are among them; or nothing was flushed, and then there is no answer and
the file has only entries of the process. It cannot be equality: a file that is opened
without an answer (one a crash has cut short, or a named empty one) is written again as a
whole with the first answer. `FileHoldsSession` follows because what comes first in the
file is repeated behind it and has no last word on a label. For `MessageExtendsContext`,
new ids leave every old branch as it was, and a message behind a path is shown behind what
the path shows. For `BranchKeepsSession`, what is left of the path, with the chain of labels behind it,
is linked, and so is the branch to the new leaf; labels behind a path do not
change its context. Since the path is cut where entries follow a label, this needs the
exception that the property makes. `Keep`, `LabelsOf` and `getBranch` are recursive
functions; facts about them for all sequences come from the set of the sequences
that have the fact, with a least counterexample.

*Compaction* (`TreeInv`, `CallsInv`). The path to an entry is a recursive function over the tree,
and the prover has no induction over data. But parents are older than their entries,
so of the entries for which a fact about paths failed there would be a least one
(`WellFoundedInduction`); in this way `branchTo` is shown to be defined by its equation
and to be increasing. `TreeInv` adds that summaries cover only older entries. A cut at
an entry then separates what the summary covers from what is kept. `CallsInv` says of the
path to every entry that only settings lie between a tool result and its call, and that
no compaction on the path keeps the one and cuts the other. A new entry lengthens the
path to its parent and changes no path there was. The cut is at a message that is no tool
result, or at settings right before it, so that it never falls between the two.
Tokens are summed by a fold of the community modules, which takes the elements of a set
in an order of its own; that the order makes no difference (`SumOrder`), that larger sets
sum up to more and shifted positions to the same is again shown with a least
counterexample, by cardinality (`SmallerSets`). The budget of `KeepsRecentMessages`
then comes down to where the walk from the newest message stops, and a branch that fits
the budget as a whole never ends the walk of its summary early. For
`BranchSummaryTellsWhatIsLeft`, paths that share an entry share all before it
(`PathsNest`), so that the entries behind the common ancestor are those that the path to
the target lacks.

*Mom* (`MomInv`). The queue: events that wait are numbered in the order they came and
after the one of the run, and nothing waits while no run is under way. The log holds
messages of the channel and nothing is under way in a process that is down. For each
file: what is scheduled has its entry in the maps and is known, so that a change cancels
it, nothing is scheduled while a call is under way, there is at most one call, and what
it has read is what the file says or there is a notice, except for `crossed` files.
`ContextInv` is about log and context: entries repeat logged messages, a message that
begins a run was not logged before or counts as `repeated`, and the sync adds only the
first logged message of each text that is missing. The sync goes through the log in ascending order (`Ascending`), which is defined by
what it yields and shown to be defined.

*Credentials* (`AuthInv`). A process that waits for a provider either owns the lock, and
then the file is what it has read, or it was robbed, and then all the tokens it will
write back count as `orphans`. No two providers share a token, so that an answer spends
one credential only. Whoever takes the lock from a waiting process moves it from the
first case to the second; mutual exclusion follows, as the lock has one owner.

Only model-checked: `RunsEnd`, `PromptReturns`, which fails, and `NothingForgotten`, which
fails too. Liveness under fairness is out of the prover's reach; the other safety and
action properties of the runs are all stated by a theorem.

## Not modelled

* *A provider stream that throws or ends without a final message* (`agent-loop.ts`
  `streamAssistantResponse`): the loop is a promise nobody awaits. Listed as a hazard.
* *Parts of the CLI host*: the histories it keeps for display.
* *Parts of the session manager*: migration of old file versions, in-memory sessions
  (`persist` false), the listing of sessions, torn lines, and a second process that
  has the same file open. The code neither detects nor repairs the last two, so there is no
  promise to check.
* *Parts of the agent session*: `fork` and `/new` as operations of their own (a switch to
  another or an empty file is modelled), model, thinking and tool settings, extension
  handlers that wait, runs that fail without an answer, and steering and follow-up
  messages, which are in `Agent`.
* *Parts of mom*: texts and files the bot posts, attachments, the sandbox, users whose name
  is unknown or changes, a backfill that fails or meets its limit of three pages or bot
  messages (`slack.ts:456-489`), several channels (they share nothing but the process),
  and the clock: that `setTimeout` fires at once
  for delays above 2^31 ms is not expressed.
* *Settings manager*: merged global and project settings behind a write queue; one hazard
  of it is listed.
* *legacy-pi-host*: no state of its own.
* *Extensions, tools, providers and OAuth flows, RPC, print and interactive modes, web UI,
  terminal UI, pods, generated tables of models*: they call user code, do I/O, translate
  wire formats or render. Their share of the lines of this repository is by far the
  largest; what they do to the stateful core are the inputs of the modules above.

## Plan

1. `PpprTransitions`, `PpprRuntime`, `EffectLedger`, `PpprHost` and all their proofs. Done.
2. `Agent`. Done, with proofs of all its invariants.
3. `SessionManager`. Done for one process and whole lines, with proofs of all its
   properties; it implements `SessionStore`. Left: migration.
4. `Compaction`. Done, with proofs of all its properties.
5. `AgentSession` over an abstract agent. Done; proved that messages are stored once,
   tool pairs stay together, waiting callers have something to wait for, the context is
   what a restart would rebuild, and only errors are dropped from it. Left: extension
   handlers that wait, and the composition with `Agent`.
6. `MomChannel`, `MomEvents`. Done, with proofs of all invariants.
7. `AuthStorage`. Done, with proofs; left: the settings manager, whose write queue
   works under the same lock.
