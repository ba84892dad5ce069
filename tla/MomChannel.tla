----------------------------- MODULE MomChannel -----------------------------
(***************************************************************************)
(* One channel of mom, the Slack bot (mom/src): messages come from Slack,  *)
(* are logged in log.jsonl and, if they address the bot, answered by a run *)
(* of the channel's agent, one run at a time.  A run first brings the      *)
(* agent's context up to date with the log.  Events (module MomEvents)     *)
(* join a queue that is worked off when no run is under way.  The process  *)
(* may stop at any moment and is started again.                            *)
(*                                                                         *)
(* Messages are numbered by their Slack timestamp.  Every user is one that *)
(* the bot knows by name.  The texts the bot posts, attachments and the    *)
(* work of the agent (modules Agent, AgentSession, Compaction) are left    *)
(* out.                                                                    *)
(***************************************************************************)
EXTENDS Naturals, Sequences, FiniteSets, SequencesExt

CONSTANTS
  Texts,        \* texts of messages, beside "stop"
  MaxQueue,     \* events that may wait in the channel's queue (5)
  MaxEvents,    \* bound on events
  MaxInputs     \* bound on what happens to the program: messages, repeated
                \* deliveries, stops of the process, changes of event files

ASSUME MomChannelAssumption ==
  /\ "stop" \notin Texts
  /\ {MaxQueue, MaxEvents, MaxInputs} \subseteq Nat

VARIABLES
  history,      \* the channel's messages in Slack: kind, text
  inbox,        \* messages that Slack has still to deliver, or to deliver again
  log,          \* log.jsonl: messages in the order in which they were logged
  context,      \* user messages in the session: text, and the message they stand for
  saved,        \* the session has an answer, so context.jsonl is written
  process,      \* of the bot: "down", "starting", "backfilled" or "up"
  startup,      \* messages up to this one are older than startupTs
  queue,        \* ChannelQueue.queue: works that wait
  run,          \* the run of handleEvent: phase, work, whether the agent was aborted
  stop,         \* stopRequested; posting, "_Stopping..._" is being posted; message,
                \* stopMessageTs is set
  events,       \* events executed so far
  inputs,       \* messages, repeated deliveries, stops and changes so far
  synced,       \* messages that were in the log when the run brought the context up
                \* to date (history variable)
  repeated      \* messages that began a run when they were in the log already
                \* (history variable)

slackVars   == <<history, inbox>>
storeVars   == <<log, context, saved>>
channelVars == <<queue, run, stop>>
processVars == <<process, startup>>
tracking    == <<synced, repeated>>
channel     == <<slackVars, storeVars, channelVars, processVars, events, inputs, tracking>>
-----------------------------------------------------------------------------
Kinds    == {"mention", "chatter"}
Messages == [kind : Kinds, text : Texts] \cup {[kind |-> "mention", text |-> "stop"]}

Text(t) == history[t].text

NoWork   == [message |-> 0, event |-> 0]
Mention(t) == [message |-> t, event |-> 0]
EventOf(n) == [message |-> 0, event |-> n]

Idle    == [phase |-> "idle", work |-> NoWork, aborted |-> FALSE]
Running == run.phase # "idle"
online  == process # "down"

Input == inputs < MaxInputs /\ inputs' = inputs + 1

\* handleEvent up to its first wait; stopped is what is left of the stop before it.
Begin(work, stopped) ==
  /\ run' = [phase |-> "typing", work |-> work, aborted |-> FALSE]
  /\ stop' = [stopped EXCEPT !.requested = FALSE]

\* Wrong variant: the newest work is taken first.
TakeLast(stopped) ==
  IF queue = <<>> THEN run' = Idle /\ stop' = stopped /\ UNCHANGED queue
  ELSE Begin(Last(queue), stopped) /\ queue' = Front(queue)

\* Wrong variant: the next work waits for another one to be queued.
TakeNone(stopped) == run' = Idle /\ stop' = stopped /\ UNCHANGED queue

\* ChannelQueue.processNext when a work is done.
TakeNext(stopped) ==
  IF queue = <<>> THEN run' = Idle /\ stop' = stopped /\ UNCHANGED queue
  ELSE Begin(Head(queue), stopped) /\ queue' = Tail(queue)

\* ChannelQueue.enqueue.
Enqueue(work) ==
  IF Running THEN queue' = Append(queue, work) /\ UNCHANGED <<run, stop>>
  ELSE Begin(work, stop) /\ UNCHANGED queue

\* Wrong variant: the queue has no limit.
EnqueueAlways == events' = events + 1 /\ Enqueue(EventOf(events + 1))

\* enqueueEvent: the event is dropped when the queue is full.
EnqueueEvent ==
  /\ events' = events + 1
  /\ IF Len(queue) >= MaxQueue THEN UNCHANGED channelVars ELSE Enqueue(EventOf(events + 1))
-----------------------------------------------------------------------------
(* Messages.                                                           *)

\* Somebody writes in the channel.
Write ==
  /\ Input
  /\ \E m \in Messages : history' = Append(history, m)
  /\ inbox' = inbox \cup {Len(history) + 1}
  /\ UNCHANGED <<storeVars, channelVars, processVars, events, tracking>>

\* Slack sends a message again: the socket was reconnected, or Slack has not heard
\* that the message arrived.
SendAgain ==
  /\ Input
  /\ \E t \in ToSet(log) : inbox' = inbox \cup {t}
  /\ UNCHANGED <<history, storeVars, channelVars, processVars, events, tracking>>

\* handleStop up to its first wait.
Stop ==
  /\ run' = [run EXCEPT !.aborted = @ \/ run.phase = "answering"]
  /\ stop' = [stop EXCEPT !.requested = TRUE, !.posting = TRUE]
  /\ UNCHANGED queue

\* Older than startupTs, which is set when the bot has connected.
Old(t) == process = "up" /\ t <= startup

\* The handlers of app_mention and message: log every message; do no more with an old
\* one or with chatter; stop the run, refuse the message, or start a run.
Deliver(t) ==
  /\ process \in {"backfilled", "up"}
  /\ inbox' = inbox \ {t}
  /\ log' = Append(log, t)
  /\ IF Old(t) \/ history[t].kind = "chatter" THEN UNCHANGED <<channelVars, repeated>>
     ELSE IF Text(t) = "stop"
     THEN (IF Running THEN Stop ELSE UNCHANGED channelVars) /\ UNCHANGED repeated
     ELSE IF Running THEN UNCHANGED <<channelVars, repeated>>
     ELSE /\ Enqueue(Mention(t))
          /\ repeated' = IF t \in ToSet(log) THEN repeated \cup {t} ELSE repeated
  /\ UNCHANGED <<history, context, saved, processVars, events, inputs, synced>>

\* The rest of handleStop: the bot has posted "_Stopping..._".
StopPosted ==
  /\ online /\ stop.posting
  /\ stop' = [stop EXCEPT !.posting = FALSE, !.message = TRUE]
  /\ UNCHANGED <<slackVars, storeVars, queue, run, processVars, events, inputs, tracking>>
-----------------------------------------------------------------------------
(* A run.                                                                  *)

InContext(text) == \E i \in DOMAIN context : context[i].text = text

\* Wrong variant: only messages newer than those in the context.
UnseenSinceLast(t) ==
  {u \in ToSet(log) \ {t} : \A i \in DOMAIN context : context[i].message < u}

\* Wrong variant: the message of the run is not left to its prompt.
UnseenWithCurrent(t) == {u \in ToSet(log) : ~InContext(Text(u))}

\* syncLogToSessionManager: the messages to add, all but the current one, whose text
\* is not in the context; of those with the same text the one logged first.
Unseen(t) ==
  {u \in ToSet(log) \ {t} :
     /\ ~InContext(Text(u))
     /\ u = log[SelectInSeq(log, LAMBDA v : v # t /\ Text(v) = Text(u))]}

Entry(t) == [text |-> Text(t), message |-> t]

\* The messages of a set by their time stamps.
Ascending(S) == CHOOSE s \in SetToSeqs(S) : \A i, j \in DOMAIN s : i < j => s[i] < s[j]

\* The bot shows that it thinks; run() brings the context up to date.
Sync ==
  /\ online /\ run.phase = "typing"
  /\ run' = [run EXCEPT !.phase = "synced"]
  /\ LET added == Ascending(Unseen(run.work.message)) IN
       context' = context \o [i \in DOMAIN added |-> Entry(added[i])]
  /\ synced' = ToSet(log)
  /\ UNCHANGED <<slackVars, log, saved, queue, stop, processVars, events, inputs, repeated>>

\* session.prompt() with the message of the run.
Prompt ==
  /\ online /\ run.phase = "synced"
  /\ run' = [run EXCEPT !.phase = "answering"]
  /\ context' = Append(context, IF run.work.message = 0 THEN [text |-> "event", message |-> 0]
                                ELSE Entry(run.work.message))
  /\ UNCHANGED <<slackVars, log, saved, queue, stop, processVars, events, inputs, tracking>>

\* The answer, which may be an error or what an abort leaves of it.
Answer ==
  /\ online /\ run.phase = "answering"
  /\ run' = [run EXCEPT !.phase = "closing"]
  /\ saved' = TRUE
  /\ UNCHANGED <<slackVars, log, context, queue, stop, processVars, events, inputs, tracking>>

\* The end of handleEvent; the "_Stopping..._" that was posted becomes "_Stopped_".
Close ==
  /\ online /\ run.phase = "closing"
  /\ TakeNext([stop EXCEPT !.message = @ /\ ~(run.aborted /\ stop.requested)])
  /\ UNCHANGED <<slackVars, storeVars, processVars, events, inputs, tracking>>

\* A run that fails before its prompt: a file cannot be written, there is no API key.
Fail ==
  /\ online /\ run.phase \in {"typing", "synced"}
  /\ TakeNext(stop)
  /\ UNCHANGED <<slackVars, storeVars, processVars, events, inputs, tracking>>
-----------------------------------------------------------------------------
(* The process.                                                            *)

NoStop == [requested |-> FALSE, posting |-> FALSE, message |-> FALSE]

\* The process stops, and what it had not written is gone.
CrashChannel ==
  /\ online /\ Input
  /\ process' = "down"
  /\ queue' = <<>> /\ run' = Idle /\ stop' = NoStop
  /\ context' = IF saved THEN context ELSE <<>>
  /\ synced' = {}
  /\ UNCHANGED <<slackVars, log, saved, startup, events, repeated>>

\* main.ts starts the process; the events watcher does not wait for Slack.
RestartChannel ==
  /\ process = "down" /\ process' = "starting"
  /\ UNCHANGED <<slackVars, storeVars, channelVars, startup, events, inputs, tracking>>

\* start(): the log of a channel that has one gets the messages that are newer than
\* all that it holds.
Backfill ==
  /\ process = "starting" /\ process' = "backfilled"
  /\ log' = IF log = <<>> THEN log
            ELSE LET latest == Max(ToSet(log))
                 IN  log \o [i \in 1 .. Len(history) - latest |-> latest + i]
  /\ UNCHANGED <<slackVars, context, saved, channelVars, startup, events, inputs, tracking>>

\* start(): the bot is connected, and what is older than this moment is only logged.
Connect ==
  /\ process = "backfilled" /\ process' = "up"
  /\ startup' = Len(history)
  /\ UNCHANGED <<slackVars, storeVars, channelVars, events, inputs, tracking>>

InitChannel ==
  /\ history = <<>> /\ inbox = {}
  /\ log = <<>> /\ context = <<>> /\ saved = FALSE
  /\ process = "up" /\ startup = 0
  /\ queue = <<>> /\ run = Idle /\ stop = NoStop
  /\ events = 0 /\ inputs = 0 /\ synced = {} /\ repeated = {}

-----------------------------------------------------------------------------
(* Properties.                                                             *)

ChannelTypeOK ==
  /\ history \in Seq(Messages) /\ inbox \subseteq DOMAIN history
  /\ process \in {"down", "starting", "backfilled", "up"} /\ startup <= Len(history)
  /\ log \in Seq(DOMAIN history) /\ {synced, repeated} \subseteq SUBSET ToSet(log)
  /\ queue \in Seq({EventOf(n) : n \in 1 .. events}) /\ Len(queue) <= MaxQueue
  /\ run.phase \in {"idle", "typing", "synced", "answering", "closing"}
  /\ Running => online

\* When the model is asked, its context holds the text of every message that had been
\* logged when the run brought its context up to date (Sync), not of those that were
\* logged between that and the prompt: chatter, messages that were refused, messages
\* that were written while the process was stopped, and those of runs that failed or
\* were cut off (context.ts 42-142, agent.ts 652-656).
ContextHoldsLog ==
  run.phase \in {"answering", "closing"} => \A t \in synced : InContext(Text(t))

\* No message is put before the model twice: by its own prompt and by the log, or by a
\* log that repeated deliveries and the backfill filled twice (context.ts 91-142).  The
\* handlers do not look whether they had a message before (slack.ts 274-409), so one
\* that comes again when the channel is idle begins another run, which prompts with it
\* again; such messages are excepted.
MessageOnce ==
  \A i, j \in DOMAIN context :
    context[i].message = context[j].message /\ context[i].message \notin repeated \cup {0}
    => i = j

\* No work is left in the queue without a run that takes it up at its end, however runs
\* end: answered, aborted, or failed before the prompt.
QueueServed == queue # <<>> => Running

\* Events of a channel are handled in the order in which they came.
EventsInOrder ==
  [][LET before == run.work.event  after == run'.work.event IN
     (before # 0 /\ after # 0) => before <= after]_run
=============================================================================
