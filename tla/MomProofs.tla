------------------------------ MODULE MomProofs ------------------------------
(***************************************************************************)
(* Proofs about MomEvents, and with it MomChannel, for every number of     *)
(* messages, events and event files and every limit of the queue.          *)
(*                                                                         *)
(* The inductive invariants are about the queue of the channel, about the  *)
(* log, about each file of the watcher, and about the context of the       *)
(* agent.                                                                  *)
(***************************************************************************)
EXTENDS MomEvents, FiniteSetTheorems, TLAPS

Works  == [message : Nat, event : Nat]
Phases == {"idle", "typing", "synced", "answering", "closing"}
Runs   == [phase : Phases, work : Works, aborted : BOOLEAN]

\* Works wait behind a run, in the order of their events.
QueueInv ==
  /\ events \in Nat /\ run \in Runs /\ queue \in Seq(Works)
  /\ run.work.event <= events /\ Len(queue) <= MaxQueue
  /\ \A i \in 1 .. Len(queue) :
       queue[i].message = 0 /\ run.work.event < queue[i].event /\ queue[i].event <= events
  /\ \A i, j \in 1 .. Len(queue) : i < j => queue[i].event < queue[j].event
  /\ QueueServed

\* The events of two runs come in the order of the runs.
Order == run.work.event # 0 /\ run'.work.event # 0 => run.work.event <= run'.work.event

(* At first nothing waits.                                                 *)
LEMMA InitQueue == Init => QueueInv
  BY MomChannelAssumption
  DEF Init, InitChannel, QueueInv, QueueServed, Runs, Phases, Works, Idle, NoWork

(* A run ends, and the oldest work is taken up.                            *)
LEMMA TakeNextKeeps ==
  ASSUME QueueInv, NEW s, TakeNext(s), UNCHANGED events
  PROVE  QueueInv' /\ Order
<1>1. CASE queue = <<>>
  <2>1. run' = Idle /\ queue' = <<>>
    BY <1>1 DEF TakeNext
  <2>. QED
    BY <2>1, MomChannelAssumption
    DEF QueueInv, QueueServed, Order, Runs, Phases, Works, Idle, NoWork
<1>2. CASE queue # <<>>
  <2>1. /\ run' = [phase |-> "typing", work |-> Head(queue), aborted |-> FALSE]
        /\ queue' = Tail(queue)
    BY <1>2 DEF TakeNext, Begin
  <2>2. queue \in Seq(Works) /\ Len(queue) \in Nat /\ Len(queue) >= 1 /\ Head(queue) = queue[1]
    BY <1>2 DEF QueueInv
  <2>3. /\ queue' \in Seq(Works) /\ Len(queue') = Len(queue) - 1
        /\ \A i \in 1 .. Len(queue') : queue'[i] = queue[i + 1] /\ i + 1 \in 1 .. Len(queue)
    BY <2>1, <2>2
  <2>4. Head(queue) \in Works /\ 1 \in 1 .. Len(queue)
    BY <2>2
  <2>5. run' \in Runs /\ run'.work = queue[1] /\ run'.phase = "typing"
    BY <2>1, <2>2, <2>4 DEF Runs, Phases
  <2>6. run.work.event \in Nat /\ \A i \in 1 .. Len(queue) : queue[i].event \in Nat
    <3>1. \A i \in 1 .. Len(queue) : queue[i] \in Works
      BY <2>2
    <3>. QED
      BY <3>1 DEF QueueInv, Runs, Works
  <2>7. \A i \in 1 .. Len(queue') :
          /\ queue'[i].message = 0 /\ run'.work.event < queue'[i].event
          /\ queue'[i].event <= events
    BY <2>2, <2>3, <2>4, <2>5 DEF QueueInv
  <2>8. \A i, j \in 1 .. Len(queue') : i < j => queue'[i].event < queue'[j].event
    <3>1. \A i, j \in 1 .. Len(queue) : i < j => queue[i].event < queue[j].event
      BY DEF QueueInv
    <3>2. ASSUME NEW i \in 1 .. Len(queue'), NEW j \in 1 .. Len(queue'), i < j
          PROVE  queue'[i].event < queue'[j].event
      <4>1. /\ i + 1 \in 1 .. Len(queue) /\ queue'[i] = queue[i + 1]
            /\ j + 1 \in 1 .. Len(queue) /\ queue'[j] = queue[j + 1]
        BY <2>3
      <4>2. i + 1 < j + 1
        BY <3>2
      <4>. QED
        BY <3>1, <4>1, <4>2
    <3>. QED
      BY <3>2
  <2>9. run'.work.event <= events /\ Order
    BY <2>4, <2>5, <2>6 DEF QueueInv, Order
  <2>10. Len(queue') <= MaxQueue
    BY <2>2, <2>3, MomChannelAssumption DEF QueueInv
  <2>11. QueueServed'
    BY <2>5 DEF QueueServed, Running
  <2>. QED
    BY <2>3, <2>5, <2>7, <2>8, <2>9, <2>10, <2>11 DEF QueueInv
<1>. QED
  BY <1>1, <1>2

(* An event is dropped, begins a run, or waits behind all others.          *)
LEMMA EnqueueEventKeeps ==
  ASSUME QueueInv, EnqueueEvent
  PROVE  QueueInv' /\ Order
<1>1. events \in Nat /\ events' = events + 1 /\ MaxQueue \in Nat
  BY MomChannelAssumption DEF QueueInv, EnqueueEvent
<1>2. /\ run \in Runs /\ run.work.event \in Nat /\ run.work.event <= events
      /\ queue \in Seq(Works) /\ Len(queue) \in Nat
      /\ \A i \in 1 .. Len(queue) : queue[i].event \in Nat
  <2>1. queue \in Seq(Works) /\ run \in Runs /\ run.work.event <= events
    BY DEF QueueInv
  <2>2. \A i \in 1 .. Len(queue) : queue[i] \in Works
    BY <2>1
  <2>3. Len(queue) \in Nat
    BY <2>1
  <2>. QED
    BY <2>1, <2>2, <2>3 DEF Runs, Works
<1>3. CASE UNCHANGED channelVars
  BY <1>1, <1>2, <1>3 DEF QueueInv, QueueServed, Running, Order, channelVars
<1>4. CASE Len(queue) < MaxQueue /\ ~Running /\ Begin(EventOf(events + 1), stop) /\ UNCHANGED queue
  <2>1. run' = [phase |-> "typing", work |-> EventOf(events + 1), aborted |-> FALSE]
    BY <1>4 DEF Begin
  <2>2. queue = <<>> /\ queue' = <<>>
    BY <1>4 DEF QueueInv, QueueServed
  <2>3. run' \in Runs /\ run'.work.event = events + 1
    BY <1>1, <2>1 DEF Runs, Phases, Works, EventOf
  <2>. QED
    BY <1>1, <1>2, <2>2, <2>3 DEF QueueInv, QueueServed, Order
<1>5. CASE Len(queue) < MaxQueue /\ Running /\ UNCHANGED run
           /\ queue' = Append(queue, EventOf(events + 1))
  <2>1. EventOf(events + 1) \in Works /\ EventOf(events + 1).event = events + 1
        /\ EventOf(events + 1).message = 0
    BY <1>1 DEF Works, EventOf
  <2>2. /\ queue' \in Seq(Works) /\ Len(queue') = Len(queue) + 1
        /\ \A i \in 1 .. Len(queue) : queue'[i] = queue[i]
        /\ queue'[Len(queue) + 1] = EventOf(events + 1)
    BY <1>2, <1>5, <2>1
  <2>3. \A i \in 1 .. Len(queue') : i \in 1 .. Len(queue) \/ i = Len(queue) + 1
    BY <1>2, <2>2
  <2>4. \A i \in 1 .. Len(queue') :
          /\ queue'[i].message = 0 /\ run'.work.event < queue'[i].event
          /\ queue'[i].event <= events'
    BY <1>1, <1>2, <1>5, <2>1, <2>2, <2>3 DEF QueueInv
  <2>5. \A i, j \in 1 .. Len(queue') : i < j => queue'[i].event < queue'[j].event
    <3>. SUFFICES ASSUME NEW i \in 1 .. Len(queue'), NEW j \in 1 .. Len(queue'), i < j
                  PROVE  queue'[i].event < queue'[j].event
      OBVIOUS
    <3>1. i \in 1 .. Len(queue)
      BY <1>2, <2>2
    <3>2. queue[i].event <= events /\ queue[i].event \in Nat
      BY <1>2, <3>1 DEF QueueInv
    <3>. QED
      BY <1>1, <2>1, <2>2, <2>3, <3>1, <3>2 DEF QueueInv
  <2>6. Len(queue') <= MaxQueue
    BY <1>1, <1>2, <1>5, <2>2
  <2>7. QueueServed' /\ Order
    BY <1>2, <1>5 DEF QueueServed, Running, Order
  <2>8. events' \in Nat /\ run' \in Runs /\ run'.work.event <= events'
    BY <1>1, <1>2, <1>5
  <2>. QED
    BY <2>2, <2>4, <2>5, <2>6, <2>7, <2>8 DEF QueueInv
<1>. QED
  BY <1>1, <1>2, <1>3, <1>4, <1>5 DEF EnqueueEvent, Enqueue

(* A step within a run, whose work it keeps.                               *)
LEMMA RunGoesOn ==
  ASSUME QueueInv, UNCHANGED <<queue, events>>, run' \in Runs, run'.work = run.work,
         Running => Running'
  PROVE  QueueInv' /\ Order
<1>1. run.work.event \in Nat
  BY DEF QueueInv, Runs, Works
<1>. QED
  BY <1>1 DEF QueueInv, QueueServed, Order

(* A message is refused, stops the run, or begins one.                     *)
LEMMA DeliverKeeps ==
  ASSUME QueueInv, NEW t \in Nat, Deliver(t)
  PROVE  QueueInv' /\ Order
<1>1. UNCHANGED events /\ run \in Runs /\ events \in Nat
  BY DEF Deliver, QueueInv
<1>2. CASE UNCHANGED channelVars
  BY <1>1, <1>2, RunGoesOn DEF channelVars, Running
<1>3. CASE Stop
  <2>1. /\ run' = [run EXCEPT !.aborted = @ \/ run.phase = "answering"] /\ UNCHANGED queue
    BY <1>3 DEF Stop
  <2>2. run' \in Runs /\ run'.work = run.work /\ run'.phase = run.phase
    BY <1>1, <2>1 DEF Runs
  <2>. QED
    BY <1>1, <2>1, <2>2, RunGoesOn DEF Running
<1>4. CASE ~Running /\ Enqueue(Mention(t))
  <2>1. /\ run' = [phase |-> "typing", work |-> Mention(t), aborted |-> FALSE]
        /\ UNCHANGED queue /\ queue = <<>>
    BY <1>4 DEF Enqueue, Begin, QueueInv, QueueServed
  <2>2. run' \in Runs /\ run'.work.event = 0
    BY <2>1 DEF Runs, Phases, Works, Mention
  <2>. QED
    BY <1>1, <2>1, <2>2, MomChannelAssumption DEF QueueInv, QueueServed, Order
<1>. QED
  BY <1>2, <1>3, <1>4 DEF Deliver

(* The other steps of the channel.                                         *)
LEMMA ChannelKeeps ==
  ASSUME QueueInv,
         \/ Write \/ SendAgain \/ StopPosted \/ Sync \/ Prompt \/ Answer \/ Close \/ Fail
         \/ Backfill \/ Connect
  PROVE  QueueInv' /\ Order
<1>1. CASE Write \/ SendAgain \/ StopPosted \/ Backfill \/ Connect
  <2>1. UNCHANGED <<queue, run, events>>
    BY <1>1 DEF Write, SendAgain, StopPosted, Backfill, Connect, channelVars
  <2>. QED
    BY <2>1, RunGoesOn DEF QueueInv, Running
<1>2. CASE Sync \/ Prompt \/ Answer
  <2>1. PICK ph \in {"synced", "answering", "closing"} :
          run' = [run EXCEPT !.phase = ph] /\ UNCHANGED <<queue, events>>
    BY <1>2 DEF Sync, Prompt, Answer
  <2>2. run' \in Runs /\ run'.work = run.work /\ run'.phase = ph
    BY <2>1 DEF QueueInv, Runs, Phases
  <2>. QED
    BY <2>1, <2>2, RunGoesOn DEF Running
<1>3. CASE Close \/ Fail
  <2>1. \E s : TakeNext(s) /\ UNCHANGED events
    BY <1>3 DEF Close, Fail
  <2>. QED
    BY <2>1, TakeNextKeeps
<1>. QED
  BY <1>1, <1>2, <1>3


\* Log and startup speak of messages there are.
LogInv ==
  /\ history \in Seq(Messages) /\ inbox \subseteq 1 .. Len(history)
  /\ startup \in Nat /\ startup <= Len(history)
  /\ log \in Seq(1 .. Len(history))
  /\ synced \subseteq ToSet(log) /\ repeated \subseteq ToSet(log)

\* The process, and that a run belongs to one.
ProcessInv ==
  /\ process \in {"down", "starting", "backfilled", "up"}
  /\ Running => online

(* A crash ends the run and empties the queue.                             *)
LEMMA CrashKeeps ==
  ASSUME QueueInv, CrashChannel
  PROVE  QueueInv' /\ Order
<1>1. run' = Idle /\ queue' = <<>> /\ UNCHANGED events
  BY DEF CrashChannel
<1>. QED
  BY <1>1, MomChannelAssumption
  DEF QueueInv, QueueServed, Order, Runs, Phases, Works, Idle, NoWork

(* Every step keeps the queue and the order of events.                     *)
LEMMA QueueStep == QueueInv /\ LogInv /\ [Next]_vars => QueueInv' /\ Order
<1>. SUFFICES ASSUME QueueInv, LogInv, [Next]_vars PROVE QueueInv' /\ Order
  OBVIOUS
<1>1. ASSUME UNCHANGED <<queue, run, events>> PROVE QueueInv' /\ Order
  BY <1>1, RunGoesOn DEF QueueInv, Running
<1>2. CASE ChannelStep
  <2>1. ASSUME NEW t \in inbox, Deliver(t) PROVE QueueInv' /\ Order
    BY <2>1, DeliverKeeps DEF LogInv
  <2>. QED
    BY <1>2, <2>1, ChannelKeeps DEF ChannelStep
<1>3. CASE Change \/ Restart
  BY <1>1, <1>3 DEF Change, Restart, RestartChannel, channel, channelVars
<1>4. CASE Crash
  BY <1>4, CrashKeeps DEF Crash
<1>5. ASSUME NEW f \in Files,
             \/ HandleFileChange(f) \/ ReadFile(f) \/ GiveUp(f) \/ HandleOneShot(f)
             \/ HandlePeriodic(f)
      PROVE  QueueInv' /\ Order
  BY <1>1, <1>5
  DEF HandleFileChange, ReadFile, GiveUp, HandleOneShot, HandlePeriodic, channel, channelVars
<1>6. ASSUME NEW f \in Files, HandleImmediate(f) \/ TimerFires(f) \/ CronFires(f)
      PROVE  QueueInv' /\ Order
  <2>1. EnqueueEvent \/ UNCHANGED <<channelVars, events>>
    BY <1>6 DEF HandleImmediate, TimerFires, CronFires
  <2>. QED
    BY <1>1, <2>1, EnqueueEventKeeps DEF channelVars
<1>7. CASE UNCHANGED vars
  BY <1>1, <1>7 DEF vars, channel, channelVars
<1>. QED
  BY <1>2, <1>3, <1>4, <1>5, <1>6, <1>7 DEF Next, HandleFile

(* A run is begun and ended by a process.                                  *)
LEMMA ProcessStep == ProcessInv /\ [Next]_vars => ProcessInv'
<1>. SUFFICES ASSUME ProcessInv, [Next]_vars PROVE ProcessInv'
  OBVIOUS
<1>1. ASSUME UNCHANGED process, online \/ UNCHANGED run PROVE ProcessInv'
  BY <1>1 DEF ProcessInv, online, Running
<1>2. CASE ChannelStep
  <2>1. ASSUME NEW t \in inbox, Deliver(t) PROVE ProcessInv'
    BY <1>1, <2>1 DEF Deliver, processVars, online
  <2>2. CASE Write \/ SendAgain
    BY <1>1, <2>2 DEF Write, SendAgain, processVars, channelVars
  <2>3. CASE StopPosted \/ Sync \/ Prompt \/ Answer \/ Close \/ Fail
    BY <1>1, <2>3 DEF StopPosted, Sync, Prompt, Answer, Close, Fail, processVars
  <2>4. CASE Backfill \/ Connect
    BY <2>4 DEF Backfill, Connect, ProcessInv, online, Running, channelVars
  <2>. QED
    BY <1>2, <2>1, <2>2, <2>3, <2>4 DEF ChannelStep
<1>3. CASE Change
  BY <1>1, <1>3 DEF Change, channel, channelVars, processVars
<1>4. CASE Restart
  BY <1>4 DEF Restart, RestartChannel, ProcessInv, online, Running, channelVars
<1>5. CASE Crash
  BY <1>5 DEF Crash, CrashChannel, ProcessInv, online, Running, Idle
<1>6. ASSUME NEW f \in Files,
             \/ HandleFileChange(f) \/ ReadFile(f) \/ GiveUp(f) \/ HandleImmediate(f)
             \/ HandleOneShot(f) \/ HandlePeriodic(f) \/ TimerFires(f) \/ CronFires(f)
      PROVE  ProcessInv'
  BY <1>1, <1>6
  DEF HandleFileChange, ReadFile, GoesOn, GiveUp, HandleImmediate, HandleOneShot, HandlePeriodic, TimerFires,
      CronFires, channel, channelVars, processVars
<1>7. CASE UNCHANGED vars
  BY <1>1, <1>7 DEF vars, channel, channelVars, processVars
<1>. QED
  BY <1>2, <1>3, <1>4, <1>5, <1>6, <1>7 DEF Next, HandleFile

(* A log that is not empty has a newest message.                           *)
LEMMA NewestExists ==
  ASSUME NEW n \in Nat, NEW S \in SUBSET (1 .. n), S # {}
  PROVE  Max(S) \in S
<1>. DEFINE R == OpToRel(<, Nat)
            T == {n - x : x \in S}
<1>1. T \subseteq Nat /\ T # {}
  <2>1. \A x \in S : n - x \in Nat
    OBVIOUS
  <2>. QED
    BY <2>1
<1>2. \E i \in T : \A j \in T : ~ (<<j, i>> \in R)
  BY <1>1, NatLessThanWellFounded, WFMin, Zenon
<1>3. \A i, j \in Nat : <<j, i>> \in R <=> j < i
  BY DEF OpToRel
<1>. HIDE DEF R
<1>4. PICK i \in T : \A j \in T : ~ (<<j, i>> \in R)
  BY <1>2
<1>5. PICK x \in S : i = n - x
  BY <1>4
<1>6. ASSUME NEW y \in S PROVE x >= y
  <2>1. n - y \in T /\ n - y \in Nat /\ i \in Nat
    BY <1>1, <1>4
  <2>2. ~ (n - y < i)
    BY <1>3, <1>4, <2>1
  <2>. QED
    BY <1>5, <2>1, <2>2
<1>. QED
  BY <1>6 DEF Max

(* The backfill logs messages there are.                                   *)
LEMMA BackfillLogs ==
  ASSUME LogInv, Backfill
  PROVE  log' \in Seq(1 .. Len(history)) /\ ToSet(log) \subseteq ToSet(log')
<1>1. Len(history) \in Nat /\ log \in Seq(1 .. Len(history))
  BY DEF LogInv
<1>2. CASE log = <<>>
  BY <1>1, <1>2 DEF Backfill
<1>3. CASE log # <<>>
  <2>. DEFINE latest == Max(ToSet(log))
              new == [i \in 1 .. Len(history) - latest |-> latest + i]
  <2>1. ToSet(log) \subseteq 1 .. Len(history) /\ ToSet(log) # {}
    <3>1. \A i \in 1 .. Len(log) : log[i] \in 1 .. Len(history)
      BY <1>1
    <3>2. DOMAIN log = 1 .. Len(log) /\ 1 \in 1 .. Len(log)
      BY <1>1, <1>3
    <3>. QED
      BY <3>1, <3>2 DEF ToSet
  <2>2. latest \in 1 .. Len(history)
    BY <1>1, <2>1, NewestExists
  <2>3. log' = log \o new
    BY <1>3 DEF Backfill
  <2>. HIDE DEF latest
  <2>4. new \in Seq(1 .. Len(history))
    BY <1>1, <2>2
  <2>. HIDE DEF new
  <2>5. log' \in Seq(1 .. Len(history)) /\ Len(log') = Len(log) + Len(new)
        /\ \A i \in 1 .. Len(log) : log'[i] = log[i]
    BY <1>1, <2>3, <2>4
  <2>6. \A i \in DOMAIN log : i \in DOMAIN log' /\ log'[i] = log[i]
    <3>1. DOMAIN log = 1 .. Len(log) /\ DOMAIN log' = 1 .. Len(log')
      BY <1>1, <2>5
    <3>2. Len(log) \in Nat /\ Len(new) \in Nat
      BY <1>1, <2>4
    <3>. QED
      BY <2>5, <3>1, <3>2
  <2>. QED
    BY <2>5, <2>6 DEF ToSet
<1>. QED
  BY <1>2, <1>3

(* Every step keeps the log.                                               *)
LEMMA LogStep == LogInv /\ [Next]_vars => LogInv'
<1>. SUFFICES ASSUME LogInv, [Next]_vars PROVE LogInv'
  OBVIOUS
<1>0. /\ history \in Seq(Messages) /\ Len(history) \in Nat /\ inbox \subseteq 1 .. Len(history)
      /\ startup \in Nat /\ startup <= Len(history) /\ log \in Seq(1 .. Len(history))
      /\ synced \subseteq ToSet(log) /\ repeated \subseteq ToSet(log)
  BY DEF LogInv
<1>1. ASSUME UNCHANGED <<history, inbox, startup, log, tracking>> PROVE LogInv'
  BY <1>1 DEF LogInv, tracking
<1>2. ASSUME Write PROVE LogInv'
  <2>1. PICK m \in Messages : history' = Append(history, m)
    BY <1>2 DEF Write
  <2>2. history' \in Seq(Messages) /\ Len(history') = Len(history) + 1
    BY <1>0, <2>1
  <2>3. 1 .. Len(history) \subseteq 1 .. Len(history') /\ Len(history) + 1 \in 1 .. Len(history')
    BY <1>0, <2>2
  <2>4. /\ UNCHANGED <<log, synced, repeated, startup>>
        /\ inbox' = inbox \cup {Len(history) + 1}
    BY <1>2 DEF Write, storeVars, processVars, tracking
  <2>5. log' \in Seq(1 .. Len(history'))
    BY <1>0, <2>3, <2>4
  <2>6. startup' <= Len(history')
    BY <1>0, <2>2, <2>4
  <2>. QED
    BY <1>0, <2>2, <2>3, <2>4, <2>5, <2>6 DEF LogInv
<1>3. ASSUME NEW t \in inbox, Deliver(t) PROVE LogInv'
  <2>1. /\ inbox' = inbox \ {t} /\ log' = Append(log, t)
        /\ UNCHANGED <<history, startup, synced>> /\ repeated' \subseteq repeated \cup {t}
    BY <1>3 DEF Deliver, processVars
  <2>2. t \in 1 .. Len(history)
    BY <1>0
  <2>3. log' \in Seq(1 .. Len(history)) /\ \A i \in DOMAIN log : i \in DOMAIN log' /\ log'[i] = log[i]
    BY <1>0, <2>1, <2>2
  <2>4. ToSet(log) \subseteq ToSet(log') /\ t \in ToSet(log')
    <3>1. Len(log) + 1 \in DOMAIN log' /\ log'[Len(log) + 1] = t
      BY <1>0, <2>1, <2>2
    <3>. QED
      BY <2>3, <3>1 DEF ToSet
  <2>. QED
    BY <1>0, <2>1, <2>3, <2>4 DEF LogInv
<1>4. ASSUME Backfill PROVE LogInv'
  <2>1. UNCHANGED <<history, inbox, startup, synced, repeated>>
    BY <1>4 DEF Backfill, slackVars, tracking
  <2>. QED
    BY <1>0, <1>4, <2>1, BackfillLogs DEF LogInv
<1>5. ASSUME Sync PROVE LogInv'
  BY <1>0, <1>5 DEF Sync, LogInv, slackVars, processVars
<1>6. ASSUME Connect PROVE LogInv'
  BY <1>0, <1>6 DEF Connect, LogInv, slackVars, storeVars, tracking
<1>7. ASSUME Crash PROVE LogInv'
  <2>1. synced' = {} /\ UNCHANGED <<history, inbox, log, startup, repeated>>
    BY <1>7 DEF Crash, CrashChannel, slackVars
  <2>. QED
    BY <1>0, <2>1 DEF LogInv
<1>11. ASSUME SendAgain PROVE LogInv'
  <2>1. PICK t \in ToSet(log) : inbox' = inbox \cup {t}
    BY <1>11 DEF SendAgain
  <2>2. t \in 1 .. Len(history)
    BY <1>0 DEF ToSet
  <2>3. UNCHANGED <<history, log, startup, synced, repeated>>
    BY <1>11 DEF SendAgain, storeVars, processVars, tracking
  <2>. QED
    BY <1>0, <2>1, <2>2, <2>3 DEF LogInv
<1>8. ASSUME StopPosted \/ Prompt \/ Answer \/ Close \/ Fail PROVE LogInv'
  BY <1>1, <1>8 DEF StopPosted, Prompt, Answer, Close, Fail, slackVars, storeVars, processVars
<1>9. ASSUME Change \/ Restart \/ UNCHANGED vars PROVE LogInv'
  BY <1>1, <1>9
  DEF Change, Restart, RestartChannel, vars, channel, slackVars, storeVars, processVars
<1>10. ASSUME NEW f \in Files,
              \/ HandleFileChange(f) \/ ReadFile(f) \/ GiveUp(f) \/ HandleImmediate(f)
              \/ HandleOneShot(f) \/ HandlePeriodic(f) \/ TimerFires(f) \/ CronFires(f)
       PROVE  LogInv'
  BY <1>1, <1>10
  DEF HandleFileChange, ReadFile, GiveUp, HandleImmediate, HandleOneShot, HandlePeriodic, TimerFires,
      CronFires, channel, slackVars, storeVars, processVars
<1>. QED
  BY <1>2, <1>3, <1>4, <1>5, <1>6, <1>7, <1>8, <1>9, <1>10, <1>11
  DEF Next, ChannelStep, HandleFile

(* What the watcher knows of a file.                                       *)
FilesTyped ==
  /\ dir \in [Files -> Contents \cup {"none"}] /\ old \subseteq Files
  /\ notice \subseteq Files /\ known \subseteq Files /\ crossed \subseteq Files
  /\ reading \in [Files -> Nat] /\ got \in [Contents -> [Files -> Nat]]
  /\ live \in [Scheduled -> [Files -> Nat]] /\ mapped \in [Scheduled -> SUBSET Files]

\* What has an entry will fire; a process that is down keeps nothing.
EntriesLive ==
  /\ \A k \in Scheduled, f \in Files : f \in mapped[k] => live[k][f] > 0
  /\ ~online => notice = {} /\ \A f \in Files :
       /\ reading[f] = 0 /\ f \notin known /\ \A c \in Contents : got[c][f] = 0
       /\ \A k \in Scheduled : live[k][f] = 0

\* One call of handleFile at a time, and what it has read is what the file says, unless
\* there is a notice.
CallOrderly(f) ==
  /\ reading[f] <= 1 /\ (Reads(f) => ~HasRead(f))
  /\ \A c, d \in Contents : got[c][f] > 0 /\ d # c => got[c][f] = 1 /\ got[d][f] = 0
  /\ \A c \in Contents : (online /\ f \notin notice /\ got[c][f] > 0) =>
       dir[f] = c \/ (c = "invalid" /\ dir[f] = "none")

\* A file with a call under way has nothing scheduled, and what is scheduled has its
\* entry and is known, so that the next notice cancels it.
ScheduleOrderly(f) ==
  /\ \A k \in Scheduled : live[k][f] <= 1
  /\ live["timer"][f] = 0 \/ live["cron"][f] = 0
  /\ \A k \in Scheduled : live[k][f] > 0 =>
       f \in mapped[k] /\ f \in known /\ ~Reads(f) /\ ~HasRead(f)
  /\ (online /\ f \notin notice /\ ~Reads(f) /\ ~HasRead(f)) =>
       /\ live["timer"][f] = (IF dir[f] = "oneshot" THEN 1 ELSE 0)
       /\ live["cron"][f] = (IF dir[f] = "periodic" THEN 1 ELSE 0)
       /\ dir[f] \in {"none", "oneshot", "periodic"}

FileOrderly(f) == CallOrderly(f) /\ ScheduleOrderly(f)

WatchInv ==
  /\ FilesTyped /\ EntriesLive
  /\ \A f \in Files : f \notin crossed => FileOrderly(f)

(* At first there are no files and no timers.                              *)
LEMMA InitWatch == Init => WatchInv
<1>. SUFFICES ASSUME Init PROVE WatchInv
  OBVIOUS
<1>1. /\ dir = [f \in Files |-> "none"] /\ old = {}
      /\ notice = {} /\ reading = [f \in Files |-> 0] /\ known = {}
      /\ got = [c \in Contents |-> [f \in Files |-> 0]]
      /\ live = [k \in Scheduled |-> [f \in Files |-> 0]] /\ mapped = [k \in Scheduled |-> {}]
      /\ crossed = {}
  BY DEF Init, Nothing, NoEntry, NoCall
<1>2. FilesTyped
  BY <1>1 DEF FilesTyped
<1>3. EntriesLive
  BY <1>1 DEF EntriesLive
<1>4. \A f \in Files : FileOrderly(f)
  BY <1>1 DEF FileOrderly, CallOrderly, ScheduleOrderly, Scheduled, Reads, HasRead
<1>. QED
  BY <1>2, <1>3, <1>4 DEF WatchInv

\* What a step leaves of a file that it does not handle.
SameFile(f) ==
  /\ dir'[f] = dir[f] /\ reading'[f] = reading[f]
  /\ f \in notice' <=> f \in notice
  /\ f \in known' <=> f \in known
  /\ f \in crossed' <=> f \in crossed
  /\ \A c \in Contents : got'[c][f] = got[c][f]
  /\ \A k \in Scheduled : live'[k][f] = live[k][f] /\ (f \in mapped'[k] <=> f \in mapped[k])

LEMMA SameKept ==
  ASSUME NEW g, SameFile(g), FileOrderly(g), online' <=> online
  PROVE  FileOrderly(g)'
<1>1. (Reads(g)' <=> Reads(g)) /\ (HasRead(g)' <=> HasRead(g))
  BY DEF SameFile, Reads, HasRead
<1>2. CallOrderly(g)'
  BY <1>1 DEF FileOrderly, SameFile, CallOrderly
<1>3. ScheduleOrderly(g)'
  BY <1>1 DEF FileOrderly, SameFile, ScheduleOrderly, Scheduled
<1>. QED
  BY <1>2, <1>3 DEF FileOrderly

(* A step that handles one file, of a process that is up, need only        *)
(* account for this file.                                                  *)
LEMMA OneFileKeeps ==
  ASSUME WatchInv, online, UNCHANGED process, NEW f \in Files, FilesTyped',
         \A g \in Files : g # f => SameFile(g),
         \A k \in Scheduled : f \in mapped'[k] => live'[k][f] > 0,
         f \notin crossed' => FileOrderly(f)'
  PROVE  WatchInv'
<1>1. online'
  BY DEF online
<1>2. EntriesLive'
  BY <1>1 DEF WatchInv, EntriesLive, SameFile
<1>3. ASSUME NEW g \in Files, g \notin crossed' PROVE FileOrderly(g)'
  <2>1. CASE g = f
    BY <1>3, <2>1
  <2>2. CASE g # f
    <3>1. SameFile(g) /\ FileOrderly(g)
      BY <1>3, <2>2 DEF SameFile, WatchInv
    <3>. QED
      BY <1>1, <3>1, SameKept
  <2>. QED
    BY <2>1, <2>2
<1>. QED
  BY <1>2, <1>3 DEF WatchInv

(* A file that is deleted is noticed, unless it was gone already.          *)
LEMMA Deleted ==
  ASSUME FilesTyped, NEW f \in Files, DeleteFile(f)
  PROVE  /\ dir' \in [Files -> Contents \cup {"none"}] /\ notice' \subseteq Files
         /\ known' \subseteq Files /\ dir'[f] = "none" /\ f \notin known'
         /\ dir[f] # "none" => f \in notice'
         /\ \A g \in Files : g # f =>
              /\ dir'[g] = dir[g] /\ (g \in notice' <=> g \in notice)
              /\ (g \in known' <=> g \in known)
         /\ f \notin notice' => dir[f] = "none" /\ f \notin notice
  BY DEF FilesTyped, DeleteFile

(* A call of handleFile goes on.                                           *)
LEMMA GoneOn ==
  ASSUME FilesTyped, NEW f \in Files, NEW c \in Contents, GoesOn(c, f)
  PROVE  /\ got' \in [Contents -> [Files -> Nat]] /\ got'[c][f] = got[c][f] - 1
         /\ \A d \in Contents, g \in Files : (d # c \/ g # f) => got'[d][g] = got[d][g]
<1>1. /\ got \in [Contents -> [Files -> Nat]]
      /\ got' = [got EXCEPT ![c] = [got[c] EXCEPT ![f] = got[c][f] - 1]]
  BY DEF FilesTyped, GoesOn
<1>2. got[c] \in [Files -> Nat] /\ got[c][f] \in Nat /\ got[c][f] - 1 \in Nat
  BY <1>1 DEF GoesOn
<1>3. /\ got'[c] = [got[c] EXCEPT ![f] = got[c][f] - 1]
      /\ \A d \in Contents : d # c => got'[d] = got[d]
      /\ got' \in [Contents -> [Files -> Nat]]
  BY <1>1, <1>2
<1>. QED
  BY <1>2, <1>3

(* It was the only one, and then nothing is scheduled for the file.        *)
LEMMA LastCall ==
  ASSUME FilesTyped, NEW f \in Files, FileOrderly(f), NEW c \in Contents, GoesOn(c, f)
  PROVE  /\ ~Reads(f) /\ ~HasRead(f)' /\ \A d \in Contents : got'[d][f] = 0
         /\ \A k \in Scheduled : live[k][f] = 0
         /\ (online /\ f \notin notice) => dir[f] = c \/ (c = "invalid" /\ dir[f] = "none")
<1>1. got[c][f] > 0 /\ \A d \in Contents : got[d][f] \in Nat
  BY DEF FilesTyped, GoesOn
<1>2. HasRead(f)
  BY <1>1 DEF HasRead
<1>3. \A d \in Contents : d # c => got[c][f] = 1 /\ got[d][f] = 0
  BY <1>1 DEF FileOrderly, CallOrderly
<1>4. \E d \in Contents : d # c
  BY DEF Contents
<1>5. \A d \in Contents : got'[d][f] = 0
  BY <1>1, <1>3, <1>4, GoneOn
<1>6. \A k \in Scheduled : ~ (live[k][f] > 0) /\ live[k][f] \in Nat
  BY <1>2 DEF FileOrderly, ScheduleOrderly, FilesTyped
<1>7. ~HasRead(f)'
  BY <1>5 DEF HasRead
<1>. QED
  BY <1>1, <1>2, <1>5, <1>6, <1>7 DEF FileOrderly, CallOrderly

(* A new timer or job with its entry.                                      *)
LEMMA IsSet ==
  ASSUME FilesTyped, NEW f \in Files, NEW k \in Scheduled, Set(k, f)
  PROVE  /\ live' \in [Scheduled -> [Files -> Nat]] /\ mapped' \in [Scheduled -> SUBSET Files]
         /\ live'[k][f] = live[k][f] + 1 /\ f \in mapped'[k]
         /\ \A j \in Scheduled, g \in Files : (j # k \/ g # f) =>
              live'[j][g] = live[j][g] /\ (g \in mapped'[j] <=> g \in mapped[j])
<1>1. live \in [Scheduled -> [Files -> Nat]] /\ mapped \in [Scheduled -> SUBSET Files]
  BY DEF FilesTyped
<1>2. /\ live' = [live EXCEPT ![k] = [live[k] EXCEPT ![f] = live[k][f] + 1]]
      /\ mapped' = [mapped EXCEPT ![k] = mapped[k] \cup {f}]
  BY <1>1 DEF Set
<1>3. live[k] \in [Files -> Nat] /\ live[k][f] + 1 \in Nat
  BY <1>1
<1>4. /\ live'[k] = [live[k] EXCEPT ![f] = live[k][f] + 1]
      /\ \A j \in Scheduled : j # k => live'[j] = live[j]
      /\ live' \in [Scheduled -> [Files -> Nat]]
  BY <1>1, <1>2, <1>3
<1>5. /\ mapped'[k] = mapped[k] \cup {f}
      /\ \A j \in Scheduled : j # k => mapped'[j] = mapped[j]
      /\ mapped' \in [Scheduled -> SUBSET Files]
  BY <1>1, <1>2
<1>. QED
  BY <1>3, <1>4, <1>5

(* What has an entry is cancelled; it was there.                           *)
LEMMA Cancelled ==
  ASSUME FilesTyped, EntriesLive, NEW f \in Files, CancelScheduled(f)
  PROVE  /\ live' \in [Scheduled -> [Files -> Nat]] /\ mapped' \in [Scheduled -> SUBSET Files]
         /\ \A k \in Scheduled :
              /\ live'[k][f] = (IF f \in mapped[k] THEN live[k][f] - 1 ELSE live[k][f])
              /\ f \notin mapped'[k]
              /\ \A g \in Files : g # f =>
                   live'[k][g] = live[k][g] /\ (g \in mapped'[k] <=> g \in mapped[k])
<1>1. live \in [Scheduled -> [Files -> Nat]] /\ mapped \in [Scheduled -> SUBSET Files]
  BY DEF FilesTyped
<1>2. \A k \in Scheduled : live[k][f] \in Nat /\ (f \in mapped[k] => live[k][f] > 0)
  BY <1>1 DEF EntriesLive
<1>3. \A k \in Scheduled :
        live'[k] = [live[k] EXCEPT ![f] = IF f \in mapped[k] THEN live[k][f] - 1 ELSE live[k][f]]
  BY <1>1 DEF CancelScheduled
<1>4. ASSUME NEW k \in Scheduled PROVE live'[k] \in [Files -> Nat]
  <2>1. (IF f \in mapped[k] THEN live[k][f] - 1 ELSE live[k][f]) \in Nat
    BY <1>2
  <2>2. live[k] \in [Files -> Nat]
    BY <1>1
  <2>. QED
    BY <1>3, <2>1, <2>2
<1>5. \A k \in Scheduled : mapped'[k] = mapped[k] \ {f}
  BY DEF CancelScheduled
<1>6. DOMAIN live' = Scheduled /\ live' \in [Scheduled -> [Files -> Nat]]
  BY <1>4 DEF CancelScheduled
<1>7. mapped' \in [Scheduled -> SUBSET Files]
  BY <1>1 DEF CancelScheduled
<1>. QED
  BY <1>1, <1>3, <1>5, <1>6, <1>7

(* The notice of a change cancels what was scheduled and begins a read.    *)
LEMMA HandleFileChangeKeeps ==
  ASSUME WatchInv, NEW f \in Files, HandleFileChange(f)
  PROVE  WatchInv'
<1>1. /\ online /\ UNCHANGED <<process, dir, old, got>> /\ notice' = notice \ {f}
  BY DEF HandleFileChange, channel, processVars
<1>2. FilesTyped /\ EntriesLive /\ (f \notin crossed => FileOrderly(f))
  BY DEF WatchInv
<1>a. /\ crossed' \subseteq Files /\ \A g \in Files : g # f => (g \in crossed' <=> g \in crossed)
      /\ f \notin crossed' => f \notin crossed /\ ~HasRead(f) /\ ~(Reads(f) /\ dir[f] # "none")
  BY <1>2 DEF HandleFileChange, FilesTyped
<1>3. /\ live' \in [Scheduled -> [Files -> Nat]] /\ mapped' \in [Scheduled -> SUBSET Files]
      /\ \A k \in Scheduled, g \in Files : g # f =>
           live'[k][g] = live[k][g] /\ (g \in mapped'[k] <=> g \in mapped[k])
      /\ \A k \in Scheduled : f \in mapped'[k] => live'[k][f] > 0
      /\ f \notin crossed => \A k \in Scheduled : live'[k][f] = 0
  <2>1. CASE f \in known
    <3>1. CancelScheduled(f)
      BY <2>1 DEF HandleFileChange
    <3>2. /\ live' \in [Scheduled -> [Files -> Nat]] /\ mapped' \in [Scheduled -> SUBSET Files]
          /\ \A k \in Scheduled :
               /\ live'[k][f] = (IF f \in mapped[k] THEN live[k][f] - 1 ELSE live[k][f])
               /\ f \notin mapped'[k]
               /\ \A g \in Files : g # f =>
                    live'[k][g] = live[k][g] /\ (g \in mapped'[k] <=> g \in mapped[k])
      BY <1>2, <3>1, Cancelled
    <3>3. \A k \in Scheduled : live[k][f] \in Nat
      BY <1>2 DEF FilesTyped
    <3>4. f \notin crossed => \A k \in Scheduled :
            live[k][f] <= 1 /\ (f \in mapped[k] <=> live[k][f] > 0)
      BY <1>2 DEF FileOrderly, ScheduleOrderly, EntriesLive
    <3>. QED
      BY <3>2, <3>3, <3>4
  <2>2. CASE f \notin known
    <3>1. UNCHANGED <<live, mapped>>
      BY <2>2 DEF HandleFileChange, schedule
    <3>2. live \in [Scheduled -> [Files -> Nat]] /\ mapped \in [Scheduled -> SUBSET Files]
      BY <1>2 DEF FilesTyped
    <3>3. \A k \in Scheduled : f \in mapped[k] => live[k][f] > 0
      BY <1>2 DEF EntriesLive
    <3>4. f \notin crossed => \A k \in Scheduled : ~ (live[k][f] > 0) /\ live[k][f] \in Nat
      BY <1>2, <2>2, <3>2 DEF FileOrderly, ScheduleOrderly
    <3>. QED
      BY <3>1, <3>2, <3>3, <3>4
  <2>. QED
    BY <2>1, <2>2
<1>b. reading \in [Files -> Nat] /\ reading[f] \in Nat
  BY <1>2 DEF FilesTyped
<1>c. \A c \in Contents : f \notin crossed' => got'[c][f] = 0
  <2>1. \A c \in Contents : got[c][f] \in Nat
    BY <1>2 DEF FilesTyped
  <2>. QED
    BY <1>1, <1>a, <2>1 DEF HasRead
<1>4. CASE dir[f] = "none"
  <2>1. known' = known \ {f} /\ UNCHANGED reading
    BY <1>4 DEF HandleFileChange
  <2>2. FilesTyped'
    BY <1>1, <1>2, <1>a, <1>3, <2>1 DEF FilesTyped
  <2>3. \A g \in Files : g # f => SameFile(g)
    BY <1>1, <1>a, <1>3, <2>1 DEF SameFile
  <2>4. f \notin crossed' => FileOrderly(f)'
    <3>. SUFFICES ASSUME f \notin crossed' PROVE FileOrderly(f)'
      OBVIOUS
    <3>1. reading'[f] <= 1
      BY <1>2, <1>a, <2>1 DEF FileOrderly, CallOrderly
    <3>2. ~HasRead(f)'
      BY <1>c DEF HasRead
    <3>3. CallOrderly(f)'
      BY <1>c, <3>1, <3>2 DEF CallOrderly
    <3>4. dir'[f] = "none" /\ \A k \in Scheduled : live'[k][f] = 0
      BY <1>1, <1>3, <1>4, <1>a
    <3>5. ScheduleOrderly(f)'
      BY <3>4 DEF ScheduleOrderly, Scheduled
    <3>. QED
      BY <3>3, <3>5 DEF FileOrderly
  <2>. QED
    BY <1>1, <1>3, <2>2, <2>3, <2>4, OneFileKeeps
<1>5. CASE dir[f] # "none"
  <2>1. reading' = [reading EXCEPT ![f] = reading[f] + 1] /\ UNCHANGED known
    BY <1>5 DEF HandleFileChange, StartReading
  <2>3. reading' \in [Files -> Nat] /\ reading'[f] = reading[f] + 1
        /\ \A g \in Files : g # f => reading'[g] = reading[g]
    BY <2>1, <1>b
  <2>4. FilesTyped'
    BY <1>1, <1>2, <1>a, <1>3, <2>1, <2>3 DEF FilesTyped
  <2>5. \A g \in Files : g # f => SameFile(g)
    BY <1>1, <1>a, <1>3, <2>1, <2>3 DEF SameFile
  <2>6. f \notin crossed' => FileOrderly(f)'
    <3>. SUFFICES ASSUME f \notin crossed' PROVE FileOrderly(f)'
      OBVIOUS
    <3>1. reading[f] = 0 /\ reading'[f] = 1
      BY <1>5, <1>a, <1>b, <2>3 DEF Reads
    <3>2. ~HasRead(f)' /\ Reads(f)'
      BY <1>c, <3>1 DEF HasRead, Reads
    <3>3. CallOrderly(f)'
      BY <1>c, <3>1, <3>2 DEF CallOrderly
    <3>4. \A k \in Scheduled : live'[k][f] = 0
      BY <1>3, <1>a
    <3>5. ScheduleOrderly(f)'
      BY <3>2, <3>4 DEF ScheduleOrderly, Scheduled
    <3>. QED
      BY <3>3, <3>5 DEF FileOrderly
  <2>. QED
    BY <1>1, <1>3, <2>4, <2>5, <2>6, OneFileKeeps
<1>. QED
  BY <1>4, <1>5

(* A file is read; what is read is what it says.                           *)
LEMMA ReadFileKeeps ==
  ASSUME WatchInv, NEW f \in Files, ReadFile(f)
  PROVE  WatchInv'
<1>1. FilesTyped /\ EntriesLive /\ (f \notin crossed => FileOrderly(f))
  BY DEF WatchInv
<1>. DEFINE c == IF dir[f] = "none" THEN "invalid" ELSE dir[f]
<1>2. /\ online /\ UNCHANGED <<process, dir, old, notice, known, live, mapped, crossed>>
      /\ Reads(f) /\ reading' = [reading EXCEPT ![f] = reading[f] - 1]
  BY DEF ReadFile, channel, processVars, schedule
<1>3. c \in Contents /\ reading \in [Files -> Nat] /\ reading[f] - 1 \in Nat
      /\ got \in [Contents -> [Files -> Nat]]
  BY <1>1, <1>2 DEF FilesTyped, Contents, Reads
<1>4. got' = [got EXCEPT ![c] = [got[c] EXCEPT ![f] = got[c][f] + 1]]
  BY <1>3 DEF ReadFile
<1>5. dir[f] = c \/ (c = "invalid" /\ dir[f] = "none")
  OBVIOUS
<1>. HIDE DEF c
<1>6. got[c] \in [Files -> Nat] /\ got[c][f] + 1 \in Nat
  BY <1>3
<1>7. /\ got'[c] = [got[c] EXCEPT ![f] = got[c][f] + 1]
      /\ \A d \in Contents : d # c => got'[d] = got[d]
      /\ got' \in [Contents -> [Files -> Nat]]
  BY <1>3, <1>4, <1>6
<1>8. /\ got'[c][f] = got[c][f] + 1
      /\ \A d \in Contents, g \in Files : (d # c \/ g # f) => got'[d][g] = got[d][g]
  BY <1>6, <1>7
<1>9. reading' \in [Files -> Nat] /\ reading'[f] = reading[f] - 1
      /\ \A g \in Files : g # f => reading'[g] = reading[g]
  BY <1>2, <1>3
<1>10. FilesTyped'
  BY <1>1, <1>2, <1>7, <1>9 DEF FilesTyped
<1>11. \A g \in Files : g # f => SameFile(g)
  BY <1>2, <1>8, <1>9 DEF SameFile
<1>12. \A k \in Scheduled : f \in mapped'[k] => live'[k][f] > 0
  BY <1>1, <1>2 DEF EntriesLive
<1>13. f \notin crossed' => FileOrderly(f)'
  <2>. SUFFICES ASSUME f \notin crossed PROVE FileOrderly(f)'
    BY <1>2
  <2>1. \A d \in Contents : got[d][f] = 0
    <3>1. \A d \in Contents : got[d][f] \in Nat
      BY <1>3
    <3>. QED
      BY <1>1, <1>2, <3>1 DEF FileOrderly, CallOrderly, HasRead
  <2>2. got'[c][f] = 1 /\ \A d \in Contents : d # c => got'[d][f] = 0
    BY <1>3, <1>8, <2>1
  <2>3. reading'[f] = 0
    BY <1>1, <1>2, <1>3, <1>9 DEF FileOrderly, CallOrderly, Reads
  <2>4. ~Reads(f)' /\ HasRead(f)'
    BY <1>3, <2>2, <2>3 DEF Reads, HasRead
  <2>5. CallOrderly(f)'
    <3>1. \A d \in Contents : got'[d][f] > 0 => d = c
      BY <2>2
    <3>. QED
      BY <1>2, <1>5, <2>2, <2>3, <2>4, <3>1 DEF CallOrderly
  <2>6. \A k \in Scheduled : live'[k][f] = 0
    <3>1. \A k \in Scheduled : ~ (live[k][f] > 0) /\ live[k][f] \in Nat
      BY <1>1, <1>2 DEF FileOrderly, ScheduleOrderly, FilesTyped
    <3>. QED
      BY <1>2, <3>1
  <2>7. ScheduleOrderly(f)'
    BY <2>4, <2>6 DEF ScheduleOrderly, Scheduled
  <2>. QED
    BY <2>5, <2>7 DEF FileOrderly
<1>. QED
  BY <1>2, <1>10, <1>11, <1>12, <1>13, OneFileKeeps

(* A call that ends with the deletion of the file leaves nothing behind.   *)
LEMMA DeletingCall ==
  ASSUME WatchInv, UNCHANGED <<process, old, reading, schedule, crossed>>, NEW f \in Files,
         NEW c \in Contents, GoesOn(c, f), DeleteFile(f)
  PROVE  WatchInv'
<1>1. FilesTyped /\ EntriesLive /\ online /\ (f \notin crossed => FileOrderly(f))
  BY DEF WatchInv, GoesOn
<1>2. /\ got' \in [Contents -> [Files -> Nat]]
      /\ \A d \in Contents, g \in Files : g # f => got'[d][g] = got[d][g]
  BY <1>1, GoneOn
<1>3. /\ dir' \in [Files -> Contents \cup {"none"}] /\ notice' \subseteq Files
      /\ known' \subseteq Files /\ dir'[f] = "none" /\ f \notin known'
      /\ \A g \in Files : g # f =>
           /\ dir'[g] = dir[g] /\ (g \in notice' <=> g \in notice)
           /\ (g \in known' <=> g \in known)
  BY <1>1, Deleted
<1>4. UNCHANGED <<live, mapped>>
  BY DEF schedule
<1>5. FilesTyped'
  BY <1>1, <1>2, <1>3, <1>4 DEF FilesTyped
<1>6. \A g \in Files : g # f => SameFile(g)
  BY <1>2, <1>3, <1>4 DEF SameFile
<1>7. \A k \in Scheduled : f \in mapped'[k] => live'[k][f] > 0
  BY <1>1, <1>4 DEF EntriesLive
<1>8. f \notin crossed' => FileOrderly(f)'
  <2>. SUFFICES ASSUME f \notin crossed PROVE FileOrderly(f)'
    OBVIOUS
  <2>1. ~Reads(f) /\ ~HasRead(f)' /\ (\A d \in Contents : got'[d][f] = 0)
        /\ \A k \in Scheduled : live[k][f] = 0
    BY <1>1, LastCall
  <2>2. ~Reads(f)' /\ reading'[f] <= 1
    BY <1>1, <2>1 DEF Reads, FileOrderly, CallOrderly
  <2>3. CallOrderly(f)'
    BY <2>1, <2>2 DEF CallOrderly
  <2>4. ScheduleOrderly(f)'
    BY <1>3, <1>4, <2>1 DEF ScheduleOrderly, Scheduled
  <2>. QED
    BY <2>3, <2>4 DEF FileOrderly
<1>. QED
  BY <1>1, <1>5, <1>6, <1>7, <1>8, OneFileKeeps

(* The event of a file that is gone meanwhile is passed over.              *)
LEMMA PassingCall ==
  ASSUME WatchInv, UNCHANGED <<process, dir, old, notice, reading, schedule, crossed>>,
         NEW f \in Files, NEW c \in Contents, GoesOn(c, f), dir[f] = "none",
         known' = known \cup {f}
  PROVE  WatchInv'
<1>1. FilesTyped /\ EntriesLive /\ online /\ (f \notin crossed => FileOrderly(f))
  BY DEF WatchInv, GoesOn
<1>2. /\ got' \in [Contents -> [Files -> Nat]]
      /\ \A d \in Contents, g \in Files : g # f => got'[d][g] = got[d][g]
  BY <1>1, GoneOn
<1>4. UNCHANGED <<live, mapped>>
  BY DEF schedule
<1>5. FilesTyped'
  BY <1>1, <1>2, <1>4 DEF FilesTyped
<1>6. \A g \in Files : g # f => SameFile(g)
  BY <1>2, <1>4 DEF SameFile
<1>7. \A k \in Scheduled : f \in mapped'[k] => live'[k][f] > 0
  BY <1>1, <1>4 DEF EntriesLive
<1>8. f \notin crossed' => FileOrderly(f)'
  <2>. SUFFICES ASSUME f \notin crossed PROVE FileOrderly(f)'
    OBVIOUS
  <2>1. ~Reads(f) /\ ~HasRead(f)' /\ (\A d \in Contents : got'[d][f] = 0)
        /\ \A k \in Scheduled : live[k][f] = 0
    BY <1>1, LastCall
  <2>2. ~Reads(f)' /\ reading'[f] <= 1
    BY <1>1, <2>1 DEF Reads, FileOrderly, CallOrderly
  <2>3. CallOrderly(f)'
    BY <2>1, <2>2 DEF CallOrderly
  <2>4. ScheduleOrderly(f)'
    BY <1>4, <2>1 DEF ScheduleOrderly, Scheduled
  <2>. QED
    BY <2>3, <2>4 DEF FileOrderly
<1>. QED
  BY <1>1, <1>5, <1>6, <1>7, <1>8, OneFileKeeps

(* A call that schedules the file; what was there has been cancelled.      *)
LEMMA SchedulingCall ==
  ASSUME WatchInv, UNCHANGED <<process, dir, old, notice, reading, crossed>>, NEW f \in Files,
         NEW k \in Scheduled, GoesOn(IF k = "timer" THEN "oneshot" ELSE "periodic", f),
         known' = known \cup {f}, Set(k, f)
  PROVE  WatchInv'
<1>. DEFINE c == IF k = "timer" THEN "oneshot" ELSE "periodic"
<1>a. c \in Contents /\ c # "invalid" /\ (k = "timer" <=> c = "oneshot") /\ (k # "timer" <=> c = "periodic")
  BY DEF Contents
<1>b. GoesOn(c, f)
  OBVIOUS
<1>. HIDE DEF c
<1>1. FilesTyped /\ EntriesLive /\ online /\ (f \notin crossed => FileOrderly(f))
  BY <1>b DEF WatchInv, GoesOn
<1>2. /\ got' \in [Contents -> [Files -> Nat]]
      /\ \A d \in Contents, g \in Files : g # f => got'[d][g] = got[d][g]
  BY <1>1, <1>a, <1>b, GoneOn
<1>3. /\ live' \in [Scheduled -> [Files -> Nat]] /\ mapped' \in [Scheduled -> SUBSET Files]
      /\ live'[k][f] = live[k][f] + 1 /\ f \in mapped'[k]
      /\ \A j \in Scheduled, g \in Files : (j # k \/ g # f) =>
           live'[j][g] = live[j][g] /\ (g \in mapped'[j] <=> g \in mapped[j])
  BY <1>1, IsSet
<1>4. \A j \in Scheduled : live[j][f] \in Nat
  BY <1>1 DEF FilesTyped
<1>5. FilesTyped'
  BY <1>1, <1>2, <1>3 DEF FilesTyped
<1>6. \A g \in Files : g # f => SameFile(g)
  BY <1>2, <1>3 DEF SameFile
<1>7. \A j \in Scheduled : f \in mapped'[j] => live'[j][f] > 0
  BY <1>1, <1>3, <1>4 DEF EntriesLive
<1>8. f \notin crossed' => FileOrderly(f)'
  <2>. SUFFICES ASSUME f \notin crossed PROVE FileOrderly(f)'
    OBVIOUS
  <2>1. /\ ~Reads(f) /\ ~HasRead(f)' /\ \A d \in Contents : got'[d][f] = 0
        /\ \A j \in Scheduled : live[j][f] = 0
        /\ f \notin notice => dir[f] = c
    BY <1>1, <1>a, <1>b, LastCall
  <2>2. ~Reads(f)' /\ reading'[f] <= 1
    BY <1>1, <2>1 DEF Reads, FileOrderly, CallOrderly
  <2>3. CallOrderly(f)'
    BY <2>1, <2>2 DEF CallOrderly
  <2>4. live'[k][f] = 1 /\ \A j \in Scheduled : j # k => live'[j][f] = 0
    BY <1>3, <2>1
  <2>5. live'["timer"][f] = (IF k = "timer" THEN 1 ELSE 0)
        /\ live'["cron"][f] = (IF k = "timer" THEN 0 ELSE 1)
    BY <2>4 DEF Scheduled
  <2>6. \A j \in Scheduled : live'[j][f] <= 1 /\ (live'[j][f] > 0 => f \in mapped'[j])
    BY <1>3, <2>4
  <2>7. f \in known' /\ dir'[f] = dir[f]
    OBVIOUS
  <2>8. f \notin notice' =>
          /\ live'["timer"][f] = (IF dir'[f] = "oneshot" THEN 1 ELSE 0)
          /\ live'["cron"][f] = (IF dir'[f] = "periodic" THEN 1 ELSE 0)
          /\ dir'[f] \in {"none", "oneshot", "periodic"}
    BY <1>a, <2>1, <2>5
  <2>9. ScheduleOrderly(f)'
    BY <2>1, <2>2, <2>5, <2>6, <2>7, <2>8 DEF ScheduleOrderly
  <2>. QED
    BY <2>3, <2>9 DEF FileOrderly
<1>. QED
  BY <1>1, <1>5, <1>6, <1>7, <1>8, OneFileKeeps

(* The timer of a file fires, and the file is deleted.                     *)
LEMMA TimerFiresKeeps ==
  ASSUME WatchInv, NEW f \in Files, TimerFires(f)
  PROVE  WatchInv'
<1>1. FilesTyped /\ EntriesLive /\ (f \notin crossed => FileOrderly(f))
  BY DEF WatchInv
<1>2. /\ online /\ UNCHANGED <<process, old, reading, got, crossed>> /\ live["timer"][f] > 0
      /\ live' = [live EXCEPT !["timer"][f] = @ - 1]
      /\ mapped' = [mapped EXCEPT !["timer"] = @ \ {f}]
  BY DEF TimerFires, processVars, calls
<1>3. /\ dir' \in [Files -> Contents \cup {"none"}] /\ notice' \subseteq Files
      /\ known' \subseteq Files /\ dir'[f] = "none" /\ f \notin known'
      /\ dir[f] # "none" => f \in notice'
      /\ \A g \in Files : g # f =>
           /\ dir'[g] = dir[g] /\ (g \in notice' <=> g \in notice)
           /\ (g \in known' <=> g \in known)
      /\ f \notin notice' => dir[f] = "none" /\ f \notin notice
  BY <1>1, Deleted DEF TimerFires
<1>4. /\ live \in [Scheduled -> [Files -> Nat]] /\ mapped \in [Scheduled -> SUBSET Files]
      /\ "timer" \in Scheduled /\ "cron" \in Scheduled
  BY <1>1 DEF FilesTyped, Scheduled
<1>5. live["timer"] \in [Files -> Nat] /\ live["timer"][f] - 1 \in Nat
  BY <1>2, <1>4
<1>6. /\ live'["timer"] = [live["timer"] EXCEPT ![f] = live["timer"][f] - 1]
      /\ live'["cron"] = live["cron"] /\ live' \in [Scheduled -> [Files -> Nat]]
  BY <1>2, <1>4, <1>5
<1>7. /\ mapped'["timer"] = mapped["timer"] \ {f} /\ mapped'["cron"] = mapped["cron"]
      /\ mapped' \in [Scheduled -> SUBSET Files]
  BY <1>2, <1>4
<1>8. FilesTyped'
  BY <1>1, <1>2, <1>3, <1>6, <1>7 DEF FilesTyped
<1>9. \A g \in Files : g # f => SameFile(g)
  BY <1>2, <1>3, <1>5, <1>6, <1>7 DEF SameFile, Scheduled
<1>10. \A k \in Scheduled : f \in mapped'[k] => live'[k][f] > 0
  BY <1>1, <1>6, <1>7 DEF EntriesLive, Scheduled
<1>11. f \notin crossed' => FileOrderly(f)'
  <2>. SUFFICES ASSUME f \notin crossed PROVE FileOrderly(f)'
    BY <1>2
  <2>1. ~Reads(f) /\ ~HasRead(f) /\ live["timer"][f] = 1 /\ live["cron"][f] = 0
    <3>1. live["timer"][f] \in Nat
      BY <1>5
    <3>. QED
      BY <1>1, <1>2, <1>4, <3>1 DEF FileOrderly, ScheduleOrderly
  <2>2. live'["timer"][f] = 0 /\ live'["cron"][f] = 0
    BY <1>5, <1>6, <2>1
  <2>3. ~Reads(f)' /\ ~HasRead(f)'
    BY <1>2, <2>1 DEF Reads, HasRead
  <2>4. CallOrderly(f)'
    BY <1>1, <1>2, <2>1, <2>3 DEF FileOrderly, CallOrderly, HasRead
  <2>5. ScheduleOrderly(f)'
    BY <1>3, <2>2 DEF ScheduleOrderly, Scheduled
  <2>. QED
    BY <2>4, <2>5 DEF FileOrderly
<1>. QED
  BY <1>2, <1>8, <1>9, <1>10, <1>11, OneFileKeeps

(* A file that changes is noticed by a process that is up.                 *)
LEMMA ChangeKeeps ==
  ASSUME WatchInv, Change
  PROVE  WatchInv'
<1>1. PICK f \in Files, content \in Contents \cup {"none"} :
        /\ dir' = [dir EXCEPT ![f] = content]
        /\ old' = IF online THEN old \ {f} ELSE old \cup {f}
        /\ notice' = IF online THEN notice \cup {f} ELSE notice
  BY DEF Change
<1>2. UNCHANGED <<process, reading, got, known, live, mapped, crossed>>
  BY DEF Change, processVars, calls, schedule
<1>3. FilesTyped /\ EntriesLive
  BY DEF WatchInv
<1>4. FilesTyped' /\ EntriesLive'
  BY <1>1, <1>2, <1>3 DEF FilesTyped, EntriesLive, online
<1>5. ASSUME NEW g \in Files, g \notin crossed PROVE FileOrderly(g)'
  <2>1. CallOrderly(g) /\ ScheduleOrderly(g) /\ (g # f => dir'[g] = dir[g])
    BY <1>1, <1>3, <1>5 DEF WatchInv, FilesTyped, FileOrderly
  <2>2. online' <=> online
    BY <1>2 DEF online
  <2>3. online => (g \notin notice' => g # f /\ g \notin notice)
    BY <1>1
  <2>4. (Reads(g)' <=> Reads(g)) /\ (HasRead(g)' <=> HasRead(g))
    BY <1>2 DEF Reads, HasRead
  <2>5. CallOrderly(g)'
    BY <1>2, <2>1, <2>2, <2>3, <2>4 DEF CallOrderly
  <2>6. ScheduleOrderly(g)'
    BY <1>2, <2>1, <2>2, <2>3, <2>4 DEF ScheduleOrderly
  <2>. QED
    BY <2>5, <2>6 DEF FileOrderly
<1>. QED
  BY <1>2, <1>4, <1>5 DEF WatchInv

(* A crash forgets what was noticed and scheduled.                         *)
LEMMA CrashForgets ==
  ASSUME WatchInv, Crash
  PROVE  WatchInv'
<1>1. /\ process' = "down" /\ dir' = dir /\ old' = Files
      /\ notice' = {} /\ reading' = [f \in Files |-> 0] /\ known' = {} /\ crossed' = {}
      /\ got' = [c \in Contents |-> [f \in Files |-> 0]]
      /\ live' = [k \in Scheduled |-> [f \in Files |-> 0]] /\ mapped' = [k \in Scheduled |-> {}]
  BY DEF Crash, CrashChannel, Nothing, NoEntry, NoCall
<1>2. FilesTyped'
  BY <1>1 DEF WatchInv, FilesTyped
<1>3. EntriesLive'
  BY <1>1 DEF EntriesLive
<1>4. \A f \in Files : FileOrderly(f)'
  BY <1>1 DEF FileOrderly, CallOrderly, ScheduleOrderly, Scheduled, Reads, HasRead, online
<1>. QED
  BY <1>2, <1>3, <1>4 DEF WatchInv

(* A process that starts reads every file there is.                        *)
LEMMA RestartReads ==
  ASSUME WatchInv, Restart
  PROVE  WatchInv'
<1>1. /\ process = "down" /\ UNCHANGED <<dir, old, notice, got, known, live, mapped, crossed>>
      /\ reading' = [f \in Files |-> IF dir[f] = "none" THEN 0 ELSE 1]
      /\ process' = "starting"
  BY DEF Restart, RestartChannel, schedule
<1>2. FilesTyped /\ EntriesLive
  BY DEF WatchInv
<1>3. FilesTyped'
  BY <1>1, <1>2 DEF FilesTyped
<1>4. ~online /\ online'
  BY <1>1 DEF online
<1>5. EntriesLive'
  BY <1>1, <1>2, <1>4 DEF EntriesLive
<1>6. ASSUME NEW f \in Files PROVE FileOrderly(f)'
  <2>1. /\ reading'[f] = (IF dir[f] = "none" THEN 0 ELSE 1) /\ dir'[f] = dir[f]
        /\ \A c \in Contents : got'[c][f] = 0
        /\ \A k \in Scheduled : live'[k][f] = 0
    BY <1>1, <1>2, <1>4 DEF EntriesLive
  <2>2. ~HasRead(f)' /\ (~Reads(f)' => dir'[f] = "none")
    BY <2>1 DEF Reads, HasRead
  <2>3. CallOrderly(f)'
    BY <2>1, <2>2 DEF CallOrderly
  <2>4. ScheduleOrderly(f)'
    BY <2>1, <2>2 DEF ScheduleOrderly, Scheduled
  <2>. QED
    BY <2>3, <2>4 DEF FileOrderly
<1>. QED
  BY <1>3, <1>5, <1>6 DEF WatchInv

(* Every step keeps what the watcher knows.                                *)
LEMMA WatchStep == WatchInv /\ [Next]_vars => WatchInv'
<1>. SUFFICES ASSUME WatchInv, [Next]_vars PROVE WatchInv'
  OBVIOUS
<1>1. ASSUME UNCHANGED watcher, online' <=> online PROVE WatchInv'
  <2>1. UNCHANGED <<dir, old, notice, reading, got, known, live, mapped, crossed>>
    BY <1>1 DEF watcher, watching, calls, schedule
  <2>2. FilesTyped' /\ EntriesLive'
    BY <1>1, <2>1 DEF WatchInv, FilesTyped, EntriesLive
  <2>3. \A g \in Files : SameFile(g)
    BY <2>1 DEF SameFile
  <2>4. ASSUME NEW g \in Files, g \notin crossed' PROVE FileOrderly(g)'
    <3>1. SameFile(g) /\ FileOrderly(g)
      BY <2>1, <2>3, <2>4 DEF WatchInv
    <3>. QED
      BY <1>1, <3>1, SameKept
  <2>. QED
    BY <2>2, <2>4 DEF WatchInv
<1>2. CASE ChannelStep
  <2>1. ASSUME NEW t \in inbox, Deliver(t) PROVE UNCHANGED process
    BY <2>1 DEF Deliver, processVars
  <2>2. Write \/ SendAgain \/ StopPosted \/ Sync \/ Prompt \/ Answer \/ Close \/ Fail
        => UNCHANGED process
    BY DEF Write, SendAgain, StopPosted, Sync, Prompt, Answer, Close, Fail, processVars
  <2>3. Backfill \/ Connect => online /\ online'
    BY DEF Backfill, Connect, online
  <2>4. (online' <=> online) /\ UNCHANGED watcher
    BY <1>2, <2>1, <2>2, <2>3 DEF ChannelStep, online
  <2>. QED
    BY <1>1, <2>4
<1>3. ASSUME NEW f \in Files, HandleFileChange(f) \/ ReadFile(f) PROVE WatchInv'
  BY <1>3, HandleFileChangeKeeps, ReadFileKeeps
<1>4. ASSUME NEW f \in Files, GiveUp(f) PROVE WatchInv'
  <2>1. /\ GoesOn("invalid", f) /\ DeleteFile(f) /\ "invalid" \in Contents
        /\ UNCHANGED <<process, old, reading, schedule, crossed>>
    BY <1>4 DEF GiveUp, Contents, channel, processVars
  <2>. QED
    BY <2>1, DeletingCall
<1>5. ASSUME NEW f \in Files, HandleImmediate(f) PROVE WatchInv'
  <2>1. /\ GoesOn("immediate", f) /\ "immediate" \in Contents
        /\ UNCHANGED <<process, old, reading, schedule, crossed>>
    BY <1>5 DEF HandleImmediate, Contents, processVars
  <2>2. CASE dir[f] = "none" /\ known' = known \cup {f} /\ UNCHANGED <<dir, notice>>
    <3>1. UNCHANGED <<process, dir, old, notice, reading, schedule, crossed>>
      BY <2>1, <2>2
    <3>. QED
      BY <2>1, <2>2, <3>1, PassingCall
  <2>3. CASE DeleteFile(f)
    BY <2>1, <2>3, DeletingCall
  <2>. QED
    BY <1>5, <2>2, <2>3 DEF HandleImmediate
<1>6. ASSUME NEW f \in Files, HandleOneShot(f) PROVE WatchInv'
  <2>1. /\ GoesOn("oneshot", f) /\ "oneshot" \in Contents
        /\ UNCHANGED <<process, old, reading, crossed>>
    BY <1>6 DEF HandleOneShot, Contents, channel, processVars
  <2>2. CASE DeleteFile(f) /\ UNCHANGED schedule
    <3>1. UNCHANGED <<process, old, reading, schedule, crossed>>
      BY <2>1, <2>2
    <3>. QED
      BY <2>1, <2>2, <3>1, DeletingCall
  <2>3. CASE Set("timer", f) /\ known' = known \cup {f} /\ UNCHANGED <<dir, notice>>
    <3>1. /\ UNCHANGED <<process, dir, old, notice, reading, crossed>> /\ "timer" \in Scheduled
          /\ GoesOn(IF "timer" = "timer" THEN "oneshot" ELSE "periodic", f)
      BY <2>1, <2>3 DEF Scheduled
    <3>. QED
      BY <2>3, <3>1, SchedulingCall
  <2>. QED
    BY <1>6, <2>2, <2>3 DEF HandleOneShot
<1>7. ASSUME NEW f \in Files, HandlePeriodic(f) PROVE WatchInv'
  <2>1. /\ GoesOn("periodic", f) /\ Set("cron", f) /\ known' = known \cup {f}
        /\ UNCHANGED <<process, dir, old, notice, reading, crossed>> /\ "cron" \in Scheduled
    BY <1>7 DEF HandlePeriodic, channel, processVars, Scheduled
  <2>2. GoesOn(IF "cron" = "timer" THEN "oneshot" ELSE "periodic", f)
    BY <2>1
  <2>. QED
    BY <2>1, <2>2, SchedulingCall
<1>8. ASSUME NEW f \in Files, TimerFires(f) PROVE WatchInv'
  BY <1>8, TimerFiresKeeps
<1>9. ASSUME NEW f \in Files, CronFires(f) PROVE WatchInv'
  BY <1>1, <1>9 DEF CronFires, processVars, online
<1>10. CASE UNCHANGED vars
  BY <1>1, <1>10 DEF vars, channel, processVars, online
<1>. QED
  BY <1>2, <1>3, <1>4, <1>5, <1>6, <1>7, <1>8, <1>9, <1>10, ChangeKeeps, CrashForgets, RestartReads
  DEF Next, HandleFile

(* The first index with a property.                                        *)
LEMMA LeastExists ==
  ASSUME NEW S \in SUBSET Nat, S # {}
  PROVE  Min(S) \in S /\ \A y \in S : Min(S) <= y
<1>. DEFINE R == OpToRel(<, Nat)
<1>1. \E x \in S : \A y \in S : ~ (<<y, x>> \in R)
  BY NatLessThanWellFounded, WFMin, Zenon
<1>2. \A i, j \in Nat : <<j, i>> \in R <=> j < i
  BY DEF OpToRel
<1>. HIDE DEF R
<1>3. PICK x \in S : \A y \in S : ~ (<<y, x>> \in R)
  BY <1>1
<1>4. \A y \in S : x <= y
  <2>. TAKE y \in S
  <2>1. x \in Nat /\ y \in Nat /\ ~ (y < x)
    BY <1>2, <1>3
  <2>. QED
    BY <2>1
<1>. QED
  BY <1>3, <1>4 DEF Min

\* The set can be put in ascending order.
Sortable(S) ==
  \E m \in Nat : \E g \in [1 .. m -> S] :
    /\ \A i, j \in 1 .. m : i < j => g[i] < g[j]
    /\ \A x \in S : \E i \in 1 .. m : g[i] = x

(* The greatest element can be put last.                                   *)
LEMMA SortedWithLast ==
  ASSUME NEW S \in SUBSET Nat, NEW x \in S, \A y \in S \ {x} : y < x, Sortable(S \ {x})
  PROVE  Sortable(S)
<1>1. PICK m \in Nat : \E g \in [1 .. m -> S \ {x}] :
        /\ \A i, j \in 1 .. m : i < j => g[i] < g[j]
        /\ \A y \in S \ {x} : \E i \in 1 .. m : g[i] = y
  BY DEF Sortable
<1>2. PICK g \in [1 .. m -> S \ {x}] :
        /\ \A i, j \in 1 .. m : i < j => g[i] < g[j]
        /\ \A y \in S \ {x} : \E i \in 1 .. m : g[i] = y
  BY <1>1
<1>. DEFINE h == [i \in 1 .. m + 1 |-> IF i = m + 1 THEN x ELSE g[i]]
<1>3. \A i \in 1 .. m + 1 : i = m + 1 \/ i \in 1 .. m
  BY <1>2
<1>4. h \in [1 .. m + 1 -> S]
  BY <1>2, <1>3
<1>5. \A i, j \in 1 .. m + 1 : i < j => h[i] < h[j]
  <2>. SUFFICES ASSUME NEW i \in 1 .. m + 1, NEW j \in 1 .. m + 1, i < j PROVE h[i] < h[j]
    OBVIOUS
  <2>1. i \in 1 .. m /\ i # m + 1
    BY <1>2
  <2>2. CASE j = m + 1
    BY <1>2, <2>1, <2>2
  <2>3. CASE j # m + 1
    BY <1>2, <1>3, <2>1, <2>3
  <2>. QED
    BY <2>2, <2>3
<1>6. \A y \in S : \E i \in 1 .. m + 1 : h[i] = y
  <2>1. m + 1 \in 1 .. m + 1 /\ h[m + 1] = x
    BY <1>2
  <2>2. \A i \in 1 .. m : i \in 1 .. m + 1 /\ h[i] = g[i]
    BY <1>2
  <2>. QED
    BY <1>2, <2>1, <2>2
<1>7. m + 1 \in Nat
  BY <1>2
<1>. HIDE DEF h
<1>. QED
  BY <1>4, <1>5, <1>6, <1>7 DEF Sortable

(* Every set of messages can be put in ascending order: a least bound for  *)
(* which it could not would not be zero, and without its greatest element  *)
(* the set could.                                                          *)
LEMMA SetsSortable == \A n \in Nat : \A S \in SUBSET (1 .. n) : Sortable(S)
<1>. DEFINE R == OpToRel(<, Nat)
            Bad == {n \in Nat : \E S \in SUBSET (1 .. n) : ~ Sortable(S)}
<1>. SUFFICES ASSUME Bad # {} PROVE FALSE
  OBVIOUS
<1>1. \E n \in Bad : \A k \in Bad : ~ (<<k, n>> \in R)
  BY NatLessThanWellFounded, WFMin, Zenon
<1>2. \A i, j \in Nat : <<j, i>> \in R <=> j < i
  BY DEF OpToRel
<1>. HIDE DEF R
<1>3. PICK n \in Bad : \A k \in Bad : ~ (<<k, n>> \in R)
  BY <1>1
<1>4. n \in Nat /\ \A k \in Nat : k < n => k \notin Bad
  BY <1>2, <1>3
<1>5. PICK S \in SUBSET (1 .. n) : ~ Sortable(S)
  BY <1>3
<1>6. CASE n = 0
  <2>1. S = {}
    BY <1>5, <1>6
  <2>. DEFINE g == [i \in 1 .. 0 |-> 0]
  <2>2. g \in [1 .. 0 -> S]
    OBVIOUS
  <2>. QED
    BY <1>5, <2>1, <2>2 DEF Sortable
<1>7. CASE n # 0
  <2>1. n - 1 \in Nat /\ n - 1 < n
    BY <1>4, <1>7
  <2>2. \A T \in SUBSET (1 .. n - 1) : Sortable(T)
    BY <1>4, <2>1
  <2>3. S \ {n} \in SUBSET (1 .. n - 1)
    BY <1>4
  <2>4. CASE n \in S
    <3>1. S \in SUBSET Nat /\ \A y \in S \ {n} : y < n
      BY <1>4
    <3>. HIDE DEF Bad
    <3>. QED
      BY <1>5, <2>2, <2>3, <2>4, <3>1, SortedWithLast
  <2>5. CASE n \notin S
    <3>1. S \ {n} = S
      BY <2>5
    <3>. QED
      BY <1>5, <2>2, <2>3, <3>1
  <2>. QED
    BY <2>4, <2>5
<1>. QED
  BY <1>6, <1>7

(* The messages in the order of their time stamps: each of them, once.     *)
LEMMA AscendingIs ==
  ASSUME NEW n \in Nat, NEW S \in SUBSET (1 .. n)
  PROVE  /\ Ascending(S) \in Seq(S)
         /\ \A i, j \in DOMAIN Ascending(S) : Ascending(S)[i] = Ascending(S)[j] => i = j
         /\ \A x \in S : \E i \in DOMAIN Ascending(S) : Ascending(S)[i] = x
<1>1. IsFiniteSet(S)
  <2>1. IsFiniteSet(1 .. n)
    BY FS_Interval
  <2>. QED
    BY <2>1, FS_Subset
<1>a. PICK m \in Nat : \E g \in [1 .. m -> S] :
        /\ \A i, j \in 1 .. m : i < j => g[i] < g[j]
        /\ \A x \in S : \E i \in 1 .. m : g[i] = x
  BY SetsSortable DEF Sortable
<1>2. PICK g \in [1 .. m -> S] :
        /\ \A i, j \in 1 .. m : i < j => g[i] < g[j]
        /\ \A x \in S : \E i \in 1 .. m : g[i] = x
  BY <1>a
<1>3. \A i, j \in 1 .. m : g[i] = g[j] => i = j
  <2>. SUFFICES ASSUME NEW i \in 1 .. m, NEW j \in 1 .. m, g[i] = g[j], i # j PROVE FALSE
    OBVIOUS
  <2>1. i < j \/ j < i
    OBVIOUS
  <2>2. g[i] \in S
    BY <1>2
  <2>3. g[i] \in Nat
    <3>1. \A x \in S : x \in 1 .. n
      OBVIOUS
    <3>2. g[i] \in 1 .. n
      BY <2>2, <3>1
    <3>. QED
      BY <3>2
  <2>4. g[i] < g[j] \/ g[j] < g[i]
    BY <1>2, <2>1
  <2>5. \A x \in Nat : ~ (x < x)
    OBVIOUS
  <2>. QED
    BY <2>3, <2>4, <2>5
<1>4. m = Cardinality(S)
  <2>1. g \in Bijection(1 .. m, S)
    BY <1>2, <1>3 DEF Bijection, Injection, Surjection, IsInjective
  <2>. QED
    BY <1>2, <2>1, FS_CountingElements DEF ExistsBijection
<1>5. g \in SetToSeqs(S) /\ \A i, j \in DOMAIN g : i < j => g[i] < g[j]
  BY <1>2, <1>3, <1>4 DEF SetToSeqs
<1>6. Ascending(S) \in SetToSeqs(S)
  BY <1>5 DEF Ascending
<1>7. /\ Ascending(S) \in [1 .. m -> S]
      /\ \A i, j \in 1 .. m : i # j => Ascending(S)[i] # Ascending(S)[j]
  BY <1>4, <1>6 DEF SetToSeqs
<1>8. Ascending(S) \in Surjection(1 .. m, S)
  <2>1. Ascending(S) \in Injection(1 .. m, S)
    BY <1>7 DEF Injection, IsInjective
  <2>2. IsFiniteSet(1 .. m) /\ Cardinality(1 .. m) = m
    BY FS_Interval
  <2>. QED
    BY <1>1, <1>4, <2>1, <2>2, FS_Injection
<1>. QED
  BY <1>7, <1>8 DEF Surjection

\* The context: entries stand for logged messages and repeat their texts; a message
\* that begins a run is not in the context before its prompt, unless it began a run
\* when it was logged already; what the run has synced is there, or has the text of
\* its own message.
Entries == [text : Texts \cup {"stop", "event"}, message : Nat]

FromLog ==
  \A i \in 1 .. Len(context) : context[i].message # 0 =>
    context[i].message \in ToSet(log) /\ context[i].text = Text(context[i].message)

NotPrompted ==
  run.phase \in {"typing", "synced"} /\ run.work.message \notin repeated \cup {0} =>
    \A i \in 1 .. Len(context) : context[i].message # run.work.message

HoldsSynced ==
  run.phase = "synced" => \A t \in synced :
    InContext(Text(t)) \/ (run.work.message # 0 /\ Text(run.work.message) = Text(t))

RunLogged == Running /\ run.work.message # 0 => run.work.message \in ToSet(log)

ContextInv ==
  /\ context \in Seq(Entries) /\ FromLog /\ MessageOnce
  /\ RunLogged /\ NotPrompted /\ HoldsSynced /\ ContextHoldsLog

(* Texts of messages that are there do not change.                         *)
LEMMA TextsStay ==
  ASSUME LogInv, LogInv', [Next]_vars
  PROVE  /\ \A t \in ToSet(log) : Text(t)' = Text(t) /\ Text(t) \in Texts \cup {"stop"}
         /\ \A t \in ToSet(log) : t \in Nat /\ t # 0
<1>1. history \in Seq(Messages) /\ \A t \in ToSet(log) : t \in 1 .. Len(history)
  BY DEF LogInv, ToSet
<1>2. \A t \in 1 .. Len(history) : history[t] \in Messages
  BY <1>1
<1>3. \A t \in 1 .. Len(history) : history'[t] = history[t]
  <2>1. CASE Write
    BY <1>1, <2>1 DEF Write
  <2>2. CASE UNCHANGED history
    BY <2>2
  <2>3. Write \/ UNCHANGED history
    BY DEF Next, ChannelStep, SendAgain, Deliver, StopPosted, Sync, Prompt, Answer, Close, Fail, Backfill,
           Connect, Change, Crash, CrashChannel, Restart, RestartChannel, HandleFileChange,
           HandleFile, ReadFile, GiveUp, HandleImmediate, HandleOneShot, HandlePeriodic,
           TimerFires, CronFires, vars, channel, slackVars
  <2>. QED
    BY <2>1, <2>2, <2>3
<1>4. \A t \in 1 .. Len(history) : history[t].text \in Texts \cup {"stop"}
  BY <1>2 DEF Messages
<1>. QED
  BY <1>1, <1>3, <1>4 DEF Text

(* A step that leaves the context and adds to the log keeps the context.   *)
LEMMA ContextStays ==
  ASSUME ContextInv, LogInv, LogInv', [Next]_vars, UNCHANGED <<context, synced>>,
         ToSet(log) \subseteq ToSet(log'), RunLogged', NotPrompted',
         run'.phase = "synced" => run.phase = "synced" /\ run'.work = run.work,
         run'.phase \in {"answering", "closing"} => run.phase \in {"answering", "closing"},
         repeated \subseteq repeated'
  PROVE  ContextInv'
<1>1. /\ \A t \in ToSet(log) : Text(t)' = Text(t)
      /\ synced \subseteq ToSet(log)
  BY TextsStay DEF LogInv
<1>2. FromLog'
  BY <1>1 DEF ContextInv, FromLog
<1>3. MessageOnce' /\ context' \in Seq(Entries)
  BY DEF ContextInv, MessageOnce
<1>4. \A x : InContext(x)' <=> InContext(x)
  BY DEF InContext
<1>5. ContextHoldsLog'
  BY <1>1, <1>4 DEF ContextInv, ContextHoldsLog, InContext
<1>6. HoldsSynced'
  <2>. SUFFICES ASSUME run'.phase = "synced", NEW t \in synced
                PROVE  \/ \E i \in DOMAIN context : context[i].text = history'[t].text
                       \/ /\ run'.work.message # 0
                          /\ history'[run'.work.message].text = history'[t].text
    BY DEF HoldsSynced, Text, InContext
  <2>1. run.phase = "synced" /\ run'.work = run.work /\ t \in ToSet(log)
    BY <1>1
  <2>2. CASE InContext(Text(t))
    BY <1>1, <2>1, <2>2 DEF InContext, Text
  <2>3. CASE run.work.message # 0 /\ Text(run.work.message) = Text(t)
    <3>1. run.work.message \in ToSet(log)
      BY <2>1, <2>3 DEF ContextInv, RunLogged, Running
    <3>. QED
      BY <1>1, <2>1, <2>3, <3>1 DEF Text
  <2>. QED
    BY <2>1, <2>2, <2>3 DEF ContextInv, HoldsSynced
<1>. QED
  BY <1>2, <1>3, <1>5, <1>6 DEF ContextInv

(* Messages of the log are messages of the channel.                        *)
LEMMA LogTexts ==
  ASSUME LogInv
  PROVE  /\ \A t \in ToSet(log) : Text(t) \in Texts \cup {"stop"} /\ t \in Nat /\ t # 0
         /\ ToSet(log) \in SUBSET (1 .. Len(history)) /\ Len(history) \in Nat
<1>1. history \in Seq(Messages) /\ Len(history) \in Nat
      /\ \A t \in ToSet(log) : t \in 1 .. Len(history)
  BY DEF LogInv, ToSet
<1>2. \A t \in 1 .. Len(history) : history[t] \in Messages
  BY <1>1
<1>3. \A t \in 1 .. Len(history) : history[t].text \in Texts \cup {"stop"}
  BY <1>2 DEF Messages
<1>. QED
  BY <1>1, <1>3 DEF Text

(* The first logged of the messages with a text that is missing is added,  *)
(* and with it the text of all of them.                                    *)
LEMMA UnseenCovers ==
  ASSUME LogInv, NEW t, NEW u \in ToSet(log), u # t, ~ InContext(Text(u))
  PROVE  \E v \in Unseen(t) : Text(v) = Text(u)
<1>. DEFINE I(x) == {i \in 1 .. Len(log) : log[i] # t /\ Text(log[i]) = x}
<1>1. log \in Seq(1 .. Len(history)) /\ Len(log) \in Nat /\ DOMAIN log = 1 .. Len(log)
  BY DEF LogInv
<1>2. I(Text(u)) \in SUBSET Nat /\ I(Text(u)) # {}
  <2>1. PICK i \in 1 .. Len(log) : log[i] = u
    BY <1>1 DEF ToSet
  <2>. QED
    BY <2>1
<1>. DEFINE k == Min(I(Text(u)))
            v == log[k]
<1>3. k \in I(Text(u))
  BY <1>2, LeastExists
<1>4. v \in ToSet(log) \ {t} /\ Text(v) = Text(u)
  BY <1>1, <1>3 DEF ToSet
<1>5. SelectInSeq(log, LAMBDA w : w # t /\ Text(w) = Text(v)) = Min(I(Text(v)))
  BY <1>2, <1>4 DEF SelectInSeq
<1>6. v = log[SelectInSeq(log, LAMBDA w : w # t /\ Text(w) = Text(v))]
  BY <1>4, <1>5
<1>7. v \in Unseen(t)
  BY <1>4, <1>6 DEF Unseen
<1>. QED
  BY <1>4, <1>7

(* What is added is in the log, is not the message of the run, and its     *)
(* text was missing.                                                       *)
LEMMA UnseenIs ==
  ASSUME NEW t
  PROVE  /\ Unseen(t) \subseteq ToSet(log) /\ t \notin Unseen(t)
         /\ \A u \in Unseen(t) : ~ InContext(Text(u))
  BY DEF Unseen

LEMMA Concatenated ==
  ASSUME NEW T, NEW a \in Seq(T), NEW b \in Seq(T)
  PROVE  /\ a \o b \in Seq(T) /\ Len(a) \in Nat /\ Len(b) \in Nat
         /\ Len(a \o b) = Len(a) + Len(b)
         /\ \A i \in 1 .. Len(a) : (a \o b)[i] = a[i]
         /\ \A i \in 1 .. Len(b) : (a \o b)[Len(a) + i] = b[i]
<1>1. /\ a \o b \in Seq(T) /\ Len(a) \in Nat /\ Len(b) \in Nat
      /\ Len(a \o b) = Len(a) + Len(b)
  OBVIOUS
<1>2. \A i \in 1 .. Len(a) : (a \o b)[i] = a[i]
  OBVIOUS
<1>3. ASSUME NEW i \in 1 .. Len(b) PROVE (a \o b)[Len(a) + i] = b[i]
  <2>1. Len(a) + i \in 1 .. Len(a) + Len(b) /\ ~ (Len(a) + i <= Len(a)) /\ Len(a) + i - Len(a) = i
    BY <1>1
  <2>. QED
    BY <2>1
<1>. QED
  BY <1>1, <1>2, <1>3

(* The messages that are added to the context are those that it lacks,     *)
(* each once.                                                              *)
LEMMA SyncAdds ==
  ASSUME LogInv, context \in Seq(Entries), Sync
  PROVE  /\ context' \in Seq(Entries) /\ Len(context) \in Nat
         /\ Len(context) <= Len(context') /\ Len(context') \in Nat
         /\ \A i \in 1 .. Len(context) : context'[i] = context[i]
         /\ \A i \in Len(context) + 1 .. Len(context') :
              \E u \in Unseen(run.work.message) : context'[i] = Entry(u)
         /\ \A i, j \in Len(context) + 1 .. Len(context') :
              context'[i].message = context'[j].message => i = j
         /\ \A u \in Unseen(run.work.message) :
              \E i \in 1 .. Len(context') : context'[i] = Entry(u)
<1>. DEFINE S == Unseen(run.work.message)
            added == Ascending(S)
            new == [i \in DOMAIN added |-> Entry(added[i])]
<1>1. S \in SUBSET (1 .. Len(history)) /\ Len(history) \in Nat
      /\ \A u \in S : Entry(u) \in Entries /\ Entry(u).message = u
  <2>1. S \subseteq ToSet(log)
    BY UnseenIs
  <2>2. \A u \in S : Text(u) \in Texts \cup {"stop"} /\ u \in Nat
    BY <2>1, LogTexts
  <2>3. \A u \in S : Entry(u) \in Entries /\ Entry(u).message = u
    BY <2>2 DEF Entry, Entries
  <2>. QED
    BY <2>1, <2>3, LogTexts
<1>. HIDE DEF S
<1>2. /\ added \in Seq(S)
      /\ \A i, j \in DOMAIN added : added[i] = added[j] => i = j
      /\ \A u \in S : \E i \in DOMAIN added : added[i] = u
  BY <1>1, AscendingIs
<1>. HIDE DEF added
<1>3. Len(added) \in Nat /\ DOMAIN added = 1 .. Len(added)
      /\ \A i \in 1 .. Len(added) : added[i] \in S
  BY <1>2
<1>4. /\ new \in Seq(Entries) /\ Len(new) = Len(added)
      /\ \A i \in 1 .. Len(added) : new[i] = Entry(added[i])
  <2>1. \A i \in 1 .. Len(added) : Entry(added[i]) \in Entries
    BY <1>1, <1>3
  <2>2. DOMAIN new = 1 .. Len(added) /\ \A i \in 1 .. Len(added) : new[i] = Entry(added[i])
    BY <1>3
  <2>3. new = [i \in 1 .. Len(added) |-> Entry(added[i])]
    BY <1>3
  <2>. HIDE DEF new
  <2>4. new \in [1 .. Len(added) -> Entries]
    BY <2>1, <2>3, Zenon
  <2>5. new \in Seq(Entries)
    BY <1>3, <2>4
  <2>. QED
    BY <1>3, <2>2, <2>5
<1>5. context' = context \o new
  BY DEF Sync, S, added
<1>. HIDE DEF new
<1>6. /\ context' \in Seq(Entries) /\ Len(context) \in Nat
      /\ Len(context') = Len(context) + Len(added)
      /\ \A i \in 1 .. Len(context) : context'[i] = context[i]
      /\ \A i \in 1 .. Len(added) : context'[Len(context) + i] = new[i]
  <2>1. context \in Seq(Entries) /\ new \in Seq(Entries)
    BY <1>4
  <2>2. /\ context \o new \in Seq(Entries) /\ Len(context) \in Nat
        /\ Len(context \o new) = Len(context) + Len(new)
        /\ \A i \in 1 .. Len(context) : (context \o new)[i] = context[i]
        /\ \A i \in 1 .. Len(new) : (context \o new)[Len(context) + i] = new[i]
    BY <2>1, Concatenated
  <2>3. Len(new) = Len(added)
    BY <1>4
  <2>. QED
    BY <1>5, <2>2, <2>3, Zenon
<1>7. \A i \in Len(context) + 1 .. Len(context') :
        i - Len(context) \in 1 .. Len(added) /\ context'[i] = Entry(added[i - Len(context)])
  <2>. TAKE i \in Len(context) + 1 .. Len(context')
  <2>1. i - Len(context) \in 1 .. Len(added) /\ i = Len(context) + (i - Len(context))
    BY <1>3, <1>6
  <2>2. context'[Len(context) + (i - Len(context))] = new[i - Len(context)]
    BY <1>6, <2>1
  <2>. QED
    BY <1>4, <2>1, <2>2
<1>8. \A i \in Len(context) + 1 .. Len(context') :
        \E u \in Unseen(run.work.message) : context'[i] = Entry(u)
  BY <1>3, <1>7 DEF S
<1>9. ASSUME NEW i \in Len(context) + 1 .. Len(context'),
             NEW j \in Len(context) + 1 .. Len(context'),
             context'[i].message = context'[j].message
      PROVE  i = j
  <2>1. added[i - Len(context)] = added[j - Len(context)]
    BY <1>1, <1>3, <1>7, <1>9
  <2>2. i - Len(context) = j - Len(context)
    BY <1>2, <1>3, <1>7, <2>1
  <2>. QED
    BY <1>6, <2>2
<1>10. ASSUME NEW u \in Unseen(run.work.message)
       PROVE  \E i \in 1 .. Len(context') : context'[i] = Entry(u)
  <2>1. PICK i \in 1 .. Len(added) : added[i] = u
    BY <1>2, <1>3 DEF S
  <2>2. context'[Len(context) + i] = Entry(u)
    BY <1>4, <1>6, <2>1
  <2>3. Len(context) + i \in 1 .. Len(context')
    BY <1>3, <1>6
  <2>. QED
    BY <2>2, <2>3
<1>. QED
  BY <1>3, <1>6, <1>8, <1>9, <1>10

(* The context is brought up to date.                                      *)
LEMMA SyncKeeps ==
  ASSUME ContextInv, QueueInv, LogInv, Sync
  PROVE  ContextInv'
<1>. DEFINE t == run.work.message
<1>1. /\ run.phase = "typing" /\ run'.phase = "synced" /\ run'.work = run.work
      /\ synced' = ToSet(log) /\ UNCHANGED <<history, log, repeated>>
  <2>1. run \in Runs
    BY DEF QueueInv
  <2>. QED
    BY <2>1 DEF Sync, slackVars, Runs
<1>2. /\ context' \in Seq(Entries) /\ Len(context) \in Nat
      /\ Len(context) <= Len(context') /\ Len(context') \in Nat
      /\ \A i \in 1 .. Len(context) : context'[i] = context[i]
      /\ \A i \in Len(context) + 1 .. Len(context') : \E u \in Unseen(t) : context'[i] = Entry(u)
      /\ \A i, j \in Len(context) + 1 .. Len(context') :
           context'[i].message = context'[j].message => i = j
      /\ \A u \in Unseen(t) : \E i \in 1 .. Len(context') : context'[i] = Entry(u)
  BY SyncAdds DEF ContextInv
<1>3. \A i \in 1 .. Len(context') : i \in 1 .. Len(context) \/ i \in Len(context) + 1 .. Len(context')
  BY <1>2
<1>4. /\ Unseen(t) \subseteq ToSet(log) /\ t \notin Unseen(t)
      /\ \A u \in Unseen(t) : ~ InContext(Text(u))
  BY UnseenIs
<1>5. DOMAIN context' = 1 .. Len(context') /\ DOMAIN context = 1 .. Len(context)
  BY <1>2 DEF ContextInv
<1>6. FromLog'
  <2>. SUFFICES ASSUME NEW i \in 1 .. Len(context'), context'[i].message # 0
                PROVE  /\ context'[i].message \in ToSet(log)
                       /\ context'[i].text = history[context'[i].message].text
    BY <1>1 DEF FromLog, Text, ToSet
  <2>1. CASE i \in 1 .. Len(context)
    BY <1>2, <2>1 DEF ContextInv, FromLog, Text
  <2>2. CASE i \in Len(context) + 1 .. Len(context')
    <3>1. PICK u \in Unseen(t) : context'[i] = Entry(u)
      BY <1>2, <2>2
    <3>2. context'[i].message = u /\ context'[i].text = history[u].text
      BY <3>1 DEF Entry, Text
    <3>. QED
      BY <1>4, <3>2
  <2>. QED
    BY <1>3, <2>1, <2>2
<1>7. ASSUME NEW i \in 1 .. Len(context), NEW j \in Len(context) + 1 .. Len(context'),
             context'[i].message # 0
      PROVE  context'[i].message # context'[j].message
  <2>1. PICK u \in Unseen(t) : context'[j] = Entry(u)
    BY <1>2
  <2>2. context[i].text = Text(context[i].message) /\ context'[i] = context[i]
    BY <1>2, <1>7 DEF ContextInv, FromLog
  <2>3. context[i].message # u
    BY <1>4, <1>5, <2>2 DEF InContext
  <2>. QED
    BY <2>1, <2>2, <2>3 DEF Entry
<1>8. MessageOnce'
  <2>. SUFFICES ASSUME NEW i \in 1 .. Len(context'), NEW j \in 1 .. Len(context'),
                       context'[i].message = context'[j].message,
                       context'[i].message \notin repeated \cup {0}
                PROVE  i = j
    BY <1>1, <1>5 DEF MessageOnce
  <2>1. CASE i \in 1 .. Len(context) /\ j \in 1 .. Len(context)
    BY <1>2, <1>5, <2>1 DEF ContextInv, MessageOnce
  <2>2. CASE i \in Len(context) + 1 .. Len(context') /\ j \in Len(context) + 1 .. Len(context')
    BY <1>2, <2>2
  <2>. QED
    BY <1>3, <1>7, <2>1, <2>2
<1>9. NotPrompted'
  <2>. SUFFICES ASSUME t \notin repeated \cup {0}, NEW i \in 1 .. Len(context') PROVE context'[i].message # t
    BY <1>1 DEF NotPrompted
  <2>1. CASE i \in 1 .. Len(context)
    BY <1>1, <1>2, <2>1 DEF ContextInv, NotPrompted
  <2>2. CASE i \in Len(context) + 1 .. Len(context')
    <3>1. PICK u \in Unseen(t) : context'[i] = Entry(u)
      BY <1>2, <2>2
    <3>2. context'[i].message = u
      BY <3>1 DEF Entry
    <3>. QED
      BY <1>4, <3>2
  <2>. QED
    BY <1>3, <2>1, <2>2
<1>10. HoldsSynced'
  <2>. SUFFICES ASSUME NEW u \in ToSet(log)
                PROVE  \/ \E i \in 1 .. Len(context') : context'[i].text = Text(u)
                       \/ t # 0 /\ Text(t) = Text(u)
    BY <1>1, <1>5 DEF HoldsSynced, InContext, Text
  <2>1. CASE InContext(Text(u))
    <3>1. PICK i \in 1 .. Len(context) : context[i].text = Text(u)
      BY <1>5, <2>1 DEF InContext
    <3>2. i \in 1 .. Len(context') /\ context'[i].text = Text(u)
      BY <1>2, <3>1
    <3>. QED
      BY <3>2
  <2>2. CASE u = t
    BY <2>2, LogTexts
  <2>3. CASE ~ InContext(Text(u)) /\ u # t
    <3>1. PICK v \in Unseen(t) : Text(v) = Text(u)
      BY <2>3, UnseenCovers
    <3>2. PICK i \in 1 .. Len(context') : context'[i] = Entry(v)
      BY <1>2
    <3>3. context'[i].text = Text(v)
      BY <3>2 DEF Entry
    <3>. QED
      BY <3>1, <3>3
  <2>. QED
    BY <2>1, <2>2, <2>3
<1>11. RunLogged' /\ ContextHoldsLog'
  <2>1. Running /\ Running'
    BY <1>1 DEF Running
  <2>2. RunLogged'
    BY <1>1, <2>1 DEF ContextInv, RunLogged, ToSet
  <2>3. ContextHoldsLog'
    BY <1>1 DEF ContextHoldsLog
  <2>. QED
    BY <2>2, <2>3
<1>. QED
  BY <1>2, <1>6, <1>8, <1>9, <1>10, <1>11 DEF ContextInv

(* The message of the run is put before the model.                         *)
LEMMA PromptKeeps ==
  ASSUME ContextInv, QueueInv, LogInv, Prompt
  PROVE  ContextInv'
<1>. DEFINE t == run.work.message
            e == IF t = 0 THEN [text |-> "event", message |-> 0] ELSE Entry(t)
<1>1. /\ run.phase = "synced" /\ run'.phase = "answering" /\ run'.work = run.work
      /\ UNCHANGED <<history, log, synced, repeated>>
      /\ context' = Append(context, e)
  <2>1. run \in Runs
    BY DEF QueueInv
  <2>. QED
    BY <2>1 DEF Prompt, slackVars, tracking, Runs
<1>2. t # 0 => t \in ToSet(log) /\ Text(t) \in Texts \cup {"stop"} /\ t \in Nat
  BY <1>1, LogTexts DEF ContextInv, RunLogged, Running
<1>3. e \in Entries /\ e.message = t /\ (t # 0 => e.text = Text(t))
  BY <1>2 DEF Entries, Entry
<1>. HIDE DEF e
<1>4. /\ context' \in Seq(Entries) /\ Len(context) \in Nat
      /\ Len(context') = Len(context) + 1
      /\ \A i \in 1 .. Len(context) : context'[i] = context[i]
      /\ context'[Len(context) + 1] = e
  <2>1. context \in Seq(Entries)
    BY DEF ContextInv
  <2>. QED
    BY <1>1, <1>3, <2>1
<1>5. /\ \A i \in 1 .. Len(context') : i \in 1 .. Len(context) \/ i = Len(context) + 1
      /\ DOMAIN context' = 1 .. Len(context') /\ DOMAIN context = 1 .. Len(context)
      /\ Len(context) + 1 \in 1 .. Len(context')
  BY <1>4 DEF ContextInv
<1>6. FromLog'
  <2>. SUFFICES ASSUME NEW i \in 1 .. Len(context'), context'[i].message # 0
                PROVE  /\ context'[i].message \in ToSet(log)
                       /\ context'[i].text = Text(context'[i].message)
    BY <1>1 DEF FromLog, Text, ToSet
  <2>1. CASE i \in 1 .. Len(context)
    BY <1>4, <2>1 DEF ContextInv, FromLog
  <2>2. CASE i = Len(context) + 1
    BY <1>2, <1>3, <1>4, <2>2
  <2>. QED
    BY <1>5, <2>1, <2>2
<1>7. MessageOnce'
  <2>. SUFFICES ASSUME NEW i \in 1 .. Len(context'), NEW j \in 1 .. Len(context'),
                       context'[i].message = context'[j].message,
                       context'[i].message \notin repeated \cup {0}
                PROVE  i = j
    BY <1>1, <1>5 DEF MessageOnce
  <2>1. t \notin repeated \cup {0} => \A k \in 1 .. Len(context) : context[k].message # t
    BY <1>1 DEF ContextInv, NotPrompted
  <2>2. CASE i \in 1 .. Len(context) /\ j \in 1 .. Len(context)
    BY <1>4, <1>5, <2>2 DEF ContextInv, MessageOnce
  <2>3. CASE i = Len(context) + 1 /\ j \in 1 .. Len(context)
    BY <1>3, <1>4, <2>1, <2>3
  <2>4. CASE i \in 1 .. Len(context) /\ j = Len(context) + 1
    BY <1>3, <1>4, <2>1, <2>4
  <2>. QED
    BY <1>5, <2>2, <2>3, <2>4
<1>8. ContextHoldsLog'
  <2>. SUFFICES ASSUME NEW u \in synced
                PROVE  \E i \in 1 .. Len(context') : context'[i].text = Text(u)
    BY <1>1, <1>5 DEF ContextHoldsLog, InContext, Text
  <2>1. CASE InContext(Text(u))
    <3>1. PICK i \in 1 .. Len(context) : context[i].text = Text(u)
      BY <1>5, <2>1 DEF InContext
    <3>2. i \in 1 .. Len(context') /\ context'[i].text = Text(u)
      BY <1>4, <3>1
    <3>. QED
      BY <3>2
  <2>2. CASE t # 0 /\ Text(t) = Text(u)
    BY <1>3, <1>4, <1>5, <2>2
  <2>. QED
    BY <1>1, <2>1, <2>2 DEF ContextInv, HoldsSynced
<1>9. RunLogged' /\ NotPrompted' /\ HoldsSynced'
  <2>1. Running /\ Running'
    BY <1>1 DEF Running
  <2>2. RunLogged'
    BY <1>1, <2>1 DEF ContextInv, RunLogged, ToSet
  <2>3. NotPrompted' /\ HoldsSynced'
    BY <1>1 DEF NotPrompted, HoldsSynced
  <2>. QED
    BY <2>2, <2>3
<1>. QED
  BY <1>4, <1>6, <1>7, <1>8, <1>9 DEF ContextInv

(* A message is logged; if it begins a run, it was not in the log before,  *)
(* or is repeated.                                                         *)
LEMMA DeliverKeepsContext ==
  ASSUME ContextInv, LogInv, LogInv', [Next]_vars, NEW t \in inbox, Deliver(t)
  PROVE  ContextInv'
<1>1. log' = Append(log, t) /\ UNCHANGED <<history, context, synced>> /\ repeated \subseteq repeated'
  BY DEF Deliver
<1>2. ToSet(log') = ToSet(log) \cup {t}
  <2>1. log \in Seq(1 .. Len(history)) /\ t \in 1 .. Len(history)
    BY DEF LogInv
  <2>2. /\ DOMAIN log' = 1 .. Len(log) + 1 /\ DOMAIN log = 1 .. Len(log) /\ Len(log) \in Nat
        /\ \A i \in 1 .. Len(log) : log'[i] = log[i]
        /\ log'[Len(log) + 1] = t
    BY <1>1, <2>1
  <2>3. 1 .. Len(log) + 1 = 1 .. Len(log) \cup {Len(log) + 1}
    BY <2>2
  <2>. QED
    BY <2>2, <2>3 DEF ToSet
<1>3. CASE run'.work = run.work /\ run'.phase = run.phase
  <2>1. RunLogged' /\ NotPrompted'
    <3>1. Running' <=> Running
      BY <1>3 DEF Running
    <3>2. RunLogged'
      BY <1>2, <1>3, <3>1 DEF ContextInv, RunLogged
    <3>3. NotPrompted'
      BY <1>1, <1>3 DEF ContextInv, NotPrompted
    <3>. QED
      BY <3>2, <3>3
  <2>. QED
    BY <1>1, <1>2, <1>3, <2>1, ContextStays
<1>4. CASE run'.work = Mention(t) /\ run'.phase = "typing" /\ (t \in ToSet(log) => t \in repeated')
  <2>1. run'.work.message = t
    BY <1>4 DEF Mention
  <2>2. RunLogged'
    BY <1>2, <2>1 DEF RunLogged
  <2>3. t # 0
    BY DEF LogInv
  <2>4. t \notin repeated' => \A i \in 1 .. Len(context) : context[i].message # t
    BY <1>4, <2>3 DEF ContextInv, FromLog
  <2>5. NotPrompted'
    BY <1>1, <2>1, <2>4 DEF NotPrompted
  <2>. QED
    BY <1>1, <1>2, <1>4, <2>2, <2>5, ContextStays
<1>5. \/ run'.work = run.work /\ run'.phase = run.phase
      \/ run'.work = Mention(t) /\ run'.phase = "typing" /\ (t \in ToSet(log) => t \in repeated')
  <2>1. CASE UNCHANGED channelVars
    BY <2>1 DEF channelVars
  <2>2. CASE Stop
    BY <2>2 DEF Stop
  <2>3. CASE /\ ~ Running /\ Enqueue(Mention(t))
             /\ repeated' = IF t \in ToSet(log) THEN repeated \cup {t} ELSE repeated
    BY <2>3 DEF Enqueue, Begin
  <2>. QED
    BY <2>1, <2>2, <2>3 DEF Deliver
<1>. QED
  BY <1>3, <1>4, <1>5

(* A run that goes on, or begins with an event or not at all.              *)
LEMMA OtherRunKeeps ==
  ASSUME ContextInv, LogInv, LogInv', [Next]_vars, UNCHANGED <<context, synced>>,
         ToSet(log) \subseteq ToSet(log'), repeated \subseteq repeated',
         \/ run'.work = run.work /\ run'.phase = run.phase
         \/ run'.work.message = 0 /\ run'.phase \in {"idle", "typing"}
         \/ run'.work = run.work /\ run.phase = "answering" /\ run'.phase = "closing"
  PROVE  ContextInv'
<1>1. CASE run'.work = run.work /\ run'.phase = run.phase
  <2>1. Running' <=> Running
    BY <1>1 DEF Running
  <2>2. RunLogged' /\ NotPrompted'
    BY <1>1, <2>1 DEF ContextInv, RunLogged, NotPrompted
  <2>. QED
    BY <1>1, <2>2, ContextStays
<1>2. CASE run'.work.message = 0 /\ run'.phase \in {"idle", "typing"}
  <2>1. RunLogged' /\ NotPrompted'
    BY <1>2 DEF RunLogged, NotPrompted
  <2>. QED
    BY <1>2, <2>1, ContextStays
<1>3. CASE run'.work = run.work /\ run.phase = "answering" /\ run'.phase = "closing"
  <2>1. RunLogged' /\ NotPrompted'
    BY <1>3 DEF ContextInv, RunLogged, NotPrompted, Running
  <2>. QED
    BY <1>3, <2>1, ContextStays
<1>. QED
  BY <1>1, <1>2, <1>3

(* A run that ends is followed by an event or by none.                     *)
LEMMA NextIsEvent ==
  ASSUME QueueInv, NEW s, TakeNext(s)
  PROVE  run'.work.message = 0 /\ run'.phase \in {"idle", "typing"}
<1>1. CASE queue = <<>>
  BY <1>1 DEF TakeNext, Idle, NoWork
<1>2. CASE queue # <<>>
  <2>1. Len(queue) >= 1 /\ Head(queue) = queue[1] /\ 1 \in 1 .. Len(queue)
    BY <1>2 DEF QueueInv
  <2>2. queue[1].message = 0
    BY <2>1 DEF QueueInv
  <2>. QED
    BY <1>2, <2>1, <2>2 DEF TakeNext, Begin
<1>. QED
  BY <1>1, <1>2

(* Every step keeps the context.                                           *)
LEMMA ContextStep == QueueInv /\ LogInv /\ ContextInv /\ [Next]_vars => ContextInv'
<1>. SUFFICES ASSUME QueueInv, LogInv, ContextInv, [Next]_vars PROVE ContextInv'
  OBVIOUS
<1>1. LogInv'
  BY LogStep
<1>2. ASSUME UNCHANGED <<context, tracking, log>>,
             \/ run'.work = run.work /\ run'.phase = run.phase
             \/ run'.work.message = 0 /\ run'.phase \in {"idle", "typing"}
             \/ run'.work = run.work /\ run.phase = "answering" /\ run'.phase = "closing"
      PROVE  ContextInv'
  <2>1. ToSet(log) \subseteq ToSet(log') /\ repeated \subseteq repeated' /\ UNCHANGED synced
    BY <1>2 DEF tracking, ToSet
  <2>. QED
    BY <1>1, <1>2, <2>1, OtherRunKeeps
<1>3. ASSUME UNCHANGED <<context, tracking, log, run>> PROVE ContextInv'
  BY <1>2, <1>3
<1>4. ASSUME NEW t \in inbox, Deliver(t) PROVE ContextInv'
  BY <1>1, <1>4, DeliverKeepsContext
<1>5. ASSUME Sync \/ Prompt PROVE ContextInv'
  BY <1>5, SyncKeeps, PromptKeeps
<1>6. ASSUME Write \/ SendAgain \/ StopPosted \/ Connect PROVE ContextInv'
  BY <1>3, <1>6 DEF Write, SendAgain, StopPosted, Connect, storeVars, channelVars
<1>7. ASSUME Answer PROVE ContextInv'
  <2>1. run \in Runs
    BY DEF QueueInv
  <2>2. run'.work = run.work /\ run.phase = "answering" /\ run'.phase = "closing"
    BY <1>7, <2>1 DEF Answer, Runs
  <2>. QED
    BY <1>2, <1>7, <2>2 DEF Answer
<1>8. ASSUME Close \/ Fail PROVE ContextInv'
  <2>1. run'.work.message = 0 /\ run'.phase \in {"idle", "typing"}
    BY <1>8, NextIsEvent DEF Close, Fail
  <2>. QED
    BY <1>2, <1>8, <2>1 DEF Close, Fail, storeVars
<1>9. ASSUME Backfill PROVE ContextInv'
  <2>1. UNCHANGED <<context, synced, repeated, run>>
    BY <1>9 DEF Backfill, channelVars, tracking
  <2>2. ToSet(log) \subseteq ToSet(log')
    BY <1>9, BackfillLogs
  <2>. QED
    BY <1>1, <2>1, <2>2, OtherRunKeeps
<1>10. ASSUME Crash PROVE ContextInv'
  <2>1. /\ context' = (IF saved THEN context ELSE <<>>) /\ synced' = {} /\ run' = Idle
        /\ UNCHANGED <<history, log, repeated>>
    BY <1>10 DEF Crash, CrashChannel, slackVars
  <2>2. RunLogged' /\ NotPrompted' /\ HoldsSynced' /\ ContextHoldsLog'
    BY <2>1 DEF RunLogged, Running, NotPrompted, HoldsSynced, ContextHoldsLog, Idle, NoWork
  <2>3. CASE saved
    <3>1. UNCHANGED <<context, history, log, repeated>>
      BY <2>1, <2>3
    <3>. QED
      BY <2>2, <3>1 DEF ContextInv, FromLog, MessageOnce, Text, ToSet
  <2>4. CASE ~ saved
    <3>1. context' = <<>>
      BY <2>1, <2>4
    <3>. QED
      BY <2>2, <3>1 DEF ContextInv, FromLog, MessageOnce
  <2>. QED
    BY <2>3, <2>4
<1>11. ASSUME Restart \/ Change \/ UNCHANGED vars PROVE ContextInv'
  BY <1>3, <1>11 DEF Restart, RestartChannel, Change, vars, channel, storeVars, channelVars
<1>12. ASSUME NEW f \in Files,
              \/ HandleFileChange(f) \/ ReadFile(f) \/ GiveUp(f) \/ HandleOneShot(f)
              \/ HandlePeriodic(f)
       PROVE  ContextInv'
  BY <1>3, <1>12 DEF HandleFileChange, ReadFile, GiveUp, HandleOneShot, HandlePeriodic, channel,
                     storeVars, channelVars
<1>13. ASSUME NEW f \in Files, HandleImmediate(f) \/ TimerFires(f) \/ CronFires(f)
       PROVE  ContextInv'
  <2>1. UNCHANGED <<context, tracking, log>>
    BY <1>13 DEF HandleImmediate, TimerFires, CronFires, storeVars
  <2>2. EnqueueEvent \/ UNCHANGED <<channelVars, events>>
    BY <1>13 DEF HandleImmediate, TimerFires, CronFires
  <2>3. run' = run \/ Begin(EventOf(events + 1), stop)
    BY <2>2 DEF EnqueueEvent, Enqueue, channelVars
  <2>. QED
    BY <1>2, <2>1, <2>3 DEF Begin, EventOf
<1>. QED
  BY <1>4, <1>5, <1>6, <1>7, <1>8, <1>9, <1>10, <1>11, <1>12, <1>13
  DEF Next, ChannelStep, HandleFile

(* At first nothing is logged.                                             *)
LEMMA InitContext == Init => ContextInv
  BY DEF Init, InitChannel, ContextInv, FromLog, MessageOnce, RunLogged, NotPrompted, HoldsSynced,
         ContextHoldsLog, Running, Idle, NoWork, ToSet

MomInv == QueueInv /\ LogInv /\ ProcessInv /\ WatchInv /\ ContextInv

(* The invariant holds in every reachable state.                           *)
LEMMA MomInvariant == Spec => []MomInv
<1>1. Init => MomInv
  <2>1. Init => LogInv /\ ProcessInv
    BY DEF Init, InitChannel, LogInv, ProcessInv, online, Running, Idle, ToSet
  <2>. QED
    BY <2>1, InitQueue, InitWatch, InitContext DEF MomInv
<1>2. MomInv /\ [Next]_vars => MomInv'
  BY QueueStep, LogStep, ProcessStep, WatchStep, ContextStep DEF MomInv
<1>. QED
  BY <1>1, <1>2, PTL DEF Spec

(* The state of mom is of the right types; the queue never exceeds its     *)
(* limit and no timer is cancelled that has already fired.                 *)
THEOREM MomTypeCorrect == Spec => []TypeOK
<1>1. MomInv => ChannelTypeOK
  <2>. SUFFICES ASSUME MomInv PROVE ChannelTypeOK
    OBVIOUS
  <2>1. queue \in Seq({EventOf(n) : n \in 1 .. events})
    <3>1. queue \in Seq(Works) /\ run.work.event \in Nat /\ events \in Nat
      BY DEF MomInv, QueueInv, Runs, Works
    <3>2. ASSUME NEW i \in 1 .. Len(queue)
          PROVE  queue[i] \in {EventOf(n) : n \in 1 .. events}
      <4>1. queue[i] \in Works
        BY <3>1
      <4>2. queue[i].message = 0 /\ run.work.event < queue[i].event /\ queue[i].event <= events
        BY DEF MomInv, QueueInv
      <4>3. queue[i] = EventOf(queue[i].event) /\ queue[i].event \in 1 .. events
        BY <3>1, <4>1, <4>2 DEF Works, EventOf
      <4>. QED
        BY <4>3
    <3>. QED
      BY <3>1, <3>2
  <2>2. run.phase \in Phases
    BY DEF MomInv, QueueInv, Runs
  <2>3. DOMAIN history = 1 .. Len(history)
    BY DEF MomInv, LogInv
  <2>4. /\ history \in Seq(Messages) /\ inbox \subseteq 1 .. Len(history)
        /\ startup <= Len(history) /\ log \in Seq(1 .. Len(history))
        /\ process \in {"down", "starting", "backfilled", "up"}
        /\ Len(queue) <= MaxQueue /\ (Running => online)
    BY DEF MomInv, QueueInv, LogInv, ProcessInv
  <2>5. {synced, repeated} \subseteq SUBSET ToSet(log)
    BY DEF MomInv, LogInv
  <2>. QED
    BY <2>1, <2>2, <2>3, <2>4, <2>5 DEF ChannelTypeOK, Phases
<1>2. MomInv => TypeOK
  BY <1>1 DEF MomInv, WatchInv, FilesTyped, TypeOK
<1>. QED
  BY <1>2, MomInvariant, PTL

(* Whatever waits, a run is under way that will take it up.                *)
THEOREM QueueIsServed == Spec => []QueueServed
<1>1. MomInv => QueueServed
  BY DEF MomInv, QueueInv
<1>. QED
  BY <1>1, MomInvariant, PTL

(* Events are handled in the order in which they came.                     *)
THEOREM EventsAreOrdered == Spec => EventsInOrder
<1>1. MomInv /\ [Next]_vars =>
        [LET before == run.work.event  after == run'.work.event IN
         (before # 0 /\ after # 0) => before <= after]_run
  BY QueueStep DEF MomInv, Order
<1>. QED
  BY <1>1, MomInvariant, PTL DEF Spec, EventsInOrder

(* A file that the watcher has caught up with has the timer or cron job it *)
(* asks for, once, unless a change of it was handled in the middle of a    *)
(* call of handleFile.                                                     *)
THEOREM ScheduleIsKept == Spec => []ScheduleMatchesFiles
<1>1. MomInv => ScheduleMatchesFiles
  BY DEF MomInv, WatchInv, FileOrderly, ScheduleOrderly, ScheduleMatchesFiles
<1>. QED
  BY <1>1, MomInvariant, PTL

(* When the model is asked, its context has the text of every message that *)
(* was in the log when the run brought it up to date.                      *)
THEOREM ContextIsUpToDate == Spec => []ContextHoldsLog
<1>1. MomInv => ContextHoldsLog
  BY DEF MomInv, ContextInv
<1>. QED
  BY <1>1, MomInvariant, PTL

(* No message is put before the model twice, however often it is delivered *)
(* and logged, unless it came again when the channel was idle.             *)
THEOREM MessagesAreToldOnce == Spec => []MessageOnce
<1>1. MomInv => MessageOnce
  BY DEF MomInv, ContextInv
<1>. QED
  BY <1>1, MomInvariant, PTL
=============================================================================
