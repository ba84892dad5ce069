------------------------------ MODULE MomEvents ------------------------------
(***************************************************************************)
(* EventsWatcher (mom/src/events.ts): a directory in which each file asks  *)
(* for an event in a channel: at once, at one time, or again and again.    *)
(* The watcher hears of changes a little later, reads the file, retries if *)
(* it cannot be read yet, and keeps timers and cron jobs; an event joins   *)
(* the queue of its channel.  Only one channel is modelled; what a timer   *)
(* will run is what the file said when it was set.                         *)
(***************************************************************************)
EXTENDS MomChannel

CONSTANT Files  \* names of event files

VARIABLES
  dir,       \* what each file says, "none" if there is no such file
  old,       \* files last written before the process started
  notice,    \* files with a debounced notice of a change
  reading,   \* handleFile calls of a file that have still to read it
  got,       \* handleFile calls that have read these contents and not gone on yet
  known,     \* knownFiles
  live,      \* timers and cron jobs that will fire, per kind and file
  mapped,    \* files that have an entry in timers and in crons
  crossed    \* files with a change that was handled in the middle of a handleFile
             \* call which does not take it into account (history variable)

calls    == <<reading, got>>
watching == <<notice, calls, known>>
schedule == <<live, mapped>>
watcher  == <<dir, old, watching, schedule, crossed>>
vars     == <<channel, watcher>>
-----------------------------------------------------------------------------
Scheduled == {"timer", "cron"}
Contents  == {"invalid", "immediate", "oneshot", "periodic"}

\* deleteFile.
DeleteFile(f) ==
  /\ dir' = [dir EXCEPT ![f] = "none"]
  /\ notice' = IF dir[f] = "none" THEN notice ELSE notice \cup {f}
  /\ known' = known \ {f}

\* Wrong variant: what was scheduled stays.
CancelNothing(f) == UNCHANGED schedule

\* cancelScheduled.
CancelScheduled(f) ==
  /\ live' = [k \in Scheduled |-> [live[k] EXCEPT ![f] = IF f \in mapped[k] THEN @ - 1 ELSE @]]
  /\ mapped' = [k \in Scheduled |-> mapped[k] \ {f}]

\* timers.set, crons.set: an entry that is there is overwritten.
Set(k, f) ==
  /\ live' = [live EXCEPT ![k][f] = @ + 1]
  /\ mapped' = [mapped EXCEPT ![k] = @ \cup {f}]
-----------------------------------------------------------------------------
\* A file is written, or deleted, by somebody else.
Change ==
  /\ Input
  /\ \E f \in Files, content \in Contents \cup {"none"} :
       /\ content # "none" \/ dir[f] # "none"
       /\ dir' = [dir EXCEPT ![f] = content]
       /\ old' = IF online THEN old \ {f} ELSE old \cup {f}
       /\ notice' = IF online THEN notice \cup {f} ELSE notice
  /\ UNCHANGED <<slackVars, storeVars, channelVars, processVars, events, tracking, calls,
                 known, schedule, crossed>>

Reads(f)   == reading[f] > 0
HasRead(f) == \E c \in Contents : got[c][f] > 0

\* handleFile up to its read.
StartReading(f) == reading' = [reading EXCEPT ![f] = @ + 1]

\* The debounced notice: handleFileChange.
HandleFileChange(f) ==
  /\ online /\ f \in notice
  /\ notice' = notice \ {f}
  /\ IF f \in known THEN CancelScheduled(f) ELSE UNCHANGED schedule
  /\ IF dir[f] = "none" THEN known' = known \ {f} /\ UNCHANGED reading
     ELSE StartReading(f) /\ UNCHANGED known
  /\ crossed' = IF HasRead(f) \/ (Reads(f) /\ dir[f] # "none")
                THEN crossed \cup {f} ELSE crossed
  /\ UNCHANGED <<channel, dir, old, got>>

\* handleFile reads the file; a file that is not there is as good as an invalid one.
\* A read that fails and is tried again changes nothing.
ReadFile(f) ==
  LET c == IF dir[f] = "none" THEN "invalid" ELSE dir[f] IN
  /\ online /\ Reads(f)
  /\ reading' = [reading EXCEPT ![f] = @ - 1]
  /\ got' = [got EXCEPT ![c][f] = @ + 1]
  /\ UNCHANGED <<channel, dir, old, notice, known, schedule, crossed>>

\* handleFile goes on with what it has read.
GoesOn(c, f) ==
  /\ online /\ got[c][f] > 0
  /\ got' = [got EXCEPT ![c][f] = @ - 1]

\* The file could not be read, or has a schedule that is none: it is given up.
GiveUp(f) ==
  /\ GoesOn("invalid", f) /\ DeleteFile(f)
  /\ UNCHANGED <<channel, old, reading, schedule, crossed>>

\* An event for now: run it, unless the file is older than the process, or gone.
HandleImmediate(f) ==
  /\ GoesOn("immediate", f)
  /\ \/ /\ dir[f] = "none" /\ known' = known \cup {f}
        /\ UNCHANGED <<channelVars, events, dir, notice>>
     \/ /\ dir[f] # "none" /\ f \in old /\ DeleteFile(f)
        /\ UNCHANGED <<channelVars, events>>
     \/ /\ dir[f] # "none" /\ f \notin old /\ DeleteFile(f)
        /\ events < MaxEvents /\ EnqueueEvent
  /\ UNCHANGED <<slackVars, storeVars, processVars, inputs, tracking, old, reading, schedule, crossed>>

\* An event for one time: delete the file if the time is over.
HandleOneShot(f) ==
  /\ GoesOn("oneshot", f)
  /\ \/ DeleteFile(f) /\ UNCHANGED schedule
     \/ Set("timer", f) /\ known' = known \cup {f} /\ UNCHANGED <<dir, notice>>
  /\ UNCHANGED <<channel, old, reading, crossed>>

\* An event that is repeated.
HandlePeriodic(f) ==
  /\ GoesOn("periodic", f) /\ Set("cron", f) /\ known' = known \cup {f}
  /\ UNCHANGED <<channel, dir, old, notice, reading, crossed>>

\* The time of a one-shot event has come.
TimerFires(f) ==
  /\ online /\ live["timer"][f] > 0 /\ events < MaxEvents
  /\ live' = [live EXCEPT !["timer"][f] = @ - 1]
  /\ mapped' = [mapped EXCEPT !["timer"] = @ \ {f}]
  /\ EnqueueEvent /\ DeleteFile(f)
  /\ UNCHANGED <<slackVars, storeVars, processVars, inputs, tracking, old, calls, crossed>>

\* A time of a periodic event has come.
CronFires(f) ==
  /\ online /\ live["cron"][f] > 0 /\ events < MaxEvents
  /\ EnqueueEvent
  /\ UNCHANGED <<slackVars, storeVars, processVars, inputs, tracking, watcher>>
-----------------------------------------------------------------------------
Nothing == [k \in Scheduled |-> [f \in Files |-> 0]]
NoEntry == [k \in Scheduled |-> {}]
NoCall  == [c \in Contents |-> [f \in Files |-> 0]]

Crash ==
  /\ CrashChannel
  /\ old' = Files
  /\ notice' = {} /\ reading' = [f \in Files |-> 0] /\ got' = NoCall /\ known' = {}
  /\ live' = Nothing /\ mapped' = NoEntry /\ crossed' = {}
  /\ UNCHANGED dir

\* main.ts: the watcher reads all files that are there, then the bot starts.
Restart ==
  /\ RestartChannel
  /\ reading' = [f \in Files |-> IF dir[f] = "none" THEN 0 ELSE 1]
  /\ UNCHANGED <<dir, old, notice, got, known, schedule, crossed>>

Init ==
  /\ InitChannel
  /\ dir = [f \in Files |-> "none"] /\ old = {}
  /\ notice = {} /\ reading = [f \in Files |-> 0] /\ got = NoCall /\ known = {}
  /\ live = Nothing /\ mapped = NoEntry
  /\ crossed = {}

HandleFile(f) ==
  ReadFile(f) \/ GiveUp(f) \/ HandleImmediate(f) \/ HandleOneShot(f) \/ HandlePeriodic(f)

ChannelStep ==
  /\ \/ Write \/ SendAgain \/ (\E t \in inbox : Deliver(t)) \/ StopPosted
     \/ Sync \/ Prompt \/ Answer \/ Close \/ Fail \/ Backfill \/ Connect
  /\ UNCHANGED watcher

Next ==
  \/ ChannelStep
  \/ Change
  \/ \E f \in Files : HandleFileChange(f) \/ HandleFile(f) \/ TimerFires(f) \/ CronFires(f)
  \/ Crash \/ Restart

Spec == Init /\ [][Next]_vars
-----------------------------------------------------------------------------
TypeOK ==
  /\ ChannelTypeOK
  /\ dir \in [Files -> Contents \cup {"none"}] /\ old \subseteq Files
  /\ notice \subseteq Files /\ known \subseteq Files /\ crossed \subseteq Files
  /\ reading \in [Files -> Nat] /\ got \in [Contents -> [Files -> Nat]]
  /\ live \in [Scheduled -> [Files -> Nat]] /\ mapped \in [Scheduled -> SUBSET Files]

\* Once the watcher has caught up with a file, there is exactly one timer for a
\* one-shot event, exactly one cron job for a periodic one, and for a file that is gone
\* none; nothing else is left in the directory (events.ts 141-219).  Excepted are files
\* with a change that was handled in the middle of a handleFile call: a second call
\* began, or the deletion of the file was handled between the read and what follows.
ScheduleMatchesFiles ==
  \A f \in Files : (online /\ f \notin notice /\ ~Reads(f) /\ ~HasRead(f) /\ f \notin crossed) =>
    /\ live["timer"][f] = (IF dir[f] = "oneshot" THEN 1 ELSE 0)
    /\ live["cron"][f] = (IF dir[f] = "periodic" THEN 1 ELSE 0)
    /\ dir[f] \in {"none", "oneshot", "periodic"}

=============================================================================
