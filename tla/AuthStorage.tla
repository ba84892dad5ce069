----------------------------- MODULE AuthStorage -----------------------------
(***************************************************************************)
(* Credential storage (core/auth-storage.ts): processes that share one     *)
(* auth.json.  Each keeps a copy of it in memory, changes the file under a *)
(* lock, reading, merging and writing, and refreshes OAuth tokens while it *)
(* holds the lock and waits for the provider.                              *)
(*                                                                         *)
(* The lock is that of proper-lockfile, a directory whose time its holder  *)
(* renews; how long it may go unrenewed before it counts as abandoned is   *)
(* the choice of who finds it: 10 seconds, the default, for lockSync, 30   *)
(* for lock, whose holder renews it every 15.                              *)
(*                                                                         *)
(* A credential is the number of an OAuth token pair, 0 if there is none   *)
(* or an API key in its place.  A provider accepts a refresh token once.   *)
(* A process refreshes one token at a time.  Assumed: auth.json is no      *)
(* symbolic link, so that lockSync, which takes the path as it is, and     *)
(* lock, which resolves it, mean the same directory.  Left out: a          *)
(* synchronous section that takes longer than 10 seconds; and what         *)
(* getApiKey tries before and after auth.json, which changes no            *)
(* credential.                                                             *)
(***************************************************************************)
EXTENDS Naturals, FiniteSets, Functions

CONSTANTS
  Processes,
  Providers,
  NoProvider,  \* in the place of a provider where there is none
  MaxTokens,   \* bound on token pairs
  MaxCrashes   \* bound on processes that die

ASSUME AuthStorageAssumption ==
  /\ NoProvider \notin Providers /\ {"none", "dead"} \cap Processes = {}
  /\ MaxTokens \in Nat /\ MaxCrashes \in Nat

VARIABLES
  status,     \* of auth.json: "missing", "malformed" or "good"
  file,       \* the credential of each provider in a good file
  lock,       \* its owner, "none" or "dead"; age: 0, 1 from 10 seconds on, 2 from 30 on
  creating,   \* processes that found no file and are about to create it
  unloaded,   \* processes that have not loaded the file yet
  data,       \* AuthStorage.data of each process
  loadError,  \* processes with a loadError
  refresh,    \* refreshOAuthTokenWithLock of a process: phase, provider, currentData,
              \* lockCompromised
  tokens,     \* token pairs the providers have handed out
  used,       \* those whose refresh token a provider has accepted
  orphans,    \* those whose successor may be lost: an answer was, a process died while
              \* it waited for one, or lost the lock while it did (history variable)
  robbed,     \* processes that others may write beside while they wait (history variable)
  crashes

store   == <<status, file>>
startup == <<creating, unloaded>>
mine    == <<data, loadError>>
grants  == <<tokens, used>>
history == <<orphans, robbed>>
vars    == <<store, lock, startup, mine, refresh, grants, history, crashes>>
-----------------------------------------------------------------------------
Data  == [Providers -> 0 .. MaxTokens]
Empty == [v \in Providers |-> 0]

NoLock    == [owner |-> "none", age |-> 0]
NoRefresh == [phase |-> "none", provider |-> NoProvider, base |-> Empty, compromised |-> FALSE]
Failed    == [NoRefresh EXCEPT !.phase = "failed"]

\* A refresh that failed is followed by a reload() at once.
Ready(p) == p \notin unloaded /\ refresh[p].phase # "failed"

\* The tokens a process will write back.
Held(p) == Range(refresh[p].base) \ {0}

\* Whoever owns the lock waits for an answer while others may write.
Dispossess ==
  IF lock.owner \in Processes
  THEN robbed' = robbed \cup {lock.owner} /\ orphans' = orphans \cup Held(lock.owner)
  ELSE UNCHANGED history

\* Wrong variant: what holds for lockSync holds for lock.
LockAsyncEarly == lock.owner = "none" \/ lock.age >= 1

\* lockfile.lock of withLockAsync.
LockAsync == lock.owner = "none" \/ lock.age = 2

\* acquireLockSyncWithRetry, whose ten attempts take less than a second; the lock is
\* released before anybody else sees it.
LockSync    == (lock.owner = "none" \/ lock.age >= 1) /\ Dispossess /\ lock' = NoLock
LockedOut   == lock.owner # "none" /\ lock.age = 0 /\ UNCHANGED <<lock, history>>
-----------------------------------------------------------------------------
(* Synchronous calls.                                                      *)

\* ensureFileExists writes the empty object, whatever is there by now.
Create(p) ==
  /\ p \in creating /\ creating' = creating \ {p}
  /\ status' = "good" /\ file' = Empty
  /\ Dispossess
  /\ UNCHANGED <<lock, unloaded, mine, refresh, grants, crashes>>

\* reload(): at the start and after a failed refresh; a user of the SDK may call it any
\* time.
Reload(p) ==
  /\ p \notin creating /\ status # "missing"
  /\ \/ LockSync /\ status = "good"
        /\ loadError' = loadError \ {p} /\ data' = [data EXCEPT ![p] = file]
     \/ LockSync /\ status = "malformed" /\ loadError' = loadError \cup {p} /\ UNCHANGED data
     \/ LockedOut /\ loadError' = loadError \cup {p} /\ UNCHANGED data
  /\ unloaded' = unloaded \ {p}
  /\ refresh' = IF refresh[p].phase = "failed" THEN [refresh EXCEPT ![p] = NoRefresh] ELSE refresh
  /\ UNCHANGED <<store, creating, grants, crashes>>

\* Wrong variant: the whole memory is written.
WriteMemory(p, v, t) == status = "good" /\ file' = [data[p] EXCEPT ![v] = t] /\ UNCHANGED status

\* What persistProviderChange does under the lock: merge the change into the file, if
\* that can be parsed.
WriteChange(p, v, t) ==
  /\ file' = IF status = "good" THEN [file EXCEPT ![v] = t] ELSE file
  /\ UNCHANGED status

\* set() after a login, or remove(), also of a provider this process does not know:
\* the memory changes in any case.
Change(p, v) ==
  \E t \in {0, tokens + 1} :
    /\ Ready(p) /\ t <= MaxTokens
    /\ tokens' = IF t = 0 THEN tokens ELSE t
    /\ data' = [data EXCEPT ![p][v] = t]
    /\ \/ p \in loadError /\ UNCHANGED <<store, lock, history>>
       \/ p \notin loadError /\ LockSync /\ WriteChange(p, v, t)
       \/ p \notin loadError /\ LockedOut /\ UNCHANGED store
    /\ UNCHANGED <<startup, loadError, refresh, used, crashes>>
-----------------------------------------------------------------------------
(* getApiKey.                                                              *)

\* The token in memory has expired; the retries of lockfile.lock find the lock taken.
GiveUp(p, v) ==
  /\ Ready(p) /\ refresh[p].phase = "none" /\ data[p][v] # 0
  /\ ~LockAsync
  /\ refresh' = [refresh EXCEPT ![p] = Failed]
  /\ UNCHANGED <<store, lock, startup, mine, grants, history, crashes>>

\* They succeed, and the file is read: it is malformed; the credential is gone or, as
\* another process refreshed it, fresh; or it has expired too.
Refresh(p, v) ==
  /\ Ready(p) /\ refresh[p].phase = "none" /\ data[p][v] # 0
  /\ LockAsync
  /\ \/ /\ status = "malformed" /\ lock' = NoLock
        /\ refresh' = [refresh EXCEPT ![p] = Failed]
        /\ UNCHANGED mine
     \/ /\ status = "good" /\ file[v] # data[p][v] /\ lock' = NoLock
        /\ data' = [data EXCEPT ![p] = file] /\ loadError' = loadError \ {p}
        /\ UNCHANGED refresh
     \/ /\ status = "good" /\ file[v] # 0 /\ lock' = [owner |-> p, age |-> 0]
        /\ data' = [data EXCEPT ![p] = file] /\ loadError' = loadError \ {p}
        /\ refresh' = [refresh EXCEPT ![p] =
             [phase |-> "asking", provider |-> v, base |-> file, compromised |-> FALSE]]
  /\ UNCHANGED <<store, startup, grants, history, crashes>>

Token(p) == refresh[p].base[refresh[p].provider]

Refreshed(p) == [refresh[p].base EXCEPT ![refresh[p].provider] = tokens + 1]

\* What a process does that has not noticed the loss of the lock is done beside the
\* next owner; lost are tokens without a successor.
Interfere(p, lost) ==
  LET next == IF ~refresh[p].compromised THEN {lock.owner} \cap (Processes \ {p}) ELSE {}
  IN  /\ robbed' = (robbed \ {p}) \cup next
      /\ orphans' = orphans \cup lost \cup UNION {Held(q) : q \in next}

\* The end of withLockAsync.  The directory of the lock is removed, whoever made it,
\* unless its loss was noticed.
Release(p, lost) ==
  /\ lock' = IF refresh[p].compromised THEN lock ELSE NoLock
  /\ Interfere(p, lost)

\* The provider refuses a token it has accepted before or is not reached, or its answer
\* is lost.
Refused(p) ==
  /\ refresh[p].phase = "asking"
  /\ \/ UNCHANGED used /\ Release(p, {})
     \/ Token(p) \notin used /\ used' = used \cup {Token(p)} /\ Release(p, {Token(p)})
  /\ refresh' = [refresh EXCEPT ![p] = Failed]
  /\ UNCHANGED <<store, startup, mine, tokens, crashes>>

\* Wrong variant: the refreshed credential stays in memory.
StoreNothing(p) == UNCHANGED store

\* The merged credentials are written, unless the lock is known to be compromised.
Store(p) ==
  IF refresh[p].compromised THEN UNCHANGED store ELSE status' = "good" /\ file' = Refreshed(p)

\* The provider hands out a new pair.
Granted(p) ==
  /\ refresh[p].phase = "asking"
  /\ Token(p) \notin used /\ used' = used \cup {Token(p)}
  /\ tokens < MaxTokens /\ tokens' = tokens + 1
  /\ data' = [data EXCEPT ![p] = Refreshed(p)] /\ loadError' = loadError \ {p}
  /\ Store(p) /\ Release(p, {})
  /\ refresh' = [refresh EXCEPT ![p] = IF @.compromised THEN Failed ELSE NoRefresh]
  /\ UNCHANGED <<startup, crashes>>
-----------------------------------------------------------------------------
(* Time, and the end of a process.                                         *)

\* The lock is not renewed for another while; a holder renews it before 30 seconds.
Age ==
  /\ lock.age < (IF lock.owner = "dead" THEN 2 ELSE IF lock.owner = "none" THEN 0 ELSE 1)
  /\ lock' = [lock EXCEPT !.age = @ + 1]
  /\ UNCHANGED <<store, startup, mine, refresh, grants, history, crashes>>

\* The holder's timer: it renews the lock, or notices that it is not its own any more.
Renew(p) ==
  /\ refresh[p].phase = "asking" /\ ~refresh[p].compromised
  /\ IF lock.owner = p THEN lock' = [lock EXCEPT !.age = 0] /\ UNCHANGED refresh
     ELSE refresh' = [refresh EXCEPT ![p].compromised = TRUE] /\ UNCHANGED lock
  /\ UNCHANGED <<store, startup, mine, grants, history, crashes>>

\* A process dies and is started again.  It may die while it waits for an answer, which
\* the provider may have sent, or while it writes, a refreshed credential or a changed
\* one, which cuts the file off or empties it.
Crash(p) ==
  /\ crashes < MaxCrashes /\ crashes' = crashes + 1
  /\ \/ /\ lock' = IF lock.owner = p THEN [lock EXCEPT !.owner = "dead"] ELSE lock
        /\ IF refresh[p].phase = "asking"
           THEN orphans' = orphans \cup {Token(p)} /\ used' \in {used, used \cup {Token(p)}}
           ELSE UNCHANGED <<orphans, used>>
        /\ robbed' = robbed \ {p} /\ UNCHANGED store
     \/ /\ refresh[p].phase = "asking" /\ ~refresh[p].compromised /\ Token(p) \notin used
        /\ status' \in {"malformed", "good"} /\ file' = Empty
        /\ lock' = IF lock.owner = p THEN [lock EXCEPT !.owner = "dead"] ELSE lock
        /\ used' = used \cup {Token(p)} /\ Interfere(p, {Token(p)})
     \/ /\ Ready(p) /\ lock.owner = "none" /\ status = "good"
        /\ status' \in {"malformed", "good"} /\ file' = Empty
        /\ lock' = [owner |-> "dead", age |-> 0]
        /\ robbed' = robbed \ {p} /\ UNCHANGED <<orphans, used>>
  /\ creating' = IF status = "missing" THEN creating \cup {p} ELSE creating \ {p}
  /\ unloaded' = unloaded \cup {p}
  /\ data' = [data EXCEPT ![p] = Empty] /\ loadError' = loadError \ {p}
  /\ refresh' = [refresh EXCEPT ![p] = NoRefresh]
  /\ UNCHANGED tokens

\* The first processes start; some of them before another has created the file.
Init ==
  /\ status = "missing" /\ file = Empty /\ lock = NoLock
  /\ creating \in SUBSET Processes \ {{}} /\ unloaded = Processes
  /\ data = [p \in Processes |-> Empty] /\ loadError = {}
  /\ refresh = [p \in Processes |-> NoRefresh]
  /\ tokens = 0 /\ used = {}
  /\ orphans = {} /\ robbed = {} /\ crashes = 0

Next ==
  \/ \E p \in Processes :
       \/ Create(p) \/ Reload(p)
       \/ \E v \in Providers : Change(p, v) \/ GiveUp(p, v) \/ Refresh(p, v)
       \/ Refused(p) \/ Granted(p) \/ Renew(p) \/ Crash(p)
  \/ Age

Spec == Init /\ [][Next]_vars
-----------------------------------------------------------------------------
(* Properties.                                                             *)

\* The file never holds a refresh token that its provider has accepted and replaced:
\* the user need not log in again, however the processes refresh at the same time.
\* Excepted are tokens whose successor was lost on the way.
NotStranded == \A v \in Providers : file[v] \in used => file[v] \in orphans

\* "Uses file locking to prevent race conditions when multiple pi instances try to
\* refresh tokens simultaneously" (auth-storage.ts:5): of several processes that wait
\* for a provider, all but one have been robbed of the lock.
OneRefreshAtATime ==
  \A p, q \in Processes :
    (p # q /\ refresh[p].phase = "asking" /\ refresh[q].phase = "asking")
    => robbed \cap {p, q} # {}

\* A step of a process that holds the lock or needs none; not one that was robbed of it,
\* or that creates the file although it is there by now.
Orderly == robbed \subseteq robbed' /\ ~(\E p \in Processes : Create(p))

\* A process changes the credential of one provider and keeps the others', also those
\* that it has never seen, unless it dies while it writes.
KeepsOthers ==
  [][Orderly /\ crashes = crashes' =>
       Cardinality({v \in Providers : file[v] # file'[v]}) <= 1]_vars
=============================================================================
