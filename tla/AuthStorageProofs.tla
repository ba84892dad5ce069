-------------------------- MODULE AuthStorageProofs --------------------------
(***************************************************************************)
(* Proofs about AuthStorage for every set of processes and providers and   *)
(* every bound.                                                            *)
(*                                                                         *)
(* The inductive invariant is about a process that waits for a provider:   *)
(* either it owns the lock and the file is still as it has read it, or it  *)
(* was robbed and its tokens count as lost.                                *)
(***************************************************************************)
EXTENDS AuthStorage, FiniteSetTheorems, TLAPS

Asking(p) == refresh[p].phase = "asking"

\* No two providers have the same token.
Distinct(f) == \A v, w \in Providers : v # w /\ f[v] = f[w] => f[v] = 0

Refreshes ==
  [phase : {"none", "failed", "asking"}, provider : Providers \cup {NoProvider},
   base : [Providers -> Nat], compromised : BOOLEAN]

Typed ==
  /\ tokens \in Nat /\ used \subseteq 1 .. tokens
  /\ file \in [Providers -> Nat] /\ \A v \in Providers : file[v] <= tokens
  /\ refresh \in [Processes -> Refreshes]
  /\ lock \in [owner : Processes \cup {"none", "dead"}, age : 0 .. 2]
  /\ robbed \subseteq Processes

\* The lock has its owner's attention; a robbed process still waits.
LockHeld ==
  /\ lock.owner \in Processes =>
       lock.age <= 1 /\ Asking(lock.owner) /\ ~refresh[lock.owner].compromised
  /\ \A p \in robbed : Asking(p)

\* What a process that waits has read.
BaseKnown(p) ==
  /\ refresh[p].provider \in Providers /\ Token(p) # 0
  /\ \A v \in Providers : refresh[p].base[v] <= tokens
  /\ Distinct(refresh[p].base)

Protected(p) ==
  IF p \in robbed THEN Held(p) \subseteq orphans
  ELSE lock.owner = p /\ status = "good" /\ file = refresh[p].base

AuthInv ==
  /\ Typed /\ LockHeld /\ Distinct(file) /\ NotStranded
  /\ \A p \in Processes : Asking(p) => BaseKnown(p) /\ Protected(p)

(* At first there are no credentials and nobody waits.                     *)
LEMMA InitAuthInv == Init => AuthInv
<1>. SUFFICES ASSUME Init PROVE AuthInv
  OBVIOUS
<1>1. Typed
  BY DEF Init, Typed, Empty, NoLock, NoRefresh, Refreshes
<1>2. \A p \in Processes : ~Asking(p)
  BY DEF Init, Asking, NoRefresh
<1>3. LockHeld
  BY AuthStorageAssumption DEF Init, LockHeld, NoLock
<1>4. Distinct(file) /\ NotStranded
  BY DEF Init, Distinct, NotStranded, Empty
<1>. QED
  BY <1>1, <1>2, <1>3, <1>4 DEF AuthInv

(* What a token a process holds is.                                        *)
LEMMA TokenHeld ==
  ASSUME AuthInv, NEW p \in Processes, Asking(p)
  PROVE  Token(p) \in Held(p) /\ Token(p) \in 1 .. tokens
<1>1. refresh[p].base \in [Providers -> Nat] /\ refresh[p].provider \in Providers
  BY DEF AuthInv, Typed, Refreshes, BaseKnown
<1>2. Token(p) # 0 /\ Token(p) <= tokens /\ Token(p) \in Nat
  BY <1>1 DEF AuthInv, BaseKnown, Token
<1>3. Token(p) \in Range(refresh[p].base)
  BY <1>1 DEF Token, Range
<1>. QED
  BY <1>2, <1>3 DEF Held, AuthInv, Typed

(* A process that waits owns the lock or was robbed of it, so that of two  *)
(* that wait one was robbed.                                               *)
LEMMA InvImpliesOneRefresh == AuthInv => OneRefreshAtATime
  BY DEF AuthInv, OneRefreshAtATime, Asking, Protected

(* Whoever writes beside the owner of the lock robs every process that     *)
(* waits and had not been robbed before.                                   *)
LEMMA DispossessRobs ==
  ASSUME AuthInv, Dispossess
  PROVE  /\ robbed \subseteq robbed' /\ robbed' \subseteq Processes /\ orphans \subseteq orphans'
         /\ \A p \in robbed' : Asking(p)
         /\ \A p \in Processes : Asking(p) => p \in robbed' /\ Held(p) \subseteq orphans'
<1>1. \A p \in Processes : Asking(p) /\ p \notin robbed => lock.owner = p
  BY DEF AuthInv, Protected
<1>2. \A p \in robbed : Asking(p) /\ p \in Processes /\ Held(p) \subseteq orphans
  BY DEF AuthInv, LockHeld, Typed, Protected
<1>3. CASE lock.owner \in Processes
  <2>1. robbed' = robbed \cup {lock.owner} /\ orphans' = orphans \cup Held(lock.owner)
    BY <1>3 DEF Dispossess
  <2>2. Asking(lock.owner)
    BY <1>3 DEF AuthInv, LockHeld
  <2>. QED
    BY <1>1, <1>2, <1>3, <2>1, <2>2
<1>4. CASE lock.owner \notin Processes
  <2>1. robbed' = robbed /\ orphans' = orphans
    BY <1>4 DEF Dispossess, history
  <2>. QED
    BY <1>1, <1>2, <1>4, <2>1
<1>. QED
  BY <1>3, <1>4

\* The refreshes that wait for a provider go on as they are.
Undisturbed ==
  /\ refresh' \in [Processes -> Refreshes]
  /\ \A p \in Processes : refresh'[p] = refresh[p] \/ (~Asking(p) /\ ~Asking(p)')

(* A synchronous call that writes one token nobody has, none, or nothing   *)
(* at all.                                                                 *)
LEMMA OutsiderInvariant ==
  ASSUME AuthInv, Dispossess, Undisturbed, UNCHANGED used,
         lock' \in {lock, NoLock},
         tokens' \in Nat, tokens <= tokens',
         file' \in [Providers -> Nat], \A v \in Providers : file'[v] <= tokens',
         Distinct(file)',
         \A v \in Providers : file'[v] \in used => file'[v] = file[v]
  PROVE  AuthInv'
<1>1. /\ robbed \subseteq robbed' /\ robbed' \subseteq Processes /\ orphans \subseteq orphans'
      /\ \A p \in robbed' : Asking(p)
      /\ \A p \in Processes : Asking(p) => p \in robbed' /\ Held(p) \subseteq orphans'
  BY DispossessRobs
<1>2. Typed'
  BY <1>1 DEF AuthInv, Typed, NoLock, Undisturbed
<1>3. LockHeld'
  BY <1>1, AuthStorageAssumption DEF AuthInv, LockHeld, NoLock, Asking, Undisturbed
<1>4. NotStranded'
  BY <1>1 DEF AuthInv, NotStranded
<1>5. ASSUME NEW p \in Processes, Asking(p)' PROVE BaseKnown(p)' /\ Protected(p)'
  <2>1. Asking(p) /\ BaseKnown(p) /\ refresh'[p] = refresh[p]
    BY <1>5 DEF AuthInv, Asking, Undisturbed
  <2>2. refresh[p].base \in [Providers -> Nat]
    BY DEF AuthInv, Typed, Refreshes
  <2>3. BaseKnown(p)'
    BY <2>1, <2>2, <1>2 DEF BaseKnown, Token, Distinct, AuthInv, Typed
  <2>4. Protected(p)'
    BY <1>1, <2>1 DEF Protected, Held
  <2>. QED
    BY <2>3, <2>4
<1>. QED
  BY <1>2, <1>3, <1>4, <1>5 DEF AuthInv

(* A step that writes nothing and takes no lock from a process.            *)
LEMMA BystanderInvariant ==
  ASSUME AuthInv, Undisturbed, UNCHANGED <<status, file, orphans, robbed, used>>,
         tokens' \in Nat, tokens <= tokens',
         lock' \in [owner : Processes \cup {"none", "dead"}, age : 0 .. 2],
         lock'.owner = lock.owner \/ {lock.owner, lock'.owner} \cap Processes = {},
         lock'.owner \in Processes => lock'.age <= 1
  PROVE  AuthInv'
<1>1. Typed'
  BY DEF AuthInv, Typed, Undisturbed
<1>2. LockHeld'
  BY DEF AuthInv, LockHeld, Asking, Undisturbed, Typed
<1>3. Distinct(file)' /\ NotStranded'
  BY DEF AuthInv, NotStranded, Distinct
<1>4. ASSUME NEW p \in Processes, Asking(p)' PROVE BaseKnown(p)' /\ Protected(p)'
  <2>1. /\ Asking(p) /\ BaseKnown(p) /\ Protected(p) /\ refresh'[p] = refresh[p]
        /\ refresh[p].base \in [Providers -> Nat]
    BY <1>4 DEF AuthInv, Asking, Undisturbed, Typed, Refreshes
  <2>2. BaseKnown(p)'
    BY <2>1, <1>1 DEF BaseKnown, Token, Distinct, AuthInv, Typed
  <2>3. Protected(p)'
    BY <2>1 DEF Protected, Held
  <2>. QED
    BY <2>2, <2>3
<1>. QED
  BY <1>1, <1>2, <1>3, <1>4 DEF AuthInv

(* ensureFileExists writes the empty object.                               *)
LEMMA CreateInvariant ==
  ASSUME AuthInv, NEW p \in Processes, Create(p)
  PROVE  AuthInv'
<1>1. /\ Dispossess /\ UNCHANGED <<refresh, used, tokens, lock>>
      /\ file' = [v \in Providers |-> 0]
  BY DEF Create, grants, Empty
<1>2. tokens \in Nat /\ used \subseteq 1 .. tokens
  BY DEF AuthInv, Typed
<1>3. Distinct(file)'
  BY <1>1 DEF Distinct
<1>4. \A v \in Providers : file'[v] \notin used /\ file'[v] <= tokens
  BY <1>1, <1>2
<1>5. file' \in [Providers -> Nat]
  BY <1>1
<1>6. Undisturbed
  BY <1>1 DEF Undisturbed, AuthInv, Typed
<1>. QED
  BY <1>1, <1>2, <1>3, <1>4, <1>5, <1>6, OutsiderInvariant

(* A change replaces one credential by a new token or by none.             *)
LEMMA ChangeInvariant ==
  ASSUME AuthInv, NEW p \in Processes, NEW v \in Providers, Change(p, v)
  PROVE  AuthInv'
<1>1. PICK t \in {0, tokens + 1} :
        /\ tokens' = IF t = 0 THEN tokens ELSE t
        /\ \/ p \in loadError /\ UNCHANGED <<store, lock, history>>
           \/ p \notin loadError /\ LockSync /\ WriteChange(p, v, t)
           \/ p \notin loadError /\ LockedOut /\ UNCHANGED store
        /\ UNCHANGED <<startup, loadError, refresh, used, crashes>>
  BY DEF Change
<1>0. Undisturbed
  BY <1>1 DEF Undisturbed, AuthInv, Typed
<1>2. /\ tokens \in Nat /\ used \subseteq 1 .. tokens /\ file \in [Providers -> Nat]
      /\ Distinct(file) /\ \A w \in Providers : file[w] <= tokens
  BY DEF AuthInv, Typed
<1>3. tokens' \in Nat /\ tokens <= tokens' /\ t <= tokens' /\ t \in Nat /\ t \notin used
      /\ (t = 0 \/ t > tokens)
  BY <1>1, <1>2
<1>4. CASE LockSync /\ WriteChange(p, v, t)
  <2>1. file' = file \/ file' = [file EXCEPT ![v] = t]
    BY <1>4 DEF WriteChange
  <2>2. /\ file' \in [Providers -> Nat]
        /\ \A w \in Providers : file'[w] = file[w] \/ (w = v /\ file'[w] = t)
    BY <1>2, <1>3, <2>1
  <2>3. Distinct(file)'
    BY <1>2, <1>3, <2>2 DEF Distinct
  <2>4. \A w \in Providers : file'[w] <= tokens'
    BY <1>2, <1>3, <2>2
  <2>5. \A w \in Providers : file'[w] \in used => file'[w] = file[w]
    BY <1>3, <2>2
  <2>. QED
    BY <1>0, <1>1, <1>3, <1>4, <2>2, <2>3, <2>4, <2>5, OutsiderInvariant DEF LockSync
<1>5. CASE UNCHANGED <<store, lock, history>>
  BY <1>0, <1>1, <1>3, <1>5, BystanderInvariant DEF AuthInv, Typed, LockHeld, store, history
<1>6. CASE LockedOut /\ UNCHANGED store
  BY <1>5, <1>6 DEF LockedOut
<1>. QED
  BY <1>1, <1>4, <1>5, <1>6

(* reload() writes nothing, but may take the lock; it ends a failed        *)
(* refresh.                                                                *)
LEMMA ReloadInvariant ==
  ASSUME AuthInv, NEW p \in Processes, Reload(p)
  PROVE  AuthInv'
<1>1. /\ LockSync \/ LockedOut
      /\ refresh' = IF refresh[p].phase = "failed" THEN [refresh EXCEPT ![p] = NoRefresh] ELSE refresh
      /\ UNCHANGED <<status, file, tokens, used>>
  BY DEF Reload, store, grants
<1>2. Undisturbed
  <2>1. NoRefresh \in Refreshes /\ NoRefresh.phase = "none"
    BY DEF NoRefresh, Refreshes, Empty
  <2>. HIDE DEF NoRefresh
  <2>. QED
    BY <1>1, <2>1 DEF Undisturbed, AuthInv, Typed, Asking
<1>3. CASE LockSync
  BY <1>1, <1>2, <1>3, OutsiderInvariant DEF LockSync, AuthInv, Typed, Distinct
<1>4. CASE LockedOut
  BY <1>1, <1>2, <1>4, BystanderInvariant DEF LockedOut, AuthInv, Typed, LockHeld, history
<1>. QED
  BY <1>1, <1>3, <1>4

(* A refresh that does not get the lock fails.                             *)
LEMMA GiveUpInvariant ==
  ASSUME AuthInv, NEW p \in Processes, NEW v \in Providers, GiveUp(p, v)
  PROVE  AuthInv'
<1>1. /\ refresh[p].phase = "none" /\ refresh' = [refresh EXCEPT ![p] = Failed]
      /\ UNCHANGED <<status, file, lock, tokens, used, orphans, robbed>>
  BY DEF GiveUp, store, grants, history
<1>2. Undisturbed
  <2>1. Failed \in Refreshes /\ Failed.phase = "failed"
    BY DEF Failed, NoRefresh, Refreshes, Empty
  <2>. HIDE DEF Failed
  <2>. QED
    BY <1>1, <2>1 DEF Undisturbed, AuthInv, Typed, Asking
<1>. QED
  BY <1>1, <1>2, BystanderInvariant DEF AuthInv, Typed, LockHeld

(* A refresh that gets the lock fails, finds a fresh token, or waits for   *)
(* the provider as the owner of the lock.                                  *)
LEMMA RefreshInvariant ==
  ASSUME AuthInv, NEW p \in Processes, NEW v \in Providers, Refresh(p, v)
  PROVE  AuthInv'
<1>1. /\ refresh[p].phase = "none" /\ LockAsync
      /\ UNCHANGED <<status, file, tokens, used, orphans, robbed>>
  BY DEF Refresh, store, grants, history
<1>2. lock.owner \notin Processes /\ ~Asking(p) /\ p \notin robbed
  BY <1>1, AuthStorageAssumption DEF LockAsync, AuthInv, LockHeld, Typed, Asking
<1>3. NoLock \in [owner : Processes \cup {"none", "dead"}, age : 0 .. 2]
      /\ NoLock.owner \notin Processes
  BY AuthStorageAssumption DEF NoLock
<1>4. CASE lock' = NoLock /\ refresh' \in {refresh, [refresh EXCEPT ![p] = Failed]}
  <2>1. Failed \in Refreshes /\ Failed.phase = "failed"
    BY DEF Failed, NoRefresh, Refreshes, Empty
  <2>. HIDE DEF Failed, NoLock
  <2>2. Undisturbed
    BY <1>2, <1>4, <2>1 DEF Undisturbed, AuthInv, Typed, Asking
  <2>. QED
    BY <1>1, <1>2, <1>3, <1>4, <2>2, BystanderInvariant DEF AuthInv, Typed
<1>5. CASE /\ status = "good" /\ file[v] # 0 /\ lock' = [owner |-> p, age |-> 0]
           /\ refresh' = [refresh EXCEPT ![p] =
                [phase |-> "asking", provider |-> v, base |-> file, compromised |-> FALSE]]
  <2>. DEFINE new == [phase |-> "asking", provider |-> v, base |-> file, compromised |-> FALSE]
  <2>1. new \in Refreshes
    BY DEF AuthInv, Typed, Refreshes
  <2>2. /\ refresh'[p] = new
        /\ \A q \in Processes : q # p => refresh'[q] = refresh[q]
    BY <1>5 DEF AuthInv, Typed
  <2>3. Typed'
    BY <1>1, <1>5, <2>1 DEF AuthInv, Typed
  <2>4. LockHeld'
    BY <1>1, <1>2, <1>5, <2>2 DEF AuthInv, LockHeld, Asking, Typed
  <2>5. Distinct(file)' /\ NotStranded'
    BY <1>1 DEF AuthInv, NotStranded, Distinct
  <2>6. BaseKnown(p)' /\ Protected(p)'
    BY <1>1, <1>2, <1>5, <2>2, <2>3 DEF BaseKnown, Protected, Token, Distinct, AuthInv, Typed
  <2>7. ASSUME NEW q \in Processes, q # p, Asking(q)' PROVE BaseKnown(q)' /\ Protected(q)'
    <3>1. Asking(q) /\ BaseKnown(q) /\ Protected(q) /\ refresh'[q] = refresh[q]
      BY <2>2, <2>7 DEF AuthInv, Asking
    <3>2. q \in robbed
      BY <1>2, <3>1 DEF Protected
    <3>. QED
      BY <1>1, <3>1, <3>2 DEF BaseKnown, Protected, Held, Token, Distinct
  <2>. QED
    BY <2>3, <2>4, <2>5, <2>6, <2>7 DEF AuthInv
<1>. QED
  BY <1>4, <1>5 DEF Refresh, mine

(* At the end of its section a process gives the lock back, with what the  *)
(* others hold: whoever still waits was robbed, or owns the lock that this *)
(* process had noticed to have lost.                                       *)
LEMMA ReleaseKeeps ==
  ASSUME AuthInv, NEW p \in Processes, NEW lost, Asking(p), Release(p, lost),
         NEW r \in Refreshes, r.phase # "asking", refresh' = [refresh EXCEPT ![p] = r]
  PROVE  /\ orphans \subseteq orphans' /\ lost \subseteq orphans' /\ robbed' \subseteq Processes
         /\ lock' \in [owner : Processes \cup {"none", "dead"}, age : 0 .. 2]
         /\ refresh' \in [Processes -> Refreshes] /\ LockHeld'
         /\ \A q \in Processes : Asking(q)' =>
              /\ q # p /\ Asking(q) /\ refresh'[q] = refresh[q]
              /\ q \in robbed' => Held(q) \subseteq orphans'
              /\ q \notin robbed' =>
                   q \notin robbed /\ lock'.owner = q /\ refresh[p].compromised
<1>. DEFINE next == IF ~refresh[p].compromised THEN {lock.owner} \cap (Processes \ {p}) ELSE {}
<1>1. /\ lock' = IF refresh[p].compromised THEN lock ELSE NoLock
      /\ robbed' = (robbed \ {p}) \cup next
      /\ orphans' = orphans \cup lost \cup UNION {Held(q) : q \in next}
  BY DEF Release, Interfere
<1>2. /\ refresh \in [Processes -> Refreshes] /\ robbed \subseteq Processes
      /\ lock \in [owner : Processes \cup {"none", "dead"}, age : 0 .. 2]
  BY DEF AuthInv, Typed
<1>3. /\ refresh'[p] = r /\ \A q \in Processes : q # p => refresh'[q] = refresh[q]
      /\ refresh' \in [Processes -> Refreshes]
  BY <1>2
<1>4. NoLock \in [owner : Processes \cup {"none", "dead"}, age : 0 .. 2]
      /\ NoLock.owner \notin Processes
  BY AuthStorageAssumption DEF NoLock
<1>5. next \subseteq Processes \ {p} /\ \A q \in next : Asking(q) /\ Held(q) \subseteq orphans'
  BY <1>1 DEF AuthInv, LockHeld
<1>. HIDE DEF next, NoLock
<1>6. orphans \subseteq orphans' /\ lost \subseteq orphans' /\ robbed' \subseteq Processes
      /\ lock' \in [owner : Processes \cup {"none", "dead"}, age : 0 .. 2]
  BY <1>1, <1>2, <1>4, <1>5
<1>7. LockHeld'
  <2>1. \A q \in robbed' : Asking(q)'
    BY <1>1, <1>2, <1>3, <1>5 DEF AuthInv, LockHeld, Asking
  <2>2. ASSUME lock'.owner \in Processes
        PROVE  lock'.age <= 1 /\ Asking(lock.owner)' /\ ~refresh'[lock.owner].compromised
    <3>1. lock' = lock /\ refresh[p].compromised
      BY <1>1, <1>4, <2>2
    <3>2. lock.owner # p
      BY <2>2, <3>1 DEF AuthInv, LockHeld
    <3>. QED
      BY <1>3, <2>2, <3>1, <3>2 DEF AuthInv, LockHeld, Asking
  <2>3. lock'.owner \in Processes => lock' = lock
    BY <1>1, <1>4
  <2>. QED
    BY <2>1, <2>2, <2>3 DEF LockHeld, Asking
<1>8. ASSUME NEW q \in Processes, Asking(q)'
      PROVE  /\ q # p /\ Asking(q) /\ refresh'[q] = refresh[q]
             /\ q \in robbed' => Held(q) \subseteq orphans'
             /\ q \notin robbed' =>
                  q \notin robbed /\ lock'.owner = q /\ refresh[p].compromised
  <2>1. q # p /\ Asking(q) /\ refresh'[q] = refresh[q]
    BY <1>3, <1>8 DEF Asking
  <2>2. Protected(q)
    BY <2>1 DEF AuthInv
  <2>3. q \in robbed' => Held(q) \subseteq orphans'
    BY <1>1, <1>5, <1>6, <2>2 DEF Protected
  <2>4. ASSUME q \notin robbed'
        PROVE  q \notin robbed /\ lock'.owner = q /\ refresh[p].compromised
    <3>1. q \notin robbed /\ q \notin next
      BY <1>1, <2>1, <2>4
    <3>2. lock.owner = q
      BY <2>2, <3>1 DEF Protected
    <3>3. refresh[p].compromised
      BY <2>1, <3>1, <3>2 DEF next
    <3>. QED
      BY <1>1, <3>1, <3>2, <3>3
  <2>. QED
    BY <2>1, <2>3, <2>4
<1>. QED
  BY <1>3, <1>6, <1>7, <1>8

(* A refresh without an answer writes nothing; a token used up by it has   *)
(* lost its successor.                                                     *)
LEMMA RefusedInvariant ==
  ASSUME AuthInv, NEW p \in Processes, Refused(p)
  PROVE  AuthInv'
<1>1. PICK lost \in {{}, {Token(p)}} : Release(p, lost) /\ used' \subseteq used \cup lost
  BY DEF Refused
<1>2. Asking(p) /\ refresh' = [refresh EXCEPT ![p] = Failed] /\ UNCHANGED <<status, file, tokens>>
  BY DEF Refused, Asking, store
<1>3. Failed \in Refreshes /\ Failed.phase # "asking"
  BY DEF Failed, NoRefresh, Refreshes, Empty
<1>4. /\ orphans \subseteq orphans' /\ lost \subseteq orphans' /\ robbed' \subseteq Processes
      /\ lock' \in [owner : Processes \cup {"none", "dead"}, age : 0 .. 2]
      /\ refresh' \in [Processes -> Refreshes] /\ LockHeld'
      /\ \A q \in Processes : Asking(q)' =>
           /\ q # p /\ Asking(q) /\ refresh'[q] = refresh[q]
           /\ q \in robbed' => Held(q) \subseteq orphans'
           /\ q \notin robbed' => q \notin robbed /\ lock'.owner = q /\ refresh[p].compromised
  BY <1>1, <1>2, <1>3, ReleaseKeeps
<1>5. Token(p) \in 1 .. tokens
  BY <1>2, TokenHeld
<1>6. Typed'
  BY <1>1, <1>2, <1>4, <1>5 DEF AuthInv, Typed
<1>7. Distinct(file)' /\ NotStranded'
  BY <1>1, <1>2, <1>4 DEF AuthInv, Distinct, NotStranded
<1>8. ASSUME NEW q \in Processes, Asking(q)' PROVE BaseKnown(q)' /\ Protected(q)'
  <2>1. BaseKnown(q) /\ Protected(q)
    BY <1>4, <1>8 DEF AuthInv
  <2>. QED
    BY <1>2, <1>4, <1>8, <2>1 DEF BaseKnown, Protected, Held, Token, Distinct
<1>. QED
  BY <1>4, <1>6, <1>7, <1>8 DEF AuthInv

(* What a process writes back is what it has read but for the new token.   *)
LEMMA RefreshedFile ==
  ASSUME AuthInv, NEW p \in Processes, Asking(p)
  PROVE  /\ Refreshed(p) \in [Providers -> Nat]
         /\ \A v \in Providers : Refreshed(p)[v] <= tokens + 1
         /\ \A v \in Providers :
              Refreshed(p)[v] = IF v = refresh[p].provider THEN tokens + 1 ELSE refresh[p].base[v]
         /\ Distinct(Refreshed(p))
<1>1. /\ refresh[p].base \in [Providers -> Nat] /\ refresh[p].provider \in Providers
      /\ tokens \in Nat /\ Distinct(refresh[p].base)
      /\ \A v \in Providers : refresh[p].base[v] <= tokens
  BY DEF AuthInv, Typed, Refreshes, BaseKnown
<1>2. \A v \in Providers :
        Refreshed(p)[v] = IF v = refresh[p].provider THEN tokens + 1 ELSE refresh[p].base[v]
  BY <1>1 DEF Refreshed
<1>3. Refreshed(p) \in [Providers -> Nat]
  BY <1>1 DEF Refreshed
<1>. QED
  BY <1>1, <1>2, <1>3 DEF Distinct

(* A new pair is written over the file as it was read, or by a process     *)
(* that was robbed, whose tokens count as lost.                            *)
LEMMA GrantedInvariant ==
  ASSUME AuthInv, NEW p \in Processes, Granted(p)
  PROVE  AuthInv'
<1>1. /\ Asking(p) /\ used' = used \cup {Token(p)} /\ tokens' = tokens + 1
      /\ Store(p) /\ Release(p, {})
  BY DEF Granted, Asking
<1>. DEFINE r == IF refresh[p].compromised THEN Failed ELSE NoRefresh
<1>2. r \in Refreshes /\ r.phase # "asking" /\ refresh' = [refresh EXCEPT ![p] = r]
  <2>1. Failed \in Refreshes /\ NoRefresh \in Refreshes /\ Failed.phase # "asking"
        /\ NoRefresh.phase # "asking"
    BY DEF Failed, NoRefresh, Refreshes, Empty
  <2>. HIDE DEF Failed, NoRefresh
  <2>. QED
    BY <2>1 DEF Granted
<1>. HIDE DEF r
<1>3. /\ orphans \subseteq orphans' /\ robbed' \subseteq Processes
      /\ lock' \in [owner : Processes \cup {"none", "dead"}, age : 0 .. 2]
      /\ refresh' \in [Processes -> Refreshes] /\ LockHeld'
      /\ \A q \in Processes : Asking(q)' =>
           /\ q # p /\ Asking(q) /\ refresh'[q] = refresh[q]
           /\ q \in robbed' => Held(q) \subseteq orphans'
           /\ q \notin robbed' => q \notin robbed /\ lock'.owner = q /\ refresh[p].compromised
  BY <1>1, <1>2, ReleaseKeeps
<1>4. Token(p) \in Held(p) /\ Token(p) \in 1 .. tokens
  BY <1>1, TokenHeld
<1>5. /\ tokens \in Nat /\ used \subseteq 1 .. tokens /\ file \in [Providers -> Nat]
      /\ Distinct(file) /\ \A v \in Providers : file[v] <= tokens
      /\ NotStranded /\ BaseKnown(p) /\ Protected(p)
      /\ refresh[p].base \in [Providers -> Nat]
  BY <1>1 DEF AuthInv, Typed, Refreshes
<1>6. /\ Refreshed(p) \in [Providers -> Nat]
      /\ \A v \in Providers : Refreshed(p)[v] <= tokens + 1
      /\ \A v \in Providers :
           Refreshed(p)[v] = IF v = refresh[p].provider THEN tokens + 1 ELSE refresh[p].base[v]
      /\ Distinct(Refreshed(p))
  BY <1>1, RefreshedFile
<1>7. refresh[p].compromised => UNCHANGED <<status, file>>
  BY <1>1 DEF Store, store
<1>8. ~refresh[p].compromised => file' = Refreshed(p)
  BY <1>1 DEF Store
<1>9. Typed' /\ Distinct(file)'
  <2>1. tokens' \in Nat /\ tokens <= tokens' /\ used' \subseteq 1 .. tokens'
    <3>1. tokens' = tokens + 1 /\ tokens \in Nat
      BY <1>1, <1>5
    <3>2. used' \subseteq 1 .. tokens
      BY <1>1, <1>4, <1>5
    <3>. QED
      BY <3>1, <3>2
  <2>2. CASE refresh[p].compromised
    BY <1>3, <1>5, <1>7, <2>1, <2>2 DEF Typed, Distinct
  <2>3. CASE ~refresh[p].compromised
    <3>1. /\ file' = Refreshed(p) /\ file' \in [Providers -> Nat]
          /\ \A v \in Providers : file'[v] <= tokens'
      BY <1>1, <1>6, <1>8, <2>3
    <3>. QED
      BY <1>3, <1>6, <2>1, <3>1 DEF Typed, Distinct
  <2>. QED
    BY <2>2, <2>3
<1>10. NotStranded'
  <2>1. CASE p \in robbed
    <3>1. Held(p) \subseteq orphans
      BY <1>5, <2>1 DEF Protected
    <3>2. CASE refresh[p].compromised
      BY <1>1, <1>3, <1>4, <1>5, <1>7, <3>1, <3>2 DEF NotStranded
    <3>3. CASE ~refresh[p].compromised
      <4>1. \A v \in Providers : refresh[p].base[v] # 0 => refresh[p].base[v] \in orphans
        BY <1>5, <3>1 DEF Held, Range
      <4>2. \A k \in used' : k # 0 /\ k # tokens + 1
        BY <1>1, <1>4, <1>5
      <4>. QED
        BY <1>3, <1>6, <1>8, <3>3, <4>1, <4>2 DEF NotStranded
    <3>. QED
      BY <3>2, <3>3
  <2>2. CASE p \notin robbed
    <3>1. lock.owner = p /\ file = refresh[p].base
      BY <1>5, <2>2 DEF Protected
    <3>2. ~refresh[p].compromised
      BY <3>1 DEF AuthInv, LockHeld
    <3>3. ASSUME NEW v \in Providers, file'[v] \in used' PROVE file'[v] \in orphans'
      <4>1. v # refresh[p].provider /\ file'[v] = file[v]
        BY <1>1, <1>4, <1>5, <1>6, <1>8, <3>1, <3>2, <3>3
      <4>2. file[v] # Token(p)
        BY <1>5, <3>1, <4>1 DEF BaseKnown, Distinct, Token
      <4>. QED
        BY <1>1, <1>3, <1>5, <3>3, <4>1, <4>2 DEF NotStranded
    <3>. QED
      BY <3>3 DEF NotStranded
  <2>. QED
    BY <2>1, <2>2
<1>11. ASSUME NEW q \in Processes, Asking(q)' PROVE BaseKnown(q)' /\ Protected(q)'
  <2>1. BaseKnown(q) /\ Protected(q) /\ refresh'[q] = refresh[q]
        /\ refresh[q].base \in [Providers -> Nat]
    BY <1>3, <1>11 DEF AuthInv, Typed, Refreshes
  <2>2. BaseKnown(q)'
    BY <1>1, <1>5, <2>1 DEF BaseKnown, Token, Distinct
  <2>3. Protected(q)'
    BY <1>3, <1>7, <1>11, <2>1 DEF Protected, Held
  <2>. QED
    BY <2>2, <2>3
<1>. QED
  BY <1>3, <1>9, <1>10, <1>11 DEF AuthInv

(* The lock ages until its holder renews it.                               *)
LEMMA AgeInvariant == AuthInv /\ Age => AuthInv'
<1>. SUFFICES ASSUME AuthInv, Age PROVE AuthInv'
  OBVIOUS
<1>1. /\ lock.age < (IF lock.owner = "dead" THEN 2 ELSE IF lock.owner = "none" THEN 0 ELSE 1)
      /\ lock' = [lock EXCEPT !.age = @ + 1]
      /\ UNCHANGED <<status, file, refresh, tokens, used, orphans, robbed>>
  BY DEF Age, store, grants, history
<1>2. /\ lock \in [owner : Processes \cup {"none", "dead"}, age : 0 .. 2]
      /\ refresh \in [Processes -> Refreshes] /\ tokens \in Nat
  BY DEF AuthInv, Typed
<1>3. /\ lock' \in [owner : Processes \cup {"none", "dead"}, age : 0 .. 2]
      /\ lock'.owner = lock.owner /\ (lock'.owner \in Processes => lock'.age <= 1)
  BY <1>1, <1>2, AuthStorageAssumption
<1>. QED
  BY <1>1, <1>2, <1>3, BystanderInvariant DEF Undisturbed

(* A holder renews its lock, or notices that it was robbed.                *)
LEMMA RenewInvariant ==
  ASSUME AuthInv, NEW p \in Processes, Renew(p)
  PROVE  AuthInv'
<1>1. UNCHANGED <<status, file, tokens, used, orphans, robbed>>
  BY DEF Renew, store, grants, history
<1>2. /\ lock \in [owner : Processes \cup {"none", "dead"}, age : 0 .. 2]
      /\ refresh \in [Processes -> Refreshes] /\ tokens \in Nat
  BY DEF AuthInv, Typed
<1>3. CASE lock.owner = p
  <2>1. lock' = [lock EXCEPT !.age = 0] /\ UNCHANGED refresh
    BY <1>3 DEF Renew
  <2>2. /\ lock' \in [owner : Processes \cup {"none", "dead"}, age : 0 .. 2]
        /\ lock'.owner = lock.owner /\ lock'.age <= 1
    BY <1>2, <2>1
  <2>. QED
    BY <1>1, <1>2, <2>1, <2>2, BystanderInvariant DEF Undisturbed
<1>4. CASE lock.owner # p
  <2>1. refresh' = [refresh EXCEPT ![p].compromised = TRUE] /\ UNCHANGED lock
    BY <1>4 DEF Renew
  <2>2. /\ refresh' \in [Processes -> Refreshes]
        /\ \A q \in Processes : /\ refresh'[q].phase = refresh[q].phase
                                /\ refresh'[q].base = refresh[q].base
                                /\ refresh'[q].provider = refresh[q].provider
                                /\ q # p => refresh'[q] = refresh[q]
    BY <1>2, <2>1 DEF Refreshes
  <2>3. Typed'
    BY <1>1, <2>1, <2>2 DEF AuthInv, Typed
  <2>4. LockHeld'
    BY <1>1, <1>4, <2>1, <2>2 DEF AuthInv, LockHeld, Asking, Typed
  <2>5. Distinct(file)' /\ NotStranded'
    BY <1>1 DEF AuthInv, Distinct, NotStranded
  <2>6. ASSUME NEW q \in Processes, Asking(q)' PROVE BaseKnown(q)' /\ Protected(q)'
    <3>1. BaseKnown(q) /\ Protected(q)
      BY <2>2, <2>6 DEF AuthInv, Asking
    <3>. QED
      BY <1>1, <2>1, <2>2, <3>1 DEF BaseKnown, Protected, Held, Token, Distinct
  <2>. QED
    BY <2>3, <2>4, <2>5, <2>6 DEF AuthInv
<1>. QED
  BY <1>3, <1>4

(* A process dies while it waits, and its token counts as lost, or while   *)
(* it writes, and the file is empty; if it was robbed and does not know it *)
(* writes beside the owner of the lock, which counts as robbed from then.  *)
LEMMA CrashInvariant ==
  ASSUME AuthInv, NEW p \in Processes, Crash(p)
  PROVE  AuthInv'
<1>1. refresh' = [refresh EXCEPT ![p] = NoRefresh] /\ UNCHANGED tokens
  BY DEF Crash
<1>2. /\ refresh \in [Processes -> Refreshes] /\ robbed \subseteq Processes /\ tokens \in Nat
      /\ lock \in [owner : Processes \cup {"none", "dead"}, age : 0 .. 2]
      /\ used \subseteq 1 .. tokens /\ file \in [Providers -> Nat]
  BY DEF AuthInv, Typed
<1>3. NoRefresh \in Refreshes /\ NoRefresh.phase # "asking"
  BY DEF NoRefresh, Refreshes, Empty
<1>4. /\ refresh' \in [Processes -> Refreshes] /\ ~Asking(p)'
      /\ \A q \in Processes : q # p => refresh'[q] = refresh[q]
  <2>. HIDE DEF NoRefresh
  <2>. QED
    BY <1>1, <1>2, <1>3 DEF Asking
<1>5. \A q \in Processes : Asking(q)' => q # p /\ Asking(q) /\ refresh'[q] = refresh[q]
  BY <1>4 DEF Asking
<1>6. \A q \in robbed \ {p} : q # p /\ q \in Processes /\ Asking(q)'
  BY <1>1, <1>2, <1>4 DEF AuthInv, LockHeld, Asking
<1>7. CASE /\ lock' = IF lock.owner = p THEN [lock EXCEPT !.owner = "dead"] ELSE lock
           /\ IF Asking(p)
              THEN orphans' = orphans \cup {Token(p)} /\ used' \in {used, used \cup {Token(p)}}
              ELSE UNCHANGED <<orphans, used>>
           /\ robbed' = robbed \ {p} /\ UNCHANGED store
  <2>1. /\ UNCHANGED <<status, file>> /\ orphans \subseteq orphans' /\ used' \subseteq 1 .. tokens
        /\ \A k \in used' : k \in used \/ k \in orphans'
    <3>1. CASE Asking(p)
      BY <1>2, <1>7, <3>1, TokenHeld DEF store
    <3>2. CASE ~Asking(p)
      BY <1>2, <1>7, <3>2 DEF store
    <3>. QED
      BY <3>1, <3>2
  <2>2. /\ lock' \in [owner : Processes \cup {"none", "dead"}, age : 0 .. 2]
        /\ lock.owner # p => lock' = lock
        /\ lock.owner = p => lock'.owner = "dead"
    BY <1>2, <1>7
  <2>3. Typed'
    BY <1>1, <1>2, <1>4, <1>7, <2>1, <2>2 DEF AuthInv, Typed
  <2>4. LockHeld'
    BY <1>4, <1>6, <1>7, <2>2, AuthStorageAssumption DEF AuthInv, LockHeld, Asking
  <2>5. Distinct(file)' /\ NotStranded'
    BY <2>1 DEF AuthInv, Distinct, NotStranded
  <2>6. ASSUME NEW q \in Processes, Asking(q)' PROVE BaseKnown(q)' /\ Protected(q)'
    <3>1. BaseKnown(q) /\ Protected(q) /\ refresh'[q] = refresh[q] /\ q # p
      BY <1>5, <2>6 DEF AuthInv
    <3>. QED
      BY <1>1, <1>7, <2>1, <2>2, <3>1 DEF BaseKnown, Protected, Held, Token, Distinct
  <2>. QED
    BY <2>3, <2>4, <2>5, <2>6 DEF AuthInv
<1>8. CASE /\ lock.owner = "none" /\ file' = Empty /\ lock' = [owner |-> "dead", age |-> 0]
           /\ robbed' = robbed \ {p} /\ UNCHANGED <<orphans, used>>
  <2>1. file' \in [Providers -> Nat] /\ \A v \in Providers : file'[v] = 0
    BY <1>8 DEF Empty
  <2>2. lock' \in [owner : Processes \cup {"none", "dead"}, age : 0 .. 2]
        /\ lock'.owner \notin Processes
    BY <1>8, AuthStorageAssumption
  <2>3. Typed' /\ LockHeld'
    BY <1>1, <1>2, <1>4, <1>6, <1>8, <2>1, <2>2 DEF Typed, LockHeld
  <2>4. Distinct(file)' /\ NotStranded'
    BY <1>2, <1>8, <2>1 DEF Distinct, NotStranded
  <2>5. ASSUME NEW q \in Processes, Asking(q)' PROVE BaseKnown(q)' /\ Protected(q)'
    <3>1. BaseKnown(q) /\ Protected(q) /\ refresh'[q] = refresh[q] /\ q # p
      BY <1>5, <2>5 DEF AuthInv
    <3>2. q \in robbed
      BY <1>8, <3>1, AuthStorageAssumption DEF Protected
    <3>. QED
      BY <1>1, <1>8, <3>1, <3>2 DEF BaseKnown, Protected, Held, Token, Distinct
  <2>. QED
    BY <2>3, <2>4, <2>5 DEF AuthInv
<1>9. CASE /\ Asking(p) /\ ~refresh[p].compromised /\ file' = Empty
           /\ lock' = IF lock.owner = p THEN [lock EXCEPT !.owner = "dead"] ELSE lock
           /\ used' = used \cup {Token(p)} /\ Interfere(p, {Token(p)})
  <2>. DEFINE next == {lock.owner} \cap (Processes \ {p})
  <2>1. file' \in [Providers -> Nat] /\ \A v \in Providers : file'[v] = 0
    BY <1>9 DEF Empty
  <2>2. /\ lock' \in [owner : Processes \cup {"none", "dead"}, age : 0 .. 2]
        /\ lock.owner # p => lock' = lock
        /\ lock.owner = p => lock'.owner = "dead"
    BY <1>2, <1>9
  <2>3. /\ robbed' = (robbed \ {p}) \cup next
        /\ orphans' = orphans \cup {Token(p)} \cup UNION {Held(q) : q \in next}
    BY <1>9 DEF Interfere
  <2>4. \A q \in next : q \in Processes /\ q # p /\ Asking(q)'
    BY <1>4 DEF AuthInv, LockHeld, Asking
  <2>5. used' \subseteq 1 .. tokens
    BY <1>2, <1>9, TokenHeld
  <2>6. Typed'
    BY <1>1, <1>2, <1>4, <2>1, <2>2, <2>3, <2>5 DEF Typed
  <2>7. LockHeld'
    BY <1>4, <1>6, <2>2, <2>3, <2>4, AuthStorageAssumption DEF AuthInv, LockHeld, Asking
  <2>8. Distinct(file)' /\ NotStranded'
    BY <2>1, <2>5, <2>6 DEF Distinct, NotStranded, Typed
  <2>9. ASSUME NEW q \in Processes, Asking(q)' PROVE BaseKnown(q)' /\ Protected(q)'
    <3>1. BaseKnown(q) /\ Protected(q) /\ refresh'[q] = refresh[q] /\ q # p
      BY <1>5, <2>9 DEF AuthInv
    <3>2. q \in robbed' /\ Held(q) \subseteq orphans'
      BY <2>3, <3>1 DEF Protected
    <3>. QED
      BY <1>1, <3>1, <3>2 DEF BaseKnown, Protected, Held, Token, Distinct
  <2>. QED
    BY <2>6, <2>7, <2>8, <2>9 DEF AuthInv
<1>10. QED
  BY <1>7, <1>8, <1>9 DEF Crash, Asking

(* Every step keeps the invariant.                                         *)
LEMMA NextAuthInv == AuthInv /\ [Next]_vars => AuthInv'
<1>. SUFFICES ASSUME AuthInv, [Next]_vars PROVE AuthInv'
  OBVIOUS
<1>1. CASE Age
  BY <1>1, AgeInvariant
<1>2. CASE UNCHANGED vars
  <2>1. /\ UNCHANGED <<status, file, lock, refresh, tokens, used, orphans, robbed>>
    BY <1>2 DEF vars, store, grants, history
  <2>. QED
    BY <2>1, BystanderInvariant DEF AuthInv, Typed, LockHeld, Undisturbed
<1>3. ASSUME NEW p \in Processes,
             \/ Create(p) \/ Reload(p)
             \/ \E v \in Providers : Change(p, v) \/ GiveUp(p, v) \/ Refresh(p, v)
             \/ Refused(p) \/ Granted(p) \/ Renew(p) \/ Crash(p)
      PROVE  AuthInv'
  BY <1>3, CreateInvariant, ReloadInvariant, ChangeInvariant, GiveUpInvariant, RefreshInvariant,
     RefusedInvariant, GrantedInvariant, RenewInvariant, CrashInvariant
<1>. QED
  BY <1>1, <1>2, <1>3 DEF Next

(* The invariant holds in every reachable state.                           *)
LEMMA AuthInvariant == Spec => []AuthInv
  BY InitAuthInv, NextAuthInv, PTL DEF Spec

(* Of several processes that wait for a provider all but one were robbed   *)
(* of the lock.                                                            *)
THEOREM RefreshesTakeTurns == Spec => []OneRefreshAtATime
  BY AuthInvariant, InvImpliesOneRefresh, PTL

(* No provider's entry in auth.json is a token that was spent, but for     *)
(* those whose successor was lost.                                         *)
THEOREM NobodyStranded == Spec => []NotStranded
<1>1. AuthInv => NotStranded
  BY DEF AuthInv
<1>. QED
  BY <1>1, AuthInvariant, PTL

Counted == crashes \in Nat

(* The crashes are counted.                                                *)
LEMMA CrashesCounted == Spec => []Counted
<1>1. Init => Counted
  BY DEF Init, Counted
<1>2. ASSUME Counted, [Next]_vars PROVE Counted'
  <2>1. ASSUME NEW p \in Processes, Crash(p) PROVE crashes' = crashes + 1
    BY <2>1 DEF Crash
  <2>2. ASSUME NEW p \in Processes, Create(p) \/ Reload(p) \/ Refused(p) \/ Granted(p) \/ Renew(p)
        PROVE  UNCHANGED crashes
    BY <2>2 DEF Create, Reload, Refused, Granted, Renew
  <2>3. ASSUME NEW p \in Processes, NEW v \in Providers, Change(p, v) \/ GiveUp(p, v) \/ Refresh(p, v)
        PROVE  UNCHANGED crashes
    BY <2>3 DEF Change, GiveUp, Refresh
  <2>4. Age \/ UNCHANGED vars => UNCHANGED crashes
    BY DEF Age, vars
  <2>5. crashes' \in {crashes, crashes + 1}
    BY <1>2, <2>1, <2>2, <2>3, <2>4 DEF Next
  <2>. QED
    BY <1>2, <2>5 DEF Counted
<1>. QED
  BY <1>1, <1>2, PTL DEF Spec

(* Only a set, a login or a refresh writes the file, and for one provider. *)
LEMMA WritesOne ==
  ASSUME AuthInv, Counted, [Next]_vars, Orderly, crashes = crashes'
  PROVE  Cardinality({v \in Providers : file[v] # file'[v]}) <= 1
<1>0. Cardinality({}) <= 1 /\ \A v \in Providers : Cardinality({v}) <= 1
  <2>1. Cardinality({}) = 0
    BY FS_EmptySet
  <2>2. \A v \in Providers : Cardinality({v}) = 1
    BY FS_Singleton
  <2>. QED
    BY <2>1, <2>2
<1>1. ASSUME UNCHANGED file
      PROVE  Cardinality({v \in Providers : file[v] # file'[v]}) <= 1
  <2>1. {v \in Providers : file[v] # file'[v]} = {}
    BY <1>1
  <2>. QED
    BY <1>0, <2>1
<1>2. ASSUME NEW w \in Providers, \A v \in Providers : v # w => file'[v] = file[v]
      PROVE  Cardinality({v \in Providers : file[v] # file'[v]}) <= 1
  <2>1. {v \in Providers : file[v] # file'[v]} \in {{}, {w}}
    BY <1>2
  <2>. QED
    BY <1>0, <2>1
<1>3. file \in [Providers -> Nat]
  BY DEF AuthInv, Typed
<1>4. ASSUME NEW p \in Processes, NEW v \in Providers, Change(p, v)
      PROVE  \A w \in Providers : w # v => file'[w] = file[w]
  BY <1>3, <1>4 DEF Change, WriteChange, store
<1>5. ASSUME NEW p \in Processes, Granted(p)
      PROVE  UNCHANGED file \/ \A w \in Providers : w # refresh[p].provider => file'[w] = file[w]
  <2>1. Asking(p) /\ Store(p) /\ Release(p, {})
    BY <1>5 DEF Granted, Asking
  <2>2. CASE refresh[p].compromised
    BY <2>1, <2>2 DEF Store, store
  <2>3. CASE ~refresh[p].compromised
    <3>1. p \notin robbed'
      BY <2>1 DEF Release, Interfere
    <3>2. p \notin robbed
      BY <3>1 DEF Orderly
    <3>3. file = refresh[p].base
      BY <2>1, <3>2 DEF AuthInv, Protected
    <3>. QED
      BY <2>1, <2>3, <3>3, RefreshedFile DEF Store
  <2>. QED
    BY <2>2, <2>3
<1>6. ASSUME NEW p \in Processes, Granted(p)
      PROVE  refresh[p].provider \in Providers
  BY <1>6 DEF AuthInv, Granted, Asking, BaseKnown
<1>7. ASSUME NEW p \in Processes, Crash(p) PROVE FALSE
  <2>1. crashes' = crashes + 1
    BY <1>7 DEF Crash
  <2>. QED
    BY <2>1 DEF Counted
<1>8. ASSUME NEW p \in Processes,
             \/ Reload(p) \/ (\E v \in Providers : GiveUp(p, v) \/ Refresh(p, v))
             \/ Refused(p) \/ Renew(p)
      PROVE  UNCHANGED file
  BY <1>8 DEF Reload, GiveUp, Refresh, Refused, Renew, store
<1>9. Age \/ UNCHANGED vars => UNCHANGED file
  BY DEF Age, vars, store
<1>10. ~(\E p \in Processes : Create(p))
  BY DEF Orderly
<1>. QED
  BY <1>1, <1>2, <1>4, <1>5, <1>6, <1>7, <1>8, <1>9, <1>10 DEF Next

(* A process changes the credential of one provider in auth.json and keeps *)
(* the others', unless it was robbed of the lock or dies.                  *)
THEOREM OthersAreKept == Spec => KeepsOthers
<1>1. ASSUME AuthInv, Counted, [Next]_vars
      PROVE  [Orderly /\ crashes = crashes' =>
                Cardinality({v \in Providers : file[v] # file'[v]}) <= 1]_vars
  <2>1. ASSUME Orderly, crashes = crashes'
        PROVE  Cardinality({v \in Providers : file[v] # file'[v]}) <= 1
    BY <1>1, <2>1, WritesOne
  <2>. QED
    BY <2>1
<1>. QED
  BY <1>1, AuthInvariant, CrashesCounted, PTL DEF Spec, KeepsOthers
=============================================================================
