--------------------------- MODULE EffectLedger ---------------------------
(***************************************************************************)
(* What the pppr runtime promises about effects, with the lifecycle, runs  *)
(* and conversation left out.  Each session has a ledger: the requests     *)
(* that are outstanding and the ids that are settled.  An outstanding      *)
(* request stays so until its result arrives; only a new session, a crash  *)
(* or a return to the stable copy makes a ledger forget.                   *)
(***************************************************************************)
EXTENDS Naturals

CONSTANT Sessions

VARIABLES
  outstanding,  \* session -> requests waiting for their result
  settled,      \* session -> ids of the requests whose result has arrived
  stable,       \* session -> the set of at most one saved ledger
  asked,        \* every request made so far
  nextId        \* the last id given to a request

ledgerVars == <<outstanding, settled, stable, asked, nextId>>

Set(s, out, set) ==
  /\ outstanding' = [outstanding EXCEPT ![s] = out]
  /\ settled' = [settled EXCEPT ![s] = set]

Open(s) ==
  /\ Set(s, {}, {})
  /\ UNCHANGED <<stable, asked, nextId>>

Ask(s) ==
  LET q == [id |-> nextId + 1, session |-> s]
  IN  /\ Set(s, outstanding[s] \cup {q}, settled[s])
      /\ asked' = asked \cup {q}
      /\ nextId' = nextId + 1
      /\ UNCHANGED stable

\* The result of a request settles it, once or again, in the session it is
\* given to; a session that never made the request keeps the record as well.
Settle(s) ==
  \E q \in asked :
    /\ Set(s, {p \in outstanding[s] : p.id # q.id}, settled[s] \cup {q.id})
    /\ UNCHANGED <<stable, asked, nextId>>

Checkpoint(s) ==
  /\ stable' = [stable EXCEPT ![s] = {[outstanding |-> outstanding[s], settled |-> settled[s]]}]
  /\ UNCHANGED <<outstanding, settled, asked, nextId>>

Restore(s) ==
  \E copy \in stable[s] :
    /\ Set(s, copy.outstanding, copy.settled)
    /\ UNCHANGED <<stable, asked, nextId>>

\* A copy of a session knows what is settled and waits for nothing.
Copy(s, child) ==
  /\ child # s
  /\ Set(child, {}, settled[s])
  /\ UNCHANGED <<stable, asked, nextId>>

Forget ==
  /\ outstanding' = [s \in Sessions |-> {}]
  /\ settled' = [s \in Sessions |-> {}]
  /\ UNCHANGED <<stable, asked, nextId>>

Init ==
  /\ outstanding = [s \in Sessions |-> {}]
  /\ settled = [s \in Sessions |-> {}]
  /\ stable = [s \in Sessions |-> {}]
  /\ asked = {}
  /\ nextId = 0

Next ==
  \/ Forget
  \/ \E s \in Sessions :
       \/ Open(s) \/ Ask(s) \/ Settle(s) \/ Checkpoint(s) \/ Restore(s)
       \/ \E child \in Sessions : Copy(s, child)

Spec == Init /\ [][Next]_ledgerVars
=============================================================================
