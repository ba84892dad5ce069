---------------------------- MODULE SessionStore ----------------------------
(***************************************************************************)
(* What the session manager promises of what is kept, with the tree, the   *)
(* labels and the order of entries left out.  A session is the set of its  *)
(* entries and has a log.  Nothing is written while a session has no       *)
(* answer; with the first one and ever after, an operation returns when    *)
(* the log holds the session.  Logs only grow, whatever is opened, copied  *)
(* or interrupted, and the process may stop at any time: then an entry     *)
(* that was being added is not stored, and a copy may be incomplete.       *)
(***************************************************************************)
EXTENDS Naturals, Sequences, SequencesExt

CONSTANTS
  Entries,  \* what a line of a log may be that belongs to the session
  Answers,  \* those that are answers of the model
  Notes     \* those that a copy may have of its own

VARIABLES
  open,     \* the log of the open session, or 0
  memory,   \* its entries
  logs      \* the lines of every log there is

storeVars == <<open, memory, logs>>

Stored(log)  == {line \in ToSet(log) : line \in Entries}
Answered(es) == \E e \in es : e \in Answers

\* What could be copied, and copies, perhaps incomplete.
Originals   == {memory} \cup {Stored(logs[q]) : q \in DOMAIN logs}
Copied(es)  == \E original \in Originals : es \ Notes \subseteq original

\* Only p changes, and it only grows.
Extend(p) ==
  /\ DOMAIN logs' = DOMAIN logs \cup {p}
  /\ \A q \in DOMAIN logs : IsPrefix(logs[q], logs'[q]) /\ (q # p => logs'[q] = logs[q])

Written == Extend(open') /\ Stored(logs'[open']) = memory'

Add ==
  /\ open # 0 /\ open' = open
  /\ \E e \in memory' \ memory : memory' = memory \cup {e}
  /\ IF Answered(memory') THEN Written ELSE UNCHANGED logs

\* A log that does not exist has no entries.
Start ==
  /\ open' # 0 /\ open' \notin DOMAIN logs
  /\ memory' = {}
  /\ UNCHANGED logs

\* What a log holds; a header may be added.
Open ==
  /\ open' \in DOMAIN logs
  /\ memory' = Stored(logs[open'])
  /\ Written

Copy ==
  /\ open' # 0 /\ open' \notin DOMAIN logs
  /\ Copied(memory')
  /\ \/ Written
     \/ ~Answered(memory') /\ UNCHANGED logs

Stop ==
  /\ open' = 0 /\ memory' = {}
  /\ \/ UNCHANGED logs
     \/ open # 0 /\ Extend(open) /\ Stored(logs'[open]) \subseteq memory
     \/ \E p \in DOMAIN logs' \ DOMAIN logs : Extend(p) /\ Copied(Stored(logs'[p]))

Init == open = 0 /\ memory = {} /\ \A p \in DOMAIN logs : logs[p] = <<>>

Next == Add \/ Start \/ Open \/ Copy \/ Stop

Spec == Init /\ [][Next]_storeVars
=============================================================================
