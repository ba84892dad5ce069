--------------------------- MODULE SessionManager ---------------------------
(***************************************************************************)
(* The SessionManager of packages/coding-agent: a session is a tree of     *)
(* entries in the order they were appended, a leaf, and a file that holds  *)
(* the entries once the session has an answer.  Callers append, move the   *)
(* leaf, branch into a new file, switch files and fork files; the process  *)
(* may stop between any two lines it writes.                               *)
(*                                                                         *)
(* Abstractions: an entry is its type, its place in the tree and the entry *)
(* it refers to.  "user" stands for every entry that is shown to the model *)
(* and is no answer (custom messages too), "custom" for those that are not *)
(* shown (settings, names, extension data).  Files are of the current      *)
(* version; a file that is empty or has no valid header has no lines.      *)
(* A line is written whole or not at all, and one process has the file.    *)
(***************************************************************************)
EXTENDS Naturals, Sequences, FiniteSets, SequencesExt

CONSTANTS
  Types,       \* the types of entries callers append
  MaxEntries,  \* bound on entry ids
  MaxFiles,    \* bound on session files
  MaxCrashes   \* bound on crashes

VARIABLES
  sm,          \* the SessionManager of the process, or NoSession
  files,       \* path -> lines, for the files that exist
  nextId,      \* the last entry id given out
  nextFile,    \* the last path given out
  crashes      \* crashes so far

vars == <<sm, files, nextId, nextFile, crashes>>

AppendTypes == {"user", "assistant", "custom", "compaction", "label", "unlabel"}

ASSUME SessionAssumption ==
  /\ Types \subseteq AppendTypes
  /\ {MaxEntries, MaxCrashes} \subseteq Nat /\ MaxFiles \in Nat \ {0}

None == 0   \* no entry: parentId of a root, leafId before the first entry

\* ref is the target of a label, or firstKeptEntryId of a compaction.
Entry == [type : AppendTypes \cup {"session", "branch_summary"},
          id : Nat, parentId : Nat, ref : Nat]

NewEntry(type, id, parent, ref) == [type |-> type, id |-> id, parentId |-> parent, ref |-> ref]

Header == NewEntry("session", None, None, None)

\* labels holds the targets in the order of the map labelsById.
Manager == [file : Nat, entries : Seq(Entry), leaf : Nat, labels : Seq(Nat), flushed : BOOLEAN]

NoSession == [file |-> 0, entries |-> <<>>, leaf |-> None, labels |-> <<>>, flushed |-> FALSE]
-----------------------------------------------------------------------------
(* Entries, paths and contexts.                                            *)

Ids(es) == {es[i].id : i \in DOMAIN es} \ {None}

ById(es, id) == es[CHOOSE i \in DOMAIN es : es[i].id = id]

\* The elements of s that are in S, in their order.
Keep(s, S) ==
  LET kept[i \in 0 .. Len(s)] ==
        IF i = 0 THEN <<>>
        ELSE IF s[i] \in S THEN Append(kept[i - 1], s[i]) ELSE kept[i - 1]
  IN  kept[Len(s)]

\* Without the entries of these types.
Without(es, types) == Keep(es, {e \in ToSet(es) : e.type \notin types})

getEntries(es) == Without(es, {"session"})

HasAssistant(es) == \E i \in DOMAIN es : es[i].type = "assistant"

\* From the root, or from the first entry whose parent is not there.
getBranch(es, from) ==
  LET walk[id \in Nat] ==
        IF id \notin Ids(es) THEN <<>>
        ELSE Append(walk[ById(es, id).parentId], ById(es, id))
  IN  walk[from]

\* The summary of the last compaction on the path, what it kept, what came after.
contextOf(path) ==
  LET last  == Max({0} \cup {i \in DOMAIN path : path[i].type = "compaction"})
      Kept(i) == i > last \/ \E k \in 1 .. i : path[k].id = path[last].ref
      shown == {i \in DOMAIN path :
                  path[i].type \in {"user", "assistant", "branch_summary"} /\ Kept(i)}
  IN  (IF last = 0 THEN <<>> ELSE <<path[last]>>) \o Keep(path, {path[i] : i \in shown})

buildSessionContext(es, leaf) == contextOf(getBranch(es, leaf))

\* The map after an entry, whatever its type.
Labelled(labels, e) ==
  CASE e.type = "label"   -> IF Contains(labels, e.ref) THEN labels ELSE Append(labels, e.ref)
    [] e.type = "unlabel" -> Keep(labels, ToSet(labels) \ {e.ref})
    [] OTHER -> labels

LabelsOf(es) ==
  LET after[i \in 0 .. Len(es)] == IF i = 0 THEN <<>> ELSE Labelled(after[i - 1], es[i])
  IN  after[Len(es)]

\* _buildIndex over the entries of a file.
BuildIndex(path, es) ==
  [file |-> path, entries |-> es,
   leaf |-> IF getEntries(es) = <<>> THEN None ELSE Last(getEntries(es)).id,
   labels |-> LabelsOf(es), flushed |-> TRUE]
-----------------------------------------------------------------------------
(* Writing.  added goes to the end of base line by line; a crash leaves a  *)
(* part of it, and no process.                                             *)

Lines(path) == IF path \in DOMAIN files THEN files[path] ELSE <<>>

Put(path, lines) ==
  files' = [p \in DOMAIN files \cup {path} |-> IF p = path THEN lines ELSE files[p]]

Write(path, base, added, manager) ==
  \/ /\ IF added = <<>> THEN files' = files ELSE Put(path, base \o added)
     /\ sm' = manager
     /\ crashes' = crashes
  \/ /\ crashes < MaxCrashes
     /\ \E k \in 0 .. Len(added) - 1 : Put(path, base \o SubSeq(added, 1, k))
     /\ sm' = NoSession
     /\ crashes' = crashes + 1

\* Wrong variants of definitions, one plausible slip each, show that the
\* properties can fail.  This one writes only the new entry.
PersistOnlyNew(manager, e) == IF HasAssistant(manager.entries) THEN <<e>> ELSE <<>>

\* What _persist appends for the entry e, just added to the manager.
Persist(manager, e) ==
  CASE ~HasAssistant(manager.entries) -> <<>>
    [] HasAssistant(manager.entries) /\ ~manager.flushed -> manager.entries
    [] OTHER -> <<e>>

AppendUnder(parent, type, ref) ==
  LET e     == NewEntry(type, nextId + 1, parent, ref)
      added == [sm EXCEPT !.entries = Append(@, e), !.leaf = e.id, !.labels = Labelled(@, e)]
  IN  /\ sm.file # 0 /\ nextId < MaxEntries
      /\ Write(sm.file, Lines(sm.file), Persist(added, e),
               [added EXCEPT !.flushed = HasAssistant(added.entries)])
      /\ nextId' = nextId + 1
      /\ UNCHANGED nextFile

\* Wrong: a child of the last entry instead of the leaf.
AppendToLast(from, type, ref) == AppendUnder(Last(sm.entries).id, type, ref)

\* A new child of the entry from becomes the leaf.
AppendEntry(from, type, ref) == AppendUnder(from, type, ref)
-----------------------------------------------------------------------------
(* The operations.                                                         *)

AppendPlain(type) ==
  /\ type \in Types \cap {"user", "assistant", "custom"}
  /\ AppendEntry(sm.leaf, type, None)

\* The kept entry is one of the branch that is compacted.
AppendCompaction(kept) ==
  /\ "compaction" \in Types
  /\ kept \in Ids(getBranch(sm.entries, sm.leaf))
  /\ AppendEntry(sm.leaf, "compaction", kept)

AppendLabelChange(type, target) ==
  /\ type \in Types \cap {"label", "unlabel"}
  /\ target \in Ids(sm.entries)
  /\ AppendEntry(sm.leaf, type, target)

\* branch(), or resetLeaf() for None.
Branch(id) ==
  /\ sm.file # 0 /\ id \in Ids(sm.entries) \cup {None} /\ id # sm.leaf
  /\ sm' = [sm EXCEPT !.leaf = id]
  /\ UNCHANGED <<files, nextId, nextFile, crashes>>

BranchWithSummary(id) ==
  /\ id \in Ids(sm.entries) \cup {None}
  /\ AppendEntry(id, "branch_summary", None)

\* The label entries of a branched session: a chain behind its last entry.
LabelChain(labels, last) ==
  [i \in DOMAIN labels |->
     NewEntry("label", nextId + i, IF i = 1 THEN last ELSE nextId + i - 1, labels[i])]

OnPath(leaf) == Without(getBranch(sm.entries, leaf), {"label", "unlabel"})

WithLabels(path, labels) ==
  <<Header>> \o path \o LabelChain(labels, IF path = <<>> THEN None ELSE Last(path).id)

\* Wrong: every label is carried over.
BranchedWithAllLabels(leaf) == WithLabels(OnPath(leaf), sm.labels)

BranchedEntries(leaf) ==
  WithLabels(OnPath(leaf), Keep(sm.labels, Ids(OnPath(leaf))))

BranchInto(path, leaf, now) ==
  LET es == BranchedEntries(leaf)
  IN  /\ sm.file # 0 /\ leaf \in Ids(sm.entries) /\ path <= MaxFiles
      /\ Write(path, <<>>, IF now THEN es ELSE <<>>, [BuildIndex(path, es) EXCEPT !.flushed = now])
      /\ nextFile' = IF path > nextFile THEN path ELSE nextFile
      /\ nextId' = Max({nextId} \cup Ids(es))

\* Wrong: the new entries go to the old file.
BranchOverwrites(leaf) == BranchInto(sm.file, leaf, HasAssistant(BranchedEntries(leaf)))

\* The file is written now if there is an answer, or by _persist later.
CreateBranchedSession(leaf) == BranchInto(nextFile + 1, leaf, HasAssistant(BranchedEntries(leaf)))

\* Wrong: the leaf of the session before.
NewManagerKeepsLeaf(path, written) ==
  [sm EXCEPT !.file = path, !.entries = <<Header>>, !.labels = <<>>, !.flushed = written]

NewManager(path, written) ==
  [file |-> path, entries |-> <<Header>>, leaf |-> None, labels |-> <<>>, flushed |-> written]

NewSession ==
  /\ nextFile < MaxFiles
  /\ sm' = NewManager(nextFile + 1, FALSE)
  /\ nextFile' = nextFile + 1
  /\ UNCHANGED <<files, nextId, crashes>>

\* A path that does not exist is taken as the name of a new session, a file
\* without a header is started afresh.
SetSessionFile(path) ==
  /\ path \in 1 .. nextFile
  /\ IF Lines(path) = <<>>
     THEN LET exists == path \in DOMAIN files
          IN  Write(path, <<>>, IF exists THEN <<Header>> ELSE <<>>, NewManager(path, exists))
     ELSE sm' = BuildIndex(path, files[path]) /\ UNCHANGED <<files, crashes>>
  /\ UNCHANGED <<nextId, nextFile>>

\* A copy of the file, which is then opened.
ForkFrom(source) ==
  /\ Lines(source) # <<>> /\ nextFile < MaxFiles
  /\ LET es == <<Header>> \o getEntries(files[source])
     IN  Write(nextFile + 1, <<>>, es, BuildIndex(nextFile + 1, es))
  /\ nextFile' = nextFile + 1
  /\ UNCHANGED nextId

Crash ==
  /\ sm.file # 0 /\ crashes < MaxCrashes
  /\ sm' = NoSession
  /\ crashes' = crashes + 1
  /\ UNCHANGED <<files, nextId, nextFile>>

\* At the start there may be an empty file, named by the user.
Init ==
  /\ sm = NoSession
  /\ \E n \in {0, 1} : files = [p \in 1 .. n |-> <<>>] /\ nextFile = n
  /\ nextId = 0 /\ crashes = 0

Next ==
  \/ NewSession \/ Crash
  \/ \E type \in AppendTypes : AppendPlain(type)
  \/ \E id \in 0 .. nextId :
       \/ AppendCompaction(id) \/ Branch(id) \/ BranchWithSummary(id)
       \/ CreateBranchedSession(id)
       \/ \E type \in AppendTypes : AppendLabelChange(type, id)
  \/ \E path \in 1 .. nextFile : SetSessionFile(path) \/ ForkFrom(path)

Spec == Init /\ [][Next]_vars
-----------------------------------------------------------------------------
TypeOK ==
  /\ sm \in Manager /\ sm.file <= nextFile
  /\ sm.leaf \in Ids(sm.entries) \cup {None}
  /\ DOMAIN files \subseteq 1 .. nextFile
  /\ \A p \in DOMAIN files : files[p] \in Seq(Entry)
  /\ nextId \in Nat /\ nextFile \in 0 .. MaxFiles
  /\ crashes \in 0 .. MaxCrashes

(* Once a session has an answer, whoever opens its file sees the session of *)
(* the process: the same entries and labels, also after branches, crashes   *)
(* while writing, reloads and forks (session-manager.ts 747-816, 1208-1224).*)
FileHoldsSession ==
  HasAssistant(sm.entries) =>
    LET opened == BuildIndex(sm.file, Lines(sm.file))
    IN  /\ ToSet(getEntries(opened.entries)) = ToSet(getEntries(sm.entries))
        /\ ToSet(opened.labels) = ToSet(sm.labels)

\* The entries without their tree: what is kept of a session, and where.
Store == INSTANCE SessionStore WITH
           Entries <- {e \in Entry : e.type # "session"},
           Answers <- {e \in Entry : e.type = "assistant"},
           Notes   <- {e \in Entry : e.type = "label"},
           open    <- sm.file,
           memory  <- ToSet(getEntries(sm.entries)),
           logs    <- files

(* Every operation keeps the session as SessionStore says: nothing is       *)
(* written before the first answer and everything with it, no branch, fork, *)
(* switch or crash changes what was written, and what is opened is what was *)
(* stored (session-manager.ts 682-724, 795-816, 1049-1051, 1156-1227).      *)
StoreSpec == Store!Spec

Context(manager) == buildSessionContext(manager.entries, manager.leaf)

(* A message that is appended comes to the end of what the model is shown   *)
(* and changes nothing before it, wherever the leaf was moved and whatever  *)
(* was compacted or branched (session-manager.ts 307-414, 811-836).         *)
MessageExtendsContext ==
  [][sm.file # 0 /\ sm'.file = sm.file /\ nextId' # nextId
     /\ Last(sm'.entries).type \in {"user", "assistant"}
     => Context(sm') = Append(Context(sm), Last(sm'.entries))]_vars

\* The labels of a session go to the entries of a path.
LabelsOn(path) == {t \in ToSet(sm.labels) : \E e \in ToSet(path) : e.id = t}

(* README.md:218 of the package: /fork "copies history up to the selected   *)
(* point": the branched session shows the model what the old one showed at  *)
(* that entry, and its entries have the labels they had, as read through    *)
(* the index that is rebuilt from its own entries (session-manager.ts       *)
(* 1156-1227).  Excepted are paths on which entries follow a label: the     *)
(* label is left out, and the entry behind it has a parent that is not      *)
(* there.                                                                   *)
BranchKeepsSession ==
  [][\A leaf \in Ids(sm.entries) :
       CreateBranchedSession(leaf) /\ sm'.file # 0 =>
         LET path == getBranch(sm.entries, leaf)
         IN  /\ ToSet(sm'.labels) = LabelsOn(OnPath(leaf))
             /\ IsPrefix(OnPath(leaf), path) =>
                  Context(sm') = buildSessionContext(sm.entries, leaf)]_vars
=============================================================================
