----------------------------- MODULE Compaction -----------------------------
(***************************************************************************)
(* Compaction and branch summaries (core/compaction of coding-agent): what *)
(* is cut from the context, what a summary is made of, and what the model  *)
(* is shown afterwards.  The session is the tree of SessionManager without *)
(* its files.  An agent run appends a user message, assistant messages and *)
(* one result for each tool call; between runs the user compacts (/compact *)
(* and automatic compaction prepare in the same way) or moves through the  *)
(* tree (/tree), with or without a summary of the branch that is left.     *)
(*                                                                         *)
(* A summary is the set of the entries it was generated from; a message is *)
(* its role and its estimated tokens.  Extensions that replace a summary,  *)
(* and the model calls, are left out.  What happens while a summary is     *)
(* being generated is the subject of AgentSession.                         *)
(***************************************************************************)
EXTENDS Integers, Sequences, FiniteSets, FiniteSetsExt

CONSTANTS
  Sizes,             \* estimated tokens of a tool result; other messages have the
                     \* least of them
  KeepRecentTokens,  \* settings.keepRecentTokens
  TokenBudget,       \* context window minus reserve, for branch summaries
  MaxEntries,        \* bound on the entries of the session
  MaxAsides          \* bound on those that no agent run and no summary appends

ASSUME CompactionAssumption ==
  /\ Sizes \subseteq Nat /\ Sizes # {}
  /\ {KeepRecentTokens, TokenBudget, MaxEntries, MaxAsides} \subseteq Nat

VARIABLES
  entries,   \* the session's entries; an entry's id is its position
  leaf,      \* leafId; NoEntry at the root
  run        \* "idle", or what the running agent waits for: "model" or "tool"

vars == <<entries, leaf, run>>

NoEntry == 0
-----------------------------------------------------------------------------
(* Entries.  kind is the role of a message entry and the type of any other *)
(* one; "setting" stands for model and thinking changes, labels and custom *)
(* data, which never reach the model.                                      *)

messageRoles == {"user", "assistant", "toolResult", "bashExecution"}
asUser       == {"custom_message", "branch_summary"}
Kinds        == messageRoles \cup asUser \cup {"compaction", "setting"}

Entry == [kind : Kinds, parent : Nat, size : Nat,
          calls : BOOLEAN,            \* the assistant message calls a tool
          firstKept : Nat,            \* firstKeptEntryId of a compaction
          covers : SUBSET Nat]        \* the entries a summary was made of

Plain(kind, size) ==
  [kind |-> kind, parent |-> leaf, size |-> size, calls |-> FALSE,
   firstKept |-> NoEntry, covers |-> {}]

\* _appendEntry.
Add(e) == entries' = Append(entries, e) /\ leaf' = Len(entries) + 1

Kind(i)       == entries[i].kind
IsMessage(i)  == Kind(i) \in messageRoles
\* getMessageFromEntry of compaction.ts, for entries between two compactions.
InContext(i)  == IsMessage(i) \/ Kind(i) \in asUser

\* getBranch: the path from the root to an entry.
branchTo[i \in 0 .. Len(entries)] ==
  IF i = NoEntry THEN <<>> ELSE Append(branchTo[entries[i].parent], i)

On(path) == {path[i] : i \in DOMAIN path}

\* What an entry tells the model, directly or through a summary.
Told(S) == S \cup UNION {entries[i].covers : i \in S}
-----------------------------------------------------------------------------
(* Cut points.  Indices are positions on the path p.                       *)

\* estimateTokens over the message entries from position i on.
Tokens(p, i) ==
  MapThenSumSet(LAMBDA j : entries[p[j]].size, {j \in i .. Len(p) : IsMessage(p[j])})

\* Wrong: tool results are cut points too.
AnyCutPoint(p, start) == {i \in start .. Len(p) : InContext(p[i])}

findValidCutPoints(p, start) ==
  {i \in start .. Len(p) : InContext(p[i]) /\ Kind(p[i]) # "toolResult"}

findTurnStartIndex(p, index, start) ==
  Max({NoEntry} \cup
      {i \in start .. index : Kind(p[i]) \in asUser \cup {"user", "bashExecution"}})

\* Where the walk from the newest message backwards reaches the budget.
Reached(p, start) ==
  {i \in start .. Len(p) : IsMessage(p[i]) /\ Tokens(p, i) >= KeepRecentTokens}

\* Wrong: cuts behind the message that reaches the budget.
CutAfterReached(p, start) ==
  LET cuts  == findValidCutPoints(p, start)
      after == {c \in cuts : \A i \in Reached(p, start) : c > i}
  IN  IF Reached(p, start) # {} /\ after # {} THEN Min(after) ELSE Min(cuts)

\* The closest cut point at or after it; the first one if there is none.
CutIndex(p, start) ==
  LET cuts  == findValidCutPoints(p, start)
      after == {c \in cuts : c >= Max(Reached(p, start))}
  IN  IF Reached(p, start) # {} /\ after # {} THEN Min(after) ELSE Min(cuts)

\* The cut takes along the entries before it that are no messages.
findCutPoint(p, start) ==
  IF findValidCutPoints(p, start) = {} THEN start
  ELSE LET cut == CutIndex(p, start)
       IN  Min({i \in start .. cut : \A j \in i .. cut - 1 :
                  ~IsMessage(p[j]) /\ Kind(p[j]) # "compaction"})
-----------------------------------------------------------------------------
(* Compaction.                                                             *)

PreviousCompaction(p) ==
  Max({0} \cup {i \in DOMAIN p : Kind(p[i]) = "compaction"})

\* prepareCompaction: nothing to do on an empty path or right after a compaction.
CanCompact(p) == p # <<>> /\ Kind(p[Len(p)]) # "compaction"

\* Wrong: a split turn is cut away without a summary of its beginning.
SummaryWithoutPrefix(p) ==
  LET start == PreviousCompaction(p) + 1
      cut   == findCutPoint(p, start)
      turn  == findTurnStartIndex(p, cut, start)
      end   == IF Kind(p[cut]) # "user" /\ turn # 0 THEN turn ELSE cut
  IN  Told({p[i] : i \in {j \in start .. end - 1 : InContext(p[j])}})

\* What compact() makes its summary of.
SummaryOf(p) ==
  LET start   == PreviousCompaction(p) + 1
      cut     == findCutPoint(p, start)
      turn    == findTurnStartIndex(p, cut, start)
      isSplit == Kind(p[cut]) # "user" /\ turn # 0
      end     == IF isSplit THEN turn ELSE cut
      messagesToSummarize == {i \in start .. end - 1 : InContext(p[i])}
      turnPrefixMessages  == {i \in turn .. cut - 1 : isSplit /\ InContext(p[i])}
      previousSummary     == IF start = 1 THEN {} ELSE entries[p[start - 1]].covers
      history == Told({p[i] : i \in messagesToSummarize}) \cup previousSummary
      prefix  == Told({p[i] : i \in turnPrefixMessages})
  IN  IF turnPrefixMessages # {} /\ messagesToSummarize = {} THEN prefix
      ELSE history \cup prefix

Compact ==
  /\ run = "idle" /\ Len(entries) < MaxEntries
  /\ LET p == branchTo[leaf] IN
       /\ CanCompact(p)
       /\ Add([Plain("compaction", Min(Sizes)) EXCEPT
                 !.covers = SummaryOf(p),
                 !.firstKept = p[findCutPoint(p, PreviousCompaction(p) + 1)]])
  /\ UNCHANGED run
-----------------------------------------------------------------------------
(* Branch summaries.                                                       *)

\* Wrong: does not look for the ancestor.
AbandonedToRoot(target) == branchTo[leaf]

\* collectEntriesForBranchSummary: from the old leaf up to the deepest common ancestor.
Abandoned(target) ==
  LET p == branchTo[leaf]
      ancestor == Max({0} \cup {j \in DOMAIN p : p[j] \in On(branchTo[target])})
  IN  SubSeq(p, ancestor + 1, Len(p))

\* getMessageFromEntry of branch-summarization.ts.
Summarizable(i) == Kind(i) \notin {"toolResult", "setting"}

BranchTokens(p, i) ==
  MapThenSumSet(LAMBDA j : entries[p[j]].size, {j \in i .. Len(p) : Summarizable(p[j])})

\* The newest messages that fit; a summary that does not fit ends the walk but
\* is taken along while less than nine tenths of the budget are used.
prepareBranchEntries(p) ==
  LET over == {j \in DOMAIN p : Summarizable(p[j]) /\ BranchTokens(p, j) > TokenBudget}
      stop == Max({0} \cup over)
      extra == {j \in {stop} \ {0} :
                  /\ Kind(p[j]) \in {"compaction", "branch_summary"}
                  /\ 10 * BranchTokens(p, j + 1) < 9 * TokenBudget}
  IN  {p[i] : i \in {j \in DOMAIN p : j > stop /\ Summarizable(p[j])} \cup extra}

\* Moving to a user message puts its text into the editor and the leaf before it.
NewLeaf(target) ==
  IF Kind(target) \in {"user", "custom_message"} THEN entries[target].parent ELSE target

\* navigateTree without a summary, or with nothing to summarize.
Navigate ==
  /\ run = "idle"
  /\ \E target \in DOMAIN entries \ {leaf} : leaf' = NewLeaf(target)
  /\ UNCHANGED <<entries, run>>

\* navigateTree with a summary of the abandoned entries, at the new position.
NavigateWithSummary ==
  /\ run = "idle" /\ Len(entries) < MaxEntries
  /\ \E target \in DOMAIN entries \ {leaf} :
       /\ Abandoned(target) # <<>>
       /\ Add([Plain("branch_summary", Min(Sizes)) EXCEPT
                 !.parent = NewLeaf(target),
                 !.covers = Told(prepareBranchEntries(Abandoned(target)))])
  /\ UNCHANGED run
-----------------------------------------------------------------------------
(* The runs of the agent and the other entries.                            *)

\* A prompt, or a steering message before the next call of the model.
AppendUser ==
  /\ run \in {"idle", "model"} /\ Len(entries) < MaxEntries
  /\ Add(Plain("user", Min(Sizes)))
  /\ run' = "model"

asides == {"bashExecution", "custom_message", "setting"}
RoomForAside ==
  Len(entries) < MaxEntries /\ Cardinality({i \in DOMAIN entries : Kind(i) \in asides}) < MaxAsides

\* A bash command of the user, or a message of an extension.
AppendAside ==
  /\ run = "idle" /\ RoomForAside
  /\ \E kind \in {"bashExecution", "custom_message"} : Add(Plain(kind, Min(Sizes)))
  /\ UNCHANGED run

AppendAssistant ==
  /\ run = "model" /\ Len(entries) < MaxEntries
  /\ \E calls \in BOOLEAN :
       /\ Add([Plain("assistant", Min(Sizes)) EXCEPT !.calls = calls])
       /\ run' = IF calls THEN "tool" ELSE "idle"

AppendToolResult ==
  /\ run = "tool" /\ Len(entries) < MaxEntries
  /\ \E size \in Sizes : Add(Plain("toolResult", size))
  /\ run' = "model"

AppendSetting ==
  /\ RoomForAside
  /\ Add(Plain("setting", 0))
  /\ UNCHANGED run

\* The process dies in the middle of a run and the session is opened again.
Crash ==
  /\ run # "idle"
  /\ run' = "idle"
  /\ UNCHANGED <<entries, leaf>>

Init == entries = <<>> /\ leaf = NoEntry /\ run = "idle"

Next ==
  \/ AppendUser \/ AppendAside \/ AppendAssistant \/ AppendToolResult \/ AppendSetting \/ Crash
  \/ Compact \/ Navigate \/ NavigateWithSummary

Spec == Init /\ [][Next]_vars
-----------------------------------------------------------------------------
\* buildSessionContext: the entries the model is shown.
buildSessionContext(p) ==
  LET c == PreviousCompaction(p)
      shown == IF c = 0 THEN DOMAIN p
               ELSE {c} \cup c + 1 .. Len(p) \cup
                    {i \in 1 .. c - 1 :
                       \E j \in 1 .. i : p[j] = entries[p[c]].firstKept}
  IN  {p[i] : i \in {j \in shown : InContext(p[j]) \/ j = c}}
-----------------------------------------------------------------------------
(* Properties.                                                             *)

Path == branchTo[leaf]

\* "Never cut at tool results (they must follow their tool call)"
\* (compaction.ts:287): wherever the leaf is and whatever was compacted, a tool
\* result the model is shown is shown with the assistant message that called.
ToolResultsKeepCall ==
  LET shown == buildSessionContext(Path)
  IN  \A i \in DOMAIN Path : (Kind(Path[i]) = "toolResult" /\ Path[i] \in shown) =>
        \E j \in 1 .. i - 1 :
          /\ Path[j] \in shown /\ entries[Path[j]].calls
          /\ \A k \in j + 1 .. i - 1 : Kind(Path[k]) \notin {"assistant", "user"}

Compacts == Len(entries') > Len(entries) /\ entries'[Len(entries')].kind = "compaction"

NewCompaction == entries'[Len(entries')]

\* findCutPoint keeps "approximately keepRecentTokens" (compaction.ts:361): every
\* message since the last compaction that is within the budget is kept, tool
\* results cut off from their call excepted; if what is kept is less, nothing was
\* cut or the cut was moved past tool results; and unless the branch ends in tool
\* results over the budget, only the first message kept reaches it.
KeepsRecentMessages ==
  [][Compacts =>
       LET p     == Path
           start == PreviousCompaction(p) + 1
           cut   == CHOOSE i \in DOMAIN p : p[i] = NewCompaction.firstKept
           first == Min({Len(p) + 1} \cup {i \in cut .. Len(p) : IsMessage(p[i])})
           late  == {i \in start .. Len(p) : IsMessage(p[i]) /\ Kind(p[i]) # "toolResult"}
       IN  /\ \A i \in late : Tokens(p, i) < KeepRecentTokens => i >= cut
           /\ \/ Tokens(p, cut) >= KeepRecentTokens
              \/ \A i \in late : i >= cut
              \/ Kind(p[cut - 1]) = "toolResult"
           /\ \A i \in late : i > first /\ Tokens(p, i) >= KeepRecentTokens =>
                \A j \in late : \E k \in j .. Len(p) : Tokens(p, k) >= KeepRecentTokens
    ]_vars

\* A compaction forgets nothing that came after the one before it: what is cut
\* is in the summary, whole turns and the beginning of a split turn alike, and
\* nothing that is kept is in the summary as well.
CompactionCoversWhatItCuts ==
  [][Compacts =>
       LET p     == Path
           start == PreviousCompaction(p) + 1
           new   == {p[i] : i \in {j \in start .. Len(p) : InContext(p[j])}}
           kept  == {i \in new : i >= NewCompaction.firstKept}
       IN  /\ new \subseteq kept \cup NewCompaction.covers
           /\ kept \cap NewCompaction.covers = {}
    ]_vars

\* A summary of a branch that fits the budget tells everything that is left
\* behind: what the model was shown and is shown no more, except the message that
\* goes to the editor and tool results, which their calls stand for.
BranchSummaryTellsWhatIsLeft ==
  [][(Len(entries') > Len(entries) /\ entries'[Len(entries')].kind = "branch_summary") =>
       LET new  == entries'[Len(entries')]
           gone == On(Path) \ On(branchTo[new.parent])
       IN  /\ new.covers \subseteq Told(gone)
           /\ \E target \in DOMAIN entries :
                /\ NewLeaf(target) = new.parent
                /\ BranchTokens(Path, 1) <= TokenBudget =>
                     {i \in gone \ {target} : Summarizable(i)} \subseteq new.covers
    ]_vars

\* "Compaction summarizes older messages while keeping recent ones"
\* (README.md:222 of coding-agent): on the current branch, every message is
\* shown to the model or part of a summary that is.  It does not hold.
NothingForgotten ==
  {i \in On(Path) : InContext(i)} \subseteq Told(buildSessionContext(Path))
=============================================================================
