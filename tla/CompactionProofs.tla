--------------------------- MODULE CompactionProofs ---------------------------
(***************************************************************************)
(* Proofs about Compaction for sessions of every length, messages of every *)
(* size and every budget: a compaction forgets nothing that came after the *)
(* one before it, what the model is told never holds a tool result without *)
(* the call it answers, recent messages are kept, and a branch summary     *)
(* tells what is left behind.                                              *)
(*                                                                         *)
(* The path to an entry is a recursive function over the tree.  What it is *)
(* follows from the tree's being well-founded: of the entries for which a  *)
(* fact failed there would be a least one.                                 *)
(***************************************************************************)
EXTENDS Compaction, FiniteSetTheorems, TLAPS

(* A set of natural numbers that is not empty has a least element.         *)
LEMMA LeastExists ==
  ASSUME NEW T \in SUBSET Nat, T # {}
  PROVE  \E i \in T : \A j \in T : i <= j
<1>. DEFINE R == OpToRel(<, Nat)
<1>1. \E i \in T : \A j \in T : ~ (<<j, i>> \in R)
  BY NatLessThanWellFounded, WFMin, Zenon
<1>2. \A i, j \in Nat : <<j, i>> \in R <=> j < i
  BY DEF OpToRel
<1>. HIDE DEF R
<1>3. PICK i \in T : \A j \in T : ~ (<<j, i>> \in R)
  BY <1>1
<1>4. ASSUME NEW j \in T PROVE i <= j
  <2>1. i \in Nat /\ j \in Nat /\ ~ (j < i)
    BY <1>2, <1>3
  <2>. QED
    BY <2>1
<1>. QED
  BY <1>4

(* Min is defined by choice; there is something to choose.                 *)
LEMMA MinKnown ==
  ASSUME NEW S \in SUBSET Nat, S # {}
  PROVE  Min(S) \in S /\ \A y \in S : Min(S) <= y
  BY LeastExists DEF Min

(* A bounded set of natural numbers has a greatest element.                *)
LEMMA MaxKnown ==
  ASSUME NEW n \in Nat, NEW S \in SUBSET (0 .. n), S # {}
  PROVE  Max(S) \in S /\ \A y \in S : y <= Max(S)
<1>. DEFINE T == {n - x : x \in S}
<1>1. T \in SUBSET Nat /\ T # {}
  <2>1. \A x \in S : n - x \in Nat
    OBVIOUS
  <2>. QED
    BY <2>1
<1>2. PICK i \in T : \A j \in T : i <= j
  BY <1>1, LeastExists
<1>3. PICK x \in S : i = n - x
  BY <1>2
<1>4. ASSUME NEW y \in S PROVE x >= y
  <2>1. n - y \in T /\ i <= n - y
    BY <1>2
  <2>. QED
    BY <1>3, <2>1
<1>. QED
  BY <1>3, <1>4 DEF Max

(* A sequence over a set is one over every larger set.                     *)
LEMMA SeqMonotone ==
  ASSUME NEW A, NEW B, A \subseteq B, NEW s \in Seq(A)
  PROVE  s \in Seq(B)
<1>1. Len(s) \in Nat /\ s \in [1 .. Len(s) -> A]
  OBVIOUS
<1>2. s \in [1 .. Len(s) -> B]
  BY <1>1
<1>. QED
  BY <1>1, <1>2

\* Parents and what a summary covers come before.
TreeInv ==
  /\ entries \in Seq(Entry) /\ leaf \in 0 .. Len(entries)
  /\ \A i \in 1 .. Len(entries) :
       entries[i].parent < i /\ entries[i].covers \subseteq 1 .. i - 1

(* The path of every entry is defined by that of its parent.               *)
LEMMA BranchDefined ==
  ASSUME TreeInv
  PROVE  branchTo = [i \in 0 .. Len(entries) |->
                       IF i = NoEntry THEN <<>> ELSE Append(branchTo[entries[i].parent], i)]
<1>. DEFINE Defines(f, m) == f = [i \in 0 .. m |->
                               IF i = 0 THEN <<>> ELSE Append(f[entries[i].parent], i)]
            T == {m \in 0 .. Len(entries) : ~ \E f : Defines(f, m)}
<1>1. Len(entries) \in Nat /\ \A i \in 1 .. Len(entries) :
        entries[i].parent \in Nat /\ entries[i].parent < i
  <2>1. entries \in Seq(Entry)
    BY DEF TreeInv
  <2>2. \A i \in 1 .. Len(entries) : entries[i] \in Entry
    BY <2>1
  <2>. QED
    BY <2>1, <2>2 DEF TreeInv, Entry
<1>2. ASSUME T # {} PROVE FALSE
  <2>0. T \in SUBSET Nat
    BY <1>1
  <2>. HIDE DEF T
  <2>1. PICK m \in T : \A j \in T : m <= j
    BY <1>2, <2>0, LeastExists
  <2>. USE DEF T
  <2>2. CASE m = 0
    <3>1. Defines([i \in 0 .. 0 |-> <<>>], 0)
      OBVIOUS
    <3>. QED
      BY <2>1, <2>2, <3>1
  <2>3. CASE m # 0
    <3>1. m - 1 \in 0 .. Len(entries) /\ ~ (m <= m - 1)
      BY <1>1, <2>1, <2>3
    <3>2. PICK f : Defines(f, m - 1)
      BY <2>1, <3>1
    <3>. DEFINE g == [i \in 0 .. m |-> IF i = m THEN Append(f[entries[m].parent], m) ELSE f[i]]
    <3>3. \A i \in 0 .. m : g[i] = IF i = 0 THEN <<>> ELSE Append(g[entries[i].parent], i)
      <4>. SUFFICES ASSUME NEW i \in 0 .. m
                    PROVE  g[i] = IF i = 0 THEN <<>> ELSE Append(g[entries[i].parent], i)
        OBVIOUS
      <4>1. CASE i = 0
        <5>1. m \in Nat /\ i \in 0 .. m - 1
          BY <1>1, <2>1, <2>3, <4>1
        <5>2. g[i] = f[i]
          BY <2>3, <4>1
        <5>3. f[i] = <<>>
          BY <3>2, <4>1, <5>1
        <5>. HIDE DEF g
        <5>. QED
          BY <4>1, <5>2, <5>3
      <4>2. CASE i # 0
        <5>1. /\ entries[i].parent \in 0 .. m - 1 /\ g[entries[i].parent] = f[entries[i].parent]
          <6>1. i \in 1 .. Len(entries) /\ m \in Nat /\ i <= m
            BY <1>1, <2>1, <4>2
          <6>2. entries[i].parent \in Nat /\ entries[i].parent < i
            BY <1>1, <6>1
          <6>3. entries[i].parent \in 0 .. m /\ entries[i].parent # m
            BY <6>1, <6>2
          <6>. QED
            BY <6>1, <6>2, <6>3
        <5>2. CASE i = m
          <6>1. g[i] = Append(f[entries[i].parent], i)
            BY <5>2
          <6>. HIDE DEF g
          <6>. QED
            BY <4>2, <5>1, <6>1
        <5>3. CASE i # m
          <6>1. i \in 0 .. m - 1 /\ g[i] = f[i]
            BY <2>1, <5>3
          <6>. QED
            BY <3>2, <4>2, <5>1, <6>1
        <5>. QED
          BY <5>2, <5>3
      <4>. QED
        BY <4>1, <4>2
    <3>4. Defines(g, m)
      BY <3>3
    <3>. QED
      BY <2>1, <3>4
  <2>. QED
    BY <2>2, <2>3
<1>3. \E f : Defines(f, Len(entries))
  BY <1>1, <1>2
<1>4. \E f : f = [i \in 0 .. Len(entries) |->
                    IF i = NoEntry THEN <<>> ELSE Append(f[entries[i].parent], i)]
  BY <1>3 DEF NoEntry
<1>. QED
  BY <1>4 DEF branchTo

\* Entries on the path in the order in which they were appended.
Increasing(p, n) ==
  /\ p \in Seq(1 .. n)
  /\ \A i, j \in 1 .. Len(p) : i < j => p[i] < p[j]

(* A path grows by a newer entry.                                          *)
LEMMA AppendIncreasing ==
  ASSUME NEW k \in Nat, NEW m \in Nat, k < m, NEW q, Increasing(q, k)
  PROVE  Increasing(Append(q, m), m)
<1>1. q \in Seq(1 .. k) /\ \A i, j \in 1 .. Len(q) : i < j => q[i] < q[j]
  BY DEF Increasing
<1>2. \A x \in 1 .. k : x \in 1 .. m /\ x < m
  OBVIOUS
<1>3. m \in 1 .. m /\ Len(q) \in Nat
  BY <1>1
<1>4. \A i \in 1 .. Len(q) : q[i] \in 1 .. k
  BY <1>1
<1>5. q \in Seq(1 .. m)
  BY <1>1, <1>2, <1>4
<1>6. /\ Append(q, m) \in Seq(1 .. m) /\ Len(Append(q, m)) = Len(q) + 1
      /\ Append(q, m)[Len(q) + 1] = m
      /\ \A i \in 1 .. Len(q) : Append(q, m)[i] = q[i]
  BY <1>3, <1>5
<1>7. \A i \in 1 .. Len(q) + 1 : i \in 1 .. Len(q) \/ i = Len(q) + 1
  BY <1>3
<1>8. ASSUME NEW i \in 1 .. Len(q) + 1, NEW j \in 1 .. Len(q) + 1, i < j
      PROVE  Append(q, m)[i] < Append(q, m)[j]
  <2>1. i \in 1 .. Len(q)
    BY <1>3, <1>8
  <2>2. CASE j = Len(q) + 1
    BY <1>2, <1>4, <1>6, <2>1, <2>2
  <2>3. CASE j \in 1 .. Len(q)
    BY <1>1, <1>6, <1>8, <2>1, <2>3
  <2>. QED
    BY <1>7, <2>2, <2>3
<1>. QED
  BY <1>6, <1>8 DEF Increasing

(* A path to an entry holds older entries, in the order of their age.      *)
LEMMA PathKnown ==
  ASSUME TreeInv, NEW leafs, leafs = 0 .. Len(entries)
  PROVE  \A i \in leafs : Increasing(branchTo[i], i)
<1>. DEFINE T == {i \in leafs : ~ Increasing(branchTo[i], i)}
<1>1. Len(entries) \in Nat /\ \A i \in 1 .. Len(entries) :
        entries[i].parent \in Nat /\ entries[i].parent < i
  <2>1. entries \in Seq(Entry)
    BY DEF TreeInv
  <2>2. \A i \in 1 .. Len(entries) : entries[i] \in Entry
    BY <2>1
  <2>. QED
    BY <2>1, <2>2 DEF TreeInv, Entry
<1>2. \A i \in leafs : branchTo[i] = IF i = 0 THEN <<>> ELSE Append(branchTo[entries[i].parent], i)
  BY BranchDefined DEF NoEntry
<1>3. ASSUME T # {} PROVE FALSE
  <2>0. T \in SUBSET Nat
    BY <1>1
  <2>1. PICK m \in T : \A j \in T : m <= j
    <3>. HIDE DEF T
    <3>. QED
      BY <1>3, <2>0, LeastExists
  <2>2. CASE m = 0
    <3>1. branchTo[0] = <<>>
      BY <1>1, <1>2
    <3>2. Increasing(<<>>, 0)
      BY DEF Increasing
    <3>. QED
      BY <2>1, <2>2, <3>1, <3>2
  <2>3. CASE m # 0
    <3>. DEFINE k == entries[m].parent
    <3>1. m \in Nat /\ m \in leafs /\ k \in Nat /\ k < m /\ k \in leafs
      BY <1>1, <2>1, <2>3
    <3>2. ~ (m <= k)
      BY <3>1
    <3>3. Increasing(branchTo[k], k)
      BY <2>1, <3>1, <3>2
    <3>4. branchTo[m] = Append(branchTo[k], m)
      BY <1>2, <2>3, <3>1
    <3>5. Increasing(Append(branchTo[k], m), m)
      BY <3>1, <3>3, AppendIncreasing
    <3>. QED
      BY <2>1, <3>3, <3>4, <3>5
  <2>. QED
    BY <2>2, <2>3
<1>. QED
  BY <1>3

(* The newest compaction of a path, which is not its last entry.           *)
LEMMA PreviousKnown ==
  ASSUME NEW n \in Nat, NEW p \in Seq(1 .. n)
  PROVE  /\ PreviousCompaction(p) \in 0 .. Len(p)
         /\ CanCompact(p) => PreviousCompaction(p) < Len(p)
<1>. DEFINE S == {0} \cup {i \in DOMAIN p : Kind(p[i]) = "compaction"}
<1>1. Len(p) \in Nat /\ DOMAIN p = 1 .. Len(p)
  OBVIOUS
<1>2. S \in SUBSET (0 .. Len(p)) /\ 0 \in S
  BY <1>1
<1>3. Max(S) \in S
  <2>. HIDE DEF S
  <2>. QED
    BY <1>1, <1>2, MaxKnown
<1>4. PreviousCompaction(p) = Max(S)
  BY DEF PreviousCompaction
<1>5. CanCompact(p) => Len(p) \notin S
  BY <1>1 DEF CanCompact
<1>. QED
  BY <1>1, <1>2, <1>3, <1>4, <1>5

(* The cut lies between the previous compaction and the end of the path.   *)
LEMMA CutKnown ==
  ASSUME NEW n \in Nat, NEW p \in Seq(1 .. n), NEW start \in 1 .. Len(p)
  PROVE  findCutPoint(p, start) \in start .. Len(p)
<1>. DEFINE cuts == findValidCutPoints(p, start)
            after == {c \in cuts : c >= Max(Reached(p, start))}
            cut == CutIndex(p, start)
            back == {i \in start .. cut : \A j \in i .. cut - 1 :
                       ~IsMessage(p[j]) /\ Kind(p[j]) # "compaction"}
<1>1. Len(p) \in Nat /\ cuts \in SUBSET (start .. Len(p)) /\ cuts \in SUBSET Nat
  BY DEF findValidCutPoints
<1>2. CASE cuts = {}
  BY <1>1, <1>2 DEF findCutPoint
<1>3. CASE cuts # {}
  <2>1. after \in SUBSET cuts /\ after \in SUBSET Nat
    BY <1>1
  <2>2. cut = (IF Reached(p, start) # {} /\ after # {} THEN Min(after) ELSE Min(cuts))
    BY DEF CutIndex
  <2>. HIDE DEF cuts, after, cut
  <2>3. cut \in cuts
    BY <1>1, <1>3, <2>1, <2>2, MinKnown
  <2>4. back \in SUBSET Nat /\ cut \in back
    BY <1>1, <2>3
  <2>5. back \in SUBSET (start .. Len(p))
    BY <1>1, <2>3
  <2>6. findCutPoint(p, start) = Min(back)
    BY <1>3 DEF findCutPoint, cuts, cut
  <2>. HIDE DEF back
  <2>. QED
    BY <2>4, <2>5, <2>6, MinKnown
<1>. QED
  BY <1>2, <1>3

(* What is summarized is older than what is kept, and all that comes after *)
(* the previous compaction and before the cut is summarized.               *)
LEMMA SummaryKnown ==
  ASSUME TreeInv, NEW p, p = branchTo[leaf], CanCompact(p),
         NEW start, start = PreviousCompaction(p) + 1,
         NEW cut, cut = findCutPoint(p, start)
  PROVE  /\ Increasing(p, Len(entries)) /\ Len(entries) \in Nat
         /\ start \in 1 .. Len(p) /\ cut \in start .. Len(p)
         /\ SummaryOf(p) \subseteq 1 .. p[cut] - 1
         /\ \A j \in start .. cut - 1 : InContext(p[j]) => p[j] \in SummaryOf(p)
<1>. DEFINE turn == findTurnStartIndex(p, cut, start)
            isSplit == Kind(p[cut]) # "user" /\ turn # 0
            end == IF isSplit THEN turn ELSE cut
            body == {i \in start .. end - 1 : InContext(p[i])}
            begin == {i \in turn .. cut - 1 : isSplit /\ InContext(p[i])}
            previous == IF start = 1 THEN {} ELSE entries[p[start - 1]].covers
            history == Told({p[i] : i \in body}) \cup previous
            prefix == Told({p[i] : i \in begin})
<1>1. Len(entries) \in Nat /\ leaf \in 0 .. Len(entries)
  BY DEF TreeInv
<1>2. Increasing(p, leaf)
  BY <1>1, PathKnown
<1>3. /\ p \in Seq(1 .. Len(entries)) /\ Len(p) \in Nat
      /\ \A i, j \in 1 .. Len(p) : i < j => p[i] < p[j]
  <2>1. p \in Seq(1 .. leaf) /\ 1 .. leaf \subseteq 1 .. Len(entries)
    BY <1>1, <1>2 DEF Increasing
  <2>2. p \in Seq(1 .. Len(entries))
    BY <2>1, SeqMonotone
  <2>. QED
    BY <1>2, <2>2 DEF Increasing
<1>4. start \in 1 .. Len(p) /\ cut \in start .. Len(p)
  BY <1>1, <1>3, PreviousKnown, CutKnown
<1>5. turn \in {0} \cup start .. cut
  <2>. DEFINE S == {NoEntry} \cup
                     {i \in start .. cut : Kind(p[i]) \in asUser \cup {"user", "bashExecution"}}
  <2>1. S \in SUBSET (0 .. Len(p)) /\ S \subseteq {0} \cup start .. cut /\ S # {}
    BY <1>3, <1>4 DEF NoEntry
  <2>2. turn = Max(S)
    BY DEF findTurnStartIndex
  <2>. HIDE DEF S
  <2>. QED
    BY <1>3, <2>1, <2>2, MaxKnown
<1>6. SummaryOf(p) = IF begin # {} /\ body = {} THEN prefix ELSE history \cup prefix
  BY DEF SummaryOf
<1>. HIDE DEF turn
<1>7. body \subseteq 1 .. cut - 1 /\ begin \subseteq 1 .. cut - 1
  BY <1>3, <1>4, <1>5
<1>8. ASSUME NEW i \in 1 .. cut - 1
      PROVE  p[i] \in 1 .. p[cut] - 1 /\ entries[p[i]].covers \subseteq 1 .. p[cut] - 1
  <2>1. i \in 1 .. Len(p) /\ cut \in 1 .. Len(p) /\ i < cut
    BY <1>3, <1>4
  <2>2. p[i] < p[cut] /\ p[i] \in 1 .. Len(entries) /\ p[cut] \in 1 .. Len(entries)
    BY <1>3, <2>1
  <2>3. entries[p[i]].covers \subseteq 1 .. p[i] - 1
    BY <2>2 DEF TreeInv
  <2>. QED
    BY <1>1, <2>2, <2>3
<1>9. ASSUME NEW I \in SUBSET (1 .. cut - 1)
      PROVE  Told({p[i] : i \in I}) \subseteq 1 .. p[cut] - 1
  BY <1>8 DEF Told
<1>10. previous \subseteq 1 .. p[cut] - 1
  <2>1. CASE start = 1
    BY <2>1
  <2>2. CASE start # 1
    <3>1. start - 1 \in 1 .. cut - 1
      BY <1>3, <1>4, <2>2
    <3>. QED
      BY <1>8, <2>2, <3>1
  <2>. QED
    BY <2>1, <2>2
<1>11. SummaryOf(p) \subseteq 1 .. p[cut] - 1
  <2>. HIDE DEF body, begin, previous
  <2>. QED
    BY <1>6, <1>7, <1>9, <1>10
<1>12. ASSUME NEW j \in start .. cut - 1, InContext(p[j])
       PROVE  p[j] \in SummaryOf(p)
  <2>1. j \in body \/ j \in begin
    BY <1>3, <1>4, <1>5, <1>12
  <2>2. j \in body => p[j] \in history
    BY DEF Told
  <2>3. j \in begin => p[j] \in prefix
    BY DEF Told
  <2>. HIDE DEF body, begin, history, prefix
  <2>. QED
    BY <1>6, <2>1, <2>2, <2>3
<1>. QED
  BY <1>1, <1>3, <1>4, <1>11, <1>12 DEF Increasing

(* A branch summary is made of entries there are.                          *)
LEMMA BranchKnown ==
  ASSUME TreeInv, NEW target \in 1 .. Len(entries)
  PROVE  /\ Told(prepareBranchEntries(Abandoned(target))) \subseteq 1 .. Len(entries)
         /\ NewLeaf(target) \in 0 .. Len(entries)
<1>1. /\ Len(entries) \in Nat /\ leaf \in 0 .. Len(entries) /\ entries \in Seq(Entry)
      /\ \A i \in 1 .. Len(entries) :
           /\ entries[i].parent \in Nat /\ entries[i].parent < i
           /\ entries[i].covers \subseteq 1 .. i - 1
  <2>1. entries \in Seq(Entry) /\ leaf \in 0 .. Len(entries)
    BY DEF TreeInv
  <2>2. \A i \in 1 .. Len(entries) : entries[i] \in Entry
    BY <2>1
  <2>. QED
    BY <2>1, <2>2 DEF TreeInv, Entry
<1>. DEFINE p == branchTo[leaf]
            S == {0} \cup {j \in DOMAIN p : p[j] \in On(branchTo[target])}
            q == Abandoned(target)
<1>2. p \in Seq(1 .. Len(entries)) /\ Len(p) \in Nat
  <2>1. p \in Seq(1 .. leaf) /\ 1 .. leaf \subseteq 1 .. Len(entries)
    BY <1>1, PathKnown DEF Increasing
  <2>2. p \in Seq(1 .. Len(entries))
    BY <2>1, SeqMonotone
  <2>. QED
    BY <2>2
<1>3. S \in SUBSET (0 .. Len(p)) /\ S # {}
  BY <1>2
<1>4. Max(S) \in 0 .. Len(p)
  <2>. HIDE DEF S, p
  <2>. QED
    BY <1>2, <1>3, MaxKnown
<1>5. q = SubSeq(p, Max(S) + 1, Len(p))
  BY DEF Abandoned
<1>. HIDE DEF p, S, q
<1>6. q \in Seq(1 .. Len(entries))
  BY <1>2, <1>4, <1>5
<1>7. prepareBranchEntries(q) \subseteq 1 .. Len(entries)
  <2>. DEFINE over == {j \in DOMAIN q : Summarizable(q[j]) /\ BranchTokens(q, j) > TokenBudget}
              stop == Max({0} \cup over)
              extra == {j \in {stop} \ {0} :
                          /\ Kind(q[j]) \in {"compaction", "branch_summary"}
                          /\ 10 * BranchTokens(q, j + 1) < 9 * TokenBudget}
  <2>1. Len(q) \in Nat /\ DOMAIN q = 1 .. Len(q) /\ \A i \in DOMAIN q : q[i] \in 1 .. Len(entries)
    BY <1>6
  <2>2. {0} \cup over \in SUBSET (0 .. Len(q)) /\ {0} \cup over # {}
    BY <2>1
  <2>3. stop \in {0} \cup over
    <3>. HIDE DEF over
    <3>. QED
      BY <2>1, <2>2, MaxKnown
  <2>4. extra \subseteq DOMAIN q
    BY <2>3
  <2>5. prepareBranchEntries(q) =
          {q[i] : i \in {j \in DOMAIN q : j > stop /\ Summarizable(q[j])} \cup extra}
    BY DEF prepareBranchEntries
  <2>. HIDE DEF extra
  <2>. QED
    BY <2>1, <2>4, <2>5
<1>8. ASSUME NEW T \in SUBSET (1 .. Len(entries)) PROVE Told(T) \subseteq 1 .. Len(entries)
  <2>1. \A i \in T : entries[i].covers \subseteq 1 .. Len(entries)
    BY <1>1
  <2>. QED
    BY <2>1 DEF Told
<1>9. NewLeaf(target) \in 0 .. Len(entries)
  BY <1>1 DEF NewLeaf
<1>. QED
  BY <1>7, <1>8, <1>9 DEF q

(* A new entry that refers to older ones keeps the tree a tree.            *)
LEMMA AddKeeps ==
  ASSUME TreeInv, NEW e \in Entry, Add(e),
         e.parent \in 0 .. Len(entries), e.covers \subseteq 1 .. Len(entries)
  PROVE  TreeInv'
<1>. DEFINE n == Len(entries)
<1>1. entries \in Seq(Entry) /\ n \in Nat
  BY DEF TreeInv
<1>2. entries' = Append(entries, e) /\ leaf' = n + 1
  BY DEF Add
<1>3. /\ entries' \in Seq(Entry) /\ Len(entries') = n + 1 /\ entries'[n + 1] = e
      /\ \A i \in 1 .. n : entries'[i] = entries[i]
  BY <1>1, <1>2
<1>4. leaf' \in 0 .. Len(entries')
  BY <1>1, <1>2, <1>3
<1>5. ASSUME NEW i \in 1 .. Len(entries')
      PROVE  entries'[i].parent < i /\ entries'[i].covers \subseteq 1 .. i - 1
  <2>1. CASE i \in 1 .. n
    BY <1>3, <2>1 DEF TreeInv
  <2>2. CASE i = n + 1
    <3>1. e.parent < i /\ 1 .. n = 1 .. i - 1
      BY <1>1, <2>2
    <3>. QED
      BY <1>3, <2>2, <3>1
  <2>. QED
    BY <1>1, <1>3, <2>1, <2>2
<1>. QED
  BY <1>3, <1>4, <1>5 DEF TreeInv

(* What Plain makes is an entry at the leaf.                               *)
LEMMA PlainKnown ==
  ASSUME TreeInv, NEW kind \in Kinds, NEW size \in Nat
  PROVE  /\ Plain(kind, size) \in Entry
         /\ Plain(kind, size).parent \in 0 .. Len(entries)
         /\ Plain(kind, size).covers \subseteq 1 .. Len(entries)
         /\ Plain(kind, size).kind = kind
<1>1. leaf \in 0 .. Len(entries) /\ leaf \in Nat
  BY DEF TreeInv
<1>. QED
  BY <1>1 DEF Plain, Entry, NoEntry

(* The size of the messages that are no tool results.                      *)
LEMMA LeastSize == Min(Sizes) \in Nat
  BY CompactionAssumption, MinKnown

\* The entry that a compaction appends.
compactionEntry ==
  LET p == branchTo[leaf]
  IN  [Plain("compaction", Min(Sizes)) EXCEPT
         !.covers = SummaryOf(p),
         !.firstKept = p[findCutPoint(p, PreviousCompaction(p) + 1)]]

(* A compaction is an entry made of older ones.                            *)
LEMMA CompactKnown ==
  ASSUME TreeInv, NEW p, p = branchTo[leaf], CanCompact(p)
  PROVE  /\ compactionEntry \in Entry
         /\ compactionEntry.parent \in 0 .. Len(entries)
         /\ compactionEntry.covers = SummaryOf(p) /\ SummaryOf(p) \subseteq 1 .. Len(entries)
         /\ compactionEntry.firstKept = p[findCutPoint(p, PreviousCompaction(p) + 1)]
<1>. DEFINE start == PreviousCompaction(p) + 1
            cut == findCutPoint(p, start)
            plain == Plain("compaction", Min(Sizes))
<1>1. plain \in Entry /\ plain.parent \in 0 .. Len(entries)
  BY LeastSize, PlainKnown DEF Kinds
<1>2. /\ Increasing(p, Len(entries)) /\ Len(entries) \in Nat
      /\ start \in 1 .. Len(p) /\ cut \in start .. Len(p)
      /\ SummaryOf(p) \subseteq 1 .. p[cut] - 1
  BY SummaryKnown
<1>3. p[cut] \in 1 .. Len(entries)
  <2>1. p \in Seq(1 .. Len(entries)) /\ cut \in 1 .. Len(p)
    BY <1>2 DEF Increasing
  <2>. QED
    BY <2>1
<1>. HIDE DEF plain, cut, start
<1>4. SummaryOf(p) \subseteq 1 .. Len(entries) /\ SummaryOf(p) \in SUBSET Nat /\ p[cut] \in Nat
  BY <1>2, <1>3
<1>5. compactionEntry = [plain EXCEPT !.covers = SummaryOf(p), !.firstKept = p[cut]]
  BY DEF compactionEntry, plain, cut, start
<1>6. p[cut] = p[findCutPoint(p, PreviousCompaction(p) + 1)]
  BY DEF cut, start
<1>. QED
  BY <1>1, <1>4, <1>5, <1>6 DEF Entry

(* Entries only refer to older ones.                                       *)
THEOREM TreeIsKept == Spec => []TreeInv
<1>1. Init => TreeInv
  BY DEF Init, TreeInv, NoEntry
<1>2. TreeInv /\ [Next]_vars => TreeInv'
  <2>. SUFFICES ASSUME TreeInv, [Next]_vars PROVE TreeInv'
    OBVIOUS
  <2>0. Min(Sizes) \in Nat /\ \A size \in Sizes : size \in Nat
    BY LeastSize, CompactionAssumption
  <2>1. ASSUME NEW kind \in Kinds, NEW size \in Nat, Add(Plain(kind, size)) PROVE TreeInv'
    BY <2>1, AddKeeps, PlainKnown
  <2>2. CASE AppendUser
    BY <2>0, <2>1, <2>2 DEF AppendUser, Kinds, messageRoles
  <2>3. CASE AppendAside
    BY <2>0, <2>1, <2>3 DEF AppendAside, Kinds, messageRoles, asUser
  <2>4. CASE AppendAssistant
    <3>1. PICK calls \in BOOLEAN : Add([Plain("assistant", Min(Sizes)) EXCEPT !.calls = calls])
      BY <2>4 DEF AppendAssistant
    <3>. DEFINE plain == Plain("assistant", Min(Sizes))
                e == [plain EXCEPT !.calls = calls]
    <3>2. /\ plain \in Entry /\ plain.parent \in 0 .. Len(entries)
          /\ plain.covers \subseteq 1 .. Len(entries)
      BY <2>0, PlainKnown DEF Kinds, messageRoles
    <3>. HIDE DEF plain
    <3>3. e \in Entry /\ e.parent = plain.parent /\ e.covers = plain.covers
      BY <3>2 DEF Entry
    <3>4. Add(e)
      BY <3>1 DEF plain
    <3>. QED
      BY <3>2, <3>3, <3>4, AddKeeps
  <2>5. CASE AppendToolResult
    BY <2>0, <2>1, <2>5 DEF AppendToolResult, Kinds, messageRoles
  <2>6. CASE AppendSetting
    BY <2>1, <2>6 DEF AppendSetting, Kinds
  <2>7. CASE Crash
    BY <2>7 DEF Crash, TreeInv
  <2>8. CASE Compact
    <3>1. CanCompact(branchTo[leaf]) /\ Add(compactionEntry)
      BY <2>8 DEF Compact, compactionEntry
    <3>. QED
      BY <3>1, CompactKnown, AddKeeps
  <2>9. CASE Navigate
    <3>1. PICK target \in 1 .. Len(entries) : leaf' = NewLeaf(target)
      BY <2>9 DEF Navigate, TreeInv
    <3>2. leaf' \in 0 .. Len(entries) /\ entries' = entries
      BY <2>9, <3>1, BranchKnown DEF Navigate
    <3>. QED
      BY <3>2 DEF TreeInv
  <2>10. CASE NavigateWithSummary
    <3>. DEFINE plain == Plain("branch_summary", Min(Sizes))
                e(t) == [plain EXCEPT !.parent = NewLeaf(t),
                                      !.covers = Told(prepareBranchEntries(Abandoned(t)))]
    <3>0. entries \in Seq(Entry) /\ DOMAIN entries = 1 .. Len(entries)
      BY DEF TreeInv
    <3>1. PICK target \in 1 .. Len(entries) : Add(e(target))
      <4>. HIDE DEF plain
      <4>1. \E target \in DOMAIN entries \ {leaf} : Add(e(target))
        BY <2>10 DEF NavigateWithSummary, plain
      <4>. QED
        BY <3>0, <4>1
    <3>2. plain \in Entry
      BY <2>0, PlainKnown DEF Kinds, asUser
    <3>3. /\ Told(prepareBranchEntries(Abandoned(target))) \subseteq 1 .. Len(entries)
          /\ NewLeaf(target) \in 0 .. Len(entries)
      BY BranchKnown
    <3>. HIDE DEF plain
    <3>4. /\ e(target) \in Entry /\ e(target).parent = NewLeaf(target)
          /\ e(target).covers = Told(prepareBranchEntries(Abandoned(target)))
      <4>1. Told(prepareBranchEntries(Abandoned(target))) \in SUBSET Nat /\ NewLeaf(target) \in Nat
        BY <3>3
      <4>. QED
        BY <3>2, <4>1 DEF Entry
    <3>. HIDE DEF e
    <3>. QED
      BY <3>1, <3>3, <3>4, AddKeeps
  <2>11. CASE UNCHANGED vars
    BY <2>11 DEF vars, TreeInv
  <2>. QED
    BY <2>2, <2>3, <2>4, <2>5, <2>6, <2>7, <2>8, <2>9, <2>10, <2>11 DEF Next
<1>. QED
  BY <1>1, <1>2, PTL DEF Spec

(* Only Compact appends a compaction.                                      *)
LEMMA OnlyCompact ==
  ASSUME TreeInv, [Next]_vars, Compacts
  PROVE  CanCompact(branchTo[leaf]) /\ Add(compactionEntry)
<1>1. entries \in Seq(Entry) /\ Len(entries) \in Nat
  BY DEF TreeInv
<1>2. ASSUME NEW e, Add(e) PROVE e.kind = "compaction"
  <2>1. entries' = Append(entries, e) /\ Len(entries') = Len(entries) + 1
    BY <1>1, <1>2 DEF Add
  <2>2. entries'[Len(entries')] = e
    BY <1>1, <2>1
  <2>. QED
    BY <2>2 DEF Compacts
<1>3. ASSUME entries' = entries PROVE FALSE
  BY <1>1, <1>3 DEF Compacts
<1>4. ASSUME NEW kind, NEW size PROVE Plain(kind, size).kind = kind
  BY DEF Plain
<1>5. ~ AppendUser
  BY <1>2, <1>4 DEF AppendUser
<1>6. ~ AppendAside
  BY <1>2, <1>4 DEF AppendAside
<1>7. ~ AppendAssistant
  <2>1. \A calls \in BOOLEAN : [Plain("assistant", Min(Sizes)) EXCEPT !.calls = calls].kind = "assistant"
    BY DEF Plain
  <2>. QED
    BY <1>2, <2>1 DEF AppendAssistant
<1>8. ~ AppendToolResult
  BY <1>2, <1>4 DEF AppendToolResult
<1>9. ~ AppendSetting
  BY <1>2, <1>4 DEF AppendSetting
<1>10. ~ Crash /\ ~ Navigate /\ ~ UNCHANGED vars
  BY <1>3 DEF Crash, Navigate, vars
<1>11. ~ NavigateWithSummary
  <2>1. \A parent, covers :
          [Plain("branch_summary", Min(Sizes)) EXCEPT !.parent = parent, !.covers = covers].kind
          = "branch_summary"
    BY DEF Plain
  <2>. QED
    BY <1>2, <2>1 DEF NavigateWithSummary
<1>12. Compact
  BY <1>5, <1>6, <1>7, <1>8, <1>9, <1>10, <1>11 DEF Next
<1>. QED
  BY <1>12 DEF Compact, compactionEntry

(* A compaction summarizes all that it cuts since the one before it, and   *)
(* nothing that it keeps.                                                  *)
THEOREM NothingCutIsForgotten == Spec => CompactionCoversWhatItCuts
<1>. DEFINE Covers == Compacts =>
       LET p     == Path
           start == PreviousCompaction(p) + 1
           new   == {p[i] : i \in {j \in start .. Len(p) : InContext(p[j])}}
           kept  == {i \in new : i >= NewCompaction.firstKept}
       IN  /\ new \subseteq kept \cup NewCompaction.covers
           /\ kept \cap NewCompaction.covers = {}
<1>1. TreeInv /\ [Next]_vars => Covers
  <2>. SUFFICES ASSUME TreeInv, [Next]_vars, Compacts PROVE Covers
    OBVIOUS
  <2>. DEFINE p == Path
              start == PreviousCompaction(p) + 1
              cut == findCutPoint(p, start)
              new == {p[i] : i \in {j \in start .. Len(p) : InContext(p[j])}}
  <2>1. CanCompact(p) /\ Add(compactionEntry) /\ p = branchTo[leaf]
    BY OnlyCompact DEF Path
  <2>2. /\ Increasing(p, Len(entries)) /\ Len(entries) \in Nat
        /\ start \in 1 .. Len(p) /\ cut \in start .. Len(p)
        /\ SummaryOf(p) \subseteq 1 .. p[cut] - 1
        /\ \A j \in start .. cut - 1 : InContext(p[j]) => p[j] \in SummaryOf(p)
    BY <2>1, SummaryKnown
  <2>3. compactionEntry.covers = SummaryOf(p) /\ compactionEntry.firstKept = p[cut]
    BY <2>1, CompactKnown
  <2>4. NewCompaction = compactionEntry
    <3>1. entries \in Seq(Entry)
      BY DEF TreeInv
    <3>2. entries' = Append(entries, compactionEntry) /\ Len(entries') = Len(entries) + 1
      BY <2>1, <3>1 DEF Add
    <3>. QED
      BY <3>1, <3>2 DEF NewCompaction
  <2>5. /\ p \in Seq(1 .. Len(entries)) /\ Len(p) \in Nat
        /\ \A i, j \in 1 .. Len(p) : i < j => p[i] < p[j]
    BY <2>2 DEF Increasing
  <2>. HIDE DEF p, cut, start
  <2>6. \A i \in 1 .. Len(p) : p[i] \in Nat
    BY <2>2, <2>5
  <2>7. p[cut] \in Nat
    BY <2>2, <2>5, <2>6
  <2>8. ASSUME NEW j \in start .. Len(p), InContext(p[j])
        PROVE  p[j] >= p[cut] \/ p[j] \in SummaryOf(p)
    <3>1. CASE j < cut
      BY <2>2, <2>5, <2>8, <3>1
    <3>2. CASE ~ (j < cut)
      <4>1. j \in 1 .. Len(p) /\ cut \in 1 .. Len(p) /\ (cut < j \/ cut = j)
        BY <2>2, <2>5, <3>2
      <4>. QED
        BY <2>5, <2>6, <4>1
    <3>. QED
      BY <3>1, <3>2
  <2>9. \A x \in SummaryOf(p) : ~ (x >= p[cut])
    BY <2>2, <2>7
  <2>10. new \subseteq {i \in new : i >= p[cut]} \cup SummaryOf(p)
    BY <2>8
  <2>11. {i \in new : i >= p[cut]} \cap SummaryOf(p) = {}
    BY <2>9
  <2>. QED
    BY <2>3, <2>4, <2>10, <2>11 DEF p, start
<1>. QED
  BY <1>1, TreeIsKept, PTL DEF Spec, CompactionCoversWhatItCuts

\* On the path p through the entries es, only settings lie between the place i and the
\* assistant message, not before lo, that called.
Called(es, p, lo, i) ==
  \E j \in lo .. i - 1 :
    /\ es[p[j]].kind = "assistant" /\ es[p[j]].calls
    /\ \A k \in j + 1 .. i - 1 : es[p[k]].kind = "setting"

\* Tool results from cut on and before i have their calls there.
KeepsCalls(es, p, cut, i) ==
  \A k \in cut .. i - 1 : es[p[k]].kind = "toolResult" => Called(es, p, cut, k)

\* Tool results have their calls, and no compaction has cut between the two.
Whole(es, p) ==
  \A i \in 1 .. Len(p) :
    /\ es[p[i]].kind = "toolResult" => Called(es, p, 1, i)
    /\ es[p[i]].kind = "compaction" =>
         \E cut \in 1 .. i - 1 : p[cut] = es[p[i]].firstKept /\ KeepsCalls(es, p, cut, i)

\* Every path is whole, and the one of a run that waits for a tool ends with its call.
CallsInv ==
  /\ \A m \in 0 .. Len(entries) : Whole(entries, branchTo[m])
  /\ run = "tool" => Called(entries, branchTo[leaf], 1, Len(branchTo[leaf]) + 1)

(* Whether there is a call depends on the path before the place only.      *)
LEMMA CalledSame ==
  ASSUME NEW es, NEW fs, NEW p, NEW q, NEW i \in Nat, NEW lo \in Nat, lo >= 1,
         \A k \in 1 .. i - 1 : fs[q[k]] = es[p[k]],
         Called(es, p, lo, i)
  PROVE  Called(fs, q, lo, i)
<1>1. PICK j \in lo .. i - 1 :
        /\ es[p[j]].kind = "assistant" /\ es[p[j]].calls
        /\ \A k \in j + 1 .. i - 1 : es[p[k]].kind = "setting"
  BY DEF Called
<1>2. j \in 1 .. i - 1 /\ \A k \in j + 1 .. i - 1 : k \in 1 .. i - 1
  OBVIOUS
<1>3. fs[q[j]].kind = "assistant" /\ fs[q[j]].calls
  BY <1>1, <1>2
<1>4. \A k \in j + 1 .. i - 1 : fs[q[k]].kind = "setting"
  BY <1>1, <1>2
<1>. QED
  BY <1>3, <1>4 DEF Called

LEMMA KeepsCallsSame ==
  ASSUME NEW es, NEW fs, NEW p, NEW q, NEW i \in Nat, NEW cut \in Nat, cut >= 1,
         \A k \in 1 .. i - 1 : fs[q[k]] = es[p[k]],
         KeepsCalls(es, p, cut, i)
  PROVE  KeepsCalls(fs, q, cut, i)
<1>. SUFFICES ASSUME NEW k \in cut .. i - 1, fs[q[k]].kind = "toolResult"
              PROVE  Called(fs, q, cut, k)
  BY DEF KeepsCalls
<1>1. k \in Nat /\ k \in 1 .. i - 1 /\ \A h \in 1 .. k - 1 : fs[q[h]] = es[p[h]]
  OBVIOUS
<1>2. Called(es, p, cut, k)
  BY <1>1 DEF KeepsCalls
<1>. QED
  BY <1>1, <1>2, CalledSame

(* The entries of a path do not change, and a longer path is whole if its  *)
(* last entry has what it needs.                                           *)
LEMMA WholeSame ==
  ASSUME NEW es, NEW fs, NEW n \in Nat, NEW p \in Seq(1 .. n),
         \A x \in 1 .. n : fs[x] = es[x], Whole(es, p)
  PROVE  Whole(fs, p)
<1>. SUFFICES ASSUME NEW i \in 1 .. Len(p)
              PROVE  /\ fs[p[i]].kind = "toolResult" => Called(fs, p, 1, i)
                     /\ fs[p[i]].kind = "compaction" =>
                          \E cut \in 1 .. i - 1 :
                            p[cut] = fs[p[i]].firstKept /\ KeepsCalls(fs, p, cut, i)
  BY DEF Whole
<1>1. i \in Nat /\ Len(p) \in Nat /\ fs[p[i]] = es[p[i]]
      /\ \A k \in 1 .. i - 1 : fs[p[k]] = es[p[k]]
  <2>1. \A k \in 1 .. Len(p) : p[k] \in 1 .. n
    OBVIOUS
  <2>. QED
    BY <2>1
<1>2. ASSUME fs[p[i]].kind = "toolResult" PROVE Called(fs, p, 1, i)
  <2>1. Called(es, p, 1, i)
    BY <1>1, <1>2 DEF Whole
  <2>2. 1 \in Nat /\ 1 >= 1
    OBVIOUS
  <2>. QED
    BY <1>1, <2>1, <2>2, CalledSame
<1>3. ASSUME fs[p[i]].kind = "compaction"
      PROVE  \E cut \in 1 .. i - 1 : p[cut] = fs[p[i]].firstKept /\ KeepsCalls(fs, p, cut, i)
  <2>1. PICK cut \in 1 .. i - 1 : p[cut] = es[p[i]].firstKept /\ KeepsCalls(es, p, cut, i)
    BY <1>1, <1>3 DEF Whole
  <2>2. KeepsCalls(fs, p, cut, i)
    BY <1>1, <2>1, KeepsCallsSame
  <2>. QED
    BY <1>1, <2>1, <2>2
<1>. QED
  BY <1>2, <1>3

LEMMA WholeLonger ==
  ASSUME NEW n \in Nat, NEW es, NEW p \in Seq(1 .. n), Whole(es, p), NEW x \in Nat,
         es[x].kind = "toolResult" => Called(es, p, 1, Len(p) + 1),
         es[x].kind = "compaction" =>
           \E cut \in 1 .. Len(p) : p[cut] = es[x].firstKept /\ KeepsCalls(es, p, cut, Len(p) + 1)
  PROVE  Whole(es, Append(p, x))
<1>. DEFINE q == Append(p, x)
            l == Len(p)
<1>1. l \in Nat /\ Len(q) = l + 1 /\ q[l + 1] = x /\ \A k \in 1 .. l : q[k] = p[k]
  <2>1. p \in Seq(Nat) /\ x \in Nat
    BY SeqMonotone
  <2>. QED
    BY <2>1
<1>. HIDE DEF q, l
<1>. SUFFICES ASSUME NEW i \in 1 .. l + 1
              PROVE  /\ es[q[i]].kind = "toolResult" => Called(es, q, 1, i)
                     /\ es[q[i]].kind = "compaction" =>
                          \E cut \in 1 .. i - 1 :
                            q[cut] = es[q[i]].firstKept /\ KeepsCalls(es, q, cut, i)
  BY <1>1 DEF Whole, q
<1>2. i \in Nat /\ l + 1 \in Nat /\ \A k \in 1 .. i - 1 : k \in 1 .. l /\ es[q[k]] = es[p[k]]
  BY <1>1
<1>3. CASE i \in 1 .. l
  <2>1. q[i] = p[i]
    BY <1>1, <1>3
  <2>2. es[p[i]].kind = "toolResult" => Called(es, p, 1, i)
    BY <1>3 DEF Whole, l
  <2>3. es[q[i]].kind = "toolResult" => Called(es, q, 1, i)
    BY <1>2, <2>1, <2>2, CalledSame
  <2>4. ASSUME es[q[i]].kind = "compaction"
        PROVE  \E cut \in 1 .. i - 1 : q[cut] = es[q[i]].firstKept /\ KeepsCalls(es, q, cut, i)
    <3>1. PICK cut \in 1 .. i - 1 : p[cut] = es[p[i]].firstKept /\ KeepsCalls(es, p, cut, i)
      BY <1>3, <2>1, <2>4 DEF Whole, l
    <3>2. KeepsCalls(es, q, cut, i)
      BY <1>2, <3>1, KeepsCallsSame
    <3>3. q[cut] = p[cut]
      BY <1>1, <1>2
    <3>. QED
      BY <2>1, <3>1, <3>2, <3>3
  <2>. QED
    BY <2>3, <2>4
<1>4. CASE i = l + 1
  <2>1. q[i] = x
    BY <1>1, <1>4
  <2>2. es[x].kind = "toolResult" => Called(es, p, 1, i)
    BY <1>4 DEF l
  <2>3. es[q[i]].kind = "toolResult" => Called(es, q, 1, i)
    BY <1>2, <2>1, <2>2, CalledSame
  <2>4. ASSUME es[q[i]].kind = "compaction"
        PROVE  \E cut \in 1 .. i - 1 : q[cut] = es[q[i]].firstKept /\ KeepsCalls(es, q, cut, i)
    <3>1. PICK cut \in 1 .. l : p[cut] = es[x].firstKept /\ KeepsCalls(es, p, cut, i)
      BY <1>4, <2>1, <2>4 DEF l
    <3>0. cut \in Nat /\ cut >= 1
      BY <1>1
    <3>2. KeepsCalls(es, q, cut, i)
      BY <1>2, <3>0, <3>1, KeepsCallsSame
    <3>3. q[cut] = p[cut] /\ cut \in 1 .. i - 1
      BY <1>1, <1>4
    <3>. QED
      BY <2>1, <3>1, <3>2, <3>3
  <2>. QED
    BY <2>3, <2>4
<1>. QED
  BY <1>1, <1>3, <1>4

(* The same when the entry is added with it.                               *)
LEMMA WholeAdded ==
  ASSUME NEW n \in Nat, NEW es, NEW fs, NEW p \in Seq(1 .. n), NEW x \in Nat, NEW e, fs[x] = e,
         \A y \in 1 .. n : fs[y] = es[y], Whole(es, p), NEW i, i = Len(p) + 1,
         e.kind = "toolResult" => Called(es, p, 1, i),
         e.kind = "compaction" =>
           \E cut \in 1 .. Len(p) : p[cut] = e.firstKept /\ KeepsCalls(es, p, cut, i)
  PROVE  Whole(fs, Append(p, x))
<1>1. Whole(fs, p)
  BY WholeSame
<1>2. i \in Nat /\ Len(p) \in Nat /\ \A k \in 1 .. i - 1 : fs[p[k]] = es[p[k]]
  <2>1. \A k \in 1 .. Len(p) : p[k] \in 1 .. n
    OBVIOUS
  <2>. QED
    BY <2>1
<1>3. 1 \in Nat /\ 1 >= 1
  OBVIOUS
<1>4. e.kind = "toolResult" => Called(fs, p, 1, i)
  BY <1>2, <1>3, CalledSame
<1>5. ASSUME e.kind = "compaction"
      PROVE  \E cut \in 1 .. Len(p) : p[cut] = e.firstKept /\ KeepsCalls(fs, p, cut, i)
  <2>1. PICK cut \in 1 .. Len(p) : p[cut] = e.firstKept /\ KeepsCalls(es, p, cut, i)
    BY <1>5
  <2>2. cut \in Nat /\ cut >= 1
    BY <1>2
  <2>3. KeepsCalls(fs, p, cut, i)
    BY <1>2, <2>1, <2>2, KeepsCallsSame
  <2>. QED
    BY <2>1, <2>3
<1>. QED
  BY <1>1, <1>4, <1>5, WholeLonger

\* A path is that of the parent and the entry.
Branching ==
  \A i \in 0 .. Len(entries) :
    /\ branchTo[i] = IF i = 0 THEN <<>> ELSE Append(branchTo[entries[i].parent], i)
    /\ branchTo[i] \in Seq(1 .. i)

LEMMA Branches == TreeInv => Branching
  BY BranchDefined, PathKnown DEF NoEntry, Increasing, Branching

(* Paths to old entries stay when one is added, and the path to the new    *)
(* one goes through its parent.                                            *)
LEMMA BranchesStay ==
  ASSUME TreeInv, TreeInv', NEW e, Add(e), e.parent \in 0 .. Len(entries)
  PROVE  /\ \A i \in 0 .. Len(entries) : branchTo'[i] = branchTo[i]
         /\ branchTo'[Len(entries) + 1] = Append(branchTo[e.parent], Len(entries) + 1)
<1>. DEFINE n == Len(entries)
            T == {i \in 0 .. n : branchTo'[i] # branchTo[i]}
<1>1. /\ n \in Nat /\ Len(entries') = n + 1 /\ entries'[n + 1] = e
      /\ \A i \in 1 .. n : entries'[i] = entries[i]
      /\ \A i \in 1 .. n : entries[i].parent \in 0 .. n /\ entries[i].parent < i
  <2>1. entries \in Seq(Entry) /\ entries' = Append(entries, e)
    BY DEF TreeInv, Add
  <2>2. \A i \in 1 .. n : entries[i] \in Entry
    BY <2>1
  <2>3. \A i \in 1 .. n : entries[i].parent \in Nat /\ entries[i].parent < i
    BY <2>2 DEF TreeInv, Entry
  <2>4. n \in Nat /\ \A i \in 1 .. n : entries[i].parent \in 0 .. n /\ entries[i].parent < i
    BY <2>1, <2>3
  <2>5. entries' \in Seq(Entry)
    BY DEF TreeInv
  <2>. QED
    BY <2>1, <2>4, <2>5
<1>2. \A i \in 0 .. n :
        branchTo[i] = IF i = 0 THEN <<>> ELSE Append(branchTo[entries[i].parent], i)
  BY Branches DEF Branching
<1>3. \A i \in 0 .. n + 1 :
        branchTo'[i] = IF i = 0 THEN <<>> ELSE Append(branchTo'[entries'[i].parent], i)
  <2>1. (TreeInv => Branching)'
    BY Branches, PTL
  <2>2. Branching'
    BY <2>1
  <2>. QED
    BY <1>1, <2>2 DEF Branching
<1>4. ASSUME T # {} PROVE FALSE
  <2>1. T \in SUBSET Nat
    BY <1>1
  <2>. HIDE DEF T
  <2>2. PICK m \in T : \A j \in T : m <= j
    BY <1>4, <2>1, LeastExists
  <2>. USE DEF T
  <2>3. m \in 1 .. n
    BY <1>1, <1>2, <1>3
  <2>4. entries[m].parent \in 0 .. n /\ ~ (m <= entries[m].parent)
    BY <1>1, <2>3
  <2>5. branchTo'[entries[m].parent] = branchTo[entries[m].parent]
    BY <2>2, <2>4
  <2>6. branchTo'[m] = branchTo[m]
    BY <1>1, <1>2, <1>3, <2>3, <2>5
  <2>. QED
    BY <2>2, <2>6
<1>5. \A i \in 0 .. n : branchTo'[i] = branchTo[i]
  BY <1>4
<1>6. branchTo'[n + 1] = Append(branchTo'[e.parent], n + 1)
  <2>1. n + 1 \in 0 .. n + 1 /\ n + 1 # 0
    BY <1>1
  <2>. QED
    BY <1>1, <1>3, <2>1
<1>. QED
  BY <1>5, <1>6

(* A new entry keeps the paths whole if its own path is.                   *)
LEMMA AddWhole ==
  ASSUME TreeInv, TreeInv', \A m \in 0 .. Len(entries) : Whole(entries, branchTo[m]),
         NEW e, Add(e), e.parent \in 0 .. Len(entries), NEW p, p = branchTo[e.parent],
         e.kind = "toolResult" => Called(entries, p, 1, Len(p) + 1),
         e.kind = "compaction" =>
           \E cut \in 1 .. Len(p) :
             p[cut] = e.firstKept /\ KeepsCalls(entries, p, cut, Len(p) + 1)
  PROVE  \A m \in 0 .. Len(entries') : Whole(entries', branchTo'[m])
<1>. DEFINE n == Len(entries)
<1>1. /\ n \in Nat /\ Len(entries') = n + 1 /\ entries'[n + 1] = e
      /\ \A i \in 1 .. n : entries'[i] = entries[i]
  <2>1. entries \in Seq(Entry) /\ entries' = Append(entries, e)
    BY DEF TreeInv, Add
  <2>2. entries' \in Seq(Entry)
    BY DEF TreeInv
  <2>. QED
    BY <2>1, <2>2
<1>2. ASSUME NEW m \in 0 .. n PROVE branchTo[m] \in Seq(1 .. n)
  <2>1. branchTo[m] \in Seq(1 .. m) /\ 1 .. m \subseteq 1 .. n
    BY <1>1, Branches DEF Branching
  <2>. QED
    BY <2>1, SeqMonotone
<1>3. ASSUME NEW m \in 0 .. n PROVE Whole(entries', branchTo'[m])
  <2>1. branchTo[m] \in Seq(1 .. n) /\ Whole(entries, branchTo[m])
    BY <1>2
  <2>2. Whole(entries', branchTo[m])
    BY <1>1, <2>1, WholeSame
  <2>. QED
    BY <2>2, BranchesStay
<1>4. p \in Seq(1 .. n)
  BY <1>2
<1>5. Whole(entries, p) /\ n + 1 \in Nat
  BY <1>1
<1>6. Whole(entries', Append(p, n + 1))
  BY <1>1, <1>4, <1>5, WholeAdded
<1>7. branchTo'[n + 1] = Append(p, n + 1)
  BY BranchesStay
<1>8. \A m \in 0 .. n + 1 : m \in 0 .. n \/ m = n + 1
  BY <1>1
<1>. QED
  BY <1>1, <1>3, <1>6, <1>7, <1>8

(* The cut is at a message that is no tool result, or at entries before it *)
(* that are no messages; without such a message nothing is cut.            *)
LEMMA CutIs ==
  ASSUME NEW n \in Nat, NEW p \in Seq(1 .. n), NEW start \in 1 .. Len(p),
         NEW cut, cut = findCutPoint(p, start)
  PROVE  \/ cut = start /\ findValidCutPoints(p, start) = {}
         \/ \E at \in findValidCutPoints(p, start) :
              cut \in start .. at /\ \A j \in cut .. at - 1 : ~ IsMessage(p[j])
<1>. DEFINE cuts == findValidCutPoints(p, start)
            after == {c \in cuts : c >= Max(Reached(p, start))}
            at == CutIndex(p, start)
            back == {i \in start .. at : \A j \in i .. at - 1 :
                       ~IsMessage(p[j]) /\ Kind(p[j]) # "compaction"}
<1>1. Len(p) \in Nat /\ cuts \in SUBSET (start .. Len(p)) /\ cuts \in SUBSET Nat
  BY DEF findValidCutPoints
<1>2. CASE cuts = {}
  BY <1>2 DEF findCutPoint
<1>3. CASE cuts # {}
  <2>1. after \in SUBSET cuts /\ after \in SUBSET Nat
    BY <1>1
  <2>2. at = (IF Reached(p, start) # {} /\ after # {} THEN Min(after) ELSE Min(cuts))
    BY DEF CutIndex
  <2>. HIDE DEF cuts, after, at
  <2>3. at \in cuts
    BY <1>1, <1>3, <2>1, <2>2, MinKnown
  <2>4. back \in SUBSET Nat /\ at \in back
    BY <1>1, <2>3
  <2>5. cut = Min(back)
    BY <1>3 DEF findCutPoint, cuts, at
  <2>6. cut \in back
    <3>. HIDE DEF back
    <3>. QED
      BY <2>4, <2>5, MinKnown
  <2>. QED
    BY <2>3, <2>6 DEF cuts
<1>. QED
  BY <1>2, <1>3

(* No compaction comes after the newest.                                   *)
LEMMA PreviousIs ==
  ASSUME NEW n \in Nat, NEW p \in Seq(1 .. n), NEW c, c = PreviousCompaction(p)
  PROVE  /\ c \in 0 .. Len(p) /\ (c # 0 => Kind(p[c]) = "compaction")
         /\ \A i \in c + 1 .. Len(p) : Kind(p[i]) # "compaction"
<1>. DEFINE S == {0} \cup {i \in DOMAIN p : Kind(p[i]) = "compaction"}
<1>1. Len(p) \in Nat /\ DOMAIN p = 1 .. Len(p)
  OBVIOUS
<1>2. S \in SUBSET (0 .. Len(p)) /\ S # {} /\ c = Max(S)
  BY <1>1 DEF PreviousCompaction
<1>3. c \in S /\ \A y \in S : y <= c
  <2>. HIDE DEF S
  <2>. QED
    BY <1>1, <1>2, MaxKnown
<1>4. c \in 0 .. Len(p) /\ (c # 0 => Kind(p[c]) = "compaction")
  BY <1>2, <1>3
<1>5. \A i \in c + 1 .. Len(p) : Kind(p[i]) # "compaction"
  <2>1. \A i \in c + 1 .. Len(p) : i \in 1 .. Len(p) /\ ~ (i <= c)
    BY <1>1, <1>4
  <2>. QED
    BY <1>1, <1>3, <2>1
<1>. QED
  BY <1>4, <1>5

(* A cut does not come between a tool result and its call.                 *)
LEMMA CutKeepsCalls ==
  ASSUME NEW n \in Nat, NEW p \in Seq(1 .. n), Whole(entries, p), CanCompact(p),
         NEW start, start = PreviousCompaction(p) + 1,
         NEW cut, cut = findCutPoint(p, start)
  PROVE  cut \in 1 .. Len(p) /\ KeepsCalls(entries, p, cut, Len(p) + 1)
<1>1. Len(p) \in Nat /\ start \in 1 .. Len(p)
  BY PreviousKnown
<1>2. cut \in start .. Len(p)
  BY <1>1, CutKnown
<1>3. cut \in 1 .. Len(p)
  BY <1>1, <1>2
<1>4. ASSUME NEW i \in cut .. Len(p) + 1 - 1, entries[p[i]].kind = "toolResult"
      PROVE  Called(entries, p, cut, i)
  <2>1. i \in cut .. Len(p) /\ i \in 1 .. Len(p) /\ i >= start
    BY <1>1, <1>2
  <2>2. PICK j \in 1 .. i - 1 :
          /\ entries[p[j]].kind = "assistant" /\ entries[p[j]].calls
          /\ \A k \in j + 1 .. i - 1 : entries[p[k]].kind = "setting"
    BY <1>4, <2>1 DEF Whole, Called
  <2>3. SUFFICES j >= cut
    <3>1. j >= cut => j \in cut .. i - 1
      BY <1>3, <2>1
    <3>. QED
      BY <2>2, <2>3, <3>1 DEF Called
  <2>4. SUFFICES ASSUME j < cut PROVE FALSE
    BY <1>3, <2>1
  <2>5. j \in 1 .. Len(p) /\ j < i /\ i <= Len(p) /\ cut <= i
    BY <2>1
  <2>6. CASE cut = start /\ findValidCutPoints(p, start) = {}
    <3>1. CASE start = 1
      BY <1>1, <2>4, <2>5, <2>6, <3>1
    <3>2. CASE start # 1
      <4>1. start - 1 \in 1 .. Len(p) /\ Kind(p[start - 1]) = "compaction"
        <5>1. PICK c \in 0 .. Len(p) :
                c = PreviousCompaction(p) /\ (c # 0 => Kind(p[c]) = "compaction")
          BY PreviousIs
        <5>. QED
          BY <1>1, <3>2, <5>1
      <4>2. start - 1 # j
        BY <2>2, <4>1 DEF Kind
      <4>3. start - 1 \in j + 1 .. i - 1
        BY <1>1, <2>1, <2>4, <2>5, <2>6, <4>2
      <4>. QED
        BY <2>2, <4>1, <4>3 DEF Kind
    <3>. QED
      BY <3>1, <3>2
  <2>7. ASSUME NEW at \in findValidCutPoints(p, start),
               cut \in start .. at /\ \A k \in cut .. at - 1 : ~ IsMessage(p[k])
        PROVE  FALSE
    <3>1. at \in start .. Len(p) /\ InContext(p[at]) /\ Kind(p[at]) # "toolResult"
      BY DEF findValidCutPoints
    <3>2. Kind(p[at]) # "setting"
      BY <3>1 DEF InContext, IsMessage, messageRoles, asUser
    <3>3. CASE at < i
      <4>1. at \in j + 1 .. i - 1
        BY <1>1, <1>2, <2>4, <2>5, <2>7, <3>1, <3>3
      <4>. QED
        BY <2>2, <3>2, <4>1 DEF Kind
    <3>4. CASE at = i
      BY <1>4, <3>1, <3>4 DEF Kind
    <3>5. CASE at > i
      <4>1. i \in cut .. at - 1
        BY <1>1, <1>2, <2>1, <2>7, <3>1, <3>5
      <4>2. IsMessage(p[i])
        BY <1>4 DEF IsMessage, Kind, messageRoles
      <4>. QED
        BY <2>7, <4>1, <4>2
    <3>6. at < i \/ at = i \/ at > i
      BY <1>1, <2>1, <3>1
    <3>. QED
      BY <3>3, <3>4, <3>5, <3>6
  <2>. QED
    BY <1>1, <2>6, <2>7, CutIs
<1>. QED
  BY <1>3, <1>4 DEF KeepsCalls

(* Every step keeps the paths whole.                                       *)
LEMMA CallsStep == TreeInv /\ TreeInv' /\ CallsInv /\ [Next]_vars => CallsInv'
<1>. SUFFICES ASSUME TreeInv, TreeInv', CallsInv, [Next]_vars PROVE CallsInv'
  OBVIOUS
<1>. DEFINE n == Len(entries)
            p == branchTo[leaf]
<1>1. /\ n \in Nat /\ leaf \in 0 .. n
      /\ p \in Seq(1 .. n) /\ Len(p) \in Nat
      /\ \A m \in 0 .. n : Whole(entries, branchTo[m])
  <2>1. n \in Nat /\ leaf \in 0 .. n
    BY DEF TreeInv
  <2>2. p \in Seq(1 .. leaf) /\ 1 .. leaf \subseteq 1 .. n
    BY <2>1, Branches DEF Branching
  <2>3. p \in Seq(1 .. n)
    BY <2>2, SeqMonotone
  <2>. QED
    BY <2>1, <2>3 DEF CallsInv
<1>2. ASSUME NEW e, Add(e), e.parent \in 0 .. n, run' # "tool",
             e.kind \notin {"toolResult", "compaction"}
      PROVE  CallsInv'
  <2>1. \A m \in 0 .. Len(entries') : Whole(entries', branchTo'[m])
    BY <1>1, <1>2, AddWhole
  <2>. QED
    BY <1>2, <2>1 DEF CallsInv
<1>3. ASSUME NEW kind, NEW size
      PROVE  /\ Plain(kind, size).kind = kind /\ Plain(kind, size).parent = leaf
             /\ Plain(kind, size).calls = FALSE
  BY DEF Plain
<1>4. CASE AppendUser
  <2>1. Add(Plain("user", Min(Sizes))) /\ run' = "model"
    BY <1>4 DEF AppendUser
  <2>. DEFINE e == Plain("user", Min(Sizes))
  <2>2. e.kind = "user" /\ e.parent = leaf /\ Add(e)
    BY <1>3, <2>1
  <2>. HIDE DEF e
  <2>. QED
    BY <1>1, <1>2, <2>1, <2>2
<1>5. CASE AppendAside
  <2>1. PICK kind \in {"bashExecution", "custom_message"} : Add(Plain(kind, Min(Sizes)))
    BY <1>5 DEF AppendAside
  <2>2. run' # "tool"
    BY <1>5 DEF AppendAside
  <2>. DEFINE e == Plain(kind, Min(Sizes))
  <2>3. e.kind = kind /\ e.parent = leaf /\ Add(e)
    BY <1>3, <2>1
  <2>. HIDE DEF e
  <2>. QED
    BY <1>1, <1>2, <2>2, <2>3
<1>6. ASSUME NEW e, Add(e), e.parent = leaf
      PROVE  /\ p = branchTo[e.parent] /\ branchTo'[leaf'] = Append(p, n + 1)
             /\ Len(branchTo'[leaf']) = Len(p) + 1
             /\ branchTo'[leaf'][Len(p) + 1] = n + 1
             /\ \A k \in 1 .. Len(p) : branchTo'[leaf'][k] = p[k] /\ entries'[p[k]] = entries[p[k]]
             /\ entries'[n + 1] = e
  <2>1. leaf' = n + 1 /\ entries' = Append(entries, e) /\ entries \in Seq(Entry)
    BY <1>6 DEF Add, TreeInv
  <2>2. branchTo'[leaf'] = Append(p, n + 1)
    BY <1>1, <1>6, <2>1, BranchesStay
  <2>3. entries' \in Seq(Entry)
    BY DEF TreeInv
  <2>4. entries'[n + 1] = e /\ \A i \in 1 .. n : entries'[i] = entries[i]
    BY <1>1, <2>1, <2>3
  <2>5. \A k \in 1 .. Len(p) : p[k] \in 1 .. n
    BY <1>1
  <2>6. p \in Seq(Nat) /\ n + 1 \in Nat
    BY <1>1, SeqMonotone
  <2>. HIDE DEF p
  <2>7. /\ Len(Append(p, n + 1)) = Len(p) + 1 /\ Append(p, n + 1)[Len(p) + 1] = n + 1
        /\ \A k \in 1 .. Len(p) : Append(p, n + 1)[k] = p[k]
    BY <2>6
  <2>. QED
    BY <1>6, <2>2, <2>4, <2>5, <2>7 DEF p
<1>7. CASE AppendAssistant
  <2>1. PICK calls \in BOOLEAN :
          /\ Add([Plain("assistant", Min(Sizes)) EXCEPT !.calls = calls])
          /\ run' = IF calls THEN "tool" ELSE "idle"
    BY <1>7 DEF AppendAssistant
  <2>. DEFINE e == [Plain("assistant", Min(Sizes)) EXCEPT !.calls = calls]
  <2>2. e.kind = "assistant" /\ e.parent = leaf /\ e.calls = calls
    BY DEF Plain
  <2>3. Add(e)
    BY <2>1
  <2>. HIDE DEF e
  <2>4. CASE ~ calls
    BY <1>1, <1>2, <2>1, <2>2, <2>3, <2>4
  <2>5. CASE calls
    <3>1. \A m \in 0 .. Len(entries') : Whole(entries', branchTo'[m])
      BY <1>1, <2>2, <2>3, AddWhole
    <3>. DEFINE q == branchTo'[leaf']
    <3>2. Len(q) = Len(p) + 1 /\ entries'[q[Len(p) + 1]] = e
      BY <1>6, <2>2, <2>3
    <3>. HIDE DEF p, q
    <3>3. Called(entries', q, 1, Len(q) + 1)
      <4>. DEFINE j == Len(p) + 1
      <4>1. j \in 1 .. Len(q) + 1 - 1 /\ ~ \E k \in j + 1 .. Len(q) + 1 - 1 : TRUE
        BY <1>1, <3>2
      <4>2. entries'[q[j]].kind = "assistant" /\ entries'[q[j]].calls
        BY <2>2, <2>5, <3>2
      <4>. HIDE DEF j
      <4>. QED
        BY <4>1, <4>2 DEF Called
    <3>. QED
      BY <3>1, <3>3 DEF CallsInv, q
  <2>. QED
    BY <2>4, <2>5
<1>8. CASE AppendToolResult
  <2>1. PICK size \in Sizes : Add(Plain("toolResult", size))
    BY <1>8 DEF AppendToolResult
  <2>2. run = "tool" /\ run' = "model"
    BY <1>8 DEF AppendToolResult
  <2>3. Called(entries, p, 1, Len(p) + 1)
    BY <2>2 DEF CallsInv
  <2>. DEFINE e == Plain("toolResult", size)
  <2>4. e.kind = "toolResult" /\ e.parent = leaf /\ Add(e)
    BY <1>3, <2>1
  <2>. HIDE DEF e
  <2>5. \A m \in 0 .. Len(entries') : Whole(entries', branchTo'[m])
    BY <1>1, <2>3, <2>4, AddWhole
  <2>. QED
    BY <2>2, <2>5 DEF CallsInv
<1>9. CASE AppendSetting
  <2>. DEFINE e == Plain("setting", 0)
  <2>1. e.kind = "setting" /\ e.parent = leaf /\ Add(e) /\ run' = run
    BY <1>3, <1>9 DEF AppendSetting
  <2>. HIDE DEF e
  <2>2. CASE run # "tool"
    BY <1>1, <1>2, <2>1, <2>2
  <2>3. CASE run = "tool"
    <3>1. \A m \in 0 .. Len(entries') : Whole(entries', branchTo'[m])
      BY <1>1, <2>1, AddWhole
    <3>. DEFINE q == branchTo'[leaf']
    <3>2. /\ Len(q) = Len(p) + 1 /\ entries'[q[Len(p) + 1]] = e
          /\ \A k \in 1 .. Len(p) : entries'[q[k]] = entries[p[k]]
      BY <1>6, <2>1
    <3>3. PICK j \in 1 .. Len(p) + 1 - 1 :
            /\ entries[p[j]].kind = "assistant" /\ entries[p[j]].calls
            /\ \A k \in j + 1 .. Len(p) + 1 - 1 : entries[p[k]].kind = "setting"
      BY <2>3 DEF CallsInv, Called
    <3>. HIDE DEF p, q
    <3>4. j \in 1 .. Len(q) + 1 - 1 /\ entries'[q[j]].kind = "assistant" /\ entries'[q[j]].calls
      BY <1>1, <3>2, <3>3
    <3>5. ASSUME NEW k \in j + 1 .. Len(q) + 1 - 1 PROVE entries'[q[k]].kind = "setting"
      <4>1. CASE k = Len(p) + 1
        BY <2>1, <3>2, <4>1
      <4>2. CASE k # Len(p) + 1
        <5>1. Len(q) + 1 - 1 = Len(p) + 1 /\ j >= 1 /\ j \in Nat /\ Len(p) \in Nat
          BY <1>1, <3>2
        <5>2. k \in j + 1 .. Len(p) + 1 /\ k # Len(p) + 1
          BY <4>2, <5>1
        <5>3. k \in j + 1 .. Len(p) + 1 - 1 /\ k \in 1 .. Len(p)
          BY <5>1, <5>2
        <5>. QED
          BY <3>2, <3>3, <5>3
      <4>. QED
        BY <4>1, <4>2
    <3>6. Called(entries', q, 1, Len(q) + 1)
      BY <3>4, <3>5 DEF Called
    <3>. QED
      BY <3>1, <3>6 DEF CallsInv, q
  <2>. QED
    BY <2>2, <2>3
<1>10. CASE Compact
  <2>1. CanCompact(p) /\ Add(compactionEntry) /\ run' # "tool"
    BY <1>10 DEF Compact, compactionEntry
  <2>. DEFINE start == PreviousCompaction(p) + 1
              cut == findCutPoint(p, start)
  <2>2. compactionEntry.firstKept = p[cut]
    BY <2>1, CompactKnown
  <2>3. compactionEntry.parent = leaf /\ compactionEntry.kind = "compaction"
    BY DEF compactionEntry, Plain
  <2>4. Whole(entries, p)
    BY <1>1
  <2>5. cut \in 1 .. Len(p) /\ KeepsCalls(entries, p, cut, Len(p) + 1)
    BY <1>1, <2>1, <2>4, CutKeepsCalls
  <2>6. \A m \in 0 .. Len(entries') : Whole(entries', branchTo'[m])
    <3>. HIDE DEF cut
    <3>. QED
      BY <1>1, <2>1, <2>2, <2>3, <2>5, AddWhole
  <2>. QED
    BY <2>1, <2>6 DEF CallsInv
<1>11. CASE NavigateWithSummary
  <2>1. PICK target \in DOMAIN entries :
          Add([Plain("branch_summary", Min(Sizes)) EXCEPT
                 !.parent = NewLeaf(target),
                 !.covers = Told(prepareBranchEntries(Abandoned(target)))])
    BY <1>11 DEF NavigateWithSummary
  <2>. DEFINE e == [Plain("branch_summary", Min(Sizes)) EXCEPT
                      !.parent = NewLeaf(target),
                      !.covers = Told(prepareBranchEntries(Abandoned(target)))]
  <2>2. e.kind = "branch_summary" /\ e.parent = NewLeaf(target)
    BY DEF Plain
  <2>3. NewLeaf(target) \in 0 .. n
    <3>1. target \in 1 .. n
      BY DEF TreeInv
    <3>. QED
      BY <3>1, BranchKnown
  <2>4. run' # "tool" /\ Add(e)
    BY <1>11, <2>1 DEF NavigateWithSummary
  <2>. HIDE DEF e
  <2>. QED
    BY <1>2, <2>2, <2>3, <2>4
<1>12. ASSUME UNCHANGED entries, run' = "tool" => run = "tool" /\ leaf' = leaf
       PROVE  CallsInv'
  BY <1>12 DEF CallsInv, branchTo
<1>13. CASE Crash
  BY <1>12, <1>13 DEF Crash
<1>14. CASE Navigate
  BY <1>12, <1>14 DEF Navigate
<1>15. CASE UNCHANGED vars
  BY <1>12, <1>15 DEF vars
<1>. QED
  BY <1>4, <1>5, <1>7, <1>8, <1>9, <1>10, <1>11, <1>13, <1>14, <1>15 DEF Next

(* Wherever the leaf is and whatever was compacted, a tool result that the *)
(* model is shown is shown with the assistant message that called.         *)
THEOREM ResultsKeepTheirCalls == Spec => []ToolResultsKeepCall
<1>1. Init => CallsInv
  <2>. SUFFICES ASSUME Init PROVE CallsInv
    OBVIOUS
  <2>1. entries = <<>> /\ leaf = 0 /\ run # "tool" /\ TreeInv
    BY DEF Init, TreeInv, NoEntry
  <2>2. branchTo[0] = <<>> /\ \A m \in 0 .. Len(entries) : m = 0
    BY <2>1, Branches DEF Branching
  <2>. QED
    BY <2>1, <2>2 DEF CallsInv, Whole
<1>2. TreeInv /\ CallsInv => ToolResultsKeepCall
  <2>. SUFFICES ASSUME TreeInv, CallsInv PROVE ToolResultsKeepCall
    OBVIOUS
  <2>. DEFINE p == branchTo[leaf]
              c == PreviousCompaction(p)
              places == IF c = 0 THEN DOMAIN p
                        ELSE {c} \cup c + 1 .. Len(p) \cup
                             {i \in 1 .. c - 1 : \E j \in 1 .. i : p[j] = entries[p[c]].firstKept}
              shown == {p[i] : i \in {j \in places : InContext(p[j]) \/ j = c}}
  <2>1. /\ p \in Seq(1 .. leaf) /\ leaf \in Nat /\ Len(p) \in Nat /\ DOMAIN p = 1 .. Len(p)
        /\ \A i, j \in 1 .. Len(p) : i < j => p[i] < p[j]
        /\ Whole(entries, p)
    <3>1. leaf \in 0 .. Len(entries) /\ leaf \in Nat
      BY DEF TreeInv
    <3>2. Increasing(p, leaf)
      BY <3>1, PathKnown
    <3>. QED
      BY <3>1, <3>2 DEF Increasing, CallsInv
  <2>2. \A i, j \in 1 .. Len(p) : p[i] = p[j] => i = j
    <3>1. \A i \in 1 .. Len(p) : p[i] \in Nat
      BY <2>1
    <3>. QED
      BY <2>1, <3>1
  <2>3. /\ c \in 0 .. Len(p) /\ (c # 0 => Kind(p[c]) = "compaction")
        /\ \A i \in c + 1 .. Len(p) : Kind(p[i]) # "compaction"
    BY <2>1, PreviousIs
  <2>4. Path = p /\ buildSessionContext(p) = shown
    BY DEF Path, buildSessionContext
  <2>. HIDE DEF p, c
  <2>5. places \subseteq 1 .. Len(p)
    BY <2>1, <2>3
  <2>6. SUFFICES ASSUME NEW i \in 1 .. Len(p), Kind(p[i]) = "toolResult", i \in places
                 PROVE  \E j \in 1 .. i - 1 :
                          /\ j \in places /\ entries[p[j]].calls /\ Kind(p[j]) = "assistant"
                          /\ \A k \in j + 1 .. i - 1 : Kind(p[k]) = "setting"
    <3>1. ASSUME NEW i \in 1 .. Len(p), p[i] \in shown PROVE i \in places
      <4>. HIDE DEF places
      <4>1. PICK h \in places : p[i] = p[h]
        BY <3>1
      <4>. QED
        BY <2>2, <2>5, <4>1
    <3>2. ASSUME NEW j \in places, Kind(p[j]) = "assistant" PROVE p[j] \in shown
      BY <3>2 DEF InContext, IsMessage, messageRoles
    <3>. HIDE DEF shown, places
    <3>. QED
      BY <2>1, <2>4, <2>6, <3>1, <3>2 DEF ToolResultsKeepCall
  <2>7. ASSUME NEW lo \in 1 .. i, Called(entries, p, lo, i), \A j \in lo .. i - 1 :
                 (Kind(p[j]) = "assistant" /\ \A k \in j + 1 .. i - 1 : Kind(p[k]) = "setting")
                   => j \in places
        PROVE  \E j \in 1 .. i - 1 :
                 /\ j \in places /\ entries[p[j]].calls /\ Kind(p[j]) = "assistant"
                 /\ \A k \in j + 1 .. i - 1 : Kind(p[k]) = "setting"
    <3>. HIDE DEF places
    <3>1. PICK j \in lo .. i - 1 :
            /\ entries[p[j]].kind = "assistant" /\ entries[p[j]].calls
            /\ \A k \in j + 1 .. i - 1 : entries[p[k]].kind = "setting"
      BY <2>7 DEF Called
    <3>2. j \in 1 .. i - 1 /\ j \in places
      BY <2>7, <3>1 DEF Kind
    <3>. QED
      BY <3>1, <3>2 DEF Kind
  <2>8. Called(entries, p, 1, i)
    BY <2>1, <2>6 DEF Whole, Kind
  <2>9. CASE c = 0
    BY <2>1, <2>7, <2>8, <2>9
  <2>10. CASE c # 0 /\ i > c
    <3>1. ASSUME NEW j \in 1 .. i - 1, Kind(p[j]) = "assistant",
                 \A k \in j + 1 .. i - 1 : Kind(p[k]) = "setting"
          PROVE  j \in places
      <4>1. j # c
        BY <2>3, <2>10, <3>1
      <4>2. ~ (j < c)
        <5>1. j < c => c \in j + 1 .. i - 1
          BY <2>3, <2>10
        <5>. QED
          BY <2>3, <2>10, <3>1, <5>1
      <4>3. j \in c + 1 .. Len(p)
        BY <2>1, <2>3, <4>1, <4>2
      <4>. QED
        BY <2>10, <4>3
    <3>. HIDE DEF places
    <3>. QED
      BY <2>7, <2>8, <3>1
  <2>11. CASE c # 0 /\ i < c
    <3>1. PICK cut \in 1 .. c - 1 :
            p[cut] = entries[p[c]].firstKept /\ KeepsCalls(entries, p, cut, c)
      <4>1. c \in 1 .. Len(p) /\ entries[p[c]].kind = "compaction"
        BY <2>1, <2>3, <2>11 DEF Kind
      <4>. QED
        BY <2>1, <4>1 DEF Whole
    <3>2. cut \in 1 .. i
      <4>1. PICK h \in 1 .. i : p[h] = entries[p[c]].firstKept
        BY <2>1, <2>3, <2>6, <2>11
      <4>2. h = cut
        BY <2>1, <2>2, <2>3, <3>1, <4>1
      <4>. QED
        BY <4>1, <4>2
    <3>3. i \in cut .. c - 1
      BY <2>3, <2>11, <3>2
    <3>4. Called(entries, p, cut, i)
      BY <2>6, <3>1, <3>3 DEF KeepsCalls, Kind
    <3>5. \A j \in cut .. i - 1 : j \in places
      <4>1. \A j \in cut .. i - 1 : j \in 1 .. c - 1 /\ cut \in 1 .. j
        BY <2>3, <2>11, <3>2
      <4>. QED
        BY <2>11, <3>1, <4>1
    <3>. HIDE DEF places
    <3>. QED
      BY <2>7, <3>2, <3>4, <3>5
  <2>12. ~ (c # 0 /\ i = c)
    BY <2>3, <2>6
  <2>13. i < c \/ i = c \/ i > c
    BY <2>1, <2>3
  <2>. HIDE DEF places
  <2>. QED
    BY <2>9, <2>10, <2>11, <2>12, <2>13
<1>3. CallsInv /\ TreeInv /\ TreeInv' /\ [Next]_vars => CallsInv'
  BY CallsStep
<1>. QED
  BY <1>1, <1>2, <1>3, TreeIsKept, PTL DEF Spec
-----------------------------------------------------------------------------
(* Sums of tokens.  A sum is a fold, and a fold takes the elements of its  *)
(* set in an order of its own: that the order makes no difference comes    *)
(* first, what larger sets and shifted positions sum up to follows.        *)

(* What holds of a set when it holds of the sets with one element less     *)
(* holds of a finite set.                                                  *)
LEMMA SmallerSets ==
  ASSUME NEW S, IsFiniteSet(S), NEW G,
         \A s \in SUBSET S : (\A x \in s : s \ {x} \in G) => s \in G
  PROVE  S \in G
<1>. DEFINE T == {n \in Nat : \E s \in SUBSET S : s \notin G /\ Cardinality(s) = n}
<1>1. ASSUME NEW s \in SUBSET S
      PROVE  IsFiniteSet(s) /\ Cardinality(s) \in Nat
  BY FS_Subset, FS_CardinalityType
<1>2. ASSUME NEW s \in SUBSET S, NEW x \in s
      PROVE  s \ {x} \in SUBSET S /\ Cardinality(s \ {x}) = Cardinality(s) - 1
  BY <1>1, FS_RemoveElement
<1>3. ASSUME S \notin G PROVE FALSE
  <2>1. T \in SUBSET Nat /\ T # {}
    BY <1>1, <1>3
  <2>. HIDE DEF T
  <2>2. PICK n \in T : \A m \in T : n <= m
    BY <2>1, LeastExists
  <2>3. PICK s \in SUBSET S : s \notin G /\ Cardinality(s) = n
    BY <2>2 DEF T
  <2>4. ASSUME NEW x \in s, s \ {x} \notin G PROVE FALSE
    <3>1. /\ s \ {x} \in SUBSET S /\ Cardinality(s \ {x}) = n - 1
          /\ Cardinality(s \ {x}) \in Nat /\ n \in Nat
      BY <1>1, <1>2, <2>3
    <3>2. n - 1 \in T
      BY <2>4, <3>1 DEF T
    <3>. QED
      BY <2>2, <3>1, <3>2
  <2>. QED
    BY <2>3, <2>4
<1>. QED
  BY <1>3

\* The tokens of the entries at the places S of the path p.
TokensOn(p, S) == MapThenSumSet(LAMBDA j : entries[p[j]].size, S)

\* g is the function by which the fold is defined.
SumSteps(g, p, S) ==
  g = [s \in SUBSET S |->
        IF s = {} THEN 0
        ELSE entries[p[CHOOSE x \in s : TRUE]].size + g[s \ {CHOOSE x \in s : TRUE}]]

LEMMA TokensAre ==
  ASSUME NEW p, NEW S
  PROVE  TokensOn(p, S) = (CHOOSE g : SumSteps(g, p, S))[S]
  BY Zenon DEF TokensOn, SumSteps, MapThenSumSet, MapThenFoldSet

(* The fold of a finite set is defined.                                    *)
LEMMA SumExists ==
  ASSUME NEW p, NEW S, IsFiniteSet(S)
  PROVE  \E g : SumSteps(g, p, S)
<1>. DEFINE Sub(n) == {s \in SUBSET S : Cardinality(s) <= n}
            one(s) == CHOOSE x \in s : TRUE
            add(g, s) == IF s = {} THEN 0 ELSE entries[p[one(s)]].size + g[s \ {one(s)}]
            Upto(g, n) == g = [s \in Sub(n) |-> add(g, s)]
            N == {n \in Nat : ~ \E g : Upto(g, n)}
<1>1. ASSUME NEW s \in SUBSET S
      PROVE  /\ IsFiniteSet(s) /\ Cardinality(s) \in Nat
             /\ Cardinality(s) <= Cardinality(S) /\ (Cardinality(s) = 0 => s = {})
  BY FS_Subset, FS_CardinalityType, FS_EmptySet
<1>2. ASSUME NEW s \in SUBSET S, s # {}
      PROVE  s \ {one(s)} \in SUBSET S /\ Cardinality(s \ {one(s)}) = Cardinality(s) - 1
  <2>1. one(s) \in s
    BY <1>2
  <2>. HIDE DEF one
  <2>. QED
    BY <1>1, <2>1, FS_RemoveElement
<1>. HIDE DEF one
<1>3. ASSUME NEW n \in N PROVE FALSE
  <2>0. N \in SUBSET Nat /\ N # {}
    BY <1>3
  <2>. HIDE DEF N
  <2>1. PICK m \in N : \A k \in N : m <= k
    BY <2>0, LeastExists
  <2>. USE DEF N
  <2>2. CASE m = 0
    <3>. DEFINE g == [s \in Sub(0) |-> 0]
    <3>1. \A s \in Sub(0) : s = {}
      BY <1>1
    <3>2. Upto(g, 0)
      BY <3>1
    <3>. QED
      BY <2>1, <2>2, <3>2
  <2>3. CASE m # 0
    <3>0. m \in Nat /\ m - 1 \in Nat /\ ~ (m <= m - 1)
      BY <2>1, <2>3
    <3>1. PICK f : Upto(f, m - 1)
      BY <2>1, <3>0
    <3>. DEFINE g == [s \in Sub(m) |-> IF Cardinality(s) <= m - 1 THEN f[s] ELSE add(f, s)]
    <3>2. ASSUME NEW s \in Sub(m - 1) PROVE f[s] = add(f, s) /\ g[s] = f[s]
      <4>1. s \in Sub(m) /\ Cardinality(s) <= m - 1
        BY <1>1, <3>0
      <4>2. g[s] = f[s]
        BY <4>1
      <4>. HIDE DEF add, Sub, g
      <4>. QED
        BY <3>1, <4>2
    <3>3. ASSUME NEW s \in Sub(m) PROVE add(g, s) = add(f, s)
      <4>1. CASE s = {}
        BY <4>1
      <4>2. CASE s # {}
        <5>1. s \ {one(s)} \in Sub(m - 1)
          BY <1>1, <1>2, <3>0, <4>2
        <5>2. g[s \ {one(s)}] = f[s \ {one(s)}]
          BY <3>2, <5>1
        <5>. HIDE DEF g
        <5>. QED
          BY <4>2, <5>2
      <4>. QED
        BY <4>1, <4>2
    <3>4. ASSUME NEW s \in Sub(m) PROVE g[s] = add(g, s)
      <4>1. CASE Cardinality(s) <= m - 1
        <5>1. s \in Sub(m - 1)
          BY <4>1
        <5>. HIDE DEF add, g, Sub
        <5>. QED
          BY <3>2, <3>3, <5>1
      <4>2. CASE ~ (Cardinality(s) <= m - 1)
        <5>1. g[s] = add(f, s)
          BY <4>2
        <5>. HIDE DEF add, g, Sub
        <5>. QED
          BY <3>3, <5>1
      <4>. QED
        BY <4>1, <4>2
    <3>5. Upto(g, m)
      <4>1. g = [s \in Sub(m) |-> g[s]]
        OBVIOUS
      <4>. HIDE DEF add, g, Sub
      <4>. QED
        BY <3>4, <4>1
    <3>. QED
      BY <2>1, <3>5
  <2>. QED
    BY <2>2, <2>3
<1>4. PICK g : Upto(g, Cardinality(S))
  <2>1. Cardinality(S) \in Nat
    BY FS_CardinalityType
  <2>. QED
    BY <1>3, <2>1
<1>5. Sub(Cardinality(S)) = SUBSET S
  BY <1>1
<1>6. SumSteps(g, p, S)
  <2>1. g = [s \in SUBSET S |-> add(g, s)]
    <3>. HIDE DEF add, Sub
    <3>. QED
      BY <1>4, <1>5
  <2>. QED
    BY <2>1, Zenon DEF SumSteps, one
<1>. QED
  BY <1>6

(* The sum takes one element first.                                        *)
LEMMA SumStep ==
  ASSUME NEW p, NEW S, IsFiniteSet(S)
  PROVE  /\ S = {} => TokensOn(p, S) = 0
         /\ S # {} => \E x \in S : TokensOn(p, S) = entries[p[x]].size + TokensOn(p, S \ {x})
<1>. DEFINE G(T) == CHOOSE g : SumSteps(g, p, T)
            one(s) == CHOOSE x \in s : TRUE
<1>1. ASSUME NEW T \in SUBSET S, NEW s \in SUBSET T
      PROVE  /\ s = {} => G(T)[s] = 0
             /\ s # {} => G(T)[s] = entries[p[one(s)]].size + G(T)[s \ {one(s)}]
  <2>1. SumSteps(G(T), p, T)
    BY SumExists, FS_Subset
  <2>. HIDE DEF G
  <2>. QED
    BY <2>1 DEF SumSteps
<1>2. \A s \in SUBSET S : s # {} => one(s) \in s
  OBVIOUS
<1>. HIDE DEF G, one
<1>3. ASSUME NEW T \in SUBSET S PROVE G(T)[T] = G(S)[T]
  <2>. DEFINE E == {s \in SUBSET T : G(T)[s] = G(S)[s]}
  <2>1. ASSUME NEW s \in SUBSET T, \A x \in s : s \ {x} \in E PROVE s \in E
    <3>1. s \in SUBSET S
      OBVIOUS
    <3>2. CASE s = {}
      BY <1>1, <3>1, <3>2
    <3>3. CASE s # {}
      <4>1. s \ {one(s)} \in E
        BY <1>2, <2>1, <3>1, <3>3
      <4>. QED
        BY <1>1, <3>1, <3>3, <4>1
    <3>. QED
      BY <3>2, <3>3
  <2>2. IsFiniteSet(T)
    BY FS_Subset
  <2>3. T \in E
    <3>. HIDE DEF E
    <3>. QED
      BY <2>1, <2>2, SmallerSets
  <2>. QED
    BY <2>3
<1>4. \A T : TokensOn(p, T) = G(T)[T]
  BY TokensAre DEF G
<1>5. ASSUME S # {} PROVE TokensOn(p, S) = entries[p[one(S)]].size + TokensOn(p, S \ {one(S)})
  <2>1. G(S)[S] = entries[p[one(S)]].size + G(S)[S \ {one(S)}]
    BY <1>1, <1>5
  <2>2. G(S \ {one(S)})[S \ {one(S)}] = G(S)[S \ {one(S)}]
    BY <1>3
  <2>. QED
    BY <1>4, <2>1, <2>2
<1>6. S = {} => TokensOn(p, S) = 0
  BY <1>1, <1>4
<1>. QED
  BY <1>2, <1>5, <1>6

(* Every element of a finite set may be the first; a sum is a number.      *)
LEMMA SumOrder ==
  ASSUME NEW p, NEW S, IsFiniteSet(S), \A x \in S : entries[p[x]].size \in Nat
  PROVE  /\ TokensOn(p, S) \in Nat
         /\ \A x \in S : TokensOn(p, S) = entries[p[x]].size + TokensOn(p, S \ {x})
<1>. DEFINE size(x) == entries[p[x]].size
            Sum(T) == TokensOn(p, T)
            G == {T \in SUBSET S : /\ Sum(T) \in Nat
                                   /\ \A x \in T : Sum(T) = size(x) + Sum(T \ {x})}
            E == {T \in SUBSET S : \A U \in SUBSET T : U \in G}
<1>1. ASSUME NEW T \in SUBSET S
      PROVE  /\ T = {} => Sum(T) = 0
             /\ T # {} => \E x \in T : Sum(T) = size(x) + Sum(T \ {x})
  BY SumStep, FS_Subset
<1>2. \A x \in S : size(x) \in Nat
  OBVIOUS
<1>. HIDE DEF Sum, size
<1>3. ASSUME NEW T \in SUBSET S, \A x \in T : T \ {x} \in E PROVE T \in E
  <2>1. ASSUME NEW U \in SUBSET T, U # T PROVE U \in G
    <3>1. PICK x \in T : x \notin U
      BY <2>1
    <3>2. U \in SUBSET (T \ {x}) /\ T \ {x} \in E
      BY <1>3, <3>1
    <3>. QED
      BY <3>2
  <2>2. T \in G
    <3>1. CASE T = {}
      BY <1>1, <3>1
    <3>2. CASE T # {}
      <4>1. PICK c \in T : Sum(T) = size(c) + Sum(T \ {c})
        BY <1>1, <3>2
      <4>2. T \ {c} \in G /\ Sum(T \ {c}) \in Nat /\ size(c) \in Nat
        BY <1>2, <2>1
      <4>3. ASSUME NEW x \in T PROVE Sum(T) = size(x) + Sum(T \ {x})
        <5>1. CASE x = c
          BY <4>1, <5>1
        <5>2. CASE x # c
          <6>1. T \ {x} \in G /\ x \in T \ {c} /\ c \in T \ {x}
            BY <2>1, <5>2
          <6>2. /\ Sum(T \ {c}) = size(x) + Sum((T \ {c}) \ {x})
                /\ Sum(T \ {x}) = size(c) + Sum((T \ {x}) \ {c})
            BY <4>2, <6>1
          <6>3. (T \ {c}) \ {x} = (T \ {x}) \ {c} /\ (T \ {c}) \ {x} \in G
            BY <2>1
          <6>4. Sum((T \ {c}) \ {x}) \in Nat /\ size(x) \in Nat
            BY <1>2, <6>3
          <6>. QED
            BY <4>1, <4>2, <6>2, <6>3, <6>4
        <5>. QED
          BY <5>1, <5>2
      <4>4. Sum(T) \in Nat
        BY <4>1, <4>2
      <4>. QED
        BY <4>3, <4>4
    <3>. QED
      BY <3>1, <3>2
  <2>. QED
    BY <2>1, <2>2
<1>4. S \in E
  <2>. HIDE DEF E
  <2>. QED
    BY <1>3, SmallerSets
<1>. QED
  BY <1>4 DEF Sum, size

(* More entries, more tokens.                                              *)
LEMMA SumMonotone ==
  ASSUME NEW p, NEW S, IsFiniteSet(S), \A x \in S : entries[p[x]].size \in Nat,
         NEW T \in SUBSET S
  PROVE  TokensOn(p, T) <= TokensOn(p, S)
<1>. DEFINE G == {U \in SUBSET S : T \subseteq U => TokensOn(p, T) <= TokensOn(p, U)}
<1>1. ASSUME NEW U \in SUBSET S
      PROVE  /\ TokensOn(p, U) \in Nat
             /\ \A x \in U : TokensOn(p, U) = entries[p[x]].size + TokensOn(p, U \ {x})
  BY SumOrder, FS_Subset
<1>2. ASSUME NEW U \in SUBSET S, \A x \in U : U \ {x} \in G, T \subseteq U
      PROVE  TokensOn(p, T) <= TokensOn(p, U)
  <2>1. CASE T = U
    BY <1>1, <2>1
  <2>2. CASE T # U
    <3>1. PICK x \in U : x \notin T
      BY <1>2, <2>2
    <3>2. TokensOn(p, T) <= TokensOn(p, U \ {x})
      BY <1>2, <3>1
    <3>3. /\ TokensOn(p, T) \in Nat /\ TokensOn(p, U) \in Nat /\ TokensOn(p, U \ {x}) \in Nat
          /\ TokensOn(p, U) = entries[p[x]].size + TokensOn(p, U \ {x})
          /\ entries[p[x]].size \in Nat
      BY <1>1
    <3>. QED
      BY <3>2, <3>3
  <2>. QED
    BY <2>1, <2>2
<1>3. S \in G
  <2>1. \A U \in SUBSET S : (\A x \in U : U \ {x} \in G) => U \in G
    BY <1>2
  <2>. HIDE DEF G
  <2>. QED
    BY <2>1, SmallerSets
<1>. QED
  BY <1>3

\* The places S, a places further on.
Moved(a, S) == {a + x : x \in S}

\* The first n entries of q are those of p after the first a.
Shifted(p, q, a, n) ==
  \A x \in 1 .. n : q[x] = p[a + x] /\ entries[q[x]].size \in Nat

(* The same entries at other places are the same tokens.                   *)
LEMMA SumShift ==
  ASSUME NEW p, NEW q, NEW a \in Nat, NEW n \in Nat, NEW S \in SUBSET (1 .. n),
         Shifted(p, q, a, n)
  PROVE  TokensOn(q, S) = TokensOn(p, Moved(a, S))
<1>. USE DEF Moved, Shifted
<1>. DEFINE shift(T) == Moved(a, T)
            G == {T \in SUBSET S : TokensOn(q, T) = TokensOn(p, shift(T))}
<1>1. IsFiniteSet(1 .. n) /\ IsFiniteSet(a + 1 .. a + n)
  BY FS_Interval
<1>2. ASSUME NEW T \in SUBSET S, \A x \in T : T \ {x} \in G
      PROVE  TokensOn(q, T) = TokensOn(p, shift(T))
  <2>1. T \in SUBSET (1 .. n) /\ shift(T) \in SUBSET (a + 1 .. a + n)
    OBVIOUS
  <2>2. IsFiniteSet(T) /\ IsFiniteSet(shift(T))
    <3>. HIDE DEF shift
    <3>. QED
      BY <1>1, <2>1, FS_Subset
  <2>3. CASE T = {}
    <3>1. shift(T) = {}
      BY <2>3
    <3>. QED
      BY <2>2, <2>3, <3>1, SumStep
  <2>4. CASE T # {}
    <3>1. PICK x \in T : TRUE
      BY <2>4
    <3>2. TokensOn(q, T) = entries[q[x]].size + TokensOn(q, T \ {x})
      <4>1. \A y \in T : entries[q[y]].size \in Nat
        BY <2>1
      <4>2. \A y \in T : TokensOn(q, T) = entries[q[y]].size + TokensOn(q, T \ {y})
        BY <2>2, <4>1, SumOrder
      <4>. QED
        BY <4>2
    <3>3. a + x \in shift(T)
      OBVIOUS
    <3>4. TokensOn(p, shift(T)) = entries[p[a + x]].size + TokensOn(p, shift(T) \ {a + x})
      <4>1. \A y \in shift(T) : entries[p[y]].size \in Nat
        <5>1. \A z \in T : entries[p[a + z]].size \in Nat
          BY <2>1
        <5>. QED
          BY <5>1
      <4>. HIDE DEF shift
      <4>. QED
        BY <2>2, <3>3, <4>1, SumOrder
    <3>5. shift(T) \ {a + x} = shift(T \ {x})
      <4>1. \A y \in T : y \in Nat
        BY <2>1
      <4>2. \A y \in T : a + y = a + x => y = x
        BY <4>1
      <4>. QED
        BY <4>2
    <3>6. TokensOn(q, T \ {x}) = TokensOn(p, shift(T \ {x}))
      BY <1>2
    <3>7. q[x] = p[a + x]
      BY <2>1
    <3>. QED
      BY <3>2, <3>4, <3>5, <3>6, <3>7, Zenon
  <2>. QED
    BY <2>3, <2>4
<1>3. S \in G
  <2>1. \A T \in SUBSET S : (\A x \in T : T \ {x} \in G) => T \in G
    BY <1>2
  <2>2. IsFiniteSet(S)
    BY <1>1, FS_Subset
  <2>. HIDE DEF G
  <2>. QED
    BY <2>1, <2>2, SmallerSets
<1>. QED
  BY <1>3

(* The walk from the newest message backwards counts more and more tokens. *)
LEMMA TokensGrow ==
  ASSUME TreeInv, NEW p \in Seq(1 .. Len(entries)), NEW i \in 1 .. Len(p), NEW j \in 1 .. Len(p), i <= j
  PROVE  Tokens(p, i) \in Nat /\ Tokens(p, j) \in Nat /\ Tokens(p, j) <= Tokens(p, i)
<1>. DEFINE from(k) == {m \in k .. Len(p) : IsMessage(p[m])}
<1>1. Len(p) \in Nat /\ \A m \in 1 .. Len(p) : entries[p[m]].size \in Nat
  <2>1. entries \in Seq(Entry) /\ \A x \in 1 .. Len(entries) : entries[x] \in Entry
    BY DEF TreeInv
  <2>2. Len(p) \in Nat /\ \A m \in 1 .. Len(p) : p[m] \in 1 .. Len(entries)
    OBVIOUS
  <2>3. \A x \in 1 .. Len(entries) : entries[x].size \in Nat
    BY <2>1 DEF Entry
  <2>. QED
    BY <2>2, <2>3
<1>2. from(i) \in SUBSET (1 .. Len(p)) /\ from(j) \in SUBSET from(i)
  BY <1>1
<1>3. IsFiniteSet(from(i)) /\ IsFiniteSet(from(j))
  <2>1. IsFiniteSet(1 .. Len(p))
    BY <1>1, FS_Interval
  <2>. HIDE DEF from
  <2>. QED
    BY <1>2, <2>1, FS_Subset
<1>4. Tokens(p, i) = TokensOn(p, from(i)) /\ Tokens(p, j) = TokensOn(p, from(j))
  BY Zenon DEF Tokens, TokensOn
<1>. HIDE DEF from
<1>5. \A m \in from(i) : entries[p[m]].size \in Nat
  BY <1>1, <1>2
<1>. QED
  BY <1>2, <1>3, <1>4, <1>5, SumOrder, SumMonotone

\* What KeepsRecentMessages says of a cut.
KeepsRecent(p, start, cut) ==
  LET first == Min({Len(p) + 1} \cup {i \in cut .. Len(p) : IsMessage(p[i])})
      late  == {i \in start .. Len(p) : IsMessage(p[i]) /\ Kind(p[i]) # "toolResult"}
  IN  /\ \A i \in late : Tokens(p, i) < KeepRecentTokens => i >= cut
      /\ \/ Tokens(p, cut) >= KeepRecentTokens
         \/ \A i \in late : i >= cut
         \/ Kind(p[cut - 1]) = "toolResult"
      /\ \A i \in late : i > first /\ Tokens(p, i) >= KeepRecentTokens =>
           \A j \in late : \E k \in j .. Len(p) : Tokens(p, k) >= KeepRecentTokens

(* findCutPoint keeps the recent messages.                                 *)
LEMMA CutKeepsRecent ==
  ASSUME TreeInv, NEW p \in Seq(1 .. Len(entries)), NEW start \in 1 .. Len(p),
         \A i \in start .. Len(p) : Kind(p[i]) # "compaction",
         NEW cut, cut = findCutPoint(p, start)
  PROVE  KeepsRecent(p, start, cut)
<1>. DEFINE n == Len(p)
            K == KeepRecentTokens
            first == Min({n + 1} \cup {i \in cut .. n : IsMessage(p[i])})
            late  == {i \in start .. n : IsMessage(p[i]) /\ Kind(p[i]) # "toolResult"}
            cuts == findValidCutPoints(p, start)
            R == Reached(p, start)
            r == Max(R)
            after == {c \in cuts : c >= r}
            at == CutIndex(p, start)
            back == {i \in start .. at : \A j \in i .. at - 1 :
                       ~IsMessage(p[j]) /\ Kind(p[j]) # "compaction"}
            T(i) == Tokens(p, i)
<1>1. n \in Nat /\ K \in Nat /\ start \in Nat
  BY CompactionAssumption
<1>2. /\ cuts \in SUBSET (start .. n) /\ late \subseteq cuts /\ late \subseteq start .. n
      /\ \A i \in start .. n : IsMessage(p[i]) /\ i \notin cuts => Kind(p[i]) = "toolResult"
  BY DEF findValidCutPoints, InContext
<1>3. \A i \in start .. n : \A j \in start .. n :
        i <= j => T(i) \in Nat /\ T(j) \in Nat /\ T(j) <= T(i)
  <2>. SUFFICES ASSUME NEW i \in start .. n, NEW j \in start .. n, i <= j
                PROVE  T(i) \in Nat /\ T(j) \in Nat /\ T(j) <= T(i)
    OBVIOUS
  <2>1. i \in 1 .. n /\ j \in 1 .. n
    BY <1>1
  <2>. QED
    BY <2>1, TokensGrow
<1>4. R = {i \in start .. n : IsMessage(p[i]) /\ T(i) >= K}
  BY Zenon DEF Reached
<1>5. R # {} => r \in R /\ r \in start .. n /\ \A i \in R : i <= r
  <2>1. R \in SUBSET (0 .. n)
    BY <1>1, <1>4
  <2>. HIDE DEF R
  <2>. QED
    BY <1>1, <1>4, <2>1, MaxKnown
<1>6. \A i \in late : T(i) >= K => i \in R
  BY <1>4
<1>7. at = (IF R # {} /\ after # {} THEN Min(after) ELSE Min(cuts))
  BY DEF CutIndex
<1>8. cuts # {} => cut = Min(back)
  BY DEF findCutPoint
<1>9. cuts = {} => cut = start
  BY DEF findCutPoint
<1>. HIDE DEF n, K, late, cuts, R, r, T, at
<1>10. KeepsRecent(p, start, cut) <=>
        /\ \A i \in late : T(i) < K => i >= cut
        /\ \/ T(cut) >= K
           \/ \A i \in late : i >= cut
           \/ Kind(p[cut - 1]) = "toolResult"
        /\ \A i \in late : i > first /\ T(i) >= K =>
             \A j \in late : \E k \in j .. n : T(k) >= K
  BY Zenon DEF KeepsRecent, n, K, late, T
<1>11. CASE cuts = {}
  BY <1>2, <1>10, <1>11
<1>12. CASE cuts # {}
  <2>1. after \in SUBSET Nat /\ cuts \in SUBSET Nat
    <3>1. \A c \in cuts : c \in start .. n /\ c \in Nat
      BY <1>1, <1>2
    <3>. QED
      BY <3>1
  <2>2. /\ at \in cuts /\ at \in start .. n
        /\ R # {} /\ after # {} => at >= r /\ \A i \in cuts : i >= r => at <= i
        /\ ~ (R # {} /\ after # {}) => \A i \in cuts : at <= i
    <3>1. after # {} => Min(after) \in after /\ \A i \in after : Min(after) <= i
      <4>. HIDE DEF after
      <4>. QED
        BY <2>1, MinKnown
    <3>2. Min(cuts) \in cuts /\ \A i \in cuts : Min(cuts) <= i
      BY <1>12, <2>1, MinKnown
    <3>. QED
      BY <1>2, <1>7, <3>1, <3>2
  <2>3. cut \in back /\ \A i \in back : cut <= i
    <3>1. back \in SUBSET Nat /\ at \in back
      BY <1>1, <2>2
    <3>. HIDE DEF back
    <3>. QED
      BY <1>8, <1>12, <3>1, MinKnown
  <2>4. /\ cut \in start .. at /\ cut \in start .. n
        /\ \A j \in cut .. at - 1 : ~IsMessage(p[j])
    BY <1>1, <2>2, <2>3
  <2>5. cut > start => IsMessage(p[cut - 1])
    <3>. SUFFICES ASSUME cut > start, ~ IsMessage(p[cut - 1]) PROVE FALSE
      OBVIOUS
    <3>1. cut - 1 \in start .. at /\ cut - 1 \in start .. n /\ ~ (cut <= cut - 1)
      BY <1>1, <2>2, <2>4
    <3>2. Kind(p[cut - 1]) # "compaction"
      BY <3>1 DEF n
    <3>3. \A j \in cut - 1 .. at - 1 : j = cut - 1 \/ j \in cut .. at - 1
      BY <1>1, <2>2, <2>4
    <3>4. cut - 1 \in back
      BY <2>3, <3>1, <3>2, <3>3
    <3>. QED
      BY <2>3, <3>1, <3>4
  <2>6. first >= at
    <3>. DEFINE F == {n + 1} \cup {i \in cut .. n : IsMessage(p[i])}
    <3>1. F \in SUBSET Nat /\ F # {} /\ first = Min(F)
      BY <1>1, <2>4
    <3>2. \A i \in F : i >= at
      <4>1. ASSUME NEW i \in cut .. n, IsMessage(p[i]), ~ (i >= at) PROVE FALSE
        <5>1. i \in cut .. at - 1
          BY <1>1, <2>2, <2>4, <4>1
        <5>. QED
          BY <2>4, <4>1, <5>1
      <4>2. n + 1 >= at
        BY <1>1, <2>2
      <4>. QED
        BY <4>1, <4>2
    <3>. HIDE DEF F
    <3>. QED
      BY <3>1, <3>2, MinKnown
  <2>7. first \in Nat
    <3>. DEFINE F == {n + 1} \cup {i \in cut .. n : IsMessage(p[i])}
    <3>1. F \in SUBSET Nat /\ F # {} /\ first = Min(F)
      BY <1>1, <2>4
    <3>. HIDE DEF F
    <3>. QED
      BY <3>1, MinKnown
  <2>. HIDE DEF first, back
  <2>8. ASSUME NEW i \in late, T(i) < K PROVE i >= cut
    <3>1. i \in cuts /\ i \in start .. n
      BY <1>2
    <3>2. CASE R # {} /\ after # {}
      <4>1. r \in start .. n /\ T(r) >= K
        BY <1>4, <1>5, <3>2
      <4>2. ~ (i <= r)
        BY <1>1, <1>3, <2>8, <3>1, <4>1
      <4>3. at <= i
        BY <1>1, <2>2, <3>1, <3>2, <4>1, <4>2
      <4>. QED
        BY <1>1, <2>2, <2>4, <3>1, <4>3
    <3>3. CASE ~ (R # {} /\ after # {})
      BY <1>1, <2>2, <2>4, <3>1, <3>3
    <3>. QED
      BY <3>2, <3>3
  <2>9. \/ T(cut) >= K
        \/ \A i \in late : i >= cut
        \/ Kind(p[cut - 1]) = "toolResult"
    <3>1. CASE R # {} /\ after # {}
      <4>1. r \in start .. n /\ T(r) >= K
        BY <1>4, <1>5, <3>1
      <4>2. CASE cut <= r
        <5>1. T(cut) \in Nat /\ T(r) \in Nat /\ T(r) <= T(cut)
          BY <1>3, <2>4, <4>1, <4>2
        <5>. QED
          BY <1>1, <4>1, <5>1
      <4>3. CASE ~ (cut <= r)
        <5>1. /\ cut > start /\ cut - 1 \in start .. n /\ cut - 1 >= r
              /\ ~ (at <= cut - 1)
          BY <1>1, <2>2, <2>4, <4>1, <4>3
        <5>2. cut - 1 \notin cuts
          BY <2>2, <3>1, <5>1
        <5>. QED
          BY <1>2, <2>5, <5>1, <5>2
      <4>. QED
        BY <4>2, <4>3
    <3>2. CASE ~ (R # {} /\ after # {})
      <4>1. \A i \in late : i \in cuts /\ i \in start .. n /\ at <= i
        BY <1>2, <2>2, <3>2
      <4>2. \A i \in late : i >= cut
        BY <1>1, <2>2, <2>4, <4>1
      <4>. QED
        BY <4>2
    <3>. QED
      BY <3>1, <3>2
  <2>10. ASSUME NEW i \in late, i > first, T(i) >= K, NEW j \in late
         PROVE  \E k \in j .. n : T(k) >= K
    <3>1. i \in R /\ R # {} /\ i \in start .. n /\ r \in start .. n /\ i <= r /\ T(r) >= K
      BY <1>2, <1>4, <1>5, <1>6, <2>10
    <3>2. after = {}
      <4>1. ASSUME after # {} PROVE FALSE
        <5>1. at >= r
          BY <2>2, <3>1, <4>1
        <5>. QED
          BY <1>1, <2>2, <2>6, <2>7, <2>10, <3>1, <5>1
      <4>. QED
        BY <4>1
    <3>3. j \in cuts /\ j \in start .. n
      BY <1>2
    <3>4. ~ (j >= r)
      BY <3>2, <3>3
    <3>5. r \in j .. n
      BY <1>1, <3>1, <3>3, <3>4
    <3>. QED
      BY <3>1, <3>5
  <2>. QED
    BY <1>10, <2>8, <2>9, <2>10
<1>. QED
  BY <1>11, <1>12

(* Messages within the budget are kept, and no more than one message, tool *)
(* results aside, is kept or cut against it.                               *)
THEOREM RecentMessagesAreKept == Spec => KeepsRecentMessages
<1>. DEFINE Keeps == Compacts =>
       LET p     == Path
           start == PreviousCompaction(p) + 1
           cut   == CHOOSE i \in DOMAIN p : p[i] = NewCompaction.firstKept
           first == Min({Len(p) + 1} \cup {i \in cut .. Len(p) : IsMessage(p[i])})
           late  == {i \in start .. Len(p) : IsMessage(p[i]) /\ Kind(p[i]) # "toolResult"}
       IN  /\ \A i \in late : Tokens(p, i) < KeepRecentTokens => i >= cut
           /\ \/ Tokens(p, cut) >= KeepRecentTokens
              \/ \A i \in late : i >= cut
              \/ Kind(p[cut - 1]) = "toolResult"
           /\ \A i \in late : i > first /\ Tokens(p, i) >= KeepRecentTokens =>
                \A j \in late : \E k \in j .. Len(p) : Tokens(p, k) >= KeepRecentTokens
<1>1. TreeInv /\ [Next]_vars => Keeps
  <2>. SUFFICES ASSUME TreeInv, [Next]_vars, Compacts PROVE Keeps
    OBVIOUS
  <2>. DEFINE p == Path
              start == PreviousCompaction(p) + 1
              cut == findCutPoint(p, start)
  <2>1. CanCompact(p) /\ Add(compactionEntry) /\ p = branchTo[leaf]
    BY OnlyCompact DEF Path
  <2>2. /\ Increasing(p, Len(entries)) /\ Len(entries) \in Nat
        /\ start \in 1 .. Len(p) /\ cut \in start .. Len(p)
    BY <2>1, SummaryKnown
  <2>3. compactionEntry.firstKept = p[cut]
    BY <2>1, CompactKnown
  <2>4. NewCompaction = compactionEntry
    <3>1. entries \in Seq(Entry)
      BY DEF TreeInv
    <3>2. entries' = Append(entries, compactionEntry) /\ Len(entries') = Len(entries) + 1
      BY <2>1, <3>1 DEF Add
    <3>. QED
      BY <3>1, <3>2 DEF NewCompaction
  <2>5. /\ p \in Seq(1 .. Len(entries)) /\ Len(p) \in Nat /\ DOMAIN p = 1 .. Len(p)
        /\ \A i, j \in 1 .. Len(p) : i < j => p[i] < p[j]
    BY <2>2 DEF Increasing
  <2>6. \A i \in start .. Len(p) : Kind(p[i]) # "compaction"
    BY <2>2, <2>5, PreviousIs
  <2>. HIDE DEF p, cut, start
  <2>7. KeepsRecent(p, start, cut)
    BY <2>2, <2>5, <2>6, CutKeepsRecent DEF cut
  <2>8. (CHOOSE i \in DOMAIN p : p[i] = NewCompaction.firstKept) = cut
    <3>1. \A i \in 1 .. Len(p) : p[i] \in Nat
      BY <2>2, <2>5
    <3>2. \A i, j \in 1 .. Len(p) : p[i] = p[j] => i = j
      BY <2>5, <3>1
    <3>3. cut \in DOMAIN p /\ p[cut] = NewCompaction.firstKept
      BY <2>2, <2>3, <2>4, <2>5
    <3>. QED
      BY <2>5, <3>2, <3>3
  <2>. QED
    BY <2>7, <2>8, Zenon DEF KeepsRecent, p, start
<1>. QED
  BY <1>1, TreeIsKept, PTL DEF Spec, KeepsRecentMessages
-----------------------------------------------------------------------------
(* Branches.                                                               *)

(* What is on the path to an entry of a path is on that path; what comes   *)
(* before an entry of a path is on the path to it.                         *)
LEMMA PathsNest ==
  ASSUME TreeInv, NEW m \in 0 .. Len(entries)
  PROVE  \A k \in 1 .. Len(branchTo[m]) :
           /\ branchTo[m][k] \in 1 .. Len(entries)
           /\ On(branchTo[branchTo[m][k]]) \subseteq On(branchTo[m])
           /\ \A j \in 1 .. k : branchTo[m][j] \in On(branchTo[branchTo[m][k]])
<1>. DEFINE B(i) == branchTo[i]
            Nests(i) == \A k \in 1 .. Len(B(i)) :
                          /\ B(i)[k] \in 1 .. Len(entries)
                          /\ On(B(B(i)[k])) \subseteq On(B(i))
                          /\ \A j \in 1 .. k : B(i)[j] \in On(B(B(i)[k]))
            T == {i \in 0 .. Len(entries) : ~ Nests(i)}
<1>1. Len(entries) \in Nat /\ \A i \in 1 .. Len(entries) :
        entries[i].parent \in Nat /\ entries[i].parent < i
  <2>1. entries \in Seq(Entry)
    BY DEF TreeInv
  <2>2. \A i \in 1 .. Len(entries) : entries[i] \in Entry
    BY <2>1
  <2>. QED
    BY <2>1, <2>2 DEF TreeInv, Entry
<1>2. \A i \in 0 .. Len(entries) :
        /\ B(i) = IF i = 0 THEN <<>> ELSE Append(B(entries[i].parent), i)
        /\ B(i) \in Seq(1 .. i)
  BY Branches DEF Branching
<1>. HIDE DEF B
<1>3. ASSUME T # {} PROVE FALSE
  <2>0. T \in SUBSET Nat
    BY <1>1
  <2>. HIDE DEF T
  <2>1. PICK i \in T : \A h \in T : i <= h
    BY <1>3, <2>0, LeastExists
  <2>. USE DEF T
  <2>2. i \in 0 .. Len(entries) /\ i \in Nat
    BY <1>1, <2>1
  <2>3. CASE i = 0
    <3>1. Len(B(i)) = 0
      BY <1>2, <2>2, <2>3
    <3>2. Nests(i)
      BY <3>1
    <3>. QED
      BY <2>1, <3>2
  <2>4. CASE i # 0
    <3>. DEFINE h == entries[i].parent
                q == B(h)
                n == Len(q)
    <3>1. h \in 0 .. Len(entries) /\ h < i /\ h \in Nat /\ i \in 1 .. Len(entries)
      BY <1>1, <2>2, <2>4
    <3>2. Nests(h)
      <4>1. ~ (i <= h)
        BY <2>2, <3>1
      <4>. QED
        BY <2>1, <3>1, <4>1
    <3>3. q \in Seq(1 .. h) /\ n \in Nat /\ B(i) = Append(q, i)
      <4>1. q \in Seq(1 .. h) /\ B(i) = Append(q, i)
        BY <1>2, <2>2, <2>4, <3>1
      <4>. HIDE DEF q
      <4>. QED
        BY <4>1
    <3>. HIDE DEF h, q
    <3>4. /\ Len(B(i)) = n + 1 /\ B(i)[n + 1] = i
          /\ \A k \in 1 .. n : B(i)[k] = q[k]
          /\ DOMAIN q = 1 .. n /\ DOMAIN B(i) = 1 .. n + 1
      BY <3>3
    <3>5. On(B(i)) = On(q) \cup {i}
      <4>1. \A k \in 1 .. n + 1 : k \in 1 .. n \/ k = n + 1
        BY <3>3
      <4>2. \A k \in 1 .. n : k \in 1 .. n + 1
        BY <3>3
      <4>3. n + 1 \in 1 .. n + 1
        BY <3>3
      <4>. HIDE DEF n
      <4>. QED
        BY <3>4, <4>1, <4>2, <4>3 DEF On
    <3>6. ASSUME NEW k \in 1 .. n + 1
          PROVE  /\ B(i)[k] \in 1 .. Len(entries)
                 /\ On(B(B(i)[k])) \subseteq On(B(i))
                 /\ \A j \in 1 .. k : B(i)[j] \in On(B(B(i)[k]))
      <4>1. CASE k \in 1 .. n
        <5>1. /\ q[k] \in 1 .. Len(entries) /\ On(B(q[k])) \subseteq On(q)
              /\ \A j \in 1 .. k : q[j] \in On(B(q[k]))
          BY <3>2, <4>1 DEF q
        <5>2. B(i)[k] = q[k] /\ \A j \in 1 .. k : B(i)[j] = q[j]
          BY <3>3, <3>4, <4>1
        <5>. QED
          BY <3>5, <5>1, <5>2
      <4>2. CASE k = n + 1
        <5>1. B(i)[k] = i
          BY <3>4, <4>2
        <5>2. \A j \in 1 .. k : B(i)[j] \in On(B(i))
          BY <3>4, <4>2 DEF On
        <5>. QED
          BY <3>1, <5>1, <5>2
      <4>. QED
        BY <3>3, <4>1, <4>2
    <3>7. Nests(i)
      BY <3>4, <3>6
    <3>. QED
      BY <2>1, <3>7
  <2>. QED
    BY <2>3, <2>4
<1>4. Nests(m)
  BY <1>3
<1>. QED
  BY <1>4 DEF B

(* The abandoned entries are those of the old path that are not on the     *)
(* path to the target.                                                     *)
LEMMA AbandonedKnown ==
  ASSUME TreeInv, NEW target \in 1 .. Len(entries), NEW p, p = branchTo[leaf]
  PROVE  \E a \in 0 .. Len(p) :
           /\ Abandoned(target) = SubSeq(p, a + 1, Len(p))
           /\ \A k \in 1 .. Len(p) : p[k] \notin On(branchTo[target]) <=> k > a
<1>. DEFINE S == {0} \cup {j \in DOMAIN p : p[j] \in On(branchTo[target])}
            a == Max(S)
<1>1. /\ leaf \in 0 .. Len(entries) /\ Len(p) \in Nat /\ DOMAIN p = 1 .. Len(p)
      /\ target \in 0 .. Len(entries)
  <2>1. leaf \in 0 .. Len(entries) /\ Len(entries) \in Nat
    BY DEF TreeInv
  <2>2. p \in Seq(1 .. leaf)
    BY <2>1, PathKnown DEF Increasing
  <2>. QED
    BY <2>1, <2>2
<1>2. S \in SUBSET (0 .. Len(p)) /\ S # {}
  BY <1>1
<1>3. a \in S /\ \A j \in S : j <= a
  <2>. HIDE DEF S
  <2>. QED
    BY <1>1, <1>2, MaxKnown
<1>4. a \in 0 .. Len(p)
  BY <1>2, <1>3
<1>5. Abandoned(target) = SubSeq(p, a + 1, Len(p))
  BY DEF Abandoned
<1>. HIDE DEF a
<1>6. ASSUME NEW k \in 1 .. Len(p), k <= a PROVE p[k] \in On(branchTo[target])
  <2>1. a \in 1 .. Len(p) /\ k \in 1 .. a
    BY <1>1, <1>4, <1>6
  <2>2. p[a] \in On(branchTo[target])
    BY <1>3, <2>1
  <2>3. p[k] \in On(branchTo[p[a]])
    BY <1>1, <2>1, PathsNest
  <2>4. On(branchTo[p[a]]) \subseteq On(branchTo[target])
    <3>1. PICK h \in DOMAIN branchTo[target] : p[a] = branchTo[target][h]
      BY <2>2 DEF On
    <3>2. branchTo[target] \in Seq(1 .. target)
      BY <1>1, PathKnown DEF Increasing
    <3>3. h \in 1 .. Len(branchTo[target])
      BY <3>1, <3>2
    <3>. QED
      BY <1>1, <3>1, <3>3, PathsNest
  <2>. QED
    BY <2>3, <2>4
<1>7. ASSUME NEW k \in 1 .. Len(p), k > a PROVE p[k] \notin On(branchTo[target])
  BY <1>1, <1>3, <1>4, <1>7
<1>8. \A k \in 1 .. Len(p) : p[k] \notin On(branchTo[target]) <=> k > a
  BY <1>1, <1>4, <1>6, <1>7
<1>. QED
  BY <1>4, <1>5, <1>8

\* q is what comes after the first a entries of p.
EndOf(p, a, q) ==
  /\ Len(p) \in Nat /\ a \in Nat /\ a <= Len(p)
  /\ Len(q) = Len(p) - a /\ DOMAIN q = 1 .. Len(p) - a
  /\ \A j \in 1 .. Len(q) : q[j] = p[a + j] /\ a + j \in 1 .. Len(p)

LEMMA EndIs ==
  ASSUME NEW X, NEW p \in Seq(X), NEW a \in 0 .. Len(p)
  PROVE  EndOf(p, a, SubSeq(p, a + 1, Len(p)))
<1>. DEFINE n == Len(p)
            q == SubSeq(p, a + 1, n)
<1>1. n \in Nat /\ a \in Nat /\ a <= n
  OBVIOUS
<1>2. Len(q) = n - a /\ DOMAIN q = 1 .. n - a
  BY <1>1
<1>3. ASSUME NEW j \in 1 .. n - a PROVE q[j] = p[a + j] /\ a + j \in 1 .. n
  <2>1. a + 1 \in Int /\ j \in 1 .. n - (a + 1) + 1 /\ (a + 1) + j - 1 = a + j
    BY <1>1
  <2>2. q[j] = p[(a + 1) + j - 1]
    BY <1>1, <2>1
  <2>. QED
    BY <1>1, <2>1, <2>2
<1>. HIDE DEF q, n
<1>. QED
  BY <1>1, <1>2, <1>3 DEF EndOf, q, n

(* The tokens of the end of a path are some of those of the path.          *)
LEMMA BranchTokensGrow ==
  ASSUME TreeInv, NEW p \in Seq(1 .. Len(entries)), NEW a \in 0 .. Len(p),
         NEW q, q = SubSeq(p, a + 1, Len(p)), NEW i \in 1 .. Len(q)
  PROVE  BranchTokens(q, i) \in Nat /\ BranchTokens(q, i) <= BranchTokens(p, 1)
                                    /\ BranchTokens(p, 1) \in Nat
<1>. DEFINE n == Len(p)
            m == Len(q)
            from == {j \in i .. m : Summarizable(q[j])}
            all == {j \in 1 .. n : Summarizable(p[j])}
            moved == Moved(a, from)
<1>1. /\ n \in Nat /\ a \in Nat /\ m \in Nat /\ m = n - a
      /\ \A j \in 1 .. m : q[j] = p[a + j] /\ a + j \in 1 .. n
  <2>1. EndOf(p, a, q)
    BY EndIs
  <2>2. n \in Nat /\ a \in Nat /\ a <= n /\ m = n - a
    BY <2>1 DEF EndOf
  <2>3. \A j \in 1 .. m : q[j] = p[a + j] /\ a + j \in 1 .. n
    BY <2>1 DEF EndOf
  <2>. HIDE DEF n, m
  <2>4. m \in Nat
    BY <2>2
  <2>. QED
    BY <2>2, <2>3, <2>4
<1>2. \A j \in 1 .. n : entries[p[j]].size \in Nat
  <2>1. entries \in Seq(Entry) /\ \A x \in 1 .. Len(entries) : entries[x] \in Entry
    BY DEF TreeInv
  <2>2. \A j \in 1 .. n : p[j] \in 1 .. Len(entries)
    OBVIOUS
  <2>3. \A x \in 1 .. Len(entries) : entries[x].size \in Nat
    BY <2>1 DEF Entry
  <2>. QED
    BY <2>2, <2>3
<1>3. BranchTokens(q, i) = TokensOn(q, from) /\ BranchTokens(p, 1) = TokensOn(p, all)
  BY Zenon DEF BranchTokens, TokensOn
<1>. HIDE DEF n, m
<1>4. from \in SUBSET (1 .. m) /\ all \in SUBSET (1 .. n)
  BY <1>1
<1>5. moved \in SUBSET all
  <2>1. ASSUME NEW j \in from PROVE a + j \in all
    BY <1>1, <1>4
  <2>. HIDE DEF from, all
  <2>. QED
    BY <2>1 DEF Moved
<1>. HIDE DEF from, all
<1>6. TokensOn(q, from) = TokensOn(p, moved)
  <2>1. Shifted(p, q, a, m)
    BY <1>1, <1>2 DEF Shifted
  <2>2. a \in Nat /\ m \in Nat /\ from \in SUBSET (1 .. m)
    BY <1>1, <1>4
  <2>. QED
    BY <2>1, <2>2, SumShift
<1>. HIDE DEF moved
<1>7. IsFiniteSet(all) /\ IsFiniteSet(moved)
  <2>1. IsFiniteSet(1 .. n)
    BY <1>1, FS_Interval
  <2>. QED
    BY <1>4, <1>5, <2>1, FS_Subset
<1>8. (\A j \in all : entries[p[j]].size \in Nat) /\ \A j \in moved : entries[p[j]].size \in Nat
  BY <1>2, <1>4, <1>5
<1>. QED
  BY <1>3, <1>5, <1>6, <1>7, <1>8, SumOrder, SumMonotone

\* The entry that a summary of the branch appends.
summaryEntry(target) ==
  [Plain("branch_summary", Min(Sizes)) EXCEPT
     !.parent = NewLeaf(target),
     !.covers = Told(prepareBranchEntries(Abandoned(target)))]

(* Only NavigateWithSummary appends a branch summary.                      *)
LEMMA OnlySummary ==
  ASSUME TreeInv, [Next]_vars, Len(entries') > Len(entries),
         entries'[Len(entries')].kind = "branch_summary"
  PROVE  \E target \in 1 .. Len(entries) :
           /\ entries'[Len(entries')] = summaryEntry(target)
           /\ summaryEntry(target).parent = NewLeaf(target)
           /\ summaryEntry(target).covers = Told(prepareBranchEntries(Abandoned(target)))
<1>1. entries \in Seq(Entry) /\ Len(entries) \in Nat /\ DOMAIN entries = 1 .. Len(entries)
  BY DEF TreeInv
<1>2. ASSUME NEW e, Add(e) PROVE entries'[Len(entries')] = e /\ e.kind = "branch_summary"
  <2>1. entries' = Append(entries, e) /\ Len(entries') = Len(entries) + 1
    BY <1>1, <1>2 DEF Add
  <2>2. entries'[Len(entries')] = e
    BY <1>1, <2>1
  <2>. QED
    BY <2>2
<1>3. ASSUME entries' = entries PROVE FALSE
  BY <1>1, <1>3
<1>4. ASSUME NEW kind, NEW size PROVE Plain(kind, size).kind = kind
  BY DEF Plain
<1>5. ~ AppendUser
  BY <1>2, <1>4 DEF AppendUser
<1>6. ~ AppendAside
  BY <1>2, <1>4 DEF AppendAside
<1>7. ~ AppendAssistant
  <2>1. \A calls \in BOOLEAN : [Plain("assistant", Min(Sizes)) EXCEPT !.calls = calls].kind = "assistant"
    BY DEF Plain
  <2>. QED
    BY <1>2, <2>1 DEF AppendAssistant
<1>8. ~ AppendToolResult
  BY <1>2, <1>4 DEF AppendToolResult
<1>9. ~ AppendSetting
  BY <1>2, <1>4 DEF AppendSetting
<1>10. ~ Crash /\ ~ Navigate /\ ~ UNCHANGED vars
  BY <1>3 DEF Crash, Navigate, vars
<1>11. ~ Compact
  <2>1. compactionEntry.kind = "compaction"
    <3>1. \A covers, first :
            [Plain("compaction", Min(Sizes)) EXCEPT !.covers = covers, !.firstKept = first].kind
            = "compaction"
      BY DEF Plain
    <3>. QED
      BY <3>1 DEF compactionEntry
  <2>2. Compact => Add(compactionEntry)
    BY DEF Compact, compactionEntry
  <2>. QED
    BY <1>2, <2>1, <2>2
<1>12. NavigateWithSummary
  BY <1>5, <1>6, <1>7, <1>8, <1>9, <1>10, <1>11 DEF Next
<1>13. PICK target \in 1 .. Len(entries) : Add(summaryEntry(target))
  <2>1. \E target \in DOMAIN entries \ {leaf} : Add(summaryEntry(target))
    BY <1>12 DEF NavigateWithSummary, summaryEntry
  <2>. QED
    BY <1>1, <2>1
<1>14. entries'[Len(entries')] = summaryEntry(target)
  BY <1>2, <1>13
<1>15. \A parent, covers :
         LET e == [Plain("branch_summary", Min(Sizes)) EXCEPT !.parent = parent, !.covers = covers]
         IN  e.parent = parent /\ e.covers = covers
  BY DEF Plain
<1>. QED
  BY <1>14, <1>15, Zenon DEF summaryEntry

(* What a branch summary is made of was left behind, and when the branch   *)
(* fits the budget, it is made of all that can be summarized.              *)
LEMMA SummarizedIs ==
  ASSUME TreeInv, NEW p, p = branchTo[leaf], NEW target \in 1 .. Len(entries),
         NEW gone, gone = On(p) \ On(branchTo[NewLeaf(target)])
  PROVE  /\ prepareBranchEntries(Abandoned(target)) \subseteq gone
         /\ BranchTokens(p, 1) <= TokenBudget =>
              {i \in gone \ {target} : Summarizable(i)}
                \subseteq prepareBranchEntries(Abandoned(target))
<1>. DEFINE q == Abandoned(target)
            over == {j \in DOMAIN q : Summarizable(q[j]) /\ BranchTokens(q, j) > TokenBudget}
            stop == Max({0} \cup over)
            extra == {j \in {stop} \ {0} :
                        /\ Kind(q[j]) \in {"compaction", "branch_summary"}
                        /\ 10 * BranchTokens(q, j + 1) < 9 * TokenBudget}
            taken == {j \in DOMAIN q : j > stop /\ Summarizable(q[j])} \cup extra
            n == Len(p)
<1>1. prepareBranchEntries(q) = {q[i] : i \in taken}
  BY Zenon DEF prepareBranchEntries
<1>2. /\ Len(entries) \in Nat /\ leaf \in 0 .. Len(entries) /\ TokenBudget \in Nat
      /\ entries[target].parent \in 0 .. Len(entries)
  <2>1. entries \in Seq(Entry) /\ leaf \in 0 .. Len(entries)
    BY DEF TreeInv
  <2>2. entries[target] \in Entry /\ entries[target].parent < target
    BY <2>1 DEF TreeInv
  <2>. QED
    BY <2>1, <2>2, CompactionAssumption DEF Entry
<1>3. p \in Seq(1 .. Len(entries)) /\ n \in Nat /\ DOMAIN p = 1 .. n
  <2>1. p \in Seq(1 .. leaf) /\ 1 .. leaf \subseteq 1 .. Len(entries)
    BY <1>2, PathKnown DEF Increasing
  <2>2. p \in Seq(1 .. Len(entries))
    BY <2>1, SeqMonotone
  <2>. QED
    BY <2>2
<1>4. PICK a \in 0 .. n :
        q = SubSeq(p, a + 1, n) /\ \A k \in 1 .. n : p[k] \notin On(branchTo[target]) <=> k > a
  BY AbandonedKnown
<1>. HIDE DEF q
<1>5. /\ a \in Nat /\ Len(q) = n - a /\ DOMAIN q = 1 .. n - a
      /\ \A j \in 1 .. n - a : q[j] = p[a + j] /\ a + j \in 1 .. n /\ a + j > a
  <2>1. EndOf(p, a, q)
    BY <1>3, <1>4, EndIs
  <2>2. a \in Nat /\ Len(q) = n - a /\ DOMAIN q = 1 .. n - a
    BY <2>1 DEF EndOf
  <2>3. \A j \in 1 .. n - a : q[j] = p[a + j] /\ a + j \in 1 .. n
    BY <2>1, <2>2 DEF EndOf
  <2>4. \A j \in 1 .. n - a : a + j > a
    BY <1>3, <2>2
  <2>. QED
    BY <2>2, <2>3, <2>4
\* The path to the target goes through the new leaf, which is the target or its parent.
<1>6. /\ On(branchTo[NewLeaf(target)]) \subseteq On(branchTo[target])
      /\ On(branchTo[target]) \subseteq On(branchTo[NewLeaf(target)]) \cup {target}
  <2>1. CASE NewLeaf(target) = target
    BY <2>1
  <2>2. CASE NewLeaf(target) # target
    <3>. DEFINE h == entries[target].parent
                b == branchTo[h]
    <3>1. NewLeaf(target) = h /\ h \in 0 .. Len(entries)
      BY <1>2, <2>2 DEF NewLeaf
    <3>2. branchTo[target] = Append(b, target) /\ b \in Seq(1 .. h)
      <4>1. target \in 0 .. Len(entries) /\ target # 0
        BY <1>2
      <4>. QED
        BY <3>1, <4>1, Branches DEF Branching
    <3>. HIDE DEF h, b
    <3>3. On(Append(b, target)) = On(b) \cup {target}
      <4>. DEFINE c == Append(b, target)
      <4>1. /\ Len(b) \in Nat /\ DOMAIN b = 1 .. Len(b) /\ DOMAIN c = 1 .. Len(b) + 1
            /\ c[Len(b) + 1] = target /\ \A k \in 1 .. Len(b) : c[k] = b[k]
        BY <3>2
      <4>2. /\ \A k \in 1 .. Len(b) + 1 : k \in 1 .. Len(b) \/ k = Len(b) + 1
            /\ \A k \in 1 .. Len(b) : k \in 1 .. Len(b) + 1
            /\ Len(b) + 1 \in 1 .. Len(b) + 1
        BY <4>1
      <4>. HIDE DEF c
      <4>3. On(c) = On(b) \cup {target}
        BY <4>1, <4>2 DEF On
      <4>. QED
        BY <4>3 DEF c
    <3>4. On(branchTo[target]) = On(b) \cup {target} /\ branchTo[NewLeaf(target)] = b
      BY <3>1, <3>2, <3>3 DEF b
    <3>. QED
      BY <3>4
  <2>. QED
    BY <2>1, <2>2
<1>7. over \in SUBSET (1 .. n - a) /\ stop \in {0} \cup over
  <2>1. over \in SUBSET (1 .. n - a)
    BY <1>5
  <2>2. n - a \in Nat
    BY <1>3
  <2>3. {0} \cup over \in SUBSET (0 .. n - a) /\ {0} \cup over # {}
    BY <2>1, <2>2
  <2>4. Max({0} \cup over) \in {0} \cup over
    <3>. HIDE DEF over
    <3>. QED
      BY <2>2, <2>3, MaxKnown
  <2>. QED
    BY <2>1, <2>4
<1>8. taken \subseteq 1 .. n - a
  BY <1>5, <1>7
<1>. HIDE DEF taken
<1>9. ASSUME NEW j \in 1 .. n - a PROVE q[j] \in gone
  <2>1. q[j] = p[a + j] /\ a + j \in 1 .. n /\ a + j > a
    BY <1>5
  <2>2. p[a + j] \in On(p) /\ p[a + j] \notin On(branchTo[target])
    BY <1>3, <1>4, <2>1 DEF On
  <2>. QED
    BY <1>6, <2>1, <2>2
<1>10. prepareBranchEntries(q) \subseteq gone
  BY <1>1, <1>8, <1>9
<1>11. ASSUME BranchTokens(p, 1) <= TokenBudget, NEW i \in gone \ {target}, Summarizable(i)
       PROVE  i \in prepareBranchEntries(q)
  <2>1. over = {}
    <3>1. ASSUME NEW j \in 1 .. n - a PROVE ~ (BranchTokens(q, j) > TokenBudget)
      <4>1. /\ BranchTokens(q, j) \in Nat /\ BranchTokens(q, j) <= BranchTokens(p, 1)
            /\ BranchTokens(p, 1) \in Nat
        <5>1. j \in 1 .. Len(q)
          BY <1>5
        <5>. QED
          BY <1>3, <1>4, <5>1, BranchTokensGrow
      <4>. QED
        BY <1>2, <1>11, <4>1
    <3>. QED
      BY <1>5, <3>1
  <2>2. stop = 0
    BY <1>7, <2>1
  <2>3. PICK k \in 1 .. n : i = p[k]
    BY <1>3, <1>11 DEF On
  <2>4. k > a
    BY <1>4, <1>6, <1>11, <2>3
  <2>5. k - a \in 1 .. n - a /\ a + (k - a) = k /\ k - a > 0
    BY <1>3, <1>5, <2>4
  <2>6. q[k - a] = i
    BY <1>5, <2>3, <2>5
  <2>7. k - a \in taken
    BY <1>5, <1>11, <2>2, <2>5, <2>6 DEF taken
  <2>. QED
    BY <1>1, <2>6, <2>7
<1>. QED
  BY <1>10, <1>11 DEF q

(* A summary of a branch tells of nothing but what is left behind, and of  *)
(* all of it when the branch fits the budget.                              *)
THEOREM SummariesTellWhatIsLeft == Spec => BranchSummaryTellsWhatIsLeft
<1>. DEFINE Tells ==
       (Len(entries') > Len(entries) /\ entries'[Len(entries')].kind = "branch_summary") =>
       LET new  == entries'[Len(entries')]
           gone == On(Path) \ On(branchTo[new.parent])
       IN  /\ new.covers \subseteq Told(gone)
           /\ \E target \in DOMAIN entries :
                /\ NewLeaf(target) = new.parent
                /\ BranchTokens(Path, 1) <= TokenBudget =>
                     {i \in gone \ {target} : Summarizable(i)} \subseteq new.covers
<1>1. TreeInv /\ [Next]_vars => Tells
  <2>. SUFFICES ASSUME TreeInv, [Next]_vars, Len(entries') > Len(entries),
                       entries'[Len(entries')].kind = "branch_summary"
                PROVE  Tells
    OBVIOUS
  <2>. DEFINE new == entries'[Len(entries')]
              gone == On(Path) \ On(branchTo[new.parent])
  <2>1. PICK target \in 1 .. Len(entries) :
          /\ new.parent = NewLeaf(target)
          /\ new.covers = Told(prepareBranchEntries(Abandoned(target)))
    <3>1. PICK target \in 1 .. Len(entries) :
            /\ entries'[Len(entries')] = summaryEntry(target)
            /\ summaryEntry(target).parent = NewLeaf(target)
            /\ summaryEntry(target).covers = Told(prepareBranchEntries(Abandoned(target)))
      BY OnlySummary
    <3>. HIDE DEF gone
    <3>. QED
      BY <3>1, Zenon
  <2>. HIDE DEF new
  <2>2. /\ prepareBranchEntries(Abandoned(target)) \subseteq gone
        /\ BranchTokens(Path, 1) <= TokenBudget =>
             {i \in gone \ {target} : Summarizable(i)}
               \subseteq prepareBranchEntries(Abandoned(target))
    <3>1. gone = On(branchTo[leaf]) \ On(branchTo[NewLeaf(target)])
      BY <2>1 DEF Path
    <3>. HIDE DEF gone
    <3>. QED
      BY <3>1, SummarizedIs DEF Path
  <2>. HIDE DEF gone
  <2>3. ASSUME NEW S, NEW U, S \subseteq U PROVE S \subseteq Told(S) /\ Told(S) \subseteq Told(U)
    BY <2>3 DEF Told
  <2>4. new.covers \subseteq Told(gone)
    BY <2>1, <2>2, <2>3
  <2>5. prepareBranchEntries(Abandoned(target)) \subseteq new.covers
    BY <2>1, <2>3
  <2>6. target \in DOMAIN entries
    BY DEF TreeInv
  <2>7. BranchTokens(Path, 1) <= TokenBudget =>
          {i \in gone \ {target} : Summarizable(i)} \subseteq new.covers
    BY <2>2, <2>5, Zenon
  <2>. QED
    BY <2>1, <2>4, <2>6, <2>7, Zenon DEF new, gone
<1>. QED
  BY <1>1, TreeIsKept, PTL DEF Spec, BranchSummaryTellsWhatIsLeft
===============================================================================
