------------------------- MODULE AgentSessionProofs -------------------------
(***************************************************************************)
(* Proofs about AgentSession, for any callers, sessions and bounds.        *)
(*                                                                         *)
(* First come facts about sequences and about Context: what it rebuilds is *)
(* the summary of the latest compaction and then messages of the file, in  *)
(* the order of the file.  Then five invariants:                           *)
(*   TypeInv   types, ids and calls that have been given out, and that a   *)
(*             tool runs only while the agent streams                      *)
(*   OnceInv   messages in the files, in the queue of events and among the *)
(*             deferred bash results are different ones, and the messages  *)
(*             of the agent are in the order in which they came            *)
(*   PairsInv  no bash result stands behind a call whose result is still   *)
(*             to come, and what comes after the end of a run answers no   *)
(*             call made before it                                         *)
(*   WaitInv   who waits for the end of a retry waits for a promise, and   *)
(*             for a promise something is on its way: the failure in the   *)
(*             queue, the worker, or a timer and a context to continue     *)
(*   InStep    the context holds what the file and the queue hold, errors  *)
(*             and answers beyond the window apart; with Controls, and     *)
(*             with what WaitInv says of the last message when the end of  *)
(*             a run is handled                                            *)
(***************************************************************************)
EXTENDS AgentSession, WellFoundedInduction, TLAPS

(* A set of natural numbers that is not empty has a least element.         *)
LEMMA LeastExists ==
  ASSUME NEW T \in SUBSET Nat, T # {}
  PROVE  \E i \in T : \A j \in T : i <= j
<1>. DEFINE R == OpToRel(<, Nat)
<1>1. \E i \in T : \A j \in T : ~ (<<j, i>> \in R)
  BY NatLessThanWellFounded, WFMin, Zenon
<1>2. \A i, j \in Nat : <<j, i>> \in R <=> j < i
  BY DEF OpToRel
<1>. HIDE DEF R
<1>3. PICK i \in T : \A j \in T : ~ (<<j, i>> \in R)
  BY <1>1
<1>4. ASSUME NEW j \in T PROVE i <= j
  <2>1. i \in Nat /\ j \in Nat /\ ~ (j < i)
    BY <1>2, <1>3
  <2>. QED
    BY <2>1
<1>. QED
  BY <1>4

(* Min and Max are defined by choice; there is something to choose.        *)
LEMMA MinKnown ==
  ASSUME NEW S \in SUBSET Nat, S # {}
  PROVE  Min(S) \in S /\ \A y \in S : Min(S) <= y
  BY LeastExists DEF Min

LEMMA MaxKnown ==
  ASSUME NEW n \in Nat, NEW S \in SUBSET (0 .. n), S # {}
  PROVE  Max(S) \in S /\ \A y \in S : y <= Max(S)
<1>. DEFINE T == {n - x : x \in S}
<1>1. T \in SUBSET Nat /\ T # {}
  <2>1. \A x \in S : n - x \in Nat
    OBVIOUS
  <2>. QED
    BY <2>1
<1>2. PICK i \in T : \A j \in T : i <= j
  BY <1>1, LeastExists
<1>3. PICK x \in S : i = n - x
  BY <1>2
<1>4. ASSUME NEW y \in S PROVE x >= y
  <2>1. n - y \in T /\ i <= n - y
    BY <1>2
  <2>. QED
    BY <1>3, <2>1
<1>. QED
  BY <1>3, <1>4 DEF Max

(* A set that holds 0 and with a number the next one holds them all.       *)
LEMMA NatInduct ==
  ASSUME NEW S, 0 \in S, \A n \in Nat : n \in S => n + 1 \in S
  PROVE  Nat \subseteq S
<1>. DEFINE T == {n \in Nat : n \notin S}
<1>. SUFFICES ASSUME T # {} PROVE FALSE
  OBVIOUS
<1>1. T \in SUBSET Nat
  OBVIOUS
<1>. HIDE DEF T
<1>2. PICK m \in T : \A j \in T : m <= j
  BY <1>1, LeastExists
<1>. USE DEF T
<1>3. m \in Nat /\ m # 0 /\ m \notin S
  BY <1>2
<1>4. m - 1 \in Nat /\ m - 1 \notin T
  BY <1>2, <1>3
<1>. QED
  BY <1>3, <1>4

(* A sequence over a set is one over every larger set.                     *)
LEMMA SeqMonotone ==
  ASSUME NEW A, NEW B, A \subseteq B, NEW s \in Seq(A)
  PROVE  s \in Seq(B)
<1>1. Len(s) \in Nat /\ s \in [1 .. Len(s) -> A]
  OBVIOUS
<1>2. s \in [1 .. Len(s) -> B]
  BY <1>1
<1>. QED
  BY <1>1, <1>2

(* The last element of a sequence taken away or looked at.                 *)
LEMMA FrontLast ==
  ASSUME NEW T, NEW s \in Seq(T), s # <<>>
  PROVE  /\ Front(s) \in Seq(T) /\ Last(s) \in T
         /\ Len(s) \in Nat /\ Len(s) > 0 /\ Len(Front(s)) = Len(s) - 1
         /\ \A i \in 1 .. Len(s) - 1 : Front(s)[i] = s[i]
<1>1. Len(s) \in Nat /\ Len(s) > 0
  OBVIOUS
<1>. DEFINE n == Len(s) - 1
<1>2. n \in Nat /\ n <= Len(s)
  BY <1>1
<1>. HIDE DEF n
<1>3. SubSeq(s, 1, n) \in Seq(T) /\ Len(SubSeq(s, 1, n)) = n
  BY <1>1, <1>2
<1>4. \A i \in 1 .. n : SubSeq(s, 1, n)[i] = s[i]
  BY <1>1, <1>2
<1>5. Front(s) = SubSeq(s, 1, n)
  BY DEF Front, n
<1>6. Last(s) \in T
  BY <1>1 DEF Last
<1>. QED
  BY <1>1, <1>3, <1>4, <1>5, <1>6 DEF n

LEMMA AppendKnown ==
  ASSUME NEW T, NEW s \in Seq(T), NEW e \in T
  PROVE  /\ Append(s, e) \in Seq(T) /\ Len(s) \in Nat /\ Len(Append(s, e)) = Len(s) + 1
         /\ \A i \in 1 .. Len(s) : Append(s, e)[i] = s[i]
         /\ Append(s, e)[Len(s) + 1] = e
  OBVIOUS

LEMMA ConcatKnown ==
  ASSUME NEW T, NEW a \in Seq(T), NEW b \in Seq(T)
  PROVE  /\ a \o b \in Seq(T) /\ Len(a \o b) = Len(a) + Len(b)
         /\ Len(a) \in Nat /\ Len(b) \in Nat
         /\ \A i \in 1 .. Len(a) : (a \o b)[i] = a[i]
         /\ \A i \in 1 .. Len(b) : (a \o b)[Len(a) + i] = b[i]
         /\ \A i \in Len(a) + 1 .. Len(a) + Len(b) : (a \o b)[i] = b[i - Len(a)]
  OBVIOUS

LEMMA TailKnown ==
  ASSUME NEW T, NEW s \in Seq(T), s # <<>>
  PROVE  /\ Tail(s) \in Seq(T) /\ Head(s) \in T /\ Head(s) = s[1]
         /\ Len(s) \in Nat /\ Len(s) > 0 /\ Len(Tail(s)) = Len(s) - 1
         /\ \A i \in 1 .. Len(s) - 1 : Tail(s)[i] = s[i + 1]
  OBVIOUS
-----------------------------------------------------------------------------
(* What Context rebuilds.                                                  *)

Known(n) == {m \in Message : m.id \in 1 .. n /\ m.call \in 0 .. n}
Lines(n) == [message : Known(n), kept : Nat]

\* f gives each message of a its place in b, in the order of b.
Embeds(f, a, b) ==
  /\ f \in [1 .. Len(a) -> 1 .. Len(b)]
  /\ \A i \in 1 .. Len(a) : a[i] = b[f[i]]
  /\ \A i, j \in 1 .. Len(a) : i < j => f[i] < f[j]

Picked(a, b) == \E f : Embeds(f, a, b)

LEMMA EmbedsItself ==
  ASSUME NEW T, NEW b \in Seq(T)
  PROVE  Picked(b, b)
<1>. DEFINE f == [i \in 1 .. Len(b) |-> i]
<1>1. Embeds(f, b, b)
  BY DEF Embeds
<1>. QED
  BY <1>1 DEF Picked

(* Picked from a part, picked from the whole.                              *)
LEMMA PickedFromPart ==
  ASSUME NEW T, NEW a \in Seq(T), NEW b \in Seq(T), NEW c \in Seq(T), NEW k \in Nat,
         Picked(a, b), k + Len(b) <= Len(c), \A i \in 1 .. Len(b) : b[i] = c[k + i]
  PROVE  \E f : Embeds(f, a, c) /\ \A i \in 1 .. Len(a) : f[i] \in k + 1 .. k + Len(b)
<1>1. PICK g : Embeds(g, a, b)
  BY DEF Picked
<1>2. Len(a) \in Nat /\ Len(b) \in Nat /\ Len(c) \in Nat
  OBVIOUS
<1>. DEFINE f == [i \in 1 .. Len(a) |-> k + g[i]]
<1>3. \A i \in 1 .. Len(a) : g[i] \in 1 .. Len(b) /\ a[i] = b[g[i]]
  BY <1>1 DEF Embeds
<1>4. \A i \in 1 .. Len(a) : f[i] \in 1 .. Len(c) /\ f[i] \in k + 1 .. k + Len(b) /\ a[i] = c[f[i]]
  BY <1>2, <1>3
<1>5. \A i, j \in 1 .. Len(a) : i < j => g[i] < g[j]
  BY <1>1 DEF Embeds
<1>6. \A i, j \in 1 .. Len(a) : i < j => f[i] < f[j]
  BY <1>3, <1>5, <1>2
<1>7. f \in [1 .. Len(a) -> 1 .. Len(c)]
  BY <1>4
<1>. HIDE DEF f
<1>8. Embeds(f, a, c)
  BY <1>4, <1>6, <1>7 DEF Embeds
<1>. QED
  BY <1>4, <1>8

(* What is picked from one part, followed by what is picked from a later   *)
(* one, is picked from the whole.                                          *)
LEMMA PickedJoined ==
  ASSUME NEW T, NEW a \in Seq(T), NEW b \in Seq(T), NEW c \in Seq(T), NEW k \in Nat,
         NEW f, Embeds(f, a, c), NEW g, Embeds(g, b, c),
         \A i \in 1 .. Len(a) : f[i] <= k, \A i \in 1 .. Len(b) : g[i] > k
  PROVE  Picked(a \o b, c)
<1>. DEFINE d == a \o b
            n == Len(a)
            h == [i \in 1 .. Len(d) |-> IF i <= n THEN f[i] ELSE g[i - n]]
<1>1. /\ d \in Seq(T) /\ Len(d) = n + Len(b) /\ n \in Nat /\ Len(b) \in Nat /\ Len(c) \in Nat
      /\ \A i \in 1 .. n : d[i] = a[i]
      /\ \A i \in n + 1 .. n + Len(b) : d[i] = b[i - n]
  BY ConcatKnown
<1>. HIDE DEF d
<1>2. /\ \A i \in 1 .. n : f[i] \in 1 .. Len(c) /\ a[i] = c[f[i]]
      /\ \A i, j \in 1 .. n : i < j => f[i] < f[j]
  BY DEF Embeds
<1>3. /\ \A i \in 1 .. Len(b) : g[i] \in 1 .. Len(c) /\ b[i] = c[g[i]]
      /\ \A i, j \in 1 .. Len(b) : i < j => g[i] < g[j]
  BY DEF Embeds
<1>. HIDE DEF n
<1>4. ASSUME NEW i \in 1 .. Len(d) PROVE h[i] \in 1 .. Len(c) /\ d[i] = c[h[i]]
  <2>1. CASE i <= n
    <3>1. i \in 1 .. n /\ h[i] = f[i]
      BY <1>1, <2>1
    <3>. QED
      BY <1>1, <1>2, <3>1 DEF n
  <2>2. CASE ~ (i <= n)
    <3>1. i - n \in 1 .. Len(b) /\ i \in n + 1 .. n + Len(b) /\ h[i] = g[i - n]
      BY <1>1, <2>2
    <3>. QED
      BY <1>1, <1>3, <3>1
  <2>. QED
    BY <2>1, <2>2
<1>5. ASSUME NEW i \in 1 .. Len(d), NEW j \in 1 .. Len(d), i < j PROVE h[i] < h[j]
  <2>1. CASE j <= n
    <3>1. i \in 1 .. n /\ j \in 1 .. n /\ h[i] = f[i] /\ h[j] = f[j]
      BY <1>1, <1>5, <2>1
    <3>. QED
      BY <1>2, <1>5, <3>1
  <2>2. CASE i <= n /\ ~ (j <= n)
    <3>1. i \in 1 .. n /\ j - n \in 1 .. Len(b) /\ h[i] = f[i] /\ h[j] = g[j - n]
      BY <1>1, <1>5, <2>2
    <3>2. f[i] <= k /\ g[j - n] > k /\ f[i] \in Nat /\ g[j - n] \in Nat
      BY <1>2, <1>3, <3>1 DEF n
    <3>. QED
      BY <3>1, <3>2
  <2>3. CASE ~ (i <= n)
    <3>1. i - n \in 1 .. Len(b) /\ j - n \in 1 .. Len(b) /\ i - n < j - n /\ h[i] = g[i - n] /\ h[j] = g[j - n]
      BY <1>1, <1>5, <2>3
    <3>. QED
      BY <1>3, <3>1
  <2>. QED
    BY <2>1, <2>2, <2>3
<1>6. h \in [1 .. Len(d) -> 1 .. Len(c)]
  BY <1>4
<1>. HIDE DEF h
<1>7. Embeds(h, d, c)
  BY <1>4, <1>5, <1>6 DEF Embeds
<1>. QED
  BY <1>7 DEF Picked, d

\* g is the function that Uncompacted defines, up to n.
Keeps(g, es, n) ==
  g = [i \in 0 .. n |->
         IF i = 0 THEN <<>>
         ELSE IF IsCompaction(es[i]) THEN g[i - 1]
         ELSE Append(g[i - 1], es[i].message)]

(* The recursive function of Uncompacted exists.                           *)
LEMMA KeepsExist ==
  ASSUME NEW es, NEW n \in Nat
  PROVE  \E g : Keeps(g, es, n)
<1>. DEFINE N == {k \in Nat : \E g : Keeps(g, es, k)}
<1>1. 0 \in N
  <2>1. Keeps([i \in 0 .. 0 |-> <<>>], es, 0)
    BY DEF Keeps
  <2>. QED
    BY <2>1
<1>2. ASSUME NEW k \in Nat, k \in N PROVE k + 1 \in N
  <2>1. PICK g : Keeps(g, es, k)
    BY <1>2
  <2>. DEFINE x == IF IsCompaction(es[k + 1]) THEN g[k] ELSE Append(g[k], es[k + 1].message)
              h == [i \in 0 .. k + 1 |-> IF i = k + 1 THEN x ELSE g[i]]
  <2>2. ASSUME NEW i \in 0 .. k + 1
        PROVE  h[i] = IF i = 0 THEN <<>>
                      ELSE IF IsCompaction(es[i]) THEN h[i - 1]
                      ELSE Append(h[i - 1], es[i].message)
    <3>1. CASE i = k + 1
      <4>1. i # 0 /\ i - 1 = k /\ k \in 0 .. k + 1 /\ k # k + 1
        BY <3>1
      <4>2. h[i] = x /\ h[i - 1] = g[k]
        BY <3>1, <4>1
      <4>. QED
        BY <3>1, <4>1, <4>2
    <3>2. CASE i # k + 1
      <4>1. i \in 0 .. k /\ (i # 0 => i - 1 \in 0 .. k + 1 /\ i - 1 # k + 1)
        BY <3>2
      <4>2. h[i] = g[i] /\ (i # 0 => h[i - 1] = g[i - 1])
        BY <3>2, <4>1
      <4>. HIDE DEF h
      <4>. QED
        BY <2>1, <4>1, <4>2 DEF Keeps
    <3>. QED
      BY <3>1, <3>2
  <2>3. Keeps(h, es, k + 1)
    <3>1. h = [i \in 0 .. k + 1 |-> h[i]]
      OBVIOUS
    <3>. HIDE DEF h
    <3>. QED
      BY <2>2, <3>1 DEF Keeps
  <2>. QED
    BY <2>3
<1>. HIDE DEF N
<1>3. Nat \subseteq N
  BY <1>1, <1>2, NatInduct
<1>. QED
  BY <1>3 DEF N

LEMMA KeepsAt ==
  ASSUME NEW es, NEW n \in Nat, NEW g, Keeps(g, es, n)
  PROVE  /\ g[0] = <<>>
         /\ \A i \in 1 .. n :
              g[i] = IF IsCompaction(es[i]) THEN g[i - 1] ELSE Append(g[i - 1], es[i].message)
<1>. DEFINE e(i) == IF i = 0 THEN <<>>
                    ELSE IF IsCompaction(es[i]) THEN g[i - 1]
                    ELSE Append(g[i - 1], es[i].message)
<1>1. g = [i \in 0 .. n |-> e(i)]
  BY DEF Keeps
<1>. HIDE DEF e
<1>2. \A i \in 0 .. n : g[i] = e(i)
  BY <1>1
<1>. USE DEF e
<1>3. \A i \in 1 .. n : i \in 0 .. n /\ i # 0
  OBVIOUS
<1>. QED
  BY <1>2, <1>3

LEMMA MessagesKnown ==
  ASSUME NEW n \in Nat, NEW es \in Seq(Lines(n))
  PROVE  /\ Messages(es) \in Seq(Known(n)) /\ Len(Messages(es)) = Len(es) /\ Len(es) \in Nat
         /\ \A i \in 1 .. Len(es) : Messages(es)[i] = es[i].message /\ es[i].message \in Known(n)
<1>1. Len(es) \in Nat /\ DOMAIN es = 1 .. Len(es) /\ \A i \in 1 .. Len(es) : es[i] \in Lines(n)
  OBVIOUS
<1>2. \A i \in 1 .. Len(es) : es[i].message \in Known(n)
  BY <1>1 DEF Lines
<1>. DEFINE ms == [i \in 1 .. Len(es) |-> es[i].message]
<1>3. ms \in Seq(Known(n)) /\ Len(ms) = Len(es) /\ \A i \in 1 .. Len(es) : ms[i] = es[i].message
  BY <1>1, <1>2
<1>. QED
  BY <1>1, <1>2, <1>3 DEF Messages

(* Uncompacted picks messages.                                             *)
LEMMA UncompactedKnown ==
  ASSUME NEW n \in Nat, NEW es \in Seq(Lines(n))
  PROVE  Uncompacted(es) \in Seq(Known(n)) /\ Picked(Uncompacted(es), Messages(es))
<1>. DEFINE l == Len(es)
            b == Messages(es)
<1>1. /\ b \in Seq(Known(n)) /\ Len(b) = l /\ l \in Nat
      /\ \A i \in 1 .. l : b[i] = es[i].message /\ es[i].message \in Known(n)
  BY MessagesKnown
<1>. DEFINE g == CHOOSE g : Keeps(g, es, l)
<1>2. Keeps(g, es, l)
  BY <1>1, KeepsExist
<1>3. Uncompacted(es) = g[l]
  BY DEF Uncompacted, Keeps
<1>. HIDE DEF g, l, b
<1>4. /\ g[0] = <<>>
      /\ \A i \in 1 .. l :
           g[i] = IF IsCompaction(es[i]) THEN g[i - 1] ELSE Append(g[i - 1], es[i].message)
  BY <1>1, <1>2, KeepsAt
<1>. DEFINE Fine(k, f) == Embeds(f, g[k], b) /\ \A i \in 1 .. Len(g[k]) : f[i] <= k
            N == {k \in Nat : k <= l => g[k] \in Seq(Known(n)) /\ \E f : Fine(k, f)}
<1>5. 0 \in N
  <2>1. g[0] \in Seq(Known(n)) /\ Len(g[0]) = 0
    BY <1>4
  <2>2. Fine(0, [i \in 1 .. 0 |-> 0])
    BY <2>1 DEF Embeds
  <2>. QED
    BY <2>1, <2>2
<1>6. ASSUME NEW k \in Nat, k \in N PROVE k + 1 \in N
  <2>. SUFFICES ASSUME k + 1 <= l
                PROVE  g[k + 1] \in Seq(Known(n)) /\ \E f : Fine(k + 1, f)
    OBVIOUS
  <2>1. k + 1 \in 1 .. l /\ k + 1 - 1 = k /\ k <= l
    BY <1>1
  <2>2. g[k] \in Seq(Known(n)) /\ \E f : Fine(k, f)
    BY <1>6, <2>1
  <2>3. PICK f : Fine(k, f)
    BY <2>2
  <2>4. g[k + 1] = IF IsCompaction(es[k + 1]) THEN g[k] ELSE Append(g[k], es[k + 1].message)
    BY <1>4, <2>1
  <2>. DEFINE a == g[k]
              m == es[k + 1].message
  <2>5. m \in Known(n) /\ b[k + 1] = m /\ k + 1 \in 1 .. Len(b) /\ a \in Seq(Known(n))
    BY <1>1, <2>1, <2>2
  <2>6. /\ f \in [1 .. Len(a) -> 1 .. Len(b)]
        /\ \A i \in 1 .. Len(a) : a[i] = b[f[i]] /\ f[i] <= k
        /\ \A i, j \in 1 .. Len(a) : i < j => f[i] < f[j]
    BY <2>3 DEF Embeds
  <2>7. CASE IsCompaction(es[k + 1])
    <3>1. g[k + 1] = a
      BY <2>4, <2>7
    <3>2. \A i \in 1 .. Len(a) : f[i] <= k + 1
      BY <2>6, <1>1
    <3>. QED
      BY <2>3, <2>5, <3>1, <3>2
  <2>8. CASE ~ IsCompaction(es[k + 1])
    <3>. DEFINE c == Append(a, m)
                h == [i \in 1 .. Len(a) + 1 |-> IF i = Len(a) + 1 THEN k + 1 ELSE f[i]]
    <3>1. g[k + 1] = c
      BY <2>4, <2>8
    <3>2. /\ c \in Seq(Known(n)) /\ Len(a) \in Nat /\ Len(c) = Len(a) + 1
          /\ \A i \in 1 .. Len(a) : c[i] = a[i]
          /\ c[Len(a) + 1] = m
      BY <2>5, AppendKnown
    <3>. HIDE DEF c, a
    <3>3. \A i \in 1 .. Len(a) : h[i] = f[i] /\ h[i] \in 1 .. Len(b) /\ h[i] <= k
      BY <2>6, <3>2
    <3>4. h[Len(a) + 1] = k + 1
      BY <3>2
    <3>5. \A i \in 1 .. Len(c) : i \in 1 .. Len(a) \/ i = Len(a) + 1
      BY <3>2
    <3>6. h \in [1 .. Len(c) -> 1 .. Len(b)]
      BY <2>5, <3>2, <3>3, <3>4, <3>5
    <3>. HIDE DEF h
    <3>7. \A i \in 1 .. Len(c) : c[i] = b[h[i]]
      BY <2>5, <2>6, <3>2, <3>3, <3>4, <3>5
    <3>8. ASSUME NEW i \in 1 .. Len(c), NEW j \in 1 .. Len(c), i < j PROVE h[i] < h[j]
      <4>1. i \in 1 .. Len(a)
        BY <3>2, <3>8
      <4>2. CASE j \in 1 .. Len(a)
        BY <2>6, <3>3, <3>8, <4>1, <4>2
      <4>3. CASE j = Len(a) + 1
        <5>1. h[i] <= k /\ h[i] \in Nat /\ h[j] = k + 1
          BY <3>3, <3>4, <4>1, <4>3
        <5>. QED
          BY <5>1
      <4>. QED
        BY <3>5, <4>2, <4>3
    <3>9. ASSUME NEW i \in 1 .. Len(c) PROVE h[i] <= k + 1
      <4>1. CASE i \in 1 .. Len(a)
        <5>1. h[i] \in Nat /\ h[i] <= k
          BY <3>3, <4>1
        <5>. QED
          BY <5>1
      <4>2. CASE i = Len(a) + 1
        BY <3>4, <4>2
      <4>. QED
        BY <3>5, <4>1, <4>2
    <3>10. Embeds(h, c, b)
      BY <3>6, <3>7, <3>8 DEF Embeds
    <3>11. Fine(k + 1, h)
      BY <3>1, <3>9, <3>10
    <3>. HIDE DEF Fine
    <3>. QED
      BY <3>1, <3>2, <3>11
  <2>. QED
    BY <2>7, <2>8
<1>. HIDE DEF N
<1>7. Nat \subseteq N
  BY <1>5, <1>6, NatInduct
<1>8. g[l] \in Seq(Known(n)) /\ \E f : Fine(l, f)
  <2>1. l \in N /\ l <= l
    BY <1>1, <1>7
  <2>. QED
    BY <2>1 DEF N
<1>9. Picked(g[l], b)
  BY <1>8 DEF Picked
<1>. QED
  BY <1>3, <1>8, <1>9 DEF b

LEMMA SubSeqKnown ==
  ASSUME NEW T, NEW s \in Seq(T), NEW k \in Nat, NEW l \in Nat, k <= l, l <= Len(s)
  PROVE  /\ SubSeq(s, k + 1, l) \in Seq(T) /\ Len(SubSeq(s, k + 1, l)) = l - k
         /\ \A i \in 1 .. l - k : SubSeq(s, k + 1, l)[i] = s[k + i]
<1>1. Len(s) \in Nat
  OBVIOUS
<1>2. Len(SubSeq(s, k + 1, l)) = l - k
  BY <1>1
<1>3. \A i \in 1 .. l - k : SubSeq(s, k + 1, l)[i] = s[k + i]
  BY <1>1
<1>4. SubSeq(s, k + 1, l) \in Seq(T)
  BY <1>1
<1>. QED
  BY <1>2, <1>3, <1>4

LEMMA LatestKnown ==
  ASSUME NEW n \in Nat, NEW file \in Seq(Lines(n))
  PROVE  /\ SelectLastInSeq(file, IsCompaction) \in 0 .. Len(file)
         /\ SelectLastInSeq(file, IsCompaction) # 0 =>
              IsCompaction(file[SelectLastInSeq(file, IsCompaction)])
         /\ LatestCompaction(file) \in Nat
<1>. DEFINE I == {i \in 1 .. Len(file) : IsCompaction(file[i])}
            at == SelectLastInSeq(file, IsCompaction)
<1>1. at = IF I # {} THEN Max(I) ELSE 0
  BY DEF SelectLastInSeq
<1>2. Len(file) \in Nat
  OBVIOUS
<1>3. I # {} => Max(I) \in I
  <2>1. I \in SUBSET (0 .. Len(file))
    BY <1>2
  <2>. HIDE DEF I
  <2>. QED
    BY <1>2, <2>1, MaxKnown
<1>4. at \in 0 .. Len(file) /\ (at # 0 => at \in 1 .. Len(file) /\ IsCompaction(file[at]))
  BY <1>1, <1>2, <1>3
<1>. HIDE DEF I, at
<1>5. at # 0 => file[at].message.id \in Nat
  <2>1. \A i \in 1 .. Len(file) : file[i].message \in Known(n)
    BY MessagesKnown
  <2>2. \A m \in Known(n) : m.id \in Nat
    BY DEF Known, Message
  <2>. QED
    BY <1>4, <2>1, <2>2
<1>. QED
  BY <1>4, <1>5 DEF LatestCompaction, at

(* A rebuilt context is that of the file, or a summary and messages picked *)
(* from the file.                                                          *)
LEMMA ContextPicked ==
  ASSUME NEW n \in Nat, NEW file \in Seq(Lines(n))
  PROVE  \/ Context(file) = Messages(file)
         \/ \E at \in 1 .. Len(file), rest \in Seq(Known(n)) :
              /\ IsCompaction(file[at]) /\ Context(file) = <<file[at].message>> \o rest
              /\ Picked(rest, Messages(file))
<1>. DEFINE at    == SelectLastInSeq(file, IsCompaction)
<1>0. at \in 0 .. Len(file) /\ (at # 0 => IsCompaction(file[at])) /\ Len(file) \in Nat
  <2>1. at \in 0 .. Len(file) /\ (at # 0 => IsCompaction(file[at]))
    BY LatestKnown, Zenon
  <2>2. Len(file) \in Nat
    OBVIOUS
  <2>. QED
    BY <2>1, <2>2
<1>. DEFINE found == SelectInSeq(file, LAMBDA e : e.message.id = file[at].kept)
            kept  == IF found \in 1 .. at - 1 THEN SubSeq(file, found, at - 1) ELSE <<>>
            tail  == SubSeq(file, at + 1, Len(file))
            b     == Messages(file)
            rest  == Uncompacted(kept) \o Messages(tail)
<1>1. CASE at = 0
  BY <1>1 DEF Context
<1>2. CASE at # 0
  <2>1. at \in 1 .. Len(file) /\ IsCompaction(file[at]) /\ Len(file) \in Nat
    <3>. HIDE DEF at
    <3>. QED
      BY <1>0, <1>2
  <2>2. Context(file) = (<<file[at].message>> \o Uncompacted(kept)) \o Messages(tail)
    BY <1>2 DEF Context
  <2>. HIDE DEF at, found
  <2>3. /\ b \in Seq(Known(n)) /\ Len(b) = Len(file)
        /\ \A i \in 1 .. Len(file) : b[i] = file[i].message /\ file[i].message \in Known(n)
    BY MessagesKnown
  <2>4. PICK k \in Nat : /\ kept \in Seq(Lines(n)) /\ k + Len(kept) <= at - 1
                         /\ \A i \in 1 .. Len(kept) : kept[i] = file[k + i]
    <3>1. CASE found \in 1 .. at - 1
      <4>. DEFINE k == found - 1
                  l == at - 1
      <4>1. k \in Nat /\ l \in Nat /\ k <= l /\ l <= Len(file) /\ k + 1 = found
        BY <2>1, <3>1
      <4>2. kept = SubSeq(file, k + 1, l)
        BY <3>1, <4>1
      <4>. HIDE DEF k, l, kept
      <4>3. kept \in Seq(Lines(n)) /\ Len(kept) = l - k /\ \A i \in 1 .. Len(kept) : kept[i] = file[k + i]
        BY <4>1, <4>2, SubSeqKnown
      <4>4. k + Len(kept) <= at - 1
        BY <4>1, <4>3 DEF l
      <4>. QED
        BY <4>1, <4>3, <4>4
    <3>2. CASE found \notin 1 .. at - 1
      <4>1. kept = <<>> /\ Len(kept) = 0 /\ kept \in Seq(Lines(n))
        BY <3>2
      <4>2. 0 + Len(kept) <= at - 1
        BY <2>1, <4>1
      <4>. QED
        BY <4>1, <4>2
    <3>. QED
      BY <3>1, <3>2
  <2>5. /\ tail \in Seq(Lines(n)) /\ at + Len(tail) = Len(file)
        /\ \A i \in 1 .. Len(tail) : tail[i] = file[at + i]
    <3>1. at \in Nat /\ at <= Len(file)
      BY <2>1
    <3>2. /\ tail \in Seq(Lines(n)) /\ Len(tail) = Len(file) - at
          /\ \A i \in 1 .. Len(file) - at : tail[i] = file[at + i]
      BY <2>1, <3>1, SubSeqKnown
    <3>. QED
      BY <2>1, <3>1, <3>2
  <2>. HIDE DEF kept, tail, b
  <2>. DEFINE u == Uncompacted(kept)
              v == Messages(tail)
  <2>6. /\ u \in Seq(Known(n)) /\ Picked(u, Messages(kept))
        /\ Messages(kept) \in Seq(Known(n)) /\ Len(Messages(kept)) = Len(kept) /\ Len(kept) \in Nat
        /\ \A i \in 1 .. Len(kept) : Messages(kept)[i] = kept[i].message
    BY <2>4, UncompactedKnown, MessagesKnown
  <2>7. /\ v \in Seq(Known(n)) /\ Picked(v, v) /\ Len(v) = Len(tail) /\ Len(tail) \in Nat
        /\ \A i \in 1 .. Len(tail) : v[i] = tail[i].message
    BY <2>5, MessagesKnown, EmbedsItself
  <2>. HIDE DEF u, v
  <2>8. \E f : Embeds(f, u, b) /\ \A i \in 1 .. Len(u) : f[i] \in k + 1 .. k + Len(kept)
    <3>. DEFINE c == Messages(kept)
    <3>1. k + Len(c) <= Len(b)
      BY <2>1, <2>3, <2>4, <2>6
    <3>2. \A i \in 1 .. Len(c) : c[i] = b[k + i]
      <4>1. \A i \in 1 .. Len(c) : k + i \in 1 .. Len(file)
        BY <2>1, <2>4, <2>6
      <4>. QED
        BY <2>3, <2>4, <2>6, <4>1
    <3>3. c \in Seq(Known(n)) /\ Picked(u, c) /\ Len(c) = Len(kept)
      BY <2>6
    <3>. HIDE DEF c
    <3>. QED
      BY <2>3, <2>6, <3>1, <3>2, <3>3, PickedFromPart
  <2>9. \E f : Embeds(f, v, b) /\ \A i \in 1 .. Len(v) : f[i] \in at + 1 .. at + Len(v)
    <3>1. at \in Nat /\ at + Len(v) <= Len(b)
      BY <2>1, <2>3, <2>5, <2>7
    <3>2. \A i \in 1 .. Len(v) : v[i] = b[at + i]
      <4>1. \A i \in 1 .. Len(v) : at + i \in 1 .. Len(file)
        BY <2>1, <2>5, <2>7
      <4>. QED
        BY <2>3, <2>5, <2>7, <4>1
    <3>. QED
      BY <2>3, <2>7, <3>1, <3>2, PickedFromPart
  <2>10. PICK f : Embeds(f, u, b) /\ \A i \in 1 .. Len(u) : f[i] \in k + 1 .. k + Len(kept)
    BY <2>8
  <2>11. PICK g : Embeds(g, v, b) /\ \A i \in 1 .. Len(v) : g[i] \in at + 1 .. at + Len(v)
    BY <2>9
  <2>12. (\A i \in 1 .. Len(u) : f[i] <= at) /\ (\A i \in 1 .. Len(v) : g[i] > at) /\ at \in Nat
    BY <2>1, <2>4, <2>6, <2>7, <2>10, <2>11
  <2>13. Picked(u \o v, b)
    BY <2>3, <2>6, <2>7, <2>10, <2>11, <2>12, PickedJoined
  <2>. DEFINE x == <<file[at].message>>
  <2>14. x \in Seq(Known(n)) /\ x = <<file[at].message>>
    BY <2>1, <2>3
  <2>. HIDE DEF x
  <2>15. (x \o u) \o v = x \o (u \o v) /\ u \o v \in Seq(Known(n))
    BY <2>6, <2>7, <2>14
  <2>16. Context(file) = <<file[at].message>> \o (u \o v)
    BY <2>2, <2>14, <2>15 DEF u, v
  <2>. QED
    BY <2>1, <2>13, <2>15, <2>16 DEF b
<1>. QED
  BY <1>1, <1>2

LEMMA ContextTyped ==
  ASSUME NEW n \in Nat, NEW file \in Seq(Lines(n))
  PROVE  Context(file) \in Seq(Known(n))
<1>1. /\ Messages(file) \in Seq(Known(n))
      /\ \A i \in 1 .. Len(file) : file[i].message \in Known(n)
  BY MessagesKnown
<1>2. ASSUME NEW m \in Known(n), NEW rest \in Seq(Known(n))
      PROVE  <<m>> \o rest \in Seq(Known(n))
  OBVIOUS
<1>3. \A m \in Known(n), rest \in Seq(Known(n)) : <<m>> \o rest \in Seq(Known(n))
  BY <1>2
<1>. QED
  BY <1>1, <1>3, ContextPicked
-----------------------------------------------------------------------------
(* Calls, results and bash results.                                        *)

Bash(n) == {m \in Known(n) : m.role = "bash" /\ m.call = 0}

\* No bash result stands between a call and its result.
Unsplit(msgs) ==
  \A j \in 1 .. Len(msgs) : msgs[j].role = "bash" =>
    \A i \in 1 .. j - 1, k \in j + 1 .. Len(msgs) : msgs[k].call # msgs[i].id

\* Nor will one if the result of the call c is added.
Clear(msgs, c) ==
  \A j \in 1 .. Len(msgs) : msgs[j].role = "bash" => \A i \in 1 .. j - 1 : msgs[i].id # c

\* The same for several calls, none of which was made by a summary.
Whole(msgs, C) ==
  /\ Unsplit(msgs)
  /\ \A c \in C : Clear(msgs, c)
  /\ \A i \in 1 .. Len(msgs) : msgs[i].role = "summary" =>
       msgs[i].id \notin C /\ \A j \in 1 .. Len(msgs) : msgs[j].call # msgs[i].id

LEMMA WholePicked ==
  ASSUME NEW T, NEW a \in Seq(T), NEW b \in Seq(T), Picked(a, b), NEW C, Whole(b, C)
  PROVE  Whole(a, C)
<1>1. PICK f : Embeds(f, a, b)
  BY DEF Picked
<1>2. /\ Len(a) \in Nat /\ Len(b) \in Nat
      /\ \A i \in 1 .. Len(a) : f[i] \in 1 .. Len(b) /\ a[i] = b[f[i]]
      /\ \A i, j \in 1 .. Len(a) : i < j => f[i] < f[j]
  BY <1>1 DEF Embeds
<1>3. ASSUME NEW j \in 1 .. Len(a), a[j].role = "bash", NEW i \in 1 .. j - 1
      PROVE  /\ \A k \in j + 1 .. Len(a) : a[k].call # a[i].id
             /\ \A c \in C : a[i].id # c
  <2>1. i \in 1 .. Len(a) /\ i < j
    BY <1>2
  <2>2. f[j] \in 1 .. Len(b) /\ b[f[j]].role = "bash" /\ f[i] \in 1 .. f[j] - 1 /\ a[i] = b[f[i]]
    BY <1>2, <1>3, <2>1
  <2>3. ASSUME NEW k \in j + 1 .. Len(a) PROVE a[k].call # a[i].id
    <3>1. k \in 1 .. Len(a) /\ j < k
      BY <1>2
    <3>2. f[k] \in f[j] + 1 .. Len(b) /\ a[k] = b[f[k]]
      BY <1>2, <2>2, <3>1
    <3>. QED
      BY <2>2, <3>2 DEF Whole, Unsplit
  <2>. QED
    BY <2>2, <2>3 DEF Whole, Clear
<1>4. ASSUME NEW i \in 1 .. Len(a), a[i].role = "summary"
      PROVE  a[i].id \notin C /\ \A j \in 1 .. Len(a) : a[j].call # a[i].id
  <2>1. f[i] \in 1 .. Len(b) /\ b[f[i]].role = "summary" /\ a[i].id = b[f[i]].id
    BY <1>2, <1>4
  <2>2. a[i].id \notin C /\ \A k \in 1 .. Len(b) : b[k].call # a[i].id
    BY <2>1 DEF Whole
  <2>3. \A j \in 1 .. Len(a) : f[j] \in 1 .. Len(b) /\ a[j] = b[f[j]]
    BY <1>2
  <2>. QED
    BY <2>2, <2>3
<1>5. Unsplit(a)
  BY <1>3 DEF Unsplit
<1>6. \A c \in C : Clear(a, c)
  BY <1>3 DEF Clear
<1>. QED
  BY <1>4, <1>5, <1>6 DEF Whole

LEMMA WholeLess ==
  ASSUME NEW msgs, NEW C, Whole(msgs, C), NEW D, D \subseteq C
  PROVE  Whole(msgs, D)
  BY DEF Whole

(* A new id is no call of what is there.                                   *)
LEMMA WholeNew ==
  ASSUME NEW n \in Nat, NEW a \in Seq(Known(n)), NEW C, Whole(a, C),
         NEW c, c \notin 1 .. n
  PROVE  Whole(a, C \cup {c})
<1>1. Len(a) \in Nat /\ \A i \in 1 .. Len(a) : a[i].id \in 1 .. n
  <2>1. \A i \in 1 .. Len(a) : a[i] \in Known(n)
    OBVIOUS
  <2>. QED
    BY <2>1 DEF Known
<1>2. Clear(a, c)
  BY <1>1 DEF Clear
<1>. QED
  BY <1>1, <1>2 DEF Whole

(* The result of a call is added, or a message without one.                *)
LEMMA WholeAppend ==
  ASSUME NEW T, NEW a \in Seq(T), NEW C, Whole(a, C),
         NEW m \in T, m.role \notin {"bash", "summary"}, m.call \in C
  PROVE  Whole(Append(a, m), C)
<1>. DEFINE d == Append(a, m)
            l == Len(a)
<1>1. /\ l \in Nat /\ Len(d) = l + 1 /\ d[l + 1] = m
      /\ \A i \in 1 .. l : d[i] = a[i]
  OBVIOUS
<1>. HIDE DEF d
<1>2. ASSUME NEW j \in 1 .. Len(d), d[j].role = "bash", NEW i \in 1 .. j - 1
      PROVE  /\ \A k \in j + 1 .. Len(d) : d[k].call # d[i].id
             /\ \A c \in C : d[i].id # c
  <2>1. j \in 1 .. l
    BY <1>1, <1>2
  <2>2. a[j].role = "bash" /\ i \in 1 .. l /\ d[i] = a[i]
    BY <1>1, <1>2, <2>1
  <2>3. \A c \in C : d[i].id # c
    BY <2>1, <2>2 DEF Whole, Clear
  <2>4. ASSUME NEW k \in j + 1 .. Len(d) PROVE d[k].call # d[i].id
    <3>1. CASE k = l + 1
      BY <1>1, <2>3, <3>1
    <3>2. CASE k # l + 1
      <4>1. k \in j + 1 .. l /\ d[k] = a[k]
        BY <1>1, <2>1, <3>2
      <4>. QED
        BY <2>1, <2>2, <4>1 DEF Whole, Unsplit
    <3>. QED
      BY <3>1, <3>2
  <2>. QED
    BY <2>3, <2>4
<1>3. ASSUME NEW i \in 1 .. Len(d), d[i].role = "summary"
      PROVE  d[i].id \notin C /\ \A j \in 1 .. Len(d) : d[j].call # d[i].id
  <2>1. i \in 1 .. l /\ d[i] = a[i]
    BY <1>1, <1>3
  <2>2. a[i].id \notin C /\ \A j \in 1 .. l : a[j].call # a[i].id
    BY <1>3, <2>1 DEF Whole
  <2>3. \A j \in 1 .. Len(d) : j = l + 1 \/ (j \in 1 .. l /\ d[j] = a[j])
    BY <1>1
  <2>. QED
    BY <1>1, <2>1, <2>2, <2>3
<1>. QED
  BY <1>2, <1>3 DEF Whole, Unsplit, Clear, d

(* A summary is added.                                                     *)
LEMMA WholeSummary ==
  ASSUME NEW n \in Nat, NEW T, NEW a \in Seq(T), \A i \in 1 .. Len(a) : a[i] \in Known(n),
         NEW C, C \subseteq 0 .. n, Whole(a, C),
         NEW m \in T, m.role = "summary", m.id = n + 1, m.call = 0
  PROVE  Whole(Append(a, m), C)
<1>. DEFINE d == Append(a, m)
            l == Len(a)
<1>1. /\ l \in Nat /\ Len(d) = l + 1 /\ d[l + 1] = m
      /\ \A i \in 1 .. l : d[i] = a[i]
  OBVIOUS
<1>. HIDE DEF d
<1>2. \A i \in 1 .. l : a[i].id \in 1 .. n /\ a[i].call \in 0 .. n
  BY DEF Known
<1>3. ASSUME NEW j \in 1 .. Len(d), d[j].role = "bash", NEW i \in 1 .. j - 1
      PROVE  /\ \A k \in j + 1 .. Len(d) : d[k].call # d[i].id
             /\ \A c \in C : d[i].id # c
  <2>1. j \in 1 .. l
    BY <1>1, <1>3
  <2>2. a[j].role = "bash" /\ i \in 1 .. l /\ d[i] = a[i]
    BY <1>1, <1>3, <2>1
  <2>3. \A c \in C : d[i].id # c
    BY <2>1, <2>2 DEF Whole, Clear
  <2>4. ASSUME NEW k \in j + 1 .. Len(d) PROVE d[k].call # d[i].id
    <3>1. CASE k = l + 1
      BY <1>1, <1>2, <2>2, <3>1
    <3>2. CASE k # l + 1
      <4>1. k \in j + 1 .. l /\ d[k] = a[k]
        BY <1>1, <2>1, <3>2
      <4>. QED
        BY <2>1, <2>2, <4>1 DEF Whole, Unsplit
    <3>. QED
      BY <3>1, <3>2
  <2>. QED
    BY <2>3, <2>4
<1>4. ASSUME NEW i \in 1 .. Len(d), d[i].role = "summary"
      PROVE  d[i].id \notin C /\ \A j \in 1 .. Len(d) : d[j].call # d[i].id
  <2>1. CASE i = l + 1
    <3>1. d[i].id = n + 1 /\ n + 1 \notin C
      BY <1>1, <2>1
    <3>2. \A j \in 1 .. Len(d) : d[j].call \in 0 .. n
      BY <1>1, <1>2
    <3>. QED
      BY <3>1, <3>2
  <2>2. CASE i # l + 1
    <3>1. i \in 1 .. l /\ d[i] = a[i]
      BY <1>1, <2>2
    <3>2. a[i].id \notin C /\ (\A j \in 1 .. l : a[j].call # a[i].id) /\ a[i].id # 0
      BY <1>2, <1>4, <3>1 DEF Whole
    <3>3. \A j \in 1 .. Len(d) : j = l + 1 \/ (j \in 1 .. l /\ d[j] = a[j])
      BY <1>1
    <3>. QED
      BY <1>1, <3>1, <3>2, <3>3
  <2>. QED
    BY <2>1, <2>2
<1>. QED
  BY <1>3, <1>4 DEF Whole, Unsplit, Clear, d

(* Bash results are added after every call that is still to be answered.   *)
LEMMA WholeBash ==
  ASSUME NEW n \in Nat, NEW T, NEW a \in Seq(T), \A i \in 1 .. Len(a) : a[i] \in Known(n),
         NEW b \in Seq(T), \A i \in 1 .. Len(b) : b[i] \in Bash(n),
         NEW C, Whole(a, C),
         \A i \in 1 .. Len(a) : a[i].id \notin C, \A i \in 1 .. Len(b) : b[i].id \notin C
  PROVE  Whole(a \o b, C)
<1>. DEFINE d == a \o b
            l == Len(a)
<1>1. /\ l \in Nat /\ Len(b) \in Nat /\ Len(d) = l + Len(b)
      /\ \A i \in 1 .. l : d[i] = a[i]
      /\ \A i \in l + 1 .. l + Len(b) : d[i] = b[i - l]
  BY ConcatKnown
<1>. HIDE DEF d
<1>2. \A i \in 1 .. l : a[i].id \in 1 .. n /\ a[i].call \in 0 .. n
  BY DEF Known
<1>3. \A i \in 1 .. Len(b) : b[i].id \in 1 .. n /\ b[i].role = "bash" /\ b[i].call = 0
  BY DEF Known, Bash
<1>4. ASSUME NEW i \in 1 .. Len(d)
      PROVE  (i \in 1 .. l /\ d[i] = a[i]) \/ (i > l /\ i - l \in 1 .. Len(b) /\ d[i] = b[i - l])
  BY <1>1
<1>5. \A i \in 1 .. Len(d) : d[i].id \notin C /\ d[i].id \in 1 .. n
  BY <1>2, <1>3, <1>4
<1>6. \A i \in 1 .. Len(d) : i > l => d[i].call = 0 /\ d[i].role = "bash"
  BY <1>1, <1>3, <1>4
<1>7. ASSUME NEW j \in 1 .. Len(d), d[j].role = "bash", NEW i \in 1 .. j - 1,
             NEW k \in j + 1 .. Len(d)
      PROVE  d[k].call # d[i].id
  <2>1. i \in 1 .. Len(d) /\ k \in 1 .. Len(d) /\ i < j /\ j < k
    BY <1>1
  <2>2. CASE k > l
    <3>1. d[k].call = 0 /\ d[i].id \in 1 .. n
      BY <1>5, <1>6, <2>1, <2>2
    <3>. QED
      BY <3>1
  <2>3. CASE ~ (k > l)
    <3>1. i \in 1 .. l /\ j \in 1 .. l /\ k \in 1 .. l
      BY <1>1, <2>1, <2>3
    <3>2. d[i] = a[i] /\ d[j] = a[j] /\ d[k] = a[k]
      BY <1>1, <3>1
    <3>3. k \in j + 1 .. l
      BY <1>1, <3>1
    <3>. QED
      BY <1>7, <3>1, <3>2, <3>3 DEF Whole, Unsplit
  <2>. QED
    BY <2>2, <2>3
<1>8. ASSUME NEW c \in C PROVE Clear(d, c)
  <2>1. \A j \in 1 .. Len(d) : \A i \in 1 .. j - 1 : i \in 1 .. Len(d)
    BY <1>1
  <2>. QED
    BY <1>5, <2>1 DEF Clear
<1>9. ASSUME NEW i \in 1 .. Len(d), d[i].role = "summary"
      PROVE  d[i].id \notin C /\ \A j \in 1 .. Len(d) : d[j].call # d[i].id
  <2>1. i \in 1 .. l /\ d[i] = a[i]
    BY <1>4, <1>6, <1>9
  <2>2. (\A j \in 1 .. l : a[j].call # a[i].id) /\ a[i].id # 0
    BY <1>2, <1>9, <2>1 DEF Whole
  <2>3. \A j \in 1 .. Len(d) : d[j].call # a[i].id
    BY <1>1, <1>4, <1>6, <2>2
  <2>. QED
    BY <1>5, <2>1, <2>3
<1>10. Unsplit(d)
  BY <1>7 DEF Unsplit
<1>. QED
  BY <1>8, <1>9, <1>10 DEF Whole, d

(* The context rebuilt from a file.                                        *)
LEMMA WholeRebuilt ==
  ASSUME NEW n \in Nat, NEW file \in Seq(Lines(n)), NEW C, Whole(Messages(file), C)
  PROVE  Context(file) \in Seq(Known(n)) /\ Whole(Context(file), C)
<1>. DEFINE b == Messages(file)
<1>1. /\ b \in Seq(Known(n)) /\ Len(b) = Len(file) /\ Len(file) \in Nat
      /\ \A i \in 1 .. Len(file) : b[i] = file[i].message /\ file[i].message \in Known(n)
  BY MessagesKnown
<1>. HIDE DEF b
<1>2. CASE Context(file) = b
  BY <1>1, <1>2 DEF b
<1>3. ASSUME NEW at \in 1 .. Len(file), NEW rest \in Seq(Known(n)), IsCompaction(file[at]),
             Context(file) = <<file[at].message>> \o rest, Picked(rest, b)
      PROVE  Context(file) \in Seq(Known(n)) /\ Whole(Context(file), C)
  <2>. DEFINE m == file[at].message
              x == <<m>>
              d == x \o rest
  <2>1. m \in Known(n) /\ m = b[at] /\ at \in 1 .. Len(b) /\ m.role = "summary"
    BY <1>1, <1>3 DEF IsCompaction
  <2>2. m.id \notin C /\ \A j \in 1 .. Len(b) : b[j].call # m.id
    BY <2>1 DEF Whole, b
  <2>3. Whole(rest, C)
    BY <1>1, <1>3, WholePicked DEF b
  <2>4. \A i \in 1 .. Len(rest) : rest[i].call # m.id
    <3>1. PICK f : Embeds(f, rest, b)
      BY <1>3 DEF Picked
    <3>2. \A i \in 1 .. Len(rest) : f[i] \in 1 .. Len(b) /\ rest[i] = b[f[i]]
      BY <3>1 DEF Embeds
    <3>. QED
      BY <2>2, <3>2
  <2>5. x \in Seq(Known(n)) /\ Len(x) = 1 /\ x[1] = m
    BY <2>1
  <2>. HIDE DEF x
  <2>6. /\ d \in Seq(Known(n)) /\ Len(rest) \in Nat /\ Len(d) = 1 + Len(rest) /\ d[1] = m
        /\ \A i \in 2 .. Len(d) : d[i] = rest[i - 1]
    <3>1. /\ d \in Seq(Known(n)) /\ Len(rest) \in Nat /\ Len(d) = Len(x) + Len(rest)
          /\ \A i \in 1 .. Len(x) : d[i] = x[i]
          /\ \A i \in Len(x) + 1 .. Len(x) + Len(rest) : d[i] = rest[i - Len(x)]
      BY <2>5, ConcatKnown
    <3>. HIDE DEF d
    <3>. QED
      BY <2>5, <3>1
  <2>. HIDE DEF d
  <2>7. ASSUME NEW i \in 1 .. Len(d)
        PROVE  (i = 1 /\ d[i] = m) \/ (i - 1 \in 1 .. Len(rest) /\ d[i] = rest[i - 1])
    BY <2>6
  <2>8. ASSUME NEW j \in 1 .. Len(d), d[j].role = "bash", NEW i \in 1 .. j - 1
        PROVE  /\ \A k \in j + 1 .. Len(d) : d[k].call # d[i].id
               /\ \A c \in C : d[i].id # c
    <3>1. j - 1 \in 1 .. Len(rest) /\ rest[j - 1].role = "bash" /\ i \in 1 .. Len(d)
      BY <2>1, <2>6, <2>7, <2>8
    <3>2. \A k \in j + 1 .. Len(d) : k - 1 \in (j - 1) + 1 .. Len(rest) /\ d[k] = rest[k - 1]
      BY <2>6
    <3>3. CASE i = 1
      <4>1. \A k \in j + 1 .. Len(d) : k - 1 \in 1 .. Len(rest)
        BY <2>6
      <4>. QED
        BY <2>2, <2>4, <2>6, <3>2, <3>3, <4>1
    <3>4. CASE i # 1
      <4>1. i - 1 \in 1 .. (j - 1) - 1 /\ d[i] = rest[i - 1]
        BY <2>6, <3>1, <3>4
      <4>. QED
        BY <2>3, <3>1, <3>2, <4>1 DEF Whole, Unsplit, Clear
    <3>. QED
      BY <3>3, <3>4
  <2>9. ASSUME NEW i \in 1 .. Len(d), d[i].role = "summary"
        PROVE  d[i].id \notin C /\ \A j \in 1 .. Len(d) : d[j].call # d[i].id
    <3>1. PICK p \in 1 .. Len(b) : d[i] = b[p]
      <4>1. PICK f : Embeds(f, rest, b)
        BY <1>3 DEF Picked
      <4>2. \A k \in 1 .. Len(rest) : f[k] \in 1 .. Len(b) /\ rest[k] = b[f[k]]
        BY <4>1 DEF Embeds
      <4>. QED
        BY <2>1, <2>7, <4>2
    <3>2. \A j \in 1 .. Len(d) : \E q \in 1 .. Len(b) : d[j] = b[q]
      <4>1. PICK f : Embeds(f, rest, b)
        BY <1>3 DEF Picked
      <4>2. \A k \in 1 .. Len(rest) : f[k] \in 1 .. Len(b) /\ rest[k] = b[f[k]]
        BY <4>1 DEF Embeds
      <4>. QED
        BY <2>1, <2>7, <4>2
    <3>3. b[p].id \notin C /\ \A j \in 1 .. Len(b) : b[j].call # b[p].id
      BY <2>9, <3>1 DEF Whole, b
    <3>. QED
      BY <3>1, <3>2, <3>3
  <2>10. Whole(d, C)
    BY <2>8, <2>9 DEF Whole, Unsplit, Clear
  <2>. QED
    BY <1>3, <2>6, <2>10 DEF d, x
<1>. QED
  BY <1>2, <1>3, ContextPicked DEF b
-----------------------------------------------------------------------------
(* What is known of the state.                                             *)

Said(n)  == {m \in Known(n) : m.role \notin {"bash", "summary"}}
Event(n) == [type : {"message", "agent_end"}, message : Said(n)]
Job      == [active : BOOLEAN, session : Sessions, kept : Nat, base : Nat, willRetry : BOOLEAN]

AgentShape ==
  agent \in [streaming : BOOLEAN, aborted : BOOLEAN, tool : {agent.tool}, messages : {agent.messages}]

ControlInv ==
  /\ AgentShape
  /\ used \in [ids : Nat, prompts : Nat, trouble : Nat, bash : Nat, acts : Nat]
  /\ worker \in [phase : {"free", "sleeping", "compacting"}, message : Message]
  /\ lastAssistant \in Message
  /\ jobs \in [Jobs -> Job]
  /\ manual \in [phase : {"none", "waiting", "summarizing"}, job : Job, aborted : BOOLEAN]
  /\ switching \in [phase : {"none", "waiting"}, target : Sessions]
  /\ current \in Sessions

MessagesInv ==
  /\ agent.messages \in Seq(Known(used.ids)) /\ agent.tool \in 0 .. used.ids
  /\ agent.tool # 0 => agent.streaming
  /\ eventQueue \in Seq(Event(used.ids))
  /\ files \in [Sessions -> Seq(Lines(used.ids))]
  /\ pendingBash \in Seq(Bash(used.ids))

TypeInv == ControlInv /\ MessagesInv

(* The kinds of step, as far as messages go.                               *)

Busy == worker.phase # "free"

\* At most the last message is dropped.
Trimmed(new, old) == new = old \/ (old # <<>> /\ new = Front(old))

Same == UNCHANGED <<files, pendingBash, eventQueue, used.ids>>

\* Nothing happens, an answer that failed is dropped, or a run begins anew.
Rests ==
  /\ Same /\ Trimmed(agent'.messages, agent.messages)
  /\ agent'.tool \in {agent.tool, 0} /\ (agent'.tool # 0 => agent'.streaming)
  /\ Busy' => Busy

TakesMessage ==
  /\ ~Busy /\ eventQueue # <<>> /\ Head(eventQueue).type = "message"
  /\ eventQueue' = Tail(eventQueue)
  /\ files' = [files EXCEPT ![current] = Append(@, Stored(Head(eventQueue).message))]
  /\ UNCHANGED <<agent, pendingBash, used.ids, worker>>

TakesEnd ==
  /\ eventQueue # <<>> /\ Head(eventQueue).type = "agent_end"
  /\ eventQueue' = Tail(eventQueue)
  /\ Trimmed(agent'.messages, agent.messages)
  /\ UNCHANGED <<agent.tool, agent.streaming, files, pendingBash, used.ids>>

Summarizes ==
  \E kept \in Nat :
    LET file == Append(files[current], Compacted(used.ids + 1, kept)) IN
      /\ files' = [files EXCEPT ![current] = file]
      /\ Trimmed(agent'.messages, Context(file))
      /\ used'.ids = used.ids + 1 /\ (Busy' => Busy)
      /\ UNCHANGED <<agent.tool, agent.streaming, eventQueue, pendingBash>>

Opens ==
  /\ \E s \in Sessions : agent'.messages = Context(files[s])
  /\ UNCHANGED <<agent.tool, agent.streaming, worker>> /\ Same

Says ==
  \E m \in Said(used.ids + 1) :
    /\ m.id = used.ids + 1 /\ m.call \in {0, agent.tool}
    /\ agent'.messages = Append(agent.messages, m)
    /\ agent'.tool \in {0, used.ids + 1} /\ (agent'.tool # 0 => agent'.streaming)
    /\ \/ UNCHANGED eventQueue
       \/ eventQueue' = eventQueue \o <<MessageEvent(m)>>
       \/ eventQueue' = eventQueue \o <<MessageEvent(m), EndEvent(m)>> /\ agent'.tool = 0
    /\ used'.ids = used.ids + 1
    /\ UNCHANGED <<files, pendingBash, worker>>

\* No run is under way, and what the worker has not handled is of later runs.
Pause == ~agent.streaming /\ (eventQueue = <<>> \/ Busy)

Flushes ==
  /\ Pause
  /\ files' = [files EXCEPT ![current] = @ \o [i \in DOMAIN pendingBash |-> Stored(pendingBash[i])]]
  /\ pendingBash' = <<>>
  /\ Trimmed(agent'.messages, agent.messages \o pendingBash)
  /\ UNCHANGED <<agent.tool, agent.streaming, eventQueue, used.ids, worker>>

AddsBash ==
  \E m \in Bash(used.ids + 1) :
    /\ m.id = used.ids + 1 /\ used'.ids = used.ids + 1
    /\ \/ /\ Pause
          /\ agent'.messages = Append(agent.messages, m)
          /\ files' = [files EXCEPT ![current] = Append(@, Stored(m))]
          /\ UNCHANGED pendingBash
       \/ /\ pendingBash' = Append(pendingBash, m)
          /\ UNCHANGED <<agent.messages, files>>
    /\ UNCHANGED <<agent.tool, agent.streaming, eventQueue, worker>>

Moves ==
  Rests \/ TakesMessage \/ TakesEnd \/ Summarizes \/ Opens \/ Says \/ Flushes \/ AddsBash
-----------------------------------------------------------------------------
(* Every step is of one of these kinds.                                    *)

LEMMA KnownGrows ==
  ASSUME NEW n \in Nat
  PROVE  /\ Known(n) \subseteq Known(n + 1) /\ Bash(n) \subseteq Bash(n + 1)
         /\ Lines(n) \subseteq Lines(n + 1) /\ Event(n) \subseteq Event(n + 1)
<1>1. 1 .. n \subseteq 1 .. n + 1 /\ 0 .. n \subseteq 0 .. n + 1
  OBVIOUS
<1>2. Known(n) \subseteq Known(n + 1)
  BY <1>1 DEF Known
<1>. QED
  BY <1>2 DEF Bash, Lines, Event, Said

(* A new message.                                                          *)
LEMMA MsgKnown ==
  ASSUME ControlInv, NEW role \in {"user", "assistant", "toolResult", "bash"},
         NEW out \in {"none"} \cup errors \cup measured \cup aborted
  PROVE  /\ Msg(role, out) \in Known(used.ids + 1)
         /\ Msg(role, out).id = used.ids + 1 /\ Msg(role, out).call = 0
         /\ Msg(role, out).role = role
<1>0. used.ids \in Nat
  BY DEF ControlInv
<1>. DEFINE x == used.ids + 1
            m == Msg(role, out)
<1>1. x \in Nat /\ x \in 1 .. x /\ 0 \in 0 .. x
  BY <1>0
<1>2. m = [id |-> x, role |-> role, out |-> out, call |-> 0]
  BY DEF Msg
<1>. HIDE DEF x, m
<1>3. m \in Message
  BY <1>1, <1>2 DEF Message
<1>4. m.id = x /\ m.call = 0 /\ m.role = role
  BY <1>2
<1>5. m \in Known(x)
  BY <1>1, <1>3, <1>4 DEF Known
<1>. QED
  BY <1>4, <1>5 DEF x, m

LEMMA TrimmedDrops ==
  ASSUME NEW msgs
  PROVE  Trimmed(DropAssistant(msgs), msgs) /\ Trimmed(DropError(msgs), msgs)
  BY DEF Trimmed, DropAssistant, DropError, LastIs

LEMMA PreparedKnown ==
  ASSUME TypeInv, NEW n \in Nat, NEW file \in Seq(Lines(n)), CanPrepare(file), NEW b \in BOOLEAN
  PROVE  Prepared(file, b) \in Job
<1>1. Last(file).message.id \in Nat
  <2>1. Last(file) \in Lines(n)
    BY FrontLast DEF CanPrepare
  <2>. QED
    BY <2>1 DEF Lines, Known, Message
<1>2. LatestCompaction(file) \in Nat
  BY LatestKnown
<1>. QED
  BY <1>1, <1>2 DEF Prepared, Job, TypeInv, ControlInv

(* What _checkCompaction does.                                             *)
LEMMA CheckKnown ==
  ASSUME TypeInv, NEW j \in Jobs, NEW m, NEW skip, NEW msgs, NEW n \in Nat,
         NEW file \in Seq(Lines(n)), NEW attempted, Check(j, m, skip, msgs, file, attempted)
  PROVE  /\ jobs' \in [Jobs -> Job] /\ AgentShape'
         /\ Trimmed(agent'.messages, msgs) /\ UNCHANGED <<agent.tool, agent.streaming>>
<1>1. PICK w \in BOOLEAN : agent' = [agent EXCEPT !.messages = IF w THEN DropAssistant(msgs) ELSE msgs]
  BY DEF Check
<1>2. AgentShape' /\ agent'.messages \in {DropAssistant(msgs), msgs}
      /\ UNCHANGED <<agent.tool, agent.streaming>>
  BY <1>1 DEF TypeInv, ControlInv, AgentShape
<1>3. Trimmed(agent'.messages, msgs)
  <2>1. Trimmed(msgs, msgs) /\ Trimmed(DropAssistant(msgs), msgs)
    BY TrimmedDrops DEF Trimmed
  <2>. QED
    BY <1>2, <2>1
<1>4. \E b \in BOOLEAN :
        jobs' = jobs \/ (CanPrepare(file) /\ jobs' = [jobs EXCEPT ![j] = Prepared(file, b)])
  BY DEF Check
<1>5. jobs' \in [Jobs -> Job]
  BY <1>4, PreparedKnown DEF TypeInv, ControlInv
<1>. QED
  BY <1>2, <1>3, <1>5

LEMMA HeadKnown ==
  ASSUME TypeInv, eventQueue # <<>>
  PROVE  /\ Head(eventQueue) \in Event(used.ids) /\ Head(eventQueue).message \in Said(used.ids)
         /\ Head(eventQueue).message \in Message
<1>1. Head(eventQueue) \in Event(used.ids)
  BY TailKnown DEF TypeInv, MessagesInv
<1>2. Head(eventQueue).message \in Said(used.ids)
  BY <1>1 DEF Event
<1>. QED
  BY <1>1, <1>2 DEF Said, Known

LEMMA HandleMessageMoves ==
  ASSUME TypeInv, HandleMessage
  PROVE  ControlInv' /\ TakesMessage
<1>1. TakesMessage
  BY DEF HandleMessage, Handles, Save, TakesMessage, Busy, agentVars
<1>2. lastAssistant' \in Message
  BY HeadKnown DEF HandleMessage, Handles, TypeInv, ControlInv
<1>. QED
  BY <1>1, <1>2 DEF HandleMessage, TypeInv, ControlInv, AgentShape, agentVars

LEMMA HandleEndWithRetryMoves ==
  ASSUME TypeInv, HandleEndWithRetry
  PROVE  ControlInv' /\ TakesEnd
<1>1. /\ agent' = [agent EXCEPT !.messages = DropAssistant(@)]
      /\ lastAssistant' = NoMessage /\ worker' = [phase |-> "sleeping", message |-> lastAssistant]
      /\ UNCHANGED <<used, jobs, manual, switching, current, files, pendingBash>>
      /\ eventQueue # <<>> /\ Head(eventQueue).type = "agent_end" /\ eventQueue' = Tail(eventQueue)
  BY DEF HandleEndWithRetry, Handles, compaction, operations, storage
<1>2. AgentShape' /\ agent'.messages = DropAssistant(agent.messages)
      /\ UNCHANGED <<agent.tool, agent.streaming>>
  BY <1>1 DEF TypeInv, ControlInv, AgentShape
<1>3. TakesEnd
  BY <1>1, <1>2, TrimmedDrops DEF TakesEnd
<1>4. NoMessage \in Message
  BY DEF NoMessage, Message
<1>. QED
  BY <1>1, <1>2, <1>3, <1>4 DEF TypeInv, ControlInv

LEMMA HandleEndMoves ==
  ASSUME TypeInv, HandleEnd
  PROVE  ControlInv' /\ TakesEnd
<1>1. /\ Check("worker", lastAssistant, TRUE, agent.messages, files[current], overflowRecoveryAttempted)
      /\ lastAssistant' = NoMessage
      /\ worker' = [phase |-> IF jobs'["worker"].active THEN "compacting" ELSE "free",
                    message |-> lastAssistant]
      /\ UNCHANGED <<used, manual, switching, current, files, pendingBash>>
      /\ eventQueue # <<>> /\ Head(eventQueue).type = "agent_end" /\ eventQueue' = Tail(eventQueue)
  BY DEF HandleEnd, Handles, storage
<1>2. files[current] \in Seq(Lines(used.ids)) /\ used.ids \in Nat /\ "worker" \in Jobs
  BY DEF TypeInv, ControlInv, MessagesInv, Jobs
<1>3. /\ jobs' \in [Jobs -> Job] /\ AgentShape' /\ Trimmed(agent'.messages, agent.messages)
      /\ UNCHANGED <<agent.tool, agent.streaming>>
  BY <1>1, <1>2, CheckKnown
<1>4. NoMessage \in Message
  BY DEF NoMessage, Message
<1>5. worker' \in [phase : {"free", "sleeping", "compacting"}, message : Message]
  BY <1>1 DEF TypeInv, ControlInv
<1>. QED
  BY <1>1, <1>3, <1>4, <1>5 DEF TakesEnd, TypeInv, ControlInv

LEMMA SleepEndsMoves ==
  ASSUME TypeInv, SleepEnds
  PROVE  ControlInv' /\ Rests
<1>1. /\ worker' = [worker EXCEPT !.phase = "free"]
      /\ UNCHANGED <<agent, used, lastAssistant, jobs, manual, switching, current, files,
                     pendingBash, eventQueue>>
  BY DEF SleepEnds, agentVars, compaction, operations, storage
<1>2. worker' \in [phase : {"free", "sleeping", "compacting"}, message : Message] /\ ~Busy'
  BY <1>1 DEF TypeInv, ControlInv, Busy
<1>. QED
  BY <1>1, <1>2 DEF Rests, Same, Trimmed, TypeInv, ControlInv, MessagesInv, AgentShape

LEMMA SleepAbortedMoves ==
  ASSUME TypeInv, SleepAborted
  PROVE  ControlInv' /\ Rests
<1>1. /\ Check("worker", worker.message, TRUE, agent.messages, files[current], overflowRecoveryAttempted)
      /\ worker' = [worker EXCEPT !.phase = IF jobs'["worker"].active THEN "compacting" ELSE "free"]
      /\ UNCHANGED <<used, lastAssistant, manual, switching, current, files, pendingBash, eventQueue>>
      /\ worker.phase = "sleeping"
  BY DEF SleepAborted, storage
<1>2. files[current] \in Seq(Lines(used.ids)) /\ used.ids \in Nat /\ "worker" \in Jobs
  BY DEF TypeInv, ControlInv, MessagesInv, Jobs
<1>3. /\ jobs' \in [Jobs -> Job] /\ AgentShape' /\ Trimmed(agent'.messages, agent.messages)
      /\ UNCHANGED <<agent.tool, agent.streaming>>
  BY <1>1, <1>2, CheckKnown
<1>4. worker' \in [phase : {"free", "sleeping", "compacting"}, message : Message] /\ Busy
  BY <1>1 DEF TypeInv, ControlInv, Busy
<1>. QED
  BY <1>1, <1>3, <1>4 DEF Rests, Same, TypeInv, ControlInv, MessagesInv

(* A summary is saved, as an automatic or a manual compaction does it.     *)
LEMMA SaveCompactionKnown ==
  ASSUME TypeInv, NEW job \in Job, SaveCompaction(job)
  PROVE  /\ AgentShape' /\ UNCHANGED <<agent.tool, agent.streaming>>
         /\ used' \in [ids : Nat, prompts : Nat, trouble : Nat, bash : Nat, acts : Nat]
         /\ used'.ids = used.ids + 1
         /\ \E kept \in Nat :
              LET file == Append(files[current], Compacted(used.ids + 1, kept)) IN
                /\ files' = [files EXCEPT ![current] = file]
                /\ Trimmed(agent'.messages, Context(file))
<1>. DEFINE file == Append(files[current], Compacted(used.ids + 1, job.kept))
            c    == Context(file)
<1>1. /\ files' = [files EXCEPT ![current] = file]
      /\ agent' = [agent EXCEPT !.messages = IF job.willRetry THEN DropError(c) ELSE c]
      /\ used' = [used EXCEPT !.ids = @ + 1]
  BY DEF SaveCompaction, Number
<1>2. job.kept \in Nat
  BY DEF Job
<1>. HIDE DEF file
<1>3. AgentShape' /\ UNCHANGED <<agent.tool, agent.streaming>> /\ agent'.messages \in {DropError(c), c}
  BY <1>1 DEF TypeInv, ControlInv, AgentShape
<1>4. Trimmed(agent'.messages, c)
  <2>1. Trimmed(c, c) /\ Trimmed(DropError(c), c)
    BY TrimmedDrops DEF Trimmed
  <2>. QED
    BY <1>3, <2>1
<1>5. /\ used' \in [ids : Nat, prompts : Nat, trouble : Nat, bash : Nat, acts : Nat]
      /\ used'.ids = used.ids + 1
  BY <1>1 DEF TypeInv, ControlInv
<1>. QED
  BY <1>1, <1>2, <1>3, <1>4, <1>5 DEF file

LEMMA FinishCompactionMoves ==
  ASSUME TypeInv, NEW j \in Jobs, FinishCompaction(j)
  PROVE  ControlInv' /\ (Rests \/ Summarizes)
<1>1. /\ jobs' = [jobs EXCEPT ![j] = NoJob]
      /\ worker' \in {worker, [worker EXCEPT !.phase = "free"]}
      /\ UNCHANGED <<eventQueue, lastAssistant, manual, switching, current, pendingBash>>
      /\ SaveCompaction(jobs[j]) \/ UNCHANGED <<files, agent, used>>
  BY DEF FinishCompaction
<1>2. NoJob \in Job /\ jobs[j] \in Job
  BY AgentSessionAssumption DEF NoJob, Job, TypeInv, ControlInv
<1>3. jobs' \in [Jobs -> Job]
  BY <1>1, <1>2 DEF TypeInv, ControlInv
<1>4. /\ worker' \in [phase : {"free", "sleeping", "compacting"}, message : Message]
      /\ Busy' => Busy
  BY <1>1 DEF TypeInv, ControlInv, Busy
<1>5. CASE SaveCompaction(jobs[j])
  <2>1. /\ AgentShape' /\ UNCHANGED <<agent.tool, agent.streaming>>
        /\ used' \in [ids : Nat, prompts : Nat, trouble : Nat, bash : Nat, acts : Nat]
        /\ used'.ids = used.ids + 1
        /\ \E kept \in Nat :
             LET file == Append(files[current], Compacted(used.ids + 1, kept)) IN
               /\ files' = [files EXCEPT ![current] = file]
               /\ Trimmed(agent'.messages, Context(file))
    BY <1>2, <1>5, SaveCompactionKnown
  <2>2. Summarizes
    BY <1>1, <1>4, <2>1 DEF Summarizes
  <2>. QED
    BY <1>1, <1>3, <1>4, <2>1, <2>2 DEF TypeInv, ControlInv
<1>6. CASE UNCHANGED <<files, agent, used>>
  <2>1. Rests
    BY <1>1, <1>4, <1>6 DEF Rests, Same, Trimmed, TypeInv, MessagesInv
  <2>. QED
    BY <1>1, <1>3, <1>4, <1>6, <2>1 DEF TypeInv, ControlInv, AgentShape
<1>. QED
  BY <1>1, <1>5, <1>6

LEMMA FinishManualMoves ==
  ASSUME TypeInv, FinishManual
  PROVE  ControlInv' /\ (Rests \/ Summarizes)
<1>1. /\ manual' = NotCompacting
      /\ UNCHANGED <<eventQueue, worker, lastAssistant, jobs, switching, current, pendingBash>>
      /\ SaveCompaction(manual.job) \/ UNCHANGED <<files, agent, used>>
  BY DEF FinishManual, handling, compaction
<1>2. NotCompacting \in [phase : {"none", "waiting", "summarizing"}, job : Job, aborted : BOOLEAN]
  BY AgentSessionAssumption DEF NotCompacting, NoJob, Job
<1>3. manual.job \in Job /\ (Busy' => Busy)
  BY <1>1 DEF TypeInv, ControlInv, Busy
<1>4. CASE SaveCompaction(manual.job)
  <2>1. /\ AgentShape' /\ UNCHANGED <<agent.tool, agent.streaming>>
        /\ used' \in [ids : Nat, prompts : Nat, trouble : Nat, bash : Nat, acts : Nat]
        /\ used'.ids = used.ids + 1
        /\ \E kept \in Nat :
             LET file == Append(files[current], Compacted(used.ids + 1, kept)) IN
               /\ files' = [files EXCEPT ![current] = file]
               /\ Trimmed(agent'.messages, Context(file))
    BY <1>3, <1>4, SaveCompactionKnown
  <2>2. Summarizes
    BY <1>1, <1>3, <2>1 DEF Summarizes
  <2>. QED
    BY <1>1, <1>2, <2>1, <2>2 DEF TypeInv, ControlInv
<1>5. CASE UNCHANGED <<files, agent, used>>
  <2>1. Rests
    BY <1>1, <1>3, <1>5 DEF Rests, Same, Trimmed, TypeInv, MessagesInv
  <2>. QED
    BY <1>1, <1>2, <1>5, <2>1 DEF TypeInv, ControlInv, AgentShape
<1>. QED
  BY <1>1, <1>4, <1>5

(* The worker is free only when it has handled all events.                 *)
LEMMA SettledPauses ==
  ASSUME Settled, ~agent.streaming
  PROVE  Pause
  BY DEF Settled, Pause, Busy

LEMMA AnswerMoves ==
  ASSUME TypeInv, Answer
  PROVE  ControlInv' /\ Says
<1>1. PICK out \in {"aborted", "ok"} \cup Outcomes :
        LET m == Msg("assistant", out)  ends == out # "toolUse" IN
          /\ agent' = [streaming |-> ~ends, aborted |-> FALSE, tool |-> IF ends THEN 0 ELSE m.id,
                       messages |-> Append(agent.messages, m)]
          /\ Emit(IF ends THEN <<MessageEvent(m), EndEvent(m)>> ELSE <<MessageEvent(m)>>)
          /\ \E b \in BOOLEAN : used' = [used EXCEPT !.ids = @ + 1, !.trouble = IF b THEN @ ELSE @ + 1]
  BY DEF Answer
<1>2. UNCHANGED <<worker, lastAssistant, jobs, manual, switching, files, current, pendingBash>>
  BY DEF Answer, compaction, storage
<1>3. out \in {"none"} \cup errors \cup measured \cup aborted
  BY AgentSessionAssumption DEF AgentSessionAssumption, measured, aborted
<1>. DEFINE m == Msg("assistant", out)
<1>4. /\ m \in Known(used.ids + 1) /\ m.id = used.ids + 1 /\ m.call = 0 /\ m.role = "assistant"
  BY <1>3, MsgKnown DEF TypeInv
<1>5. m \in Said(used.ids + 1)
  BY <1>4 DEF Said
<1>6. /\ agent'.messages = Append(agent.messages, m) /\ AgentShape'
      /\ agent'.tool = (IF out # "toolUse" THEN 0 ELSE m.id)
      /\ agent'.streaming = (out = "toolUse")
  BY <1>1 DEF AgentShape
<1>7. \/ UNCHANGED eventQueue
      \/ eventQueue' = eventQueue \o <<MessageEvent(m)>>
      \/ eventQueue' = eventQueue \o <<MessageEvent(m), EndEvent(m)>> /\ out # "toolUse"
  BY <1>1 DEF Emit
<1>8. /\ used' \in [ids : Nat, prompts : Nat, trouble : Nat, bash : Nat, acts : Nat]
      /\ used'.ids = used.ids + 1
  <2>1. PICK b \in BOOLEAN :
          used' = [used EXCEPT !.ids = @ + 1, !.trouble = IF b THEN @ ELSE @ + 1]
    BY <1>1
  <2>. DEFINE x == used.ids + 1
              y == IF b THEN used.trouble ELSE used.trouble + 1
  <2>2. x \in Nat /\ y \in Nat
    BY DEF TypeInv, ControlInv
  <2>3. used' = [used EXCEPT !.ids = x, !.trouble = y]
    BY <2>1
  <2>. HIDE DEF x, y
  <2>4. used' \in [ids : Nat, prompts : Nat, trouble : Nat, bash : Nat, acts : Nat] /\ used'.ids = x
    BY <2>2, <2>3 DEF TypeInv, ControlInv
  <2>. QED
    BY <2>4 DEF x
<1>. HIDE DEF m
<1>9. Says
  <2>1. /\ m.call \in {0, agent.tool}
        /\ agent'.tool \in {0, used.ids + 1} /\ (agent'.tool # 0 => agent'.streaming)
    BY <1>4, <1>6
  <2>2. \/ UNCHANGED eventQueue
        \/ eventQueue' = eventQueue \o <<MessageEvent(m)>>
        \/ eventQueue' = eventQueue \o <<MessageEvent(m), EndEvent(m)>> /\ agent'.tool = 0
    BY <1>6, <1>7
  <2>. QED
    BY <1>2, <1>4, <1>5, <1>6, <1>8, <2>1, <2>2 DEF Says
<1>. QED
  BY <1>2, <1>6, <1>8, <1>9 DEF TypeInv, ControlInv

LEMMA ToolResultMoves ==
  ASSUME TypeInv, ToolResult
  PROVE  ControlInv' /\ Says
<1>. DEFINE k == Msg("toolResult", "none")
            m == [k EXCEPT !.call = agent.tool]
<1>1. /\ agent' = [agent EXCEPT !.tool = 0, !.messages = Append(@, m)]
      /\ Emit(<<MessageEvent(m)>>)
      /\ used' = [used EXCEPT !.ids = @ + 1]
      /\ UNCHANGED <<worker, lastAssistant, jobs, manual, switching, files, current, pendingBash>>
  BY DEF ToolResult, Number, compaction, operations, storage
<1>2. k \in Known(used.ids + 1) /\ k.id = used.ids + 1 /\ k.role = "toolResult"
  BY MsgKnown DEF TypeInv
<1>. HIDE DEF k
<1>3. agent.tool \in 0 .. used.ids + 1 /\ agent.tool \in Nat
  BY DEF TypeInv, ControlInv, MessagesInv
<1>4. m \in Message /\ m.id = used.ids + 1 /\ m.role = "toolResult" /\ m.call = agent.tool
  <2>1. k \in Message
    BY <1>2 DEF Known
  <2>. QED
    BY <1>2, <1>3, <2>1 DEF Message
<1>. HIDE DEF m
<1>5. m \in Said(used.ids + 1)
  BY <1>2, <1>3, <1>4 DEF Said, Known
<1>6. /\ AgentShape' /\ agent'.tool = 0 /\ agent'.messages = Append(agent.messages, m)
  BY <1>1 DEF TypeInv, ControlInv, AgentShape
<1>7. UNCHANGED eventQueue \/ eventQueue' = eventQueue \o <<MessageEvent(m)>>
  BY <1>1 DEF Emit
<1>8. /\ used' \in [ids : Nat, prompts : Nat, trouble : Nat, bash : Nat, acts : Nat]
      /\ used'.ids = used.ids + 1
  BY <1>1 DEF TypeInv, ControlInv
<1>9. Says
  BY <1>1, <1>4, <1>5, <1>6, <1>7, <1>8 DEF Says
<1>. QED
  BY <1>1, <1>6, <1>8, <1>9 DEF TypeInv, ControlInv

LEMMA ContinueTimerMoves ==
  ASSUME TypeInv, ContinueTimer
  PROVE  ControlInv' /\ Rests
<1>1. /\ \/ UNCHANGED agent
         \/ agent' = [streaming |-> TRUE, aborted |-> FALSE, tool |-> 0, messages |-> agent.messages]
      /\ UNCHANGED <<used, worker, lastAssistant, jobs, manual, switching, files, current,
                     pendingBash, eventQueue>>
  BY DEF ContinueTimer, StartRun, handling, compaction, operations, storage
<1>2. /\ AgentShape' /\ agent'.messages = agent.messages /\ agent'.tool \in {0, agent.tool}
      /\ agent'.tool # 0 => agent'.streaming
  <2>1. CASE UNCHANGED agent
    BY <2>1 DEF TypeInv, ControlInv, MessagesInv, AgentShape
  <2>2. CASE agent' = [streaming |-> TRUE, aborted |-> FALSE, tool |-> 0, messages |-> agent.messages]
    BY <2>2 DEF AgentShape
  <2>. QED
    BY <1>1, <2>1, <2>2
<1>3. Rests
  BY <1>1, <1>2 DEF Rests, Same, Trimmed, Busy
<1>. QED
  BY <1>1, <1>2, <1>3 DEF TypeInv, ControlInv

LEMMA StoredKnown ==
  ASSUME NEW n \in Nat, NEW m \in Known(n)
  PROVE  Stored(m) \in Lines(n) /\ Stored(m).message = m
  BY DEF Stored, Lines

LEMMA PromptMoves ==
  ASSUME TypeInv, NEW c \in Callers, Prompt(c)
  PROVE  ControlInv' /\ Flushes
<1>. DEFINE msgs == agent.messages \o pendingBash
            new  == [i \in DOMAIN pendingBash |-> Stored(pendingBash[i])]
            file == files[current] \o new
<1>1. /\ files' = [files EXCEPT ![current] = file] /\ pendingBash' = <<>>
      /\ Settled /\ ~agent.streaming /\ used' = [used EXCEPT !.prompts = @ + 1]
      /\ UNCHANGED <<worker, eventQueue, lastAssistant, manual, switching, current>>
  BY DEF Prompt, handling, Use
<1>2. \/ \E m : Check(c, m, FALSE, msgs, file, overflowRecoveryAttempted)
      \/ agent' = [agent EXCEPT !.messages = msgs] /\ UNCHANGED compaction
  BY DEF Prompt
<1>3. used.ids \in Nat /\ c \in Jobs
  BY DEF TypeInv, ControlInv, Jobs
<1>4. file \in Seq(Lines(used.ids))
  <2>1. \A i \in DOMAIN pendingBash : Stored(pendingBash[i]) \in Lines(used.ids)
    <3>1. \A i \in DOMAIN pendingBash : pendingBash[i] \in Known(used.ids)
      BY DEF TypeInv, MessagesInv, Bash
    <3>. QED
      BY <1>3, <3>1, StoredKnown
  <2>2. Len(pendingBash) \in Nat /\ DOMAIN pendingBash = 1 .. Len(pendingBash)
    BY DEF TypeInv, MessagesInv
  <2>3. new \in Seq(Lines(used.ids))
    BY <2>1, <2>2
  <2>4. files[current] \in Seq(Lines(used.ids))
    BY DEF TypeInv, ControlInv, MessagesInv
  <2>. HIDE DEF new
  <2>. QED
    BY <2>3, <2>4
<1>. HIDE DEF msgs, file
<1>5. /\ jobs' \in [Jobs -> Job] /\ AgentShape'
      /\ Trimmed(agent'.messages, msgs) /\ UNCHANGED <<agent.tool, agent.streaming>>
  <2>1. ASSUME NEW m, Check(c, m, FALSE, msgs, file, overflowRecoveryAttempted)
        PROVE  /\ jobs' \in [Jobs -> Job] /\ AgentShape'
               /\ Trimmed(agent'.messages, msgs) /\ UNCHANGED <<agent.tool, agent.streaming>>
    BY <1>3, <1>4, <2>1, CheckKnown
  <2>2. CASE agent' = [agent EXCEPT !.messages = msgs] /\ UNCHANGED compaction
    BY <2>2 DEF compaction, TypeInv, ControlInv, AgentShape, Trimmed
  <2>. QED
    BY <1>2, <2>1, <2>2
<1>6. used' \in [ids : Nat, prompts : Nat, trouble : Nat, bash : Nat, acts : Nat]
      /\ used'.ids = used.ids
  BY <1>1 DEF TypeInv, ControlInv
<1>7. Flushes
  BY <1>1, <1>5, <1>6, SettledPauses DEF Flushes, msgs, file
<1>. QED
  BY <1>1, <1>5, <1>6, <1>7 DEF TypeInv, ControlInv

LEMMA StartPromptMoves ==
  ASSUME TypeInv, NEW c \in Callers, StartPrompt(c)
  PROVE  ControlInv' /\ (Rests \/ Says)
<1>. DEFINE m == Msg("user", "none")
<1>1. UNCHANGED <<worker, lastAssistant, jobs, manual, switching, files, current, pendingBash>>
  BY DEF StartPrompt, compaction, storage
<1>2. CASE UNCHANGED <<agent, eventQueue, used>>
  <2>1. Rests
    BY <1>1, <1>2 DEF Rests, Same, Trimmed, Busy, TypeInv, MessagesInv
  <2>. QED
    BY <1>1, <1>2, <2>1 DEF TypeInv, ControlInv, AgentShape
<1>3. CASE /\ agent' = [streaming |-> TRUE, aborted |-> FALSE, tool |-> 0,
                        messages |-> Append(agent.messages, m)]
           /\ Emit(<<MessageEvent(m)>>) /\ used' = [used EXCEPT !.ids = @ + 1]
  <2>1. m \in Known(used.ids + 1) /\ m.id = used.ids + 1 /\ m.call = 0 /\ m.role = "user"
    BY MsgKnown DEF TypeInv
  <2>2. AgentShape' /\ agent'.tool = 0 /\ agent'.messages = Append(agent.messages, m)
    BY <1>3 DEF AgentShape
  <2>3. UNCHANGED eventQueue \/ eventQueue' = eventQueue \o <<MessageEvent(m)>>
    BY <1>3 DEF Emit
  <2>4. /\ used' \in [ids : Nat, prompts : Nat, trouble : Nat, bash : Nat, acts : Nat]
        /\ used'.ids = used.ids + 1
    BY <1>3 DEF TypeInv, ControlInv
  <2>. HIDE DEF m
  <2>5. m \in Said(used.ids + 1)
    BY <2>1 DEF Said
  <2>6. Says
    BY <1>1, <2>1, <2>2, <2>3, <2>4, <2>5 DEF Says
  <2>. QED
    BY <1>1, <2>2, <2>4, <2>6 DEF TypeInv, ControlInv
<1>. QED
  BY <1>2, <1>3 DEF StartPrompt, StartRun, Number

LEMMA RecordBashMoves ==
  ASSUME TypeInv, RecordBash
  PROVE  ControlInv' /\ AddsBash
<1>. DEFINE m == Msg("bash", "none")
<1>1. /\ Settled /\ used' = [used EXCEPT !.bash = @ + 1, !.ids = @ + 1]
      /\ UNCHANGED <<worker, eventQueue, lastAssistant, jobs, manual, switching, current>>
      /\ \/ agent.streaming /\ pendingBash' = Append(pendingBash, m) /\ UNCHANGED <<agent, files>>
         \/ /\ ~agent.streaming
            /\ agent' = [agent EXCEPT !.messages = Append(@, m)]
            /\ files' = [files EXCEPT ![current] = Append(@, Stored(m))]
            /\ UNCHANGED pendingBash
  BY DEF RecordBash, Defer, Save, handling, compaction, operations
<1>2. m \in Known(used.ids + 1) /\ m.id = used.ids + 1 /\ m.call = 0 /\ m.role = "bash"
  BY MsgKnown DEF TypeInv
<1>. HIDE DEF m
<1>3. m \in Bash(used.ids + 1)
  BY <1>2 DEF Bash
<1>4. /\ AgentShape' /\ UNCHANGED <<agent.tool, agent.streaming>>
      /\ UNCHANGED agent \/ agent'.messages = Append(agent.messages, m)
  BY <1>1 DEF TypeInv, ControlInv, AgentShape
<1>5. /\ used' \in [ids : Nat, prompts : Nat, trouble : Nat, bash : Nat, acts : Nat]
      /\ used'.ids = used.ids + 1
  <2>. DEFINE x == used.ids + 1
              y == used.bash + 1
  <2>1. x \in Nat /\ y \in Nat
    BY DEF TypeInv, ControlInv
  <2>2. used' = [used EXCEPT !.bash = y, !.ids = x]
    BY <1>1
  <2>. HIDE DEF x, y
  <2>3. used' \in [ids : Nat, prompts : Nat, trouble : Nat, bash : Nat, acts : Nat] /\ used'.ids = x
    BY <2>1, <2>2 DEF TypeInv, ControlInv
  <2>. QED
    BY <2>3 DEF x
<1>6. \/ /\ Pause
         /\ agent'.messages = Append(agent.messages, m)
         /\ files' = [files EXCEPT ![current] = Append(@, Stored(m))]
         /\ UNCHANGED pendingBash
      \/ /\ pendingBash' = Append(pendingBash, m)
         /\ UNCHANGED <<agent.messages, files>>
  BY <1>1, SettledPauses DEF TypeInv, ControlInv, AgentShape
<1>7. AddsBash
  BY <1>1, <1>2, <1>3, <1>4, <1>5, <1>6 DEF AddsBash
<1>. QED
  BY <1>1, <1>4, <1>5, <1>7 DEF TypeInv, ControlInv

(* What only controls.                                                     *)
LEMMA ControlMoves ==
  ASSUME TypeInv, Abort \/ AbortCompaction \/ Compact \/ PrepareManual \/ SwitchSession
  PROVE  ControlInv' /\ Rests
<1>1. /\ agent' = agent \/ agent' = [agent EXCEPT !.aborted = agent.streaming]
      /\ UNCHANGED <<worker, eventQueue, lastAssistant, jobs, files, current, pendingBash>>
  BY DEF Abort, AbortCompaction, Compact, PrepareManual, SwitchSession, AbortRun, agentVars,
         handling, compaction, storage
<1>2. used' = used \/ used' = [used EXCEPT !.acts = @ + 1]
  BY DEF Abort, AbortCompaction, Compact, PrepareManual, SwitchSession, Act, Use
<1>3. /\ AgentShape' /\ UNCHANGED <<agent.tool, agent.streaming, agent.messages>>
  BY <1>1 DEF TypeInv, ControlInv, AgentShape
<1>4. /\ used' \in [ids : Nat, prompts : Nat, trouble : Nat, bash : Nat, acts : Nat]
      /\ used'.ids = used.ids
  BY <1>2 DEF TypeInv, ControlInv
<1>5. manual' \in [phase : {"none", "waiting", "summarizing"}, job : Job, aborted : BOOLEAN]
  <2>1. CASE UNCHANGED manual
    BY <2>1 DEF TypeInv, ControlInv
  <2>2. CASE manual' = NotCompacting
    BY <2>2, AgentSessionAssumption DEF NotCompacting, NoJob, Job
  <2>3. CASE manual' = [manual EXCEPT !.aborted = manual.phase = "summarizing"]
    BY <2>3 DEF TypeInv, ControlInv
  <2>4. CASE manual' = [manual EXCEPT !.phase = "waiting"]
    BY <2>4 DEF TypeInv, ControlInv
  <2>5. CASE /\ CanPrepare(files[current])
             /\ manual' = [phase |-> "summarizing", aborted |-> FALSE,
                           job |-> Prepared(files[current], FALSE)]
    <3>1. files[current] \in Seq(Lines(used.ids)) /\ used.ids \in Nat
      BY DEF TypeInv, ControlInv, MessagesInv
    <3>2. Prepared(files[current], FALSE) \in Job
      BY <2>5, <3>1, PreparedKnown
    <3>. QED
      BY <2>5, <3>2
  <2>. QED
    BY <2>1, <2>2, <2>3, <2>4, <2>5
       DEF Abort, AbortCompaction, Compact, PrepareManual, SwitchSession
<1>6. switching' \in [phase : {"none", "waiting"}, target : Sessions]
  <2>1. \/ UNCHANGED switching
        \/ \E s \in Sessions : switching' = [phase |-> "waiting", target |-> s]
    BY DEF Abort, AbortCompaction, Compact, PrepareManual, SwitchSession
  <2>. QED
    BY <2>1 DEF TypeInv, ControlInv
<1>7. Rests
  BY <1>1, <1>3, <1>4 DEF Rests, Same, Trimmed, Busy, TypeInv, MessagesInv
<1>. QED
  BY <1>1, <1>3, <1>4, <1>5, <1>6, <1>7 DEF TypeInv, ControlInv

LEMMA OpenSessionMoves ==
  ASSUME TypeInv, OpenSession
  PROVE  ControlInv' /\ Opens
<1>1. /\ current' = switching.target /\ switching' = NotSwitching
      /\ agent' = [agent EXCEPT !.messages = Context(files[current'])]
      /\ UNCHANGED <<worker, eventQueue, lastAssistant, jobs, manual, files, pendingBash, used>>
  BY DEF OpenSession, handling, compaction
<1>2. current' \in Sessions /\ NotSwitching \in [phase : {"none", "waiting"}, target : Sessions]
  BY <1>1, AgentSessionAssumption DEF NotSwitching, TypeInv, ControlInv, AgentSessionAssumption
<1>3. /\ AgentShape' /\ UNCHANGED <<agent.tool, agent.streaming>>
      /\ agent'.messages = Context(files[current'])
  BY <1>1 DEF TypeInv, ControlInv, AgentShape
<1>4. Opens
  BY <1>1, <1>2, <1>3 DEF Opens, Same
<1>. QED
  BY <1>1, <1>2, <1>3, <1>4 DEF TypeInv, ControlInv

LEMMA NextMoves ==
  ASSUME TypeInv, Next
  PROVE  ControlInv' /\ Moves
<1>1. ASSUME Handle PROVE ControlInv' /\ Moves
  BY <1>1, HandleMessageMoves, HandleEndWithRetryMoves, HandleEndMoves DEF Handle, Moves
<1>2. ASSUME SleepEnds \/ SleepAborted PROVE ControlInv' /\ Moves
  BY <1>2, SleepEndsMoves, SleepAbortedMoves DEF Moves
<1>3. ASSUME Finish PROVE ControlInv' /\ Moves
  BY <1>3, FinishCompactionMoves, FinishManualMoves DEF Finish, Moves
<1>4. ASSUME Answer \/ ToolResult \/ ContinueTimer PROVE ControlInv' /\ Moves
  BY <1>4, AnswerMoves, ToolResultMoves, ContinueTimerMoves DEF Moves
<1>5. ASSUME NEW c \in Callers, Prompt(c) \/ StartPrompt(c) PROVE ControlInv' /\ Moves
  BY <1>5, PromptMoves, StartPromptMoves DEF Moves
<1>6. ASSUME RecordBash PROVE ControlInv' /\ Moves
  BY <1>6, RecordBashMoves DEF Moves
<1>7. ASSUME Abort \/ AbortCompaction \/ Compact \/ PrepareManual \/ SwitchSession
      PROVE  ControlInv' /\ Moves
  BY <1>7, ControlMoves DEF Moves
<1>8. ASSUME OpenSession PROVE ControlInv' /\ Moves
  BY <1>8, OpenSessionMoves DEF Moves
<1>. QED
  BY <1>1, <1>2, <1>3, <1>4, <1>5, <1>6, <1>7, <1>8 DEF Next
-----------------------------------------------------------------------------
(* Types are kept.                                                         *)

LEMMA TrimmedKnown ==
  ASSUME NEW T, NEW old \in Seq(T), NEW new, Trimmed(new, old)
  PROVE  new \in Seq(T) /\ Picked(new, old)
<1>1. CASE new = old
  BY <1>1, EmbedsItself
<1>2. CASE old # <<>> /\ new = Front(old)
  <2>1. /\ new \in Seq(T) /\ Len(old) \in Nat /\ Len(old) > 0 /\ Len(new) = Len(old) - 1
        /\ \A i \in 1 .. Len(old) - 1 : new[i] = old[i]
    BY <1>2, FrontLast
  <2>. DEFINE f == [i \in 1 .. Len(new) |-> i]
  <2>2. Embeds(f, new, old)
    BY <2>1 DEF Embeds
  <2>. QED
    BY <2>1, <2>2 DEF Picked
<1>. QED
  BY <1>1, <1>2 DEF Trimmed

(* What a step may put into a file.                                        *)
LEMMA CompactedKnown ==
  ASSUME NEW n \in Nat, NEW kept \in Nat
  PROVE  /\ Compacted(n + 1, kept) \in Lines(n + 1)
         /\ Compacted(n + 1, kept).message.id = n + 1 /\ Compacted(n + 1, kept).message.call = 0
         /\ Compacted(n + 1, kept).message.role = "summary"
<1>. DEFINE x == n + 1
            m == [NoMessage EXCEPT !.id = x, !.role = "summary"]
            e == [message |-> m, kept |-> kept]
<1>1. x \in Nat /\ x \in 1 .. x /\ 0 \in 0 .. x
  OBVIOUS
<1>2. Compacted(x, kept) = e
  BY DEF Compacted
<1>. HIDE DEF x
<1>3. NoMessage \in Message /\ NoMessage.call = 0
  BY DEF NoMessage, Message
<1>4. m \in Message /\ m.id = x /\ m.call = 0 /\ m.role = "summary"
  BY <1>1, <1>3 DEF Message
<1>. HIDE DEF m
<1>5. m \in Known(x)
  BY <1>1, <1>4 DEF Known
<1>6. e \in Lines(x) /\ e.message = m
  BY <1>5 DEF Lines
<1>. HIDE DEF e
<1>. QED
  BY <1>2, <1>4, <1>6 DEF x

LEMMA MessagesFileAppend ==
  ASSUME NEW n \in Nat, NEW file \in Seq(Lines(n)), NEW e \in Lines(n)
  PROVE  /\ Append(file, e) \in Seq(Lines(n))
         /\ Messages(Append(file, e)) = Append(Messages(file), e.message)
<1>1. Append(file, e) \in Seq(Lines(n))
  OBVIOUS
<1>. DEFINE a == Messages(file)
            d == Append(file, e)
            b == Messages(d)
            c == Append(a, e.message)
<1>2. e.message \in Known(n)
  BY DEF Lines
<1>3. /\ a \in Seq(Known(n)) /\ Len(a) = Len(file) /\ Len(file) \in Nat
      /\ \A i \in 1 .. Len(file) : a[i] = file[i].message
  BY MessagesKnown
<1>4. /\ Len(d) = Len(file) + 1 /\ d[Len(file) + 1] = e
      /\ \A i \in 1 .. Len(file) : d[i] = file[i]
  OBVIOUS
<1>5. /\ b \in Seq(Known(n)) /\ Len(b) = Len(d)
      /\ \A i \in 1 .. Len(d) : b[i] = d[i].message
  BY <1>1, MessagesKnown
<1>. HIDE DEF a, b, d
<1>6. /\ c \in Seq(Known(n)) /\ Len(c) = Len(a) + 1 /\ c[Len(a) + 1] = e.message
      /\ \A i \in 1 .. Len(a) : c[i] = a[i]
  BY <1>2, <1>3
<1>. HIDE DEF c
<1>7. \A i \in 1 .. Len(d) : b[i] = c[i]
  <2>1. \A i \in 1 .. Len(d) : i \in 1 .. Len(file) \/ i = Len(file) + 1
    BY <1>3, <1>4
  <2>. QED
    BY <1>3, <1>4, <1>5, <1>6, <2>1
<1>8. Len(b) = Len(c)
  BY <1>3, <1>4, <1>5, <1>6
<1>9. b = c
  BY <1>5, <1>6, <1>7, <1>8
<1>. QED
  BY <1>1, <1>9 DEF b, c, a, d

LEMMA MessagesFileConcat ==
  ASSUME NEW n \in Nat, NEW file \in Seq(Lines(n)), NEW p \in Seq(Known(n))
  PROVE  LET new == file \o [i \in DOMAIN p |-> Stored(p[i])] IN
           new \in Seq(Lines(n)) /\ Messages(new) = Messages(file) \o p
<1>. DEFINE q == [i \in DOMAIN p |-> Stored(p[i])]
            d == file \o q
            a == Messages(file)
            b == Messages(d)
            c == a \o p
<1>1. /\ q \in Seq(Lines(n)) /\ Len(q) = Len(p) /\ Len(p) \in Nat
      /\ \A i \in 1 .. Len(p) : q[i].message = p[i]
  <2>1. \A i \in 1 .. Len(p) : p[i] \in Known(n) /\ DOMAIN p = 1 .. Len(p) /\ Len(p) \in Nat
    OBVIOUS
  <2>2. \A i \in 1 .. Len(p) : Stored(p[i]) \in Lines(n) /\ Stored(p[i]).message = p[i]
    BY <2>1, StoredKnown
  <2>. QED
    BY <2>1, <2>2
<1>. HIDE DEF q
<1>2. /\ d \in Seq(Lines(n)) /\ Len(d) = Len(file) + Len(q) /\ Len(file) \in Nat
      /\ \A i \in 1 .. Len(file) : d[i] = file[i]
      /\ \A i \in Len(file) + 1 .. Len(file) + Len(q) : d[i] = q[i - Len(file)]
  <2>1. q \in Seq(Lines(n))
    BY <1>1
  <2>. QED
    BY <2>1, ConcatKnown
<1>3. /\ a \in Seq(Known(n)) /\ Len(a) = Len(file)
      /\ \A i \in 1 .. Len(file) : a[i] = file[i].message
  BY MessagesKnown
<1>. HIDE DEF a, d
<1>4. /\ b \in Seq(Known(n)) /\ Len(b) = Len(d) /\ \A i \in 1 .. Len(d) : b[i] = d[i].message
  BY <1>2, MessagesKnown
<1>5. /\ c \in Seq(Known(n)) /\ Len(c) = Len(a) + Len(p)
      /\ \A i \in 1 .. Len(a) : c[i] = a[i]
      /\ \A i \in Len(a) + 1 .. Len(a) + Len(p) : c[i] = p[i - Len(a)]
  BY <1>3, ConcatKnown
<1>. HIDE DEF b, c
<1>6. ASSUME NEW i \in 1 .. Len(d) PROVE b[i] = c[i]
  <2>1. CASE i <= Len(file)
    BY <1>2, <1>3, <1>4, <1>5, <2>1
  <2>2. CASE ~ (i <= Len(file))
    <3>1. i - Len(file) \in 1 .. Len(p) /\ i \in Len(file) + 1 .. Len(file) + Len(p)
      BY <1>1, <1>2, <2>2
    <3>. QED
      BY <1>1, <1>2, <1>3, <1>4, <1>5, <3>1
  <2>. QED
    BY <2>1, <2>2
<1>7. b = c
  <2>1. Len(b) = Len(c)
    BY <1>1, <1>2, <1>3, <1>4, <1>5
  <2>. QED
    BY <1>4, <1>5, <1>6, <2>1
<1>. QED
  BY <1>2, <1>7 DEF a, b, c, d, q

LEMMA StateGrows ==
  ASSUME TypeInv
  PROVE  /\ used.ids \in Nat /\ current \in Sessions
         /\ agent.messages \in Seq(Known(used.ids + 1)) /\ agent.tool \in 0 .. used.ids + 1
         /\ eventQueue \in Seq(Event(used.ids + 1))
         /\ files \in [Sessions -> Seq(Lines(used.ids + 1))]
         /\ pendingBash \in Seq(Bash(used.ids + 1))
<1>. DEFINE n == used.ids
<1>1. n \in Nat /\ current \in Sessions
  BY DEF TypeInv, ControlInv
<1>2. /\ agent.messages \in Seq(Known(n)) /\ agent.tool \in 0 .. n
      /\ eventQueue \in Seq(Event(n))
      /\ files \in [Sessions -> Seq(Lines(n))]
      /\ pendingBash \in Seq(Bash(n))
  BY DEF TypeInv, MessagesInv
<1>. HIDE DEF n
<1>3. /\ Known(n) \subseteq Known(n + 1) /\ Bash(n) \subseteq Bash(n + 1)
      /\ Lines(n) \subseteq Lines(n + 1) /\ Event(n) \subseteq Event(n + 1)
  BY <1>1, KnownGrows
<1>4. agent.messages \in Seq(Known(n + 1)) /\ agent.tool \in 0 .. n + 1
  BY <1>1, <1>2, <1>3, SeqMonotone
<1>5. eventQueue \in Seq(Event(n + 1))
  BY <1>2, <1>3, SeqMonotone
<1>6. pendingBash \in Seq(Bash(n + 1))
  BY <1>2, <1>3, SeqMonotone
<1>7. files \in [Sessions -> Seq(Lines(n + 1))]
  <2>1. \A s \in Sessions : files[s] \in Seq(Lines(n + 1))
    BY <1>2, <1>3, SeqMonotone
  <2>. QED
    BY <1>2, <2>1
<1>. QED
  BY <1>1, <1>4, <1>5, <1>6, <1>7 DEF n

LEMMA EventKnown ==
  ASSUME NEW n, NEW m \in Said(n)
  PROVE  /\ MessageEvent(m) \in Event(n) /\ EndEvent(m) \in Event(n)
         /\ MessageEvent(m).type = "message" /\ EndEvent(m).type = "agent_end"
         /\ MessageEvent(m).message = m
  BY DEF MessageEvent, EndEvent, Event

LEMMA TypesKept ==
  ASSUME TypeInv, Moves
  PROVE  MessagesInv'
<1>. DEFINE n == used.ids
<1>1. /\ n \in Nat /\ current \in Sessions /\ agent.messages \in Seq(Known(n))
      /\ agent.tool \in 0 .. n /\ (agent.tool # 0 => agent.streaming)
      /\ eventQueue \in Seq(Event(n))
      /\ files \in [Sessions -> Seq(Lines(n))]
      /\ pendingBash \in Seq(Bash(n))
  BY DEF TypeInv, ControlInv, MessagesInv
<1>2. CASE Rests
  <2>1. agent'.messages \in Seq(Known(n)) /\ agent'.tool \in 0 .. n
    BY <1>1, <1>2, TrimmedKnown DEF Rests
  <2>. QED
    BY <1>1, <1>2, <2>1 DEF Rests, Same, MessagesInv
<1>3. CASE TakesMessage
  <2>. DEFINE m == Head(eventQueue).message
  <2>1. m \in Known(n) /\ Tail(eventQueue) \in Seq(Event(n))
    BY <1>1, <1>3, HeadKnown, TailKnown DEF TakesMessage, Said
  <2>. HIDE DEF m
  <2>2. Append(files[current], Stored(m)) \in Seq(Lines(n))
    BY <1>1, <2>1, StoredKnown, MessagesFileAppend
  <2>3. files' \in [Sessions -> Seq(Lines(n))]
    BY <1>1, <1>3, <2>2 DEF TakesMessage, m
  <2>. QED
    BY <1>1, <1>3, <2>1, <2>3 DEF TakesMessage, MessagesInv
<1>4. CASE TakesEnd
  <2>1. agent'.messages \in Seq(Known(n)) /\ Tail(eventQueue) \in Seq(Event(n))
    BY <1>1, <1>4, TrimmedKnown, TailKnown DEF TakesEnd
  <2>. QED
    BY <1>1, <1>4, <2>1 DEF TakesEnd, MessagesInv
<1>5. CASE Summarizes
  <2>1. PICK kept \in Nat :
          LET file == Append(files[current], Compacted(n + 1, kept)) IN
            /\ files' = [files EXCEPT ![current] = file]
            /\ Trimmed(agent'.messages, Context(file))
            /\ used'.ids = n + 1
            /\ UNCHANGED <<agent.tool, agent.streaming, eventQueue, pendingBash>>
    BY <1>5 DEF Summarizes
  <2>. DEFINE file == Append(files[current], Compacted(n + 1, kept))
  <2>2. /\ agent.tool \in 0 .. n + 1 /\ eventQueue \in Seq(Event(n + 1))
        /\ files \in [Sessions -> Seq(Lines(n + 1))] /\ pendingBash \in Seq(Bash(n + 1))
    BY StateGrows
  <2>3. n + 1 \in Nat /\ Compacted(n + 1, kept) \in Lines(n + 1)
    BY <1>1, CompactedKnown
  <2>4. file \in Seq(Lines(n + 1))
    BY <1>1, <2>2, <2>3, MessagesFileAppend
  <2>. HIDE DEF file, n
  <2>5. Context(file) \in Seq(Known(n + 1))
    BY <2>3, <2>4, ContextTyped
  <2>6. agent'.messages \in Seq(Known(n + 1))
    BY <2>1, <2>5, TrimmedKnown DEF file
  <2>7. files' \in [Sessions -> Seq(Lines(n + 1))]
    BY <2>1, <2>2, <2>4 DEF file
  <2>. QED
    BY <1>1, <2>1, <2>2, <2>6, <2>7 DEF n, MessagesInv
<1>6. CASE Opens
  <2>1. agent'.messages \in Seq(Known(n))
    BY <1>1, <1>6, ContextTyped DEF Opens
  <2>. QED
    BY <1>1, <1>6, <2>1 DEF Opens, Same, MessagesInv
<1>7. CASE Says
  <2>1. PICK m \in Said(n + 1) :
          /\ agent'.messages = Append(agent.messages, m)
          /\ agent'.tool \in {0, n + 1} /\ (agent'.tool # 0 => agent'.streaming)
          /\ \/ UNCHANGED eventQueue
             \/ eventQueue' = eventQueue \o <<MessageEvent(m)>>
             \/ eventQueue' = eventQueue \o <<MessageEvent(m), EndEvent(m)>>
          /\ used'.ids = n + 1
          /\ UNCHANGED <<files, pendingBash>>
    BY <1>7 DEF Says
  <2>2. /\ agent.messages \in Seq(Known(n + 1)) /\ eventQueue \in Seq(Event(n + 1))
        /\ files \in [Sessions -> Seq(Lines(n + 1))] /\ pendingBash \in Seq(Bash(n + 1))
    BY StateGrows
  <2>3. m \in Known(n + 1) /\ MessageEvent(m) \in Event(n + 1) /\ EndEvent(m) \in Event(n + 1)
    BY EventKnown DEF Said
  <2>4. agent'.tool \in 0 .. n + 1
    BY <1>1, <2>1
  <2>. HIDE DEF n
  <2>5. agent'.messages \in Seq(Known(n + 1))
    BY <2>1, <2>2, <2>3
  <2>6. eventQueue' \in Seq(Event(n + 1))
    <3>1. /\ <<MessageEvent(m)>> \in Seq(Event(n + 1))
          /\ <<MessageEvent(m), EndEvent(m)>> \in Seq(Event(n + 1))
      BY <2>3
    <3>2. \A x \in Seq(Event(n + 1)) : eventQueue \o x \in Seq(Event(n + 1))
      BY <2>2
    <3>. QED
      BY <2>1, <2>2, <3>1, <3>2, Zenon
  <2>. QED
    BY <2>1, <2>2, <2>4, <2>5, <2>6 DEF MessagesInv, n
<1>8. CASE Flushes
  <2>. DEFINE new  == [i \in DOMAIN pendingBash |-> Stored(pendingBash[i])]
              file == files[current] \o new
  <2>1. pendingBash \in Seq(Known(n))
    BY <1>1, SeqMonotone DEF Bash
  <2>2. file \in Seq(Lines(n))
    BY <1>1, <2>1, MessagesFileConcat
  <2>3. agent.messages \o pendingBash \in Seq(Known(n))
    BY <1>1, <2>1
  <2>4. agent'.messages \in Seq(Known(n))
    BY <1>8, <2>3, TrimmedKnown DEF Flushes
  <2>. HIDE DEF file
  <2>5. files' \in [Sessions -> Seq(Lines(n))]
    BY <1>1, <1>8, <2>2 DEF Flushes, file
  <2>6. <<>> \in Seq(Bash(n))
    OBVIOUS
  <2>. QED
    BY <1>1, <1>8, <2>4, <2>5, <2>6 DEF Flushes, MessagesInv
<1>9. CASE AddsBash
  <2>1. PICK m \in Bash(n + 1) :
          /\ used'.ids = n + 1
          /\ \/ /\ agent'.messages = Append(agent.messages, m)
                /\ files' = [files EXCEPT ![current] = Append(@, Stored(m))]
                /\ UNCHANGED pendingBash
             \/ /\ pendingBash' = Append(pendingBash, m)
                /\ UNCHANGED <<agent.messages, files>>
          /\ UNCHANGED <<agent.tool, agent.streaming, eventQueue>>
    BY <1>9 DEF AddsBash
  <2>2. /\ agent.messages \in Seq(Known(n + 1)) /\ eventQueue \in Seq(Event(n + 1))
        /\ files \in [Sessions -> Seq(Lines(n + 1))] /\ pendingBash \in Seq(Bash(n + 1))
        /\ agent.tool \in 0 .. n + 1
    BY StateGrows
  <2>3. m \in Known(n + 1) /\ n + 1 \in Nat
    BY <1>1 DEF Bash
  <2>. HIDE DEF n
  <2>4. Append(files[current], Stored(m)) \in Seq(Lines(n + 1))
    BY <1>1, <2>2, <2>3, StoredKnown, MessagesFileAppend
  <2>5. files' \in [Sessions -> Seq(Lines(n + 1))]
    BY <2>1, <2>2, <2>4
  <2>6. agent'.messages \in Seq(Known(n + 1)) /\ pendingBash' \in Seq(Bash(n + 1))
    <3>1. Append(agent.messages, m) \in Seq(Known(n + 1)) /\ Append(pendingBash, m) \in Seq(Bash(n + 1))
      BY <2>2, <2>3, AppendKnown
    <3>. QED
      BY <2>1, <2>2, <3>1, Zenon
  <2>. QED
    BY <1>1, <2>1, <2>2, <2>5, <2>6 DEF MessagesInv, n
<1>. QED
  BY <1>2, <1>3, <1>4, <1>5, <1>6, <1>7, <1>8, <1>9 DEF Moves
-----------------------------------------------------------------------------
(* Messages are stored once, in order.                                     *)

Queued(q) == {k \in DOMAIN q : q[k].type = "message"}

QueueInOrder ==
  \A k, l \in Queued(eventQueue) : k < l => eventQueue[k].message.id < eventQueue[l].message.id

StoredBeforeQueued ==
  \A s \in Sessions : \A i \in DOMAIN files[s], k \in Queued(eventQueue) :
    LET m == files[s][i].message  x == eventQueue[k].message IN
      m.id # x.id /\ (m.role \notin {"bash", "summary"} => m.id < x.id)

DeferredApart ==
  /\ \A i, j \in DOMAIN pendingBash : i # j => pendingBash[i].id # pendingBash[j].id
  /\ \A i \in DOMAIN pendingBash :
       /\ \A s \in Sessions : \A j \in DOMAIN files[s] : files[s][j].message.id # pendingBash[i].id
       /\ \A k \in Queued(eventQueue) : eventQueue[k].message.id # pendingBash[i].id

OnceInv == PersistedOnceInOrder /\ QueueInOrder /\ StoredBeforeQueued /\ DeferredApart

(* Ids have been given out.                                                *)
LEMMA IdsKnown ==
  ASSUME TypeInv
  PROVE  /\ used.ids \in Nat /\ current \in Sessions
         /\ \A s \in Sessions : /\ files[s] \in Seq(Lines(used.ids)) /\ Len(files[s]) \in Nat
                                /\ DOMAIN files[s] = 1 .. Len(files[s])
         /\ \A s \in Sessions : \A i \in DOMAIN files[s] :
              files[s][i].message \in Known(used.ids) /\ files[s][i].message.id \in 1 .. used.ids
         /\ DOMAIN eventQueue = 1 .. Len(eventQueue) /\ Len(eventQueue) \in Nat
         /\ \A k \in DOMAIN eventQueue :
              /\ eventQueue[k].message \in Said(used.ids)
              /\ eventQueue[k].message.id \in 1 .. used.ids
              /\ eventQueue[k].message.call \in 0 .. used.ids
         /\ DOMAIN pendingBash = 1 .. Len(pendingBash) /\ Len(pendingBash) \in Nat
         /\ \A i \in DOMAIN pendingBash :
              /\ pendingBash[i] \in Bash(used.ids)
              /\ pendingBash[i].id \in 1 .. used.ids /\ pendingBash[i].role = "bash"
<1>. DEFINE n == used.ids
<1>1. /\ n \in Nat /\ current \in Sessions
      /\ eventQueue \in Seq(Event(n))
      /\ files \in [Sessions -> Seq(Lines(n))]
      /\ pendingBash \in Seq(Bash(n))
  BY DEF TypeInv, ControlInv, MessagesInv
<1>. HIDE DEF n
<1>2. \A m \in Known(n) : m.id \in 1 .. n /\ m.call \in 0 .. n
  BY DEF Known
<1>3. \A s \in Sessions : /\ files[s] \in Seq(Lines(n)) /\ Len(files[s]) \in Nat
                          /\ DOMAIN files[s] = 1 .. Len(files[s])
  BY <1>1
<1>4. ASSUME NEW s \in Sessions, NEW i \in DOMAIN files[s]
      PROVE  files[s][i].message \in Known(n) /\ files[s][i].message.id \in 1 .. n
  <2>1. files[s][i].message \in Known(n)
    BY <1>1, <1>3, MessagesKnown
  <2>. QED
    BY <1>2, <2>1
<1>5. DOMAIN eventQueue = 1 .. Len(eventQueue) /\ Len(eventQueue) \in Nat
  BY <1>1
<1>6. ASSUME NEW k \in DOMAIN eventQueue
      PROVE  /\ eventQueue[k].message \in Said(n) /\ eventQueue[k].message.id \in 1 .. n
             /\ eventQueue[k].message.call \in 0 .. n
  <2>1. eventQueue[k] \in Event(n)
    BY <1>1
  <2>2. eventQueue[k].message \in Said(n)
    BY <2>1 DEF Event
  <2>. QED
    BY <1>2, <2>2 DEF Said
<1>7. /\ DOMAIN pendingBash = 1 .. Len(pendingBash) /\ Len(pendingBash) \in Nat
      /\ \A i \in DOMAIN pendingBash : pendingBash[i] \in Bash(n)
  BY <1>1
<1>8. \A m \in Bash(n) : m.id \in 1 .. n /\ m.role = "bash"
  BY <1>2 DEF Bash
<1>. QED
  BY <1>1, <1>3, <1>4, <1>5, <1>6, <1>7, <1>8 DEF n

(* What is left of a queue.                                                *)
LEMMA TailQueued ==
  ASSUME NEW T, NEW q \in Seq(T), q # <<>>, NEW k \in Queued(Tail(q))
  PROVE  /\ k \in Nat /\ k >= 1 /\ k + 1 \in Queued(q) /\ Tail(q)[k] = q[k + 1]
         /\ k \in DOMAIN Tail(q)
<1>1. /\ Tail(q) \in Seq(T) /\ Len(q) \in Nat /\ Len(q) > 0 /\ Len(Tail(q)) = Len(q) - 1
      /\ \A i \in 1 .. Len(q) - 1 : Tail(q)[i] = q[i + 1]
  BY TailKnown
<1>2. k \in 1 .. Len(q) - 1 /\ Tail(q)[k].type = "message" /\ k \in DOMAIN Tail(q)
  BY <1>1 DEF Queued
<1>3. k + 1 \in DOMAIN q
  BY <1>1, <1>2
<1>. QED
  BY <1>1, <1>2, <1>3 DEF Queued

\* The open file gets the messages p.
Gets(p) ==
  \A s \in Sessions : \A i \in DOMAIN files'[s] :
    \/ i \in DOMAIN files[s] /\ files'[s][i].message = files[s][i].message
    \/ /\ s = current /\ i - Len(files[s]) \in 1 .. Len(p)
       /\ files'[s][i].message = p[i - Len(files[s])]

LEMMA FileGets ==
  ASSUME NEW n \in Nat, files \in [Sessions -> Seq(Lines(n))], current \in Sessions,
         NEW p \in Seq(Known(n)), NEW new \in Seq(Lines(n)), files' = [files EXCEPT ![current] = new],
         Messages(new) = Messages(files[current]) \o p
  PROVE  Gets(p) /\ \A s \in Sessions : Len(files'[s]) \in Nat /\ DOMAIN files'[s] = 1 .. Len(files'[s])
<1>1. ASSUME NEW s \in Sessions, s # current PROVE files'[s] = files[s]
  BY <1>1
<1>2. files'[current] = new
  OBVIOUS
<1>. DEFINE file == files[current]
            a    == Messages(file)
            b    == Messages(new)
<1>3. /\ file \in Seq(Lines(n))
      /\ a \in Seq(Known(n)) /\ Len(a) = Len(file) /\ Len(file) \in Nat
      /\ \A i \in 1 .. Len(file) : a[i] = file[i].message
  BY MessagesKnown
<1>4. /\ b \in Seq(Known(n)) /\ Len(b) = Len(new) /\ Len(new) \in Nat
      /\ \A i \in 1 .. Len(new) : b[i] = new[i].message
  BY MessagesKnown
<1>5. b = a \o p
  OBVIOUS
<1>. HIDE DEF a, b, file
<1>6. /\ Len(b) = Len(a) + Len(p) /\ Len(p) \in Nat
      /\ \A i \in 1 .. Len(a) : b[i] = a[i]
      /\ \A i \in Len(a) + 1 .. Len(a) + Len(p) : b[i] = p[i - Len(a)]
  <2>1. a \in Seq(Known(n)) /\ p \in Seq(Known(n))
    BY <1>3
  <2>. QED
    BY <2>1, <1>5, ConcatKnown
<1>7. DOMAIN new = 1 .. Len(new) /\ DOMAIN file = 1 .. Len(file)
  BY <1>3
<1>8. ASSUME NEW i \in DOMAIN new
      PROVE  \/ i \in DOMAIN file /\ new[i].message = file[i].message
             \/ i - Len(file) \in 1 .. Len(p) /\ new[i].message = p[i - Len(file)]
  <2>1. CASE i <= Len(file)
    <3>1. i \in 1 .. Len(a) /\ i \in 1 .. Len(new) /\ i \in DOMAIN file /\ i \in 1 .. Len(file)
      BY <1>3, <1>4, <1>7, <2>1
    <3>2. b[i] = a[i] /\ b[i] = new[i].message /\ a[i] = file[i].message
      BY <1>3, <1>4, <1>6, <3>1
    <3>. QED
      BY <3>1, <3>2
  <2>2. CASE ~ (i <= Len(file))
    <3>1. i - Len(file) \in 1 .. Len(p) /\ i \in Len(a) + 1 .. Len(a) + Len(p)
      BY <1>3, <1>4, <1>6, <1>7, <2>2
    <3>. QED
      BY <1>3, <1>4, <1>6, <1>7, <3>1
  <2>. QED
    BY <2>1, <2>2
<1>9. Gets(p)
  <2>1. ASSUME NEW s \in Sessions, NEW i \in DOMAIN files'[s]
        PROVE  \/ i \in DOMAIN files[s] /\ files'[s][i].message = files[s][i].message
               \/ /\ s = current /\ i - Len(files[s]) \in 1 .. Len(p)
                  /\ files'[s][i].message = p[i - Len(files[s])]
    <3>1. CASE s = current
      BY <1>2, <1>8, <2>1, <3>1 DEF file
    <3>2. CASE s # current
      BY <1>1, <2>1, <3>2
    <3>. QED
      BY <3>1, <3>2
  <2>. QED
    BY <2>1 DEF Gets
<1>10. \A s \in Sessions : Len(files[s]) \in Nat /\ DOMAIN files[s] = 1 .. Len(files[s])
  OBVIOUS
<1>. QED
  BY <1>1, <1>2, <1>4, <1>7, <1>9, <1>10

(* New messages in a file are stored once, in order.                       *)
LEMMA OnceGets ==
  ASSUME TypeInv, PersistedOnceInOrder, NEW p, Len(p) \in Nat, Gets(p),
         \A s \in Sessions : Len(files'[s]) \in Nat /\ DOMAIN files'[s] = 1 .. Len(files'[s]),
         \A i \in 1 .. Len(p) : \A s \in Sessions : \A j \in DOMAIN files[s] :
           files[s][j].message.id # p[i].id,
         \A i, j \in 1 .. Len(p) : i # j => p[i].id # p[j].id,
         \A i \in 1 .. Len(p) :
           \/ p[i].role \in {"bash", "summary"}
           \/ /\ Len(p) = 1
              /\ \A s \in Sessions : \A j \in DOMAIN files[s] :
                   files[s][j].message.role \notin {"bash", "summary"} =>
                     files[s][j].message.id < p[i].id
  PROVE  PersistedOnceInOrder'
<1>. DEFINE In(r) == r \notin {"bash", "summary"}
<1>1. ASSUME NEW s \in Sessions, NEW t \in Sessions, NEW i \in DOMAIN files'[s],
             NEW j \in DOMAIN files'[t]
      PROVE  LET m == files'[s][i].message  x == files'[t][j].message IN
               /\ m.id = x.id => s = t /\ i = j
               /\ (s = t /\ i < j /\ In(m.role) /\ In(x.role)) => m.id < x.id
  <2>. DEFINE m == files'[s][i].message
              x == files'[t][j].message
              k == i - Len(files[s])
              l == j - Len(files[t])
  <2>1. /\ Len(files[s]) \in Nat /\ Len(files[t]) \in Nat
        /\ DOMAIN files[s] = 1 .. Len(files[s]) /\ DOMAIN files[t] = 1 .. Len(files[t])
        /\ i \in Nat /\ j \in Nat
    BY IdsKnown
  <2>2. \/ i \in DOMAIN files[s] /\ m = files[s][i].message
        \/ s = current /\ k \in 1 .. Len(p) /\ m = p[k]
    BY DEF Gets
  <2>3. \/ j \in DOMAIN files[t] /\ x = files[t][j].message
        \/ t = current /\ l \in 1 .. Len(p) /\ x = p[l]
    BY DEF Gets
  <2>. HIDE DEF m, x
  <2>4. CASE i \in DOMAIN files[s] /\ m = files[s][i].message /\ j \in DOMAIN files[t] /\ x = files[t][j].message
    <3>1. /\ m.id = x.id => s = t /\ i = j
          /\ (s = t /\ i < j /\ {m.role, x.role} \cap {"bash", "summary"} = {}) => m.id < x.id
      BY <2>4 DEF PersistedOnceInOrder
    <3>2. In(m.role) /\ In(x.role) => {m.role, x.role} \cap {"bash", "summary"} = {}
      OBVIOUS
    <3>. QED
      BY <3>1, <3>2 DEF m, x
  <2>5. CASE i \in DOMAIN files[s] /\ m = files[s][i].message /\ t = current /\ l \in 1 .. Len(p) /\ x = p[l]
    <3>1. m.id # x.id
      BY <2>5
    <3>2. In(m.role) /\ In(x.role) => m.id < x.id
      BY <2>5
    <3>. QED
      BY <3>1, <3>2 DEF m, x
  <2>6. CASE s = current /\ k \in 1 .. Len(p) /\ m = p[k] /\ j \in DOMAIN files[t] /\ x = files[t][j].message
    <3>1. m.id # x.id
      BY <2>6
    <3>2. ~ (s = t /\ i < j)
      BY <2>1, <2>6
    <3>. QED
      BY <3>1, <3>2 DEF m, x
  <2>7. CASE s = current /\ k \in 1 .. Len(p) /\ m = p[k] /\ t = current /\ l \in 1 .. Len(p) /\ x = p[l]
    <3>1. m.id = x.id => k = l
      BY <2>7
    <3>2. k = l => i = j
      BY <2>1, <2>7
    <3>3. i < j /\ In(m.role) => FALSE
      <4>1. SUFFICES ASSUME i < j, In(m.role) PROVE FALSE
        OBVIOUS
      <4>2. Len(p) = 1
        BY <2>7, <4>1
      <4>. QED
        BY <2>1, <2>7, <4>1, <4>2
    <3>. QED
      BY <2>7, <3>1, <3>2, <3>3 DEF m, x
  <2>. QED
    BY <2>2, <2>3, <2>4, <2>5, <2>6, <2>7 DEF m, x
<1>2. ASSUME NEW s \in Sessions, NEW t \in Sessions, NEW i \in DOMAIN files'[s],
             NEW j \in DOMAIN files'[t]
      PROVE  LET m == files'[s][i].message  n == files'[t][j].message IN
               /\ m.id = n.id => s = t /\ i = j
               /\ (s = t /\ i < j /\ {m.role, n.role} \cap {"bash", "summary"} = {}) => m.id < n.id
  <2>1. \A a, b : {a, b} \cap {"bash", "summary"} = {} => In(a) /\ In(b)
    OBVIOUS
  <2>. QED
    BY <1>1, <2>1
<1>. QED
  BY <1>2 DEF PersistedOnceInOrder

(* The files are as they were and the queue is shorter at most.            *)
LEMMA OnceLess ==
  ASSUME TypeInv, OnceInv, UNCHANGED <<files, pendingBash>>,
         \/ UNCHANGED eventQueue
         \/ eventQueue # <<>> /\ eventQueue' = Tail(eventQueue)
  PROVE  OnceInv'
<1>1. CASE UNCHANGED eventQueue
  BY <1>1 DEF OnceInv, PersistedOnceInOrder, QueueInOrder, StoredBeforeQueued, DeferredApart, Queued
<1>2. CASE eventQueue # <<>> /\ eventQueue' = Tail(eventQueue)
  <2>1. eventQueue \in Seq(Event(used.ids))
    BY DEF TypeInv, MessagesInv
  <2>2. ASSUME NEW k \in Queued(eventQueue)'
        PROVE  /\ k \in Nat /\ k + 1 \in Queued(eventQueue) /\ eventQueue'[k] = eventQueue[k + 1]
    <3>1. k \in Queued(Tail(eventQueue))
      BY <1>2, <2>2 DEF Queued
    <3>. QED
      BY <1>2, <2>1, <3>1, TailQueued
  <2>3. PersistedOnceInOrder'
    BY DEF OnceInv, PersistedOnceInOrder
  <2>4. QueueInOrder'
    <3>1. ASSUME NEW k \in Queued(eventQueue)', NEW l \in Queued(eventQueue)', k < l
          PROVE  eventQueue'[k].message.id < eventQueue'[l].message.id
      <4>1. /\ k + 1 \in Queued(eventQueue) /\ l + 1 \in Queued(eventQueue) /\ k + 1 < l + 1
            /\ eventQueue'[k] = eventQueue[k + 1] /\ eventQueue'[l] = eventQueue[l + 1]
        BY <2>2, <3>1
      <4>. QED
        BY <4>1 DEF OnceInv, QueueInOrder
    <3>. QED
      BY <3>1 DEF QueueInOrder
  <2>5. StoredBeforeQueued'
    <3>1. ASSUME NEW s \in Sessions, NEW i \in DOMAIN files'[s], NEW k \in Queued(eventQueue)'
          PROVE  LET m == files'[s][i].message  x == eventQueue'[k].message IN
                   m.id # x.id /\ (m.role \notin {"bash", "summary"} => m.id < x.id)
      <4>1. k + 1 \in Queued(eventQueue) /\ eventQueue'[k] = eventQueue[k + 1]
        BY <2>2
      <4>. QED
        BY <4>1 DEF OnceInv, StoredBeforeQueued
    <3>. QED
      BY <3>1 DEF StoredBeforeQueued
  <2>6. DeferredApart'
    <3>1. \A i \in DOMAIN pendingBash : \A k \in Queued(eventQueue)' :
            eventQueue'[k].message.id # pendingBash[i].id
      BY <2>2 DEF OnceInv, DeferredApart
    <3>. QED
      BY <3>1 DEF OnceInv, DeferredApart
  <2>. QED
    BY <2>3, <2>4, <2>5, <2>6 DEF OnceInv
<1>. QED
  BY <1>1, <1>2

(* A new bash result or summary goes to the file.                          *)
LEMMA OnceFresh ==
  ASSUME TypeInv, OnceInv, NEW m, m.id = used.ids + 1, m.role \in {"bash", "summary"}, Gets(<<m>>),
         \A s \in Sessions : Len(files'[s]) \in Nat /\ DOMAIN files'[s] = 1 .. Len(files'[s]),
         UNCHANGED <<eventQueue, pendingBash>>
  PROVE  OnceInv'
<1>. DEFINE n == used.ids
            p == <<m>>
<1>1. Len(p) = 1 /\ p[1] = m
  OBVIOUS
<1>2. /\ n \in Nat
      /\ \A s \in Sessions : \A i \in DOMAIN files[s] : files[s][i].message.id \in 1 .. n
      /\ \A k \in DOMAIN eventQueue : eventQueue[k].message.id \in 1 .. n
      /\ \A i \in DOMAIN pendingBash : pendingBash[i].id \in 1 .. n
  BY IdsKnown
<1>3. m.id = n + 1
  OBVIOUS
<1>4. Gets(p)
  OBVIOUS
<1>. HIDE DEF n, p
<1>5. ASSUME NEW s \in Sessions, NEW i \in DOMAIN files'[s]
      PROVE  \/ i \in DOMAIN files[s] /\ files'[s][i].message = files[s][i].message
             \/ files'[s][i].message = m
  BY <1>1, <1>4 DEF Gets
<1>6. PersistedOnceInOrder'
  <2>1. \A i \in 1 .. Len(p) : \A s \in Sessions : \A j \in DOMAIN files[s] :
          files[s][j].message.id # p[i].id
    BY <1>1, <1>2, <1>3
  <2>2. \A i, j \in 1 .. Len(p) : i # j => p[i].id # p[j].id
    BY <1>1
  <2>3. \A i \in 1 .. Len(p) : p[i].role \in {"bash", "summary"}
    BY <1>1
  <2>4. PersistedOnceInOrder /\ Len(p) \in Nat
    BY <1>1 DEF OnceInv
  <2>. QED
    BY <1>4, <2>1, <2>2, <2>3, <2>4, OnceGets
<1>7. QueueInOrder'
  BY DEF OnceInv, QueueInOrder, Queued
<1>8. StoredBeforeQueued'
  <2>1. ASSUME NEW s \in Sessions, NEW i \in DOMAIN files'[s], NEW k \in Queued(eventQueue)
        PROVE  LET a == files'[s][i].message  x == eventQueue[k].message IN
                 a.id # x.id /\ (a.role \notin {"bash", "summary"} => a.id < x.id)
    <3>1. CASE i \in DOMAIN files[s] /\ files'[s][i].message = files[s][i].message
      BY <3>1 DEF OnceInv, StoredBeforeQueued
    <3>2. CASE files'[s][i].message = m
      <4>1. k \in DOMAIN eventQueue
        BY DEF Queued
      <4>. QED
        BY <1>2, <1>3, <3>2, <4>1
    <3>. QED
      BY <1>5, <3>1, <3>2
  <2>. QED
    BY <2>1 DEF StoredBeforeQueued, Queued
<1>9. DeferredApart'
  <2>1. ASSUME NEW i \in DOMAIN pendingBash, NEW s \in Sessions, NEW j \in DOMAIN files'[s]
        PROVE  files'[s][j].message.id # pendingBash[i].id
    <3>1. CASE j \in DOMAIN files[s] /\ files'[s][j].message = files[s][j].message
      BY <3>1 DEF OnceInv, DeferredApart
    <3>2. CASE files'[s][j].message = m
      BY <1>2, <1>3, <3>2
    <3>. QED
      BY <1>5, <3>1, <3>2
  <2>. QED
    BY <2>1 DEF OnceInv, DeferredApart, Queued
<1>. QED
  BY <1>6, <1>7, <1>8, <1>9 DEF OnceInv

(* A message goes from the queue to the file.                              *)
LEMMA OnceTaken ==
  ASSUME TypeInv, OnceInv, TakesMessage
  PROVE  OnceInv'
<1>. DEFINE n == used.ids
            m == Head(eventQueue).message
            p == <<m>>
<1>1. /\ eventQueue # <<>> /\ eventQueue' = Tail(eventQueue) /\ UNCHANGED pendingBash
      /\ files' = [files EXCEPT ![current] = Append(@, Stored(m))] /\ Head(eventQueue).type = "message"
  BY DEF TakesMessage
<1>2. /\ n \in Nat /\ current \in Sessions /\ files \in [Sessions -> Seq(Lines(n))]
      /\ eventQueue \in Seq(Event(n)) /\ m \in Said(n)
  BY <1>1, HeadKnown DEF TypeInv, ControlInv, MessagesInv
<1>3. 1 \in Queued(eventQueue) /\ eventQueue[1].message = m
  BY <1>1, <1>2, TailKnown DEF Queued
<1>. HIDE DEF m, n
<1>4. m \in Known(n) /\ Stored(m) \in Lines(n) /\ Stored(m).message = m
  BY <1>2, StoredKnown DEF Said
<1>5. p \in Seq(Known(n)) /\ Len(p) = 1 /\ p[1] = m
  BY <1>4
<1>6. /\ Append(files[current], Stored(m)) \in Seq(Lines(n))
      /\ Messages(Append(files[current], Stored(m))) = Messages(files[current]) \o p
  <2>1. files[current] \in Seq(Lines(n)) /\ Messages(files[current]) \in Seq(Known(n))
    BY <1>2, MessagesKnown
  <2>2. Append(Messages(files[current]), m) = Messages(files[current]) \o p
    BY <1>4, <2>1
  <2>3. /\ Append(files[current], Stored(m)) \in Seq(Lines(n))
        /\ Messages(Append(files[current], Stored(m))) = Append(Messages(files[current]), m)
    BY <1>2, <1>4, <2>1, MessagesFileAppend
  <2>. QED
    BY <2>2, <2>3
<1>. HIDE DEF p
<1>7. Gets(p) /\ \A s \in Sessions : Len(files'[s]) \in Nat /\ DOMAIN files'[s] = 1 .. Len(files'[s])
  BY <1>1, <1>2, <1>5, <1>6, FileGets
<1>8. ASSUME NEW s \in Sessions, NEW i \in DOMAIN files'[s]
      PROVE  \/ i \in DOMAIN files[s] /\ files'[s][i].message = files[s][i].message
             \/ files'[s][i].message = m
  BY <1>5, <1>7 DEF Gets
<1>9. ASSUME NEW k \in Queued(eventQueue)'
      PROVE  /\ k \in Nat /\ k + 1 \in Queued(eventQueue) /\ 1 < k + 1
             /\ eventQueue'[k] = eventQueue[k + 1]
  <2>1. k \in Queued(Tail(eventQueue))
    BY <1>1, <1>9 DEF Queued
  <2>2. /\ k \in Nat /\ k >= 1 /\ k + 1 \in Queued(eventQueue)
        /\ Tail(eventQueue)[k] = eventQueue[k + 1]
    BY <1>1, <1>2, <2>1, TailQueued
  <2>3. eventQueue' = Tail(eventQueue)
    BY <1>1
  <2>4. 1 < k + 1
    BY <2>2
  <2>. QED
    BY <2>2, <2>3, <2>4, Zenon
<1>10. PersistedOnceInOrder'
  <2>1. \A i \in 1 .. Len(p) : \A s \in Sessions : \A j \in DOMAIN files[s] :
          files[s][j].message.id # p[i].id
    BY <1>3, <1>5 DEF OnceInv, StoredBeforeQueued
  <2>2. \A i, j \in 1 .. Len(p) : i # j => p[i].id # p[j].id
    BY <1>5
  <2>3. \A i \in 1 .. Len(p) :
          /\ Len(p) = 1
          /\ \A s \in Sessions : \A j \in DOMAIN files[s] :
               files[s][j].message.role \notin {"bash", "summary"} => files[s][j].message.id < p[i].id
    BY <1>3, <1>5 DEF OnceInv, StoredBeforeQueued
  <2>4. PersistedOnceInOrder /\ Len(p) \in Nat
    BY <1>5 DEF OnceInv
  <2>. QED
    BY <1>7, <2>1, <2>2, <2>3, <2>4, OnceGets
<1>11. QueueInOrder'
  <2>1. ASSUME NEW k \in Queued(eventQueue)', NEW l \in Queued(eventQueue)', k < l
        PROVE  eventQueue'[k].message.id < eventQueue'[l].message.id
    <3>1. /\ k + 1 \in Queued(eventQueue) /\ l + 1 \in Queued(eventQueue) /\ k + 1 < l + 1
          /\ eventQueue'[k] = eventQueue[k + 1] /\ eventQueue'[l] = eventQueue[l + 1]
      BY <1>9, <2>1
    <3>. QED
      BY <3>1 DEF OnceInv, QueueInOrder
  <2>. QED
    BY <2>1 DEF QueueInOrder
<1>12. StoredBeforeQueued'
  <2>1. ASSUME NEW s \in Sessions, NEW i \in DOMAIN files'[s], NEW k \in Queued(eventQueue)'
        PROVE  LET a == files'[s][i].message  x == eventQueue'[k].message IN
                 a.id # x.id /\ (a.role \notin {"bash", "summary"} => a.id < x.id)
    <3>1. /\ k + 1 \in Queued(eventQueue) /\ 1 < k + 1 /\ eventQueue'[k] = eventQueue[k + 1]
      BY <1>9
    <3>2. CASE i \in DOMAIN files[s] /\ files'[s][i].message = files[s][i].message
      BY <3>1, <3>2 DEF OnceInv, StoredBeforeQueued
    <3>3. CASE files'[s][i].message = m
      <4>1. m.id < eventQueue[k + 1].message.id
        BY <1>3, <3>1 DEF OnceInv, QueueInOrder
      <4>2. m.id \in Nat /\ eventQueue[k + 1].message.id \in Nat
        <5>1. k + 1 \in DOMAIN eventQueue /\ 1 \in DOMAIN eventQueue
          BY <1>3, <3>1 DEF Queued
        <5>2. \A x \in DOMAIN eventQueue : eventQueue[x].message.id \in Nat
          BY IdsKnown
        <5>. QED
          BY <1>3, <5>1, <5>2
      <4>. QED
        BY <3>1, <3>3, <4>1, <4>2
    <3>. QED
      BY <1>8, <3>2, <3>3
  <2>. QED
    BY <2>1 DEF StoredBeforeQueued
<1>13. DeferredApart'
  <2>1. ASSUME NEW i \in DOMAIN pendingBash, NEW s \in Sessions, NEW j \in DOMAIN files'[s]
        PROVE  files'[s][j].message.id # pendingBash[i].id
    <3>1. CASE j \in DOMAIN files[s] /\ files'[s][j].message = files[s][j].message
      BY <3>1 DEF OnceInv, DeferredApart
    <3>2. CASE files'[s][j].message = m
      BY <1>3, <3>2 DEF OnceInv, DeferredApart
    <3>. QED
      BY <1>8, <3>1, <3>2
  <2>2. \A i \in DOMAIN pendingBash : \A k \in Queued(eventQueue)' :
          eventQueue'[k].message.id # pendingBash[i].id
    BY <1>9 DEF OnceInv, DeferredApart
  <2>3. \A i, j \in DOMAIN pendingBash : i # j => pendingBash[i].id # pendingBash[j].id
    BY DEF OnceInv, DeferredApart
  <2>4. pendingBash' = pendingBash
    BY <1>1
  <2>. QED
    BY <2>1, <2>2, <2>3, <2>4, Zenon DEF DeferredApart
<1>. QED
  BY <1>10, <1>11, <1>12, <1>13 DEF OnceInv

(* The deferred bash results go to the file.                               *)
LEMMA OnceFlushed ==
  ASSUME TypeInv, OnceInv, Flushes
  PROVE  OnceInv'
<1>. DEFINE n == used.ids
            p == pendingBash
<1>1. /\ pendingBash' = <<>> /\ eventQueue' = eventQueue
      /\ files' = [files EXCEPT ![current] = @ \o [i \in DOMAIN p |-> Stored(p[i])]]
  BY DEF Flushes
<1>2. /\ n \in Nat /\ current \in Sessions /\ files \in [Sessions -> Seq(Lines(n))]
      /\ p \in Seq(Known(n)) /\ Len(p) \in Nat /\ DOMAIN p = 1 .. Len(p)
      /\ \A i \in DOMAIN p : p[i].role = "bash"
  <2>1. n \in Nat /\ p \in Seq(Bash(n)) /\ current \in Sessions /\ files \in [Sessions -> Seq(Lines(n))]
    BY DEF TypeInv, ControlInv, MessagesInv
  <2>2. p \in Seq(Known(n))
    BY <2>1, SeqMonotone DEF Bash
  <2>. QED
    BY <2>1, <2>2, IdsKnown
<1>3. /\ \A i, j \in DOMAIN p : i # j => p[i].id # p[j].id
      /\ \A i \in DOMAIN p :
           /\ \A s \in Sessions : \A j \in DOMAIN files[s] : files[s][j].message.id # p[i].id
           /\ \A k \in Queued(eventQueue) : eventQueue[k].message.id # p[i].id
  BY DEF OnceInv, DeferredApart
<1>. DEFINE new == files[current] \o [i \in DOMAIN p |-> Stored(p[i])]
<1>4. new \in Seq(Lines(n)) /\ Messages(new) = Messages(files[current]) \o p
  BY <1>2, MessagesFileConcat
<1>5. files' = [files EXCEPT ![current] = new]
  BY <1>1
<1>. HIDE DEF new, p, n
<1>6. Gets(p) /\ \A s \in Sessions : Len(files'[s]) \in Nat /\ DOMAIN files'[s] = 1 .. Len(files'[s])
  BY <1>2, <1>4, <1>5, FileGets
<1>7. PersistedOnceInOrder'
  <2>1. \A i \in 1 .. Len(p) : \A s \in Sessions : \A j \in DOMAIN files[s] :
          files[s][j].message.id # p[i].id
    BY <1>2, <1>3
  <2>2. \A i, j \in 1 .. Len(p) : i # j => p[i].id # p[j].id
    BY <1>2, <1>3
  <2>3. \A i \in 1 .. Len(p) : p[i].role \in {"bash", "summary"}
    BY <1>2
  <2>4. PersistedOnceInOrder
    BY DEF OnceInv
  <2>. QED
    BY <1>2, <1>6, <2>1, <2>2, <2>3, <2>4, OnceGets
<1>8. QueueInOrder'
  BY <1>1 DEF OnceInv, QueueInOrder, Queued
<1>9. StoredBeforeQueued'
  <2>1. ASSUME NEW s \in Sessions, NEW i \in DOMAIN files'[s], NEW k \in Queued(eventQueue)
        PROVE  LET a == files'[s][i].message  x == eventQueue[k].message IN
                 a.id # x.id /\ (a.role \notin {"bash", "summary"} => a.id < x.id)
    <3>1. CASE i \in DOMAIN files[s] /\ files'[s][i].message = files[s][i].message
      BY <3>1 DEF OnceInv, StoredBeforeQueued
    <3>2. CASE i - Len(files[s]) \in 1 .. Len(p) /\ files'[s][i].message = p[i - Len(files[s])]
      <4>1. i - Len(files[s]) \in DOMAIN p
        BY <1>2, <3>2
      <4>. QED
        BY <1>2, <1>3, <3>2, <4>1
    <3>. QED
      BY <1>6, <3>1, <3>2 DEF Gets
  <2>2. Queued(eventQueue)' = Queued(eventQueue)
    BY <1>1 DEF Queued
  <2>. QED
    BY <1>1, <2>1, <2>2 DEF StoredBeforeQueued
<1>10. DeferredApart'
  BY <1>1 DEF DeferredApart
<1>. QED
  BY <1>7, <1>8, <1>9, <1>10 DEF OnceInv

(* A bash result goes to the file, or is deferred.                         *)
LEMMA OnceBash ==
  ASSUME TypeInv, OnceInv, AddsBash
  PROVE  OnceInv'
<1>. DEFINE n == used.ids
<1>1. PICK m \in Bash(n + 1) :
        /\ m.id = n + 1 /\ eventQueue' = eventQueue
        /\ \/ files' = [files EXCEPT ![current] = Append(@, Stored(m))] /\ pendingBash' = pendingBash
           \/ pendingBash' = Append(pendingBash, m) /\ files' = files
  BY DEF AddsBash
<1>2. /\ n \in Nat /\ current \in Sessions
      /\ files \in [Sessions -> Seq(Lines(n + 1))]
      /\ pendingBash \in Seq(Bash(n + 1))
  BY StateGrows
<1>3. /\ \A s \in Sessions : \A i \in DOMAIN files[s] : files[s][i].message.id \in 1 .. n
      /\ \A k \in DOMAIN eventQueue : eventQueue[k].message.id \in 1 .. n
      /\ DOMAIN pendingBash = 1 .. Len(pendingBash) /\ Len(pendingBash) \in Nat
      /\ \A i \in DOMAIN pendingBash : pendingBash[i].id \in 1 .. n
  BY IdsKnown
<1>4. m \in Known(n + 1) /\ m.role = "bash"
  BY DEF Bash
<1>5. CASE files' = [files EXCEPT ![current] = Append(@, Stored(m))] /\ pendingBash' = pendingBash
  <2>1. Stored(m) \in Lines(n + 1) /\ Stored(m).message = m /\ n + 1 \in Nat
    BY <1>2, <1>4, StoredKnown
  <2>. DEFINE new == Append(files[current], Stored(m))
              p   == <<m>>
  <2>. HIDE DEF n
  <2>2. files[current] \in Seq(Lines(n + 1)) /\ Messages(files[current]) \in Seq(Known(n + 1))
    BY <1>2, <2>1, MessagesKnown
  <2>3. new \in Seq(Lines(n + 1)) /\ Messages(new) = Append(Messages(files[current]), m)
    BY <2>1, <2>2, MessagesFileAppend
  <2>4. Append(Messages(files[current]), m) = Messages(files[current]) \o p
    BY <1>4, <2>2
  <2>5. p \in Seq(Known(n + 1))
    BY <1>4
  <2>6. files' = [files EXCEPT ![current] = new]
    BY <1>5
  <2>7. Messages(new) = Messages(files[current]) \o p
    BY <2>3, <2>4
  <2>. HIDE DEF new, p
  <2>8. Gets(p) /\ \A s \in Sessions : Len(files'[s]) \in Nat /\ DOMAIN files'[s] = 1 .. Len(files'[s])
    BY <1>2, <2>1, <2>3, <2>5, <2>6, <2>7, FileGets
  <2>. QED
    BY <1>1, <1>4, <1>5, <2>8, OnceFresh DEF n, p
<1>6. CASE pendingBash' = Append(pendingBash, m) /\ files' = files
  <2>. DEFINE l == Len(pendingBash)
              d == Append(pendingBash, m)
  <2>1. /\ Len(d) = l + 1 /\ d[l + 1] = m /\ \A i \in 1 .. l : d[i] = pendingBash[i]
        /\ DOMAIN d = 1 .. l + 1 /\ l \in Nat
    BY <1>2
  <2>2. pendingBash' = d
    BY <1>6
  <2>. HIDE DEF d, l, n
  <2>3. DOMAIN pendingBash = 1 .. l
    BY <1>3 DEF l
  <2>4. ASSUME NEW i \in DOMAIN d
        PROVE  (i \in DOMAIN pendingBash /\ d[i] = pendingBash[i]) \/ (i = l + 1 /\ d[i] = m)
    BY <2>1, <2>3
  <2>5. ASSUME NEW i \in DOMAIN d, NEW j \in DOMAIN d, i # j PROVE d[i].id # d[j].id
    <3>1. CASE i \in DOMAIN pendingBash /\ d[i] = pendingBash[i] /\ j \in DOMAIN pendingBash /\ d[j] = pendingBash[j]
      BY <2>5, <3>1 DEF OnceInv, DeferredApart
    <3>2. CASE i \in DOMAIN pendingBash /\ d[i] = pendingBash[i] /\ j = l + 1 /\ d[j] = m
      BY <1>1, <1>2, <1>3, <3>2
    <3>3. CASE i = l + 1 /\ d[i] = m /\ j \in DOMAIN pendingBash /\ d[j] = pendingBash[j]
      BY <1>1, <1>2, <1>3, <3>3
    <3>. QED
      BY <2>4, <2>5, <3>1, <3>2, <3>3
  <2>6. ASSUME NEW i \in DOMAIN d
        PROVE  /\ \A s \in Sessions : \A j \in DOMAIN files[s] : files[s][j].message.id # d[i].id
               /\ \A k \in Queued(eventQueue) : eventQueue[k].message.id # d[i].id
    <3>1. CASE i \in DOMAIN pendingBash /\ d[i] = pendingBash[i]
      BY <3>1 DEF OnceInv, DeferredApart
    <3>2. CASE d[i] = m
      BY <1>1, <1>2, <1>3, <3>2 DEF Queued
    <3>. QED
      BY <2>4, <3>1, <3>2
  <2>7. eventQueue' = eventQueue /\ files' = files
    BY <1>1, <1>6
  <2>8. DeferredApart'
    <3>1. Queued(eventQueue)' = Queued(eventQueue)
      BY <2>7 DEF Queued
    <3>. QED
      BY <2>2, <2>5, <2>6, <2>7, <3>1, Zenon DEF DeferredApart
  <2>9. PersistedOnceInOrder' /\ QueueInOrder' /\ StoredBeforeQueued'
    BY <2>7 DEF OnceInv, PersistedOnceInOrder, QueueInOrder, StoredBeforeQueued, Queued
  <2>. QED
    BY <2>8, <2>9 DEF OnceInv
<1>. QED
  BY <1>1, <1>5, <1>6

(* A summary goes to the file.                                             *)
LEMMA OnceSummarized ==
  ASSUME TypeInv, OnceInv, Summarizes
  PROVE  OnceInv'
<1>. DEFINE n == used.ids
<1>1. PICK kept \in Nat :
        /\ files' = [files EXCEPT ![current] = Append(@, Compacted(n + 1, kept))]
        /\ UNCHANGED <<eventQueue, pendingBash>>
  BY DEF Summarizes
<1>. DEFINE e   == Compacted(n + 1, kept)
            m   == e.message
            p   == <<m>>
            new == Append(files[current], e)
<1>2. /\ n \in Nat /\ n + 1 \in Nat /\ current \in Sessions
      /\ files \in [Sessions -> Seq(Lines(n + 1))]
  BY StateGrows
<1>3. e \in Lines(n + 1) /\ m.id = n + 1 /\ m.role = "summary"
  BY <1>2, CompactedKnown
<1>4. files' = [files EXCEPT ![current] = new]
  BY <1>1
<1>. HIDE DEF n, e
<1>5. files[current] \in Seq(Lines(n + 1)) /\ Messages(files[current]) \in Seq(Known(n + 1))
  BY <1>2, MessagesKnown
<1>6. new \in Seq(Lines(n + 1)) /\ Messages(new) = Append(Messages(files[current]), m)
  BY <1>2, <1>3, <1>5, MessagesFileAppend
<1>7. m \in Known(n + 1)
  BY <1>3 DEF Lines
<1>8. p \in Seq(Known(n + 1)) /\ Append(Messages(files[current]), m) = Messages(files[current]) \o p
  BY <1>5, <1>7
<1>. HIDE DEF new, p, m
<1>9. Gets(p) /\ \A s \in Sessions : Len(files'[s]) \in Nat /\ DOMAIN files'[s] = 1 .. Len(files'[s])
  BY <1>2, <1>4, <1>6, <1>8, FileGets
<1>. QED
  BY <1>1, <1>3, <1>9, OnceFresh DEF n, p

(* What a step of the agent adds to a queue.                               *)
Joined(q, m) == {q, q \o <<MessageEvent(m)>>, q \o <<MessageEvent(m), EndEvent(m)>>}

LEMMA QueueSaid ==
  ASSUME NEW n, NEW q \in Seq(Event(n)), NEW m \in Said(n), NEW new \in Joined(q, m),
         NEW k \in DOMAIN new
  PROVE  /\ \/ k \in DOMAIN q /\ new[k] = q[k]
            \/ k = Len(q) + 1 /\ new[k] = MessageEvent(m)
            \/ k = Len(q) + 2 /\ new[k] = EndEvent(m) /\ new = q \o <<MessageEvent(m), EndEvent(m)>>
         /\ k \in Nat
<1>. DEFINE a == MessageEvent(m)
            b == EndEvent(m)
<1>1. a \in Event(n) /\ b \in Event(n) /\ a.type = "message" /\ b.type = "agent_end" /\ a.message = m
  BY EventKnown
<1>2. \/ new = q
      \/ new = q \o <<a>>
      \/ new = q \o <<a, b>>
  BY DEF Joined
<1>. HIDE DEF a, b
<1>. DEFINE l == Len(q)
<1>3. l \in Nat /\ DOMAIN q = 1 .. l
  OBVIOUS
<1>. HIDE DEF l
<1>4. /\ \/ k \in DOMAIN q /\ new[k] = q[k]
         \/ k = l + 1 /\ new[k] = a
         \/ k = l + 2 /\ new[k] = b /\ new = q \o <<a, b>>
      /\ k \in Nat
  <2>1. CASE new = q
    <3>1. k \in DOMAIN q /\ new[k] = q[k] /\ k \in Nat
      BY <1>3, <2>1
    <3>. QED
      BY <3>1, Zenon
  <2>2. CASE new = q \o <<a>>
    <3>1. <<a>> \in Seq(Event(n))
      BY <1>1
    <3>. DEFINE p == <<a>>
    <3>2. p \in Seq(Event(n)) /\ new = q \o p
      BY <2>2, <3>1
    <3>3. Len(p) = 1 /\ p[1] = a
      OBVIOUS
    <3>. HIDE DEF p
    <3>4. new \in Seq(Event(n))
      BY <3>2
    <3>5. /\ Len(new) = l + 1 /\ DOMAIN new = 1 .. Len(new)
          /\ \A i \in 1 .. l : new[i] = q[i]
          /\ \A i \in l + 1 .. l + 1 : new[i] = p[i - l]
      <4>1. q \in Seq(Event(n)) /\ p \in Seq(Event(n))
        BY <3>2
      <4>2. DOMAIN new = 1 .. Len(new)
        BY <3>4
      <4>3. /\ Len(q \o p) = Len(q) + Len(p)
            /\ \A i \in 1 .. Len(q) : (q \o p)[i] = q[i]
            /\ \A i \in Len(q) + 1 .. Len(q) + Len(p) : (q \o p)[i] = p[i - Len(q)]
        BY <4>1, ConcatKnown
      <4>. QED
        BY <3>2, <3>3, <4>2, <4>3 DEF l
    <3>6. k \in Nat /\ (k \in 1 .. l \/ k = l + 1)
      BY <1>3, <3>5
    <3>7. CASE k \in 1 .. l
      BY <1>3, <3>5, <3>6, <3>7, Zenon
    <3>8. CASE k = l + 1
      <4>1. k - l = 1 /\ k \in l + 1 .. l + 1
        BY <1>3, <3>8
      <4>2. new[k] = p[1]
        BY <3>5, <4>1
      <4>. QED
        BY <3>3, <3>6, <3>8, <4>2, Zenon
    <3>. QED
      BY <3>6, <3>7, <3>8
  <2>3. CASE new = q \o <<a, b>>
    <3>1. <<a, b>> \in Seq(Event(n))
      BY <1>1
    <3>. DEFINE p == <<a, b>>
    <3>2. p \in Seq(Event(n)) /\ new = q \o p
      BY <2>3, <3>1
    <3>3. Len(p) = 2 /\ p[1] = a /\ p[2] = b
      OBVIOUS
    <3>. HIDE DEF p
    <3>4. new \in Seq(Event(n))
      BY <3>2
    <3>5. /\ Len(new) = l + 2 /\ DOMAIN new = 1 .. Len(new)
          /\ \A i \in 1 .. l : new[i] = q[i]
          /\ \A i \in l + 1 .. l + 2 : new[i] = p[i - l]
      <4>1. q \in Seq(Event(n)) /\ p \in Seq(Event(n))
        BY <3>2
      <4>2. DOMAIN new = 1 .. Len(new)
        BY <3>4
      <4>3. /\ Len(q \o p) = Len(q) + Len(p)
            /\ \A i \in 1 .. Len(q) : (q \o p)[i] = q[i]
            /\ \A i \in Len(q) + 1 .. Len(q) + Len(p) : (q \o p)[i] = p[i - Len(q)]
        BY <4>1, ConcatKnown
      <4>. QED
        BY <3>2, <3>3, <4>2, <4>3 DEF l
    <3>6. k \in Nat /\ (k \in 1 .. l \/ k = l + 1 \/ k = l + 2)
      BY <1>3, <3>5
    <3>7. CASE k \in 1 .. l
      BY <1>3, <3>5, <3>6, <3>7, Zenon
    <3>8. CASE k = l + 1
      <4>1. k - l = 1 /\ k \in l + 1 .. l + 2
        BY <1>3, <3>8
      <4>2. new[k] = p[1]
        BY <3>5, <4>1
      <4>. QED
        BY <3>3, <3>6, <3>8, <4>2, Zenon
    <3>9. CASE k = l + 2
      <4>1. k - l = 2 /\ k \in l + 1 .. l + 2
        BY <1>3, <3>9
      <4>2. new[k] = p[2]
        BY <3>5, <4>1
      <4>. QED
        BY <2>3, <3>3, <3>6, <3>9, <4>2, Zenon
    <3>. QED
      BY <3>6, <3>7, <3>8, <3>9
  <2>. QED
    BY <1>2, <2>1, <2>2, <2>3
<1>. QED
  BY <1>4 DEF a, b, l

LEMMA QueuedSaid ==
  ASSUME NEW n, NEW q \in Seq(Event(n)), NEW m \in Said(n), NEW new \in Joined(q, m),
         NEW k \in Queued(new)
  PROVE  \/ k \in Queued(q) /\ new[k] = q[k]
         \/ k = Len(q) + 1 /\ new[k].message = m
<1>1. k \in DOMAIN new /\ new[k].type = "message"
  BY DEF Queued
<1>2. /\ EndEvent(m).type = "agent_end"
      /\ MessageEvent(m).message = m
  BY EventKnown
<1>3. \/ k \in DOMAIN q /\ new[k] = q[k]
      \/ k = Len(q) + 1 /\ new[k] = MessageEvent(m)
      \/ new[k] = EndEvent(m)
  BY <1>1, QueueSaid
<1>4. new[k] # EndEvent(m)
  BY <1>1, <1>2
<1>. QED
  BY <1>1, <1>2, <1>3, <1>4 DEF Queued

(* The agent's message joins the queue, or is not heard.                   *)
LEMMA OnceSaid ==
  ASSUME TypeInv, OnceInv, Says
  PROVE  OnceInv'
<1>. DEFINE n == used.ids
            l == Len(eventQueue)
<1>1. PICK m \in Said(n + 1) :
        /\ m.id = n + 1
        /\ \/ eventQueue' = eventQueue
           \/ eventQueue' = eventQueue \o <<MessageEvent(m)>>
           \/ eventQueue' = eventQueue \o <<MessageEvent(m), EndEvent(m)>>
        /\ files' = files /\ pendingBash' = pendingBash
  BY DEF Says
<1>2. n \in Nat /\ eventQueue \in Seq(Event(n + 1))
  BY StateGrows
<1>3. /\ \A s \in Sessions : \A i \in DOMAIN files[s] : files[s][i].message.id \in 1 .. n
      /\ \A k \in DOMAIN eventQueue : eventQueue[k].message.id \in 1 .. n
      /\ \A i \in DOMAIN pendingBash : pendingBash[i].id \in 1 .. n
  BY IdsKnown
<1>. HIDE DEF n
<1>4. ASSUME NEW k \in Queued(eventQueue')
      PROVE  \/ k \in Queued(eventQueue) /\ eventQueue'[k] = eventQueue[k]
             \/ k = l + 1 /\ eventQueue'[k].message = m
  <2>1. eventQueue' \in Joined(eventQueue, m)
    BY <1>1 DEF Joined
  <2>. QED
    BY <1>2, <2>1, QueuedSaid
<1>5. l \in Nat /\ \A k \in Queued(eventQueue) : k \in 1 .. l /\ eventQueue[k].message.id \in 1 .. n
  BY <1>2, <1>3 DEF Queued
<1>. HIDE DEF l
<1>6. QueueInOrder'
  <2>1. ASSUME NEW k \in Queued(eventQueue'), NEW j \in Queued(eventQueue'), k < j
        PROVE  eventQueue'[k].message.id < eventQueue'[j].message.id
    <3>1. CASE /\ k \in Queued(eventQueue) /\ eventQueue'[k] = eventQueue[k]
               /\ j \in Queued(eventQueue) /\ eventQueue'[j] = eventQueue[j]
      BY <2>1, <3>1 DEF OnceInv, QueueInOrder
    <3>2. CASE /\ k \in Queued(eventQueue) /\ eventQueue'[k] = eventQueue[k]
               /\ j = l + 1 /\ eventQueue'[j].message = m
      <4>1. eventQueue[k].message.id \in 1 .. n
        BY <1>5, <3>2
      <4>2. eventQueue'[k].message.id \in 1 .. n /\ eventQueue'[j].message.id = n + 1
        BY <1>1, <3>2, <4>1, Zenon
      <4>. QED
        BY <1>2, <4>2
    <3>3. CASE k = l + 1
      BY <1>4, <1>5, <2>1, <3>3
    <3>. QED
      BY <1>4, <2>1, <3>1, <3>2, <3>3
  <2>. QED
    BY <2>1 DEF QueueInOrder, Queued
<1>7. StoredBeforeQueued'
  <2>1. ASSUME NEW s \in Sessions, NEW i \in DOMAIN files[s], NEW k \in Queued(eventQueue')
        PROVE  LET a == files[s][i].message  x == eventQueue'[k].message IN
                 a.id # x.id /\ (a.role \notin {"bash", "summary"} => a.id < x.id)
    <3>1. CASE k \in Queued(eventQueue) /\ eventQueue'[k] = eventQueue[k]
      BY <3>1 DEF OnceInv, StoredBeforeQueued
    <3>2. CASE eventQueue'[k].message = m
      BY <1>1, <1>2, <1>3, <3>2
    <3>. QED
      BY <1>4, <3>1, <3>2
  <2>. QED
    BY <1>1, <2>1 DEF StoredBeforeQueued, Queued
<1>8. DeferredApart'
  <2>1. ASSUME NEW i \in DOMAIN pendingBash, NEW k \in Queued(eventQueue')
        PROVE  eventQueue'[k].message.id # pendingBash[i].id
    <3>1. CASE k \in Queued(eventQueue) /\ eventQueue'[k] = eventQueue[k]
      BY <3>1 DEF OnceInv, DeferredApart
    <3>2. CASE eventQueue'[k].message = m
      BY <1>1, <1>2, <1>3, <3>2
    <3>. QED
      BY <1>4, <3>1, <3>2
  <2>2. \A i, j \in DOMAIN pendingBash : i # j => pendingBash[i].id # pendingBash[j].id
    BY DEF OnceInv, DeferredApart
  <2>3. \A i \in DOMAIN pendingBash :
          \A s \in Sessions : \A j \in DOMAIN files[s] : files[s][j].message.id # pendingBash[i].id
    BY DEF OnceInv, DeferredApart
  <2>4. Queued(eventQueue)' = Queued(eventQueue')
    BY DEF Queued
  <2>5. files' = files /\ pendingBash' = pendingBash
    BY <1>1
  <2>. QED
    BY <2>1, <2>2, <2>3, <2>4, <2>5, Zenon DEF DeferredApart
<1>9. PersistedOnceInOrder'
  BY <1>1 DEF OnceInv, PersistedOnceInOrder
<1>. QED
  BY <1>6, <1>7, <1>8, <1>9 DEF OnceInv

(* Every kind of step keeps messages stored once, in order.                *)
LEMMA OnceKept ==
  ASSUME TypeInv, OnceInv, Moves
  PROVE  OnceInv'
<1>1. CASE Rests
  BY <1>1, OnceLess DEF Rests, Same
<1>2. CASE TakesEnd
  BY <1>2, OnceLess DEF TakesEnd
<1>3. CASE Opens
  BY <1>3, OnceLess DEF Opens, Same
<1>. QED
  BY <1>1, <1>2, <1>3, OnceTaken, OnceFlushed, OnceBash, OnceSummarized, OnceSaid DEF Moves
-----------------------------------------------------------------------------
(* No bash result stands between a call and its result.                    *)

\* The calls whose results are still to come to the file, of those that are not
\* heard before the k-th event of the queue is handled; 0 is no call.
After(q, tool, k) == {0, tool} \cup {q[l].message.call : l \in {x \in Queued(q) : x > k}}

Calls(k) == After(eventQueue, agent.tool, k)

\* The ends of runs in the queue, and the one that the worker handles.
Marks(q, busy) == {k \in 0 .. Len(q) : IF k = 0 THEN busy ELSE q[k].type = "agent_end"}

\* What follows the end of a run does not answer what was before it.
EndsApart ==
  \A k \in Marks(eventQueue, Busy) : \A c \in Calls(k) :
    /\ \A s \in Sessions : \A i \in DOMAIN files[s] : files[s][i].message.id # c
    /\ \A l \in Queued(eventQueue) : l < k => eventQueue[l].message.id # c

PairsInv ==
  /\ Whole(agent.messages, {0, agent.tool})
  /\ \A s \in Sessions : Whole(Messages(files[s]), Calls(0))
  /\ EndsApart
  /\ \A i \in DOMAIN pendingBash : pendingBash[i].id \notin Calls(0)

(* Calls are of ids that were given out.                                   *)
LEMMA CallsKnown ==
  ASSUME TypeInv
  PROVE  \A k : /\ Calls(k) \subseteq 0 .. used.ids /\ {0, agent.tool} \subseteq Calls(k)
                /\ (k \in Nat => Calls(k) \subseteq Calls(0))
<1>. DEFINE n == used.ids
<1>1. /\ n \in Nat /\ agent.tool \in 0 .. n
      /\ \A l \in DOMAIN eventQueue : eventQueue[l].message.call \in 0 .. n /\ l \in Nat
  <2>1. n \in Nat /\ agent.tool \in 0 .. n /\ eventQueue \in Seq(Event(n))
    BY DEF TypeInv, ControlInv, MessagesInv
  <2>2. \A l \in DOMAIN eventQueue : eventQueue[l].message.call \in 0 .. n
    BY IdsKnown
  <2>3. \A l \in DOMAIN eventQueue : l \in Nat
    BY <2>1
  <2>. QED
    BY <2>1, <2>2, <2>3
<1>. HIDE DEF n
<1>2. ASSUME NEW k PROVE Calls(k) \subseteq 0 .. n /\ {0, agent.tool} \subseteq Calls(k)
  <2>1. \A l \in Queued(eventQueue) : eventQueue[l].message.call \in 0 .. n
    BY <1>1 DEF Queued
  <2>. QED
    BY <1>1, <2>1 DEF Calls, After
<1>3. ASSUME NEW k \in Nat PROVE Calls(k) \subseteq Calls(0)
  <2>1. ASSUME NEW l \in Queued(eventQueue), l > k PROVE l > 0
    BY <1>1, <2>1 DEF Queued
  <2>. QED
    BY <2>1 DEF Calls, After
<1>. QED
  BY <1>2, <1>3 DEF n

(* The agent's messages when the last may have been dropped.               *)
LEMMA WholeTrimmed ==
  ASSUME NEW n, NEW old \in Seq(Known(n)), NEW new, Trimmed(new, old), NEW C, Whole(old, C)
  PROVE  Whole(new, C)
<1>1. new \in Seq(Known(n)) /\ Picked(new, old)
  BY TrimmedKnown
<1>. QED
  BY <1>1, WholePicked

(* The files are as they were, and so is the queue, or it is shorter.      *)
LEMMA PairsRest ==
  ASSUME TypeInv, PairsInv, Same, agent'.tool \in {agent.tool, 0}, Busy' => Busy,
         Whole(agent'.messages, {0, agent.tool})
  PROVE  PairsInv'
<1>1. /\ eventQueue' = eventQueue /\ files' = files /\ pendingBash' = pendingBash
      /\ {0, agent'.tool} \subseteq {0, agent.tool}
  BY DEF Same
<1>2. Queued(eventQueue)' = Queued(eventQueue)
  BY <1>1 DEF Queued
<1>3. \A k : Calls(k)' \subseteq Calls(k)
  BY <1>1, <1>2 DEF Calls, After
<1>4. Marks(eventQueue, Busy)' \subseteq Marks(eventQueue, Busy)
  BY <1>1 DEF Marks
<1>5. Whole(agent'.messages, {0, agent'.tool})
  BY <1>1, WholeLess
<1>6. ASSUME NEW s \in Sessions PROVE Whole(Messages(files[s]), Calls(0)')
  BY <1>3, WholeLess DEF PairsInv
<1>7. EndsApart'
  BY <1>1, <1>2, <1>3, <1>4 DEF PairsInv, EndsApart
<1>8. \A i \in DOMAIN pendingBash : pendingBash[i].id \notin Calls(0)'
  BY <1>3 DEF PairsInv
<1>. QED
  BY <1>1, <1>5, <1>6, <1>7, <1>8 DEF PairsInv

LEMMA PairsRested ==
  ASSUME TypeInv, PairsInv, Rests
  PROVE  PairsInv'
<1>1. agent.messages \in Seq(Known(used.ids)) /\ Whole(agent.messages, {0, agent.tool})
  BY DEF TypeInv, MessagesInv, PairsInv
<1>2. Whole(agent'.messages, {0, agent.tool})
  BY <1>1, WholeTrimmed DEF Rests
<1>. QED
  BY <1>2, PairsRest DEF Rests

LEMMA PairsOpened ==
  ASSUME TypeInv, PairsInv, Opens
  PROVE  PairsInv'
<1>1. PICK s \in Sessions : agent'.messages = Context(files[s])
  BY DEF Opens
<1>2. /\ used.ids \in Nat /\ files[s] \in Seq(Lines(used.ids))
      /\ Whole(Messages(files[s]), Calls(0)) /\ {0, agent.tool} \subseteq Calls(0)
  BY IdsKnown, CallsKnown DEF PairsInv
<1>3. Whole(Context(files[s]), Calls(0))
  BY <1>2, WholeRebuilt
<1>4. Whole(agent'.messages, {0, agent.tool})
  BY <1>1, <1>2, <1>3, WholeLess
<1>. QED
  BY <1>4, PairsRest DEF Opens, Same, Busy

(* The first event leaves the queue.                                       *)
LEMMA QueueShift ==
  ASSUME TypeInv, eventQueue # <<>>, eventQueue' = Tail(eventQueue), agent'.tool = agent.tool
  PROVE  /\ \A k \in Queued(eventQueue)' :
              k \in Nat /\ k + 1 \in Queued(eventQueue) /\ eventQueue'[k] = eventQueue[k + 1]
         /\ \A k \in Nat : Calls(k)' \subseteq Calls(k + 1)
         /\ \A k \in Marks(eventQueue, Busy)' :
              k \in Nat /\ (k # 0 => k + 1 \in Marks(eventQueue, Busy))
<1>2. eventQueue \in Seq(Event(used.ids))
  BY DEF TypeInv, MessagesInv
<1>3. /\ Len(eventQueue) \in Nat /\ Len(eventQueue) > 0 /\ Len(Tail(eventQueue)) = Len(eventQueue) - 1
      /\ \A i \in 1 .. Len(eventQueue) - 1 : Tail(eventQueue)[i] = eventQueue[i + 1]
  BY <1>2, TailKnown
<1>4. ASSUME NEW k \in Queued(eventQueue)'
      PROVE  k \in Nat /\ k + 1 \in Queued(eventQueue) /\ eventQueue'[k] = eventQueue[k + 1]
  <2>1. k \in Queued(Tail(eventQueue))
    BY <1>4 DEF Queued
  <2>2. k \in Nat /\ k + 1 \in Queued(eventQueue) /\ Tail(eventQueue)[k] = eventQueue[k + 1]
    BY <1>2, <2>1, TailQueued
  <2>. QED
    BY <2>2, Zenon
<1>5. ASSUME NEW k \in Nat PROVE Calls(k)' \subseteq Calls(k + 1)
  <2>1. ASSUME NEW l \in Queued(eventQueue)', l > k
        PROVE  eventQueue'[l].message.call \in Calls(k + 1)
    <3>1. l \in Nat /\ l + 1 \in Queued(eventQueue)
      BY <1>4
    <3>2. eventQueue'[l] = eventQueue[l + 1]
      BY <1>4
    <3>3. l + 1 > k + 1
      BY <2>1, <3>1
    <3>4. eventQueue[l + 1].message.call \in Calls(k + 1)
      BY <3>1, <3>3 DEF Calls, After
    <3>. QED
      BY <3>2, <3>4
  <2>2. {0, agent'.tool} \subseteq Calls(k + 1)
    BY DEF Calls, After
  <2>. DEFINE heard == {l \in Queued(eventQueue)' : l > k}
  <2>3. Calls(k)' = {0, agent'.tool} \cup {eventQueue'[l].message.call : l \in heard}
    BY DEF Calls, After
  <2>4. \A l \in heard : eventQueue'[l].message.call \in Calls(k + 1)
    BY <2>1
  <2>. HIDE DEF heard
  <2>. QED
    BY <2>2, <2>3, <2>4
<1>6. ASSUME NEW k \in Marks(eventQueue, Busy)'
      PROVE  k \in Nat /\ (k # 0 => k + 1 \in Marks(eventQueue, Busy))
  <2>1. k \in 0 .. Len(Tail(eventQueue)) /\ (k # 0 => Tail(eventQueue)[k].type = "agent_end")
    BY <1>6 DEF Marks
  <2>2. k \in 0 .. Len(eventQueue) - 1
    BY <1>3, <2>1
  <2>3. CASE k # 0
    <3>1. k \in 1 .. Len(eventQueue) - 1 /\ k + 1 \in 1 .. Len(eventQueue)
      BY <1>3, <2>2, <2>3
    <3>2. eventQueue[k + 1].type = "agent_end"
      BY <1>3, <2>1, <2>3, <3>1
    <3>. QED
      BY <3>1, <3>2 DEF Marks
  <2>. QED
    BY <2>2, <2>3
<1>. QED
  BY <1>4, <1>5, <1>6

(* The end of a run is taken from the queue: the worker may be busy now.   *)
LEMMA PairsEnded ==
  ASSUME TypeInv, PairsInv, TakesEnd
  PROVE  PairsInv'
<1>1. /\ eventQueue # <<>> /\ Head(eventQueue).type = "agent_end" /\ eventQueue' = Tail(eventQueue)
      /\ files' = files /\ pendingBash' = pendingBash /\ agent'.tool = agent.tool
  BY DEF TakesEnd
<1>2. eventQueue \in Seq(Event(used.ids)) /\ agent.messages \in Seq(Known(used.ids))
  BY DEF TypeInv, MessagesInv
<1>3. Len(eventQueue) \in Nat /\ Len(eventQueue) > 0 /\ Head(eventQueue) = eventQueue[1]
  BY <1>1, <1>2, TailKnown
<1>4. \A k \in Queued(eventQueue)' :
        k \in Nat /\ k + 1 \in Queued(eventQueue) /\ eventQueue'[k] = eventQueue[k + 1]
  BY <1>1, QueueShift
<1>5. \A k \in Nat : Calls(k)' \subseteq Calls(k + 1)
  BY <1>1, QueueShift
<1>6. ASSUME NEW k \in Marks(eventQueue, Busy)' PROVE k \in Nat /\ k + 1 \in Marks(eventQueue, Busy)
  <2>1. k \in Nat /\ (k # 0 => k + 1 \in Marks(eventQueue, Busy))
    BY <1>1, <1>6, QueueShift
  <2>2. 1 \in Marks(eventQueue, Busy)
    BY <1>1, <1>3 DEF Marks
  <2>. QED
    BY <2>1, <2>2
<1>7. Calls(0)' \subseteq Calls(0)
  BY <1>5, CallsKnown
<1>8. Whole(agent'.messages, {0, agent'.tool})
  BY <1>1, <1>2, WholeTrimmed DEF PairsInv, TakesEnd
<1>9. ASSUME NEW s \in Sessions PROVE Whole(Messages(files[s]), Calls(0)')
  BY <1>7, WholeLess DEF PairsInv
<1>10. EndsApart'
  <2>1. ASSUME NEW k \in Marks(eventQueue, Busy)', NEW c \in Calls(k)'
        PROVE  /\ \A s \in Sessions : \A i \in DOMAIN files[s] : files[s][i].message.id # c
               /\ \A l \in Queued(eventQueue)' : l < k => eventQueue'[l].message.id # c
    <3>1. k \in Nat /\ k + 1 \in Marks(eventQueue, Busy) /\ c \in Calls(k + 1)
      BY <1>5, <1>6
    <3>2. /\ \A s \in Sessions : \A i \in DOMAIN files[s] : files[s][i].message.id # c
          /\ \A l \in Queued(eventQueue) : l < k + 1 => eventQueue[l].message.id # c
      BY <3>1 DEF PairsInv, EndsApart
    <3>3. ASSUME NEW l \in Queued(eventQueue)', l < k PROVE eventQueue'[l].message.id # c
      <4>1. l + 1 \in Queued(eventQueue) /\ l + 1 < k + 1 /\ eventQueue'[l] = eventQueue[l + 1]
        BY <1>4, <3>1, <3>3
      <4>. QED
        BY <3>2, <4>1
    <3>. QED
      BY <3>2, <3>3
  <2>. QED
    BY <1>1, <2>1 DEF EndsApart
<1>11. \A i \in DOMAIN pendingBash : pendingBash[i].id \notin Calls(0)'
  BY <1>7 DEF PairsInv
<1>. QED
  BY <1>1, <1>8, <1>9, <1>10, <1>11 DEF PairsInv

(* A message goes from the queue to the file.                              *)
LEMMA PairsTaken ==
  ASSUME TypeInv, PairsInv, TakesMessage
  PROVE  PairsInv'
<1>. DEFINE n == used.ids
            m == Head(eventQueue).message
            a == Messages(files[current])
<1>1. /\ eventQueue # <<>> /\ eventQueue' = Tail(eventQueue) /\ UNCHANGED <<pendingBash, agent, worker>>
      /\ files' = [files EXCEPT ![current] = Append(@, Stored(m))] /\ Head(eventQueue).type = "message"
      /\ ~Busy /\ ~Busy'
  BY DEF TakesMessage, Busy
<1>2. /\ n \in Nat /\ current \in Sessions /\ files \in [Sessions -> Seq(Lines(n))]
      /\ eventQueue \in Seq(Event(n)) /\ m \in Said(n)
  BY <1>1, HeadKnown DEF TypeInv, ControlInv, MessagesInv
<1>3. 1 \in Queued(eventQueue) /\ eventQueue[1].message = m
  BY <1>1, <1>2, TailKnown DEF Queued
<1>. HIDE DEF m, n
<1>4. m \in Known(n) /\ Stored(m) \in Lines(n) /\ Stored(m).message = m /\ m.role \notin {"bash", "summary"}
  BY <1>2, StoredKnown DEF Said
<1>5. m.call \in Calls(0)
  BY <1>3 DEF Calls, After
<1>6. \A k \in Queued(eventQueue)' :
        k \in Nat /\ k + 1 \in Queued(eventQueue) /\ eventQueue'[k] = eventQueue[k + 1]
  BY <1>1, QueueShift
<1>7. \A k \in Nat : Calls(k)' \subseteq Calls(k + 1)
  BY <1>1, QueueShift
<1>8. ASSUME NEW k \in Marks(eventQueue, Busy)'
      PROVE  k \in Nat /\ k # 0 /\ k + 1 \in Marks(eventQueue, Busy)
  <2>1. k # 0
    BY <1>1, <1>8 DEF Marks
  <2>. QED
    BY <1>1, <1>8, <2>1, QueueShift
<1>9. Calls(0)' \subseteq Calls(0)
  BY <1>7, CallsKnown
<1>10. files[current] \in Seq(Lines(n)) /\ a \in Seq(Known(n))
  BY <1>2, MessagesKnown
<1>11. Messages(Append(files[current], Stored(m))) = Append(a, m)
  BY <1>2, <1>4, <1>10, MessagesFileAppend
<1>12. ASSUME NEW s \in Sessions PROVE Whole(Messages(files'[s]), Calls(0)')
  <2>1. Whole(Messages(files[s]), Calls(0))
    BY DEF PairsInv
  <2>2. CASE s = current
    <3>1. Whole(a, Calls(0))
      BY <2>1, <2>2
    <3>. HIDE DEF a
    <3>2. Whole(Append(a, m), Calls(0))
      BY <1>4, <1>5, <1>10, <3>1, WholeAppend
    <3>3. files'[s] = Append(files[current], Stored(m))
      BY <1>1, <1>2, <2>2
    <3>. QED
      BY <1>9, <1>11, <3>2, <3>3, WholeLess
  <2>3. CASE s # current
    BY <1>1, <1>9, <2>1, <2>3, WholeLess
  <2>. QED
    BY <2>2, <2>3
<1>13. ASSUME NEW s \in Sessions, NEW i \in DOMAIN files'[s]
       PROVE  \/ i \in DOMAIN files[s] /\ files'[s][i].message = files[s][i].message
              \/ files'[s][i].message = m
  <2>1. CASE s = current
    <3>1. files'[s] = Append(files[s], Stored(m)) /\ files[s] \in Seq(Lines(n))
      BY <1>1, <1>2, <2>1
    <3>2. /\ Len(files[s]) \in Nat /\ DOMAIN Append(files[s], Stored(m)) = 1 .. Len(files[s]) + 1
          /\ DOMAIN files[s] = 1 .. Len(files[s])
          /\ Append(files[s], Stored(m))[Len(files[s]) + 1] = Stored(m)
          /\ \A j \in 1 .. Len(files[s]) : Append(files[s], Stored(m))[j] = files[s][j]
      BY <1>4, <3>1
    <3>3. i \in 1 .. Len(files[s]) \/ i = Len(files[s]) + 1
      BY <1>13, <3>1, <3>2
    <3>. QED
      BY <1>4, <3>1, <3>2, <3>3
  <2>2. CASE s # current
    BY <1>1, <1>13, <2>2
  <2>. QED
    BY <2>1, <2>2
<1>14. EndsApart'
  <2>1. ASSUME NEW k \in Marks(eventQueue, Busy)', NEW c \in Calls(k)'
        PROVE  /\ \A s \in Sessions : \A i \in DOMAIN files'[s] : files'[s][i].message.id # c
               /\ \A l \in Queued(eventQueue)' : l < k => eventQueue'[l].message.id # c
    <3>1. k \in Nat /\ k # 0 /\ k + 1 \in Marks(eventQueue, Busy) /\ c \in Calls(k + 1)
      BY <1>7, <1>8
    <3>2. /\ \A s \in Sessions : \A i \in DOMAIN files[s] : files[s][i].message.id # c
          /\ \A l \in Queued(eventQueue) : l < k + 1 => eventQueue[l].message.id # c
      BY <3>1 DEF PairsInv, EndsApart
    <3>3. m.id # c
      BY <1>3, <3>1, <3>2
    <3>4. ASSUME NEW s \in Sessions, NEW i \in DOMAIN files'[s] PROVE files'[s][i].message.id # c
      BY <1>13, <3>2, <3>3
    <3>5. ASSUME NEW l \in Queued(eventQueue)', l < k PROVE eventQueue'[l].message.id # c
      <4>1. l + 1 \in Queued(eventQueue) /\ l + 1 < k + 1 /\ eventQueue'[l] = eventQueue[l + 1]
        BY <1>6, <3>1, <3>5
      <4>. QED
        BY <3>2, <4>1
    <3>. QED
      BY <3>4, <3>5
  <2>. QED
    BY <2>1 DEF EndsApart
<1>15. \A i \in DOMAIN pendingBash : pendingBash[i].id \notin Calls(0)'
  BY <1>9 DEF PairsInv
<1>16. Whole(agent'.messages, {0, agent'.tool})
  BY <1>1 DEF PairsInv
<1>. QED
  BY <1>1, <1>12, <1>14, <1>15, <1>16 DEF PairsInv

(* The open file gets new entries, which were no calls.                    *)
LEMMA PairsGets ==
  ASSUME TypeInv, PairsInv, NEW n \in Nat, NEW new \in Seq(Lines(n)), NEW p,
         files \in [Sessions -> Seq(Lines(n))], files' = [files EXCEPT ![current] = new],
         Gets(p), \A i \in 1 .. Len(p) : p[i].id \notin Calls(0),
         eventQueue' = eventQueue, agent'.tool = agent.tool, Busy' => Busy,
         Whole(Messages(new), Calls(0)), Whole(agent'.messages, {0, agent.tool}),
         \A i \in DOMAIN pendingBash' : pendingBash'[i].id \notin Calls(0)
  PROVE  PairsInv'
<1>1. Queued(eventQueue)' = Queued(eventQueue)
  BY DEF Queued
<1>2. \A k : Calls(k)' = Calls(k)
  BY <1>1 DEF Calls, After
<1>3. Marks(eventQueue, Busy)' \subseteq Marks(eventQueue, Busy)
  BY DEF Marks
<1>4. EndsApart'
  <2>1. ASSUME NEW k \in Marks(eventQueue, Busy), NEW c \in Calls(k),
               NEW s \in Sessions, NEW i \in DOMAIN files'[s]
        PROVE  files'[s][i].message.id # c
    <3>1. k \in Nat /\ c \in Calls(0)
      BY <2>1, CallsKnown DEF Marks
    <3>2. CASE i \in DOMAIN files[s] /\ files'[s][i].message = files[s][i].message
      BY <3>2 DEF PairsInv, EndsApart
    <3>3. CASE i - Len(files[s]) \in 1 .. Len(p) /\ files'[s][i].message = p[i - Len(files[s])]
      BY <3>1, <3>3
    <3>. QED
      BY <3>2, <3>3 DEF Gets
  <2>2. \A k \in Marks(eventQueue, Busy) : \A c \in Calls(k) :
          \A l \in Queued(eventQueue) : l < k => eventQueue[l].message.id # c
    BY DEF PairsInv, EndsApart
  <2>. QED
    BY <1>1, <1>2, <1>3, <2>1, <2>2 DEF EndsApart
<1>5. ASSUME NEW s \in Sessions PROVE Whole(Messages(files'[s]), Calls(0))
  <2>1. CASE s = current
    BY <2>1
  <2>2. CASE s # current
    BY <2>2 DEF PairsInv
  <2>. QED
    BY <2>1, <2>2
<1>. QED
  BY <1>2, <1>4, <1>5 DEF PairsInv

(* A summary goes to the file, and the context is made anew.               *)
LEMMA PairsSummarized ==
  ASSUME TypeInv, PairsInv, Summarizes
  PROVE  PairsInv'
<1>. DEFINE n == used.ids
            a == Messages(files[current])
<1>1. PICK kept \in Nat :
        /\ files' = [files EXCEPT ![current] = Append(files[current], Compacted(n + 1, kept))]
        /\ Trimmed(agent'.messages, Context(Append(files[current], Compacted(n + 1, kept))))
        /\ Busy' => Busy
        /\ agent'.tool = agent.tool /\ eventQueue' = eventQueue /\ pendingBash' = pendingBash
  BY DEF Summarizes
<1>. DEFINE e   == Compacted(n + 1, kept)
            m   == e.message
            p   == <<m>>
            new == Append(files[current], e)
<1>2. /\ n \in Nat /\ n + 1 \in Nat /\ current \in Sessions
      /\ files \in [Sessions -> Seq(Lines(n + 1))]
  BY StateGrows
<1>3. files[current] \in Seq(Lines(n))
  BY IdsKnown
<1>4. e \in Lines(n + 1) /\ m.id = n + 1 /\ m.role = "summary" /\ m.call = 0
  BY <1>2, CompactedKnown
<1>5. files' = [files EXCEPT ![current] = new] /\ Trimmed(agent'.messages, Context(new))
  BY <1>1
<1>6. Calls(0) \subseteq 0 .. n /\ {0, agent.tool} \subseteq Calls(0)
  BY CallsKnown
<1>. HIDE DEF n, e
<1>7. files[current] \in Seq(Lines(n + 1)) /\ a \in Seq(Known(n + 1))
  BY <1>2, MessagesKnown
<1>8. a \in Seq(Known(n))
  BY <1>2, <1>3, MessagesKnown
<1>9. new \in Seq(Lines(n + 1)) /\ Messages(new) = Append(a, m)
  BY <1>2, <1>4, <1>7, MessagesFileAppend
<1>10. m \in Known(n + 1)
  BY <1>4 DEF Lines
<1>11. p \in Seq(Known(n + 1)) /\ Append(a, m) = a \o p /\ Len(p) = 1 /\ p[1] = m
  BY <1>7, <1>10
<1>. HIDE DEF a, m
<1>12. Whole(Append(a, m), Calls(0))
  <2>1. Whole(a, Calls(0))
    BY <1>2 DEF PairsInv, a
  <2>2. \A i \in 1 .. Len(a) : a[i] \in Known(n)
    BY <1>8
  <2>. QED
    BY <1>2, <1>4, <1>6, <1>7, <1>10, <2>1, <2>2, WholeSummary
<1>. HIDE DEF new, p
<1>13. Whole(Messages(new), Calls(0))
  BY <1>9, <1>12
<1>14. Whole(agent'.messages, {0, agent.tool})
  <2>1. Context(new) \in Seq(Known(n + 1)) /\ Whole(Context(new), Calls(0))
    BY <1>2, <1>9, <1>13, WholeRebuilt
  <2>2. Whole(agent'.messages, Calls(0))
    BY <1>5, <2>1, WholeTrimmed
  <2>. QED
    BY <1>6, <2>2, WholeLess
<1>15. Gets(p)
  BY <1>2, <1>5, <1>9, <1>11, FileGets DEF a
<1>16. \A i \in 1 .. Len(p) : p[i].id \notin Calls(0)
  <2>1. n + 1 \notin Calls(0)
    BY <1>2, <1>6
  <2>. QED
    BY <1>4, <1>11, <2>1
<1>17. \A i \in DOMAIN pendingBash' : pendingBash'[i].id \notin Calls(0)
  BY <1>1 DEF PairsInv
<1>. QED
  BY <1>1, <1>2, <1>5, <1>9, <1>13, <1>14, <1>15, <1>16, <1>17, PairsGets

(* When bash results are stored, all calls whose results are to come are   *)
(* still in the queue themselves.                                          *)
LEMMA PauseHasNoCalls ==
  ASSUME TypeInv, PairsInv, Pause
  PROVE  /\ agent.tool = 0
         /\ \A c \in Calls(0) : \A s \in Sessions : \A i \in DOMAIN files[s] : files[s][i].message.id # c
<1>1. agent.tool = 0
  BY DEF Pause, TypeInv, MessagesInv
<1>2. CASE eventQueue = <<>>
  <2>1. Queued(eventQueue) = {}
    BY <1>2 DEF Queued
  <2>2. Calls(0) = {0}
    BY <1>1, <2>1 DEF Calls, After
  <2>3. \A s \in Sessions : \A i \in DOMAIN files[s] : files[s][i].message.id \in 1 .. used.ids
    BY IdsKnown
  <2>. QED
    BY <1>1, <2>2, <2>3
<1>3. CASE Busy
  <2>1. eventQueue \in Seq(Event(used.ids))
    BY DEF TypeInv, MessagesInv
  <2>2. 0 \in Marks(eventQueue, Busy)
    BY <1>3, <2>1 DEF Marks
  <2>. QED
    BY <1>1, <2>2 DEF PairsInv, EndsApart
<1>. QED
  BY <1>2, <1>3 DEF Pause

(* The deferred bash results go to the file and to the context.            *)
LEMMA PairsFlushed ==
  ASSUME TypeInv, PairsInv, Flushes
  PROVE  PairsInv'
<1>. DEFINE n == used.ids
            p == pendingBash
            new == files[current] \o [i \in DOMAIN p |-> Stored(p[i])]
            a == Messages(files[current])
<1>1. /\ Pause /\ pendingBash' = <<>> /\ eventQueue' = eventQueue /\ agent'.tool = agent.tool
      /\ files' = [files EXCEPT ![current] = new] /\ (Busy' => Busy)
      /\ Trimmed(agent'.messages, agent.messages \o p)
  BY DEF Flushes, Busy
<1>2. /\ n \in Nat /\ current \in Sessions /\ files \in [Sessions -> Seq(Lines(n))]
      /\ p \in Seq(Bash(n)) /\ agent.messages \in Seq(Known(n))
  BY DEF TypeInv, ControlInv, MessagesInv
<1>3. p \in Seq(Known(n)) /\ Len(p) \in Nat /\ DOMAIN p = 1 .. Len(p)
  BY <1>2, SeqMonotone DEF Bash
<1>4. \A i \in 1 .. Len(p) : p[i] \in Bash(n) /\ p[i].id \in 1 .. n /\ p[i].id \notin Calls(0)
  BY IdsKnown DEF PairsInv
<1>5. /\ agent.tool = 0
      /\ \A c \in Calls(0) : \A s \in Sessions : \A i \in DOMAIN files[s] : files[s][i].message.id # c
  BY <1>1, PauseHasNoCalls
<1>6. new \in Seq(Lines(n)) /\ Messages(new) = a \o p
  BY <1>2, <1>3, MessagesFileConcat
<1>. HIDE DEF new, p, n
<1>7. /\ a \in Seq(Known(n)) /\ Len(a) = Len(files[current]) /\ Len(files[current]) \in Nat
      /\ \A i \in 1 .. Len(files[current]) : a[i] = files[current][i].message
      /\ DOMAIN files[current] = 1 .. Len(files[current])
  <2>1. files[current] \in Seq(Lines(n))
    BY <1>2
  <2>. QED
    BY <1>2, <2>1, MessagesKnown
<1>8. Whole(a, Calls(0))
  BY <1>2 DEF PairsInv
<1>9. \A i \in 1 .. Len(a) : a[i] \in Known(n) /\ a[i].id \notin Calls(0)
  BY <1>2, <1>5, <1>7
<1>. HIDE DEF a
<1>10. Whole(Messages(new), Calls(0))
  <2>. DEFINE C == Calls(0)
  <2>1. \A i \in 1 .. Len(p) : p[i] \in Bash(n) /\ p[i].id \notin C
    BY <1>4
  <2>2. Whole(a, C) /\ \A i \in 1 .. Len(a) : a[i] \in Known(n) /\ a[i].id \notin C
    BY <1>8, <1>9
  <2>3. a \in Seq(Known(n)) /\ p \in Seq(Known(n))
    BY <1>3, <1>7
  <2>. HIDE DEF C
  <2>4. Whole(a \o p, C)
    BY <1>2, <2>1, <2>2, <2>3, WholeBash
  <2>. QED
    BY <1>6, <2>4 DEF C
<1>11. Whole(agent'.messages, {0, agent.tool})
  <2>. DEFINE b == agent.messages
              C == {0, agent.tool}
  <2>1. b \in Seq(Known(n)) /\ Whole(b, C)
    BY <1>2 DEF PairsInv
  <2>2. \A i \in 1 .. Len(b) : b[i] \in Known(n)
    BY <2>1
  <2>3. C = {0}
    BY <1>5
  <2>4. \A x \in Known(n) : x.id \notin C
    <3>1. \A x \in Known(n) : x.id \in 1 .. n
      BY DEF Known
    <3>2. \A i \in 1 .. n : i # 0
      OBVIOUS
    <3>. HIDE DEF C
    <3>. QED
      BY <2>3, <3>1, <3>2
  <2>5. \A i \in 1 .. Len(p) : p[i].id \notin C
    <3>1. \A x \in Bash(n) : x \in Known(n)
      BY DEF Bash
    <3>. HIDE DEF C
    <3>. QED
      BY <1>4, <2>4, <3>1
  <2>. HIDE DEF b, C
  <2>6. Whole(b \o p, C)
    BY <1>2, <1>3, <1>4, <2>1, <2>2, <2>4, <2>5, WholeBash
  <2>7. b \o p \in Seq(Known(n))
    BY <1>3, <2>1
  <2>8. Trimmed(agent'.messages, b \o p)
    BY <1>1 DEF b
  <2>9. Whole(agent'.messages, C)
    BY <2>6, <2>7, <2>8, WholeTrimmed
  <2>. QED
    BY <2>9 DEF C
<1>12. Gets(p)
  BY <1>1, <1>2, <1>3, <1>6, FileGets DEF a
<1>13. \A i \in 1 .. Len(p) : p[i].id \notin Calls(0)
  BY <1>4
<1>14. \A i \in DOMAIN pendingBash' : pendingBash'[i].id \notin Calls(0)
  BY <1>1
<1>. QED
  BY <1>1, <1>2, <1>6, <1>10, <1>11, <1>12, <1>13, <1>14, PairsGets

(* A bash result goes to the file and the context, or is deferred.         *)
LEMMA PairsBash ==
  ASSUME TypeInv, PairsInv, AddsBash
  PROVE  PairsInv'
<1>. DEFINE n == used.ids
            a == Messages(files[current])
<1>1. PICK m \in Bash(n + 1) :
        /\ m.id = n + 1 /\ eventQueue' = eventQueue /\ agent'.tool = agent.tool /\ (Busy' => Busy)
        /\ \/ /\ Pause /\ agent'.messages = Append(agent.messages, m)
              /\ files' = [files EXCEPT ![current] = Append(files[current], Stored(m))]
              /\ pendingBash' = pendingBash
           \/ /\ pendingBash' = Append(pendingBash, m) /\ files' = files
              /\ agent'.messages = agent.messages
  BY DEF AddsBash, Busy
<1>2. /\ n \in Nat /\ n + 1 \in Nat /\ current \in Sessions
      /\ files \in [Sessions -> Seq(Lines(n + 1))] /\ pendingBash \in Seq(Bash(n + 1))
      /\ agent.messages \in Seq(Known(n + 1))
  BY StateGrows
<1>3. /\ Calls(0) \subseteq 0 .. n
      /\ \A s \in Sessions : \A i \in DOMAIN files[s] : files[s][i].message.id \in 1 .. n
  BY CallsKnown, IdsKnown
<1>. HIDE DEF n
<1>4. m \in Known(n + 1) /\ m.role = "bash" /\ m.id \notin Calls(0) /\ m.id # 0
  BY <1>1, <1>2, <1>3 DEF Bash
<1>5. ASSUME Pause, agent'.messages = Append(agent.messages, m),
             files' = [files EXCEPT ![current] = Append(files[current], Stored(m))],
             pendingBash' = pendingBash
      PROVE  PairsInv'
  <2>. DEFINE new == Append(files[current], Stored(m))
              p   == <<m>>
  <2>1. Stored(m) \in Lines(n + 1) /\ Stored(m).message = m
    BY <1>2, <1>4, StoredKnown
  <2>2. /\ agent.tool = 0
        /\ \A c \in Calls(0) : \A s \in Sessions : \A i \in DOMAIN files[s] : files[s][i].message.id # c
    BY <1>5, PauseHasNoCalls
  <2>3. files[current] \in Seq(Lines(n + 1))
    BY <1>2
  <2>4. /\ a \in Seq(Known(n + 1)) /\ Len(a) = Len(files[current]) /\ Len(files[current]) \in Nat
        /\ \A i \in 1 .. Len(files[current]) : a[i] = files[current][i].message
        /\ DOMAIN files[current] = 1 .. Len(files[current])
    BY <1>2, <2>3, MessagesKnown
  <2>5. new \in Seq(Lines(n + 1)) /\ Messages(new) = Append(a, m)
    BY <1>2, <2>1, <2>3, MessagesFileAppend
  <2>6. /\ p \in Seq(Known(n + 1)) /\ Append(a, m) = a \o p /\ Len(p) = 1 /\ p[1] = m
        /\ Append(agent.messages, m) = agent.messages \o p
    <3>1. p \in Seq(Known(n + 1)) /\ Len(p) = 1 /\ p[1] = m
      BY <1>4
    <3>2. \A x \in Seq(Known(n + 1)) : Append(x, m) = x \o <<m>>
      BY <1>4
    <3>3. a \in Seq(Known(n + 1)) /\ agent.messages \in Seq(Known(n + 1))
      BY <1>2, <2>4
    <3>. HIDE DEF a
    <3>. QED
      BY <3>1, <3>2, <3>3, Zenon
  <2>7. Whole(a, Calls(0))
    BY <1>2 DEF PairsInv
  <2>8. \A i \in 1 .. Len(a) : a[i] \in Known(n + 1) /\ a[i].id \notin Calls(0)
    BY <1>2, <2>2, <2>4
  <2>9. \A i \in 1 .. Len(p) : p[i] \in Bash(n + 1) /\ p[i].id \notin Calls(0) /\ p[i].id # 0
    BY <1>4, <2>6
  <2>10. files' = [files EXCEPT ![current] = new]
    BY <1>5
  <2>. HIDE DEF new, p, a
  <2>11. Whole(a \o p, Calls(0))
    BY <1>2, <2>4, <2>6, <2>7, <2>8, <2>9, WholeBash
  <2>12. Whole(Messages(new), Calls(0))
    BY <2>5, <2>6, <2>11
  <2>13. Whole(agent'.messages, {0, agent.tool})
    <3>. DEFINE b == agent.messages
                C == {0, agent.tool}
    <3>1. b \in Seq(Known(n + 1)) /\ Whole(b, C)
      BY <1>2 DEF PairsInv
    <3>2. \A i \in 1 .. Len(b) : b[i] \in Known(n + 1)
      BY <3>1
    <3>3. C = {0}
      BY <2>2
    <3>4. \A x \in Known(n + 1) : x.id \notin C
      <4>1. \A x \in Known(n + 1) : x.id \in 1 .. n + 1
        BY DEF Known
      <4>2. \A i \in 1 .. n + 1 : i # 0
        OBVIOUS
      <4>. HIDE DEF C
      <4>. QED
        BY <3>3, <4>1, <4>2
    <3>5. \A i \in 1 .. Len(p) : p[i].id \notin C
      BY <2>9, <3>3
    <3>6. agent'.messages = b \o p
      BY <1>5, <2>6
    <3>. HIDE DEF b, C
    <3>7. Whole(b \o p, C)
      BY <1>2, <2>6, <2>9, <3>1, <3>2, <3>4, <3>5, WholeBash
    <3>. QED
      BY <3>6, <3>7 DEF C
  <2>14. Gets(p)
    BY <1>2, <2>5, <2>6, <2>10, FileGets DEF a
  <2>15. \A i \in 1 .. Len(p) : p[i].id \notin Calls(0)
    BY <2>9
  <2>16. \A i \in DOMAIN pendingBash' : pendingBash'[i].id \notin Calls(0)
    BY <1>5 DEF PairsInv
  <2>. QED
    BY <1>1, <1>2, <2>5, <2>10, <2>12, <2>13, <2>14, <2>15, <2>16, PairsGets
<1>6. ASSUME pendingBash' = Append(pendingBash, m), files' = files, agent'.messages = agent.messages
      PROVE  PairsInv'
  <2>1. Queued(eventQueue)' = Queued(eventQueue)
    BY <1>1 DEF Queued
  <2>2. \A k : Calls(k)' = Calls(k)
    BY <1>1, <2>1 DEF Calls, After
  <2>3. Marks(eventQueue, Busy)' \subseteq Marks(eventQueue, Busy)
    BY <1>1 DEF Marks
  <2>4. EndsApart'
    BY <1>1, <1>6, <2>1, <2>2, <2>3 DEF PairsInv, EndsApart
  <2>5. \A i \in DOMAIN Append(pendingBash, m) : Append(pendingBash, m)[i].id \notin Calls(0)
    <3>. DEFINE q == pendingBash
                l == Len(q)
                d == Append(q, m)
    <3>1. /\ Len(d) = l + 1 /\ DOMAIN d = 1 .. l + 1 /\ d[l + 1] = m /\ l \in Nat /\ DOMAIN q = 1 .. l
          /\ \A i \in 1 .. l : d[i] = q[i]
      BY <1>2
    <3>2. \A i \in DOMAIN q : q[i].id \notin Calls(0)
      BY DEF PairsInv
    <3>. HIDE DEF d, l, q
    <3>3. ASSUME NEW i \in DOMAIN d PROVE d[i].id \notin Calls(0)
      <4>1. i \in DOMAIN q \/ i = l + 1
        BY <3>1
      <4>2. CASE i \in DOMAIN q
        BY <3>1, <3>2, <4>2
      <4>3. CASE i = l + 1
        BY <1>4, <3>1, <4>3
      <4>. QED
        BY <4>1, <4>2, <4>3
    <3>. QED
      BY <3>3 DEF d, q
  <2>. QED
    BY <1>1, <1>6, <2>2, <2>4, <2>5, Zenon DEF PairsInv
<1>. QED
  BY <1>1, <1>5, <1>6

(* The agent's message joins the queue, or is not heard.                   *)
LEMMA PairsSaid ==
  ASSUME TypeInv, PairsInv, Says
  PROVE  PairsInv'
<1>. DEFINE n == used.ids
            q == eventQueue
            l == Len(q)
<1>1. PICK m \in Said(n + 1) :
        /\ m.id = n + 1 /\ m.call \in {0, agent.tool}
        /\ agent'.messages = Append(agent.messages, m)
        /\ agent'.tool \in {0, n + 1}
        /\ \/ eventQueue' = eventQueue
           \/ eventQueue' = eventQueue \o <<MessageEvent(m)>>
           \/ eventQueue' = eventQueue \o <<MessageEvent(m), EndEvent(m)>> /\ agent'.tool = 0
        /\ files' = files /\ pendingBash' = pendingBash /\ (Busy' => Busy)
  BY DEF Says, Busy
<1>2. /\ n \in Nat /\ n + 1 \in Nat /\ q \in Seq(Event(n + 1)) /\ l \in Nat /\ DOMAIN q = 1 .. l
      /\ agent.messages \in Seq(Known(n)) /\ agent.messages \in Seq(Known(n + 1))
  BY StateGrows DEF TypeInv, MessagesInv
<1>3. /\ \A s \in Sessions : \A i \in DOMAIN files[s] : files[s][i].message.id \in 1 .. n
      /\ \A k \in DOMAIN q : q[k].message.id \in 1 .. n
      /\ \A i \in DOMAIN pendingBash : pendingBash[i].id \in 1 .. n
      /\ \A s \in Sessions : files[s] \in Seq(Lines(n))
  BY IdsKnown
<1>4. m \in Known(n + 1) /\ m.role \notin {"bash", "summary"}
  BY DEF Said
<1>5. eventQueue' \in Joined(q, m)
  BY <1>1 DEF Joined
<1>. HIDE DEF n, l, q
<1>6. ASSUME NEW k \in Queued(eventQueue')
      PROVE  \/ k \in Queued(q) /\ eventQueue'[k] = q[k]
             \/ k = l + 1 /\ eventQueue'[k].message = m
  BY <1>2, <1>5, QueuedSaid DEF l
<1>7. Queued(eventQueue)' = Queued(eventQueue') /\ Queued(q) \subseteq 1 .. l
  BY <1>2 DEF Queued
<1>8. ASSUME NEW k PROVE Calls(k)' \subseteq Calls(k) \cup {n + 1}
  <2>. DEFINE heard == {x \in Queued(eventQueue') : x > k}
  <2>1. Calls(k)' = {0, agent'.tool} \cup {eventQueue'[x].message.call : x \in heard}
    BY <1>7 DEF Calls, After
  <2>2. {0, agent'.tool} \subseteq Calls(k) \cup {n + 1} /\ {0, agent.tool} \subseteq Calls(k)
    BY <1>1, CallsKnown
  <2>3. ASSUME NEW x \in heard PROVE eventQueue'[x].message.call \in Calls(k)
    <3>1. CASE x \in Queued(q) /\ eventQueue'[x] = q[x]
      <4>1. q[x].message.call \in Calls(k)
        BY <2>3, <3>1 DEF Calls, After, q
      <4>. QED
        BY <3>1, <4>1, Zenon
    <3>2. CASE eventQueue'[x].message = m
      BY <1>1, <2>2, <3>2
    <3>. QED
      BY <1>6, <2>3, <3>1, <3>2
  <2>. HIDE DEF heard
  <2>. QED
    BY <2>1, <2>2, <2>3
<1>10. ASSUME NEW k \in Marks(eventQueue', Busy')
       PROVE  \/ k \in Marks(q, Busy) /\ k \in 0 .. l
              \/ k = l + 2 /\ agent'.tool = 0
  <2>1. k \in 0 .. Len(eventQueue') /\ (k = 0 => Busy') /\ (k # 0 => eventQueue'[k].type = "agent_end")
    BY DEF Marks
  <2>2. CASE k = 0
    BY <1>1, <1>2, <2>1, <2>2 DEF Marks, l
  <2>3. CASE k # 0
    <3>1. eventQueue' \in Seq(Event(n + 1))
      <4>1. MessageEvent(m) \in Event(n + 1) /\ EndEvent(m) \in Event(n + 1)
        BY EventKnown
      <4>2. \A x \in Seq(Event(n + 1)) : q \o x \in Seq(Event(n + 1))
        BY <1>2
      <4>3. <<MessageEvent(m)>> \in Seq(Event(n + 1)) /\ <<MessageEvent(m), EndEvent(m)>> \in Seq(Event(n + 1))
        BY <4>1
      <4>4. eventQueue' = q \/ \E x \in Seq(Event(n + 1)) : eventQueue' = q \o x
        BY <1>1, <4>3, Zenon DEF q
      <4>. QED
        BY <1>2, <4>2, <4>4, Zenon
    <3>2. k \in DOMAIN eventQueue' /\ k \in Nat
      BY <2>1, <2>3, <3>1
    <3>3. \/ k \in DOMAIN q /\ eventQueue'[k] = q[k]
          \/ k = l + 1 /\ eventQueue'[k] = MessageEvent(m)
          \/ k = l + 2
      <4>1. q \in Seq(Event(n + 1)) /\ m \in Said(n + 1)
        BY <1>2
      <4>2. \/ k \in DOMAIN q /\ eventQueue'[k] = q[k]
            \/ k = Len(q) + 1 /\ eventQueue'[k] = MessageEvent(m)
            \/ k = Len(q) + 2 /\ eventQueue'[k] = EndEvent(m) /\ eventQueue' = q \o <<MessageEvent(m), EndEvent(m)>>
        BY <1>5, <3>2, <4>1, QueueSaid
      <4>. QED
        BY <4>2, Zenon DEF l
    <3>4. CASE k \in DOMAIN q /\ eventQueue'[k] = q[k]
      BY <1>2, <2>1, <2>3, <3>4 DEF Marks, l
    <3>5. ~ (k = l + 1 /\ eventQueue'[k] = MessageEvent(m))
      <4>1. MessageEvent(m).type = "message"
        BY EventKnown
      <4>. QED
        BY <2>1, <2>3, <4>1
    <3>6. CASE k = l + 2
      <4>1. eventQueue' # q
        BY <1>2, <3>2, <3>6
      <4>2. eventQueue' # q \o <<MessageEvent(m)>>
        <5>1. <<MessageEvent(m)>> \in Seq(Event(n + 1)) /\ Len(<<MessageEvent(m)>>) = 1
          BY EventKnown
        <5>. DEFINE p == <<MessageEvent(m)>>
        <5>2. p \in Seq(Event(n + 1)) /\ Len(p) = 1
          BY <5>1
        <5>. HIDE DEF p
        <5>3. DOMAIN (q \o p) = 1 .. l + 1
          <6>1. q \o p \in Seq(Event(n + 1)) /\ Len(q \o p) = Len(q) + Len(p)
            <7>1. q \in Seq(Event(n + 1)) /\ p \in Seq(Event(n + 1))
              BY <1>2, <5>2
            <7>. QED
              BY <7>1, ConcatKnown
          <6>2. DOMAIN (q \o p) = 1 .. Len(q \o p)
            BY <6>1
          <6>. QED
            BY <5>2, <6>1, <6>2 DEF l
        <5>4. k \notin 1 .. l + 1
          BY <1>2, <3>6
        <5>. QED
          BY <3>2, <5>3, <5>4 DEF p
      <4>. QED
        BY <1>1, <3>6, <4>1, <4>2 DEF q
    <3>. QED
      BY <3>3, <3>4, <3>5, <3>6
  <2>. QED
    BY <2>2, <2>3
<1>11. EndsApart'
  <2>1. ASSUME NEW k \in Marks(eventQueue', Busy'), NEW c \in Calls(k)'
        PROVE  /\ \A s \in Sessions : \A i \in DOMAIN files[s] : files[s][i].message.id # c
               /\ \A x \in Queued(eventQueue') : x < k => eventQueue'[x].message.id # c
    <3>1. CASE k \in Marks(q, Busy) /\ k \in 0 .. l
      <4>1. \A x \in Queued(eventQueue') : x < k => x \in Queued(q) /\ eventQueue'[x] = q[x]
        BY <1>2, <1>6, <3>1
      <4>2. CASE c \in Calls(k)
        <5>1. /\ \A s \in Sessions : \A i \in DOMAIN files[s] : files[s][i].message.id # c
              /\ \A x \in Queued(q) : x < k => q[x].message.id # c
          BY <3>1, <4>2 DEF PairsInv, EndsApart, q
        <5>. QED
          BY <4>1, <5>1, Zenon
      <4>3. CASE c = n + 1
        <5>1. \A x \in 1 .. n : x # c
          BY <1>2, <4>3
        <5>2. \A x \in Queued(q) : q[x].message.id # c
          BY <1>3, <5>1 DEF Queued
        <5>3. \A s \in Sessions : \A i \in DOMAIN files[s] : files[s][i].message.id # c
          BY <1>3, <5>1
        <5>. QED
          BY <4>1, <5>2, <5>3, Zenon
      <4>. QED
        BY <1>8, <2>1, <4>2, <4>3
    <3>2. CASE k = l + 2 /\ agent'.tool = 0
      <4>1. c = 0
        <5>1. \A x \in Queued(eventQueue') : ~ (x > k)
          BY <1>2, <1>6, <1>7, <3>2
        <5>2. {x \in Queued(eventQueue)' : x > k} = {}
          BY <1>7, <5>1
        <5>3. Calls(k)' = {0, agent'.tool}
          BY <5>2 DEF Calls, After
        <5>. QED
          BY <2>1, <3>2, <5>3
      <4>2. \A x \in Queued(q) : q[x].message.id # 0
        BY <1>2, <1>3 DEF Queued
      <4>3. m.id # 0
        BY <1>1, <1>2
      <4>4. \A x \in Queued(eventQueue') : eventQueue'[x].message.id # 0
        BY <1>6, <4>2, <4>3
      <4>5. \A s \in Sessions : \A i \in DOMAIN files[s] : files[s][i].message.id # 0
        BY <1>2, <1>3
      <4>. QED
        BY <4>1, <4>4, <4>5
    <3>. QED
      BY <1>10, <3>1, <3>2
  <2>2. Marks(eventQueue, Busy)' = Marks(eventQueue', Busy')
    BY DEF Marks
  <2>. QED
    BY <1>1, <1>7, <2>1, <2>2 DEF EndsApart
<1>12. Whole(agent'.messages, {0, agent'.tool})
  <2>. DEFINE b == agent.messages
              C == {0, agent.tool}
              D == C \cup {n + 1}
  <2>1. b \in Seq(Known(n)) /\ Whole(b, C) /\ b \in Seq(Known(n + 1))
    BY <1>2 DEF PairsInv
  <2>2. n + 1 \notin 1 .. n
    BY <1>2
  <2>3. m.call \in D /\ {0, agent'.tool} \subseteq D
    BY <1>1
  <2>. HIDE DEF b, C
  <2>4. Whole(b, D)
    BY <1>2, <2>1, <2>2, WholeNew
  <2>. HIDE DEF D
  <2>5. Whole(Append(b, m), D)
    BY <1>4, <2>1, <2>3, <2>4, WholeAppend
  <2>6. Whole(Append(b, m), {0, agent'.tool})
    BY <2>3, <2>5, WholeLess
  <2>. QED
    BY <1>1, <2>6 DEF b
<1>13. ASSUME NEW s \in Sessions PROVE Whole(Messages(files[s]), Calls(0)')
  <2>1. n + 1 \notin 1 .. n
    BY <1>2
  <2>2. Messages(files[s]) \in Seq(Known(n))
    BY <1>2, <1>3, MessagesKnown
  <2>3. Whole(Messages(files[s]), Calls(0))
    BY DEF PairsInv
  <2>4. Whole(Messages(files[s]), Calls(0) \cup {n + 1})
    BY <1>2, <2>1, <2>2, <2>3, WholeNew
  <2>. QED
    BY <1>8, <2>4, WholeLess
<1>14. \A i \in DOMAIN pendingBash : pendingBash[i].id \notin Calls(0)'
  <2>1. \A x \in 1 .. n : x # n + 1
    BY <1>2
  <2>2. \A i \in DOMAIN pendingBash : pendingBash[i].id # n + 1 /\ pendingBash[i].id \notin Calls(0)
    BY <1>3, <2>1 DEF PairsInv
  <2>. QED
    BY <1>8, <2>2
<1>. QED
  BY <1>1, <1>11, <1>12, <1>13, <1>14 DEF PairsInv

(* Every kind of step keeps calls and results together.                    *)
LEMMA PairsKept ==
  ASSUME TypeInv, PairsInv, Moves
  PROVE  PairsInv'
  BY PairsRested, PairsOpened, PairsEnded, PairsTaken, PairsSummarized, PairsFlushed, PairsBash,
     PairsSaid DEF Moves
-----------------------------------------------------------------------------
(* Waiting for the end of a retry.                                         *)

\* None of the situations in which waiting is known to go wrong (see spoiled).
Fresh == "early" \notin spoiled /\ "late" \notin spoiled /\ "revived" \notin spoiled

Waiting  == \E c \in Callers : callers[c] = "waitRetry"
Starting == \E c \in Callers : callers[c] = "starting"

Ends == {k \in DOMAIN eventQueue : eventQueue[k].type = "agent_end"}

\* What Agent.continue() accepts.
Askable(msgs) == msgs # <<>> /\ Last(msgs).role # "assistant"

Grave(m) == m.out \in {"overflow", "fatal"}

RetryTyped ==
  /\ retry \in [promise : BOOLEAN, attempt : Nat, controller : {"none", "armed", "aborted"}]
  /\ callers \in [Callers -> {"idle", "compacting", "starting", "running", "waitRetry"}]
  /\ timers \in Nat

WorkerCompacts == jobs["worker"].active => worker.phase = "compacting"

\* Who waits, waits for the promise.
WaitersHavePromise == Waiting => retry.promise

\* A retry that was only announced has its failure still in the queue.
AnnouncedIsQueued ==
  retry.promise /\ retry.attempt = 0 => \E k \in Ends : eventQueue[k].message.out = "retryable"

\* The end of a run follows its answer.
EndsFollowAnswers ==
  \A k \in Ends :
    /\ eventQueue[k].message.role = "assistant"
    /\ k = 1 => eventQueue[k].message = lastAssistant
    /\ k > 1 => eventQueue[k - 1] = MessageEvent(eventQueue[k].message)

\* The queue has events of one run, and none while the worker is busy.
OneRunQueued ==
  Fresh => /\ worker.phase # "free" => eventQueue = <<>> /\ ~agent.streaming
           /\ \A k \in DOMAIN eventQueue : k \in Ends <=> (k = Len(eventQueue) /\ ~agent.streaming)

\* A good answer has resolved the promise.
GoodResolves == Fresh /\ 1 \in Ends /\ Good(lastAssistant) => ~retry.promise

CompactsUnpromised ==
  Fresh /\ worker.phase = "compacting" /\ retry.promise => Grave(worker.message)

\* switchSession() has aborted the run and the retry.
SwitchHasAborted ==
  Fresh /\ switching.phase = "waiting" =>
    /\ ~retry.promise
    /\ agent.streaming => agent.aborted
    /\ ~agent.streaming => ~Starting
    /\ \A k \in Ends : eventQueue[k].message.out # "retryable"

\* While the model is asked and when its failure is dropped, the context is one that it
\* can be asked with.
AskedAskable == Fresh /\ agent.streaming /\ agent.tool = 0 => Askable(agent.messages)

FailureIsLast ==
  Fresh /\ Ends # {} =>
    /\ agent.messages # <<>> /\ Last(agent.messages).role = "assistant"
    /\ Askable(Front(agent.messages))
    /\ \A k \in Ends : Last(agent.messages) = eventQueue[k].message

SleeperAskable ==
  Fresh /\ Waiting /\ worker.phase = "sleeping" => Askable(agent.messages) \/ Starting

UnheardUnpromised == Fresh /\ ~connected => ~retry.promise /\ eventQueue = <<>>

\* When nothing else is under way, a timer continues the run.
TimerContinues ==
  Fresh /\ Waiting /\ worker.phase = "free" /\ ~agent.streaming /\ eventQueue = <<>>
    /\ ~Grave(worker.message)
  => timers > 0 /\ (Askable(agent.messages) \/ Starting)

WaitInv ==
  /\ RetryTyped /\ WorkerCompacts
  /\ WaitersHavePromise /\ AnnouncedIsQueued /\ EndsFollowAnswers /\ OneRunQueued /\ GoodResolves
  /\ CompactsUnpromised /\ SwitchHasAborted /\ AskedAskable /\ FailureIsLast /\ SleeperAskable
  /\ UnheardUnpromised /\ TimerContinues

(* No step breaks it.                                                      *)

LEMMA QueueTypes ==
  ASSUME TypeInv
  PROVE  /\ DOMAIN eventQueue = 1 .. Len(eventQueue) /\ Len(eventQueue) \in Nat
         /\ \A k \in DOMAIN eventQueue : /\ eventQueue[k].message \in Message
                                         /\ eventQueue[k].type \in {"message", "agent_end"}
                                         /\ eventQueue[k] = IF k \in Ends THEN EndEvent(eventQueue[k].message)
                                                            ELSE MessageEvent(eventQueue[k].message)
         /\ eventQueue = <<>> => Ends = {} /\ DOMAIN eventQueue = {}
         /\ agent.streaming \in BOOLEAN /\ agent.aborted \in BOOLEAN
         /\ worker.phase \in {"free", "sleeping", "compacting"} /\ worker.message \in Message
<1>1. eventQueue \in Seq(Event(used.ids))
  BY DEF TypeInv, MessagesInv
<1>2. \A e \in Event(used.ids) : /\ e.message \in Message /\ e.type \in {"message", "agent_end"}
                                 /\ e = [type |-> e.type, message |-> e.message]
  BY DEF Event, Said, Known
<1>3. DOMAIN eventQueue = 1 .. Len(eventQueue) /\ Len(eventQueue) \in Nat
  BY <1>1
<1>4. \A k \in DOMAIN eventQueue : eventQueue[k] \in Event(used.ids)
  BY <1>1, <1>3
<1>5. eventQueue = <<>> => Ends = {} /\ DOMAIN eventQueue = {}
  BY <1>3 DEF Ends
<1>6. \A k \in DOMAIN eventQueue :
        eventQueue[k] = IF k \in Ends THEN EndEvent(eventQueue[k].message)
                        ELSE MessageEvent(eventQueue[k].message)
  BY <1>2, <1>4 DEF Ends, EndEvent, MessageEvent
<1>. QED
  BY <1>2, <1>3, <1>4, <1>5, <1>6 DEF TypeInv, ControlInv, AgentShape

LEMMA SettledEmpty ==
  ASSUME TypeInv, WaitInv, Settled, Fresh
  PROVE  eventQueue = <<>> /\ Ends = {} /\ ~Starting
  BY QueueTypes DEF Settled, WaitInv, OneRunQueued, Starting

\* The promise is resolved: nobody waits any more.
Released == ~retry'.promise /\ ~Waiting' /\ (Starting' => Starting)

LEMMA ReleasedBy ==
  ASSUME RetryTyped
  PROVE  /\ ResolveRetry => /\ Released /\ retry'.attempt = 0
                            /\ (timers' \in Nat => RetryTyped')
         /\ AbortRetry => Released /\ (timers' \in Nat => RetryTyped')
<1>1. callers' = Woken => /\ callers' \in [Callers -> {"idle", "compacting", "starting", "running", "waitRetry"}]
                          /\ ~Waiting' /\ (Starting' => Starting)
  BY DEF RetryTyped, Woken, Waiting, Starting
<1>2. ASSUME ResolveRetry
      PROVE  /\ retry' \in [promise : BOOLEAN, attempt : Nat, controller : {"none", "armed", "aborted"}]
             /\ ~retry'.promise /\ retry'.attempt = 0
  <2>. DEFINE c == retry.controller
  <2>1. retry' = [promise |-> FALSE, attempt |-> 0, controller |-> c]
    BY <1>2 DEF RetryTyped, ResolveRetry
  <2>2. c \in {"none", "armed", "aborted"}
    BY DEF RetryTyped
  <2>. HIDE DEF c
  <2>. QED
    BY <2>1, <2>2
<1>3. AbortRetry => /\ retry' \in [promise : BOOLEAN, attempt : Nat, controller : {"none", "armed", "aborted"}]
                    /\ ~retry'.promise
  BY DEF RetryTyped, AbortRetry
<1>. QED
  BY <1>1, <1>2, <1>3 DEF Released, RetryTyped, ResolveRetry, AbortRetry

LEMMA EventsPopped ==
  ASSUME TypeInv, eventQueue # <<>>, eventQueue' = Tail(eventQueue)
  PROVE  /\ DOMAIN eventQueue = 1 .. Len(eventQueue) /\ Len(eventQueue) \in Nat
         /\ DOMAIN eventQueue' = 1 .. Len(eventQueue') /\ Len(eventQueue') = Len(eventQueue) - 1
         /\ \A k \in DOMAIN eventQueue' : k + 1 \in DOMAIN eventQueue /\ eventQueue'[k] = eventQueue[k + 1]
         /\ eventQueue' = <<>> => Len(eventQueue) = 1
<1>. DEFINE T == Event(used.ids)
<1>1. eventQueue \in Seq(T)
  BY DEF TypeInv, MessagesInv
<1>. HIDE DEF T
<1>2. /\ eventQueue' \in Seq(T)
      /\ Len(eventQueue) \in Nat /\ Len(eventQueue) > 0 /\ Len(eventQueue') = Len(eventQueue) - 1
      /\ \A i \in 1 .. Len(eventQueue) - 1 : eventQueue'[i] = eventQueue[i + 1]
  BY <1>1, TailKnown
<1>3. DOMAIN eventQueue = 1 .. Len(eventQueue) /\ DOMAIN eventQueue' = 1 .. Len(eventQueue')
  BY <1>1, <1>2
<1>4. eventQueue' = <<>> => Len(eventQueue') = 0
  OBVIOUS
<1>. QED
  BY <1>2, <1>3, <1>4

LEMMA HandleMessageWaits ==
  ASSUME TypeInv, WaitInv, HandleMessage
  PROVE  WaitInv'
<1>. DEFINE m == eventQueue[1].message
<1>1. /\ worker.phase = "free" /\ 1 \in DOMAIN eventQueue /\ 1 \notin Ends
      /\ UNCHANGED <<agent, connected, worker, jobs, timers, switching, spoiled>>
      /\ lastAssistant' = IF m.role = "assistant" THEN m ELSE lastAssistant
      /\ \/ ResolveRetry
         \/ /\ UNCHANGED <<retry, callers>>
            /\ ~(m.role = "assistant" /\ Good(m) /\ retry.attempt > 0)
  BY TailKnown, HeadKnown, QueueTypes DEF HandleMessage, Handles, agentVars, TypeInv, MessagesInv, Ends
<1>2. /\ DOMAIN eventQueue = 1 .. Len(eventQueue) /\ Len(eventQueue) \in Nat
      /\ DOMAIN eventQueue' = 1 .. Len(eventQueue') /\ Len(eventQueue') = Len(eventQueue) - 1
      /\ \A k \in DOMAIN eventQueue' : k + 1 \in DOMAIN eventQueue /\ eventQueue'[k] = eventQueue[k + 1]
      /\ eventQueue' = <<>> => Len(eventQueue) = 1
  BY EventsPopped DEF HandleMessage, Handles
<1>3. /\ \A k \in DOMAIN eventQueue' : k \in Ends' <=> k + 1 \in Ends
      /\ Ends \subseteq DOMAIN eventQueue /\ Ends' \subseteq DOMAIN eventQueue'
      /\ \A k \in Ends : k # 1 /\ k - 1 \in Ends'
  BY <1>1, <1>2 DEF Ends
<1>4. /\ Waiting' => Waiting
      /\ Starting' => Starting
      /\ retry'.promise => retry.promise
      /\ RetryTyped' /\ (Waiting' => retry'.promise)
  BY <1>1, ReleasedBy DEF Released, Waiting, Starting, WaitInv, RetryTyped, WaitersHavePromise
<1>5. AnnouncedIsQueued'
  <2>1. CASE ResolveRetry
    BY <2>1, ReleasedBy DEF Released, AnnouncedIsQueued, WaitInv
  <2>2. CASE UNCHANGED retry
    BY <1>2, <1>3, <2>2 DEF AnnouncedIsQueued, WaitInv
  <2>. QED
    BY <1>1, <2>1, <2>2
<1>6. EndsFollowAnswers'
  <2>1. ASSUME NEW k \in Ends'
        PROVE  /\ eventQueue'[k].message.role = "assistant"
               /\ k = 1 => eventQueue'[k].message = lastAssistant'
               /\ k > 1 => eventQueue'[k - 1] = MessageEvent(eventQueue'[k].message)
    <3>1. k + 1 \in Ends /\ eventQueue'[k] = eventQueue[k + 1] /\ k \in Nat /\ k >= 1
      BY <1>2, <1>3
    <3>2. /\ eventQueue[k + 1].message.role = "assistant"
          /\ eventQueue[k] = MessageEvent(eventQueue[k + 1].message)
      BY <3>1 DEF WaitInv, EndsFollowAnswers
    <3>3. k = 1 => m = eventQueue[2].message
      BY <3>1, <3>2 DEF MessageEvent
    <3>4. k > 1 => k - 1 \in DOMAIN eventQueue' /\ eventQueue'[k - 1] = eventQueue[k]
      BY <1>2, <1>3, <3>1
    <3>. QED
      BY <1>1, <3>1, <3>2, <3>3, <3>4
  <2>. QED
    BY <2>1 DEF EndsFollowAnswers
<1>7. OneRunQueued'
  BY <1>1, <1>2, <1>3 DEF OneRunQueued, WaitInv, Fresh
<1>8. GoodResolves'
  <2>. SUFFICES ASSUME Fresh, 1 \in Ends', Good(lastAssistant'), retry'.promise PROVE FALSE
    BY <1>1 DEF GoodResolves, Fresh
  <2>1. 2 \in Ends /\ eventQueue'[1].message = lastAssistant' /\ eventQueue[2] = eventQueue'[1]
    BY <1>2, <1>3, <1>6 DEF EndsFollowAnswers
  <2>2. m = eventQueue[2].message /\ m.role = "assistant"
    <3>1. \A k \in Ends : /\ eventQueue[k].message.role = "assistant"
                          /\ k > 1 => eventQueue[k - 1] = MessageEvent(eventQueue[k].message)
      BY DEF WaitInv, EndsFollowAnswers
    <3>2. eventQueue[1] = MessageEvent(eventQueue[2].message)
      BY <2>1, <3>1
    <3>. QED
      BY <2>1, <3>1, <3>2 DEF MessageEvent
  <2>3. ~(retry.attempt > 0) /\ retry.promise /\ Good(m)
    BY <1>1, <2>2, ReleasedBy DEF Released, WaitInv
  <2>4. PICK k \in Ends : eventQueue[k].message.out = "retryable"
    BY <2>3 DEF WaitInv, AnnouncedIsQueued, RetryTyped
  <2>5. k = 2
    BY <1>3, <2>1 DEF WaitInv, OneRunQueued
  <2>. QED
    BY <2>2, <2>3, <2>4, <2>5 DEF Good, errors
<1>9. CompactsUnpromised' /\ SleeperAskable'
  BY <1>1 DEF CompactsUnpromised, SleeperAskable
<1>10. SwitchHasAborted'
  <2>1. \A k \in Ends' : k + 1 \in Ends /\ eventQueue'[k] = eventQueue[k + 1]
    BY <1>2, <1>3
  <2>2. SwitchHasAborted
    BY DEF WaitInv
  <2>3. (Fresh' => Fresh) /\ UNCHANGED <<switching.phase, agent.streaming, agent.aborted>>
    BY <1>1 DEF Fresh
  <2>. QED
    BY <1>4, <2>1, <2>2, <2>3 DEF SwitchHasAborted
<1>11. AskedAskable' /\ FailureIsLast'
  <2>1. \A k \in Ends' : k + 1 \in Ends /\ eventQueue'[k] = eventQueue[k + 1]
    BY <1>2, <1>3
  <2>. QED
    BY <1>1, <2>1 DEF AskedAskable, FailureIsLast, WaitInv, Fresh
<1>12. UnheardUnpromised'
  BY <1>1, <1>2 DEF UnheardUnpromised, WaitInv, Fresh
<1>13. TimerContinues'
  BY <1>1, <1>2 DEF TimerContinues, OneRunQueued, WaitInv, Fresh
<1>14. WaitersHavePromise' /\ WorkerCompacts'
  BY <1>1, <1>4 DEF WaitersHavePromise, WorkerCompacts, WaitInv
<1>. QED
  BY <1>4, <1>5, <1>6, <1>7, <1>8, <1>9, <1>10, <1>11, <1>12, <1>13, <1>14 DEF WaitInv

LEMMA ReleasedHolds ==
  ASSUME Released
  PROVE  /\ WaitersHavePromise' /\ AnnouncedIsQueued' /\ GoodResolves' /\ CompactsUnpromised'
         /\ SleeperAskable' /\ TimerContinues'
  BY DEF Released, WaitersHavePromise, AnnouncedIsQueued, GoodResolves, CompactsUnpromised,
         SleeperAskable, TimerContinues

LEMMA QueueSame ==
  ASSUME UNCHANGED <<eventQueue, lastAssistant>>
  PROVE  /\ Ends' = Ends
         /\ EndsFollowAnswers => EndsFollowAnswers'
  BY DEF Ends, EndsFollowAnswers

\* What _checkCompaction does to the agent.
LEMMA CheckAgent ==
  ASSUME TypeInv, NEW j, NEW m, NEW skip, NEW msgs, NEW file, NEW attempted,
         Check(j, m, skip, msgs, file, attempted)
  PROVE  /\ UNCHANGED <<agent.streaming, agent.aborted, agent.tool>>
         /\ agent'.messages \in {msgs, DropAssistant(msgs)}
<1>1. PICK w \in BOOLEAN : agent' = [agent EXCEPT !.messages = IF w THEN DropAssistant(msgs) ELSE msgs]
  BY DEF Check
<1>. QED
  BY <1>1 DEF TypeInv, ControlInv, AgentShape

LEMMA EndTaken ==
  ASSUME TypeInv, WaitInv, Handles("agent_end")
  PROVE  /\ worker.phase = "free" /\ 1 \in Ends /\ lastAssistant = eventQueue[1].message
         /\ 1 \notin Ends' /\ EndsFollowAnswers'
         /\ \A k \in Ends : k # 1 => k - 1 \in Ends' /\ eventQueue'[k - 1] = eventQueue[k]
         /\ \A k \in Ends' : k + 1 \in Ends /\ eventQueue'[k] = eventQueue[k + 1]
         /\ Fresh => eventQueue' = <<>> /\ Ends' = {} /\ DOMAIN eventQueue' = {} /\ ~agent.streaming
         /\ Fresh => connected
<1>1. /\ worker.phase = "free" /\ eventQueue # <<>> /\ eventQueue' = Tail(eventQueue)
      /\ Head(eventQueue).type = "agent_end"
  BY DEF Handles
<1>2. /\ DOMAIN eventQueue = 1 .. Len(eventQueue) /\ Len(eventQueue) \in Nat
      /\ DOMAIN eventQueue' = 1 .. Len(eventQueue') /\ Len(eventQueue') = Len(eventQueue) - 1
      /\ \A k \in DOMAIN eventQueue' : k + 1 \in DOMAIN eventQueue /\ eventQueue'[k] = eventQueue[k + 1]
  BY <1>1, EventsPopped
<1>3. 1 \in DOMAIN eventQueue /\ Head(eventQueue) = eventQueue[1]
  BY <1>1, TailKnown, <1>2 DEF TypeInv, MessagesInv
<1>4. 1 \in Ends
  BY <1>1, <1>3 DEF Ends
<1>5. \A k \in DOMAIN eventQueue' : k \in Ends' <=> k + 1 \in Ends
  BY <1>2 DEF Ends
<1>6. Ends \subseteq DOMAIN eventQueue /\ Ends' \subseteq DOMAIN eventQueue'
  BY DEF Ends
<1>7. \A k \in Ends' : k + 1 \in Ends /\ eventQueue'[k] = eventQueue[k + 1]
  BY <1>2, <1>5, <1>6
<1>8. \A k \in Ends : k # 1 => k - 1 \in Ends' /\ eventQueue'[k - 1] = eventQueue[k]
  <2>1. ASSUME NEW k \in Ends, k # 1 PROVE k - 1 \in DOMAIN eventQueue' /\ (k - 1) + 1 = k
    BY <1>2, <1>6, <2>1
  <2>. QED
    BY <1>2, <1>5, <2>1
<1>9. /\ \A k \in Ends : /\ eventQueue[k].message.role = "assistant"
                         /\ k = 1 => eventQueue[k].message = lastAssistant
                         /\ k > 1 => eventQueue[k - 1] = MessageEvent(eventQueue[k].message)
  BY DEF WaitInv, EndsFollowAnswers
<1>10. 1 \notin Ends'
  <2>. SUFFICES ASSUME 1 \in Ends' PROVE FALSE
    OBVIOUS
  <2>1. 2 \in Ends
    BY <1>7
  <2>2. eventQueue[1] = MessageEvent(eventQueue[2].message)
    BY <1>9, <2>1
  <2>. QED
    BY <1>1, <1>3, <2>2 DEF MessageEvent
<1>11. EndsFollowAnswers'
  <2>1. ASSUME NEW k \in Ends'
        PROVE  /\ eventQueue'[k].message.role = "assistant"
               /\ k # 1
               /\ k > 1 => eventQueue'[k - 1] = MessageEvent(eventQueue'[k].message)
    <3>1. k + 1 \in Ends /\ eventQueue'[k] = eventQueue[k + 1] /\ k \in Nat /\ k >= 1 /\ k # 1
      BY <1>2, <1>6, <1>7, <1>10
    <3>2. eventQueue[k] = MessageEvent(eventQueue[k + 1].message)
      BY <1>9, <3>1
    <3>3. k - 1 \in DOMAIN eventQueue' /\ eventQueue'[k - 1] = eventQueue[k]
      BY <1>2, <1>6, <3>1
    <3>. QED
      BY <1>9, <3>1, <3>2, <3>3
  <2>. QED
    BY <2>1 DEF EndsFollowAnswers
<1>12. ASSUME Fresh PROVE eventQueue' = <<>> /\ Ends' = {} /\ DOMAIN eventQueue' = {} /\ ~agent.streaming
  <2>1. 1 = Len(eventQueue) /\ ~agent.streaming
    BY <1>3, <1>4, <1>12 DEF WaitInv, OneRunQueued
  <2>2. eventQueue \in Seq(Event(used.ids))
    BY DEF TypeInv, MessagesInv
  <2>3. Tail(eventQueue) = <<>>
    BY <2>1, <2>2
  <2>. QED
    BY <1>1, <1>2, <1>6, <2>1, <2>3
<1>13. Fresh => connected
  BY <1>1 DEF WaitInv, UnheardUnpromised
<1>. QED
  BY <1>1, <1>4, <1>7, <1>8, <1>9, <1>10, <1>11, <1>12, <1>13

LEMMA HandleEndWithRetryWaits ==
  ASSUME TypeInv, WaitInv, HandleEndWithRetry
  PROVE  WaitInv'
<1>1. /\ Handles("agent_end") /\ lastAssistant.out = "retryable"
      /\ retry' = [promise |-> TRUE, attempt |-> retry.attempt + 1, controller |-> "armed"]
      /\ agent' = [agent EXCEPT !.messages = DropAssistant(@)]
      /\ worker' = [phase |-> "sleeping", message |-> lastAssistant]
      /\ UNCHANGED <<connected, timers, callers, jobs, switching, spoiled>>
  BY DEF HandleEndWithRetry, MayRetry, operations, compaction
<1>2. /\ agent'.messages = DropAssistant(agent.messages)
      /\ UNCHANGED <<agent.streaming, agent.tool, agent.aborted>>
  BY <1>1 DEF TypeInv, ControlInv, AgentShape
<1>3. /\ 1 \in Ends /\ lastAssistant = eventQueue[1].message /\ worker.phase = "free"
      /\ 1 \notin Ends' /\ EndsFollowAnswers'
      /\ Fresh => eventQueue' = <<>> /\ Ends' = {} /\ DOMAIN eventQueue' = {} /\ ~agent.streaming
      /\ Fresh => connected
  BY <1>1, EndTaken
<1>4. RetryTyped' /\ retry'.promise = TRUE /\ retry'.attempt # 0 /\ worker'.phase = "sleeping"
  <2>. DEFINE x == retry.attempt + 1
  <2>1. x \in Nat /\ x # 0
    BY DEF WaitInv, RetryTyped
  <2>2. retry' = [promise |-> TRUE, attempt |-> x, controller |-> "armed"]
    BY <1>1
  <2>. HIDE DEF x
  <2>. QED
    BY <1>1, <2>1, <2>2 DEF WaitInv, RetryTyped
<1>5. Fresh' <=> Fresh
  BY <1>1 DEF Fresh
<1>6. WaitersHavePromise' /\ AnnouncedIsQueued' /\ GoodResolves' /\ CompactsUnpromised' /\ TimerContinues'
  BY <1>3, <1>4 DEF WaitersHavePromise, AnnouncedIsQueued, GoodResolves, CompactsUnpromised, TimerContinues
<1>7. OneRunQueued'
  BY <1>2, <1>3, <1>5 DEF OneRunQueued
<1>8. SwitchHasAborted'
  <2>1. Fresh => switching.phase # "waiting"
    BY <1>1, <1>3 DEF WaitInv, SwitchHasAborted
  <2>. QED
    BY <1>1, <1>5, <2>1 DEF SwitchHasAborted
<1>9. AskedAskable' /\ FailureIsLast' /\ UnheardUnpromised'
  BY <1>1, <1>2, <1>3, <1>5 DEF AskedAskable, FailureIsLast, UnheardUnpromised
<1>10. SleeperAskable'
  <2>1. ASSUME Fresh PROVE Askable(agent'.messages)
    BY <1>2, <1>3, <2>1 DEF WaitInv, FailureIsLast, DropAssistant, LastIs
  <2>. QED
    BY <1>5, <2>1 DEF SleeperAskable
<1>11. WorkerCompacts'
  BY <1>1, <1>3 DEF WorkerCompacts, WaitInv
<1>. QED
  BY <1>3, <1>4, <1>6, <1>7, <1>8, <1>9, <1>10, <1>11 DEF WaitInv

LEMMA HandleEndWaits ==
  ASSUME TypeInv, WaitInv, HandleEnd
  PROVE  WaitInv'
<1>1. /\ Handles("agent_end")
      /\ IF lastAssistant.out = "retryable" THEN ResolveRetry ELSE UNCHANGED <<retry, callers>>
      /\ Check("worker", lastAssistant, TRUE, agent.messages, files[current], overflowRecoveryAttempted)
      /\ worker'.phase \in {"free", "compacting"} /\ worker'.message = lastAssistant
      /\ WorkerCompacts'
      /\ UNCHANGED <<connected, timers, switching, spoiled>>
  BY DEF HandleEnd, WorkerCompacts
<1>2. UNCHANGED <<agent.streaming, agent.tool, agent.aborted>>
  BY <1>1, CheckAgent
<1>3. /\ 1 \in Ends /\ lastAssistant = eventQueue[1].message
      /\ 1 \notin Ends' /\ EndsFollowAnswers'
      /\ \A k \in Ends : k # 1 => k - 1 \in Ends' /\ eventQueue'[k - 1] = eventQueue[k]
      /\ \A k \in Ends' : k + 1 \in Ends /\ eventQueue'[k] = eventQueue[k + 1]
      /\ Fresh => eventQueue' = <<>> /\ Ends' = {} /\ DOMAIN eventQueue' = {} /\ ~agent.streaming
      /\ Fresh => connected
  BY <1>1, EndTaken
<1>4. /\ RetryTyped' /\ (Starting' => Starting) /\ (retry'.promise => retry.promise)
      /\ Released \/ (UNCHANGED <<retry, callers>> /\ lastAssistant.out # "retryable")
  BY <1>1, ReleasedBy DEF Released, WaitInv, RetryTyped, Starting
<1>5. Fresh' <=> Fresh
  BY <1>1 DEF Fresh
<1>6. ASSUME Fresh, retry'.promise PROVE Grave(lastAssistant)
  <2>1. UNCHANGED retry /\ lastAssistant.out # "retryable"
    BY <1>4, <1>6 DEF Released
  <2>2. ~Good(lastAssistant)
    BY <1>3, <1>6, <2>1 DEF WaitInv, GoodResolves
  <2>. QED
    BY <2>1, <2>2 DEF Good, Grave, errors
<1>7. /\ WaitersHavePromise' /\ AnnouncedIsQueued' /\ GoodResolves' /\ CompactsUnpromised'
      /\ SleeperAskable' /\ TimerContinues'
  <2>1. CASE Released
    BY <2>1, ReleasedHolds
  <2>2. CASE UNCHANGED <<retry, callers>> /\ lastAssistant.out # "retryable"
    <3>1. WaitersHavePromise'
      BY <2>2 DEF WaitInv, WaitersHavePromise, Waiting
    <3>2. AnnouncedIsQueued'
      BY <1>3, <2>2 DEF WaitInv, AnnouncedIsQueued
    <3>3. GoodResolves' /\ SleeperAskable'
      BY <1>1, <1>3 DEF GoodResolves, SleeperAskable
    <3>4. CompactsUnpromised' /\ TimerContinues'
      BY <1>1, <1>5, <1>6, <3>1 DEF CompactsUnpromised, TimerContinues, WaitersHavePromise
    <3>. QED
      BY <3>1, <3>2, <3>3, <3>4
  <2>. QED
    BY <1>4, <2>1, <2>2
<1>8. OneRunQueued' /\ AskedAskable' /\ FailureIsLast' /\ UnheardUnpromised'
  BY <1>1, <1>2, <1>3, <1>5 DEF OneRunQueued, AskedAskable, FailureIsLast, UnheardUnpromised
<1>9. SwitchHasAborted'
  BY <1>1, <1>2, <1>3, <1>4, <1>5 DEF SwitchHasAborted, WaitInv
<1>. QED
  BY <1>1, <1>3, <1>4, <1>7, <1>8, <1>9 DEF WaitInv

LEMMA SleepEndsWaits ==
  ASSUME TypeInv, WaitInv, SleepEnds
  PROVE  WaitInv'
<1>1. /\ worker.phase = "sleeping" /\ worker' = [worker EXCEPT !.phase = "free"]
      /\ retry' = [retry EXCEPT !.controller = "none"] /\ timers' = timers + 1
      /\ UNCHANGED <<agent, connected, eventQueue, lastAssistant, callers, jobs, switching, spoiled>>
  BY DEF SleepEnds, agentVars, operations, compaction
<1>2. worker'.phase = "free" /\ worker'.message = worker.message
  BY <1>1 DEF TypeInv, ControlInv
<1>3. /\ RetryTyped' /\ timers' > 0 /\ UNCHANGED <<retry.promise, retry.attempt>>
      /\ (Fresh' <=> Fresh) /\ Ends' = Ends /\ (Waiting' <=> Waiting) /\ (Starting' <=> Starting)
  BY <1>1 DEF WaitInv, RetryTyped, Fresh, Ends, Waiting, Starting
<1>4. EndsFollowAnswers'
  BY <1>1, QueueSame DEF WaitInv
<1>5. WaitersHavePromise' /\ AnnouncedIsQueued' /\ GoodResolves' /\ CompactsUnpromised'
  BY <1>1, <1>2, <1>3 DEF WaitInv, WaitersHavePromise, AnnouncedIsQueued, GoodResolves, CompactsUnpromised
<1>6. OneRunQueued' /\ SwitchHasAborted'
  BY <1>1, <1>2, <1>3 DEF WaitInv, OneRunQueued, SwitchHasAborted
<1>7. AskedAskable' /\ FailureIsLast' /\ UnheardUnpromised' /\ SleeperAskable'
  BY <1>1, <1>2, <1>3 DEF WaitInv, AskedAskable, FailureIsLast, UnheardUnpromised, SleeperAskable
<1>8. TimerContinues' /\ WorkerCompacts'
  BY <1>1, <1>2, <1>3 DEF WaitInv, SleeperAskable, TimerContinues, WorkerCompacts
<1>. QED
  BY <1>3, <1>4, <1>5, <1>6, <1>7, <1>8 DEF WaitInv

LEMMA SleepAbortedWaits ==
  ASSUME TypeInv, WaitInv, SleepAborted
  PROVE  WaitInv'
<1>1. /\ worker.phase = "sleeping"
      /\ retry' = [promise |-> FALSE, attempt |-> 0, controller |-> "none"] /\ callers' = Woken
      /\ Check("worker", worker.message, TRUE, agent.messages, files[current], overflowRecoveryAttempted)
      /\ worker' = [worker EXCEPT !.phase = IF jobs'["worker"].active THEN "compacting" ELSE "free"]
      /\ UNCHANGED <<connected, eventQueue, lastAssistant, timers, switching, spoiled>>
  BY DEF SleepAborted
<1>2. UNCHANGED <<agent.streaming, agent.tool, agent.aborted>>
  BY <1>1, CheckAgent
<1>3. /\ RetryTyped' /\ Released
      /\ (Fresh' <=> Fresh) /\ Ends' = Ends
  BY <1>1 DEF WaitInv, RetryTyped, Fresh, Ends, Waiting, Starting, Woken, Released
<1>4. EndsFollowAnswers'
  BY <1>1, QueueSame DEF WaitInv
<1>5. Fresh => eventQueue = <<>> /\ ~agent.streaming /\ Ends = {} /\ DOMAIN eventQueue = {}
  BY <1>1, QueueTypes DEF WaitInv, OneRunQueued
<1>6. OneRunQueued' /\ AskedAskable' /\ FailureIsLast'
  BY <1>1, <1>2, <1>3, <1>5 DEF OneRunQueued, AskedAskable, FailureIsLast
<1>7. SwitchHasAborted' /\ UnheardUnpromised'
  BY <1>1, <1>2, <1>3, <1>5 DEF WaitInv, SwitchHasAborted, UnheardUnpromised, Released
<1>8. WorkerCompacts'
  BY <1>1 DEF WorkerCompacts, TypeInv, ControlInv
<1>. QED
  BY <1>3, <1>4, <1>6, <1>7, <1>8, ReleasedHolds DEF WaitInv

LEMMA FinishCompactionWaits ==
  ASSUME TypeInv, WaitInv, NEW j \in Jobs, FinishCompaction(j)
  PROVE  WaitInv'
<1>1. /\ Settled
      /\ \/ /\ agent' = [agent EXCEPT !.messages = agent'.messages] /\ spoiled' = Rebuilt
         \/ UNCHANGED <<agent, spoiled>>
      /\ timers' \in {timers, timers + 1}
      /\ jobs[j].active /\ jobs' = [jobs EXCEPT ![j] = NoJob]
      /\ IF j = "worker" THEN worker' = [worker EXCEPT !.phase = "free"] /\ UNCHANGED callers
         ELSE callers' = [callers EXCEPT ![j] = "starting"] /\ UNCHANGED worker
      /\ UNCHANGED <<connected, eventQueue, lastAssistant, retry, switching>>
  <2>1. SaveCompaction(jobs[j]) => agent' = [agent EXCEPT !.messages = agent'.messages]
    BY DEF SaveCompaction, TypeInv, ControlInv, AgentShape
  <2>. QED
    BY <2>1 DEF FinishCompaction
<1>2. UNCHANGED <<agent.streaming, agent.tool, agent.aborted>>
  BY <1>1 DEF TypeInv, ControlInv, AgentShape
<1>3. /\ Fresh' => Fresh
      /\ Fresh' => UNCHANGED agent.messages \/ (~agent.streaming /\ eventQueue = <<>>)
  BY <1>1 DEF Fresh, Rebuilt
<1>4. Fresh => eventQueue = <<>> /\ Ends = {} /\ DOMAIN eventQueue = {} /\ ~Starting
  BY <1>1, SettledEmpty, QueueTypes
<1>5. Ends' = Ends /\ EndsFollowAnswers'
  BY <1>1, QueueSame DEF WaitInv
<1>6. /\ worker'.phase = IF j = "worker" THEN "free" ELSE worker.phase
      /\ worker'.message = worker.message
  BY <1>1 DEF TypeInv, ControlInv
<1>7. /\ RetryTyped'
      /\ j # "worker" => Starting' /\ (Waiting' => Waiting)
      /\ j = "worker" => (Starting' <=> Starting) /\ (Waiting' <=> Waiting)
  <2>1. j # "worker" => j \in Callers
    BY DEF Jobs
  <2>2. timers' \in Nat
    BY <1>1 DEF WaitInv, RetryTyped
  <2>3. callers' \in [Callers -> {"idle", "compacting", "starting", "running", "waitRetry"}]
    BY <1>1 DEF WaitInv, RetryTyped
  <2>4. j # "worker" => callers'[j] = "starting" /\ \A c \in Callers : c # j => callers'[c] = callers[c]
    BY <1>1, <2>1 DEF WaitInv, RetryTyped
  <2>5. j # "worker" => Starting' /\ (Waiting' => Waiting)
    BY <2>1, <2>4 DEF Starting, Waiting
  <2>6. j = "worker" => (Starting' <=> Starting) /\ (Waiting' <=> Waiting)
    BY <1>1 DEF Starting, Waiting
  <2>. QED
    BY <1>1, <2>2, <2>3, <2>5, <2>6 DEF WaitInv, RetryTyped
<1>8. WaitersHavePromise' /\ AnnouncedIsQueued'
  BY <1>1, <1>5, <1>7 DEF WaitInv, WaitersHavePromise, AnnouncedIsQueued
<1>9. OneRunQueued' /\ GoodResolves' /\ FailureIsLast'
  BY <1>1, <1>2, <1>3, <1>4, <1>5, <1>6 DEF WaitInv, OneRunQueued, GoodResolves, FailureIsLast
<1>10. CompactsUnpromised' /\ UnheardUnpromised'
  BY <1>1, <1>3, <1>6 DEF WaitInv, CompactsUnpromised, UnheardUnpromised
<1>11. AskedAskable'
  BY <1>2, <1>3 DEF WaitInv, AskedAskable
<1>12. SwitchHasAborted'
  <2>1. "waiting" = switching.phase => agent.streaming
    BY <1>1 DEF Settled
  <2>. QED
    BY <1>1, <1>2, <1>3, <1>5, <2>1 DEF WaitInv, SwitchHasAborted
<1>13. SleeperAskable' /\ TimerContinues'
  <2>1. CASE j = "worker"
    <3>1. SleeperAskable'
      BY <1>6, <2>1 DEF SleeperAskable
    <3>2. ASSUME Fresh', Waiting', ~agent'.streaming, eventQueue' = <<>>, ~Grave(worker.message)
          PROVE  timers' > 0 /\ (Askable(agent'.messages) \/ Starting')
      <4>1. retry.promise /\ Fresh /\ Waiting
        BY <1>3, <1>7, <2>1, <3>2 DEF WaitInv, WaitersHavePromise
      <4>2. worker.phase = "compacting"
        BY <1>1, <2>1 DEF WaitInv, WorkerCompacts
      <4>. QED
        BY <3>2, <4>1, <4>2 DEF WaitInv, CompactsUnpromised
    <3>. QED
      BY <1>6, <3>1, <3>2 DEF TimerContinues
  <2>2. CASE j # "worker"
    <3>1. timers' \in Nat /\ timers \in Nat /\ timers' >= timers
      BY <1>1 DEF WaitInv, RetryTyped
    <3>. QED
      BY <1>1, <1>2, <1>3, <1>6, <1>7, <2>2, <3>1 DEF WaitInv, SleeperAskable, TimerContinues
  <2>. QED
    BY <2>1, <2>2
<1>14. WorkerCompacts'
  <2>1. "worker" \in Jobs /\ NoJob.active = FALSE
    BY DEF Jobs, NoJob
  <2>2. jobs'["worker"].active => j # "worker" /\ jobs["worker"].active
    BY <1>1, <2>1 DEF TypeInv, ControlInv
  <2>. QED
    BY <1>6, <2>2 DEF WaitInv, WorkerCompacts
<1>. QED
  BY <1>5, <1>7, <1>8, <1>9, <1>10, <1>11, <1>12, <1>13, <1>14 DEF WaitInv

LEMMA FinishManualWaits ==
  ASSUME TypeInv, WaitInv, FinishManual
  PROVE  WaitInv'
<1>1. /\ Settled /\ connected' = TRUE
      /\ \/ /\ agent' = [agent EXCEPT !.messages = agent'.messages]
            /\ spoiled' = Rebuilt \cup Revived
         \/ UNCHANGED <<agent, spoiled>>
      /\ UNCHANGED <<worker, jobs, callers, timers, eventQueue, lastAssistant, retry, switching>>
  <2>1. SaveCompaction(manual.job) => agent' = [agent EXCEPT !.messages = agent'.messages]
    BY DEF SaveCompaction, TypeInv, ControlInv, AgentShape
  <2>. QED
    BY <2>1 DEF FinishManual, handling, retryVars, compaction
<1>2. UNCHANGED <<agent.streaming, agent.tool, agent.aborted>>
  BY <1>1 DEF TypeInv, ControlInv, AgentShape
<1>3. /\ Fresh' => Fresh
      /\ Fresh' => UNCHANGED agent.messages \/ (~agent.streaming /\ eventQueue = <<>> /\ ~retry.promise)
  BY <1>1 DEF Fresh, Rebuilt, Revived
<1>4. Fresh => eventQueue = <<>> /\ Ends = {} /\ DOMAIN eventQueue = {} /\ ~Starting
  BY <1>1, SettledEmpty, QueueTypes
<1>5. /\ Ends' = Ends /\ EndsFollowAnswers' /\ RetryTyped' /\ WorkerCompacts'
      /\ (Waiting' <=> Waiting) /\ (Starting' <=> Starting)
  BY <1>1, QueueSame DEF WaitInv, RetryTyped, WorkerCompacts, Waiting, Starting
<1>6. WaitersHavePromise' /\ AnnouncedIsQueued' /\ UnheardUnpromised'
  BY <1>1, <1>5 DEF WaitInv, WaitersHavePromise, AnnouncedIsQueued, UnheardUnpromised
<1>7. OneRunQueued' /\ GoodResolves' /\ FailureIsLast' /\ CompactsUnpromised'
  BY <1>1, <1>2, <1>3, <1>4, <1>5
     DEF WaitInv, OneRunQueued, GoodResolves, FailureIsLast, CompactsUnpromised
<1>8. AskedAskable' /\ SwitchHasAborted'
  BY <1>1, <1>2, <1>3, <1>4, <1>5 DEF WaitInv, AskedAskable, SwitchHasAborted
<1>9. SleeperAskable' /\ TimerContinues'
  BY <1>1, <1>2, <1>3, <1>5 DEF WaitInv, WaitersHavePromise, SleeperAskable, TimerContinues
<1>. QED
  BY <1>5, <1>6, <1>7, <1>8, <1>9 DEF WaitInv

\* Events that join the queue.
LEMMA EventsJoin ==
  ASSUME TypeInv, NEW m \in Message, NEW two \in BOOLEAN,
         eventQueue' = eventQueue \o IF two THEN <<MessageEvent(m), EndEvent(m)>> ELSE <<MessageEvent(m)>>
  PROVE  LET n == Len(eventQueue)  d == IF two THEN 2 ELSE 1 IN
           /\ n \in Nat /\ DOMAIN eventQueue = 1 .. n
           /\ DOMAIN eventQueue' = 1 .. n + d /\ Len(eventQueue') = n + d /\ eventQueue' # <<>>
           /\ \A k \in 1 .. n : eventQueue'[k] = eventQueue[k]
           /\ eventQueue'[n + 1] = MessageEvent(m) /\ (two => eventQueue'[n + 2] = EndEvent(m))
           /\ Ends' = Ends \cup IF two THEN {n + 2} ELSE {}
           /\ EndsFollowAnswers /\ lastAssistant' = lastAssistant /\ (two => m.role = "assistant")
              => EndsFollowAnswers'
<1>. DEFINE n == Len(eventQueue)
            d == IF two THEN 2 ELSE 1
            b == IF two THEN <<MessageEvent(m), EndEvent(m)>> ELSE <<MessageEvent(m)>>
            T == [type : {"message", "agent_end"}, message : Message]
<1>1. MessageEvent(m) \in T /\ EndEvent(m) \in T
  BY DEF MessageEvent, EndEvent
<1>2. b \in Seq(T) /\ Len(b) = d /\ b[1] = MessageEvent(m) /\ (two => b[2] = EndEvent(m))
  <2>. DEFINE x == MessageEvent(m)
              y == EndEvent(m)
  <2>1. x \in T /\ y \in T
    BY <1>1
  <2>. HIDE DEF T, x, y
  <2>2. /\ <<x, y>> \in Seq(T) /\ Len(<<x, y>>) = 2 /\ <<x, y>>[1] = x /\ <<x, y>>[2] = y
        /\ <<x>> \in Seq(T) /\ Len(<<x>>) = 1 /\ <<x>>[1] = x
    BY <2>1
  <2>3. b = (IF two THEN <<x, y>> ELSE <<x>>)
    BY DEF x, y
  <2>. HIDE DEF b
  <2>4. CASE two
    BY <2>2, <2>3, <2>4 DEF x, y
  <2>5. CASE ~two
    BY <2>2, <2>3, <2>5 DEF x, y
  <2>. QED
    BY <2>4, <2>5
<1>3. eventQueue \in Seq(T)
  <2>1. eventQueue \in Seq(Event(used.ids))
    BY DEF TypeInv, MessagesInv
  <2>2. Event(used.ids) \subseteq T
    BY DEF Event, Said, Known
  <2>. HIDE DEF T
  <2>. QED
    BY <2>1, <2>2, SeqMonotone
<1>4. d \in {1, 2} /\ (two <=> d = 2)
  OBVIOUS
<1>5. eventQueue' = eventQueue \o b
  OBVIOUS
<1>. HIDE DEF b, T, d
<1>6. /\ n \in Nat /\ eventQueue' \in Seq(T) /\ Len(eventQueue') = n + d
      /\ \A k \in 1 .. n : eventQueue'[k] = eventQueue[k]
      /\ \A k \in 1 .. d : eventQueue'[n + k] = b[k]
  BY <1>2, <1>3, <1>5, ConcatKnown
<1>7. DOMAIN eventQueue = 1 .. n /\ DOMAIN eventQueue' = 1 .. n + d
  BY <1>3, <1>6
<1>8. eventQueue' # <<>>
  BY <1>4, <1>6, <1>7
<1>9. eventQueue'[n + 1] = MessageEvent(m) /\ (two => eventQueue'[n + 2] = EndEvent(m))
  BY <1>2, <1>4, <1>6
<1>10. Ends' = Ends \cup IF two THEN {n + 2} ELSE {}
  <2>1. ASSUME NEW k PROVE k \in Ends' <=> k \in Ends \/ (two /\ k = n + 2)
    <3>1. k \in DOMAIN eventQueue' <=> k \in 1 .. n \/ k = n + 1 \/ (two /\ k = n + 2)
      BY <1>4, <1>6, <1>7
    <3>2. k \in 1 .. n => (k \in Ends' <=> k \in Ends) /\ ~(two /\ k = n + 2)
      BY <1>6, <1>7, <3>1 DEF Ends
    <3>3. k = n + 1 => k \notin Ends' /\ k \notin Ends /\ k # n + 2
      BY <1>6, <1>7, <1>9 DEF Ends, MessageEvent
    <3>4. two /\ k = n + 2 => k \in Ends'
      BY <1>9, <3>1 DEF Ends, EndEvent
    <3>5. k \in Ends => k \in 1 .. n
      BY <1>7 DEF Ends
    <3>6. k \in Ends' => k \in DOMAIN eventQueue'
      BY DEF Ends
    <3>. QED
      BY <3>1, <3>2, <3>3, <3>4, <3>5, <3>6
  <2>. QED
    BY <2>1
<1>11. ASSUME EndsFollowAnswers, lastAssistant' = lastAssistant, two => m.role = "assistant"
       PROVE  EndsFollowAnswers'
  <2>1. ASSUME NEW k \in Ends'
        PROVE  /\ eventQueue'[k].message.role = "assistant"
               /\ k = 1 => eventQueue'[k].message = lastAssistant'
               /\ k > 1 => eventQueue'[k - 1] = MessageEvent(eventQueue'[k].message)
    <3>1. CASE k \in Ends
      <4>1. k \in 1 .. n /\ eventQueue'[k] = eventQueue[k]
        BY <1>6, <1>7, <3>1 DEF Ends
      <4>2. k > 1 => eventQueue'[k - 1] = eventQueue[k - 1]
        <5>1. k > 1 => k - 1 \in 1 .. n
          BY <1>6, <4>1
        <5>. QED
          BY <1>6, <5>1
      <4>. QED
        BY <1>11, <3>1, <4>1, <4>2 DEF EndsFollowAnswers
    <3>2. CASE two /\ k = n + 2
      <4>1. eventQueue'[k].message = m /\ k # 1 /\ k - 1 = n + 1
        BY <1>6, <1>9, <3>2 DEF EndEvent
      <4>. QED
        BY <1>9, <1>11, <3>2, <4>1
    <3>. QED
      BY <1>10, <3>1, <3>2
  <2>. QED
    BY <2>1 DEF EndsFollowAnswers
<1>. HIDE DEF n
<1>. QED
  BY <1>6, <1>7, <1>8, <1>9, <1>10, <1>11 DEF n, d

LEMMA AskableAppend ==
  ASSUME NEW T, NEW s \in Seq(T), NEW e \in T
  PROVE  /\ Append(s, e) # <<>> /\ Last(Append(s, e)) = e /\ Front(Append(s, e)) = s
         /\ e.role # "assistant" => Askable(Append(s, e))
<1>. DEFINE a == Append(s, e)
<1>1. /\ a \in Seq(T) /\ Len(s) \in Nat /\ Len(a) = Len(s) + 1
      /\ \A i \in 1 .. Len(s) : a[i] = s[i]
      /\ a[Len(s) + 1] = e
  OBVIOUS
<1>. HIDE DEF a
<1>2. a # <<>>
  BY <1>1
<1>3. Last(a) = e
  BY <1>1 DEF Last
<1>4. /\ Front(a) \in Seq(T) /\ Len(Front(a)) = Len(s)
      /\ \A i \in 1 .. Len(s) : Front(a)[i] = a[i]
  BY <1>1, <1>2, FrontLast
<1>5. Front(a) = s
  BY <1>1, <1>4
<1>. QED
  BY <1>2, <1>3, <1>5 DEF Askable, a

LEMMA AnswerWaits ==
  ASSUME TypeInv, WaitInv, Answer
  PROVE  WaitInv'
<1>1. PICK out \in IF agent.aborted THEN {"aborted"} \cup (Outcomes \cap aborted)
                    ELSE {"ok"} \cup (Outcomes \ aborted) :
        LET m == Msg("assistant", out)  ends == out # "toolUse" IN
          /\ agent' = [streaming |-> ~ends, aborted |-> FALSE, tool |-> IF ends THEN 0 ELSE m.id,
                       messages |-> Append(agent.messages, m)]
          /\ Emit(IF ends THEN <<MessageEvent(m), EndEvent(m)>> ELSE <<MessageEvent(m)>>)
          /\ retry' = [retry EXCEPT !.promise = @ \/ (connected /\ out = "retryable")]
          /\ callers' = IF ends THEN [c \in Callers |-> AfterRun(callers[c])] ELSE callers
  BY DEF Answer
<1>. DEFINE m    == Msg("assistant", out)
            ends == out # "toolUse"
<1>2. /\ Settled /\ agent.streaming /\ agent.tool = 0 /\ spoiled' = Unheard
      /\ UNCHANGED <<connected, worker, lastAssistant, timers, jobs, switching>>
  BY DEF Answer, compaction
<1>3. /\ out \in {"none"} \cup errors \cup measured \cup aborted
      /\ agent.aborted => out \in aborted
  BY AgentSessionAssumption DEF AgentSessionAssumption, measured, aborted
<1>4. /\ m \in Known(used.ids + 1) /\ m.role = "assistant" /\ m.out = out /\ m.id # 0
  <2>1. used.ids \in Nat
    BY DEF TypeInv, ControlInv
  <2>. QED
    BY <1>3, <2>1, MsgKnown DEF TypeInv, Msg
<1>5. ends \in BOOLEAN /\ m \in Message
  BY <1>4 DEF Known
<1>6. /\ agent'.streaming = ~ends /\ agent'.aborted = FALSE /\ agent'.tool = (IF ends THEN 0 ELSE m.id)
      /\ agent'.messages = Append(agent.messages, m)
      /\ retry' = [retry EXCEPT !.promise = @ \/ (connected /\ out = "retryable")]
      /\ callers' = IF ends THEN [c \in Callers |-> AfterRun(callers[c])] ELSE callers
      /\ connected => eventQueue' = eventQueue \o IF ends THEN <<MessageEvent(m), EndEvent(m)>>
                                                          ELSE <<MessageEvent(m)>>
      /\ ~connected => UNCHANGED eventQueue
  BY <1>1 DEF Emit
<1>7. out = "retryable" \/ out \in aborted => ends
  BY DEF aborted
<1>. HIDE DEF m, ends
<1>8. Fresh => eventQueue = <<>> /\ Ends = {} /\ ~Starting /\ worker.phase = "free"
  BY <1>2, SettledEmpty DEF WaitInv, OneRunQueued
<1>9. Fresh' <=> Fresh
  BY <1>2 DEF Fresh, Unheard
<1>10. ASSUME ~connected
       PROVE  UNCHANGED eventQueue /\ Ends' = Ends /\ EndsFollowAnswers'
  BY <1>2, <1>6, <1>10, QueueSame DEF WaitInv
<1>. DEFINE n == Len(eventQueue)
            d == IF ends THEN 2 ELSE 1
<1>11. ASSUME connected
       PROVE  /\ n \in Nat /\ DOMAIN eventQueue = 1 .. n /\ Ends \subseteq 1 .. n
              /\ DOMAIN eventQueue' = 1 .. n + d /\ Len(eventQueue') = n + d /\ eventQueue' # <<>>
              /\ \A k \in Ends : eventQueue'[k] = eventQueue[k]
              /\ ends => eventQueue'[n + 2] = EndEvent(m)
              /\ Ends' = Ends \cup IF ends THEN {n + 2} ELSE {}
              /\ EndsFollowAnswers'
  <2>1. eventQueue' = eventQueue \o IF ends THEN <<MessageEvent(m), EndEvent(m)>>
                                            ELSE <<MessageEvent(m)>>
    BY <1>6, <1>11
  <2>2. /\ n \in Nat /\ DOMAIN eventQueue = 1 .. n
        /\ DOMAIN eventQueue' = 1 .. n + d /\ Len(eventQueue') = n + d /\ eventQueue' # <<>>
        /\ \A k \in 1 .. n : eventQueue'[k] = eventQueue[k]
        /\ ends => eventQueue'[n + 2] = EndEvent(m)
        /\ Ends' = Ends \cup IF ends THEN {n + 2} ELSE {}
        /\ EndsFollowAnswers /\ lastAssistant' = lastAssistant /\ (ends => m.role = "assistant")
           => EndsFollowAnswers'
    BY <1>5, <2>1, EventsJoin
  <2>3. Ends \subseteq 1 .. n
    BY <2>2 DEF Ends
  <2>. QED
    BY <1>2, <1>4, <2>2, <2>3 DEF WaitInv
<1>12. /\ RetryTyped' /\ UNCHANGED retry.attempt
       /\ retry'.promise <=> retry.promise \/ (connected /\ out = "retryable")
  <2>1. /\ retry' \in [promise : BOOLEAN, attempt : Nat, controller : {"none", "armed", "aborted"}]
        /\ UNCHANGED retry.attempt
        /\ retry'.promise <=> retry.promise \/ (connected /\ out = "retryable")
    <3>. DEFINE p == retry.promise \/ (connected /\ out = "retryable")
    <3>1. p \in BOOLEAN /\ retry' = [retry EXCEPT !.promise = p]
      BY <1>6 DEF WaitInv, RetryTyped
    <3>2. p <=> retry.promise \/ (connected /\ out = "retryable")
      OBVIOUS
    <3>. HIDE DEF p
    <3>. QED
      BY <3>1, <3>2 DEF WaitInv, RetryTyped
  <2>2. callers' \in [Callers -> {"idle", "compacting", "starting", "running", "waitRetry"}]
    BY <1>6 DEF WaitInv, RetryTyped, AfterRun
  <2>. QED
    BY <1>2, <2>1, <2>2 DEF WaitInv, RetryTyped
<1>13. /\ Waiting' => Waiting \/ retry'.promise
       /\ Starting' <=> Starting
  <2>1. CASE ends
    <3>1. \A c \in Callers : callers'[c] = AfterRun(callers[c])
      BY <1>6, <2>1
    <3>. QED
      BY <3>1 DEF AfterRun, Waiting, Starting
  <2>2. CASE ~ends
    BY <1>6, <2>2 DEF Waiting, Starting
  <2>. QED
    BY <2>1, <2>2
<1>14. WaitersHavePromise'
  BY <1>12, <1>13 DEF WaitInv, WaitersHavePromise
<1>15. EndsFollowAnswers'
  BY <1>10, <1>11
<1>16. AnnouncedIsQueued'
  <2>. SUFFICES ASSUME retry'.promise, retry.attempt = 0
                PROVE  \E k \in Ends' : eventQueue'[k].message.out = "retryable"
    BY <1>12 DEF AnnouncedIsQueued
  <2>1. CASE retry.promise
    BY <1>10, <1>11, <2>1 DEF WaitInv, AnnouncedIsQueued
  <2>2. CASE ~retry.promise
    <3>1. connected /\ out = "retryable" /\ ends
      BY <1>7, <1>12, <2>2
    <3>2. n + 2 \in Ends' /\ eventQueue'[n + 2].message = m
      BY <1>11, <3>1 DEF EndEvent
    <3>. QED
      BY <1>4, <3>1, <3>2
  <2>. QED
    BY <2>1, <2>2
<1>17. ASSUME Fresh
       PROVE  /\ connected => DOMAIN eventQueue' = 1 .. d /\ Len(eventQueue') = d
              /\ connected => Ends' = IF ends THEN {2} ELSE {}
              /\ connected /\ ends => eventQueue'[2].message = m
              /\ ~connected => Ends' = {} /\ eventQueue' = <<>> /\ DOMAIN eventQueue' = {}
  <2>1. n = 0 /\ Ends = {}
    BY <1>8, <1>17
  <2>2. 0 + d = d /\ 0 + 2 = 2
    OBVIOUS
  <2>3. CASE connected
    BY <1>11, <2>1, <2>2, <2>3 DEF EndEvent
  <2>4. CASE ~connected
    <3>1. eventQueue' = <<>>
      BY <1>8, <1>10, <1>17, <2>4
    <3>. QED
      BY <1>10, <2>1, <2>4, <3>1
  <2>. QED
    BY <2>3, <2>4
<1>18. OneRunQueued' /\ GoodResolves'
  <2>1. ASSUME Fresh, NEW k \in DOMAIN eventQueue'
        PROVE  (k \in Ends') <=> (k = Len(eventQueue') /\ ends)
    BY <1>17, <2>1
  <2>2. OneRunQueued'
    BY <1>2, <1>6, <1>8, <1>9, <2>1 DEF OneRunQueued
  <2>3. Fresh => 1 \notin Ends'
    BY <1>17
  <2>. QED
    BY <1>9, <2>2, <2>3 DEF GoodResolves
<1>19. CompactsUnpromised' /\ SleeperAskable' /\ WorkerCompacts'
  <2>1. Fresh' => worker'.phase = "free"
    BY <1>2, <1>8, <1>9
  <2>. QED
    BY <1>2, <2>1 DEF WaitInv, CompactsUnpromised, SleeperAskable, WorkerCompacts
<1>20. SwitchHasAborted'
  <2>. SUFFICES ASSUME Fresh, switching.phase = "waiting"
                PROVE  /\ ~retry'.promise
                       /\ agent'.streaming => agent'.aborted
                       /\ ~agent'.streaming => ~Starting'
                       /\ \A k \in Ends' : eventQueue'[k].message.out # "retryable"
    BY <1>2, <1>9 DEF SwitchHasAborted
  <2>1. ~retry.promise /\ agent.aborted
    BY <1>2 DEF WaitInv, SwitchHasAborted
  <2>2. out \in aborted /\ out # "retryable" /\ ends
    BY <1>3, <1>7, <2>1 DEF aborted
  <2>3. \A k \in Ends' : eventQueue'[k].message = m
    BY <1>17
  <2>. QED
    BY <1>4, <1>6, <1>8, <1>12, <1>13, <2>1, <2>2, <2>3
<1>21. AskedAskable'
  BY <1>4, <1>6 DEF AskedAskable
<1>22. FailureIsLast'
  <2>. SUFFICES ASSUME Fresh
                PROVE  /\ agent'.messages # <<>> /\ Last(agent'.messages).role = "assistant"
                       /\ Askable(Front(agent'.messages))
                       /\ \A k \in Ends' : Last(agent'.messages) = eventQueue'[k].message
    BY <1>9 DEF FailureIsLast
  <2>1. Askable(agent.messages)
    BY <1>2 DEF WaitInv, AskedAskable
  <2>2. agent.messages \in Seq(Known(used.ids + 1))
    BY KnownGrows, SeqMonotone DEF TypeInv, ControlInv, MessagesInv
  <2>. HIDE DEF Answer
  <2>3. /\ agent'.messages # <<>> /\ Last(agent'.messages) = m /\ Front(agent'.messages) = agent.messages
    BY <1>4, <1>6, <2>2, AskableAppend
  <2>4. \A k \in Ends' : eventQueue'[k].message = m
    BY <1>17
  <2>. QED
    BY <1>4, <2>1, <2>3, <2>4
<1>23. UnheardUnpromised'
  BY <1>2, <1>9, <1>10, <1>12 DEF WaitInv, UnheardUnpromised
<1>24. TimerContinues'
  <2>1. Fresh' /\ eventQueue' = <<>> => ~retry'.promise
    BY <1>9, <1>11, <1>12 DEF WaitInv, UnheardUnpromised
  <2>. QED
    BY <1>14, <2>1 DEF TimerContinues, WaitersHavePromise
<1>. QED
  BY <1>12, <1>14, <1>15, <1>16, <1>18, <1>19, <1>20, <1>21, <1>22, <1>23, <1>24 DEF WaitInv

LEMMA ToolResultWaits ==
  ASSUME TypeInv, WaitInv, ToolResult
  PROVE  WaitInv'
<1>. DEFINE r == Msg("toolResult", "none")
            m == [r EXCEPT !.call = agent.tool]
            n == Len(eventQueue)
<1>1. /\ Settled /\ agent.tool # 0 /\ spoiled' = Unheard
      /\ agent' = [agent EXCEPT !.tool = 0, !.messages = Append(@, m)]
      /\ Emit(<<MessageEvent(m)>>)
      /\ UNCHANGED <<connected, worker, lastAssistant, retry, timers, jobs, callers, switching>>
  BY DEF ToolResult, retryVars, compaction, operations
<1>2. m \in Known(used.ids + 1) /\ m.role = "toolResult"
  <2>1. r \in Known(used.ids + 1) /\ r.role = "toolResult"
    BY MsgKnown DEF TypeInv
  <2>2. used.ids \in Nat /\ agent.tool \in 0 .. used.ids
    BY DEF TypeInv, ControlInv, MessagesInv
  <2>3. agent.tool \in 0 .. used.ids + 1 /\ agent.tool \in Nat
    BY <2>2
  <2>. HIDE DEF r
  <2>. QED
    BY <2>1, <2>3 DEF Known, Message
<1>3. m \in Message
  BY <1>2 DEF Known
<1>4. /\ agent.streaming /\ agent'.tool = 0 /\ agent'.messages = Append(agent.messages, m)
      /\ UNCHANGED <<agent.streaming, agent.aborted>>
  BY <1>1 DEF TypeInv, ControlInv, AgentShape, MessagesInv
<1>5. /\ connected => eventQueue' = eventQueue \o <<MessageEvent(m)>>
      /\ ~connected => UNCHANGED eventQueue
  BY <1>1 DEF Emit
<1>. HIDE DEF m, r
<1>6. Fresh => eventQueue = <<>> /\ Ends = {} /\ ~Starting /\ worker.phase = "free"
  BY <1>1, <1>4, SettledEmpty DEF WaitInv, OneRunQueued
<1>7. (Fresh' <=> Fresh) /\ (Waiting' <=> Waiting) /\ (Starting' <=> Starting) /\ RetryTyped'
  BY <1>1 DEF WaitInv, Fresh, Unheard, Waiting, Starting, RetryTyped
<1>8. ASSUME connected
      PROVE  /\ n \in Nat /\ DOMAIN eventQueue = 1 .. n
             /\ DOMAIN eventQueue' = 1 .. n + 1 /\ eventQueue' # <<>>
             /\ \A k \in 1 .. n : eventQueue'[k] = eventQueue[k]
             /\ Ends' = Ends /\ EndsFollowAnswers'
  <2>1. eventQueue' = eventQueue \o IF FALSE THEN <<MessageEvent(m), EndEvent(m)>>
                                             ELSE <<MessageEvent(m)>>
    BY <1>5, <1>8
  <2>. QED
    BY <1>1, <1>3, <2>1, EventsJoin DEF WaitInv
<1>9. Ends' = Ends /\ EndsFollowAnswers' /\ \A k \in Ends : eventQueue'[k] = eventQueue[k]
  <2>1. CASE connected
    <3>1. Ends \subseteq 1 .. n
      BY <1>8, <2>1 DEF Ends
    <3>. QED
      BY <1>8, <2>1, <3>1
  <2>2. CASE ~connected
    BY <1>1, <1>5, <2>2, QueueSame DEF WaitInv
  <2>. QED
    BY <2>1, <2>2
<1>10. WaitersHavePromise' /\ AnnouncedIsQueued'
  BY <1>1, <1>7, <1>9 DEF WaitInv, WaitersHavePromise, AnnouncedIsQueued
<1>11. OneRunQueued' /\ GoodResolves' /\ FailureIsLast'
  BY <1>1, <1>4, <1>6, <1>7, <1>9 DEF OneRunQueued, GoodResolves, FailureIsLast
<1>12. CompactsUnpromised' /\ SleeperAskable' /\ WorkerCompacts' /\ TimerContinues'
  BY <1>1, <1>4, <1>6, <1>7 DEF WaitInv, CompactsUnpromised, SleeperAskable, WorkerCompacts, TimerContinues
<1>13. SwitchHasAborted'
  BY <1>1, <1>4, <1>7, <1>9 DEF WaitInv, SwitchHasAborted
<1>14. AskedAskable'
  <2>1. agent.messages \in Seq(Known(used.ids + 1))
    BY KnownGrows, SeqMonotone DEF TypeInv, ControlInv, MessagesInv
  <2>2. Askable(agent'.messages)
    BY <1>2, <1>4, <2>1, AskableAppend
  <2>. QED
    BY <2>2 DEF AskedAskable
<1>15. UnheardUnpromised'
  BY <1>1, <1>5, <1>7 DEF WaitInv, UnheardUnpromised
<1>. QED
  BY <1>7, <1>9, <1>10, <1>11, <1>12, <1>13, <1>14, <1>15 DEF WaitInv

LEMMA ContinueTimerWaits ==
  ASSUME TypeInv, WaitInv, ContinueTimer
  PROVE  WaitInv'
<1>. DEFINE barred == agent.streaming \/ agent.messages = <<>> \/ LastIs(agent.messages, "assistant")
<1>1. /\ Settled /\ timers > 0 /\ timers' = timers - 1
      /\ IF barred THEN UNCHANGED <<agent, spoiled>> ELSE StartRun(agent.messages)
      /\ UNCHANGED <<connected, eventQueue, worker, lastAssistant, retry, jobs, callers, switching>>
  BY DEF ContinueTimer, handling, compaction, operations
<1>2. ~Starting
  BY <1>1 DEF Settled, Starting
<1>3. /\ RetryTyped' /\ WorkerCompacts' /\ Ends' = Ends /\ EndsFollowAnswers'
      /\ (Waiting' <=> Waiting) /\ (Starting' <=> Starting)
  BY <1>1, QueueSame DEF WaitInv, RetryTyped, WorkerCompacts, Waiting, Starting
<1>4. WaitersHavePromise' /\ AnnouncedIsQueued'
  BY <1>1, <1>3 DEF WaitInv, WaitersHavePromise, AnnouncedIsQueued
<1>5. CASE barred
  <2>1. UNCHANGED <<agent, spoiled>> /\ (Fresh' <=> Fresh)
    BY <1>1, <1>5 DEF Fresh
  <2>2. OneRunQueued' /\ GoodResolves' /\ CompactsUnpromised' /\ SwitchHasAborted'
    BY <1>1, <1>3, <2>1 DEF WaitInv, OneRunQueued, GoodResolves, CompactsUnpromised, SwitchHasAborted
  <2>3. AskedAskable' /\ FailureIsLast' /\ SleeperAskable' /\ UnheardUnpromised'
    BY <1>1, <1>3, <2>1 DEF WaitInv, AskedAskable, FailureIsLast, SleeperAskable, UnheardUnpromised
  <2>4. TimerContinues'
    <3>1. agent.streaming \/ ~Askable(agent.messages)
      BY <1>5 DEF Askable, LastIs
    <3>. QED
      BY <1>1, <1>2, <1>3, <2>1, <3>1 DEF WaitInv, TimerContinues
  <2>. QED
    BY <1>3, <1>4, <2>2, <2>3, <2>4 DEF WaitInv
<1>6. CASE ~barred
  <2>1. /\ agent'.streaming = TRUE /\ agent'.aborted = FALSE
        /\ agent'.tool = 0 /\ agent'.messages = agent.messages
        /\ spoiled' = Unheard \cup IF eventQueue = <<>> /\ worker.phase = "free" THEN {} ELSE {"late"}
    BY <1>1, <1>6 DEF StartRun
  <2>2. Fresh' => Fresh /\ eventQueue = <<>> /\ worker.phase = "free"
    BY <2>1 DEF Fresh, Unheard
  <2>3. Askable(agent.messages) /\ ~agent.streaming
    BY <1>6 DEF Askable, LastIs
  <2>4. Ends = {} \/ ~Fresh'
    BY <2>2 DEF Ends
  <2>5. OneRunQueued' /\ GoodResolves' /\ FailureIsLast'
    <3>1. Fresh' => DOMAIN eventQueue' = {}
      BY <1>1, <2>2
    <3>. QED
      BY <1>1, <1>3, <2>2, <2>4, <3>1 DEF OneRunQueued, GoodResolves, FailureIsLast
  <2>6. CompactsUnpromised' /\ SleeperAskable' /\ TimerContinues'
    BY <1>1, <2>1, <2>2 DEF CompactsUnpromised, SleeperAskable, TimerContinues
  <2>7. SwitchHasAborted'
    <3>1. switching.phase # "waiting"
      BY <1>1, <2>3 DEF Settled
    <3>. QED
      BY <1>1, <3>1 DEF SwitchHasAborted
  <2>8. AskedAskable'
    BY <2>1, <2>3 DEF AskedAskable
  <2>9. UnheardUnpromised'
    BY <1>1, <2>2 DEF WaitInv, UnheardUnpromised
  <2>. QED
    BY <1>3, <1>4, <2>5, <2>6, <2>7, <2>8, <2>9 DEF WaitInv
<1>. QED
  BY <1>5, <1>6

LEMMA AskableJoined ==
  ASSUME NEW T, NEW a \in Seq(T), NEW b \in Seq(T), Askable(a),
         \A i \in 1 .. Len(b) : b[i].role # "assistant"
  PROVE  Askable(a \o b) /\ DropAssistant(a \o b) = a \o b
<1>. DEFINE s == a \o b
<1>1. /\ s \in Seq(T) /\ Len(s) = Len(a) + Len(b) /\ Len(a) \in Nat /\ Len(b) \in Nat
      /\ \A i \in 1 .. Len(a) : s[i] = a[i]
      /\ \A i \in 1 .. Len(b) : s[Len(a) + i] = b[i]
  BY ConcatKnown
<1>2. a # <<>> /\ a[Len(a)].role # "assistant"
  BY DEF Askable, Last
<1>3. Len(a) > 0
  BY <1>2
<1>. HIDE DEF s
<1>4. s # <<>> /\ s[Len(s)].role # "assistant"
  BY <1>1, <1>2, <1>3
<1>. QED
  BY <1>4 DEF s, Askable, Last, DropAssistant, LastIs

LEMMA PromptWaits ==
  ASSUME TypeInv, WaitInv, NEW c \in Callers, Prompt(c)
  PROVE  WaitInv'
<1>. DEFINE msgs == agent.messages \o pendingBash
            file == files[current] \o [i \in DOMAIN pendingBash |-> Stored(pendingBash[i])]
            at   == SelectLastInSeq(msgs, LAMBDA x : x.role = "assistant")
<1>1. /\ Settled /\ callers[c] = "idle" /\ ~agent.streaming
      /\ IF at # 0 THEN Check(c, msgs[at], FALSE, msgs, file, overflowRecoveryAttempted)
         ELSE agent' = [agent EXCEPT !.messages = msgs] /\ UNCHANGED compaction
      /\ callers' = [callers EXCEPT ![c] = IF jobs'[c].active THEN "compacting" ELSE "starting"]
      /\ UNCHANGED <<connected, eventQueue, worker, lastAssistant, retry, timers, switching, spoiled>>
  BY DEF Prompt, handling, retryVars
<1>2. /\ UNCHANGED <<agent.streaming, agent.aborted, agent.tool>>
      /\ agent'.messages \in {msgs, DropAssistant(msgs)}
  <2>1. CASE at # 0
    <3>1. Check(c, msgs[at], FALSE, msgs, file, overflowRecoveryAttempted)
      BY <1>1, <2>1
    <3>. HIDE DEF msgs, file, at
    <3>. QED
      BY <3>1, CheckAgent
  <2>2. CASE at = 0
    BY <1>1, <2>2 DEF TypeInv, ControlInv, AgentShape
  <2>. QED
    BY <2>1, <2>2
<1>3. UNCHANGED jobs["worker"]
  <2>1. c # "worker" /\ c \in Jobs /\ "worker" \in Jobs
    BY AgentSessionAssumption DEF AgentSessionAssumption, Jobs
  <2>2. jobs' = jobs \/ \E p : jobs' = [jobs EXCEPT ![c] = p]
    BY <1>1 DEF Check, compaction
  <2>. QED
    BY <2>1, <2>2 DEF TypeInv, ControlInv
<1>4. /\ RetryTyped' /\ WorkerCompacts' /\ Ends' = Ends /\ EndsFollowAnswers'
      /\ (Waiting' => Waiting) /\ ~Starting /\ (Fresh' <=> Fresh)
  <2>1. /\ callers' \in [Callers -> {"idle", "compacting", "starting", "running", "waitRetry"}]
        /\ Waiting' => Waiting
    BY <1>1 DEF WaitInv, RetryTyped, Waiting
  <2>. QED
    BY <1>1, <1>3, <2>1, QueueSame
       DEF WaitInv, RetryTyped, WorkerCompacts, Settled, Starting, Fresh
<1>5. Askable(agent.messages) => Askable(agent'.messages)
  <2>1. /\ agent.messages \in Seq(Known(used.ids)) /\ pendingBash \in Seq(Bash(used.ids))
        /\ Bash(used.ids) \subseteq Known(used.ids)
    BY DEF TypeInv, MessagesInv, Bash
  <2>2. pendingBash \in Seq(Known(used.ids)) /\ \A i \in 1 .. Len(pendingBash) : pendingBash[i].role # "assistant"
    BY <2>1, SeqMonotone DEF Bash
  <2>. QED
    BY <1>2, <2>1, <2>2, AskableJoined
<1>. HIDE DEF msgs, file, at
<1>6. Fresh => eventQueue = <<>> /\ Ends = {} /\ DOMAIN eventQueue = {}
  BY <1>1, SettledEmpty, QueueTypes
<1>7. WaitersHavePromise' /\ AnnouncedIsQueued' /\ UnheardUnpromised'
  BY <1>1, <1>4 DEF WaitInv, WaitersHavePromise, AnnouncedIsQueued, UnheardUnpromised
<1>8. OneRunQueued' /\ GoodResolves' /\ CompactsUnpromised'
  BY <1>1, <1>2, <1>4, <1>6 DEF WaitInv, OneRunQueued, GoodResolves, CompactsUnpromised
<1>9. SwitchHasAborted' /\ AskedAskable' /\ FailureIsLast'
  BY <1>1, <1>2, <1>4, <1>6 DEF Settled, SwitchHasAborted, AskedAskable, FailureIsLast
<1>10. SleeperAskable' /\ TimerContinues'
  BY <1>1, <1>2, <1>4, <1>5 DEF WaitInv, SleeperAskable, TimerContinues
<1>. QED
  BY <1>4, <1>7, <1>8, <1>9, <1>10 DEF WaitInv

LEMMA StartPromptWaits ==
  ASSUME TypeInv, WaitInv, NEW c \in Callers, StartPrompt(c)
  PROVE  WaitInv'
<1>. DEFINE m == Msg("user", "none")
<1>1. /\ callers[c] = "starting"
      /\ IF agent.streaming
         THEN callers' = [callers EXCEPT ![c] = "idle"] /\ UNCHANGED <<agent, eventQueue, spoiled>>
         ELSE /\ StartRun(Append(agent.messages, m))
              /\ Emit(<<MessageEvent(m)>>)
              /\ callers' = [callers EXCEPT ![c] = "running"]
      /\ UNCHANGED <<connected, worker, lastAssistant, retry, timers, jobs, switching>>
  BY DEF StartPrompt, retryVars, compaction
<1>2. Starting
  BY <1>1 DEF Starting
<1>3. m \in Known(used.ids + 1) /\ m.role = "user"
  BY MsgKnown DEF TypeInv
<1>4. m \in Message
  BY <1>3 DEF Known
<1>. HIDE DEF m
<1>5. RetryTyped' /\ WorkerCompacts' /\ (Waiting' => Waiting) /\ (Starting' => Starting)
  <2>1. callers' = [callers EXCEPT ![c] = "idle"] \/ callers' = [callers EXCEPT ![c] = "running"]
    BY <1>1
  <2>2. /\ callers' \in [Callers -> {"idle", "compacting", "starting", "running", "waitRetry"}]
        /\ Waiting' => Waiting
    BY <2>1 DEF WaitInv, RetryTyped, Waiting
  <2>. QED
    BY <1>1, <1>2, <2>2 DEF WaitInv, RetryTyped, WorkerCompacts
<1>6. CASE agent.streaming
  <2>1. UNCHANGED <<agent, eventQueue, lastAssistant>> /\ (Fresh' <=> Fresh)
    BY <1>1, <1>6 DEF Fresh
  <2>2. Ends' = Ends /\ EndsFollowAnswers'
    BY <2>1, QueueSame DEF WaitInv
  <2>3. WaitersHavePromise' /\ AnnouncedIsQueued' /\ OneRunQueued' /\ GoodResolves' /\ CompactsUnpromised'
    BY <1>1, <1>5, <2>1, <2>2
       DEF WaitInv, WaitersHavePromise, AnnouncedIsQueued, OneRunQueued, GoodResolves, CompactsUnpromised
  <2>4. SwitchHasAborted' /\ AskedAskable' /\ FailureIsLast' /\ UnheardUnpromised'
    BY <1>1, <1>6, <2>1, <2>2
       DEF WaitInv, SwitchHasAborted, AskedAskable, FailureIsLast, UnheardUnpromised
  <2>5. SleeperAskable' /\ TimerContinues'
    <3>1. Fresh => worker.phase # "sleeping"
      BY <1>6 DEF WaitInv, OneRunQueued
    <3>. QED
      BY <1>1, <1>6, <2>1, <3>1 DEF SleeperAskable, TimerContinues
  <2>. QED
    BY <1>5, <2>2, <2>3, <2>4, <2>5 DEF WaitInv
<1>7. CASE ~agent.streaming
  <2>1. /\ agent'.streaming = TRUE /\ agent'.aborted = FALSE
        /\ agent'.tool = 0 /\ agent'.messages = Append(agent.messages, m)
        /\ spoiled' = Unheard \cup IF eventQueue = <<>> /\ worker.phase = "free" THEN {} ELSE {"late"}
        /\ connected => eventQueue' = eventQueue \o <<MessageEvent(m)>>
        /\ ~connected => UNCHANGED eventQueue
    BY <1>1, <1>7 DEF StartRun, Emit
  <2>2. Fresh' => Fresh /\ eventQueue = <<>> /\ worker.phase = "free"
    BY <2>1 DEF Fresh, Unheard
  <2>. DEFINE n == Len(eventQueue)
  <2>3. ASSUME connected
        PROVE  /\ n \in Nat /\ DOMAIN eventQueue = 1 .. n
               /\ \A k \in 1 .. n : eventQueue'[k] = eventQueue[k]
               /\ Ends' = Ends /\ EndsFollowAnswers'
    <3>1. eventQueue' = eventQueue \o IF FALSE THEN <<MessageEvent(m), EndEvent(m)>>
                                               ELSE <<MessageEvent(m)>>
      BY <2>1, <2>3
    <3>. QED
      BY <1>1, <1>4, <3>1, EventsJoin DEF WaitInv
  <2>4. Ends' = Ends /\ EndsFollowAnswers' /\ \A k \in Ends : eventQueue'[k] = eventQueue[k]
    <3>1. CASE connected
      <4>1. Ends \subseteq 1 .. n
        BY <2>3, <3>1 DEF Ends
      <4>. QED
        BY <2>3, <3>1, <4>1
    <3>2. CASE ~connected
      BY <1>1, <2>1, <3>2, QueueSame DEF WaitInv
    <3>. QED
      BY <3>1, <3>2
  <2>5. Fresh' => Ends = {}
    BY <2>2 DEF Ends
  <2>6. WaitersHavePromise' /\ AnnouncedIsQueued'
    BY <1>1, <1>5, <2>4 DEF WaitInv, WaitersHavePromise, AnnouncedIsQueued
  <2>7. OneRunQueued' /\ GoodResolves' /\ FailureIsLast'
    BY <1>1, <2>1, <2>2, <2>4, <2>5 DEF OneRunQueued, GoodResolves, FailureIsLast
  <2>8. CompactsUnpromised' /\ SleeperAskable' /\ TimerContinues'
    BY <1>1, <2>1, <2>2 DEF CompactsUnpromised, SleeperAskable, TimerContinues
  <2>9. SwitchHasAborted'
    BY <1>1, <1>2, <1>7, <2>2 DEF WaitInv, SwitchHasAborted
  <2>10. AskedAskable'
    <3>1. agent.messages \in Seq(Known(used.ids + 1))
      BY KnownGrows, SeqMonotone DEF TypeInv, ControlInv, MessagesInv
    <3>2. Askable(agent'.messages)
      BY <1>3, <2>1, <3>1, AskableAppend
    <3>. QED
      BY <3>2 DEF AskedAskable
  <2>11. UnheardUnpromised'
    BY <1>1, <2>1, <2>2 DEF WaitInv, UnheardUnpromised
  <2>. QED
    BY <1>5, <2>4, <2>6, <2>7, <2>8, <2>9, <2>10, <2>11 DEF WaitInv
<1>. QED
  BY <1>6, <1>7

\* abort(), and the beginning of compact() and switchSession().
LEMMA AbortedWaits ==
  ASSUME TypeInv, WaitInv, Settled, AbortRetry, AbortRun,
         connected' \in {connected, FALSE}, switching'.phase \in {switching.phase, "waiting"},
         UNCHANGED <<eventQueue, worker, lastAssistant, timers, jobs, spoiled>>
  PROVE  WaitInv'
<1>1. /\ UNCHANGED <<agent.streaming, agent.tool, agent.messages>>
      /\ agent'.aborted = agent.streaming
  BY DEF AbortRun, TypeInv, ControlInv, AgentShape
<1>2. /\ RetryTyped' /\ Released
      /\ WorkerCompacts' /\ (Fresh' <=> Fresh) /\ Ends' = Ends /\ EndsFollowAnswers'
  BY ReleasedBy, QueueSame DEF WaitInv, RetryTyped, WorkerCompacts, Fresh
<1>3. Fresh => eventQueue = <<>> /\ Ends = {} /\ DOMAIN eventQueue = {} /\ ~Starting
  BY SettledEmpty, QueueTypes
<1>4. OneRunQueued' /\ AskedAskable' /\ FailureIsLast'
  BY <1>1, <1>2, <1>3 DEF WaitInv, OneRunQueued, AskedAskable, FailureIsLast
<1>5. SwitchHasAborted' /\ UnheardUnpromised'
  BY <1>1, <1>2, <1>3 DEF Released, SwitchHasAborted, UnheardUnpromised
<1>. QED
  BY <1>2, <1>4, <1>5, ReleasedHolds DEF WaitInv

\* Steps that leave alone what waiting depends on.
LEMMA UnchangedWaits ==
  ASSUME WaitInv, connected' \in {connected, TRUE},
         UNCHANGED <<agent, eventQueue, worker, lastAssistant, retry, timers, jobs, callers,
                     switching, spoiled>>
  PROVE  WaitInv'
<1>1. /\ RetryTyped' /\ WorkerCompacts' /\ (Fresh' <=> Fresh) /\ Ends' = Ends /\ EndsFollowAnswers'
      /\ (Waiting' <=> Waiting) /\ (Starting' <=> Starting)
  BY QueueSame DEF WaitInv, RetryTyped, WorkerCompacts, Fresh, Waiting, Starting
<1>2. WaitersHavePromise' /\ AnnouncedIsQueued' /\ OneRunQueued' /\ GoodResolves' /\ CompactsUnpromised'
  BY <1>1 DEF WaitInv, WaitersHavePromise, AnnouncedIsQueued, OneRunQueued, GoodResolves, CompactsUnpromised
<1>3. SwitchHasAborted' /\ AskedAskable' /\ FailureIsLast'
  BY <1>1 DEF WaitInv, SwitchHasAborted, AskedAskable, FailureIsLast
<1>4. SleeperAskable' /\ UnheardUnpromised' /\ TimerContinues'
  BY <1>1 DEF WaitInv, SleeperAskable, UnheardUnpromised, TimerContinues
<1>. QED
  BY <1>1, <1>2, <1>3, <1>4 DEF WaitInv

LEMMA RecordBashWaits ==
  ASSUME TypeInv, WaitInv, RecordBash
  PROVE  WaitInv'
<1>. DEFINE m == Msg("bash", "none")
<1>1. /\ Settled
      /\ \/ UNCHANGED agent
         \/ ~agent.streaming /\ agent' = [agent EXCEPT !.messages = Append(@, m)]
      /\ UNCHANGED <<connected, eventQueue, worker, lastAssistant, retry, timers, jobs, callers,
                     switching, spoiled>>
  BY DEF RecordBash, Defer, handling, retryVars, compaction, operations
<1>2. CASE UNCHANGED agent
  BY <1>1, <1>2, UnchangedWaits
<1>3. CASE ~agent.streaming /\ agent' = [agent EXCEPT !.messages = Append(@, m)]
  <2>1. m \in Known(used.ids + 1) /\ m.role = "bash"
    BY MsgKnown DEF TypeInv
  <2>. HIDE DEF m
  <2>2. /\ UNCHANGED <<agent.streaming, agent.tool, agent.aborted>>
        /\ agent'.messages = Append(agent.messages, m)
    BY <1>3 DEF TypeInv, ControlInv, AgentShape
  <2>3. agent.messages \in Seq(Known(used.ids + 1))
    BY KnownGrows, SeqMonotone DEF TypeInv, ControlInv, MessagesInv
  <2>4. Askable(agent'.messages)
    BY <2>1, <2>2, <2>3, AskableAppend
  <2>5. /\ RetryTyped' /\ WorkerCompacts' /\ (Fresh' <=> Fresh) /\ Ends' = Ends /\ EndsFollowAnswers'
        /\ (Waiting' <=> Waiting) /\ (Starting' <=> Starting)
    BY <1>1, QueueSame DEF WaitInv, RetryTyped, WorkerCompacts, Fresh, Waiting, Starting
  <2>6. Fresh => eventQueue = <<>> /\ Ends = {}
    BY <1>1, SettledEmpty
  <2>7. WaitersHavePromise' /\ AnnouncedIsQueued' /\ OneRunQueued' /\ GoodResolves' /\ CompactsUnpromised'
    BY <1>1, <2>2, <2>5
       DEF WaitInv, WaitersHavePromise, AnnouncedIsQueued, OneRunQueued, GoodResolves, CompactsUnpromised
  <2>8. SwitchHasAborted' /\ AskedAskable' /\ FailureIsLast' /\ SleeperAskable' /\ UnheardUnpromised'
    BY <1>1, <2>2, <2>4, <2>5, <2>6
       DEF WaitInv, SwitchHasAborted, AskedAskable, FailureIsLast, SleeperAskable, UnheardUnpromised
  <2>9. TimerContinues'
    BY <1>1, <2>2, <2>4, <2>5 DEF WaitInv, TimerContinues
  <2>. QED
    BY <2>5, <2>7, <2>8, <2>9 DEF WaitInv
<1>. QED
  BY <1>1, <1>2, <1>3

LEMMA OpenSessionWaits ==
  ASSUME TypeInv, WaitInv, OpenSession
  PROVE  WaitInv'
<1>1. /\ switching.phase = "waiting" /\ ~agent.streaming
      /\ agent' = [agent EXCEPT !.messages = agent'.messages]
      /\ connected' = TRUE /\ switching' = NotSwitching /\ spoiled' = Rebuilt
      /\ UNCHANGED <<eventQueue, worker, lastAssistant, retry, timers, jobs, callers>>
  <2>1. agent' = [agent EXCEPT !.messages = agent'.messages]
    BY DEF OpenSession, TypeInv, ControlInv, AgentShape
  <2>. QED
    BY <2>1 DEF OpenSession, handling, retryVars, compaction
<1>2. UNCHANGED <<agent.streaming, agent.tool, agent.aborted>> /\ switching'.phase = "none"
  BY <1>1 DEF TypeInv, ControlInv, AgentShape, NotSwitching
<1>3. Fresh' => Fresh /\ eventQueue = <<>> /\ ~retry.promise
  BY <1>1 DEF WaitInv, Fresh, Rebuilt, SwitchHasAborted
<1>4. /\ RetryTyped' /\ WorkerCompacts' /\ Ends' = Ends /\ EndsFollowAnswers'
      /\ (Waiting' <=> Waiting) /\ (Starting' <=> Starting)
  BY <1>1, QueueSame DEF WaitInv, RetryTyped, WorkerCompacts, Waiting, Starting
<1>5. Fresh' => Ends = {} /\ DOMAIN eventQueue = {}
  BY <1>3, QueueTypes
<1>6. WaitersHavePromise' /\ AnnouncedIsQueued' /\ UnheardUnpromised'
  BY <1>1, <1>4 DEF WaitInv, WaitersHavePromise, AnnouncedIsQueued, UnheardUnpromised
<1>7. OneRunQueued' /\ GoodResolves' /\ FailureIsLast' /\ AskedAskable' /\ SwitchHasAborted'
  BY <1>1, <1>2, <1>3, <1>4, <1>5
     DEF OneRunQueued, GoodResolves, FailureIsLast, AskedAskable, SwitchHasAborted
<1>8. CompactsUnpromised' /\ SleeperAskable' /\ TimerContinues'
  <2>1. Fresh' => ~retry'.promise /\ ~Waiting'
    BY <1>1, <1>3, <1>6 DEF WaitersHavePromise
  <2>. QED
    BY <2>1 DEF CompactsUnpromised, SleeperAskable, TimerContinues
<1>. QED
  BY <1>4, <1>6, <1>7, <1>8 DEF WaitInv

LEMMA ActWaits ==
  ASSUME TypeInv, WaitInv, Abort \/ AbortCompaction \/ Compact \/ PrepareManual \/ SwitchSession
  PROVE  WaitInv'
<1>1. CASE Abort \/ Compact \/ SwitchSession
  <2>1. /\ Settled /\ AbortRetry /\ AbortRun /\ connected' \in {connected, FALSE}
        /\ switching'.phase \in {switching.phase, "waiting"}
        /\ UNCHANGED <<eventQueue, worker, lastAssistant, timers, jobs, spoiled>>
    <3>1. CASE Abort
      BY <3>1 DEF Abort, Act, handling, compaction
    <3>2. CASE Compact
      BY <3>2 DEF Compact, Act, handling, compaction
    <3>3. CASE SwitchSession
      <4>1. PICK s \in Sessions : switching' = [phase |-> "waiting", target |-> s]
        BY <3>3 DEF SwitchSession
      <4>2. switching'.phase = "waiting"
        BY <4>1
      <4>. QED
        BY <3>3, <4>2 DEF SwitchSession, Act, handling, compaction
    <3>. QED
      BY <1>1, <3>1, <3>2, <3>3
  <2>. QED
    BY <2>1, AbortedWaits
<1>2. CASE AbortCompaction \/ PrepareManual
  <2>1. /\ connected' \in {connected, TRUE}
        /\ UNCHANGED <<agent, eventQueue, worker, lastAssistant, retry, timers, jobs, callers,
                       switching, spoiled>>
    <3>1. CASE AbortCompaction
      BY <3>1 DEF AbortCompaction, agentVars, handling, retryVars
    <3>2. CASE PrepareManual
      BY <3>2 DEF PrepareManual, handling, retryVars, compaction
    <3>. QED
      BY <1>2, <3>1, <3>2
  <2>. QED
    BY <2>1, UnchangedWaits
<1>. QED
  BY <1>1, <1>2

LEMMA InitWaits ==
  ASSUME Init
  PROVE  WaitInv
<1>1. /\ retry = [promise |-> FALSE, attempt |-> 0, controller |-> "none"] /\ timers = 0
      /\ callers = [c \in Callers |-> "idle"] /\ eventQueue = <<>>
      /\ agent.streaming = FALSE /\ worker.phase = "free" /\ switching.phase = "none"
      /\ connected = TRUE /\ ~jobs["worker"].active
  BY DEF Init, NotSwitching, Jobs, NoJob
<1>2. Ends = {} /\ DOMAIN eventQueue = {} /\ ~Waiting /\ ~Starting
  BY <1>1 DEF Ends, Waiting, Starting
<1>3. RetryTyped /\ WorkerCompacts /\ WaitersHavePromise /\ AnnouncedIsQueued
  BY <1>1, <1>2 DEF RetryTyped, WorkerCompacts, WaitersHavePromise, AnnouncedIsQueued
<1>4. EndsFollowAnswers /\ OneRunQueued /\ GoodResolves /\ CompactsUnpromised /\ SwitchHasAborted
  BY <1>1, <1>2 DEF EndsFollowAnswers, OneRunQueued, GoodResolves, CompactsUnpromised, SwitchHasAborted
<1>5. AskedAskable /\ FailureIsLast /\ SleeperAskable /\ UnheardUnpromised /\ TimerContinues
  BY <1>1, <1>2 DEF AskedAskable, FailureIsLast, SleeperAskable, UnheardUnpromised, TimerContinues
<1>. QED
  BY <1>3, <1>4, <1>5 DEF WaitInv

LEMMA WaitsKept ==
  ASSUME TypeInv, WaitInv, [Next]_vars
  PROVE  WaitInv'
<1>1. CASE Handle \/ SleepEnds \/ SleepAborted
  BY <1>1, HandleMessageWaits, HandleEndWithRetryWaits, HandleEndWaits, SleepEndsWaits,
     SleepAbortedWaits DEF Handle
<1>2. CASE Finish
  BY <1>2, FinishCompactionWaits, FinishManualWaits DEF Finish
<1>3. CASE Answer \/ ToolResult \/ ContinueTimer
  BY <1>3, AnswerWaits, ToolResultWaits, ContinueTimerWaits
<1>4. CASE \E c \in Callers : Prompt(c) \/ StartPrompt(c)
  BY <1>4, PromptWaits, StartPromptWaits
<1>5. CASE Abort \/ AbortCompaction \/ Compact \/ PrepareManual \/ SwitchSession
  BY <1>5, ActWaits
<1>6. CASE RecordBash \/ OpenSession
  BY <1>6, RecordBashWaits, OpenSessionWaits
<1>7. CASE UNCHANGED vars
  BY <1>7, UnchangedWaits DEF vars, agentVars, handling, retryVars, compaction, operations
<1>. QED
  BY <1>1, <1>2, <1>3, <1>4, <1>5, <1>6, <1>7 DEF Next
-----------------------------------------------------------------------------
(* The context and the file.                                               *)

(* Appending and cutting, as far as the elements go.                       *)
LEMMA ElementsJoin ==
  ASSUME NEW T, NEW a \in Seq(T), NEW b \in Seq(T)
  PROVE  ToSet(a \o b) = ToSet(a) \cup ToSet(b)
<1>. DEFINE s == a \o b
            n == Len(a)
<1>1. /\ Len(s) = n + Len(b) /\ n \in Nat /\ Len(b) \in Nat
      /\ \A i \in 1 .. n : s[i] = a[i]
      /\ \A i \in 1 .. Len(b) : s[n + i] = b[i]
      /\ \A i \in n + 1 .. n + Len(b) : s[i] = b[i - n]
      /\ s \in Seq(T)
  BY ConcatKnown
<1>2. DOMAIN s = 1 .. n + Len(b) /\ DOMAIN a = 1 .. n /\ DOMAIN b = 1 .. Len(b)
  BY <1>1
<1>. HIDE DEF s, n
<1>3. ASSUME NEW i \in DOMAIN s PROVE s[i] \in ToSet(a) \cup ToSet(b)
  <2>1. CASE i <= n
    BY <1>1, <1>2, <2>1 DEF ToSet
  <2>2. CASE ~(i <= n)
    <3>1. i - n \in 1 .. Len(b) /\ i \in n + 1 .. n + Len(b)
      BY <1>1, <1>2, <2>2
    <3>. QED
      BY <1>1, <1>2, <3>1 DEF ToSet
  <2>. QED
    BY <2>1, <2>2
<1>4. ASSUME NEW i \in 1 .. n PROVE a[i] \in ToSet(s)
  <2>1. i \in DOMAIN s
    BY <1>1, <1>2
  <2>. QED
    BY <1>1, <2>1 DEF ToSet
<1>5. ASSUME NEW i \in 1 .. Len(b) PROVE b[i] \in ToSet(s)
  <2>1. n + i \in DOMAIN s
    BY <1>1, <1>2
  <2>. QED
    BY <1>1, <2>1 DEF ToSet
<1>6. ToSet(s) \subseteq ToSet(a) \cup ToSet(b)
  BY <1>3 DEF ToSet
<1>7. ToSet(a) \subseteq ToSet(s) /\ ToSet(b) \subseteq ToSet(s)
  BY <1>2, <1>4, <1>5 DEF ToSet
<1>. QED
  BY <1>6, <1>7 DEF s

LEMMA ElementsAppend ==
  ASSUME NEW T, NEW a \in Seq(T), NEW e \in T
  PROVE  ToSet(Append(a, e)) = ToSet(a) \cup {e}
<1>. DEFINE s == Append(a, e)
            n == Len(a)
<1>1. n \in Nat /\ DOMAIN s = 1 .. n + 1 /\ DOMAIN a = 1 .. n
      /\ (\A i \in 1 .. n : s[i] = a[i]) /\ s[n + 1] = e
  OBVIOUS
<1>. HIDE DEF s, n
<1>2. 1 .. n + 1 = 1 .. n \cup {n + 1}
  BY <1>1
<1>3. ToSet(s) = ToSet(a) \cup {e}
  BY <1>1, <1>2 DEF ToSet
<1>. QED
  BY <1>3 DEF s

LEMMA ElementsFront ==
  ASSUME NEW T, NEW s \in Seq(T), s # <<>>
  PROVE  ToSet(s) = ToSet(Front(s)) \cup {Last(s)}
<1>. DEFINE f == Front(s)
            n == Len(s)
<1>1. /\ n \in Nat /\ n > 0 /\ f \in Seq(T) /\ Len(f) = n - 1
      /\ \A i \in 1 .. n - 1 : f[i] = s[i]
  BY FrontLast
<1>2. DOMAIN s = 1 .. n /\ DOMAIN f = 1 .. n - 1
  BY <1>1
<1>3. Last(s) = s[n]
  BY DEF Last
<1>. HIDE DEF f, n
<1>4. 1 .. n = 1 .. n - 1 \cup {n}
  BY <1>1
<1>5. ToSet(s) = ToSet(f) \cup {s[n]}
  BY <1>1, <1>2, <1>4 DEF ToSet
<1>. QED
  BY <1>3, <1>5 DEF f

LEMMA ElementsOfMessages ==
  ASSUME NEW n \in Nat, NEW es \in Seq(Lines(n))
  PROVE  ToSet(Messages(es)) = {es[i].message : i \in 1 .. Len(es)}
<1>1. DOMAIN Messages(es) = 1 .. Len(es) /\ \A i \in 1 .. Len(es) : Messages(es)[i] = es[i].message
  BY DEF Messages
<1>. QED
  BY <1>1 DEF ToSet

(* A least element stays the least one when greater ones join.             *)
LEMMA MinJoined ==
  ASSUME NEW F \in SUBSET Nat, NEW G \in SUBSET Nat, F \subseteq G, F # {}, NEW l \in Nat,
         \A i \in G : i \in F \/ i > l, \A i \in F : i <= l
  PROVE  Min(G) = Min(F)
<1>. DEFINE f == Min(F)
            g == Min(G)
<1>1. f \in F /\ (\A y \in F : f <= y) /\ g \in G /\ \A y \in G : g <= y
  BY MinKnown
<1>. HIDE DEF f, g
<1>2. f \in Nat /\ g \in Nat /\ g <= f /\ f <= l
  BY <1>1
<1>3. g \in F
  BY <1>1, <1>2
<1>4. f = g
  BY <1>1, <1>2, <1>3
<1>. QED
  BY <1>4 DEF f, g

(* A message that is stored comes to the context that is rebuilt.          *)
LEMMA ContextGets ==
  ASSUME NEW n \in Nat, NEW file \in Seq(Lines(n)), NEW b \in Seq(Lines(n)),
         \A i \in 1 .. Len(b) : ~IsCompaction(b[i])
  PROVE  ToSet(Context(file \o b)) = ToSet(Context(file)) \cup ToSet(Messages(b))
<1>. DEFINE c   == file \o b
            l   == Len(file)
            I   == {i \in 1 .. Len(file) : IsCompaction(file[i])}
            J   == {i \in 1 .. Len(c) : IsCompaction(c[i])}
            at  == SelectLastInSeq(file, IsCompaction)
            at2 == SelectLastInSeq(c, IsCompaction)
<1>1. /\ c \in Seq(Lines(n)) /\ Len(c) = l + Len(b) /\ l \in Nat /\ Len(b) \in Nat
      /\ \A i \in 1 .. l : c[i] = file[i]
      /\ \A i \in l + 1 .. l + Len(b) : c[i] = b[i - l]
  BY ConcatKnown
<1>2. \A i \in 1 .. Len(c) : i \in 1 .. l \/ (i \in l + 1 .. l + Len(b) /\ i - l \in 1 .. Len(b))
  <2>. HIDE DEF c, l
  <2>. QED
    BY <1>1
<1>3. at = (IF I # {} THEN Max(I) ELSE 0) /\ at2 = (IF J # {} THEN Max(J) ELSE 0)
  BY DEF SelectLastInSeq
<1>4. I = J
  <2>1. ASSUME NEW i PROVE i \in I <=> i \in J
    <3>1. i \in I => i \in J
      <4>. HIDE DEF c
      <4>. QED
        BY <1>1
    <3>2. i \in J => i \in I
      <4>. HIDE DEF c
      <4>. QED
        BY <1>1, <1>2
    <3>. QED
      BY <3>1, <3>2
  <2>. QED
    BY <2>1
<1>5. at2 = at /\ at \in 0 .. l
  <2>1. at2 = at
    <3>. HIDE DEF I, J, at, at2
    <3>. QED
      BY <1>3, <1>4
  <2>2. at \in 0 .. l
    BY LatestKnown, Zenon
  <2>. QED
    BY <2>1, <2>2
<1>. DEFINE M == {c[i].message : i \in 1 .. l}
            B == ToSet(Messages(b))
<1>6. B = {c[i].message : i \in l + 1 .. Len(c)}
  <2>1. B = {b[i].message : i \in 1 .. Len(b)}
    BY ElementsOfMessages
  <2>. HIDE DEF B, c, l
  <2>2. \A i \in 1 .. Len(b) : l + i \in l + 1 .. Len(c) /\ c[l + i] = b[i]
    <3>1. ASSUME NEW i \in 1 .. Len(b) PROVE l + i \in l + 1 .. l + Len(b) /\ (l + i) - l = i
      BY <1>1
    <3>. QED
      BY <1>1, <3>1
  <2>3. \A i \in l + 1 .. Len(c) : i - l \in 1 .. Len(b) /\ c[i] = b[i - l]
    BY <1>1
  <2>4. B \subseteq {c[i].message : i \in l + 1 .. Len(c)}
    BY <2>1, <2>2
  <2>5. {c[i].message : i \in l + 1 .. Len(c)} \subseteq B
    BY <2>1, <2>3
  <2>. QED
    BY <2>4, <2>5
<1>7. CASE at = 0
  <2>1. Context(file) = Messages(file) /\ Context(c) = Messages(c)
    BY <1>5, <1>7 DEF Context
  <2>2. /\ ToSet(Messages(file)) = {file[i].message : i \in 1 .. l}
        /\ ToSet(Messages(c)) = {c[i].message : i \in 1 .. Len(c)}
    BY <1>1, ElementsOfMessages
  <2>. HIDE DEF c, l, at, at2, I, J, B
  <2>3. 1 .. Len(c) = 1 .. l \cup l + 1 .. Len(c)
    BY <1>1
  <2>4. ToSet(Messages(c)) = ToSet(Messages(file)) \cup B
    BY <1>1, <1>6, <2>2, <2>3
  <2>. QED
    BY <2>1, <2>4 DEF c, B
<1>8. CASE at # 0
  <2>1. at \in 1 .. l /\ c[at] = file[at]
    <3>. HIDE DEF at, at2, I, J, c, l
    <3>. QED
      BY <1>1, <1>5, <1>8
  <2>. DEFINE k      == file[at].kept
              found  == SelectInSeq(file, LAMBDA e : e.message.id = file[at].kept)
              found2 == SelectInSeq(c, LAMBDA e : e.message.id = c[at2].kept)
              kept   == IF found \in 1 .. at - 1 THEN SubSeq(file, found, at - 1) ELSE <<>>
              kept2  == IF found2 \in 1 .. at2 - 1 THEN SubSeq(c, found2, at2 - 1) ELSE <<>>
              tail   == SubSeq(file, at + 1, Len(file))
              tail2  == SubSeq(c, at2 + 1, Len(c))
              F      == {i \in 1 .. Len(file) : file[i].message.id = k}
              G      == {i \in 1 .. Len(c) : c[i].message.id = k}
  <2>2. /\ Context(file) = (<<file[at].message>> \o Uncompacted(kept)) \o Messages(tail)
        /\ Context(c) = (<<c[at2].message>> \o Uncompacted(kept2)) \o Messages(tail2)
    BY <1>5, <1>8 DEF Context
  <2>3. /\ found = IF F # {} THEN Min(F) ELSE 0
        /\ found2 = IF G # {} THEN Min(G) ELSE 0
    <3>1. found = IF F # {} THEN Min(F) ELSE 0
      BY DEF SelectInSeq
    <3>2. c[at2].kept = k
      <4>. HIDE DEF c, at, at2
      <4>. QED
        BY <1>5, <2>1
    <3>. DEFINE k2 == c[at2].kept
    <3>3. found2 = LET H == {i \in 1 .. Len(c) : c[i].message.id = k2}
                   IN  IF H # {} THEN Min(H) ELSE 0
      BY DEF SelectInSeq
    <3>. HIDE DEF c, at, at2, k, k2, found2
    <3>. QED
      BY <3>1, <3>2, <3>3 DEF k2
  <2>. HIDE DEF found, found2, k, at, at2, I, J, c, l
  <2>4. /\ F \subseteq G /\ F \in SUBSET Nat /\ G \in SUBSET Nat
        /\ \A i \in G : i \in F \/ i > l
        /\ \A i \in F : i <= l
    BY <1>1, <1>2 DEF l
  <2>. HIDE DEF F, G
  <2>5. found2 \in 1 .. at - 1 \/ found \in 1 .. at - 1 => found2 = found
    <3>1. CASE F # {}
      <4>1. Min(G) = Min(F)
        BY <1>1, <2>4, <3>1, MinJoined
      <4>. QED
        BY <2>3, <2>4, <3>1, <4>1
    <3>2. CASE F = {}
      <4>1. G # {} => Min(G) \in Nat /\ Min(G) > l
        BY <2>4, <3>2, MinKnown
      <4>. QED
        BY <1>1, <2>1, <2>3, <3>2, <4>1
    <3>. QED
      BY <3>1, <3>2
  <2>6. kept2 = kept /\ kept \in Seq(Lines(n))
    <3>1. CASE found \in 1 .. at - 1
      <4>. DEFINE p == found - 1
                  q == at - 1
      <4>1. p \in Nat /\ q \in Nat /\ p <= q /\ q <= Len(file) /\ q <= Len(c) /\ p + 1 = found
        BY <1>1, <2>1, <3>1 DEF l
      <4>2. kept = SubSeq(file, p + 1, q) /\ kept2 = SubSeq(c, p + 1, q)
        BY <1>5, <2>5, <3>1, <4>1
      <4>. HIDE DEF p, q, kept, kept2
      <4>3. /\ kept \in Seq(Lines(n)) /\ Len(kept) = q - p
            /\ \A i \in 1 .. q - p : kept[i] = file[p + i]
        BY <4>1, <4>2, SubSeqKnown
      <4>4. /\ kept2 \in Seq(Lines(n)) /\ Len(kept2) = q - p
            /\ \A i \in 1 .. q - p : kept2[i] = c[p + i]
        BY <1>1, <4>1, <4>2, SubSeqKnown
      <4>5. \A i \in 1 .. q - p : p + i \in 1 .. l
        BY <1>1, <4>1 DEF l
      <4>6. \A i \in 1 .. q - p : kept2[i] = kept[i]
        BY <1>1, <4>3, <4>4, <4>5
      <4>. QED
        BY <4>3, <4>4, <4>6
    <3>2. CASE found \notin 1 .. at - 1
      <4>1. kept = <<>> /\ kept2 = <<>>
        BY <1>5, <2>5, <3>2
      <4>. HIDE DEF kept, kept2
      <4>. QED
        BY <4>1
    <3>. QED
      BY <3>1, <3>2
  <2>7. /\ tail \in Seq(Lines(n)) /\ Len(tail) = l - at
        /\ \A i \in 1 .. l - at : tail[i] = c[at + i]
    <3>1. /\ tail \in Seq(Lines(n)) /\ Len(tail) = l - at
          /\ \A i \in 1 .. l - at : tail[i] = file[at + i]
      <4>1. at \in Nat /\ Len(file) \in Nat /\ at <= Len(file)
        BY <1>1, <2>1 DEF l
      <4>. QED
        BY <4>1, SubSeqKnown DEF l
    <3>2. \A i \in 1 .. l - at : at + i \in 1 .. l
      BY <1>1, <2>1
    <3>. QED
      BY <1>1, <3>1, <3>2
  <2>8. /\ tail2 \in Seq(Lines(n)) /\ Len(tail2) = Len(c) - at
        /\ \A i \in 1 .. Len(c) - at : tail2[i] = c[at + i]
    <3>1. at \in Nat /\ Len(c) \in Nat /\ at <= Len(c) /\ at2 = at
      BY <1>1, <1>5, <2>1
    <3>. QED
      BY <1>1, <3>1, SubSeqKnown
  <2>. HIDE DEF kept, kept2, tail, tail2, B
  <2>9. ToSet(Messages(tail2)) = ToSet(Messages(tail)) \cup B
    <3>1. /\ ToSet(Messages(tail)) = {tail[i].message : i \in 1 .. l - at}
          /\ ToSet(Messages(tail2)) = {tail2[i].message : i \in 1 .. Len(c) - at}
      BY <2>7, <2>8, ElementsOfMessages
    <3>2. /\ ToSet(Messages(tail)) = {c[i].message : i \in at + 1 .. l}
          /\ ToSet(Messages(tail2)) = {c[i].message : i \in at + 1 .. Len(c)}
      <4>1. \A d \in Nat : d >= at =>
              {c[at + i].message : i \in 1 .. d - at} = {c[i].message : i \in at + 1 .. d}
        <5>. SUFFICES ASSUME NEW d \in Nat, d >= at
                      PROVE  {c[at + i].message : i \in 1 .. d - at} = {c[i].message : i \in at + 1 .. d}
          OBVIOUS
        <5>1. \A i \in 1 .. d - at : at + i \in at + 1 .. d
          BY <1>1, <2>1
        <5>2. \A i \in at + 1 .. d : i - at \in 1 .. d - at /\ at + (i - at) = i
          BY <1>1, <2>1
        <5>. QED
          BY <5>1, <5>2
      <4>2. /\ {tail[i].message : i \in 1 .. l - at} = {c[at + i].message : i \in 1 .. l - at}
            /\ {tail2[i].message : i \in 1 .. Len(c) - at} = {c[at + i].message : i \in 1 .. Len(c) - at}
        BY <2>7, <2>8
      <4>3. l \in Nat /\ l >= at /\ Len(c) \in Nat /\ Len(c) >= at
        BY <1>1, <2>1
      <4>. QED
        BY <3>1, <4>1, <4>2, <4>3
    <3>3. at + 1 .. Len(c) = at + 1 .. l \cup l + 1 .. Len(c)
      BY <1>1, <2>1
    <3>. QED
      BY <1>6, <3>2, <3>3
  <2>. DEFINE x == <<file[at].message>>
              u == Uncompacted(kept)
              v == Messages(tail)
              w == Messages(tail2)
  <2>10. /\ x \in Seq(Known(n)) /\ u \in Seq(Known(n)) /\ v \in Seq(Known(n)) /\ w \in Seq(Known(n))
         /\ x = <<c[at2].message>>
    <3>1. file[at].message \in Known(n)
      BY <2>1, MessagesKnown DEF l
    <3>2. x \in Seq(Known(n))
      BY <3>1
    <3>3. c[at2] = file[at]
      BY <1>5, <2>1
    <3>. QED
      BY <2>6, <2>7, <2>8, <3>2, <3>3, MessagesKnown, UncompactedKnown
  <2>. HIDE DEF x, u, v, w
  <2>11. Context(file) = (x \o u) \o v /\ Context(c) = (x \o u) \o w
    BY <2>2, <2>6, <2>10 DEF x, u, v, w
  <2>. DEFINE y == x \o u
  <2>12. y \in Seq(Known(n))
    BY <2>10
  <2>13. Context(file) = y \o v /\ Context(c) = y \o w
    BY <2>11
  <2>. HIDE DEF y
  <2>14. ToSet(y \o v) = ToSet(y) \cup ToSet(v) /\ ToSet(y \o w) = ToSet(y) \cup ToSet(w)
    BY <2>10, <2>12, ElementsJoin
  <2>. QED
    BY <2>9, <2>13, <2>14 DEF c, B, v, w
<1>. QED
  BY <1>7, <1>8

\* The messages whose events are still to be handled.
Unsaved(q) == {e.message : e \in {x \in ToSet(q) : x.type = "message"}}

Fine(S) == {m \in S : m.out \notin errors \cup {"silent"}}

SleepsOnError == worker.phase = "sleeping" => worker.message.out = "retryable"

OtherTarget == switching.phase = "waiting" => switching.target # current

\* What DropsByCompaction says of a step.
Grows ==
  spoiled = {} /\ current' = current /\ files' = files =>
    Heard(agent.messages) \subseteq Heard(agent'.messages)

\* Why a retry drops nothing but errors, and a switch opens another session.
Controls == SleepsOnError /\ OtherTarget

\* The context holds what the file and the queue hold.
InStep ==
  spoiled = {} =>
    Heard(agent.messages) = Heard(Context(files[current])) \cup Fine(Unsaved(eventQueue))

LEMMA ElementsTail ==
  ASSUME NEW T, NEW s \in Seq(T), s # <<>>
  PROVE  ToSet(s) = {Head(s)} \cup ToSet(Tail(s))
<1>. DEFINE t == Tail(s)
            n == Len(s)
            h == Head(s)
<1>1. /\ t \in Seq(T) /\ h = s[1] /\ n \in Nat /\ n > 0 /\ Len(t) = n - 1
      /\ \A i \in 1 .. n - 1 : t[i] = s[i + 1]
  BY TailKnown
<1>2. DOMAIN s = 1 .. n /\ DOMAIN t = 1 .. n - 1
  BY <1>1
<1>. HIDE DEF t, n, h
<1>3. ASSUME NEW i \in 1 .. n PROVE s[i] \in {h} \cup ToSet(t)
  <2>1. CASE i = 1
    BY <1>1, <2>1
  <2>2. CASE i # 1
    <3>1. i - 1 \in 1 .. n - 1 /\ (i - 1) + 1 = i
      BY <1>1, <2>2
    <3>2. t[i - 1] = s[i]
      BY <1>1, <3>1
    <3>. QED
      BY <1>2, <3>1, <3>2 DEF ToSet
  <2>. QED
    BY <2>1, <2>2
<1>4. ASSUME NEW i \in 1 .. n - 1 PROVE t[i] \in ToSet(s)
  <2>1. i + 1 \in 1 .. n
    BY <1>1
  <2>. QED
    BY <1>1, <1>2, <2>1 DEF ToSet
<1>5. h \in ToSet(s)
  BY <1>1, <1>2 DEF ToSet
<1>6. ToSet(s) \subseteq {h} \cup ToSet(t)
  BY <1>2, <1>3 DEF ToSet
<1>7. {h} \cup ToSet(t) \subseteq ToSet(s)
  BY <1>2, <1>4, <1>5 DEF ToSet
<1>. QED
  BY <1>6, <1>7 DEF t, h

LEMMA HeardJoin ==
  ASSUME NEW a, NEW c, NEW S, ToSet(c) = ToSet(a) \cup S
  PROVE  Heard(c) = Heard(a) \cup Fine(S)
  BY DEF Heard, Fine

(* Only an error or an answer beyond the window is dropped.                *)
LEMMA ErrorDropped ==
  ASSUME NEW n, NEW msgs \in Seq(Known(n))
  PROVE  /\ Heard(DropError(msgs)) = Heard(msgs)
         /\ (LastIs(msgs, "assistant") => Last(msgs).out \in errors \cup {"silent"}) =>
              Heard(DropAssistant(msgs)) = Heard(msgs)
<1>1. ASSUME msgs # <<>>, Last(msgs).out \in errors \cup {"silent"}
      PROVE  Heard(Front(msgs)) = Heard(msgs)
  <2>1. ToSet(msgs) = ToSet(Front(msgs)) \cup {Last(msgs)}
    BY <1>1, ElementsFront
  <2>2. Heard(msgs) = Heard(Front(msgs)) \cup Fine({Last(msgs)})
    BY <2>1, HeardJoin
  <2>3. Fine({Last(msgs)}) = {}
    BY <1>1 DEF Fine
  <2>. QED
    BY <2>2, <2>3
<1>. QED
  BY <1>1 DEF DropError, DropAssistant, LastIs

LEMMA CheckHeard ==
  ASSUME TypeInv, NEW j, NEW m, NEW skip, NEW n, NEW msgs \in Seq(Known(n)), NEW file, NEW attempted,
         Check(j, m, skip, msgs, file, attempted),
         m.out \in {"overflow", "silent"} /\ LastIs(msgs, "assistant") => Last(msgs) = m
  PROVE  Heard(agent'.messages) = Heard(msgs)
<1>. DEFINE v == Verdict(m, skip, msgs, file, attempted)
<1>1. agent' = [agent EXCEPT !.messages = IF v = "overflow" THEN DropAssistant(msgs) ELSE msgs]
  BY DEF Check
<1>2. v = "overflow" => m.out \in {"overflow", "silent"}
  BY DEF Verdict
<1>. HIDE DEF v
<1>3. agent'.messages = IF v = "overflow" THEN DropAssistant(msgs) ELSE msgs
  BY <1>1 DEF TypeInv, ControlInv, AgentShape
<1>4. CASE v = "overflow"
  <2>1. LastIs(msgs, "assistant") => Last(msgs).out \in errors \cup {"silent"}
    BY <1>2, <1>4 DEF errors
  <2>. QED
    BY <1>3, <1>4, <2>1, ErrorDropped
<1>5. CASE v # "overflow"
  BY <1>3, <1>5
<1>. QED
  BY <1>4, <1>5

(* The kinds of step.                                                      *)
LEMMA SyncSame ==
  ASSUME InStep, UNCHANGED <<files, current>>, spoiled \subseteq spoiled',
         spoiled = {} => /\ Heard(agent'.messages) = Heard(agent.messages)
                         /\ Unsaved(eventQueue') = Unsaved(eventQueue)
  PROVE  InStep' /\ Grows
<1>1. spoiled' = {} => spoiled = {}
  OBVIOUS
<1>. QED
  BY <1>1 DEF InStep, Grows

LEMMA SyncSaid ==
  ASSUME TypeInv, InStep, UNCHANGED <<files, current>>, NEW m \in Known(used.ids + 1),
         agent'.messages = Append(agent.messages, m), spoiled \subseteq spoiled',
         spoiled' = {} => Unsaved(eventQueue') = Unsaved(eventQueue) \cup {m}
  PROVE  InStep' /\ Grows
<1>1. agent.messages \in Seq(Known(used.ids + 1))
  BY StateGrows
<1>2. Heard(agent'.messages) = Heard(agent.messages) \cup Fine({m})
  <2>1. ToSet(agent'.messages) = ToSet(agent.messages) \cup {m}
    BY <1>1, ElementsAppend
  <2>. QED
    BY <2>1, HeardJoin
<1>3. spoiled' = {} => Fine(Unsaved(eventQueue')) = Fine(Unsaved(eventQueue)) \cup Fine({m})
  BY DEF Fine
<1>4. InStep'
  <2>. SUFFICES ASSUME spoiled' = {}
                PROVE  Heard(agent'.messages) =
                         Heard(Context(files'[current'])) \cup Fine(Unsaved(eventQueue'))
    BY DEF InStep
  <2>1. Heard(agent.messages) = Heard(Context(files[current])) \cup Fine(Unsaved(eventQueue))
    BY DEF InStep
  <2>2. files'[current'] = files[current]
    OBVIOUS
  <2>. DEFINE a == Heard(agent.messages)
              b == Heard(agent'.messages)
              c == Fine(Unsaved(eventQueue))
              d == Fine(Unsaved(eventQueue'))
              f == Heard(Context(files[current]))
              x == Fine({m})
  <2>3. a = f \cup c /\ b = a \cup x /\ d = c \cup x
    BY <1>2, <1>3, <2>1
  <2>4. Heard(Context(files'[current'])) = f
    BY <2>2
  <2>. HIDE DEF a, b, c, d, f, x
  <2>5. b = f \cup d
    BY <2>3
  <2>. QED
    BY <2>4, <2>5 DEF b, d
<1>5. Grows
  BY <1>2 DEF Grows
<1>. QED
  BY <1>4, <1>5

\* The same messages go to the context and to the file.
LEMMA SyncGot ==
  ASSUME InStep, NEW n \in Nat, files[current] \in Seq(Lines(n)), current \in DOMAIN files,
         NEW p \in Seq(Bash(n)),
         files' = [files EXCEPT ![current] = @ \o [i \in DOMAIN p |-> Stored(p[i])]],
         Heard(agent'.messages) = Heard(agent.messages) \cup Fine(ToSet(p)),
         UNCHANGED <<current, eventQueue, spoiled>>
  PROVE  InStep' /\ Grows
<1>. DEFINE file == files[current]
            b    == [i \in DOMAIN p |-> Stored(p[i])]
<1>1. /\ Len(p) \in Nat /\ DOMAIN p = 1 .. Len(p)
      /\ \A i \in 1 .. Len(p) : p[i] \in Known(n) /\ p[i].role = "bash"
  BY DEF Bash
<1>2. \A i \in 1 .. Len(p) : Stored(p[i]) \in Lines(n) /\ Stored(p[i]).message = p[i]
  BY <1>1, StoredKnown
<1>3. b \in Seq(Lines(n)) /\ Len(b) = Len(p) /\ \A i \in 1 .. Len(p) : b[i] = Stored(p[i])
  BY <1>1, <1>2
<1>4. files'[current'] = file \o b
  OBVIOUS
<1>. HIDE DEF b, file
<1>5. \A i \in 1 .. Len(b) : ~IsCompaction(b[i])
  BY <1>1, <1>2, <1>3 DEF IsCompaction
<1>6. ToSet(Messages(b)) = ToSet(p)
  <2>1. ToSet(Messages(b)) = {b[i].message : i \in 1 .. Len(b)}
    BY <1>3, ElementsOfMessages
  <2>2. \A i \in 1 .. Len(b) : b[i].message = p[i]
    BY <1>2, <1>3
  <2>. QED
    BY <1>1, <1>3, <2>1, <2>2 DEF ToSet
<1>7. ToSet(Context(file \o b)) = ToSet(Context(file)) \cup ToSet(p)
  <2>1. file \in Seq(Lines(n))
    BY DEF file
  <2>. QED
    BY <1>3, <1>5, <1>6, <2>1, ContextGets
<1>8. Heard(Context(files'[current'])) = Heard(Context(file)) \cup Fine(ToSet(p))
  <2>. DEFINE x == Context(file)
              y == Context(file \o b)
              z == ToSet(p)
  <2>1. ToSet(y) = ToSet(x) \cup z
    BY <1>7
  <2>2. Context(files'[current']) = y
    BY <1>4
  <2>. HIDE DEF x, y, z
  <2>3. Heard(y) = Heard(x) \cup Fine(z)
    BY <2>1, HeardJoin
  <2>. QED
    BY <2>2, <2>3 DEF x, y, z
<1>9. InStep'
  <2>. SUFFICES ASSUME spoiled = {}
                PROVE  Heard(agent'.messages) =
                         Heard(Context(files'[current'])) \cup Fine(Unsaved(eventQueue))
    BY DEF InStep
  <2>1. Heard(agent.messages) = Heard(Context(file)) \cup Fine(Unsaved(eventQueue))
    BY DEF InStep, file
  <2>. DEFINE a == Heard(agent.messages)
              c == Fine(Unsaved(eventQueue))
              f == Heard(Context(file))
              g == Heard(Context(files'[current']))
              d == Heard(agent'.messages)
              x == Fine(ToSet(p))
  <2>2. a = f \cup c /\ d = a \cup x /\ g = f \cup x
    BY <1>8, <2>1
  <2>. HIDE DEF a, c, d, f, g, x
  <2>3. d = g \cup c
    BY <2>2
  <2>. QED
    BY <2>3 DEF c, d, g
<1>10. Grows
  BY DEF Grows
<1>. QED
  BY <1>9, <1>10

\* The context is rebuilt.
LEMMA SyncRebuilt ==
  ASSUME TypeInv, ~(current' = current /\ files' = files), Rebuilt \subseteq spoiled', UNCHANGED eventQueue,
         Heard(agent'.messages) = Heard(Context(files'[current']))
  PROVE  InStep' /\ Grows
<1>1. spoiled' = {} => eventQueue' = <<>>
  BY DEF Rebuilt
<1>2. Unsaved(<<>>) = {}
  BY DEF Unsaved, ToSet
<1>3. InStep'
  BY <1>1, <1>2 DEF InStep, Fine
<1>. QED
  BY <1>3 DEF Grows

(* What is queued.                                                         *)
LEMMA UnsavedPopped ==
  ASSUME TypeInv, eventQueue # <<>>, eventQueue' = Tail(eventQueue)
  PROVE  Unsaved(eventQueue) =
           Unsaved(eventQueue') \cup
             IF Head(eventQueue).type = "message" THEN {Head(eventQueue).message} ELSE {}
<1>1. ToSet(eventQueue) = {Head(eventQueue)} \cup ToSet(eventQueue')
  BY ElementsTail DEF TypeInv, MessagesInv
<1>. QED
  BY <1>1 DEF Unsaved

LEMMA UnsavedSaid ==
  ASSUME TypeInv, NEW m \in Said(used.ids + 1),
         \/ eventQueue' = eventQueue \o <<MessageEvent(m)>>
         \/ eventQueue' = eventQueue \o <<MessageEvent(m), EndEvent(m)>>
  PROVE  Unsaved(eventQueue') = Unsaved(eventQueue) \cup {m}
<1>. DEFINE a == MessageEvent(m)
            z == EndEvent(m)
            T == Event(used.ids + 1)
<1>1. /\ a \in T /\ z \in T /\ a.type = "message" /\ z.type = "agent_end" /\ a.message = m
      /\ eventQueue \in Seq(T)
  BY EventKnown, StateGrows
<1>2. eventQueue' = eventQueue \o <<a>> \/ eventQueue' = eventQueue \o <<a, z>>
  OBVIOUS
<1>. HIDE DEF a, z, T
<1>3. /\ <<a>> \in Seq(T) /\ ToSet(<<a>>) = {a}
      /\ <<a, z>> \in Seq(T) /\ ToSet(<<a, z>>) = {a, z}
  BY <1>1 DEF ToSet
<1>4. \/ ToSet(eventQueue') = ToSet(eventQueue) \cup {a}
      \/ ToSet(eventQueue') = ToSet(eventQueue) \cup {a, z}
  <2>. DEFINE p == <<a>>
              q == <<a, z>>
  <2>1. /\ p \in Seq(T) /\ ToSet(p) = {a} /\ q \in Seq(T) /\ ToSet(q) = {a, z}
        /\ eventQueue' = eventQueue \o p \/ eventQueue' = eventQueue \o q
    BY <1>2, <1>3
  <2>. HIDE DEF p, q
  <2>2. /\ ToSet(eventQueue \o p) = ToSet(eventQueue) \cup ToSet(p)
        /\ ToSet(eventQueue \o q) = ToSet(eventQueue) \cup ToSet(q)
    BY <1>1, <2>1, ElementsJoin
  <2>. QED
    BY <2>1, <2>2
<1>. QED
  BY <1>1, <1>4 DEF Unsaved

LEMMA HandleMessageSync ==
  ASSUME TypeInv, InStep, HandleMessage
  PROVE  InStep' /\ Grows
<1>. DEFINE m    == Head(eventQueue).message
            n    == used.ids
            file == files[current]
            e    == Stored(m)
            b    == <<e>>
<1>1. /\ eventQueue # <<>> /\ Head(eventQueue).type = "message" /\ eventQueue' = Tail(eventQueue)
      /\ files' = [files EXCEPT ![current] = Append(@, Stored(m))]
      /\ UNCHANGED <<agent, current, spoiled>>
  BY DEF HandleMessage, Handles, Save, agentVars
<1>2. /\ n \in Nat /\ m \in Known(n) /\ m.role # "summary"
      /\ files \in [Sessions -> Seq(Lines(n))] /\ current \in Sessions
  BY <1>1, HeadKnown DEF Said, TypeInv, ControlInv, MessagesInv
<1>3. Unsaved(eventQueue) = Unsaved(eventQueue') \cup {m}
  BY <1>1, UnsavedPopped
<1>4. files'[current'] = Append(file, e) /\ file \in Seq(Lines(n))
  BY <1>1, <1>2
<1>. HIDE DEF m, n, file
<1>5. e \in Lines(n) /\ e.message = m
  BY <1>2, StoredKnown
<1>. HIDE DEF e
<1>6. files'[current'] = file \o b /\ b \in Seq(Lines(n)) /\ Len(b) = 1 /\ b[1] = e
  BY <1>4, <1>5
<1>. HIDE DEF b
<1>7. \A i \in 1 .. Len(b) : ~IsCompaction(b[i])
  BY <1>2, <1>5, <1>6 DEF IsCompaction
<1>8. ToSet(Messages(b)) = {m}
  <2>1. ToSet(Messages(b)) = {b[i].message : i \in 1 .. Len(b)}
    BY <1>2, <1>6, ElementsOfMessages
  <2>. QED
    BY <1>5, <1>6, <2>1
<1>9. ToSet(Context(file \o b)) = ToSet(Context(file)) \cup {m}
  BY <1>2, <1>4, <1>6, <1>7, <1>8, ContextGets
<1>10. Heard(Context(files'[current'])) = Heard(Context(file)) \cup Fine({m})
  <2>. DEFINE x == Context(file)
              y == Context(file \o b)
              z == {m}
  <2>1. ToSet(y) = ToSet(x) \cup z
    BY <1>9
  <2>2. Context(files'[current']) = y
    BY <1>6
  <2>. HIDE DEF x, y, z
  <2>3. Heard(y) = Heard(x) \cup Fine(z)
    BY <2>1, HeardJoin
  <2>. QED
    BY <2>2, <2>3 DEF x, y, z
<1>11. Fine(Unsaved(eventQueue)) = Fine(Unsaved(eventQueue')) \cup Fine({m})
  BY <1>3 DEF Fine
<1>12. InStep'
  <2>. SUFFICES ASSUME spoiled = {}
                PROVE  Heard(agent'.messages) =
                         Heard(Context(files'[current'])) \cup Fine(Unsaved(eventQueue'))
    BY <1>1 DEF InStep
  <2>. DEFINE a == Heard(agent.messages)
              c == Fine(Unsaved(eventQueue))
              d == Fine(Unsaved(eventQueue'))
              f == Heard(Context(file))
              g == Heard(Context(files'[current']))
              x == Fine({m})
  <2>1. a = f \cup c /\ c = d \cup x /\ g = f \cup x /\ Heard(agent'.messages) = a
    BY <1>1, <1>10, <1>11 DEF InStep, file
  <2>. HIDE DEF a, c, d, f, g, x
  <2>2. a = g \cup d
    BY <2>1
  <2>. QED
    BY <2>1, <2>2 DEF d, g
<1>13. Grows
  BY <1>1 DEF Grows
<1>. QED
  BY <1>12, <1>13

LEMMA HandleEndSync ==
  ASSUME TypeInv, WaitInv, InStep, HandleEndWithRetry \/ HandleEnd
  PROVE  InStep' /\ Grows
<1>1. Handles("agent_end") /\ UNCHANGED <<files, current, spoiled>>
  BY DEF HandleEndWithRetry, HandleEnd, storage
<1>2. Unsaved(eventQueue') = Unsaved(eventQueue)
  BY <1>1, UnsavedPopped DEF Handles
<1>3. ASSUME spoiled = {} PROVE Last(agent.messages) = lastAssistant
  <2>1. 1 \in Ends /\ lastAssistant = eventQueue[1].message
    BY <1>1, EndTaken
  <2>2. Fresh
    BY <1>3 DEF Fresh
  <2>. QED
    BY <2>1, <2>2 DEF WaitInv, FailureIsLast
<1>. DEFINE msgs == agent.messages
            n    == used.ids
<1>4. msgs \in Seq(Known(n))
  BY DEF TypeInv, MessagesInv
<1>5. ASSUME spoiled = {} PROVE Heard(agent'.messages) = Heard(msgs)
  <2>1. CASE HandleEndWithRetry
    <3>1. lastAssistant.out = "retryable" /\ agent' = [agent EXCEPT !.messages = DropAssistant(@)]
      BY <2>1 DEF HandleEndWithRetry, MayRetry
    <3>2. agent'.messages = DropAssistant(msgs)
      BY <3>1 DEF TypeInv, ControlInv, AgentShape
    <3>3. Last(msgs).out \in errors \cup {"silent"}
      BY <1>3, <1>5, <3>1 DEF errors
    <3>. HIDE DEF msgs, n
    <3>. QED
      BY <1>4, <3>2, <3>3, ErrorDropped
  <2>2. CASE HandleEnd
    <3>. DEFINE f == files[current]
                o == overflowRecoveryAttempted
                l == lastAssistant
    <3>1. Check("worker", l, TRUE, msgs, f, o)
      BY <2>2 DEF HandleEnd
    <3>2. Last(msgs) = l
      BY <1>3, <1>5
    <3>. HIDE DEF msgs, n, f, o, l
    <3>. QED
      BY <1>4, <3>1, <3>2, CheckHeard
  <2>. QED
    BY <2>1, <2>2
<1>. QED
  BY <1>1, <1>2, <1>5, SyncSame

LEMMA SleepAbortedSync ==
  ASSUME TypeInv, Controls, InStep, SleepAborted
  PROVE  InStep' /\ Grows
<1>. DEFINE msgs == agent.messages
            n    == used.ids
            f    == files[current]
            o    == overflowRecoveryAttempted
            m    == worker.message
<1>1. /\ worker.phase = "sleeping" /\ Check("worker", m, TRUE, msgs, f, o)
      /\ UNCHANGED <<files, current, spoiled, eventQueue>>
  BY DEF SleepAborted, storage
<1>2. m.out \notin {"overflow", "silent"}
  BY <1>1 DEF Controls, SleepsOnError
<1>3. msgs \in Seq(Known(n))
  BY DEF TypeInv, MessagesInv
<1>4. Heard(agent'.messages) = Heard(msgs)
  <2>. HIDE DEF msgs, n, f, o, m
  <2>. QED
    BY <1>1, <1>2, <1>3, CheckHeard
<1>. QED
  BY <1>1, <1>4, SyncSame

LEMMA SaveCompactionSync ==
  ASSUME TypeInv, NEW job \in Job, SaveCompaction(job), UNCHANGED <<current, eventQueue>>,
         Rebuilt \subseteq spoiled'
  PROVE  InStep' /\ Grows
<1>. DEFINE n    == used.ids
            e    == Compacted(n + 1, job.kept)
            old  == files[current]
            file == Append(old, e)
            c    == Context(file)
<1>1. /\ files' = [files EXCEPT ![current] = file]
      /\ agent' = [agent EXCEPT !.messages = IF job.willRetry THEN DropError(c) ELSE c]
  BY DEF SaveCompaction
<1>2. n \in Nat /\ current \in Sessions /\ files \in [Sessions -> Seq(Lines(n + 1))] /\ job.kept \in Nat
  BY StateGrows DEF Job
<1>3. e \in Lines(n + 1) /\ old \in Seq(Lines(n + 1))
  BY <1>2, CompactedKnown
<1>4. agent'.messages \in {c, DropError(c)}
  BY <1>1 DEF TypeInv, ControlInv, AgentShape
<1>5. files'[current'] = file
  BY <1>1, <1>2
<1>. HIDE DEF n, e, old
<1>6. file \in Seq(Lines(n + 1)) /\ file # old
  BY <1>3, AppendKnown
<1>7. files' # files
  BY <1>1, <1>2, <1>6 DEF old
<1>. HIDE DEF file
<1>8. c \in Seq(Known(n + 1))
  <2>1. n + 1 \in Nat
    BY <1>2
  <2>. QED
    BY <1>6, <2>1, ContextTyped
<1>. HIDE DEF c
<1>9. Heard(agent'.messages) = Heard(c)
  BY <1>4, <1>8, ErrorDropped
<1>10. Heard(agent'.messages) = Heard(Context(files'[current']))
  BY <1>5, <1>9 DEF c
<1>. QED
  BY <1>7, <1>10, SyncRebuilt

LEMMA FinishSync ==
  ASSUME TypeInv, InStep, Finish
  PROVE  InStep' /\ Grows
<1>1. /\ UNCHANGED <<current, eventQueue>>
      /\ \/ UNCHANGED <<files, agent, spoiled>>
         \/ \E job \in Job : SaveCompaction(job) /\ Rebuilt \subseteq spoiled'
  <2>1. CASE \E j \in Jobs : FinishCompaction(j)
    BY <2>1 DEF FinishCompaction, TypeInv, ControlInv
  <2>2. CASE FinishManual
    BY <2>2 DEF FinishManual, handling, TypeInv, ControlInv
  <2>. QED
    BY <2>1, <2>2 DEF Finish
<1>2. CASE UNCHANGED <<files, agent, spoiled>>
  BY <1>1, <1>2, SyncSame
<1>3. CASE \E job \in Job : SaveCompaction(job) /\ Rebuilt \subseteq spoiled'
  BY <1>1, <1>3, SaveCompactionSync
<1>. QED
  BY <1>1, <1>2, <1>3

LEMMA OpenSessionSync ==
  ASSUME TypeInv, Controls, OpenSession
  PROVE  InStep' /\ Grows
<1>1. /\ switching.phase = "waiting" /\ current' = switching.target /\ spoiled' = Rebuilt
      /\ agent' = [agent EXCEPT !.messages = Context(files[current'])]
      /\ UNCHANGED <<eventQueue, files>>
  BY DEF OpenSession, handling
<1>2. current' # current
  BY <1>1 DEF Controls, OtherTarget
<1>3. agent'.messages = Context(files'[current'])
  BY <1>1 DEF TypeInv, ControlInv, AgentShape
<1>. QED
  BY <1>1, <1>2, <1>3, SyncRebuilt

(* The agent's message joins the queue, or is not heard.                   *)
LEMMA EmitSync ==
  ASSUME TypeInv, InStep, UNCHANGED <<files, current>>, NEW m \in Said(used.ids + 1),
         agent'.messages = Append(agent.messages, m),
         Emit(<<MessageEvent(m)>>) \/ Emit(<<MessageEvent(m), EndEvent(m)>>),
         Unheard \subseteq spoiled'
  PROVE  InStep' /\ Grows
<1>1. spoiled \subseteq spoiled' /\ (spoiled' = {} => connected)
  BY DEF Unheard
<1>2. connected => Unsaved(eventQueue') = Unsaved(eventQueue) \cup {m}
  BY UnsavedSaid DEF Emit
<1>3. m \in Known(used.ids + 1)
  BY DEF Said
<1>. QED
  BY <1>1, <1>2, <1>3, SyncSaid

LEMMA AnswerSync ==
  ASSUME TypeInv, InStep, Answer
  PROVE  InStep' /\ Grows
<1>1. PICK out \in {"aborted", "ok"} \cup Outcomes :
        LET m == Msg("assistant", out)  ends == out # "toolUse" IN
          /\ agent' = [streaming |-> ~ends, aborted |-> FALSE, tool |-> IF ends THEN 0 ELSE m.id,
                       messages |-> Append(agent.messages, m)]
          /\ Emit(IF ends THEN <<MessageEvent(m), EndEvent(m)>> ELSE <<MessageEvent(m)>>)
  BY DEF Answer
<1>2. UNCHANGED <<files, current>> /\ spoiled' = Unheard
  BY DEF Answer, storage
<1>3. out \in {"none"} \cup errors \cup measured \cup aborted
  BY AgentSessionAssumption DEF AgentSessionAssumption, measured, aborted
<1>. DEFINE m == Msg("assistant", out)
<1>4. m \in Said(used.ids + 1)
  BY <1>3, MsgKnown DEF TypeInv, Said
<1>5. /\ agent'.messages = Append(agent.messages, m)
      /\ Emit(<<MessageEvent(m)>>) \/ Emit(<<MessageEvent(m), EndEvent(m)>>)
  BY <1>1
<1>. HIDE DEF m
<1>. QED
  BY <1>2, <1>4, <1>5, EmitSync

LEMMA ToolResultSync ==
  ASSUME TypeInv, InStep, ToolResult
  PROVE  InStep' /\ Grows
<1>. DEFINE k == Msg("toolResult", "none")
            m == [k EXCEPT !.call = agent.tool]
<1>1. /\ agent' = [agent EXCEPT !.tool = 0, !.messages = Append(@, m)]
      /\ Emit(<<MessageEvent(m)>>) /\ spoiled' = Unheard
      /\ UNCHANGED <<files, current>>
  BY DEF ToolResult, storage
<1>2. k \in Known(used.ids + 1) /\ k.id = used.ids + 1 /\ k.role = "toolResult"
  BY MsgKnown DEF TypeInv
<1>. HIDE DEF k
<1>3. agent.tool \in 0 .. used.ids + 1 /\ agent.tool \in Nat
  BY DEF TypeInv, ControlInv, MessagesInv
<1>4. m \in Message /\ m.id = used.ids + 1 /\ m.role = "toolResult" /\ m.call = agent.tool
  <2>1. k \in Message
    BY <1>2 DEF Known
  <2>. QED
    BY <1>2, <1>3, <2>1 DEF Message
<1>. HIDE DEF m
<1>5. m \in Said(used.ids + 1)
  BY <1>2, <1>3, <1>4 DEF Said, Known
<1>6. agent'.messages = Append(agent.messages, m)
  BY <1>1 DEF TypeInv, ControlInv, AgentShape
<1>. QED
  BY <1>1, <1>5, <1>6, EmitSync

LEMMA StartPromptSync ==
  ASSUME TypeInv, InStep, NEW c \in Callers, StartPrompt(c)
  PROVE  InStep' /\ Grows
<1>. DEFINE m == Msg("user", "none")
<1>1. UNCHANGED <<files, current>>
  BY DEF StartPrompt, storage
<1>2. CASE UNCHANGED <<agent, eventQueue, spoiled>>
  BY <1>1, <1>2, SyncSame
<1>3. CASE StartRun(Append(agent.messages, m)) /\ Emit(<<MessageEvent(m)>>)
  <2>1. m \in Said(used.ids + 1)
    BY MsgKnown DEF TypeInv, Said
  <2>2. agent'.messages = Append(agent.messages, m) /\ Unheard \subseteq spoiled'
    BY <1>3 DEF StartRun
  <2>. HIDE DEF m
  <2>. QED
    BY <1>1, <1>3, <2>1, <2>2, EmitSync
<1>. QED
  BY <1>2, <1>3 DEF StartPrompt

(* The last answer is the last message, if that is an answer.              *)
LEMMA LastAnswer ==
  ASSUME NEW n, NEW msgs \in Seq(Known(n)), LastIs(msgs, "assistant")
  PROVE  msgs[SelectLastInSeq(msgs, LAMBDA x : x.role = "assistant")] = Last(msgs)
<1>. DEFINE I  == {i \in 1 .. Len(msgs) : msgs[i].role = "assistant"}
            at == SelectLastInSeq(msgs, LAMBDA x : x.role = "assistant")
<1>1. at = IF I # {} THEN Max(I) ELSE 0
  BY DEF SelectLastInSeq
<1>2. Len(msgs) \in Nat /\ Len(msgs) > 0
  BY FrontLast DEF LastIs
<1>3. Len(msgs) \in I
  BY <1>2 DEF LastIs, Last
<1>4. I \in SUBSET (0 .. Len(msgs)) /\ \A i \in I : i <= Len(msgs)
  BY <1>2
<1>. HIDE DEF I, at
<1>5. Max(I) \in I /\ Len(msgs) <= Max(I)
  BY <1>2, <1>3, <1>4, MaxKnown
<1>6. Max(I) \in 0 .. Len(msgs)
  BY <1>4, <1>5
<1>7. at = Len(msgs)
  BY <1>1, <1>2, <1>3, <1>5, <1>6
<1>. QED
  BY <1>7 DEF Last, at

LEMMA PromptSync ==
  ASSUME TypeInv, InStep, NEW c \in Callers, Prompt(c)
  PROVE  InStep' /\ Grows
<1>. DEFINE n    == used.ids
            msgs == agent.messages \o pendingBash
            b    == [i \in DOMAIN pendingBash |-> Stored(pendingBash[i])]
            file == files[current] \o b
            at   == SelectLastInSeq(msgs, LAMBDA x : x.role = "assistant")
            m    == msgs[at]
            o    == overflowRecoveryAttempted
<1>1. /\ files' = [files EXCEPT ![current] = file]
      /\ UNCHANGED <<current, eventQueue, spoiled>>
      /\ \/ Check(c, m, FALSE, msgs, file, o)
         \/ agent' = [agent EXCEPT !.messages = msgs]
  BY DEF Prompt, handling
<1>2. /\ n \in Nat /\ current \in Sessions /\ files \in [Sessions -> Seq(Lines(n))]
      /\ agent.messages \in Seq(Known(n)) /\ pendingBash \in Seq(Bash(n))
  BY DEF TypeInv, ControlInv, MessagesInv
<1>3. pendingBash \in Seq(Known(n))
  <2>1. Bash(n) \subseteq Known(n)
    BY DEF Bash
  <2>. QED
    BY <1>2, <2>1, SeqMonotone
<1>. HIDE DEF n
<1>4. msgs \in Seq(Known(n))
  BY <1>2, <1>3
<1>5. Heard(msgs) = Heard(agent.messages) \cup Fine(ToSet(pendingBash))
  <2>1. ToSet(msgs) = ToSet(agent.messages) \cup ToSet(pendingBash)
    BY <1>2, <1>3, ElementsJoin
  <2>. HIDE DEF msgs
  <2>. QED
    BY <2>1, HeardJoin
<1>6. Heard(agent'.messages) = Heard(msgs)
  <2>1. CASE agent' = [agent EXCEPT !.messages = msgs]
    BY <2>1 DEF TypeInv, ControlInv, AgentShape
  <2>2. CASE Check(c, m, FALSE, msgs, file, o)
    <3>. HIDE DEF msgs, file, o
    <3>1. LastIs(msgs, "assistant") => Last(msgs) = m
      BY <1>4, LastAnswer
    <3>. HIDE DEF m
    <3>. QED
      BY <1>4, <2>2, <3>1, CheckHeard
  <2>. QED
    BY <1>1, <2>1, <2>2
<1>7. Heard(agent'.messages) = Heard(agent.messages) \cup Fine(ToSet(pendingBash))
  BY <1>5, <1>6
<1>8. files' = [files EXCEPT ![current] = @ \o [i \in DOMAIN pendingBash |-> Stored(pendingBash[i])]]
  BY <1>1
<1>9. current \in DOMAIN files /\ files[current] \in Seq(Lines(n))
  BY <1>2
<1>. HIDE DEF msgs, b, file, at, m, o
<1>. QED
  BY <1>1, <1>2, <1>7, <1>8, <1>9, SyncGot

LEMMA RecordBashSync ==
  ASSUME TypeInv, InStep, RecordBash
  PROVE  InStep' /\ Grows
<1>. DEFINE m == Msg("bash", "none")
            n == used.ids + 1
            p == <<m>>
<1>1. /\ UNCHANGED <<current, eventQueue, spoiled>>
      /\ \/ UNCHANGED <<agent, files>>
         \/ /\ agent' = [agent EXCEPT !.messages = Append(@, m)]
            /\ files' = [files EXCEPT ![current] = Append(@, Stored(m))]
  BY DEF RecordBash, Save, handling
<1>2. CASE UNCHANGED <<agent, files>>
  BY <1>1, <1>2, SyncSame
<1>3. CASE /\ agent' = [agent EXCEPT !.messages = Append(@, m)]
           /\ files' = [files EXCEPT ![current] = Append(@, Stored(m))]
  <2>1. m \in Bash(n) /\ m \in Known(n)
    BY MsgKnown DEF TypeInv, Bash
  <2>2. /\ n \in Nat /\ current \in Sessions /\ files \in [Sessions -> Seq(Lines(n))]
        /\ agent.messages \in Seq(Known(n))
    BY StateGrows
  <2>3. agent'.messages = Append(agent.messages, m)
    BY <1>3 DEF TypeInv, ControlInv, AgentShape
  <2>. HIDE DEF m, n
  <2>4. p \in Seq(Bash(n)) /\ ToSet(p) = {m} /\ [i \in DOMAIN p |-> Stored(p[i])] = <<Stored(m)>>
    BY <2>1 DEF ToSet
  <2>5. Heard(agent'.messages) = Heard(agent.messages) \cup Fine(ToSet(p))
    <3>. DEFINE x == agent.messages
                y == agent'.messages
                z == ToSet(p)
    <3>1. ToSet(y) = ToSet(x) \cup z
      BY <2>1, <2>2, <2>3, <2>4, ElementsAppend
    <3>. HIDE DEF x, y, z
    <3>2. Heard(y) = Heard(x) \cup Fine(z)
      BY <3>1, HeardJoin
    <3>. QED
      BY <3>2 DEF x, y, z
  <2>6. files' = [files EXCEPT ![current] = @ \o [i \in DOMAIN p |-> Stored(p[i])]]
    <3>1. files[current] \in Seq(Lines(n)) /\ Stored(m) \in Lines(n)
      BY <2>1, <2>2, StoredKnown
    <3>2. Append(files[current], Stored(m)) = files[current] \o <<Stored(m)>>
      BY <3>1
    <3>. QED
      BY <1>3, <2>4, <3>2
  <2>7. current \in DOMAIN files /\ files[current] \in Seq(Lines(n))
    BY <2>2
  <2>. HIDE DEF p
  <2>. QED
    BY <1>1, <2>2, <2>4, <2>5, <2>6, <2>7, SyncGot
<1>. QED
  BY <1>1, <1>2, <1>3

\* What leaves messages and files alone.
LEMMA IdleSync ==
  ASSUME TypeInv, InStep,
         \/ SleepEnds \/ ContinueTimer
         \/ Abort \/ AbortCompaction \/ Compact \/ PrepareManual \/ SwitchSession \/ UNCHANGED vars
  PROVE  InStep' /\ Grows
<1>1. UNCHANGED <<files, current, eventQueue, agent.messages>> /\ spoiled \subseteq spoiled'
  <2>1. CASE SleepEnds
    BY <2>1 DEF SleepEnds, agentVars, storage
  <2>2. CASE ContinueTimer
    BY <2>2 DEF ContinueTimer, StartRun, Unheard, handling, storage
  <2>3. CASE Abort \/ Compact \/ SwitchSession
    <3>1. AbortRun /\ UNCHANGED <<files, current, eventQueue, spoiled>>
      BY <2>3 DEF Abort, Compact, SwitchSession, handling, storage
    <3>. QED
      BY <3>1 DEF AbortRun, TypeInv, ControlInv, AgentShape
  <2>4. CASE AbortCompaction \/ PrepareManual
    BY <2>4 DEF AbortCompaction, PrepareManual, agentVars, handling, storage
  <2>5. CASE UNCHANGED vars
    BY <2>5 DEF vars, agentVars, handling, storage
  <2>. QED
    BY <2>1, <2>2, <2>3, <2>4, <2>5
<1>. QED
  BY <1>1, SyncSame

(* What controls it.                                                       *)
LEMMA ControlsKept ==
  ASSUME TypeInv, Controls, [Next]_vars
  PROVE  Controls'
<1>1. SleepsOnError'
  <2>1. CASE \/ HandleMessage \/ Answer \/ ToolResult \/ ContinueTimer \/ RecordBash \/ OpenSession
             \/ (\E c \in Callers : Prompt(c) \/ StartPrompt(c))
             \/ Abort \/ AbortCompaction \/ Compact \/ PrepareManual \/ SwitchSession
             \/ FinishManual \/ UNCHANGED vars
    <3>1. UNCHANGED worker
      BY <2>1 DEF HandleMessage, Answer, ToolResult, ContinueTimer, RecordBash, OpenSession, Prompt,
                  StartPrompt, Abort, AbortCompaction, Compact, PrepareManual, SwitchSession,
                  FinishManual, vars, handling
    <3>. QED
      BY <3>1 DEF Controls, SleepsOnError
  <2>2. CASE HandleEndWithRetry
    BY <2>2 DEF HandleEndWithRetry, MayRetry, SleepsOnError
  <2>3. CASE HandleEnd
    <3>1. worker'.phase \in {"free", "compacting"}
      BY <2>3 DEF HandleEnd
    <3>. QED
      BY <3>1 DEF SleepsOnError
  <2>4. CASE SleepEnds \/ SleepAborted \/ \E j \in Jobs : FinishCompaction(j)
    <3>1. \/ UNCHANGED worker
          \/ worker' = [worker EXCEPT !.phase = "free"]
          \/ worker' = [worker EXCEPT !.phase = "compacting"]
      BY <2>4 DEF SleepEnds, SleepAborted, FinishCompaction
    <3>2. UNCHANGED worker \/ worker'.phase \in {"free", "compacting"}
      BY <3>1 DEF TypeInv, ControlInv
    <3>. QED
      BY <3>2 DEF Controls, SleepsOnError
  <2>. QED
    BY <2>1, <2>2, <2>3, <2>4 DEF Next, Handle, Finish
<1>2. OtherTarget'
  <2>1. CASE SwitchSession
    <3>1. PICK s \in Sessions \ {current} : switching' = [phase |-> "waiting", target |-> s]
      BY <2>1 DEF SwitchSession
    <3>2. UNCHANGED current
      BY <2>1 DEF SwitchSession, storage
    <3>. QED
      BY <3>1, <3>2 DEF OtherTarget
  <2>2. CASE OpenSession
    BY <2>2 DEF OpenSession, NotSwitching, OtherTarget
  <2>3. CASE ~SwitchSession /\ ~OpenSession
    <3>1. UNCHANGED <<switching, current>>
      <4>1. CASE Handle \/ SleepEnds \/ SleepAborted \/ Finish
        BY <4>1 DEF Handle, HandleMessage, HandleEndWithRetry, HandleEnd, SleepEnds, SleepAborted,
                    Finish, FinishCompaction, FinishManual, operations, storage
      <4>2. CASE Answer \/ ToolResult \/ ContinueTimer \/ RecordBash
        BY <4>2 DEF Answer, ToolResult, ContinueTimer, RecordBash, operations, storage
      <4>3. CASE \E c \in Callers : Prompt(c) \/ StartPrompt(c)
        BY <4>3 DEF Prompt, StartPrompt, storage
      <4>4. CASE Abort \/ AbortCompaction \/ Compact \/ PrepareManual \/ UNCHANGED vars
        BY <4>4 DEF Abort, AbortCompaction, Compact, PrepareManual, vars, operations, storage
      <4>. QED
        BY <2>3, <4>1, <4>2, <4>3, <4>4 DEF Next
    <3>. QED
      BY <3>1 DEF Controls, OtherTarget
  <2>. QED
    BY <2>1, <2>2, <2>3
<1>. QED
  BY <1>1, <1>2 DEF Controls

LEMMA InStepKept ==
  ASSUME TypeInv, WaitInv, Controls, InStep, [Next]_vars
  PROVE  InStep' /\ Grows
<1>1. CASE Handle
  BY <1>1, HandleMessageSync, HandleEndSync DEF Handle
<1>2. CASE SleepAborted \/ Finish \/ OpenSession
  BY <1>2, SleepAbortedSync, FinishSync, OpenSessionSync
<1>3. CASE Answer \/ ToolResult
  BY <1>3, AnswerSync, ToolResultSync
<1>4. CASE \E c \in Callers : Prompt(c) \/ StartPrompt(c)
  BY <1>4, PromptSync, StartPromptSync
<1>5. CASE RecordBash
  BY <1>5, RecordBashSync
<1>6. CASE \/ SleepEnds \/ ContinueTimer
           \/ Abort \/ AbortCompaction \/ Compact \/ PrepareManual \/ SwitchSession \/ UNCHANGED vars
  BY <1>6, IdleSync
<1>. QED
  BY <1>1, <1>2, <1>3, <1>4, <1>5, <1>6 DEF Next

LEMMA InitSync ==
  ASSUME Init
  PROVE  Controls /\ InStep
<1>1. /\ agent.messages = <<>> /\ eventQueue = <<>> /\ files[current] = <<>>
      /\ worker.phase = "free" /\ switching.phase = "none"
  BY AgentSessionAssumption DEF Init, NotSwitching, AgentSessionAssumption
<1>2. Context(<<>>) = <<>>
  <2>1. SelectLastInSeq(<<>>, IsCompaction) = 0
    BY DEF SelectLastInSeq
  <2>2. Messages(<<>>) = <<>>
    BY DEF Messages
  <2>. QED
    BY <2>1, <2>2 DEF Context
<1>3. Unsaved(<<>>) = {}
  BY DEF Unsaved, ToSet
<1>4. InStep
  BY <1>1, <1>2, <1>3 DEF InStep, Fine
<1>. QED
  BY <1>1, <1>4 DEF Controls, SleepsOnError, OtherTarget
-----------------------------------------------------------------------------
(* The theorems.                                                           *)

LEMMA InitTyped ==
  ASSUME Init
  PROVE  TypeInv
<1>1. ControlInv
  <2>1. NoMessage \in Message
    BY DEF NoMessage, Message, errors
  <2>2. NoJob \in Job /\ NotCompacting \in [phase : {"none", "waiting", "summarizing"}, job : Job, aborted : BOOLEAN]
    BY AgentSessionAssumption DEF NoJob, NotCompacting, Job
  <2>3. NotSwitching \in [phase : {"none", "waiting"}, target : Sessions] /\ FirstSession \in Sessions
    BY AgentSessionAssumption DEF NotSwitching
  <2>4. AgentShape
    BY DEF Init, AgentShape
  <2>5. /\ used \in [ids : Nat, prompts : Nat, trouble : Nat, bash : Nat, acts : Nat]
        /\ worker \in [phase : {"free", "sleeping", "compacting"}, message : Message]
    BY <2>1 DEF Init
  <2>. QED
    BY <2>1, <2>2, <2>3, <2>4, <2>5 DEF Init, ControlInv
<1>2. MessagesInv
  <2>1. \A S : <<>> \in Seq(S)
    OBVIOUS
  <2>2. used.ids = 0 /\ agent.messages = <<>> /\ agent.tool = 0
    BY DEF Init
  <2>3. files \in [Sessions -> Seq(Lines(used.ids))]
    BY <2>1 DEF Init
  <2>. QED
    BY <2>1, <2>2, <2>3 DEF Init, MessagesInv
<1>. QED
  BY <1>1, <1>2 DEF TypeInv

LEMMA InitOnce ==
  ASSUME Init
  PROVE  OnceInv
<1>1. (\A s \in Sessions : files[s] = <<>>) /\ eventQueue = <<>> /\ pendingBash = <<>>
  BY DEF Init
<1>. QED
  BY <1>1 DEF OnceInv, PersistedOnceInOrder, QueueInOrder, StoredBeforeQueued, DeferredApart, Queued

LEMMA InitPairs ==
  ASSUME Init
  PROVE  PairsInv
<1>1. \A C : Whole(<<>>, C)
  BY DEF Whole, Unsplit, Clear
<1>2. /\ \A s \in Sessions : files[s] = <<>>
      /\ eventQueue = <<>> /\ pendingBash = <<>> /\ agent.messages = <<>> /\ ~Busy
  BY DEF Init, Busy
<1>3. \A s \in Sessions : Messages(files[s]) = <<>>
  BY <1>2 DEF Messages
<1>4. EndsApart
  <2>1. Marks(eventQueue, Busy) = {}
    BY <1>2 DEF Marks
  <2>. QED
    BY <2>1 DEF EndsApart
<1>5. DOMAIN pendingBash = {}
  BY <1>2
<1>. QED
  BY <1>1, <1>2, <1>3, <1>4, <1>5 DEF PairsInv

(* A step that changes nothing.                                            *)
LEMMA StutterKeeps ==
  ASSUME UNCHANGED vars
  PROVE  /\ TypeInv => TypeInv'
         /\ OnceInv => OnceInv'
         /\ PairsInv => PairsInv'
<1>1. UNCHANGED <<agent, used, worker, lastAssistant, jobs, manual, switching, current,
                  eventQueue, files, pendingBash>>
  BY DEF vars, agentVars, handling, retryVars, compaction, operations, storage
<1>2. TypeInv => TypeInv'
  <2>1. AgentShape => AgentShape'
    BY <1>1 DEF AgentShape
  <2>2. ControlInv => ControlInv'
    BY <1>1, <2>1 DEF ControlInv
  <2>3. MessagesInv => MessagesInv'
    BY <1>1 DEF MessagesInv
  <2>. QED
    BY <2>2, <2>3 DEF TypeInv
<1>3. OnceInv => OnceInv'
  BY <1>1 DEF OnceInv, PersistedOnceInOrder, QueueInOrder, StoredBeforeQueued, DeferredApart, Queued
<1>4. PairsInv => PairsInv'
  <2>1. Queued(eventQueue)' = Queued(eventQueue) /\ Marks(eventQueue, Busy)' = Marks(eventQueue, Busy)
    BY <1>1 DEF Queued, Marks, Busy
  <2>2. \A k : Calls(k)' = Calls(k)
    BY <1>1, <2>1 DEF Calls, After
  <2>3. EndsApart => EndsApart'
    BY <1>1, <2>1, <2>2 DEF EndsApart
  <2>. QED
    BY <1>1, <2>2, <2>3 DEF PairsInv
<1>. QED
  BY <1>2, <1>3, <1>4

(* Messages, files and the jobs under way are what they look like: every   *)
(* id was given out, the queue holds messages of the agent only, and       *)
(* deferred are bash results only.                                         *)
THEOREM SessionTyped == Spec => []TypeInv
<1>1. Init => TypeInv
  BY InitTyped
<1>2. TypeInv /\ [Next]_vars => TypeInv'
  BY NextMoves, TypesKept, StutterKeeps DEF TypeInv
<1>. QED
  BY <1>1, <1>2, PTL DEF Spec

(* A message is stored once, in one file, and the messages of the agent in *)
(* the order in which they came, however late events are handled           *)
(* (_handleAgentEvent and the queue of events).                            *)
THEOREM StoredOnceInOrder == Spec => []PersistedOnceInOrder
<1>1. Init => TypeInv /\ OnceInv
  BY InitTyped, InitOnce
<1>2. (TypeInv /\ OnceInv) /\ [Next]_vars => (TypeInv /\ OnceInv)'
  BY NextMoves, TypesKept, OnceKept, StutterKeeps DEF TypeInv
<1>3. OnceInv => PersistedOnceInOrder
  BY DEF OnceInv
<1>. QED
  BY <1>1, <1>2, <1>3, PTL DEF Spec

(* In the context and in every file a bash result never stands between the *)
(* call of a tool and its result (recordBashResult and                     *)
(* _flushPendingBashMessages).                                             *)
THEOREM BashKeepsPairs == Spec => []BashKeepsToolPairs
<1>1. Init => TypeInv /\ PairsInv
  BY InitTyped, InitPairs
<1>2. (TypeInv /\ PairsInv) /\ [Next]_vars => (TypeInv /\ PairsInv)'
  BY NextMoves, TypesKept, PairsKept, StutterKeeps DEF TypeInv
<1>3. TypeInv /\ PairsInv => BashKeepsToolPairs
  <2>1. ASSUME TypeInv, PairsInv,
               NEW msgs \in {agent.messages} \cup {Messages(files[s]) : s \in Sessions}
        PROVE  Unsplit(msgs) /\ DOMAIN msgs = 1 .. Len(msgs)
    <3>1. CASE msgs = agent.messages
      <4>1. msgs \in Seq(Known(used.ids))
        BY <2>1, <3>1 DEF TypeInv, MessagesInv
      <4>. QED
        BY <2>1, <3>1, <4>1 DEF PairsInv, Whole
    <3>2. CASE \E s \in Sessions : msgs = Messages(files[s])
      <4>1. PICK s \in Sessions : msgs = Messages(files[s])
        BY <3>2
      <4>2. used.ids \in Nat /\ files[s] \in Seq(Lines(used.ids))
        BY <2>1, IdsKnown
      <4>3. msgs \in Seq(Known(used.ids))
        BY <4>1, <4>2, MessagesKnown
      <4>. QED
        BY <2>1, <4>1, <4>3 DEF PairsInv, Whole
    <3>. QED
      BY <2>1, <3>1, <3>2
  <2>. QED
    BY <2>1 DEF BashKeepsToolPairs, Unsplit
<1>. QED
  BY <1>1, <1>2, <1>3, PTL DEF Spec

(* Who waits for the end of a retry waits for something that is still to   *)
(* come, as long as none of the situations in spoiled has occurred         *)
(* (waitForRetry and what resolves its promise).                           *)
THEOREM WaitersMakeProgress == Spec => []WaiterHasProgress
<1>1. Init => TypeInv /\ WaitInv
  BY InitTyped, InitWaits
<1>2. (TypeInv /\ WaitInv) /\ [Next]_vars => (TypeInv /\ WaitInv)'
  BY NextMoves, TypesKept, StutterKeeps, WaitsKept DEF TypeInv
<1>3. WaitInv => WaiterHasProgress
  <2>. SUFFICES ASSUME WaitInv, Waiting, spoiled = {}, worker.phase = "free",
                       ~agent.streaming, eventQueue = <<>>, ~Grave(worker.message)
                PROVE  timers > 0
    BY DEF WaiterHasProgress, Waiting, Grave
  <2>1. Fresh
    BY DEF Fresh
  <2>. QED
    BY <2>1 DEF WaitInv, TimerContinues
<1>. QED
  BY <1>1, <1>2, <1>3, PTL DEF Spec

(* When nothing is under way, the next prompt goes on from the messages    *)
(* that the session rebuilds from its file and the bash results that still *)
(* wait, which a restart loses: what goes to the context goes to the file, *)
(* and what rebuilds or trims the context touches nothing but errors and   *)
(* answers beyond the window                                               *)
(* (_handleAgentEvent, recordBashResult and _flushPendingBashMessages      *)
(* against buildSessionContext).                                           *)
THEOREM ContextMatches == Spec => []ContextMatchesSession
<1>1. Init => TypeInv /\ WaitInv /\ Controls /\ InStep
  BY InitTyped, InitWaits, InitSync
<1>2. (TypeInv /\ WaitInv /\ Controls /\ InStep) /\ [Next]_vars
        => (TypeInv /\ WaitInv /\ Controls /\ InStep)'
  BY NextMoves, TypesKept, StutterKeeps, WaitsKept, ControlsKept, InStepKept DEF TypeInv
<1>3. TypeInv /\ InStep => ContextMatchesSession
  <2>. SUFFICES ASSUME TypeInv, InStep, Quiet, spoiled = {}
                PROVE  Heard(agent.messages \o pendingBash)
                         = Heard(Context(files[current]) \o pendingBash)
    BY DEF ContextMatchesSession
  <2>1. eventQueue = <<>>
    BY DEF Quiet
  <2>2. Fine(Unsaved(eventQueue)) = {}
    BY <2>1 DEF Unsaved, ToSet, Fine
  <2>. DEFINE n == used.ids
              c == Context(files[current])
              b == pendingBash
  <2>3. Heard(agent.messages) = Heard(c)
    BY <2>2 DEF InStep
  <2>4. n \in Nat /\ files[current] \in Seq(Lines(n)) /\ agent.messages \in Seq(Known(n)) /\ b \in Seq(Bash(n))
    BY DEF TypeInv, ControlInv, MessagesInv
  <2>5. c \in Seq(Known(n))
    BY <2>4, ContextTyped
  <2>6. b \in Seq(Known(n))
    <3>1. Bash(n) \subseteq Known(n)
      BY DEF Bash
    <3>. QED
      BY <2>4, <3>1, SeqMonotone
  <2>. HIDE DEF c, b, n
  <2>7. ASSUME NEW a \in Seq(Known(n))
        PROVE  Heard(a \o b) = Heard(a) \cup Fine(ToSet(b))
    <3>1. ToSet(a \o b) = ToSet(a) \cup ToSet(b)
      BY <2>6, ElementsJoin
    <3>. DEFINE w == a \o b
    <3>. HIDE DEF w
    <3>. QED
      BY <3>1, HeardJoin
  <2>8. Heard(agent.messages \o b) = Heard(c \o b)
    BY <2>3, <2>4, <2>5, <2>7
  <2>. QED
    BY <2>8 DEF c, b
<1>. QED
  BY <1>1, <1>2, <1>3, PTL DEF Spec

(* Only a compaction and a switch take messages out of the context, with   *)
(* two exceptions: _handleRetryableError drops the failure it repeats, and *)
(* _checkCompaction the answer that overflowed, an error or a good answer  *)
(* beyond the window.  Neither ever drops what came after.                 *)
THEOREM OnlyCompactionsDrop == Spec => DropsByCompaction
<1>1. Init => TypeInv /\ WaitInv /\ Controls /\ InStep
  BY InitTyped, InitWaits, InitSync
<1>2. (TypeInv /\ WaitInv /\ Controls /\ InStep) /\ [Next]_vars
        => (TypeInv /\ WaitInv /\ Controls /\ InStep)'
  BY NextMoves, TypesKept, StutterKeeps, WaitsKept, ControlsKept, InStepKept DEF TypeInv
<1>3. (TypeInv /\ WaitInv /\ Controls /\ InStep) /\ [Next]_vars =>
        [(spoiled = {} /\ current' = current /\ files' = files) =>
           Heard(agent.messages) \subseteq Heard(agent'.messages)]_vars
  BY InStepKept DEF Grows
<1>. QED
  BY <1>1, <1>2, <1>3, PTL DEF Spec, DropsByCompaction
=============================================================================
