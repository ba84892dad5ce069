------------------------ MODULE SessionManagerProofs ------------------------
(***************************************************************************)
(* Proofs about SessionManager, for any types and any number of files,     *)
(* entries and crashes.                                                    *)
(*                                                                         *)
(* The invariant Inv says of the entries of the process and of every file  *)
(* that they are Sound: an id was given out, it belongs to one entry, and  *)
(* the parent of an entry is older than it.  So the walk to the root ends, *)
(* and what it returns is the one path that is Linked from the leaf to the *)
(* root.  Of the labels it says that the map has the targets whose last    *)
(* change is a label (Live).  Of the file it says that it is Held: it ends *)
(* with all entries of the process, behind some that they contain too, or  *)
(* that nothing was flushed, there is no answer and the file has nothing   *)
(* else.  A file that is opened and has no answer (an empty one, or one    *)
(* that a crash cut short) is written again as a whole with the first      *)
(* answer: it then holds entries twice, so Held cannot be equality.        *)
(*                                                                         *)
(* Keep, LabelsOf and getBranch are recursive functions over the length of *)
(* a sequence or an id.  Each has a lemma that there is such a function    *)
(* and one for the next step; facts about all sequences follow by          *)
(* SeqInduct, from the set of those that have the fact.                    *)
(*                                                                         *)
(* The manager implements SessionStore: its entries, without their order,  *)
(* are the memory of the store and its files the logs.  Each operation is  *)
(* one action of the store, or Stop where a crash cuts its write short;    *)
(* moving the leaf is none.                                                *)
(***************************************************************************)
EXTENDS SessionManager, WellFoundedInduction, TLAPS

(* A set of natural numbers that is not empty has a least element.         *)
LEMMA LeastExists ==
  ASSUME NEW T \in SUBSET Nat, T # {}
  PROVE  \E i \in T : \A j \in T : i <= j
<1>. DEFINE R == OpToRel(<, Nat)
<1>1. \E i \in T : \A j \in T : ~ (<<j, i>> \in R)
  BY NatLessThanWellFounded, WFMin, Zenon
<1>2. \A i, j \in Nat : <<j, i>> \in R <=> j < i
  BY DEF OpToRel
<1>. HIDE DEF R
<1>3. PICK i \in T : \A j \in T : ~ (<<j, i>> \in R)
  BY <1>1
<1>4. ASSUME NEW j \in T PROVE i <= j
  <2>1. i \in Nat /\ j \in Nat /\ ~ (j < i)
    BY <1>2, <1>3
  <2>. QED
    BY <2>1
<1>. QED
  BY <1>4

(* Max is defined by choice; there is something to choose.                 *)
LEMMA MaxKnown ==
  ASSUME NEW n \in Nat, NEW S \in SUBSET (0 .. n), S # {}
  PROVE  Max(S) \in S /\ \A y \in S : y <= Max(S)
<1>. DEFINE T == {n - x : x \in S}
<1>1. T \in SUBSET Nat /\ T # {}
  <2>1. \A x \in S : n - x \in Nat
    OBVIOUS
  <2>. QED
    BY <2>1
<1>2. PICK i \in T : \A j \in T : i <= j
  BY <1>1, LeastExists
<1>3. PICK x \in S : i = n - x
  BY <1>2
<1>4. ASSUME NEW y \in S PROVE x >= y
  <2>1. n - y \in T /\ i <= n - y
    BY <1>2
  <2>. QED
    BY <1>3, <2>1
<1>. QED
  BY <1>3, <1>4 DEF Max

(* A set that holds 0 and with a number the next one holds them all.       *)
LEMMA NatInduct ==
  ASSUME NEW S, 0 \in S, \A n \in Nat : n \in S => n + 1 \in S
  PROVE  Nat \subseteq S
<1>. DEFINE T == {n \in Nat : n \notin S}
<1>. SUFFICES ASSUME T # {} PROVE FALSE
  OBVIOUS
<1>1. T \in SUBSET Nat
  OBVIOUS
<1>. HIDE DEF T
<1>2. PICK m \in T : \A j \in T : m <= j
  BY <1>1, LeastExists
<1>. USE DEF T
<1>3. m \in Nat /\ m # 0 /\ m \notin S
  BY <1>2
<1>4. m - 1 \in Nat /\ m - 1 \notin T
  BY <1>2, <1>3
<1>. QED
  BY <1>3, <1>4

(* What Append and concatenation are at each place.                        *)
LEMMA AppendKnown ==
  ASSUME NEW T, NEW s \in Seq(T), NEW e \in T
  PROVE  /\ Append(s, e) \in Seq(T) /\ Len(s) \in Nat /\ Len(Append(s, e)) = Len(s) + 1
         /\ \A i \in 1 .. Len(s) : Append(s, e)[i] = s[i]
         /\ Append(s, e)[Len(s) + 1] = e
  OBVIOUS

LEMMA ConcatKnown ==
  ASSUME NEW T, NEW a \in Seq(T), NEW b \in Seq(T)
  PROVE  /\ a \o b \in Seq(T) /\ Len(a \o b) = Len(a) + Len(b)
         /\ Len(a) \in Nat /\ Len(b) \in Nat
         /\ \A i \in 1 .. Len(a) : (a \o b)[i] = a[i]
         /\ \A i \in 1 .. Len(b) : (a \o b)[Len(a) + i] = b[i]
         /\ \A i \in Len(a) + 1 .. Len(a) + Len(b) : (a \o b)[i] = b[i - Len(a)]
  OBVIOUS

(* A set that holds the empty sequence and, with a sequence, every longer  *)
(* one, holds them all.                                                    *)
LEMMA SeqInduct ==
  ASSUME NEW T, NEW P, <<>> \in P,
         \A s \in Seq(T) : \A e \in T : s \in P => Append(s, e) \in P
  PROVE  \A s \in Seq(T) : s \in P
<1>. DEFINE N == {n \in Nat : \A s \in Seq(T) : Len(s) = n => s \in P}
<1>1. 0 \in N
  <2>1. \A s \in Seq(T) : Len(s) = 0 => s = <<>>
    OBVIOUS
  <2>. QED
    BY <2>1
<1>2. ASSUME NEW n \in Nat, n \in N PROVE n + 1 \in N
  <2>1. ASSUME NEW s \in Seq(T), Len(s) = n + 1 PROVE s \in P
    <3>. DEFINE f == SubSeq(s, 1, n)
    <3>1. f \in Seq(T) /\ Len(f) = n /\ s[n + 1] \in T
      BY <2>1
    <3>2. s = Append(f, s[n + 1])
      BY <2>1, <3>1
    <3>3. f \in P
      BY <1>2, <3>1
    <3>. HIDE DEF f
    <3>. QED
      BY <3>1, <3>2, <3>3
  <2>. QED
    BY <2>1
<1>. HIDE DEF N
<1>3. Nat \subseteq N
  BY <1>1, <1>2, NatInduct
<1>. QED
  BY <1>3 DEF N

(* What is appended to the second part is appended to the whole.           *)
LEMMA ConcatLast ==
  ASSUME NEW T, NEW a \in Seq(T), NEW b \in Seq(T), NEW e \in T
  PROVE  (a \o b) \o <<e>> = a \o Append(b, e)
  OBVIOUS

(* An element appended to the second part is appended to the whole.        *)
LEMMA ConcatAppend ==
  ASSUME NEW T, NEW a \in Seq(T), NEW b \in Seq(T), NEW e \in T
  PROVE  a \o Append(b, e) = Append(a \o b, e)
  OBVIOUS

(* The elements of sequences that are put together.                        *)
LEMMA ElementsNone == ToSet(<<>>) = {}
<1>1. DOMAIN <<>> = {}
  OBVIOUS
<1>. QED
  BY <1>1, Zenon DEF ToSet

LEMMA ElementsAppend ==
  ASSUME NEW T, NEW s \in Seq(T), NEW e \in T
  PROVE  ToSet(Append(s, e)) = ToSet(s) \cup {e}
<1>1. Len(s) \in Nat /\ DOMAIN s = 1 .. Len(s) /\ DOMAIN Append(s, e) = 1 .. Len(s) + 1
  OBVIOUS
<1>2. /\ \A i \in 1 .. Len(s) : Append(s, e)[i] = s[i]
      /\ Append(s, e)[Len(s) + 1] = e
  OBVIOUS
<1>3. \A i \in 1 .. Len(s) + 1 : i \in 1 .. Len(s) \/ i = Len(s) + 1
  BY <1>1
<1>4. \A i \in 1 .. Len(s) : i \in 1 .. Len(s) + 1
  BY <1>1
<1>5. Len(s) + 1 \in 1 .. Len(s) + 1
  BY <1>1
<1>. HIDE DEF ToSet
<1>6. ToSet(Append(s, e)) \subseteq ToSet(s) \cup {e}
  BY <1>1, <1>2, <1>3 DEF ToSet
<1>7. ToSet(s) \cup {e} \subseteq ToSet(Append(s, e))
  BY <1>1, <1>2, <1>4, <1>5 DEF ToSet
<1>. QED
  BY <1>6, <1>7

LEMMA ElementsOne ==
  ASSUME NEW T, NEW e \in T
  PROVE  <<e>> \in Seq(T) /\ ToSet(<<e>>) = {e}
<1>1. <<e>> = Append(<<>>, e) /\ <<>> \in Seq(T) /\ <<e>> \in Seq(T)
  OBVIOUS
<1>2. ToSet(Append(<<>>, e)) = {} \cup {e}
  <2>. DEFINE s == <<>>
  <2>1. s \in Seq(T)
    BY <1>1
  <2>. HIDE DEF s
  <2>2. ToSet(Append(s, e)) = ToSet(s) \cup {e}
    BY <2>1, ElementsAppend
  <2>. QED
    BY <2>2, ElementsNone DEF s
<1>. QED
  BY <1>1, <1>2

LEMMA ElementsJoin ==
  ASSUME NEW T, NEW a \in Seq(T), NEW b \in Seq(T)
  PROVE  ToSet(a \o b) = ToSet(a) \cup ToSet(b)
<1>. DEFINE P == {s \in Seq(T) : ToSet(a \o s) = ToSet(a) \cup ToSet(s)}
<1>1. <<>> \in P
  <2>1. a \o <<>> = a /\ <<>> \in Seq(T)
    OBVIOUS
  <2>. QED
    BY <2>1, ElementsNone
<1>2. ASSUME NEW s \in Seq(T), NEW e \in T, s \in P PROVE Append(s, e) \in P
  <2>. DEFINE c == a \o s
  <2>1. c \in Seq(T) /\ Append(s, e) \in Seq(T) /\ a \o Append(s, e) = Append(c, e)
    BY ConcatAppend
  <2>. HIDE DEF c
  <2>2. ToSet(a \o Append(s, e)) = ToSet(c) \cup {e}
    BY <2>1, ElementsAppend
  <2>3. ToSet(Append(s, e)) = ToSet(s) \cup {e}
    BY ElementsAppend
  <2>. QED
    BY <1>2, <2>1, <2>2, <2>3 DEF c
<1>. HIDE DEF P
<1>3. b \in P
  BY <1>1, <1>2, SeqInduct
<1>. QED
  BY <1>3 DEF P
-----------------------------------------------------------------------------
(* Keep.                                                                   *)

\* g is the function that Keep defines, up to n.
KeepSteps(g, s, S, n) ==
  g = [i \in 0 .. n |->
         IF i = 0 THEN <<>>
         ELSE IF s[i] \in S THEN Append(g[i - 1], s[i]) ELSE g[i - 1]]

\* How each of its values comes from the one before.
KeepTakes(g, s, S, n) ==
  /\ g[0] = <<>>
  /\ \A i \in 1 .. n : g[i] = IF s[i] \in S THEN Append(g[i - 1], s[i]) ELSE g[i - 1]

(* Two walks that take the same steps agree.                               *)
LEMMA KeepStepsAt ==
  ASSUME NEW s, NEW S, NEW n \in Nat, NEW g, KeepSteps(g, s, S, n)
  PROVE  KeepTakes(g, s, S, n)
<1>. DEFINE e(i) == IF i = 0 THEN <<>>
                    ELSE IF s[i] \in S THEN Append(g[i - 1], s[i]) ELSE g[i - 1]
<1>1. g = [i \in 0 .. n |-> e(i)]
  BY DEF KeepSteps
<1>. HIDE DEF e
<1>2. \A i \in 0 .. n : g[i] = e(i)
  BY <1>1
<1>. USE DEF e
<1>3. \A i \in 1 .. n : i \in 0 .. n /\ i # 0
  OBVIOUS
<1>. QED
  BY <1>2, <1>3 DEF KeepTakes

(* The recursive function of Keep exists.                                  *)
LEMMA KeepStepsExist ==
  ASSUME NEW s, NEW S, NEW n \in Nat
  PROVE  \E g : KeepSteps(g, s, S, n)
<1>. DEFINE N == {k \in Nat : \E g : KeepSteps(g, s, S, k)}
<1>1. 0 \in N
  <2>1. KeepSteps([i \in 0 .. 0 |-> <<>>], s, S, 0)
    BY DEF KeepSteps
  <2>. QED
    BY <2>1
<1>2. ASSUME NEW k \in Nat, k \in N PROVE k + 1 \in N
  <2>1. PICK g : KeepSteps(g, s, S, k)
    BY <1>2
  <2>. DEFINE x == IF s[k + 1] \in S THEN Append(g[k], s[k + 1]) ELSE g[k]
              h == [i \in 0 .. k + 1 |-> IF i = k + 1 THEN x ELSE g[i]]
  <2>2. ASSUME NEW i \in 0 .. k + 1
        PROVE  h[i] = IF i = 0 THEN <<>>
                      ELSE IF s[i] \in S THEN Append(h[i - 1], s[i]) ELSE h[i - 1]
    <3>1. CASE i = k + 1
      <4>1. i # 0 /\ i - 1 = k /\ k \in 0 .. k + 1 /\ k # k + 1
        BY <3>1
      <4>2. h[i] = x /\ h[i - 1] = g[k]
        BY <3>1, <4>1
      <4>. QED
        BY <3>1, <4>1, <4>2
    <3>2. CASE i # k + 1
      <4>1. i \in 0 .. k /\ (i # 0 => i - 1 \in 0 .. k + 1 /\ i - 1 # k + 1)
        BY <3>2
      <4>2. h[i] = g[i] /\ (i # 0 => h[i - 1] = g[i - 1])
        BY <3>2, <4>1
      <4>. HIDE DEF h
      <4>. QED
        BY <2>1, <4>1, <4>2 DEF KeepSteps
    <3>. QED
      BY <3>1, <3>2
  <2>3. KeepSteps(h, s, S, k + 1)
    <3>1. h = [i \in 0 .. k + 1 |-> h[i]]
      OBVIOUS
    <3>. HIDE DEF h
    <3>. QED
      BY <2>2, <3>1 DEF KeepSteps
  <2>. QED
    BY <2>3
<1>. HIDE DEF N
<1>3. Nat \subseteq N
  BY <1>1, <1>2, NatInduct
<1>. QED
  BY <1>3 DEF N

(* Keep of a sequence and of what is appended to it.                       *)
LEMMA KeepEmpty ==
  ASSUME NEW S
  PROVE  Keep(<<>>, S) = <<>>
<1>. DEFINE g == CHOOSE f : KeepSteps(f, <<>>, S, 0)
<1>1. KeepSteps(g, <<>>, S, 0)
  BY KeepStepsExist
<1>2. Keep(<<>>, S) = g[0]
  BY DEF Keep, KeepSteps
<1>. HIDE DEF g
<1>. QED
  <2>1. KeepTakes(g, <<>>, S, 0)
    BY <1>1, KeepStepsAt
  <2>. QED
    BY <1>2, <2>1 DEF KeepTakes

(* Keep one element further.                                               *)
LEMMA KeepAppend ==
  ASSUME NEW T, NEW s \in Seq(T), NEW e \in T, NEW S
  PROVE  Keep(Append(s, e), S) = IF e \in S THEN Append(Keep(s, S), e) ELSE Keep(s, S)
<1>. DEFINE n == Len(s)
            t == Append(s, e)
            g == CHOOSE f : KeepSteps(f, s, S, n)
            h == CHOOSE f : KeepSteps(f, t, S, n + 1)
<1>1. n \in Nat /\ Len(t) = n + 1 /\ (\A i \in 1 .. n : t[i] = s[i]) /\ t[n + 1] = e
  OBVIOUS
<1>2. Keep(s, S) = g[n]
  BY DEF Keep, KeepSteps
<1>3. Keep(t, S) = h[n + 1]
  <2>. HIDE DEF t, n
  <2>1. Keep(t, S) = (CHOOSE f : KeepSteps(f, t, S, Len(t)))[Len(t)]
    BY DEF Keep, KeepSteps
  <2>. QED
    BY <1>1, <2>1
<1>. HIDE DEF n, t
<1>4. KeepSteps(g, s, S, n)
  BY <1>1, KeepStepsExist
<1>5. KeepSteps(h, t, S, n + 1)
  <2>1. n + 1 \in Nat
    BY <1>1
  <2>. QED
    BY <2>1, KeepStepsExist
<1>. HIDE DEF g, h
<1>6. KeepTakes(g, s, S, n)
  BY <1>1, <1>4, KeepStepsAt
<1>7. KeepTakes(h, t, S, n + 1)
  <2>1. n + 1 \in Nat
    BY <1>1
  <2>. QED
    BY <1>5, <2>1, KeepStepsAt
<1>. DEFINE N == {k \in Nat : k <= n => g[k] = h[k]}
<1>8. 0 \in N
  BY <1>6, <1>7 DEF KeepTakes
<1>9. ASSUME NEW k \in Nat, k \in N PROVE k + 1 \in N
  <2>1. CASE k + 1 <= n
    <3>1. k <= n /\ k + 1 \in 1 .. n /\ k + 1 \in 1 .. n + 1 /\ (k + 1) - 1 = k
      BY <1>1, <2>1
    <3>. QED
      BY <1>1, <1>6, <1>7, <1>9, <3>1 DEF KeepTakes
  <2>. QED
    BY <2>1
<1>. HIDE DEF N
<1>10. n \in N
  BY <1>1, <1>8, <1>9, NatInduct
<1>11. g[n] = h[n]
  BY <1>1, <1>10 DEF N
<1>12. n + 1 \in 1 .. n + 1 /\ (n + 1) - 1 = n
  BY <1>1
<1>13. h[n + 1] = IF t[n + 1] \in S THEN Append(h[n], t[n + 1]) ELSE h[n]
  BY <1>7, <1>12 DEF KeepTakes
<1>. QED
  BY <1>1, <1>2, <1>3, <1>11, <1>13 DEF t

(* What Keep returns: elements of the sequence that are in the set.        *)
LEMMA KeepKnown ==
  ASSUME NEW T, NEW s \in Seq(T), NEW S
  PROVE  Keep(s, S) \in Seq(T) /\ ToSet(Keep(s, S)) = ToSet(s) \cap S
<1>. DEFINE P == {q \in Seq(T) : Keep(q, S) \in Seq(T) /\ ToSet(Keep(q, S)) = ToSet(q) \cap S}
<1>1. <<>> \in P
  <2>1. Keep(<<>>, S) = <<>> /\ ToSet(<<>>) = {} /\ <<>> \in Seq(T)
    BY KeepEmpty, ElementsNone
  <2>. QED
    BY <2>1
<1>2. ASSUME NEW q \in Seq(T), NEW e \in T, q \in P PROVE Append(q, e) \in P
  <2>. DEFINE k == Keep(q, S)
  <2>1. k \in Seq(T) /\ ToSet(k) = ToSet(q) \cap S /\ Append(q, e) \in Seq(T)
    BY <1>2
  <2>2. Keep(Append(q, e), S) = IF e \in S THEN Append(k, e) ELSE k
    BY KeepAppend
  <2>3. ToSet(Append(q, e)) = ToSet(q) \cup {e}
    BY ElementsAppend
  <2>. HIDE DEF k
  <2>4. Append(k, e) \in Seq(T) /\ ToSet(Append(k, e)) = ToSet(k) \cup {e}
    BY <2>1, ElementsAppend
  <2>. QED
    BY <2>1, <2>2, <2>3, <2>4
<1>. HIDE DEF P
<1>3. s \in P
  BY <1>1, <1>2, SeqInduct
<1>. QED
  BY <1>3 DEF P

(* Only what is in the sequence matters of the set.                        *)
LEMMA KeepSame ==
  ASSUME NEW T, NEW s \in Seq(T), NEW S, NEW R, ToSet(s) \cap S = ToSet(s) \cap R
  PROVE  Keep(s, S) = Keep(s, R)
<1>. DEFINE P == {q \in Seq(T) : ToSet(q) \cap S = ToSet(q) \cap R => Keep(q, S) = Keep(q, R)}
<1>1. <<>> \in P
  <2>1. Keep(<<>>, S) = <<>> /\ Keep(<<>>, R) = <<>> /\ <<>> \in Seq(T)
    BY KeepEmpty
  <2>. QED
    BY <2>1
<1>2. ASSUME NEW q \in Seq(T), NEW e \in T, q \in P PROVE Append(q, e) \in P
  <2>1. Append(q, e) \in Seq(T) /\ ToSet(Append(q, e)) = ToSet(q) \cup {e}
    BY ElementsAppend
  <2>2. /\ Keep(Append(q, e), S) = IF e \in S THEN Append(Keep(q, S), e) ELSE Keep(q, S)
        /\ Keep(Append(q, e), R) = IF e \in R THEN Append(Keep(q, R), e) ELSE Keep(q, R)
    BY KeepAppend
  <2>3. ASSUME ToSet(Append(q, e)) \cap S = ToSet(Append(q, e)) \cap R
        PROVE  Keep(Append(q, e), S) = Keep(Append(q, e), R)
    <3>1. ToSet(q) \cap S = ToSet(q) \cap R /\ (e \in S <=> e \in R)
      BY <2>1, <2>3
    <3>. QED
      BY <1>2, <2>2, <3>1
  <2>. QED
    BY <2>1, <2>3
<1>. HIDE DEF P
<1>3. s \in P
  BY <1>1, <1>2, SeqInduct
<1>. QED
  BY <1>3 DEF P
-----------------------------------------------------------------------------
(* Labels.                                                                 *)

\* g is the function that LabelsOf defines, up to n.
LabelSteps(g, s, n) ==
  g = [i \in 0 .. n |->
         IF i = 0 THEN <<>>
         ELSE Labelled(g[i - 1], s[i])]

\* How each of its values comes from the one before.
LabelTakes(g, s, n) ==
  /\ g[0] = <<>>
  /\ \A i \in 1 .. n : g[i] = Labelled(g[i - 1], s[i])

(* Two walks over the labels that take the same steps agree.               *)
LEMMA LabelStepsAt ==
  ASSUME NEW s, NEW n \in Nat, NEW g, LabelSteps(g, s, n)
  PROVE  LabelTakes(g, s, n)
<1>. DEFINE e(i) == IF i = 0 THEN <<>>
                    ELSE Labelled(g[i - 1], s[i])
<1>1. g = [i \in 0 .. n |-> e(i)]
  BY DEF LabelSteps
<1>. HIDE DEF e
<1>2. \A i \in 0 .. n : g[i] = e(i)
  BY <1>1
<1>. USE DEF e
<1>3. \A i \in 1 .. n : i \in 0 .. n /\ i # 0
  OBVIOUS
<1>. QED
  BY <1>2, <1>3 DEF LabelTakes

(* The recursive function of LabelsOf exists.                              *)
LEMMA LabelStepsExist ==
  ASSUME NEW s, NEW n \in Nat
  PROVE  \E g : LabelSteps(g, s, n)
<1>. DEFINE N == {k \in Nat : \E g : LabelSteps(g, s, k)}
<1>1. 0 \in N
  <2>1. LabelSteps([i \in 0 .. 0 |-> <<>>], s, 0)
    BY DEF LabelSteps
  <2>. QED
    BY <2>1
<1>2. ASSUME NEW k \in Nat, k \in N PROVE k + 1 \in N
  <2>1. PICK g : LabelSteps(g, s, k)
    BY <1>2
  <2>. DEFINE x == Labelled(g[k], s[k + 1])
              h == [i \in 0 .. k + 1 |-> IF i = k + 1 THEN x ELSE g[i]]
  <2>2. ASSUME NEW i \in 0 .. k + 1
        PROVE  h[i] = IF i = 0 THEN <<>>
                      ELSE Labelled(h[i - 1], s[i])
    <3>1. CASE i = k + 1
      <4>1. i # 0 /\ i - 1 = k /\ k \in 0 .. k + 1 /\ k # k + 1
        BY <3>1
      <4>2. h[i] = x /\ h[i - 1] = g[k]
        BY <3>1, <4>1
      <4>. QED
        BY <3>1, <4>1, <4>2
    <3>2. CASE i # k + 1
      <4>1. i \in 0 .. k /\ (i # 0 => i - 1 \in 0 .. k + 1 /\ i - 1 # k + 1)
        BY <3>2
      <4>2. h[i] = g[i] /\ (i # 0 => h[i - 1] = g[i - 1])
        BY <3>2, <4>1
      <4>. HIDE DEF h
      <4>. QED
        BY <2>1, <4>1, <4>2 DEF LabelSteps
    <3>. QED
      BY <3>1, <3>2
  <2>3. LabelSteps(h, s, k + 1)
    <3>1. h = [i \in 0 .. k + 1 |-> h[i]]
      OBVIOUS
    <3>. HIDE DEF h
    <3>. QED
      BY <2>2, <3>1 DEF LabelSteps
  <2>. QED
    BY <2>3
<1>. HIDE DEF N
<1>3. Nat \subseteq N
  BY <1>1, <1>2, NatInduct
<1>. QED
  BY <1>3 DEF N

(* The labels of no entries, and after one more.                           *)
LEMMA LabelsEmpty == LabelsOf(<<>>) = <<>>
<1>. DEFINE g == CHOOSE f : LabelSteps(f, <<>>, 0)
<1>1. LabelSteps(g, <<>>, 0)
  BY LabelStepsExist
<1>2. LabelsOf(<<>>) = g[0]
  BY DEF LabelsOf, LabelSteps
<1>. HIDE DEF g
<1>. QED
  <2>1. LabelTakes(g, <<>>, 0)
    BY <1>1, LabelStepsAt
  <2>. QED
    BY <1>2, <2>1 DEF LabelTakes

(* The labels one entry further.                                           *)
LEMMA LabelsAppend ==
  ASSUME NEW T, NEW s \in Seq(T), NEW e \in T
  PROVE  LabelsOf(Append(s, e)) = Labelled(LabelsOf(s), e)
<1>. DEFINE n == Len(s)
            t == Append(s, e)
            g == CHOOSE f : LabelSteps(f, s, n)
            h == CHOOSE f : LabelSteps(f, t, n + 1)
<1>1. n \in Nat /\ Len(t) = n + 1 /\ (\A i \in 1 .. n : t[i] = s[i]) /\ t[n + 1] = e
  OBVIOUS
<1>2. LabelsOf(s) = g[n]
  BY DEF LabelsOf, LabelSteps
<1>3. LabelsOf(t) = h[n + 1]
  <2>. HIDE DEF t, n
  <2>1. LabelsOf(t) = (CHOOSE f : LabelSteps(f, t, Len(t)))[Len(t)]
    BY DEF LabelsOf, LabelSteps
  <2>. QED
    BY <1>1, <2>1
<1>. HIDE DEF n, t
<1>4. LabelSteps(g, s, n)
  BY <1>1, LabelStepsExist
<1>5. LabelSteps(h, t, n + 1)
  <2>1. n + 1 \in Nat
    BY <1>1
  <2>. QED
    BY <2>1, LabelStepsExist
<1>. HIDE DEF g, h
<1>6. LabelTakes(g, s, n)
  BY <1>1, <1>4, LabelStepsAt
<1>7. LabelTakes(h, t, n + 1)
  <2>1. n + 1 \in Nat
    BY <1>1
  <2>. QED
    BY <1>5, <2>1, LabelStepsAt
<1>. DEFINE N == {k \in Nat : k <= n => g[k] = h[k]}
<1>8. 0 \in N
  BY <1>6, <1>7 DEF LabelTakes
<1>9. ASSUME NEW k \in Nat, k \in N PROVE k + 1 \in N
  <2>1. CASE k + 1 <= n
    <3>1. k <= n /\ k + 1 \in 1 .. n /\ k + 1 \in 1 .. n + 1 /\ (k + 1) - 1 = k
      BY <1>1, <2>1
    <3>. QED
      BY <1>1, <1>6, <1>7, <1>9, <3>1 DEF LabelTakes
  <2>. QED
    BY <2>1
<1>. HIDE DEF N
<1>10. n \in N
  BY <1>1, <1>8, <1>9, NatInduct
<1>11. g[n] = h[n]
  BY <1>1, <1>10 DEF N
<1>12. n + 1 \in 1 .. n + 1 /\ (n + 1) - 1 = n
  BY <1>1
<1>13. h[n + 1] = Labelled(h[n], t[n + 1])
  BY <1>7, <1>12 DEF LabelTakes
<1>. QED
  BY <1>1, <1>2, <1>3, <1>11, <1>13 DEF t

\* What Labelled does to the set of labelled entries.
LabelledSet(L, e) ==
  CASE e.type = "label"   -> L \cup {e.ref}
    [] e.type = "unlabel" -> L \ {e.ref}
    [] OTHER -> L

(* The targets in the map after an entry.                                  *)
LEMMA LabelledKnown ==
  ASSUME NEW labels \in Seq(Nat), NEW e \in Entry
  PROVE  /\ Labelled(labels, e) \in Seq(Nat)
         /\ ToSet(Labelled(labels, e)) = LabelledSet(ToSet(labels), e)
<1>1. e.ref \in Nat
  BY DEF Entry
<1>. DEFINE r == e.ref
            keep == Keep(labels, ToSet(labels) \ {r})
            more == Append(labels, r)
<1>2. more \in Seq(Nat) /\ ToSet(more) = ToSet(labels) \cup {r}
  BY <1>1, ElementsAppend
<1>3. keep \in Seq(Nat) /\ ToSet(keep) = ToSet(labels) \ {r}
  <2>1. keep \in Seq(Nat) /\ ToSet(keep) = ToSet(labels) \cap (ToSet(labels) \ {r})
    BY KeepKnown
  <2>. QED
    BY <2>1
<1>4. Contains(labels, r) => r \in ToSet(labels)
  BY DEF Contains, ToSet
<1>5. /\ e.type = "label" /\ Contains(labels, r) => Labelled(labels, e) = labels
      /\ e.type = "label" /\ ~ Contains(labels, r) => Labelled(labels, e) = more
      /\ e.type = "unlabel" => Labelled(labels, e) = keep
      /\ e.type \notin {"label", "unlabel"} => Labelled(labels, e) = labels
  BY DEF Labelled
<1>. HIDE DEF keep, more, r
<1>6. /\ e.type = "label" => LabelledSet(ToSet(labels), e) = ToSet(labels) \cup {r}
      /\ e.type = "unlabel" => LabelledSet(ToSet(labels), e) = ToSet(labels) \ {r}
      /\ e.type \notin {"label", "unlabel"} => LabelledSet(ToSet(labels), e) = ToSet(labels)
  BY DEF LabelledSet, r
<1>. QED
  BY <1>2, <1>3, <1>4, <1>5, <1>6

\* The targets whose last change is a label.
Live(es) ==
  {es[i].ref : i \in {k \in 1 .. Len(es) :
     /\ es[k].type = "label"
     /\ \A j \in 1 .. Len(es) : k < j /\ es[j].type = "unlabel" => es[j].ref # es[k].ref}}

(* The live labels one entry further.                                      *)
LEMMA LiveAppend ==
  ASSUME NEW es \in Seq(Entry), NEW e \in Entry
  PROVE  Live(Append(es, e)) = LabelledSet(Live(es), e)
<1>. DEFINE n == Len(es)
            t == Append(es, e)
            Lives(s, m, k) == /\ s[k].type = "label"
                              /\ \A j \in 1 .. m : k < j /\ s[j].type = "unlabel" => s[j].ref # s[k].ref
<1>1. n \in Nat /\ Len(t) = n + 1 /\ (\A i \in 1 .. n : t[i] = es[i]) /\ t[n + 1] = e
  OBVIOUS
<1>2. Live(es) = {es[i].ref : i \in {k \in 1 .. n : Lives(es, n, k)}}
  BY DEF Live
<1>3. Live(t) = {t[i].ref : i \in {k \in 1 .. n + 1 : Lives(t, n + 1, k)}}
  <2>. HIDE DEF t, n
  <2>. QED
    BY <1>1 DEF Live
<1>. HIDE DEF t, n
<1>4. \A k \in 1 .. n : Lives(t, n + 1, k) <=>
        Lives(es, n, k) /\ ~ (e.type = "unlabel" /\ e.ref = es[k].ref)
  <2>. SUFFICES ASSUME NEW k \in 1 .. n
                PROVE  Lives(t, n + 1, k) <=>
                         Lives(es, n, k) /\ ~ (e.type = "unlabel" /\ e.ref = es[k].ref)
    OBVIOUS
  <2>1. t[k] = es[k] /\ k < n + 1 /\ n + 1 \in 1 .. n + 1
    BY <1>1
  <2>2. \A j \in 1 .. n + 1 : j \in 1 .. n \/ j = n + 1
    BY <1>1
  <2>3. \A j \in 1 .. n : j \in 1 .. n + 1 /\ t[j] = es[j]
    BY <1>1
  <2>. QED
    BY <1>1, <2>1, <2>2, <2>3
<1>5. Lives(t, n + 1, n + 1) <=> e.type = "label"
  BY <1>1
<1>6. (\A k \in 1 .. n : k \in 1 .. n + 1) /\ n + 1 \in 1 .. n + 1
      /\ \A k \in 1 .. n + 1 : k \in 1 .. n \/ k = n + 1
  BY <1>1
<1>. HIDE DEF Lives
<1>7. ASSUME NEW x
      PROVE  x \in Live(t) <=> \/ e.type = "label" /\ x = e.ref
                               \/ x \in Live(es) /\ ~ (e.type = "unlabel" /\ x = e.ref)
  <2>1. x \in Live(t) <=> \E k \in 1 .. n + 1 : Lives(t, n + 1, k) /\ x = t[k].ref
    BY <1>3
  <2>2. x \in Live(es) <=> \E k \in 1 .. n : Lives(es, n, k) /\ x = es[k].ref
    BY <1>2
  <2>. QED
    BY <1>1, <1>4, <1>5, <1>6, <2>1, <2>2
<1>8. CASE e.type = "label"
  <2>1. LabelledSet(Live(es), e) = Live(es) \cup {e.ref}
    BY <1>8 DEF LabelledSet
  <2>. QED
    BY <1>7, <1>8, <2>1 DEF t
<1>9. CASE e.type = "unlabel"
  <2>1. LabelledSet(Live(es), e) = Live(es) \ {e.ref}
    BY <1>9 DEF LabelledSet
  <2>. QED
    BY <1>7, <1>9, <2>1 DEF t
<1>10. CASE e.type \notin {"label", "unlabel"}
  <2>1. LabelledSet(Live(es), e) = Live(es)
    BY <1>10 DEF LabelledSet
  <2>. QED
    BY <1>7, <1>10, <2>1 DEF t
<1>. QED
  BY <1>8, <1>9, <1>10

(* The index that is built from entries holds the live labels.             *)
LEMMA LabelsKnown ==
  ASSUME NEW es \in Seq(Entry)
  PROVE  LabelsOf(es) \in Seq(Nat) /\ ToSet(LabelsOf(es)) = Live(es)
<1>. DEFINE P == {s \in Seq(Entry) : LabelsOf(s) \in Seq(Nat) /\ ToSet(LabelsOf(s)) = Live(s)}
<1>1. <<>> \in P
  <2>1. <<>> \in Seq(Entry) /\ <<>> \in Seq(Nat) /\ Live(<<>>) = {}
    BY DEF Live
  <2>. QED
    BY <2>1, LabelsEmpty, ElementsNone
<1>2. ASSUME NEW s \in Seq(Entry), NEW e \in Entry, s \in P PROVE Append(s, e) \in P
  <2>. DEFINE l == LabelsOf(s)
  <2>1. l \in Seq(Nat) /\ ToSet(l) = Live(s) /\ Append(s, e) \in Seq(Entry)
    BY <1>2
  <2>2. LabelsOf(Append(s, e)) = Labelled(l, e)
    BY LabelsAppend
  <2>. HIDE DEF l
  <2>3. Labelled(l, e) \in Seq(Nat) /\ ToSet(Labelled(l, e)) = LabelledSet(Live(s), e)
    BY <2>1, LabelledKnown
  <2>. QED
    BY <2>1, <2>2, <2>3, LiveAppend
<1>. HIDE DEF P
<1>3. es \in P
  BY <1>1, <1>2, SeqInduct
<1>. QED
  BY <1>3 DEF P

(* Entries that are told again before do not change what is live.          *)
LEMMA LiveJoin ==
  ASSUME NEW a \in Seq(Entry), NEW b \in Seq(Entry), ToSet(a) \subseteq ToSet(b)
  PROVE  Live(a \o b) = Live(b)
<1>. DEFINE m == Len(a)
            n == Len(b)
            t == a \o b
            Lives(s, l, k) == /\ s[k].type = "label"
                              /\ \A j \in 1 .. l : k < j /\ s[j].type = "unlabel" => s[j].ref # s[k].ref
<1>1. /\ m \in Nat /\ n \in Nat /\ Len(t) = m + n
      /\ \A i \in 1 .. m : t[i] = a[i]
      /\ \A i \in 1 .. n : t[m + i] = b[i]
  BY ConcatKnown
<1>2. Live(b) = {b[i].ref : i \in {k \in 1 .. n : Lives(b, n, k)}}
  BY DEF Live
<1>3. Live(t) = {t[i].ref : i \in {k \in 1 .. m + n : Lives(t, m + n, k)}}
  <2>. HIDE DEF t, m, n
  <2>. QED
    BY <1>1 DEF Live
<1>4. \A i \in 1 .. m : \E k \in 1 .. n : a[i] = b[k]
  <2>1. DOMAIN a = 1 .. m /\ DOMAIN b = 1 .. n
    OBVIOUS
  <2>. QED
    BY <2>1 DEF ToSet
<1>. HIDE DEF t, m, n
<1>5. /\ \A k \in 1 .. n : m + k \in 1 .. m + n
      /\ \A k \in 1 .. m + n : k \in 1 .. m \/ (k - m \in 1 .. n /\ k = m + (k - m))
  BY <1>1
<1>6. ASSUME NEW k \in 1 .. n PROVE Lives(t, m + n, m + k) <=> Lives(b, n, k)
  <2>1. t[m + k] = b[k]
    BY <1>1
  <2>2. ASSUME Lives(b, n, k), NEW j \in 1 .. m + n, m + k < j, t[j].type = "unlabel"
        PROVE  t[j].ref # t[m + k].ref
    <3>1. j - m \in 1 .. n /\ j = m + (j - m) /\ k < j - m
      BY <1>1, <2>2
    <3>2. t[j] = b[j - m]
      BY <1>1, <3>1
    <3>. QED
      BY <2>1, <2>2, <3>1, <3>2
  <2>3. ASSUME Lives(t, m + n, m + k), NEW j \in 1 .. n, k < j, b[j].type = "unlabel"
        PROVE  b[j].ref # b[k].ref
    <3>1. m + j \in 1 .. m + n /\ m + k < m + j /\ t[m + j] = b[j]
      BY <1>1, <2>3
    <3>. QED
      BY <2>1, <2>3, <3>1
  <2>. QED
    BY <2>1, <2>2, <2>3
<1>7. ASSUME NEW i \in 1 .. m, Lives(t, m + n, i)
      PROVE  \E k \in 1 .. n : Lives(b, n, k) /\ b[k].ref = t[i].ref
  <2>1. PICK k \in 1 .. n : a[i] = b[k]
    BY <1>4
  <2>2. t[i] = b[k]
    BY <1>1, <2>1
  <2>3. ASSUME NEW j \in 1 .. n, b[j].type = "unlabel" PROVE b[j].ref # b[k].ref
    <3>1. m + j \in 1 .. m + n /\ i < m + j /\ t[m + j] = b[j]
      BY <1>1
    <3>. QED
      BY <1>7, <2>2, <2>3, <3>1
  <2>. QED
    BY <1>7, <2>2, <2>3
<1>. HIDE DEF Lives
<1>8. ASSUME NEW x PROVE x \in Live(t) <=> x \in Live(b)
  <2>1. x \in Live(t) <=> \E k \in 1 .. m + n : Lives(t, m + n, k) /\ x = t[k].ref
    BY <1>3
  <2>2. x \in Live(b) <=> \E k \in 1 .. n : Lives(b, n, k) /\ x = b[k].ref
    BY <1>2
  <2>3. ASSUME NEW k \in 1 .. m + n, Lives(t, m + n, k), x = t[k].ref
        PROVE  x \in Live(b)
    <3>1. CASE k \in 1 .. m
      BY <1>7, <2>2, <2>3, <3>1
    <3>2. CASE k - m \in 1 .. n /\ k = m + (k - m)
      <4>. DEFINE d == k - m
      <4>1. d \in 1 .. n /\ k = m + d
        BY <3>2
      <4>. HIDE DEF d
      <4>2. Lives(b, n, d) /\ t[m + d] = b[d]
        BY <1>1, <1>6, <2>3, <4>1
      <4>. QED
        BY <2>2, <2>3, <4>1, <4>2
    <3>. QED
      BY <1>5, <3>1, <3>2
  <2>4. ASSUME NEW k \in 1 .. n, Lives(b, n, k), x = b[k].ref
        PROVE  x \in Live(t)
    <3>1. m + k \in 1 .. m + n /\ Lives(t, m + n, m + k) /\ t[m + k] = b[k]
      BY <1>1, <1>5, <1>6, <2>4
    <3>. QED
      BY <2>1, <2>4, <3>1
  <2>. QED
    BY <2>1, <2>2, <2>3, <2>4
<1>. QED
  BY <1>8 DEF t
-----------------------------------------------------------------------------
(* Branches.  Entries are younger than their parents, and an id names one  *)
(* entry, however often a file holds it.                                   *)

Grown(n) ==
  {e \in Entry : /\ e.id <= n
                 /\ e.id = None => e = Header
                 /\ e.id # None => e.parentId < e.id /\ e.type # "session"}

Sound(E, n) == E \subseteq Grown(n) /\ \A d, e \in E : d.id = e.id => d = e

(* Parts of what is sound are sound, also with more ids given out.         *)
LEMMA SoundParts ==
  ASSUME NEW n \in Nat, NEW m \in Nat, n <= m, NEW E, Sound(E, n), NEW D, D \subseteq E
  PROVE  Sound(D, m)
<1>1. Grown(n) \subseteq Grown(m)
  <2>. SUFFICES ASSUME NEW e \in Grown(n) PROVE e \in Grown(m)
    OBVIOUS
  <2>1. e.id \in Nat
    BY DEF Grown, Entry
  <2>. QED
    BY <2>1 DEF Grown
<1>. QED
  BY <1>1 DEF Sound

(* ById finds the entry with an id.                                        *)
LEMMA ByIdKnown ==
  ASSUME NEW n \in Nat, NEW es \in Seq(Entry), Sound(ToSet(es), n)
  PROVE  /\ \A id \in Ids(es) : /\ ById(es, id) \in ToSet(es) /\ ById(es, id).id = id
                                /\ id \in Nat /\ id # None /\ id <= n
                                /\ ById(es, id).parentId \in Nat
                                /\ ById(es, id).parentId < id
                                /\ ById(es, id).type # "session"
         /\ \A e \in ToSet(es) : e.id # None => e.id \in Ids(es) /\ ById(es, e.id) = e
<1>1. ASSUME NEW id \in Ids(es)
      PROVE  ById(es, id) \in ToSet(es) /\ ById(es, id).id = id
  <2>1. \E i \in DOMAIN es : es[i].id = id
    BY DEF Ids
  <2>. DEFINE k == CHOOSE i \in DOMAIN es : es[i].id = id
  <2>2. k \in DOMAIN es /\ es[k].id = id
    BY <2>1
  <2>3. ById(es, id) = es[k]
    BY DEF ById
  <2>. HIDE DEF k
  <2>. QED
    BY <2>2, <2>3 DEF ToSet
<1>2. \A e \in ToSet(es) : e.id # None => e.id \in Ids(es)
  BY DEF ToSet, Ids
<1>3. \A e \in ToSet(es) : /\ e \in Grown(n)
                           /\ \A d \in ToSet(es) : d.id = e.id => d = e
  BY DEF Sound
<1>4. \A e \in Grown(n) : /\ e.id \in Nat /\ e.parentId \in Nat /\ e.id <= n
                          /\ e.id # None => e.parentId < e.id /\ e.type # "session"
  BY DEF Grown, Entry
<1>5. \A id \in Ids(es) : id # None
  BY DEF Ids
<1>6. ASSUME NEW id \in Ids(es)
      PROVE  /\ id \in Nat /\ id # None /\ id <= n
             /\ ById(es, id).parentId \in Nat /\ ById(es, id).parentId < id
             /\ ById(es, id).type # "session"
  BY <1>1, <1>3, <1>4, <1>5
<1>7. ASSUME NEW e \in ToSet(es), e.id # None
      PROVE  ById(es, e.id) = e
  BY <1>1, <1>2, <1>3, <1>7
<1>. QED
  BY <1>1, <1>2, <1>6, <1>7

\* g is the function that getBranch defines, up to n.
WalkSteps(g, es, n) ==
  g = [id \in 0 .. n |-> IF id \notin Ids(es) THEN <<>>
                         ELSE Append(g[ById(es, id).parentId], ById(es, id))]

\* What it does at an id.
Walks(g, es, id) ==
  g[id] = IF id \notin Ids(es) THEN <<>>
          ELSE Append(g[ById(es, id).parentId], ById(es, id))

(* Two walks along the tree that take the same steps agree.                *)
LEMMA WalkStepsAt ==
  ASSUME NEW es, NEW n \in Nat, NEW g, WalkSteps(g, es, n), NEW id \in 0 .. n
  PROVE  Walks(g, es, id)
<1>. DEFINE e(i) == IF i \notin Ids(es) THEN <<>>
                    ELSE Append(g[ById(es, i).parentId], ById(es, i))
<1>1. g = [i \in 0 .. n |-> e(i)]
  BY DEF WalkSteps
<1>. HIDE DEF e
<1>2. g[id] = e(id)
  BY <1>1
<1>. QED
  BY <1>2 DEF e, Walks

(* There is a walk from every entry: ids fall on the way to the root.      *)
LEMMA WalkStepsExist ==
  ASSUME NEW n \in Nat, NEW es \in Seq(Entry), Sound(ToSet(es), n), NEW m \in Nat
  PROVE  \E g : WalkSteps(g, es, m)
<1>. DEFINE N == {k \in Nat : \E g : WalkSteps(g, es, k)}
            I == Ids(es)
            parent(id) == ById(es, id).parentId
            entry(id) == ById(es, id)
<1>0. \A id \in I : id \in Nat /\ id # 0 /\ parent(id) \in Nat /\ parent(id) < id
  BY ByIdKnown DEF None
<1>. HIDE DEF I, parent, entry
<1>1. 0 \in N
  <2>1. 0 \notin I
    BY <1>0
  <2>2. WalkSteps([id \in 0 .. 0 |-> <<>>], es, 0)
    BY <2>1 DEF WalkSteps, I
  <2>. QED
    BY <2>2
<1>2. ASSUME NEW k \in Nat, k \in N PROVE k + 1 \in N
  <2>1. PICK g : WalkSteps(g, es, k)
    BY <1>2
  <2>. DEFINE x == IF k + 1 \notin I THEN <<>> ELSE Append(g[parent(k + 1)], entry(k + 1))
              h == [i \in 0 .. k + 1 |-> IF i = k + 1 THEN x ELSE g[i]]
  <2>2. ASSUME NEW i \in 0 .. k + 1
        PROVE  h[i] = IF i \notin I THEN <<>> ELSE Append(h[parent(i)], entry(i))
    <3>0. i \in I => parent(i) \in 0 .. k + 1 /\ parent(i) # k + 1 /\ parent(i) < i
      BY <1>0
    <3>1. CASE i = k + 1
      <4>1. h[i] = x /\ (i \in I => h[parent(i)] = g[parent(i)])
        BY <3>0, <3>1
      <4>. HIDE DEF h
      <4>. QED
        BY <3>1, <4>1
    <3>2. CASE i # k + 1
      <4>1. i \in 0 .. k
        BY <3>2
      <4>2. h[i] = g[i] /\ (i \in I => h[parent(i)] = g[parent(i)])
        BY <3>0, <3>2, <4>1
      <4>3. Walks(g, es, i)
        BY <2>1, <4>1, WalkStepsAt
      <4>. HIDE DEF h
      <4>. QED
        BY <4>2, <4>3 DEF Walks, I, parent, entry
    <3>. QED
      BY <3>1, <3>2
  <2>3. WalkSteps(h, es, k + 1)
    <3>1. h = [i \in 0 .. k + 1 |-> h[i]]
      OBVIOUS
    <3>. HIDE DEF h
    <3>2. h = [i \in 0 .. k + 1 |-> IF i \notin I THEN <<>> ELSE Append(h[parent(i)], entry(i))]
      BY <2>2, <3>1
    <3>. QED
      BY <3>2 DEF WalkSteps, I, parent, entry
  <2>. QED
    BY <2>3
<1>. HIDE DEF N
<1>3. Nat \subseteq N
  BY <1>1, <1>2, NatInduct
<1>. QED
  BY <1>3 DEF N

(* Two such functions agree.                                               *)
LEMMA WalkStepsSame ==
  ASSUME NEW n \in Nat, NEW es \in Seq(Entry), Sound(ToSet(es), n),
         NEW k \in Nat, NEW g, WalkSteps(g, es, k),
         NEW m \in Nat, NEW h, WalkSteps(h, es, m)
  PROVE  \A id \in 0 .. k : id <= m => g[id] = h[id]
<1>. DEFINE T == {id \in Nat : id <= k /\ id <= m /\ g[id] # h[id]}
<1>1. ASSUME T # {} PROVE FALSE
  <2>1. PICK t \in T : \A j \in T : t <= j
    <3>1. T \in SUBSET Nat
      OBVIOUS
    <3>. HIDE DEF T
    <3>. QED
      BY <1>1, <3>1, LeastExists
  <2>2. t \in Nat /\ t \in 0 .. k /\ t \in 0 .. m /\ g[t] # h[t]
    BY <2>1
  <2>3. Walks(g, es, t) /\ Walks(h, es, t)
    BY <2>2, WalkStepsAt
  <2>4. CASE t \notin Ids(es)
    BY <2>2, <2>3, <2>4 DEF Walks
  <2>5. CASE t \in Ids(es)
    <3>. DEFINE p == ById(es, t).parentId
    <3>1. p \in Nat /\ p < t
      BY <2>5, ByIdKnown
    <3>. HIDE DEF p
    <3>2. p \notin T /\ p <= k /\ p <= m
      BY <2>1, <2>2, <3>1
    <3>3. g[p] = h[p]
      BY <3>1, <3>2
    <3>. QED
      BY <2>2, <2>3, <2>5, <3>3 DEF Walks, p
  <2>. QED
    BY <2>4, <2>5
<1>. QED
  BY <1>1

(* The branch to an entry is that to its parent and the entry.             *)
LEMMA BranchStep ==
  ASSUME NEW n \in Nat, NEW es \in Seq(Entry), Sound(ToSet(es), n), NEW id \in Nat
  PROVE  /\ id \notin Ids(es) => getBranch(es, id) = <<>>
         /\ id \in Ids(es) => getBranch(es, id)
                               = Append(getBranch(es, ById(es, id).parentId), ById(es, id))
<1>. DEFINE f(k) == CHOOSE g : WalkSteps(g, es, k)
            w == [i \in Nat |-> f(i)[i]]
            Defines(v) == v = [i \in Nat |-> IF i \notin Ids(es) THEN <<>>
                                            ELSE Append(v[ById(es, i).parentId], ById(es, i))]
<1>1. \A k \in Nat : WalkSteps(f(k), es, k)
  BY WalkStepsExist
<1>. HIDE DEF f
<1>2. ASSUME NEW i \in Nat
      PROVE  w[i] = IF i \notin Ids(es) THEN <<>>
                    ELSE Append(w[ById(es, i).parentId], ById(es, i))
  <2>1. Walks(f(i), es, i)
    BY <1>1, WalkStepsAt
  <2>2. w[i] = f(i)[i]
    OBVIOUS
  <2>3. CASE i \notin Ids(es)
    BY <2>1, <2>2, <2>3 DEF Walks
  <2>4. CASE i \in Ids(es)
    <3>. DEFINE p == ById(es, i).parentId
    <3>1. p \in Nat /\ p < i
      BY <2>4, ByIdKnown
    <3>. HIDE DEF p
    <3>2. w[p] = f(p)[p] /\ p \in 0 .. p /\ p <= i
      BY <3>1
    <3>3. WalkSteps(f(p), es, p) /\ WalkSteps(f(i), es, i)
      BY <1>1, <3>1
    <3>4. f(p)[p] = f(i)[p]
      BY <3>1, <3>2, <3>3, WalkStepsSame
    <3>. HIDE DEF w
    <3>. QED
      BY <2>1, <2>2, <2>4, <3>2, <3>4 DEF Walks, p
  <2>. QED
    BY <2>3, <2>4
<1>3. Defines(w)
  <2>1. w = [i \in Nat |-> w[i]]
    OBVIOUS
  <2>. HIDE DEF w
  <2>. QED
    BY <1>2, <2>1
<1>. DEFINE v == CHOOSE u : Defines(u)
<1>4. Defines(v)
  BY <1>3
<1>5. \A i \in Nat : getBranch(es, i) = v[i]
  BY DEF getBranch
<1>. HIDE DEF v, w
<1>6. v[id] = IF id \notin Ids(es) THEN <<>>
              ELSE Append(v[ById(es, id).parentId], ById(es, id))
  BY <1>4
<1>7. id \in Ids(es) => ById(es, id).parentId \in Nat
  BY ByIdKnown
<1>. QED
  BY <1>5, <1>6, <1>7

\* p goes from a root, or an entry whose parent is not there, to the entry from.
Linked(p, es, from) ==
  /\ p \in Seq(ToSet(es))
  /\ p = <<>> => from \notin Ids(es)
  /\ p # <<>> => p[Len(p)].id = from /\ p[1].parentId \notin Ids(es)
  /\ \A i \in 1 .. Len(p) : p[i].id # None /\ (i > 1 => p[i].parentId = p[i - 1].id)

(* A linked path one entry further.                                        *)
LEMMA LinkedAppend ==
  ASSUME NEW es, NEW p \in Seq(ToSet(es)), NEW e \in ToSet(es), NEW from
  PROVE  Linked(Append(p, e), es, from) <=>
           e.id # None /\ e.id = from /\ Linked(p, es, e.parentId)
<1>. DEFINE T == ToSet(es)
            I == Ids(es)
            n == Len(p)
            t == Append(p, e)
<1>1. /\ n \in Nat /\ Len(t) = n + 1 /\ t \in Seq(T) /\ t # <<>> /\ t[n + 1] = e
      /\ \A i \in 1 .. n : t[i] = p[i]
      /\ p = <<>> <=> n = 0
  OBVIOUS
<1>. DEFINE L(q, from_) ==
       /\ q # <<>> => q[Len(q)].id = from_ /\ q[1].parentId \notin I
       /\ \A i \in 1 .. Len(q) : q[i].id # None /\ (i > 1 => q[i].parentId = q[i - 1].id)
<1>2. Linked(t, es, from) <=> L(t, from)
  BY <1>1 DEF Linked
<1>3. Linked(p, es, e.parentId) <=> L(p, e.parentId) /\ (p = <<>> => e.parentId \notin I)
  BY DEF Linked
<1>. HIDE DEF t, n, T, I
<1>4. \A i \in 1 .. n + 1 : i \in 1 .. n \/ i = n + 1
  BY <1>1
<1>5. \A i \in 1 .. n : i \in 1 .. n + 1 /\ (i > 1 => i - 1 \in 1 .. n)
  BY <1>1
<1>6. n + 1 \in 1 .. n + 1 /\ (n > 0 => n \in 1 .. n /\ 1 \in 1 .. n) /\ (n + 1) - 1 = n
  BY <1>1
<1>7. ASSUME L(t, from)
      PROVE  e.id # None /\ e.id = from /\ L(p, e.parentId) /\ (p = <<>> => e.parentId \notin I)
  <2>1. e.id # None /\ e.id = from
    BY <1>1, <1>6, <1>7
  <2>2. \A i \in 1 .. n : p[i].id # None /\ (i > 1 => p[i].parentId = p[i - 1].id)
    BY <1>1, <1>5, <1>7
  <2>3. CASE n = 0
    BY <1>1, <1>7, <2>1, <2>2, <2>3 DEF n
  <2>4. CASE n > 0
    <3>1. t[n] = p[n] /\ t[1] = p[1] /\ n + 1 > 1
      BY <1>1, <1>6, <2>4
    <3>2. e.parentId = p[n].id /\ p[1].parentId \notin I
      BY <1>1, <1>6, <1>7, <3>1
    <3>. QED
      BY <1>1, <2>1, <2>2, <2>4, <3>2 DEF n
  <2>. QED
    BY <1>1, <2>3, <2>4
<1>8. ASSUME e.id # None, e.id = from, L(p, e.parentId), p = <<>> => e.parentId \notin I
      PROVE  L(t, from)
  <2>1. \A i \in 1 .. n : t[i].id # None /\ (i > 1 => t[i].parentId = t[i - 1].id)
    BY <1>1, <1>5, <1>8 DEF n
  <2>2. CASE n = 0
    <3>1. t[1] = e /\ p = <<>> /\ Len(t) = 1
      BY <1>1, <2>2
    <3>. QED
      BY <1>8, <3>1
  <2>3. CASE n > 0
    <3>1. t[n] = p[n] /\ t[1] = p[1] /\ p # <<>>
      BY <1>1, <1>6, <2>3
    <3>2. t[n].id = e.parentId /\ t[1].parentId \notin I
      BY <1>8, <3>1 DEF n
    <3>. QED
      BY <1>1, <1>4, <1>6, <1>8, <2>1, <3>2
  <2>. QED
    BY <1>1, <2>2, <2>3
<1>. HIDE DEF L
<1>. QED
  BY <1>2, <1>3, <1>7, <1>8 DEF t, I

LEMMA LinkedNone ==
  ASSUME NEW es, NEW from
  PROVE  Linked(<<>>, es, from) <=> from \notin Ids(es)
  BY DEF Linked

(* Branches are what is linked, and all that is linked.                    *)
LEMMA LinkedIs ==
  ASSUME NEW n \in Nat, NEW es \in Seq(Entry), Sound(ToSet(es), n),
         NEW from \in Nat, NEW p, Linked(p, es, from)
  PROVE  getBranch(es, from) = p
<1>. DEFINE T == ToSet(es)
            P == {q \in Seq(T) : \A id \in Nat : Linked(q, es, id) => getBranch(es, id) = q}
<1>1. <<>> \in P
  <2>1. <<>> \in Seq(T)
    OBVIOUS
  <2>. HIDE DEF T
  <2>. QED
    BY <2>1, LinkedNone, BranchStep
<1>2. ASSUME NEW q \in Seq(T), NEW e \in T, q \in P PROVE Append(q, e) \in P
  <2>1. Append(q, e) \in Seq(T)
    OBVIOUS
  <2>2. ASSUME NEW id \in Nat, Linked(Append(q, e), es, id)
        PROVE  getBranch(es, id) = Append(q, e)
    <3>1. e.id # None /\ e.id = id /\ Linked(q, es, e.parentId)
      BY <2>2, LinkedAppend
    <3>2. id \in Ids(es) /\ ById(es, id) = e /\ e.parentId \in Nat
      BY <3>1, ByIdKnown
    <3>3. getBranch(es, e.parentId) = q
      BY <1>2, <3>1, <3>2
    <3>. QED
      BY <3>2, <3>3, BranchStep
  <2>. QED
    BY <2>1, <2>2
<1>3. p \in Seq(T)
  BY DEF Linked
<1>. HIDE DEF P, T
<1>4. p \in P
  BY <1>1, <1>2, <1>3, SeqInduct
<1>. QED
  BY <1>4 DEF P

(* What getBranch returns is linked.                                       *)
LEMMA BranchLinked ==
  ASSUME NEW n \in Nat, NEW es \in Seq(Entry), Sound(ToSet(es), n), NEW from \in Nat
  PROVE  Linked(getBranch(es, from), es, from)
<1>. DEFINE T == {id \in Nat : ~ Linked(getBranch(es, id), es, id)}
<1>1. ASSUME T # {} PROVE FALSE
  <2>1. PICK t \in T : \A j \in T : t <= j
    <3>1. T \in SUBSET Nat
      OBVIOUS
    <3>. HIDE DEF T
    <3>. QED
      BY <1>1, <3>1, LeastExists
  <2>2. t \in Nat /\ ~ Linked(getBranch(es, t), es, t)
    BY <2>1
  <2>3. CASE t \notin Ids(es)
    BY <2>2, <2>3, BranchStep, LinkedNone
  <2>4. CASE t \in Ids(es)
    <3>. DEFINE e == ById(es, t)
                q == getBranch(es, e.parentId)
    <3>1. /\ e \in ToSet(es) /\ e.id = t /\ t # None
          /\ e.parentId \in Nat /\ e.parentId < t
      BY <2>4, ByIdKnown
    <3>2. getBranch(es, t) = Append(q, e)
      BY <2>2, <2>4, BranchStep
    <3>3. Linked(q, es, e.parentId)
      <4>1. e.parentId \notin T
        BY <2>1, <2>2, <3>1
      <4>. QED
        BY <3>1, <4>1
    <3>. HIDE DEF e, q
    <3>4. q \in Seq(ToSet(es))
      BY <3>3 DEF Linked
    <3>. QED
      BY <2>2, <3>1, <3>2, <3>3, <3>4, LinkedAppend
  <2>. QED
    BY <2>3, <2>4
<1>. QED
  BY <1>1

(* Entries whose ids are new do not change a branch.                       *)
LEMMA BranchStays ==
  ASSUME NEW n \in Nat, NEW es \in Seq(Entry), Sound(ToSet(es), n),
         NEW m \in Nat, NEW fs \in Seq(Entry), Sound(ToSet(fs), m),
         ToSet(es) \subseteq ToSet(fs), \A id \in Ids(fs) \ Ids(es) : id > n,
         NEW from \in 0 .. n
  PROVE  getBranch(fs, from) = getBranch(es, from)
<1>. DEFINE p == getBranch(es, from)
            A == ToSet(es)
            B == ToSet(fs)
<1>1. Linked(p, es, from)
  BY BranchLinked
<1>. HIDE DEF p
<1>2. p \in Seq(A)
  BY <1>1 DEF Linked
<1>3. \A e \in A : e.id # None => e.parentId \in Nat /\ e.parentId < n
  <2>. SUFFICES ASSUME NEW e \in A, e.id # None PROVE e.parentId \in Nat /\ e.parentId < n
    OBVIOUS
  <2>1. e \in Grown(n)
    BY DEF Sound
  <2>. QED
    BY <2>1 DEF Grown, Entry
<1>. HIDE DEF A, B
<1>4. p \in Seq(B)
  BY <1>2 DEF A, B
<1>5. ASSUME p # <<>>
      PROVE  p[1].parentId \notin Ids(fs)
  <2>1. 1 \in 1 .. Len(p) /\ p[1] \in A
    BY <1>2, <1>5
  <2>2. p[1].id # None /\ p[1].parentId \notin Ids(es)
    BY <1>1, <1>5, <2>1 DEF Linked
  <2>3. p[1].parentId \in Nat /\ p[1].parentId < n
    BY <1>3, <2>1, <2>2
  <2>. QED
    BY <2>2, <2>3
<1>6. p = <<>> => from \notin Ids(fs)
  <2>1. p = <<>> => from \notin Ids(es)
    BY <1>1 DEF Linked
  <2>. QED
    BY <2>1
<1>7. Linked(p, fs, from)
  BY <1>1, <1>4, <1>5, <1>6 DEF Linked, B
<1>8. from \in Nat
  OBVIOUS
<1>. QED
  BY <1>7, <1>8, LinkedIs DEF p
-----------------------------------------------------------------------------
(* Contexts.                                                               *)

ShownTypes == {"user", "assistant", "branch_summary"}

LastCompaction(p) == Max({0} \cup {i \in DOMAIN p : p[i].type = "compaction"})

Tells(p) ==
  {p[i] : i \in {k \in DOMAIN p :
     /\ p[k].type \in ShownTypes
     /\ k > LastCompaction(p) \/ \E j \in 1 .. k : p[j].id = p[LastCompaction(p)].ref}}

(* The context in the terms of this module.                                *)
LEMMA ContextIs ==
  ASSUME NEW p
  PROVE  contextOf(p) = (IF LastCompaction(p) = 0 THEN <<>> ELSE <<p[LastCompaction(p)]>>)
                        \o Keep(p, Tells(p))
  BY DEF contextOf, LastCompaction, Tells, ShownTypes

(* An entry that is no compaction leaves the last one where it was.        *)
LEMMA LastCompactionKnown ==
  ASSUME NEW p \in Seq(Entry), NEW e \in Entry, e.type # "compaction"
  PROVE  /\ LastCompaction(p) \in 0 .. Len(p)
         /\ LastCompaction(Append(p, e)) = LastCompaction(p)
<1>. DEFINE S == {0} \cup {i \in DOMAIN p : p[i].type = "compaction"}
            t == Append(p, e)
            n == Len(p)
<1>1. /\ n \in Nat /\ DOMAIN p = 1 .. n /\ DOMAIN t = 1 .. n + 1
      /\ \A i \in 1 .. n : t[i] = p[i]
      /\ t[n + 1] = e
  OBVIOUS
<1>2. S \in SUBSET (0 .. n) /\ S # {}
  BY <1>1
<1>3. LastCompaction(p) = Max(S)
  BY DEF LastCompaction
<1>4. {0} \cup {i \in DOMAIN t : t[i].type = "compaction"} = S
  <2>1. \A i \in 1 .. n + 1 : i \in 1 .. n \/ i = n + 1
    BY <1>1
  <2>2. \A i \in 1 .. n : i \in 1 .. n + 1
    BY <1>1
  <2>. HIDE DEF t, n
  <2>. QED
    BY <1>1, <2>1, <2>2
<1>. HIDE DEF S, n, t
<1>5. Max(S) \in S
  BY <1>1, <1>2, MaxKnown
<1>. QED
  BY <1>2, <1>3, <1>4, <1>5 DEF LastCompaction, n, t

(* A message comes to the end of the context, any other entry but a        *)
(* compaction leaves it as it was.                                         *)
LEMMA ContextAppend ==
  ASSUME NEW p \in Seq(Entry), NEW e \in Entry, e.type # "compaction"
  PROVE  /\ e.type \notin ShownTypes => contextOf(Append(p, e)) = contextOf(p)
         /\ e.type \in ShownTypes /\ e \notin ToSet(p)
              => contextOf(Append(p, e)) = Append(contextOf(p), e)
<1>. DEFINE n == Len(p)
            t == Append(p, e)
            l == LastCompaction(p)
            Told(q, k) == /\ q[k].type \in ShownTypes
                          /\ k > l \/ \E j \in 1 .. k : q[j].id = q[l].ref
<1>1. /\ n \in Nat /\ DOMAIN p = 1 .. n /\ DOMAIN t = 1 .. n + 1
      /\ (\A i \in 1 .. n : t[i] = p[i]) /\ t[n + 1] = e /\ t \in Seq(Entry)
  OBVIOUS
<1>2. l \in 0 .. n /\ LastCompaction(t) = l
  BY LastCompactionKnown
<1>3. Tells(p) = {p[i] : i \in {k \in 1 .. n : Told(p, k)}}
  BY <1>1 DEF Tells
<1>4. Tells(t) = {t[i] : i \in {k \in 1 .. n + 1 : Told(t, k)}}
  <2>. HIDE DEF t, n, l
  <2>. QED
    BY <1>1, <1>2 DEF Tells
<1>. HIDE DEF t, n, l
<1>5. ASSUME NEW k \in 1 .. n PROVE Told(t, k) <=> Told(p, k)
  <2>1. t[k] = p[k] /\ \A j \in 1 .. k : j \in 1 .. n /\ t[j] = p[j]
    BY <1>1
  <2>2. CASE k > l
    BY <2>1, <2>2
  <2>3. CASE ~ (k > l)
    <3>1. CASE l = 0
      BY <1>1, <2>3, <3>1
    <3>2. CASE l # 0
      <4>1. l \in 1 .. n /\ t[l] = p[l]
        BY <1>1, <1>2, <3>2
      <4>. QED
        BY <2>1, <4>1
    <3>. QED
      BY <3>1, <3>2
  <2>. QED
    BY <2>2, <2>3
<1>6. Told(t, n + 1) <=> e.type \in ShownTypes
  <2>1. n + 1 > l
    BY <1>1, <1>2
  <2>. QED
    BY <1>1, <2>1
<1>7. \A k \in 1 .. n : Told(p, k) => p[k].type \in ShownTypes
  OBVIOUS
<1>. HIDE DEF Told
<1>8. /\ \A k \in 1 .. n + 1 : k \in 1 .. n \/ k = n + 1
      /\ (\A k \in 1 .. n : k \in 1 .. n + 1) /\ n + 1 \in 1 .. n + 1
  BY <1>1
<1>9. Tells(t) = Tells(p) \cup (IF e.type \in ShownTypes THEN {e} ELSE {})
  <2>1. ASSUME NEW x PROVE x \in Tells(t) <=> x \in Tells(p) \/ (e.type \in ShownTypes /\ x = e)
    <3>1. x \in Tells(t) <=> \E k \in 1 .. n + 1 : Told(t, k) /\ x = t[k]
      BY <1>4
    <3>2. x \in Tells(p) <=> \E k \in 1 .. n : Told(p, k) /\ x = p[k]
      BY <1>3
    <3>. QED
      BY <1>1, <1>5, <1>6, <1>8, <3>1, <3>2
  <2>. QED
    BY <2>1
<1>10. \A x \in Tells(p) : x.type \in ShownTypes
  BY <1>3, <1>7
<1>. DEFINE head == IF l = 0 THEN <<>> ELSE <<p[l]>>
            kept == Keep(p, Tells(p))
<1>11. contextOf(p) = head \o kept
  BY ContextIs DEF l
<1>12. contextOf(t) = head \o Keep(t, Tells(t))
  <2>1. l # 0 => t[l] = p[l]
    BY <1>1, <1>2
  <2>. QED
    BY <1>2, <2>1, ContextIs
<1>13. kept \in Seq(Entry)
  BY KeepKnown
<1>14. head \in Seq(Entry)
  <2>1. l # 0 => p[l] \in Entry
    BY <1>1, <1>2 DEF n
  <2>. QED
    BY <2>1
<1>15. \A S : Keep(t, S) = IF e \in S THEN Append(Keep(p, S), e) ELSE Keep(p, S)
  BY KeepAppend DEF t
<1>. HIDE DEF head
<1>16. CASE e.type \notin ShownTypes
  <2>1. Tells(t) = Tells(p) /\ e \notin Tells(p)
    BY <1>9, <1>10, <1>16
  <2>. QED
    BY <1>11, <1>12, <1>15, <1>16, <2>1 DEF t
<1>17. CASE e.type \in ShownTypes
  <2>. SUFFICES ASSUME e \notin ToSet(p) PROVE contextOf(t) = Append(contextOf(p), e)
    BY <1>17 DEF t
  <2>1. Tells(t) = Tells(p) \cup {e}
    BY <1>9, <1>17
  <2>2. ToSet(p) \cap Tells(t) = ToSet(p) \cap Tells(p)
    BY <2>1
  <2>3. Keep(p, Tells(t)) = kept
    BY <2>2, KeepSame
  <2>4. Keep(t, Tells(t)) = Append(kept, e)
    BY <1>15, <2>1, <2>3
  <2>. HIDE DEF kept
  <2>5. head \o Append(kept, e) = Append(head \o kept, e)
    BY <1>13, <1>14, ConcatAppend
  <2>. QED
    BY <1>11, <1>12, <2>4, <2>5
<1>. QED
  BY <1>16, <1>17

(* Labels behind a path leave the context as it was.                       *)
LEMMA ContextAside ==
  ASSUME NEW p \in Seq(Entry), NEW q \in Seq(Entry),
         \A e \in ToSet(q) : e.type \in {"label", "unlabel"}
  PROVE  contextOf(p \o q) = contextOf(p)
<1>. DEFINE P == {r \in Seq(Entry) : (\A e \in ToSet(r) : e.type \in {"label", "unlabel"})
                                      => contextOf(p \o r) = contextOf(p)}
<1>1. <<>> \in P
  <2>1. p \o <<>> = p /\ <<>> \in Seq(Entry)
    OBVIOUS
  <2>. QED
    BY <2>1
<1>2. ASSUME NEW r \in Seq(Entry), NEW e \in Entry, r \in P PROVE Append(r, e) \in P
  <2>. DEFINE c == p \o r
  <2>1. c \in Seq(Entry) /\ Append(r, e) \in Seq(Entry) /\ p \o Append(r, e) = Append(c, e)
    BY ConcatAppend
  <2>. HIDE DEF c
  <2>2. ToSet(Append(r, e)) = ToSet(r) \cup {e}
    BY ElementsAppend
  <2>3. ASSUME \A d \in ToSet(Append(r, e)) : d.type \in {"label", "unlabel"}
        PROVE  contextOf(Append(c, e)) = contextOf(p)
    <3>1. e.type \in {"label", "unlabel"} /\ \A d \in ToSet(r) : d.type \in {"label", "unlabel"}
      BY <2>2, <2>3
    <3>2. e.type # "compaction" /\ e.type \notin ShownTypes
      BY <3>1 DEF ShownTypes
    <3>3. contextOf(Append(c, e)) = contextOf(c)
      BY <2>1, <3>2, ContextAppend
    <3>. QED
      BY <1>2, <3>1, <3>3 DEF c
  <2>. QED
    BY <2>1, <2>3
<1>. HIDE DEF P
<1>3. q \in P
  BY <1>1, <1>2, SeqInduct
<1>. QED
  BY <1>3 DEF P

(* Keep goes through the parts of a sequence, and takes all of one whose   *)
(* elements are all wanted.                                                *)
LEMMA KeepJoin ==
  ASSUME NEW T, NEW a \in Seq(T), NEW b \in Seq(T), NEW S
  PROVE  Keep(a \o b, S) = Keep(a, S) \o Keep(b, S)
<1>. DEFINE ka == Keep(a, S)
            P == {s \in Seq(T) : Keep(a \o s, S) = ka \o Keep(s, S)}
<1>1. ka \in Seq(T)
  BY KeepKnown
<1>. HIDE DEF ka
<1>2. <<>> \in P
  <2>1. a \o <<>> = a /\ ka \o <<>> = ka /\ <<>> \in Seq(T)
    BY <1>1
  <2>. QED
    BY <2>1, KeepEmpty DEF ka
<1>3. ASSUME NEW s \in Seq(T), NEW e \in T, s \in P PROVE Append(s, e) \in P
  <2>. DEFINE c == a \o s
              ks == Keep(s, S)
  <2>1. c \in Seq(T) /\ Append(s, e) \in Seq(T) /\ a \o Append(s, e) = Append(c, e)
    BY ConcatAppend
  <2>2. ks \in Seq(T)
    BY KeepKnown
  <2>3. Keep(Append(s, e), S) = IF e \in S THEN Append(ks, e) ELSE ks
    BY KeepAppend
  <2>. HIDE DEF c, ks
  <2>4. Keep(Append(c, e), S) = IF e \in S THEN Append(Keep(c, S), e) ELSE Keep(c, S)
    BY <2>1, KeepAppend
  <2>5. Keep(c, S) = ka \o ks
    BY <1>3 DEF c, ks
  <2>6. ka \o Append(ks, e) = Append(ka \o ks, e)
    BY <1>1, <2>2, ConcatAppend
  <2>. QED
    BY <2>1, <2>3, <2>4, <2>5, <2>6
<1>. HIDE DEF P
<1>4. b \in P
  BY <1>2, <1>3, SeqInduct
<1>. QED
  BY <1>4 DEF P, ka

(* All is kept when all is wanted.                                         *)
LEMMA KeepAll ==
  ASSUME NEW T, NEW s \in Seq(T), NEW S, ToSet(s) \subseteq S
  PROVE  Keep(s, S) = s
<1>. DEFINE P == {q \in Seq(T) : ToSet(q) \subseteq S => Keep(q, S) = q}
<1>1. <<>> \in P
  <2>1. <<>> \in Seq(T)
    OBVIOUS
  <2>. QED
    BY <2>1, KeepEmpty
<1>2. ASSUME NEW q \in Seq(T), NEW e \in T, q \in P PROVE Append(q, e) \in P
  <2>1. Append(q, e) \in Seq(T) /\ ToSet(Append(q, e)) = ToSet(q) \cup {e}
    BY ElementsAppend
  <2>2. Keep(Append(q, e), S) = IF e \in S THEN Append(Keep(q, S), e) ELSE Keep(q, S)
    BY KeepAppend
  <2>. QED
    BY <1>2, <2>1, <2>2
<1>. HIDE DEF P
<1>3. s \in P
  BY <1>1, <1>2, SeqInduct
<1>. QED
  BY <1>3 DEF P

(* A prefix is followed by the rest.                                       *)
LEMMA PrefixRest ==
  ASSUME NEW T, NEW a \in Seq(T), NEW b \in Seq(T), IsPrefix(a, b)
  PROVE  \E c \in Seq(T) : b = a \o c
<1>. DEFINE m == Len(a)
            n == Len(b)
            c == SubSeq(b, m + 1, n)
<1>1. m \in Nat /\ n \in Nat /\ m <= n /\ SubSeq(a, 1, m) = SubSeq(b, 1, m)
  BY DEF IsPrefix
<1>2. c \in Seq(T) /\ Len(c) = n - m /\ \A i \in 1 .. n - m : c[i] = b[m + i]
  BY <1>1
<1>3. \A i \in 1 .. m : a[i] = b[i]
  <2>1. \A i \in 1 .. m : SubSeq(a, 1, m)[i] = a[i] /\ SubSeq(b, 1, m)[i] = b[i]
    BY <1>1
  <2>. QED
    BY <1>1, <2>1
<1>. HIDE DEF c
<1>4. /\ a \o c \in Seq(T) /\ Len(a \o c) = n
      /\ \A i \in 1 .. m : (a \o c)[i] = a[i]
      /\ \A i \in m + 1 .. n : (a \o c)[i] = c[i - m]
  BY <1>1, <1>2
<1>. HIDE DEF m, n
<1>5. ASSUME NEW i \in 1 .. n PROVE (a \o c)[i] = b[i]
  <2>1. CASE i \in 1 .. m
    BY <1>3, <1>4, <2>1
  <2>2. CASE i \in m + 1 .. n
    <3>1. i - m \in 1 .. n - m /\ m + (i - m) = i
      BY <1>1, <2>2
    <3>2. c[i - m] = b[m + (i - m)]
      BY <1>2, <3>1
    <3>. QED
      BY <1>4, <2>2, <3>1, <3>2
  <2>3. i \in 1 .. m \/ i \in m + 1 .. n
    BY <1>1
  <2>. QED
    BY <2>1, <2>2, <2>3
<1>6. b = a \o c
  <2>. DEFINE d == a \o c
  <2>1. d \in Seq(T) /\ Len(d) = Len(b) /\ \A i \in 1 .. Len(b) : d[i] = b[i]
    BY <1>4, <1>5 DEF n
  <2>. HIDE DEF d
  <2>2. d = b
    BY <2>1
  <2>. QED
    BY <2>2 DEF d
<1>. QED
  BY <1>2, <1>6

(* What stands behind all that is wanted is not wanted.                    *)
LEMMA KeepRest ==
  ASSUME NEW T, NEW q \in Seq(T), NEW r \in Seq(T), NEW S, Keep(q \o r, S) = q
  PROVE  ToSet(r) \cap S = {}
<1>. DEFINE k == Keep(r, S)
<1>1. Keep(q \o r, S) = Keep(q, S) \o k
  BY KeepJoin
<1>2. ToSet(Keep(q \o r, S)) = ToSet(q \o r) \cap S
  <2>1. q \o r \in Seq(T)
    OBVIOUS
  <2>. QED
    BY <2>1, KeepKnown
<1>3. Keep(q, S) = q
  <2>1. ToSet(q) \subseteq S
    BY <1>2
  <2>. QED
    BY <2>1, KeepAll
<1>4. k \in Seq(T) /\ ToSet(k) = ToSet(r) \cap S
  BY KeepKnown
<1>5. q = q \o k
  BY <1>1, <1>3
<1>. HIDE DEF k
<1>6. Len(q) = Len(q) + Len(k) /\ Len(q) \in Nat /\ Len(k) \in Nat
  BY <1>4, <1>5
<1>7. k = <<>>
  BY <1>4, <1>6
<1>. QED
  BY <1>4, <1>7, ElementsNone

(* A path whose labels come last shows what its other entries show.        *)
LEMMA ContextWithout ==
  ASSUME NEW p \in Seq(Entry), NEW q, q = Without(p, {"label", "unlabel"}), IsPrefix(q, p)
  PROVE  contextOf(q) = contextOf(p)
<1>. DEFINE S == {e \in ToSet(p) : e.type \notin {"label", "unlabel"}}
<1>1. q \in Seq(Entry) /\ ToSet(q) = ToSet(p) \cap S /\ q = Keep(p, S)
  BY KeepKnown DEF Without
<1>. HIDE DEF S
<1>2. PICK r \in Seq(Entry) : p = q \o r
  BY <1>1, PrefixRest
<1>3. ToSet(r) \subseteq ToSet(p)
  <2>1. ToSet(q \o r) = ToSet(q) \cup ToSet(r)
    BY <1>1, ElementsJoin
  <2>. QED
    BY <1>2, <2>1
<1>4. ToSet(r) \cap S = {}
  <2>1. q \in Seq(Entry) /\ Keep(q \o r, S) = q
    BY <1>1, <1>2
  <2>. QED
    BY <2>1, KeepRest
<1>5. \A e \in ToSet(r) : e.type \in {"label", "unlabel"}
  BY <1>3, <1>4 DEF S
<1>. QED
  BY <1>1, <1>2, <1>5, ContextAside
-----------------------------------------------------------------------------
(* The invariant.  A file holds the entries of the process behind some of  *)
(* them that it holds already, unless nothing was flushed yet.             *)

Held(lines, es) == \E P \in Seq(Entry) : lines = P \o es /\ ToSet(P) \subseteq ToSet(es)

LinesOf(fs, path) == IF path \in DOMAIN fs THEN fs[path] ELSE <<>>

ManagerInv(m, lines, n) ==
  /\ m \in Manager /\ m.leaf \in Ids(m.entries) \cup {None}
  /\ Sound(ToSet(m.entries), n)
  /\ ToSet(m.labels) = Live(m.entries)
  /\ m.file = 0 => m.entries = <<>>
  /\ m.file # 0 /\ m.flushed => Held(lines, m.entries)
  /\ m.file # 0 /\ ~ m.flushed =>
       ToSet(lines) \subseteq ToSet(m.entries) /\ ~ HasAssistant(m.entries)

FilesInv(fs, n, k) ==
  /\ fs = [p \in DOMAIN fs |-> fs[p]] /\ DOMAIN fs \subseteq 1 .. k
  /\ \A p \in DOMAIN fs : fs[p] \in Seq(Entry) /\ Sound(ToSet(fs[p]), n)

Inv ==
  /\ ManagerInv(sm, LinesOf(files, sm.file), nextId) /\ sm.file <= nextFile
  /\ FilesInv(files, nextId, nextFile)
  /\ nextId \in Nat /\ nextFile \in 0 .. MaxFiles /\ crashes \in 0 .. MaxCrashes

\* What no step may do to a file.
Grows(fs, gs) == \A p \in DOMAIN fs : p \in DOMAIN gs /\ IsPrefix(fs[p], gs[p])

(* The header is an entry, and sound.                                      *)
LEMMA HeaderKnown == \A n \in Nat : Header \in Entry /\ Sound({Header}, n)
  BY DEF Header, NewEntry, Entry, None, Sound, Grown

(* The elements of a sequence behind a header.                             *)
LEMMA HeaderJoin ==
  ASSUME NEW s \in Seq(Entry)
  PROVE  <<Header>> \o s \in Seq(Entry) /\ ToSet(<<Header>> \o s) = {Header} \cup ToSet(s)
<1>. DEFINE h == <<Header>>
<1>1. h \in Seq(Entry) /\ ToSet(h) = {Header}
  BY HeaderKnown, ElementsOne
<1>. HIDE DEF h
<1>2. h \o s \in Seq(Entry) /\ ToSet(h \o s) = ToSet(h) \cup ToSet(s)
  BY <1>1, ElementsJoin
<1>. QED
  BY <1>1, <1>2 DEF h

(* No process, no claims.                                                  *)
LEMMA NoSessionKnown ==
  ASSUME NEW lines, NEW n \in Nat
  PROVE  ManagerInv(NoSession, lines, n)
<1>1. NoSession \in Manager
  BY DEF NoSession, Manager, None
<1>2. Live(<<>>) = {}
  BY DEF Live
<1>. QED
  BY <1>1, <1>2, ElementsNone DEF ManagerInv, NoSession, Sound, None

(* A sequence is a prefix of itself and of all that continues it.          *)
LEMMA PrefixKnown ==
  ASSUME NEW T, NEW a \in Seq(T), NEW b \in Seq(T)
  PROVE  IsPrefix(a, a) /\ IsPrefix(a, a \o b)
<1>. DEFINE c == a \o b
<1>1. /\ c \in Seq(T) /\ Len(a) \in Nat /\ Len(c) = Len(a) + Len(b) /\ Len(b) \in Nat
      /\ \A i \in 1 .. Len(a) : c[i] = a[i]
  BY ConcatKnown
<1>. HIDE DEF c
<1>2. Len(a) <= Len(c)
  BY <1>1
<1>3. SubSeq(a, 1, Len(a)) = SubSeq(c, 1, Len(a))
  <2>1. \A i \in 1 .. Len(a) : i + 1 - 1 = i
    BY <1>1
  <2>2. /\ SubSeq(a, 1, Len(a)) \in Seq(T) /\ Len(SubSeq(a, 1, Len(a))) = Len(a)
        /\ SubSeq(c, 1, Len(a)) \in Seq(T) /\ Len(SubSeq(c, 1, Len(a))) = Len(a)
        /\ \A i \in 1 .. Len(a) : /\ SubSeq(a, 1, Len(a))[i] = a[i]
                                  /\ SubSeq(c, 1, Len(a))[i] = c[i]
    BY <1>1, <1>2
  <2>. QED
    BY <1>1, <2>2
<1>. QED
  BY <1>1, <1>2, <1>3 DEF IsPrefix, c

\* What is written to a file agrees with the manager that is left behind; n and
\* m are the last ids, and j and k the last paths, before and after.
Fits(n, m, j, k, path, base, added, manager) ==
  /\ n \in Nat /\ m \in Nat /\ n <= m /\ j \in Nat /\ k \in Nat /\ j <= k
  /\ FilesInv(files, n, j) /\ crashes \in 0 .. MaxCrashes /\ MaxCrashes \in Nat
  /\ path \in 1 .. k /\ base = LinesOf(files, path)
  /\ added \in Seq(Entry) /\ Sound(ToSet(base) \cup ToSet(added), m)
  /\ ManagerInv(manager, base \o added, m) /\ manager.file = path
  /\ Write(path, base, added, manager)

(* A step that writes keeps the files as they should be.                   *)
LEMMA WriteKeeps ==
  ASSUME NEW n, NEW m, NEW j, NEW k, NEW path, NEW base, NEW added, NEW manager,
         Fits(n, m, j, k, path, base, added, manager)
  PROVE  /\ FilesInv(files', m, k)
         /\ ManagerInv(sm', LinesOf(files', sm'.file), m)
         /\ sm'.file \in {0, path}
         /\ crashes' \in 0 .. MaxCrashes
         /\ Grows(files, files')
<1>0. /\ n \in Nat /\ m \in Nat /\ n <= m /\ j \in Nat /\ k \in Nat /\ j <= k
      /\ FilesInv(files, n, j) /\ crashes \in 0 .. MaxCrashes /\ MaxCrashes \in Nat
      /\ path \in 1 .. k /\ base = LinesOf(files, path)
      /\ added \in Seq(Entry) /\ Sound(ToSet(base) \cup ToSet(added), m)
      /\ ManagerInv(manager, base \o added, m) /\ manager.file = path
  BY DEF Fits
<1>. USE <1>0
<1>1. base \in Seq(Entry) /\ Sound(ToSet(base), n)
  <2>1. path \in DOMAIN files => files[path] \in Seq(Entry) /\ Sound(ToSet(files[path]), n)
    BY DEF FilesInv
  <2>2. <<>> \in Seq(Entry) /\ Sound(ToSet(<<>>), n)
    BY ElementsNone DEF Sound
  <2>. QED
    BY <2>1, <2>2 DEF LinesOf
<1>2. \A p \in DOMAIN files : /\ p \in 1 .. k /\ files[p] \in Seq(Entry)
                              /\ Sound(ToSet(files[p]), m) /\ IsPrefix(files[p], files[p])
  <2>. SUFFICES ASSUME NEW p \in DOMAIN files
                PROVE  /\ p \in 1 .. k /\ files[p] \in Seq(Entry)
                       /\ Sound(ToSet(files[p]), m) /\ IsPrefix(files[p], files[p])
    OBVIOUS
  <2>1. p \in 1 .. j /\ files[p] \in Seq(Entry) /\ Sound(ToSet(files[p]), n)
    BY DEF FilesInv
  <2>2. Sound(ToSet(files[p]), m)
    BY <2>1, SoundParts
  <2>3. IsPrefix(files[p], files[p])
    <3>. DEFINE f == files[p]
    <3>1. f \in Seq(Entry) /\ <<>> \in Seq(Entry)
      BY <2>1
    <3>. HIDE DEF f
    <3>2. IsPrefix(f, f)
      BY <3>1, PrefixKnown
    <3>. QED
      BY <3>2 DEF f
  <2>. QED
    BY <2>1, <2>2, <2>3
<1>3. ASSUME NEW part \in Seq(Entry), ToSet(part) \subseteq ToSet(added), Put(path, base \o part)
      PROVE  /\ FilesInv(files', m, k) /\ Grows(files, files')
             /\ LinesOf(files', path) = base \o part
  <2>. DEFINE lines == base \o part
  <2>1. lines \in Seq(Entry) /\ ToSet(lines) = ToSet(base) \cup ToSet(part) /\ IsPrefix(base, lines)
    BY <1>1, ConcatKnown, ElementsJoin, PrefixKnown
  <2>2. Sound(ToSet(lines), m)
    <3>1. ToSet(lines) \subseteq ToSet(base) \cup ToSet(added)
      BY <1>3, <2>1
    <3>. HIDE DEF lines
    <3>. QED
      BY <3>1, SoundParts
  <2>3. /\ DOMAIN files' = DOMAIN files \cup {path}
        /\ \A p \in DOMAIN files' : files'[p] = IF p = path THEN lines ELSE files[p]
        /\ files' = [p \in DOMAIN files' |-> files'[p]]
    BY <1>3 DEF Put
  <2>. HIDE DEF lines
  <2>4. FilesInv(files', m, k)
    BY <1>2, <2>1, <2>2, <2>3 DEF FilesInv
  <2>5. Grows(files, files')
    <3>1. ASSUME NEW p \in DOMAIN files PROVE p \in DOMAIN files' /\ IsPrefix(files[p], files'[p])
      <4>1. CASE p = path
        BY <2>1, <2>3, <4>1 DEF LinesOf
      <4>2. CASE p # path
        BY <1>2, <2>3, <4>2
      <4>. QED
        BY <4>1, <4>2
    <3>. QED
      BY <3>1 DEF Grows
  <2>6. LinesOf(files', path) = lines
    BY <2>3 DEF LinesOf
  <2>. QED
    BY <2>4, <2>5, <2>6 DEF lines
<1>4. CASE /\ IF added = <<>> THEN files' = files ELSE Put(path, base \o added)
           /\ sm' = manager
           /\ crashes' = crashes
  <2>1. CASE added = <<>>
    <3>1. files' = files /\ base \o added = base
      BY <1>1, <1>4, <2>1
    <3>2. FilesInv(files', m, k) /\ Grows(files, files')
      BY <1>2, <3>1 DEF FilesInv, Grows
    <3>3. LinesOf(files', path) = base \o added
      BY <3>1
    <3>. QED
      BY <1>4, <3>2, <3>3
  <2>2. CASE added # <<>>
    <3>1. Put(path, base \o added)
      BY <1>4, <2>2
    <3>2. /\ FilesInv(files', m, k) /\ Grows(files, files')
          /\ LinesOf(files', path) = base \o added
      BY <1>3, <3>1
    <3>. QED
      BY <1>4, <3>2
  <2>. QED
    BY <2>1, <2>2
<1>5. CASE /\ crashes < MaxCrashes
           /\ \E i \in 0 .. Len(added) - 1 : Put(path, base \o SubSeq(added, 1, i))
           /\ sm' = NoSession
           /\ crashes' = crashes + 1
  <2>1. PICK i \in 0 .. Len(added) - 1 : Put(path, base \o SubSeq(added, 1, i))
    BY <1>5
  <2>. DEFINE part == SubSeq(added, 1, i)
  <2>2. part \in Seq(Entry) /\ ToSet(part) \subseteq ToSet(added)
    <3>1. Len(added) \in Nat /\ i \in Nat /\ i <= Len(added)
      OBVIOUS
    <3>2. part \in Seq(Entry) /\ Len(part) = i /\ \A l \in 1 .. i : part[l] = added[l]
      BY <3>1
    <3>3. DOMAIN part = 1 .. i /\ DOMAIN added = 1 .. Len(added)
      BY <3>1, <3>2
    <3>4. \A l \in 1 .. i : l \in 1 .. Len(added)
      BY <3>1
    <3>. HIDE DEF part
    <3>. QED
      BY <3>2, <3>3, <3>4 DEF ToSet
  <2>. HIDE DEF part
  <2>3. FilesInv(files', m, k) /\ Grows(files, files')
    BY <1>3, <2>1, <2>2 DEF part
  <2>4. sm' = NoSession /\ sm'.file = 0 /\ crashes' \in 0 .. MaxCrashes
    BY <1>5 DEF NoSession
  <2>. QED
    BY <2>3, <2>4, NoSessionKnown
<1>. QED
  BY <1>4, <1>5 DEF Write, Fits

(* The index of the entries of a file.                                     *)
LEMMA IndexKnown ==
  ASSUME NEW n \in Nat, NEW es \in Seq(Entry), Sound(ToSet(es), n),
         NEW path \in Nat, path # 0
  PROVE  /\ ManagerInv(BuildIndex(path, es), es, n)
         /\ BuildIndex(path, es).file = path /\ BuildIndex(path, es).entries = es
<1>. DEFINE m == BuildIndex(path, es)
            g == getEntries(es)
            leaf == IF g = <<>> THEN None ELSE Last(g).id
            labels == LabelsOf(es)
<1>1. m = [file |-> path, entries |-> es, leaf |-> leaf, labels |-> labels, flushed |-> TRUE]
  BY DEF BuildIndex
<1>2. labels \in Seq(Nat) /\ ToSet(labels) = Live(es)
  BY LabelsKnown
<1>3. g \in Seq(Entry) /\ ToSet(g) \subseteq ToSet(es)
  BY KeepKnown DEF getEntries, Without
<1>. HIDE DEF g
<1>4. leaf \in Ids(es) \cup {None} /\ leaf \in Nat
  <2>1. CASE g = <<>>
    BY <2>1 DEF None
  <2>2. CASE g # <<>>
    <3>1. Len(g) \in DOMAIN g /\ Last(g) = g[Len(g)] /\ Last(g) \in Entry
      BY <1>3, <2>2 DEF Last
    <3>2. Last(g) \in ToSet(es)
      BY <1>3, <3>1 DEF ToSet
    <3>3. Last(g).id \in Ids(es) \cup {None}
      BY <3>2 DEF Ids, ToSet
    <3>. QED
      BY <2>2, <3>1, <3>3 DEF Entry
  <2>. QED
    BY <2>1, <2>2
<1>. HIDE DEF leaf, labels, m
<1>5. m \in Manager
  BY <1>1, <1>2, <1>4 DEF Manager
<1>6. Held(es, es)
  <2>1. <<>> \in Seq(Entry) /\ es = <<>> \o es /\ ToSet(<<>>) \subseteq ToSet(es)
    BY ElementsNone
  <2>. QED
    BY <2>1 DEF Held
<1>. QED
  BY <1>1, <1>2, <1>4, <1>5, <1>6 DEF ManagerInv, m
-----------------------------------------------------------------------------
(* The steps.                                                              *)

(* The lines of a file, as in the invariant.                               *)
LEMMA LinesAre == \A path : Lines(path) = LinesOf(files, path)
  BY DEF Lines, LinesOf

\* What _appendEntry adds, and the manager that has it.
Added(type, parent, ref) == NewEntry(type, nextId + 1, parent, ref)

With(e) == [sm EXCEPT !.entries = Append(@, e), !.leaf = e.id, !.labels = Labelled(@, e)]

(* The new entry is sound: its id is new and its parent is older.          *)
LEMMA AddedKnown ==
  ASSUME Inv, NEW parent \in Ids(sm.entries) \cup {None},
         NEW type \in AppendTypes \cup {"branch_summary"}, NEW ref \in Nat,
         NEW e, e = Added(type, parent, ref)
  PROVE  /\ e \in Entry /\ e.id = nextId + 1 /\ e.parentId = parent /\ e.type = type
         /\ parent \in 0 .. nextId
         /\ sm.entries \in Seq(Entry) /\ Sound(ToSet(sm.entries), nextId)
         /\ Append(sm.entries, e) \in Seq(Entry)
         /\ ToSet(Append(sm.entries, e)) = ToSet(sm.entries) \cup {e}
         /\ e \notin ToSet(sm.entries)
         /\ Sound(ToSet(Append(sm.entries, e)), nextId + 1)
<1>. DEFINE es == sm.entries
            n == nextId
<1>1. es \in Seq(Entry) /\ Sound(ToSet(es), n) /\ n \in Nat
  BY DEF Inv, ManagerInv, Manager
<1>2. parent \in 0 .. n
  <2>1. parent \in Ids(es) => parent \in Nat /\ parent <= n
    BY <1>1, ByIdKnown
  <2>. QED
    BY <1>1, <2>1 DEF None
<1>3. e \in Entry /\ e.id = n + 1 /\ e.parentId = parent /\ e.type = type /\ type # "session"
  <2>1. e = [type |-> type, id |-> n + 1, parentId |-> parent, ref |-> ref]
    BY DEF Added, NewEntry
  <2>2. n + 1 \in Nat /\ parent \in Nat
    BY <1>1, <1>2
  <2>3. type # "session" /\ type \in AppendTypes \cup {"session", "branch_summary"}
    BY DEF AppendTypes
  <2>. QED
    BY <2>1, <2>2, <2>3 DEF Entry
<1>. HIDE DEF es, n
<1>4. Append(es, e) \in Seq(Entry) /\ ToSet(Append(es, e)) = ToSet(es) \cup {e}
  BY <1>1, <1>3, ElementsAppend
<1>5. \A d \in ToSet(es) : d.id \in Nat /\ d.id <= n
  BY <1>1 DEF Sound, Grown, Entry
<1>6. e \notin ToSet(es)
  BY <1>1, <1>3, <1>5
<1>7. e \in Grown(n + 1)
  <2>1. n + 1 # None /\ parent < n + 1
    BY <1>1, <1>2 DEF None
  <2>. QED
    BY <1>1, <1>3, <2>1 DEF Grown
<1>8. Sound(ToSet(es), n + 1)
  <2>1. n + 1 \in Nat /\ n <= n + 1
    BY <1>1
  <2>. QED
    BY <1>1, <2>1, SoundParts
<1>9. Sound(ToSet(es) \cup {e}, n + 1)
  <2>1. \A d \in ToSet(es) : d.id # e.id
    BY <1>1, <1>3, <1>5
  <2>. QED
    BY <1>7, <1>8, <2>1 DEF Sound
<1>. QED
  BY <1>1, <1>2, <1>3, <1>4, <1>6, <1>9 DEF es, n

(* An append keeps the invariant: a flush writes all entries, a later      *)
(* append the one entry (session-manager.ts 747-836).                      *)
LEMMA AppendKeeps ==
  ASSUME SessionAssumption, Inv, NEW parent \in Ids(sm.entries) \cup {None},
         NEW type \in AppendTypes \cup {"branch_summary"}, NEW ref \in Nat,
         AppendUnder(parent, type, ref)
  PROVE  Inv' /\ Grows(files, files')
<1>. DEFINE e == Added(type, parent, ref)
            w == With(e)
            a == HasAssistant(w.entries)
            lines == Persist(w, e)
            manager == [w EXCEPT !.flushed = a]
            base == LinesOf(files, sm.file)
            es == sm.entries
            fs == Append(es, e)
            n == nextId
<1>1. /\ sm.file # 0 /\ Write(sm.file, base, lines, manager)
      /\ nextId' = n + 1 /\ nextFile' = nextFile
  BY LinesAre DEF AppendUnder, Added, With
<1>0. e = Added(type, parent, ref)
  OBVIOUS
<1>. HIDE DEF e
<1>2. /\ e \in Entry /\ e.id = n + 1
      /\ es \in Seq(Entry) /\ fs \in Seq(Entry) /\ ToSet(fs) = ToSet(es) \cup {e}
      /\ Sound(ToSet(fs), n + 1)
  BY <1>0, AddedKnown
<1>3. /\ sm \in Manager /\ n \in Nat /\ nextFile \in 0 .. MaxFiles /\ crashes \in 0 .. MaxCrashes
      /\ MaxCrashes \in Nat /\ MaxFiles \in Nat
      /\ sm.file <= nextFile /\ FilesInv(files, n, nextFile)
      /\ ToSet(sm.labels) = Live(es)
      /\ sm.flushed => Held(base, es)
      /\ ~ sm.flushed => ToSet(base) \subseteq ToSet(es)
  BY <1>1 DEF Inv, ManagerInv, SessionAssumption
<1>4. /\ w = [file |-> sm.file, entries |-> fs, leaf |-> e.id,
              labels |-> Labelled(sm.labels, e), flushed |-> sm.flushed]
      /\ sm.labels \in Seq(Nat) /\ sm.flushed \in BOOLEAN /\ sm.file \in Nat
  <2>1. sm = [file |-> sm.file, entries |-> sm.entries, leaf |-> sm.leaf,
              labels |-> sm.labels, flushed |-> sm.flushed]
        /\ sm.labels \in Seq(Nat) /\ sm.flushed \in BOOLEAN /\ sm.file \in Nat
    BY <1>3 DEF Manager
  <2>2. w = [[[sm EXCEPT !.entries = fs] EXCEPT !.leaf = e.id] EXCEPT !.labels = Labelled(sm.labels, e)]
    BY <2>1 DEF With
  <2>. HIDE DEF w, fs
  <2>. QED
    BY <2>1, <2>2
<1>. DEFINE ls == Labelled(sm.labels, e)
<1>5. ls \in Seq(Nat) /\ ToSet(ls) = Live(fs)
  BY <1>2, <1>3, <1>4, LabelledKnown, LiveAppend
<1>. HIDE DEF w
<1>6. a \in BOOLEAN
  BY DEF HasAssistant
<1>. HIDE DEF a, fs, ls
<1>7. manager = [file |-> sm.file, entries |-> fs, leaf |-> e.id, labels |-> ls, flushed |-> a]
  BY <1>4 DEF ls
<1>. USE DEF fs
<1>8. base \in Seq(Entry)
  <2>1. sm.file \in DOMAIN files => files[sm.file] \in Seq(Entry)
    BY <1>3 DEF FilesInv
  <2>. QED
    BY <2>1 DEF LinesOf
<1>. HIDE DEF base, es, ls, manager, n
<1>. DEFINE all == base \o lines
<1>9. ToSet(base) \subseteq ToSet(es)
  <2>1. ASSUME sm.flushed PROVE ToSet(base) \subseteq ToSet(es)
    <3>1. PICK P \in Seq(Entry) : base = P \o es /\ ToSet(P) \subseteq ToSet(es)
      BY <1>3, <2>1 DEF Held
    <3>2. ToSet(P \o es) = ToSet(P) \cup ToSet(es)
      BY <1>2, ElementsJoin
    <3>. QED
      BY <3>1, <3>2
  <2>. QED
    BY <1>3, <2>1
<1>10. w.entries = fs /\ w.flushed = sm.flushed
  BY <1>4
<1>11. /\ lines \in Seq(Entry) /\ ToSet(lines) \subseteq ToSet(fs)
       /\ a => Held(all, fs)
       /\ ~ a => ToSet(all) \subseteq ToSet(fs)
  <2>1. CASE ~ a
    <3>1. lines = <<>>
      BY <2>1 DEF Persist, a
    <3>2. all = base /\ lines \in Seq(Entry) /\ ToSet(lines) = {}
      BY <1>8, <3>1, ElementsNone
    <3>. HIDE DEF all, lines, fs
    <3>. QED
      BY <1>2, <1>9, <2>1, <3>2
  <2>2. CASE a /\ ~ sm.flushed
    <3>1. lines = fs
      BY <1>10, <2>2 DEF Persist, a
    <3>2. Held(all, fs)
      <4>1. ToSet(base) \subseteq ToSet(fs)
        BY <1>2, <1>9
      <4>. QED
        BY <1>8, <3>1, <4>1 DEF Held
    <3>. HIDE DEF all, lines, fs
    <3>. QED
      BY <1>2, <2>2, <3>1, <3>2
  <2>3. CASE a /\ sm.flushed
    <3>1. lines = <<e>>
      BY <1>10, <2>3 DEF Persist, a
    <3>2. PICK P \in Seq(Entry) : base = P \o es /\ ToSet(P) \subseteq ToSet(es)
      BY <1>3, <2>3 DEF Held
    <3>3. all = P \o fs
      <4>1. (P \o es) \o <<e>> = P \o Append(es, e)
        <5>1. es \in Seq(Entry) /\ e \in Entry
          BY <1>2
        <5>. QED
          BY <5>1, ConcatLast
      <4>. QED
        BY <3>1, <3>2, <4>1
    <3>4. lines \in Seq(Entry) /\ ToSet(lines) = {e}
      <4>1. <<e>> \in Seq(Entry) /\ ToSet(<<e>>) = {e}
        BY <1>2, ElementsOne
      <4>. QED
        BY <3>1, <4>1
    <3>. HIDE DEF all, lines, fs
    <3>5. Held(all, fs)
      BY <1>2, <3>2, <3>3 DEF Held
    <3>. QED
      BY <1>2, <2>3, <3>4, <3>5
  <2>. QED
    BY <2>1, <2>2, <2>3
<1>. HIDE DEF all, lines, fs
<1>12. ~ a => ~ HasAssistant(fs)
  BY <1>10 DEF a
<1>13. e.id \in Ids(fs) \cup {None} /\ e.id \in Nat
  BY <1>2 DEF Ids, ToSet, Entry
<1>14. manager \in Manager
  BY <1>2, <1>4, <1>5, <1>6, <1>7, <1>13 DEF Manager
<1>15. ManagerInv(manager, all, n + 1) /\ manager.file = sm.file
  BY <1>1, <1>2, <1>5, <1>7, <1>11, <1>12, <1>13, <1>14 DEF ManagerInv
<1>16. Sound(ToSet(base) \cup ToSet(lines), n + 1)
  <2>1. ToSet(base) \cup ToSet(lines) \subseteq ToSet(fs)
    BY <1>2, <1>9, <1>11
  <2>2. n + 1 \in Nat
    BY <1>3
  <2>. QED
    BY <1>2, <2>1, <2>2, SoundParts
<1>17. sm.file \in 1 .. nextFile /\ nextFile \in Nat /\ n + 1 \in Nat /\ n <= n + 1
  BY <1>1, <1>3, <1>4
<1>. HIDE DEF SessionAssumption, w
<1>18. Fits(n, n + 1, nextFile, nextFile, sm.file, base, lines, manager)
  BY <1>1, <1>3, <1>11, <1>15, <1>16, <1>17 DEF Fits, base, all, n
<1>19. /\ FilesInv(files', n + 1, nextFile)
       /\ ManagerInv(sm', LinesOf(files', sm'.file), n + 1)
       /\ sm'.file \in {0, sm.file}
       /\ crashes' \in 0 .. MaxCrashes
       /\ Grows(files, files')
  BY <1>18, WriteKeeps
<1>. QED
  BY <1>1, <1>3, <1>17, <1>19 DEF Inv, n

(* Moving the leaf writes nothing.                                         *)
LEMMA BranchMoves ==
  ASSUME Inv, NEW id, Branch(id)
  PROVE  Inv' /\ Grows(files, files')
<1>1. /\ sm' = [sm EXCEPT !.leaf = id] /\ id \in Ids(sm.entries) \cup {None}
      /\ UNCHANGED <<files, nextId, nextFile, crashes>>
  BY DEF Branch
<1>2. /\ ManagerInv(sm, LinesOf(files, sm.file), nextId) /\ sm \in Manager /\ sm.file <= nextFile
      /\ FilesInv(files, nextId, nextFile)
      /\ nextId \in Nat /\ nextFile \in 0 .. MaxFiles /\ crashes \in 0 .. MaxCrashes
      /\ sm.entries \in Seq(Entry) /\ Sound(ToSet(sm.entries), nextId)
  BY DEF Inv, ManagerInv, Manager
<1>3. id \in Nat
  <2>1. id \in Ids(sm.entries) => id \in Nat
    BY <1>2, ByIdKnown
  <2>. QED
    BY <1>1, <2>1 DEF None
<1>4. sm = [file |-> sm.file, entries |-> sm.entries, leaf |-> sm.leaf,
            labels |-> sm.labels, flushed |-> sm.flushed]
  BY <1>2 DEF Manager
<1>5. sm' = [file |-> sm.file, entries |-> sm.entries, leaf |-> id,
             labels |-> sm.labels, flushed |-> sm.flushed]
  BY <1>1, <1>4
<1>6. sm' \in Manager
  BY <1>2, <1>3, <1>5 DEF Manager
<1>7. ManagerInv(sm', LinesOf(files, sm.file), nextId)
  BY <1>1, <1>2, <1>5, <1>6 DEF ManagerInv
<1>8. Inv'
  BY <1>1, <1>2, <1>5, <1>7 DEF Inv
<1>9. Grows(files, files')
  <2>1. \A p \in DOMAIN files : files[p] \in Seq(Entry)
    BY <1>2 DEF FilesInv
  <2>2. <<>> \in Seq(Entry)
    OBVIOUS
  <2>3. \A f \in Seq(Entry) : IsPrefix(f, f)
    BY <2>2, PrefixKnown
  <2>. QED
    BY <1>1, <2>1, <2>3 DEF Grows
<1>. QED
  BY <1>8, <1>9

(* Nothing is written.                                                     *)
LEMMA GrowsSame ==
  ASSUME NEW n, NEW k, FilesInv(files, n, k), files' = files
  PROVE  Grows(files, files')
<1>1. \A p \in DOMAIN files : files[p] \in Seq(Entry)
  BY DEF FilesInv
<1>2. <<>> \in Seq(Entry)
  OBVIOUS
<1>3. \A f \in Seq(Entry) : IsPrefix(f, f)
  BY <1>2, PrefixKnown
<1>. QED
  BY <1>1, <1>3 DEF Grows

(* A manager that has the header only.                                     *)
LEMMA NewManagerKnown ==
  ASSUME NEW n \in Nat, NEW path \in Nat, path # 0, NEW written \in BOOLEAN,
         NEW lines, IF written THEN lines = <<Header>> ELSE lines = <<>>,
         NEW m, m = NewManager(path, written)
  PROVE  ManagerInv(m, lines, n) /\ m.file = path
<1>. DEFINE h == <<Header>>
<1>1. <<Header>> \in Seq(Entry) /\ ToSet(<<Header>>) = {Header} /\ Sound({Header}, n)
  <2>1. Header \in Entry /\ Sound({Header}, n)
    BY HeaderKnown
  <2>. QED
    BY <2>1, ElementsOne
<1>2. m = [file |-> path, entries |-> <<Header>>, leaf |-> None, labels |-> <<>>, flushed |-> written]
  BY DEF NewManager
<1>3. m \in Manager
  <2>1. None \in Nat /\ <<>> \in Seq(Nat)
    BY DEF None
  <2>. QED
    BY <1>1, <1>2, <2>1 DEF Manager
<1>4. Live(<<Header>>) = {}
  BY DEF Live, Header, NewEntry
<1>5. ~ HasAssistant(<<Header>>)
  BY DEF HasAssistant, Header, NewEntry
<1>6. Held(<<Header>>, <<Header>>)
  <2>1. <<>> \in Seq(Entry) /\ <<Header>> = <<>> \o <<Header>> /\ ToSet(<<>>) \subseteq ToSet(<<Header>>)
    BY <1>1, ElementsNone
  <2>. QED
    BY <2>1 DEF Held
<1>. HIDE DEF h
<1>7. /\ m.file = path /\ m.entries = h /\ m.leaf = None /\ ToSet(m.labels) = {}
      /\ m.flushed = written
  BY <1>2, ElementsNone DEF h
<1>8. /\ m \in Manager /\ Sound(ToSet(h), n) /\ Live(h) = {} /\ ~ HasAssistant(h) /\ Held(h, h)
      /\ lines = (IF written THEN h ELSE <<>>)
  BY <1>1, <1>3, <1>4, <1>5, <1>6 DEF h
<1>9. ToSet(<<>>) \subseteq ToSet(h)
  BY ElementsNone
<1>10. CASE written
  BY <1>7, <1>8, <1>10 DEF ManagerInv
<1>11. CASE ~ written
  BY <1>7, <1>8, <1>9, <1>11 DEF ManagerInv
<1>. QED
  BY <1>10, <1>11

(* A new session writes nothing yet.                                       *)
LEMMA NewSessionKeeps ==
  ASSUME SessionAssumption, Inv, NewSession
  PROVE  Inv' /\ Grows(files, files')
<1>1. /\ nextFile < MaxFiles /\ sm' = NewManager(nextFile + 1, FALSE)
      /\ nextFile' = nextFile + 1 /\ UNCHANGED <<files, nextId, crashes>>
  BY DEF NewSession
<1>2. /\ FilesInv(files, nextId, nextFile) /\ MaxFiles \in Nat
      /\ nextId \in Nat /\ nextFile \in 0 .. MaxFiles /\ crashes \in 0 .. MaxCrashes
  BY DEF Inv, SessionAssumption
<1>3. nextFile + 1 \in 0 .. MaxFiles /\ nextFile + 1 \in Nat /\ nextFile + 1 # 0
      /\ nextFile + 1 \notin DOMAIN files /\ FilesInv(files, nextId, nextFile + 1)
  BY <1>1, <1>2 DEF FilesInv
<1>4. LinesOf(files, nextFile + 1) = <<>>
  BY <1>3 DEF LinesOf
<1>5. ManagerInv(sm', <<>>, nextId) /\ sm'.file = nextFile + 1
  <2>1. \A lines : lines = <<>> => IF FALSE THEN lines = <<Header>> ELSE lines = <<>>
    OBVIOUS
  <2>2. FALSE \in BOOLEAN
    OBVIOUS
  <2>. QED
    BY <1>1, <1>2, <1>3, <2>1, <2>2, NewManagerKnown
<1>6. LinesOf(files', sm'.file) = <<>>
  <2>1. files' = files /\ sm'.file = nextFile + 1
    BY <1>1, <1>5
  <2>. QED
    BY <1>4, <2>1, Zenon
<1>7. Inv'
  <2>1. ManagerInv(sm', LinesOf(files', sm'.file), nextId')
    BY <1>1, <1>5, <1>6
  <2>2. FilesInv(files', nextId', nextFile')
    BY <1>1, <1>3
  <2>3. nextId' \in Nat /\ nextFile' \in 0 .. MaxFiles /\ crashes' \in 0 .. MaxCrashes
    BY <1>1, <1>2, <1>3
  <2>4. sm'.file <= nextFile'
    <3>1. sm'.file = nextFile' /\ nextFile' \in Nat
      BY <1>1, <1>3, <1>5
    <3>. QED
      BY <3>1
  <2>. QED
    BY <2>1, <2>2, <2>3, <2>4 DEF Inv
<1>. QED
  BY <1>1, <1>2, <1>7, GrowsSame

(* A crash between two operations leaves the files.                        *)
LEMMA CrashKeeps ==
  ASSUME SessionAssumption, Inv, Crash
  PROVE  Inv' /\ Grows(files, files')
<1>1. /\ sm' = NoSession /\ crashes < MaxCrashes /\ crashes' = crashes + 1
      /\ UNCHANGED <<files, nextId, nextFile>>
  BY DEF Crash
<1>2. /\ FilesInv(files, nextId, nextFile) /\ MaxCrashes \in Nat
      /\ nextId \in Nat /\ nextFile \in 0 .. MaxFiles /\ crashes \in 0 .. MaxCrashes
  BY DEF Inv, SessionAssumption
<1>3. sm'.file = 0 /\ sm'.file <= nextFile /\ crashes + 1 \in 0 .. MaxCrashes
  BY <1>1, <1>2 DEF NoSession
<1>4. Inv'
  BY <1>1, <1>2, <1>3, NoSessionKnown DEF Inv
<1>. QED
  BY <1>1, <1>2, <1>4, GrowsSame

(* A file that is opened is empty, missing or read.                        *)
LEMMA SetSessionFileKeeps ==
  ASSUME SessionAssumption, Inv, NEW path, SetSessionFile(path)
  PROVE  Inv' /\ Grows(files, files')
<1>1. path \in 1 .. nextFile /\ nextId' = nextId /\ nextFile' = nextFile
  BY DEF SetSessionFile
<1>2. /\ FilesInv(files, nextId, nextFile) /\ MaxCrashes \in Nat
      /\ nextId \in Nat /\ nextFile \in 0 .. MaxFiles /\ crashes \in 0 .. MaxCrashes
  BY DEF Inv, SessionAssumption
<1>3. path \in Nat /\ path # 0 /\ path <= nextFile
  BY <1>1, <1>2
<1>4. CASE LinesOf(files, path) = <<>>
  <2>. DEFINE exists == path \in DOMAIN files
              added == IF exists THEN <<Header>> ELSE <<>>
              manager == NewManager(path, exists)
  <2>1. Write(path, <<>>, added, manager)
    BY <1>4, LinesAre DEF SetSessionFile
  <2>2. /\ <<Header>> \in Seq(Entry) /\ ToSet(<<Header>>) = {Header} /\ Sound({Header}, nextId)
        /\ Sound({}, nextId)
    <3>1. Header \in Entry /\ Sound({Header}, nextId)
      BY <1>2, HeaderKnown
    <3>. QED
      BY <3>1, ElementsOne DEF Sound
  <2>3. added \in Seq(Entry) /\ Sound(ToSet(<<>>) \cup ToSet(added), nextId) /\ <<>> \o added = added
    <3>1. added \in Seq(Entry) /\ ToSet(added) \in {{}, {Header}}
      <4>1. CASE exists
        BY <2>2, <4>1
      <4>2. CASE ~ exists
        BY <4>2, ElementsNone
      <4>. QED
        BY <4>1, <4>2
    <3>. HIDE DEF added
    <3>2. ToSet(<<>>) \cup ToSet(added) \in {{}, {Header}} /\ <<>> \o added = added
      BY <3>1, ElementsNone
    <3>. QED
      BY <2>2, <3>1, <3>2
  <2>4. ManagerInv(manager, added, nextId) /\ manager.file = path
    <3>1. exists \in BOOLEAN
      OBVIOUS
    <3>2. IF exists THEN added = <<Header>> ELSE added = <<>>
      OBVIOUS
    <3>. HIDE DEF exists, added
    <3>. QED
      BY <1>2, <1>3, <3>1, <3>2, NewManagerKnown
  <2>. HIDE DEF added, manager
  <2>5. Fits(nextId, nextId, nextFile, nextFile, path, <<>>, added, manager)
    BY <1>1, <1>2, <1>4, <2>1, <2>3, <2>4 DEF Fits
  <2>6. /\ FilesInv(files', nextId, nextFile)
        /\ ManagerInv(sm', LinesOf(files', sm'.file), nextId)
        /\ sm'.file \in {0, path}
        /\ crashes' \in 0 .. MaxCrashes
        /\ Grows(files, files')
    BY <2>5, WriteKeeps
  <2>. QED
    BY <1>1, <1>2, <1>3, <2>6 DEF Inv
<1>5. CASE LinesOf(files, path) # <<>>
  <2>1. sm' = BuildIndex(path, files[path]) /\ files' = files /\ crashes' = crashes
    BY <1>5, LinesAre DEF SetSessionFile
  <2>2. path \in DOMAIN files /\ LinesOf(files, path) = files[path]
    BY <1>5 DEF LinesOf
  <2>3. files[path] \in Seq(Entry) /\ Sound(ToSet(files[path]), nextId)
    BY <1>2, <2>2 DEF FilesInv
  <2>4. ManagerInv(sm', files[path], nextId) /\ sm'.file = path
    <3>. DEFINE f == files[path]
    <3>1. f \in Seq(Entry) /\ Sound(ToSet(f), nextId)
      BY <2>3
    <3>. HIDE DEF f
    <3>2. ManagerInv(BuildIndex(path, f), f, nextId) /\ BuildIndex(path, f).file = path
      BY <1>2, <1>3, <3>1, IndexKnown
    <3>. QED
      BY <2>1, <3>2 DEF f
  <2>5. Inv'
    BY <1>1, <1>2, <1>3, <2>1, <2>2, <2>4 DEF Inv
  <2>. QED
    BY <1>2, <2>1, <2>5, GrowsSame
<1>. QED
  BY <1>4, <1>5

(* A fork goes to a file that was not there.                               *)
LEMMA ForkKeeps ==
  ASSUME SessionAssumption, Inv, NEW source, ForkFrom(source)
  PROVE  Inv' /\ Grows(files, files')
<1>. DEFINE path == nextFile + 1
            lines == LinesOf(files, source)
            g == getEntries(lines)
            es == <<Header>> \o g
            manager == BuildIndex(path, es)
<1>1. /\ lines # <<>> /\ nextFile < MaxFiles /\ nextFile' = path /\ nextId' = nextId
      /\ Write(path, <<>>, es, manager)
  <2>1. Lines(source) # <<>> => Lines(source) = files[source]
    BY DEF Lines
  <2>. QED
    BY <2>1, LinesAre DEF ForkFrom
<1>2. /\ FilesInv(files, nextId, nextFile) /\ MaxCrashes \in Nat /\ MaxFiles \in Nat
      /\ nextId \in Nat /\ nextFile \in 0 .. MaxFiles /\ crashes \in 0 .. MaxCrashes
  BY DEF Inv, SessionAssumption
<1>3. /\ path \in Nat /\ path # 0 /\ path \in 1 .. path /\ path \in 0 .. MaxFiles
      /\ nextFile \in Nat /\ nextFile <= path
      /\ path \notin DOMAIN files
  BY <1>1, <1>2 DEF FilesInv
<1>4. <<>> = LinesOf(files, path)
  BY <1>3 DEF LinesOf
<1>5. lines \in Seq(Entry) /\ Sound(ToSet(lines), nextId)
  BY <1>1, <1>2 DEF LinesOf, FilesInv
<1>. HIDE DEF lines
<1>6. g \in Seq(Entry) /\ ToSet(g) \subseteq ToSet(lines)
  BY <1>5, KeepKnown DEF getEntries, Without
<1>. HIDE DEF g
<1>7. es \in Seq(Entry) /\ ToSet(es) = {Header} \cup ToSet(g)
  BY <1>2, <1>6, HeaderJoin
<1>8. Sound({Header} \cup ToSet(g), nextId)
  <2>1. Header \in Grown(nextId) /\ Header.id = None
    BY <1>2, HeaderKnown DEF Sound, Header, NewEntry
  <2>2. \A e \in ToSet(g) : e \in Grown(nextId) /\ (e.id = None => e = Header)
    BY <1>5, <1>6 DEF Sound, Grown
  <2>. QED
    BY <1>5, <1>6, <2>1, <2>2 DEF Sound
<1>. HIDE DEF es
<1>9. ManagerInv(manager, es, nextId) /\ manager.file = path
  <2>1. Sound(ToSet(es), nextId)
    BY <1>7, <1>8
  <2>2. nextId \in Nat /\ path \in Nat /\ path # 0 /\ es \in Seq(Entry)
    BY <1>2, <1>3, <1>7
  <2>. HIDE DEF path
  <2>. QED
    BY <2>1, <2>2, IndexKnown
<1>10. <<>> \o es = es /\ Sound(ToSet(<<>>) \cup ToSet(es), nextId)
  <2>1. ToSet(<<>>) \cup ToSet(es) = {Header} \cup ToSet(g)
    BY <1>7, ElementsNone
  <2>2. <<>> \o es = es
    BY <1>7
  <2>. QED
    BY <1>8, <2>1, <2>2
<1>. HIDE DEF manager, path
<1>11. Fits(nextId, nextId, nextFile, path, path, <<>>, es, manager)
  BY <1>1, <1>2, <1>3, <1>4, <1>7, <1>9, <1>10 DEF Fits
<1>12. /\ FilesInv(files', nextId, path)
       /\ ManagerInv(sm', LinesOf(files', sm'.file), nextId)
       /\ sm'.file \in {0, path}
       /\ crashes' \in 0 .. MaxCrashes
       /\ Grows(files, files')
  BY <1>11, WriteKeeps
<1>. QED
  BY <1>1, <1>2, <1>3, <1>12 DEF Inv

(* Entries of which none clears a label.                                   *)
LEMMA LivePlain ==
  ASSUME NEW es \in Seq(Entry), \A e \in ToSet(es) : e.type # "unlabel"
  PROVE  Live(es) = {e.ref : e \in {d \in ToSet(es) : d.type = "label"}}
<1>1. \A i \in 1 .. Len(es) : es[i] \in ToSet(es) /\ es[i].type # "unlabel"
  BY DEF ToSet
<1>2. \A e \in ToSet(es) : \E i \in 1 .. Len(es) : e = es[i]
  BY DEF ToSet
<1>. HIDE DEF ToSet
<1>3. ASSUME NEW x PROVE x \in Live(es) <=> \E e \in ToSet(es) : e.type = "label" /\ x = e.ref
  <2>1. x \in Live(es) <=> \E i \in 1 .. Len(es) : es[i].type = "label" /\ x = es[i].ref
    BY <1>1 DEF Live
  <2>. QED
    BY <1>1, <1>2, <2>1
<1>. QED
  BY <1>3

\* What the chain of the labels that are carried over looks like.
Chained(c, labels, last, l) ==
  /\ c \in Seq(Entry) /\ l \in Nat /\ Len(c) = l
  /\ \A i \in 1 .. l :
       /\ c[i].type = "label" /\ c[i].id = nextId + i
       /\ c[i].parentId = IF i = 1 THEN last ELSE nextId + i - 1
       /\ c[i] \in Grown(nextId + l)
  /\ {e.ref : e \in ToSet(c)} = ToSet(labels)
  /\ \A e \in ToSet(c) : \E i \in 1 .. l : e = c[i]

(* The label entries have new ids, each the parent of the next.            *)
LEMMA ChainKnown ==
  ASSUME nextId \in Nat, NEW labels \in Seq(Nat), NEW last \in 0 .. nextId,
         NEW c, c = LabelChain(labels, last), NEW l, l = Len(labels)
  PROVE  Chained(c, labels, last, l)
<1>1. l \in Nat /\ DOMAIN labels = 1 .. l /\ \A i \in 1 .. l : labels[i] \in Nat
  OBVIOUS
<1>. DEFINE parent(i) == IF i = 1 THEN last ELSE nextId + i - 1
<1>2. c = [i \in 1 .. l |-> NewEntry("label", nextId + i, parent(i), labels[i])]
  BY <1>1 DEF LabelChain
<1>3. \A i \in 1 .. l : parent(i) \in Nat /\ parent(i) < nextId + i
  BY <1>1
<1>. HIDE DEF parent
<1>4. \A i \in 1 .. l : /\ c[i] = [type |-> "label", id |-> nextId + i, parentId |-> parent(i), ref |-> labels[i]]
                       /\ nextId + i \in Nat /\ nextId + i # 0 /\ nextId + i <= nextId + l
  BY <1>1, <1>2 DEF NewEntry
<1>5. ASSUME NEW i \in 1 .. l
      PROVE  /\ c[i] \in Entry /\ c[i].type = "label" /\ c[i].ref = labels[i]
             /\ c[i].id = nextId + i /\ c[i].parentId = parent(i)
             /\ c[i] \in Grown(nextId + l)
  <2>. DEFINE d == nextId + i
              u == parent(i)
              r == labels[i]
  <2>1. c[i] = [type |-> "label", id |-> d, parentId |-> u, ref |-> r]
    BY <1>4
  <2>2. /\ d \in Nat /\ u \in Nat /\ r \in Nat /\ u < d /\ d # 0 /\ d <= nextId + l
    BY <1>1, <1>3, <1>4
  <2>. HIDE DEF d, u, r
  <2>3. c[i] \in Entry /\ c[i].type = "label" /\ c[i].ref = r /\ c[i].id = d /\ c[i].parentId = u
    BY <2>1, <2>2 DEF Entry, AppendTypes
  <2>4. c[i] \in Grown(nextId + l)
    BY <2>2, <2>3 DEF Grown, None
  <2>. QED
    BY <2>3, <2>4 DEF d, u, r
<1>6. c \in Seq(Entry) /\ Len(c) = l /\ DOMAIN c = 1 .. l
  BY <1>1, <1>2, <1>5
<1>8. {e.ref : e \in ToSet(c)} = ToSet(labels)
  <2>. QED
    BY <1>1, <1>5, <1>6 DEF ToSet
<1>9. \A e \in ToSet(c) : \E i \in 1 .. l : e = c[i]
  BY <1>6 DEF ToSet
<1>. QED
  BY <1>1, <1>5, <1>6, <1>8, <1>9 DEF parent, Chained

(* The entries of a branched session.                                      *)
LEMMA OnPathKnown ==
  ASSUME Inv, NEW leaf \in Ids(sm.entries), NEW q, q = OnPath(leaf)
  PROVE  /\ q \in Seq(Entry) /\ ToSet(q) \subseteq ToSet(sm.entries)
         /\ \A e \in ToSet(q) : e.type \notin {"label", "unlabel", "session"} /\ e.id # None
         /\ (IF q = <<>> THEN None ELSE Last(q).id) \in 0 .. nextId
         /\ getBranch(sm.entries, leaf) \in Seq(Entry)
<1>. DEFINE es == sm.entries
            p == getBranch(es, leaf)
            S == {e \in ToSet(p) : e.type \notin {"label", "unlabel"}}
<1>1. es \in Seq(Entry) /\ Sound(ToSet(es), nextId) /\ nextId \in Nat
  BY DEF Inv, ManagerInv, Manager
<1>. HIDE DEF es
<1>2. leaf \in Nat
  BY <1>1, ByIdKnown DEF es
<1>3. Linked(p, es, leaf)
  BY <1>1, <1>2, BranchLinked
<1>. HIDE DEF p
<1>4. p \in Seq(ToSet(es)) /\ \A e \in ToSet(p) : e \in ToSet(es) /\ e.id # None
  <2>1. p \in Seq(ToSet(es)) /\ \A i \in 1 .. Len(p) : p[i].id # None
    BY <1>3 DEF Linked
  <2>2. \A i \in 1 .. Len(p) : p[i] \in ToSet(es)
    BY <2>1
  <2>3. \A e \in ToSet(p) : \E i \in 1 .. Len(p) : e = p[i]
    BY <2>1 DEF ToSet
  <2>. QED
    BY <2>1, <2>2, <2>3
<1>5. ToSet(es) \subseteq Entry
  BY <1>1 DEF ToSet
<1>6. p \in Seq(Entry)
  BY <1>4, <1>5
<1>. HIDE DEF S
<1>7. q = Keep(p, S)
  BY DEF OnPath, Without, p, es, S
<1>8. q \in Seq(Entry) /\ ToSet(q) = ToSet(p) \cap S
  BY <1>6, <1>7, KeepKnown
<1>9. \A e \in ToSet(es) : e.id \in Nat /\ e.id <= nextId /\ (e.id # None => e.type # "session")
  BY <1>1 DEF Sound, Grown, Entry
<1>10. \A e \in ToSet(q) : /\ e \in ToSet(es) /\ e.id # None
                           /\ e.type \notin {"label", "unlabel", "session"}
  BY <1>4, <1>8, <1>9 DEF S
<1>11. (IF q = <<>> THEN None ELSE Last(q).id) \in 0 .. nextId
  <2>1. CASE q = <<>>
    BY <1>1, <2>1 DEF None
  <2>2. CASE q # <<>>
    <3>1. Len(q) \in DOMAIN q /\ Last(q) = q[Len(q)]
      BY <1>8, <2>2 DEF Last
    <3>2. Last(q) \in ToSet(q)
      BY <3>1 DEF ToSet
    <3>. QED
      BY <1>1, <1>9, <1>10, <2>2, <3>2
  <2>. QED
    BY <2>1, <2>2
<1>. QED
  BY <1>6, <1>8, <1>10, <1>11 DEF p, es

\* The parts of a branched session: its path, its labels, the entry they are
\* chained to, their entries, all entries, and the last id.
Parts(leaf, q, labels, last, c, es, m) ==
  /\ q = OnPath(leaf)
  /\ labels = Keep(sm.labels, Ids(q))
  /\ last = (IF q = <<>> THEN None ELSE Last(q).id)
  /\ c = LabelChain(labels, last)
  /\ es = BranchedEntries(leaf)
  /\ m = Max({nextId} \cup Ids(es))

(* The entries of a branched session are sound and have its labels.        *)
LEMMA BranchedKnown ==
  ASSUME Inv, NEW leaf \in Ids(sm.entries), NEW q, NEW labels, NEW last, NEW c, NEW es, NEW m,
         Parts(leaf, q, labels, last, c, es, m)
  PROVE  /\ es = (<<Header>> \o q) \o c
         /\ labels \in Seq(Nat) /\ ToSet(labels) = ToSet(sm.labels) \cap Ids(q)
         /\ es \in Seq(Entry) /\ ToSet(es) = {Header} \cup ToSet(q) \cup ToSet(c)
         /\ m \in Nat /\ nextId <= m
         /\ Sound(ToSet(es), m)
         /\ Live(es) = ToSet(labels)
<1>0. /\ q = OnPath(leaf)
      /\ labels = Keep(sm.labels, Ids(q))
      /\ last = (IF q = <<>> THEN None ELSE Last(q).id)
      /\ c = LabelChain(labels, last)
      /\ es = BranchedEntries(leaf)
      /\ m = Max({nextId} \cup Ids(es))
  BY DEF Parts
<1>. USE <1>0
<1>. DEFINE l == Len(labels)
            n == nextId
<1>1. n \in Nat /\ sm.labels \in Seq(Nat) /\ Sound(ToSet(sm.entries), n)
  BY DEF Inv, ManagerInv, Manager
<1>2. /\ q \in Seq(Entry) /\ ToSet(q) \subseteq ToSet(sm.entries) /\ last \in 0 .. n
      /\ \A e \in ToSet(q) : e.type \notin {"label", "unlabel", "session"} /\ e.id # None
  BY OnPathKnown
<1>3. labels \in Seq(Nat) /\ ToSet(labels) = ToSet(sm.labels) \cap Ids(q)
  BY <1>1, KeepKnown
<1>4. /\ c \in Seq(Entry) /\ l \in Nat /\ Len(c) = l
      /\ \A i \in 1 .. l : /\ c[i].type = "label" /\ c[i].id = n + i
                           /\ c[i] \in Grown(n + l)
      /\ {e.ref : e \in ToSet(c)} = ToSet(labels)
      /\ \A e \in ToSet(c) : \E i \in 1 .. l : e = c[i]
  <2>1. nextId \in Nat /\ labels \in Seq(Nat) /\ last \in 0 .. nextId
    BY <1>1, <1>2, <1>3
  <2>2. Chained(c, labels, last, l)
    BY <2>1, ChainKnown
  <2>. QED
    BY <2>2 DEF Chained
<1>5. es = (<<Header>> \o q) \o c
  BY DEF BranchedEntries, WithLabels
<1>6. es \in Seq(Entry) /\ ToSet(es) = {Header} \cup ToSet(q) \cup ToSet(c)
  <2>. DEFINE h == <<Header>> \o q
  <2>1. h \in Seq(Entry) /\ ToSet(h) = {Header} \cup ToSet(q)
    BY <1>2, HeaderJoin
  <2>. HIDE DEF h
  <2>2. h \o c \in Seq(Entry) /\ ToSet(h \o c) = ToSet(h) \cup ToSet(c)
    BY <1>4, <2>1, ElementsJoin
  <2>. QED
    BY <1>5, <2>1, <2>2 DEF h
<1>. HIDE DEF l, n
<1>7. Sound(ToSet(es), n + l)
  <2>1. n + l \in Nat /\ n <= n + l
    BY <1>1, <1>4
  <2>2. Sound(ToSet(q), n) /\ Sound(ToSet(q), n + l)
    BY <1>1, <1>2, <2>1, SoundParts
  <2>3. Sound({Header}, n + l) /\ Header.id = None
    BY <2>1, HeaderKnown DEF Header, NewEntry
  <2>4. \A e \in ToSet(q) : e.id # None /\ e.id \in Nat /\ e.id <= n
    BY <1>2, <2>2 DEF Sound, Grown, Entry
  <2>5. \A e \in ToSet(c) : /\ e \in Grown(n + l) /\ e.id > n
                            /\ \A d \in ToSet(c) : d.id = e.id => d = e
    <3>1. ASSUME NEW e \in ToSet(c), NEW d \in ToSet(c), d.id = e.id PROVE d = e
      <4>1. PICK i \in 1 .. l : e = c[i]
        BY <1>4
      <4>2. PICK j \in 1 .. l : d = c[j]
        BY <1>4
      <4>3. i = j
        BY <1>1, <1>4, <3>1, <4>1, <4>2
      <4>. QED
        BY <4>1, <4>2, <4>3
    <3>2. ASSUME NEW e \in ToSet(c) PROVE e \in Grown(n + l) /\ e.id > n
      <4>1. PICK i \in 1 .. l : e = c[i]
        BY <1>4
      <4>. QED
        BY <1>1, <1>4, <4>1
    <3>. QED
      BY <3>1, <3>2
  <2>6. ASSUME NEW d \in ToSet(es), NEW e \in ToSet(es), d.id = e.id PROVE d = e
    <3>1. d = Header \/ d \in ToSet(q) \/ d \in ToSet(c)
      BY <1>6
    <3>2. e = Header \/ e \in ToSet(q) \/ e \in ToSet(c)
      BY <1>6
    <3>3. \A x \in ToSet(c) : x.id # None /\ x.id > n
      BY <1>1, <2>5 DEF None
    <3>4. \A x, y \in ToSet(q) : x.id = y.id => x = y
      BY <2>2 DEF Sound
    <3>5. \A x \in ToSet(q), y \in ToSet(c) : x.id # y.id
      BY <1>1, <2>4, <3>3
    <3>. QED
      BY <2>3, <2>4, <2>5, <2>6, <3>1, <3>2, <3>3, <3>4, <3>5
  <2>7. ToSet(es) \subseteq Grown(n + l)
    BY <1>6, <2>2, <2>3, <2>5 DEF Sound
  <2>. QED
    BY <2>6, <2>7 DEF Sound
<1>8. m \in Nat /\ n <= m /\ \A e \in ToSet(es) : e.id <= m
  <2>. DEFINE S == {n} \cup Ids(es)
  <2>1. \A e \in ToSet(es) : e.id \in 0 .. n + l /\ (e.id # None => e.id \in Ids(es))
    BY <1>1, <1>4, <1>7 DEF Sound, Grown, Entry, Ids, ToSet
  <2>2. Ids(es) \subseteq 0 .. n + l
    BY <2>1 DEF Ids, ToSet
  <2>3. S \in SUBSET (0 .. n + l) /\ S # {} /\ n \in S /\ n + l \in Nat
    BY <1>1, <1>4, <2>2
  <2>. HIDE DEF S
  <2>4. Max(S) \in S /\ \A y \in S : y <= Max(S)
    BY <2>3, MaxKnown
  <2>5. m = Max(S)
    BY DEF S, n
  <2>6. m \in Nat /\ n <= m /\ \A y \in S : y <= m
    <3>1. m \in S /\ \A y \in S : y <= m
      BY <2>4, <2>5, Zenon
    <3>2. m \in 0 .. n + l
      BY <2>3, <3>1, Zenon
    <3>3. n <= m
      BY <2>3, <3>1, Zenon
    <3>4. m \in Nat
      BY <2>3, <3>2
    <3>. QED
      BY <3>1, <3>3, <3>4, Zenon
  <2>. QED
    <3>1. \A e \in ToSet(es) : e.id \in S \/ e.id = 0
      BY <2>1, Zenon DEF S, None
    <3>2. ASSUME NEW e \in ToSet(es) PROVE e.id <= m
      <4>1. CASE e.id = 0
        BY <2>6, <4>1
      <4>2. CASE e.id \in S
        BY <2>6, <4>2, Zenon
      <4>. QED
        BY <3>1, <4>1, <4>2
    <3>. QED
      BY <2>6, <3>2
<1>9. Sound(ToSet(es), m)
  <2>1. \A e \in ToSet(es) : e \in Grown(n + l) /\ e.id <= m
    BY <1>7, <1>8 DEF Sound
  <2>2. \A e \in ToSet(es) : e \in Grown(m)
    BY <2>1 DEF Grown
  <2>. QED
    BY <1>7, <2>2 DEF Sound
<1>10. Live(es) = ToSet(labels)
  <2>1. \A e \in ToSet(c) : e.type = "label"
    BY <1>4
  <2>2. Header.type = "session"
    BY DEF Header, NewEntry
  <2>3. \A e \in ToSet(es) : e.type # "unlabel" /\ (e.type = "label" <=> e \in ToSet(c))
    BY <1>2, <1>6, <2>1, <2>2
  <2>4. Live(es) = {e.ref : e \in {d \in ToSet(es) : d.type = "label"}}
    BY <1>6, <2>3, LivePlain
  <2>5. {d \in ToSet(es) : d.type = "label"} = ToSet(c)
    BY <1>6, <2>3
  <2>. QED
    BY <1>4, <2>4, <2>5
<1>. QED
  BY <1>3, <1>5, <1>6, <1>8, <1>9, <1>10 DEF n

(* A branch goes to a file that was not there, now or later.               *)
LEMMA CreateBranchedKeeps ==
  ASSUME SessionAssumption, Inv, NEW leaf, CreateBranchedSession(leaf)
  PROVE  Inv' /\ Grows(files, files')
<1>. DEFINE path == nextFile + 1
            es == BranchedEntries(leaf)
            now == HasAssistant(es)
            m == Max({nextId} \cup Ids(es))
            index == BuildIndex(path, es)
            manager == [index EXCEPT !.flushed = now]
            added == IF now THEN es ELSE <<>>
<1>1. /\ leaf \in Ids(sm.entries) /\ path <= MaxFiles
      /\ Write(path, <<>>, added, manager)
      /\ nextFile' = (IF path > nextFile THEN path ELSE nextFile)
      /\ nextId' = m
  BY DEF CreateBranchedSession, BranchInto
<1>2. /\ FilesInv(files, nextId, nextFile) /\ MaxCrashes \in Nat /\ MaxFiles \in Nat
      /\ nextId \in Nat /\ nextFile \in 0 .. MaxFiles /\ crashes \in 0 .. MaxCrashes
  BY DEF Inv, SessionAssumption
<1>3. /\ path \in Nat /\ path # 0 /\ path \in 1 .. path /\ path \in 0 .. MaxFiles
      /\ nextFile \in Nat /\ nextFile <= path /\ nextFile' = path
      /\ path \notin DOMAIN files
  BY <1>1, <1>2 DEF FilesInv
<1>4. <<>> = LinesOf(files, path)
  BY <1>3 DEF LinesOf
<1>. HIDE DEF path, es, m
<1>5. es \in Seq(Entry) /\ m \in Nat /\ nextId <= m /\ Sound(ToSet(es), m)
  <2>. DEFINE q == OnPath(leaf)
              labels == Keep(sm.labels, Ids(q))
              last == IF q = <<>> THEN None ELSE Last(q).id
              c == LabelChain(labels, last)
  <2>1. Parts(leaf, q, labels, last, c, es, m)
    BY DEF Parts, es, m
  <2>. HIDE DEF q, labels, last, c
  <2>. QED
    BY <1>1, <2>1, BranchedKnown
<1>6. ManagerInv(index, es, m) /\ index.file = path /\ index.entries = es
  BY <1>3, <1>5, IndexKnown
<1>7. index = [file |-> path, entries |-> es, leaf |-> index.leaf,
               labels |-> index.labels, flushed |-> index.flushed]
  BY <1>6 DEF ManagerInv, Manager
<1>. HIDE DEF index
<1>8. manager = [file |-> path, entries |-> es, leaf |-> index.leaf,
                 labels |-> index.labels, flushed |-> now] /\ now \in BOOLEAN
  <2>1. now \in BOOLEAN
    BY DEF HasAssistant
  <2>. HIDE DEF now
  <2>. QED
    BY <1>7, <2>1
<1>9. /\ index \in Manager /\ index.leaf \in Ids(es) \cup {None} /\ Sound(ToSet(es), m)
      /\ ToSet(index.labels) = Live(es) /\ index.labels \in Seq(Nat) /\ index.leaf \in Nat
  BY <1>6 DEF ManagerInv, Manager
<1>. HIDE DEF manager
<1>10. manager \in Manager
  BY <1>3, <1>5, <1>8, <1>9 DEF Manager
<1>11. Held(es, es)
  <2>1. <<>> \in Seq(Entry) /\ es = <<>> \o es /\ ToSet(<<>>) \subseteq ToSet(es)
    BY <1>5, ElementsNone
  <2>. QED
    BY <2>1 DEF Held
<1>12. /\ added \in Seq(Entry) /\ <<>> \o added = added
       /\ Sound(ToSet(<<>>) \cup ToSet(added), m)
       /\ now => added = es
       /\ ~ now => added = <<>>
  <2>1. CASE now
    <3>1. added = es /\ <<>> \o es = es /\ ToSet(<<>>) = {}
      BY <1>5, <2>1, ElementsNone
    <3>. HIDE DEF added, now
    <3>2. ToSet(<<>>) \cup ToSet(added) = ToSet(es)
      BY <3>1
    <3>. QED
      BY <1>5, <2>1, <3>1, <3>2
  <2>2. CASE ~ now
    <3>1. added = <<>> /\ ToSet(<<>>) = {}
      BY <2>2, ElementsNone
    <3>2. ToSet(<<>>) \cup ToSet(added) = {}
      BY <3>1
    <3>. HIDE DEF added, now
    <3>3. added \in Seq(Entry) /\ <<>> \o added = added
      BY <3>1
    <3>. QED
      BY <2>2, <3>1, <3>2, <3>3 DEF Sound
  <2>. QED
    BY <2>1, <2>2
<1>. HIDE DEF added
<1>13. ManagerInv(manager, added, m) /\ manager.file = path
  <2>1. CASE now
    BY <1>3, <1>8, <1>9, <1>10, <1>11, <1>12, <2>1 DEF ManagerInv
  <2>2. CASE ~ now
    <3>1. ToSet(added) \subseteq ToSet(es)
      BY <1>12, <2>2, ElementsNone
    <3>. QED
      BY <1>3, <1>8, <1>9, <1>10, <1>12, <2>2, <3>1 DEF ManagerInv
  <2>. QED
    BY <2>1, <2>2
<1>. HIDE DEF now
<1>14. Fits(nextId, m, nextFile, path, path, <<>>, added, manager)
  BY <1>1, <1>2, <1>3, <1>4, <1>5, <1>12, <1>13 DEF Fits
<1>15. /\ FilesInv(files', m, path)
       /\ ManagerInv(sm', LinesOf(files', sm'.file), m)
       /\ sm'.file \in {0, path}
       /\ crashes' \in 0 .. MaxCrashes
       /\ Grows(files, files')
  BY <1>14, WriteKeeps
<1>. QED
  BY <1>1, <1>3, <1>5, <1>15 DEF Inv

(* What every step keeps, and what it does to the files.                   *)
LEMMA StepKeeps ==
  ASSUME SessionAssumption, Inv, [Next]_vars
  PROVE  Inv' /\ Grows(files, files')
<1>1. /\ sm.leaf \in Ids(sm.entries) \cup {None} /\ nextId \in Nat /\ None \in Nat
      /\ 0 .. nextId \subseteq Nat
  BY DEF Inv, ManagerInv, None
<1>2. ASSUME NEW type \in AppendTypes, AppendPlain(type) PROVE Inv' /\ Grows(files, files')
  BY <1>1, <1>2, AppendKeeps DEF AppendPlain, AppendEntry
<1>3. ASSUME NEW id \in 0 .. nextId, AppendCompaction(id) PROVE Inv' /\ Grows(files, files')
  <2>1. "compaction" \in AppendTypes
    BY DEF AppendTypes
  <2>. QED
    BY <1>1, <1>3, <2>1, AppendKeeps DEF AppendCompaction, AppendEntry
<1>4. ASSUME NEW id \in 0 .. nextId, BranchWithSummary(id) PROVE Inv' /\ Grows(files, files')
  BY <1>1, <1>4, AppendKeeps DEF BranchWithSummary, AppendEntry
<1>5. ASSUME NEW id \in 0 .. nextId, NEW type \in AppendTypes, AppendLabelChange(type, id)
      PROVE  Inv' /\ Grows(files, files')
  BY <1>1, <1>5, AppendKeeps DEF AppendLabelChange, AppendEntry
<1>6. CASE UNCHANGED vars
  <2>1. /\ sm' = sm /\ files' = files /\ nextId' = nextId /\ nextFile' = nextFile
        /\ crashes' = crashes
    BY <1>6 DEF vars
  <2>2. FilesInv(files, nextId, nextFile)
    BY DEF Inv
  <2>3. Inv'
    BY <2>1 DEF Inv
  <2>. QED
    BY <2>1, <2>2, <2>3, GrowsSame
<1>7. CASE Next
  BY <1>2, <1>3, <1>4, <1>5, <1>7, NewSessionKeeps, CrashKeeps, BranchMoves,
     CreateBranchedKeeps, SetSessionFileKeeps, ForkKeeps DEF Next
<1>. QED
  BY <1>6, <1>7

(* At the start there is no process, and at most an empty file.            *)
LEMMA InitHolds ==
  ASSUME SessionAssumption, Init
  PROVE  Inv
<1>1. PICK n \in {0, 1} : files = [p \in 1 .. n |-> <<>>] /\ nextFile = n
  BY DEF Init
<1>2. sm = NoSession /\ nextId = 0 /\ crashes = 0
  BY DEF Init
<1>3. nextFile \in 0 .. MaxFiles /\ crashes \in 0 .. MaxCrashes /\ nextId \in Nat
  BY <1>1, <1>2 DEF SessionAssumption
<1>4. FilesInv(files, nextId, nextFile)
  <2>1. \A p \in DOMAIN files : files[p] = <<>>
    BY <1>1
  <2>. QED
    BY <1>1, <2>1, ElementsNone DEF FilesInv, Sound
<1>5. sm.file <= nextFile
  BY <1>1, <1>2 DEF NoSession
<1>6. ManagerInv(sm, LinesOf(files, sm.file), nextId)
  BY <1>2, <1>3, NoSessionKnown
<1>. QED
  BY <1>3, <1>4, <1>5, <1>6 DEF Inv

(* The inductive invariant.                                                *)
THEOREM InvHolds == Spec => []Inv
<1>1. Init => Inv
  BY SessionAssumption, InitHolds
<1>2. Inv /\ [Next]_vars => Inv'
  BY SessionAssumption, StepKeeps
<1>. QED
  BY <1>1, <1>2, PTL DEF Spec

(* Type correctness: the manager, the files and the counters are what they *)
(* are declared to be, and the leaf of the session is one of its entries   *)
(* or none (session-manager.ts 660-690).                                   *)
THEOREM TypesHold == Spec => []TypeOK
<1>1. Inv => TypeOK
  BY DEF Inv, ManagerInv, FilesInv, TypeOK
<1>. QED
  BY <1>1, InvHolds, PTL
-----------------------------------------------------------------------------
(* What the file tells.                                                    *)

(* Entries of the process before them add nothing to the entries of a      *)
(* file, and their labels are changed again by what follows.               *)
LEMMA HeldTells ==
  ASSUME NEW es \in Seq(Entry), NEW lines, Held(lines, es)
  PROVE  /\ ToSet(getEntries(lines)) = ToSet(getEntries(es))
         /\ ToSet(LabelsOf(lines)) = Live(es)
<1>1. PICK P \in Seq(Entry) : lines = P \o es /\ ToSet(P) \subseteq ToSet(es)
  BY DEF Held
<1>2. lines \in Seq(Entry) /\ ToSet(lines) = ToSet(es)
  <2>1. P \o es \in Seq(Entry) /\ ToSet(P \o es) = ToSet(P) \cup ToSet(es)
    BY ElementsJoin
  <2>. QED
    BY <1>1, <2>1
<1>3. ASSUME NEW s \in Seq(Entry)
      PROVE  ToSet(getEntries(s)) = {e \in ToSet(s) : e.type \notin {"session"}}
  <2>. DEFINE S == {e \in ToSet(s) : e.type \notin {"session"}}
  <2>1. getEntries(s) = Keep(s, S)
    BY DEF getEntries, Without
  <2>2. S \subseteq ToSet(s)
    OBVIOUS
  <2>. HIDE DEF S
  <2>3. ToSet(Keep(s, S)) = ToSet(s) \cap S
    BY KeepKnown
  <2>4. ToSet(getEntries(s)) = S
    BY <2>1, <2>2, <2>3
  <2>. QED
    BY <2>4 DEF S
<1>4. ToSet(getEntries(lines)) = ToSet(getEntries(es))
  BY <1>2, <1>3
<1>5. Live(lines) = Live(es)
  BY <1>1, LiveJoin
<1>. QED
  BY <1>2, <1>4, <1>5, LabelsKnown

(* Once a session has an answer, whoever opens its file sees the session   *)
(* of the process: the same entries and labels, also after branches,       *)
(* crashes while writing, reloads and forks (session-manager.ts 747-816,   *)
(* 1208-1224).                                                             *)
THEOREM FileHolds == Spec => []FileHoldsSession
<1>1. ASSUME Inv, HasAssistant(sm.entries)
      PROVE  LET opened == BuildIndex(sm.file, Lines(sm.file))
             IN  /\ ToSet(getEntries(opened.entries)) = ToSet(getEntries(sm.entries))
                 /\ ToSet(opened.labels) = ToSet(sm.labels)
  <2>. DEFINE lines == Lines(sm.file)
              es == sm.entries
              opened == BuildIndex(sm.file, lines)
  <2>1. /\ es \in Seq(Entry) /\ ToSet(sm.labels) = Live(es)
        /\ sm.file = 0 => es = <<>>
        /\ sm.file # 0 /\ sm.flushed => Held(lines, es)
        /\ sm.file # 0 /\ ~ sm.flushed => ~ HasAssistant(es)
    BY <1>1, LinesAre DEF Inv, ManagerInv, Manager
  <2>2. es # <<>>
    BY <1>1 DEF HasAssistant
  <2>3. Held(lines, es)
    BY <1>1, <2>1, <2>2
  <2>4. opened.entries = lines /\ opened.labels = LabelsOf(lines)
    BY DEF BuildIndex
  <2>. HIDE DEF lines, es, opened
  <2>5. /\ ToSet(getEntries(lines)) = ToSet(getEntries(es))
        /\ ToSet(LabelsOf(lines)) = Live(es)
    BY <2>1, <2>3, HeldTells
  <2>6. /\ ToSet(getEntries(opened.entries)) = ToSet(getEntries(es))
        /\ ToSet(opened.labels) = ToSet(sm.labels)
    BY <2>1, <2>4, <2>5
  <2>. QED
    BY <2>6 DEF opened, lines, es
<1>2. Inv => FileHoldsSession
  BY <1>1 DEF FileHoldsSession
<1>. QED
  BY <1>2, InvHolds, PTL
-----------------------------------------------------------------------------
(* What a step does to the context.                                        *)

(* The new entry is the last and the leaf.                                 *)
LEMMA AppendAdds ==
  ASSUME Inv, NEW parent \in Ids(sm.entries) \cup {None},
         NEW type \in AppendTypes \cup {"branch_summary"}, NEW ref \in Nat,
         AppendUnder(parent, type, ref), sm'.file = sm.file,
         NEW e, e = Added(type, parent, ref)
  PROVE  /\ sm'.entries = Append(sm.entries, e) /\ sm'.leaf = e.id
         /\ Last(sm'.entries) = e /\ e.type = type
<1>. DEFINE w == With(e)
            lines == Persist(w, e)
            a == HasAssistant(w.entries)
            manager == [w EXCEPT !.flushed = a]
<1>1. sm.file # 0 /\ Write(sm.file, Lines(sm.file), lines, manager)
  BY DEF AppendUnder, Added, With
<1>2. sm' = manager
  BY <1>1 DEF Write, NoSession
<1>3. sm = [file |-> sm.file, entries |-> sm.entries, leaf |-> sm.leaf,
            labels |-> sm.labels, flushed |-> sm.flushed]
  BY DEF Inv, ManagerInv, Manager
<1>4. w = [file |-> sm.file, entries |-> Append(sm.entries, e), leaf |-> e.id,
           labels |-> Labelled(sm.labels, e), flushed |-> sm.flushed]
  <2>. DEFINE fs == Append(sm.entries, e)
              ls == Labelled(sm.labels, e)
  <2>1. With(e) = [sm EXCEPT !.entries = fs, !.leaf = e.id, !.labels = ls]
    BY DEF With
  <2>. HIDE DEF fs, ls
  <2>. QED
    BY <1>3, <2>1 DEF fs, ls
<1>. HIDE DEF w, a
<1>5. sm'.entries = Append(sm.entries, e) /\ sm'.leaf = e.id
  <2>1. manager.entries = w.entries /\ manager.leaf = w.leaf
    BY <1>4
  <2>. QED
    BY <1>2, <1>4, <2>1
<1>. HIDE DEF manager, lines
<1>6. /\ sm.entries \in Seq(Entry) /\ e \in Entry /\ e.type = type
  BY AddedKnown, SMTT(30)
<1>7. Last(Append(sm.entries, e)) = e
  <2>. DEFINE es == sm.entries
  <2>1. es \in Seq(Entry)
    BY <1>6
  <2>. HIDE DEF es
  <2>2. Last(Append(es, e)) = e
    BY <1>6, <2>1 DEF Last
  <2>. QED
    BY <2>2 DEF es
<1>. QED
  BY <1>5, <1>6, <1>7

\* The manager of a branched session.
Branched(path, es, now) == [BuildIndex(path, es) EXCEPT !.flushed = now]

LeafOf(es) == IF getEntries(es) = <<>> THEN None ELSE Last(getEntries(es)).id

(* The manager of a branched session, field by field.                      *)
LEMMA BranchedIs ==
  ASSUME NEW path, NEW es, NEW now
  PROVE  Branched(path, es, now) = [file |-> path, entries |-> es, leaf |-> LeafOf(es),
                                    labels |-> LabelsOf(es), flushed |-> now]
<1>. DEFINE leaf == LeafOf(es)
            labels == LabelsOf(es)
<1>1. BuildIndex(path, es) = [file |-> path, entries |-> es, leaf |-> leaf,
                              labels |-> labels, flushed |-> TRUE]
  BY DEF BuildIndex, LeafOf
<1>. HIDE DEF leaf, labels
<1>2. Branched(path, es, now) = [file |-> path, entries |-> es, leaf |-> leaf,
                                 labels |-> labels, flushed |-> now]
  BY <1>1 DEF Branched
<1>. QED
  BY <1>2 DEF leaf, labels

(* The session that a branch leaves behind, unless it crashes.             *)
LEMMA BranchedSession ==
  ASSUME NEW leaf, CreateBranchedSession(leaf),
         NEW es, es = BranchedEntries(leaf)
  PROVE  \/ sm'.file = 0
         \/ /\ sm'.file = nextFile + 1 /\ sm'.entries = es
            /\ sm'.leaf = LeafOf(es) /\ sm'.labels = LabelsOf(es)
<1>. DEFINE path == nextFile + 1
            now == HasAssistant(es)
<1>1. sm' = NoSession \/ sm' = Branched(path, es, now)
  <2>1. BranchInto(path, leaf, now)
    BY DEF CreateBranchedSession
  <2>. HIDE DEF now, path
  <2>2. Write(path, <<>>, IF now THEN es ELSE <<>>, Branched(path, es, now))
    BY <2>1, Zenon DEF BranchInto, Branched
  <2>. QED
    BY <2>2, Zenon DEF Write
<1>2. Branched(path, es, now) = [file |-> path, entries |-> es, leaf |-> LeafOf(es),
                                 labels |-> LabelsOf(es), flushed |-> now]
  BY BranchedIs, Zenon
<1>. HIDE DEF path, now
<1>3. CASE sm' = NoSession
  BY <1>3 DEF NoSession
<1>4. CASE sm' = Branched(path, es, now)
  <2>1. /\ sm'.file = path /\ sm'.entries = es
        /\ sm'.leaf = LeafOf(es) /\ sm'.labels = LabelsOf(es)
    BY <1>2, <1>4
  <2>. QED
    BY <2>1, Zenon DEF path
<1>. QED
  BY <1>1, <1>3, <1>4

(* The context of a session whose new leaf is a message.                   *)
LEMMA MessageShows ==
  ASSUME Inv, NEW type \in {"user", "assistant"},
         NEW e, e = Added(type, sm.leaf, None)
  PROVE  buildSessionContext(Append(sm.entries, e), e.id) = Append(Context(sm), e)
<1>. DEFINE es == sm.entries
            fs == Append(es, e)
            n == nextId
            m == n + 1
            leaf == sm.leaf
            p == getBranch(es, leaf)
<1>1. /\ e \in Entry /\ e.id = m /\ e.parentId = leaf /\ e.type = type
      /\ leaf \in 0 .. n
      /\ es \in Seq(Entry) /\ Sound(ToSet(es), n)
      /\ fs \in Seq(Entry) /\ ToSet(fs) = ToSet(es) \cup {e}
      /\ e \notin ToSet(es)
      /\ Sound(ToSet(fs), m)
  <2>1. type \in AppendTypes \cup {"branch_summary"} /\ None \in Nat
    BY DEF AppendTypes, None
  <2>2. sm.leaf \in Ids(sm.entries) \cup {None}
    BY DEF Inv, ManagerInv
  <2>. QED
    BY <2>1, <2>2, AddedKnown
<1>2. n \in Nat /\ m \in Nat /\ leaf \in Nat /\ m # None /\ m > n
  BY <1>1 DEF Inv, None
<1>. HIDE DEF es, fs, m, n, leaf
<1>3. e.id \in Ids(fs) /\ ById(fs, e.id) = e
  <2>1. e \in ToSet(fs) /\ e.id # None
    BY <1>1, <1>2
  <2>. QED
    BY <1>1, <1>2, <2>1, ByIdKnown
<1>4. \A id \in Ids(fs) \ Ids(es) : id > n
  <2>1. ASSUME NEW id \in Ids(fs), id \notin Ids(es) PROVE id > n
    <3>. DEFINE d == ById(fs, id)
    <3>4. /\ m \in Nat /\ fs \in Seq(Entry) /\ Sound(ToSet(fs), m)
          /\ n \in Nat /\ es \in Seq(Entry) /\ Sound(ToSet(es), n)
      BY <1>1, <1>2
    <3>1. d \in ToSet(fs) /\ d.id = id /\ id # None
      BY <2>1, <3>4, ByIdKnown, Zenon
    <3>. HIDE DEF d
    <3>2. d \notin ToSet(es)
      <4>1. \A c \in ToSet(es) : c.id # None => c.id \in Ids(es)
        BY <3>4, ByIdKnown, Zenon
      <4>. QED
        BY <2>1, <3>1, <4>1
    <3>3. id = m
      BY <1>1, <3>1, <3>2
    <3>. QED
      BY <1>2, <3>3
  <2>. QED
    BY <2>1
<1>5. getBranch(fs, leaf) = p
  <2>1. /\ m \in Nat /\ fs \in Seq(Entry) /\ Sound(ToSet(fs), m)
        /\ n \in Nat /\ es \in Seq(Entry) /\ Sound(ToSet(es), n)
        /\ ToSet(es) \subseteq ToSet(fs) /\ leaf \in 0 .. n
    BY <1>1, <1>2
  <2>. QED
    BY <1>4, <2>1, BranchStays, Zenon
<1>6. getBranch(fs, e.id) = Append(p, e)
  <2>1. e.id \in Nat
    BY <1>1, <1>2
  <2>2. getBranch(fs, e.id) = Append(getBranch(fs, ById(fs, e.id).parentId), ById(fs, e.id))
    BY <1>1, <1>2, <1>3, <2>1, BranchStep
  <2>. QED
    BY <1>1, <1>3, <1>5, <2>2
<1>7. p \in Seq(Entry) /\ e \notin ToSet(p)
  <2>1. Linked(p, es, leaf)
    BY <1>1, <1>2, BranchLinked
  <2>. HIDE DEF p
  <2>2. p \in Seq(ToSet(es))
    BY <2>1 DEF Linked
  <2>3. ToSet(es) \subseteq Entry
    BY <1>1 DEF ToSet
  <2>4. \A i \in 1 .. Len(p) : p[i] \in ToSet(es)
    BY <2>2
  <2>5. \A d \in ToSet(p) : \E i \in 1 .. Len(p) : d = p[i]
    BY <2>2 DEF ToSet
  <2>. QED
    BY <1>1, <2>2, <2>3, <2>4, <2>5
<1>. HIDE DEF p
<1>8. contextOf(Append(p, e)) = Append(contextOf(p), e)
  <2>1. e.type # "compaction" /\ e.type \in ShownTypes
    BY <1>1 DEF ShownTypes
  <2>. QED
    BY <1>1, <1>7, <2>1, ContextAppend
<1>9. Context(sm) = contextOf(p)
  BY DEF Context, buildSessionContext, p, es, leaf
<1>. QED
  BY <1>6, <1>8, <1>9 DEF buildSessionContext, fs, es

(* A message that is appended comes to the end of what the model is shown  *)
(* and changes nothing before it, wherever the leaf was moved and whatever *)
(* was compacted or branched (session-manager.ts 307-414, 811-836).        *)
THEOREM MessagesExtend == Spec => MessageExtendsContext
<1>. DEFINE Extends == sm.file # 0 /\ sm'.file = sm.file /\ nextId' # nextId
                       /\ Last(sm'.entries).type \in {"user", "assistant"}
                       => Context(sm') = Append(Context(sm), Last(sm'.entries))
<1>1. ASSUME Inv, [Next]_vars, sm.file # 0, sm'.file = sm.file, nextId' # nextId,
             Last(sm'.entries).type \in {"user", "assistant"}
      PROVE  Context(sm') = Append(Context(sm), Last(sm'.entries))
  <2>1. sm.leaf \in Ids(sm.entries) \cup {None} /\ None \in Nat
    BY <1>1 DEF Inv, ManagerInv, None
  <2>2. /\ nextId \in Nat /\ nextFile \in Nat /\ sm.file \in Nat /\ sm.file <= nextFile
        /\ 0 .. nextId \subseteq Nat
    BY <1>1 DEF Inv, ManagerInv, Manager
  <2>3. ASSUME NEW type \in AppendTypes, AppendPlain(type)
        PROVE  Context(sm') = Append(Context(sm), Last(sm'.entries))
    <3>. DEFINE e == Added(type, sm.leaf, None)
    <3>1. AppendUnder(sm.leaf, type, None)
      BY <2>3 DEF AppendPlain, AppendEntry
    <3>2. /\ sm'.entries = Append(sm.entries, e) /\ sm'.leaf = e.id
          /\ Last(sm'.entries) = e /\ e.type = type
      BY <1>1, <2>1, <3>1, AppendAdds
    <3>3. type \in {"user", "assistant"}
      BY <1>1, <3>2
    <3>4. buildSessionContext(Append(sm.entries, e), e.id) = Append(Context(sm), e)
      BY <1>1, <3>3, MessageShows
    <3>5. Context(sm') = buildSessionContext(sm'.entries, sm'.leaf)
      BY DEF Context
    <3>. HIDE DEF e
    <3>. QED
      BY <3>2, <3>4, <3>5
  <2>4. ASSUME NEW parent \in Ids(sm.entries) \cup {None},
               NEW type \in {"compaction", "label", "unlabel", "branch_summary"},
               NEW ref \in Nat, AppendUnder(parent, type, ref)
        PROVE  FALSE
    <3>. DEFINE e == Added(type, parent, ref)
    <3>1. type \in AppendTypes \cup {"branch_summary"}
      BY DEF AppendTypes
    <3>2. Last(sm'.entries) = e /\ e.type = type
      BY <1>1, <2>4, <3>1, AppendAdds
    <3>. QED
      BY <1>1, <3>2
  <2>5. ASSUME NEW id \in 0 .. nextId, AppendCompaction(id) PROVE FALSE
    BY <2>1, <2>2, <2>4, <2>5 DEF AppendCompaction, AppendEntry
  <2>6. ASSUME NEW id \in 0 .. nextId, BranchWithSummary(id) PROVE FALSE
    BY <2>1, <2>4, <2>6 DEF BranchWithSummary, AppendEntry
  <2>7. ASSUME NEW id \in 0 .. nextId, NEW type \in AppendTypes, AppendLabelChange(type, id)
        PROVE  FALSE
    BY <2>1, <2>2, <2>4, <2>7 DEF AppendLabelChange, AppendEntry
  <2>8. ASSUME NEW id \in 0 .. nextId, CreateBranchedSession(id) PROVE FALSE
    <3>. DEFINE path == nextFile + 1
                es == BranchedEntries(id)
    <3>1. sm'.file = 0 \/ sm'.file = path
      BY <2>8, BranchedSession, Zenon
    <3>2. sm'.file = sm.file /\ sm.file # 0
      BY <1>1, Zenon
    <3>3. sm.file = path
      BY <3>1, <3>2, Zenon
    <3>. QED
      BY <2>2, <3>3
  <2>9. ~ NewSession /\ ~ Crash /\ (\A id : ~ Branch(id)) /\ ~ UNCHANGED vars
        /\ (\A path : ~ SetSessionFile(path) /\ ~ ForkFrom(path))
    BY <1>1 DEF NewSession, Crash, Branch, SetSessionFile, ForkFrom, vars
  <2>. QED
    BY <1>1, <2>3, <2>5, <2>6, <2>7, <2>8, <2>9 DEF Next
<1>2. Inv /\ [Next]_vars => [Extends]_vars
  BY <1>1
<1>. QED
  BY <1>2, InvHolds, PTL DEF Spec, MessageExtendsContext
-----------------------------------------------------------------------------
(* What a branched session tells.                                          *)

(* The entries of the new session without its header.                      *)
LEMMA SeqOfElements ==
  ASSUME NEW S, NEW T, NEW s \in Seq(S), \A i \in 1 .. Len(s) : s[i] \in T
  PROVE  s \in Seq(T)
  OBVIOUS

(* The entries of the new session without its header.                      *)
LEMMA BranchedEntriesAre ==
  ASSUME NEW q \in Seq(Entry), \A e \in ToSet(q) : e.type # "session",
         NEW c \in Seq(Entry), \A e \in ToSet(c) : e.type # "session"
  PROVE  getEntries((<<Header>> \o q) \o c) = q \o c
<1>. DEFINE es == (<<Header>> \o q) \o c
            S == {e \in ToSet(es) : e.type \notin {"session"}}
            h == <<Header>>
<1>2. h \in Seq(Entry) /\ ToSet(h) = {Header} /\ <<>> \in Seq(Entry)
  BY HeaderKnown, ElementsOne
<1>. HIDE DEF h
<1>3. h \o q \in Seq(Entry) /\ ToSet(h \o q) = {Header} \cup ToSet(q)
  BY <1>2, ElementsJoin
<1>4. es \in Seq(Entry) /\ ToSet(es) = {Header} \cup ToSet(q) \cup ToSet(c)
  <2>. DEFINE t == h \o q
  <2>1. t \in Seq(Entry) /\ ToSet(t) = {Header} \cup ToSet(q)
    BY <1>3
  <2>2. es = t \o c
    BY DEF h
  <2>. HIDE DEF t
  <2>3. t \o c \in Seq(Entry) /\ ToSet(t \o c) = ToSet(t) \cup ToSet(c)
    BY <2>1, ElementsJoin
  <2>. QED
    BY <2>1, <2>2, <2>3
<1>5. Header \notin S /\ ToSet(q) \subseteq S /\ ToSet(c) \subseteq S
  BY <1>4 DEF Header, NewEntry
<1>. HIDE DEF S, es
<1>6. Keep(q, S) = q /\ Keep(c, S) = c
  BY <1>5, KeepAll
<1>7. Keep(h, S) = <<>>
  <2>1. Header \in Entry
    BY HeaderKnown
  <2>2. Keep(Append(<<>>, Header), S) = Keep(<<>>, S)
    BY <1>2, <1>5, <2>1, KeepAppend
  <2>3. h = Append(<<>>, Header)
    BY DEF h
  <2>. QED
    BY <2>2, <2>3, KeepEmpty, Zenon
<1>8. Keep(h \o q, S) = q
  <2>1. Keep(h \o q, S) = Keep(h, S) \o Keep(q, S)
    BY <1>2, KeepJoin
  <2>. QED
    BY <1>6, <1>7, <2>1
<1>9. Keep(es, S) = q \o c
  <2>. DEFINE t == h \o q
  <2>1. t \in Seq(Entry) /\ es = t \o c
    BY <1>3 DEF h, es
  <2>. HIDE DEF t
  <2>2. Keep(t \o c, S) = Keep(t, S) \o Keep(c, S)
    BY <2>1, KeepJoin
  <2>. QED
    BY <1>6, <1>8, <2>1, <2>2 DEF t
<1>. QED
  BY <1>9 DEF getEntries, Without, S, es

(* Its branch to the last entry is all of it.                              *)
LEMMA ConcatOf ==
  ASSUME NEW a, NEW b, a \in Seq(Entry), b \in Seq(Entry)
  PROVE  /\ a \o b \in Seq(Entry) /\ Len(a \o b) = Len(a) + Len(b)
         /\ \A i \in 1 .. Len(a) : (a \o b)[i] = a[i]
         /\ \A i \in 1 .. Len(b) : (a \o b)[Len(a) + i] = b[i]
  OBVIOUS

(* Its branch to the last entry is all of it.                              *)
LEMMA BranchedLinked ==
  ASSUME Inv, NEW leaf \in Ids(sm.entries), NEW q, q = OnPath(leaf),
         IsPrefix(q, getBranch(sm.entries, leaf)),
         NEW last, last = (IF q = <<>> THEN None ELSE Last(q).id),
         NEW labels, NEW l, NEW c, Chained(c, labels, last, l),
         NEW es \in Seq(Entry), ToSet(es) = {Header} \cup ToSet(q) \cup ToSet(c)
  PROVE  Linked(q \o c, es, IF q \o c = <<>> THEN None ELSE Last(q \o c).id)
<1>. DEFINE p == q \o c
            n == nextId
            from == IF p = <<>> THEN None ELSE Last(p).id
            path == getBranch(sm.entries, leaf)
            k == Len(q)
<1>1. /\ n \in Nat /\ sm.entries \in Seq(Entry) /\ Sound(ToSet(sm.entries), n)
      /\ Ids(sm.entries) \subseteq Nat
  <2>1. /\ n \in Nat /\ sm.entries \in Seq(Entry) /\ Sound(ToSet(sm.entries), n)
    BY DEF Inv, ManagerInv, Manager
  <2>2. \A id \in Ids(sm.entries) : id \in Nat
    BY <2>1, ByIdKnown
  <2>. QED
    BY <2>1, <2>2
<1>2. /\ q \in Seq(Entry) /\ ToSet(q) \subseteq ToSet(sm.entries)
      /\ \A e \in ToSet(q) : e.id # None
      /\ last \in 0 .. n /\ path \in Seq(Entry)
  BY OnPathKnown
<1>3. Linked(path, sm.entries, leaf)
  BY <1>1, BranchLinked
<1>4. /\ c \in Seq(Entry) /\ l \in Nat /\ Len(c) = l
      /\ \A i \in 1 .. l : /\ c[i].id = n + i
                           /\ c[i].parentId = IF i = 1 THEN last ELSE n + i - 1
      /\ \A e \in ToSet(c) : \E i \in 1 .. l : e = c[i]
  BY DEF Chained
<1>. HIDE DEF path, n
<1>5. /\ k \in Nat /\ k <= Len(path) /\ Len(path) \in Nat
      /\ \A i \in 1 .. k : q[i] = path[i]
  <2>1. PICK r \in Seq(Entry) : path = q \o r
    <3>1. IsPrefix(q, path)
      BY DEF path
    <3>. QED
      BY <1>2, <3>1, PrefixRest
  <2>. QED
    BY <1>2, <2>1
<1>6. /\ p \in Seq(Entry) /\ Len(p) = k + l
      /\ \A i \in 1 .. k : p[i] = path[i] /\ p[i] \in ToSet(q)
      /\ \A i \in 1 .. l : p[k + i] = c[i] /\ p[k + i] \in ToSet(c)
  <2>1. /\ p \in Seq(Entry) /\ Len(p) = k + l
        /\ \A i \in 1 .. k : p[i] = q[i]
        /\ \A i \in 1 .. l : p[k + i] = c[i]
    <3>1. /\ q \o c \in Seq(Entry) /\ Len(q \o c) = k + Len(c)
          /\ \A i \in 1 .. k : (q \o c)[i] = q[i]
          /\ \A i \in 1 .. Len(c) : (q \o c)[k + i] = c[i]
      <4>1. q \in Seq(Entry) /\ c \in Seq(Entry)
        BY <1>2, <1>4
      <4>. QED
        BY <4>1, ConcatOf
    <3>. HIDE DEF p
    <3>2. p = q \o c
      BY DEF p
    <3>. QED
      BY <1>4, <3>1, <3>2, Zenon
  <2>2. \A i \in 1 .. k : q[i] \in ToSet(q)
    BY <1>2 DEF ToSet
  <2>3. \A i \in 1 .. l : c[i] \in ToSet(c)
    <3>1. c \in Seq(Entry) /\ l = Len(c)
      BY <1>4
    <3>2. \A i \in 1 .. Len(c) : c[i] \in ToSet(c)
      BY <3>1 DEF ToSet
    <3>. QED
      BY <3>1, <3>2, Zenon
  <2>. QED
    BY <1>5, <2>1, <2>2, <2>3
<1>. HIDE DEF p
<1>7. \A i \in 1 .. Len(p) : i \in 1 .. k \/ (i - k \in 1 .. l /\ i = k + (i - k))
  BY <1>4, <1>5, <1>6
<1>8. p \in Seq(ToSet(es)) /\ \A i \in 1 .. Len(p) : p[i].id # None
  <2>1. \A i \in 1 .. Len(p) : p[i] \in ToSet(es) /\ p[i].id # None
    <3>. SUFFICES ASSUME NEW i \in 1 .. Len(p) PROVE p[i] \in ToSet(es) /\ p[i].id # None
      OBVIOUS
    <3>1. CASE i \in 1 .. k
      BY <1>2, <1>6, <3>1
    <3>2. CASE i - k \in 1 .. l /\ i = k + (i - k)
      <4>. DEFINE j == i - k
      <4>1. j \in 1 .. l /\ i = k + j
        BY <3>2
      <4>. HIDE DEF j
      <4>2. p[i] = c[j] /\ p[i] \in ToSet(c) /\ c[j].id = n + j /\ n + j # None
        <5>1. c[j].id = n + j
          BY <1>4, <4>1, Zenon
        <5>2. p[i] = c[j] /\ p[i] \in ToSet(c)
          BY <1>6, <4>1, Zenon
        <5>3. n + j # None
          BY <1>1, <1>4, <4>1 DEF None
        <5>. QED
          BY <5>1, <5>2, <5>3
      <4>3. p[i].id # None /\ p[i] \in ToSet(c)
        BY <4>2, Zenon
      <4>. QED
        BY <4>3
    <3>. QED
      BY <1>7, <3>1, <3>2
  <2>. DEFINE T == ToSet(es)
  <2>2. p \in Seq(Entry) /\ \A i \in 1 .. Len(p) : p[i] \in T
    BY <1>6, <2>1
  <2>. HIDE DEF T
  <2>3. p \in Seq(T)
    BY <2>2, SeqOfElements, Zenon
  <2>. QED
    BY <2>1, <2>3 DEF T
<1>9. \A id \in Ids(es) : id \in Ids(sm.entries) \/ id > n
  <2>1. ASSUME NEW id \in Ids(es) PROVE id \in Ids(sm.entries) \/ id > n
    <3>1. PICK e \in ToSet(es) : e.id = id /\ id # None
      BY <2>1 DEF Ids, ToSet
    <3>2. e # Header
      BY <3>1 DEF Header, NewEntry
    <3>3. CASE e \in ToSet(q)
      <4>1. e \in ToSet(sm.entries)
        BY <1>2, <3>3
      <4>. QED
        BY <1>1, <3>1, <4>1, ByIdKnown
    <3>4. CASE e \in ToSet(c)
      <4>1. PICK i \in 1 .. l : e = c[i]
        BY <1>4, <3>4
      <4>. QED
        BY <1>1, <1>4, <3>1, <4>1
    <3>. QED
      BY <3>2, <3>3, <3>4
  <2>. QED
    BY <2>1
<1>10. ASSUME p # <<>> PROVE p[1].parentId \notin Ids(es)
  <2>1. CASE k > 0
    <3>1. path # <<>> /\ path[1] \in Entry /\ p[1] = path[1] /\ p[1] \in ToSet(q)
      BY <1>2, <1>5, <1>6, <2>1
    <3>2. path[1].parentId \notin Ids(sm.entries)
      BY <1>3, <3>1 DEF Linked
    <3>3. p[1] \in ToSet(sm.entries) /\ p[1].id # None
      BY <1>2, <3>1
    <3>4. p[1].parentId \in Nat /\ p[1].parentId <= n
      <4>. DEFINE e == p[1]
      <4>1. e \in Grown(n) /\ e.id # None
        BY <1>1, <3>3 DEF Sound
      <4>. HIDE DEF e
      <4>2. e.parentId \in Nat /\ e.parentId <= n
        BY <1>1, <4>1 DEF Grown, Entry
      <4>. QED
        BY <4>2 DEF e
    <3>. QED
      BY <1>1, <1>9, <3>1, <3>2, <3>4
  <2>2. CASE k = 0
    <3>1. q = <<>> /\ last = None
      BY <1>2, <2>2
    <3>2. l # 0
      BY <1>6, <1>10, <2>2
    <3>3. 1 \in 1 .. l /\ k + 1 = 1
      BY <1>4, <2>2, <3>2
    <3>4. p[1] = c[1] /\ c[1].parentId = last
      BY <1>4, <1>6, <3>3
    <3>. QED
      BY <3>1, <3>4 DEF Ids
  <2>3. k = 0 \/ k > 0
    BY <1>5
  <2>. QED
    BY <2>1, <2>2, <2>3
<1>11. ASSUME NEW i \in 1 .. Len(p), i > 1 PROVE p[i].parentId = p[i - 1].id
  <2>1. CASE i \in 1 .. k
    <3>1. i \in 1 .. Len(path) /\ i - 1 \in 1 .. k
      BY <1>5, <1>11, <2>1
    <3>2. path[i].parentId = path[i - 1].id
      BY <1>3, <1>11, <3>1 DEF Linked
    <3>. QED
      BY <1>6, <2>1, <3>1, <3>2
  <2>2. CASE i - k \in 1 .. l /\ i = k + (i - k)
    <3>. DEFINE j == i - k
    <3>1. j \in 1 .. l /\ i = k + j /\ i - 1 = k + (j - 1)
      BY <1>5, <2>2
    <3>. HIDE DEF j
    <3>2. p[i] = c[j] /\ c[j].parentId = IF j = 1 THEN last ELSE n + j - 1
      BY <1>4, <1>6, <3>1
    <3>3. CASE j = 1
      <4>1. i - 1 = k /\ k \in 1 .. k /\ q # <<>>
        BY <1>5, <1>11, <3>1, <3>3
      <4>2. last = q[k].id /\ p[k] = q[k]
        BY <1>5, <1>6, <4>1 DEF Last
      <4>. QED
        BY <3>2, <3>3, <4>1, <4>2
    <3>4. CASE j # 1
      <4>. DEFINE o == j - 1
      <4>1. o \in 1 .. l /\ i - 1 = k + o /\ n + j - 1 = n + o
        BY <1>1, <1>4, <3>1, <3>4
      <4>. HIDE DEF o
      <4>2. p[i - 1] = c[o] /\ c[o].id = n + o
        BY <1>4, <1>6, <4>1
      <4>. QED
        BY <3>2, <3>4, <4>1, <4>2
    <3>. QED
      BY <3>3, <3>4
  <2>. QED
    BY <1>7, <2>1, <2>2
<1>12. p = <<>> => from \notin Ids(es)
  BY DEF Ids
<1>13. p # <<>> => p[Len(p)].id = from
  BY DEF Last
<1>. HIDE DEF from
<1>14. Linked(p, es, from)
  BY <1>8, <1>10, <1>11, <1>12, <1>13 DEF Linked
<1>. QED
  BY <1>14 DEF from, p

(* A branched session has the labels and the context of its path.          *)
LEMMA BranchTells ==
  ASSUME Inv, NEW leaf \in Ids(sm.entries), NEW es, es = BranchedEntries(leaf)
  PROVE  /\ ToSet(LabelsOf(es)) = LabelsOn(OnPath(leaf))
         /\ IsPrefix(OnPath(leaf), getBranch(sm.entries, leaf)) =>
              buildSessionContext(es, LeafOf(es)) = buildSessionContext(sm.entries, leaf)
<1>. DEFINE q == OnPath(leaf)
            labels == Keep(sm.labels, Ids(q))
            last == IF q = <<>> THEN None ELSE Last(q).id
            c == LabelChain(labels, last)
            m == Max({nextId} \cup Ids(es))
            path == getBranch(sm.entries, leaf)
            l == Len(labels)
            p == q \o c
<1>0. /\ q = OnPath(leaf) /\ labels = Keep(sm.labels, Ids(q))
      /\ last = (IF q = <<>> THEN None ELSE Last(q).id)
      /\ c = LabelChain(labels, last) /\ m = Max({nextId} \cup Ids(es))
      /\ path = getBranch(sm.entries, leaf) /\ l = Len(labels) /\ p = q \o c
  OBVIOUS
<1>. HIDE DEF q, labels, last, c, m, path, l, p
<1>1. /\ es = (<<Header>> \o q) \o c
      /\ labels \in Seq(Nat) /\ ToSet(labels) = ToSet(sm.labels) \cap Ids(q)
      /\ es \in Seq(Entry) /\ ToSet(es) = {Header} \cup ToSet(q) \cup ToSet(c)
      /\ m \in Nat /\ nextId <= m
      /\ Sound(ToSet(es), m)
      /\ Live(es) = ToSet(labels)
  <2>1. Parts(leaf, q, labels, last, c, es, m)
    BY <1>0 DEF Parts
  <2>. QED
    BY <2>1, BranchedKnown
<1>2. /\ q \in Seq(Entry) /\ path \in Seq(Entry) /\ last \in 0 .. nextId
      /\ \A e \in ToSet(q) : e.id # None /\ e.type # "session"
  BY <1>0, OnPathKnown
<1>3. ToSet(LabelsOf(es)) = LabelsOn(q)
  <2>1. \A t : t \in Ids(q) <=> \E e \in ToSet(q) : e.id = t
    BY <1>2 DEF Ids, ToSet
  <2>2. ToSet(LabelsOf(es)) = ToSet(sm.labels) \cap Ids(q)
    BY <1>1, LabelsKnown
  <2>. QED
    BY <2>1, <2>2 DEF LabelsOn
<1>4. ASSUME IsPrefix(q, path)
      PROVE  buildSessionContext(es, LeafOf(es)) = buildSessionContext(sm.entries, leaf)
  <2>1. Chained(c, labels, last, l)
    <3>1. nextId \in Nat
      BY DEF Inv
    <3>. QED
      BY <1>0, <1>1, <1>2, <3>1, ChainKnown
  <2>2. c \in Seq(Entry) /\ \A e \in ToSet(c) : e.type = "label"
    BY <2>1 DEF Chained
  <2>3. getEntries(es) = p
    <3>1. /\ q \in Seq(Entry) /\ c \in Seq(Entry)
          /\ \A e \in ToSet(q) : e.type # "session"
          /\ \A e \in ToSet(c) : e.type # "session"
      BY <1>2, <2>2
    <3>2. getEntries((<<Header>> \o q) \o c) = q \o c
      BY <3>1, BranchedEntriesAre
    <3>. QED
      BY <1>0, <1>1, <3>2, Zenon
  <2>. DEFINE from == IF p = <<>> THEN None ELSE Last(p).id
  <2>4. LeafOf(es) = from
    BY <2>3 DEF LeafOf
  <2>5. Linked(p, es, from)
    <3>1. Linked(q \o c, es, IF q \o c = <<>> THEN None ELSE Last(q \o c).id)
      <4>1. IsPrefix(q, getBranch(sm.entries, leaf)) /\ q = OnPath(leaf)
            /\ last = (IF q = <<>> THEN None ELSE Last(q).id)
        BY <1>0, <1>4
      <4>2. es \in Seq(Entry) /\ ToSet(es) = {Header} \cup ToSet(q) \cup ToSet(c)
        BY <1>1
      <4>. QED
        BY <2>1, <4>1, <4>2, BranchedLinked
    <3>. QED
      BY <1>0, <3>1
  <2>6. from \in Nat
    <3>1. p \in Seq(Entry)
      BY <1>0, <1>2, <2>2
    <3>2. CASE p = <<>>
      BY <3>2 DEF None
    <3>3. CASE p # <<>>
      <4>1. Last(p) \in Entry
        BY <3>1, <3>3 DEF Last
      <4>. QED
        BY <3>3, <4>1 DEF Entry
    <3>. QED
      BY <3>2, <3>3
  <2>. HIDE DEF from
  <2>7. getBranch(es, from) = p
    BY <1>1, <2>5, <2>6, LinkedIs
  <2>8. contextOf(p) = contextOf(q)
    <3>1. \A e \in ToSet(c) : e.type \in {"label", "unlabel"}
      BY <2>2
    <3>. QED
      BY <1>0, <1>2, <2>2, <3>1, ContextAside
  <2>9. contextOf(q) = contextOf(path)
    <3>1. q = Without(path, {"label", "unlabel"})
      BY <1>0 DEF OnPath
    <3>. QED
      BY <1>2, <1>4, <3>1, ContextWithout
  <2>. QED
    BY <1>0, <2>4, <2>7, <2>8, <2>9 DEF buildSessionContext
<1>. QED
  BY <1>0, <1>3, <1>4

(* A branched session shows the model what the old one showed at that      *)
(* entry, and its entries have the labels they had, unless entries follow  *)
(* a label on the path (session-manager.ts 1156-1227, README.md:218).      *)
THEOREM BranchKeeps == Spec => BranchKeepsSession
<1>. DEFINE Keeps ==
       \A leaf \in Ids(sm.entries) :
         CreateBranchedSession(leaf) /\ sm'.file # 0 =>
           LET path == getBranch(sm.entries, leaf)
           IN  /\ ToSet(sm'.labels) = LabelsOn(OnPath(leaf))
               /\ IsPrefix(OnPath(leaf), path) =>
                    Context(sm') = buildSessionContext(sm.entries, leaf)
<1>1. ASSUME Inv, NEW leaf \in Ids(sm.entries), CreateBranchedSession(leaf), sm'.file # 0
      PROVE  /\ ToSet(sm'.labels) = LabelsOn(OnPath(leaf))
             /\ IsPrefix(OnPath(leaf), getBranch(sm.entries, leaf)) =>
                  Context(sm') = buildSessionContext(sm.entries, leaf)
  <2>. DEFINE es == BranchedEntries(leaf)
  <2>1. es = BranchedEntries(leaf)
    OBVIOUS
  <2>. HIDE DEF es
  <2>2. sm'.entries = es /\ sm'.leaf = LeafOf(es) /\ sm'.labels = LabelsOf(es)
    BY <1>1, <2>1, BranchedSession, Zenon
  <2>3. Context(sm') = buildSessionContext(es, LeafOf(es))
    BY <2>2 DEF Context
  <2>4. /\ ToSet(LabelsOf(es)) = LabelsOn(OnPath(leaf))
        /\ IsPrefix(OnPath(leaf), getBranch(sm.entries, leaf)) =>
             buildSessionContext(es, LeafOf(es)) = buildSessionContext(sm.entries, leaf)
    BY <1>1, <2>1, BranchTells, Zenon
  <2>. QED
    BY <2>2, <2>3, <2>4, Zenon
<1>2. Inv => Keeps
  BY <1>1
<1>3. Inv /\ [Next]_vars => [Keeps]_vars
  BY <1>2
<1>. QED
  BY <1>3, InvHolds, PTL DEF Spec, BranchKeepsSession
-----------------------------------------------------------------------------
(* The abstract specification: what a step is for the store.               *)

\* The entries that are kept of a session, and the entries a log has of it.
Kept(es) == ToSet(getEntries(es))

\* gs is fs, longer at p.
Extended(p, fs, gs) ==
  /\ DOMAIN gs = DOMAIN fs \cup {p}
  /\ \A q \in DOMAIN fs : IsPrefix(fs[q], gs[q]) /\ (q # p => gs[q] = fs[q])

(* The store of the session manager, in its own terms.                     *)
LEMMA StoreTerms ==
  /\ \A s : Store!ToSet(s) = ToSet(s)
  /\ \A a, b : Store!IsPrefix(a, b) = IsPrefix(a, b)
<1>1. \A s : Store!ToSet(s) = ToSet(s)
  BY DEF Store!ToSet, ToSet
<1>2. \A a, b : Store!IsPrefix(a, b) = IsPrefix(a, b)
  BY DEF Store!IsPrefix, IsPrefix
<1>. QED
  BY <1>1, <1>2, Zenon

(* What is kept of a sequence is what the store finds in a log that has    *)
(* these lines, and has an answer if the sequence has one.                 *)
LEMMA KeptIs ==
  ASSUME NEW es \in Seq(Entry)
  PROVE  /\ Kept(es) = {e \in ToSet(es) : e.type # "session"}
         /\ Store!Stored(es) = Kept(es)
         /\ Store!Answered(Kept(es)) <=> HasAssistant(es)
<1>. DEFINE S == {e \in ToSet(es) : e.type \notin {"session"}}
<1>1. Kept(es) = S
  <2>1. getEntries(es) = Keep(es, S)
    BY DEF getEntries, Without
  <2>2. S \subseteq ToSet(es)
    OBVIOUS
  <2>. HIDE DEF S
  <2>3. ToSet(Keep(es, S)) = ToSet(es) \cap S
    BY KeepKnown
  <2>. QED
    BY <2>1, <2>2, <2>3 DEF Kept
<1>2. ToSet(es) \subseteq Entry
  BY DEF ToSet
<1>3. Store!Stored(es) = S
  BY <1>2, StoreTerms DEF Store!Stored
<1>4. Store!Answered(S) <=> \E e \in ToSet(es) : e.type = "assistant"
  BY <1>2 DEF Store!Answered
<1>5. (\E e \in ToSet(es) : e.type = "assistant") <=> HasAssistant(es)
  BY DEF ToSet, HasAssistant
<1>6. S = {e \in ToSet(es) : e.type # "session"}
  OBVIOUS
<1>. HIDE DEF S
<1>. QED
  BY <1>1, <1>3, <1>4, <1>5, <1>6

\* What a write does to the files: all of it, or a part and no process.
Wrote(path, base, added, manager) ==
  \/ sm' = manager /\ added = <<>> /\ files' = files
  \/ /\ sm' = manager /\ added # <<>>
     /\ Extended(path, files, files') /\ files'[path] = base \o added
  \/ /\ sm' = NoSession
     /\ \E i \in 0 .. Len(added) - 1 :
          Extended(path, files, files') /\ files'[path] = base \o SubSeq(added, 1, i)

(* What Write leaves of the files it changes.                              *)
LEMMA WriteExtends ==
  ASSUME NEW path, NEW base, NEW added, NEW manager,
         Write(path, base, added, manager), Grows(files, files')
  PROVE  Wrote(path, base, added, manager)
<1>1. ASSUME NEW lines, Put(path, lines)
      PROVE  Extended(path, files, files') /\ files'[path] = lines
  BY <1>1 DEF Put, Extended, Grows
<1>2. CASE /\ IF added = <<>> THEN files' = files ELSE Put(path, base \o added)
           /\ sm' = manager
  BY <1>1, <1>2 DEF Wrote
<1>3. CASE /\ \E i \in 0 .. Len(added) - 1 : Put(path, base \o SubSeq(added, 1, i))
           /\ sm' = NoSession
  <2>1. PICK i \in 0 .. Len(added) - 1 : Put(path, base \o SubSeq(added, 1, i))
    BY <1>3
  <2>. DEFINE part == base \o SubSeq(added, 1, i)
  <2>. HIDE DEF part
  <2>2. Extended(path, files, files') /\ files'[path] = part
    BY <1>1, <2>1 DEF part
  <2>. QED
    BY <1>3, <2>2 DEF part, Wrote
<1>. QED
  BY <1>2, <1>3 DEF Write


(* A log that is flushed is written as the store wants it.                 *)
LEMMA WrittenIs ==
  ASSUME Inv', sm'.file # 0, sm'.flushed, Extended(sm'.file, files, files')
  PROVE  Store!Written
<1>. DEFINE p == sm'.file
            lines == files'[p]
            es == sm'.entries
<1>1. p \in DOMAIN files' /\ LinesOf(files', p) = lines
  BY DEF Extended, LinesOf
<1>2. es \in Seq(Entry) /\ Held(lines, es) /\ lines \in Seq(Entry)
  BY <1>1 DEF Inv, ManagerInv, Manager, FilesInv
<1>3. Store!Extend(p)
  BY StoreTerms DEF Store!Extend, Extended
<1>. HIDE DEF lines, es
<1>4. Store!Stored(lines) = Kept(lines) /\ Kept(lines) = Kept(es)
  BY <1>2, KeptIs, HeldTells DEF Kept
<1>. QED
  BY <1>3, <1>4 DEF Store!Written, Kept, lines, es

(* What the invariant says of the entries of the process and of a file.    *)
LEMMA InvSays ==
  ASSUME Inv
  PROVE  /\ sm.entries \in Seq(Entry) /\ sm.file \in Nat
         /\ \A p \in DOMAIN files : files[p] \in Seq(Entry)
         /\ sm.file # 0 => ToSet(LinesOf(files, sm.file)) \subseteq ToSet(sm.entries)
         /\ sm.file # 0 /\ HasAssistant(sm.entries) => sm.flushed
<1>1. ASSUME Held(LinesOf(files, sm.file), sm.entries), sm.entries \in Seq(Entry)
      PROVE  ToSet(LinesOf(files, sm.file)) \subseteq ToSet(sm.entries)
  <2>. DEFINE es == sm.entries
              lines == LinesOf(files, sm.file)
  <2>. HIDE DEF es, lines
  <2>1. PICK P \in Seq(Entry) : lines = P \o es /\ ToSet(P) \subseteq ToSet(es)
    BY <1>1 DEF Held, es, lines
  <2>2. ToSet(P \o es) = ToSet(P) \cup ToSet(es)
    BY <1>1, ElementsJoin DEF es
  <2>. QED
    BY <2>1, <2>2 DEF es, lines
<1>. QED
  BY <1>1 DEF Inv, ManagerInv, Manager, FilesInv

\* A part of what is written behind base: of added, without its last line.
PartOf(base, added, part) ==
  /\ part \in Seq(Entry) /\ base \o part \in Seq(Entry)
  /\ ToSet(part) \subseteq ToSet(added)
  /\ ToSet(base \o part) = ToSet(base) \cup ToSet(part)
  /\ \A f \in Seq(Entry) : \A e \in Entry :
       added = Append(f, e) => ToSet(part) \subseteq ToSet(f)

(* The lines that a crash leaves are such a part.                          *)
LEMMA PartIs ==
  ASSUME NEW base \in Seq(Entry), NEW added \in Seq(Entry), NEW i \in 0 .. Len(added) - 1,
         NEW part, part = SubSeq(added, 1, i)
  PROVE  PartOf(base, added, part)
<1>1. Len(added) \in Nat /\ i \in Nat /\ i <= Len(added)
  OBVIOUS
<1>2. part \in Seq(Entry) /\ Len(part) = i /\ \A l \in 1 .. i : part[l] = added[l]
  BY <1>1
<1>3. DOMAIN part = 1 .. i /\ DOMAIN added = 1 .. Len(added)
  BY <1>1, <1>2
<1>4. \A l \in 1 .. i : l \in 1 .. Len(added)
  BY <1>1
<1>5. base \o part \in Seq(Entry) /\ ToSet(base \o part) = ToSet(base) \cup ToSet(part)
  <2>1. part \in Seq(Entry)
    BY <1>2
  <2>2. base \o part \in Seq(Entry)
    BY <2>1, ConcatKnown, Zenon
  <2>3. \A b \in Seq(Entry) : ToSet(base \o b) = ToSet(base) \cup ToSet(b)
    BY ElementsJoin
  <2>. QED
    BY <2>1, <2>2, <2>3, Zenon
<1>6. ASSUME NEW f \in Seq(Entry), NEW e \in Entry, added = Append(f, e)
      PROVE  ToSet(part) \subseteq ToSet(f)
  <2>1. Len(added) = Len(f) + 1 /\ DOMAIN f = 1 .. Len(f) /\ Len(f) \in Nat
    BY <1>6
  <2>2. \A l \in 1 .. i : l \in 1 .. Len(f) /\ part[l] = f[l]
    BY <1>1, <1>2, <1>6, <2>1
  <2>. QED
    BY <1>3, <2>1, <2>2 DEF ToSet
<1>7. ToSet(part) \subseteq ToSet(added)
  BY <1>2, <1>3, <1>4 DEF ToSet
<1>. QED
  BY <1>2, <1>5, <1>6, <1>7 DEF PartOf

(* What no longer has a process.                                           *)
LEMMA Stopped ==
  /\ NoSession.file = 0 /\ Kept(NoSession.entries) = {}
  /\ <<>> \in Seq(Entry) /\ Kept(<<>>) = {}
<1>1. <<>> \in Seq(Entry) /\ ToSet(<<>>) = {}
  BY ElementsNone
<1>2. Kept(<<>>) = {}
  BY <1>1, KeptIs
<1>. QED
  BY <1>1, <1>2 DEF NoSession

(* An append adds an entry, or is cut short.                               *)
LEMMA AppendStores ==
  ASSUME SessionAssumption, Inv, NEW parent \in Ids(sm.entries) \cup {None},
         NEW type \in AppendTypes \cup {"branch_summary"}, NEW ref \in Nat,
         AppendUnder(parent, type, ref)
  PROVE  Store!Next
<1>. DEFINE e == Added(type, parent, ref)
            w == With(e)
            lines == Persist(w, e)
            a == HasAssistant(w.entries)
            manager == [w EXCEPT !.flushed = a]
            base == LinesOf(files, sm.file)
            es == sm.entries
<1>1. sm.file # 0 /\ Write(sm.file, base, lines, manager)
  BY LinesAre DEF AppendUnder, Added, With
<1>2. Inv' /\ Grows(files, files')
  BY AppendKeeps
<1>12. ASSUME sm'.file = sm.file PROVE sm'.entries = Append(es, e)
  <2>0. /\ parent \in Ids(sm.entries) \cup {None} /\ type \in AppendTypes \cup {"branch_summary"}
        /\ ref \in Nat /\ Inv /\ AppendUnder(parent, type, ref)
    OBVIOUS
  <2>1. Last(sm'.entries) = e /\ e.type = type /\ sm'.entries = Append(sm.entries, e)
    BY <1>12, <2>0, AppendAdds
  <2>. QED
    BY <2>1
<1>0. e = Added(type, parent, ref)
  OBVIOUS
<1>. HIDE DEF e
<1>3. /\ e \in Entry /\ e.type = type /\ es \in Seq(Entry) /\ e \notin ToSet(es)
      /\ Append(es, e) \in Seq(Entry) /\ ToSet(Append(es, e)) = ToSet(es) \cup {e}
  BY <1>0, AddedKnown
<1>4. /\ w.entries = Append(es, e) /\ w.file = sm.file
      /\ manager.file = sm.file /\ manager # NoSession
  <2>1. sm = [file |-> sm.file, entries |-> sm.entries, leaf |-> sm.leaf,
              labels |-> sm.labels, flushed |-> sm.flushed]
    BY DEF Inv, ManagerInv, Manager
  <2>. DEFINE fs == Append(es, e)
              ls == Labelled(sm.labels, e)
  <2>2. w = [sm EXCEPT !.entries = fs, !.leaf = e.id, !.labels = ls]
    BY DEF With
  <2>. HIDE DEF fs, ls, w, es, a
  <2>3. w = [file |-> sm.file, entries |-> fs, leaf |-> e.id, labels |-> ls, flushed |-> sm.flushed]
    BY <2>1, <2>2
  <2>4. manager.file = sm.file
    BY <2>3
  <2>5. manager # NoSession
    BY <1>1, <2>4, Stopped
  <2>. QED
    BY <2>3, <2>4, <2>5 DEF fs
<1>5. /\ ~ a => lines = <<>>
      /\ a => lines = Append(es, e) \/ lines = <<e>>
  BY <1>4 DEF Persist
<1>6. a <=> HasAssistant(Append(es, e))
  BY <1>4
<1>. HIDE DEF w, lines, a
<1>7. base \in Seq(Entry) /\ ToSet(base) \subseteq ToSet(es)
  BY <1>1, InvSays DEF LinesOf
<1>. HIDE DEF manager, base
<1>8. sm'.file = sm.file \/ sm' = NoSession
  BY <1>1, <1>4 DEF Write
<1>11. Wrote(sm.file, base, lines, manager)
  BY <1>1, <1>2, WriteExtends, Zenon
<1>9. CASE sm' # NoSession
  <2>0. sm'.file = sm.file
    BY <1>8, <1>9
  <2>1. sm'.entries = Append(es, e) /\ sm'.file = sm.file
    BY <1>12, <2>0
  <2>2. /\ (lines = <<>> /\ files' = files) \/ (lines # <<>> /\ Extended(sm.file, files, files'))
    BY <1>11, <1>9, Zenon DEF Wrote
  <2>3. Kept(sm'.entries) = Kept(es) \cup {e} /\ e \notin Kept(es)
    <3>1. e.type # "session"
      BY <1>3 DEF AppendTypes
    <3>2. /\ Kept(es) = {d \in ToSet(es) : d.type # "session"}
          /\ Kept(Append(es, e)) = {d \in ToSet(Append(es, e)) : d.type # "session"}
      BY <1>3, KeptIs
    <3>. QED
      BY <1>3, <2>1, <3>1, <3>2
  <2>4. Store!Answered(Kept(sm'.entries)) <=> a
    BY <1>3, <1>6, <2>1, KeptIs
  <2>5. a => Store!Written
    <3>. SUFFICES ASSUME a PROVE Store!Written
      OBVIOUS
    <3>1. lines # <<>>
      <4>1. Append(es, e) # <<>> /\ <<e>> # <<>>
        BY <1>3
      <4>. QED
        BY <1>5, <4>1
    <3>2. Extended(sm'.file, files, files')
      BY <2>1, <2>2, <3>1
    <3>3. sm'.flushed
      <4>1. HasAssistant(sm'.entries)
        BY <1>6, <2>1
      <4>. QED
        BY <1>1, <1>2, <2>1, <4>1 DEF Inv, ManagerInv
    <3>. QED
      BY <1>1, <1>2, <2>1, <3>2, <3>3, WrittenIs
  <2>6. ~ a => files' = files
    BY <1>5, <2>2
  <2>7. Store!Add
    BY <1>1, <2>1, <2>3, <2>4, <2>5, <2>6 DEF Store!Add, Kept, es
  <2>. QED
    BY <2>7 DEF Store!Next
<1>10. CASE sm' = NoSession
  <2>1. CASE files' = files
    BY <1>10, <2>1, Stopped DEF Store!Next, Store!Stop, Kept
  <2>2. CASE files' # files
    <3>0. \E i \in 0 .. Len(lines) - 1 :
            Extended(sm.file, files, files') /\ files'[sm.file] = base \o SubSeq(lines, 1, i)
      BY <1>4, <1>10, <1>11, <2>2, Zenon DEF Wrote
    <3>1. PICK i \in 0 .. Len(lines) - 1 :
            Extended(sm.file, files, files') /\ files'[sm.file] = base \o SubSeq(lines, 1, i)
      BY <3>0
    <3>. DEFINE part == SubSeq(lines, 1, i)
    <3>2. lines \in Seq(Entry)
      <4>1. <<e>> \in Seq(Entry) /\ <<>> \in Seq(Entry)
        BY <1>3
      <4>. QED
        BY <1>3, <1>5, <4>1
    <3>. HIDE DEF part
    <3>3. /\ base \o part \in Seq(Entry)
          /\ ToSet(base \o part) = ToSet(base) \cup ToSet(part) /\ ToSet(part) \subseteq ToSet(es)
      <4>0. PartOf(base, lines, part)
        <5>1. part = SubSeq(lines, 1, i)
          BY DEF part
        <5>. QED
          BY <1>7, <3>2, <5>1, PartIs
      <4>1. /\ base \o part \in Seq(Entry)
            /\ ToSet(base \o part) = ToSet(base) \cup ToSet(part)
            /\ \A f \in Seq(Entry) : \A d \in Entry :
                 lines = Append(f, d) => ToSet(part) \subseteq ToSet(f)
        BY <4>0 DEF PartOf
      <4>2. CASE lines = Append(es, e)
        BY <1>3, <4>1, <4>2
      <4>3. CASE lines = <<e>>
        <5>1. lines = Append(<<>>, e) /\ <<>> \in Seq(Entry) /\ ToSet(<<>>) = {}
          BY <4>3, ElementsNone
        <5>2. ToSet(part) \subseteq {}
          BY <1>3, <4>1, <5>1
        <5>. QED
          BY <4>1, <5>2
      <4>4. lines # <<>>
        BY <3>1
      <4>. QED
        BY <1>5, <4>2, <4>3, <4>4
    <3>4. Store!Stored(base \o part) \subseteq Kept(es)
      <4>. DEFINE s == base \o part
      <4>1. s \in Seq(Entry) /\ ToSet(s) \subseteq ToSet(es)
        BY <1>7, <3>3
      <4>. HIDE DEF s, es
      <4>2. /\ Store!Stored(s) = Kept(s) /\ Kept(s) = {d \in ToSet(s) : d.type # "session"}
            /\ Kept(es) = {d \in ToSet(es) : d.type # "session"}
        BY <1>3, <4>1, KeptIs
      <4>. QED
        BY <4>1, <4>2 DEF s
    <3>5. Store!Extend(sm.file)
      BY <3>1, StoreTerms DEF Store!Extend, Extended
    <3>6. Store!Stop
      <4>1. files'[sm.file] = base \o part
        BY <3>1 DEF part
      <4>2. sm'.file = 0 /\ Kept(sm'.entries) = {}
        BY <1>10, Stopped
      <4>. QED
        BY <1>1, <3>4, <3>5, <4>1, <4>2 DEF Store!Stop, Kept
    <3>. QED
      BY <3>6 DEF Store!Next
  <2>. QED
    BY <2>1, <2>2
<1>. QED
  BY <1>9, <1>10

(* A part of a copy is a copy, perhaps incomplete.                         *)
LEMMA CopiedLess ==
  ASSUME NEW es, NEW fs \in SUBSET es, Store!Copied(es)
  PROVE  Store!Copied(fs)
  BY DEF Store!Copied

(* A session in a file that was not there: all of it, nothing of it yet,   *)
(* or a part and no process.                                               *)
LEMMA CopyStores ==
  ASSUME Inv, Inv', Grows(files, files'),
         NEW path, path \notin DOMAIN files, path # 0,
         NEW es \in Seq(Entry), NEW added \in {es, <<>>}, NEW manager,
         Write(path, <<>>, added, manager),
         manager.file = path, manager.entries = es,
         added # <<>> => manager.flushed,
         added = <<>> => ~ HasAssistant(es),
         Store!Copied(Kept(es))
  PROVE  Store!Next
<1>1. Wrote(path, <<>>, added, manager)
  BY WriteExtends
<1>2. Store!Answered(Kept(es)) <=> HasAssistant(es)
  BY KeptIs
<1>3. CASE sm' = manager /\ added = <<>> /\ files' = files
  BY <1>2, <1>3 DEF Store!Next, Store!Copy, Kept
<1>4. CASE sm' = manager /\ added # <<>> /\ Extended(path, files, files')
  <2>1. Store!Written
    BY <1>4, WrittenIs
  <2>. QED
    BY <1>4, <2>1 DEF Store!Next, Store!Copy, Kept
<1>5. CASE /\ sm' = NoSession
           /\ \E i \in 0 .. Len(added) - 1 :
                Extended(path, files, files') /\ files'[path] = <<>> \o SubSeq(added, 1, i)
  <2>1. PICK i \in 0 .. Len(added) - 1 :
               Extended(path, files, files') /\ files'[path] = <<>> \o SubSeq(added, 1, i)
    BY <1>5
  <2>2. added \in Seq(Entry) /\ <<>> \in Seq(Entry) /\ ToSet(<<>>) = {}
        /\ ToSet(added) \subseteq ToSet(es)
    BY ElementsNone
  <2>. DEFINE part == SubSeq(added, 1, i)
              lines == files'[path]
              none == <<>>
  <2>3. lines = none \o part /\ part = SubSeq(added, 1, i)
    BY <2>1
  <2>. HIDE DEF part, lines, none
  <2>4. PartOf(none, added, part)
    BY <2>2, <2>3, PartIs DEF none
  <2>5. lines \in Seq(Entry) /\ ToSet(lines) \subseteq ToSet(es)
    BY <2>2, <2>3, <2>4 DEF PartOf, none
  <2>6. Store!Stored(lines) \subseteq Kept(es)
    <3>1. /\ Store!Stored(lines) = Kept(lines) /\ Kept(lines) = {d \in ToSet(lines) : d.type # "session"}
          /\ Kept(es) = {d \in ToSet(es) : d.type # "session"}
      BY <2>5, KeptIs
    <3>. QED
      BY <2>5, <3>1
  <2>7. Store!Copied(Store!Stored(lines))
    BY <2>6, CopiedLess
  <2>8. Store!Extend(path) /\ path \in DOMAIN files' \ DOMAIN files
    BY <2>1, StoreTerms DEF Store!Extend, Extended
  <2>9. sm'.file = 0 /\ Kept(sm'.entries) = {}
    BY <1>5, Stopped
  <2>10. Store!Stop
    BY <2>7, <2>8, <2>9 DEF Store!Stop, Kept, lines
  <2>. QED
    BY <2>10 DEF Store!Next
<1>. QED
  BY <1>1, <1>3, <1>4, <1>5 DEF Wrote

(* A branch copies the entries of its path.                                *)
LEMMA BranchStores ==
  ASSUME SessionAssumption, Inv, NEW leaf, CreateBranchedSession(leaf)
  PROVE  Store!Next
<1>. DEFINE path == nextFile + 1
            es == BranchedEntries(leaf)
            now == HasAssistant(es)
            added == IF now THEN es ELSE <<>>
            manager == Branched(path, es, now)
            q == OnPath(leaf)
            labels == Keep(sm.labels, Ids(q))
            last == IF q = <<>> THEN None ELSE Last(q).id
            c == LabelChain(labels, last)
            m == Max({nextId} \cup Ids(es))
<1>1. /\ leaf \in Ids(sm.entries) /\ Write(path, <<>>, added, manager)
  BY DEF CreateBranchedSession, BranchInto, Branched
<1>2. Inv' /\ Grows(files, files')
  BY CreateBranchedKeeps
<1>3. path \notin DOMAIN files /\ path # 0
  BY DEF Inv, FilesInv
<1>4. manager.file = path /\ manager.entries = es /\ manager.flushed = now
  <2>. HIDE DEF path, es, now
  <2>. QED
    BY BranchedIs
<1>5. /\ q \in Seq(Entry) /\ ToSet(q) \subseteq ToSet(sm.entries)
      /\ \A e \in ToSet(q) : e.type # "session"
  BY <1>1, OnPathKnown
<1>6. Parts(leaf, q, labels, last, c, es, m)
  BY DEF Parts
<1>7. Chained(c, labels, last, Len(labels))
  <2>1. last \in 0 .. nextId /\ nextId \in Nat
    BY <1>1, OnPathKnown DEF Inv
  <2>2. labels \in Seq(Nat)
    BY <1>1, <1>6, BranchedKnown
  <2>3. c = LabelChain(labels, last)
    OBVIOUS
  <2>. HIDE DEF labels, last, c
  <2>. QED
    BY <2>1, <2>2, <2>3, ChainKnown
<1>. HIDE DEF path, es, q, labels, last, c, m, now, manager
<1>8. es \in Seq(Entry) /\ ToSet(es) = {Header} \cup ToSet(q) \cup ToSet(c)
  BY <1>1, <1>6, BranchedKnown
<1>9. Store!Copied(Kept(es))
  <2>1. \A e \in ToSet(c) : e.type = "label" /\ e \in Entry
    <3>1. c \in Seq(Entry) /\ \A e \in ToSet(c) : e.type = "label"
      BY <1>7 DEF Chained
    <3>2. ToSet(c) \subseteq Entry
      BY <3>1 DEF ToSet
    <3>. QED
      BY <3>1, <3>2
  <2>2. /\ Kept(es) = {d \in ToSet(es) : d.type # "session"}
        /\ Kept(sm.entries) = {d \in ToSet(sm.entries) : d.type # "session"}
    BY <1>8, InvSays, KeptIs
  <2>3. Header.type = "session"
    BY DEF Header, NewEntry
  <2>4. \A e \in Kept(es) : e \in Kept(sm.entries) \/ (e \in Entry /\ e.type = "label")
    BY <1>5, <1>8, <2>1, <2>2, <2>3
  <2>. QED
    BY <2>4 DEF Store!Copied, Store!Originals, Kept
<1>10. /\ added \in {es, <<>>} /\ (added # <<>> => now) /\ (added = <<>> => ~ HasAssistant(es))
  BY DEF HasAssistant, now
<1>. QED
  BY <1>1, <1>2, <1>3, <1>4, <1>8, <1>9, <1>10, CopyStores

(* A fork copies the entries of a file.                                    *)
LEMMA ForkStores ==
  ASSUME SessionAssumption, Inv, NEW source, ForkFrom(source)
  PROVE  Store!Next
<1>. DEFINE path == nextFile + 1
            lines == files[source]
            g == getEntries(lines)
            es == <<Header>> \o g
            manager == BuildIndex(path, es)
<1>1. Write(path, <<>>, es, manager) /\ source \in DOMAIN files
  BY DEF ForkFrom, Lines
<1>2. Inv' /\ Grows(files, files')
  BY ForkKeeps
<1>3. path \notin DOMAIN files /\ path # 0
  BY DEF Inv, FilesInv
<1>4. manager.file = path /\ manager.entries = es /\ manager.flushed
  BY DEF BuildIndex
<1>5. lines \in Seq(Entry)
  BY <1>1, InvSays
<1>. HIDE DEF lines, path, manager
<1>6. /\ g \in Seq(Entry) /\ ToSet(g) = {e \in ToSet(lines) : e.type # "session"}
      /\ Store!Stored(lines) = ToSet(g)
  <2>1. g \in Seq(Entry)
    BY <1>5, KeepKnown DEF getEntries, Without
  <2>2. Kept(lines) = ToSet(g)
    BY DEF Kept
  <2>. QED
    BY <1>5, <2>1, <2>2, KeptIs
<1>. HIDE DEF g
<1>7. es \in Seq(Entry) /\ ToSet(es) = {Header} \cup ToSet(g)
  BY <1>6, HeaderJoin
<1>8. es # <<>>
  BY <1>6
<1>. HIDE DEF es
<1>9. Store!Copied(Kept(es))
  <2>1. Kept(es) = {d \in ToSet(es) : d.type # "session"} /\ Header.type = "session"
    BY <1>7, KeptIs DEF Header, NewEntry
  <2>2. Kept(es) \subseteq Store!Stored(lines)
    BY <1>6, <1>7, <2>1
  <2>. QED
    BY <1>1, <2>2 DEF Store!Copied, Store!Originals, lines
<1>. QED
  BY <1>1, <1>2, <1>3, <1>4, <1>7, <1>8, <1>9, CopyStores

(* The header is no entry of a session.                                    *)
LEMMA HeaderAlone ==
  /\ <<Header>> \in Seq(Entry) /\ <<Header>> # <<>> /\ Len(<<Header>>) = 1
  /\ Kept(<<Header>>) = {}
<1>1. Header \in Entry /\ Header.type = "session"
  BY HeaderKnown DEF Header, NewEntry
<1>2. <<Header>> \in Seq(Entry) /\ ToSet(<<Header>>) = {Header}
  BY <1>1, ElementsOne
<1>. DEFINE h == <<Header>>
<1>3. h # <<>> /\ Len(h) = 1
  OBVIOUS
<1>. HIDE DEF h
<1>4. Kept(h) = {}
  <2>1. Kept(h) = {d \in ToSet(h) : d.type # "session"}
    BY <1>2, KeptIs DEF h
  <2>. QED
    BY <1>1, <1>2, <2>1 DEF h
<1>. QED
  BY <1>2, <1>3, <1>4 DEF h

(* A file that is opened: its entries, or the header of a new session.     *)
LEMMA OpenStores ==
  ASSUME SessionAssumption, Inv, NEW path, SetSessionFile(path)
  PROVE  Store!Next
<1>1. path \in 1 .. nextFile /\ path # 0 /\ nextFile \in Nat
  BY DEF SetSessionFile, Inv
<1>2. Inv' /\ Grows(files, files')
  BY SetSessionFileKeeps
<1>3. CASE path \notin DOMAIN files
  <2>1. Lines(path) = <<>>
    BY <1>3 DEF Lines
  <2>2. Write(path, <<>>, <<>>, NewManager(path, FALSE))
    <3>1. (path \in DOMAIN files) = FALSE
      BY <1>3
    <3>. DEFINE exists == path \in DOMAIN files
    <3>2. Write(path, <<>>, IF exists THEN <<Header>> ELSE <<>>, NewManager(path, exists))
      BY <2>1 DEF SetSessionFile
    <3>3. exists = FALSE
      BY <3>1
    <3>. HIDE DEF exists
    <3>. QED
      BY <3>2, <3>3
  <2>. DEFINE manager == NewManager(path, FALSE)
              none == <<>>
  <2>3. Wrote(path, none, none, manager)
    BY <1>2, <2>2, WriteExtends
  <2>4. none = <<>> /\ Len(none) = 0 /\ 0 .. Len(none) - 1 = {}
    OBVIOUS
  <2>5. manager.file = path /\ manager.entries = <<Header>>
    BY DEF NewManager
  <2>. HIDE DEF manager, none
  <2>6. sm' = manager /\ files' = files
    BY <2>3, <2>4 DEF Wrote
  <2>7. Kept(sm'.entries) = {}
    BY <2>5, <2>6, HeaderAlone
  <2>. QED
    BY <1>1, <1>3, <2>5, <2>6, <2>7 DEF Store!Next, Store!Start, Kept
<1>4. CASE path \in DOMAIN files /\ files[path] = <<>>
  <2>. DEFINE manager == NewManager(path, TRUE)
              h == <<Header>>
              none == <<>>
  <2>1. Write(path, none, h, manager)
    BY <1>4 DEF SetSessionFile, Lines
  <2>2. Wrote(path, none, h, manager)
    BY <1>2, <2>1, WriteExtends
  <2>3. manager.file = path /\ manager.entries = h /\ manager.flushed
    BY DEF NewManager
  <2>. HIDE DEF manager
  <2>4. CASE sm' = manager
    <3>1. Extended(path, files, files')
      BY <1>1, <2>2, <2>3, <2>4, HeaderAlone, Stopped DEF Wrote
    <3>2. Store!Written
      BY <1>1, <1>2, <2>3, <2>4, <3>1, WrittenIs
    <3>3. Kept(sm'.entries) = {}
      BY <2>3, <2>4, HeaderAlone
    <3>4. Store!Stored(files[path]) = {}
      BY <1>4, Stopped, KeptIs
    <3>. QED
      BY <1>4, <2>3, <2>4, <3>2, <3>3, <3>4 DEF Store!Next, Store!Open, Kept
  <2>5. CASE sm' # manager
    <3>1. sm' = NoSession
      BY <2>2, <2>5 DEF Wrote
    <3>2. files' = files
      <4>1. PICK k \in 0 .. Len(h) - 1 : Put(path, none \o SubSeq(h, 1, k))
        BY <2>1, <2>5 DEF Write
      <4>2. none \o SubSeq(h, 1, k) = <<>>
        <5>1. k = 0 /\ h \in Seq(Entry)
          BY HeaderAlone
        <5>. HIDE DEF h
        <5>2. SubSeq(h, 1, 0) = <<>>
          BY <5>1
        <5>. QED
          BY <5>1, <5>2
      <4>3. files' = [p \in DOMAIN files \cup {path} |-> IF p = path THEN <<>> ELSE files[p]]
        BY <4>1, <4>2 DEF Put
      <4>4. files = [p \in DOMAIN files |-> files[p]]
        BY DEF Inv, FilesInv
      <4>5. DOMAIN files \cup {path} = DOMAIN files
        BY <1>4
      <4>6. \A p \in DOMAIN files : (IF p = path THEN <<>> ELSE files[p]) = files[p]
        BY <1>4
      <4>. QED
        BY <4>3, <4>4, <4>5, <4>6
    <3>. QED
      BY <3>1, <3>2, Stopped DEF Store!Next, Store!Stop, Kept
  <2>. QED
    BY <2>4, <2>5
<1>5. CASE path \in DOMAIN files /\ files[path] # <<>>
  <2>. DEFINE lines == files[path]
  <2>1. sm' = BuildIndex(path, lines) /\ files' = files
    BY <1>5 DEF SetSessionFile, Lines
  <2>2. sm'.file = path /\ sm'.entries = lines /\ sm'.flushed
    BY <2>1 DEF BuildIndex
  <2>3. lines \in Seq(Entry)
    BY <1>5, InvSays
  <2>4. Extended(path, files, files')
    BY <1>2, <1>5, <2>1 DEF Extended, Grows
  <2>5. Store!Written
    BY <1>1, <1>2, <2>2, <2>4, WrittenIs
  <2>. HIDE DEF lines
  <2>6. Store!Stored(lines) = Kept(lines)
    BY <2>3, KeptIs
  <2>. QED
    BY <1>5, <2>1, <2>2, <2>5, <2>6 DEF Store!Next, Store!Open, Kept, lines
<1>. QED
  BY <1>3, <1>4, <1>5

(* Every step is one of the store, or none.                                *)
LEMMA StepStores ==
  ASSUME SessionAssumption, Inv, [Next]_vars
  PROVE  [Store!Next]_(Store!storeVars)
<1>1. /\ sm.leaf \in Ids(sm.entries) \cup {None} /\ nextId \in Nat /\ None \in Nat
      /\ 0 .. nextId \subseteq Nat
  BY DEF Inv, ManagerInv, None
<1>2. ASSUME NEW type \in AppendTypes, AppendPlain(type) PROVE Store!Next
  BY <1>1, <1>2, AppendStores DEF AppendPlain, AppendEntry
<1>3. ASSUME NEW id \in 0 .. nextId, AppendCompaction(id) PROVE Store!Next
  <2>1. "compaction" \in AppendTypes
    BY DEF AppendTypes
  <2>. QED
    BY <1>1, <1>3, <2>1, AppendStores DEF AppendCompaction, AppendEntry
<1>4. ASSUME NEW id \in 0 .. nextId, BranchWithSummary(id) PROVE Store!Next
  BY <1>1, <1>4, AppendStores DEF BranchWithSummary, AppendEntry
<1>5. ASSUME NEW id \in 0 .. nextId, NEW type \in AppendTypes, AppendLabelChange(type, id)
      PROVE  Store!Next
  BY <1>1, <1>5, AppendStores DEF AppendLabelChange, AppendEntry
<1>6. ASSUME NEW id, Branch(id) PROVE UNCHANGED Store!storeVars
  <2>1. sm'.file = sm.file /\ sm'.entries = sm.entries /\ files' = files
    BY <1>6 DEF Branch, Inv, ManagerInv, Manager
  <2>. QED
    BY <2>1 DEF Store!storeVars
<1>7. ASSUME UNCHANGED vars PROVE UNCHANGED Store!storeVars
  BY <1>7 DEF vars, Store!storeVars
<1>8. ASSUME NewSession PROVE Store!Next
  <2>1. /\ sm'.file = nextFile + 1 /\ sm'.entries = <<Header>> /\ files' = files
    BY <1>8 DEF NewSession, NewManager
  <2>2. nextFile + 1 \notin DOMAIN files /\ nextFile + 1 # 0
    BY DEF Inv, FilesInv
  <2>3. Kept(sm'.entries) = {}
    BY <2>1, HeaderAlone
  <2>. QED
    BY <2>1, <2>2, <2>3 DEF Store!Next, Store!Start, Kept
<1>9. ASSUME Crash PROVE Store!Next
  <2>1. sm' = NoSession /\ files' = files
    BY <1>9 DEF Crash
  <2>. QED
    BY <2>1, Stopped DEF Store!Next, Store!Stop, Kept
<1>. QED
  BY <1>2, <1>3, <1>4, <1>5, <1>6, <1>7, <1>8, <1>9, BranchStores, OpenStores, ForkStores DEF Next

(* Every operation keeps the session as SessionStore says: nothing is      *)
(* written before the first answer and everything with it, no branch,      *)
(* fork, switch or crash changes what was written, and what is opened is   *)
(* what was stored (session-manager.ts 682-724, 795-816, 1049-1051,        *)
(* 1156-1227).                                                             *)
THEOREM SessionIsStored == Spec => StoreSpec
<1>1. Init => Store!Init
  <2>1. ASSUME Init PROVE sm.file = 0 /\ Kept(sm.entries) = {} /\ \A p \in DOMAIN files : files[p] = <<>>
    BY <2>1, Stopped DEF Init
  <2>. QED
    BY <2>1 DEF Store!Init, Kept
<1>2. Inv /\ [Next]_vars => [Store!Next]_(Store!storeVars)
  BY SessionAssumption, StepStores
<1>. QED
  BY <1>1, <1>2, InvHolds, PTL DEF Spec, StoreSpec, Store!Spec
=============================================================================
