---------------------------- MODULE AgentProofs ----------------------------
(***************************************************************************)
(* Proofs about Agent.                                                     *)
(*                                                                         *)
(* First come facts about sequences and the two functions of the model     *)
(* that are recursive, InFlight and FlattenSeq.  Then each operator of a   *)
(* loop gets a lemma of what it does to a run, and each step of a loop one *)
(* that says it Advances: what it hands over on the stream is what it adds *)
(* to its context, the results of its calls included, and it either hands  *)
(* over the messages of the users it holds or takes some from a queue.     *)
(* Five invariants follow, each from the ones before:                      *)
(*   TypeInv          types, and what is known of a run in each phase      *)
(*   OneRun           at most one run has a consumer, the agent holds it   *)
(*   StateMirrorsLoop the state and the stream are the context of the loop *)
(*   AllAnswered      calls are answered, also in what the next run starts *)
(*                    from, and only a loop that is done has no consumer   *)
(*   LineInv          the messages of the users form a line: in the state  *)
(*                    or the stream, with the loop, in the queues          *)
(* All but the first need callers that wait for a run before they start    *)
(* one, and the last two listeners that do not throw: without that they    *)
(* are false.                                                              *)
(***************************************************************************)
EXTENDS Agent, WellFoundedInduction, TLAPS

(* A set of natural numbers that is not empty has a least element.         *)
LEMMA LeastExists ==
  ASSUME NEW T \in SUBSET Nat, T # {}
  PROVE  \E i \in T : \A j \in T : i <= j
<1>. DEFINE R == OpToRel(<, Nat)
<1>1. \E i \in T : \A j \in T : ~ (<<j, i>> \in R)
  BY NatLessThanWellFounded, WFMin, Zenon
<1>2. \A i, j \in Nat : <<j, i>> \in R <=> j < i
  BY DEF OpToRel
<1>. HIDE DEF R
<1>3. PICK i \in T : \A j \in T : ~ (<<j, i>> \in R)
  BY <1>1
<1>4. ASSUME NEW j \in T PROVE i <= j
  <2>1. i \in Nat /\ j \in Nat /\ ~ (j < i)
    BY <1>2, <1>3
  <2>. QED
    BY <2>1
<1>. QED
  BY <1>4

(* A set that holds 0 and with a number the next one holds them all.       *)
LEMMA NatInduct ==
  ASSUME NEW S, 0 \in S, \A n \in Nat : n \in S => n + 1 \in S
  PROVE  Nat \subseteq S
<1>. DEFINE T == {n \in Nat : n \notin S}
<1>. SUFFICES ASSUME T # {} PROVE FALSE
  OBVIOUS
<1>1. T \in SUBSET Nat
  OBVIOUS
<1>. HIDE DEF T
<1>2. PICK m \in T : \A j \in T : m <= j
  BY <1>1, LeastExists
<1>. USE DEF T
<1>3. m \in Nat /\ m # 0 /\ m \notin S
  BY <1>2
<1>4. m - 1 \in Nat /\ m - 1 \notin T
  BY <1>2, <1>3
<1>. QED
  BY <1>3, <1>4

(* Facts about sequences.                                                  *)
LEMMA LengthZero ==
  ASSUME NEW T, NEW s \in Seq(T), Len(s) = 0
  PROVE  s = <<>>
  OBVIOUS

LEMMA FrontLast ==
  ASSUME NEW T, NEW s \in Seq(T), s # <<>>
  PROVE  /\ Front(s) \in Seq(T) /\ Last(s) \in T
         /\ Len(Front(s)) = Len(s) - 1 /\ Len(s) > 0
         /\ \A i \in 1 .. Len(s) - 1 : Front(s)[i] = s[i]
         /\ s = Append(Front(s), Last(s))
<1>1. Len(s) \in Nat /\ Len(s) > 0
  BY LengthZero
<1>2. Front(s) = SubSeq(s, 1, Len(s) - 1)
  BY DEF Front
<1>3. /\ Front(s) \in Seq(T) /\ Len(Front(s)) = Len(s) - 1
      /\ \A i \in 1 .. Len(s) - 1 : Front(s)[i] = s[i]
  <2>. DEFINE n == Len(s) - 1
  <2>1. n \in Nat /\ n <= Len(s)
    BY <1>1
  <2>. HIDE DEF n
  <2>2. SubSeq(s, 1, n) \in Seq(T)
    BY <1>1, <2>1
  <2>3. Len(SubSeq(s, 1, n)) = n
    BY <1>1, <2>1
  <2>4. \A i \in 1 .. n : SubSeq(s, 1, n)[i] = s[i]
    BY <1>1, <2>1
  <2>. QED
    BY <1>2, <2>2, <2>3, <2>4 DEF n
<1>4. Last(s) \in T /\ Last(s) = s[Len(s)]
  BY <1>1 DEF Last
<1>5. ASSUME NEW f \in Seq(T), Len(f) = Len(s) - 1, \A i \in 1 .. Len(s) - 1 : f[i] = s[i]
      PROVE  s = Append(f, s[Len(s)])
  <2>. DEFINE g == Append(f, s[Len(s)])
  <2>1. g \in Seq(T) /\ Len(g) = Len(s) /\ \A i \in 1 .. Len(s) : g[i] = s[i]
    BY <1>1, <1>4, <1>5
  <2>. QED
    BY <2>1
<1>6. s = Append(Front(s), Last(s))
  BY <1>3, <1>4, <1>5
<1>. QED
  BY <1>1, <1>3, <1>4, <1>6

LEMMA AppendFront ==
  ASSUME NEW T, NEW s \in Seq(T), NEW e \in T
  PROVE  LET s2 == Append(s, e)
         IN  s2 \in Seq(T) /\ s2 # <<>> /\ Front(s2) = s /\ Last(s2) = e
<1>. DEFINE s2 == Append(s, e)
            l == Len(s2)
<1>1. s2 \in Seq(T) /\ s2 # <<>> /\ s2[Len(s) + 1] = e /\ SubSeq(s2, 1, Len(s)) = s
  OBVIOUS
<1>2. l = Len(s) + 1 /\ l - 1 = Len(s)
  OBVIOUS
<1>3. Front(s2) = SubSeq(s2, 1, l - 1) /\ Last(s2) = s2[l]
  BY DEF Front, Last
<1>. HIDE DEF s2, l
<1>. QED
  BY <1>1, <1>2, <1>3 DEF s2

(* A set of sequences that holds the empty one, and with a sequence every  *)
(* one that is longer by one, holds them all.                              *)
LEMMA SeqInduct ==
  ASSUME NEW T, NEW S, <<>> \in S,
         \A s \in Seq(T), e \in T : s \in S => Append(s, e) \in S
  PROVE  Seq(T) \subseteq S
<1>. DEFINE N == {n \in Nat : \A s \in Seq(T) : Len(s) = n => s \in S}
<1>1. 0 \in N
  BY LengthZero
<1>2. ASSUME NEW n \in Nat, n \in N PROVE n + 1 \in N
  <2>1. ASSUME NEW s \in Seq(T), Len(s) = n + 1 PROVE s \in S
    <3>1. s # <<>>
      BY <2>1
    <3>2. /\ Front(s) \in Seq(T) /\ Last(s) \in T /\ Len(Front(s)) = n
          /\ s = Append(Front(s), Last(s))
      BY <2>1, <3>1, FrontLast
    <3>. QED
      BY <1>2, <3>2
  <2>. QED
    BY <2>1
<1>. HIDE DEF N
<1>3. Nat \subseteq N
  BY <1>1, <1>2, NatInduct
<1>. QED
  BY <1>3 DEF N

LEMMA ConcatAssoc ==
  ASSUME NEW T, NEW a \in Seq(T), NEW b \in Seq(T), NEW c \in Seq(T)
  PROVE  (a \o b) \o c = a \o (b \o c) /\ (a \o b) \o c \in Seq(T)
  OBVIOUS

LEMMA ConcatEmpty ==
  ASSUME NEW T, NEW a \in Seq(T)
  PROVE  a \o <<>> = a /\ <<>> \o a = a
  OBVIOUS

LEMMA ConcatAppend ==
  ASSUME NEW T, NEW a \in Seq(T), NEW b \in Seq(T), NEW e \in T
  PROVE  a \o Append(b, e) = Append(a \o b, e) /\ a \o <<e>> = Append(a, e)
  OBVIOUS

LEMMA ConcatLonger ==
  ASSUME NEW T, NEW a \in Seq(T), NEW b \in Seq(T), NEW e \in T
  PROVE  a \o Append(b, e) = (a \o b) \o <<e>>
<1>1. a \o Append(b, e) = Append(a \o b, e) /\ a \o b \in Seq(T)
  OBVIOUS
<1>2. (a \o b) \o <<e>> = Append(a \o b, e)
  BY <1>1, ConcatAppend
<1>. QED
  BY <1>1, <1>2

LEMMA ConcatFacts ==
  ASSUME NEW T, NEW b \in Seq(T), NEW c \in Seq(T)
  PROVE  /\ b \o c \in Seq(T) /\ Len(b \o c) = Len(b) + Len(c)
         /\ Len(b) \in Nat /\ Len(c) \in Nat
         /\ \A i \in 1 .. Len(b) : (b \o c)[i] = b[i]
         /\ \A i \in 1 .. Len(c) : (b \o c)[Len(b) + i] = c[i]
  OBVIOUS

LEMMA HeadTail ==
  ASSUME NEW T, NEW s \in Seq(T), s # <<>>
  PROVE  /\ Head(s) \in T /\ Tail(s) \in Seq(T) /\ s = <<Head(s)>> \o Tail(s)
  OBVIOUS

(* A sequence over a set is one over every larger set.                     *)
LEMMA SeqMonotone ==
  ASSUME NEW A, NEW B, A \subseteq B, NEW s \in Seq(A)
  PROVE  s \in Seq(B)
<1>1. Len(s) \in Nat /\ s \in [1 .. Len(s) -> A]
  OBVIOUS
<1>2. s \in [1 .. Len(s) -> B]
  BY <1>1
<1>. QED
  BY <1>1, <1>2
-----------------------------------------------------------------------------
(* What a stream still has to hand over.                                   *)

FlightOf(s) == InFlight([stream |-> s])

\* f counts the messages of the first events of s, up to n.
Counts(f, s, n) ==
  f = [i \in 0 .. n |->
         IF i = 0 THEN <<>>
         ELSE IF s[i].type = "message_end" THEN Append(f[i - 1], s[i].message)
         ELSE f[i - 1]]

LEMMA FlightOfRun == ASSUME NEW run PROVE InFlight(run) = FlightOf(run.stream)
  BY DEF FlightOf, InFlight

(* The recursive function of InFlight exists.                              *)
LEMMA CountsExist ==
  ASSUME NEW s, NEW n \in Nat
  PROVE  \E f : Counts(f, s, n)
<1>. DEFINE N == {k \in Nat : \E f : Counts(f, s, k)}
<1>1. 0 \in N
  <2>1. Counts([i \in 0 .. 0 |-> <<>>], s, 0)
    BY DEF Counts
  <2>. QED
    BY <2>1
<1>2. ASSUME NEW k \in Nat, k \in N PROVE k + 1 \in N
  <2>1. PICK f : Counts(f, s, k)
    BY <1>2
  <2>. DEFINE x == IF s[k + 1].type = "message_end" THEN Append(f[k], s[k + 1].message) ELSE f[k]
              g == [i \in 0 .. k + 1 |-> IF i = k + 1 THEN x ELSE f[i]]
  <2>2. ASSUME NEW i \in 0 .. k + 1
        PROVE  g[i] = IF i = 0 THEN <<>>
                      ELSE IF s[i].type = "message_end" THEN Append(g[i - 1], s[i].message)
                      ELSE g[i - 1]
    <3>1. CASE i = k + 1
      <4>1. i # 0 /\ i - 1 = k /\ k \in 0 .. k + 1 /\ k # k + 1
        BY <3>1
      <4>2. g[i] = x /\ g[i - 1] = f[k]
        BY <3>1, <4>1
      <4>. QED
        BY <3>1, <4>1, <4>2
    <3>2. CASE i # k + 1
      <4>1. i \in 0 .. k /\ (i # 0 => i - 1 \in 0 .. k + 1 /\ i - 1 # k + 1)
        BY <3>2
      <4>2. g[i] = f[i] /\ (i # 0 => g[i - 1] = f[i - 1])
        BY <3>2, <4>1
      <4>. HIDE DEF g
      <4>. QED
        BY <2>1, <4>1, <4>2 DEF Counts
    <3>. QED
      BY <3>1, <3>2
  <2>3. Counts(g, s, k + 1)
    <3>1. g = [i \in 0 .. k + 1 |-> g[i]]
      OBVIOUS
    <3>. HIDE DEF g
    <3>. QED
      BY <2>2, <3>1 DEF Counts
  <2>. QED
    BY <2>3
<1>. HIDE DEF N
<1>3. Nat \subseteq N
  BY <1>1, <1>2, NatInduct
<1>. QED
  BY <1>3 DEF N

LEMMA CountsAt ==
  ASSUME NEW s, NEW n \in Nat, NEW f, Counts(f, s, n)
  PROVE  /\ f[0] = <<>>
         /\ \A i \in 1 .. n :
              f[i] = IF s[i].type = "message_end" THEN Append(f[i - 1], s[i].message)
                     ELSE f[i - 1]
<1>. DEFINE e(i) == IF i = 0 THEN <<>>
                    ELSE IF s[i].type = "message_end" THEN Append(f[i - 1], s[i].message)
                    ELSE f[i - 1]
<1>1. f = [i \in 0 .. n |-> e(i)]
  BY DEF Counts
<1>. HIDE DEF e
<1>2. \A i \in 0 .. n : f[i] = e(i)
  BY <1>1
<1>. USE DEF e
<1>3. \A i \in 1 .. n : i \in 0 .. n /\ i # 0
  OBVIOUS
<1>. QED
  BY <1>2, <1>3

LEMMA FlightCounts ==
  ASSUME NEW T, NEW s \in Seq(T)
  PROVE  \E f : Counts(f, s, Len(s)) /\ FlightOf(s) = f[Len(s)]
<1>1. Len(s) \in Nat
  OBVIOUS
<1>. DEFINE f == CHOOSE f : Counts(f, s, Len(s))
<1>2. Counts(f, s, Len(s))
  BY <1>1, CountsExist
<1>3. FlightOf(s) = f[Len(s)]
  BY DEF FlightOf, InFlight, Counts
<1>. QED
  BY <1>2, <1>3

(* A count depends on the events counted only.                             *)
LEMMA CountsAgree ==
  ASSUME NEW s, NEW t, NEW n \in Nat, NEW k \in 0 .. n, NEW f, NEW g,
         Counts(f, s, k), Counts(g, t, n), \A i \in 1 .. k : s[i] = t[i]
  PROVE  f[k] = g[k]
<1>. DEFINE N == {i \in Nat : i <= k => f[i] = g[i]}
<1>1. 0 \in N
  BY DEF Counts
<1>2. ASSUME NEW i \in Nat, i \in N PROVE i + 1 \in N
  <2>. SUFFICES ASSUME i + 1 <= k PROVE f[i + 1] = g[i + 1]
    OBVIOUS
  <2>1. i + 1 \in 1 .. k /\ i + 1 \in 1 .. n /\ i + 1 - 1 = i
    OBVIOUS
  <2>2. f[i] = g[i] /\ s[i + 1] = t[i + 1]
    BY <1>2, <2>1
  <2>3. f[i + 1] = IF s[i + 1].type = "message_end" THEN Append(f[i], s[i + 1].message) ELSE f[i]
    BY <2>1, CountsAt
  <2>4. g[i + 1] = IF t[i + 1].type = "message_end" THEN Append(g[i], t[i + 1].message) ELSE g[i]
    BY <2>1, CountsAt
  <2>. QED
    BY <2>2, <2>3, <2>4
<1>. HIDE DEF N
<1>3. Nat \subseteq N
  BY <1>1, <1>2, NatInduct
<1>. QED
  BY <1>3 DEF N

LEMMA FlightEmpty == FlightOf(<<>>) = <<>>
<1>1. <<>> \in Seq(Nat) /\ Len(<<>>) = 0
  OBVIOUS
<1>2. PICK f : Counts(f, <<>>, 0) /\ FlightOf(<<>>) = f[0]
  BY <1>1, FlightCounts
<1>. QED
  BY <1>2, CountsAt

LEMMA FlightAppend ==
  ASSUME NEW T, NEW s \in Seq(T), NEW e \in T
  PROVE  FlightOf(Append(s, e))
           = IF e.type = "message_end" THEN Append(FlightOf(s), e.message) ELSE FlightOf(s)
<1>. DEFINE t == Append(s, e)
            n == Len(s)
<1>1. /\ t \in Seq(T) /\ Len(t) = n + 1 /\ t[n + 1] = e /\ n \in Nat
      /\ \A i \in 1 .. n : s[i] = t[i]
  OBVIOUS
<1>. HIDE DEF t
<1>2. PICK f : Counts(f, s, n) /\ FlightOf(s) = f[n]
  BY FlightCounts
<1>3. PICK g : Counts(g, t, n + 1) /\ FlightOf(t) = g[n + 1]
  BY <1>1, FlightCounts
<1>. HIDE DEF n
<1>4. f[n] = g[n]
  BY <1>1, <1>2, <1>3, CountsAgree
<1>5. g[n + 1] = IF t[n + 1].type = "message_end" THEN Append(g[n], t[n + 1].message) ELSE g[n]
  <2>1. n + 1 \in Nat /\ n + 1 \in 1 .. n + 1 /\ n + 1 - 1 = n
    BY <1>1
  <2>2. \A i \in 1 .. n + 1 : g[i] = IF t[i].type = "message_end" THEN Append(g[i - 1], t[i].message)
                                    ELSE g[i - 1]
    BY <1>3, <2>1, CountsAt
  <2>. QED
    BY <1>1, <2>1, <2>2
<1>. QED
  BY <1>1, <1>2, <1>3, <1>4, <1>5 DEF t

LEMMA FlightType ==
  ASSUME NEW M, NEW E, \A e \in E : e.message \in M, NEW s \in Seq(E)
  PROVE  FlightOf(s) \in Seq(M)
<1>. DEFINE S == {x \in Seq(E) : FlightOf(x) \in Seq(M)}
<1>1. <<>> \in S
  <2>1. <<>> \in Seq(E) /\ <<>> \in Seq(M)
    OBVIOUS
  <2>. QED
    BY <2>1, FlightEmpty
<1>2. ASSUME NEW x \in Seq(E), NEW e \in E, x \in S PROVE Append(x, e) \in S
  <2>1. e.message \in M /\ FlightOf(x) \in Seq(M) /\ Append(x, e) \in Seq(E)
    BY <1>2
  <2>2. FlightOf(Append(x, e)) \in Seq(M)
    <3>1. CASE e.type = "message_end"
      <4>1. FlightOf(Append(x, e)) = Append(FlightOf(x), e.message)
        BY <3>1, FlightAppend
      <4>. QED
        BY <2>1, <4>1
    <3>2. CASE e.type # "message_end"
      <4>1. FlightOf(Append(x, e)) = FlightOf(x)
        BY <3>2, FlightAppend
      <4>. QED
        BY <2>1, <4>1
    <3>. QED
      BY <3>1, <3>2
  <2>. QED
    BY <2>1, <2>2
<1>. HIDE DEF S
<1>3. Seq(E) \subseteq S
  BY <1>1, <1>2, SeqInduct
<1>. QED
  BY <1>3 DEF S

LEMMA FlightConcat ==
  ASSUME NEW E, NEW s \in Seq(E), NEW t \in Seq(E)
  PROVE  FlightOf(s \o t) = FlightOf(s) \o FlightOf(t)
<1>. DEFINE M == {e.message : e \in E}
<1>0. \A e \in E : e.message \in M
  OBVIOUS
<1>. HIDE DEF M
<1>. DEFINE S == {x \in Seq(E) : FlightOf(s \o x) = FlightOf(s) \o FlightOf(x)}
<1>1. <<>> \in S
  <2>1. FlightOf(s) \in Seq(M) /\ <<>> \in Seq(E)
    BY <1>0, FlightType
  <2>2. s \o <<>> = s /\ FlightOf(s) \o <<>> = FlightOf(s)
    BY <2>1
  <2>. QED
    BY <2>1, <2>2, FlightEmpty
<1>2. ASSUME NEW x \in Seq(E), NEW e \in E, x \in S PROVE Append(x, e) \in S
  <2>1. /\ e.message \in M /\ FlightOf(x) \in Seq(M) /\ FlightOf(s) \in Seq(M)
        /\ Append(x, e) \in Seq(E) /\ s \o x \in Seq(E)
    BY <1>0, FlightType
  <2>2. s \o Append(x, e) = Append(s \o x, e)
    BY ConcatAppend
  <2>3. CASE e.type = "message_end"
    <3>1. FlightOf(s \o Append(x, e)) = Append(FlightOf(s) \o FlightOf(x), e.message)
      BY <1>2, <2>1, <2>2, <2>3, FlightAppend
    <3>2. FlightOf(Append(x, e)) = Append(FlightOf(x), e.message)
      BY <2>3, FlightAppend
    <3>3. FlightOf(s) \o Append(FlightOf(x), e.message)
            = Append(FlightOf(s) \o FlightOf(x), e.message)
      BY <2>1
    <3>. QED
      BY <2>1, <3>1, <3>2, <3>3
  <2>4. CASE e.type # "message_end"
    <3>1. FlightOf(s \o Append(x, e)) = FlightOf(s) \o FlightOf(x)
      BY <1>2, <2>1, <2>2, <2>4, FlightAppend
    <3>2. FlightOf(Append(x, e)) = FlightOf(x)
      BY <2>4, FlightAppend
    <3>. QED
      BY <2>1, <3>1, <3>2
  <2>. QED
    BY <2>3, <2>4
<1>. HIDE DEF S
<1>3. Seq(E) \subseteq S
  BY <1>1, <1>2, SeqInduct
<1>. QED
  BY <1>3 DEF S

LEMMA FlightOne ==
  ASSUME NEW e
  PROVE  FlightOf(<<e>>) = IF e.type = "message_end" THEN <<e.message>> ELSE <<>>
<1>1. <<>> \in Seq({e}) /\ Append(<<>>, e) = <<e>>
  OBVIOUS
<1>2. FlightOf(Append(<<>>, e))
        = IF e.type = "message_end" THEN Append(FlightOf(<<>>), e.message) ELSE FlightOf(<<>>)
  BY <1>1, FlightAppend
<1>3. Append(<<>>, e.message) = <<e.message>>
  OBVIOUS
<1>. QED
  BY <1>1, <1>2, <1>3, FlightEmpty

LEMMA EndsType ==
  ASSUME NEW M, NEW ms \in Seq(M)
  PROVE  Ends(ms) \in Seq([type : {"message_end"}, message : M])
  BY DEF Ends, Event

(* A complete message is in flight once.                                   *)
LEMMA FlightEnds ==
  ASSUME NEW M, NEW ms \in Seq(M)
  PROVE  FlightOf(Ends(ms)) = ms
<1>. DEFINE S == {x \in Seq(M) : FlightOf(Ends(x)) = x}
            E == [type : {"message_end"}, message : M]
<1>1. <<>> \in S
  <2>1. Ends(<<>>) = <<>>
    BY DEF Ends
  <2>. QED
    BY <2>1, FlightEmpty
<1>2. ASSUME NEW x \in Seq(M), NEW e \in M, x \in S PROVE Append(x, e) \in S
  <2>1. Ends(Append(x, e)) = Append(Ends(x), Event("message_end", e))
    BY DEF Ends
  <2>2. Event("message_end", e) \in E /\ Ends(x) \in Seq(E)
    BY EndsType DEF Event
  <2>3. Event("message_end", e).type = "message_end" /\ Event("message_end", e).message = e
    BY DEF Event
  <2>4. FlightOf(Ends(x)) = x
    BY <1>2
  <2>. HIDE DEF E
  <2>5. FlightOf(Ends(Append(x, e))) = Append(x, e)
    BY <2>1, <2>2, <2>3, <2>4, FlightAppend
  <2>. QED
    BY <2>5
<1>. HIDE DEF S
<1>3. Seq(M) \subseteq S
  BY <1>1, <1>2, SeqInduct
<1>. QED
  BY <1>3 DEF S
-----------------------------------------------------------------------------
(* FlattenSeq, which is defined with a recursive function too.             *)

\* f joins the first sequences of s, up to n.
Joins(f, s, n) ==
  f = [i \in 1 .. n |-> IF i = 1 THEN s[i] ELSE f[i - 1] \o s[i]]

LEMMA JoinsAt ==
  ASSUME NEW s, NEW n \in Nat, NEW f, Joins(f, s, n)
  PROVE  \A i \in 1 .. n : f[i] = IF i = 1 THEN s[i] ELSE f[i - 1] \o s[i]
<1>. DEFINE e(i) == IF i = 1 THEN s[i] ELSE f[i - 1] \o s[i]
<1>1. f = [i \in 1 .. n |-> e(i)]
  BY DEF Joins
<1>. HIDE DEF e
<1>2. \A i \in 1 .. n : f[i] = e(i)
  BY <1>1
<1>. QED
  BY <1>2 DEF e

LEMMA JoinsExist ==
  ASSUME NEW s, NEW n \in Nat
  PROVE  \E f : Joins(f, s, n)
<1>. DEFINE N == {k \in Nat : \E f : Joins(f, s, k)}
<1>1. 0 \in N
  <2>1. Joins([i \in 1 .. 0 |-> <<>>], s, 0)
    BY DEF Joins
  <2>. QED
    BY <2>1
<1>2. ASSUME NEW k \in Nat, k \in N PROVE k + 1 \in N
  <2>1. PICK f : Joins(f, s, k)
    BY <1>2
  <2>. DEFINE x == IF k = 0 THEN s[1] ELSE f[k] \o s[k + 1]
              g == [i \in 1 .. k + 1 |-> IF i = k + 1 THEN x ELSE f[i]]
  <2>2. ASSUME NEW i \in 1 .. k + 1
        PROVE  g[i] = IF i = 1 THEN s[i] ELSE g[i - 1] \o s[i]
    <3>1. CASE i = k + 1
      <4>1. g[i] = x
        BY <3>1
      <4>2. CASE k = 0
        BY <3>1, <4>1, <4>2
      <4>3. CASE k # 0
        <5>1. i - 1 = k /\ k \in 1 .. k + 1 /\ k # k + 1 /\ i # 1
          BY <3>1, <4>3
        <5>2. g[i - 1] = f[k]
          BY <5>1
        <5>. QED
          BY <3>1, <4>1, <4>3, <5>1, <5>2
      <4>. QED
        BY <4>2, <4>3
    <3>2. CASE i # k + 1
      <4>1. i \in 1 .. k /\ (i # 1 => i - 1 \in 1 .. k + 1 /\ i - 1 # k + 1)
        BY <3>2
      <4>2. g[i] = f[i] /\ (i # 1 => g[i - 1] = f[i - 1])
        BY <3>2, <4>1
      <4>. HIDE DEF g
      <4>. QED
        BY <2>1, <4>1, <4>2, JoinsAt
    <3>. QED
      BY <3>1, <3>2
  <2>3. Joins(g, s, k + 1)
    <3>1. g = [i \in 1 .. k + 1 |-> g[i]]
      OBVIOUS
    <3>. HIDE DEF g
    <3>. QED
      BY <2>2, <3>1 DEF Joins
  <2>. QED
    BY <2>3
<1>. HIDE DEF N
<1>3. Nat \subseteq N
  BY <1>1, <1>2, NatInduct
<1>. QED
  BY <1>3 DEF N

LEMMA FlattenJoins ==
  ASSUME NEW T, NEW s \in Seq(T), Len(s) # 0
  PROVE  \E f : Joins(f, s, Len(s)) /\ FlattenSeq(s) = f[Len(s)]
<1>1. Len(s) \in Nat
  OBVIOUS
<1>. DEFINE f == CHOOSE f : Joins(f, s, Len(s))
<1>2. Joins(f, s, Len(s))
  BY <1>1, JoinsExist
<1>3. FlattenSeq(s) = f[Len(s)]
  BY DEF FlattenSeq, Joins
<1>. QED
  BY <1>2, <1>3

LEMMA JoinsAgree ==
  ASSUME NEW s, NEW t, NEW n \in Nat, NEW k \in 1 .. n, NEW f, NEW g,
         Joins(f, s, k), Joins(g, t, n), \A i \in 1 .. k : s[i] = t[i]
  PROVE  f[k] = g[k]
<1>. DEFINE N == {i \in Nat : i \in 1 .. k => f[i] = g[i]}
<1>1. 0 \in N
  OBVIOUS
<1>2. ASSUME NEW i \in Nat, i \in N PROVE i + 1 \in N
  <2>. SUFFICES ASSUME i + 1 <= k PROVE f[i + 1] = g[i + 1]
    OBVIOUS
  <2>1. i + 1 \in 1 .. k /\ i + 1 \in 1 .. n /\ i + 1 - 1 = i /\ s[i + 1] = t[i + 1]
    OBVIOUS
  <2>2. f[i + 1] = IF i + 1 = 1 THEN s[i + 1] ELSE f[i] \o s[i + 1]
    BY <2>1, JoinsAt
  <2>3. g[i + 1] = IF i + 1 = 1 THEN t[i + 1] ELSE g[i] \o t[i + 1]
    BY <2>1, JoinsAt
  <2>4. i # 0 => f[i] = g[i]
    BY <1>2
  <2>. QED
    BY <2>1, <2>2, <2>3, <2>4
<1>. HIDE DEF N
<1>3. Nat \subseteq N
  BY <1>1, <1>2, NatInduct
<1>. QED
  BY <1>3 DEF N

LEMMA FlattenEmpty == FlattenSeq(<<>>) = <<>>
  BY DEF FlattenSeq

LEMMA FlattenAppend ==
  ASSUME NEW T, NEW s \in Seq(Seq(T)), NEW x \in Seq(T)
  PROVE  FlattenSeq(Append(s, x)) = FlattenSeq(s) \o x
<1>. DEFINE t == Append(s, x)
            n == Len(s)
<1>1. /\ t \in Seq(Seq(T)) /\ Len(t) = n + 1 /\ t[n + 1] = x /\ n \in Nat
      /\ \A i \in 1 .. n : s[i] = t[i]
  OBVIOUS
<1>2. n = 0 => s = <<>>
  BY LengthZero
<1>. HIDE DEF t
<1>3. PICK g : Joins(g, t, n + 1) /\ FlattenSeq(t) = g[n + 1]
  <2>1. Len(t) # 0
    BY <1>1
  <2>2. \E g : Joins(g, t, Len(t)) /\ FlattenSeq(t) = g[Len(t)]
    BY <1>1, <2>1, FlattenJoins
  <2>. HIDE DEF n
  <2>. QED
    BY <1>1, <2>2
<1>4. n + 1 \in Nat /\ n + 1 \in 1 .. n + 1 /\ n + 1 - 1 = n
  BY <1>1
<1>5. \A i \in 1 .. n + 1 : g[i] = IF i = 1 THEN t[i] ELSE g[i - 1] \o t[i]
  BY <1>3, <1>4, JoinsAt
<1>6. CASE n = 0
  <2>1. FlattenSeq(t) = x
    BY <1>1, <1>3, <1>4, <1>5, <1>6
  <2>2. FlattenSeq(s) \o x = x
    BY <1>2, <1>6, FlattenEmpty
  <2>. QED
    BY <2>1, <2>2 DEF t
<1>7. CASE n # 0
  <2>1. PICK f : Joins(f, s, n) /\ FlattenSeq(s) = f[n]
    BY <1>7, FlattenJoins
  <2>. HIDE DEF n
  <2>2. f[n] = g[n]
    BY <1>1, <1>3, <1>4, <1>7, <2>1, JoinsAgree
  <2>3. g[n + 1] = g[n] \o x
    <3>1. n + 1 # 1
      BY <1>1, <1>7
    <3>2. g[n + 1] = IF n + 1 = 1 THEN t[n + 1] ELSE g[n + 1 - 1] \o t[n + 1]
      BY <1>1, <1>4, <1>5
    <3>. QED
      BY <1>1, <1>4, <3>1, <3>2
  <2>. QED
    BY <1>3, <2>1, <2>2, <2>3 DEF t
<1>. QED
  BY <1>6, <1>7

LEMMA FlattenType ==
  ASSUME NEW T, NEW s \in Seq(Seq(T))
  PROVE  FlattenSeq(s) \in Seq(T)
<1>. DEFINE S == {x \in Seq(Seq(T)) : FlattenSeq(x) \in Seq(T)}
<1>1. <<>> \in S
  <2>1. <<>> \in Seq(Seq(T)) /\ <<>> \in Seq(T)
    OBVIOUS
  <2>. QED
    BY <2>1, FlattenEmpty
<1>2. ASSUME NEW x \in Seq(Seq(T)), NEW e \in Seq(T), x \in S PROVE Append(x, e) \in S
  <2>1. FlattenSeq(Append(x, e)) = FlattenSeq(x) \o e
    BY FlattenAppend
  <2>2. FlattenSeq(x) \in Seq(T) /\ Append(x, e) \in Seq(Seq(T))
    BY <1>2
  <2>3. FlattenSeq(x) \o e \in Seq(T)
    BY <2>2
  <2>. QED
    BY <2>1, <2>2, <2>3
<1>. HIDE DEF S
<1>3. Seq(Seq(T)) \subseteq S
  BY <1>1, <1>2, SeqInduct
<1>. QED
  BY <1>3 DEF S

(* Where at most the r-th sequence is not empty, it is all there is.       *)
LEMMA FlattenOne ==
  ASSUME NEW T, NEW s \in Seq(Seq(T)), NEW r, \A i \in 1 .. Len(s) : i # r => s[i] = <<>>
  PROVE  FlattenSeq(s) = IF r \in 1 .. Len(s) THEN s[r] ELSE <<>>
<1>. DEFINE Only(x) == (\A i \in 1 .. Len(x) : i # r => x[i] = <<>>)
                       => FlattenSeq(x) = IF r \in 1 .. Len(x) THEN x[r] ELSE <<>>
            S == {x \in Seq(Seq(T)) : Only(x)}
<1>1. <<>> \in S
  <2>1. <<>> \in Seq(Seq(T)) /\ Len(<<>>) = 0
    OBVIOUS
  <2>2. Only(<<>>)
    BY <2>1, FlattenEmpty
  <2>. HIDE DEF Only
  <2>. QED
    BY <2>1, <2>2
<1>2. ASSUME NEW x \in Seq(Seq(T)), NEW e \in Seq(T), x \in S PROVE Append(x, e) \in S
  <2>. DEFINE t == Append(x, e)
              n == Len(x)
  <2>1. /\ t \in Seq(Seq(T)) /\ Len(t) = n + 1 /\ t[n + 1] = e /\ n \in Nat
        /\ \A i \in 1 .. n : x[i] = t[i]
    OBVIOUS
  <2>2. FlattenSeq(t) = FlattenSeq(x) \o e
    BY FlattenAppend
  <2>3. FlattenSeq(x) \in Seq(T)
    BY FlattenType
  <2>4. Only(x)
    BY <1>2
  <2>. HIDE DEF t, n
  <2>5. ASSUME \A i \in 1 .. n + 1 : i # r => t[i] = <<>>
        PROVE  FlattenSeq(t) = IF r \in 1 .. n + 1 THEN t[r] ELSE <<>>
    <3>1. \A i \in 1 .. n : i \in 1 .. n + 1 /\ (i # r => x[i] = <<>>)
      BY <2>1, <2>5
    <3>2. FlattenSeq(x) = IF r \in 1 .. n THEN x[r] ELSE <<>>
      BY <2>4, <3>1 DEF n
    <3>3. CASE r = n + 1
      <4>1. r \notin 1 .. n /\ r \in 1 .. n + 1
        BY <2>1, <3>3
      <4>2. FlattenSeq(t) = <<>> \o e /\ <<>> \o e = e
        BY <2>2, <3>2, <4>1
      <4>. QED
        BY <2>1, <3>3, <4>1, <4>2
    <3>4. CASE r # n + 1
      <4>1. e = <<>>
        BY <2>1, <2>5, <3>4
      <4>2. FlattenSeq(t) = FlattenSeq(x)
        BY <2>2, <2>3, <4>1
      <4>3. r \in 1 .. n + 1 <=> r \in 1 .. n
        BY <2>1, <3>4
      <4>. QED
        BY <2>1, <3>2, <4>2, <4>3
    <3>. QED
      BY <3>3, <3>4
  <2>6. Only(t)
    BY <2>1, <2>5
  <2>. HIDE DEF Only
  <2>. QED
    BY <2>1, <2>6 DEF t
<1>. HIDE DEF S, Only
<1>3. Seq(Seq(T)) \subseteq S
  BY <1>1, <1>2, SeqInduct
<1>. QED
  BY <1>3 DEF S, Only

\* The events of the calls that are skipped, as in SkipTools.
SkipOf(m) == <<Event("tool_start", m), Event("tool_end", m), Event("message_end", m)>>

Skips(ms) == [i \in 1 .. Len(ms) |-> SkipOf(ms[i])]

ToolEvents(M) == [type : {"tool_start", "tool_end", "message_end"}, message : M]

LEMMA TwoThree ==
  ASSUME NEW a, NEW b, NEW c
  PROVE  Append(<<a>>, b) = <<a, b>> /\ Append(<<a, b>>, c) = <<a, b, c>>
<1>. DEFINE s == Append(<<a>>, b)
            t == <<a, b>>
            u == Append(<<a, b>>, c)
            v == <<a, b, c>>
<1>1. s \in Seq({a, b}) /\ Len(s) = 2 /\ s[1] = a /\ s[2] = b
  OBVIOUS
<1>2. t \in Seq({a, b}) /\ Len(t) = 2 /\ t[1] = a /\ t[2] = b
  OBVIOUS
<1>3. u \in Seq({a, b, c}) /\ Len(u) = 3 /\ u[1] = a /\ u[2] = b /\ u[3] = c
  OBVIOUS
<1>4. v \in Seq({a, b, c}) /\ Len(v) = 3 /\ v[1] = a /\ v[2] = b /\ v[3] = c
  OBVIOUS
<1>. HIDE DEF s, t, u, v
<1>5. s = t
  BY <1>1, <1>2
<1>6. u = v
  BY <1>3, <1>4
<1>. QED
  BY <1>5, <1>6 DEF s, t, u, v

LEMMA FlightThree ==
  ASSUME NEW E, NEW a \in E, NEW b \in E, NEW c \in E,
         a.type # "message_end", b.type # "message_end", c.type = "message_end"
  PROVE  FlightOf(<<a, b, c>>) = <<c.message>>
<1>1. Append(<<a>>, b) = <<a, b>>
  BY TwoThree
<1>2. Append(<<a, b>>, c) = <<a, b, c>>
  BY TwoThree
<1>3. <<a>> \in Seq(E) /\ <<a, b>> \in Seq(E)
  OBVIOUS
<1>4. FlightOf(<<a>>) = <<>>
  BY FlightOne
<1>5. FlightOf(<<a, b>>) = <<>>
  <2>1. FlightOf(Append(<<a>>, b)) = FlightOf(<<a>>)
    BY <1>3, FlightAppend
  <2>. QED
    BY <1>1, <1>4, <2>1
<1>6. FlightOf(<<a, b, c>>) = Append(<<>>, c.message)
  <2>1. FlightOf(Append(<<a, b>>, c)) = Append(FlightOf(<<a, b>>), c.message)
    BY <1>3, FlightAppend
  <2>. QED
    BY <1>2, <1>5, <2>1
<1>. QED
  BY <1>6

(* A skipped call puts its result in flight once.                          *)
LEMMA FlightSkips ==
  ASSUME NEW M, NEW ms \in Seq(M)
  PROVE  /\ FlattenSeq(Skips(ms)) \in Seq(ToolEvents(M))
         /\ FlightOf(FlattenSeq(Skips(ms))) = ms
<1>. DEFINE E == ToolEvents(M)
            S == {x \in Seq(M) : /\ Skips(x) \in Seq(Seq(E))
                                 /\ FlightOf(FlattenSeq(Skips(x))) = x}
<1>1. <<>> \in S
  <2>1. Skips(<<>>) = <<>>
    BY DEF Skips
  <2>2. <<>> \in Seq(M) /\ <<>> \in Seq(Seq(E))
    OBVIOUS
  <2>. QED
    BY <2>1, <2>2, FlattenEmpty, FlightEmpty
<1>2. ASSUME NEW x \in Seq(M), NEW m \in M, x \in S PROVE Append(x, m) \in S
  <2>. DEFINE y == SkipOf(m)
  <2>1. Skips(Append(x, m)) = Append(Skips(x), y)
    BY DEF Skips
  <2>2. y \in Seq(E) /\ FlightOf(y) = <<m>>
    <3>. DEFINE a == Event("tool_start", m)
                b == Event("tool_end", m)
                c == Event("message_end", m)
    <3>1. a \in E /\ b \in E /\ c \in E
      BY DEF Event, ToolEvents
    <3>2. /\ a.type # "message_end" /\ b.type # "message_end" /\ c.type = "message_end"
          /\ c.message = m
      BY DEF Event
    <3>3. y = <<a, b, c>>
      BY DEF SkipOf
    <3>. HIDE DEF E, a, b, c, y
    <3>. QED
      BY <3>1, <3>2, <3>3, FlightThree
  <2>. HIDE DEF E, y
  <2>5. Skips(x) \in Seq(Seq(E))
    BY <1>2
  <2>6. FlattenSeq(Skips(Append(x, m))) = FlattenSeq(Skips(x)) \o y
    BY <2>1, <2>2, <2>5, FlattenAppend
  <2>7. FlattenSeq(Skips(x)) \in Seq(E)
    BY <2>5, FlattenType
  <2>8. FlightOf(FlattenSeq(Skips(Append(x, m)))) = FlightOf(FlattenSeq(Skips(x))) \o <<m>>
    <3>1. FlightOf(FlattenSeq(Skips(x)) \o y) = FlightOf(FlattenSeq(Skips(x))) \o FlightOf(y)
      BY <2>2, <2>7, FlightConcat
    <3>. QED
      BY <2>2, <2>6, <3>1
  <2>9. FlightOf(FlattenSeq(Skips(x))) = x
    BY <1>2
  <2>10. FlightOf(FlattenSeq(Skips(Append(x, m)))) = Append(x, m)
    BY <2>8, <2>9
  <2>11. Skips(Append(x, m)) \in Seq(Seq(E)) /\ Append(x, m) \in Seq(M)
    BY <2>1, <2>2, <2>5
  <2>. QED
    BY <2>10, <2>11
<1>. HIDE DEF S
<1>3. Seq(M) \subseteq S
  BY <1>1, <1>2, SeqInduct
<1>4. Skips(ms) \in Seq(Seq(E)) /\ FlightOf(FlattenSeq(Skips(ms))) = ms
  BY <1>3 DEF S
<1>. QED
  BY <1>4, FlattenType
-----------------------------------------------------------------------------
(* What is known of messages when n of them were sent by users, of events  *)
(* and of runs.                                                            *)

Known(n) ==
  {m \in Message : /\ m.role = "user" => m.id \in 1 .. n
                   /\ m.stop # "" => m.role = "assistant"}

Via(n, way) == {User(i, way) : i \in 1 .. n}

FromUsers(n) == {m \in Known(n) : m.role = "user"}

KnownEvent(n) ==
  [type : {"message_start", "message_end", "tool_start", "tool_end", "turn_end", "agent_end"},
   message : Known(n)]

KnownRun(n) ==
  [phase : {"polled", "model", "streaming", "tool", "toolPolled", "followUpPolled", "ended"},
   context : Seq(Known(n)), pending : Seq(FromUsers(n)), results : Seq(Known(n)),
   more : BOOLEAN, stream : Seq(KnownEvent(n)), aborted : BOOLEAN,
   consumer : {"active", "gone"}, idle : {"pending", "resolved"},
   over : SUBSET Nat, threw : BOOLEAN]

\* The phases of a run whose last message waits for results of its calls.
Calling == {"tool", "toolPolled"}

RunOK(run, n) ==
  /\ run \in KnownRun(n)
  /\ run.context # <<>>
  /\ run.phase \in Calling =>
       /\ Last(run.context).role = "assistant" /\ Last(run.context).stop # "error"
       /\ Len(run.results) <= Last(run.context).n
       /\ \A k \in 1 .. Len(run.results) : run.results[k] = Result(Last(run.context), k)
  /\ run.phase = "tool" => Len(run.results) < Last(run.context).n
  /\ run.phase \notin Calling => run.results = <<>>
  /\ run.phase \in {"model", "streaming", "tool", "ended"} => run.pending = <<>>

LEMMA KnownMessages ==
  ASSUME NEW n \in Nat
  PROVE  /\ Known(n) \subseteq Message /\ FromUsers(n) \subseteq Known(n)
         /\ \A m \in Message : m.role = "assistant" => m \in Known(n)
         /\ \A a \in Message : \A k \in Nat : Result(a, k) \in Known(n)
         /\ \A i \in Nat, k \in Nat, s \in {"partial", "stop", "error"} :
              Assistant(i, k, s) \in Known(n)
         /\ \A way \in {prompted, steered, followed} : Via(n, way) \subseteq FromUsers(n)
<1>1. Known(n) \subseteq Message /\ FromUsers(n) \subseteq Known(n)
  BY DEF Known, FromUsers
<1>2. \A m \in Message : m.role = "assistant" => m \in Known(n)
  BY DEF Known
<1>3. ASSUME NEW a \in Message, NEW k \in Nat PROVE Result(a, k) \in Known(n)
  <2>1. Result(a, k) \in Message /\ Result(a, k).role = "toolResult" /\ Result(a, k).stop = ""
    BY DEF Message, Result
  <2>. QED
    BY <2>1 DEF Known
<1>4. ASSUME NEW i \in Nat, NEW k \in Nat, NEW s \in {"partial", "stop", "error"}
      PROVE  Assistant(i, k, s) \in Known(n)
  <2>1. Assistant(i, k, s) \in Message /\ Assistant(i, k, s).role = "assistant"
    BY DEF Message, Assistant
  <2>. QED
    BY <1>2, <2>1
<1>5. ASSUME NEW way \in {prompted, steered, followed}, NEW i \in 1 .. n
      PROVE  User(i, way) \in FromUsers(n)
  <2>1. way \in Nat /\ i \in Nat
    BY DEF prompted, steered, followed
  <2>2. /\ User(i, way) \in Message /\ User(i, way).role = "user" /\ User(i, way).stop = ""
        /\ User(i, way).id = i
    BY <2>1 DEF Message, User
  <2>. QED
    BY <2>2 DEF Known, FromUsers
<1>. QED
  BY <1>1, <1>2, <1>3, <1>4, <1>5 DEF Via

LEMMA KnownGrows ==
  ASSUME NEW n \in Nat
  PROVE  /\ Known(n) \subseteq Known(n + 1) /\ FromUsers(n) \subseteq FromUsers(n + 1)
         /\ \A way : Via(n, way) \subseteq Via(n + 1, way)
         /\ KnownEvent(n) \subseteq KnownEvent(n + 1)
<1>1. Known(n) \subseteq Known(n + 1)
  <2>1. \A i \in 1 .. n : i \in 1 .. n + 1
    OBVIOUS
  <2>. QED
    BY <2>1 DEF Known
<1>2. FromUsers(n) \subseteq FromUsers(n + 1)
  BY <1>1 DEF FromUsers
<1>3. \A way : Via(n, way) \subseteq Via(n + 1, way)
  BY DEF Via
<1>4. KnownEvent(n) \subseteq KnownEvent(n + 1)
  BY <1>1 DEF KnownEvent
<1>. QED
  BY <1>1, <1>2, <1>3, <1>4

LEMMA RunGrows ==
  ASSUME NEW n \in Nat, NEW run, RunOK(run, n)
  PROVE  RunOK(run, n + 1)
<1>1. run \in KnownRun(n)
  BY DEF RunOK
<1>2. run.context \in Seq(Known(n + 1)) /\ run.results \in Seq(Known(n + 1))
  BY <1>1, KnownGrows, SeqMonotone DEF KnownRun
<1>3. run.pending \in Seq(FromUsers(n + 1)) /\ run.stream \in Seq(KnownEvent(n + 1))
  BY <1>1, KnownGrows, SeqMonotone DEF KnownRun
<1>4. run \in KnownRun(n + 1)
  BY <1>1, <1>2, <1>3 DEF KnownRun
<1>. QED
  BY <1>4 DEF RunOK

(* A poll takes a first part of the queue and leaves the rest.             *)
LEMMA TakenLeft ==
  ASSUME NEW T, NEW q \in Seq(T), NEW mode
  PROVE  /\ Taken(q, mode) \in Seq(T) /\ Left(q, mode) \in Seq(T)
         /\ q = Taken(q, mode) \o Left(q, mode)
<1>1. CASE mode = "all" \/ q = <<>>
  <2>1. Taken(q, mode) = q
    BY <1>1 DEF Taken
  <2>2. Left(q, mode) = <<>>
    BY <2>1 DEF Left
  <2>. QED
    BY <2>1, <2>2
<1>2. CASE ~ (mode = "all" \/ q = <<>>)
  <2>1. Taken(q, mode) = <<Head(q)>> /\ Len(<<Head(q)>>) = 1
    BY <1>2 DEF Taken
  <2>2. Left(q, mode) = SubSeq(q, 2, Len(q))
    BY <2>1 DEF Left
  <2>3. SubSeq(q, 2, Len(q)) = Tail(q)
    BY <1>2
  <2>4. Head(q) \in T /\ Tail(q) \in Seq(T) /\ q = <<Head(q)>> \o Tail(q)
    BY <1>2, HeadTail
  <2>5. <<Head(q)>> \in Seq(T)
    BY <2>4
  <2>. QED
    BY <2>1, <2>2, <2>3, <2>4, <2>5
<1>. QED
  BY <1>1, <1>2
-----------------------------------------------------------------------------
(* The operations of the loop.                                             *)

\* new is run after it handed d to its consumer, if it has one.
Hands(run, new, d) ==
  /\ new.aborted = run.aborted /\ new.consumer = run.consumer /\ new.idle = run.idle
  /\ new.over = run.over /\ new.threw = run.threw
  /\ run.consumer = "active" => InFlight(new) = InFlight(run) \o d

LEMMA HandsNothing ==
  ASSUME NEW n \in Nat, NEW run \in KnownRun(n), NEW new,
         new.aborted = run.aborted, new.consumer = run.consumer, new.idle = run.idle,
         new.over = run.over, new.threw = run.threw,
         new.stream = run.stream
  PROVE  Hands(run, new, <<>>)
<1>1. run.stream \in Seq(KnownEvent(n)) /\ \A e \in KnownEvent(n) : e.message \in Known(n)
  BY DEF KnownRun, KnownEvent
<1>2. InFlight(run) = FlightOf(run.stream) /\ InFlight(new) = FlightOf(run.stream)
  BY FlightOfRun
<1>3. FlightOf(run.stream) \in Seq(Known(n))
  BY <1>1, FlightType
<1>4. FlightOf(run.stream) \o <<>> = FlightOf(run.stream)
  BY <1>3
<1>. QED
  BY <1>2, <1>4 DEF Hands

LEMMA InFlightType ==
  ASSUME NEW n \in Nat, NEW run \in KnownRun(n)
  PROVE  InFlight(run) \in Seq(Known(n))
<1>1. run.stream \in Seq(KnownEvent(n)) /\ \A e \in KnownEvent(n) : e.message \in Known(n)
  BY DEF KnownRun, KnownEvent
<1>. QED
  BY <1>1, FlightOfRun, FlightType

\* Only what the consumer sees counts.
LEMMA HandsSame ==
  ASSUME NEW run, NEW mid, NEW new, NEW d, Hands(run, mid, d),
         new.aborted = mid.aborted, new.consumer = mid.consumer, new.idle = mid.idle,
         new.over = mid.over, new.threw = mid.threw,
         new.stream = mid.stream
  PROVE  Hands(run, new, d)
<1>1. InFlight(new) = InFlight(mid)
  BY FlightOfRun
<1>. QED
  BY <1>1 DEF Hands

LEMMA HandsBoth ==
  ASSUME NEW n \in Nat, NEW run \in KnownRun(n), NEW mid, NEW new,
         NEW d \in Seq(Known(n)), NEW e \in Seq(Known(n)),
         Hands(run, mid, d), Hands(mid, new, e)
  PROVE  Hands(run, new, d \o e)
<1>1. InFlight(run) \in Seq(Known(n))
  BY InFlightType
<1>2. (InFlight(run) \o d) \o e = InFlight(run) \o (d \o e)
  BY <1>1, ConcatAssoc
<1>. QED
  BY <1>2 DEF Hands

LEMMA PushDoes ==
  ASSUME NEW n \in Nat, NEW run \in KnownRun(n), NEW evs \in Seq(KnownEvent(n))
  PROVE  LET new == Push(run, evs)
         IN  /\ new \in KnownRun(n) /\ Hands(run, new, FlightOf(evs))
             /\ new.phase = run.phase /\ new.context = run.context
             /\ new.pending = run.pending /\ new.results = run.results /\ new.more = run.more
<1>1. CASE run.consumer = "gone"
  BY <1>1 DEF Push, Hands
<1>2. CASE run.consumer # "gone"
  <2>. DEFINE new == [run EXCEPT !.stream = run.stream \o evs]
  <2>1. Push(run, evs) = new
    BY <1>2 DEF Push
  <2>2. run.stream \in Seq(KnownEvent(n)) /\ run.stream \o evs \in Seq(KnownEvent(n))
    BY DEF KnownRun
  <2>3. /\ new \in KnownRun(n) /\ new.stream = run.stream \o evs
        /\ new.aborted = run.aborted /\ new.consumer = run.consumer /\ new.idle = run.idle
        /\ new.over = run.over /\ new.threw = run.threw
        /\ new.phase = run.phase /\ new.context = run.context
        /\ new.pending = run.pending /\ new.results = run.results /\ new.more = run.more
    BY <2>2 DEF KnownRun
  <2>. HIDE DEF new
  <2>4. FlightOf(run.stream \o evs) = FlightOf(run.stream) \o FlightOf(evs)
    BY <2>2, FlightConcat
  <2>5. InFlight(new) = InFlight(run) \o FlightOf(evs)
    BY <2>3, <2>4, FlightOfRun
  <2>. QED
    BY <2>1, <2>3, <2>5 DEF Hands
<1>. QED
  BY <1>1, <1>2

LEMMA OneEvent ==
  ASSUME NEW n \in Nat, NEW m \in Known(n),
         NEW type \in {"message_start", "message_end", "tool_start", "tool_end", "turn_end",
                       "agent_end"}
  PROVE  /\ <<Event(type, m)>> \in Seq(KnownEvent(n)) /\ Event(type, m) \in KnownEvent(n)
         /\ Event(type, m).type = type /\ Event(type, m).message = m
         /\ FlightOf(<<Event(type, m)>>) = IF type = "message_end" THEN <<m>> ELSE <<>>
<1>1. Event(type, m) \in KnownEvent(n) /\ Event(type, m).type = type /\ Event(type, m).message = m
  BY DEF Event, KnownEvent
<1>2. <<Event(type, m)>> \in Seq(KnownEvent(n))
  BY <1>1
<1>. QED
  BY <1>1, <1>2, FlightOne

LEMMA EndsKnown ==
  ASSUME NEW n \in Nat, NEW ms \in Seq(Known(n))
  PROVE  Ends(ms) \in Seq(KnownEvent(n)) /\ FlightOf(Ends(ms)) = ms
<1>1. [type : {"message_end"}, message : Known(n)] \subseteq KnownEvent(n)
  BY DEF KnownEvent
<1>2. Ends(ms) \in Seq([type : {"message_end"}, message : Known(n)])
  BY EndsType
<1>. QED
  BY <1>1, <1>2, SeqMonotone, FlightEnds

LEMMA CallModelDoes ==
  ASSUME NEW n \in Nat, NEW run \in KnownRun(n)
  PROVE  LET new == CallModel(run)
         IN  /\ new \in KnownRun(n) /\ Hands(run, new, run.pending)
             /\ new.phase = "model" /\ new.context = run.context \o run.pending
             /\ new.pending = <<>> /\ new.results = run.results /\ new.more = run.more
<1>. DEFINE mid == Push(run, Ends(run.pending))
            new == CallModel(run)
<1>1. run.pending \in Seq(Known(n)) /\ run.context \o run.pending \in Seq(Known(n))
  <2>1. run.pending \in Seq(FromUsers(n)) /\ FromUsers(n) \subseteq Known(n)
    BY KnownMessages DEF KnownRun
  <2>2. run.pending \in Seq(Known(n)) /\ run.context \in Seq(Known(n))
    BY <2>1, SeqMonotone DEF KnownRun
  <2>. QED
    BY <2>2
<1>2. Ends(run.pending) \in Seq(KnownEvent(n)) /\ FlightOf(Ends(run.pending)) = run.pending
  BY <1>1, EndsKnown
<1>3. /\ mid \in KnownRun(n) /\ Hands(run, mid, run.pending)
      /\ mid.phase = run.phase /\ mid.context = run.context
      /\ mid.pending = run.pending /\ mid.results = run.results /\ mid.more = run.more
  BY <1>2, PushDoes
<1>4. new = [mid EXCEPT !.context = run.context \o run.pending, !.pending = <<>>, !.phase = "model"]
  BY <1>3 DEF CallModel
<1>. HIDE DEF mid, new
<1>e. <<>> \in Seq(FromUsers(n)) /\ <<>> \in Seq(Known(n))
  OBVIOUS
<1>5. /\ new \in KnownRun(n)
      /\ new.phase = "model" /\ new.context = run.context \o run.pending
      /\ new.pending = <<>> /\ new.results = run.results /\ new.more = run.more
      /\ new.aborted = mid.aborted /\ new.consumer = mid.consumer /\ new.idle = mid.idle
      /\ new.over = mid.over /\ new.threw = mid.threw
      /\ new.stream = mid.stream
  BY <1>1, <1>3, <1>4, <1>e DEF KnownRun
<1>6. Hands(run, new, run.pending)
  BY <1>3, <1>5, HandsSame
<1>. QED
  BY <1>5, <1>6 DEF new

LEMMA EndTurnDoes ==
  ASSUME NEW n \in Nat, NEW run \in KnownRun(n), run.context # <<>>
  PROVE  LET new == EndTurn(run)
         IN  /\ new \in KnownRun(n) /\ Hands(run, new, <<>>)
             /\ new.phase = run.phase /\ new.context = run.context \o run.results
             /\ new.pending = run.pending /\ new.results = <<>> /\ new.more = run.more
<1>. DEFINE evs == <<Event("turn_end", Last(run.context))>>
            mid == Push(run, evs)
            new == EndTurn(run)
<1>1. /\ run.context \in Seq(Known(n)) /\ run.results \in Seq(Known(n))
      /\ run.context \o run.results \in Seq(Known(n)) /\ Last(run.context) \in Known(n)
  BY FrontLast DEF KnownRun
<1>2. evs \in Seq(KnownEvent(n)) /\ FlightOf(evs) = <<>>
  BY <1>1, OneEvent
<1>3. /\ mid \in KnownRun(n) /\ Hands(run, mid, <<>>)
      /\ mid.phase = run.phase /\ mid.context = run.context
      /\ mid.pending = run.pending /\ mid.results = run.results /\ mid.more = run.more
  BY <1>2, PushDoes
<1>4. new = [mid EXCEPT !.context = run.context \o run.results, !.results = <<>>]
  BY <1>3 DEF EndTurn
<1>. HIDE DEF mid, new
<1>e. <<>> \in Seq(FromUsers(n)) /\ <<>> \in Seq(Known(n))
  OBVIOUS
<1>5. /\ new \in KnownRun(n)
      /\ new.phase = run.phase /\ new.context = run.context \o run.results
      /\ new.pending = run.pending /\ new.results = <<>> /\ new.more = run.more
      /\ new.aborted = mid.aborted /\ new.consumer = mid.consumer /\ new.idle = mid.idle
      /\ new.over = mid.over /\ new.threw = mid.threw
      /\ new.stream = mid.stream
  BY <1>1, <1>3, <1>4, <1>e DEF KnownRun
<1>6. Hands(run, new, <<>>)
  BY <1>3, <1>5, HandsSame
<1>. QED
  BY <1>5, <1>6 DEF new

LEMMA EndRunDoes ==
  ASSUME NEW n \in Nat, NEW run \in KnownRun(n), run.context # <<>>
  PROVE  LET new == EndRun(run)
         IN  /\ new \in KnownRun(n) /\ Hands(run, new, <<>>)
             /\ new.phase = "ended" /\ new.context = run.context
             /\ new.pending = run.pending /\ new.results = run.results /\ new.more = run.more
<1>. DEFINE evs == <<Event("agent_end", Last(run.context))>>
            mid == Push(run, evs)
            new == EndRun(run)
<1>1. Last(run.context) \in Known(n)
  BY FrontLast DEF KnownRun
<1>2. evs \in Seq(KnownEvent(n)) /\ FlightOf(evs) = <<>>
  BY <1>1, OneEvent
<1>3. /\ mid \in KnownRun(n) /\ Hands(run, mid, <<>>)
      /\ mid.phase = run.phase /\ mid.context = run.context
      /\ mid.pending = run.pending /\ mid.results = run.results /\ mid.more = run.more
  BY <1>2, PushDoes
<1>4. new = [mid EXCEPT !.phase = "ended"]
  BY DEF EndRun
<1>. HIDE DEF mid, new
<1>5. /\ new \in KnownRun(n) /\ new.phase = "ended" /\ new.context = run.context
      /\ new.pending = run.pending /\ new.results = run.results /\ new.more = run.more
      /\ new.aborted = mid.aborted /\ new.consumer = mid.consumer /\ new.idle = mid.idle
      /\ new.over = mid.over /\ new.threw = mid.threw
      /\ new.stream = mid.stream
  BY <1>3, <1>4 DEF KnownRun
<1>6. Hands(run, new, <<>>)
  BY <1>3, <1>5, HandsSame
<1>. QED
  BY <1>5, <1>6 DEF new

LEMMA StartToolDoes ==
  ASSUME NEW n \in Nat, NEW run \in KnownRun(n), run.context # <<>>, NEW k \in Nat
  PROVE  LET new == StartTool(run, k)
         IN  /\ new \in KnownRun(n) /\ Hands(run, new, <<>>)
             /\ new.phase = "tool" /\ new.context = run.context
             /\ new.pending = run.pending /\ new.results = run.results /\ new.more = run.more
<1>. DEFINE evs == <<Event("tool_start", Result(Last(run.context), k))>>
            mid == Push(run, evs)
            new == StartTool(run, k)
<1>1. Last(run.context) \in Known(n) /\ Result(Last(run.context), k) \in Known(n)
  <2>1. Last(run.context) \in Known(n)
    BY FrontLast DEF KnownRun
  <2>. QED
    BY <2>1, KnownMessages
<1>2. evs \in Seq(KnownEvent(n)) /\ FlightOf(evs) = <<>>
  BY <1>1, OneEvent
<1>3. /\ mid \in KnownRun(n) /\ Hands(run, mid, <<>>)
      /\ mid.phase = run.phase /\ mid.context = run.context
      /\ mid.pending = run.pending /\ mid.results = run.results /\ mid.more = run.more
  BY <1>2, PushDoes
<1>4. new = [mid EXCEPT !.phase = "tool"]
  BY DEF StartTool
<1>. HIDE DEF mid, new
<1>5. /\ new \in KnownRun(n) /\ new.phase = "tool" /\ new.context = run.context
      /\ new.pending = run.pending /\ new.results = run.results /\ new.more = run.more
      /\ new.aborted = mid.aborted /\ new.consumer = mid.consumer /\ new.idle = mid.idle
      /\ new.over = mid.over /\ new.threw = mid.threw
      /\ new.stream = mid.stream
  BY <1>3, <1>4 DEF KnownRun
<1>6. Hands(run, new, <<>>)
  BY <1>3, <1>5, HandsSame
<1>. QED
  BY <1>5, <1>6 DEF new

LEMMA FinishToolDoes ==
  ASSUME NEW n \in Nat, NEW run \in KnownRun(n), run.context # <<>>, NEW k \in Nat
  PROVE  LET new == FinishTool(run, k)
             m   == Result(Last(run.context), k)
         IN  /\ m \in Known(n)
             /\ new \in KnownRun(n) /\ Hands(run, new, <<m>>)
             /\ new.phase = run.phase /\ new.context = run.context
             /\ new.pending = run.pending /\ new.results = Append(run.results, m)
             /\ new.more = run.more
<1>. DEFINE m == Result(Last(run.context), k)
            a == Event("tool_end", m)
            b == Event("message_end", m)
            evs == <<a, b>>
            mid == Push(run, evs)
            new == FinishTool(run, k)
<1>1. m \in Known(n) /\ Append(run.results, m) \in Seq(Known(n))
  <2>1. Last(run.context) \in Known(n) /\ run.results \in Seq(Known(n))
    BY FrontLast DEF KnownRun
  <2>2. m \in Known(n)
    BY <2>1, KnownMessages
  <2>. HIDE DEF m
  <2>. QED
    BY <2>1, <2>2
<1>. HIDE DEF m
<1>2. evs \in Seq(KnownEvent(n)) /\ FlightOf(evs) = <<m>>
  <2>1. a \in KnownEvent(n) /\ <<a>> \in Seq(KnownEvent(n)) /\ FlightOf(<<a>>) = <<>>
    BY <1>1, OneEvent
  <2>2. b \in KnownEvent(n) /\ b.type = "message_end" /\ b.message = m
    BY <1>1, OneEvent
  <2>. HIDE DEF a, b
  <2>3. Append(<<a>>, b) = <<a, b>>
    BY TwoThree
  <2>4. <<a, b>> \in Seq(KnownEvent(n))
    BY <2>1, <2>2
  <2>5. FlightOf(Append(<<a>>, b)) = Append(<<>>, m)
    BY <2>1, <2>2, FlightAppend
  <2>6. Append(<<>>, m) = <<m>>
    OBVIOUS
  <2>. QED
    BY <2>3, <2>4, <2>5, <2>6
<1>3. /\ mid \in KnownRun(n) /\ Hands(run, mid, <<m>>)
      /\ mid.phase = run.phase /\ mid.context = run.context
      /\ mid.pending = run.pending /\ mid.results = run.results /\ mid.more = run.more
  BY <1>2, PushDoes
<1>4. new = [mid EXCEPT !.results = Append(run.results, m)]
  BY <1>3 DEF FinishTool, m
<1>. HIDE DEF mid, new
<1>5. /\ new \in KnownRun(n) /\ new.phase = run.phase /\ new.context = run.context
      /\ new.pending = run.pending /\ new.results = Append(run.results, m)
      /\ new.more = run.more
      /\ new.aborted = mid.aborted /\ new.consumer = mid.consumer /\ new.idle = mid.idle
      /\ new.over = mid.over /\ new.threw = mid.threw
      /\ new.stream = mid.stream
  BY <1>1, <1>3, <1>4 DEF KnownRun
<1>6. Hands(run, new, <<m>>)
  BY <1>3, <1>5, HandsSame
<1>. QED
  BY <1>1, <1>5, <1>6 DEF new, m

\* The results of the calls from k on, as SkipTools makes them up.
Skipped(a, k) == [i \in 1 .. a.n + 1 - k |-> Result(a, k + i - 1)]

LEMMA SkippedType ==
  ASSUME NEW n \in Nat, NEW a \in Known(n), NEW k \in Nat, 1 <= k, k <= a.n + 1
  PROVE  /\ Skipped(a, k) \in Seq(Known(n)) /\ Len(Skipped(a, k)) = a.n + 1 - k
         /\ \A i \in 1 .. a.n + 1 - k : Skipped(a, k)[i] = Result(a, k + i - 1)
<1>1. a \in Message /\ a.n \in Nat /\ a.n + 1 - k \in Nat
  <2>1. a \in Message /\ a.n \in Nat
    BY KnownMessages DEF Message
  <2>. QED
    BY <2>1
<1>2. ASSUME NEW i \in 1 .. a.n + 1 - k PROVE Result(a, k + i - 1) \in Known(n)
  <2>1. k + i - 1 \in Nat
    BY <1>1
  <2>. QED
    BY <1>1, <2>1, KnownMessages
<1>. DEFINE j == a.n + 1 - k
<1>3. j \in Nat
  BY <1>1
<1>. HIDE DEF j
<1>4. [i \in 1 .. j |-> Result(a, k + i - 1)] \in Seq(Known(n))
  BY <1>2, <1>3 DEF j
<1>5. Len([i \in 1 .. j |-> Result(a, k + i - 1)]) = j
  BY <1>3
<1>. QED
  BY <1>4, <1>5 DEF Skipped, j

LEMMA SkipToolsDoes ==
  ASSUME NEW n \in Nat, NEW run \in KnownRun(n), run.context # <<>>,
         NEW k \in Nat, 1 <= k, k <= Last(run.context).n + 1
  PROVE  LET new     == SkipTools(run, k)
             skipped == Skipped(Last(run.context), k)
         IN  /\ new \in KnownRun(n) /\ Hands(run, new, skipped)
             /\ new.phase = run.phase /\ new.context = run.context
             /\ new.pending = run.pending /\ new.results = run.results \o skipped
             /\ new.more = run.more
<1>. DEFINE a == Last(run.context)
            sk == Skipped(a, k)
            evs == FlattenSeq(Skips(sk))
            mid == Push(run, evs)
            new == SkipTools(run, k)
<1>1. sk \in Seq(Known(n)) /\ run.results \o sk \in Seq(Known(n))
  <2>1. a \in Known(n) /\ run.results \in Seq(Known(n))
    BY FrontLast DEF KnownRun
  <2>. HIDE DEF a
  <2>2. sk \in Seq(Known(n))
    BY <2>1, SkippedType DEF a
  <2>. QED
    BY <2>1, <2>2
<1>2. evs \in Seq(KnownEvent(n)) /\ FlightOf(evs) = sk
  <2>1. ToolEvents(Known(n)) \subseteq KnownEvent(n)
    BY DEF ToolEvents, KnownEvent
  <2>. HIDE DEF sk
  <2>2. evs \in Seq(ToolEvents(Known(n))) /\ FlightOf(evs) = sk
    BY <1>1, FlightSkips
  <2>. QED
    BY <2>1, <2>2, SeqMonotone
<1>3. /\ mid \in KnownRun(n) /\ Hands(run, mid, sk)
      /\ mid.phase = run.phase /\ mid.context = run.context
      /\ mid.pending = run.pending /\ mid.results = run.results /\ mid.more = run.more
  <2>. HIDE DEF evs
  <2>. QED
    BY <1>2, PushDoes
<1>4. new = [mid EXCEPT !.results = run.results \o sk]
  <2>1. Skips(sk) = [i \in DOMAIN sk |-> <<Event("tool_start", sk[i]), Event("tool_end", sk[i]),
                                           Event("message_end", sk[i])>>]
    <3>1. DOMAIN sk = 1 .. Len(sk)
      BY <1>1
    <3>. HIDE DEF sk
    <3>. QED
      BY <3>1 DEF Skips, SkipOf
  <2>2. new = [mid EXCEPT !.results = mid.results \o sk]
    BY <2>1 DEF SkipTools, Skipped
  <2>. HIDE DEF mid, new, sk
  <2>. QED
    BY <1>3, <2>2
<1>. HIDE DEF mid, new, sk
<1>5. /\ new \in KnownRun(n) /\ new.phase = run.phase /\ new.context = run.context
      /\ new.pending = run.pending /\ new.results = run.results \o sk
      /\ new.more = run.more
      /\ new.aborted = mid.aborted /\ new.consumer = mid.consumer /\ new.idle = mid.idle
      /\ new.over = mid.over /\ new.threw = mid.threw
      /\ new.stream = mid.stream
  BY <1>1, <1>3, <1>4 DEF KnownRun
<1>6. Hands(run, new, sk)
  BY <1>3, <1>5, HandsSame
<1>. QED
  BY <1>5, <1>6 DEF new, sk

LEMMA FinalisedDoes ==
  ASSUME NEW n \in Nat, NEW run \in KnownRun(n), run.context # <<>>, NEW m \in Known(n)
  PROVE  LET new == Finalised(run, m)
         IN  /\ new \in KnownRun(n) /\ Hands(run, new, <<m>>)
             /\ new.phase = run.phase /\ new.context = Append(Complete(run), m)
             /\ new.pending = run.pending /\ new.results = run.results /\ new.more = run.more
             /\ Complete(run) \in Seq(Known(n))
<1>. DEFINE evs == Ends(<<m>>)
            mid == Push(run, evs)
            ctx == Complete(run)
            new == Finalised(run, m)
<1>1. ctx \in Seq(Known(n)) /\ Append(ctx, m) \in Seq(Known(n))
  <2>1. run.context \in Seq(Known(n)) /\ Front(run.context) \in Seq(Known(n))
    BY FrontLast DEF KnownRun
  <2>2. ctx \in Seq(Known(n))
    BY <2>1 DEF Complete
  <2>. HIDE DEF ctx
  <2>. QED
    BY <2>2
<1>2. evs \in Seq(KnownEvent(n)) /\ FlightOf(evs) = <<m>>
  <2>1. <<m>> \in Seq(Known(n))
    OBVIOUS
  <2>. QED
    BY <2>1, EndsKnown
<1>. HIDE DEF evs
<1>3. /\ mid \in KnownRun(n) /\ Hands(run, mid, <<m>>)
      /\ mid.phase = run.phase /\ mid.context = run.context
      /\ mid.pending = run.pending /\ mid.results = run.results /\ mid.more = run.more
  BY <1>2, PushDoes
<1>4. new = [mid EXCEPT !.context = Append(ctx, m)]
  BY DEF Finalised, Complete, evs
<1>. HIDE DEF mid, new, ctx
<1>5. /\ new \in KnownRun(n) /\ new.phase = run.phase /\ new.context = Append(ctx, m)
      /\ new.pending = run.pending /\ new.results = run.results /\ new.more = run.more
      /\ new.aborted = mid.aborted /\ new.consumer = mid.consumer /\ new.idle = mid.idle
      /\ new.over = mid.over /\ new.threw = mid.threw
      /\ new.stream = mid.stream
  BY <1>1, <1>3, <1>4 DEF KnownRun
<1>6. Hands(run, new, <<m>>)
  BY <1>3, <1>5, HandsSame
<1>. QED
  BY <1>1, <1>5, <1>6 DEF new, ctx
-----------------------------------------------------------------------------
(* Contexts whose tool calls are answered.                                 *)

NoUsers(ms) == \A i \in 1 .. Len(ms) : ms[i].role # "user"

LEMMA KnownFields ==
  ASSUME NEW n, NEW m \in Known(n)
  PROVE  m.n \in Nat /\ m.id \in Nat /\ m.role \in {"user", "assistant", "toolResult"}
  BY DEF Known, Message

LEMMA ResultFields ==
  ASSUME NEW a, NEW k
  PROVE  Result(a, k).role = "toolResult" /\ Result(a, k).n = k /\ Result(a, k).id = a.id
  BY DEF Result

LEMMA AnsweredAt ==
  ASSUME NEW n, NEW c \in Seq(Known(n)), Answered(c), NEW i \in 1 .. Len(c)
  PROVE  /\ c[i].n \in Nat
         /\ c[i].role = "assistant" /\ c[i].stop # "error" =>
              \A k \in 1 .. c[i].n : i + k \in 1 .. Len(c) /\ c[i + k] = Result(c[i], k)
         /\ c[i].role = "toolResult" =>
              /\ c[i].n < i /\ i - c[i].n \in 1 .. Len(c)
              /\ c[i - c[i].n].role = "assistant" /\ c[i - c[i].n].id = c[i].id
              /\ c[i - c[i].n].stop # "error"
<1>1. c[i] \in Known(n) /\ i \in DOMAIN c /\ Len(c) \in Nat
  OBVIOUS
<1>2. c[i].n \in Nat
  BY <1>1, KnownFields
<1>3. ASSUME c[i].role = "assistant", c[i].stop # "error", NEW k \in 1 .. c[i].n
      PROVE  i + k \in 1 .. Len(c) /\ c[i + k] = Result(c[i], k)
  <2>1. i + k <= Len(c) /\ c[i + k] = Result(c[i], k)
    BY <1>1, <1>3 DEF Answered
  <2>. QED
    BY <1>1, <1>2, <2>1
<1>4. ASSUME c[i].role = "toolResult"
      PROVE  /\ c[i].n < i /\ i - c[i].n \in 1 .. Len(c)
             /\ c[i - c[i].n].role = "assistant" /\ c[i - c[i].n].id = c[i].id
             /\ c[i - c[i].n].stop # "error"
  <2>1. /\ c[i].n < i
        /\ c[i - c[i].n].role = "assistant" /\ c[i - c[i].n].id = c[i].id
        /\ c[i - c[i].n].stop # "error"
    BY <1>1, <1>4 DEF Answered
  <2>2. i - c[i].n \in 1 .. Len(c)
    BY <1>1, <1>2, <2>1
  <2>. QED
    BY <2>1, <2>2
<1>. QED
  BY <1>2, <1>3, <1>4

(* Users' messages behind them do not matter.                              *)
LEMMA AnsweredUsers ==
  ASSUME NEW n \in Nat, NEW c \in Seq(Known(n)), NEW ms \in Seq(FromUsers(n)), Answered(c)
  PROVE  Answered(c \o ms)
<1>. DEFINE s == c \o ms
<1>1. ms \in Seq(Known(n)) /\ Len(c) \in Nat /\ Len(ms) \in Nat
  BY KnownMessages, SeqMonotone
<1>2. s \in Seq(Known(n)) /\ Len(s) = Len(c) + Len(ms) /\ DOMAIN s = 1 .. Len(s)
  BY <1>1
<1>3. \A i \in 1 .. Len(c) : s[i] = c[i]
  BY <1>1
<1>4. ASSUME NEW i \in 1 .. Len(s), s[i].role # "user" PROVE i \in 1 .. Len(c)
  <2>. SUFFICES ASSUME i > Len(c) PROVE FALSE
    BY <1>1, <1>2
  <2>1. i - Len(c) \in 1 .. Len(ms) /\ s[i] = ms[i - Len(c)]
    BY <1>1, <1>2
  <2>2. ms[i - Len(c)] \in FromUsers(n)
    BY <2>1
  <2>. QED
    BY <1>4, <2>1, <2>2 DEF FromUsers
<1>. HIDE DEF s
<1>5. ASSUME NEW i \in DOMAIN s, NEW k \in 1 .. s[i].n, s[i].role = "assistant",
             s[i].stop # "error"
      PROVE  i + k <= Len(s) /\ s[i + k] = Result(s[i], k)
  <2>1. i \in 1 .. Len(c) /\ s[i] = c[i] /\ i \in DOMAIN c
    BY <1>1, <1>2, <1>3, <1>4, <1>5
  <2>2. i + k \in 1 .. Len(c) /\ c[i + k] = Result(c[i], k)
    BY <1>5, <2>1, AnsweredAt
  <2>. QED
    BY <1>1, <1>2, <1>3, <2>1, <2>2
<1>6. ASSUME NEW i \in DOMAIN s, s[i].role = "toolResult"
      PROVE  /\ s[i].n < i
             /\ s[i - s[i].n].role = "assistant" /\ s[i - s[i].n].id = s[i].id
             /\ s[i - s[i].n].stop # "error"
  <2>1. i \in 1 .. Len(c) /\ s[i] = c[i] /\ i \in DOMAIN c
    BY <1>1, <1>2, <1>3, <1>4, <1>6
  <2>2. /\ c[i].n < i /\ i - c[i].n \in 1 .. Len(c)
        /\ c[i - c[i].n].role = "assistant" /\ c[i - c[i].n].id = c[i].id
        /\ c[i - c[i].n].stop # "error"
    BY <1>6, <2>1, AnsweredAt
  <2>. QED
    BY <1>3, <2>1, <2>2
<1>. QED
  BY <1>5, <1>6 DEF Answered, s

(* Nor does a message with the results of all its calls, or one that       *)
(* failed.                                                                 *)
LEMMA AnsweredTurn ==
  ASSUME NEW n \in Nat, NEW c \in Seq(Known(n)), Answered(c),
         NEW a \in Known(n), a.role = "assistant",
         NEW rs \in Seq(Known(n)), IF a.stop = "error" THEN rs = <<>> ELSE Len(rs) = a.n,
         \A k \in 1 .. Len(rs) : rs[k] = Result(a, k)
  PROVE  Answered(Append(c, a) \o rs)
<1>. DEFINE s == Append(c, a) \o rs
            l == Len(c)
<1>1. l \in Nat /\ Len(rs) \in Nat /\ a.n \in Nat
  BY KnownFields
<1>2. s \in Seq(Known(n)) /\ Len(s) = l + 1 + Len(rs) /\ DOMAIN s = 1 .. Len(s)
  BY <1>1
<1>3. (\A i \in 1 .. l : s[i] = c[i]) /\ s[l + 1] = a
  BY <1>1
<1>4. \A k \in 1 .. Len(rs) : s[l + 1 + k] = Result(a, k)
  BY <1>1
<1>. HIDE DEF s, l
<1>5. ASSUME NEW i \in 1 .. Len(s)
      PROVE  \/ i \in 1 .. l /\ s[i] = c[i] /\ i \in DOMAIN c
             \/ i = l + 1 /\ s[i] = a
             \/ i - (l + 1) \in 1 .. Len(rs) /\ s[i] = Result(a, i - (l + 1))
  <2>1. CASE i <= l
    BY <1>1, <1>3, <2>1 DEF l
  <2>2. CASE i = l + 1
    BY <1>3, <2>2
  <2>3. CASE i > l + 1
    <3>1. i - (l + 1) \in 1 .. Len(rs) /\ l + 1 + (i - (l + 1)) = i
      BY <1>1, <1>2, <2>3
    <3>. QED
      BY <1>4, <3>1
  <2>. QED
    BY <1>1, <1>2, <2>1, <2>2, <2>3
<1>6. ASSUME NEW i \in DOMAIN s, NEW k \in 1 .. s[i].n, s[i].role = "assistant",
             s[i].stop # "error"
      PROVE  i + k <= Len(s) /\ s[i + k] = Result(s[i], k)
  <2>1. CASE i \in 1 .. l /\ s[i] = c[i] /\ i \in DOMAIN c
    <3>1. i + k \in 1 .. l /\ c[i + k] = Result(c[i], k)
      BY <1>6, <2>1, AnsweredAt DEF l
    <3>. QED
      BY <1>1, <1>2, <1>3, <2>1, <3>1
  <2>2. CASE i = l + 1 /\ s[i] = a
    BY <1>1, <1>2, <1>4, <1>6, <2>2
  <2>3. CASE s[i] = Result(a, i - (l + 1))
    BY <1>6, <2>3, ResultFields
  <2>. QED
    BY <1>2, <1>5, <2>1, <2>2, <2>3
<1>7. ASSUME NEW i \in DOMAIN s, s[i].role = "toolResult"
      PROVE  /\ s[i].n < i
             /\ s[i - s[i].n].role = "assistant" /\ s[i - s[i].n].id = s[i].id
             /\ s[i - s[i].n].stop # "error"
  <2>1. CASE i \in 1 .. l /\ s[i] = c[i] /\ i \in DOMAIN c
    <3>1. /\ c[i].n < i /\ i - c[i].n \in 1 .. l
          /\ c[i - c[i].n].role = "assistant" /\ c[i - c[i].n].id = c[i].id
          /\ c[i - c[i].n].stop # "error"
      BY <1>7, <2>1, AnsweredAt DEF l
    <3>. QED
      BY <1>3, <2>1, <3>1
  <2>2. CASE i = l + 1 /\ s[i] = a
    BY <1>7, <2>2
  <2>3. CASE i - (l + 1) \in 1 .. Len(rs) /\ s[i] = Result(a, i - (l + 1))
    <3>1. s[i].n = i - (l + 1) /\ s[i].id = a.id
      BY <2>3, ResultFields
    <3>2. i \in Nat /\ i - s[i].n = l + 1 /\ s[i].n < i
      BY <1>1, <1>2, <2>3, <3>1
    <3>3. a.stop # "error"
      BY <2>3
    <3>. QED
      BY <1>3, <3>1, <3>2, <3>3
  <2>. QED
    BY <1>2, <1>5, <2>1, <2>2, <2>3
<1>. QED
  BY <1>6, <1>7 DEF Answered, s

(* A failed answer at the end can be taken off.                            *)
LEMMA AnsweredFront ==
  ASSUME NEW n \in Nat, NEW c \in Seq(Known(n)), c # <<>>, Answered(c),
         Last(c).role = "assistant"
  PROVE  Answered(Front(c))
<1>. DEFINE s == Front(c)
            l == Len(c)
<1>1. /\ l \in Nat /\ l > 0 /\ s \in Seq(Known(n)) /\ Len(s) = l - 1
      /\ \A i \in 1 .. l - 1 : s[i] = c[i]
  BY FrontLast
<1>2. DOMAIN s = 1 .. l - 1 /\ DOMAIN c = 1 .. l /\ Last(c) = c[l]
  BY <1>1 DEF Last
<1>. HIDE DEF s, l
<1>3. ASSUME NEW i \in DOMAIN s, NEW k \in 1 .. s[i].n, s[i].role = "assistant",
             s[i].stop # "error"
      PROVE  i + k <= Len(s) /\ s[i + k] = Result(s[i], k)
  <2>1. s[i] = c[i] /\ i \in DOMAIN c
    BY <1>1, <1>2
  <2>2. i + k \in 1 .. l /\ c[i + k] = Result(c[i], k)
    BY <1>2, <1>3, <2>1, AnsweredAt DEF l
  <2>3. i + k # l
    BY <1>2, <2>2, ResultFields
  <2>4. i + k \in 1 .. l - 1
    BY <1>1, <2>2, <2>3
  <2>. QED
    BY <1>1, <2>1, <2>2, <2>4
<1>4. ASSUME NEW i \in DOMAIN s, s[i].role = "toolResult"
      PROVE  /\ s[i].n < i
             /\ s[i - s[i].n].role = "assistant" /\ s[i - s[i].n].id = s[i].id
             /\ s[i - s[i].n].stop # "error"
  <2>1. s[i] = c[i] /\ i \in DOMAIN c
    BY <1>1, <1>2
  <2>2. /\ c[i].n \in Nat /\ c[i].n < i /\ i - c[i].n \in 1 .. l
        /\ c[i - c[i].n].role = "assistant" /\ c[i - c[i].n].id = c[i].id
        /\ c[i - c[i].n].stop # "error"
    BY <1>2, <1>4, <2>1, AnsweredAt DEF l
  <2>3. i - c[i].n \in 1 .. l - 1
    BY <1>1, <1>2, <2>2
  <2>. QED
    BY <1>1, <2>1, <2>2, <2>3
<1>. QED
  BY <1>3, <1>4 DEF Answered, s
-----------------------------------------------------------------------------
(* The steps of the loop.                                                  *)

\* The context a model is or was shown, without the message it is working on.
Shown(run) ==
  IF run.phase \in {"streaming"} \cup Calling THEN Front(run.context) ELSE run.context

\* run becomes new: it hands d to the consumer and takes t from a queue, so that
\* the context grows by d and every pending message goes into d.
Advances(run, new, d, t, n) ==
  /\ RunOK(new, n) /\ d \in Seq(Known(n)) /\ Hands(run, new, d)
  /\ Complete(new) \o new.results = (Complete(run) \o run.results) \o d
  /\ Answered(Shown(run)) => Answered(Shown(new))
  /\ \/ /\ \E x \in Seq(Known(n)) : NoUsers(x) /\ d = x \o run.pending
        /\ new.pending = <<>> /\ t = <<>>
     \/ /\ NoUsers(d) /\ run.pending = <<>>
        /\ new.pending = t

LEMMA CallModelAdvances ==
  ASSUME NEW n \in Nat, NEW run, RunOK(run, n), run.phase \in {"polled", "followUpPolled"}
  PROVE  Advances(run, CallModel(run), run.pending, <<>>, n)
<1>. DEFINE new == CallModel(run)
<1>1. /\ run \in KnownRun(n) /\ run.context # <<>> /\ run.results = <<>>
      /\ run.context \in Seq(Known(n)) /\ run.pending \in Seq(FromUsers(n))
  BY DEF RunOK, Calling, KnownRun
<1>2. /\ new \in KnownRun(n) /\ Hands(run, new, run.pending)
      /\ new.phase = "model" /\ new.context = run.context \o run.pending
      /\ new.pending = <<>> /\ new.results = <<>>
  BY <1>1, CallModelDoes
<1>3. run.pending \in Seq(Known(n))
  BY <1>1, KnownMessages, SeqMonotone
<1>. HIDE DEF new
<1>4. RunOK(new, n)
  <2>1. new.context # <<>>
    BY <1>1, <1>2, <1>3
  <2>. QED
    BY <1>2, <2>1 DEF RunOK, Calling
<1>5. Complete(run) = run.context /\ Complete(new) = new.context
  BY <1>2 DEF Complete
<1>6. Shown(run) = run.context /\ Shown(new) = new.context
  BY <1>2 DEF Shown, Calling
<1>7. Complete(new) \o new.results = (Complete(run) \o run.results) \o run.pending
  <2>1. /\ run.context \o <<>> = run.context
        /\ (run.context \o run.pending) \o <<>> = run.context \o run.pending
    BY <1>1, <1>3
  <2>. QED
    BY <1>1, <1>2, <1>5, <2>1
<1>8. Answered(Shown(run)) => Answered(Shown(new))
  BY <1>1, <1>2, <1>6, AnsweredUsers
<1>9. \E x \in Seq(Known(n)) : NoUsers(x) /\ run.pending = x \o run.pending
  <2>1. <<>> \in Seq(Known(n)) /\ NoUsers(<<>>) /\ run.pending = <<>> \o run.pending
    BY <1>3 DEF NoUsers
  <2>. QED
    BY <2>1
<1>. QED
  BY <1>2, <1>3, <1>4, <1>7, <1>8, <1>9 DEF Advances, new

(* A run that keeps its context and takes t advances.                      *)
LEMMA PollAdvances ==
  ASSUME NEW n \in Nat, NEW run, RunOK(run, n), run.phase \notin Calling, run.phase # "streaming",
         run.pending = <<>>, NEW t \in Seq(FromUsers(n)),
         NEW new, new = [[run EXCEPT !.phase = "followUpPolled"] EXCEPT !.pending = t]
  PROVE  Advances(run, new, <<>>, t, n)
<1>1. /\ run \in KnownRun(n) /\ run.context # <<>> /\ run.results = <<>>
      /\ run.context \in Seq(Known(n))
  BY DEF RunOK, KnownRun
<1>2. /\ new \in KnownRun(n) /\ new.phase = "followUpPolled" /\ new.context = run.context
      /\ new.pending = t /\ new.results = run.results
      /\ new.aborted = run.aborted /\ new.consumer = run.consumer /\ new.idle = run.idle
      /\ new.over = run.over /\ new.threw = run.threw
      /\ new.stream = run.stream
  BY <1>1 DEF KnownRun
<1>3. RunOK(new, n)
  BY <1>1, <1>2 DEF RunOK, Calling
<1>4. Hands(run, new, <<>>)
  BY <1>1, <1>2, HandsNothing
<1>5. Complete(run) = run.context /\ Complete(new) = run.context
  BY <1>2 DEF Complete
<1>6. Shown(run) = run.context /\ Shown(new) = run.context
  BY <1>2 DEF Shown, Calling
<1>7. /\ (run.context \o <<>>) \o <<>> = run.context /\ run.context \o <<>> = run.context
      /\ <<>> \in Seq(Known(n)) /\ NoUsers(<<>>)
  BY <1>1 DEF NoUsers
<1>. QED
  BY <1>1, <1>2, <1>3, <1>4, <1>5, <1>6, <1>7 DEF Advances

LEMMA EndRunAdvances ==
  ASSUME NEW n \in Nat, NEW run, RunOK(run, n), run.phase = "followUpPolled",
         run.pending = <<>>
  PROVE  Advances(run, EndRun(run), <<>>, <<>>, n)
<1>. DEFINE new == EndRun(run)
<1>1. /\ run \in KnownRun(n) /\ run.context # <<>> /\ run.results = <<>>
      /\ run.context \in Seq(Known(n))
  BY DEF RunOK, Calling, KnownRun
<1>2. /\ new \in KnownRun(n) /\ Hands(run, new, <<>>)
      /\ new.phase = "ended" /\ new.context = run.context
      /\ new.pending = <<>> /\ new.results = <<>>
  BY <1>1, EndRunDoes
<1>. HIDE DEF new
<1>3. RunOK(new, n)
  BY <1>1, <1>2 DEF RunOK, Calling
<1>4. Complete(run) = run.context /\ Complete(new) = run.context
  BY <1>2 DEF Complete
<1>5. Shown(run) = run.context /\ Shown(new) = run.context
  BY <1>2 DEF Shown, Calling
<1>6. /\ (run.context \o <<>>) \o <<>> = run.context /\ run.context \o <<>> = run.context
      /\ <<>> \in Seq(Known(n)) /\ NoUsers(<<>>)
  BY <1>1 DEF NoUsers
<1>. QED
  BY <1>1, <1>2, <1>3, <1>4, <1>5, <1>6 DEF Advances, new

\* The run ModelStarts makes of run.
Starting(run, partial) ==
  [Push(run, <<Event("message_start", partial)>>) EXCEPT
     !.context = Append(@, partial), !.phase = "streaming"]

LEMMA StartingAdvances ==
  ASSUME NEW n \in Nat, NEW run, RunOK(run, n), run.phase = "model",
         NEW i \in Nat
  PROVE  Advances(run, Starting(run, Assistant(i, 0, "partial")), <<>>, <<>>, n)
<1>. DEFINE a == Assistant(i, 0, "partial")
            evs == <<Event("message_start", a)>>
            mid == Push(run, evs)
            new == Starting(run, a)
<1>1. /\ run \in KnownRun(n) /\ run.context # <<>> /\ run.results = <<>> /\ run.pending = <<>>
      /\ run.context \in Seq(Known(n))
  BY DEF RunOK, Calling, KnownRun
<1>2. a \in Known(n)
  BY KnownMessages
<1>. HIDE DEF a
<1>3. evs \in Seq(KnownEvent(n)) /\ FlightOf(evs) = <<>>
  BY <1>2, OneEvent
<1>4. /\ mid \in KnownRun(n) /\ Hands(run, mid, <<>>)
      /\ mid.phase = run.phase /\ mid.context = run.context
      /\ mid.pending = run.pending /\ mid.results = run.results /\ mid.more = run.more
  BY <1>1, <1>3, PushDoes
<1>5. new = [mid EXCEPT !.context = Append(run.context, a), !.phase = "streaming"]
  BY <1>4 DEF Starting
<1>6. Append(run.context, a) \in Seq(Known(n))
  BY <1>1, <1>2
<1>. HIDE DEF mid, new
<1>7. /\ new \in KnownRun(n) /\ new.phase = "streaming" /\ new.context = Append(run.context, a)
      /\ new.pending = <<>> /\ new.results = <<>>
      /\ new.aborted = mid.aborted /\ new.consumer = mid.consumer /\ new.idle = mid.idle
      /\ new.over = mid.over /\ new.threw = mid.threw
      /\ new.stream = mid.stream
  BY <1>1, <1>4, <1>5, <1>6 DEF KnownRun
<1>8. Hands(run, new, <<>>)
  BY <1>4, <1>7, HandsSame
<1>9. new.context # <<>> /\ Front(new.context) = run.context
  BY <1>1, <1>2, <1>7, AppendFront
<1>10. RunOK(new, n)
  BY <1>7, <1>9 DEF RunOK, Calling
<1>11. Complete(run) = run.context /\ Complete(new) = run.context
  BY <1>7, <1>9 DEF Complete
<1>12. Shown(run) = run.context /\ Shown(new) = run.context
  BY <1>7, <1>9 DEF Shown, Calling
<1>13. /\ (run.context \o <<>>) \o <<>> = run.context /\ run.context \o <<>> = run.context
       /\ <<>> \in Seq(Known(n)) /\ NoUsers(<<>>)
  BY <1>1 DEF NoUsers
<1>. QED
  BY <1>1, <1>7, <1>8, <1>10, <1>11, <1>12, <1>13 DEF Advances, new, a

\* What is known of a run that waits for the model.
LEMMA Waiting ==
  ASSUME NEW n \in Nat, NEW run, RunOK(run, n), run.phase \in {"model", "streaming"}
  PROVE  /\ run \in KnownRun(n) /\ run.context # <<>> /\ run.results = <<>> /\ run.pending = <<>>
         /\ Complete(run) \in Seq(Known(n)) /\ Shown(run) = Complete(run)
         /\ MessageId(run) \in Nat \/ run.phase = "model"
<1>1. /\ run \in KnownRun(n) /\ run.context # <<>> /\ run.results = <<>> /\ run.pending = <<>>
      /\ run.context \in Seq(Known(n))
  BY DEF RunOK, Calling, KnownRun
<1>2. Front(run.context) \in Seq(Known(n)) /\ Last(run.context) \in Known(n)
  BY <1>1, FrontLast
<1>3. Last(run.context).id \in Nat
  BY <1>2, KnownFields
<1>4. Shown(run) = Complete(run)
  BY DEF Shown, Complete, Calling
<1>. QED
  BY <1>1, <1>2, <1>3, <1>4 DEF Complete, MessageId

(* An answer without calls, or one that failed, ends the turn.             *)
LEMMA TurnEnds ==
  ASSUME NEW n \in Nat, NEW run, RunOK(run, n), run.phase \in {"model", "streaming"},
         NEW a \in Known(n), a.role = "assistant", a.n = 0 \/ a.stop = "error", NEW done,
         done \in KnownRun(n), Hands(run, done, <<a>>), done.phase = run.phase,
         done.context = Append(Complete(run), a), done.results = <<>>
  PROVE  LET mid == EndTurn(done)
         IN  /\ mid \in KnownRun(n) /\ Hands(run, mid, <<a>>) /\ mid.phase = run.phase
             /\ mid.context = Append(Complete(run), a) /\ mid.context # <<>>
             /\ mid.pending = done.pending /\ mid.results = <<>>
             /\ mid.context \in Seq(Known(n))
             /\ mid.context \o <<>> = (Complete(run) \o <<>>) \o <<a>>
             /\ Answered(Shown(run)) => Answered(mid.context)
             /\ <<a>> \in Seq(Known(n)) /\ NoUsers(<<a>>)
<1>. DEFINE mid == EndTurn(done)
            c == Complete(run)
<1>1. /\ run \in KnownRun(n) /\ run.context # <<>> /\ run.results = <<>> /\ run.pending = <<>>
      /\ c \in Seq(Known(n)) /\ Shown(run) = c
  BY Waiting
<1>. HIDE DEF c
<1>2. /\ Append(c, a) \in Seq(Known(n)) /\ Append(c, a) # <<>> /\ Append(c, a) \o <<>> = Append(c, a)
      /\ c \o <<>> = c /\ c \o <<a>> = Append(c, a) /\ <<a>> \in Seq(Known(n))
      /\ Len(<<a>>) = 1
  <2>1. Append(c, a) \in Seq(Known(n)) /\ Append(c, a) # <<>>
    BY <1>1
  <2>2. Append(c, a) \o <<>> = Append(c, a) /\ c \o <<>> = c /\ c \o <<a>> = Append(c, a)
    BY <1>1, <2>1, ConcatEmpty, ConcatAppend
  <2>. QED
    BY <2>1, <2>2
<1>3. done.context # <<>> /\ done.context = Append(c, a)
  BY <1>2 DEF c
<1>4. /\ mid \in KnownRun(n) /\ Hands(done, mid, <<>>)
      /\ mid.phase = done.phase /\ mid.context = Append(c, a)
      /\ mid.pending = done.pending /\ mid.results = <<>>
  <2>1. /\ mid \in KnownRun(n) /\ Hands(done, mid, <<>>)
        /\ mid.phase = done.phase /\ mid.context = done.context \o done.results
        /\ mid.pending = done.pending /\ mid.results = <<>>
    BY <1>3, EndTurnDoes
  <2>. QED
    BY <1>2, <1>3, <2>1
<1>5. Hands(run, mid, <<a>>)
  <2>1. <<>> \in Seq(Known(n)) /\ <<a>> \o <<>> = <<a>>
    BY <1>2
  <2>2. Hands(run, mid, <<a>> \o <<>>)
    BY <1>1, <1>2, <1>4, <2>1, HandsBoth
  <2>. QED
    BY <2>1, <2>2
<1>6. Answered(c) => Answered(Append(c, a))
  <2>. SUFFICES ASSUME Answered(c) PROVE Answered(Append(c, a))
    OBVIOUS
  <2>1. <<>> \in Seq(Known(n)) /\ Len(<<>>) = 0 /\ \A k \in 1 .. Len(<<>>) : <<>>[k] = Result(a, k)
    OBVIOUS
  <2>2. Answered(Append(c, a) \o <<>>)
    BY <1>1, <2>1, AnsweredTurn
  <2>. QED
    BY <1>2, <2>2
<1>7. NoUsers(<<a>>)
  BY DEF NoUsers
<1>. HIDE DEF mid
<1>. QED
  BY <1>1, <1>2, <1>4, <1>5, <1>6, <1>7 DEF mid, c

LEMMA FailureAdvances ==
  ASSUME NEW n \in Nat, NEW run, RunOK(run, n), run.phase \in {"model", "streaming"},
         NEW i \in Nat, NEW calls \in Nat
  PROVE  LET a == Assistant(i, calls, "error")
         IN  Advances(run, EndRun(EndTurn(Finalised(run, a))), <<a>>, <<>>, n)
<1>. DEFINE a == Assistant(i, calls, "error")
            done == Finalised(run, a)
            mid == EndTurn(done)
            new == EndRun(mid)
<1>1. a \in Known(n) /\ a.role = "assistant" /\ a.stop = "error"
  BY KnownMessages DEF Assistant
<1>. HIDE DEF a
<1>2. /\ run \in KnownRun(n) /\ run.context # <<>> /\ run.results = <<>> /\ run.pending = <<>>
      /\ Complete(run) \in Seq(Known(n)) /\ Shown(run) = Complete(run)
  BY Waiting
<1>3. /\ done \in KnownRun(n) /\ Hands(run, done, <<a>>)
      /\ done.phase = run.phase /\ done.context = Append(Complete(run), a)
      /\ done.pending = <<>> /\ done.results = <<>>
  BY <1>1, <1>2, FinalisedDoes
<1>. HIDE DEF done
<1>4. /\ mid \in KnownRun(n) /\ Hands(run, mid, <<a>>) /\ mid.phase = run.phase
      /\ mid.context = Append(Complete(run), a) /\ mid.context # <<>>
      /\ mid.pending = done.pending /\ mid.results = <<>>
      /\ mid.context \in Seq(Known(n))
      /\ mid.context \o <<>> = (Complete(run) \o <<>>) \o <<a>>
      /\ Answered(Shown(run)) => Answered(mid.context)
      /\ <<a>> \in Seq(Known(n)) /\ NoUsers(<<a>>)
  BY <1>1, <1>3, TurnEnds
<1>. HIDE DEF mid
<1>5. /\ new \in KnownRun(n) /\ Hands(mid, new, <<>>)
      /\ new.phase = "ended" /\ new.context = mid.context
      /\ new.pending = <<>> /\ new.results = <<>>
  BY <1>3, <1>4, EndRunDoes
<1>. HIDE DEF new
<1>6. Hands(run, new, <<a>>)
  <2>1. <<>> \in Seq(Known(n)) /\ <<a>> \o <<>> = <<a>>
    BY <1>4
  <2>2. Hands(run, new, <<a>> \o <<>>)
    BY <1>2, <1>4, <1>5, <2>1, HandsBoth
  <2>. QED
    BY <2>1, <2>2
<1>7. RunOK(new, n)
  BY <1>4, <1>5 DEF RunOK, Calling
<1>8. Complete(new) = mid.context /\ Shown(new) = mid.context
  BY <1>5 DEF Complete, Shown, Calling
<1>. QED
  BY <1>2, <1>4, <1>5, <1>6, <1>7, <1>8 DEF Advances, new, mid, done, a

LEMMA FinalAnswerAdvances ==
  ASSUME NEW n \in Nat, NEW run, RunOK(run, n), run.phase \in {"model", "streaming"},
         NEW i \in Nat, NEW t \in Seq(FromUsers(n)), NEW more \in BOOLEAN
  PROVE  LET a   == Assistant(i, 0, "stop")
             mid == EndTurn([Finalised(run, a) EXCEPT !.more = more])
         IN  Advances(run, [[mid EXCEPT !.phase = "polled"] EXCEPT !.pending = t], <<a>>, t, n)
<1>. DEFINE a == Assistant(i, 0, "stop")
            fin == Finalised(run, a)
            done == [fin EXCEPT !.more = more]
            mid == EndTurn(done)
            new == [[mid EXCEPT !.phase = "polled"] EXCEPT !.pending = t]
<1>1. a \in Known(n) /\ a.role = "assistant" /\ a.n = 0
  BY KnownMessages DEF Assistant
<1>. HIDE DEF a
<1>2. /\ run \in KnownRun(n) /\ run.context # <<>> /\ run.results = <<>> /\ run.pending = <<>>
      /\ Complete(run) \in Seq(Known(n)) /\ Shown(run) = Complete(run)
  BY Waiting
<1>3. /\ fin \in KnownRun(n) /\ Hands(run, fin, <<a>>)
      /\ fin.phase = run.phase /\ fin.context = Append(Complete(run), a)
      /\ fin.pending = <<>> /\ fin.results = <<>>
  BY <1>1, <1>2, FinalisedDoes
<1>. HIDE DEF fin
<1>4. /\ done \in KnownRun(n) /\ done.phase = run.phase
      /\ done.context = Append(Complete(run), a) /\ done.pending = <<>> /\ done.results = <<>>
      /\ done.aborted = fin.aborted /\ done.consumer = fin.consumer /\ done.idle = fin.idle
      /\ done.over = fin.over /\ done.threw = fin.threw
      /\ done.stream = fin.stream
  BY <1>3 DEF KnownRun
<1>5. Hands(run, done, <<a>>)
  BY <1>3, <1>4, HandsSame
<1>. HIDE DEF done
<1>6. /\ mid \in KnownRun(n) /\ Hands(run, mid, <<a>>) /\ mid.phase = run.phase
      /\ mid.context = Append(Complete(run), a) /\ mid.context # <<>>
      /\ mid.pending = done.pending /\ mid.results = <<>>
      /\ mid.context \in Seq(Known(n))
      /\ mid.context \o <<>> = (Complete(run) \o <<>>) \o <<a>>
      /\ Answered(Shown(run)) => Answered(mid.context)
      /\ <<a>> \in Seq(Known(n)) /\ NoUsers(<<a>>)
  BY <1>1, <1>4, <1>5, TurnEnds
<1>. HIDE DEF mid
<1>7. /\ new \in KnownRun(n) /\ new.phase = "polled" /\ new.context = mid.context
      /\ new.pending = t /\ new.results = <<>>
      /\ new.aborted = mid.aborted /\ new.consumer = mid.consumer /\ new.idle = mid.idle
      /\ new.over = mid.over /\ new.threw = mid.threw
      /\ new.stream = mid.stream
  BY <1>6 DEF KnownRun
<1>. HIDE DEF new
<1>10. Hands(run, new, <<a>>)
  BY <1>6, <1>7, HandsSame
<1>8. RunOK(new, n)
  BY <1>6, <1>7 DEF RunOK, Calling
<1>9. Complete(new) = mid.context /\ Shown(new) = mid.context
  BY <1>7 DEF Complete, Shown, Calling
<1>. QED
  BY <1>2, <1>6, <1>7, <1>8, <1>9, <1>10 DEF Advances, new, mid, done, fin, a

LEMMA CallsAdvance ==
  ASSUME NEW n \in Nat, NEW run, RunOK(run, n), run.phase \in {"model", "streaming"},
         NEW i \in Nat, NEW k \in Nat, k > 0, NEW more \in BOOLEAN
  PROVE  LET a == Assistant(i, k, "stop")
         IN  Advances(run, StartTool([Finalised(run, a) EXCEPT !.more = more], 1), <<a>>, <<>>, n)
<1>. DEFINE a == Assistant(i, k, "stop")
            fin == Finalised(run, a)
            done == [fin EXCEPT !.more = more]
            new == StartTool(done, 1)
            c == Complete(run)
<1>1. a \in Known(n) /\ a.role = "assistant" /\ a.n = k /\ a.stop # "error"
  BY KnownMessages DEF Assistant
<1>. HIDE DEF a
<1>2. /\ run \in KnownRun(n) /\ run.context # <<>> /\ run.results = <<>> /\ run.pending = <<>>
      /\ c \in Seq(Known(n)) /\ Shown(run) = c
  BY Waiting
<1>3. /\ fin \in KnownRun(n) /\ Hands(run, fin, <<a>>)
      /\ fin.phase = run.phase /\ fin.context = Append(c, a)
      /\ fin.pending = <<>> /\ fin.results = <<>>
  BY <1>1, <1>2, FinalisedDoes
<1>. HIDE DEF fin, c
<1>4. /\ done \in KnownRun(n)
      /\ done.context = Append(c, a) /\ done.pending = <<>> /\ done.results = <<>>
      /\ done.aborted = fin.aborted /\ done.consumer = fin.consumer /\ done.idle = fin.idle
      /\ done.over = fin.over /\ done.threw = fin.threw
      /\ done.stream = fin.stream
  BY <1>3 DEF KnownRun
<1>5. Hands(run, done, <<a>>)
  BY <1>3, <1>4, HandsSame
<1>. HIDE DEF done
<1>6. /\ Append(c, a) \in Seq(Known(n)) /\ Append(c, a) # <<>> /\ Last(Append(c, a)) = a
      /\ Front(Append(c, a)) = c
  BY <1>1, <1>2, AppendFront
<1>7. /\ new \in KnownRun(n) /\ Hands(done, new, <<>>)
      /\ new.phase = "tool" /\ new.context = Append(c, a)
      /\ new.pending = <<>> /\ new.results = <<>>
  BY <1>4, <1>6, StartToolDoes
<1>. HIDE DEF new
<1>8. Hands(run, new, <<a>>) /\ <<a>> \in Seq(Known(n))
  <2>1. <<>> \in Seq(Known(n)) /\ <<a>> \in Seq(Known(n)) /\ <<a>> \o <<>> = <<a>>
    BY <1>1
  <2>2. Hands(run, new, <<a>> \o <<>>)
    BY <1>2, <1>5, <1>7, <2>1, HandsBoth
  <2>. QED
    BY <2>1, <2>2
<1>9. RunOK(new, n)
  <2>1. Len(<<>>) = 0
    OBVIOUS
  <2>. QED
    BY <1>1, <1>6, <1>7, <2>1 DEF RunOK, Calling
<1>10. Complete(new) = Append(c, a) /\ Shown(new) = c
  BY <1>6, <1>7 DEF Complete, Shown, Calling
<1>11. Append(c, a) \o <<>> = (c \o <<>>) \o <<a>>
  BY <1>1, <1>2, <1>6, ConcatEmpty, ConcatAppend
<1>12. NoUsers(<<a>>)
  BY <1>1 DEF NoUsers
<1>. QED
  BY <1>2, <1>7, <1>8, <1>9, <1>10, <1>11, <1>12 DEF Advances, new, done, fin, a, c

\* What is known of a run between two of its calls.
LEMMA InCalls ==
  ASSUME NEW n \in Nat, NEW run, RunOK(run, n), run.phase \in Calling
  PROVE  LET a == Last(run.context)
         IN  /\ run \in KnownRun(n) /\ run.context # <<>> /\ run.context \in Seq(Known(n))
             /\ a \in Known(n) /\ a.role = "assistant" /\ a.stop # "error" /\ a.n \in Nat
             /\ run.results \in Seq(Known(n)) /\ Len(run.results) \in Nat
             /\ Len(run.results) <= a.n
             /\ \A k \in 1 .. Len(run.results) : run.results[k] = Result(a, k)
             /\ Complete(run) = run.context /\ Shown(run) = Front(run.context)
             /\ Front(run.context) \in Seq(Known(n))
             /\ run.context = Append(Front(run.context), a)
             /\ NoUsers(run.results)
<1>. DEFINE a == Last(run.context)
<1>1. /\ run \in KnownRun(n) /\ run.context # <<>> /\ run.context \in Seq(Known(n))
      /\ run.results \in Seq(Known(n)) /\ Len(run.results) \in Nat
      /\ a.role = "assistant" /\ a.stop # "error" /\ Len(run.results) <= a.n
      /\ \A k \in 1 .. Len(run.results) : run.results[k] = Result(a, k)
  BY DEF RunOK, KnownRun
<1>2. /\ a \in Known(n) /\ Front(run.context) \in Seq(Known(n))
      /\ run.context = Append(Front(run.context), a)
  BY <1>1, FrontLast
<1>3. a.n \in Nat
  BY <1>2, KnownFields
<1>4. Complete(run) = run.context /\ Shown(run) = Front(run.context)
  BY DEF Complete, Shown, Calling
<1>5. NoUsers(run.results)
  BY <1>1, ResultFields DEF NoUsers
<1>. QED
  BY <1>1, <1>2, <1>3, <1>4, <1>5

LEMMA ResultAdvances ==
  ASSUME NEW n \in Nat, NEW run, RunOK(run, n), run.phase = "tool",
         NEW t \in Seq(FromUsers(n))
  PROVE  LET k   == Len(run.results) + 1
             mid == FinishTool(run, k)
         IN  Advances(run, [[mid EXCEPT !.phase = "toolPolled"] EXCEPT !.pending = t],
                      <<Result(Last(run.context), k)>>, t, n)
<1>. DEFINE k == Len(run.results) + 1
            a == Last(run.context)
            m == Result(a, k)
            mid == FinishTool(run, k)
            new == [[mid EXCEPT !.phase = "toolPolled"] EXCEPT !.pending = t]
<1>1. run.phase \in Calling /\ Len(run.results) < a.n /\ run.pending = <<>>
  BY DEF RunOK, Calling
<1>2. /\ run \in KnownRun(n) /\ run.context # <<>> /\ run.context \in Seq(Known(n))
      /\ a \in Known(n) /\ a.role = "assistant" /\ a.stop # "error" /\ a.n \in Nat
      /\ run.results \in Seq(Known(n)) /\ Len(run.results) \in Nat
      /\ Complete(run) = run.context /\ Shown(run) = Front(run.context)
      /\ \A j \in 1 .. Len(run.results) : run.results[j] = Result(a, j)
  BY <1>1, InCalls
<1>3. k \in Nat /\ k <= a.n
  BY <1>1, <1>2
<1>4. /\ m \in Known(n) /\ mid \in KnownRun(n) /\ Hands(run, mid, <<m>>)
      /\ mid.context = run.context /\ mid.results = Append(run.results, m)
  BY <1>2, <1>3, FinishToolDoes
<1>. HIDE DEF mid, m
<1>5. /\ new \in KnownRun(n) /\ new.phase = "toolPolled" /\ new.context = run.context
      /\ new.pending = t /\ new.results = Append(run.results, m)
      /\ new.aborted = mid.aborted /\ new.consumer = mid.consumer /\ new.idle = mid.idle
      /\ new.over = mid.over /\ new.threw = mid.threw
      /\ new.stream = mid.stream
  BY <1>4 DEF KnownRun
<1>. HIDE DEF new
<1>6. Hands(run, new, <<m>>) /\ <<m>> \in Seq(Known(n))
  BY <1>4, <1>5, HandsSame
<1>7. /\ Len(new.results) = k
      /\ \A j \in 1 .. k : new.results[j] = Result(a, j)
  <2>1. Len(Append(run.results, m)) = k
    BY <1>2, <1>4
  <2>2. \A j \in 1 .. Len(run.results) : Append(run.results, m)[j] = run.results[j]
    BY <1>2, <1>4
  <2>3. Append(run.results, m)[k] = m
    BY <1>2, <1>4
  <2>4. \A j \in 1 .. k : j \in 1 .. Len(run.results) \/ j = k
    BY <1>2
  <2>5. m = Result(a, k)
    BY DEF m
  <2>. HIDE DEF k
  <2>. QED
    BY <1>2, <1>5, <2>1, <2>2, <2>3, <2>4, <2>5
<1>8. RunOK(new, n)
  <2>1. Last(new.context) = a
    BY <1>5
  <2>. HIDE DEF a, k
  <2>. QED
    BY <1>2, <1>3, <1>5, <1>7, <2>1 DEF RunOK, Calling
<1>9. Complete(new) = run.context /\ Shown(new) = Front(run.context)
  BY <1>5 DEF Complete, Shown, Calling
<1>10. run.context \o Append(run.results, m) = (run.context \o run.results) \o <<m>>
  <2>1. \A x, y \in Seq(Known(n)), e \in Known(n) : x \o Append(y, e) = (x \o y) \o <<e>>
    BY ConcatLonger
  <2>. QED
    BY <1>2, <1>4, <2>1
<1>11. NoUsers(<<m>>)
  BY ResultFields DEF NoUsers, m
<1>. QED
  BY <1>1, <1>2, <1>5, <1>6, <1>8, <1>9, <1>10, <1>11 DEF Advances, new, mid, m

LEMMA NextCallAdvances ==
  ASSUME NEW n \in Nat, NEW run, RunOK(run, n), run.phase = "toolPolled",
         run.pending = <<>>, Len(run.results) + 1 <= Last(run.context).n
  PROVE  Advances(run, StartTool(run, Len(run.results) + 1), <<>>, <<>>, n)
<1>. DEFINE new == StartTool(run, Len(run.results) + 1)
            a == Last(run.context)
<1>1. /\ run \in KnownRun(n) /\ run.context # <<>> /\ run.context \in Seq(Known(n))
      /\ a.role = "assistant" /\ a.stop # "error" /\ a.n \in Nat
      /\ run.results \in Seq(Known(n)) /\ Len(run.results) \in Nat
      /\ \A k \in 1 .. Len(run.results) : run.results[k] = Result(a, k)
      /\ Complete(run) = run.context /\ Shown(run) = Front(run.context)
  BY InCalls DEF Calling
<1>2. /\ new \in KnownRun(n) /\ Hands(run, new, <<>>)
      /\ new.phase = "tool" /\ new.context = run.context
      /\ new.pending = <<>> /\ new.results = run.results
  <2>1. Len(run.results) + 1 \in Nat
    BY <1>1
  <2>. QED
    BY <1>1, <2>1, StartToolDoes
<1>. HIDE DEF new
<1>3. RunOK(new, n)
  <2>1. Last(new.context) = a /\ Len(run.results) < a.n /\ Len(run.results) <= a.n
    BY <1>1, <1>2
  <2>. HIDE DEF a
  <2>. QED
    BY <1>1, <1>2, <2>1 DEF RunOK, Calling
<1>4. Complete(new) = run.context /\ Shown(new) = Front(run.context)
  BY <1>2 DEF Complete, Shown, Calling
<1>5. /\ (run.context \o run.results) \o <<>> = run.context \o run.results
      /\ <<>> \in Seq(Known(n)) /\ NoUsers(<<>>)
  <2>1. run.context \o run.results \in Seq(Known(n))
    BY <1>1
  <2>2. <<>> \in Seq(Known(n)) /\ NoUsers(<<>>)
    BY DEF NoUsers
  <2>. QED
    BY <2>1, <2>2, ConcatEmpty
<1>. QED
  BY <1>1, <1>2, <1>3, <1>4, <1>5 DEF Advances, new

LEMMA TurnOverAdvances ==
  ASSUME NEW n \in Nat, NEW run, RunOK(run, n), run.phase = "toolPolled",
         run.pending = <<>>, Len(run.results) + 1 > Last(run.context).n,
         NEW t \in Seq(FromUsers(n))
  PROVE  Advances(run, [[EndTurn(run) EXCEPT !.phase = "polled"] EXCEPT !.pending = t],
                  <<>>, t, n)
<1>. DEFINE a == Last(run.context)
            rs == run.results
            mid == EndTurn(run)
            new == [[mid EXCEPT !.phase = "polled"] EXCEPT !.pending = t]
<1>1. /\ run \in KnownRun(n) /\ run.context # <<>> /\ run.context \in Seq(Known(n))
      /\ a \in Known(n) /\ a.role = "assistant" /\ a.stop # "error" /\ a.n \in Nat
      /\ rs \in Seq(Known(n)) /\ Len(rs) \in Nat /\ Len(rs) <= a.n
      /\ \A k \in 1 .. Len(rs) : rs[k] = Result(a, k)
      /\ Complete(run) = run.context /\ Shown(run) = Front(run.context)
      /\ Front(run.context) \in Seq(Known(n))
      /\ run.context = Append(Front(run.context), a)
  BY InCalls DEF Calling
<1>2. Len(rs) = a.n
  BY <1>1
<1>3. /\ mid \in KnownRun(n) /\ Hands(run, mid, <<>>)
      /\ mid.context = run.context \o rs /\ mid.pending = <<>> /\ mid.results = <<>>
  BY <1>1, EndTurnDoes
<1>. HIDE DEF mid
<1>4. /\ new \in KnownRun(n) /\ new.phase = "polled" /\ new.context = run.context \o rs
      /\ new.pending = t /\ new.results = <<>>
      /\ new.aborted = mid.aborted /\ new.consumer = mid.consumer /\ new.idle = mid.idle
      /\ new.over = mid.over /\ new.threw = mid.threw
      /\ new.stream = mid.stream
  BY <1>3 DEF KnownRun
<1>. HIDE DEF new
<1>5. Hands(run, new, <<>>)
  BY <1>3, <1>4, HandsSame
<1>6. run.context \o rs \in Seq(Known(n)) /\ run.context \o rs # <<>>
  BY <1>1
<1>7. RunOK(new, n)
  BY <1>4, <1>6 DEF RunOK, Calling
<1>8. Complete(new) = run.context \o rs /\ Shown(new) = run.context \o rs
  BY <1>4 DEF Complete, Shown, Calling
<1>9. (run.context \o rs) \o <<>> = run.context \o rs /\ <<>> \in Seq(Known(n)) /\ NoUsers(<<>>)
  <2>1. <<>> \in Seq(Known(n)) /\ NoUsers(<<>>)
    BY DEF NoUsers
  <2>. QED
    BY <1>6, <2>1, ConcatEmpty
<1>10. Answered(Front(run.context)) => Answered(run.context \o rs)
  <2>. DEFINE c == Front(run.context)
  <2>. HIDE DEF a, c, rs
  <2>1. ASSUME Answered(c) PROVE Answered(Append(c, a) \o rs)
    BY <1>1, <1>2, <2>1, AnsweredTurn DEF c
  <2>. QED
    BY <1>1, <2>1 DEF c
<1>. QED
  BY <1>1, <1>4, <1>5, <1>7, <1>8, <1>9, <1>10 DEF Advances, new, mid

LEMMA SteeredAdvances ==
  ASSUME NEW n \in Nat, NEW run, RunOK(run, n), run.phase = "toolPolled"
  PROVE  \E x \in Seq(Known(n)) :
           Advances(run, CallModel(EndTurn(SkipTools(run, Len(run.results) + 1))),
                    x \o run.pending, <<>>, n)
<1>. DEFINE a == Last(run.context)
            rs == run.results
            k == Len(rs) + 1
            x == Skipped(a, k)
            all == rs \o x
            skip == SkipTools(run, k)
            mid == EndTurn(skip)
            new == CallModel(mid)
            p == run.pending
<1>1. /\ run \in KnownRun(n) /\ run.context # <<>> /\ run.context \in Seq(Known(n))
      /\ a \in Known(n) /\ a.role = "assistant" /\ a.stop # "error" /\ a.n \in Nat
      /\ rs \in Seq(Known(n)) /\ Len(rs) \in Nat /\ Len(rs) <= a.n
      /\ \A j \in 1 .. Len(rs) : rs[j] = Result(a, j)
      /\ Complete(run) = run.context /\ Shown(run) = Front(run.context)
      /\ Front(run.context) \in Seq(Known(n))
      /\ run.context = Append(Front(run.context), a)
  BY InCalls DEF Calling
<1>2. k \in Nat /\ 1 <= k /\ k <= a.n + 1
  BY <1>1
<1>3. /\ x \in Seq(Known(n)) /\ Len(x) = a.n - Len(rs)
      /\ \A i \in 1 .. Len(x) : x[i] = Result(a, Len(rs) + i)
  <2>. HIDE DEF a, rs
  <2>1. /\ x \in Seq(Known(n)) /\ Len(x) = a.n + 1 - k
        /\ \A i \in 1 .. a.n + 1 - k : x[i] = Result(a, k + i - 1)
    <3>. HIDE DEF k
    <3>. QED
      BY <1>1, <1>2, SkippedType
  <2>2. \A i \in Nat : k + i - 1 = Len(rs) + i
    BY <1>1
  <2>3. a.n + 1 - k = a.n - Len(rs) /\ a.n - Len(rs) \in Nat
    BY <1>1
  <2>. HIDE DEF k, x
  <2>. QED
    BY <2>1, <2>2, <2>3
<1>4. /\ skip \in KnownRun(n) /\ Hands(run, skip, x)
      /\ skip.context = run.context /\ skip.pending = p /\ skip.results = all
  <2>. HIDE DEF k
  <2>. QED
    BY <1>1, <1>2, SkipToolsDoes
<1>. HIDE DEF a, rs, k, x, skip
<1>5. /\ all \in Seq(Known(n)) /\ Len(all) = a.n
      /\ \A i \in 1 .. Len(all) : all[i] = Result(a, i)
  <2>0. \A b, c \in Seq(Known(n)) :
          /\ b \o c \in Seq(Known(n)) /\ Len(b \o c) = Len(b) + Len(c) /\ Len(c) \in Nat
          /\ \A i \in 1 .. Len(b) : (b \o c)[i] = b[i]
          /\ \A i \in 1 .. Len(c) : (b \o c)[Len(b) + i] = c[i]
    BY ConcatFacts
  <2>b. rs \in Seq(Known(n)) /\ x \in Seq(Known(n))
    BY <1>1, <1>3
  <2>1. all \in Seq(Known(n)) /\ Len(all) = Len(rs) + Len(x) /\ Len(x) \in Nat
    BY <2>0, <2>b
  <2>2. \A i \in 1 .. Len(rs) : all[i] = rs[i]
    BY <2>0, <2>b
  <2>3. \A i \in 1 .. Len(x) : all[Len(rs) + i] = x[i]
    BY <2>0, <2>b
  <2>. HIDE DEF all
  <2>4. ASSUME NEW i \in 1 .. Len(all) PROVE all[i] = Result(a, i)
    <3>1. CASE i <= Len(rs)
      BY <1>1, <2>2, <3>1
    <3>2. CASE i > Len(rs)
      <4>1. i - Len(rs) \in 1 .. Len(x) /\ Len(rs) + (i - Len(rs)) = i
        BY <1>1, <2>1, <3>2
      <4>. QED
        BY <1>3, <2>3, <4>1
    <3>. QED
      BY <1>1, <2>1, <3>1, <3>2
  <2>. QED
    BY <1>1, <1>3, <2>1, <2>4
<1>6. /\ mid \in KnownRun(n) /\ Hands(skip, mid, <<>>)
      /\ mid.context = run.context \o all /\ mid.pending = p /\ mid.results = <<>>
  BY <1>1, <1>4, EndTurnDoes
<1>. HIDE DEF mid, all
<1>7. /\ new \in KnownRun(n) /\ Hands(mid, new, p)
      /\ new.phase = "model" /\ new.context = (run.context \o all) \o p
      /\ new.pending = <<>> /\ new.results = <<>>
  BY <1>6, CallModelDoes
<1>. HIDE DEF new
<1>8. p \in Seq(FromUsers(n)) /\ p \in Seq(Known(n)) /\ <<>> \in Seq(Known(n))
  <2>1. p \in Seq(FromUsers(n))
    BY <1>1 DEF KnownRun
  <2>. HIDE DEF p
  <2>. QED
    BY <2>1, KnownMessages, SeqMonotone
<1>. HIDE DEF p
<1>9. Hands(run, new, x \o p) /\ x \o p \in Seq(Known(n))
  <2>0. x \o <<>> = x
    BY <1>3
  <2>e. \A d, e \in Seq(Known(n)) : \A b, c :
          Hands(run, b, d) /\ Hands(b, c, e) => Hands(run, c, d \o e)
    BY <1>1, HandsBoth
  <2>1. Hands(run, mid, x)
    <3>1. Hands(run, mid, x \o <<>>)
      BY <1>3, <1>4, <1>6, <1>8, <2>e
    <3>. QED
      BY <2>0, <3>1
  <2>2. Hands(run, new, x \o p)
    BY <1>3, <1>7, <1>8, <2>1, <2>e
  <2>. QED
    BY <1>3, <1>8, <2>2
<1>10. /\ run.context \o all \in Seq(Known(n)) /\ (run.context \o all) \o p # <<>>
       /\ (run.context \o all) \o p \in Seq(Known(n))
  <2>1. run.context \o all \in Seq(Known(n)) /\ run.context \o all # <<>>
    BY <1>1, <1>5
  <2>. QED
    BY <1>8, <2>1
<1>11. RunOK(new, n)
  BY <1>7, <1>10 DEF RunOK, Calling
<1>12. Complete(new) = (run.context \o all) \o p /\ Shown(new) = (run.context \o all) \o p
  BY <1>7 DEF Complete, Shown, Calling
<1>13. ((run.context \o all) \o p) \o <<>> = (run.context \o rs) \o (x \o p)
  <2>1. ((run.context \o all) \o p) \o <<>> = (run.context \o all) \o p
    BY <1>10, ConcatEmpty
  <2>a. \A b, c, d \in Seq(Known(n)) : (b \o c) \o d = b \o (c \o d)
    BY ConcatAssoc
  <2>2. run.context \o all = (run.context \o rs) \o x
    BY <1>1, <1>3, <2>a DEF all
  <2>3. run.context \o rs \in Seq(Known(n))
    BY <1>1
  <2>4. ((run.context \o rs) \o x) \o p = (run.context \o rs) \o (x \o p)
    BY <1>3, <1>8, <2>3, <2>a
  <2>. QED
    BY <2>1, <2>2, <2>4
<1>14. Answered(Front(run.context)) => Answered((run.context \o all) \o p)
  <2>. DEFINE c == Front(run.context)
  <2>1. c \in Seq(Known(n)) /\ run.context = Append(c, a)
    BY <1>1
  <2>. HIDE DEF c
  <2>2. ASSUME Answered(c) PROVE Answered(Append(c, a) \o all)
    BY <1>1, <1>5, <2>1, <2>2, AnsweredTurn
  <2>3. ASSUME Answered(run.context \o all) PROVE Answered((run.context \o all) \o p)
    BY <1>8, <1>10, <2>3, AnsweredUsers
  <2>. QED
    BY <2>1, <2>2, <2>3 DEF c
<1>15. NoUsers(x)
  BY <1>3, ResultFields DEF NoUsers
<1>16. Advances(run, new, x \o p, <<>>, n)
  BY <1>1, <1>3, <1>7, <1>9, <1>11, <1>12, <1>13, <1>14, <1>15 DEF Advances, p, rs
<1>. QED
  BY <1>3, <1>16 DEF new, mid, skip, p, k, rs
-----------------------------------------------------------------------------
(* The type invariant, with what is known of the runs.                     *)

TypeInv ==
  /\ messages \in Seq(Known(sent)) /\ streamMessage \in Message
  /\ isStreaming \in BOOLEAN /\ error \in BOOLEAN
  /\ pendingToolCalls \subseteq Message
  /\ steeringQueue \in Seq(Via(sent, steered)) /\ followUpQueue \in Seq(Via(sent, followed))
  /\ {abortController, runningPrompt} \subseteq Active \cup {NoRun}
  /\ runs \in Seq(KnownRun(sent)) /\ \A r \in Started : RunOK(runs[r], sent)
  /\ sent \in 0 .. MaxMessages /\ turns \in Nat /\ toolTurns \in 0 .. MaxToolTurns
  /\ dropped \subseteq 1 .. sent

\* What a step of a loop does to the queues when it takes t.
Takes(t) ==
  \/ t = <<>> /\ UNCHANGED queues
  \/ /\ t \in Seq(Via(sent, steered)) /\ steeringQueue' \in Seq(Via(sent, steered))
     /\ steeringQueue = t \o steeringQueue' /\ UNCHANGED followUpQueue
  \/ /\ t \in Seq(Via(sent, followed)) /\ followUpQueue' \in Seq(Via(sent, followed))
     /\ followUpQueue = t \o followUpQueue' /\ UNCHANGED steeringQueue

\* A step of the loop of r, as far as the agent can tell.
LoopStep(r, new, d, t) ==
  /\ runs' = [runs EXCEPT ![r] = new] /\ Advances(runs[r], new, d, t, sent)
  /\ runs[r].phase # "ended"
  /\ Takes(t)

LEMMA SentKnown ==
  ASSUME TypeInv
  PROVE  sent \in Nat /\ MaxMessages \in Nat /\ turns \in Nat
<1>1. MaxMessages \in Nat
  BY AgentAssumption
<1>. QED
  BY <1>1 DEF TypeInv

\* What a poll of the steering queue finds.
LEMMA SteeringPoll ==
  ASSUME TypeInv, NEW r, NEW run, PollSteering(r, run)
  PROVE  LET t == Taken(steeringQueue, SteeringMode)
         IN  /\ t \in Seq(FromUsers(sent)) /\ Takes(t)
             /\ runs' = [runs EXCEPT ![r] = [run EXCEPT !.pending = t]]
<1>. DEFINE q == steeringQueue
            t == Taken(q, SteeringMode)
            l == Left(q, SteeringMode)
<1>1. q \in Seq(Via(sent, steered)) /\ sent \in Nat
  BY SentKnown DEF TypeInv
<1>2. t \in Seq(Via(sent, steered)) /\ l \in Seq(Via(sent, steered)) /\ q = t \o l
  BY <1>1, TakenLeft
<1>3. Via(sent, steered) \subseteq FromUsers(sent)
  BY <1>1, KnownMessages
<1>4. /\ steeringQueue' = l /\ UNCHANGED followUpQueue
      /\ runs' = [runs EXCEPT ![r] = [run EXCEPT !.pending = t]]
  BY DEF PollSteering
<1>. HIDE DEF t, l
<1>5. t \in Seq(FromUsers(sent))
  BY <1>2, <1>3, SeqMonotone
<1>6. Takes(t)
  BY <1>2, <1>4 DEF Takes
<1>. QED
  BY <1>4, <1>5, <1>6 DEF t

LEMMA FollowUpPoll ==
  ASSUME TypeInv, NEW r, NEW run, PollFollowUp(r, run)
  PROVE  LET t == Taken(followUpQueue, FollowUpMode)
         IN  /\ t \in Seq(FromUsers(sent)) /\ Takes(t)
             /\ runs' = [runs EXCEPT ![r] = [run EXCEPT !.pending = t]]
<1>. DEFINE q == followUpQueue
            t == Taken(q, FollowUpMode)
            l == Left(q, FollowUpMode)
<1>1. q \in Seq(Via(sent, followed)) /\ sent \in Nat
  BY SentKnown DEF TypeInv
<1>2. t \in Seq(Via(sent, followed)) /\ l \in Seq(Via(sent, followed)) /\ q = t \o l
  BY <1>1, TakenLeft
<1>3. Via(sent, followed) \subseteq FromUsers(sent)
  BY <1>1, KnownMessages
<1>4. /\ followUpQueue' = l /\ UNCHANGED steeringQueue
      /\ runs' = [runs EXCEPT ![r] = [run EXCEPT !.pending = t]]
  BY DEF PollFollowUp
<1>. HIDE DEF t, l
<1>5. t \in Seq(FromUsers(sent))
  BY <1>2, <1>3, SeqMonotone
<1>6. Takes(t)
  BY <1>2, <1>4 DEF Takes
<1>. QED
  BY <1>4, <1>5, <1>6 DEF t

(* Every step of a loop is one.                                            *)
LEMMA ProduceAdvances ==
  ASSUME TypeInv, NEW r \in Started, Produce(r)
  PROVE  \E new, d, t : LoopStep(r, new, d, t)
<1>. DEFINE run == runs[r]
            n == sent
<1>1. n \in Nat /\ RunOK(run, n) /\ turns \in Nat
  BY SentKnown DEF TypeInv
<1>2. UNCHANGED queues => Takes(<<>>)
  BY DEF Takes
<1>3. ASSUME AfterPoll(r) PROVE \E new, d, t : LoopStep(r, new, d, t)
  <2>1. CASE UNCHANGED queues /\ runs' = [runs EXCEPT ![r] = CallModel(run)]
    <3>1. Advances(run, CallModel(run), run.pending, <<>>, n)
      BY <1>1, <1>3, CallModelAdvances DEF AfterPoll
    <3>. QED
      BY <1>2, <1>3, <2>1, <3>1 DEF LoopStep, AfterPoll
  <2>2. CASE run.pending = <<>> /\ PollFollowUp(r, [run EXCEPT !.phase = "followUpPolled"])
    <3>. DEFINE t == Taken(followUpQueue, FollowUpMode)
                new == [[run EXCEPT !.phase = "followUpPolled"] EXCEPT !.pending = t]
    <3>1. t \in Seq(FromUsers(n)) /\ Takes(t) /\ runs' = [runs EXCEPT ![r] = new]
      BY <2>2, FollowUpPoll
    <3>2. run.phase = "polled"
      BY <1>3 DEF AfterPoll
    <3>. HIDE DEF t
    <3>3. Advances(run, new, <<>>, t, n)
      BY <1>1, <2>2, <3>1, <3>2, PollAdvances DEF Calling
    <3>. QED
      BY <3>1, <3>2, <3>3 DEF LoopStep
  <2>. QED
    BY <1>3, <2>1, <2>2 DEF AfterPoll
<1>4. ASSUME AfterFollowUpPoll(r) PROVE \E new, d, t : LoopStep(r, new, d, t)
  <2>0. run.phase = "followUpPolled" /\ UNCHANGED queues
    BY <1>4 DEF AfterFollowUpPoll, queues
  <2>1. CASE run.pending # <<>>
    <3>1. Advances(run, CallModel(run), run.pending, <<>>, n)
      BY <1>1, <2>0, CallModelAdvances
    <3>. QED
      BY <1>2, <1>4, <2>0, <2>1, <3>1 DEF LoopStep, AfterFollowUpPoll
  <2>2. CASE run.pending = <<>>
    <3>1. Advances(run, EndRun(run), <<>>, <<>>, n)
      BY <1>1, <2>0, <2>2, EndRunAdvances
    <3>. QED
      BY <1>2, <1>4, <2>0, <2>2, <3>1 DEF LoopStep, AfterFollowUpPoll
  <2>. QED
    BY <2>1, <2>2
<1>5. ASSUME ModelStarts(r) PROVE \E new, d, t : LoopStep(r, new, d, t)
  <2>. DEFINE a == Assistant(turns + 1, 0, "partial")
  <2>1. run.phase = "model" /\ UNCHANGED queues /\ runs' = [runs EXCEPT ![r] = Starting(run, a)]
    BY <1>5 DEF ModelStarts, Starting, queues
  <2>2. Advances(run, Starting(run, a), <<>>, <<>>, n)
    BY <1>1, <2>1, StartingAdvances
  <2>. QED
    BY <1>2, <2>1, <2>2 DEF LoopStep
<1>6. ASSUME ModelFails(r) PROVE \E new, d, t : LoopStep(r, new, d, t)
  <2>0. PICK k \in 0 .. MaxCalls :
          LET done == Finalised(run, Assistant(MessageId(run), k, "error"))
          IN  /\ run.phase \in {"model", "streaming"} /\ UNCHANGED queues
              /\ runs' = [runs EXCEPT ![r] = EndRun(EndTurn(done))]
    BY <1>6 DEF ModelFails
  <2>. DEFINE a == Assistant(MessageId(run), k, "error")
              new == EndRun(EndTurn(Finalised(run, a)))
  <2>1. /\ run.phase \in {"model", "streaming"} /\ UNCHANGED queues
        /\ runs' = [runs EXCEPT ![r] = new]
    BY <2>0
  <2>2. MessageId(run) \in Nat /\ k \in Nat
    BY <1>1, <2>1, Waiting, AgentAssumption DEF MessageId
  <2>3. Advances(run, new, <<a>>, <<>>, n)
    BY <1>1, <2>1, <2>2, FailureAdvances
  <2>. QED
    BY <1>2, <2>1, <2>3 DEF LoopStep
<1>7. ASSUME ModelAnswers(r) PROVE \E new, d, t : LoopStep(r, new, d, t)
  <2>1. PICK k \in 0 .. MaxCalls :
          LET done == [Finalised(run, Assistant(MessageId(run), k, "stop")) EXCEPT !.more = k > 0]
          IN  /\ run.phase \in {"model", "streaming"}
              /\ \/ k > 0 /\ runs' = [runs EXCEPT ![r] = StartTool(done, 1)] /\ UNCHANGED queues
                 \/ k = 0 /\ PollSteering(r, [EndTurn(done) EXCEPT !.phase = "polled"])
    BY <1>7 DEF ModelAnswers
  <2>2. MessageId(run) \in Nat
    BY <1>1, <2>1, Waiting DEF MessageId
  <2>. DEFINE more == k > 0
              done == [Finalised(run, Assistant(MessageId(run), k, "stop")) EXCEPT !.more = more]
  <2>3. CASE k > 0 /\ runs' = [runs EXCEPT ![r] = StartTool(done, 1)] /\ UNCHANGED queues
    <3>1. k \in Nat /\ more \in BOOLEAN /\ k > 0
      BY <2>3, AgentAssumption
    <3>. HIDE DEF more
    <3>2. Advances(run, StartTool(done, 1), <<Assistant(MessageId(run), k, "stop")>>, <<>>, n)
      BY <1>1, <2>1, <2>2, <3>1, CallsAdvance
    <3>. QED
      BY <1>2, <2>1, <2>3, <3>2 DEF LoopStep
  <2>4. CASE k = 0 /\ PollSteering(r, [EndTurn(done) EXCEPT !.phase = "polled"])
    <3>. DEFINE t == Taken(steeringQueue, SteeringMode)
                mid == EndTurn([Finalised(run, Assistant(MessageId(run), 0, "stop")) EXCEPT
                                  !.more = more])
                new == [[mid EXCEPT !.phase = "polled"] EXCEPT !.pending = t]
    <3>1. t \in Seq(FromUsers(n)) /\ Takes(t) /\ runs' = [runs EXCEPT ![r] = new]
      BY <2>4, SteeringPoll
    <3>2. more \in BOOLEAN
      OBVIOUS
    <3>. HIDE DEF t, more
    <3>3. Advances(run, new, <<Assistant(MessageId(run), 0, "stop")>>, t, n)
      BY <1>1, <2>1, <2>2, <3>1, <3>2, FinalAnswerAdvances
    <3>. QED
      BY <2>1, <3>1, <3>3 DEF LoopStep
  <2>. QED
    BY <2>1, <2>3, <2>4
<1>8. ASSUME ToolFinishes(r) PROVE \E new, d, t : LoopStep(r, new, d, t)
  <2>. DEFINE t == Taken(steeringQueue, SteeringMode)
              k == Len(run.results) + 1
              new == [[FinishTool(run, k) EXCEPT !.phase = "toolPolled"] EXCEPT !.pending = t]
  <2>1. run.phase = "tool" /\ PollSteering(r, [FinishTool(run, k) EXCEPT !.phase = "toolPolled"])
    BY <1>8 DEF ToolFinishes
  <2>2. t \in Seq(FromUsers(n)) /\ Takes(t) /\ runs' = [runs EXCEPT ![r] = new]
    BY <2>1, SteeringPoll
  <2>. HIDE DEF t
  <2>3. Advances(run, new, <<Result(Last(run.context), k)>>, t, n)
    BY <1>1, <2>1, <2>2, ResultAdvances
  <2>. QED
    BY <2>1, <2>2, <2>3 DEF LoopStep
<1>9. ASSUME AfterToolPoll(r) PROVE \E new, d, t : LoopStep(r, new, d, t)
  <2>. DEFINE k == Len(run.results) + 1
  <2>1. run.phase = "toolPolled"
    BY <1>9 DEF AfterToolPoll
  <2>2. CASE /\ runs' = [runs EXCEPT ![r] = CallModel(EndTurn(SkipTools(run, k)))]
             /\ UNCHANGED queues
    <3>1. \E x \in Seq(Known(n)) : Advances(run, CallModel(EndTurn(SkipTools(run, k))),
                                            x \o run.pending, <<>>, n)
      BY <1>1, <2>1, SteeredAdvances
    <3>. QED
      BY <1>2, <2>1, <2>2, <3>1 DEF LoopStep
  <2>3. CASE /\ run.pending = <<>> /\ k <= Last(run.context).n
             /\ runs' = [runs EXCEPT ![r] = StartTool(run, k)] /\ UNCHANGED queues
    <3>1. Advances(run, StartTool(run, k), <<>>, <<>>, n)
      BY <1>1, <2>1, <2>3, NextCallAdvances
    <3>. QED
      BY <1>2, <2>1, <2>3, <3>1 DEF LoopStep
  <2>4. CASE /\ run.pending = <<>> /\ k > Last(run.context).n
             /\ PollSteering(r, [EndTurn(run) EXCEPT !.phase = "polled"])
    <3>. DEFINE t == Taken(steeringQueue, SteeringMode)
                new == [[EndTurn(run) EXCEPT !.phase = "polled"] EXCEPT !.pending = t]
    <3>1. t \in Seq(FromUsers(n)) /\ Takes(t) /\ runs' = [runs EXCEPT ![r] = new]
      BY <2>4, SteeringPoll
    <3>. HIDE DEF t
    <3>2. Advances(run, new, <<>>, t, n)
      BY <1>1, <2>1, <2>4, <3>1, TurnOverAdvances
    <3>. QED
      BY <2>1, <3>1, <3>2 DEF LoopStep
  <2>. QED
    BY <1>9, <2>2, <2>3, <2>4 DEF AfterToolPoll
<1>. QED
  BY <1>3, <1>4, <1>5, <1>6, <1>7, <1>8, <1>9 DEF Produce
-----------------------------------------------------------------------------
LEMMA Replaced ==
  ASSUME NEW T, NEW s \in Seq(T), NEW r \in 1 .. Len(s), NEW x
  PROVE  LET s2 == [s EXCEPT ![r] = x]
         IN  /\ Len(s2) = Len(s) /\ s2[r] = x /\ \A q \in 1 .. Len(s) : q # r => s2[q] = s[q]
             /\ x \in T => s2 \in Seq(T)
<1>1. Len(s) \in Nat /\ DOMAIN s = 1 .. Len(s) /\ \A q \in 1 .. Len(s) : s[q] \in T
  OBVIOUS
<1>. DEFINE s2 == [s EXCEPT ![r] = x]
            l == Len(s)
            U == T \cup {x}
<1>2. s2 \in [1 .. l -> U] /\ DOMAIN s2 = 1 .. l
  BY <1>1
<1>3. s2 \in Seq(U) /\ Len(s2) = l
  <2>. HIDE DEF s2, U, l
  <2>1. l \in Nat
    BY <1>1 DEF l
  <2>. QED
    BY <1>2, <2>1
<1>4. s2[r] = x /\ \A q \in 1 .. l : q # r => s2[q] = s[q]
  BY <1>1
<1>5. x \in T => s2 \in Seq(T)
  <2>1. x \in T => U = T
    OBVIOUS
  <2>. QED
    BY <1>3, <2>1
<1>. QED
  BY <1>3, <1>4, <1>5

\* What Produce leaves alone.
LEMMA ProduceKeeps ==
  ASSUME TypeInv, NEW r, Produce(r)
  PROVE  /\ UNCHANGED <<state, ownership, sent, dropped>>
         /\ turns' \in Nat /\ toolTurns' \in 0 .. MaxToolTurns
<1>1. turns \in Nat /\ toolTurns \in 0 .. MaxToolTurns /\ MaxToolTurns \in Nat
  BY AgentAssumption DEF TypeInv
<1>2. CASE AfterPoll(r) \/ AfterFollowUpPoll(r) \/ ToolFinishes(r) \/ AfterToolPoll(r)
  BY <1>1, <1>2 DEF AfterPoll, AfterFollowUpPoll, ToolFinishes, AfterToolPoll, counters
<1>3. CASE ModelStarts(r)
  BY <1>1, <1>3 DEF ModelStarts
<1>4. CASE ModelFails(r)
  <2>1. PICK k \in 0 .. MaxCalls :
          /\ k > 0 => toolTurns < MaxToolTurns
          /\ turns' = IF runs[r].phase = "model" THEN turns + 1 ELSE turns
          /\ toolTurns' = IF k > 0 THEN toolTurns + 1 ELSE toolTurns
          /\ UNCHANGED <<state, queues, ownership, sent, dropped>>
    BY <1>4 DEF ModelFails
  <2>. QED
    BY <1>1, <2>1
<1>5. CASE ModelAnswers(r)
  <2>1. PICK k \in 0 .. MaxCalls :
          /\ k > 0 => toolTurns < MaxToolTurns
          /\ turns' = IF runs[r].phase = "model" THEN turns + 1 ELSE turns
          /\ toolTurns' = IF k > 0 THEN toolTurns + 1 ELSE toolTurns
          /\ UNCHANGED <<state, ownership, sent, dropped>>
    BY <1>5 DEF ModelAnswers
  <2>. QED
    BY <1>1, <2>1
<1>. QED
  BY <1>2, <1>3, <1>4, <1>5 DEF Produce

\* A step that replaces a run by one with the same consumer.
LEMMA SameActive ==
  ASSUME NEW T, runs \in Seq(T), NEW r \in Started, NEW new,
         runs' = [runs EXCEPT ![r] = new], new.consumer = runs[r].consumer
  PROVE  /\ Started' = Started /\ Active' = Active
         /\ runs'[r] = new /\ \A q \in Started : q # r => runs'[q] = runs[q]
<1>1. /\ Len(runs') = Len(runs) /\ runs'[r] = new
      /\ \A q \in 1 .. Len(runs) : q # r => runs'[q] = runs[q]
  BY Replaced DEF Started
<1>. QED
  BY <1>1 DEF Started, Active

LEMMA TypeLoop ==
  ASSUME TypeInv, NEW r \in Started, Produce(r)
  PROVE  TypeInv'
<1>1. PICK new, d, t : LoopStep(r, new, d, t)
  BY ProduceAdvances
<1>2. /\ UNCHANGED <<state, ownership, sent, dropped>>
      /\ turns' \in Nat /\ toolTurns' \in 0 .. MaxToolTurns
  BY ProduceKeeps
<1>3. /\ RunOK(new, sent) /\ new.consumer = runs[r].consumer /\ new \in KnownRun(sent)
      /\ runs' = [runs EXCEPT ![r] = new]
  BY <1>1 DEF LoopStep, Advances, Hands, RunOK
<1>4. /\ Started' = Started /\ Active' = Active
      /\ runs'[r] = new /\ \A q \in Started : q # r => runs'[q] = runs[q]
  BY <1>3, SameActive DEF TypeInv
<1>5. runs' \in Seq(KnownRun(sent))
  BY <1>3, Replaced DEF TypeInv, Started
<1>6. \A q \in Started : RunOK(runs'[q], sent)
  BY <1>3, <1>4 DEF TypeInv
<1>7. /\ steeringQueue' \in Seq(Via(sent, steered)) /\ followUpQueue' \in Seq(Via(sent, followed))
  BY <1>1 DEF LoopStep, Takes, TypeInv, queues
<1>. QED
  BY <1>2, <1>4, <1>5, <1>6, <1>7 DEF TypeInv, state, ownership

\* The switch of _runLoop.
LEMMA ApplyType ==
  ASSUME TypeInv, NEW ev \in KnownEvent(sent), Apply(ev)
  PROVE  /\ messages' \in Seq(Known(sent)) /\ streamMessage' \in Message
         /\ isStreaming' \in BOOLEAN /\ error' \in BOOLEAN
         /\ pendingToolCalls' \subseteq Message
<1>1. /\ messages \in Seq(Known(sent)) /\ streamMessage \in Message
      /\ isStreaming \in BOOLEAN /\ error \in BOOLEAN
      /\ pendingToolCalls \subseteq Message
  BY DEF TypeInv
<1>2. ev.message \in Known(sent) /\ ev.message \in Message /\ NoMessage \in Message
  BY DEF KnownEvent, Known, NoMessage, User, Message, prompted
<1>3. messages' \in Seq(Known(sent))
  BY <1>1, <1>2 DEF Apply
<1>4. streamMessage' \in Message
  BY <1>1, <1>2 DEF Apply
<1>5. pendingToolCalls' \subseteq Message
  BY <1>1, <1>2 DEF Apply
<1>6. isStreaming' \in BOOLEAN /\ error' \in BOOLEAN
  BY <1>1 DEF Apply
<1>. QED
  BY <1>3, <1>4, <1>5, <1>6

\* The run whose first event was taken.
LEMMA TakenEvent ==
  ASSUME NEW n \in Nat, NEW run, RunOK(run, n), run.stream # <<>>,
         NEW new, new = [run EXCEPT !.stream = Tail(run.stream)]
  PROVE  /\ RunOK(new, n) /\ new.consumer = run.consumer /\ new.stream = Tail(run.stream)
         /\ new.phase = run.phase /\ new.pending = run.pending /\ new.context = run.context
         /\ new.results = run.results
         /\ Head(run.stream) \in KnownEvent(n)
         /\ run.stream = <<Head(run.stream)>> \o Tail(run.stream)
         /\ run.stream \in Seq(KnownEvent(n)) /\ Tail(run.stream) \in Seq(KnownEvent(n))
<1>1. run \in KnownRun(n) /\ run.stream \in Seq(KnownEvent(n))
  BY DEF RunOK, KnownRun
<1>2. /\ Head(run.stream) \in KnownEvent(n) /\ Tail(run.stream) \in Seq(KnownEvent(n))
      /\ run.stream = <<Head(run.stream)>> \o Tail(run.stream)
  BY <1>1, HeadTail
<1>3. /\ new \in KnownRun(n) /\ new.consumer = run.consumer /\ new.stream = Tail(run.stream)
      /\ new.phase = run.phase /\ new.pending = run.pending /\ new.context = run.context
      /\ new.results = run.results
  BY <1>1, <1>2 DEF KnownRun
<1>4. RunOK(new, n)
  BY <1>3 DEF RunOK
<1>. QED
  BY <1>1, <1>2, <1>3, <1>4

LEMMA TypeConsume ==
  ASSUME TypeInv, NEW r \in Started, Consume(r)
  PROVE  TypeInv'
<1>. DEFINE run == runs[r]
            new == [run EXCEPT !.stream = Tail(run.stream)]
            ev == Head(run.stream)
<1>1. /\ run.stream # <<>> /\ Apply(ev) /\ runs' = [runs EXCEPT ![r] = new]
      /\ UNCHANGED <<queues, ownership, counters>>
  BY DEF Consume
<1>2. sent \in Nat /\ RunOK(run, sent)
  BY SentKnown DEF TypeInv
<1>3. RunOK(new, sent) /\ new.consumer = run.consumer /\ ev \in KnownEvent(sent)
  <2>1. new = [run EXCEPT !.stream = Tail(run.stream)]
    OBVIOUS
  <2>. HIDE DEF run, new
  <2>. QED
    BY <1>1, <1>2, <2>1, TakenEvent
<1>. HIDE DEF new, ev
<1>4. /\ messages' \in Seq(Known(sent)) /\ streamMessage' \in Message
      /\ isStreaming' \in BOOLEAN /\ error' \in BOOLEAN
      /\ pendingToolCalls' \subseteq Message
  BY <1>1, <1>3, ApplyType
<1>5. /\ Started' = Started /\ Active' = Active
      /\ runs'[r] = new /\ \A q \in Started : q # r => runs'[q] = runs[q]
  BY <1>1, <1>3, SameActive DEF TypeInv
<1>6. runs' \in Seq(KnownRun(sent))
  BY <1>1, <1>3, Replaced DEF TypeInv, Started, RunOK
<1>7. \A q \in Started : RunOK(runs'[q], sent)
  BY <1>3, <1>5 DEF TypeInv
<1>. QED
  BY <1>1, <1>4, <1>5, <1>6, <1>7 DEF TypeInv, queues, ownership, counters

\* The runs after the finally block.
LEMMA LeaveDoes ==
  ASSUME TypeInv, NEW r \in Started, NEW throws \in BOOLEAN, Leave(r, throws)
  PROVE  /\ runs' \in Seq(KnownRun(sent)) /\ Started' = Started
         /\ Active' = Active \ {r}
         /\ \A q \in Started :
              /\ RunOK(runs'[q], sent) /\ runs'[q].phase = runs[q].phase
              /\ runs'[q].context = runs[q].context /\ runs'[q].pending = runs[q].pending
              /\ runs'[q].results = runs[q].results
              /\ runs'[q].consumer = IF q = r THEN "gone" ELSE runs[q].consumer
              /\ runs'[q].stream = IF q = r THEN <<>> ELSE runs[q].stream
              /\ runs'[q].over = runs[q].over
              /\ runs'[q].threw = IF q = r THEN throws ELSE runs[q].threw
<1>1. sent \in Nat /\ runs \in Seq(KnownRun(sent)) /\ Len(runs) \in Nat
  BY SentKnown DEF TypeInv
<1>. DEFINE New(q) == [runs[q] EXCEPT !.consumer = IF q = r THEN "gone" ELSE @,
                                      !.stream = IF q = r THEN <<>> ELSE @,
                                      !.threw = IF q = r THEN throws ELSE @,
                                      !.idle = IF q = runningPrompt THEN "resolved" ELSE @]
<1>2. runs' = [q \in Started |-> New(q)]
  BY DEF Leave
<1>3. ASSUME NEW q \in Started
      PROVE  /\ New(q) \in KnownRun(sent)
             /\ New(q).phase = runs[q].phase /\ New(q).context = runs[q].context
             /\ New(q).pending = runs[q].pending /\ New(q).results = runs[q].results
             /\ New(q).consumer = IF q = r THEN "gone" ELSE runs[q].consumer
             /\ New(q).stream = IF q = r THEN <<>> ELSE runs[q].stream
             /\ New(q).over = runs[q].over
             /\ New(q).threw = IF q = r THEN throws ELSE runs[q].threw
  <2>1. runs[q] \in KnownRun(sent)
    BY <1>1 DEF Started
  <2>. DEFINE c == IF q = r THEN "gone" ELSE runs[q].consumer
              s == IF q = r THEN <<>> ELSE runs[q].stream
              w == IF q = r THEN throws ELSE runs[q].threw
              i == IF q = runningPrompt THEN "resolved" ELSE runs[q].idle
              run == runs[q]
              new == [run EXCEPT !.consumer = c, !.stream = s, !.threw = w, !.idle = i]
  <2>2. /\ c \in {"active", "gone"} /\ s \in Seq(KnownEvent(sent))
        /\ i \in {"pending", "resolved"} /\ w \in BOOLEAN
    <3>1. <<>> \in Seq(KnownEvent(sent))
      OBVIOUS
    <3>. QED
      BY <2>1, <3>1 DEF KnownRun
  <2>3. New(q) = new
    OBVIOUS
  <2>4. /\ c = (IF q = r THEN "gone" ELSE runs[q].consumer)
        /\ s = (IF q = r THEN <<>> ELSE runs[q].stream)
        /\ w = (IF q = r THEN throws ELSE runs[q].threw)
    OBVIOUS
  <2>. HIDE DEF New, c, s, w, i, run
  <2>5. /\ new \in KnownRun(sent)
        /\ new.phase = run.phase /\ new.context = run.context
        /\ new.pending = run.pending /\ new.results = run.results
        /\ new.consumer = c /\ new.stream = s /\ new.over = run.over /\ new.threw = w
    <3>1. run \in KnownRun(sent)
      BY <2>1 DEF run
    <3>. QED
      BY <2>2, <3>1 DEF KnownRun
  <2>. HIDE DEF new
  <2>. QED
    BY <2>3, <2>4, <2>5 DEF run
<1>. HIDE DEF New
<1>4. ASSUME NEW q \in Started PROVE RunOK(New(q), sent)
  <2>1. RunOK(runs[q], sent)
    BY DEF TypeInv
  <2>. QED
    BY <1>3, <2>1 DEF RunOK
<1>5. runs' \in Seq(KnownRun(sent)) /\ Len(runs') = Len(runs)
  BY <1>1, <1>2, <1>3 DEF Started
<1>6. Started' = Started /\ \A q \in Started : runs'[q] = New(q)
  BY <1>2, <1>5 DEF Started
<1>7. Active' = Active \ {r}
  BY <1>3, <1>6 DEF Active
<1>. QED
  BY <1>3, <1>4, <1>5, <1>6, <1>7

LEMMA TypeLeave ==
  ASSUME TypeInv, NEW r \in Started, Finish(r) \/ ListenerThrows(r)
  PROVE  TypeInv'
<1>0. PICK throws \in BOOLEAN : Leave(r, throws)
  BY DEF Finish, ListenerThrows
<1>1. UNCHANGED <<queues, counters>> /\ sent \in Nat
  BY SentKnown DEF Finish, ListenerThrows
<1>2. /\ runs' \in Seq(KnownRun(sent)) /\ Started' = Started
      /\ \A q \in Started : RunOK(runs'[q], sent)
  BY <1>0, LeaveDoes
<1>3. /\ isStreaming' \in BOOLEAN /\ streamMessage' \in Message /\ pendingToolCalls' \subseteq Message
      /\ abortController' = NoRun /\ runningPrompt' = NoRun
  BY <1>0 DEF Leave, NoMessage, User, Message, prompted
<1>4. messages' \in Seq(Known(sent)) /\ error' \in BOOLEAN
  <2>0. messages \in Seq(Known(sent)) /\ error \in BOOLEAN
    BY DEF TypeInv
  <2>1. CASE Finish(r)
    BY <2>0, <2>1 DEF Finish
  <2>2. CASE ListenerThrows(r)
    <3>. DEFINE ev == Head(runs[r].stream)
                msgs == IF ev.type = "message_end" THEN Append(messages, ev.message) ELSE messages
    <3>1. runs[r].stream \in Seq(KnownEvent(sent)) /\ runs[r].stream # <<>>
      BY <2>2 DEF ListenerThrows, TypeInv, RunOK, KnownRun
    <3>2. ev.message \in Known(sent)
      <4>1. ev \in KnownEvent(sent)
        BY <3>1, HeadTail
      <4>. HIDE DEF ev
      <4>. QED
        BY <4>1 DEF KnownEvent
    <3>3. Assistant(0, 0, "error") \in Known(sent)
      BY <1>1, KnownMessages
    <3>4. messages' = Append(msgs, Assistant(0, 0, "error")) /\ error' = TRUE
      BY <2>2 DEF ListenerThrows
    <3>. HIDE DEF ev
    <3>5. msgs \in Seq(Known(sent))
      BY <2>0, <3>2
    <3>. HIDE DEF msgs
    <3>. QED
      BY <3>3, <3>4, <3>5
  <2>. QED
    BY <2>1, <2>2
<1>. QED
  BY <1>1, <1>2, <1>3, <1>4 DEF TypeInv, queues, counters
-----------------------------------------------------------------------------
(* The callers.                                                            *)

\* The run that begins with the messages ms after the context c, when the first
\* poll took t.
Begun(c, ms, t) ==
  [phase |-> "polled", context |-> c \o ms, pending |-> t,
   results |-> <<>>, more |-> TRUE, stream |-> Ends(ms),
   aborted |-> FALSE, consumer |-> "active", idle |-> "pending",
   over |-> Active, threw |-> FALSE]

LEMMA ActiveNat ==
  ASSUME TypeInv PROVE Active \subseteq Nat
<1>1. Len(runs) \in Nat
  BY DEF TypeInv
<1>. QED
  BY <1>1 DEF Active, Started

LEMMA BegunIs ==
  ASSUME Active \subseteq Nat, NEW n \in Nat, NEW c \in Seq(Known(n)), NEW ms \in Seq(FromUsers(n)),
         NEW t \in Seq(FromUsers(n)), c # <<>> \/ ms # <<>>
  PROVE  LET run == Begun(c, ms, t)
         IN  /\ RunOK(run, n) /\ InFlight(run) = ms /\ Complete(run) = c \o ms
             /\ run.results = <<>> /\ run.pending = t /\ run.consumer = "active"
             /\ Answered(c) => Answered(Shown(run))
<1>. DEFINE run == Begun(c, ms, t)
            evs == Ends(ms)
            ctx == c \o ms
<1>1. ms \in Seq(Known(n))
  BY KnownMessages, SeqMonotone
<1>2. evs \in Seq(KnownEvent(n)) /\ FlightOf(evs) = ms
  BY <1>1, EndsKnown
<1>3. ctx \in Seq(Known(n)) /\ ctx # <<>>
  BY <1>1
<1>. HIDE DEF evs
<1>4. Answered(c) => Answered(ctx)
  BY AnsweredUsers
<1>. HIDE DEF ctx
<1>5. <<>> \in Seq(Known(n))
  OBVIOUS
<1>6. /\ run \in KnownRun(n) /\ run.phase = "polled" /\ run.context = ctx /\ run.stream = evs
      /\ run.results = <<>> /\ run.pending = t /\ run.consumer = "active"
  BY <1>2, <1>3, <1>5 DEF KnownRun, Begun, evs, ctx
<1>. HIDE DEF run
<1>7. RunOK(run, n) /\ Complete(run) = ctx /\ Shown(run) = ctx
  BY <1>3, <1>6 DEF RunOK, Complete, Shown, Calling
<1>8. InFlight(run) = ms
  BY <1>2, <1>6, FlightOfRun
<1>. QED
  BY <1>4, <1>6, <1>7, <1>8 DEF run, ctx

\* What a caller who begins a run with ms, of n messages, does to the queues
\* when t is polled.
Begins(ms, t, n) ==
  \/ /\ n = sent + 1 /\ ms = <<User(sent + 1, prompted)>>
     /\ steeringQueue = t \o steeringQueue' /\ UNCHANGED followUpQueue
  \/ /\ n = sent /\ ms = <<>>
     /\ steeringQueue = t \o steeringQueue' /\ UNCHANGED followUpQueue
  \/ /\ n = sent /\ t = <<>>
     /\ steeringQueue = ms \o steeringQueue' /\ UNCHANGED followUpQueue
  \/ /\ n = sent /\ t = <<>> /\ steeringQueue = <<>> /\ steeringQueue' = <<>>
     /\ followUpQueue = ms \o followUpQueue'

Starts(ms, t, n) ==
  /\ MayStart /\ sent' = n /\ n \in Nat /\ n <= MaxMessages
  /\ ms \in Seq(FromUsers(n)) /\ t \in Seq(FromUsers(n)) /\ messages \o ms # <<>>
  /\ messages \in Seq(Known(n))
  /\ runs' = Append(runs, Begun(messages, ms, t))
  /\ abortController' = Len(runs) + 1 /\ runningPrompt' = Len(runs) + 1
  /\ isStreaming' = TRUE /\ streamMessage' = NoMessage /\ error' = FALSE
  /\ UNCHANGED <<messages, pendingToolCalls, turns, toolTurns, dropped>>
  /\ steeringQueue' \in Seq(Via(n, steered)) /\ followUpQueue' \in Seq(Via(n, followed))
  /\ Begins(ms, t, n)

\* The newest message of the users.
LEMMA NewUser ==
  ASSUME NEW n \in Nat, NEW way \in {prompted, steered, followed}
  PROVE  LET u == User(n + 1, way)
         IN  /\ u \in Via(n + 1, way) /\ u \in FromUsers(n + 1) /\ u \in Known(n + 1)
             /\ u.role = "user" /\ u.id = n + 1 /\ u.n = way
<1>1. n + 1 \in 1 .. n + 1 /\ n + 1 \in Nat
  OBVIOUS
<1>2. User(n + 1, way) \in Via(n + 1, way)
  BY <1>1 DEF Via
<1>3. Via(n + 1, way) \subseteq FromUsers(n + 1) /\ FromUsers(n + 1) \subseteq Known(n + 1)
  BY <1>1, KnownMessages
<1>4. LET u == User(n + 1, way) IN u.role = "user" /\ u.id = n + 1 /\ u.n = way
  BY DEF User
<1>. QED
  BY <1>2, <1>3, <1>4

LEMMA Grown ==
  ASSUME TypeInv
  PROVE  /\ sent + 1 \in Nat
         /\ messages \in Seq(Known(sent + 1))
         /\ steeringQueue \in Seq(Via(sent + 1, steered))
         /\ followUpQueue \in Seq(Via(sent + 1, followed))
         /\ \A r \in Started : RunOK(runs[r], sent + 1)
         /\ runs \in Seq(KnownRun(sent + 1))
         /\ dropped \subseteq 1 .. sent + 1
<1>1. sent \in Nat
  BY SentKnown
<1>2. /\ Known(sent) \subseteq Known(sent + 1)
      /\ \A way : Via(sent, way) \subseteq Via(sent + 1, way)
  BY <1>1, KnownGrows
<1>3. messages \in Seq(Known(sent + 1))
  BY <1>2, SeqMonotone DEF TypeInv
<1>4. /\ steeringQueue \in Seq(Via(sent + 1, steered))
      /\ followUpQueue \in Seq(Via(sent + 1, followed))
  BY <1>2, SeqMonotone DEF TypeInv
<1>5. \A r \in Started : RunOK(runs[r], sent + 1)
  BY <1>1, RunGrows DEF TypeInv
<1>6. runs \in Seq(KnownRun(sent + 1))
  <2>1. runs \in Seq(KnownRun(sent))
    BY DEF TypeInv
  <2>2. runs \in [1 .. Len(runs) -> KnownRun(sent)] /\ Len(runs) \in Nat
    BY <2>1
  <2>3. \A r \in 1 .. Len(runs) : runs[r] \in KnownRun(sent + 1)
    BY <1>5 DEF RunOK, Started
  <2>4. runs \in [1 .. Len(runs) -> KnownRun(sent + 1)]
    BY <2>2, <2>3
  <2>. QED
    BY <2>2, <2>4
<1>7. dropped \subseteq 1 .. sent + 1
  BY <1>1 DEF TypeInv
<1>. QED
  BY <1>1, <1>3, <1>4, <1>5, <1>6, <1>7

(* prompt() and continue() begin a run.                                    *)
LEMMA PromptStarts ==
  ASSUME TypeInv, Prompt
  PROVE  \E ms, t : Starts(ms, t, sent + 1)
<1>. DEFINE n == sent + 1
            u == User(n, prompted)
            ms == <<u>>
            t == Taken(steeringQueue, SteeringMode)
            l == Left(steeringQueue, SteeringMode)
<1>1. /\ n \in Nat /\ messages \in Seq(Known(n))
      /\ steeringQueue \in Seq(Via(n, steered)) /\ followUpQueue \in Seq(Via(n, followed))
  BY Grown
<1>2. t \in Seq(Via(n, steered)) /\ l \in Seq(Via(n, steered)) /\ steeringQueue = t \o l
  BY <1>1, TakenLeft
<1>3. Via(n, steered) \subseteq FromUsers(n) /\ Via(n, prompted) \subseteq FromUsers(n)
  BY <1>1, KnownMessages
<1>4. u \in FromUsers(n)
  BY NewUser, SentKnown
<1>5. /\ MayStart /\ sent < MaxMessages /\ sent' = n
      /\ runs' = Append(runs, Begun(messages, ms, t)) /\ steeringQueue' = l
      /\ abortController' = Len(runs) + 1 /\ runningPrompt' = Len(runs) + 1
      /\ isStreaming' = TRUE /\ streamMessage' = NoMessage /\ error' = FALSE
      /\ UNCHANGED <<messages, pendingToolCalls, followUpQueue, turns, toolTurns, dropped>>
  BY DEF Prompt, StartRun, Begun
<1>6. n <= MaxMessages
  BY <1>5, SentKnown
<1>. HIDE DEF t, l, u
<1>7. t \in Seq(FromUsers(n)) /\ ms \in Seq(FromUsers(n)) /\ messages \o ms # <<>>
  <2>1. t \in Seq(FromUsers(n))
    BY <1>2, <1>3, SeqMonotone
  <2>2. ms \in Seq(FromUsers(n)) /\ u \in Known(n)
    BY <1>1, <1>4, KnownMessages
  <2>3. messages \o ms # <<>>
    BY <1>1, <2>2
  <2>. QED
    BY <2>1, <2>2, <2>3
<1>8. Begins(ms, t, n)
  BY <1>2, <1>5 DEF Begins, u
<1>. HIDE DEF ms, n
<1>9. Starts(ms, t, n)
  BY <1>1, <1>2, <1>5, <1>6, <1>7, <1>8 DEF Starts
<1>. QED
  BY <1>9 DEF n

LEMMA ContinueStarts ==
  ASSUME TypeInv, Continue
  PROVE  \E ms, t : Starts(ms, t, sent)
<1>. DEFINE n == sent
            s == steeringQueue
            f == followUpQueue
<1>1. /\ n \in Nat /\ n <= MaxMessages /\ messages \in Seq(Known(n)) /\ messages # <<>>
      /\ s \in Seq(Via(n, steered)) /\ f \in Seq(Via(n, followed))
      /\ MayStart /\ sent' = n /\ UNCHANGED <<turns, toolTurns, dropped>>
  BY SentKnown DEF TypeInv, Continue, counters
<1>2. Via(n, steered) \subseteq FromUsers(n) /\ Via(n, followed) \subseteq FromUsers(n)
  BY <1>1, KnownMessages
<1>3. /\ Taken(s, SteeringMode) \in Seq(Via(n, steered))
      /\ Left(s, SteeringMode) \in Seq(Via(n, steered))
      /\ s = Taken(s, SteeringMode) \o Left(s, SteeringMode)
      /\ Taken(f, FollowUpMode) \in Seq(Via(n, followed))
      /\ Left(f, FollowUpMode) \in Seq(Via(n, followed))
      /\ f = Taken(f, FollowUpMode) \o Left(f, FollowUpMode)
  BY <1>1, TakenLeft
<1>4. /\ Taken(s, SteeringMode) \in Seq(FromUsers(n))
      /\ Taken(f, FollowUpMode) \in Seq(FromUsers(n)) /\ <<>> \in Seq(FromUsers(n))
  BY <1>2, <1>3, SeqMonotone
<1>5. \A ms \in Seq(FromUsers(n)) : messages \o ms # <<>>
  <2>. TAKE ms \in Seq(FromUsers(n))
  <2>1. ms \in Seq(Known(n))
    BY <1>1, KnownMessages, SeqMonotone
  <2>. QED
    BY <1>1, <2>1
<1>6. CASE StartRun(<<>>, s, FALSE) /\ UNCHANGED f
  <2>1. /\ runs' = Append(runs, Begun(messages, <<>>, Taken(s, SteeringMode)))
        /\ steeringQueue' = Left(s, SteeringMode)
        /\ abortController' = Len(runs) + 1 /\ runningPrompt' = Len(runs) + 1
        /\ isStreaming' = TRUE /\ streamMessage' = NoMessage /\ error' = FALSE
        /\ UNCHANGED <<messages, pendingToolCalls>>
    BY <1>6 DEF StartRun, Begun
  <2>2. Begins(<<>>, Taken(s, SteeringMode), n)
    BY <1>3, <1>6, <2>1 DEF Begins
  <2>3. Starts(<<>>, Taken(s, SteeringMode), n)
    BY <1>1, <1>3, <1>4, <1>5, <1>6, <2>1, <2>2 DEF Starts
  <2>. QED
    BY <2>3
<1>7. CASE StartRun(Taken(s, SteeringMode), Left(s, SteeringMode), TRUE) /\ UNCHANGED f
  <2>1. /\ runs' = Append(runs, Begun(messages, Taken(s, SteeringMode), <<>>))
        /\ steeringQueue' = Left(s, SteeringMode)
        /\ abortController' = Len(runs) + 1 /\ runningPrompt' = Len(runs) + 1
        /\ isStreaming' = TRUE /\ streamMessage' = NoMessage /\ error' = FALSE
        /\ UNCHANGED <<messages, pendingToolCalls>>
    BY <1>7 DEF StartRun, Begun
  <2>2. Begins(Taken(s, SteeringMode), <<>>, n)
    BY <1>3, <1>7, <2>1 DEF Begins
  <2>3. Starts(Taken(s, SteeringMode), <<>>, n)
    BY <1>1, <1>3, <1>4, <1>5, <1>7, <2>1, <2>2 DEF Starts
  <2>. QED
    BY <2>3
<1>8. CASE /\ s = <<>> /\ StartRun(Taken(f, FollowUpMode), s, FALSE)
           /\ followUpQueue' = Left(f, FollowUpMode)
  <2>0. Taken(s, SteeringMode) = <<>> /\ Left(s, SteeringMode) = <<>>
    <3>1. Taken(s, SteeringMode) = <<>>
      BY <1>8 DEF Taken
    <3>. QED
      BY <1>8, <3>1 DEF Left
  <2>1. /\ runs' = Append(runs, Begun(messages, Taken(f, FollowUpMode), <<>>))
        /\ steeringQueue' = <<>>
        /\ abortController' = Len(runs) + 1 /\ runningPrompt' = Len(runs) + 1
        /\ isStreaming' = TRUE /\ streamMessage' = NoMessage /\ error' = FALSE
        /\ UNCHANGED <<messages, pendingToolCalls>>
    BY <1>8, <2>0 DEF StartRun, Begun
  <2>2. Begins(Taken(f, FollowUpMode), <<>>, n)
    BY <1>3, <1>8, <2>1 DEF Begins
  <2>3. Starts(Taken(f, FollowUpMode), <<>>, n)
    BY <1>1, <1>3, <1>4, <1>5, <1>8, <2>1, <2>2 DEF Starts
  <2>. QED
    BY <2>3
<1>. QED
  BY <1>6, <1>7, <1>8 DEF Continue

\* The runs once another one began.
LEMMA RunBegins ==
  ASSUME NEW T, runs \in Seq(T), NEW new \in T, runs' = Append(runs, new),
         new.consumer = "active"
  PROVE  LET r == Len(runs) + 1
         IN  /\ runs' \in Seq(T) /\ Started' = Started \cup {r} /\ r \notin Started
             /\ Active' = Active \cup {r}
             /\ runs'[r] = new /\ \A q \in Started : runs'[q] = runs[q]
             /\ Len(runs') = r /\ Len(runs) \in Nat
<1>. DEFINE r == Len(runs) + 1
<1>1. /\ runs' \in Seq(T) /\ Len(runs') = r /\ Len(runs) \in Nat
      /\ runs'[r] = new /\ \A q \in 1 .. Len(runs) : runs'[q] = runs[q]
  OBVIOUS
<1>2. Started' = Started \cup {r} /\ r \notin Started
  BY <1>1 DEF Started
<1>3. Active' = Active \cup {r}
  BY <1>1, <1>2 DEF Active, Started
<1>. QED
  BY <1>1, <1>2, <1>3 DEF Started

LEMMA TypeStart ==
  ASSUME TypeInv, NEW ms, NEW t, NEW n \in {sent, sent + 1}, Starts(ms, t, n)
  PROVE  TypeInv'
<1>. DEFINE new == Begun(messages, ms, t)
            r == Len(runs) + 1
<1>1. /\ n \in Nat /\ n <= MaxMessages /\ sent' = n /\ MaxMessages \in Nat
      /\ ms \in Seq(FromUsers(n)) /\ t \in Seq(FromUsers(n)) /\ messages \o ms # <<>>
      /\ messages \in Seq(Known(n))
  BY SentKnown DEF Starts
<1>2. RunOK(new, n) /\ new.consumer = "active"
  <2>1. messages # <<>> \/ ms # <<>>
    BY <1>1
  <2>. QED
    BY <1>1, <2>1, ActiveNat, BegunIs
<1>3. (\A q \in Started : RunOK(runs[q], n)) /\ runs \in Seq(KnownRun(n)) /\ dropped \subseteq 1 .. n
  BY Grown DEF TypeInv
<1>4. /\ runs' = Append(runs, new) /\ abortController' = r /\ runningPrompt' = r
      /\ isStreaming' = TRUE /\ streamMessage' = NoMessage /\ error' = FALSE
      /\ UNCHANGED <<messages, pendingToolCalls, turns, toolTurns, dropped>>
      /\ steeringQueue' \in Seq(Via(n, steered)) /\ followUpQueue' \in Seq(Via(n, followed))
  BY DEF Starts
<1>. HIDE DEF new
<1>5. /\ runs' \in Seq(KnownRun(n)) /\ Started' = Started \cup {r} /\ Active' = Active \cup {r}
      /\ runs'[r] = new /\ \A q \in Started : runs'[q] = runs[q]
  BY <1>2, <1>3, <1>4, RunBegins DEF RunOK
<1>6. NoMessage \in Message
  BY DEF NoMessage, User, Message, prompted
<1>7. \A q \in Started' : RunOK(runs'[q], n)
  BY <1>2, <1>3, <1>5
<1>8. sent' \in 0 .. MaxMessages
  BY <1>1
<1>. HIDE DEF r
<1>. QED
  BY <1>1, <1>3, <1>4, <1>5, <1>6, <1>7, <1>8 DEF TypeInv

LEMMA TypeQueue ==
  ASSUME TypeInv, Steer \/ FollowUp
  PROVE  TypeInv'
<1>1. /\ sent' = sent + 1 /\ sent' \in 0 .. MaxMessages
      /\ UNCHANGED <<state, ownership, runs, turns, toolTurns, dropped>>
  <2>1. sent' = sent + 1 /\ sent < MaxMessages
        /\ UNCHANGED <<state, ownership, runs, turns, toolTurns, dropped>>
    BY DEF Steer, FollowUp, MayQueue
  <2>. QED
    BY <2>1, SentKnown
<1>2. /\ messages \in Seq(Known(sent + 1))
      /\ steeringQueue \in Seq(Via(sent + 1, steered))
      /\ followUpQueue \in Seq(Via(sent + 1, followed))
      /\ \A r \in Started : RunOK(runs[r], sent + 1)
      /\ runs \in Seq(KnownRun(sent + 1))
      /\ dropped \subseteq 1 .. sent + 1
  BY Grown
<1>3. Started' = Started /\ Active' = Active
  BY <1>1 DEF Started, Active
<1>4. /\ steeringQueue' \in Seq(Via(sent + 1, steered))
      /\ followUpQueue' \in Seq(Via(sent + 1, followed))
  <2>1. /\ User(sent + 1, steered) \in Via(sent + 1, steered)
        /\ User(sent + 1, followed) \in Via(sent + 1, followed)
    BY SentKnown, NewUser
  <2>2. CASE Steer
    BY <1>2, <2>1, <2>2 DEF Steer
  <2>3. CASE FollowUp
    BY <1>2, <2>1, <2>3 DEF FollowUp
  <2>. QED
    BY <2>2, <2>3
<1>. QED
  BY <1>1, <1>2, <1>3, <1>4 DEF TypeInv, state, ownership

\* The numbers of users' messages.
LEMMA IdsKnown ==
  ASSUME NEW n \in Nat, NEW ms \in Seq(Known(n))
  PROVE  Ids(ms) \subseteq 1 .. n
<1>1. \A i \in DOMAIN ms : ms[i] \in Known(n)
  OBVIOUS
<1>. QED
  BY <1>1 DEF Ids, Known

LEMMA QueuesKnown ==
  ASSUME TypeInv
  PROVE  steeringQueue \in Seq(Known(sent)) /\ followUpQueue \in Seq(Known(sent))
<1>1. /\ Via(sent, steered) \subseteq Known(sent) /\ Via(sent, followed) \subseteq Known(sent)
  BY SentKnown, KnownMessages
<1>. QED
  BY <1>1, SeqMonotone DEF TypeInv

LEMMA TypeClear ==
  ASSUME TypeInv, ClearAllQueues \/ Reset
  PROVE  TypeInv'
<1>1. /\ Ids(messages) \subseteq 1 .. sent /\ Ids(steeringQueue) \subseteq 1 .. sent
      /\ Ids(followUpQueue) \subseteq 1 .. sent
  <2>1. messages \in Seq(Known(sent))
    BY DEF TypeInv
  <2>. QED
    BY <2>1, SentKnown, QueuesKnown, IdsKnown
<1>2. /\ steeringQueue' = <<>> /\ followUpQueue' = <<>>
      /\ UNCHANGED <<ownership, runs, sent, turns, toolTurns>>
      /\ dropped' \subseteq dropped \cup Ids(messages) \cup Ids(steeringQueue) \cup Ids(followUpQueue)
  BY DEF ClearAllQueues, Reset
<1>3. dropped' \subseteq 1 .. sent
  BY <1>1, <1>2 DEF TypeInv
<1>4. /\ messages' \in Seq(Known(sent)) /\ streamMessage' \in Message
      /\ isStreaming' \in BOOLEAN /\ error' \in BOOLEAN /\ pendingToolCalls' \subseteq Message
  <2>1. CASE ClearAllQueues
    BY <2>1 DEF ClearAllQueues, state, TypeInv
  <2>2. CASE Reset
    <3>1. NoMessage \in Message /\ <<>> \in Seq(Known(sent))
      BY DEF NoMessage, User, Message, prompted
    <3>. QED
      BY <2>2, <3>1 DEF Reset
  <2>. QED
    BY <2>1, <2>2
<1>5. Started' = Started /\ Active' = Active
  BY <1>2 DEF Started, Active
<1>6. <<>> \in Seq(Via(sent, steered)) /\ <<>> \in Seq(Via(sent, followed))
  OBVIOUS
<1>. QED
  BY <1>2, <1>3, <1>4, <1>5, <1>6 DEF TypeInv, ownership

\* The run that Abort marks.
LEMMA AbortDoes ==
  ASSUME TypeInv, Abort
  PROVE  /\ abortController \in Active /\ abortController \in Started
         /\ LET new == [runs[abortController] EXCEPT !.aborted = TRUE]
            IN  /\ runs' = [runs EXCEPT ![abortController] = new]
                /\ RunOK(new, sent) /\ new.consumer = runs[abortController].consumer
                /\ new.stream = runs[abortController].stream
                /\ new.phase = runs[abortController].phase
                /\ new.context = runs[abortController].context
                /\ new.pending = runs[abortController].pending
                /\ new.results = runs[abortController].results
                /\ new.over = runs[abortController].over
                /\ new.threw = runs[abortController].threw
<1>. DEFINE r == abortController
            run == runs[r]
            new == [run EXCEPT !.aborted = TRUE]
<1>1. r \in Active /\ r \in Started
  BY DEF Abort, TypeInv, Active
<1>2. runs' = [runs EXCEPT ![r] = new]
  BY DEF Abort
<1>3. RunOK(run, sent) /\ run \in KnownRun(sent)
  BY <1>1 DEF TypeInv, RunOK
<1>. HIDE DEF run
<1>4. /\ new \in KnownRun(sent) /\ new.consumer = run.consumer /\ new.stream = run.stream
      /\ new.phase = run.phase /\ new.context = run.context
      /\ new.pending = run.pending /\ new.results = run.results
      /\ new.over = run.over /\ new.threw = run.threw
  BY <1>3 DEF KnownRun
<1>. HIDE DEF new
<1>5. RunOK(new, sent)
  BY <1>3, <1>4 DEF RunOK
<1>. QED
  BY <1>1, <1>2, <1>4, <1>5 DEF new, run

LEMMA TypeAbort ==
  ASSUME TypeInv, Abort
  PROVE  TypeInv'
<1>. DEFINE r == abortController
            new == [runs[r] EXCEPT !.aborted = TRUE]
<1>1. /\ r \in Started /\ runs' = [runs EXCEPT ![r] = new]
      /\ RunOK(new, sent) /\ new.consumer = runs[r].consumer
  BY AbortDoes
<1>. HIDE DEF new
<1>2. UNCHANGED <<state, queues, ownership, counters>>
  BY DEF Abort
<1>3. /\ Started' = Started /\ Active' = Active
      /\ runs'[r] = new /\ \A q \in Started : q # r => runs'[q] = runs[q]
  BY <1>1, SameActive DEF TypeInv
<1>4. runs' \in Seq(KnownRun(sent))
  BY <1>1, Replaced DEF TypeInv, Started, RunOK
<1>5. \A q \in Started : RunOK(runs'[q], sent)
  BY <1>1, <1>3 DEF TypeInv
<1>. QED
  BY <1>2, <1>3, <1>4, <1>5 DEF TypeInv, state, queues, ownership, counters

LEMMA TypeDrop ==
  ASSUME TypeInv, DropFailedAnswer
  PROVE  TypeInv'
<1>1. messages' \in Seq(Known(sent))
  <2>1. messages \in Seq(Known(sent)) /\ messages # <<>> /\ messages' = Front(messages)
    BY DEF TypeInv, DropFailedAnswer
  <2>. QED
    BY <2>1, FrontLast
<1>2. UNCHANGED <<isStreaming, streamMessage, pendingToolCalls, error, queues, ownership,
                  runs, counters>>
  BY DEF DropFailedAnswer
<1>3. Started' = Started /\ Active' = Active
  BY <1>2 DEF Started, Active
<1>. QED
  BY <1>1, <1>2, <1>3 DEF TypeInv, queues, ownership, counters

LEMMA TypeInit ==
  ASSUME Init PROVE TypeInv
<1>1. runs = <<>> /\ Started = {} /\ sent = 0
  BY DEF Init, Started
<1>2. NoMessage \in Message
  BY DEF NoMessage, User, Message, prompted
<1>3. 0 \in 0 .. MaxMessages /\ 0 \in 0 .. MaxToolTurns
  BY AgentAssumption
<1>4. \A T : <<>> \in Seq(T)
  OBVIOUS
<1>. QED
  BY <1>1, <1>2, <1>3, <1>4 DEF Init, TypeInv

LEMMA TypeStep ==
  ASSUME TypeInv, [Next]_vars
  PROVE  TypeInv'
<1>1. CASE UNCHANGED vars
  <2>1. Started' = Started /\ Active' = Active
    BY <1>1 DEF vars, Started, Active
  <2>. QED
    BY <1>1, <2>1 DEF TypeInv, vars, state, queues, ownership, counters
<1>2. CASE Prompt
  BY <1>2, PromptStarts, TypeStart
<1>3. CASE Continue
  BY <1>3, ContinueStarts, TypeStart
<1>4. CASE Steer \/ FollowUp
  BY <1>4, TypeQueue
<1>5. CASE ClearAllQueues \/ Reset
  BY <1>5, TypeClear
<1>6. CASE Abort
  BY <1>6, TypeAbort
<1>7. CASE DropFailedAnswer
  BY <1>7, TypeDrop
<1>8. ASSUME NEW r \in Started, Produce(r) PROVE TypeInv'
  BY <1>8, TypeLoop
<1>9. ASSUME NEW r \in Started, Consume(r) PROVE TypeInv'
  BY <1>9, TypeConsume
<1>10. ASSUME NEW r \in Started, Finish(r) \/ ListenerThrows(r) PROVE TypeInv'
  BY <1>10, TypeLeave
<1>. QED
  BY <1>1, <1>2, <1>3, <1>4, <1>5, <1>6, <1>7, <1>8, <1>9, <1>10 DEF Next, Call

LEMMA TypeInvOK ==
  ASSUME TypeInv PROVE TypeOK
<1>1. sent \in Nat
  BY SentKnown
<1>2. Known(sent) \subseteq Message /\ FromUsers(sent) \subseteq Message
  BY <1>1, KnownMessages
<1>3. messages \in Seq(Message) /\ steeringQueue \in Seq(Message) /\ followUpQueue \in Seq(Message)
  BY <1>2, QueuesKnown, SeqMonotone DEF TypeInv
<1>4. KnownRun(sent) \subseteq Run
  <2>. DEFINE Ev == [type : {"message_start", "message_end", "tool_start", "tool_end",
                             "turn_end", "agent_end"}, message : Message]
  <2>1. KnownEvent(sent) \subseteq Ev
    BY <1>2 DEF KnownEvent
  <2>2. ASSUME NEW run \in KnownRun(sent) PROVE run \in Run
    <3>1. run.context \in Seq(Message) /\ run.pending \in Seq(Message) /\ run.results \in Seq(Message)
      BY <1>2, SeqMonotone DEF KnownRun
    <3>2. run.stream \in Seq(Ev)
      <4>1. run.stream \in Seq(KnownEvent(sent))
        BY DEF KnownRun
      <4>. HIDE DEF Ev
      <4>. QED
        BY <2>1, <4>1, SeqMonotone
    <3>. QED
      BY <3>1, <3>2 DEF KnownRun, Run
  <2>. QED
    BY <2>2
<1>5. runs \in Seq(Run)
  BY <1>4, SeqMonotone DEF TypeInv
<1>. QED
  BY <1>3, <1>5 DEF TypeInv, TypeOK

(* The state of the agent, its queues and its runs are what their types in  *)
(* agent.ts and agent-loop.ts say, and the controller and the promise       *)
(* belong to a run with a consumer.                                         *)
THEOREM AgentTyped == Spec => []TypeOK
<1>1. Spec => []TypeInv
  <2>1. Init => TypeInv
    BY TypeInit
  <2>2. TypeInv /\ [Next]_vars => TypeInv'
    BY TypeStep
  <2>. QED
    BY <2>1, <2>2, PTL DEF Spec
<1>2. TypeInv => TypeOK
  BY TypeInvOK
<1>. QED
  BY <1>1, <1>2, PTL
-----------------------------------------------------------------------------
(* One run at a time.                                                      *)

OneRun == runningPrompt = abortController /\ Active \subseteq {abortController}

LEMMA OneRunStep ==
  ASSUME ~EagerCallers, TypeInv, OneRun, [Next]_vars
  PROVE  OneRun'
<1>1. ASSUME UNCHANGED ownership, Active' = Active PROVE OneRun'
  BY <1>1 DEF OneRun, ownership
<1>2. ASSUME UNCHANGED <<ownership, runs>> PROVE OneRun'
  BY <1>1, <1>2 DEF Active, Started
<1>3. CASE UNCHANGED vars
  BY <1>2, <1>3 DEF vars
<1>4. ASSUME NEW ms, NEW t, NEW n, Active = {}, Starts(ms, t, n) PROVE OneRun'
  <2>. DEFINE new == Begun(messages, ms, t)
  <2>1. /\ Active = {} /\ runs' = Append(runs, new)
        /\ abortController' = Len(runs) + 1 /\ runningPrompt' = Len(runs) + 1
    BY <1>4 DEF Starts, MayStart
  <2>2. new.consumer = "active"
    BY DEF Begun
  <2>. HIDE DEF new
  <2>3. runs \in Seq(KnownRun(sent) \cup {new})
    <3>1. KnownRun(sent) \subseteq KnownRun(sent) \cup {new}
      OBVIOUS
    <3>. QED
      BY <3>1, SeqMonotone DEF TypeInv
  <2>4. Active' = Active \cup {Len(runs) + 1}
    BY <2>1, <2>2, <2>3, RunBegins
  <2>. QED
    BY <2>1, <2>4 DEF OneRun
<1>5. CASE Patient /\ (Prompt \/ Continue)
  <2>1. Active = {}
    BY <1>5 DEF Patient
  <2>. QED
    BY <1>4, <1>5, <2>1, PromptStarts, ContinueStarts
<1>6. CASE Steer \/ FollowUp \/ ClearAllQueues \/ Reset \/ DropFailedAnswer
  BY <1>2, <1>6 DEF Steer, FollowUp, ClearAllQueues, Reset, DropFailedAnswer
<1>7. CASE Abort
  <2>1. Active' = Active
    BY <1>7, AbortDoes, SameActive DEF TypeInv
  <2>. QED
    BY <1>1, <1>7, <2>1 DEF Abort
<1>8. ASSUME NEW r \in Started, Produce(r) PROVE OneRun'
  <2>1. PICK new, d, t : LoopStep(r, new, d, t)
    BY <1>8, ProduceAdvances
  <2>2. new.consumer = runs[r].consumer /\ runs' = [runs EXCEPT ![r] = new]
    BY <2>1 DEF LoopStep, Advances, Hands
  <2>3. Active' = Active
    BY <2>2, SameActive DEF TypeInv
  <2>. QED
    BY <1>1, <1>8, <2>3, ProduceKeeps
<1>9. ASSUME NEW r \in Started, Consume(r) PROVE OneRun'
  <2>. DEFINE new == [runs[r] EXCEPT !.stream = Tail(@)]
  <2>1. runs' = [runs EXCEPT ![r] = new] /\ UNCHANGED ownership
    BY <1>9 DEF Consume
  <2>2. new.consumer = runs[r].consumer
    BY DEF TypeInv, RunOK, KnownRun
  <2>. HIDE DEF new
  <2>3. Active' = Active
    BY <2>1, <2>2, SameActive DEF TypeInv
  <2>. QED
    BY <1>1, <2>1, <2>3
<1>10. ASSUME NEW r \in Started, Finish(r) \/ ListenerThrows(r) PROVE OneRun'
  <2>1. r \in Active /\ \E throws \in BOOLEAN : Leave(r, throws)
    BY <1>10 DEF Finish, ListenerThrows, Active
  <2>2. Active' = Active \ {r}
    BY <2>1, LeaveDoes
  <2>3. Active' = {}
    BY <2>1, <2>2 DEF OneRun
  <2>. QED
    BY <2>1, <2>3 DEF OneRun, Leave
<1>. QED
  BY <1>3, <1>5, <1>6, <1>7, <1>8, <1>9, <1>10 DEF Next, Call

LEMMA OneRunAlways ==
  ASSUME ~EagerCallers PROVE Spec => [](TypeInv /\ OneRun)
<1>1. Init => TypeInv /\ OneRun
  <2>1. Init => OneRun
    BY DEF Init, OneRun, Active, Started
  <2>. QED
    BY <2>1, TypeInit
<1>2. TypeInv /\ OneRun /\ [Next]_vars => (TypeInv /\ OneRun)'
  BY TypeStep, OneRunStep
<1>. QED
  BY <1>1, <1>2, PTL DEF Spec
-----------------------------------------------------------------------------
(* What a loop says to its consumer: its last event, and no other, is      *)
(* agent_end.                                                              *)

Plain ==
  [type : {"message_start", "message_end", "tool_start", "tool_end", "turn_end"},
   message : Message]

EndsLast(run) ==
  IF run.phase = "ended"
  THEN \A i \in 1 .. Len(run.stream) : run.stream[i].type = "agent_end" => i = Len(run.stream)
  ELSE run.stream \in Seq(Plain)

\* new is run after it pushed events other than the last one.
Speaks(run, new) ==
  /\ new.consumer = run.consumer /\ new.over = run.over /\ new.threw = run.threw
  /\ run.consumer = "gone" => new.stream = run.stream
  /\ run.stream \in Seq(Plain) => new.stream \in Seq(Plain)

LEMMA SpeaksBoth ==
  ASSUME NEW run, NEW mid, NEW new, Speaks(run, mid), Speaks(mid, new)
  PROVE  Speaks(run, new)
  BY DEF Speaks

LEMMA SpeaksSame ==
  ASSUME NEW run, NEW mid, NEW new, Speaks(run, mid),
         new.consumer = mid.consumer, new.over = mid.over, new.threw = mid.threw,
         new.stream = mid.stream
  PROVE  Speaks(run, new)
  BY DEF Speaks

LEMMA PlainEvent ==
  ASSUME NEW n, NEW m \in Known(n),
         NEW type \in {"message_start", "message_end", "tool_start", "tool_end", "turn_end"}
  PROVE  Event(type, m) \in Plain
  BY DEF Event, Plain, Known

LEMMA OnePlain ==
  ASSUME NEW n \in Nat, NEW m \in Known(n),
         NEW type \in {"message_start", "message_end", "tool_start", "tool_end", "turn_end"}
  PROVE  <<Event(type, m)>> \in Seq(Plain) /\ <<Event(type, m)>> \in Seq(KnownEvent(n))
<1>1. Event(type, m) \in Plain
  BY PlainEvent
<1>2. <<Event(type, m)>> \in Seq(Plain)
  BY <1>1
<1>. QED
  BY <1>2, OneEvent

LEMMA PlainEnds ==
  ASSUME NEW n, NEW ms \in Seq(Known(n))
  PROVE  Ends(ms) \in Seq(Plain)
<1>1. [type : {"message_end"}, message : Known(n)] \subseteq Plain
  BY DEF Plain, Known
<1>2. Ends(ms) \in Seq([type : {"message_end"}, message : Known(n)])
  BY EndsType
<1>. QED
  BY <1>1, <1>2, SeqMonotone

LEMMA PushSpeaks ==
  ASSUME NEW n \in Nat, NEW run \in KnownRun(n), NEW evs \in Seq(Plain)
  PROVE  Speaks(run, Push(run, evs))
<1>1. CASE run.consumer = "gone"
  BY <1>1 DEF Push, Speaks
<1>2. CASE run.consumer # "gone"
  <2>. DEFINE new == [run EXCEPT !.stream = run.stream \o evs]
  <2>1. Push(run, evs) = new
    BY <1>2 DEF Push
  <2>2. /\ new.stream = run.stream \o evs /\ new.consumer = run.consumer
        /\ new.over = run.over /\ new.threw = run.threw
    BY DEF KnownRun
  <2>. HIDE DEF new
  <2>3. run.stream \in Seq(Plain) => run.stream \o evs \in Seq(Plain)
    OBVIOUS
  <2>. QED
    BY <1>2, <2>1, <2>2, <2>3 DEF Speaks
<1>. QED
  BY <1>1, <1>2

LEMMA CallModelSpeaks ==
  ASSUME NEW n \in Nat, NEW run \in KnownRun(n)
  PROVE  Speaks(run, CallModel(run))
<1>. DEFINE mid == Push(run, Ends(run.pending))
            new == CallModel(run)
<1>1. run.pending \in Seq(Known(n))
  BY KnownMessages, SeqMonotone DEF KnownRun
<1>2. Ends(run.pending) \in Seq(Plain) /\ Ends(run.pending) \in Seq(KnownEvent(n))
  BY <1>1, PlainEnds, EndsKnown
<1>3. mid \in KnownRun(n) /\ Speaks(run, mid)
  BY <1>2, PushDoes, PushSpeaks
<1>4. new = [mid EXCEPT !.context = mid.context \o run.pending, !.pending = <<>>, !.phase = "model"]
  BY DEF CallModel
<1>. HIDE DEF mid, new
<1>5. /\ new.consumer = mid.consumer /\ new.over = mid.over /\ new.threw = mid.threw
      /\ new.stream = mid.stream
  BY <1>3, <1>4 DEF KnownRun
<1>. QED
  BY <1>3, <1>5, SpeaksSame DEF new

LEMMA EndTurnSpeaks ==
  ASSUME NEW n \in Nat, NEW run \in KnownRun(n), run.context # <<>>
  PROVE  Speaks(run, EndTurn(run))
<1>. DEFINE evs == <<Event("turn_end", Last(run.context))>>
            mid == Push(run, evs)
            new == EndTurn(run)
<1>1. Last(run.context) \in Known(n)
  BY FrontLast DEF KnownRun
<1>2. evs \in Seq(Plain) /\ evs \in Seq(KnownEvent(n))
  BY <1>1, OnePlain
<1>3. mid \in KnownRun(n) /\ Speaks(run, mid)
  BY <1>2, PushDoes, PushSpeaks
<1>4. new = [mid EXCEPT !.context = mid.context \o run.results, !.results = <<>>]
  BY DEF EndTurn
<1>. HIDE DEF mid, new
<1>5. /\ new.consumer = mid.consumer /\ new.over = mid.over /\ new.threw = mid.threw
      /\ new.stream = mid.stream
  BY <1>3, <1>4 DEF KnownRun
<1>. QED
  BY <1>3, <1>5, SpeaksSame DEF new

LEMMA StartToolSpeaks ==
  ASSUME NEW n \in Nat, NEW run \in KnownRun(n), run.context # <<>>, NEW k \in Nat
  PROVE  Speaks(run, StartTool(run, k))
<1>. DEFINE m == Result(Last(run.context), k)
            evs == <<Event("tool_start", m)>>
            mid == Push(run, evs)
            new == StartTool(run, k)
<1>1. m \in Known(n)
  <2>1. Last(run.context) \in Known(n)
    BY FrontLast DEF KnownRun
  <2>. QED
    BY <2>1, KnownMessages
<1>2. evs \in Seq(Plain) /\ evs \in Seq(KnownEvent(n))
  <2>. HIDE DEF m
  <2>. QED
    BY <1>1, OnePlain
<1>3. mid \in KnownRun(n) /\ Speaks(run, mid)
  BY <1>2, PushDoes, PushSpeaks
<1>4. new = [mid EXCEPT !.phase = "tool"]
  BY DEF StartTool
<1>. HIDE DEF mid, new
<1>5. /\ new.consumer = mid.consumer /\ new.over = mid.over /\ new.threw = mid.threw
      /\ new.stream = mid.stream
  BY <1>3, <1>4 DEF KnownRun
<1>. QED
  BY <1>3, <1>5, SpeaksSame DEF new

LEMMA FinishToolSpeaks ==
  ASSUME NEW n \in Nat, NEW run \in KnownRun(n), run.context # <<>>, NEW k \in Nat
  PROVE  Speaks(run, FinishTool(run, k))
<1>. DEFINE m == Result(Last(run.context), k)
            one == Event("tool_end", m)
            two == Event("message_end", m)
            evs == <<one, two>>
            mid == Push(run, evs)
            new == FinishTool(run, k)
<1>1. m \in Known(n)
  <2>1. Last(run.context) \in Known(n)
    BY FrontLast DEF KnownRun
  <2>. QED
    BY <2>1, KnownMessages
<1>2. evs \in Seq(Plain) /\ evs \in Seq(KnownEvent(n))
  <2>. HIDE DEF m
  <2>1. one \in Plain /\ two \in Plain
    BY <1>1, PlainEvent
  <2>2. one \in KnownEvent(n) /\ two \in KnownEvent(n)
    BY <1>1, OneEvent
  <2>. HIDE DEF one, two
  <2>. QED
    BY <2>1, <2>2
<1>3. mid \in KnownRun(n) /\ Speaks(run, mid)
  <2>. HIDE DEF evs
  <2>. QED
    BY <1>2, PushDoes, PushSpeaks
<1>4. new = [mid EXCEPT !.results = Append(mid.results, m)]
  BY DEF FinishTool
<1>. HIDE DEF mid, new, m
<1>5. /\ new.consumer = mid.consumer /\ new.over = mid.over /\ new.threw = mid.threw
      /\ new.stream = mid.stream
  BY <1>3, <1>4 DEF KnownRun
<1>. QED
  BY <1>3, <1>5, SpeaksSame DEF new

LEMMA SkipToolsSpeaks ==
  ASSUME NEW n \in Nat, NEW run \in KnownRun(n), run.context # <<>>,
         NEW k \in Nat, 1 <= k, k <= Last(run.context).n + 1
  PROVE  Speaks(run, SkipTools(run, k))
<1>. DEFINE a == Last(run.context)
            sk == Skipped(a, k)
            evs == FlattenSeq(Skips(sk))
            mid == Push(run, evs)
            new == SkipTools(run, k)
<1>1. sk \in Seq(Known(n))
  <2>1. a \in Known(n)
    BY FrontLast DEF KnownRun
  <2>. HIDE DEF a
  <2>. QED
    BY <2>1, SkippedType DEF a
<1>2. evs \in Seq(Plain) /\ evs \in Seq(KnownEvent(n))
  <2>1. ToolEvents(Known(n)) \subseteq KnownEvent(n) /\ ToolEvents(Known(n)) \subseteq Plain
    BY DEF ToolEvents, KnownEvent, Plain, Known
  <2>. HIDE DEF sk
  <2>2. evs \in Seq(ToolEvents(Known(n)))
    BY <1>1, FlightSkips
  <2>. QED
    BY <2>1, <2>2, SeqMonotone
<1>3. mid \in KnownRun(n) /\ Speaks(run, mid)
  <2>. HIDE DEF evs
  <2>. QED
    BY <1>2, PushDoes, PushSpeaks
<1>4. new = [mid EXCEPT !.results = mid.results \o sk]
  <2>1. Skips(sk) = [i \in DOMAIN sk |-> <<Event("tool_start", sk[i]), Event("tool_end", sk[i]),
                                           Event("message_end", sk[i])>>]
    <3>1. DOMAIN sk = 1 .. Len(sk)
      BY <1>1
    <3>. HIDE DEF sk
    <3>. QED
      BY <3>1 DEF Skips, SkipOf
  <2>. QED
    BY <2>1 DEF SkipTools, Skipped
<1>. HIDE DEF mid, new, sk
<1>5. /\ new.consumer = mid.consumer /\ new.over = mid.over /\ new.threw = mid.threw
      /\ new.stream = mid.stream
  BY <1>3, <1>4 DEF KnownRun
<1>. QED
  BY <1>3, <1>5, SpeaksSame DEF new

LEMMA FinalisedSpeaks ==
  ASSUME NEW n \in Nat, NEW run \in KnownRun(n), NEW m \in Known(n)
  PROVE  Speaks(run, Finalised(run, m))
<1>. DEFINE evs == Ends(<<m>>)
            mid == Push(run, evs)
            new == Finalised(run, m)
<1>1. evs \in Seq(Plain) /\ evs \in Seq(KnownEvent(n))
  <2>1. <<m>> \in Seq(Known(n))
    OBVIOUS
  <2>. QED
    BY <2>1, PlainEnds, EndsKnown
<1>2. mid \in KnownRun(n) /\ Speaks(run, mid)
  BY <1>1, PushDoes, PushSpeaks
<1>3. new = [mid EXCEPT !.context = Append(Complete(run), m)]
  BY DEF Finalised, Complete
<1>. HIDE DEF mid, new
<1>4. /\ new.consumer = mid.consumer /\ new.over = mid.over /\ new.threw = mid.threw
      /\ new.stream = mid.stream
  BY <1>2, <1>3 DEF KnownRun
<1>. QED
  BY <1>2, <1>4, SpeaksSame DEF new

LEMMA StartingSpeaks ==
  ASSUME NEW n \in Nat, NEW run \in KnownRun(n), NEW m \in Known(n)
  PROVE  Speaks(run, Starting(run, m))
<1>. DEFINE evs == <<Event("message_start", m)>>
            mid == Push(run, evs)
            new == Starting(run, m)
<1>1. evs \in Seq(Plain) /\ evs \in Seq(KnownEvent(n))
  BY OnePlain
<1>2. mid \in KnownRun(n) /\ Speaks(run, mid)
  BY <1>1, PushDoes, PushSpeaks
<1>3. new = [mid EXCEPT !.context = Append(mid.context, m), !.phase = "streaming"]
  BY DEF Starting
<1>. HIDE DEF mid, new
<1>4. /\ new.consumer = mid.consumer /\ new.over = mid.over /\ new.threw = mid.threw
      /\ new.stream = mid.stream
  BY <1>2, <1>3 DEF KnownRun
<1>. QED
  BY <1>2, <1>4, SpeaksSame DEF new

\* new is run after a step of its loop.
Says(run, new) ==
  /\ new.consumer = run.consumer /\ new.over = run.over /\ new.threw = run.threw
  /\ run.consumer = "gone" => new.stream = run.stream
  /\ run.stream \in Seq(Plain) => EndsLast(new)

LEMMA SpeaksSays ==
  ASSUME NEW run, NEW new, Speaks(run, new), new.phase # "ended"
  PROVE  Says(run, new)
  BY DEF Speaks, Says, EndsLast

\* What the end of a run says is its last event.
LEMMA EndRunSays ==
  ASSUME NEW n \in Nat, NEW run \in KnownRun(n), run.context # <<>>
  PROVE  Says(run, EndRun(run))
<1>. DEFINE ev == Event("agent_end", Last(run.context))
            mid == Push(run, <<ev>>)
            new == EndRun(run)
<1>1. new = [mid EXCEPT !.phase = "ended"]
  BY DEF EndRun
<1>2. /\ mid.consumer = run.consumer /\ mid.over = run.over /\ mid.threw = run.threw
      /\ mid.stream = IF run.consumer = "gone" THEN run.stream ELSE run.stream \o <<ev>>
  BY DEF Push, KnownRun
<1>3. mid \in KnownRun(n)
  <2>1. Last(run.context) \in Known(n)
    BY FrontLast DEF KnownRun
  <2>2. <<ev>> \in Seq(KnownEvent(n))
    BY <2>1, OneEvent
  <2>. HIDE DEF ev
  <2>. QED
    BY <2>2, PushDoes
<1>. HIDE DEF mid, new, ev
<1>4. /\ new.consumer = mid.consumer /\ new.over = mid.over /\ new.threw = mid.threw
      /\ new.stream = mid.stream /\ new.phase = "ended"
  BY <1>1, <1>3 DEF KnownRun
<1>5. ASSUME run.stream \in Seq(Plain)
      PROVE  EndsLast(new)
  <2>1. \A i \in 1 .. Len(run.stream) : run.stream[i].type # "agent_end"
    <3>1. \A i \in 1 .. Len(run.stream) : run.stream[i] \in Plain
      BY <1>5
    <3>. QED
      BY <3>1 DEF Plain
  <2>2. ASSUME run.consumer # "gone", NEW i \in 1 .. Len(new.stream),
               new.stream[i].type = "agent_end"
        PROVE  i = Len(new.stream)
    <3>1. new.stream = run.stream \o <<ev>>
      BY <1>2, <1>4, <2>2
    <3>2. /\ Len(new.stream) = Len(run.stream) + 1 /\ Len(run.stream) \in Nat
          /\ \A j \in 1 .. Len(run.stream) : new.stream[j] = run.stream[j]
      BY <1>5, <3>1
    <3>3. i \notin 1 .. Len(run.stream)
      BY <2>1, <2>2, <3>2
    <3>. QED
      BY <2>2, <3>2, <3>3
  <2>. QED
    BY <1>2, <1>4, <2>1, <2>2 DEF EndsLast
<1>. QED
  BY <1>2, <1>4, <1>5 DEF Says, new

\* A poll takes messages, and says nothing.
LEMMA PollSpeaks ==
  ASSUME NEW n \in Nat, NEW run, NEW mid \in KnownRun(n), Speaks(run, mid),
         NEW p \in {"polled", "toolPolled", "followUpPolled"}, NEW t,
         NEW new, new = [[mid EXCEPT !.phase = p] EXCEPT !.pending = t]
  PROVE  Says(run, new)
<1>1. /\ new.consumer = mid.consumer /\ new.over = mid.over /\ new.threw = mid.threw
      /\ new.stream = mid.stream /\ new.phase = p
  BY DEF KnownRun
<1>2. Speaks(run, new)
  BY <1>1, SpeaksSame
<1>. QED
  BY <1>1, <1>2, SpeaksSays

LEMMA FailureSays ==
  ASSUME NEW n \in Nat, NEW run, RunOK(run, n), run.phase \in {"model", "streaming"},
         NEW a \in Known(n)
  PROVE  Says(run, EndRun(EndTurn(Finalised(run, a))))
<1>. DEFINE done == Finalised(run, a)
            mid == EndTurn(done)
            new == EndRun(mid)
<1>1. /\ run \in KnownRun(n) /\ run.context # <<>> /\ run.results = <<>>
      /\ Complete(run) \in Seq(Known(n))
  BY Waiting
<1>2. /\ done \in KnownRun(n) /\ Speaks(run, done)
      /\ done.context = Append(Complete(run), a) /\ done.results = <<>>
  BY <1>1, FinalisedDoes, FinalisedSpeaks
<1>. HIDE DEF done
<1>3. done.context # <<>> /\ done.context \o <<>> = done.context
  <2>1. Append(Complete(run), a) \in Seq(Known(n)) /\ Append(Complete(run), a) # <<>>
    BY <1>1
  <2>. QED
    BY <1>2, <2>1, ConcatEmpty
<1>4. mid \in KnownRun(n) /\ mid.context = done.context /\ Speaks(done, mid)
  <2>1. mid \in KnownRun(n) /\ mid.context = done.context \o done.results /\ Speaks(done, mid)
    BY <1>2, <1>3, EndTurnDoes, EndTurnSpeaks
  <2>. QED
    BY <1>2, <1>3, <2>1
<1>. HIDE DEF mid
<1>5. Speaks(run, mid)
  BY <1>2, <1>4, SpeaksBoth
<1>6. Says(mid, new)
  BY <1>3, <1>4, EndRunSays
<1>. HIDE DEF new
<1>. QED
  BY <1>5, <1>6 DEF Speaks, Says, new, mid, done

LEMMA AnswerSays ==
  ASSUME NEW n \in Nat, NEW run, RunOK(run, n), run.phase \in {"model", "streaming"},
         NEW a \in Known(n), NEW more \in BOOLEAN, NEW done,
         done = [Finalised(run, a) EXCEPT !.more = more]
  PROVE  /\ done \in KnownRun(n) /\ done.context # <<>> /\ Speaks(run, done)
<1>. DEFINE mid == Finalised(run, a)
<1>1. run \in KnownRun(n) /\ run.context # <<>> /\ Complete(run) \in Seq(Known(n))
  BY Waiting
<1>2. mid \in KnownRun(n) /\ Speaks(run, mid) /\ mid.context = Append(Complete(run), a)
  BY <1>1, FinalisedDoes, FinalisedSpeaks
<1>3. done = [mid EXCEPT !.more = more]
  OBVIOUS
<1>. HIDE DEF mid
<1>4. /\ done \in KnownRun(n) /\ done.context = Append(Complete(run), a)
      /\ done.consumer = mid.consumer /\ done.over = mid.over /\ done.threw = mid.threw
      /\ done.stream = mid.stream
  BY <1>2, <1>3 DEF KnownRun
<1>5. Append(Complete(run), a) # <<>>
  BY <1>1
<1>. QED
  BY <1>2, <1>4, <1>5, SpeaksSame

LEMMA SteeredSays ==
  ASSUME NEW n \in Nat, NEW run, RunOK(run, n), run.phase = "toolPolled"
  PROVE  Says(run, CallModel(EndTurn(SkipTools(run, Len(run.results) + 1))))
<1>. DEFINE k == Len(run.results) + 1
            a == Last(run.context)
            skip == SkipTools(run, k)
            mid == EndTurn(skip)
            new == CallModel(mid)
<1>1. /\ run \in KnownRun(n) /\ run.context # <<>> /\ a \in Known(n) /\ a.n \in Nat
      /\ run.results \in Seq(Known(n)) /\ Len(run.results) \in Nat /\ Len(run.results) <= a.n
  BY InCalls DEF Calling
<1>2. k \in Nat /\ 1 <= k /\ k <= a.n + 1
  BY <1>1
<1>. HIDE DEF k
<1>3. skip \in KnownRun(n) /\ skip.context = run.context /\ Speaks(run, skip)
  BY <1>1, <1>2, SkipToolsDoes, SkipToolsSpeaks
<1>. HIDE DEF skip
<1>4. mid \in KnownRun(n) /\ Speaks(skip, mid)
  BY <1>1, <1>3, EndTurnDoes, EndTurnSpeaks
<1>. HIDE DEF mid
<1>5. Speaks(mid, new) /\ new.phase = "model"
  BY <1>4, CallModelDoes, CallModelSpeaks
<1>. HIDE DEF new
<1>6. Speaks(run, new)
  BY <1>3, <1>4, <1>5, SpeaksBoth
<1>. QED
  BY <1>5, <1>6, SpeaksSays DEF new, mid, skip, k

\* What a step of a loop says.
LEMMA ProduceSays ==
  ASSUME TypeInv, NEW r \in Started, Produce(r)
  PROVE  /\ runs[r].phase # "ended"
         /\ \E new : runs' = [runs EXCEPT ![r] = new] /\ Says(runs[r], new)
<1>. DEFINE run == runs[r]
            n == sent
            Goal == \E new : runs' = [runs EXCEPT ![r] = new] /\ Says(run, new)
<1>0. n \in Nat /\ RunOK(run, n) /\ turns \in Nat /\ run \in KnownRun(n) /\ run.context # <<>>
  BY SentKnown DEF TypeInv, RunOK
<1>1. Speaks(run, run)
  BY DEF Speaks
<1>2. run.phase # "ended"
  BY DEF Produce, AfterPoll, AfterFollowUpPoll, ModelStarts, ModelFails, ModelAnswers,
         ToolFinishes, AfterToolPoll
<1>. HIDE DEF run
<1>3. ASSUME AfterPoll(r) PROVE Goal
  <2>1. CASE runs' = [runs EXCEPT ![r] = CallModel(run)]
    <3>1. Speaks(run, CallModel(run)) /\ CallModel(run).phase = "model"
      BY <1>0, CallModelDoes, CallModelSpeaks
    <3>. QED
      BY <2>1, <3>1, SpeaksSays
  <2>2. CASE PollFollowUp(r, [run EXCEPT !.phase = "followUpPolled"])
    <3>. DEFINE t == Taken(followUpQueue, FollowUpMode)
                new == [[run EXCEPT !.phase = "followUpPolled"] EXCEPT !.pending = t]
    <3>1. runs' = [runs EXCEPT ![r] = new]
      BY <2>2 DEF PollFollowUp
    <3>. HIDE DEF t
    <3>2. Says(run, new)
      BY <1>0, <1>1, PollSpeaks
    <3>. QED
      BY <3>1, <3>2
  <2>. QED
    BY <1>3, <2>1, <2>2 DEF AfterPoll, run
<1>4. ASSUME AfterFollowUpPoll(r) PROVE Goal
  <2>1. CASE runs' = [runs EXCEPT ![r] = CallModel(run)]
    <3>1. Speaks(run, CallModel(run)) /\ CallModel(run).phase = "model"
      BY <1>0, CallModelDoes, CallModelSpeaks
    <3>. QED
      BY <2>1, <3>1, SpeaksSays
  <2>2. CASE runs' = [runs EXCEPT ![r] = EndRun(run)]
    BY <1>0, <2>2, EndRunSays
  <2>. QED
    BY <1>4, <2>1, <2>2 DEF AfterFollowUpPoll, run
<1>5. ASSUME ModelStarts(r) PROVE Goal
  <2>. DEFINE a == Assistant(turns + 1, 0, "partial")
  <2>1. run.phase = "model" /\ runs' = [runs EXCEPT ![r] = Starting(run, a)]
    BY <1>5 DEF ModelStarts, Starting, run
  <2>2. a \in Known(n)
    BY <1>0, KnownMessages
  <2>. HIDE DEF a
  <2>3. Speaks(run, Starting(run, a))
    BY <1>0, <2>2, StartingSpeaks
  <2>4. Starting(run, a).phase = "streaming"
    BY <1>0 DEF Starting, Push, KnownRun
  <2>. QED
    BY <2>1, <2>3, <2>4, SpeaksSays
<1>6. ASSUME ModelFails(r) PROVE Goal
  <2>1. PICK k \in 0 .. MaxCalls :
          LET done == Finalised(run, Assistant(MessageId(run), k, "error"))
          IN  /\ run.phase \in {"model", "streaming"}
              /\ runs' = [runs EXCEPT ![r] = EndRun(EndTurn(done))]
    BY <1>6 DEF ModelFails, run
  <2>2. MessageId(run) \in Nat /\ k \in Nat
    BY <1>0, <2>1, Waiting, AgentAssumption DEF MessageId
  <2>. DEFINE a == Assistant(MessageId(run), k, "error")
  <2>3. a \in Known(n)
    BY <1>0, <2>2, KnownMessages
  <2>. HIDE DEF a
  <2>4. Says(run, EndRun(EndTurn(Finalised(run, a))))
    BY <1>0, <2>1, <2>3, FailureSays
  <2>. QED
    BY <2>1, <2>4 DEF a
<1>7. ASSUME ModelAnswers(r) PROVE Goal
  <2>1. PICK k \in 0 .. MaxCalls :
          LET done == [Finalised(run, Assistant(MessageId(run), k, "stop")) EXCEPT !.more = k > 0]
          IN  /\ run.phase \in {"model", "streaming"}
              /\ \/ runs' = [runs EXCEPT ![r] = StartTool(done, 1)]
                 \/ PollSteering(r, [EndTurn(done) EXCEPT !.phase = "polled"])
    BY <1>7 DEF ModelAnswers, run
  <2>2. MessageId(run) \in Nat /\ k \in Nat
    BY <1>0, <2>1, Waiting, AgentAssumption DEF MessageId
  <2>. DEFINE a == Assistant(MessageId(run), k, "stop")
              more == k > 0
              done == [Finalised(run, a) EXCEPT !.more = more]
  <2>3. a \in Known(n) /\ more \in BOOLEAN
    BY <1>0, <2>2, KnownMessages
  <2>4. done = [Finalised(run, a) EXCEPT !.more = more]
    OBVIOUS
  <2>. HIDE DEF a, more, done
  <2>5. done \in KnownRun(n) /\ done.context # <<>> /\ Speaks(run, done)
    BY <1>0, <2>1, <2>3, <2>4, AnswerSays
  <2>6. CASE runs' = [runs EXCEPT ![r] = StartTool(done, 1)]
    <3>. DEFINE new == StartTool(done, 1)
    <3>1. Speaks(done, new) /\ new.phase = "tool"
      BY <1>0, <2>5, StartToolDoes, StartToolSpeaks
    <3>. HIDE DEF new
    <3>2. Says(run, new)
      BY <2>5, <3>1, SpeaksBoth, SpeaksSays
    <3>. QED
      BY <2>6, <3>2 DEF new
  <2>7. CASE PollSteering(r, [EndTurn(done) EXCEPT !.phase = "polled"])
    <3>. DEFINE t == Taken(steeringQueue, SteeringMode)
                mid == EndTurn(done)
                new == [[mid EXCEPT !.phase = "polled"] EXCEPT !.pending = t]
    <3>1. runs' = [runs EXCEPT ![r] = new]
      BY <2>7 DEF PollSteering
    <3>2. mid \in KnownRun(n) /\ Speaks(done, mid)
      BY <1>0, <2>5, EndTurnDoes, EndTurnSpeaks
    <3>. HIDE DEF t, mid
    <3>3. Says(run, new)
      <4>1. Speaks(run, mid)
        BY <2>5, <3>2, SpeaksBoth
      <4>. QED
        BY <1>0, <3>2, <4>1, PollSpeaks
    <3>. QED
      BY <3>1, <3>3
  <2>. QED
    BY <2>1, <2>6, <2>7 DEF done, more, a
<1>8. ASSUME ToolFinishes(r) PROVE Goal
  <2>. DEFINE t == Taken(steeringQueue, SteeringMode)
              k == Len(run.results) + 1
              mid == FinishTool(run, k)
              new == [[mid EXCEPT !.phase = "toolPolled"] EXCEPT !.pending = t]
  <2>1. runs' = [runs EXCEPT ![r] = new]
    BY <1>8 DEF ToolFinishes, PollSteering, run
  <2>2. k \in Nat
    BY <1>0 DEF KnownRun
  <2>. HIDE DEF k
  <2>3. mid \in KnownRun(n) /\ Speaks(run, mid)
    BY <1>0, <2>2, FinishToolDoes, FinishToolSpeaks
  <2>. HIDE DEF t, mid
  <2>4. Says(run, new)
    BY <1>0, <2>3, PollSpeaks
  <2>. QED
    BY <2>1, <2>4
<1>9. ASSUME AfterToolPoll(r) PROVE Goal
  <2>. DEFINE k == Len(run.results) + 1
  <2>1. run.phase = "toolPolled" /\ k \in Nat
    BY <1>0, <1>9 DEF AfterToolPoll, run, KnownRun
  <2>2. CASE runs' = [runs EXCEPT ![r] = CallModel(EndTurn(SkipTools(run, k)))]
    BY <1>0, <2>1, <2>2, SteeredSays
  <2>3. CASE runs' = [runs EXCEPT ![r] = StartTool(run, k)]
    <3>. DEFINE new == StartTool(run, k)
    <3>1. Speaks(run, new) /\ new.phase = "tool"
      <4>. HIDE DEF k
      <4>. QED
        BY <1>0, <2>1, StartToolDoes, StartToolSpeaks
    <3>. HIDE DEF new
    <3>. QED
      BY <2>3, <3>1, SpeaksSays DEF new
  <2>4. CASE PollSteering(r, [EndTurn(run) EXCEPT !.phase = "polled"])
    <3>. DEFINE t == Taken(steeringQueue, SteeringMode)
                mid == EndTurn(run)
                new == [[mid EXCEPT !.phase = "polled"] EXCEPT !.pending = t]
    <3>1. runs' = [runs EXCEPT ![r] = new]
      BY <2>4 DEF PollSteering
    <3>2. mid \in KnownRun(n) /\ Speaks(run, mid)
      BY <1>0, EndTurnDoes, EndTurnSpeaks
    <3>. HIDE DEF t, mid
    <3>3. Says(run, new)
      BY <1>0, <3>2, PollSpeaks
    <3>. QED
      BY <3>1, <3>3
  <2>. QED
    BY <1>9, <2>2, <2>3, <2>4 DEF AfterToolPoll, run
<1>. QED
  BY <1>2, <1>3, <1>4, <1>5, <1>6, <1>7, <1>8, <1>9 DEF Produce, run
-----------------------------------------------------------------------------
(* Who holds the controller and the promise.                               *)

Busy(run) == run.phase # "ended" \/ run.stream # <<>>

\* A run that is left alone either had its last event taken, or a listener threw.
Told(run) ==
  IF run.consumer = "active" THEN EndsLast(run)
  ELSE run.stream = <<>> /\ (run.threw \/ run.phase = "ended")

\* A run that began when no other was left, and is not over, is the only one.
Alone(r) ==
  runs[r].over = {} /\ runs[r].consumer = "active" /\ Busy(runs[r])
  => Active = {r} /\ abortController = r /\ runningPrompt = r /\ isStreaming

ReachInv == \A r \in Started : Told(runs[r]) /\ Alone(r)

\* One run changes, and not its consumer.
LEMMA ReachOne ==
  ASSUME TypeInv, ReachInv, NEW r \in Started, NEW new,
         runs' = [runs EXCEPT ![r] = new], new.consumer = runs[r].consumer,
         new.over = runs[r].over, Told(new), Busy(new) => Busy(runs[r]),
         UNCHANGED ownership, isStreaming' = isStreaming \/ (r \in Active /\ ~Busy(new))
  PROVE  ReachInv'
<1>1. /\ Started' = Started /\ Active' = Active
      /\ runs'[r] = new /\ \A q \in Started : q # r => runs'[q] = runs[q]
  BY SameActive DEF TypeInv
<1>2. \A q \in Started : Told(runs'[q])
  BY <1>1 DEF ReachInv
<1>3. ASSUME NEW q \in Started, runs'[q].over = {}, runs'[q].consumer = "active", Busy(runs'[q])
      PROVE  Active' = {q} /\ abortController' = q /\ runningPrompt' = q /\ isStreaming'
  <2>1. runs[q].over = {} /\ runs[q].consumer = "active" /\ Busy(runs[q])
    BY <1>1, <1>3
  <2>2. Active = {q} /\ abortController = q /\ runningPrompt = q /\ isStreaming
    BY <2>1 DEF ReachInv, Alone
  <2>3. ~(r \in Active /\ ~Busy(new))
    BY <1>1, <1>3, <2>2
  <2>4. isStreaming'
    BY <2>2, <2>3
  <2>. QED
    BY <1>1, <2>2, <2>4 DEF ownership
<1>4. \A q \in Started' : Told(runs'[q]) /\ Alone(q)'
  BY <1>1, <1>2, <1>3 DEF Alone
<1>. QED
  BY <1>4 DEF ReachInv, Told, EndsLast

\* A step of a loop.
LEMMA ReachProduce ==
  ASSUME TypeInv, ReachInv, NEW r \in Started, Produce(r)
  PROVE  ReachInv'
<1>1. PICK new : runs' = [runs EXCEPT ![r] = new] /\ Says(runs[r], new)
  BY ProduceSays
<1>2. runs[r].phase # "ended" /\ UNCHANGED <<state, ownership>>
  BY ProduceSays, ProduceKeeps
<1>3. Told(runs[r]) /\ runs[r].consumer \in {"active", "gone"}
  BY DEF ReachInv, TypeInv, RunOK, KnownRun
<1>4. new.consumer = runs[r].consumer /\ new.over = runs[r].over
  BY <1>1 DEF Says
<1>5. Told(new)
  <2>1. CASE runs[r].consumer = "active"
    <3>1. runs[r].stream \in Seq(Plain)
      BY <1>2, <1>3, <2>1 DEF Told, EndsLast
    <3>. QED
      BY <1>1, <2>1, <3>1 DEF Told, Says
  <2>2. CASE runs[r].consumer = "gone"
    BY <1>1, <1>2, <1>3, <2>2 DEF Told, Says
  <2>. QED
    BY <1>3, <2>1, <2>2
<1>6. Busy(runs[r]) /\ isStreaming' = isStreaming
  BY <1>2 DEF Busy, state
<1>. QED
  BY <1>1, <1>2, <1>4, <1>5, <1>6, ReachOne

LEMMA TailPlain ==
  ASSUME NEW T, NEW s \in Seq(T), s # <<>>
  PROVE  /\ Tail(s) \in Seq(T) /\ Head(s) = s[1] /\ Len(s) \in Nat /\ Len(s) >= 1 /\ Head(s) \in T
         /\ Len(Tail(s)) = Len(s) - 1 /\ \A i \in 1 .. Len(Tail(s)) : Tail(s)[i] = s[i + 1]
  OBVIOUS

\* The consumer takes an event.
LEMMA ReachConsume ==
  ASSUME TypeInv, ReachInv, NEW r \in Started, Consume(r)
  PROVE  ReachInv'
<1>. DEFINE run == runs[r]
            new == [run EXCEPT !.stream = Tail(run.stream)]
            ev == Head(run.stream)
<1>1. /\ run.consumer = "active" /\ run.stream # <<>> /\ runs' = [runs EXCEPT ![r] = new]
      /\ isStreaming' = (isStreaming /\ ev.type # "agent_end") /\ UNCHANGED ownership
  BY DEF Consume, Apply
<1>2. RunOK(run, sent) /\ sent \in Nat /\ EndsLast(run)
  BY <1>1, SentKnown DEF TypeInv, ReachInv, Told
<1>3. /\ new.consumer = run.consumer /\ new.stream = Tail(run.stream)
      /\ new.phase = run.phase /\ new.over = run.over
      /\ run.stream \in Seq(KnownEvent(sent))
  <2>1. new = [run EXCEPT !.stream = Tail(run.stream)]
    OBVIOUS
  <2>2. run \in KnownRun(sent)
    BY <1>2 DEF RunOK
  <2>. HIDE DEF run, new
  <2>. QED
    BY <2>1, <2>2 DEF KnownRun
<1>. HIDE DEF run, new
<1>4. /\ Tail(run.stream) \in Seq(KnownEvent(sent)) /\ ev = run.stream[1]
      /\ Len(run.stream) \in Nat /\ Len(run.stream) >= 1
      /\ Len(Tail(run.stream)) = Len(run.stream) - 1
      /\ \A i \in 1 .. Len(Tail(run.stream)) : Tail(run.stream)[i] = run.stream[i + 1]
  BY <1>1, <1>3, TailPlain
<1>5. EndsLast(new)
  <2>1. CASE run.phase = "ended"
    <3>1. ASSUME NEW i \in 1 .. Len(new.stream), new.stream[i].type = "agent_end"
          PROVE  i = Len(new.stream)
      <4>1. i + 1 \in 1 .. Len(run.stream) /\ run.stream[i + 1].type = "agent_end"
        BY <1>3, <1>4, <3>1
      <4>2. i + 1 = Len(run.stream)
        BY <1>2, <2>1, <4>1 DEF EndsLast
      <4>. QED
        BY <1>3, <1>4, <3>1, <4>2
    <3>. QED
      BY <1>3, <2>1, <3>1 DEF EndsLast
  <2>2. CASE run.phase # "ended"
    <3>1. run.stream \in Seq(Plain)
      BY <1>2, <2>2 DEF EndsLast
    <3>2. Tail(run.stream) \in Seq(Plain)
      BY <1>1, <3>1, TailPlain
    <3>. QED
      BY <1>3, <2>2, <3>2 DEF EndsLast
  <2>. QED
    BY <2>1, <2>2
<1>6. ASSUME ev.type = "agent_end" PROVE ~Busy(new)
  <2>1. run.phase = "ended"
    <3>. SUFFICES ASSUME run.phase # "ended" PROVE FALSE
      OBVIOUS
    <3>1. run.stream \in Seq(Plain)
      BY <1>2 DEF EndsLast
    <3>2. ev \in Plain
      BY <1>1, <3>1, TailPlain
    <3>. QED
      BY <1>6, <3>2 DEF Plain
  <2>2. Len(run.stream) = 1
    <3>1. 1 \in 1 .. Len(run.stream)
      BY <1>4
    <3>. QED
      BY <1>2, <1>4, <1>6, <2>1, <3>1 DEF EndsLast
  <2>3. Tail(run.stream) = <<>>
    BY <1>4, <2>2, LengthZero, 1 - 1 = 0
  <2>. QED
    BY <1>3, <2>1, <2>3 DEF Busy
<1>7. Told(new) /\ (Busy(new) => Busy(run))
  BY <1>1, <1>3, <1>5 DEF Told, Busy
<1>8. r \in Active /\ isStreaming \in BOOLEAN
  BY <1>1 DEF Active, TypeInv, run
<1>9. isStreaming' = isStreaming \/ (r \in Active /\ ~Busy(new))
  BY <1>1, <1>6, <1>8
<1>. QED
  BY <1>1, <1>3, <1>7, <1>9, ReachOne DEF run

\* The consumer leaves: no other run may have been alone.
LEMMA ReachLeave ==
  ASSUME TypeInv, ReachInv, NEW r \in Started, Finish(r) \/ ListenerThrows(r)
  PROVE  ReachInv'
<1>1. PICK throws \in BOOLEAN : Leave(r, throws) /\ (throws \/ runs[r].phase = "ended")
  BY DEF Finish, ListenerThrows
<1>2. /\ Started' = Started /\ r \in Active
      /\ \A q \in Started :
           /\ runs'[q].phase = runs[q].phase
           /\ runs'[q].consumer = IF q = r THEN "gone" ELSE runs[q].consumer
           /\ runs'[q].stream = IF q = r THEN <<>> ELSE runs[q].stream
           /\ runs'[q].over = runs[q].over
           /\ runs'[q].threw = IF q = r THEN throws ELSE runs[q].threw
  BY <1>1, LeaveDoes DEF Finish, ListenerThrows, Active
<1>3. ASSUME NEW q \in Started PROVE Told(runs'[q])
  <2>1. CASE q = r
    BY <1>1, <1>2, <2>1 DEF Told
  <2>2. CASE q # r
    <3>1. Told(runs[q])
      BY DEF ReachInv
    <3>. QED
      BY <1>2, <2>2, <3>1 DEF Told, EndsLast
  <2>. QED
    BY <2>1, <2>2
<1>4. ASSUME NEW q \in Started, runs'[q].over = {}, runs'[q].consumer = "active", Busy(runs'[q])
      PROVE  FALSE
  <2>1. q # r /\ runs[q].over = {} /\ runs[q].consumer = "active" /\ Busy(runs[q])
    BY <1>2, <1>4 DEF Busy
  <2>2. Active = {q}
    BY <2>1 DEF ReachInv, Alone
  <2>. QED
    BY <1>2, <2>1, <2>2
<1>5. \A q \in Started' : Told(runs'[q]) /\ Alone(q)'
  BY <1>2, <1>3, <1>4 DEF Alone
<1>. QED
  BY <1>5 DEF ReachInv, Told, EndsLast

\* A run begins: no other may be alone, for then the agent is streaming.
LEMMA ReachStart ==
  ASSUME TypeInv, ReachInv, NEW ms, NEW t, NEW n, Starts(ms, t, n)
  PROVE  ReachInv'
<1>. DEFINE new == Begun(messages, ms, t)
            r == Len(runs) + 1
<1>1. /\ runs' = Append(runs, new) /\ ~isStreaming /\ isStreaming'
      /\ abortController' = r /\ runningPrompt' = r
      /\ n \in Nat /\ ms \in Seq(FromUsers(n))
  BY DEF Starts, MayStart
<1>2. /\ new.consumer = "active" /\ new.over = Active /\ new.phase = "polled"
      /\ new.stream = Ends(ms)
  BY DEF Begun
<1>. HIDE DEF new
<1>3. Told(new)
  <2>1. ms \in Seq(Known(n))
    BY <1>1, KnownMessages, SeqMonotone
  <2>. QED
    BY <1>2, <2>1, PlainEnds DEF Told, EndsLast
<1>4. runs \in Seq(KnownRun(sent) \cup {new})
  <2>1. KnownRun(sent) \subseteq KnownRun(sent) \cup {new}
    OBVIOUS
  <2>. QED
    BY <2>1, SeqMonotone DEF TypeInv
<1>5. /\ Started' = Started \cup {r} /\ Active' = Active \cup {r}
      /\ runs'[r] = new /\ \A q \in Started : runs'[q] = runs[q]
  <2>1. new \in KnownRun(sent) \cup {new}
    OBVIOUS
  <2>. QED
    BY <1>1, <1>2, <1>4, <2>1, RunBegins
<1>. HIDE DEF r
<1>6. ASSUME NEW q \in Started, runs'[q].over = {}, runs'[q].consumer = "active", Busy(runs'[q])
      PROVE  FALSE
  <2>1. isStreaming
    BY <1>5, <1>6 DEF ReachInv, Alone
  <2>. QED
    BY <1>1, <2>1
<1>7. \A q \in Started' : Told(runs'[q])
  BY <1>3, <1>5 DEF ReachInv
<1>8. \A q \in Started' : Alone(q)'
  BY <1>1, <1>2, <1>5, <1>6 DEF Alone
<1>. QED
  BY <1>7, <1>8 DEF ReachInv, Told, EndsLast

\* A step that leaves the runs and their owners alone; the agent may stop
\* streaming when no run has a consumer.
LEMMA ReachSame ==
  ASSUME ReachInv, UNCHANGED <<ownership, runs>>, isStreaming' = isStreaming \/ Active = {}
  PROVE  ReachInv'
<1>1. Started' = Started /\ Active' = Active
  BY DEF Started, Active
<1>2. ASSUME NEW q \in Started, runs[q].over = {}, runs[q].consumer = "active", Busy(runs[q])
      PROVE  Active = {q} /\ abortController = q /\ runningPrompt = q /\ isStreaming'
  <2>1. Active = {q} /\ abortController = q /\ runningPrompt = q /\ isStreaming
    BY <1>2 DEF ReachInv, Alone
  <2>2. Active # {}
    BY <2>1
  <2>. QED
    BY <2>1, <2>2
<1>3. \A q \in Started' : Told(runs'[q]) /\ Alone(q)'
  BY <1>1, <1>2 DEF ReachInv, Alone, ownership
<1>. QED
  BY <1>3 DEF ReachInv, Told, EndsLast

LEMMA ReachStep ==
  ASSUME TypeInv, ReachInv, [Next]_vars
  PROVE  ReachInv'
<1>1. CASE UNCHANGED vars
  BY <1>1, ReachSame DEF vars, state
<1>2. CASE Prompt \/ Continue
  BY <1>2, PromptStarts, ContinueStarts, ReachStart
<1>3. CASE Steer \/ FollowUp \/ ClearAllQueues \/ DropFailedAnswer
  BY <1>3, ReachSame DEF Steer, FollowUp, ClearAllQueues, DropFailedAnswer, state
<1>4. CASE Reset
  BY <1>4, ReachSame DEF Reset
<1>5. CASE Abort
  <2>. DEFINE r == abortController
              new == [runs[r] EXCEPT !.aborted = TRUE]
  <2>1. /\ r \in Started /\ runs' = [runs EXCEPT ![r] = new]
        /\ new.consumer = runs[r].consumer /\ new.stream = runs[r].stream
        /\ new.phase = runs[r].phase /\ new.over = runs[r].over /\ new.threw = runs[r].threw
    BY <1>5, AbortDoes
  <2>. HIDE DEF new
  <2>2. UNCHANGED ownership /\ isStreaming' = isStreaming
    BY <1>5 DEF Abort, state
  <2>3. Told(runs[r])
    BY <2>1 DEF ReachInv
  <2>4. Told(new) /\ (Busy(new) => Busy(runs[r]))
    BY <2>1, <2>3 DEF Told, Busy, EndsLast
  <2>. QED
    BY <2>1, <2>2, <2>4, ReachOne
<1>6. ASSUME NEW r \in Started, Produce(r) PROVE ReachInv'
  BY <1>6, ReachProduce
<1>7. ASSUME NEW r \in Started, Consume(r) PROVE ReachInv'
  BY <1>7, ReachConsume
<1>8. ASSUME NEW r \in Started, Finish(r) \/ ListenerThrows(r) PROVE ReachInv'
  BY <1>8, ReachLeave
<1>. QED
  BY <1>1, <1>2, <1>3, <1>4, <1>5, <1>6, <1>7, <1>8 DEF Next, Call

(* While a run has work left, the controller and the promise are its own:   *)
(* abort() reaches it and waitForIdle() waits for it.  The exceptions are   *)
(* those of RunReachable, a run in which a listener threw and one begun     *)
(* when another was not over.  Nothing is assumed of the callers and the    *)
(* listeners.                                                               *)
THEOREM RunsAreReachable == Spec => []RunReachable
<1>1. Spec => [](TypeInv /\ ReachInv)
  <2>1. Init => TypeInv /\ ReachInv
    <3>1. Init => ReachInv
      BY DEF Init, ReachInv, Started
    <3>. QED
      BY <3>1, TypeInit
  <2>2. TypeInv /\ ReachInv /\ [Next]_vars => (TypeInv /\ ReachInv)'
    BY TypeStep, ReachStep
  <2>. QED
    BY <2>1, <2>2, PTL DEF Spec
<1>2. TypeInv /\ ReachInv => RunReachable
  <2>. SUFFICES ASSUME TypeInv, ReachInv, NEW r \in Started, Busy(runs[r])
                PROVE  \/ abortController = r /\ runningPrompt = r
                       \/ runs[r].threw \/ runs[r].over # {}
    BY DEF RunReachable, Busy
  <2>1. CASE runs[r].consumer = "active"
    BY <2>1 DEF ReachInv, Alone
  <2>2. CASE runs[r].consumer # "active"
    <3>1. Told(runs[r])
      BY DEF ReachInv
    <3>. QED
      BY <2>2, <3>1 DEF Told, Busy
  <2>. QED
    BY <2>1, <2>2
<1>. QED
  BY <1>1, <1>2, PTL
-----------------------------------------------------------------------------
(* The state of the agent and the context of the loop.                     *)

\* A run and its consumer agree on what the messages are.
Mirrors(msgs, run) == msgs \o InFlight(run) = Complete(run) \o run.results

\* What a step of a loop hands over is what it adds to its context.
LEMMA AdvanceMirrors ==
  ASSUME NEW n \in Nat, NEW msgs \in Seq(Known(n)), NEW run \in KnownRun(n), NEW new,
         NEW d, NEW t, Advances(run, new, d, t, n), run.consumer = "active", Mirrors(msgs, run)
  PROVE  Mirrors(msgs, new)
<1>1. /\ d \in Seq(Known(n)) /\ InFlight(new) = InFlight(run) \o d
      /\ Complete(new) \o new.results = (Complete(run) \o run.results) \o d
  BY DEF Advances, Hands
<1>2. InFlight(run) \in Seq(Known(n))
  BY InFlightType
<1>3. \A a, b, c \in Seq(Known(n)) : (a \o b) \o c = a \o (b \o c)
  BY ConcatAssoc
<1>4. (msgs \o InFlight(run)) \o d = msgs \o (InFlight(run) \o d)
  BY <1>1, <1>2, <1>3
<1>. QED
  BY <1>1, <1>4 DEF Mirrors

\* The consumer records what it is handed.
LEMMA ConsumeDoes ==
  ASSUME TypeInv, NEW r \in Started, Consume(r)
  PROVE  LET run == runs[r]
             new == runs'[r]
         IN  /\ messages' \o InFlight(new) = messages \o InFlight(run)
             /\ new.consumer = run.consumer /\ new.phase = run.phase
             /\ new.context = run.context /\ new.results = run.results
             /\ new.pending = run.pending
             /\ \A q \in Started : q # r => runs'[q] = runs[q]
             /\ Started' = Started /\ Active' = Active
<1>. DEFINE run == runs[r]
            new == [run EXCEPT !.stream = Tail(run.stream)]
            ev == Head(run.stream)
            rest == Tail(run.stream)
            x == IF ev.type = "message_end" THEN <<ev.message>> ELSE <<>>
<1>1. run.stream # <<>> /\ Apply(ev) /\ runs' = [runs EXCEPT ![r] = new]
  BY DEF Consume
<1>2. sent \in Nat /\ RunOK(run, sent) /\ messages \in Seq(Known(sent))
  BY SentKnown DEF TypeInv
<1>3. /\ new.consumer = run.consumer /\ new.stream = rest
      /\ new.phase = run.phase /\ new.pending = run.pending /\ new.context = run.context
      /\ new.results = run.results /\ ev \in KnownEvent(sent)
      /\ run.stream = <<ev>> \o rest /\ rest \in Seq(KnownEvent(sent))
  <2>1. new = [run EXCEPT !.stream = Tail(run.stream)]
    OBVIOUS
  <2>. HIDE DEF run, new
  <2>. QED
    BY <1>1, <1>2, <2>1, TakenEvent
<1>. HIDE DEF new
<1>4. /\ Started' = Started /\ Active' = Active
      /\ runs'[r] = new /\ \A q \in Started : q # r => runs'[q] = runs[q]
  BY <1>1, <1>3, SameActive DEF TypeInv
<1>. HIDE DEF ev, rest
<1>5. \A e \in KnownEvent(sent) : e.message \in Known(sent)
  BY DEF KnownEvent
<1>6. /\ FlightOf(<<ev>>) = x /\ x \in Seq(Known(sent)) /\ FlightOf(rest) \in Seq(Known(sent))
  <2>1. FlightOf(<<ev>>) = x
    BY <1>3, <1>5, FlightOne
  <2>2. x \in Seq(Known(sent))
    BY <1>3, <1>5
  <2>3. FlightOf(rest) \in Seq(Known(sent))
    BY <1>3, <1>5, FlightType
  <2>. QED
    BY <2>1, <2>2, <2>3
<1>7. messages' = messages \o x
  <2>1. messages' = IF ev.type = "message_end" THEN Append(messages, ev.message) ELSE messages
    BY <1>1 DEF Apply
  <2>2. /\ messages \o <<>> = messages
        /\ ev.message \in Known(sent) => messages \o <<ev.message>> = Append(messages, ev.message)
    BY <1>2, ConcatEmpty, ConcatAppend
  <2>. QED
    BY <1>3, <1>5, <2>1, <2>2
<1>. HIDE DEF x
<1>8. InFlight(run) = x \o FlightOf(rest) /\ InFlight(new) = FlightOf(rest)
  <2>1. <<ev>> \in Seq(KnownEvent(sent))
    BY <1>3
  <2>2. FlightOf(<<ev>> \o rest) = FlightOf(<<ev>>) \o FlightOf(rest)
    BY <1>3, <1>5, <2>1, FlightConcat
  <2>. QED
    BY <1>3, <1>6, <2>2, FlightOfRun
<1>9. (messages \o x) \o FlightOf(rest) = messages \o (x \o FlightOf(rest))
  <2>1. \A a, b, c \in Seq(Known(sent)) : (a \o b) \o c = a \o (b \o c)
    BY ConcatAssoc
  <2>. QED
    BY <1>2, <1>6, <2>1
<1>. QED
  BY <1>3, <1>4, <1>7, <1>8, <1>9
-----------------------------------------------------------------------------
LEMMA MirrorStep ==
  ASSUME ~EagerCallers, TypeInv, OneRun, StateMirrorsLoop, [Next]_vars
  PROVE  StateMirrorsLoop'
<1>1. ASSUME messages' = messages, Active' = Active,
             \A r \in Active : InFlight(runs'[r]) = InFlight(runs[r])
                               /\ Complete(runs'[r]) = Complete(runs[r])
                               /\ runs'[r].results = runs[r].results
      PROVE  StateMirrorsLoop'
  BY <1>1 DEF StateMirrorsLoop
<1>2. ASSUME UNCHANGED <<messages, runs>> PROVE StateMirrorsLoop'
  <2>1. Active' = Active
    BY <1>2 DEF Active, Started
  <2>. QED
    BY <1>1, <1>2, <2>1
<1>3. CASE UNCHANGED vars
  BY <1>2, <1>3 DEF vars, state
<1>4. ASSUME NEW ms, NEW t, NEW n, n \in {sent, sent + 1},
             Active = {}, Starts(ms, t, n)
      PROVE  StateMirrorsLoop'
  <2>. DEFINE new == Begun(messages, ms, t)
              r == Len(runs) + 1
  <2>1. /\ Active = {} /\ runs' = Append(runs, new) /\ messages' = messages
        /\ n \in Nat /\ ms \in Seq(FromUsers(n)) /\ t \in Seq(FromUsers(n))
        /\ messages \o ms # <<>> /\ messages \in Seq(Known(n))
    BY <1>4 DEF Starts, MayStart
  <2>2. /\ InFlight(new) = ms /\ Complete(new) = messages \o ms /\ new.results = <<>>
        /\ new.consumer = "active" /\ RunOK(new, n)
    <3>1. messages # <<>> \/ ms # <<>>
      BY <2>1
    <3>. QED
      BY <2>1, <3>1, ActiveNat, BegunIs
  <2>. HIDE DEF new
  <2>3. runs \in Seq(KnownRun(n))
    BY <1>4, Grown DEF TypeInv
  <2>4. Active' = Active \cup {r} /\ runs'[r] = new
    BY <2>1, <2>2, <2>3, RunBegins DEF RunOK
  <2>5. (messages \o ms) \o <<>> = messages \o ms
    <3>1. ms \in Seq(Known(n))
      BY <2>1, KnownMessages, SeqMonotone
    <3>2. messages \o ms \in Seq(Known(n))
      BY <2>1, <3>1
    <3>. QED
      BY <3>2, ConcatEmpty
  <2>. QED
    BY <2>1, <2>2, <2>4, <2>5 DEF StateMirrorsLoop
<1>5. CASE Patient /\ (Prompt \/ Continue)
  <2>1. Active = {}
    BY <1>5 DEF Patient
  <2>. QED
    BY <1>4, <1>5, <2>1, PromptStarts, ContinueStarts
<1>6. CASE Steer \/ FollowUp \/ ClearAllQueues
  BY <1>2, <1>6 DEF Steer, FollowUp, ClearAllQueues, state
<1>7. CASE Reset \/ DropFailedAnswer
  <2>1. Active = {} /\ runs' = runs
    BY <1>7 DEF Reset, DropFailedAnswer
  <2>2. Active' = {}
    BY <2>1 DEF Active, Started
  <2>. QED
    BY <2>2 DEF StateMirrorsLoop
<1>8. CASE Abort
  <2>. DEFINE a == abortController
              new == [runs[a] EXCEPT !.aborted = TRUE]
  <2>1. /\ a \in Started /\ runs' = [runs EXCEPT ![a] = new]
        /\ new.consumer = runs[a].consumer /\ new.stream = runs[a].stream
        /\ new.phase = runs[a].phase /\ new.context = runs[a].context
        /\ new.results = runs[a].results
    BY <1>8, AbortDoes
  <2>. HIDE DEF new
  <2>2. /\ Active' = Active /\ runs'[a] = new
        /\ \A q \in Started : q # a => runs'[q] = runs[q]
    BY <2>1, SameActive DEF TypeInv
  <2>3. InFlight(new) = InFlight(runs[a]) /\ Complete(new) = Complete(runs[a])
    BY <2>1, FlightOfRun DEF Complete
  <2>4. Active \subseteq Started /\ messages' = messages
    BY <1>8 DEF Active, Abort, state
  <2>5. \A r \in Active : InFlight(runs'[r]) = InFlight(runs[r])
                          /\ Complete(runs'[r]) = Complete(runs[r])
                          /\ runs'[r].results = runs[r].results
    BY <2>1, <2>2, <2>3, <2>4
  <2>. QED
    BY <1>1, <2>2, <2>4, <2>5
<1>9. ASSUME NEW r \in Started, Produce(r) PROVE StateMirrorsLoop'
  <2>1. PICK new, d, t : LoopStep(r, new, d, t)
    BY <1>9, ProduceAdvances
  <2>2. /\ Advances(runs[r], new, d, t, sent) /\ runs' = [runs EXCEPT ![r] = new]
        /\ new.consumer = runs[r].consumer /\ messages' = messages
    BY <1>9, <2>1, ProduceKeeps DEF LoopStep, Advances, Hands, state
  <2>3. /\ Active' = Active /\ runs'[r] = new
        /\ \A q \in Started : q # r => runs'[q] = runs[q]
    BY <2>2, SameActive DEF TypeInv
  <2>4. r \in Active => Mirrors(messages, new)
    <3>. SUFFICES ASSUME r \in Active PROVE Mirrors(messages, new)
      OBVIOUS
    <3>1. Mirrors(messages, runs[r]) /\ runs[r].consumer = "active"
      BY DEF StateMirrorsLoop, Mirrors, Active
    <3>2. sent \in Nat /\ messages \in Seq(Known(sent)) /\ runs[r] \in KnownRun(sent)
      BY SentKnown DEF TypeInv, RunOK
    <3>. QED
      BY <2>2, <3>1, <3>2, AdvanceMirrors
  <2>5. \A q \in Active : q # r => Mirrors(messages, runs'[q])
    BY <2>3 DEF StateMirrorsLoop, Mirrors, Active
  <2>. QED
    BY <2>2, <2>3, <2>4, <2>5 DEF StateMirrorsLoop, Mirrors
<1>10. ASSUME NEW r \in Started, Consume(r) PROVE StateMirrorsLoop'
  <2>1. /\ messages' \o InFlight(runs'[r]) = messages \o InFlight(runs[r])
        /\ runs'[r].phase = runs[r].phase /\ runs'[r].context = runs[r].context
        /\ runs'[r].results = runs[r].results /\ Active' = Active
    BY <1>10, ConsumeDoes
  <2>2. r \in Active
    BY <1>10 DEF Consume, Active
  <2>3. Active' \subseteq {r}
    BY <2>1, <2>2 DEF OneRun
  <2>4. Complete(runs'[r]) = Complete(runs[r])
    BY <2>1 DEF Complete
  <2>5. messages \o InFlight(runs[r]) = Complete(runs[r]) \o runs[r].results
    BY <2>2 DEF StateMirrorsLoop
  <2>. QED
    BY <2>1, <2>3, <2>4, <2>5 DEF StateMirrorsLoop
<1>11. ASSUME NEW r \in Started, Finish(r) \/ ListenerThrows(r) PROVE StateMirrorsLoop'
  <2>1. r \in Active /\ \E throws \in BOOLEAN : Leave(r, throws)
    BY <1>11 DEF Finish, ListenerThrows, Active
  <2>2. Active' = {}
    BY <2>1, LeaveDoes DEF OneRun
  <2>. QED
    BY <2>2 DEF StateMirrorsLoop
<1>. QED
  BY <1>3, <1>5, <1>6, <1>7, <1>8, <1>9, <1>10, <1>11 DEF Next, Call

LEMMA MirrorAlways ==
  ASSUME ~EagerCallers PROVE Spec => [](TypeInv /\ OneRun /\ StateMirrorsLoop)
<1>1. Init => StateMirrorsLoop
  BY DEF Init, StateMirrorsLoop, Active, Started
<1>2. TypeInv /\ OneRun /\ StateMirrorsLoop /\ [Next]_vars => StateMirrorsLoop'
  BY MirrorStep
<1>. QED
  BY <1>1, <1>2, OneRunAlways, PTL DEF Spec

(* While a run goes on, the state of the agent and what is still in its     *)
(* stream are exactly the context of its loop, whether a listener throws    *)
(* or not (agent-loop.ts 131-171, agent.ts 464-511).                        *)
THEOREM LoopIsMirrored ==
  ASSUME ~EagerCallers PROVE Spec => []StateMirrorsLoop
  BY MirrorAlways, PTL
-----------------------------------------------------------------------------
(* The results of the tool calls.                                          *)

AllAnswered ==
  /\ Active = {} => Answered(messages)
  /\ \A r \in Started : Answered(Shown(runs[r]))
  /\ \A r \in Started : runs[r].consumer = "gone" => runs[r].phase = "ended"

LEMMA AnsweredStep ==
  ASSUME ~EagerCallers, ~ListenersThrow, TypeInv, OneRun, StateMirrorsLoop, AllAnswered,
         [Next]_vars
  PROVE  AllAnswered'
<1>1. ASSUME Active' = Active, Active = {} => messages' = messages, Started' = Started,
             \A r \in Started : /\ runs'[r].phase = runs[r].phase
                                /\ runs'[r].context = runs[r].context
                                /\ runs'[r].consumer = runs[r].consumer
      PROVE  AllAnswered'
  <2>1. \A r \in Started : Shown(runs'[r]) = Shown(runs[r])
    BY <1>1 DEF Shown
  <2>. QED
    BY <1>1, <2>1 DEF AllAnswered
<1>2. ASSUME runs' = runs, Active = {} => Answered(messages') PROVE AllAnswered'
  <2>1. Active' = Active /\ Started' = Started
    BY <1>2 DEF Active, Started
  <2>. QED
    BY <1>2, <2>1 DEF AllAnswered
<1>3. CASE UNCHANGED vars
  BY <1>2, <1>3 DEF vars, state, AllAnswered
<1>4. ASSUME NEW ms, NEW t, NEW n, n \in {sent, sent + 1},
             Active = {}, Starts(ms, t, n)
      PROVE  AllAnswered'
  <2>. DEFINE new == Begun(messages, ms, t)
              r == Len(runs) + 1
  <2>1. /\ Active = {} /\ runs' = Append(runs, new)
        /\ n \in Nat /\ ms \in Seq(FromUsers(n)) /\ t \in Seq(FromUsers(n))
        /\ messages \o ms # <<>> /\ messages \in Seq(Known(n))
    BY <1>4 DEF Starts, MayStart
  <2>2. /\ new.consumer = "active" /\ RunOK(new, n)
        /\ Answered(messages) => Answered(Shown(new))
    <3>1. messages # <<>> \/ ms # <<>>
      BY <2>1
    <3>. QED
      BY <2>1, <3>1, ActiveNat, BegunIs
  <2>. HIDE DEF new
  <2>3. runs \in Seq(KnownRun(n))
    BY <1>4, Grown DEF TypeInv
  <2>4. /\ Active' = Active \cup {r} /\ runs'[r] = new /\ Started' = Started \cup {r}
        /\ \A q \in Started : runs'[q] = runs[q]
    BY <2>1, <2>2, <2>3, RunBegins DEF RunOK
  <2>. QED
    BY <2>1, <2>2, <2>4 DEF AllAnswered
<1>5. CASE Patient /\ (Prompt \/ Continue)
  <2>1. Active = {}
    BY <1>5 DEF Patient
  <2>. QED
    BY <1>4, <1>5, <2>1, PromptStarts, ContinueStarts
<1>6. CASE Steer \/ FollowUp \/ ClearAllQueues
  BY <1>2, <1>6 DEF Steer, FollowUp, ClearAllQueues, state, AllAnswered
<1>7. CASE Reset
  <2>1. Answered(<<>>)
    BY DEF Answered
  <2>. QED
    BY <1>2, <1>7, <2>1 DEF Reset
<1>8. CASE DropFailedAnswer
  <2>1. /\ messages' = Front(messages) /\ messages # <<>> /\ Last(messages).stop = "error"
        /\ messages \in Seq(Known(sent)) /\ sent \in Nat /\ Answered(messages)
        /\ runs' = runs
    BY <1>8, SentKnown DEF DropFailedAnswer, TypeInv, AllAnswered
  <2>2. Last(messages) \in Known(sent)
    BY <2>1, FrontLast
  <2>3. Last(messages).role = "assistant"
    BY <2>1, <2>2 DEF Known
  <2>4. Answered(Front(messages))
    BY <2>1, <2>3, AnsweredFront
  <2>. QED
    BY <1>2, <2>1, <2>4
<1>9. CASE Abort
  <2>. DEFINE a == abortController
              new == [runs[a] EXCEPT !.aborted = TRUE]
  <2>1. /\ a \in Started /\ runs' = [runs EXCEPT ![a] = new]
        /\ new.consumer = runs[a].consumer
        /\ new.phase = runs[a].phase /\ new.context = runs[a].context
    BY <1>9, AbortDoes
  <2>. HIDE DEF new
  <2>2. /\ Active' = Active /\ runs'[a] = new /\ Started' = Started
        /\ \A q \in Started : q # a => runs'[q] = runs[q]
    BY <2>1, SameActive DEF TypeInv
  <2>3. messages' = messages
    BY <1>9 DEF Abort, state
  <2>. QED
    BY <1>1, <2>1, <2>2, <2>3
<1>10. ASSUME NEW r \in Started, Produce(r) PROVE AllAnswered'
  <2>1. PICK new, d, t : LoopStep(r, new, d, t)
    BY <1>10, ProduceAdvances
  <2>2. /\ Advances(runs[r], new, d, t, sent) /\ runs' = [runs EXCEPT ![r] = new]
        /\ new.consumer = runs[r].consumer /\ messages' = messages
        /\ runs[r].phase # "ended"
    BY <1>10, <2>1, ProduceKeeps DEF LoopStep, Advances, Hands, state
  <2>3. /\ Active' = Active /\ Started' = Started /\ runs'[r] = new
        /\ \A q \in Started : q # r => runs'[q] = runs[q]
    BY <2>2, SameActive DEF TypeInv
  <2>4. Answered(Shown(new)) /\ new.consumer # "gone"
    BY <2>2 DEF AllAnswered, Advances
  <2>. QED
    BY <2>2, <2>3, <2>4 DEF AllAnswered
<1>11. ASSUME NEW r \in Started, Consume(r) PROVE AllAnswered'
  <2>1. /\ runs'[r].phase = runs[r].phase /\ runs'[r].context = runs[r].context
        /\ runs'[r].consumer = runs[r].consumer
        /\ \A q \in Started : q # r => runs'[q] = runs[q]
        /\ Started' = Started /\ Active' = Active
    BY <1>11, ConsumeDoes
  <2>2. r \in Active
    BY <1>11 DEF Consume, Active
  <2>. QED
    BY <1>1, <2>1, <2>2
<1>12. ASSUME NEW r \in Started, Finish(r) PROVE AllAnswered'
  <2>. DEFINE run == runs[r]
  <2>1. /\ r \in Active /\ Leave(r, FALSE) /\ run.stream = <<>> /\ run.phase = "ended"
        /\ messages' = messages
    BY <1>12 DEF Finish, Active
  <2>2. /\ Active' = Active \ {r} /\ Started' = Started
        /\ \A q \in Started : /\ runs'[q].phase = runs[q].phase
                              /\ runs'[q].context = runs[q].context
                              /\ runs'[q].consumer = IF q = r THEN "gone" ELSE runs[q].consumer
    BY <2>1, LeaveDoes
  <2>3. Answered(messages)
    <3>1. messages \o InFlight(run) = Complete(run) \o run.results
      BY <2>1 DEF StateMirrorsLoop
    <3>2. /\ run.results = <<>> /\ run.context \in Seq(Known(sent))
          /\ messages \in Seq(Known(sent))
      BY <2>1 DEF TypeInv, RunOK, KnownRun, Calling
    <3>3. InFlight(run) = <<>>
      BY <2>1, FlightOfRun, FlightEmpty
    <3>4. Complete(run) = run.context /\ Shown(run) = run.context
      BY <2>1 DEF Complete, Shown, Calling
    <3>5. messages = run.context
      BY <3>1, <3>2, <3>3, <3>4, ConcatEmpty
    <3>. QED
      BY <3>4, <3>5 DEF AllAnswered
  <2>4. \A q \in Started : Shown(runs'[q]) = Shown(runs[q])
    BY <2>2 DEF Shown
  <2>. QED
    BY <2>1, <2>2, <2>3, <2>4 DEF AllAnswered
<1>13. ASSUME NEW r \in Started, ListenerThrows(r) PROVE AllAnswered'
  BY <1>13 DEF ListenerThrows
<1>. QED
  BY <1>3, <1>5, <1>6, <1>7, <1>8, <1>9, <1>10, <1>11, <1>12, <1>13 DEF Next, Call

LEMMA AnsweredAlways ==
  ASSUME ~EagerCallers, ~ListenersThrow
  PROVE  Spec => [](TypeInv /\ OneRun /\ AllAnswered)
<1>1. Init => AllAnswered
  BY DEF Init, AllAnswered, Active, Started, Answered
<1>2. /\ TypeInv /\ OneRun /\ StateMirrorsLoop /\ AllAnswered /\ [Next]_vars
      => AllAnswered'
  BY AnsweredStep
<1>. QED
  BY <1>1, <1>2, MirrorAlways, PTL DEF Spec

(* No model is shown a result without its call, or a call without its       *)
(* result that an answer made which did not fail, as long as no listener    *)
(* throws: then the context of the next run may end in the middle of a turn *)
(* (agent-loop.ts 144-171, 305-375).                                        *)
THEOREM CallsAreAnswered ==
  ASSUME ~EagerCallers, ~ListenersThrow PROVE Spec => []ToolCallsAnswered
<1>1. AllAnswered => ToolCallsAnswered
  BY DEF AllAnswered, ToolCallsAnswered, Shown, Complete, Calling
<1>. QED
  BY <1>1, AnsweredAlways, PTL
-----------------------------------------------------------------------------
(* The line of messages: those of the users, and their order.              *)

Users(s) == {s[i] : i \in {j \in 1 .. Len(s) : s[j].role = "user"}}

Numbers(us) == {u.id : u \in us}

\* u may come before v.
Before(u, v) == u.id # v.id /\ (u.n = v.n => u.id < v.id)

Cross(a, b) == \A u \in Users(a), v \in Users(b) : Before(u, v)

Neat(s) ==
  \A i, j \in 1 .. Len(s) :
    i < j /\ s[i].role = "user" /\ s[j].role = "user" => Before(s[i], s[j])

LEMMA UsersIds ==
  ASSUME NEW T, NEW s \in Seq(T)
  PROVE  Ids(s) = Numbers(Users(s))
<1>1. DOMAIN s = 1 .. Len(s)
  OBVIOUS
<1>. QED
  BY <1>1 DEF Ids, Users, Numbers

LEMMA UsersNone ==
  ASSUME NEW T, NEW s \in Seq(T), NoUsers(s)
  PROVE  Users(s) = {} /\ Neat(s)
<1>1. \A i \in 1 .. Len(s) : s[i].role # "user"
  BY DEF NoUsers
<1>. QED
  BY <1>1 DEF Users, Neat

LEMMA UsersEmpty == Users(<<>>) = {} /\ Neat(<<>>) /\ Ids(<<>>) = {}
<1>1. Len(<<>>) = 0 /\ DOMAIN <<>> = {}
  OBVIOUS
<1>. QED
  BY <1>1 DEF Users, Neat, Ids

LEMMA UsersOne ==
  ASSUME NEW u, u.role = "user"
  PROVE  Users(<<u>>) = {u} /\ Neat(<<u>>)
<1>1. Len(<<u>>) = 1 /\ <<u>>[1] = u
  OBVIOUS
<1>2. 1 .. 1 = {1} /\ \A i, j \in 1 .. 1 : ~ (i < j)
  OBVIOUS
<1>3. Users(<<u>>) = {u}
  <2>1. {j \in 1 .. Len(<<u>>) : <<u>>[j].role = "user"} = {1}
    BY <1>1, <1>2
  <2>. QED
    BY <1>1, <2>1 DEF Users
<1>4. Neat(<<u>>)
  BY <1>1, <1>2 DEF Neat
<1>. QED
  BY <1>3, <1>4

LEMMA UsersConcat ==
  ASSUME NEW T, NEW a \in Seq(T), NEW b \in Seq(T)
  PROVE  Users(a \o b) = Users(a) \cup Users(b)
<1>. DEFINE s == a \o b
<1>1. /\ Len(s) = Len(a) + Len(b) /\ Len(a) \in Nat /\ Len(b) \in Nat
      /\ \A i \in 1 .. Len(a) : s[i] = a[i]
      /\ \A i \in 1 .. Len(b) : s[Len(a) + i] = b[i]
  BY ConcatFacts
<1>. HIDE DEF s
<1>2. ASSUME NEW u \in Users(s) PROVE u \in Users(a) \cup Users(b)
  <2>1. PICK i \in 1 .. Len(s) : s[i].role = "user" /\ u = s[i]
    BY <1>2 DEF Users
  <2>2. CASE i <= Len(a)
    <3>1. i \in 1 .. Len(a) /\ s[i] = a[i]
      BY <1>1, <2>2
    <3>. QED
      BY <2>1, <3>1 DEF Users
  <2>3. CASE i > Len(a)
    <3>1. i - Len(a) \in 1 .. Len(b) /\ Len(a) + (i - Len(a)) = i
      BY <1>1, <2>3
    <3>2. s[i] = b[i - Len(a)]
      BY <1>1, <3>1
    <3>. QED
      BY <2>1, <3>1, <3>2 DEF Users
  <2>. QED
    BY <1>1, <2>2, <2>3
<1>3. ASSUME NEW u \in Users(a) PROVE u \in Users(s)
  <2>1. PICK i \in 1 .. Len(a) : a[i].role = "user" /\ u = a[i]
    BY <1>3 DEF Users
  <2>2. i \in 1 .. Len(s) /\ s[i] = a[i]
    BY <1>1
  <2>. QED
    BY <2>1, <2>2 DEF Users
<1>4. ASSUME NEW u \in Users(b) PROVE u \in Users(s)
  <2>1. PICK i \in 1 .. Len(b) : b[i].role = "user" /\ u = b[i]
    BY <1>4 DEF Users
  <2>2. Len(a) + i \in 1 .. Len(s) /\ s[Len(a) + i] = b[i]
    BY <1>1
  <2>. QED
    BY <2>1, <2>2 DEF Users
<1>. QED
  BY <1>2, <1>3, <1>4 DEF s

LEMMA NeatConcat ==
  ASSUME NEW T, NEW a \in Seq(T), NEW b \in Seq(T)
  PROVE  Neat(a \o b) <=> Neat(a) /\ Neat(b) /\ Cross(a, b)
<1>. DEFINE s == a \o b
            l == Len(a)
<1>1. /\ Len(s) = l + Len(b) /\ l \in Nat /\ Len(b) \in Nat
      /\ \A i \in 1 .. l : s[i] = a[i]
      /\ \A i \in 1 .. Len(b) : s[l + i] = b[i]
  BY ConcatFacts
<1>. HIDE DEF s, l
<1>2. ASSUME Neat(s) PROVE Neat(a) /\ Neat(b) /\ Cross(a, b)
  <2>1. Neat(a)
    <3>1. \A i \in 1 .. l : i \in 1 .. Len(s)
      BY <1>1
    <3>. QED
      BY <1>1, <1>2, <3>1 DEF Neat, l
  <2>2. ASSUME NEW i \in 1 .. Len(b), NEW j \in 1 .. Len(b), i < j, b[i].role = "user",
               b[j].role = "user"
        PROVE  Before(b[i], b[j])
    <3>1. l + i \in 1 .. Len(s) /\ l + j \in 1 .. Len(s) /\ l + i < l + j
      BY <1>1, <2>2
    <3>2. s[l + i] = b[i] /\ s[l + j] = b[j]
      BY <1>1
    <3>. QED
      BY <1>2, <2>2, <3>1, <3>2 DEF Neat
  <2>3. ASSUME NEW u \in Users(a), NEW v \in Users(b) PROVE Before(u, v)
    <3>1. PICK i \in 1 .. l : a[i].role = "user" /\ u = a[i]
      BY <2>3 DEF Users, l
    <3>2. PICK j \in 1 .. Len(b) : b[j].role = "user" /\ v = b[j]
      BY <2>3 DEF Users
    <3>3. i \in 1 .. Len(s) /\ l + j \in 1 .. Len(s) /\ i < l + j
      BY <1>1
    <3>4. s[i] = a[i] /\ s[l + j] = b[j]
      BY <1>1
    <3>. QED
      BY <1>2, <3>1, <3>2, <3>3, <3>4 DEF Neat
  <2>. QED
    BY <2>1, <2>2, <2>3 DEF Neat, Cross
<1>3. ASSUME Neat(a), Neat(b), Cross(a, b) PROVE Neat(s)
  <2>. SUFFICES ASSUME NEW i \in 1 .. Len(s), NEW j \in 1 .. Len(s), i < j,
                       s[i].role = "user", s[j].role = "user"
                PROVE  Before(s[i], s[j])
    BY DEF Neat
  <2>1. CASE j <= l
    <3>1. i \in 1 .. l /\ j \in 1 .. l
      BY <1>1, <2>1
    <3>2. s[i] = a[i] /\ s[j] = a[j]
      BY <1>1, <3>1
    <3>. QED
      BY <1>3, <3>1, <3>2 DEF Neat, l
  <2>2. CASE i > l
    <3>1. i - l \in 1 .. Len(b) /\ j - l \in 1 .. Len(b) /\ i - l < j - l
          /\ l + (i - l) = i /\ l + (j - l) = j
      BY <1>1, <2>2
    <3>2. s[i] = b[i - l] /\ s[j] = b[j - l]
      BY <1>1, <3>1
    <3>. QED
      BY <1>3, <3>1, <3>2 DEF Neat
  <2>3. CASE i <= l /\ j > l
    <3>1. i \in 1 .. l /\ j - l \in 1 .. Len(b) /\ l + (j - l) = j
      BY <1>1, <2>3
    <3>2. s[i] = a[i] /\ s[j] = b[j - l]
      BY <1>1, <3>1
    <3>3. s[i] \in Users(a) /\ s[j] \in Users(b)
      BY <3>1, <3>2 DEF Users, l
    <3>. QED
      BY <1>3, <3>3 DEF Cross
  <2>. QED
    BY <1>1, <2>1, <2>2, <2>3
<1>. QED
  BY <1>2, <1>3 DEF s

LEMMA UsersKnown ==
  ASSUME NEW n \in Nat, NEW s \in Seq(Known(n)), NEW u \in Users(s)
  PROVE  u.role = "user" /\ u.id \in 1 .. n /\ u.id \in Nat /\ u.n \in Nat
<1>1. PICK i \in 1 .. Len(s) : s[i].role = "user" /\ u = s[i]
  BY DEF Users
<1>2. u \in Known(n)
  BY <1>1
<1>. QED
  BY <1>1, <1>2 DEF Known, Message

LEMMA UsersVia ==
  ASSUME NEW n \in Nat, NEW way, NEW s \in Seq(Via(n, way)), NEW u \in Users(s)
  PROVE  u.n = way /\ u.id \in 1 .. n /\ u.id \in Nat
<1>1. PICK i \in 1 .. Len(s) : s[i].role = "user" /\ u = s[i]
  BY DEF Users
<1>2. u \in Via(n, way)
  BY <1>1
<1>3. PICK k \in 1 .. n : u = User(k, way)
  BY <1>2 DEF Via
<1>4. \A i2 : User(i2, way).n = way /\ User(i2, way).id = i2
  BY DEF User
<1>5. u.n = way /\ u.id = k
  BY <1>3, <1>4
<1>. QED
  BY <1>3, <1>5

(* The line in four parts: what is in the state or on its way to it, what a *)
(* loop holds, and the queues.                                              *)

Tidy(b, p, s, f) ==
  /\ Neat(b) /\ Neat(p) /\ Neat(s) /\ Neat(f)
  /\ Cross(b, p) /\ Cross(b, s) /\ Cross(b, f)
  /\ Cross(p, s) /\ Cross(p, f) /\ Cross(s, f)

InLine(b, p, s, f, n, gone) ==
  /\ Tidy(b, p, s, f)
  /\ Numbers(Users(b) \cup Users(p) \cup Users(s) \cup Users(f)) = (1 .. n) \ gone

\* The messages of z are those of a, then those of b.
Joint(a, b, z) ==
  /\ Users(z) = Users(a) \cup Users(b)
  /\ Neat(z) <=> Neat(a) /\ Neat(b) /\ Cross(a, b)

Bare(x) == Users(x) = {} /\ Neat(x)

LEMMA Joined ==
  ASSUME NEW T, NEW a \in Seq(T), NEW b \in Seq(T)
  PROVE  Joint(a, b, a \o b) /\ a \o b \in Seq(T)
  BY UsersConcat, NeatConcat, ConcatFacts DEF Joint

LEMMA JointCross ==
  ASSUME NEW a, NEW b, NEW z, Joint(a, b, z), NEW c
  PROVE  /\ Cross(z, c) <=> Cross(a, c) /\ Cross(b, c)
         /\ Cross(c, z) <=> Cross(c, a) /\ Cross(c, b)
<1>1. \A u : u \in Users(z) <=> u \in Users(a) \/ u \in Users(b)
  BY DEF Joint
<1>. QED
  BY <1>1 DEF Cross

LEMMA BareCross ==
  ASSUME NEW x, Bare(x), NEW c
  PROVE  Cross(x, c) /\ Cross(c, x)
  BY DEF Bare, Cross

LEMMA LineTidy ==
  ASSUME NEW b, NEW p, NEW s, NEW f, NEW bp, NEW bps, NEW line,
         Joint(b, p, bp), Joint(bp, s, bps), Joint(bps, f, line)
  PROVE  /\ Neat(line) <=> Tidy(b, p, s, f)
         /\ Users(line) = Users(b) \cup Users(p) \cup Users(s) \cup Users(f)
<1>1. /\ Neat(bp) <=> Neat(b) /\ Neat(p) /\ Cross(b, p)
      /\ Neat(bps) <=> Neat(bp) /\ Neat(s) /\ Cross(bp, s)
      /\ Neat(line) <=> Neat(bps) /\ Neat(f) /\ Cross(bps, f)
  BY DEF Joint
<1>2. /\ Cross(bp, s) <=> Cross(b, s) /\ Cross(p, s)
      /\ Cross(bp, f) <=> Cross(b, f) /\ Cross(p, f)
      /\ Cross(bps, f) <=> Cross(bp, f) /\ Cross(s, f)
  BY JointCross
<1>3. Neat(line) <=> Tidy(b, p, s, f)
  BY <1>1, <1>2 DEF Tidy
<1>4. Users(line) = Users(b) \cup Users(p) \cup Users(s) \cup Users(f)
  BY DEF Joint
<1>. QED
  BY <1>3, <1>4

\* A loop hands over what it holds, with messages of its own.
LEMMA LineHands ==
  ASSUME NEW b, NEW p, NEW x, NEW d, NEW z, NEW e, Bare(x), Joint(x, p, d), Joint(b, d, z),
         Bare(e), NEW s, NEW f, NEW n, NEW gone, InLine(b, p, s, f, n, gone)
  PROVE  InLine(z, e, s, f, n, gone)
<1>1. Tidy(b, p, s, f) /\ Cross(x, p)
  BY BareCross DEF InLine
<1>2. Users(d) = Users(p) /\ Neat(d)
  BY <1>1 DEF Joint, Bare, Tidy
<1>3. Neat(z)
  BY <1>1, <1>2 DEF Joint, Tidy, Cross
<1>4. /\ Cross(z, s) <=> Cross(b, s) /\ Cross(d, s)
      /\ Cross(z, f) <=> Cross(b, f) /\ Cross(d, f)
  BY JointCross
<1>5. (Cross(d, s) <=> Cross(p, s)) /\ (Cross(d, f) <=> Cross(p, f))
  BY <1>2 DEF Cross
<1>6. Neat(e) /\ Cross(z, e) /\ Cross(e, s) /\ Cross(e, f)
  BY BareCross DEF Bare
<1>7. Tidy(z, e, s, f)
  BY <1>1, <1>3, <1>4, <1>5, <1>6 DEF Tidy
<1>8. Users(z) \cup Users(e) \cup Users(s) \cup Users(f)
        = Users(b) \cup Users(p) \cup Users(s) \cup Users(f)
  BY <1>2 DEF Joint, Bare
<1>. QED
  BY <1>7, <1>8 DEF InLine

\* A poll takes messages from the front of the steering queue.
LEMMA LineSteered ==
  ASSUME NEW b, NEW e, NEW t, NEW s, NEW q, NEW f, Bare(e), Joint(t, s, q),
         NEW n, NEW gone, InLine(b, e, q, f, n, gone)
  PROVE  InLine(b, t, s, f, n, gone)
<1>1. Tidy(b, e, q, f)
  BY DEF InLine
<1>2. Neat(t) /\ Neat(s) /\ Cross(t, s)
  BY <1>1 DEF Joint, Tidy
<1>3. /\ Cross(q, f) <=> Cross(t, f) /\ Cross(s, f)
      /\ Cross(b, q) <=> Cross(b, t) /\ Cross(b, s)
  BY JointCross
<1>4. Tidy(b, t, s, f)
  BY <1>1, <1>2, <1>3 DEF Tidy
<1>5. Users(b) \cup Users(e) \cup Users(q) \cup Users(f)
        = Users(b) \cup Users(t) \cup Users(s) \cup Users(f)
  BY DEF Joint, Bare
<1>. QED
  BY <1>4, <1>5 DEF InLine

\* A poll of the other queue overtakes the steering queue.
LEMMA LineFollowed ==
  ASSUME NEW b, NEW e, NEW s, NEW t, NEW f, NEW q, Bare(e), Joint(t, f, q),
         \A u \in Users(s), v \in Users(t) : u.n # v.n,
         NEW n, NEW gone, InLine(b, e, s, q, n, gone)
  PROVE  InLine(b, t, s, f, n, gone)
<1>1. Tidy(b, e, s, q)
  BY DEF InLine
<1>2. Neat(t) /\ Neat(f) /\ Cross(t, f)
  BY <1>1 DEF Joint, Tidy
<1>3. /\ Cross(s, q) <=> Cross(s, t) /\ Cross(s, f)
      /\ Cross(b, q) <=> Cross(b, t) /\ Cross(b, f)
  BY JointCross
<1>4. Cross(s, t) => Cross(t, s)
  BY DEF Cross, Before
<1>5. Tidy(b, t, s, f)
  BY <1>1, <1>2, <1>3, <1>4 DEF Tidy
<1>6. Users(b) \cup Users(e) \cup Users(s) \cup Users(q)
        = Users(b) \cup Users(t) \cup Users(s) \cup Users(f)
  BY DEF Joint, Bare
<1>. QED
  BY <1>5, <1>6 DEF InLine

\* A caller, or a loop that ends, makes what is held part of the rest.
LEMMA LineJoins ==
  ASSUME NEW b, NEW p, NEW s, NEW f, NEW z, NEW e, Joint(b, p, z), Bare(e),
         NEW n, NEW gone, InLine(b, p, s, f, n, gone)
  PROVE  InLine(z, e, s, f, n, gone)
<1>1. Tidy(b, p, s, f)
  BY DEF InLine
<1>2. Neat(z)
  BY <1>1 DEF Joint, Tidy
<1>3. /\ Cross(z, s) <=> Cross(b, s) /\ Cross(p, s)
      /\ Cross(z, f) <=> Cross(b, f) /\ Cross(p, f)
  BY JointCross
<1>4. Neat(e) /\ Cross(z, e) /\ Cross(e, s) /\ Cross(e, f)
  BY BareCross DEF Bare
<1>5. Tidy(z, e, s, f)
  BY <1>1, <1>2, <1>3, <1>4 DEF Tidy
<1>6. Users(z) \cup Users(e) \cup Users(s) \cup Users(f)
        = Users(b) \cup Users(p) \cup Users(s) \cup Users(f)
  BY DEF Joint, Bare
<1>. QED
  BY <1>5, <1>6 DEF InLine

\* The newest message may go wherever no message behind it came the same way.
LEMMA NewestCross ==
  ASSUME NEW n \in Nat, NEW gone, NEW b, NEW p, NEW s, NEW f, InLine(b, p, s, f, n, gone),
         NEW one, NEW u, Users(one) = {u}, Neat(one), u.id = n + 1
  PROVE  /\ Cross(b, one) /\ Cross(p, one) /\ Cross(s, one) /\ Cross(f, one)
         /\ \A c \in {p, s, f} : (\A v \in Users(c) : v.n # u.n) => Cross(one, c)
<1>1. ASSUME NEW v \in Users(b) \cup Users(p) \cup Users(s) \cup Users(f)
      PROVE  v.id < n + 1 /\ v.id # n + 1
  <2>1. v.id \in 1 .. n
    BY DEF InLine, Numbers
  <2>. QED
    BY <2>1
<1>2. Cross(b, one) /\ Cross(p, one) /\ Cross(s, one) /\ Cross(f, one)
  BY <1>1 DEF Cross, Before
<1>3. ASSUME NEW c \in {p, s, f}, \A v \in Users(c) : v.n # u.n PROVE Cross(one, c)
  BY <1>1, <1>3 DEF Cross, Before
<1>. QED
  BY <1>2, <1>3

LEMMA NewestNumbers ==
  ASSUME NEW n \in Nat, NEW gone, gone \subseteq 1 .. n, NEW us, NEW u, u.id = n + 1,
         Numbers(us) = (1 .. n) \ gone
  PROVE  Numbers(us \cup {u}) = (1 .. n + 1) \ gone
<1>1. Numbers(us \cup {u}) = Numbers(us) \cup {n + 1}
  BY DEF Numbers
<1>2. 1 .. n + 1 = (1 .. n) \cup {n + 1} /\ n + 1 \notin gone
  OBVIOUS
<1>. QED
  BY <1>1, <1>2

LEMMA LinePrompted ==
  ASSUME NEW n \in Nat, NEW gone, gone \subseteq 1 .. n, NEW b, NEW p, NEW s, NEW f,
         InLine(b, p, s, f, n, gone), Bare(p),
         NEW one, NEW u, Users(one) = {u}, Neat(one), u.id = n + 1,
         \A v \in Users(s) \cup Users(f) : v.n # u.n,
         NEW z, Joint(b, one, z)
  PROVE  InLine(z, p, s, f, n + 1, gone)
<1>1. Tidy(b, p, s, f)
  BY DEF InLine
<1>2. Cross(b, one) /\ Cross(one, p) /\ Cross(one, s) /\ Cross(one, f)
  BY NewestCross, BareCross
<1>3. Neat(z)
  BY <1>1, <1>2 DEF Joint, Tidy
<1>4. /\ Cross(z, p) <=> Cross(b, p) /\ Cross(one, p)
      /\ Cross(z, s) <=> Cross(b, s) /\ Cross(one, s)
      /\ Cross(z, f) <=> Cross(b, f) /\ Cross(one, f)
  BY JointCross
<1>5. Tidy(z, p, s, f)
  BY <1>1, <1>2, <1>3, <1>4 DEF Tidy
<1>. DEFINE us == Users(b) \cup Users(p) \cup Users(s) \cup Users(f)
<1>6. Users(z) \cup Users(p) \cup Users(s) \cup Users(f) = us \cup {u}
  BY DEF Joint
<1>7. Numbers(us) = (1 .. n) \ gone
  BY DEF InLine
<1>. HIDE DEF us
<1>8. Numbers(us \cup {u}) = (1 .. n + 1) \ gone
  <2>1. \A x : Numbers(x) = (1 .. n) \ gone => Numbers(x \cup {u}) = (1 .. n + 1) \ gone
    BY NewestNumbers, Zenon
  <2>. QED
    BY <1>7, <2>1
<1>9. Numbers(Users(z) \cup Users(p) \cup Users(s) \cup Users(f)) = (1 .. n + 1) \ gone
  BY <1>6, <1>8
<1>. QED
  BY <1>5, <1>9 DEF InLine

LEMMA LineSteers ==
  ASSUME NEW n \in Nat, NEW gone, gone \subseteq 1 .. n, NEW b, NEW p, NEW s, NEW f,
         InLine(b, p, s, f, n, gone),
         NEW one, NEW u, Users(one) = {u}, Neat(one), u.id = n + 1,
         \A v \in Users(f) : v.n # u.n,
         NEW z, Joint(s, one, z)
  PROVE  InLine(b, p, z, f, n + 1, gone)
<1>1. Tidy(b, p, s, f)
  BY DEF InLine
<1>2. Cross(b, one) /\ Cross(p, one) /\ Cross(s, one) /\ Cross(one, f)
  BY NewestCross
<1>3. Neat(z)
  BY <1>1, <1>2 DEF Joint, Tidy
<1>4. /\ Cross(b, z) <=> Cross(b, s) /\ Cross(b, one)
      /\ Cross(p, z) <=> Cross(p, s) /\ Cross(p, one)
      /\ Cross(z, f) <=> Cross(s, f) /\ Cross(one, f)
  BY JointCross
<1>5. Tidy(b, p, z, f)
  BY <1>1, <1>2, <1>3, <1>4 DEF Tidy
<1>. DEFINE us == Users(b) \cup Users(p) \cup Users(s) \cup Users(f)
<1>6. Users(b) \cup Users(p) \cup Users(z) \cup Users(f) = us \cup {u}
  BY DEF Joint
<1>7. Numbers(us) = (1 .. n) \ gone
  BY DEF InLine
<1>. HIDE DEF us
<1>8. Numbers(us \cup {u}) = (1 .. n + 1) \ gone
  <2>1. \A x : Numbers(x) = (1 .. n) \ gone => Numbers(x \cup {u}) = (1 .. n + 1) \ gone
    BY NewestNumbers
  <2>. QED
    BY <1>7, <2>1
<1>9. Numbers(Users(b) \cup Users(p) \cup Users(z) \cup Users(f)) = (1 .. n + 1) \ gone
  BY <1>6, <1>8
<1>. QED
  BY <1>5, <1>9 DEF InLine

LEMMA LineFollows ==
  ASSUME NEW n \in Nat, NEW gone, gone \subseteq 1 .. n, NEW b, NEW p, NEW s, NEW f,
         InLine(b, p, s, f, n, gone),
         NEW one, NEW u, Users(one) = {u}, Neat(one), u.id = n + 1,
         NEW z, Joint(f, one, z)
  PROVE  InLine(b, p, s, z, n + 1, gone)
<1>1. Tidy(b, p, s, f)
  BY DEF InLine
<1>2. Cross(b, one) /\ Cross(p, one) /\ Cross(s, one) /\ Cross(f, one)
  BY NewestCross
<1>3. Neat(z)
  BY <1>1, <1>2 DEF Joint, Tidy
<1>4. /\ Cross(b, z) <=> Cross(b, f) /\ Cross(b, one)
      /\ Cross(p, z) <=> Cross(p, f) /\ Cross(p, one)
      /\ Cross(s, z) <=> Cross(s, f) /\ Cross(s, one)
  BY JointCross
<1>5. Tidy(b, p, s, z)
  BY <1>1, <1>2, <1>3, <1>4 DEF Tidy
<1>. DEFINE us == Users(b) \cup Users(p) \cup Users(s) \cup Users(f)
<1>6. Users(b) \cup Users(p) \cup Users(s) \cup Users(z) = us \cup {u}
  BY DEF Joint
<1>7. Numbers(us) = (1 .. n) \ gone
  BY DEF InLine
<1>. HIDE DEF us
<1>8. Numbers(us \cup {u}) = (1 .. n + 1) \ gone
  <2>1. \A x : Numbers(x) = (1 .. n) \ gone => Numbers(x \cup {u}) = (1 .. n + 1) \ gone
    BY NewestNumbers
  <2>. QED
    BY <1>7, <2>1
<1>9. Numbers(Users(b) \cup Users(p) \cup Users(s) \cup Users(z)) = (1 .. n + 1) \ gone
  BY <1>6, <1>8
<1>. QED
  BY <1>5, <1>9 DEF InLine

\* The queues are dropped.
LEMMA LineCleared ==
  ASSUME NEW n, NEW gone, NEW b, NEW p, NEW s, NEW f, InLine(b, p, s, f, n, gone),
         NEW e, Bare(e), NEW ids, ids = Numbers(Users(s) \cup Users(f))
  PROVE  InLine(b, p, e, e, n, gone \cup ids)
<1>1. Tidy(b, p, s, f)
  BY DEF InLine
<1>2. Neat(e) /\ Cross(b, e) /\ Cross(p, e) /\ Cross(e, e)
  BY BareCross DEF Bare
<1>3. Tidy(b, p, e, e)
  BY <1>1, <1>2 DEF Tidy
<1>. DEFINE left == Numbers(Users(b) \cup Users(p))
<1>4. left \cup ids = (1 .. n) \ gone
  BY DEF InLine, Numbers
<1>5. ASSUME NEW i \in left PROVE i \notin ids
  <2>1. PICK u \in Users(b) \cup Users(p) : i = u.id
    BY DEF Numbers
  <2>2. \A v \in Users(s) \cup Users(f) : u.id # v.id
    BY <1>1 DEF Tidy, Cross, Before
  <2>. QED
    BY <2>1, <2>2 DEF Numbers
<1>6. left = (1 .. n) \ (gone \cup ids)
  BY <1>4, <1>5
<1>7. Users(b) \cup Users(p) \cup Users(e) \cup Users(e) = Users(b) \cup Users(p)
  BY DEF Bare
<1>. QED
  BY <1>3, <1>6, <1>7 DEF InLine

LEMMA LineReset ==
  ASSUME NEW n, NEW gone, NEW b, NEW p, NEW s, NEW f, InLine(b, p, s, f, n, gone), Bare(p),
         NEW e, Bare(e), NEW ids, ids = Numbers(Users(b) \cup Users(s) \cup Users(f))
  PROVE  InLine(e, p, e, e, n, gone \cup ids)
<1>1. Tidy(e, p, e, e)
  BY BareCross DEF Bare, Tidy
<1>2. ids = (1 .. n) \ gone
  BY DEF InLine, Bare
<1>3. Users(e) \cup Users(p) \cup Users(e) \cup Users(e) = {}
  BY DEF Bare
<1>4. Numbers({}) = (1 .. n) \ (gone \cup ids)
  BY <1>2 DEF Numbers
<1>. QED
  BY <1>1, <1>3, <1>4 DEF InLine

\* The last message of the state, which is not a user's, goes.
LEMMA LineDrops ==
  ASSUME NEW n, NEW gone, NEW b, NEW p, NEW s, NEW f, InLine(b, p, s, f, n, gone),
         NEW c, NEW x, Bare(x), Joint(c, x, b)
  PROVE  InLine(c, p, s, f, n, gone)
<1>1. Users(c) = Users(b) /\ (Neat(b) => Neat(c))
  BY DEF Joint, Bare
<1>2. \A d : Cross(b, d) <=> Cross(c, d)
  BY <1>1 DEF Cross
<1>3. Tidy(c, p, s, f)
  BY <1>1, <1>2 DEF InLine, Tidy
<1>. QED
  BY <1>1, <1>3 DEF InLine
-----------------------------------------------------------------------------
(* The line of the agent.                                                   *)

Body == IF Active = {} THEN messages ELSE messages \o InFlight(runs[abortController])

Held == IF Active = {} THEN <<>> ELSE runs[abortController].pending

LineInv == InLine(Body, Held, steeringQueue, followUpQueue, sent, dropped)

LEMMA BareEmpty == Bare(<<>>)
  BY UsersEmpty DEF Bare

LEMMA OnlyRun ==
  ASSUME TypeInv, OneRun, NEW r \in Active
  PROVE  /\ Active = {r} /\ abortController = r /\ r \in Started
         /\ Body = messages \o InFlight(runs[r]) /\ Held = runs[r].pending
         /\ sent \in Nat /\ messages \in Seq(Known(sent)) /\ RunOK(runs[r], sent)
         /\ InFlight(runs[r]) \in Seq(Known(sent)) /\ Held \in Seq(Known(sent))
         /\ Body \in Seq(Known(sent))
<1>1. Active = {r} /\ abortController = r /\ r \in Started
  BY DEF OneRun, Active
<1>2. Body = messages \o InFlight(runs[r]) /\ Held = runs[r].pending
  BY <1>1 DEF Body, Held
<1>3. sent \in Nat /\ messages \in Seq(Known(sent)) /\ RunOK(runs[r], sent)
  BY <1>1, SentKnown DEF TypeInv
<1>4. InFlight(runs[r]) \in Seq(Known(sent))
  BY <1>3, InFlightType DEF RunOK
<1>5. Held \in Seq(Known(sent))
  <2>1. Held \in Seq(FromUsers(sent))
    BY <1>2, <1>3 DEF RunOK, KnownRun
  <2>. QED
    BY <1>3, <2>1, KnownMessages, SeqMonotone
<1>6. Body \in Seq(Known(sent))
  BY <1>2, <1>3, <1>4
<1>. QED
  BY <1>1, <1>2, <1>3, <1>4, <1>5, <1>6

LEMMA NoRunLeft ==
  ASSUME TypeInv, Active = {}
  PROVE  /\ Body = messages /\ Held = <<>> /\ sent \in Nat
         /\ Body \in Seq(Known(sent)) /\ Held \in Seq(Known(sent))
<1>1. <<>> \in Seq(Known(sent))
  OBVIOUS
<1>. QED
  BY <1>1, SentKnown DEF Body, Held, TypeInv

LEMMA LineParts ==
  ASSUME TypeInv, OneRun
  PROVE  /\ Line = ((Body \o Held) \o steeringQueue) \o followUpQueue
         /\ Body \in Seq(Known(sent)) /\ Held \in Seq(Known(sent))
<1>. DEFINE K == Known(sent)
            inHand == [r \in Started |->
                         IF r \in Active THEN InFlight(runs[r]) \o runs[r].pending ELSE <<>>]
            a == abortController
<1>1. Line = messages \o FlattenSeq(inHand) \o steeringQueue \o followUpQueue
  BY DEF Line
<1>2. \A r \in Active : /\ Body = messages \o InFlight(runs[r]) /\ Held = runs[r].pending
                        /\ InFlight(runs[r]) \in Seq(K) /\ runs[r].pending \in Seq(K)
                        /\ a = r
  BY OnlyRun
<1>3. inHand \in Seq(Seq(K)) /\ Len(inHand) = Len(runs) /\ Len(runs) \in Nat
  <2>1. Len(runs) \in Nat
    BY DEF TypeInv
  <2>2. ASSUME NEW r \in Started PROVE inHand[r] \in Seq(K)
    <3>1. <<>> \in Seq(K)
      OBVIOUS
    <3>2. r \in Active => InFlight(runs[r]) \o runs[r].pending \in Seq(K)
      BY <1>2
    <3>. QED
      BY <3>1, <3>2
  <2>. DEFINE S == Seq(K)
  <2>3. inHand \in [1 .. Len(runs) -> S]
    BY <2>2 DEF Started
  <2>. HIDE DEF inHand, S
  <2>4. inHand \in Seq(S) /\ Len(inHand) = Len(runs)
    BY <2>1, <2>3
  <2>. QED
    BY <2>1, <2>4 DEF S
<1>4. \A i \in 1 .. Len(inHand) : i # a => inHand[i] = <<>>
  BY <1>2, <1>3 DEF Started
<1>5. FlattenSeq(inHand) = IF a \in 1 .. Len(inHand) THEN inHand[a] ELSE <<>>
  <2>. HIDE DEF inHand, K
  <2>. QED
    BY <1>3, <1>4, FlattenOne
<1>6. CASE Active = {}
  <2>1. \A i \in 1 .. Len(inHand) : inHand[i] = <<>>
    BY <1>3, <1>6 DEF Started
  <2>2. FlattenSeq(inHand) = <<>>
    BY <1>5, <2>1
  <2>3. /\ Body = messages /\ Held = <<>>
        /\ Body \in Seq(Known(sent)) /\ Held \in Seq(Known(sent))
    BY <1>6, NoRunLeft
  <2>. HIDE DEF inHand
  <2>. QED
    BY <1>1, <2>2, <2>3
<1>7. CASE Active # {}
  <2>1. PICK r : r \in Active
    BY <1>7
  <2>2. /\ a = r /\ r \in Started /\ Body = messages \o InFlight(runs[r])
        /\ Held = runs[r].pending /\ messages \in Seq(K)
        /\ InFlight(runs[r]) \in Seq(K) /\ Held \in Seq(K) /\ Body \in Seq(K)
    BY <2>1, OnlyRun
  <2>3. FlattenSeq(inHand) = InFlight(runs[r]) \o Held
    <3>1. a \in 1 .. Len(inHand) /\ inHand[a] = InFlight(runs[r]) \o Held
      BY <1>3, <2>1, <2>2 DEF Started
    <3>. HIDE DEF inHand, a
    <3>. QED
      BY <1>5, <3>1
  <2>4. messages \o (InFlight(runs[r]) \o Held) = (messages \o InFlight(runs[r])) \o Held
    <3>1. \A x, y, z \in Seq(K) : (x \o y) \o z = x \o (y \o z)
      BY ConcatAssoc
    <3>. QED
      BY <2>2, <3>1
  <2>. HIDE DEF inHand
  <2>. QED
    BY <1>1, <2>2, <2>3, <2>4
<1>. QED
  BY <1>6, <1>7

(* What the line says about the messages.                                   *)
LEMMA LineSays ==
  ASSUME TypeInv, OneRun, LineInv
  PROVE  NoMessageLost /\ DeliveredInOrder
<1>. DEFINE line == ((Body \o Held) \o steeringQueue) \o followUpQueue
            K == Known(sent)
<1>1. /\ Line = line /\ Body \in Seq(K) /\ Held \in Seq(K)
      /\ steeringQueue \in Seq(K) /\ followUpQueue \in Seq(K)
  BY LineParts, QueuesKnown
<1>2. /\ Neat(line) /\ line \in Seq(K)
      /\ Users(line) = Users(Body) \cup Users(Held) \cup Users(steeringQueue) \cup Users(followUpQueue)
  <2>. DEFINE bp == Body \o Held
              bps == bp \o steeringQueue
  <2>1. Joint(Body, Held, bp) /\ bp \in Seq(K)
    BY <1>1, Joined
  <2>. HIDE DEF bp
  <2>2. Joint(bp, steeringQueue, bps) /\ bps \in Seq(K)
    BY <1>1, <2>1, Joined
  <2>. HIDE DEF bps
  <2>. DEFINE l == bps \o followUpQueue
  <2>3. Joint(bps, followUpQueue, l) /\ l \in Seq(K)
    BY <1>1, <2>2, Joined
  <2>4. l = line
    BY DEF bps, bp
  <2>. HIDE DEF l
  <2>5. /\ Neat(l) <=> Tidy(Body, Held, steeringQueue, followUpQueue)
        /\ Users(l) = Users(Body) \cup Users(Held) \cup Users(steeringQueue) \cup Users(followUpQueue)
    <3>1. \A b, p, s, f, x, y, z :
            Joint(b, p, x) /\ Joint(x, s, y) /\ Joint(y, f, z)
            => (Neat(z) <=> Tidy(b, p, s, f))
      BY LineTidy, Zenon
    <3>2. \A b, p, s, f, x, y, z :
            Joint(b, p, x) /\ Joint(x, s, y) /\ Joint(y, f, z)
            => Users(z) = Users(b) \cup Users(p) \cup Users(s) \cup Users(f)
      BY DEF Joint
    <3>. QED
      BY <2>1, <2>2, <2>3, <3>1, <3>2
  <2>. QED
    BY <2>3, <2>4, <2>5 DEF LineInv, InLine
<1>3. Ids(Line) = (1 .. sent) \ dropped
  <2>1. Ids(line) = Numbers(Users(line))
    BY <1>2, UsersIds
  <2>. QED
    BY <1>1, <1>2, <2>1 DEF LineInv, InLine
<1>4. Neat(Line) /\ Line \in Seq(K) /\ DOMAIN Line = 1 .. Len(Line) /\ Len(Line) \in Nat
  <2>1. Neat(Line) /\ Line \in Seq(K)
    BY <1>1, <1>2
  <2>. QED
    BY <2>1
<1>5. ASSUME NEW i \in 1 .. Len(Line), NEW j \in 1 .. Len(Line),
             Line[i].role = "user", Line[j].role = "user", Line[i].id = Line[j].id
      PROVE  i = j
  <2>1. ~ (i < j) /\ ~ (j < i)
    BY <1>4, <1>5 DEF Neat, Before
  <2>. QED
    BY <1>4, <2>1
<1>6. ASSUME NEW i \in 1 .. Len(Line), NEW j \in 1 .. Len(Line), i < j,
             Line[i].role = "user", Line[j].role = "user", Line[i].n = Line[j].n
      PROVE  Line[i].id < Line[j].id
  BY <1>4, <1>6 DEF Neat, Before
<1>. QED
  BY <1>3, <1>4, <1>5, <1>6 DEF NoMessageLost, DeliveredInOrder
-----------------------------------------------------------------------------
\* What came in one way is not what came in another.
LEMMA OtherWay ==
  ASSUME NEW n \in Nat, NEW a \in Seq(Via(n, steered)), NEW b \in Seq(Via(n, followed))
  PROVE  \A u \in Users(a), v \in Users(b) : u.n # v.n
<1>1. steered # followed
  BY DEF steered, followed
<1>. QED
  BY <1>1, UsersVia

\* A loop that holds nothing takes t from a queue.
LEMMA LineTakes ==
  ASSUME NEW t, Takes(t), TypeInv, NEW b, NEW e, Bare(e),
         InLine(b, e, steeringQueue, followUpQueue, sent, dropped)
  PROVE  \/ t = <<>> /\ steeringQueue' = steeringQueue /\ followUpQueue' = followUpQueue
         \/ InLine(b, t, steeringQueue', followUpQueue', sent, dropped)
<1>0. /\ sent \in Nat /\ steeringQueue \in Seq(Via(sent, steered))
      /\ followUpQueue \in Seq(Via(sent, followed))
  BY SentKnown DEF TypeInv
<1>1. CASE t = <<>> /\ UNCHANGED queues
  BY <1>1 DEF queues
<1>2. CASE /\ t \in Seq(Via(sent, steered)) /\ steeringQueue' \in Seq(Via(sent, steered))
           /\ steeringQueue = t \o steeringQueue' /\ UNCHANGED followUpQueue
  <2>1. Joint(t, steeringQueue', steeringQueue)
    BY <1>2, Joined
  <2>2. InLine(b, t, steeringQueue', followUpQueue, sent, dropped)
    BY <2>1, LineSteered
  <2>. QED
    BY <1>2, <2>2
<1>3. CASE /\ t \in Seq(Via(sent, followed)) /\ followUpQueue' \in Seq(Via(sent, followed))
           /\ followUpQueue = t \o followUpQueue' /\ UNCHANGED steeringQueue
  <2>1. Joint(t, followUpQueue', followUpQueue)
    BY <1>3, Joined
  <2>2. \A u \in Users(steeringQueue), v \in Users(t) : u.n # v.n
    BY <1>0, <1>3, OtherWay
  <2>3. InLine(b, t, steeringQueue, followUpQueue', sent, dropped)
    BY <2>1, <2>2, LineFollowed
  <2>. QED
    BY <1>3, <2>3
<1>. QED
  BY <1>1, <1>2, <1>3 DEF Takes

\* Nothing of what the line is made of changes.
LEMMA LineSame ==
  ASSUME LineInv, Body' = Body, Held' = Held, UNCHANGED <<queues, sent, dropped>>
  PROVE  LineInv'
  BY DEF LineInv, InLine, queues

(* A step of a loop.                                                        *)
LEMMA LineProduce ==
  ASSUME TypeInv, OneRun, AllAnswered, LineInv, NEW r \in Started, Produce(r)
  PROVE  LineInv'
<1>1. PICK new, d, t : LoopStep(r, new, d, t)
  BY ProduceAdvances
<1>2. /\ Advances(runs[r], new, d, t, sent) /\ runs' = [runs EXCEPT ![r] = new]
      /\ runs[r].phase # "ended" /\ Takes(t) /\ new.consumer = runs[r].consumer
      /\ messages' = messages /\ sent' = sent /\ dropped' = dropped
      /\ abortController' = abortController
  BY <1>1, ProduceKeeps DEF LoopStep, Advances, Hands, state, ownership
<1>3. r \in Active
  <2>1. runs[r] \in KnownRun(sent)
    BY DEF TypeInv, RunOK
  <2>. QED
    BY <1>2, <2>1 DEF AllAnswered, Active, KnownRun
<1>4. Active' = Active /\ runs'[r] = new
  BY <1>2, SameActive DEF TypeInv
<1>5. /\ Active = {r} /\ abortController = r
      /\ Body = messages \o InFlight(runs[r]) /\ Held = runs[r].pending
      /\ sent \in Nat /\ messages \in Seq(Known(sent)) /\ RunOK(runs[r], sent)
      /\ InFlight(runs[r]) \in Seq(Known(sent)) /\ Held \in Seq(Known(sent))
      /\ Body \in Seq(Known(sent))
  BY <1>3, OnlyRun
<1>6. Body' = messages \o InFlight(new) /\ Held' = new.pending
  BY <1>2, <1>4, <1>5 DEF Body, Held
<1>7. d \in Seq(Known(sent)) /\ InFlight(new) = InFlight(runs[r]) \o d
  BY <1>2, <1>3 DEF Advances, Hands, Active
<1>8. Body' = Body \o d /\ Joint(Body, d, Body')
  <2>1. Body' = Body \o d
    <3>. DEFINE i == InFlight(runs[r])
                K == Known(sent)
    <3>1. Body' = messages \o (i \o d) /\ Body = messages \o i
      BY <1>5, <1>6, <1>7
    <3>2. messages \in Seq(K) /\ i \in Seq(K) /\ d \in Seq(K)
      BY <1>5, <1>7
    <3>. HIDE DEF i, K
    <3>3. (messages \o i) \o d = messages \o (i \o d)
      BY <3>2, ConcatAssoc
    <3>. QED
      BY <3>1, <3>3
  <2>2. Joint(Body, d, Body \o d)
    BY <1>5, <1>7, Joined
  <2>. QED
    BY <2>1, <2>2
<1>9. LineInv' <=> InLine(Body', Held', steeringQueue', followUpQueue', sent, dropped)
  BY <1>2 DEF LineInv
<1>. DEFINE e == <<>>
<1>10. Bare(e) /\ e \in Seq(Known(sent))
  BY BareEmpty
<1>11. CASE /\ \E x \in Seq(Known(sent)) : NoUsers(x) /\ d = x \o runs[r].pending
            /\ new.pending = e /\ t = e
  <2>1. PICK x \in Seq(Known(sent)) : NoUsers(x) /\ d = x \o runs[r].pending
    BY <1>11
  <2>2. Bare(x)
    BY <2>1, UsersNone DEF Bare
  <2>3. Joint(x, Held, d)
    BY <1>5, <2>1, Joined
  <2>. HIDE DEF e
  <2>4. InLine(Body', e, steeringQueue, followUpQueue, sent, dropped)
    BY <1>8, <1>10, <2>2, <2>3, LineHands DEF LineInv
  <2>5. Held' = e
    BY <1>6, <1>11
  <2>6. \/ t = <<>> /\ steeringQueue' = steeringQueue /\ followUpQueue' = followUpQueue
        \/ InLine(Body', t, steeringQueue', followUpQueue', sent, dropped)
    BY <1>2, <1>10, <2>4, LineTakes
  <2>. QED
    BY <1>9, <1>11, <2>4, <2>5, <2>6
<1>12. CASE NoUsers(d) /\ runs[r].pending = e /\ new.pending = t
  <2>1. Bare(d) /\ Held = e
    BY <1>5, <1>7, <1>12, UsersNone DEF Bare
  <2>2. d \o e = d
    BY <1>7, ConcatEmpty
  <2>3. Joint(d, e, d)
    BY <1>7, <1>10, <2>2, Joined
  <2>. HIDE DEF e
  <2>4. InLine(Body', e, steeringQueue, followUpQueue, sent, dropped)
    BY <1>8, <1>10, <2>1, <2>3, LineHands DEF LineInv
  <2>5. \/ t = <<>> /\ steeringQueue' = steeringQueue /\ followUpQueue' = followUpQueue
        \/ InLine(Body', t, steeringQueue', followUpQueue', sent, dropped)
    BY <1>2, <1>10, <2>4, LineTakes
  <2>6. Held' = t
    BY <1>6, <1>12
  <2>. QED
    BY <1>9, <2>4, <2>5, <2>6 DEF e
<1>. QED
  BY <1>2, <1>11, <1>12 DEF Advances

(* The consumer takes an event, which may put its message in the state, or  *)
(* is done.                                                                 *)
LEMMA LineConsume ==
  ASSUME TypeInv, OneRun, LineInv, NEW r \in Started, Consume(r)
  PROVE  LineInv'
<1>1. r \in Active
  BY DEF Consume, Active
<1>2. /\ messages' \o InFlight(runs'[r]) = messages \o InFlight(runs[r])
      /\ runs'[r].pending = runs[r].pending /\ Active' = Active
  BY ConsumeDoes
<1>3. /\ Active = {r} /\ abortController = r
      /\ Body = messages \o InFlight(runs[r]) /\ Held = runs[r].pending
  BY <1>1, OnlyRun
<1>4. UNCHANGED <<queues, abortController, sent, dropped>>
  BY DEF Consume, ownership, counters
<1>5. Body' = Body /\ Held' = Held
  BY <1>2, <1>3, <1>4 DEF Body, Held
<1>. QED
  BY <1>4, <1>5, LineSame

LEMMA LineFinish ==
  ASSUME TypeInv, OneRun, LineInv, NEW r \in Started, Finish(r)
  PROVE  LineInv'
<1>1. /\ r \in Active /\ Leave(r, FALSE) /\ runs[r].stream = <<>> /\ runs[r].phase = "ended"
      /\ messages' = messages /\ UNCHANGED <<queues, sent, dropped>>
  BY DEF Finish, Active, counters
<1>2. /\ Active = {r}
      /\ Body = messages \o InFlight(runs[r]) /\ Held = runs[r].pending
      /\ messages \in Seq(Known(sent)) /\ RunOK(runs[r], sent)
  BY <1>1, OnlyRun
<1>3. Active' = {}
  BY <1>1, <1>2, LeaveDoes
<1>4. InFlight(runs[r]) = <<>>
  BY <1>1, FlightOfRun, FlightEmpty
<1>5. Body = messages /\ Held = <<>>
  BY <1>1, <1>2, <1>4, ConcatEmpty DEF RunOK
<1>6. Body' = messages' /\ Held' = <<>>
  BY <1>3 DEF Body, Held
<1>. QED
  BY <1>1, <1>5, <1>6, LineSame

LEMMA LineAbort ==
  ASSUME TypeInv, OneRun, LineInv, Abort
  PROVE  LineInv'
<1>. DEFINE a == abortController
            new == [runs[a] EXCEPT !.aborted = TRUE]
<1>1. /\ a \in Active /\ a \in Started /\ runs' = [runs EXCEPT ![a] = new]
      /\ new.consumer = runs[a].consumer /\ new.stream = runs[a].stream
      /\ new.pending = runs[a].pending
  BY AbortDoes
<1>. HIDE DEF new
<1>2. Active' = Active /\ runs'[a] = new
  BY <1>1, SameActive DEF TypeInv
<1>3. InFlight(new) = InFlight(runs[a])
  BY <1>1, FlightOfRun
<1>4. UNCHANGED <<messages, queues, abortController, sent, dropped>>
  BY DEF Abort, state, ownership, counters
<1>5. Body' = Body /\ Held' = Held
  BY <1>1, <1>2, <1>3, <1>4 DEF Body, Held
<1>. QED
  BY <1>4, <1>5, LineSame

(* A caller starts a run, with a message of its own, with messages of a     *)
(* queue, or with none.                                                     *)
LEMMA LineStart ==
  ASSUME TypeInv, OneRun, LineInv, NEW ms, NEW t, NEW n \in {sent, sent + 1}, Starts(ms, t, n),
         Active = {}
  PROVE  LineInv'
<1>. DEFINE new == Begun(messages, ms, t)
            r == Len(runs) + 1
            e == <<>>
            s == steeringQueue
            f == followUpQueue
            s2 == steeringQueue'
            f2 == followUpQueue'
            all == messages \o ms
<1>1. /\ runs' = Append(runs, new) /\ messages' = messages /\ sent' = n /\ dropped' = dropped
      /\ n \in Nat /\ ms \in Seq(FromUsers(n)) /\ t \in Seq(FromUsers(n))
      /\ messages \o ms # <<>> /\ messages \in Seq(Known(n)) /\ abortController' = r
      /\ s2 \in Seq(Via(n, steered)) /\ f2 \in Seq(Via(n, followed)) /\ Begins(ms, t, n)
  BY DEF Starts
<1>2. /\ sent \in Nat /\ dropped \subseteq 1 .. sent
      /\ s \in Seq(Via(sent, steered)) /\ f \in Seq(Via(sent, followed))
  BY SentKnown DEF TypeInv
<1>3. /\ InFlight(new) = ms /\ new.pending = t /\ new.consumer = "active" /\ RunOK(new, n)
  <2>1. messages # <<>> \/ ms # <<>>
    BY <1>1
  <2>. QED
    BY <1>1, <2>1, ActiveNat, BegunIs
<1>. HIDE DEF new
<1>4. runs \in Seq(KnownRun(n))
  BY Grown DEF TypeInv
<1>5. Active' = {r} /\ runs'[r] = new
  BY <1>1, <1>3, <1>4, RunBegins DEF RunOK
<1>6. Body' = all /\ Held' = t
  BY <1>1, <1>3, <1>5 DEF Body, Held
<1>7. Body = messages /\ Held = e
  BY DEF Body, Held
<1>8. LineInv' <=> InLine(all, t, s2, f2, n, dropped)
  BY <1>1, <1>6 DEF LineInv
<1>9. InLine(messages, e, s, f, sent, dropped) /\ Bare(e)
  BY <1>7, BareEmpty DEF LineInv
<1>10. ms \in Seq(Known(n)) /\ Joint(messages, ms, all)
  <2>1. ms \in Seq(Known(n))
    BY <1>1, KnownMessages, SeqMonotone
  <2>. QED
    BY <1>1, <2>1, Joined
<1>. DEFINE K == Known(n)
<1>11. t \in Seq(K) /\ s2 \in Seq(K) /\ f2 \in Seq(K) /\ ms \in Seq(K)
  <2>1. /\ FromUsers(n) \subseteq K /\ Via(n, steered) \subseteq K /\ Via(n, followed) \subseteq K
    BY <1>1, KnownMessages
  <2>. QED
    BY <1>1, <1>10, <2>1, SeqMonotone
<1>. HIDE DEF all, e, K
<1>12. CASE /\ n = sent + 1 /\ ms = <<User(sent + 1, prompted)>> /\ s = t \o s2 /\ f2 = f
  <2>. DEFINE u == User(sent + 1, prompted)
  <2>1. u.role = "user" /\ u.id = sent + 1 /\ u.n = prompted
    BY <1>2, NewUser
  <2>. HIDE DEF u
  <2>2. Users(ms) = {u} /\ Neat(ms)
    BY <1>12, <2>1, UsersOne DEF u
  <2>3. \A v \in Users(s) \cup Users(f) : v.n # u.n
    <3>1. prompted # steered /\ prompted # followed
      BY DEF prompted, steered, followed
    <3>. QED
      BY <1>2, <2>1, <3>1, UsersVia
  <2>4. InLine(all, e, s, f, n, dropped)
    BY <1>2, <1>9, <1>10, <1>12, <2>1, <2>2, <2>3, LinePrompted
  <2>5. Joint(t, s2, s)
    BY <1>11, <1>12, Joined
  <2>. QED
    BY <1>8, <1>9, <1>12, <2>4, <2>5, LineSteered
<1>13. CASE n = sent /\ ms = <<>> /\ s = t \o s2 /\ f2 = f
  <2>1. all = messages
    BY <1>1, <1>13, ConcatEmpty DEF all
  <2>2. Joint(t, s2, s)
    BY <1>11, <1>13, Joined
  <2>. QED
    BY <1>8, <1>9, <1>13, <2>1, <2>2, LineSteered
<1>14. CASE n = sent /\ t = <<>> /\ s = ms \o s2 /\ f2 = f
  <2>1. Joint(ms, s2, s)
    BY <1>11, <1>14, Joined
  <2>2. InLine(messages, ms, s2, f, sent, dropped)
    BY <1>9, <2>1, LineSteered
  <2>3. InLine(all, e, s2, f, sent, dropped)
    BY <1>9, <1>10, <2>2, LineJoins
  <2>. QED
    BY <1>8, <1>14, <2>3 DEF e
<1>15. CASE n = sent /\ t = <<>> /\ s = <<>> /\ s2 = <<>> /\ f = ms \o f2
  <2>1. Joint(ms, f2, f)
    BY <1>11, <1>15, Joined
  <2>2. \A u \in Users(s), v \in Users(ms) : u.n # v.n
    BY <1>15, UsersEmpty
  <2>3. InLine(messages, ms, s, f2, sent, dropped)
    BY <1>9, <2>1, <2>2, LineFollowed
  <2>4. InLine(all, e, s, f2, sent, dropped)
    BY <1>9, <1>10, <2>3, LineJoins
  <2>. QED
    BY <1>8, <1>15, <2>4 DEF e
<1>. QED
  BY <1>1, <1>12, <1>13, <1>14, <1>15 DEF Begins

LEMMA LineCalls ==
  ASSUME TypeInv, OneRun, LineInv, Steer \/ FollowUp
  PROVE  LineInv'
<1>1. /\ sent \in Nat /\ dropped \subseteq 1 .. sent /\ sent + 1 \in Nat
      /\ steeringQueue \in Seq(Via(sent, steered)) /\ followUpQueue \in Seq(Via(sent, followed))
      /\ steeringQueue \in Seq(Via(sent + 1, steered))
      /\ followUpQueue \in Seq(Via(sent + 1, followed))
  BY SentKnown, Grown DEF TypeInv
<1>2. UNCHANGED <<messages, runs, abortController, dropped>> /\ sent' = sent + 1
  BY DEF Steer, FollowUp, state, ownership
<1>3. Body' = Body /\ Held' = Held
  BY <1>2 DEF Body, Held, Active, Started
<1>4. InLine(Body, Held, steeringQueue, followUpQueue, sent, dropped)
  BY DEF LineInv
<1>5. LineInv' <=> InLine(Body, Held, steeringQueue', followUpQueue', sent + 1, dropped)
  BY <1>2, <1>3 DEF LineInv
<1>6. CASE Steer
  <2>. DEFINE u == User(sent + 1, steered)
              one == <<u>>
              z == Append(steeringQueue, u)
  <2>1. u \in Via(sent + 1, steered) /\ u.role = "user" /\ u.id = sent + 1 /\ u.n = steered
    BY <1>1, NewUser
  <2>2. steeringQueue' = z /\ followUpQueue' = followUpQueue
    BY <1>6 DEF Steer
  <2>. HIDE DEF u
  <2>3. Users(one) = {u} /\ Neat(one)
    BY <2>1, UsersOne
  <2>4. Joint(steeringQueue, one, z)
    <3>1. one \in Seq(Via(sent + 1, steered)) /\ z = steeringQueue \o one
      BY <1>1, <2>1, ConcatAppend
    <3>. QED
      BY <1>1, <3>1, Joined
  <2>. HIDE DEF one, z
  <2>5. \A v \in Users(followUpQueue) : v.n # u.n
    <3>1. steered # followed
      BY DEF steered, followed
    <3>. QED
      BY <1>1, <2>1, <3>1, UsersVia
  <2>6. InLine(Body, Held, z, followUpQueue, sent + 1, dropped)
    BY <1>1, <1>4, <2>1, <2>3, <2>4, <2>5, LineSteers
  <2>. QED
    BY <1>5, <2>2, <2>6
<1>7. CASE FollowUp
  <2>. DEFINE u == User(sent + 1, followed)
              one == <<u>>
              z == Append(followUpQueue, u)
  <2>1. u \in Via(sent + 1, followed) /\ u.role = "user" /\ u.id = sent + 1
    BY <1>1, NewUser
  <2>2. steeringQueue' = steeringQueue /\ followUpQueue' = z
    BY <1>7 DEF FollowUp
  <2>. HIDE DEF u
  <2>3. Users(one) = {u} /\ Neat(one)
    BY <2>1, UsersOne
  <2>4. Joint(followUpQueue, one, z)
    <3>1. one \in Seq(Via(sent + 1, followed)) /\ z = followUpQueue \o one
      BY <1>1, <2>1, ConcatAppend
    <3>. QED
      BY <1>1, <3>1, Joined
  <2>. HIDE DEF one, z
  <2>5. InLine(Body, Held, steeringQueue, z, sent + 1, dropped)
    BY <1>1, <1>4, <2>1, <2>3, <2>4, LineFollows
  <2>. QED
    BY <1>5, <2>2, <2>5
<1>. QED
  BY <1>6, <1>7

LEMMA LineDropped ==
  ASSUME TypeInv, OneRun, LineInv, ClearAllQueues \/ Reset \/ DropFailedAnswer
  PROVE  LineInv'
<1>1. /\ messages \in Seq(Known(sent)) /\ sent \in Nat
      /\ steeringQueue \in Seq(Known(sent)) /\ followUpQueue \in Seq(Known(sent))
  BY SentKnown, QueuesKnown DEF TypeInv
<1>2. /\ Ids(messages) = Numbers(Users(messages))
      /\ Ids(steeringQueue) = Numbers(Users(steeringQueue))
      /\ Ids(followUpQueue) = Numbers(Users(followUpQueue))
  BY <1>1, UsersIds
<1>3. InLine(Body, Held, steeringQueue, followUpQueue, sent, dropped)
  BY DEF LineInv
<1>4. UNCHANGED <<runs, abortController, sent>> /\ Active' = Active
  BY DEF ClearAllQueues, Reset, DropFailedAnswer, ownership, counters, Active, Started
<1>5. \A a, b, c : /\ Numbers(a) \cup Numbers(b) = Numbers(a \cup b)
                   /\ Numbers(a) \cup Numbers(b) \cup Numbers(c) = Numbers(a \cup b \cup c)
  BY DEF Numbers
<1>. DEFINE e == <<>>
<1>6. Bare(e)
  BY BareEmpty
<1>7. CASE ClearAllQueues
  <2>. DEFINE ids == Ids(steeringQueue) \cup Ids(followUpQueue)
  <2>1. /\ messages' = messages /\ dropped' = dropped \cup ids
        /\ steeringQueue' = e /\ followUpQueue' = e
    BY <1>7 DEF ClearAllQueues, state
  <2>2. Body' = Body /\ Held' = Held
    BY <1>4, <2>1 DEF Body, Held
  <2>3. ids = Numbers(Users(steeringQueue) \cup Users(followUpQueue))
    BY <1>2, <1>5
  <2>. HIDE DEF e, ids
  <2>4. InLine(Body, Held, e, e, sent, dropped \cup ids)
    BY <1>3, <1>6, <2>3, LineCleared
  <2>. QED
    BY <1>4, <2>1, <2>2, <2>4 DEF LineInv
<1>8. CASE Reset
  <2>. DEFINE ids == Ids(messages) \cup Ids(steeringQueue) \cup Ids(followUpQueue)
  <2>1. /\ messages' = e /\ dropped' = dropped \cup ids
        /\ steeringQueue' = e /\ followUpQueue' = e /\ Active = {}
    BY <1>8 DEF Reset
  <2>2. Body' = e /\ Held' = e /\ Body = messages /\ Held = e
    BY <1>4, <2>1 DEF Body, Held
  <2>3. ids = Numbers(Users(messages) \cup Users(steeringQueue) \cup Users(followUpQueue))
    BY <1>2, <1>5
  <2>. HIDE DEF e, ids
  <2>4. InLine(e, e, e, e, sent, dropped \cup ids)
    BY <1>3, <1>6, <2>2, <2>3, LineReset
  <2>. QED
    BY <1>4, <2>1, <2>2, <2>4 DEF LineInv
<1>9. CASE DropFailedAnswer
  <2>. DEFINE x == <<Last(messages)>>
              c == Front(messages)
  <2>1. /\ messages' = c /\ messages # <<>> /\ Last(messages).stop = "error"
        /\ UNCHANGED <<queues, dropped>> /\ Active = {}
    BY <1>9 DEF DropFailedAnswer, counters
  <2>2. c \in Seq(Known(sent)) /\ Last(messages) \in Known(sent)
        /\ messages = Append(c, Last(messages))
    BY <1>1, <2>1, FrontLast
  <2>3. Last(messages).role # "user"
    BY <2>1, <2>2 DEF Known
  <2>4. x \in Seq(Known(sent)) /\ messages = c \o x /\ NoUsers(x)
    BY <2>2, <2>3 DEF NoUsers
  <2>. HIDE DEF x, c
  <2>5. Bare(x) /\ Joint(c, x, messages)
    BY <2>2, <2>4, UsersNone, Joined DEF Bare
  <2>6. Body' = c /\ Held' = Held /\ Body = messages
    BY <1>4, <2>1 DEF Body, Held
  <2>7. InLine(c, Held, steeringQueue, followUpQueue, sent, dropped)
    BY <1>3, <2>5, <2>6, LineDrops
  <2>. QED
    BY <1>4, <2>1, <2>6, <2>7 DEF LineInv, queues
<1>. QED
  BY <1>7, <1>8, <1>9

LEMMA LineStep ==
  ASSUME ~EagerCallers, ~ListenersThrow, TypeInv, OneRun, AllAnswered, LineInv, [Next]_vars
  PROVE  LineInv'
<1>1. CASE UNCHANGED vars
  BY <1>1 DEF vars, state, ownership, counters, queues, LineInv, InLine, Body, Held, Active, Started
<1>2. CASE Patient /\ (Prompt \/ Continue)
  <2>1. Active = {}
    BY <1>2 DEF Patient
  <2>. QED
    BY <1>2, <2>1, PromptStarts, ContinueStarts, LineStart
<1>3. CASE Steer \/ FollowUp
  BY <1>3, LineCalls
<1>4. CASE ClearAllQueues \/ Reset \/ DropFailedAnswer
  BY <1>4, LineDropped
<1>5. CASE Abort
  BY <1>5, LineAbort
<1>6. ASSUME NEW r \in Started, Produce(r) \/ Consume(r) \/ Finish(r) PROVE LineInv'
  BY <1>6, LineProduce, LineConsume, LineFinish
<1>7. ASSUME NEW r \in Started, ListenerThrows(r) PROVE LineInv'
  BY <1>7 DEF ListenerThrows
<1>. QED
  BY <1>1, <1>2, <1>3, <1>4, <1>5, <1>6, <1>7 DEF Next, Call

LEMMA LineInit ==
  ASSUME Init PROVE LineInv
<1>1. Active = {} /\ messages = <<>> /\ steeringQueue = <<>> /\ followUpQueue = <<>>
      /\ sent = 0 /\ dropped = {}
  BY DEF Init, Active, Started
<1>. DEFINE e == <<>>
<1>2. Body = e /\ Held = e
  BY <1>1 DEF Body, Held
<1>3. Bare(e)
  BY BareEmpty
<1>4. Tidy(e, e, e, e)
  BY <1>3, BareCross DEF Bare, Tidy
<1>5. Numbers(Users(e) \cup Users(e) \cup Users(e) \cup Users(e)) = (1 .. 0) \ {}
  BY <1>3 DEF Bare, Numbers
<1>. QED
  BY <1>1, <1>2, <1>4, <1>5 DEF LineInv, InLine

LEMMA LineAlways ==
  ASSUME ~EagerCallers, ~ListenersThrow
  PROVE  Spec => [](NoMessageLost /\ DeliveredInOrder)
<1>1. Init => LineInv
  BY LineInit
<1>2. TypeInv /\ OneRun /\ AllAnswered /\ LineInv /\ [Next]_vars => LineInv'
  BY LineStep
<1>3. TypeInv /\ OneRun /\ LineInv => NoMessageLost /\ DeliveredInOrder
  BY LineSays
<1>. QED
  BY <1>1, <1>2, <1>3, AnsweredAlways, PTL DEF Spec

(* Each message that was accepted is in exactly one of the queues, the      *)
(* hands of the loop, the stream and the state, until a caller drops it,    *)
(* whatever the interleaving, as long as no listener throws (agent.ts       *)
(* 289-317, 380-406, agent-loop.ts 114-190).                                *)
THEOREM MessagesAreKept ==
  ASSUME ~EagerCallers, ~ListenersThrow PROVE Spec => []NoMessageLost
<1>. QED
  BY LineAlways, PTL

(* Messages that came in the same way are dealt with in the order they came *)
(* in, whichever poll or call takes them (agent.ts 260-270, 289-317).       *)
THEOREM MessagesKeepOrder ==
  ASSUME ~EagerCallers, ~ListenersThrow PROVE Spec => []DeliveredInOrder
<1>. QED
  BY LineAlways, PTL
=============================================================================
