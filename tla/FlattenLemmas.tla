---------------------------- MODULE FlattenLemmas ----------------------------
(***************************************************************************)
(* What the plans of DataRequests and Install are put together with: the   *)
(* concatenation of a sequence of sequences.  A set of sequences that the  *)
(* empty one is in, and that concatenation does not lead out of, is not    *)
(* left by FlattenSeq either.                                              *)
(***************************************************************************)
EXTENDS Integers, Sequences, SequencesExt, WellFoundedInduction, TLAPS

Less == {p \in Nat \X Nat : p[1] < p[2]}

LEMMA LessWellFounded == IsWellFoundedOn(Less, Nat)
<1>1. Less = OpToRel(<, Nat)
  BY Zenon DEF Less, OpToRel
<1> QED
  BY <1>1, NatLessThanWellFounded, Zenon

\* Induction over the numbers, for a set.
LEMMA NatInSet ==
  ASSUME NEW S, 0 \in S, \A n \in Nat : n \in S => n + 1 \in S
  PROVE  Nat \subseteq S
<1> DEFINE T == Nat \ S
<1> SUFFICES ASSUME T # {} PROVE FALSE
  OBVIOUS
<1>1. PICK x \in T : \A y \in T : ~(<<y, x>> \in Less)
  <2>1. T \subseteq Nat
    OBVIOUS
  <2> HIDE DEF T
  <2> QED
    BY <2>1, LessWellFounded, WFMin
<1>2. x \in Nat /\ x # 0
  OBVIOUS
<1>3. x - 1 \in Nat /\ x - 1 < x
  BY <1>2
<1>4. <<x - 1, x>> \in Less
  BY <1>2, <1>3 DEF Less
<1>5. x - 1 \in S
  BY <1>1, <1>3, <1>4
<1> QED
  BY <1>5, <1>3, <1>2

\* Concatenation, of which the next proof needs no more than its assumption says.
Cat(p, q) == p \o q

\* FlattenSeq goes from part to part, and does not leave a set that concatenation
\* does not leave.
LEMMA FlattenParts ==
  ASSUME NEW G, \A p, q \in G : p \o q \in G, NEW seqs \in Seq(G), Len(seqs) # 0
  PROVE  \E f \in [1..Len(seqs) -> G] :
           /\ f[1] = seqs[1]
           /\ \A i \in 2..Len(seqs) : f[i] = Cat(f[i - 1], seqs[i])
           /\ FlattenSeq(seqs) = f[Len(seqs)]
<1> DEFINE n == Len(seqs)
           Is(f, k) == f = [i \in 1..k |-> IF i = 1 THEN seqs[i] ELSE Cat(f[i - 1], seqs[i])]
           Good == {k \in Nat : k <= n => \E f \in [1..k -> G] : Is(f, k)}
<1>0. \A p, q \in G : Cat(p, q) \in G
  BY DEF Cat
<1>1. 0 \in Good
  <2>1. [i \in 1..0 |-> <<>>] \in [1..0 -> G]
    OBVIOUS
  <2>2. Is([i \in 1..0 |-> <<>>], 0)
    OBVIOUS
  <2> QED
    BY <2>1, <2>2
<1>2. ASSUME NEW k \in Nat, k \in Good PROVE k + 1 \in Good
  <2> SUFFICES ASSUME k + 1 <= n PROVE \E f \in [1..(k + 1) -> G] : Is(f, k + 1)
    OBVIOUS
  <2>1. PICK f \in [1..k -> G] : Is(f, k)
    BY <1>2
  <2> DEFINE g == [i \in 1..(k + 1) |->
                     IF i <= k THEN f[i] ELSE IF i = 1 THEN seqs[i] ELSE Cat(f[i - 1], seqs[i])]
  <2>2. g \in [1..(k + 1) -> G]
    <3> SUFFICES ASSUME NEW i \in 1..(k + 1) PROVE g[i] \in G
      OBVIOUS
    <3>1. CASE i <= k
      BY <3>1
    <3>2. CASE i > k /\ i = 1
      BY <3>2
    <3>3. CASE i > k /\ i # 1
      <4>1. i - 1 \in 1..k /\ i \in 1..n
        BY <3>3
      <4>2. f[i - 1] \in G /\ seqs[i] \in G
        BY <4>1
      <4>3. Cat(f[i - 1], seqs[i]) \in G
        BY <4>2, <1>0
      <4> QED
        BY <4>3, <3>3
    <3> QED
      BY <3>1, <3>2, <3>3
  <2>3. Is(g, k + 1)
    <3> SUFFICES ASSUME NEW i \in 1..(k + 1)
                 PROVE  g[i] = IF i = 1 THEN seqs[i] ELSE Cat(g[i - 1], seqs[i])
      OBVIOUS
    <3>1. CASE i <= k
      <4>1. g[i] = f[i]
        BY <3>1
      <4>2. f[i] = IF i = 1 THEN seqs[i] ELSE Cat(f[i - 1], seqs[i])
        BY <2>1, <3>1
      <4>3. i # 1 => g[i - 1] = f[i - 1]
        BY <3>1
      <4> QED
        BY <4>1, <4>2, <4>3
    <3>2. CASE i > k
      <4>1. i # 1 => g[i - 1] = f[i - 1]
        BY <3>2
      <4> QED
        BY <4>1, <3>2
    <3> QED
      BY <3>1, <3>2
  <2> QED
    BY <2>2, <2>3
<1>3. \E f \in [1..n -> G] : Is(f, n)
  <2>1. n \in Nat
    OBVIOUS
  <2> HIDE DEF Good
  <2>2. Nat \subseteq Good
    BY <1>1, <1>2, NatInSet
  <2>3. n \in Good
    BY <2>1, <2>2
  <2> QED
    BY <2>3 DEF Good
<1> DEFINE flatten == CHOOSE f : Is(f, n)
<1>4. Is(flatten, n)
  BY <1>3
<1>5. FlattenSeq(seqs) = flatten[n]
  BY DEF FlattenSeq, Cat
<1> HIDE DEF flatten
<1> DEFINE H == {k \in Nat : 1 <= k /\ k <= n => flatten[k] \in G}
<1>6. ASSUME NEW k \in Nat, k \in H PROVE k + 1 \in H
  <2> SUFFICES ASSUME k + 1 <= n PROVE flatten[k + 1] \in G
    OBVIOUS
  <2>1. flatten[k + 1] = IF k + 1 = 1 THEN seqs[k + 1] ELSE Cat(flatten[k + 1 - 1], seqs[k + 1])
    BY <1>4
  <2>2. seqs[k + 1] \in G
    OBVIOUS
  <2>3. CASE k = 0
    BY <2>1, <2>2, <2>3
  <2>4. CASE k # 0
    <3>1. flatten[k] \in G
      BY <1>6, <2>4
    <3>2. flatten[k + 1] = Cat(flatten[k], seqs[k + 1])
      BY <2>1, <2>4
    <3> QED
      BY <3>1, <3>2, <2>2, <1>0
  <2> QED
    BY <2>3, <2>4
<1>7. 0 \in H
  OBVIOUS
<1>8. \A k \in 1..n : flatten[k] \in G
  <2> HIDE DEF H
  <2>1. Nat \subseteq H
    BY <1>6, <1>7, NatInSet
  <2> QED
    BY <2>1 DEF H
<1>9. flatten \in [1..n -> G]
  <2>1. flatten = [i \in 1..n |-> IF i = 1 THEN seqs[i] ELSE Cat(flatten[i - 1], seqs[i])]
    BY <1>4
  <2>2. DOMAIN flatten = 1..n /\ flatten = [i \in 1..n |-> flatten[i]]
    BY <2>1
  <2> QED
    BY <1>8, <2>2
<1>10. flatten[1] = seqs[1] /\ \A i \in 2..n : flatten[i] = Cat(flatten[i - 1], seqs[i])
  BY <1>4
<1> QED
  BY <1>5, <1>9, <1>10

LEMMA FlattenClosed ==
  ASSUME NEW G, <<>> \in G, \A p, q \in G : p \o q \in G, NEW seqs \in Seq(G)
  PROVE  FlattenSeq(seqs) \in G
<1>1. CASE Len(seqs) = 0
  <2>1. seqs = <<>>
    BY <1>1
  <2> QED
    BY <2>1, <1>1 DEF FlattenSeq
<1>2. CASE Len(seqs) # 0
  <2>1. PICK f \in [1..Len(seqs) -> G] : FlattenSeq(seqs) = f[Len(seqs)]
    BY <1>2, FlattenParts
  <2> QED
    BY <1>2, <2>1
<1> QED
  BY <1>1, <1>2

\* One sequence begins with another.
StartsWith(S, x, y) == \E post \in Seq(S) : y = Cat(x, post)

LEMMA StartsWithItself == ASSUME NEW S, NEW x \in Seq(S) PROVE StartsWith(S, x, x)
<1>1. x = x \o <<>> /\ <<>> \in Seq(S)
  OBVIOUS
<1> QED
  BY <1>1 DEF StartsWith, Cat

LEMMA LongerStarts ==
  ASSUME NEW S, NEW x \in Seq(S), NEW y, NEW z \in Seq(S), StartsWith(S, x, y)
  PROVE  StartsWith(S, x, Cat(y, z))
<1>1. PICK post \in Seq(S) : y = x \o post
  BY DEF StartsWith, Cat
<1>2. (x \o post) \o z = x \o (post \o z)
  OBVIOUS
<1>3. post \o z \in Seq(S)
  OBVIOUS
<1> QED
  BY <1>1, <1>2, <1>3 DEF Cat, StartsWith

\* What is reached at the end begins with what was reached before.
LEMMA RunsOn ==
  ASSUME NEW S, NEW n \in Nat, NEW seqs, NEW f \in [1..n -> Seq(S)], NEW i \in 1..n,
         \A k \in 1..n : seqs[k] \in Seq(S),
         \A k \in 2..n : f[k] = Cat(f[k - 1], seqs[k])
  PROVE  StartsWith(S, f[i], f[n])
<1> DEFINE Goes(k) == StartsWith(S, f[i], f[k])
           D == {k \in Nat : i <= k /\ k <= n => Goes(k)}
<1>1. Goes(i)
  BY StartsWithItself
<1>2. ASSUME NEW k \in Nat, i <= k, k + 1 <= n, Goes(k) PROVE Goes(k + 1)
  <2>1. k + 1 \in 2..n /\ k + 1 - 1 = k
    BY <1>2
  <2>2. f[k + 1] = Cat(f[k], seqs[k + 1])
    BY <2>1
  <2>3. f[i] \in Seq(S)
    OBVIOUS
  <2>4. seqs[k + 1] \in Seq(S)
    BY <2>1
  <2>5. StartsWith(S, f[i], Cat(f[k], seqs[k + 1]))
    BY <1>2, <2>3, <2>4, LongerStarts
  <2> QED
    BY <2>2, <2>5
<1> HIDE DEF Goes
<1>3. ASSUME NEW k \in Nat, k \in D PROVE k + 1 \in D
  <2>1. CASE i <= k + 1 /\ k + 1 <= n
    <3>1. CASE i = k + 1
      BY <1>1, <3>1
    <3>2. CASE i # k + 1
      <4>1. i <= k /\ k <= n
        BY <2>1, <3>2
      <4>2. Goes(k + 1)
        BY <1>2, <1>3, <2>1, <4>1
      <4> QED
        BY <4>2
    <3> QED
      BY <3>1, <3>2
  <2>2. CASE ~ (i <= k + 1 /\ k + 1 <= n)
    BY <2>2
  <2> QED
    BY <2>1, <2>2
<1>4. Goes(n)
  <2>1. 0 \in D
    OBVIOUS
  <2> HIDE DEF D
  <2>2. Nat \subseteq D
    BY <1>3, <2>1, NatInSet
  <2>3. n \in D /\ i <= n
    BY <2>2
  <2> QED
    BY <2>3 DEF D
<1> QED
  BY <1>4 DEF Goes

\* A sequence is found in another, after one that is in G.
FoundAfter(G, S, part, whole) ==
  \E pre \in G, post \in Seq(S) : whole = Cat(Cat(pre, part), post)

\* Each part is found in the whole, after what comes of the parts before it.
LEMMA FlattenSplit ==
  ASSUME NEW S, NEW G \in SUBSET Seq(S), <<>> \in G, \A p, q \in G : p \o q \in G,
         NEW seqs \in Seq(Seq(S)), NEW i \in 1..Len(seqs),
         \A j \in 1..(i - 1) : seqs[j] \in G
  PROVE  FoundAfter(G, S, seqs[i], FlattenSeq(seqs))
<1> DEFINE n == Len(seqs)
<1>1. n \in Nat /\ n # 0
  OBVIOUS
<1>2. \A p, q \in Seq(S) : p \o q \in Seq(S)
  OBVIOUS
<1>3. PICK f \in [1..n -> Seq(S)] :
        /\ f[1] = seqs[1]
        /\ \A k \in 2..n : f[k] = Cat(f[k - 1], seqs[k])
        /\ FlattenSeq(seqs) = f[n]
  BY <1>1, <1>2, FlattenParts
<1> DEFINE H == {k \in Nat : 1 <= k /\ k < i => f[k] \in G}
<1>4. ASSUME NEW k \in Nat, k \in H PROVE k + 1 \in H
  <2> SUFFICES ASSUME k + 1 < i PROVE f[k + 1] \in G
    OBVIOUS
  <2>1. seqs[k + 1] \in G
    OBVIOUS
  <2>2. CASE k = 0
    BY <1>3, <2>1, <2>2
  <2>3. CASE k # 0
    <3>1. k >= 1 /\ k < i
      BY <2>3
    <3>2. f[k] \in G
      BY <1>4, <3>1
    <3>3. k + 1 \in 2..n /\ k + 1 - 1 = k
      BY <3>1
    <3>4. f[k + 1] = Cat(f[k], seqs[k + 1])
      BY <1>3, <3>3
    <3> QED
      BY <2>1, <3>2, <3>4 DEF Cat
  <2> QED
    BY <2>2, <2>3
<1>5. \A k \in 1..(i - 1) : f[k] \in G
  <2>1. 0 \in H
    OBVIOUS
  <2> HIDE DEF H
  <2>2. Nat \subseteq H
    BY <1>4, <2>1, NatInSet
  <2> QED
    BY <2>2 DEF H
<1> DEFINE pre == IF i = 1 THEN <<>> ELSE f[i - 1]
<1>6. pre \in G
  BY <1>5
<1>7. f[i] = Cat(pre, seqs[i])
  <2>1. CASE i = 1
    <3>1. seqs[1] \in Seq(S)
      BY <2>1
    <3>2. seqs[1] = <<>> \o seqs[1]
      BY <3>1
    <3> QED
      BY <1>3, <2>1, <3>2 DEF Cat
  <2>2. CASE i # 1
    <3>1. i \in 2..n
      BY <2>2
    <3> QED
      BY <1>3, <2>2, <3>1
  <2> QED
    BY <2>1, <2>2
<1> HIDE DEF pre
<1>8. \A k \in 1..n : seqs[k] \in Seq(S)
  OBVIOUS
<1>9. StartsWith(S, f[i], f[n])
  BY <1>1, <1>3, <1>8, RunsOn
<1>10. PICK post \in Seq(S) : f[n] = Cat(f[i], post)
  BY <1>9 DEF StartsWith
<1> QED
  BY <1>3, <1>6, <1>7, <1>10 DEF FoundAfter

-----------------------------------------------------------------------------
(* Sequences over a set. *)

LEMMA FlattenType ==
  ASSUME NEW S, NEW seqs \in Seq(Seq(S))
  PROVE  FlattenSeq(seqs) \in Seq(S)
<1>1. <<>> \in Seq(S)
  OBVIOUS
<1>2. \A p, q \in Seq(S) : p \o q \in Seq(S)
  OBVIOUS
<1> QED
  BY <1>1, <1>2, FlattenClosed

LEMMA ListType ==
  ASSUME NEW S, NEW f, NEW n \in Nat, DOMAIN f = 1..n, f = [i \in 1..n |-> f[i]],
         \A i \in 1..n : f[i] \in S
  PROVE  f \in Seq(S)
OBVIOUS

LEMMA LenType == ASSUME NEW S, NEW s \in Seq(S) PROVE Len(s) \in Nat
OBVIOUS

LEMMA EmptyType == ASSUME NEW S PROVE <<>> \in Seq(S)
OBVIOUS

LEMMA OneType == ASSUME NEW S, NEW x \in S PROVE <<x>> \in Seq(S)
OBVIOUS

LEMMA ElementType ==
  ASSUME NEW S, NEW s \in Seq(S), NEW i \in 1..Len(s)
  PROVE  s[i] \in S
OBVIOUS

LEMMA SeqSubset ==
  ASSUME NEW S, NEW T, S \subseteq T, NEW s \in Seq(S)
  PROVE  s \in Seq(T)
OBVIOUS

LEMMA ConcatType ==
  ASSUME NEW S, NEW p \in Seq(S), NEW q \in Seq(S)
  PROVE  p \o q \in Seq(S)
OBVIOUS

LEMMA ConcatParts ==
  ASSUME NEW S, NEW x \in Seq(S), NEW y \in Seq(S)
  PROVE  /\ Len(x \o y) = Len(x) + Len(y)
         /\ \A i \in 1..Len(x) : (x \o y)[i] = x[i]
         /\ \A i \in 1..Len(y) : (x \o y)[Len(x) + i] = y[i]
OBVIOUS

LEMMA Prepended ==
  ASSUME NEW S, NEW c \in S, NEW q \in Seq(S)
  PROVE  /\ <<c>> \o q \in Seq(S) /\ Len(<<c>> \o q) = Len(q) + 1
         /\ (<<c>> \o q)[1] = c
         /\ \A i \in 1..Len(q) : (<<c>> \o q)[i + 1] = q[i]
OBVIOUS

-----------------------------------------------------------------------------
(* What is found in a concatenation.  Q lasts if a sequence stays in it when *)
(* elements of N come before it and any after it.                            *)

Lasting(C, N, Q) ==
  /\ N \subseteq C /\ Q \subseteq Seq(C)
  /\ \A p \in Seq(N), q \in Q, r \in Seq(C) : Cat(Cat(p, q), r) \in Q

LEMMA LastingBefore ==
  ASSUME NEW C, NEW N, NEW Q, Lasting(C, N, Q), NEW q \in Q, NEW r \in Seq(C)
  PROVE  q \o r \in Q
<1>1. <<>> \in Seq(N) /\ q \in Seq(C)
  BY DEF Lasting
<1>2. Cat(<<>>, q) = q
  BY <1>1 DEF Cat
<1>3. Cat(Cat(<<>>, q), r) \in Q
  BY <1>1 DEF Lasting
<1> QED
  BY <1>2, <1>3 DEF Cat

LEMMA LastingAfter ==
  ASSUME NEW C, NEW N, NEW Q, Lasting(C, N, Q), NEW q \in Q, NEW p \in Seq(N)
  PROVE  p \o q \in Q
<1>1. <<>> \in Seq(C) /\ q \in Seq(C) /\ p \in Seq(C)
  BY SeqSubset DEF Lasting
<1>2. Cat(p, q) \in Seq(C)
  BY <1>1 DEF Cat
<1>3. Cat(Cat(p, q), <<>>) = Cat(p, q)
  <2> DEFINE pq == Cat(p, q)
  <2> HIDE DEF pq
  <2>1. pq \in Seq(C) => Cat(pq, <<>>) = pq
    BY DEF Cat
  <2> QED
    BY <1>2, <2>1 DEF pq
<1>4. Cat(Cat(p, q), <<>>) \in Q
  BY <1>1 DEF Lasting
<1> QED
  BY <1>3, <1>4 DEF Cat

LEMMA FlattenLasts ==
  ASSUME NEW C, NEW N, NEW Q, Lasting(C, N, Q),
         NEW seqs \in Seq(Seq(C)), NEW i \in 1..Len(seqs), seqs[i] \in Q,
         \A j \in 1..(i - 1) : seqs[j] \in Seq(N)
  PROVE  FlattenSeq(seqs) \in Q
<1> DEFINE G == Seq(N)
<1>1. G \in SUBSET Seq(C)
  BY SeqSubset DEF Lasting
<1>2. <<>> \in G /\ \A p, q \in G : p \o q \in G
  OBVIOUS
<1>3. \A j \in 1..(i - 1) : seqs[j] \in G
  OBVIOUS
<1> HIDE DEF G
<1>4. FoundAfter(G, C, seqs[i], FlattenSeq(seqs))
  BY <1>1, <1>2, <1>3, FlattenSplit
<1>5. PICK pre \in G, post \in Seq(C) : FlattenSeq(seqs) = Cat(Cat(pre, seqs[i]), post)
  BY <1>4 DEF FoundAfter
<1>6. pre \in Seq(N)
  BY DEF G
<1> QED
  BY <1>5, <1>6 DEF Lasting

\* The sequences with an element of S.
Holding(C, S) == {p \in Seq(C) : \E i \in 1..Len(p) : p[i] \in S}

LEMMA HoldingLasts == ASSUME NEW C, NEW S PROVE Lasting(C, C, Holding(C, S))
<1> SUFFICES ASSUME NEW p \in Seq(C), NEW q \in Holding(C, S), NEW r \in Seq(C)
             PROVE  Cat(Cat(p, q), r) \in Holding(C, S)
  BY DEF Lasting, Holding
<1>1. PICK i \in 1..Len(q) : q[i] \in S
  BY DEF Holding
<1>2. q \in Seq(C)
  BY DEF Holding
<1>3. Cat(Cat(p, q), r) \in Seq(C)
  BY <1>2 DEF Cat
<1>4. /\ Len(p) + i \in 1..Len(Cat(Cat(p, q), r))
      /\ Cat(Cat(p, q), r)[Len(p) + i] = q[i]
  BY <1>2 DEF Cat
<1> QED
  BY <1>1, <1>3, <1>4 DEF Holding

\* What is in N can stand beside what is in N or Q.
NextTo(N, Q) ==
  /\ N \subseteq Q /\ <<>> \in N
  /\ \A p, q \in N : p \o q \in N
  /\ \A p \in N : \A q \in Q : p \o q \in Q /\ q \o p \in Q

LEMMA NextToMore ==
  ASSUME NEW N, NEW Q, NextTo(N, Q), NEW a, NEW b
  PROVE  /\ a \in N /\ b \in N => Cat(a, b) \in N
         /\ a \in N /\ b \in Q => Cat(a, b) \in Q
         /\ a \in Q /\ b \in N => Cat(a, b) \in Q
BY Zenon DEF NextTo, Cat

\* All parts but one at most are in N.
LEMMA FlattenAround ==
  ASSUME NEW S, NEW N \in SUBSET Seq(S), NEW Q \in SUBSET Seq(S), NextTo(N, Q),
         NEW seqs \in Seq(Q),
         \A i, j \in 1..Len(seqs) : seqs[i] \notin N /\ seqs[j] \notin N => i = j
  PROVE  FlattenSeq(seqs) \in Q
<1> DEFINE n == Len(seqs)
<1>0. N \subseteq Q
  BY DEF NextTo
<1>1. CASE \A i \in 1..n : seqs[i] \in N
  <2>1. seqs \in Seq(N)
    <3>1. seqs = [i \in 1..n |-> seqs[i]] /\ n \in Nat
      OBVIOUS
    <3> QED
      BY <1>1, <3>1, ListType
  <2>2. <<>> \in N /\ \A p, q \in N : p \o q \in N
    BY DEF NextTo
  <2>3. FlattenSeq(seqs) \in N
    BY <2>1, <2>2, FlattenClosed
  <2> QED
    BY <1>0, <2>3
<1>2. CASE \E i \in 1..n : seqs[i] \notin N
  <2>1. PICK i \in 1..n : seqs[i] \notin N
    BY <1>2
  <2>2. n \in Nat /\ n # 0 /\ i \in Nat /\ 1 <= i /\ i <= n
    OBVIOUS
  <2>3. \A j \in 1..n : seqs[j] \in Q /\ (j # i => seqs[j] \in N)
    BY <2>1
  <2>4. seqs \in Seq(Seq(S))
    OBVIOUS
  <2>5. \A p, q \in Seq(S) : p \o q \in Seq(S)
    OBVIOUS
  <2>6. PICK f \in [1..n -> Seq(S)] :
          /\ f[1] = seqs[1]
          /\ \A k \in 2..n : f[k] = Cat(f[k - 1], seqs[k])
          /\ FlattenSeq(seqs) = f[n]
    BY <2>2, <2>4, <2>5, FlattenParts
  <2> DEFINE Good(k) == (k < i => f[k] \in N) /\ f[k] \in Q
             H == {k \in Nat : 1 <= k /\ k <= n => Good(k)}
  <2>7. ASSUME NEW k \in Nat, k \in H PROVE k + 1 \in H
    <3> SUFFICES ASSUME k + 1 <= n PROVE Good(k + 1)
      OBVIOUS
    <3>1. 1 <= k /\ k <= n => (k < i => f[k] \in N) /\ f[k] \in Q
      BY <2>7
    <3> HIDE DEF H
    <3> DEFINE j == k + 1
    <3>2. j \in Nat /\ j \in 1..n /\ (j < i => k < i /\ j # i) /\ (j # i => j < i \/ i < j)
      BY <2>2
    <3>3. seqs[j] \in Q /\ (j # i => seqs[j] \in N)
      BY <2>3, <3>2, Zenon
    <3>4. CASE k = 0
      <4>1. j = 1
        BY <3>4
      <4>2. f[j] = seqs[j]
        BY <2>6, <4>1, Zenon
      <4> HIDE DEF j
      <4>3. (j < i => f[j] \in N) /\ f[j] \in Q
        BY <3>2, <3>3, <4>2, Zenon
      <4> QED
        BY <4>3, Zenon DEF j
    <3>5. CASE k # 0
      <4>1. j \in 2..n /\ j - 1 = k /\ 1 <= k /\ k <= n
        BY <2>2, <3>5
      <4>2. j = i => k < i
        BY <2>2
      <4> HIDE DEF j
      <4>3. f[j] = Cat(f[k], seqs[j])
        BY <2>6, <4>1, Zenon
      <4>4. (k < i => f[k] \in N) /\ f[k] \in Q
        BY <3>1, <4>1, Zenon
      <4> DEFINE a == f[k]
                 b == seqs[j]
      <4>5. /\ a \in Q /\ b \in Q /\ (a \in N \/ b \in N)
            /\ j < i => a \in N /\ b \in N
        BY <3>2, <3>3, <4>2, <4>4, Zenon
      <4>6. f[j] = Cat(a, b)
        BY <4>3
      <4> HIDE DEF a, b
      <4>7. /\ a \in N /\ b \in N => Cat(a, b) \in N
            /\ a \in N /\ b \in Q => Cat(a, b) \in Q
            /\ a \in Q /\ b \in N => Cat(a, b) \in Q
        BY NextToMore
      <4>8. (j < i => f[j] \in N) /\ f[j] \in Q
        <5>1. (j < i => Cat(a, b) \in N) /\ Cat(a, b) \in Q
          BY <4>5, <4>7, Zenon
        <5> QED
          BY <4>6, <5>1
      <4> QED
        BY <4>8, Zenon DEF j
    <3> QED
      BY <3>4, <3>5
  <2>8. 0 \in H
    OBVIOUS
  <2> HIDE DEF H
  <2>9. Nat \subseteq H
    BY <2>7, <2>8, NatInSet
  <2>10. n \in H
    BY <2>2, <2>9
  <2>11. Good(n)
    BY <2>2, <2>10 DEF H
  <2> QED
    BY <2>6, <2>11, Zenon
<1> QED
  BY <1>1, <1>2

LEMMA ConcatThree ==
  ASSUME NEW S, NEW s \in Seq(S), NEW t \in Seq(S), NEW u \in Seq(S)
  PROVE  (s \o t) \o u = s \o (t \o u)
OBVIOUS

=============================================================================
