-------------------------- MODULE InstallDataProofs ---------------------------
(***************************************************************************)
(* Proofs about what an installation leaves behind (Install): that it has  *)
(* done what the package told, that what clients stored is kept, and that  *)
(* nothing else is left.                                                   *)
(***************************************************************************)
EXTENDS InstallProofs

-----------------------------------------------------------------------------
(* What an installation makes of one resource of an area: p is the package,  *)
(* b the tree before it, k what is passed over, t the tree now.  *)

SlotsOf(a, r) == {s \in Slots : s[1] = a /\ s[3] = r}
DefaultsOf(a, r) == {e \in Defaults : e[3] = a /\ e[4] = r}

\* Two trees agree about the resource.
SameAt(t, u, a, r) ==
  /\ u.rct[a][r] = t.rct[a][r]
  /\ \A s \in SlotsOf(a, r), st \in Stores : u.data[st][s] = t.data[st][s]
  /\ \A e \in DefaultsOf(a, r) : u.def[e] = t.def[e]

EmptyAt(t, a, r) ==
  /\ t.rct[a][r] = "none"
  /\ \A s \in SlotsOf(a, r), st \in Stores : t.data[st][s] = Absent
  /\ \A e \in DefaultsOf(a, r) : t.def[e] = Absent

\* A key stays a key, under another policy.
Moves(c, d) == c \in Keyed /\ d \in Keyed /\ c # d

\* What a client finds once its key has moved from store c to d.
Stored(b, c, d, s) == IF b.data[c][s] # Absent THEN b.data[c][s] ELSE b.data[d][s]

\* The keys of the resource are in the database of the new policy.
Switched(p, b, k, t, a, r) ==
  LET c == b.rct[a][r]  d == p.rct[a][r] IN
  Moves(c, d) /\ c \in Stores => \A s \in DataOf(a, r) \ k :
    /\ d \in Stores /\ t.data[c][s] = Absent
    /\ ~Deleted(p, a, r) => t.data[d][s] = Stored(b, c, d, s)

\* The resource became obsolete, and nothing is left of it.
Removed(p, b, k, t, a, r) ==
  LET c == b.rct[a][r] IN
  p.rct[a][r] = "none" /\ c # "none" =>
    /\ c # "na"
    /\ c \in Stores => \A s \in DataOf(a, r) \ k : t.data[c][s] = Absent
    /\ c # "custom" => \A e \in DefaultsOf(a, r) \ k : e[2] = Form(c) => t.def[e] = Absent

\* What a client stored is in one of the two places it may be in, and nowhere
\* else, unless it was there before.
SlotKept(p, b, t, a, r, s) ==
  LET c == b.rct[a][r]  d == p.rct[a][r] IN
  /\ \A st \in Stores : t.data[st][s] # Absent => st = d \/ b.data[st][s] # Absent
  /\ c \in Stores /\ ~Deleted(p, a, r) =>
       /\ c = d => t.data[c][s] = b.data[c][s]
       /\ Moves(c, d) /\ d \in Stores =>
            IF t.data[c][s] # Absent THEN t.data[c][s] = b.data[c][s]
            ELSE t.data[d][s] = Stored(b, c, d, s)

\* Wherever an attempt was broken off, another can take it up.
Resumable(p, b, k, t, a, r) ==
  /\ t.rct[a][r] \in {b.rct[a][r], p.rct[a][r]}
  /\ t.rct[a][r] = p.rct[a][r] => Switched(p, b, k, t, a, r) /\ Removed(p, b, k, t, a, r)
  /\ \A s \in DataOf(a, r) \ k : SlotKept(p, b, t, a, r, s)
  /\ \A e \in DefaultsOf(a, r) : t.def[e] \in {b.def[e], ExpectedDefault(p, b, e)}

AsBefore(b, t, a, r) ==
  /\ t.rct[a][r] = b.rct[a][r]
  /\ \A s \in SlotsOf(a, r), st \in Stores : t.data[st][s] = b.data[st][s]

\* An area that is installed anew has nothing, or what the package brings.
Cleaned(p, b, t, a, r) ==
  /\ \A s \in SlotsOf(a, r), st \in Stores : t.data[st][s] = Absent
  /\ t.rct[a][r] \in {"none"} \cup (IF a \in WithTable(p) THEN {p.rct[a][r]} ELSE {})
  /\ \A e \in DefaultsOf(a, r) :
       t.def[e] \in {Absent} \cup (IF a \in WithTable(p) THEN {ExpectedDefault(p, b, e)} ELSE {})

\* What is to be true of a resource at the end.
TableDone(p, t, a, r) == t.rct[a][r] = p.rct[a][r]
DefaultDone(p, b, k, t, e) == e \in k \/ t.def[e] = ExpectedDefault(p, b, e)
DataDone(p, k, t, a, r) ==
  Deleted(p, a, r) /\ p.rct[a][r] \in Stores =>
    \A s \in DataOf(a, r) \ k : t.data[p.rct[a][r]][s] = Absent

-----------------------------------------------------------------------------
(* The order of calls in a list of them. *)

In(q, c) == \E i \in 1..Len(q) : q[i] = c
Earlier(q, c, e) == \A i \in 1..Len(q) : q[i] = c => \E j \in 1..(i - 1) : q[j] = e
Later(q, c, e) == \A i \in 1..Len(q) : q[i] = c => \E j \in (i + 1)..Len(q) : q[j] = e
NoneAfter(q, c, e) == \A i \in 1..Len(q) : q[i] = c => \A j \in (i + 1)..Len(q) : q[j] # e
Follows(q, c, e) == \A i \in 1..Len(q) : q[i] = c => i < Len(q) /\ q[i + 1] = e

NoResources(q, a) == \A i \in 1..Len(q) : q[i].area = a => q[i].do \notin OnResource
ResourcesFirst(q) ==
  \A j \in 1..Len(q) : q[j].do \in OnResource => \A i \in 1..(j - 1) : q[i].do \in OnResource

AreaCall(do, a) == Call(do, a, "", "")
ResCall(do, a, r) == Call(do, a, r, "")
WrongCall == AreaCall("wrong", Public)

-----------------------------------------------------------------------------
(* The invariants. *)

HousedInv == Housed(tree)

\* Between attempts too: what those so far have made of the areas.
ResumeInv ==
  hist.begun => \A a \in Area, r \in Resources :
    IF a \in Configured(Package)
      THEN ~Fresh(Package, a) => Resumable(Package, hist.before, hist.skipped, tree, a, r)
      ELSE AsBefore(hist.before, tree, a, r)

\* During an attempt: an area is made anew before its folder is configured, ...
Anew(p, b, t, q, a) ==
  \/ \A r \in Resources : Cleaned(p, b, t, a, r)
  \/ /\ Earlier(q, AreaCall("folder", a), AreaCall("removeData", a)) /\ NoResources(q, a)
     /\ In(q, AreaCall("removeData", a)) \/ In(q, WrongCall)

\* ... it has a folder by then, ...
Hosted(t, q, a) ==
  \/ a \in t.there
  \/ /\ Earlier(q, AreaCall("folder", a), AreaCall("getContext", a)) /\ NoResources(q, a)
     /\ In(q, AreaCall("getContext", a)) \/ In(q, WrongCall)

\* ... which is made again where it is removed, ...
MadeAgain(q, a) ==
  /\ Later(q, AreaCall("removeData", a), AreaCall("folder", a))
  /\ Follows(q, AreaCall("removeData", a), AreaCall("getContext", a))

\* ... and the calls on a resource come in the order in which they build on each
\* other.
InOrder(p, b, k, t, q, a, r) ==
  /\ NoneAfter(q, ResCall("deleteEntry", a, r), ResCall("obsolete", a, r))
  /\ NoneAfter(q, ResCall("writeEntry", a, r), ResCall("changePolicy", a, r))
  /\ Deleted(p, a, r) => Later(q, ResCall("changePolicy", a, r), ResCall("clearData", a, r))
  /\ In(q, ResCall("obsolete", a, r)) => ~Fresh(p, a) /\ t.rct[a][r] = b.rct[a][r] /\ b.rct[a][r] # "none"
  /\ In(q, ResCall("changePolicy", a, r)) =>
       ~Fresh(p, a) /\ t.rct[a][r] = b.rct[a][r] /\ Moves(b.rct[a][r], p.rct[a][r])
  /\ In(q, ResCall("deleteEntry", a, r)) /\ ~Fresh(p, a) =>
       Removed(p, b, k, t, a, r) \/ Earlier(q, ResCall("deleteEntry", a, r), ResCall("obsolete", a, r))
  /\ In(q, ResCall("writeEntry", a, r)) /\ ~Fresh(p, a) =>
       \/ Switched(p, b, k, t, a, r)
       \/ Earlier(q, ResCall("writeEntry", a, r), ResCall("changePolicy", a, r))

\* What is to be true in the end is true, or a call is left that makes it true.
Remains(p, b, k, t, q, a, r) ==
  \/ In(q, AreaCall("folder", a)) \/ In(q, WrongCall)
  \/ /\ \/ TableDone(p, t, a, r)
        \/ In(q, ResCall("deleteEntry", a, r)) \/ In(q, ResCall("writeEntry", a, r))
     /\ \A e \in DefaultsOf(a, r) :
          \/ DefaultDone(p, b, k, t, e)
          \/ In(q, Call("default", a, r, e[1])) \/ In(q, ResCall("obsolete", a, r))
     /\ ~Fresh(p, a) => DataDone(p, k, t, a, r) \/ In(q, ResCall("clearData", a, r))

AttemptAt(p, b, k, t, q, a) ==
  /\ Fresh(p, a) => Anew(p, b, t, q, a)
  /\ a \in WithTable(p) =>
       /\ Hosted(t, q, a) /\ MadeAgain(q, a)
       /\ \A r \in Resources : InOrder(p, b, k, t, q, a, r) /\ Remains(p, b, k, t, q, a, r)

AttemptInv ==
  phase = "work" =>
    /\ ResourcesFirst(todo)
    /\ \A a \in Configured(Package) :
         AttemptAt(Package, hist.before, hist.skipped, tree, todo, a)

\* Nothing remains to be done.
DoneInv ==
  phase \in {"cleanup", "reply"} /\ result = "ok" =>
    LET p == Package  b == hist.before  k == hist.skipped IN
    /\ \A a \in Configured(p), r \in Resources : Fresh(p, a) => Cleaned(p, b, tree, a, r)
    /\ \A a \in WithTable(p) : a \in tree.there
    /\ \A a \in WithTable(p), r \in Resources :
         /\ TableDone(p, tree, a, r)
         /\ \A e \in DefaultsOf(a, r) : DefaultDone(p, b, k, tree, e)
         /\ ~Fresh(p, a) => DataDone(p, k, tree, a, r)

BegunInv == phase # "idle" => hist.begun
-----------------------------------------------------------------------------
(* What such orders survive: the next call being taken away, and lists being *)
(* put together.                                                             *)

LEMMA TailParts ==
  ASSUME NEW S, NEW q \in Seq(S), q # <<>>
  PROVE  /\ Len(q) \in Nat /\ Len(q) > 0 /\ Head(q) = q[1] /\ Head(q) \in S
         /\ Tail(q) \in Seq(S) /\ Len(Tail(q)) = Len(q) - 1
         /\ \A i \in 1..(Len(q) - 1) : Tail(q)[i] = q[i + 1]
<1>1. Len(q) \in Nat /\ Len(q) > 0
  OBVIOUS
<1>2. Head(q) = q[1] /\ Head(q) \in S
  BY <1>1
<1>3. Tail(q) \in Seq(S) /\ Len(Tail(q)) = Len(q) - 1
  BY <1>1
<1>4. \A i \in 1..(Len(q) - 1) : Tail(q)[i] = q[i + 1]
  BY <1>1
<1> QED
  BY <1>1, <1>2, <1>3, <1>4

LEMMA InTail ==
  ASSUME NEW S, NEW q \in Seq(S), q # <<>>, NEW c
  PROVE  In(q, c) <=> (Head(q) = c \/ In(Tail(q), c))
<1> DEFINE n == Len(q)
           v == Tail(q)
<1>1. n \in Nat /\ n > 0 /\ Head(q) = q[1] /\ Len(v) = n - 1 /\ \A i \in 1..(n - 1) : v[i] = q[i + 1]
  BY TailParts
<1>2. In(q, c) <=> \E i \in 1..n : q[i] = c
  BY DEF In
<1>3. In(v, c) <=> \E i \in 1..(n - 1) : v[i] = c
  BY <1>1 DEF In
<1> HIDE DEF n, v
<1>4. ASSUME NEW i \in 1..n, q[i] = c PROVE q[1] = c \/ \E j \in 1..(n - 1) : v[j] = c
  <2>1. CASE i = 1
    BY <1>4, <2>1
  <2>2. CASE i # 1
    <3>1. i - 1 \in 1..(n - 1) /\ (i - 1) + 1 = i
      BY <1>1, <2>2
    <3> QED
      BY <1>1, <1>4, <3>1
  <2> QED
    BY <2>1, <2>2
<1>5. ASSUME NEW j \in 1..(n - 1), v[j] = c PROVE \E i \in 1..n : q[i] = c
  <2>1. j + 1 \in 1..n /\ v[j] = q[j + 1]
    BY <1>1
  <2> QED
    BY <1>5, <2>1
<1>6. 1 \in 1..n
  BY <1>1
<1> QED
  BY <1>1, <1>2, <1>3, <1>4, <1>5, <1>6 DEF v

LEMMA EarlierTail ==
  ASSUME NEW S, NEW q \in Seq(S), q # <<>>, NEW c, NEW e, Earlier(q, c, e)
  PROVE  Head(q) # c /\ (Head(q) # e => Earlier(Tail(q), c, e))
<1> DEFINE n == Len(q)
           v == Tail(q)
<1>1. n \in Nat /\ n > 0 /\ Head(q) = q[1] /\ Len(v) = n - 1 /\ \A i \in 1..(n - 1) : v[i] = q[i + 1]
  BY TailParts
<1>2. \A i \in 1..n : q[i] = c => \E j \in 1..(i - 1) : q[j] = e
  BY DEF Earlier
<1> HIDE DEF n, v
<1>3. q[1] # c
  <2>1. 1 \in 1..n /\ 1..(1 - 1) = {}
    BY <1>1
  <2> QED
    BY <1>2, <2>1
<1>4. ASSUME q[1] # e, NEW i \in 1..(n - 1), v[i] = c PROVE \E j \in 1..(i - 1) : v[j] = e
  <2>1. i + 1 \in 1..n /\ q[i + 1] = c
    BY <1>1, <1>4
  <2>2. PICK j \in 1..((i + 1) - 1) : q[j] = e
    BY <1>2, <2>1
  <2>3. j # 1
    BY <1>4, <2>2
  <2>4. j - 1 \in 1..(i - 1) /\ j - 1 \in 1..(n - 1) /\ (j - 1) + 1 = j
    BY <1>1, <2>3
  <2> QED
    BY <1>1, <2>2, <2>4
<1> QED
  BY <1>1, <1>3, <1>4 DEF Earlier, v

LEMMA LaterTail ==
  ASSUME NEW S, NEW q \in Seq(S), q # <<>>, NEW c, NEW e, Later(q, c, e)
  PROVE  Later(Tail(q), c, e) /\ (Head(q) = c => In(Tail(q), e))
<1> DEFINE n == Len(q)
           v == Tail(q)
<1>1. n \in Nat /\ n > 0 /\ Head(q) = q[1] /\ Len(v) = n - 1 /\ \A i \in 1..(n - 1) : v[i] = q[i + 1]
  BY TailParts
<1>2. \A i \in 1..n : q[i] = c => \E j \in (i + 1)..n : q[j] = e
  BY DEF Later
<1> HIDE DEF n, v
<1>3. ASSUME NEW i \in 1..(n - 1), v[i] = c PROVE \E j \in (i + 1)..(n - 1) : v[j] = e
  <2>1. i + 1 \in 1..n /\ q[i + 1] = c
    BY <1>1, <1>3
  <2>2. PICK j \in ((i + 1) + 1)..n : q[j] = e
    BY <1>2, <2>1
  <2>3. j - 1 \in (i + 1)..(n - 1) /\ j - 1 \in 1..(n - 1) /\ (j - 1) + 1 = j
    BY <1>1, <2>2
  <2> QED
    BY <1>1, <2>2, <2>3
<1>4. ASSUME q[1] = c PROVE \E j \in 1..(n - 1) : v[j] = e
  <2>1. 1 \in 1..n
    BY <1>1
  <2>2. PICK j \in (1 + 1)..n : q[j] = e
    BY <1>2, <1>4, <2>1
  <2>3. j - 1 \in 1..(n - 1) /\ (j - 1) + 1 = j
    BY <1>1, <2>2
  <2> QED
    BY <1>1, <2>2, <2>3
<1> QED
  BY <1>1, <1>3, <1>4 DEF Later, In, v

LEMMA NoneAfterTail ==
  ASSUME NEW S, NEW q \in Seq(S), q # <<>>, NEW c, NEW e, NoneAfter(q, c, e)
  PROVE  NoneAfter(Tail(q), c, e) /\ (Head(q) = c => ~In(Tail(q), e))
<1> DEFINE n == Len(q)
           v == Tail(q)
<1>1. n \in Nat /\ n > 0 /\ Head(q) = q[1] /\ Len(v) = n - 1 /\ \A i \in 1..(n - 1) : v[i] = q[i + 1]
  BY TailParts
<1>2. \A i \in 1..n : q[i] = c => \A j \in (i + 1)..n : q[j] # e
  BY DEF NoneAfter
<1> HIDE DEF n, v
<1>3. ASSUME NEW i \in 1..(n - 1), v[i] = c, NEW j \in (i + 1)..(n - 1) PROVE v[j] # e
  <2>1. i + 1 \in 1..n /\ q[i + 1] = c
    BY <1>1, <1>3
  <2>2. j + 1 \in ((i + 1) + 1)..n /\ j \in 1..(n - 1)
    BY <1>1
  <2> QED
    BY <1>1, <1>2, <2>1, <2>2
<1>4. ASSUME q[1] = c, NEW j \in 1..(n - 1) PROVE v[j] # e
  <2>1. 1 \in 1..n /\ j + 1 \in (1 + 1)..n
    BY <1>1
  <2> QED
    BY <1>1, <1>2, <1>4, <2>1
<1> QED
  BY <1>1, <1>3, <1>4 DEF NoneAfter, In, v

LEMMA FollowsTail ==
  ASSUME NEW S, NEW q \in Seq(S), q # <<>>, NEW c, NEW e, Follows(q, c, e)
  PROVE  Follows(Tail(q), c, e) /\ (Head(q) = c => Tail(q) # <<>> /\ Head(Tail(q)) = e)
<1> DEFINE n == Len(q)
           v == Tail(q)
<1>1. /\ n \in Nat /\ n > 0 /\ Head(q) = q[1] /\ Len(v) = n - 1 /\ v \in Seq(S)
      /\ \A i \in 1..(n - 1) : v[i] = q[i + 1]
  BY TailParts
<1>2. \A i \in 1..n : q[i] = c => i < n /\ q[i + 1] = e
  BY DEF Follows
<1>0. v # <<>> => Head(v) = v[1]
  BY <1>1
<1> HIDE DEF n, v
<1>5. v = <<>> => Len(v) = 0
  OBVIOUS
<1>3. ASSUME NEW i \in 1..(n - 1), v[i] = c PROVE i < n - 1 /\ v[i + 1] = e
  <2>1. i + 1 \in 1..n /\ q[i + 1] = c
    BY <1>1, <1>3
  <2>2. i + 1 < n /\ q[(i + 1) + 1] = e
    BY <1>2, <2>1
  <2>3. i + 1 \in 1..(n - 1)
    BY <1>1, <2>2
  <2> QED
    BY <1>1, <2>2, <2>3
<1>4. ASSUME q[1] = c PROVE v # <<>> /\ Head(v) = e
  <2>1. 1 \in 1..n
    BY <1>1
  <2>2. 1 < n /\ q[1 + 1] = e
    BY <1>2, <1>4, <2>1
  <2>3. 1 \in 1..(n - 1)
    BY <1>1, <2>2
  <2> QED
    BY <1>0, <1>1, <1>5, <2>2, <2>3
<1> QED
  BY <1>1, <1>3, <1>4 DEF Follows, v

LEMMA InConcat ==
  ASSUME NEW S, NEW x \in Seq(S), NEW y \in Seq(S), NEW c
  PROVE  In(x \o y, c) <=> (In(x, c) \/ In(y, c))
<1> DEFINE m == Len(x)
           n == Len(y)
           xy == x \o y
<1>1. /\ m \in Nat /\ n \in Nat /\ Len(xy) = m + n
      /\ \A i \in 1..m : xy[i] = x[i]
      /\ \A i \in 1..n : xy[m + i] = y[i]
  BY ConcatParts
<1>2. /\ In(x, c) <=> \E i \in 1..m : x[i] = c
      /\ In(y, c) <=> \E i \in 1..n : y[i] = c
      /\ In(xy, c) <=> \E i \in 1..(m + n) : xy[i] = c
  BY <1>1 DEF In
<1> HIDE DEF m, n, xy
<1>3. \A i \in 1..m : i \in 1..(m + n)
  BY <1>1
<1>4. \A i \in 1..n : m + i \in 1..(m + n)
  BY <1>1
<1>5. ASSUME NEW i \in 1..(m + n), xy[i] = c
      PROVE  (\E j \in 1..m : x[j] = c) \/ (\E j \in 1..n : y[j] = c)
  <2>1. CASE i <= m
    <3>1. i \in 1..m
      BY <1>1, <2>1
    <3> QED
      BY <1>1, <1>5, <3>1
  <2>2. CASE i > m
    <3>1. i - m \in 1..n /\ m + (i - m) = i
      BY <1>1, <2>2
    <3> QED
      BY <1>1, <1>5, <3>1
  <2> QED
    BY <1>1, <2>1, <2>2
<1> QED
  BY <1>1, <1>2, <1>3, <1>4, <1>5 DEF xy

\* An element of a concatenation, found in one of its parts.
LEMMA ElementOf ==
  ASSUME NEW S, NEW x \in Seq(S), NEW y \in Seq(S), NEW i \in 1..Len(x \o y)
  PROVE  \/ i \in 1..Len(x) /\ (x \o y)[i] = x[i]
         \/ i - Len(x) \in 1..Len(y) /\ (x \o y)[i] = y[i - Len(x)]
<1> DEFINE m == Len(x)
           n == Len(y)
           xy == x \o y
<1>1. /\ m \in Nat /\ n \in Nat /\ Len(xy) = m + n
      /\ \A j \in 1..m : xy[j] = x[j]
      /\ \A j \in 1..n : xy[m + j] = y[j]
  BY ConcatParts
<1> HIDE DEF m, n, xy
<1>2. i \in 1..(m + n)
  BY <1>1 DEF xy
<1>3. CASE i <= m
  <2>1. i \in 1..m
    BY <1>1, <1>2, <1>3
  <2> QED
    BY <1>1, <2>1 DEF m, n, xy
<1>4. CASE i > m
  <2>1. i - m \in 1..n /\ m + (i - m) = i
    BY <1>1, <1>2, <1>4
  <2>2. xy[i] = y[i - m]
    BY <1>1, <2>1
  <2> QED
    BY <2>1, <2>2 DEF m, n, xy
<1> QED
  BY <1>1, <1>2, <1>3, <1>4

LEMMA EarlierConcat ==
  ASSUME NEW S, NEW x \in Seq(S), NEW y \in Seq(S), NEW c, NEW e,
         Earlier(x, c, e), Earlier(y, c, e) \/ In(x, e)
  PROVE  Earlier(x \o y, c, e)
<1> DEFINE m == Len(x)
           n == Len(y)
           xy == x \o y
<1>1. /\ m \in Nat /\ n \in Nat /\ Len(xy) = m + n
      /\ \A j \in 1..m : xy[j] = x[j]
      /\ \A j \in 1..n : xy[m + j] = y[j]
  BY ConcatParts
<1> SUFFICES ASSUME NEW i \in 1..Len(xy), xy[i] = c PROVE \E j \in 1..(i - 1) : xy[j] = e
  BY DEF Earlier
<1>2. (i \in 1..m /\ xy[i] = x[i]) \/ (i - m \in 1..n /\ xy[i] = y[i - m])
  BY ElementOf
<1>3. i \in Nat /\ i > 0
  BY <1>1
<1> HIDE DEF xy
<1>4. CASE i \in 1..m /\ xy[i] = x[i]
  <2>1. PICK j \in 1..(i - 1) : x[j] = e
    BY <1>4 DEF Earlier
  <2>2. j \in 1..m
    BY <1>1, <1>4
  <2> QED
    BY <1>1, <2>1, <2>2
<1>5. CASE i - m \in 1..n /\ xy[i] = y[i - m]
  <2>1. CASE In(x, e)
    <3>1. PICK j \in 1..m : x[j] = e
      BY <2>1 DEF In
    <3>2. j \in 1..(i - 1)
      BY <1>1, <1>3, <1>5
    <3> QED
      BY <1>1, <3>1, <3>2
  <2>2. CASE Earlier(y, c, e)
    <3>1. PICK j \in 1..((i - m) - 1) : y[j] = e
      BY <1>5, <2>2 DEF Earlier
    <3>2. m + j \in 1..(i - 1) /\ j \in 1..n
      BY <1>1, <1>3, <1>5
    <3> QED
      BY <1>1, <3>1, <3>2
  <2> QED
    BY <2>1, <2>2
<1> QED
  BY <1>2, <1>4, <1>5

LEMMA LaterConcat ==
  ASSUME NEW S, NEW x \in Seq(S), NEW y \in Seq(S), NEW c, NEW e,
         Later(y, c, e), Later(x, c, e) \/ In(y, e)
  PROVE  Later(x \o y, c, e)
<1> DEFINE m == Len(x)
           n == Len(y)
           xy == x \o y
<1>1. /\ m \in Nat /\ n \in Nat /\ Len(xy) = m + n
      /\ \A j \in 1..m : xy[j] = x[j]
      /\ \A j \in 1..n : xy[m + j] = y[j]
  BY ConcatParts
<1> SUFFICES ASSUME NEW i \in 1..Len(xy), xy[i] = c PROVE \E j \in (i + 1)..Len(xy) : xy[j] = e
  BY DEF Later
<1>2. (i \in 1..m /\ xy[i] = x[i]) \/ (i - m \in 1..n /\ xy[i] = y[i - m])
  BY ElementOf
<1>3. i \in Nat /\ i > 0
  BY <1>1
<1> HIDE DEF xy
<1>4. CASE i \in 1..m /\ xy[i] = x[i]
  <2>1. CASE In(y, e)
    <3>1. PICK j \in 1..n : y[j] = e
      BY <2>1 DEF In
    <3>2. m + j \in (i + 1)..(m + n)
      BY <1>1, <1>4
    <3> QED
      BY <1>1, <3>1, <3>2
  <2>2. CASE Later(x, c, e)
    <3>1. PICK j \in (i + 1)..m : x[j] = e
      BY <1>4, <2>2 DEF Later
    <3>2. j \in (i + 1)..(m + n) /\ j \in 1..m
      BY <1>1, <1>4
    <3> QED
      BY <1>1, <3>1, <3>2
  <2> QED
    BY <2>1, <2>2
<1>5. CASE i - m \in 1..n /\ xy[i] = y[i - m]
  <2>1. PICK j \in ((i - m) + 1)..n : y[j] = e
    BY <1>5 DEF Later
  <2>2. m + j \in (i + 1)..(m + n) /\ j \in 1..n
    BY <1>1, <1>3, <1>5
  <2> QED
    BY <1>1, <2>1, <2>2
<1> QED
  BY <1>2, <1>4, <1>5

LEMMA NoneAfterConcat ==
  ASSUME NEW S, NEW x \in Seq(S), NEW y \in Seq(S), NEW c, NEW e,
         NoneAfter(x, c, e), NoneAfter(y, c, e), ~In(x, c) \/ ~In(y, e)
  PROVE  NoneAfter(x \o y, c, e)
<1> DEFINE m == Len(x)
           n == Len(y)
           xy == x \o y
<1>1. m \in Nat /\ n \in Nat /\ Len(xy) = m + n
  BY ConcatParts
<1> SUFFICES ASSUME NEW i \in 1..Len(xy), xy[i] = c, NEW j \in (i + 1)..Len(xy), xy[j] = e
             PROVE  FALSE
  BY DEF NoneAfter
<1>0. i \in Nat /\ i > 0 /\ j \in 1..Len(xy) /\ j > i
  BY <1>1
<1>2. (i \in 1..m /\ xy[i] = x[i]) \/ (i - m \in 1..n /\ xy[i] = y[i - m])
  BY ElementOf
<1>3. (j \in 1..m /\ xy[j] = x[j]) \/ (j - m \in 1..n /\ xy[j] = y[j - m])
  BY <1>0, ElementOf
<1> HIDE DEF xy
<1>4. CASE i \in 1..m /\ xy[i] = x[i] /\ j \in 1..m /\ xy[j] = x[j]
  <2>1. j \in (i + 1)..m
    BY <1>0, <1>1, <1>4
  <2> QED
    BY <1>4, <2>1 DEF NoneAfter
<1>5. CASE i \in 1..m /\ xy[i] = x[i] /\ j - m \in 1..n /\ xy[j] = y[j - m]
  BY <1>5 DEF In
<1>6. CASE i - m \in 1..n /\ xy[i] = y[i - m]
  <2>1. j - m \in ((i - m) + 1)..n /\ ~(j \in 1..m)
    BY <1>0, <1>1, <1>3, <1>6
  <2> QED
    BY <1>3, <1>6, <2>1 DEF NoneAfter
<1> QED
  BY <1>2, <1>3, <1>4, <1>5, <1>6

LEMMA FollowsConcat ==
  ASSUME NEW S, NEW x \in Seq(S), NEW y \in Seq(S), NEW c, NEW e,
         Follows(x, c, e), Follows(y, c, e)
  PROVE  Follows(x \o y, c, e)
<1> DEFINE m == Len(x)
           n == Len(y)
           xy == x \o y
<1>1. /\ m \in Nat /\ n \in Nat /\ Len(xy) = m + n
      /\ \A j \in 1..m : xy[j] = x[j]
      /\ \A j \in 1..n : xy[m + j] = y[j]
  BY ConcatParts
<1> SUFFICES ASSUME NEW i \in 1..Len(xy), xy[i] = c PROVE i < Len(xy) /\ xy[i + 1] = e
  BY DEF Follows
<1>2. (i \in 1..m /\ xy[i] = x[i]) \/ (i - m \in 1..n /\ xy[i] = y[i - m])
  BY ElementOf
<1>3. i \in Nat /\ i > 0
  BY <1>1
<1> HIDE DEF xy
<1>4. CASE i \in 1..m /\ xy[i] = x[i]
  <2>1. i < m /\ x[i + 1] = e
    BY <1>4 DEF Follows
  <2>2. i + 1 \in 1..m
    BY <1>1, <1>4, <2>1
  <2> QED
    BY <1>1, <1>3, <2>1, <2>2
<1>5. CASE i - m \in 1..n /\ xy[i] = y[i - m]
  <2>1. i - m < n /\ y[(i - m) + 1] = e
    BY <1>5 DEF Follows
  <2>2. (i - m) + 1 \in 1..n /\ m + ((i - m) + 1) = i + 1
    BY <1>1, <1>3, <1>5, <2>1
  <2>3. xy[i + 1] = e
    BY <1>1, <2>1, <2>2
  <2> QED
    BY <1>1, <1>3, <2>1, <2>3
<1> QED
  BY <1>2, <1>4, <1>5

\* Where a call is not, nothing is said of what comes before or after it.
LEMMA AbsentOrder ==
  ASSUME NEW q, NEW c, NEW e, ~In(q, c)
  PROVE  Earlier(q, c, e) /\ Later(q, c, e) /\ NoneAfter(q, c, e) /\ Follows(q, c, e)
BY DEF In, Earlier, Later, NoneAfter, Follows

LEMMA AbsentAfter == ASSUME NEW q, NEW c, NEW e, Len(q) \in Nat, ~In(q, e) PROVE NoneAfter(q, c, e)
<1>1. \A i \in 1..Len(q) : \A j \in (i + 1)..Len(q) : j \in 1..Len(q)
  OBVIOUS
<1> QED
  BY <1>1 DEF In, NoneAfter

LEMMA InType == ASSUME NEW S, NEW q \in Seq(S), NEW c, In(q, c) PROVE c \in S
BY ElementType DEF In

LEMMA InOne == ASSUME NEW S, NEW c \in S, NEW d PROVE In(<<c>>, d) <=> d = c
<1>1. Len(<<c>>) = 1 /\ <<c>>[1] = c
  OBVIOUS
<1> HIDE DEF In
<1>2. \A i \in 1..1 : i = 1
  OBVIOUS
<1>3. 1 \in 1..1
  OBVIOUS
<1> QED
  BY <1>1, <1>2, <1>3 DEF In

LEMMA InEmpty == ASSUME NEW c PROVE ~In(<<>>, c)
<1>1. Len(<<>>) = 0 /\ 1..0 = {}
  OBVIOUS
<1> QED
  BY <1>1 DEF In

\* What is in a part is in the whole.
LEMMA InFlatten ==
  ASSUME NEW S, NEW seqs \in Seq(Seq(S)), NEW i \in 1..Len(seqs), NEW c, In(seqs[i], c)
  PROVE  In(FlattenSeq(seqs), c)
<1> DEFINE G == Seq(S)
           part == seqs[i]
<1>1. <<>> \in G /\ part \in G
  BY EmptyType, ElementType
<1>2. \A x, y \in G : x \o y \in G
  BY ConcatType
<1>3. \A j \in 1..(i - 1) : seqs[j] \in G
  OBVIOUS
<1>4. FoundAfter(G, S, seqs[i], FlattenSeq(seqs))
  BY <1>1, <1>2, <1>3, FlattenSplit
<1> HIDE DEF part
<1>5. PICK pre \in G, post \in Seq(S) : FlattenSeq(seqs) = Cat(Cat(pre, part), post)
  BY <1>4 DEF FoundAfter, part
<1>6. In(part, c)
  BY DEF part
<1>7. pre \o part \in G /\ In(pre \o part, c)
  BY <1>1, <1>6, ConcatType, InConcat
<1> DEFINE most == pre \o part
<1> HIDE DEF most
<1>8. In(most \o post, c)
  BY <1>7, InConcat DEF most
<1> QED
  BY <1>5, <1>8 DEF Cat, most

-----------------------------------------------------------------------------
(* The calls of a package, in their order.                                   *)

LEMMA CallParts ==
  ASSUME NEW do, NEW a, NEW r, NEW kind
  PROVE  /\ Call(do, a, r, kind).do = do /\ Call(do, a, r, kind).area = a
         /\ Call(do, a, r, kind).res = r /\ Call(do, a, r, kind).kind = kind
BY DEF Call

LEMMA AreaCallParts ==
  ASSUME NEW do, NEW a
  PROVE  AreaCall(do, a).do = do /\ AreaCall(do, a).area = a
BY DEF AreaCall, Call

\* The calls that a package is made of, at first.
Prepares(p) == {c \in Fits(p) : c.do \notin OnResource}

\* An area is made anew and has a folder before its folder is configured.
Orderly(p, a) ==
  {q \in Seq(Prepares(p)) :
     /\ Fresh(p, a) => Earlier(q, AreaCall("folder", a), AreaCall("removeData", a))
     /\ Earlier(q, AreaCall("folder", a), AreaCall("getContext", a))
     /\ a \in WithTable(p) => MadeAgain(q, a)}

\* An area's turn comes, or the package is refused.
Reached(p, a, q) ==
  \/ In(q, WrongCall)
  \/ a \in WithTable(p) /\ In(q, AreaCall("folder", a))
  \/ a \notin WithTable(p) /\ In(q, AreaCall("removeData", a))

LEMMA OrderlyConcat ==
  ASSUME NEW p, NEW a, NEW x \in Orderly(p, a), NEW y \in Orderly(p, a)
  PROVE  x \o y \in Orderly(p, a)
<1> DEFINE S == Prepares(p)
<1>1. x \in Seq(S) /\ y \in Seq(S)
  BY DEF Orderly
<1> HIDE DEF S
<1>2. x \o y \in Seq(S)
  BY <1>1, ConcatType
<1>3. \A c, e : Earlier(x, c, e) /\ Earlier(y, c, e) => Earlier(x \o y, c, e)
  BY <1>1, EarlierConcat
<1>4. \A c, e : Later(x, c, e) /\ Later(y, c, e) => Later(x \o y, c, e)
  BY <1>1, LaterConcat
<1>5. \A c, e : Follows(x, c, e) /\ Follows(y, c, e) => Follows(x \o y, c, e)
  BY <1>1, FollowsConcat
<1>6. a \in WithTable(p) => MadeAgain(x \o y, a)
  BY <1>4, <1>5 DEF Orderly, MadeAgain
<1> QED
  BY <1>2, <1>3, <1>6 DEF Orderly, S

LEMMA OrderlyElsewhere ==
  ASSUME NEW p, NEW a, NEW q \in Seq(Prepares(p)), ~In(q, AreaCall("folder", a)),
         a \in WithTable(p) => ~In(q, AreaCall("removeData", a))
  PROVE  q \in Orderly(p, a)
<1>1. a \in WithTable(p) => MadeAgain(q, a)
  BY AbsentOrder DEF MadeAgain
<1> QED
  BY <1>1, AbsentOrder DEF Orderly

LEMMA EmptyOrderly == ASSUME NEW p, NEW a PROVE <<>> \in Orderly(p, a)
BY EmptyType, InEmpty, OrderlyElsewhere

LEMMA OneCall ==
  ASSUME NEW p, NEW a, NEW do \in {"wrong", "removeData", "getContext", "folder", "members", "linkPublic"},
         AreaCall(do, a) \in Fits(p)
  PROVE  /\ On(do, a) \in Seq(Prepares(p)) /\ On(do, a) = <<AreaCall(do, a)>>
         /\ \A c : In(On(do, a), c) <=> c = AreaCall(do, a)
<1> DEFINE c == AreaCall(do, a)
           S == Prepares(p)
<1>1. c \in S
  BY AreaCallParts DEF Prepares, OnResource
<1>2. On(do, a) = <<c>>
  BY DEF On, AreaCall
<1> HIDE DEF c, S
<1>3. <<c>> \in Seq(S) /\ \A d : In(<<c>>, d) <=> d = c
  BY <1>1, OneType, InOne
<1> QED
  BY <1>2, <1>3 DEF c, S

LEMMA DifferentCalls ==
  ASSUME NEW do, NEW a, NEW e, NEW b, do # e \/ a # b
  PROVE  AreaCall(do, a) # AreaCall(e, b)
<1>1. /\ AreaCall(do, a).do = do /\ AreaCall(do, a).area = a
      /\ AreaCall(e, b).do = e /\ AreaCall(e, b).area = b
  BY AreaCallParts
<1> QED
  BY <1>1

LEMMA WrongOrderly ==
  ASSUME NEW p, NEW a
  PROVE  Wrong \in Orderly(p, a) /\ In(Wrong, WrongCall)
<1>1. AreaCall("wrong", Public) \in Fits(p)
  BY WrongType DEF AreaCall
<1>2. /\ Wrong \in Seq(Prepares(p))
      /\ \A c : In(Wrong, c) <=> c = WrongCall
  BY <1>1, OneCall DEF Wrong, WrongCall
<1>3. WrongCall # AreaCall("folder", a) /\ WrongCall # AreaCall("removeData", a)
  BY DifferentCalls DEF WrongCall
<1> QED
  BY <1>2, <1>3, OrderlyElsewhere

\* The calls before a folder is configured.
LEMMA Opening ==
  ASSUME NEW p, NEW b \in WithTable(p)
  PROVE  LET x == OldDataGone(Rule(p, b), b) \o On("getContext", b) IN
         /\ x \in Seq(Prepares(p))
         /\ \A c : In(x, c) => c \in {AreaCall("removeData", b), AreaCall("getContext", b)}
         /\ In(x, AreaCall("getContext", b))
         /\ Fresh(p, b) => In(x, AreaCall("removeData", b))
         /\ Follows(x, AreaCall("removeData", b), AreaCall("getContext", b))
<1> DEFINE S == Prepares(p)
           rem == AreaCall("removeData", b)
           get == AreaCall("getContext", b)
           old == OldDataGone(Rule(p, b), b)
           x == old \o On("getContext", b)
<1>1. b \in Area /\ b \in Configured(p)
  BY DEF WithTable, Configured
<1>2. get \in Fits(p) /\ (Fresh(p, b) => rem \in Fits(p))
  BY <1>1, CallType DEF AreaCall
<1>3. /\ On("getContext", b) \in Seq(S) /\ On("getContext", b) = <<get>>
      /\ \A c : In(On("getContext", b), c) <=> c = get
  BY <1>2, OneCall
<1>4. Fresh(p, b) => /\ old = <<rem>> /\ old \in Seq(S)
                     /\ \A c : In(old, c) <=> c = rem
  BY <1>2, OneCall DEF OldDataGone, Fresh
<1>5. ~Fresh(p, b) => old = <<>> /\ old \in Seq(S) /\ \A c : ~In(old, c)
  BY EmptyType, InEmpty DEF OldDataGone, Fresh
<1>6. rem # get
  BY DifferentCalls
<1>7. rem \in S \/ ~Fresh(p, b)
  BY <1>2, AreaCallParts DEF Prepares, OnResource
<1>8. get \in S
  BY <1>2, AreaCallParts DEF Prepares, OnResource
<1> HIDE DEF S, rem, get, old
<1>9. x \in Seq(S) /\ \A c : In(x, c) <=> (In(old, c) \/ c = get)
  BY <1>3, <1>4, <1>5, ConcatType, InConcat
<1>10. ASSUME Fresh(p, b) PROVE Follows(<<rem>> \o <<get>>, rem, get)
  <2> DEFINE y == <<rem>> \o <<get>>
  <2>1. Len(y) = 2 /\ y[1] = rem /\ y[2] = get
    BY <1>7, <1>8, <1>10
  <2> HIDE DEF y
  <2>2. \A i \in 1..2 : i = 1 \/ i = 2
    OBVIOUS
  <2> QED
    BY <1>6, <2>1, <2>2 DEF Follows, y
<1>11. Follows(x, rem, get)
  <2>1. CASE Fresh(p, b)
    BY <1>3, <1>4, <1>10, <2>1
  <2>2. CASE ~Fresh(p, b)
    <3>1. ~In(x, rem)
      BY <1>5, <1>6, <1>9, <2>2
    <3> HIDE DEF x
    <3> QED
      BY <3>1, AbsentOrder
  <2> QED
    BY <2>1, <2>2
<1>12. \A c : In(x, c) => c \in {rem, get}
  BY <1>4, <1>5, <1>9
<1>13. Fresh(p, b) => In(x, rem)
  BY <1>4, <1>9
<1> QED
  BY <1>9, <1>11, <1>12, <1>13 DEF S, rem, get, old

\* All the calls for an area that is to have a table.
LEMMA AreaOrderly ==
  ASSUME NEW p, NEW a, NEW b \in WithTable(p), NEW mid \in Seq(Prepares(p)),
         \A d : ~In(mid, AreaCall("folder", d)) /\ ~In(mid, AreaCall("removeData", d))
  PROVE  LET q == OldDataGone(Rule(p, b), b) \o On("getContext", b) \o mid \o On("folder", b) IN
         q \in Orderly(p, a) /\ In(q, AreaCall("folder", b))
<1> DEFINE S == Prepares(p)
           rem == AreaCall("removeData", b)
           get == AreaCall("getContext", b)
           dir == AreaCall("folder", b)
           x == OldDataGone(Rule(p, b), b) \o On("getContext", b)
           y == x \o mid
           z == On("folder", b)
<1>1. /\ x \in Seq(S) /\ (\A c : In(x, c) => c \in {rem, get})
      /\ In(x, get) /\ (Fresh(p, b) => In(x, rem)) /\ Follows(x, rem, get)
  BY Opening
<1>2. dir \in Fits(p)
  BY CallType DEF AreaCall, WithTable, Configured
<1>3. z \in Seq(S) /\ \A c : In(z, c) <=> c = dir
  BY <1>2, OneCall
<1>4. ~In(mid, dir) /\ ~In(mid, rem) /\ mid \in Seq(S)
  OBVIOUS
<1>5. dir # rem /\ dir # get /\ rem # get
  BY DifferentCalls
<1>6. a # b => dir # AreaCall("folder", a) /\ rem # AreaCall("removeData", a)
  BY DifferentCalls
<1>7. /\ AreaCall("folder", a) # rem /\ AreaCall("folder", a) # get
      /\ AreaCall("removeData", a) # get /\ AreaCall("removeData", a) # dir
  BY DifferentCalls
<1>8. ~In(mid, AreaCall("folder", a)) /\ ~In(mid, AreaCall("removeData", a))
  OBVIOUS
<1> HIDE DEF S, rem, get, dir, x, z
<1>9. y \in Seq(S) /\ \A c : In(y, c) <=> (In(x, c) \/ In(mid, c))
  BY <1>1, <1>4, ConcatType, InConcat
<1>10. Follows(y, rem, get)
  <2>1. Follows(mid, rem, get)
    BY <1>4, AbsentOrder
  <2> QED
    BY <1>1, <1>4, <2>1, FollowsConcat
<1> HIDE DEF y
<1>11. y \o z \in Seq(S) /\ \A c : In(y \o z, c) <=> (In(y, c) \/ c = dir)
  BY <1>3, <1>9, ConcatType, InConcat
<1>12. CASE a # b
  <2>1. ~In(y \o z, AreaCall("folder", a)) /\ ~In(y \o z, AreaCall("removeData", a))
    BY <1>1, <1>6, <1>7, <1>8, <1>9, <1>11, <1>12
  <2>2. y \o z \in Orderly(p, a)
    BY <1>11, <2>1, OrderlyElsewhere DEF S
  <2> QED
    BY <1>11, <2>2 DEF y, x, z, dir
<1>13. CASE a = b
  <2>1. ~In(y, dir) /\ In(y, get) /\ (Fresh(p, b) => In(y, rem)) /\ ~In(z, rem) /\ In(z, dir)
    BY <1>1, <1>3, <1>4, <1>5, <1>9
  <2>2. Earlier(y \o z, dir, get) /\ (Fresh(p, b) => Earlier(y \o z, dir, rem))
    BY <1>3, <1>9, <2>1, AbsentOrder, EarlierConcat
  <2>3. Later(y \o z, rem, dir)
    BY <1>3, <1>9, <2>1, AbsentOrder, LaterConcat
  <2>4. Follows(y \o z, rem, get)
    BY <1>3, <1>9, <1>10, <2>1, AbsentOrder, FollowsConcat
  <2>5. y \o z \in Orderly(p, a)
    BY <1>11, <1>13, <2>2, <2>3, <2>4 DEF Orderly, MadeAgain, S, dir, rem, get
  <2> QED
    BY <1>11, <2>5 DEF y, x, z, dir
<1> QED
  BY <1>12, <1>13

\* And for one that is uninstalled.
LEMMA GoneOrderly ==
  ASSUME NEW p, NEW a, NEW b \in Configured(p) \ WithTable(p)
  PROVE  /\ OldDataGone("Uninstall", b) \in Orderly(p, a)
         /\ In(OldDataGone("Uninstall", b), AreaCall("removeData", b))
<1> DEFINE q == OldDataGone("Uninstall", b)
<1>1. Fresh(p, b) /\ b \in Area /\ q = On("removeData", b)
  BY DEF WithTable, Configured, Fresh, OldDataGone
<1>2. AreaCall("removeData", b) \in Fits(p)
  BY <1>1, CallType DEF AreaCall
<1>3. q \in Seq(Prepares(p)) /\ \A c : In(q, c) <=> c = AreaCall("removeData", b)
  BY <1>1, <1>2, OneCall
<1>4. /\ AreaCall("removeData", b) # AreaCall("folder", a)
      /\ a # b => AreaCall("removeData", b) # AreaCall("removeData", a)
  BY DifferentCalls
<1> HIDE DEF q
<1>5. q \in Orderly(p, a)
  BY <1>3, <1>4, OrderlyElsewhere
<1> QED
  BY <1>3, <1>5 DEF q

LEMMA ConcatEmpty == ASSUME NEW S, NEW x \in Seq(S) PROVE x \o <<>> = x
OBVIOUS

LEMMA PublicOrderly ==
  ASSUME NEW p \in Packages, NEW a
  PROVE  /\ PublicPlan(p) \in Orderly(p, a)
         /\ Public \in Configured(p) => Reached(p, Public, PublicPlan(p))
<1>1. CASE "public" \notin p.files
  BY <1>1, WrongOrderly DEF PublicPlan, Reached
<1>2. CASE "public" \in p.files /\ Rule(p, Public) = "DontTouch"
  BY <1>2, EmptyOrderly DEF PublicPlan, Configured
<1>3. CASE "public" \in p.files /\ Rule(p, Public) # "DontTouch"
  <2> DEFINE x == OldDataGone(Rule(p, Public), Public) \o On("getContext", Public)
             q == x \o On("folder", Public)
  <2>1. Public \in WithTable(p)
    BY <1>3 DEF WithTable, Configured, Area, Shared
  <2>2. x \in Seq(Prepares(p))
    BY <2>1, Opening
  <2>3. x \o <<>> = x
    BY <2>2, ConcatEmpty
  <2>4. <<>> \in Seq(Prepares(p)) /\ \A c : ~In(<<>>, c)
    BY EmptyType, InEmpty
  <2>5. x \o <<>> \o On("folder", Public) \in Orderly(p, a)
        /\ In(x \o <<>> \o On("folder", Public), AreaCall("folder", Public))
    BY <2>1, <2>4, AreaOrderly
  <2>6. q \in Orderly(p, a) /\ In(q, AreaCall("folder", Public))
    BY <2>3, <2>5
  <2> QED
    BY <1>3, <2>1, <2>6 DEF PublicPlan, Reached
<1> QED
  BY <1>1, <1>2, <1>3

LEMMA GroupOrderly ==
  ASSUME NEW p \in Packages, NEW a, NEW g
  PROVE  /\ GroupPlan(p, g) \in Orderly(p, a)
         /\ g \in Groups /\ g \in Configured(p) => Reached(p, g, GroupPlan(p, g))
<1>1. CASE g \notin Groups
  BY <1>1, WrongOrderly DEF GroupPlan
<1>2. CASE g \in Groups /\ Rule(p, g) = "DontTouch"
  BY <1>2, EmptyOrderly DEF GroupPlan, Configured
<1>3. CASE g \in Groups /\ Rule(p, g) = "Uninstall"
  <2>1. g \in Configured(p) \ WithTable(p)
    BY <1>3, InstallAssumption DEF Configured, WithTable, Area, Shared
  <2>2. /\ OldDataGone("Uninstall", g) \in Orderly(p, a)
        /\ In(OldDataGone("Uninstall", g), AreaCall("removeData", g))
    BY <2>1, GoneOrderly
  <2>3. GroupPlan(p, g) = OldDataGone("Uninstall", g)
    BY <1>3 DEF GroupPlan
  <2> QED
    BY <2>1, <2>2, <2>3 DEF Reached
<1>4. CASE g \in Groups /\ Rule(p, g) # "DontTouch" /\ Rule(p, g) # "Uninstall"
  <2> DEFINE mid == On("members", g)
  <2>1. g \in WithTable(p) /\ g \in Configured(p)
    BY <1>4 DEF Configured, WithTable, Area, Shared
  <2>2. AreaCall("members", g) \in Fits(p)
    BY <1>4, <2>1, CallType DEF AreaCall, Configured
  <2>3. mid \in Seq(Prepares(p)) /\ \A c : In(mid, c) <=> c = AreaCall("members", g)
    BY <2>2, OneCall
  <2>4. \A d : ~In(mid, AreaCall("folder", d)) /\ ~In(mid, AreaCall("removeData", d))
    BY <2>3, DifferentCalls
  <2> DEFINE q == OldDataGone(Rule(p, g), g) \o On("getContext", g) \o mid \o On("folder", g)
  <2> HIDE DEF mid
  <2>5. q \in Orderly(p, a) /\ In(q, AreaCall("folder", g))
    BY <2>1, <2>3, <2>4, AreaOrderly
  <2>6. GroupPlan(p, g) = q
    BY <1>4 DEF GroupPlan, mid
  <2> HIDE DEF q
  <2> QED
    BY <2>1, <2>5, <2>6 DEF Reached
<1> QED
  BY <1>1, <1>2, <1>3, <1>4

LEMMA AppOrderly ==
  ASSUME NEW p \in Packages, NEW a, NEW b \in Apps
  PROVE  /\ AppPlan(p, b) \in Orderly(p, a)
         /\ b \in Configured(p) => Reached(p, b, AppPlan(p, b))
<1>1. b \in Area /\ b # Public
  BY InstallAssumption DEF Area, Shared
<1>2. CASE Rule(p, b) = "DontTouch"
  BY <1>2, EmptyOrderly DEF AppPlan, Configured
<1>3. CASE Rule(p, b) = "Uninstall"
  <2>1. b \in Configured(p) \ WithTable(p)
    BY <1>1, <1>3 DEF Configured, WithTable
  <2>2. /\ OldDataGone("Uninstall", b) \in Orderly(p, a)
        /\ In(OldDataGone("Uninstall", b), AreaCall("removeData", b))
    BY <2>1, GoneOrderly
  <2>3. AppPlan(p, b) = OldDataGone("Uninstall", b)
    BY <1>3 DEF AppPlan
  <2> QED
    BY <2>1, <2>2, <2>3 DEF Reached
<1>4. CASE Rule(p, b) # "DontTouch" /\ Rule(p, b) # "Uninstall"
  <2> DEFINE mid == On("linkPublic", b)
  <2>1. b \in WithTable(p) /\ b \in Configured(p)
    BY <1>1, <1>4 DEF Configured, WithTable
  <2>2. AreaCall("linkPublic", b) \in Fits(p)
    BY <1>1, <1>4, <2>1, CallType DEF AreaCall
  <2>3. mid \in Seq(Prepares(p)) /\ \A c : In(mid, c) <=> c = AreaCall("linkPublic", b)
    BY <2>2, OneCall
  <2>4. \A d : ~In(mid, AreaCall("folder", d)) /\ ~In(mid, AreaCall("removeData", d))
    BY <2>3, DifferentCalls
  <2> DEFINE q == OldDataGone(Rule(p, b), b) \o On("getContext", b) \o mid \o On("folder", b)
  <2> HIDE DEF mid
  <2>5. q \in Orderly(p, a) /\ In(q, AreaCall("folder", b))
    BY <2>1, <2>3, <2>4, AreaOrderly
  <2>6. AppPlan(p, b) = q
    BY <1>4 DEF AppPlan, mid
  <2> HIDE DEF q
  <2> QED
    BY <2>1, <2>5, <2>6 DEF Reached
<1> QED
  BY <1>2, <1>3, <1>4

LEMMA ReachedIn ==
  ASSUME NEW p, NEW a, NEW S, NEW seqs \in Seq(Seq(S)), NEW i \in 1..Len(seqs),
         Reached(p, a, seqs[i])
  PROVE  Reached(p, a, FlattenSeq(seqs))
BY InFlatten DEF Reached

LEMMA ReachedAgain ==
  ASSUME NEW p, NEW a, NEW S, NEW x \in Seq(S), NEW y \in Seq(S),
         Reached(p, a, x) \/ Reached(p, a, y)
  PROVE  Reached(p, a, x \o y)
BY InConcat DEF Reached

LEMMA FlattenOrderly ==
  ASSUME NEW p, NEW a, NEW seqs \in Seq(Orderly(p, a))
  PROVE  FlattenSeq(seqs) \in Orderly(p, a) /\ seqs \in Seq(Seq(Prepares(p)))
<1>1. \A x, y \in Orderly(p, a) : x \o y \in Orderly(p, a)
  BY OrderlyConcat
<1>2. FlattenSeq(seqs) \in Orderly(p, a)
  BY <1>1, EmptyOrderly, FlattenClosed
<1>3. Orderly(p, a) \subseteq Seq(Prepares(p))
  BY DEF Orderly
<1>4. seqs \in Seq(Seq(Prepares(p)))
  BY <1>3, SeqSubset
<1> QED
  BY <1>2, <1>4

LEMMA GroupsOrderly ==
  ASSUME NEW p \in Packages, NEW a
  PROVE  /\ GroupsPlan(p) \in Orderly(p, a)
         /\ \A g \in Groups : g \in Configured(p) => Reached(p, g, GroupsPlan(p))
<1> DEFINE names == p.groups
           n == Len(names)
           seqs == [i \in 1..n |-> GroupPlan(p, names[i])]
<1>1. CASE "groups" \notin p.files
  BY <1>1, WrongOrderly DEF GroupsPlan, Reached
<1>2. CASE "groups" \in p.files
  <2>1. names \in Seq(STRING) /\ n \in Nat
    BY LenType DEF Packages
  <2>2. \A i \in 1..n : GroupPlan(p, names[i]) \in Orderly(p, a)
    BY GroupOrderly
  <2>3. \A g \in Groups : g \in Configured(p) => \E i \in 1..n : names[i] = g
    <3> TAKE g \in Groups
    <3> HAVE g \in Configured(p)
    <3>1. p.rule[g] # "none"
      BY DEF Configured, Rule
    <3>2. g \in ToSet(names)
      BY <3>1 DEF Packages
    <3> HIDE DEF names
    <3>3. \E i \in DOMAIN names : names[i] = g
      BY <3>2 DEF ToSet
    <3> QED
      BY <2>1, <3>3
  <2> HIDE DEF names, n
  <2>4. seqs \in Seq(Orderly(p, a))
    <3>1. DOMAIN seqs = 1..n /\ seqs = [i \in 1..n |-> seqs[i]] /\ \A i \in 1..n : seqs[i] \in Orderly(p, a)
      BY <2>2
    <3> HIDE DEF seqs
    <3> QED
      BY <2>1, <3>1, ListType
  <2>5. FlattenSeq(seqs) \in Orderly(p, a) /\ seqs \in Seq(Seq(Prepares(p)))
    BY <2>4, FlattenOrderly
  <2>6. Len(seqs) = n
    BY <2>1
  <2>7. ASSUME NEW g \in Groups, g \in Configured(p) PROVE Reached(p, g, FlattenSeq(seqs))
    <3>1. PICK i \in 1..n : names[i] = g
      BY <2>3, <2>7
    <3>2. Reached(p, g, seqs[i])
      BY <2>7, <3>1, GroupOrderly
    <3> HIDE DEF seqs
    <3> QED
      BY <2>5, <2>6, <3>2, ReachedIn
  <2>8. GroupsPlan(p) = FlattenSeq(seqs)
    BY <1>2 DEF GroupsPlan, ForAll, names, n
  <2> HIDE DEF seqs
  <2> QED
    BY <2>5, <2>7, <2>8
<1> QED
  BY <1>1, <1>2

LEMMA AppsOrderly ==
  ASSUME NEW p \in Packages, NEW a
  PROVE  /\ AppsPlan(p) \in Orderly(p, a)
         /\ \A b \in Apps : b \in Configured(p) => Reached(p, b, AppsPlan(p))
<1> DEFINE names == p.apps
           n == Len(names)
           seqs == [i \in 1..n |-> AppPlan(p, names[i])]
<1>1. CASE "apps" \notin p.files
  BY <1>1, WrongOrderly DEF AppsPlan, Reached
<1>2. CASE "apps" \in p.files
  <2>1. names \in Seq(Apps) /\ n \in Nat
    BY LenType DEF Packages
  <2>2. \A i \in 1..n : AppPlan(p, names[i]) \in Orderly(p, a)
    BY <2>1, ElementType, AppOrderly
  <2>3. \A b \in Apps : b \in Configured(p) => \E i \in 1..n : names[i] = b
    <3> TAKE b \in Apps
    <3> HAVE b \in Configured(p)
    <3>1. p.rule[b] # "none"
      BY DEF Configured, Rule
    <3>2. b \in ToSet(names)
      BY <3>1 DEF Packages
    <3> HIDE DEF names
    <3>3. \E i \in DOMAIN names : names[i] = b
      BY <3>2 DEF ToSet
    <3> QED
      BY <2>1, <3>3
  <2> HIDE DEF names, n
  <2>4. seqs \in Seq(Orderly(p, a))
    <3>1. DOMAIN seqs = 1..n /\ seqs = [i \in 1..n |-> seqs[i]] /\ \A i \in 1..n : seqs[i] \in Orderly(p, a)
      BY <2>2
    <3> HIDE DEF seqs
    <3> QED
      BY <2>1, <3>1, ListType
  <2>5. FlattenSeq(seqs) \in Orderly(p, a) /\ seqs \in Seq(Seq(Prepares(p)))
    BY <2>4, FlattenOrderly
  <2>6. Len(seqs) = n
    BY <2>1
  <2>7. ASSUME NEW b \in Apps, b \in Configured(p) PROVE Reached(p, b, FlattenSeq(seqs))
    <3>1. PICK i \in 1..n : names[i] = b
      BY <2>3, <2>7
    <3>2. Reached(p, b, seqs[i])
      BY <2>7, <3>1, AppOrderly
    <3> HIDE DEF seqs
    <3> QED
      BY <2>5, <2>6, <3>2, ReachedIn
  <2>8. AppsPlan(p) = FlattenSeq(seqs)
    BY <1>2 DEF AppsPlan, ForAll, names, n
  <2> HIDE DEF seqs
  <2> QED
    BY <2>5, <2>7, <2>8
<1> QED
  BY <1>1, <1>2

LEMMA PackageOrderly ==
  ASSUME NEW p \in Packages, NEW a \in Area
  PROVE  LET q == PublicPlan(p) \o GroupsPlan(p) \o AppsPlan(p) IN
         q \in Orderly(p, a) /\ (a \in Configured(p) => Reached(p, a, q))
<1> DEFINE x == PublicPlan(p)
           y == GroupsPlan(p)
           z == AppsPlan(p)
           S == Prepares(p)
<1>1. x \in Orderly(p, a) /\ y \in Orderly(p, a) /\ z \in Orderly(p, a)
  BY PublicOrderly, GroupsOrderly, AppsOrderly
<1>2. a \in Configured(p) => Reached(p, a, x) \/ Reached(p, a, y) \/ Reached(p, a, z)
  BY PublicOrderly, GroupsOrderly, AppsOrderly DEF Area, Shared
<1>3. Orderly(p, a) \subseteq Seq(S)
  BY DEF Orderly
<1> HIDE DEF x, y, z, S
<1>4. x \o y \in Orderly(p, a) /\ (x \o y) \o z \in Orderly(p, a)
  BY <1>1, OrderlyConcat
<1>5. ASSUME a \in Configured(p) PROVE Reached(p, a, (x \o y) \o z)
  <2>1. x \in Seq(S) /\ y \in Seq(S) /\ x \o y \in Seq(S) /\ z \in Seq(S)
    BY <1>1, <1>3, <1>4
  <2>2. Reached(p, a, x \o y) \/ Reached(p, a, z)
    BY <1>2, <1>5, <2>1, ReachedAgain
  <2> QED
    BY <2>1, <2>2, ReachedAgain
<1> QED
  BY <1>4, <1>5 DEF x, y, z

-----------------------------------------------------------------------------
(* The calls of a folder, in their order.                                    *)

LEMMA ResCallParts ==
  ASSUME NEW do, NEW a, NEW r
  PROVE  ResCall(do, a, r).do = do /\ ResCall(do, a, r).area = a /\ ResCall(do, a, r).res = r
BY DEF ResCall, Call

LEMMA InEach ==
  ASSUME NEW S \in SUBSET Resources, NEW do, NEW a, NEW kind, NEW c
  PROVE  In(ForEach(S, do, a, kind), c) <=> \E r \in S : c = Call(do, a, r, kind)
<1> DEFINE X == {Call(do, a, r, kind) : r \in S}
           One(r) == IF r \in S THEN <<Call(do, a, r, kind)>> ELSE <<>>
           n == Len(ResourceList)
           seqs == [i \in 1..n |-> One(ResourceList[i])]
<1>1. \A r : One(r) \in Seq(X)
  <2> TAKE r
  <2>1. r \in S => Call(do, a, r, kind) \in X
    OBVIOUS
  <2> HIDE DEF X
  <2>2. r \in S => <<Call(do, a, r, kind)>> \in Seq(X)
    BY <2>1, OneType
  <2> QED
    BY <2>2, EmptyType
<1>2. ResourceList \in Seq(Resources) /\ n \in Nat
  BY InstallAssumption, LenType
<1>3. \A r \in S : In(One(r), Call(do, a, r, kind))
  <2> TAKE r \in S
  <2>1. Call(do, a, r, kind) \in X
    OBVIOUS
  <2> QED
    BY <2>1, InOne
<1>4. \A r \in Resources : \E i \in 1..n : ResourceList[i] = r
  <2> TAKE r \in Resources
  <2>1. \E i \in DOMAIN ResourceList : ResourceList[i] = r
    BY DEF Resources, ToSet
  <2> QED
    BY <1>2, <2>1
<1> HIDE DEF X, One, n
<1>5. seqs \in Seq(Seq(X)) /\ Len(seqs) = n /\ \A i \in 1..n : seqs[i] = One(ResourceList[i])
  <2>1. DOMAIN seqs = 1..n /\ seqs = [i \in 1..n |-> seqs[i]] /\ \A i \in 1..n : seqs[i] \in Seq(X)
    BY <1>1
  <2>2. \A i \in 1..n : seqs[i] = One(ResourceList[i])
    OBVIOUS
  <2>3. Len(seqs) = n
    BY <1>2
  <2> HIDE DEF seqs
  <2> QED
    BY <1>2, <2>1, <2>2, <2>3, ListType
<1>6. ForEach(S, do, a, kind) = FlattenSeq(seqs)
  BY DEF ForEach, ForAll, One, n
<1> HIDE DEF seqs
<1>7. FlattenSeq(seqs) \in Seq(X)
  BY <1>5, FlattenType
<1>8. In(FlattenSeq(seqs), c) => c \in X
  BY <1>7, InType
<1>9. ASSUME NEW r \in S, c = Call(do, a, r, kind) PROVE In(FlattenSeq(seqs), c)
  <2>1. PICK i \in 1..n : ResourceList[i] = r
    BY <1>4
  <2>2. In(seqs[i], c)
    BY <1>3, <1>5, <1>9, <2>1
  <2> QED
    BY <1>5, <2>2, InFlatten
<1> QED
  BY <1>6, <1>8, <1>9 DEF X

Due(p, a, kind) ==
  IF kind \in LookUpRules[Rule(p, a)].affects THEN DefaultsDue(p, a) ELSE {}
Cleared(p, a) == IF "normal" \in LookUpRules[Rule(p, a)].affects THEN DataDue(p, a) ELSE {}

\* A call each for some resources, which tells no kind of default.
Each(S, do, a) == ForEach(S, do, a, "")

LEMMA InSection ==
  ASSUME NEW S \in SUBSET Resources, NEW do, NEW a, NEW c
  PROVE  In(Each(S, do, a), c) <=> \E r \in S : c = ResCall(do, a, r)
<1> DEFINE no == ""
<1>1. Each(S, do, a) = ForEach(S, do, a, no)
  BY DEF Each
<1>2. \A r : ResCall(do, a, r) = Call(do, a, r, no)
  BY DEF ResCall
<1> HIDE DEF no
<1>3. In(ForEach(S, do, a, no), c) <=> \E r \in S : c = Call(do, a, r, no)
  BY InEach
<1> QED
  BY <1>1, <1>2, <1>3

LEMMA SetsDue ==
  ASSUME NEW p, NEW a
  PROVE  /\ Obsolete(p, a) \in SUBSET Resources /\ PolicyChange(p, a) \in SUBSET Resources
         /\ Changed(p, a) \in SUBSET Resources /\ DefaultsDue(p, a) \in SUBSET Resources
         /\ DataDue(p, a) \in SUBSET Resources
BY DEF Obsolete, PolicyChange, Changed, DefaultsDue, DataDue

LEMMA InDefaultPlan ==
  ASSUME NEW p, NEW a, NEW kind, NEW c
  PROVE  In(DefaultPlan(p, a, kind), c) <=> \E r \in Due(p, a, kind) : c = Call("default", a, r, kind)
<1>1. CASE kind \in LookUpRules[Rule(p, a)].affects
  <2>1. DefaultPlan(p, a, kind) = ForEach(DefaultsDue(p, a), "default", a, kind)
    BY <1>1 DEF DefaultPlan, DefaultsDue
  <2>2. Due(p, a, kind) = DefaultsDue(p, a)
    BY <1>1 DEF Due
  <2> QED
    BY <2>1, <2>2, SetsDue, InEach
<1>2. CASE kind \notin LookUpRules[Rule(p, a)].affects
  BY <1>2, InEmpty DEF DefaultPlan, Due
<1> QED
  BY <1>1, <1>2

LEMMA InNonDefaultPlan ==
  ASSUME NEW p, NEW a, NEW c
  PROVE  In(NonDefaultPlan(p, a), c) <=> \E r \in Cleared(p, a) : c = ResCall("clearData", a, r)
<1>1. CASE "normal" \in LookUpRules[Rule(p, a)].affects
  <2>1. NonDefaultPlan(p, a) = Each(DataDue(p, a), "clearData", a)
    BY <1>1 DEF NonDefaultPlan, DataDue, Each
  <2>2. Cleared(p, a) = DataDue(p, a)
    BY <1>1 DEF Cleared
  <2> QED
    BY <2>1, <2>2, SetsDue, InSection
<1>2. CASE "normal" \notin LookUpRules[Rule(p, a)].affects
  BY <1>2, InEmpty DEF NonDefaultPlan, Cleared
<1> QED
  BY <1>1, <1>2

\* The plan of a folder in two: what is done with data and defaults, and the
\* update of the table.
DataPlan(p, a) ==
  Each(Obsolete(p, a), "obsolete", a)
    \o Each(PolicyChange(p, a), "changePolicy", a)
    \o DefaultPlan(p, a, "factory") \o DefaultPlan(p, a, "configurable")
    \o NonDefaultPlan(p, a)

\* The calls of the two.
InData(p, a, c) ==
  \/ \E r \in Obsolete(p, a) : c = ResCall("obsolete", a, r)
  \/ \E r \in PolicyChange(p, a) : c = ResCall("changePolicy", a, r)
  \/ \E kind \in Kinds : \E r \in Due(p, a, kind) : c = Call("default", a, r, kind)
  \/ \E r \in Cleared(p, a) : c = ResCall("clearData", a, r)
InTable(p, a, c) ==
  \/ \E r \in Obsolete(p, a) : c = ResCall("deleteEntry", a, r)
  \/ \E r \in Changed(p, a) : c = ResCall("writeEntry", a, r)

LEMMA SectionTypes ==
  ASSUME NEW p, NEW a \in WithTable(p)
  PROVE  /\ Each(Obsolete(p, a), "obsolete", a) \in Seq(FitsIn(p, a))
         /\ Each(PolicyChange(p, a), "changePolicy", a) \in Seq(FitsIn(p, a))
         /\ \A kind \in Kinds : DefaultPlan(p, a, kind) \in Seq(FitsIn(p, a))
         /\ NonDefaultPlan(p, a) \in Seq(FitsIn(p, a))
         /\ Each(Obsolete(p, a), "deleteEntry", a) \in Seq(FitsIn(p, a))
         /\ Each(Changed(p, a), "writeEntry", a) \in Seq(FitsIn(p, a))
<1> DEFINE X == FitsIn(p, a)
<1>1. /\ Each(Obsolete(p, a), "obsolete", a) \in Seq(X)
      /\ Each(PolicyChange(p, a), "changePolicy", a) \in Seq(X)
      /\ Each(Obsolete(p, a), "deleteEntry", a) \in Seq(X)
      /\ Each(Changed(p, a), "writeEntry", a) \in Seq(X)
  BY EachFits, ResourcesAsked DEF OnResource, Each
<1>2. \A kind \in Kinds : DefaultPlan(p, a, kind) \in Seq(X)
  <2> TAKE kind \in Kinds
  <2>1. <<>> \in Seq(X)
    BY EmptyType
  <2>2. kind \in LookUpRules[Rule(p, a)].affects =>
          ForEach(DefaultsDue(p, a), "default", a, kind) \in Seq(X)
    BY EachFits, ResourcesAsked DEF OnResource
  <2> HIDE DEF X
  <2> QED
    BY <2>1, <2>2 DEF DefaultPlan, DefaultsDue
<1>3. NonDefaultPlan(p, a) \in Seq(X)
  <2>1. <<>> \in Seq(X)
    BY EmptyType
  <2>2. "normal" \in LookUpRules[Rule(p, a)].affects =>
          Each(DataDue(p, a), "clearData", a) \in Seq(X)
    BY EachFits, ResourcesAsked DEF OnResource, Each
  <2> HIDE DEF X
  <2> QED
    BY <2>1, <2>2 DEF NonDefaultPlan, DataDue, Each
<1> QED
  BY <1>1, <1>2, <1>3

LEMMA DataPlanParts ==
  ASSUME NEW p, NEW a \in WithTable(p)
  PROVE  /\ DataPlan(p, a) \in Seq(FitsIn(p, a))
         /\ \A c : In(DataPlan(p, a), c) <=> InData(p, a, c)
         /\ \A r \in Cleared(p, a) :
              Later(DataPlan(p, a), ResCall("changePolicy", a, r), ResCall("clearData", a, r))
<1> DEFINE X == FitsIn(p, a)
           ob == Each(Obsolete(p, a), "obsolete", a)
           mv == Each(PolicyChange(p, a), "changePolicy", a)
           f == DefaultPlan(p, a, "factory")
           g == DefaultPlan(p, a, "configurable")
           nd == NonDefaultPlan(p, a)
<1>1. ob \in Seq(X) /\ mv \in Seq(X) /\ f \in Seq(X) /\ g \in Seq(X) /\ nd \in Seq(X)
  BY SectionTypes DEF Kinds
<1>2. /\ \A c : In(ob, c) <=> \E r \in Obsolete(p, a) : c = ResCall("obsolete", a, r)
      /\ \A c : In(mv, c) <=> \E r \in PolicyChange(p, a) : c = ResCall("changePolicy", a, r)
      /\ \A c : In(f, c) <=> \E r \in Due(p, a, "factory") : c = Call("default", a, r, "factory")
      /\ \A c : In(g, c) <=> \E r \in Due(p, a, "configurable") : c = Call("default", a, r, "configurable")
      /\ \A c : In(nd, c) <=> \E r \in Cleared(p, a) : c = ResCall("clearData", a, r)
  <2> HIDE DEF ob, mv, f, g, nd
  <2>1. ASSUME NEW c
        PROVE  /\ In(ob, c) <=> \E r \in Obsolete(p, a) : c = ResCall("obsolete", a, r)
               /\ In(mv, c) <=> \E r \in PolicyChange(p, a) : c = ResCall("changePolicy", a, r)
               /\ In(f, c) <=> \E r \in Due(p, a, "factory") : c = Call("default", a, r, "factory")
               /\ In(g, c) <=> \E r \in Due(p, a, "configurable") : c = Call("default", a, r, "configurable")
               /\ In(nd, c) <=> \E r \in Cleared(p, a) : c = ResCall("clearData", a, r)
    BY SetsDue, InSection, InDefaultPlan, InNonDefaultPlan DEF ob, mv, f, g, nd
  <2> QED
    BY <2>1
<1>3. DataPlan(p, a) = ob \o mv \o f \o g \o nd
  BY DEF DataPlan
<1> HIDE DEF X, ob, mv, f, g, nd
<1> DEFINE x == ob \o mv
           y == x \o f
           q == y \o g
<1>4. x \in Seq(X) /\ \A c : In(x, c) <=> (In(ob, c) \/ In(mv, c))
  BY <1>1, ConcatType, InConcat
<1> HIDE DEF x
<1>5. y \in Seq(X) /\ \A c : In(y, c) <=> (In(x, c) \/ In(f, c))
  BY <1>1, <1>4, ConcatType, InConcat
<1> HIDE DEF y
<1>6. q \in Seq(X) /\ \A c : In(q, c) <=> (In(y, c) \/ In(g, c))
  BY <1>1, <1>5, ConcatType, InConcat
<1> HIDE DEF q
<1>7. q \o nd \in Seq(X) /\ \A c : In(q \o nd, c) <=> (In(q, c) \/ In(nd, c))
  BY <1>1, <1>6, ConcatType, InConcat
<1>8. DataPlan(p, a) = q \o nd
  BY <1>3 DEF q, y, x
<1>9. \A c : In(q \o nd, c) <=> InData(p, a, c)
  <2> TAKE c
  <2>1. In(q \o nd, c) <=> (In(ob, c) \/ In(mv, c) \/ In(f, c) \/ In(g, c) \/ In(nd, c))
    BY <1>4, <1>5, <1>6, <1>7
  <2> QED
    BY <1>2, <2>1 DEF InData, Kinds
<1>10. ASSUME NEW r \in Cleared(p, a)
       PROVE  Later(q \o nd, ResCall("changePolicy", a, r), ResCall("clearData", a, r))
  <2>1. In(nd, ResCall("clearData", a, r))
    BY <1>2
  <2>2. ~In(nd, ResCall("changePolicy", a, r))
    <3>1. \A i : ResCall("changePolicy", a, r) # ResCall("clearData", a, i)
      <4> TAKE i
      <4>1. ResCall("changePolicy", a, r).do = "changePolicy" /\ ResCall("clearData", a, i).do = "clearData"
        BY DEF ResCall, Call
      <4> QED
        BY <4>1
    <3> QED
      BY <1>2, <3>1
  <2> QED
    BY <1>1, <1>6, <2>1, <2>2, AbsentOrder, LaterConcat
<1> QED
  BY <1>7, <1>8, <1>9, <1>10 DEF X

LEMMA TablePlanParts ==
  ASSUME NEW p, NEW a \in WithTable(p)
  PROVE  /\ UpdateRctPlan(p, a) \in Seq(FitsIn(p, a))
         /\ \A c : In(UpdateRctPlan(p, a), c) <=> InTable(p, a, c)
<1> DEFINE X == FitsIn(p, a)
           x == Each(Obsolete(p, a), "deleteEntry", a)
           y == Each(Changed(p, a), "writeEntry", a)
<1>1. x \in Seq(X) /\ y \in Seq(X)
  BY SectionTypes
<1>2. /\ \A c : In(x, c) <=> \E r \in Obsolete(p, a) : c = ResCall("deleteEntry", a, r)
      /\ \A c : In(y, c) <=> \E r \in Changed(p, a) : c = ResCall("writeEntry", a, r)
  <2> HIDE DEF x, y
  <2>1. ASSUME NEW c
        PROVE  /\ In(x, c) <=> \E r \in Obsolete(p, a) : c = ResCall("deleteEntry", a, r)
               /\ In(y, c) <=> \E r \in Changed(p, a) : c = ResCall("writeEntry", a, r)
    BY SetsDue, InSection DEF x, y
  <2> QED
    BY <2>1
<1>3. UpdateRctPlan(p, a) = x \o y
  BY DEF UpdateRctPlan, Each
<1> HIDE DEF X, x, y
<1>4. x \o y \in Seq(X) /\ \A c : In(x \o y, c) <=> (In(x, c) \/ In(y, c))
  BY <1>1, ConcatType, InConcat
<1> QED
  BY <1>2, <1>3, <1>4 DEF InTable, X

\* What comes when: the table last.
LEMMA FolderOrder ==
  ASSUME NEW p, NEW a \in WithTable(p)
  PROVE  LET q == FolderPlan(p, a) IN
         /\ q \in Seq(FitsIn(p, a))
         /\ \A c : In(q, c) <=> (InData(p, a, c) \/ InTable(p, a, c))
         /\ \A r \in Resources :
              /\ NoneAfter(q, ResCall("deleteEntry", a, r), ResCall("obsolete", a, r))
              /\ NoneAfter(q, ResCall("writeEntry", a, r), ResCall("changePolicy", a, r))
              /\ r \in Obsolete(p, a) =>
                   Earlier(q, ResCall("deleteEntry", a, r), ResCall("obsolete", a, r))
              /\ r \in PolicyChange(p, a) =>
                   Earlier(q, ResCall("writeEntry", a, r), ResCall("changePolicy", a, r))
              /\ r \in Cleared(p, a) =>
                   Later(q, ResCall("changePolicy", a, r), ResCall("clearData", a, r))
<1> DEFINE X == FitsIn(p, a)
           x == DataPlan(p, a)
           y == UpdateRctPlan(p, a)
<1>1. /\ x \in Seq(X) /\ y \in Seq(X)
      /\ \A c : In(x, c) <=> InData(p, a, c)
      /\ \A c : In(y, c) <=> InTable(p, a, c)
      /\ \A r \in Cleared(p, a) : Later(x, ResCall("changePolicy", a, r), ResCall("clearData", a, r))
  BY DataPlanParts, TablePlanParts
<1>2. FolderPlan(p, a) = x \o y
  BY DEF FolderPlan, DataPlan, Each
<1>3. /\ \A c : InData(p, a, c) => c.do \notin {"deleteEntry", "writeEntry"}
      /\ \A c : InTable(p, a, c) => c.do \in {"deleteEntry", "writeEntry"}
  <2>1. \A r, kind : Call("default", a, r, kind).do = "default"
    BY CallParts
  <2>2. \A do, r : ResCall(do, a, r).do = do
    BY DEF ResCall, Call
  <2> QED
    BY <2>1, <2>2 DEF InData, InTable
<1>4. \A do, r : ResCall(do, a, r).do = do
  BY DEF ResCall, Call
<1> HIDE DEF X, x, y
<1>5. x \o y \in Seq(X) /\ \A c : In(x \o y, c) <=> (In(x, c) \/ In(y, c))
  BY <1>1, ConcatType, InConcat
<1>6. \A r : /\ ~In(x, ResCall("deleteEntry", a, r)) /\ ~In(x, ResCall("writeEntry", a, r))
             /\ ~In(y, ResCall("obsolete", a, r)) /\ ~In(y, ResCall("changePolicy", a, r))
  BY <1>1, <1>3, <1>4
<1>7. Len(y) \in Nat
  BY <1>1, LenType
<1>8. ASSUME NEW r \in Resources
      PROVE  /\ NoneAfter(x \o y, ResCall("deleteEntry", a, r), ResCall("obsolete", a, r))
             /\ NoneAfter(x \o y, ResCall("writeEntry", a, r), ResCall("changePolicy", a, r))
  BY <1>1, <1>6, <1>7, AbsentOrder, AbsentAfter, NoneAfterConcat
<1>9. ASSUME NEW r \in Obsolete(p, a)
      PROVE  Earlier(x \o y, ResCall("deleteEntry", a, r), ResCall("obsolete", a, r))
  <2>1. In(x, ResCall("obsolete", a, r))
    BY <1>1 DEF InData
  <2> QED
    BY <1>1, <1>6, <2>1, AbsentOrder, EarlierConcat
<1>10. ASSUME NEW r \in PolicyChange(p, a)
       PROVE  Earlier(x \o y, ResCall("writeEntry", a, r), ResCall("changePolicy", a, r))
  <2>1. In(x, ResCall("changePolicy", a, r))
    BY <1>1 DEF InData
  <2> QED
    BY <1>1, <1>6, <2>1, AbsentOrder, EarlierConcat
<1>11. ASSUME NEW r \in Cleared(p, a)
       PROVE  Later(x \o y, ResCall("changePolicy", a, r), ResCall("clearData", a, r))
  BY <1>1, <1>6, AbsentOrder, LaterConcat
<1> QED
  BY <1>1, <1>2, <1>5, <1>8, <1>9, <1>10, <1>11 DEF X

-----------------------------------------------------------------------------
(* An attempt begins.                                                        *)

LEMMA EarlierIn == ASSUME NEW q, NEW c, NEW e, Len(q) \in Nat, Earlier(q, c, e), In(q, c) PROVE In(q, e)
<1>1. PICK i \in 1..Len(q) : q[i] = c
  BY DEF In
<1>2. PICK j \in 1..(i - 1) : q[j] = e
  BY <1>1 DEF Earlier
<1>3. j \in 1..Len(q)
  BY <1>2
<1> QED
  BY <1>2, <1>3 DEF In

LEMMA FirstResources ==
  ASSUME NEW S, NEW q \in Seq(S), q # <<>>, ResourcesFirst(q)
  PROVE  /\ ResourcesFirst(Tail(q))
         /\ Head(q).do \notin OnResource =>
              /\ \A i \in 1..Len(Tail(q)) : Tail(q)[i].do \notin OnResource
              /\ \A i \in 1..Len(q) : q[i].do \notin OnResource
<1> DEFINE v == Tail(q)
           n == Len(q)
<1>1. /\ n \in Nat /\ n > 0 /\ Head(q) = q[1] /\ Len(v) = n - 1
      /\ \A i \in 1..(n - 1) : v[i] = q[i + 1]
  BY TailParts
<1>2. \A j \in 1..n : q[j].do \in OnResource => \A i \in 1..(j - 1) : q[i].do \in OnResource
  BY DEF ResourcesFirst
<1> HIDE DEF v, n
<1>3. ASSUME NEW j \in 1..Len(v), v[j].do \in OnResource, NEW i \in 1..(j - 1)
      PROVE  v[i].do \in OnResource
  <2>1. j + 1 \in 1..n /\ q[j + 1].do \in OnResource /\ i + 1 \in 1..((j + 1) - 1) /\ i \in 1..(n - 1)
    BY <1>1, <1>3
  <2>2. q[i + 1].do \in OnResource
    BY <1>2, <2>1
  <2> QED
    BY <1>1, <2>1, <2>2
<1>4. ASSUME Head(q).do \notin OnResource, NEW i \in 1..n PROVE q[i].do \notin OnResource
  <2>1. i # 1 => 1 \in 1..(i - 1)
    BY <1>1
  <2> QED
    BY <1>1, <1>2, <1>4, <2>1
<1>5. ASSUME Head(q).do \notin OnResource, NEW i \in 1..Len(v) PROVE v[i].do \notin OnResource
  <2>1. i + 1 \in 1..n /\ i \in 1..(n - 1)
    BY <1>1
  <2> QED
    BY <1>1, <1>4, <1>5, <2>1
<1> QED
  BY <1>3, <1>4, <1>5 DEF ResourcesFirst, v, n

\* A list without calls on resources.
LEMMA NoCalls ==
  ASSUME NEW S, NEW q \in Seq(S), \A i \in 1..Len(q) : q[i].do \notin OnResource
  PROVE  /\ ResourcesFirst(q) /\ \A a : NoResources(q, a)
         /\ \A c : c.do \in OnResource => ~In(q, c)
         /\ \A a, r : \A do \in OnResource : ~In(q, ResCall(do, a, r))
         /\ \A p, b, k, t, a, r : InOrder(p, b, k, t, q, a, r)
<1>1. ResourcesFirst(q) /\ \A a : NoResources(q, a)
  BY DEF ResourcesFirst, NoResources
<1>2. \A c : c.do \in OnResource => ~In(q, c)
  BY DEF In
<1>3. \A a, r : \A do \in OnResource : ~In(q, ResCall(do, a, r))
  BY <1>2, ResCallParts
<1>4. ASSUME NEW p, NEW b, NEW k, NEW t, NEW a, NEW r PROVE InOrder(p, b, k, t, q, a, r)
  <2>1. /\ ~In(q, ResCall("obsolete", a, r)) /\ ~In(q, ResCall("changePolicy", a, r))
        /\ ~In(q, ResCall("deleteEntry", a, r)) /\ ~In(q, ResCall("writeEntry", a, r))
    BY <1>3 DEF OnResource
  <2> QED
    BY <2>1, AbsentOrder DEF InOrder
<1> QED
  BY <1>1, <1>2, <1>3, <1>4

LEMMA PlanAttempt ==
  ASSUME NEW p, NEW b, NEW k, NEW t, NEW a \in Configured(p),
         NEW q \in Orderly(p, a), Reached(p, a, q)
  PROVE  ResourcesFirst(q) /\ AttemptAt(p, b, k, t, q, a)
<1>1. q \in Seq(Prepares(p)) /\ Len(q) \in Nat
  BY LenType DEF Orderly
<1>2. \A i \in 1..Len(q) : q[i].do \notin OnResource
  <2>1. \A i \in 1..Len(q) : q[i] \in Prepares(p)
    BY <1>1, ElementType
  <2> QED
    BY <2>1 DEF Prepares
<1>3. ResourcesFirst(q) /\ NoResources(q, a) /\ \A r : InOrder(p, b, k, t, q, a, r)
  BY <1>1, <1>2, NoCalls
<1>4. ASSUME Fresh(p, a) PROVE Anew(p, b, t, q, a)
  <2>1. Earlier(q, AreaCall("folder", a), AreaCall("removeData", a))
    BY <1>4 DEF Orderly
  <2>2. In(q, AreaCall("removeData", a)) \/ In(q, WrongCall)
    BY <1>1, <2>1, EarlierIn DEF Reached
  <2> QED
    BY <1>3, <2>1, <2>2 DEF Anew
<1>5. ASSUME a \in WithTable(p)
      PROVE  Hosted(t, q, a) /\ MadeAgain(q, a) /\ \A r \in Resources : Remains(p, b, k, t, q, a, r)
  <2>1. Earlier(q, AreaCall("folder", a), AreaCall("getContext", a)) /\ MadeAgain(q, a)
    BY <1>5 DEF Orderly
  <2>2. In(q, AreaCall("folder", a)) \/ In(q, WrongCall)
    BY <1>5 DEF Reached
  <2>3. In(q, AreaCall("getContext", a)) \/ In(q, WrongCall)
    BY <1>1, <2>1, <2>2, EarlierIn
  <2> QED
    BY <1>3, <2>1, <2>2, <2>3 DEF Hosted, Remains
<1> QED
  BY <1>3, <1>4, <1>5 DEF AttemptAt

-----------------------------------------------------------------------------
(* A step that leaves a resource alone.                                      *)

LEMMA DataOfParts ==
  ASSUME NEW a, NEW r, NEW s \in DataOf(a, r)
  PROVE  s \in SlotsOf(a, r) /\ s \in Slots /\ s[1] = a /\ s[3] = r
BY DEF DataOf, Of, SlotsOf

LEMMA ExpectedSame ==
  ASSUME NEW p, NEW b, NEW c, NEW a, NEW r, SameAt(b, c, a, r), NEW e \in DefaultsOf(a, r)
  PROVE  ExpectedDefault(p, c, e) = ExpectedDefault(p, b, e)
<1>1. e[3] = a /\ e[4] = r /\ c.rct[a][r] = b.rct[a][r] /\ c.def[e] = b.def[e]
  BY DEF DefaultsOf, SameAt
<1> QED
  BY <1>1 DEF ExpectedDefault

\* The tree before may change as well, and more keys have been skipped.
LEMMA ResumableSame ==
  ASSUME NEW p, NEW b, NEW c, NEW k, NEW m, NEW t, NEW u, NEW a, NEW r,
         SameAt(b, c, a, r), SameAt(t, u, a, r), k \subseteq m
  PROVE  /\ Switched(p, b, k, t, a, r) => Switched(p, c, m, u, a, r)
         /\ Removed(p, b, k, t, a, r) => Removed(p, c, m, u, a, r)
         /\ AsBefore(b, t, a, r) => AsBefore(c, u, a, r)
         /\ Resumable(p, b, k, t, a, r) => Resumable(p, c, m, u, a, r)
<1>1. \A s \in DataOf(a, r) : s \in SlotsOf(a, r) /\ s \in Slots /\ s[1] = a /\ s[3] = r
  BY DataOfParts
<1>2. /\ c.rct[a][r] = b.rct[a][r] /\ u.rct[a][r] = t.rct[a][r]
      /\ \A s \in SlotsOf(a, r), st \in Stores :
           c.data[st][s] = b.data[st][s] /\ u.data[st][s] = t.data[st][s]
      /\ \A e \in DefaultsOf(a, r) : c.def[e] = b.def[e] /\ u.def[e] = t.def[e]
  BY DEF SameAt
<1>3. \A s \in DataOf(a, r), x \in Stores, y \in Stores : Stored(c, x, y, s) = Stored(b, x, y, s)
  BY <1>1, <1>2 DEF Stored
<1>4. Switched(p, b, k, t, a, r) => Switched(p, c, m, u, a, r)
  BY <1>1, <1>2, <1>3 DEF Switched
<1>5. Removed(p, b, k, t, a, r) => Removed(p, c, m, u, a, r)
  BY <1>1, <1>2 DEF Removed
<1>6. AsBefore(b, t, a, r) => AsBefore(c, u, a, r)
  BY <1>2 DEF AsBefore
<1>7. ASSUME NEW s \in DataOf(a, r), SlotKept(p, b, t, a, r, s)
      PROVE  SlotKept(p, c, u, a, r, s)
  <2>1. \A st \in Stores : c.data[st][s] = b.data[st][s] /\ u.data[st][s] = t.data[st][s]
    BY <1>1, <1>2
  <2>2. \A x \in Stores, y \in Stores : Stored(c, x, y, s) = Stored(b, x, y, s)
    BY <1>3
  <2> DEFINE x == b.rct[a][r]
             d == p.rct[a][r]
  <2>3. c.rct[a][r] = x
    BY <1>2
  <2>4. /\ \A st \in Stores : t.data[st][s] # Absent => st = d \/ b.data[st][s] # Absent
        /\ x \in Stores /\ ~Deleted(p, a, r) =>
             /\ x = d => t.data[x][s] = b.data[x][s]
             /\ Moves(x, d) /\ d \in Stores =>
                  IF t.data[x][s] # Absent THEN t.data[x][s] = b.data[x][s]
                  ELSE t.data[d][s] = Stored(b, x, d, s)
    BY <1>7 DEF SlotKept
  <2> HIDE DEF x, d
  <2>5. /\ \A st \in Stores : u.data[st][s] # Absent => st = d \/ c.data[st][s] # Absent
        /\ x \in Stores /\ ~Deleted(p, a, r) =>
             /\ x = d => u.data[x][s] = c.data[x][s]
             /\ Moves(x, d) /\ d \in Stores =>
                  IF u.data[x][s] # Absent THEN u.data[x][s] = c.data[x][s]
                  ELSE u.data[d][s] = Stored(c, x, d, s)
    BY <2>1, <2>2, <2>4
  <2> QED
    BY <2>3, <2>5 DEF SlotKept, d
<1>8. \A e \in DefaultsOf(a, r) : ExpectedDefault(p, c, e) = ExpectedDefault(p, b, e)
  BY ExpectedSame
<1>9. Resumable(p, b, k, t, a, r) => Resumable(p, c, m, u, a, r)
  BY <1>2, <1>4, <1>5, <1>7, <1>8 DEF Resumable
<1> QED
  BY <1>4, <1>5, <1>6, <1>9

LEMMA DoneSame ==
  ASSUME NEW p, NEW b, NEW t, NEW u, NEW a, NEW r, SameAt(t, u, a, r)
  PROVE  /\ Cleaned(p, b, t, a, r) => Cleaned(p, b, u, a, r)
         /\ EmptyAt(t, a, r) => EmptyAt(u, a, r)
         /\ TableDone(p, t, a, r) => TableDone(p, u, a, r)
<1>1. /\ u.rct[a][r] = t.rct[a][r]
      /\ \A s \in SlotsOf(a, r), st \in Stores : u.data[st][s] = t.data[st][s]
      /\ \A e \in DefaultsOf(a, r) : u.def[e] = t.def[e]
  BY DEF SameAt
<1> QED
  BY <1>1 DEF Cleaned, EmptyAt, TableDone

LEMMA BroughtSame ==
  ASSUME NEW p, NEW b, NEW k, NEW m, NEW t, NEW u, NEW a, NEW r, SameAt(t, u, a, r), k \subseteq m
  PROVE  /\ \A e \in DefaultsOf(a, r) : DefaultDone(p, b, k, t, e) => DefaultDone(p, b, m, u, e)
         /\ DataDone(p, k, t, a, r) => DataDone(p, m, u, a, r)
<1>1. \A s \in DataOf(a, r) : s \in SlotsOf(a, r)
  BY DataOfParts
<1>2. /\ u.rct[a][r] = t.rct[a][r]
      /\ \A s \in SlotsOf(a, r), st \in Stores : u.data[st][s] = t.data[st][s]
      /\ \A e \in DefaultsOf(a, r) : u.def[e] = t.def[e]
  BY DEF SameAt
<1> QED
  BY <1>1, <1>2 DEF DefaultDone, DataDone

LEMMA SameSelf == ASSUME NEW t, NEW a, NEW r PROVE SameAt(t, t, a, r)
BY DEF SameAt

\* Of two calls one is made, which is not of this resource.
LEMMA InOrderSame ==
  ASSUME NEW p, NEW b, NEW k, NEW m, NEW t, NEW u, NEW a, NEW r,
         NEW S, NEW q \in Seq(S), q # <<>>,
         InOrder(p, b, k, t, q, a, r), SameAt(t, u, a, r), k \subseteq m,
         Head(q) \notin {ResCall("obsolete", a, r), ResCall("changePolicy", a, r)}
  PROVE  InOrder(p, b, m, u, Tail(q), a, r)
<1> DEFINE v == Tail(q)
           c(do) == ResCall(do, a, r)
<1>1. \A d : In(v, d) => In(q, d)
  BY InTail
<1>2. /\ NoneAfter(v, c("deleteEntry"), c("obsolete"))
      /\ NoneAfter(v, c("writeEntry"), c("changePolicy"))
      /\ Deleted(p, a, r) => Later(v, c("changePolicy"), c("clearData"))
  BY NoneAfterTail, LaterTail DEF InOrder
<1>3. /\ Earlier(q, c("deleteEntry"), c("obsolete")) => Earlier(v, c("deleteEntry"), c("obsolete"))
      /\ Earlier(q, c("writeEntry"), c("changePolicy")) => Earlier(v, c("writeEntry"), c("changePolicy"))
  BY EarlierTail
<1>4. /\ Switched(p, b, k, t, a, r) => Switched(p, b, m, u, a, r)
      /\ Removed(p, b, k, t, a, r) => Removed(p, b, m, u, a, r)
  BY ResumableSame, SameSelf
<1>5. u.rct[a][r] = t.rct[a][r]
  BY DEF SameAt
<1>6. /\ In(q, c("obsolete")) => ~Fresh(p, a) /\ t.rct[a][r] = b.rct[a][r] /\ b.rct[a][r] # "none"
      /\ In(q, c("changePolicy")) =>
           ~Fresh(p, a) /\ t.rct[a][r] = b.rct[a][r] /\ Moves(b.rct[a][r], p.rct[a][r])
      /\ In(q, c("deleteEntry")) /\ ~Fresh(p, a) =>
           Removed(p, b, k, t, a, r) \/ Earlier(q, c("deleteEntry"), c("obsolete"))
      /\ In(q, c("writeEntry")) /\ ~Fresh(p, a) =>
           Switched(p, b, k, t, a, r) \/ Earlier(q, c("writeEntry"), c("changePolicy"))
  BY DEF InOrder
<1> HIDE DEF v, c
<1>7. InOrder(p, b, m, u, v, a, r)
  BY <1>1, <1>2, <1>3, <1>4, <1>5, <1>6 DEF InOrder, c
<1> QED
  BY <1>7 DEF v

\* The calls that a resource still needs.
Needed(a, r) ==
  {AreaCall("folder", a), WrongCall}
    \cup {ResCall(do, a, r) : do \in {"deleteEntry", "writeEntry", "obsolete", "clearData"}}
    \cup {Call("default", a, r, kind) : kind \in Kinds}

LEMMA RemainsSame ==
  ASSUME NEW p, NEW b, NEW k, NEW m, NEW t, NEW u, NEW a, NEW r, NEW q, NEW v,
         \A c \in Needed(a, r) : In(q, c) => In(v, c),
         k \subseteq m, SameAt(t, u, a, r), Remains(p, b, k, t, q, a, r)
  PROVE  Remains(p, b, m, u, v, a, r)
<1>1. /\ AreaCall("folder", a) \in Needed(a, r) /\ WrongCall \in Needed(a, r)
      /\ \A do \in {"deleteEntry", "writeEntry", "obsolete", "clearData"} :
           ResCall(do, a, r) \in Needed(a, r)
      /\ \A e \in DefaultsOf(a, r) : Call("default", a, r, e[1]) \in Needed(a, r)
  BY DEF Needed, DefaultsOf, Defaults
<1>2. \A e \in DefaultsOf(a, r) :
        /\ In(q, Call("default", a, r, e[1])) => In(v, Call("default", a, r, e[1]))
        /\ DefaultDone(p, b, k, t, e) => DefaultDone(p, b, m, u, e)
  BY <1>1, BroughtSame
<1>3. \A do \in {"deleteEntry", "writeEntry", "obsolete", "clearData"} :
        In(q, ResCall(do, a, r)) => In(v, ResCall(do, a, r))
  BY <1>1
<1>4. /\ In(q, AreaCall("folder", a)) => In(v, AreaCall("folder", a))
      /\ In(q, WrongCall) => In(v, WrongCall)
  BY <1>1
<1>5. /\ TableDone(p, t, a, r) => TableDone(p, u, a, r)
      /\ DataDone(p, k, t, a, r) => DataDone(p, m, u, a, r)
  BY DoneSame, BroughtSame
<1> QED
  BY <1>2, <1>3, <1>4, <1>5 DEF Remains

LEMMA NoResourcesTail ==
  ASSUME NEW S, NEW q \in Seq(S), q # <<>>, NEW a, NoResources(q, a)
  PROVE  NoResources(Tail(q), a) /\ (Head(q).area = a => Head(q).do \notin OnResource)
<1> DEFINE v == Tail(q)
           n == Len(q)
<1>1. /\ n \in Nat /\ n > 0 /\ Head(q) = q[1] /\ Len(v) = n - 1
      /\ \A i \in 1..(n - 1) : v[i] = q[i + 1]
  BY TailParts
<1>2. \A i \in 1..n : q[i].area = a => q[i].do \notin OnResource
  BY DEF NoResources
<1> HIDE DEF v, n
<1>3. ASSUME NEW i \in 1..Len(v), v[i].area = a PROVE v[i].do \notin OnResource
  <2>1. i + 1 \in 1..n /\ i \in 1..(n - 1)
    BY <1>1
  <2> QED
    BY <1>1, <1>2, <1>3, <2>1
<1>4. 1 \in 1..n
  BY <1>1
<1> QED
  BY <1>1, <1>2, <1>3, <1>4 DEF NoResources, v

LEMMA HostedTail ==
  ASSUME NEW t, NEW u, NEW a, NEW S, NEW q \in Seq(S), q # <<>>, Hosted(t, q, a),
         a \in t.there => a \in u.there, Head(q) # WrongCall,
         Head(q) = AreaCall("getContext", a) => a \in u.there
  PROVE  Hosted(u, Tail(q), a)
<1>1. CASE a \in u.there
  BY <1>1 DEF Hosted
<1>2. CASE a \notin u.there
  <2> DEFINE c == AreaCall("getContext", a)
             e == AreaCall("folder", a)
  <2>1. /\ Earlier(q, e, c) /\ NoResources(q, a) /\ (In(q, c) \/ In(q, WrongCall)) /\ Head(q) # c
    BY <1>2 DEF Hosted
  <2> HIDE DEF c, e
  <2>2. /\ Earlier(Tail(q), e, c) /\ NoResources(Tail(q), a)
        /\ In(Tail(q), c) \/ In(Tail(q), WrongCall)
    BY <2>1, EarlierTail, NoResourcesTail, InTail
  <2> QED
    BY <2>2 DEF Hosted, c, e
<1> QED
  BY <1>1, <1>2

LEMMA AnewTail ==
  ASSUME NEW p, NEW b, NEW t, NEW u, NEW a, NEW S, NEW q \in Seq(S), q # <<>>,
         Anew(p, b, t, q, a), \A r \in Resources : SameAt(t, u, a, r),
         Head(q) # WrongCall, Head(q) # AreaCall("removeData", a)
  PROVE  Anew(p, b, u, Tail(q), a)
<1>1. CASE \A r \in Resources : Cleaned(p, b, t, a, r)
  BY <1>1, DoneSame DEF Anew
<1>2. CASE ~(\A r \in Resources : Cleaned(p, b, t, a, r))
  <2> DEFINE c == AreaCall("removeData", a)
             e == AreaCall("folder", a)
  <2>1. /\ Earlier(q, e, c) /\ NoResources(q, a) /\ (In(q, c) \/ In(q, WrongCall)) /\ Head(q) # c
    BY <1>2 DEF Anew
  <2> HIDE DEF c, e
  <2>2. /\ Earlier(Tail(q), e, c) /\ NoResources(Tail(q), a)
        /\ In(Tail(q), c) \/ In(Tail(q), WrongCall)
    BY <2>1, EarlierTail, NoResourcesTail, InTail
  <2> QED
    BY <2>2 DEF Anew, c, e
<1> QED
  BY <1>1, <1>2

LEMMA MadeAgainTail ==
  ASSUME NEW a, NEW S, NEW q \in Seq(S), q # <<>>, MadeAgain(q, a)
  PROVE  MadeAgain(Tail(q), a)
BY LaterTail, FollowsTail DEF MadeAgain

LEMMA NeededParts ==
  ASSUME NEW a, NEW r, NEW c \in Needed(a, r)
  PROVE  \/ c.do = "wrong"
         \/ c.area = a /\ c.do \notin {"removeData", "getContext", "members", "linkPublic"}
BY AreaCallParts, ResCallParts, CallParts DEF Needed, WrongCall

\* A call that leaves the resources of an area alone.
LEMMA AttemptElsewhere ==
  ASSUME NEW p, NEW b, NEW k, NEW m, NEW t, NEW u, NEW a, NEW S, NEW q \in Seq(S), q # <<>>,
         AttemptAt(p, b, k, t, q, a), k \subseteq m,
         \A r \in Resources : SameAt(t, u, a, r), a \in t.there => a \in u.there,
         Head(q).do # "wrong",
         \/ Head(q).area # a
         \/ Head(q).do \in {"members", "linkPublic"}
         \/ Head(q).do = "getContext" /\ a \in u.there
  PROVE  AttemptAt(p, b, m, u, Tail(q), a)
<1> DEFINE v == Tail(q)
<1>1. Head(q) # WrongCall
  BY AreaCallParts DEF WrongCall
<1>2. Head(q) # AreaCall("removeData", a) /\ (Head(q) = AreaCall("getContext", a) => a \in u.there)
  BY AreaCallParts
<1>3. \A r \in Resources : \A do \in OnResource : Head(q) # ResCall(do, a, r)
  BY ResCallParts DEF OnResource
<1>4. \A r \in Resources : \A c \in Needed(a, r) : In(q, c) => In(v, c)
  <2> TAKE r \in Resources
  <2> TAKE c \in Needed(a, r)
  <2>1. Head(q) # c
    BY NeededParts
  <2> QED
    BY <2>1, InTail
<1>5. Fresh(p, a) => Anew(p, b, u, v, a)
  BY <1>1, <1>2, AnewTail DEF AttemptAt
<1>6. ASSUME a \in WithTable(p) PROVE Hosted(u, v, a) /\ MadeAgain(v, a)
  BY <1>1, <1>2, <1>6, HostedTail, MadeAgainTail DEF AttemptAt
<1>7. ASSUME a \in WithTable(p), NEW r \in Resources PROVE InOrder(p, b, m, u, v, a, r)
  <2>1. InOrder(p, b, k, t, q, a, r) /\ SameAt(t, u, a, r)
    BY <1>7 DEF AttemptAt
  <2>2. Head(q) \notin {ResCall("obsolete", a, r), ResCall("changePolicy", a, r)}
    BY <1>3 DEF OnResource
  <2> QED
    BY <2>1, <2>2, InOrderSame
<1>8. ASSUME a \in WithTable(p), NEW r \in Resources PROVE Remains(p, b, m, u, v, a, r)
  <2>1. Remains(p, b, k, t, q, a, r) /\ SameAt(t, u, a, r)
    BY <1>8 DEF AttemptAt
  <2> QED
    BY <1>4, <2>1, RemainsSame
<1> QED
  BY <1>5, <1>6, <1>7, <1>8 DEF AttemptAt

-----------------------------------------------------------------------------
(* The rules: what is done to a resource is what they say.                   *)

LEMMA RuleTable ==
  ASSUME NEW x \in DOMAIN LookUpRules
  PROVE  LET e == LookUpRules[x] IN
         /\ e.type = CASE x \in {"Uninstall", "UninstallNonDefault"} -> "delete"
                       [] x \in {"DontTouch", "UpdateSetOfResources"} -> "dontTouch"
                       [] OTHER -> "update"
         /\ e.exceptions = CASE x \in {"NewInstall", "Uninstall", "DontTouch"} -> {}
                             [] x = "UpdateSetOfResources" -> {"update", "delete"}
                             [] OTHER -> {"dontTouch"}
         /\ "normal" \in e.affects <=>
              x \notin {"DontTouch", "UpdateDefaultFactory", "UpdateDefaultConfig", "UpdateDefaultAll"}
         /\ "factory" \in e.affects <=>
              x \in {"NewInstall", "Uninstall", "UpdateAll", "UpdateAllSkipDefaultConfig",
                     "UpdateDefaultFactory", "UpdateDefaultAll", "UpdateSetOfResources"}
         /\ "configurable" \in e.affects <=>
              x \in {"NewInstall", "Uninstall", "UpdateAll", "UpdateAllSkipDefaultFactory",
                     "UpdateDefaultConfig", "UpdateDefaultAll", "UpdateSetOfResources"}
<1> DEFINE one == {"dontTouch"}
           e == LookUpRules[x]
<1>1. \A type, affects, exceptions :
        LET y == Entry(type, affects, exceptions) IN
        y.type = type /\ y.affects = affects /\ y.exceptions = exceptions
  BY DEF Entry
<1>2. x = "NewInstall" => e = Entry("update", {"factory", "configurable", "normal"}, {})
  BY DEF LookUpRules
<1>3. x = "Uninstall" => e = Entry("delete", {"factory", "configurable", "normal"}, {})
  BY DEF LookUpRules
<1>4. x = "DontTouch" => e = Entry("dontTouch", {}, {})
  BY DEF LookUpRules
<1>5. x = "UpdateAll" => e = Entry("update", {"factory", "configurable", "normal"}, one)
  BY DEF LookUpRules
<1>6. x = "UpdateAllSkipDefaultFactory" => e = Entry("update", {"configurable", "normal"}, one)
  BY DEF LookUpRules
<1>7. x = "UpdateAllSkipDefaultConfig" => e = Entry("update", {"factory", "normal"}, one)
  BY DEF LookUpRules
<1>8. x = "UpdateAllSkipDefaultAll" => e = Entry("update", {"normal"}, one)
  BY DEF LookUpRules
<1>9. x = "UpdateDefaultFactory" => e = Entry("update", {"factory"}, one)
  BY DEF LookUpRules
<1>10. x = "UpdateDefaultConfig" => e = Entry("update", {"configurable"}, one)
  BY DEF LookUpRules
<1>11. x = "UpdateDefaultAll" => e = Entry("update", {"factory", "configurable"}, one)
  BY DEF LookUpRules
<1>12. x = "UpdateSetOfResources" => e = Entry("dontTouch", {"factory", "configurable", "normal"}, {"update", "delete"})
  BY DEF LookUpRules
<1>13. x = "UninstallNonDefault" => e = Entry("delete", {"normal"}, one)
  BY DEF LookUpRules
<1>14. x \in {"NewInstall", "Uninstall", "DontTouch",
          "UpdateAll", "UpdateAllSkipDefaultFactory", "UpdateAllSkipDefaultConfig",
          "UpdateAllSkipDefaultAll", "UpdateDefaultFactory", "UpdateDefaultConfig",
          "UpdateDefaultAll", "UpdateSetOfResources", "UninstallNonDefault"}
  BY DEF LookUpRules
<1> HIDE DEF e
<1> QED
  BY <1>1, <1>2, <1>3, <1>4, <1>5, <1>6, <1>7, <1>8, <1>9, <1>10, <1>11, <1>12, <1>13, <1>14 DEF e

LEMMA RuleMeans ==
  ASSUME NEW p \in Packages, NEW a \in Area, NEW r \in Resources, NEW kind \in Kinds
  PROVE  LET affects == LookUpRules[Rule(p, a)].affects
             needed == ConfigurationNeeded(p, a, r)
         IN /\ needed \in {"update", "delete", "dontTouch"}
            /\ kind \in affects /\ needed = "update" <=> Updated(p, a, r, kind)
            /\ Deleted(p, a, r) => "normal" \in affects /\ needed = "delete"
            /\ "normal" \in affects /\ needed = "delete" /\ ~Fresh(p, a) => Deleted(p, a, r)
            /\ kind \in affects /\ needed = "delete" =>
                 IF Rule(p, a) = "UpdateSetOfResources" THEN Deleted(p, a, r) ELSE Fresh(p, a)
            /\ kind \notin affects \/ needed # "delete" =>
                 ~(Deleted(p, a, r) /\ Rule(p, a) = "UpdateSetOfResources")
            /\ Rule(p, a) = "UpdateSetOfResources" => ~Fresh(p, a)
<1> DEFINE x == Rule(p, a)
           e == LookUpRules[x]
           exc == p.exc[a][r]
           said == ToException(exc)
           needed == ConfigurationNeeded(p, a, r)
           names == {"NewInstall", "Uninstall", "DontTouch", "UpdateAll",
                     "UpdateAllSkipDefaultFactory", "UpdateAllSkipDefaultConfig",
                     "UpdateAllSkipDefaultAll", "UpdateDefaultFactory", "UpdateDefaultConfig",
                     "UpdateDefaultAll", "UpdateSetOfResources", "UninstallNonDefault"}
<1>1. x \in DOMAIN LookUpRules
  BY RuleType
<1>2. x \in names
  BY <1>1 DEF LookUpRules
<1>3. /\ e.type = CASE x \in {"Uninstall", "UninstallNonDefault"} -> "delete"
                    [] x \in {"DontTouch", "UpdateSetOfResources"} -> "dontTouch"
                    [] OTHER -> "update"
      /\ e.exceptions = CASE x \in {"NewInstall", "Uninstall", "DontTouch"} -> {}
                          [] x = "UpdateSetOfResources" -> {"update", "delete"}
                          [] OTHER -> {"dontTouch"}
      /\ "normal" \in e.affects <=>
           x \notin {"DontTouch", "UpdateDefaultFactory", "UpdateDefaultConfig", "UpdateDefaultAll"}
      /\ "factory" \in e.affects <=>
           x \in {"NewInstall", "Uninstall", "UpdateAll", "UpdateAllSkipDefaultConfig",
                  "UpdateDefaultFactory", "UpdateDefaultAll", "UpdateSetOfResources"}
      /\ "configurable" \in e.affects <=>
           x \in {"NewInstall", "Uninstall", "UpdateAll", "UpdateAllSkipDefaultFactory",
                  "UpdateDefaultConfig", "UpdateDefaultAll", "UpdateSetOfResources"}
  BY <1>1, RuleTable
<1>4. /\ said \in {"update", "dontTouch", "delete"}
      /\ said = "delete" <=> exc = "delete"
  BY DEF ToException
<1>5. needed = IF exc = "none" THEN e.type ELSE IF said \in e.exceptions THEN said ELSE "dontTouch"
  BY DEF ConfigurationNeeded
<1>6. /\ Fresh(p, a) <=> x \in {"NewInstall", "Uninstall"}
      /\ Deleted(p, a, r) <=> CASE x = "UpdateSetOfResources" -> exc = "delete"
                                [] x = "UninstallNonDefault" -> exc = "none"
                                [] OTHER -> FALSE
      /\ Updated(p, a, r, kind) <=> IF x = "UpdateSetOfResources" THEN exc # "none" /\ said = "update"
                                    ELSE kind \in Brings(p, a) /\ exc = "none"
      /\ Brings(p, a) = CASE x \in {"NewInstall", "UpdateAll", "UpdateDefaultAll"} -> Kinds
                          [] x \in {"UpdateAllSkipDefaultConfig", "UpdateDefaultFactory"} -> {"factory"}
                          [] x \in {"UpdateAllSkipDefaultFactory", "UpdateDefaultConfig"} -> {"configurable"}
                          [] OTHER -> {}
  BY DEF Fresh, Deleted, Updated, Brings
<1> HIDE DEF x, e, exc, said, needed
<1>7. kind \in {"factory", "configurable"}
  BY DEF Kinds
<1>8. /\ needed \in {"update", "delete", "dontTouch"}
      /\ x = "UpdateSetOfResources" => ~Fresh(p, a)
  BY <1>2, <1>3, <1>4, <1>5, <1>6
<1>9. kind \in e.affects /\ needed = "update" <=> Updated(p, a, r, kind)
  BY <1>2, <1>3, <1>4, <1>5, <1>6, <1>7 DEF Kinds
<1>10. /\ Deleted(p, a, r) => "normal" \in e.affects /\ needed = "delete"
       /\ "normal" \in e.affects /\ needed = "delete" /\ ~Fresh(p, a) => Deleted(p, a, r)
  BY <1>2, <1>3, <1>4, <1>5, <1>6
<1>11. kind \in e.affects /\ needed = "delete" =>
         IF x = "UpdateSetOfResources" THEN Deleted(p, a, r) ELSE Fresh(p, a)
  BY <1>2, <1>3, <1>4, <1>5, <1>6, <1>7
<1>12. kind \notin e.affects \/ needed # "delete" => ~(Deleted(p, a, r) /\ x = "UpdateSetOfResources")
  BY <1>2, <1>3, <1>4, <1>5, <1>6, <1>7
<1> QED
  BY <1>8, <1>9, <1>10, <1>11, <1>12 DEF x, e, needed

LEMMA AttemptRemoved ==
  ASSUME NEW p, NEW b, NEW k, NEW t, NEW u, NEW a, NEW S, NEW q \in Seq(S), q # <<>>,
         AttemptAt(p, b, k, t, q, a), ResourcesFirst(q), Head(q) = AreaCall("removeData", a),
         \A r \in Resources : EmptyAt(u, a, r)
  PROVE  AttemptAt(p, b, k, u, Tail(q), a)
<1> DEFINE v == Tail(q)
<1>1. \A r \in Resources : Cleaned(p, b, u, a, r)
  BY DEF EmptyAt, Cleaned
<1>2. \A i \in 1..Len(v) : v[i].do \notin OnResource
  <2>1. Head(q).do \notin OnResource
    BY AreaCallParts DEF OnResource
  <2> QED
    BY <2>1, FirstResources
<1>3. v \in Seq(S) /\ Len(v) \in Nat
  BY TailParts
<1>4. NoResources(v, a) /\ \A r : InOrder(p, b, k, u, v, a, r)
  BY <1>2, <1>3, NoCalls
<1>5. ASSUME a \in WithTable(p)
      PROVE  Hosted(u, v, a) /\ MadeAgain(v, a) /\ \A r \in Resources : Remains(p, b, k, u, v, a, r)
  <2> DEFINE c == AreaCall("getContext", a)
             e == AreaCall("folder", a)
  <2>1. MadeAgain(q, a)
    BY <1>5 DEF AttemptAt
  <2>2. MadeAgain(v, a) /\ v # <<>> /\ Head(v) = c /\ In(v, e)
    BY <2>1, MadeAgainTail, FollowsTail, LaterTail DEF MadeAgain
  <2>3. c # e
    BY DifferentCalls
  <2> HIDE DEF v, c, e
  <2>4. Len(v) > 0 /\ Head(v) = v[1]
    BY <1>3, <2>2, TailParts
  <2>5. In(v, c)
    BY <1>3, <2>2, InTail
  <2>6. Earlier(v, e, c)
    <3> SUFFICES ASSUME NEW i \in 1..Len(v), v[i] = e PROVE \E j \in 1..(i - 1) : v[j] = c
      BY DEF Earlier
    <3>1. i # 1
      BY <2>2, <2>3, <2>4
    <3>2. 1 \in 1..(i - 1)
      BY <1>3, <3>1
    <3> QED
      BY <2>2, <2>4, <3>2
  <2> QED
    BY <1>4, <2>2, <2>5, <2>6 DEF Hosted, Remains, c, e
<1> QED
  BY <1>1, <1>4, <1>5 DEF AttemptAt, Anew

-----------------------------------------------------------------------------
(* The calls of a folder take the place of the call to configure it.         *)

LEMMA AbsentInOrder ==
  ASSUME NEW p, NEW b, NEW k, NEW t, NEW q, NEW a, NEW r,
         \A do \in OnResource : ~In(q, ResCall(do, a, r))
  PROVE  InOrder(p, b, k, t, q, a, r)
<1>1. /\ ~In(q, ResCall("obsolete", a, r)) /\ ~In(q, ResCall("changePolicy", a, r))
      /\ ~In(q, ResCall("deleteEntry", a, r)) /\ ~In(q, ResCall("writeEntry", a, r))
  BY DEF OnResource
<1> QED
  BY <1>1, AbsentOrder DEF InOrder

LEMMA FirstConcat ==
  ASSUME NEW S, NEW x \in Seq(S), NEW y \in Seq(S),
         \A i \in 1..Len(x) : x[i].do \in OnResource,
         \A i \in 1..Len(y) : y[i].do \notin OnResource
  PROVE  ResourcesFirst(x \o y)
<1> DEFINE w == x \o y
<1>1. \A i \in 1..Len(w) : \/ i \in 1..Len(x) /\ w[i] = x[i]
                           \/ i - Len(x) \in 1..Len(y) /\ w[i] = y[i - Len(x)]
  BY ElementOf
<1>2. Len(x) \in Nat /\ Len(w) \in Nat
  BY ConcatType, LenType
<1> HIDE DEF w
<1>3. ASSUME NEW j \in 1..Len(w), w[j].do \in OnResource, NEW i \in 1..(j - 1)
      PROVE  w[i].do \in OnResource
  <2>1. j \in 1..Len(x)
    BY <1>1, <1>3
  <2>2. i \in 1..Len(x) /\ i \in 1..Len(w) /\ ~(i - Len(x) \in 1..Len(y))
    BY <1>2, <2>1
  <2> QED
    BY <1>1, <2>2
<1> QED
  BY <1>3 DEF ResourcesFirst, w

\* Calls on the resources of another area come first.
LEMMA AttemptAfter ==
  ASSUME NEW p, NEW b, NEW k, NEW t, NEW e, NEW S, NEW f \in Seq(S), NEW v \in Seq(S),
         \A i \in 1..Len(f) : f[i].area # e /\ f[i].do \in OnResource,
         \A i \in 1..Len(v) : v[i].do \notin OnResource,
         AttemptAt(p, b, k, t, v, e)
  PROVE  AttemptAt(p, b, k, t, f \o v, e)
<1> DEFINE w == f \o v
           fold == AreaCall("folder", e)
<1>1. \A c : In(w, c) <=> (In(f, c) \/ In(v, c))
  BY InConcat
<1>2. \A c : In(f, c) => c.area # e /\ c.do \in OnResource
  BY DEF In
<1>3. \A c : In(v, c) => c.do \notin OnResource
  BY DEF In
<1>4. \A do : ~In(f, AreaCall(do, e))
  BY <1>2, AreaCallParts
<1>5. \A c, d : ~In(f, c) /\ Earlier(v, c, d) => Earlier(w, c, d)
  BY AbsentOrder, EarlierConcat
<1>6. NoResources(w, e)
  <2>1. \A i \in 1..Len(w) : In(w, w[i])
    BY DEF In
  <2> QED
    BY <1>1, <1>2, <1>3, <2>1 DEF NoResources
<1>7. ASSUME e \in WithTable(p) PROVE MadeAgain(w, e)
  <2>1. MadeAgain(v, e)
    BY <1>7 DEF AttemptAt
  <2> QED
    BY <1>4, <2>1, AbsentOrder, LaterConcat, FollowsConcat DEF MadeAgain
<1>8. ASSUME NEW r PROVE InOrder(p, b, k, t, w, e, r)
  <2>1. \A do \in OnResource : ~In(w, ResCall(do, e, r))
    BY <1>1, <1>2, <1>3, ResCallParts
  <2> QED
    BY <2>1, AbsentInOrder
<1>9. ASSUME NEW r, Remains(p, b, k, t, v, e, r) PROVE Remains(p, b, k, t, w, e, r)
  <2>1. \A c \in Needed(e, r) : In(v, c) => In(w, c)
    BY <1>1
  <2> HIDE DEF w
  <2> QED
    BY <1>9, <2>1, SameSelf, RemainsSame
<1> HIDE DEF w
<1>10. ASSUME Fresh(p, e) PROVE Anew(p, b, t, w, e)
  BY <1>1, <1>4, <1>5, <1>6, <1>10 DEF AttemptAt, Anew
<1>11. ASSUME e \in WithTable(p) PROVE Hosted(t, w, e)
  BY <1>1, <1>4, <1>5, <1>6, <1>11 DEF AttemptAt, Hosted
<1>12. AttemptAt(p, b, k, t, w, e)
  BY <1>7, <1>8, <1>9, <1>10, <1>11 DEF AttemptAt
<1> QED
  BY <1>12 DEF w

\* What a default is when no call sets it.
LEMMA NotDue ==
  ASSUME NEW p \in Packages, NEW b, NEW a \in Area, NEW r \in Resources, NEW e \in DefaultsOf(a, r),
         p.rct[a][r] # "none", r \notin Due(p, a, e[1])
  PROVE  ExpectedDefault(p, b, e) = IF Fresh(p, a) THEN Absent ELSE b.def[e]
<1>1. e[3] = a /\ e[4] = r /\ e[1] \in Kinds
  BY DEF DefaultsOf, Defaults
<1>2. \/ e[1] \notin LookUpRules[Rule(p, a)].affects
      \/ ConfigurationNeeded(p, a, r) = "dontTouch"
  BY DEF Due, DefaultsDue
<1>3. ~Updated(p, a, r, e[1]) /\ ~(Deleted(p, a, r) /\ Rule(p, a) = "UpdateSetOfResources")
  BY <1>1, <1>2, RuleMeans
<1> QED
  BY <1>1, <1>3 DEF ExpectedDefault

\* A resource the package does not have, which is not in the table any more.
LEMMA NoneLeft ==
  ASSUME NEW p, NEW b, NEW k, NEW t, NEW a, NEW r, NEW e \in DefaultsOf(a, r), p.rct[a][r] = "none"
  PROVE  /\ ExpectedDefault(p, b, e) \in {Absent, IF Fresh(p, a) THEN Absent ELSE b.def[e]}
         /\ /\ Removed(p, b, k, t, a, r) /\ ~Fresh(p, a)
            /\ t.def[e] \in {b.def[e], ExpectedDefault(p, b, e)}
            => DefaultDone(p, b, k, t, e)
<1>1. e[3] = a /\ e[4] = r
  BY DEF DefaultsOf
<1> DEFINE gone == b.rct[a][r] \notin {"none", "custom"} /\ Form(b.rct[a][r]) = e[2]
<1>2. ExpectedDefault(p, b, e) = IF gone \/ Fresh(p, a) THEN Absent ELSE b.def[e]
  BY <1>1 DEF ExpectedDefault
<1>3. Removed(p, b, k, t, a, r) /\ gone => e \in k \/ t.def[e] = Absent
  BY DEF Removed
<1> HIDE DEF gone
<1> QED
  BY <1>2, <1>3 DEF DefaultDone

LEMMA InFolder ==
  ASSUME NEW p, NEW a \in WithTable(p), NEW r
  PROVE  LET f == FolderPlan(p, a) IN
         /\ In(f, ResCall("obsolete", a, r)) <=> r \in Obsolete(p, a)
         /\ In(f, ResCall("changePolicy", a, r)) <=> r \in PolicyChange(p, a)
         /\ In(f, ResCall("clearData", a, r)) <=> r \in Cleared(p, a)
         /\ In(f, ResCall("deleteEntry", a, r)) <=> r \in Obsolete(p, a)
         /\ In(f, ResCall("writeEntry", a, r)) <=> r \in Changed(p, a)
         /\ \A kind \in Kinds : r \in Due(p, a, kind) => In(f, Call("default", a, r, kind))
<1> DEFINE f == FolderPlan(p, a)
<1>1. \A c : In(f, c) <=> (InData(p, a, c) \/ InTable(p, a, c))
  BY FolderOrder
<1> HIDE DEF f
<1>2. \A do, s : ResCall(do, a, s).do = do /\ ResCall(do, a, s).res = s
  BY ResCallParts
<1>3. \A s, kind : Call("default", a, s, kind).do = "default"
  BY CallParts
<1>4. ASSUME NEW do \in {"obsolete", "changePolicy", "clearData", "deleteEntry", "writeEntry"}
      PROVE  /\ InData(p, a, ResCall(do, a, r)) <=>
                  \/ do = "obsolete" /\ r \in Obsolete(p, a)
                  \/ do = "changePolicy" /\ r \in PolicyChange(p, a)
                  \/ do = "clearData" /\ r \in Cleared(p, a)
             /\ InTable(p, a, ResCall(do, a, r)) <=>
                  \/ do = "deleteEntry" /\ r \in Obsolete(p, a)
                  \/ do = "writeEntry" /\ r \in Changed(p, a)
  <2> DEFINE c == ResCall(do, a, r)
  <2>1. \A other, s : c = ResCall(other, a, s) <=> do = other /\ r = s
    BY <1>2
  <2>2. \A s, kind : c # Call("default", a, s, kind)
    BY <1>2, <1>3
  <2> HIDE DEF c
  <2>3. InData(p, a, c) <=> \/ do = "obsolete" /\ r \in Obsolete(p, a)
                            \/ do = "changePolicy" /\ r \in PolicyChange(p, a)
                            \/ do = "clearData" /\ r \in Cleared(p, a)
    BY <2>1, <2>2 DEF InData
  <2>4. InTable(p, a, c) <=> \/ do = "deleteEntry" /\ r \in Obsolete(p, a)
                             \/ do = "writeEntry" /\ r \in Changed(p, a)
    BY <2>1 DEF InTable
  <2> QED
    BY <2>3, <2>4 DEF c
<1>5. /\ In(f, ResCall("obsolete", a, r)) <=> r \in Obsolete(p, a)
      /\ In(f, ResCall("changePolicy", a, r)) <=> r \in PolicyChange(p, a)
      /\ In(f, ResCall("clearData", a, r)) <=> r \in Cleared(p, a)
      /\ In(f, ResCall("deleteEntry", a, r)) <=> r \in Obsolete(p, a)
      /\ In(f, ResCall("writeEntry", a, r)) <=> r \in Changed(p, a)
  BY <1>1, <1>4
<1>6. ASSUME NEW kind \in Kinds, r \in Due(p, a, kind) PROVE In(f, Call("default", a, r, kind))
  BY <1>1, <1>6 DEF InData
<1> QED
  BY <1>5, <1>6 DEF f

\* What an earlier attempt left of a resource, and what is made of it now.
LEMMA HereInOrder ==
  ASSUME NEW p \in Packages, NEW b, NEW k, NEW a \in WithTable(p), NEW r \in Resources,
         ~Fresh(p, a) => Resumable(p, b, k, tree, a, r),
         Fresh(p, a) => Cleaned(p, b, tree, a, r),
         NEW S, NEW v \in Seq(S), FolderPlan(p, a) \in Seq(S),
         \A i \in 1..Len(v) : v[i].do \notin OnResource
  PROVE  InOrder(p, b, k, tree, FolderPlan(p, a) \o v, a, r)
<1> DEFINE f == FolderPlan(p, a)
           w == f \o v
           x == tree.rct[a][r]
           c == p.rct[a][r]
           y == b.rct[a][r]
           ob == ResCall("obsolete", a, r)
           mv == ResCall("changePolicy", a, r)
           cl == ResCall("clearData", a, r)
           de == ResCall("deleteEntry", a, r)
           wr == ResCall("writeEntry", a, r)
<1>1. /\ NoneAfter(f, de, ob) /\ NoneAfter(f, wr, mv)
      /\ r \in Obsolete(p, a) => Earlier(f, de, ob)
      /\ r \in PolicyChange(p, a) => Earlier(f, wr, mv)
      /\ r \in Cleared(p, a) => Later(f, mv, cl)
  BY FolderOrder
<1>2. /\ In(f, ob) <=> r \in Obsolete(p, a)
      /\ In(f, mv) <=> r \in PolicyChange(p, a)
      /\ In(f, de) <=> r \in Obsolete(p, a)
      /\ In(f, wr) <=> r \in Changed(p, a)
  BY InFolder
<1>3. ~In(v, ob) /\ ~In(v, mv) /\ ~In(v, cl) /\ ~In(v, de) /\ ~In(v, wr)
  <2>1. \A do \in OnResource : ~In(v, ResCall(do, a, r))
    BY NoCalls
  <2> QED
    BY <2>1 DEF OnResource
<1>4. /\ r \in Obsolete(p, a) <=> x # "none" /\ c = "none"
      /\ r \in Changed(p, a) <=> c # "none" /\ x # c
      /\ r \in PolicyChange(p, a) <=> c # "none" /\ x # c /\ x \in Keyed /\ c \in Keyed
  BY DEF Obsolete, Changed, PolicyChange
<1>5. Fresh(p, a) => x \in {"none", c}
  BY DEF Cleaned
<1>6. ~Fresh(p, a) => x \in {y, c}
  BY DEF Resumable
<1>7. Deleted(p, a, r) /\ c # "none" => r \in Cleared(p, a)
  <2>1. a \in Area /\ "factory" \in Kinds
    BY DEF WithTable, Configured, Kinds
  <2>2. Deleted(p, a, r) => /\ "normal" \in LookUpRules[Rule(p, a)].affects
                            /\ ConfigurationNeeded(p, a, r) = "delete"
    BY <2>1, RuleMeans
  <2> QED
    BY <2>2 DEF Cleared, DataDue
<1>8. ~Fresh(p, a) => \/ ~Moves(y, c)
                      \/ x = y
                      \/ x = c /\ Switched(p, b, k, tree, a, r)
  BY <1>6 DEF Resumable
<1>9. Keyed = {"cached", "wt", "na"}
  BY DEF Keyed
<1>10. ~Moves(y, c) => Switched(p, b, k, tree, a, r)
  BY DEF Switched
<1>11. f \in Seq(S) /\ Len(v) \in Nat
  BY LenType
<1> HIDE DEF f, w, x, c, y, ob, mv, cl, de, wr
<1>12. /\ \A d \in {ob, mv, de, wr} : In(w, d) <=> In(f, d)
       /\ \A d, e : Earlier(f, d, e) /\ ~In(v, d) => Earlier(w, d, e)
       /\ \A d, e : Later(f, d, e) /\ ~In(v, d) => Later(w, d, e)
       /\ \A d, e : NoneAfter(f, d, e) /\ ~In(v, d) /\ ~In(v, e) => NoneAfter(w, d, e)
  BY <1>3, <1>11, InConcat, AbsentOrder, EarlierConcat, LaterConcat, NoneAfterConcat DEF w
<1>13. NoneAfter(w, de, ob) /\ NoneAfter(w, wr, mv)
  BY <1>1, <1>3, <1>12
<1>14. Deleted(p, a, r) => Later(w, mv, cl)
  <2>1. CASE In(f, mv)
    BY <1>1, <1>2, <1>3, <1>4, <1>7, <1>12, <2>1
  <2>2. CASE ~In(f, mv)
    BY <1>3, <1>12, <2>2, AbsentOrder
  <2> QED
    BY <2>1, <2>2
<1>15. In(w, ob) => ~Fresh(p, a) /\ x = y /\ y # "none"
  BY <1>2, <1>4, <1>5, <1>6, <1>12
<1>16. In(w, mv) => ~Fresh(p, a) /\ x = y /\ Moves(y, c)
  BY <1>2, <1>4, <1>5, <1>6, <1>9, <1>12 DEF Moves
<1>17. In(w, de) => Earlier(w, de, ob)
  BY <1>1, <1>2, <1>3, <1>12
<1>18. In(w, wr) /\ ~Fresh(p, a) => Switched(p, b, k, tree, a, r) \/ Earlier(w, wr, mv)
  <2>1. CASE Moves(y, c) /\ x = y
    BY <1>1, <1>2, <1>3, <1>4, <1>12, <2>1 DEF Moves
  <2> QED
    BY <1>8, <1>10, <2>1
<1>19. InOrder(p, b, k, tree, w, a, r)
  BY <1>13, <1>14, <1>15, <1>16, <1>17, <1>18 DEF InOrder, ob, mv, cl, de, wr, x, y, c
<1> QED
  BY <1>19 DEF w, f

LEMMA HereRemains ==
  ASSUME NEW p \in Packages, NEW b, NEW k, NEW a \in WithTable(p), NEW r \in Resources,
         ~Fresh(p, a) => Resumable(p, b, k, tree, a, r),
         Fresh(p, a) => Cleaned(p, b, tree, a, r),
         NEW w, \A d : In(FolderPlan(p, a), d) => In(w, d)
  PROVE  Remains(p, b, k, tree, w, a, r)
<1> DEFINE f == FolderPlan(p, a)
           x == tree.rct[a][r]
           c == p.rct[a][r]
           y == b.rct[a][r]
<1>1. /\ r \in Obsolete(p, a) =>
           In(w, ResCall("obsolete", a, r)) /\ In(w, ResCall("deleteEntry", a, r))
      /\ r \in Changed(p, a) => In(w, ResCall("writeEntry", a, r))
      /\ r \in Cleared(p, a) => In(w, ResCall("clearData", a, r))
      /\ \A kind \in Kinds : r \in Due(p, a, kind) => In(w, Call("default", a, r, kind))
  BY InFolder
<1>2. /\ r \in Obsolete(p, a) <=> x # "none" /\ c = "none"
      /\ r \in Changed(p, a) <=> c # "none" /\ x # c
  BY DEF Obsolete, Changed
<1>3. a \in Area /\ "factory" \in Kinds
  BY DEF WithTable, Configured, Kinds
<1>4. Deleted(p, a, r) /\ c # "none" => r \in Cleared(p, a)
  <2>1. Deleted(p, a, r) => /\ "normal" \in LookUpRules[Rule(p, a)].affects
                            /\ ConfigurationNeeded(p, a, r) = "delete"
    BY <1>3, RuleMeans
  <2> QED
    BY <2>1 DEF Cleared, DataDue
<1>5. \/ TableDone(p, tree, a, r)
      \/ In(w, ResCall("deleteEntry", a, r)) \/ In(w, ResCall("writeEntry", a, r))
  BY <1>1, <1>2 DEF TableDone
<1>6. DataDone(p, k, tree, a, r) \/ In(w, ResCall("clearData", a, r))
  BY <1>1, <1>4 DEF DataDone, Stores
<1>7. ASSUME NEW e \in DefaultsOf(a, r)
      PROVE  \/ DefaultDone(p, b, k, tree, e)
             \/ In(w, Call("default", a, r, e[1])) \/ In(w, ResCall("obsolete", a, r))
  <2> DEFINE ex == ExpectedDefault(p, b, e)
             old == IF Fresh(p, a) THEN Absent ELSE b.def[e]
  <2>1. e[1] \in Kinds
    BY DEF DefaultsOf, Defaults
  <2>2. tree.def[e] \in {old, ex}
    BY DEF Resumable, Cleaned
  <2>3. c # "none" /\ r \notin Due(p, a, e[1]) => ex = old
    BY <1>3, NotDue
  <2>4. /\ c = "none" => ex \in {Absent, old}
        /\ c = "none" /\ ~Fresh(p, a) /\ Removed(p, b, k, tree, a, r) => DefaultDone(p, b, k, tree, e)
    <3>1. ~Fresh(p, a) => tree.def[e] \in {b.def[e], ex}
      BY DEF Resumable
    <3> QED
      BY <3>1, NoneLeft
  <2>5. ~Fresh(p, a) /\ x = c => Removed(p, b, k, tree, a, r)
    BY DEF Resumable
  <2> HIDE DEF ex, x, c, y
  <2>6. c = "none" /\ x = "none" => DefaultDone(p, b, k, tree, e)
    <3>1. CASE Fresh(p, a)
      BY <2>2, <2>4, <3>1 DEF DefaultDone, ex, old
    <3>2. CASE ~Fresh(p, a)
      BY <2>4, <2>5, <3>2
    <3> QED
      BY <3>1, <3>2
  <2> HIDE DEF old
  <2>7. tree.def[e] = ex \/ DefaultDone(p, b, k, tree, e) \/ r \in Obsolete(p, a) \/ r \in Due(p, a, e[1])
    BY <1>2, <2>2, <2>3, <2>6
  <2> QED
    BY <1>1, <2>1, <2>7 DEF DefaultDone, ex
<1> QED
  BY <1>5, <1>6, <1>7 DEF Remains

LEMMA FolderHere ==
  ASSUME NEW p \in Packages, NEW b, NEW k, NEW a \in WithTable(p),
         NEW S, NEW q \in Seq(S), q # <<>>, FolderPlan(p, a) \in Seq(S),
         Head(q) = AreaCall("folder", a), ResourcesFirst(q), AttemptAt(p, b, k, tree, q, a),
         \A r \in Resources : ~Fresh(p, a) => Resumable(p, b, k, tree, a, r)
  PROVE  AttemptAt(p, b, k, tree, FolderPlan(p, a) \o Tail(q), a)
<1> DEFINE f == FolderPlan(p, a)
           v == Tail(q)
           w == f \o v
           fold == AreaCall("folder", a)
<1>1. v \in Seq(S) /\ \A i \in 1..Len(v) : v[i].do \notin OnResource
  <2>1. Head(q).do \notin OnResource
    BY AreaCallParts DEF OnResource
  <2> QED
    BY <2>1, FirstResources, TailParts
<1>2. \A d : In(f, d) => d.do \in OnResource
  <2> TAKE d
  <2> HAVE In(f, d)
  <2>1. d \in FitsIn(p, a)
    <3>1. f \in Seq(FitsIn(p, a))
      BY FolderOrder
    <3> QED
      BY <3>1, InType
  <2> QED
    BY <2>1 DEF FitsIn
<1>3. \A do \in {"folder", "removeData", "getContext"} : ~In(f, AreaCall(do, a))
  BY <1>2, AreaCallParts DEF OnResource
<1>4. ASSUME Fresh(p, a) PROVE \A r \in Resources : Cleaned(p, b, tree, a, r)
  <2>1. Anew(p, b, tree, q, a)
    BY <1>4 DEF AttemptAt
  <2>2. ~Earlier(q, fold, AreaCall("removeData", a))
    BY EarlierTail
  <2> QED
    BY <2>1, <2>2 DEF Anew
<1>5. a \in tree.there /\ MadeAgain(q, a)
  <2>1. Hosted(tree, q, a) /\ MadeAgain(q, a)
    BY DEF AttemptAt
  <2>2. ~Earlier(q, fold, AreaCall("getContext", a))
    BY EarlierTail
  <2> QED
    BY <2>1, <2>2 DEF Hosted
<1>6. MadeAgain(w, a)
  <2>1. MadeAgain(v, a)
    BY <1>5, MadeAgainTail
  <2> HIDE DEF f, v
  <2> QED
    BY <1>1, <1>3, <2>1, AbsentOrder, LaterConcat, FollowsConcat DEF MadeAgain, f
<1>7. \A d : In(f, d) => In(w, d)
  <2> HIDE DEF v
  <2> QED
    BY <1>1, InConcat
<1>8. ASSUME NEW r \in Resources
      PROVE  InOrder(p, b, k, tree, w, a, r) /\ Remains(p, b, k, tree, w, a, r)
  <2>1. /\ ~Fresh(p, a) => Resumable(p, b, k, tree, a, r)
        /\ Fresh(p, a) => Cleaned(p, b, tree, a, r)
    BY <1>4
  <2>2. InOrder(p, b, k, tree, w, a, r)
    <3> HIDE DEF v
    <3> QED
      BY <1>1, <2>1, HereInOrder
  <2>3. Remains(p, b, k, tree, w, a, r)
    <3> HIDE DEF w
    <3> QED
      BY <1>7, <2>1, HereRemains
  <2> QED
    BY <2>2, <2>3
<1> HIDE DEF w
<1>9. AttemptAt(p, b, k, tree, w, a)
  BY <1>4, <1>5, <1>6, <1>8 DEF AttemptAt, Anew, Hosted
<1> QED
  BY <1>9 DEF w

LEMMA CallIs ==
  ASSUME NEW p, NEW c \in Fits(p)
  PROVE  /\ c.do \notin OnResource => c = AreaCall(c.do, c.area)
         /\ c.do \in OnResource \ {"default"} => c = ResCall(c.do, c.area, c.res)
         /\ c.do = "default" => c = Call("default", c.area, c.res, c.kind)
<1> DEFINE no == ""
<1>1. c \in Calls
  BY DEF Fits
<1>2. c = Call(c.do, c.area, c.res, c.kind)
  BY <1>1 DEF Calls, Call
<1>3. /\ c.do \notin OnResource => c.res = no
      /\ c.do # "default" => c.kind = no
  BY DEF Fits
<1>4. \A do, a, r : AreaCall(do, a) = Call(do, a, no, no) /\ ResCall(do, a, r) = Call(do, a, r, no)
  BY DEF AreaCall, ResCall
<1>5. "default" \in OnResource
  BY DEF OnResource
<1> HIDE DEF no
<1> QED
  BY <1>2, <1>3, <1>4, <1>5

\* What is known when a call is made.
LEMMA AtCall ==
  ASSUME TypeInv, PackageInv, ResumeInv, AttemptInv, BegunInv, phase = "work", todo # <<>>
  PROVE  /\ Package \in Packages /\ tree \in Tree /\ hist.before \in Tree /\ hist.begun
         /\ todo \in Seq(Fits(Package)) /\ Now \in Fits(Package) /\ Now = Head(todo)
         /\ ResourcesFirst(todo)
         /\ \A a \in Configured(Package) :
              AttemptAt(Package, hist.before, hist.skipped, tree, todo, a)
         /\ \A a \in Configured(Package), r \in Resources :
              ~Fresh(Package, a) => Resumable(Package, hist.before, hist.skipped, tree, a, r)
         /\ \A a \in Area \ Configured(Package), r \in Resources :
              AsBefore(hist.before, tree, a, r)
<1>1. Package \in Packages /\ todo \in Seq(Fits(Package)) /\ Now \in Fits(Package)
  BY NowType
<1>2. tree \in Tree /\ hist.before \in Tree /\ hist.begun
  BY DEF TypeInv, History, BegunInv
<1>3. /\ ResourcesFirst(todo)
      /\ \A a \in Configured(Package) : AttemptAt(Package, hist.before, hist.skipped, tree, todo, a)
  BY DEF AttemptInv
<1>4. \A a \in Area, r \in Resources :
        IF a \in Configured(Package)
          THEN ~Fresh(Package, a) => Resumable(Package, hist.before, hist.skipped, tree, a, r)
          ELSE AsBefore(hist.before, tree, a, r)
  BY <1>2 DEF ResumeInv
<1>5. Configured(Package) \subseteq Area
  BY DEF Configured
<1> QED
  BY <1>1, <1>2, <1>3, <1>4, <1>5 DEF Now

LEMMA FolderAttempt ==
  ASSUME TypeInv, PackageInv, ResumeInv, AttemptInv, BegunInv, ConfigureFolder
  PROVE  AttemptInv'
<1> DEFINE p == Package
           b == hist.before
           k == hist.skipped
           q == todo
           a == Now.area
           v == Tail(todo)
           f == FolderPlan(p, a)
           S == Fits(p)
<1>1. phase = "work" /\ q # <<>> /\ Now.do = "folder" /\ todo' = f \o v
  BY DEF ConfigureFolder, Calling
<1>2. UNCHANGED <<tree, phase, script, hist>>
  BY DEF ConfigureFolder
<1>3. /\ p \in Packages /\ q \in Seq(S) /\ Now \in S /\ Now = Head(q) /\ ResourcesFirst(q)
      /\ \A e \in Configured(p) : AttemptAt(p, b, k, tree, q, e)
      /\ \A e \in Configured(p), r \in Resources : ~Fresh(p, e) => Resumable(p, b, k, tree, e, r)
  BY <1>1, AtCall
<1>4. a \in WithTable(p)
  <2>1. Now \in Fits(p) /\ Now.do = "folder"
    BY <1>1, <1>3
  <2> QED
    BY <2>1 DEF Fits
<1>5. Head(q) = AreaCall("folder", a)
  <2>1. Now = AreaCall(Now.do, Now.area)
    BY <1>1, <1>3, CallIs DEF OnResource
  <2> QED
    BY <1>1, <1>3, <2>1
<1>6. f \in Seq(S) /\ \A i \in 1..Len(f) : f[i].area = a /\ f[i].do \in OnResource
  <2>1. f \in Seq(FitsIn(p, a))
    BY <1>4, FolderOrder
  <2>2. \A i \in 1..Len(f) : f[i] \in FitsIn(p, a)
    BY <2>1, ElementType
  <2>3. FitsIn(p, a) \subseteq S
    BY DEF FitsIn
  <2> HIDE DEF f, S
  <2> QED
    BY <2>1, <2>2, <2>3 DEF FitsIn
<1>7. a \in Configured(p)
  BY <1>4 DEF WithTable
<1>8. Now.do = "folder" /\ Head(q).do = "folder" /\ Head(q).area = a
  BY <1>1, <1>3
<1> HIDE DEF p, b, k, q, v, f, S, a
<1>9. v \in Seq(S) /\ \A i \in 1..Len(v) : v[i].do \notin OnResource
  BY <1>1, <1>3, <1>8, FirstResources, TailParts DEF OnResource, v, q
<1>10. ResourcesFirst(f \o v)
  BY <1>6, <1>9, FirstConcat
<1>11. AttemptAt(p, b, k, tree, f \o v, a)
  BY <1>1, <1>3, <1>4, <1>5, <1>6, <1>7, FolderHere DEF f, v, q
<1>12. ASSUME NEW e \in Configured(p), e # a PROVE AttemptAt(p, b, k, tree, f \o v, e)
  <2>1. AttemptAt(p, b, k, tree, v, e)
    BY <1>1, <1>3, <1>8, <1>12, SameSelf, AttemptElsewhere DEF v, q
  <2> QED
    BY <1>6, <1>9, <1>12, <2>1, AttemptAfter
<1>13. /\ ResourcesFirst(todo')
       /\ \A e \in Configured(p) : AttemptAt(p, b, k, tree, todo', e)
  BY <1>1, <1>10, <1>11, <1>12
<1> QED
  BY <1>2, <1>13 DEF AttemptInv, Package, p, b, k

-----------------------------------------------------------------------------
(* One call is made.                                                         *)

\* Another attempt can take up what the call left of its area.
Safe(p, b, k, u, a) ==
  /\ \A r \in Resources : ~Fresh(p, a) => Resumable(p, b, k, u, a, r)
  /\ a \in u.there \/ \A r \in Resources : EmptyAt(u, a, r)

Did ==
  LET p == Package  b == hist.before  k == hist'.skipped  a == Now.area IN
  /\ hist'.before = b /\ hist'.begun = hist.begun /\ hist.skipped \subseteq k
  /\ Safe(p, b, k, tree', a)
  /\ \/ todo' = Tail(todo) /\ phase' = phase /\ AttemptAt(p, b, k, tree', Tail(todo), a)
     \/ phase' \in {"cleanup", "idle"} /\ result' # "ok"

\* A call does all it should, or stops on the way.
LEMMA DidDoes ==
  ASSUME TypeInv, NEW whole, NEW onTheWay, Does(whole, onTheWay),
         Safe(Package, hist.before, hist.skipped, whole, Now.area),
         \A t \in onTheWay : Safe(Package, hist.before, hist.skipped, t, Now.area),
         AttemptAt(Package, hist.before, hist.skipped, whole, Tail(todo), Now.area)
  PROVE  Did
<1>1. hist \in History
  BY DEF TypeInv
<1>2. ASSUME NEW t, Become(t)
      PROVE  /\ tree' = t /\ hist'.before = hist.before /\ hist'.skipped = hist.skipped
             /\ hist'.begun = hist.begun
  BY <1>1, <1>2 DEF Become, History
<1>3. CASE Become(whole) /\ todo' = Tail(todo) /\ UNCHANGED <<phase, result, faults>>
  BY <1>2, <1>3 DEF Did
<1>4. CASE (Fails \/ Dies) /\ \E t \in onTheWay : Become(t)
  <2>1. phase' \in {"cleanup", "idle"} /\ result' # "ok"
    BY <1>4 DEF Fails, Dies
  <2>2. PICK t \in onTheWay : Become(t)
    BY <1>4
  <2> QED
    BY <1>2, <2>1, <2>2 DEF Did
<1> QED
  BY <1>3, <1>4 DEF Does

\* The attempt ends with the call.
LEMMA DidStops ==
  ASSUME TypeInv, Fails \/ Dies, NEW t, Become(t),
         Safe(Package, hist.before, hist.skipped, t, Now.area)
  PROVE  Did
<1>1. /\ tree' = t /\ hist'.before = hist.before /\ hist'.skipped = hist.skipped
      /\ hist'.begun = hist.begun
  BY DEF TypeInv, Become, History
<1>2. phase' \in {"cleanup", "idle"} /\ result' # "ok"
  BY DEF Fails, Dies
<1> QED
  BY <1>1, <1>2 DEF Did

\* The attempt goes on although the call did not do all it should.
LEMMA DidUnnoticed ==
  ASSUME TypeInv, NEW t, NEW S, Unnoticed(t, S),
         Safe(Package, hist.before, hist.skipped \cup S, t, Now.area),
         AttemptAt(Package, hist.before, hist.skipped \cup S, t, Tail(todo), Now.area)
  PROVE  Did
<1>1. /\ tree' = t /\ hist'.before = hist.before /\ hist'.begun = hist.begun
      /\ hist'.skipped = hist.skipped \cup S /\ todo' = Tail(todo) /\ phase' = phase
  BY DEF TypeInv, Unnoticed, PassedOver, History
<1> QED
  BY <1>1 DEF Did

LEMMA DidRefuse ==
  ASSUME Fails, UNCHANGED <<tree, hist>>,
         Safe(Package, hist.before, hist.skipped, tree, Now.area)
  PROVE  Did
BY DEF Did, Fails

\* Elsewhere everything is as it was.
LEMMA SameAreas ==
  ASSUME NEW t, NEW u, NEW a, Same(t, u, a), NEW r
  PROVE  SameAt(t, u, a, r)
<1>1. \A s \in SlotsOf(a, r) : s \in Of(a)
  BY DEF SlotsOf, Of
<1>2. \A e \in DefaultsOf(a, r) : e \in Defaults /\ e[3] = a
  BY DEF DefaultsOf
<1> QED
  BY <1>1, <1>2 DEF Same, SameAt

\* A folder that is not there is empty.
LEMMA HousedMeans ==
  ASSUME NEW t \in Tree
  PROVE  Housed(t) <=> \A a \in Area : a \in t.there \/ \A r \in Resources : EmptyAt(t, a, r)
<1>1. ASSUME NEW a \in Area
      PROVE  Empty(t, a) <=> \A r \in Resources : EmptyAt(t, a, r)
  <2>1. ASSUME Empty(t, a), NEW r \in Resources PROVE EmptyAt(t, a, r)
    <3>1. t.rct[a][r] = "none"
      BY <2>1 DEF Empty, NoTable
    <3> QED
      BY <2>1, <3>1 DEF Empty, EmptyAt, SlotsOf, DefaultsOf
  <2>2. ASSUME \A r \in Resources : EmptyAt(t, a, r) PROVE Empty(t, a)
    <3>1. t.rct[a] = NoTable
      <4>1. t.rct[a] \in [Resources -> Configs] /\ \A r \in Resources : t.rct[a][r] = "none"
        BY <2>2, TreeParts DEF EmptyAt
      <4> QED
        BY <4>1 DEF NoTable
    <3>2. ASSUME NEW st \in Stores, NEW s \in Slots, s[1] = a PROVE t.data[st][s] = Absent
      <4>1. s[3] \in Resources /\ s \in SlotsOf(a, s[3])
        BY <3>2, SlotArea DEF SlotsOf
      <4> QED
        BY <2>2, <4>1 DEF EmptyAt
    <3>3. ASSUME NEW e \in Defaults, e[3] = a PROVE t.def[e] = Absent
      <4>1. e[4] \in Resources /\ e \in DefaultsOf(a, e[4])
        BY <3>3 DEF DefaultsOf, Defaults
      <4> QED
        BY <2>2, <4>1 DEF EmptyAt
    <3> QED
      BY <3>1, <3>2, <3>3 DEF Empty
  <2> QED
    BY <2>1, <2>2
<1> QED
  BY <1>1 DEF Housed

LEMMA DidInv ==
  ASSUME TypeInv, PackageInv, HousedInv, ResumeInv, AttemptInv, BegunInv,
         phase = "work", todo # <<>>, Now.do # "wrong", Goes, Did
  PROVE  HousedInv' /\ ResumeInv' /\ AttemptInv' /\ DoneInv' /\ BegunInv'
<1> DEFINE p == Package
           b == hist.before
           k == hist.skipped
           m == hist'.skipped
           q == todo
           a == Now.area
           u == tree'
<1>1. /\ p \in Packages /\ tree \in Tree /\ q \in Seq(Fits(p)) /\ Now \in Fits(p) /\ Now = Head(q)
      /\ ResourcesFirst(q) /\ hist.begun
      /\ \A e \in Configured(p) : AttemptAt(p, b, k, tree, q, e)
      /\ \A e \in Configured(p), r \in Resources : ~Fresh(p, e) => Resumable(p, b, k, tree, e, r)
      /\ \A e \in Area \ Configured(p), r \in Resources : AsBefore(b, tree, e, r)
  BY AtCall
<1>2. a \in Configured(p) /\ Configured(p) \subseteq Area
  BY <1>1 DEF Fits, Configured
<1>3. /\ hist'.before = b /\ hist'.begun = hist.begun /\ k \subseteq m /\ Safe(p, b, m, u, a)
      /\ \/ todo' = Tail(q) /\ phase' = phase /\ AttemptAt(p, b, m, u, Tail(q), a)
         \/ phase' \in {"cleanup", "idle"} /\ result' # "ok"
  BY DEF Did
<1>4. script' = script /\ Package' = p
  BY DEF Goes, Package
<1>5. u \in Tree /\ \A e \in Area \ {a} : Same(tree, u, e)
  BY DEF Goes, Effect, Within
<1>6. \A e \in Area \ {a} : (e \in tree.there => e \in u.there) /\ \A r : SameAt(tree, u, e, r)
  BY <1>5, SameAreas DEF Same
<1>7. \A e \in Area : e \in tree.there \/ \A r \in Resources : EmptyAt(tree, e, r)
  BY <1>1, HousedMeans DEF HousedInv
<1>8. q # <<>> /\ Head(q).do # "wrong" /\ Head(q).area = a
  BY <1>1
<1> HIDE DEF p, b, k, m, q, a, u
<1>9. \A e \in Area : e \in u.there \/ \A r \in Resources : EmptyAt(u, e, r)
  BY <1>3, <1>6, <1>7, DoneSame DEF Safe
<1>10. HousedInv'
  <2>1. Housed(u)
    BY <1>5, <1>9, HousedMeans
  <2> QED
    BY <2>1 DEF HousedInv, u
<1>11. ASSUME NEW e \in Area, NEW r \in Resources
       PROVE  IF e \in Configured(p) THEN ~Fresh(p, e) => Resumable(p, b, m, u, e, r)
              ELSE AsBefore(b, u, e, r)
  <2>1. CASE e = a
    BY <1>2, <1>3, <2>1 DEF Safe
  <2>2. CASE e # a
    <3>1. SameAt(b, b, e, r) /\ SameAt(tree, u, e, r)
      BY <1>6, <2>2, SameSelf
    <3>2. e \in Configured(p) /\ ~Fresh(p, e) => Resumable(p, b, k, tree, e, r)
      BY <1>1
    <3>3. e \notin Configured(p) => AsBefore(b, tree, e, r)
      BY <1>1
    <3> QED
      BY <1>3, <3>1, <3>2, <3>3, ResumableSame
  <2> QED
    BY <2>1, <2>2
<1>12. ResumeInv'
  BY <1>3, <1>4, <1>11 DEF ResumeInv, b, m, u
<1>13. ASSUME phase' = "work"
       PROVE  ResourcesFirst(todo') /\ \A e \in Configured(p) : AttemptAt(p, b, m, u, todo', e)
  <2>1. todo' = Tail(q) /\ AttemptAt(p, b, m, u, Tail(q), a)
    BY <1>3, <1>13
  <2>2. ResourcesFirst(Tail(q))
    BY <1>1, <1>8, FirstResources
  <2>3. ASSUME NEW e \in Configured(p), e # a PROVE AttemptAt(p, b, m, u, Tail(q), e)
    <3>1. (e \in tree.there => e \in u.there) /\ \A r \in Resources : SameAt(tree, u, e, r)
      BY <1>2, <1>6, <2>3
    <3>2. AttemptAt(p, b, k, tree, q, e) /\ q \in Seq(Fits(p))
      BY <1>1
    <3> QED
      BY <1>3, <1>8, <2>3, <3>1, <3>2, AttemptElsewhere
  <2> QED
    BY <2>1, <2>2, <2>3
<1>14. AttemptInv'
  BY <1>3, <1>4, <1>13 DEF AttemptInv, b, m, u
<1>15. DoneInv' /\ BegunInv'
  BY <1>1, <1>3 DEF DoneInv, BegunInv
<1> QED
  BY <1>10, <1>12, <1>14, <1>15

-----------------------------------------------------------------------------
(* The calls on an area.                                                     *)

Inv ==
  /\ TypeInv /\ PackageInv
  /\ HousedInv /\ ResumeInv /\ AttemptInv /\ DoneInv /\ BegunInv

\* The trees differ in folders that are there, links or members only.
Alike(t, u) == /\ u.rct = t.rct /\ u.data = t.data /\ u.def = t.def /\ t.there \subseteq u.there

LEMMA AlikeSame == ASSUME NEW t, NEW u, Alike(t, u), NEW a, NEW r PROVE SameAt(t, u, a, r)
BY DEF Alike, SameAt

LEMMA AlikeCall ==
  ASSUME Inv, phase = "work", todo # <<>>, Now.do # "wrong", NEW u, Alike(tree, u)
  PROVE  LET p == Package  b == hist.before  k == hist.skipped  a == Now.area IN
         /\ Safe(p, b, k, u, a)
         /\ \/ Now.do \in {"members", "linkPublic"}
            \/ Now.do = "getContext" /\ a \in u.there
            => AttemptAt(p, b, k, u, Tail(todo), a)
<1> DEFINE p == Package
           b == hist.before
           k == hist.skipped
           q == todo
           a == Now.area
<1>1. /\ p \in Packages /\ tree \in Tree /\ q \in Seq(Fits(p)) /\ Now \in Fits(p) /\ Now = Head(q)
      /\ \A e \in Configured(p) : AttemptAt(p, b, k, tree, q, e)
      /\ \A e \in Configured(p), r \in Resources : ~Fresh(p, e) => Resumable(p, b, k, tree, e, r)
  BY AtCall DEF Inv
<1>2. a \in Configured(p) /\ a \in Area
  BY <1>1 DEF Fits, Configured
<1>3. a \in tree.there \/ \A r \in Resources : EmptyAt(tree, a, r)
  BY <1>1, <1>2, HousedMeans DEF HousedInv, Inv
<1>4. q # <<>> /\ Head(q).do = Now.do /\ Head(q).do # "wrong"
  BY <1>1
<1> HIDE DEF p, b, k, q, a
<1>5. \A r : SameAt(tree, u, a, r) /\ SameAt(b, b, a, r)
  BY AlikeSame, SameSelf
<1>6. tree.there \subseteq u.there
  BY DEF Alike
<1>7. Safe(p, b, k, u, a)
  BY <1>1, <1>2, <1>3, <1>5, <1>6, ResumableSame, DoneSame DEF Safe
<1>8. ASSUME Head(q).do \in {"members", "linkPublic"} \/ (Head(q).do = "getContext" /\ a \in u.there)
      PROVE  AttemptAt(p, b, k, u, Tail(q), a)
  BY <1>1, <1>2, <1>4, <1>5, <1>6, <1>8, AttemptElsewhere
<1> QED
  BY <1>4, <1>7, <1>8 DEF p, b, k, q, a

LEMMA GetContextDid == ASSUME Inv, GetContext PROVE Did
<1> DEFINE a == Now.area
           made == [tree EXCEPT !.there = tree.there \cup {a}]
<1>1. tree \in Tree /\ TypeInv /\ PackageInv
  BY DEF Inv, TypeInv
<1>2. phase = "work" /\ todo # <<>> /\ Now.do = "getContext"
  BY DEF GetContext, Calling
<1>3. Does(made, {tree, made})
  BY DEF GetContext
<1>4. Alike(tree, tree) /\ Alike(tree, made) /\ a \in made.there
  BY <1>1 DEF Alike, Tree
<1> HIDE DEF made
<1>5. /\ Safe(Package, hist.before, hist.skipped, made, a)
      /\ Safe(Package, hist.before, hist.skipped, tree, a)
      /\ AttemptAt(Package, hist.before, hist.skipped, made, Tail(todo), a)
  BY <1>2, <1>4, AlikeCall
<1> QED
  BY <1>1, <1>3, <1>5, DidDoes

LEMMA LinkPublicDid == ASSUME Inv, LinkPublic PROVE Did
<1> DEFINE a == Now.area
           u == AddMemberToGroup(tree, a, Public)
           w == LinkDeleted(tree, a, Public)
<1>1. tree \in Tree /\ TypeInv /\ PackageInv
  BY DEF Inv, TypeInv
<1>2. phase = "work" /\ todo # <<>> /\ Now.do = "linkPublic"
  BY DEF LinkPublic, Calling
<1>3. Does(u, {tree, w})
  BY DEF LinkPublic
<1>4. Alike(tree, tree) /\ Alike(tree, u) /\ Alike(tree, w)
  BY <1>1 DEF Alike, Tree, AddMemberToGroup, LinkDeleted
<1> HIDE DEF u, w
<1>5. /\ Safe(Package, hist.before, hist.skipped, u, a)
      /\ Safe(Package, hist.before, hist.skipped, tree, a)
      /\ Safe(Package, hist.before, hist.skipped, w, a)
      /\ AttemptAt(Package, hist.before, hist.skipped, u, Tail(todo), a)
  BY <1>2, <1>4, AlikeCall
<1> QED
  BY <1>1, <1>3, <1>5, DidDoes

\* The lists that were read make links and folders, and the list of the group.
LEMMA MembersAlike ==
  ASSUME tree \in Tree, Package \in Packages, NEW g \in Groups,
         NEW o, NEW n \in SUBSET Listed(Package.members[g])
  PROVE  /\ Alike(tree, MembersConfigured(g, o, n))
         /\ \A t \in MembersHalfConfigured(g, o, n) : Alike(tree, t)
<1> DEFINE src == Package.members[g]
           added == NewMembers(o, n)
           with(S) == AddMembersToGroup(tree, S, g)
           linked == RemoveMembersFromGroup(with(added), o \ n, g)
           whole == MembersConfigured(g, o, n)
<1>1. src \in {NoContent} \cup SUBSET Apps
  BY DEF Packages
<1>2. added \in SUBSET (Apps \cap src)
  BY <1>1 DEF NewMembers, Listed
<1>3. whole = IF src = NoContent THEN linked ELSE [linked EXCEPT !.content[g] = src]
  BY DEF MembersConfigured
<1>4. \A t \in MembersHalfConfigured(g, o, n) :
        \/ \E S \in SUBSET added : t = with(S)
        \/ \E S \in SUBSET added : \E a \in S : t = LinkDeleted(with(S), a, g)
        \/ t = [whole EXCEPT !.content[g] = NoContent]
  BY DEF MembersHalfConfigured
<1> HIDE DEF added, src, whole
<1>5. \A S : Alike(tree, with(S))
  BY DEF Alike, Tree, AddMembersToGroup
<1>6. \A S \in SUBSET added : with(S) \in Tree
  BY <1>2, MembersEffect DEF Tends, Within, src
<1> HIDE DEF with
<1>7. linked = with(added)
  BY <1>6, RemoveMembersStays
<1>8. \A t \in Tree : \A c : Alike(t, [t EXCEPT !.content[g] = c])
  BY DEF Alike, Tree
<1>9. \A t \in Tree : \A a : Alike(t, LinkDeleted(t, a, g))
  BY DEF Alike, Tree, LinkDeleted
<1>10. \A t, u : Alike(tree, t) /\ Alike(t, u) => Alike(tree, u)
  BY DEF Alike
<1> HIDE DEF linked
<1>11. Alike(tree, whole) /\ (whole = linked \/ whole = [linked EXCEPT !.content[g] = src])
  BY <1>3, <1>5, <1>6, <1>7, <1>8, <1>10
<1>12. Alike(tree, [whole EXCEPT !.content[g] = NoContent])
  <2>1. linked \in Tree
    BY <1>6, <1>7
  <2>2. CASE whole = linked
    BY <1>5, <1>7, <1>8, <1>10, <2>1, <2>2
  <2>3. CASE whole = [linked EXCEPT !.content[g] = src]
    <3>1. Alike(linked, [whole EXCEPT !.content[g] = NoContent])
      BY <2>1, <2>3 DEF Alike, Tree
    <3> QED
      BY <1>5, <1>7, <1>10, <3>1
  <2> QED
    BY <1>11, <2>2, <2>3
<1>13. \A t \in MembersHalfConfigured(g, o, n) : Alike(tree, t)
  <2> TAKE t \in MembersHalfConfigured(g, o, n)
  <2>1. ASSUME NEW S \in SUBSET added, NEW a \in S, t = LinkDeleted(with(S), a, g)
        PROVE  Alike(tree, t)
    BY <1>5, <1>6, <1>9, <1>10, <2>1
  <2> QED
    BY <1>4, <1>5, <1>12, <2>1
<1> QED
  BY <1>11, <1>13 DEF whole

LEMMA GroupMembersDid == ASSUME Inv, GroupMembers PROVE Did
<1> DEFINE g == Now.area
           old == Listed(tree.content[g])
           new == Listed(Package.members[g])
<1>1. TypeInv /\ PackageInv /\ tree \in Tree
  BY DEF Inv, TypeInv
<1>2. phase = "work" /\ todo # <<>> /\ Now.do = "members"
  BY DEF GroupMembers, Calling
<1>3. \/ Fails /\ Kept /\ UNCHANGED <<tree, faults, hist>>
      \/ Does(MembersConfigured(g, old, new), {})
      \/ \E o \in {old, {}}, n \in {new, {}} :
           \/ /\ Fault /\ (Fails \/ Dies) /\ Kept
              /\ \E t \in MembersHalfConfigured(g, o, n) : Become(t)
           \/ /\ PassedOver /\ tree' = MembersConfigured(g, o, n)
              /\ hist' = [hist EXCEPT !.loses =
                   (hist.loses \cup LinksOf(tree) \cup ((new \ n) \X {g})) \ LinksOf(tree')]
  BY DEF GroupMembers
<1>4. g \in Groups /\ Package \in Packages
  BY <1>1, NowFits DEF GroupMembers
<1>5. ASSUME NEW u, Alike(tree, u)
      PROVE  /\ Safe(Package, hist.before, hist.skipped, u, g)
             /\ AttemptAt(Package, hist.before, hist.skipped, u, Tail(todo), g)
  BY <1>2, <1>5, AlikeCall
<1>6. Safe(Package, hist.before, hist.skipped, tree, g)
  BY <1>5 DEF Alike
<1>7. \A o : \A n \in SUBSET new :
        /\ Alike(tree, MembersConfigured(g, o, n))
        /\ \A t \in MembersHalfConfigured(g, o, n) : Alike(tree, t)
  BY <1>1, <1>4, MembersAlike
<1> HIDE DEF g, old, new
<1>8. CASE Does(MembersConfigured(g, old, new), {})
  <2> DEFINE u == MembersConfigured(g, old, new)
  <2>1. Alike(tree, u)
    BY <1>7
  <2>2. Does(u, {})
    BY <1>8
  <2> HIDE DEF u
  <2> QED
    BY <1>1, <1>5, <2>1, <2>2, DidDoes DEF g
<1>9. ASSUME NEW o \in {old, {}}, NEW n \in {new, {}},
             NEW t \in MembersHalfConfigured(g, o, n), Fails \/ Dies, Become(t)
      PROVE  Did
  <2>1. Alike(tree, t)
    BY <1>7
  <2> QED
    BY <1>1, <1>5, <1>9, <2>1, DidStops DEF g
<1>10. ASSUME NEW o \in {old, {}}, NEW n \in {new, {}}, NEW l, PassedOver,
              tree' = MembersConfigured(g, o, n), hist' = [hist EXCEPT !.loses = l]
       PROVE  Did
  <2>1. Alike(tree, tree')
    BY <1>7, <1>10
  <2>2. /\ hist'.before = hist.before /\ hist'.begun = hist.begun
        /\ hist'.skipped = hist.skipped /\ todo' = Tail(todo) /\ phase' = phase
    BY <1>1, <1>10 DEF TypeInv, PassedOver, History
  <2> QED
    BY <1>5, <2>1, <2>2 DEF Did, g
<1> QED
  <2>1. CASE Fails /\ Kept /\ UNCHANGED <<tree, faults, hist>>
    BY <1>6, <2>1, DidRefuse DEF g
  <2> QED
    BY <1>3, <1>8, <1>9, <1>10, <2>1

LEMMA WipeEmpty ==
  ASSUME NEW t \in Tree, NEW a \in Area, NEW r \in Resources
  PROVE  EmptyAt(Wipe(t, a, Parts), a, r) /\ EmptyAt(DeleteArea(t, a), a, r)
<1> DEFINE u == Wipe(t, a, Parts)
           d == DeleteArea(t, a)
<1>1. /\ u.data = [st \in Stores |-> [s \in Slots |->
                     IF "data" \in Parts /\ s[1] = a THEN Absent ELSE t.data[st][s]]]
      /\ u.def = [e \in Defaults |-> IF "defaults" \in Parts /\ e[3] = a THEN Absent ELSE t.def[e]]
  BY DEF Wipe, Tree
<1>2. u.rct[a] = NoTable /\ u \in Tree
  BY WipeParts DEF Parts
<1>3. \A st \in Stores, s \in Slots : s[1] = a => u.data[st][s] = Absent
  BY <1>1 DEF Parts
<1>4. \A e \in Defaults : e[3] = a => u.def[e] = Absent
  BY <1>1 DEF Parts
<1>5. d.rct = u.rct /\ d.data = u.data /\ d.def = u.def
  <2>1. d = [u EXCEPT !.there = t.there \ {a}, !.link = Unlinked(t, a)]
    BY DeleteAreaLink
  <2> HIDE DEF u, d
  <2> QED
    BY <1>2, <2>1 DEF Tree
<1> HIDE DEF u, d
<1>6. EmptyAt(u, a, r)
  BY <1>2, <1>3, <1>4 DEF EmptyAt, SlotsOf, DefaultsOf, NoTable
<1>7. EmptyAt(d, a, r)
  BY <1>5, <1>6 DEF EmptyAt
<1> QED
  BY <1>6, <1>7 DEF u, d

LEMMA RemoveDataDid == ASSUME Inv, RemoveData PROVE Did
<1> DEFINE p == Package
           b == hist.before
           k == hist.skipped
           a == Now.area
           q == todo
           parts == {Wipe(tree, a, S) : S \in SUBSET Parts}
           unlinked == {[t EXCEPT !.link = DeleteArea(tree, a).link] : t \in parts}
           whole == {IF a \in tree.there THEN Wipe(tree, a, Parts) ELSE tree,
                     IF a \in tree.there THEN DeleteArea(tree, a) ELSE tree}
<1>1. TypeInv /\ PackageInv /\ tree \in Tree
  BY DEF Inv, TypeInv
<1>2. phase = "work" /\ q # <<>> /\ Now.do = "removeData"
  BY DEF RemoveData, Calling
<1>3. a \in Area /\ a \in Configured(p) /\ Fresh(p, a)
  <2>1. Now \in Fits(p) /\ Now.do = "removeData"
    BY <1>2, AtCall DEF Inv
  <2> QED
    BY <2>1 DEF Fits, Configured
<1>4. /\ q \in Seq(Fits(p)) /\ Now \in Fits(p) /\ Now = Head(q) /\ ResourcesFirst(q)
      /\ \A e \in Configured(p) : AttemptAt(p, b, k, tree, q, e)
  BY <1>2, AtCall DEF Inv
<1>5. Head(q) = AreaCall("removeData", a)
  <2>1. Now = AreaCall(Now.do, Now.area)
    BY <1>2, <1>4, CallIs DEF OnResource
  <2> QED
    BY <1>2, <1>4, <2>1
<1>6. a \in tree.there \/ \A r \in Resources : EmptyAt(tree, a, r)
  BY <1>1, <1>3, HousedMeans DEF HousedInv, Inv
<1>7. \/ a \notin tree.there /\ Does(tree, {})
      \/ a \in tree.there /\ Does(Wipe(tree, a, Parts), parts)
      \/ a \in tree.there /\ Does(DeleteArea(tree, a), parts \cup unlinked)
  BY DEF RemoveData
<1>11. /\ a \notin tree.there => tree \in whole
       /\ a \in tree.there => Wipe(tree, a, Parts) \in whole /\ DeleteArea(tree, a) \in whole
  OBVIOUS
<1>8. \A w \in whole : \A r \in Resources : EmptyAt(w, a, r)
  BY <1>1, <1>3, <1>6, WipeEmpty
<1> HIDE DEF whole
<1>9. \A w \in whole : Safe(p, b, k, w, a) /\ AttemptAt(p, b, k, w, Tail(q), a)
  <2> TAKE w \in whole
  <2>1. \A r \in Resources : EmptyAt(w, a, r)
    BY <1>8
  <2>2. AttemptAt(p, b, k, tree, q, a)
    BY <1>3, <1>4
  <2> HIDE DEF p, b, k, a, q
  <2> QED
    BY <1>2, <1>3, <1>4, <1>5, <2>1, <2>2, AttemptRemoved DEF Safe
<1>10. a \in tree.there => \A t \in parts \cup unlinked : Safe(p, b, k, t, a)
  <2> HAVE a \in tree.there
  <2>1. \A t \in parts : t.there = tree.there /\ t \in Tree
    BY <1>1, <1>3, WipeParts
  <2> HIDE DEF parts
  <2>2. \A t \in unlinked : t.there = tree.there
    BY <2>1 DEF Tree
  <2> QED
    BY <1>3, <2>1, <2>2 DEF Safe
<1> HIDE DEF parts, unlinked
<1> QED
  BY <1>1, <1>7, <1>9, <1>10, <1>11, DidDoes

-----------------------------------------------------------------------------
(* The calls on a resource.                                                  *)

LEMMA NeededResource ==
  ASSUME NEW a, NEW r, NEW c \in Needed(a, r), c.do \in OnResource
  PROVE  c.res = r
<1>1. AreaCall("folder", a).do = "folder" /\ WrongCall.do = "wrong"
  BY AreaCallParts DEF WrongCall
<1>2. /\ \A do : ResCall(do, a, r).res = r
      /\ \A kind : Call("default", a, r, kind).res = r
  BY ResCallParts, CallParts
<1> QED
  BY <1>1, <1>2 DEF Needed, OnResource

\* What is known when a call on a resource is made.
LEMMA AtResource ==
  ASSUME Inv, phase = "work", todo # <<>>, Now.do \in OnResource
  PROVE  LET p == Package  b == hist.before  k == hist.skipped  a == Now.area  r == Now.res IN
         /\ p \in Packages /\ b \in Tree /\ tree \in Tree
         /\ a \in Area /\ a \in Configured(p) /\ a \in WithTable(p) /\ r \in Resources
         /\ Asked(p, Now) /\ (Now.do = "default" => Now.kind \in Kinds)
         /\ todo \in Seq(Fits(p)) /\ Now = Head(todo) /\ a \in tree.there
         /\ Now.do # "default" => Now = ResCall(Now.do, a, r)
         /\ Now.do = "default" => Now = Call("default", a, r, Now.kind)
         /\ AttemptAt(p, b, k, tree, todo, a)
         /\ \A s \in Resources :
              /\ Fresh(p, a) => Cleaned(p, b, tree, a, s)
              /\ ~Fresh(p, a) => Resumable(p, b, k, tree, a, s)
         /\ InOrder(p, b, k, tree, todo, a, r) /\ Remains(p, b, k, tree, todo, a, r)
<1> DEFINE p == Package
           b == hist.before
           k == hist.skipped
           a == Now.area
           r == Now.res
           q == todo
<1>1. /\ p \in Packages /\ b \in Tree /\ tree \in Tree /\ q \in Seq(Fits(p)) /\ Now \in Fits(p)
      /\ Now = Head(q)
      /\ \A e \in Configured(p) : AttemptAt(p, b, k, tree, q, e)
      /\ \A e \in Configured(p), s \in Resources : ~Fresh(p, e) => Resumable(p, b, k, tree, e, s)
  BY AtCall DEF Inv
<1>2. /\ a \in Area /\ a \in Configured(p) /\ a \in WithTable(p) /\ r \in Resources
      /\ Asked(p, Now) /\ (Now.do = "default" => Now.kind \in Kinds)
  BY <1>1 DEF Fits, Calls, OnResource
<1>3. /\ Now.do # "default" => Now = ResCall(Now.do, a, r)
      /\ Now.do = "default" => Now = Call("default", a, r, Now.kind)
  BY <1>1, CallIs
<1>4. ~NoResources(q, a)
  <2>1. Head(q).area = a /\ Head(q).do \in OnResource
    BY <1>1
  <2> HIDE DEF a
  <2> QED
    BY <1>1, <2>1, NoResourcesTail
<1>5. AttemptAt(p, b, k, tree, q, a)
  BY <1>1, <1>2
<1> HIDE DEF p, b, k, a, r, q
<1>6. Fresh(p, a) => \A s \in Resources : Cleaned(p, b, tree, a, s)
  BY <1>4, <1>5 DEF AttemptAt, Anew
<1>7. /\ a \in tree.there
      /\ InOrder(p, b, k, tree, q, a, r) /\ Remains(p, b, k, tree, q, a, r)
  BY <1>2, <1>4, <1>5 DEF AttemptAt, Hosted
<1> QED
  BY <1>1, <1>2, <1>3, <1>5, <1>6, <1>7 DEF p, b, k, a, r, q

\* The other resources of the area are left alone.
Beside(t, u, a, r) == u.there = t.there /\ \A s \in Resources \ {r} : SameAt(t, u, a, s)

LEMMA SafeCall ==
  ASSUME Inv, phase = "work", todo # <<>>, Now.do \in OnResource,
         NEW u, NEW m, hist.skipped \subseteq m, Beside(tree, u, Now.area, Now.res),
         ~Fresh(Package, Now.area) =>
           Resumable(Package, hist.before, m, u, Now.area, Now.res)
  PROVE  Safe(Package, hist.before, m, u, Now.area)
<1> DEFINE p == Package
           b == hist.before
           k == hist.skipped
           a == Now.area
           r == Now.res
<1>1. a \in tree.there /\ \A s \in Resources : ~Fresh(p, a) => Resumable(p, b, k, tree, a, s)
  BY AtResource
<1>2. ASSUME ~Fresh(p, a), NEW s \in Resources, s # r PROVE Resumable(p, b, m, u, a, s)
  <2>1. SameAt(tree, u, a, s) /\ SameAt(b, b, a, s)
    BY <1>2, SameSelf DEF Beside
  <2> QED
    BY <1>1, <1>2, <2>1, ResumableSame
<1>3. a \in u.there
  BY <1>1 DEF Beside
<1> QED
  BY <1>2, <1>3 DEF Safe

LEMMA WholeCall ==
  ASSUME Inv, phase = "work", todo # <<>>, Now.do \in OnResource,
         NEW u, NEW m, hist.skipped \subseteq m, Beside(tree, u, Now.area, Now.res),
         Fresh(Package, Now.area) => Cleaned(Package, hist.before, u, Now.area, Now.res),
         InOrder(Package, hist.before, m, u, Tail(todo), Now.area, Now.res),
         Remains(Package, hist.before, m, u, Tail(todo), Now.area, Now.res)
  PROVE  AttemptAt(Package, hist.before, m, u, Tail(todo), Now.area)
<1> DEFINE p == Package
           b == hist.before
           k == hist.skipped
           a == Now.area
           r == Now.res
           q == todo
           v == Tail(todo)
<1>1. /\ a \in tree.there /\ a \in WithTable(p) /\ q \in Seq(Fits(p)) /\ Now = Head(q)
      /\ AttemptAt(p, b, k, tree, q, a)
      /\ \A s \in Resources : Fresh(p, a) => Cleaned(p, b, tree, a, s)
  BY AtResource
<1>2. Head(q).do \in OnResource /\ Head(q).res = r /\ q # <<>>
  BY <1>1
<1> HIDE DEF p, b, k, a, r, q
<1>3. ASSUME NEW s \in Resources, s # r
      PROVE  /\ InOrder(p, b, m, u, Tail(q), a, s) /\ Remains(p, b, m, u, Tail(q), a, s)
             /\ Fresh(p, a) => Cleaned(p, b, u, a, s)
  <2>1. SameAt(tree, u, a, s)
    BY <1>3 DEF Beside, a, r
  <2>2. InOrder(p, b, k, tree, q, a, s) /\ Remains(p, b, k, tree, q, a, s)
    BY <1>1 DEF AttemptAt
  <2>3. Head(q) \notin {ResCall("obsolete", a, s), ResCall("changePolicy", a, s)}
    BY <1>2, <1>3, ResCallParts
  <2>4. \A c \in Needed(a, s) : In(q, c) => In(Tail(q), c)
    <3> TAKE c \in Needed(a, s)
    <3>1. Head(q) # c
      BY <1>2, <1>3, NeededResource
    <3> QED
      BY <1>1, <1>2, <3>1, InTail
  <2>5. InOrder(p, b, m, u, Tail(q), a, s)
    BY <1>1, <1>2, <2>1, <2>2, <2>3, InOrderSame DEF k
  <2>6. Remains(p, b, m, u, Tail(q), a, s)
    BY <2>1, <2>2, <2>4, RemainsSame DEF k
  <2> QED
    BY <1>1, <2>1, <2>5, <2>6, DoneSame
<1>4. MadeAgain(Tail(q), a)
  BY <1>1, <1>2, MadeAgainTail DEF AttemptAt
<1>5. a \in u.there
  BY <1>1 DEF Beside, a
<1>6. /\ Fresh(p, a) => Cleaned(p, b, u, a, r)
      /\ InOrder(p, b, m, u, Tail(q), a, r) /\ Remains(p, b, m, u, Tail(q), a, r)
  BY DEF p, b, a, r, q
<1>7. AttemptAt(p, b, m, u, Tail(q), a)
  BY <1>3, <1>4, <1>5, <1>6 DEF AttemptAt, Anew, Hosted
<1> QED
  BY <1>7 DEF p, b, a, q

\* What is known of the calls left on the resource.
LEMMA AskedOf ==
  ASSUME NEW p, NEW q \in Seq(Fits(p)), NEW a, NEW r, NEW do \in OnResource \ {"default"},
         In(q, ResCall(do, a, r))
  PROVE  p.rct[a][r] = "none" <=> do \in {"obsolete", "deleteEntry"}
<1> DEFINE c == ResCall(do, a, r)
           S == Fits(p)
<1>1. c.do = do /\ c.area = a /\ c.res = r
  BY ResCallParts
<1>2. c \in Fits(p)
  <2> HIDE DEF c, S
  <2>1. q \in Seq(S) /\ In(q, c)
    BY DEF c, S
  <2>2. c \in S
    BY <2>1, InType
  <2> QED
    BY <2>2 DEF S
<1>3. Asked(p, c)
  BY <1>1, <1>2 DEF Fits
<1> HIDE DEF c
<1>4. do \in {"obsolete", "changePolicy", "clearData", "deleteEntry", "writeEntry"}
  BY DEF OnResource
<1> QED
  BY <1>1, <1>3, <1>4 DEF Asked

LEMMA InOrderHead ==
  ASSUME NEW p, NEW b, NEW k, NEW m, NEW t, NEW u, NEW a, NEW r,
         NEW S, NEW q \in Seq(S), q # <<>>, InOrder(p, b, k, t, q, a, r),
         In(Tail(q), ResCall("obsolete", a, r)) => u.rct[a][r] = t.rct[a][r],
         In(Tail(q), ResCall("changePolicy", a, r)) => u.rct[a][r] = t.rct[a][r],
         In(Tail(q), ResCall("deleteEntry", a, r)) /\ ~Fresh(p, a) =>
           \/ Removed(p, b, m, u, a, r)
           \/ /\ Head(q) # ResCall("obsolete", a, r)
              /\ Removed(p, b, k, t, a, r) => Removed(p, b, m, u, a, r),
         In(Tail(q), ResCall("writeEntry", a, r)) /\ ~Fresh(p, a) =>
           \/ Switched(p, b, m, u, a, r)
           \/ /\ Head(q) # ResCall("changePolicy", a, r)
              /\ Switched(p, b, k, t, a, r) => Switched(p, b, m, u, a, r)
  PROVE  InOrder(p, b, m, u, Tail(q), a, r)
<1> DEFINE v == Tail(q)
           ob == ResCall("obsolete", a, r)
           mv == ResCall("changePolicy", a, r)
           cl == ResCall("clearData", a, r)
           de == ResCall("deleteEntry", a, r)
           wr == ResCall("writeEntry", a, r)
<1>1. \A d : In(v, d) => In(q, d)
  BY InTail
<1>2. /\ NoneAfter(v, de, ob) /\ NoneAfter(v, wr, mv)
      /\ Deleted(p, a, r) => Later(v, mv, cl)
  BY NoneAfterTail, LaterTail DEF InOrder
<1>3. /\ Earlier(q, de, ob) /\ Head(q) # ob => Earlier(v, de, ob)
      /\ Earlier(q, wr, mv) /\ Head(q) # mv => Earlier(v, wr, mv)
  BY EarlierTail
<1>4. /\ In(q, ob) => ~Fresh(p, a) /\ t.rct[a][r] = b.rct[a][r] /\ b.rct[a][r] # "none"
      /\ In(q, mv) => ~Fresh(p, a) /\ t.rct[a][r] = b.rct[a][r] /\ Moves(b.rct[a][r], p.rct[a][r])
      /\ In(q, de) /\ ~Fresh(p, a) => Removed(p, b, k, t, a, r) \/ Earlier(q, de, ob)
      /\ In(q, wr) /\ ~Fresh(p, a) => Switched(p, b, k, t, a, r) \/ Earlier(q, wr, mv)
  BY DEF InOrder
<1>5. /\ In(v, ob) => u.rct[a][r] = t.rct[a][r]
      /\ In(v, mv) => u.rct[a][r] = t.rct[a][r]
      /\ In(v, de) /\ ~Fresh(p, a) =>
           \/ Removed(p, b, m, u, a, r)
           \/ Head(q) # ob /\ (Removed(p, b, k, t, a, r) => Removed(p, b, m, u, a, r))
      /\ In(v, wr) /\ ~Fresh(p, a) =>
           \/ Switched(p, b, m, u, a, r)
           \/ Head(q) # mv /\ (Switched(p, b, k, t, a, r) => Switched(p, b, m, u, a, r))
  OBVIOUS
<1> HIDE DEF v, ob, mv, cl, de, wr
<1>6. InOrder(p, b, m, u, v, a, r)
  BY <1>1, <1>2, <1>3, <1>4, <1>5 DEF InOrder, ob, mv, cl, de, wr
<1> QED
  BY <1>6 DEF v

LEMMA RemainsHead ==
  ASSUME NEW p, NEW b, NEW k, NEW m, NEW t, NEW u, NEW a, NEW r,
         NEW S, NEW q \in Seq(S), q # <<>>, Remains(p, b, k, t, q, a, r), Head(q).do \in OnResource,
         \/ TableDone(p, t, a, r)
         \/ Head(q) \in {ResCall("deleteEntry", a, r), ResCall("writeEntry", a, r)}
         => TableDone(p, u, a, r),
         \A e \in DefaultsOf(a, r) :
           \/ DefaultDone(p, b, k, t, e)
           \/ Head(q) \in {Call("default", a, r, e[1]), ResCall("obsolete", a, r)}
           => DefaultDone(p, b, m, u, e),
         ~Fresh(p, a) => \/ DataDone(p, m, u, a, r)
                         \/ In(Tail(q), ResCall("clearData", a, r))
                         \/ ~DataDone(p, k, t, a, r) /\ Head(q) # ResCall("clearData", a, r)
  PROVE  Remains(p, b, m, u, Tail(q), a, r)
<1> DEFINE v == Tail(q)
<1>1. \A d : In(q, d) <=> (Head(q) = d \/ In(v, d))
  BY InTail
<1>2. Head(q) # AreaCall("folder", a) /\ Head(q) # WrongCall
  BY AreaCallParts DEF WrongCall, OnResource
<1> HIDE DEF v
<1>3. CASE In(q, AreaCall("folder", a)) \/ In(q, WrongCall)
  BY <1>1, <1>2, <1>3 DEF Remains, v
<1>4. CASE ~(In(q, AreaCall("folder", a)) \/ In(q, WrongCall))
  <2>1. /\ \/ TableDone(p, t, a, r)
           \/ In(q, ResCall("deleteEntry", a, r)) \/ In(q, ResCall("writeEntry", a, r))
        /\ \A e \in DefaultsOf(a, r) :
             \/ DefaultDone(p, b, k, t, e)
             \/ In(q, Call("default", a, r, e[1])) \/ In(q, ResCall("obsolete", a, r))
        /\ ~Fresh(p, a) => DataDone(p, k, t, a, r) \/ In(q, ResCall("clearData", a, r))
    BY <1>4 DEF Remains
  <2>2. \/ TableDone(p, u, a, r)
        \/ In(v, ResCall("deleteEntry", a, r)) \/ In(v, ResCall("writeEntry", a, r))
    BY <1>1, <2>1
  <2>3. \A e \in DefaultsOf(a, r) :
             \/ DefaultDone(p, b, m, u, e)
             \/ In(v, Call("default", a, r, e[1])) \/ In(v, ResCall("obsolete", a, r))
    BY <1>1, <2>1
  <2>4. ~Fresh(p, a) => DataDone(p, m, u, a, r) \/ In(v, ResCall("clearData", a, r))
    BY <1>1, <2>1 DEF v
  <2> QED
    BY <2>2, <2>3, <2>4 DEF Remains, v
<1> QED
  BY <1>3, <1>4

LEMMA SafeSelf ==
  ASSUME Inv, phase = "work", todo # <<>>, Now.do \in OnResource
  PROVE  Safe(Package, hist.before, hist.skipped, tree, Now.area)
<1>1. Beside(tree, tree, Now.area, Now.res)
  BY SameSelf DEF Beside
<1>2. ~Fresh(Package, Now.area) =>
        Resumable(Package, hist.before, hist.skipped, tree, Now.area, Now.res)
  BY AtResource
<1> QED
  BY <1>1, <1>2, SafeCall

\* The call that is made has nothing before it.
LEMMA AtHead ==
  ASSUME Inv, phase = "work", todo # <<>>, Now.do \in OnResource
  PROVE  LET p == Package  b == hist.before  k == hist.skipped  a == Now.area  r == Now.res IN
         /\ Now.do = "deleteEntry" /\ ~Fresh(p, a) => Removed(p, b, k, tree, a, r)
         /\ Now.do = "writeEntry" /\ ~Fresh(p, a) => Switched(p, b, k, tree, a, r)
         /\ Now.do = "obsolete" =>
              ~Fresh(p, a) /\ tree.rct[a][r] = b.rct[a][r] /\ b.rct[a][r] # "none"
         /\ Now.do = "changePolicy" =>
              ~Fresh(p, a) /\ tree.rct[a][r] = b.rct[a][r] /\ Moves(b.rct[a][r], p.rct[a][r])
         /\ Now.do \in {"obsolete", "deleteEntry"} <=> p.rct[a][r] = "none"
<1> DEFINE p == Package
           b == hist.before
           k == hist.skipped
           a == Now.area
           r == Now.res
           q == todo
           S == Fits(p)
<1>1. /\ q \in Seq(S) /\ Now = Head(q) /\ InOrder(p, b, k, tree, q, a, r) /\ Asked(p, Now)
      /\ Now.do # "default" => Now = ResCall(Now.do, a, r)
  BY AtResource
<1>2. Now.do \in {"obsolete", "deleteEntry"} <=> p.rct[a][r] = "none"
  BY <1>1 DEF Asked, OnResource
<1>3. q # <<>>
  OBVIOUS
<1> HIDE DEF p, b, k, a, r, q, S
<1>4. Now.do # "default" => In(q, ResCall(Now.do, a, r))
  BY <1>1, <1>3, InTail
<1>5. \A c, e : Earlier(q, c, e) => Now # c
  BY <1>1, <1>3, EarlierTail
<1>6. Now.do = "deleteEntry" /\ ~Fresh(p, a) => Removed(p, b, k, tree, a, r)
  BY <1>1, <1>4, <1>5 DEF InOrder
<1>7. Now.do = "writeEntry" /\ ~Fresh(p, a) => Switched(p, b, k, tree, a, r)
  BY <1>1, <1>4, <1>5 DEF InOrder
<1>8. /\ Now.do = "obsolete" =>
           ~Fresh(p, a) /\ tree.rct[a][r] = b.rct[a][r] /\ b.rct[a][r] # "none"
      /\ Now.do = "changePolicy" =>
           ~Fresh(p, a) /\ tree.rct[a][r] = b.rct[a][r] /\ Moves(b.rct[a][r], p.rct[a][r])
  BY <1>1, <1>4 DEF InOrder
<1> QED
  BY <1>2, <1>6, <1>7, <1>8 DEF p, b, k, a, r

\* An attempt goes on: which calls on the resource can be left.
LEMMA LeftAt ==
  ASSUME Inv, phase = "work", todo # <<>>, Now.do \in OnResource
  PROVE  LET a == Now.area  r == Now.res  none == Package.rct[a][r] = "none" IN
         /\ none => ~In(Tail(todo), ResCall("changePolicy", a, r))
                      /\ ~In(Tail(todo), ResCall("writeEntry", a, r))
         /\ ~none => ~In(Tail(todo), ResCall("obsolete", a, r))
                       /\ ~In(Tail(todo), ResCall("deleteEntry", a, r))
         /\ Now.do = "deleteEntry" => ~In(Tail(todo), ResCall("obsolete", a, r))
         /\ Now.do = "writeEntry" => ~In(Tail(todo), ResCall("changePolicy", a, r))
         /\ Now.do = "changePolicy" /\ Deleted(Package, a, r) =>
              In(Tail(todo), ResCall("clearData", a, r))
<1> DEFINE p == Package
           a == Now.area
           r == Now.res
           q == todo
           S == Fits(p)
<1>1. /\ q \in Seq(S) /\ Now = Head(q) /\ q # <<>>
      /\ InOrder(p, hist.before, hist.skipped, tree, q, a, r)
      /\ Now.do # "default" => Now = ResCall(Now.do, a, r)
  BY AtResource
<1>2. \A do \in OnResource \ {"default"} :
        In(Tail(q), ResCall(do, a, r)) => (p.rct[a][r] = "none" <=> do \in {"obsolete", "deleteEntry"})
  <2> TAKE do \in OnResource \ {"default"}
  <2>1. Tail(q) \in Seq(Fits(p))
    BY <1>1
  <2> HIDE DEF q, a, r, p
  <2> QED
    BY <2>1, AskedOf
<1>3. "changePolicy" \in OnResource \ {"default"} /\ "writeEntry" \in OnResource \ {"default"}
      /\ "obsolete" \in OnResource \ {"default"} /\ "deleteEntry" \in OnResource \ {"default"}
  BY DEF OnResource
<1> HIDE DEF p, a, r, q, S
<1>4. /\ p.rct[a][r] = "none" => ~In(Tail(q), ResCall("changePolicy", a, r))
                                   /\ ~In(Tail(q), ResCall("writeEntry", a, r))
      /\ p.rct[a][r] # "none" => ~In(Tail(q), ResCall("obsolete", a, r))
                                   /\ ~In(Tail(q), ResCall("deleteEntry", a, r))
  BY <1>2, <1>3
<1>5. /\ NoneAfter(q, ResCall("deleteEntry", a, r), ResCall("obsolete", a, r))
      /\ NoneAfter(q, ResCall("writeEntry", a, r), ResCall("changePolicy", a, r))
      /\ Deleted(p, a, r) => Later(q, ResCall("changePolicy", a, r), ResCall("clearData", a, r))
  BY <1>1 DEF InOrder
<1>6. /\ Now.do = "deleteEntry" => ~In(Tail(q), ResCall("obsolete", a, r))
      /\ Now.do = "writeEntry" => ~In(Tail(q), ResCall("changePolicy", a, r))
      /\ Now.do = "changePolicy" /\ Deleted(p, a, r) => In(Tail(q), ResCall("clearData", a, r))
  BY <1>1, <1>5, NoneAfterTail, LaterTail
<1> QED
  BY <1>4, <1>6 DEF p, a, r, q

\* A call that does nothing and says so to nobody: what it was to do counts as
\* passed over.
LEMMA PassedOverDid ==
  ASSUME Inv, phase = "work", todo # <<>>,
         Now.do \in {"obsolete", "changePolicy", "default", "clearData"},
         NEW S, Unnoticed(tree, S),
         Now.do = "obsolete" =>
           Removed(Package, hist.before, hist.skipped \cup S, tree, Now.area, Now.res),
         Now.do = "changePolicy" =>
           Switched(Package, hist.before, hist.skipped \cup S, tree, Now.area, Now.res),
         \A e \in DefaultsOf(Now.area, Now.res) :
           Now.do = "obsolete" \/ (Now.do = "default" /\ Now.kind = e[1]) =>
             DefaultDone(Package, hist.before, hist.skipped \cup S, tree, e),
         Now.do = "clearData" => DataDone(Package, hist.skipped \cup S, tree, Now.area, Now.res)
  PROVE  Did
<1> DEFINE p == Package
           b == hist.before
           k == hist.skipped
           m == hist.skipped \cup S
           a == Now.area
           r == Now.res
           q == todo
<1>1. TypeInv /\ Now.do \in OnResource /\ k \subseteq m
  BY DEF Inv, OnResource
<1>2. /\ q \in Seq(Fits(p)) /\ Now = Head(q) /\ q # <<>> /\ r \in Resources
      /\ Now.do # "default" => Now = ResCall(Now.do, a, r)
      /\ Now.do = "default" => Now = Call("default", a, r, Now.kind)
      /\ Fresh(p, a) => Cleaned(p, b, tree, a, r)
      /\ ~Fresh(p, a) => Resumable(p, b, k, tree, a, r)
      /\ InOrder(p, b, k, tree, q, a, r) /\ Remains(p, b, k, tree, q, a, r)
  BY <1>1, AtResource
<1>3. /\ Now.do = "obsolete" => Removed(p, b, m, tree, a, r)
      /\ Now.do = "changePolicy" => Switched(p, b, m, tree, a, r)
      /\ \A e \in DefaultsOf(a, r) :
           Now.do = "obsolete" \/ (Now.do = "default" /\ Now.kind = e[1]) => DefaultDone(p, b, m, tree, e)
      /\ Now.do = "clearData" => DataDone(p, m, tree, a, r)
  OBVIOUS
<1>4. Beside(tree, tree, a, r)
  BY SameSelf DEF Beside
<1>5. \A do : Head(q) = ResCall(do, a, r) => Now.do = do
  BY <1>2, ResCallParts
<1>6. \A kind : Head(q) = Call("default", a, r, kind) => Now.do = "default" /\ Now.kind = kind
  BY <1>2, CallParts
<1> HIDE DEF p, b, k, m, a, r, q
<1>7. /\ SameAt(tree, tree, a, r) /\ SameAt(b, b, a, r)
      /\ Resumable(p, b, k, tree, a, r) => Resumable(p, b, m, tree, a, r)
      /\ Removed(p, b, k, tree, a, r) => Removed(p, b, m, tree, a, r)
      /\ Switched(p, b, k, tree, a, r) => Switched(p, b, m, tree, a, r)
  BY <1>1, SameSelf, ResumableSame
<1>8. /\ \A e \in DefaultsOf(a, r) : DefaultDone(p, b, k, tree, e) => DefaultDone(p, b, m, tree, e)
      /\ DataDone(p, k, tree, a, r) => DataDone(p, m, tree, a, r)
  BY <1>1, <1>7, BroughtSame
<1>9. Safe(p, b, m, tree, a)
  <2>1. ~Fresh(p, a) => Resumable(p, b, m, tree, a, r)
    BY <1>2, <1>7
  <2> QED
    BY <1>1, <1>4, <2>1, SafeCall DEF p, b, k, m, a, r
<1>10. InOrder(p, b, m, tree, Tail(q), a, r)
  BY <1>2, <1>3, <1>5, <1>7, InOrderHead
<1>11. Remains(p, b, m, tree, Tail(q), a, r)
  <2>1. Head(q) \notin {ResCall("deleteEntry", a, r), ResCall("writeEntry", a, r)}
    BY <1>5
  <2>2. \A e \in DefaultsOf(a, r) :
          \/ DefaultDone(p, b, k, tree, e)
          \/ Head(q) \in {Call("default", a, r, e[1]), ResCall("obsolete", a, r)}
          => DefaultDone(p, b, m, tree, e)
    BY <1>3, <1>5, <1>6, <1>8
  <2>3. \/ DataDone(p, m, tree, a, r)
        \/ ~DataDone(p, k, tree, a, r) /\ Head(q) # ResCall("clearData", a, r)
    BY <1>3, <1>5, <1>8
  <2>4. Head(q).do \in OnResource
    BY <1>1, <1>2
  <2> QED
    BY <1>2, <2>1, <2>2, <2>3, <2>4, RemainsHead
<1>12. AttemptAt(p, b, m, tree, Tail(q), a)
  BY <1>1, <1>2, <1>4, <1>10, <1>11, WholeCall DEF p, b, k, m, a, r, q
<1> QED
  BY <1>1, <1>9, <1>12, DidUnnoticed DEF p, b, m, a, q

\* An entry of the table.
LEMMA EntryParts ==
  ASSUME NEW t \in Tree, NEW a \in Area, NEW r \in Resources, NEW c
  PROVE  LET u == WithEntry(t, a, r, c) IN
         /\ u.there = t.there /\ u.data = t.data /\ u.def = t.def /\ u.rct[a][r] = c
         /\ \A s \in Resources \ {r} : u.rct[a][s] = t.rct[a][s]
<1> DEFINE rct == [t.rct EXCEPT ![a][r] = c]
           u == WithEntry(t, a, r, c)
<1>1. rct[a][r] = c /\ \A s \in Resources \ {r} : rct[a][s] = t.rct[a][s]
  BY TreeParts
<1>2. u = [t EXCEPT !.rct = rct]
  BY TreeParts DEF WithEntry
<1> HIDE DEF rct, u
<1>3. u.there = t.there /\ u.data = t.data /\ u.def = t.def /\ u.rct = rct
  BY <1>2 DEF Tree
<1> QED
  BY <1>1, <1>3 DEF u

LEMMA UpdateRctDid == ASSUME Inv, UpdateRct PROVE Did
<1> DEFINE p == Package
           b == hist.before
           k == hist.skipped
           a == Now.area
           r == Now.res
           q == todo
           u == WithEntry(tree, a, r, p.rct[a][r])
<1>1. TypeInv /\ phase = "work" /\ q # <<>> /\ Now.do \in {"deleteEntry", "writeEntry"}
  BY DEF Inv, UpdateRct, Calling
<1>2. Now.do \in OnResource
  BY <1>1 DEF OnResource
<1>3. Does(u, {tree})
  BY DEF UpdateRct, WithEntry
<1>4. /\ p \in Packages /\ b \in Tree /\ tree \in Tree /\ a \in Area /\ a \in WithTable(p) /\ r \in Resources
      /\ q \in Seq(Fits(p)) /\ Now = Head(q) /\ Now = ResCall(Now.do, a, r)
      /\ Fresh(p, a) => Cleaned(p, b, tree, a, r)
      /\ ~Fresh(p, a) => Resumable(p, b, k, tree, a, r)
      /\ InOrder(p, b, k, tree, q, a, r) /\ Remains(p, b, k, tree, q, a, r)
  BY <1>1, <1>2, AtResource
<1>5. /\ Now.do = "deleteEntry" /\ ~Fresh(p, a) => Removed(p, b, k, tree, a, r)
      /\ Now.do = "writeEntry" /\ ~Fresh(p, a) => Switched(p, b, k, tree, a, r)
      /\ Now.do \in {"obsolete", "deleteEntry"} <=> p.rct[a][r] = "none"
  BY <1>1, <1>2, AtHead
<1>6. /\ p.rct[a][r] = "none" => ~In(Tail(q), ResCall("changePolicy", a, r))
                                   /\ ~In(Tail(q), ResCall("writeEntry", a, r))
      /\ p.rct[a][r] # "none" => ~In(Tail(q), ResCall("obsolete", a, r))
                                   /\ ~In(Tail(q), ResCall("deleteEntry", a, r))
      /\ Now.do = "deleteEntry" => ~In(Tail(q), ResCall("obsolete", a, r))
      /\ Now.do = "writeEntry" => ~In(Tail(q), ResCall("changePolicy", a, r))
  BY <1>1, <1>2, LeftAt
<1>7. /\ u.there = tree.there /\ u.data = tree.data /\ u.def = tree.def
      /\ u.rct[a][r] = p.rct[a][r] /\ \A s \in Resources \ {r} : u.rct[a][s] = tree.rct[a][s]
  <2> DEFINE c == p.rct[a][r]
  <2> HIDE DEF p, a, r, c
  <2>1. LET w == WithEntry(tree, a, r, c) IN
        /\ w.there = tree.there /\ w.data = tree.data /\ w.def = tree.def
        /\ w.rct[a][r] = c /\ \A s \in Resources \ {r} : w.rct[a][s] = tree.rct[a][s]
    BY <1>4, EntryParts
  <2> QED
    BY <2>1 DEF c
<1> HIDE DEF u
<1>8. Safe(p, b, k, tree, a)
  BY <1>1, <1>2, SafeSelf
<1>9. Beside(tree, u, a, r)
  BY <1>7 DEF Beside, SameAt
<1>10. /\ Removed(p, b, k, tree, a, r) <=> Removed(p, b, k, u, a, r)
       /\ Switched(p, b, k, tree, a, r) <=> Switched(p, b, k, u, a, r)
       /\ \A s \in DataOf(a, r) : SlotKept(p, b, tree, a, r, s) <=> SlotKept(p, b, u, a, r, s)
  BY <1>7 DEF Removed, Switched, SlotKept
<1>11. ~Fresh(p, a) => Removed(p, b, k, u, a, r) /\ Switched(p, b, k, u, a, r)
  <2>1. CASE Now.do = "deleteEntry"
    <3>1. ~Moves(b.rct[a][r], p.rct[a][r])
      BY <1>5, <2>1 DEF Moves, Keyed
    <3> QED
      BY <1>5, <1>10, <2>1, <3>1 DEF Switched
  <2>2. CASE Now.do = "writeEntry"
    <3>1. p.rct[a][r] # "none"
      BY <1>5, <2>2
    <3> QED
      BY <1>5, <1>10, <2>2, <3>1 DEF Removed
  <2> QED
    BY <1>1, <2>1, <2>2
<1>12. ~Fresh(p, a) => Resumable(p, b, k, u, a, r)
  BY <1>4, <1>7, <1>10, <1>11 DEF Resumable
<1>13. Fresh(p, a) => Cleaned(p, b, u, a, r)
  BY <1>4, <1>7 DEF Cleaned
<1>14. InOrder(p, b, k, u, Tail(q), a, r)
  <2>1. In(Tail(q), ResCall("obsolete", a, r)) => u.rct[a][r] = tree.rct[a][r]
    BY <1>1, <1>5, <1>6
  <2>2. In(Tail(q), ResCall("changePolicy", a, r)) => u.rct[a][r] = tree.rct[a][r]
    BY <1>1, <1>5, <1>6
  <2>3. k \subseteq k
    OBVIOUS
  <2> HIDE DEF p, b, k, a, r, q
  <2> QED
    BY <1>1, <1>4, <1>11, <2>1, <2>2, <2>3, InOrderHead
<1>15. Remains(p, b, k, u, Tail(q), a, r)
  <2>1. TableDone(p, u, a, r)
    BY <1>7 DEF TableDone
  <2>2. /\ \A e \in DefaultsOf(a, r) : DefaultDone(p, b, k, tree, e) <=> DefaultDone(p, b, k, u, e)
        /\ DataDone(p, k, tree, a, r) <=> DataDone(p, k, u, a, r)
    BY <1>7 DEF DefaultDone, DataDone
  <2>3. Head(q).do \in {"deleteEntry", "writeEntry"} /\ Head(q).do \in OnResource
    BY <1>1, <1>2, <1>4
  <2>4. /\ Head(q) # ResCall("clearData", a, r) /\ Head(q) # ResCall("obsolete", a, r)
        /\ \A kind : Head(q) # Call("default", a, r, kind)
    BY <2>3, CallParts, ResCallParts
  <2> HIDE DEF p, b, k, a, r, q
  <2> QED
    BY <1>1, <1>4, <2>1, <2>2, <2>3, <2>4, RemainsHead
<1>16. Safe(p, b, k, u, a) /\ AttemptAt(p, b, k, u, Tail(q), a)
  BY <1>1, <1>2, <1>9, <1>12, <1>13, <1>14, <1>15, SafeCall, WholeCall
<1> QED
  BY <1>1, <1>3, <1>8, <1>16, DidDoes

\* What a default is when a call sets it.
LEMMA ExpectedDue ==
  ASSUME NEW p \in Packages, NEW b, NEW a \in Area, NEW r \in Resources, NEW e \in DefaultsOf(a, r),
         p.rct[a][r] # "none", e[1] \in LookUpRules[Rule(p, a)].affects
  PROVE  LET old == IF Fresh(p, a) THEN Absent ELSE b.def[e]
             needed == ConfigurationNeeded(p, a, r)
             brought == p.def[<<e[1], a, r>>]
             x == ExpectedDefault(p, b, e)
         IN IF e[2] # Form(p.rct[a][r]) THEN x = old
            ELSE /\ needed = "update" => x = IF brought # Absent THEN brought ELSE old
                 /\ needed = "delete" => x = IF p.rct[a][r] = "custom" THEN old ELSE Absent
<1>1. e[3] = a /\ e[4] = r /\ e[1] \in Kinds
  BY DEF DefaultsOf, Defaults
<1> DEFINE old == IF Fresh(p, a) THEN Absent ELSE b.def[e]
           needed == ConfigurationNeeded(p, a, r)
           brought == p.def[<<e[1], a, r>>]
           x == ExpectedDefault(p, b, e)
           c == p.rct[a][r]
<1>2. x = IF Form(c) # e[2] THEN old
          ELSE CASE Updated(p, a, r, e[1]) /\ brought # Absent -> brought
                 [] Deleted(p, a, r) /\ Rule(p, a) = "UpdateSetOfResources" /\ c # "custom" -> Absent
                 [] OTHER -> old
  BY <1>1 DEF ExpectedDefault
<1>3. /\ needed = "update" <=> Updated(p, a, r, e[1])
      /\ Deleted(p, a, r) => needed = "delete"
      /\ needed = "delete" => IF Rule(p, a) = "UpdateSetOfResources" THEN Deleted(p, a, r) ELSE Fresh(p, a)
  BY <1>1, RuleMeans
<1>4. Fresh(p, a) => old = Absent
  OBVIOUS
<1> HIDE DEF x, needed, brought, old, c
<1>5. CASE Form(c) # e[2]
  BY <1>2, <1>5 DEF x, old, c
<1>6. CASE Form(c) = e[2]
  <2>1. needed = "update" => x = IF brought # Absent THEN brought ELSE old
    BY <1>2, <1>3, <1>6
  <2>2. needed = "delete" => x = IF c = "custom" THEN old ELSE Absent
    BY <1>2, <1>3, <1>4, <1>6
  <2> QED
    BY <1>6, <2>1, <2>2 DEF x, old, c, needed, brought
<1> QED
  BY <1>5, <1>6

WithDefault(t, e, v) == [t EXCEPT !.def[e] = v]

LEMMA DefaultParts ==
  ASSUME NEW t \in Tree, NEW e0, NEW v
  PROVE  LET u == WithDefault(t, e0, v) IN
         /\ u.there = t.there /\ u.rct = t.rct /\ u.data = t.data
         /\ \A e \in Defaults : u.def[e] = IF e = e0 THEN v ELSE t.def[e]
<1> DEFINE def == [t.def EXCEPT ![e0] = v]
           u == WithDefault(t, e0, v)
<1>1. \A e \in Defaults : def[e] = IF e = e0 THEN v ELSE t.def[e]
  BY TreeParts
<1>2. u = [t EXCEPT !.def = def]
  BY TreeParts DEF WithDefault
<1> HIDE DEF def, u
<1>3. u.there = t.there /\ u.data = t.data /\ u.rct = t.rct /\ u.def = def
  BY <1>2 DEF Tree
<1> QED
  BY <1>1, <1>3 DEF u

\* The defaults of one kind are set, and the others of the resource left alone.
LEMMA DefaultSet ==
  ASSUME Inv, SetDefault
  PROVE  \E u, e0 :
                /\ Does(u, {tree}) \/ Unnoticed(tree, {e0})
                /\ \A e \in DefaultsOf(Now.area, Now.res) :
                     e[1] = Now.kind /\ e # e0 => tree.def[e] = ExpectedDefault(Package, hist.before, e)
                /\ u.there = tree.there /\ u.rct = tree.rct /\ u.data = tree.data
                /\ \A e \in Defaults : e \notin DefaultsOf(Now.area, Now.res) => u.def[e] = tree.def[e]
                /\ \A e \in DefaultsOf(Now.area, Now.res) :
                     IF e[1] = Now.kind THEN u.def[e] = ExpectedDefault(Package, hist.before, e)
                     ELSE u.def[e] = tree.def[e]
<1> DEFINE p == Package
           b == hist.before
           a == Now.area
           r == Now.res
           kind == Now.kind
           c == p.rct[a][r]
           form == Form(c)
           e0 == <<kind, form, a, r>>
           v == p.def[<<kind, a, r>>]
           needed == ConfigurationNeeded(p, a, r)
           old(e) == IF Fresh(p, a) THEN Absent ELSE b.def[e]
           x(e) == ExpectedDefault(p, b, e)
           u == IF needed = "update" THEN WriteDefault(tree, kind, form, a, r, v)
                ELSE IF c = "custom" THEN tree ELSE DeleteDefault(tree, kind, form, a, r)
<1>1. /\ phase = "work" /\ todo # <<>> /\ Now.do = "default" /\ Now.do \in OnResource
      /\ Does(u, {tree}) \/ Unnoticed(tree, {e0})
  BY DEF SetDefault, Calling, OnResource
<1>2. /\ p \in Packages /\ tree \in Tree /\ a \in Area /\ r \in Resources /\ kind \in Kinds
      /\ Asked(p, Now)
      /\ Fresh(p, a) => Cleaned(p, b, tree, a, r)
      /\ ~Fresh(p, a) => Resumable(p, b, hist.skipped, tree, a, r)
  BY <1>1, AtResource
<1>3. c # "none" /\ kind \in LookUpRules[Rule(p, a)].affects /\ needed \in {"update", "delete"}
  <2>1. needed \in {"update", "delete", "dontTouch"}
    BY <1>2, RuleMeans
  <2> QED
    BY <1>1, <1>2, <2>1 DEF Asked
<1>4. /\ e0 \in DefaultsOf(a, r) /\ e0[1] = kind /\ e0[2] = form
      /\ \A e \in DefaultsOf(a, r) : e = e0 <=> e[1] = kind /\ e[2] = form
  <2>1. form \in {"key", "file"}
    BY DEF Form
  <2> HIDE DEF a, r, kind, form
  <2> QED
    BY <1>2, <2>1 DEF DefaultsOf, Defaults
<1>5. \A e \in DefaultsOf(a, r) : tree.def[e] \in {old(e), x(e)}
  BY <1>2 DEF Resumable, Cleaned
<1>6. \A e \in DefaultsOf(a, r) :
        e[1] = kind =>
          IF e[2] # form THEN x(e) = old(e)
          ELSE /\ needed = "update" => x(e) = IF v # Absent THEN v ELSE old(e)
               /\ needed = "delete" => x(e) = IF c = "custom" THEN old(e) ELSE Absent
  BY <1>2, <1>3, ExpectedDue
<1>7. u = tree \/ u = WithDefault(tree, e0, v) \/ u = WithDefault(tree, e0, Absent)
  BY DEF WriteDefault, DeleteDefault, WithDefault
<1>14. \A w : LET y == WithDefault(tree, e0, w) IN
         /\ y.there = tree.there /\ y.rct = tree.rct /\ y.data = tree.data
         /\ \A e \in Defaults : y.def[e] = IF e = e0 THEN w ELSE tree.def[e]
  <2> HIDE DEF e0
  <2> QED
    BY <1>2, DefaultParts
<1>8. /\ u.there = tree.there /\ u.rct = tree.rct /\ u.data = tree.data
      /\ \A e \in Defaults : e # e0 => u.def[e] = tree.def[e]
  <2> HIDE DEF u, e0, v
  <2> QED
    BY <1>7, <1>14
<1>9. /\ needed = "update" /\ v # Absent => u.def[e0] = v
      /\ needed = "update" /\ v = Absent => u = tree
      /\ needed = "delete" /\ c = "custom" => u = tree
      /\ needed = "delete" /\ c # "custom" => u.def[e0] = Absent
  <2>1. e0 \in Defaults
    BY <1>4 DEF DefaultsOf
  <2>2. /\ needed = "update" /\ v # Absent => u = WithDefault(tree, e0, v)
        /\ needed = "update" /\ v = Absent => u = tree
        /\ needed = "delete" /\ c = "custom" => u = tree
        /\ needed = "delete" /\ c # "custom" => u = WithDefault(tree, e0, Absent)
    BY DEF WriteDefault, DeleteDefault, WithDefault
  <2> HIDE DEF u, e0, needed, v, c
  <2> QED
    BY <1>14, <2>1, <2>2
<1> HIDE DEF u, e0, needed, v, c, form, old, x
<1>10. u.def[e0] = x(e0)
  BY <1>3, <1>4, <1>5, <1>6, <1>9
<1>11. ASSUME NEW e \in DefaultsOf(a, r), e[1] = kind PROVE u.def[e] = x(e)
  <2>1. CASE e[2] = form
    BY <1>4, <1>10, <1>11, <2>1
  <2>2. CASE e[2] # form
    <3>1. e \in Defaults
      BY DEF DefaultsOf
    <3> QED
      BY <1>4, <1>5, <1>6, <1>8, <1>11, <2>2, <3>1
  <2> QED
    BY <2>1, <2>2
<1>12. \A e \in Defaults : e \notin DefaultsOf(a, r) => u.def[e] = tree.def[e]
  BY <1>4, <1>8
<1>13. \A e \in DefaultsOf(a, r) : e[1] # kind => u.def[e] = tree.def[e]
  BY <1>4, <1>8 DEF DefaultsOf
<1>15. ASSUME NEW e \in DefaultsOf(a, r), e[1] = kind, e # e0 PROVE tree.def[e] = x(e)
  BY <1>4, <1>5, <1>6, <1>15
<1> QED
  BY <1>1, <1>8, <1>11, <1>12, <1>13, <1>15 DEF x

LEMMA SetDefaultDid == ASSUME Inv, SetDefault PROVE Did
<1> DEFINE p == Package
           b == hist.before
           k == hist.skipped
           a == Now.area
           r == Now.res
           q == todo
<1>1. TypeInv /\ phase = "work" /\ q # <<>> /\ Now.do = "default" /\ Now.do \in OnResource
  BY DEF Inv, SetDefault, Calling, OnResource
<1>2. /\ p \in Packages /\ a \in WithTable(p) /\ r \in Resources /\ Now.kind \in Kinds
      /\ q \in Seq(Fits(p)) /\ Now = Head(q) /\ Now = Call("default", a, r, Now.kind)
      /\ Fresh(p, a) => Cleaned(p, b, tree, a, r)
      /\ ~Fresh(p, a) => Resumable(p, b, k, tree, a, r)
      /\ InOrder(p, b, k, tree, q, a, r) /\ Remains(p, b, k, tree, q, a, r)
  BY <1>1, AtResource
<1>3. p.rct[a][r] # "none"
  BY <1>1, AtHead
<1>4. /\ ~In(Tail(q), ResCall("obsolete", a, r)) /\ ~In(Tail(q), ResCall("deleteEntry", a, r))
  BY <1>1, <1>3, LeftAt
<1>5. PICK u, e0 :
               /\ Does(u, {tree}) \/ Unnoticed(tree, {e0})
               /\ \A e \in DefaultsOf(a, r) :
                    e[1] = Now.kind /\ e # e0 => tree.def[e] = ExpectedDefault(p, b, e)
               /\ u.there = tree.there /\ u.rct = tree.rct /\ u.data = tree.data
               /\ \A e \in Defaults : e \notin DefaultsOf(a, r) => u.def[e] = tree.def[e]
               /\ \A e \in DefaultsOf(a, r) :
                    IF e[1] = Now.kind THEN u.def[e] = ExpectedDefault(p, b, e)
                    ELSE u.def[e] = tree.def[e]
  BY DefaultSet
<1>6. Safe(p, b, k, tree, a)
  BY <1>1, SafeSelf
<1>7. Beside(tree, u, a, r)
  <2>1. \A s \in Resources \ {r} : \A e \in DefaultsOf(a, s) : e \in Defaults /\ e \notin DefaultsOf(a, r)
    BY DEF DefaultsOf
  <2> QED
    BY <1>5, <2>1 DEF Beside, SameAt
<1>8. Switched(p, b, k, tree, a, r) => Switched(p, b, k, u, a, r)
  BY <1>5 DEF Switched
<1>9. ~Fresh(p, a) => Resumable(p, b, k, u, a, r)
  <2>1. Removed(p, b, k, u, a, r)
    BY <1>3 DEF Removed
  <2>2. \A s \in DataOf(a, r) : SlotKept(p, b, tree, a, r, s) => SlotKept(p, b, u, a, r, s)
    BY <1>5 DEF SlotKept
  <2> QED
    BY <1>2, <1>5, <1>8, <2>1, <2>2 DEF Resumable
<1>10. Fresh(p, a) => Cleaned(p, b, u, a, r)
  BY <1>2, <1>5 DEF Cleaned
<1>11. InOrder(p, b, k, u, Tail(q), a, r)
  <2>1. Head(q) # ResCall("obsolete", a, r) /\ Head(q) # ResCall("changePolicy", a, r)
    BY <1>1, <1>2, ResCallParts
  <2>2. k \subseteq k /\ u.rct[a][r] = tree.rct[a][r]
    BY <1>5
  <2> HIDE DEF p, b, k, a, r, q
  <2> QED
    BY <1>1, <1>2, <1>4, <1>8, <2>1, <2>2, InOrderHead
<1>12. Remains(p, b, k, u, Tail(q), a, r)
  <2>1. TableDone(p, tree, a, r) <=> TableDone(p, u, a, r)
    BY <1>5 DEF TableDone
  <2>2. DataDone(p, k, tree, a, r) <=> DataDone(p, k, u, a, r)
    BY <1>5 DEF DataDone
  <2>3. \A do : Head(q) = ResCall(do, a, r) => do = "default"
    BY <1>1, <1>2, ResCallParts
  <2>4. \A e \in DefaultsOf(a, r) :
          \/ DefaultDone(p, b, k, tree, e) \/ Head(q) = Call("default", a, r, e[1])
          => DefaultDone(p, b, k, u, e)
    <3> TAKE e \in DefaultsOf(a, r)
    <3>1. Head(q) = Call("default", a, r, e[1]) => e[1] = Now.kind
      BY <1>2, CallParts
    <3> QED
      BY <1>5, <3>1 DEF DefaultDone
  <2>5. Head(q).do \in OnResource
    BY <1>1, <1>2
  <2> HIDE DEF p, b, k, a, r, q
  <2> QED
    BY <1>1, <1>2, <2>1, <2>2, <2>3, <2>4, <2>5, RemainsHead
<1>13. Safe(p, b, k, u, a) /\ AttemptAt(p, b, k, u, Tail(q), a)
  BY <1>1, <1>7, <1>9, <1>10, <1>11, <1>12, SafeCall, WholeCall
<1>14. CASE Unnoticed(tree, {e0})
  <2>1. \A e \in DefaultsOf(a, r) : e[1] = Now.kind => DefaultDone(p, b, k \cup {e0}, tree, e)
    BY <1>5 DEF DefaultDone
  <2> QED
    BY <1>1, <1>14, <2>1, PassedOverDid
<1> QED
  BY <1>1, <1>5, <1>6, <1>13, <1>14, DidDoes

\* The data of the resource, and nothing else, may be gone.
Clears(t, u, store, a, r) ==
  /\ u.there = t.there /\ u.rct = t.rct /\ u.def = t.def
  /\ \A st \in Stores, s \in Slots :
       \/ u.data[st][s] = t.data[st][s]
       \/ st = store /\ s \in DataOf(a, r) /\ u.data[st][s] = Absent

LEMMA ClearsBeside ==
  ASSUME NEW t, NEW u, NEW store, NEW a, NEW r, Clears(t, u, store, a, r)
  PROVE  Beside(t, u, a, r)
<1>1. \A s \in DataOf(a, r) : s[3] = r
  BY DEF DataOf
<1>2. \A x \in Resources \ {r} : \A s \in SlotsOf(a, x) : s \in Slots /\ s[3] # r
  BY DEF SlotsOf
<1> QED
  BY <1>1, <1>2 DEF Clears, Beside, SameAt

LEMMA ClearData1 ==
  ASSUME Inv, ClearData, ~Unnoticed(tree, DataOf(Now.area, Now.res))
  PROVE  LET a == Now.area  r == Now.res  c == Package.rct[a][r]
             store == IF c = "na" THEN "wt" ELSE c
         IN \E u, some :
              /\ Does(u, some)
              /\ Clears(tree, u, store, a, r) /\ \A t \in some : Clears(tree, t, store, a, r)
              /\ store \in Stores => \A s \in DataOf(a, r) : u.data[store][s] = Absent
<1> DEFINE a == Now.area
           r == Now.res
           c == Package.rct[a][r]
           store == IF c = "na" THEN "wt" ELSE c
           held == {s \in DataOf(a, r) : tree.data[store][s] # Absent}
           cleared(S) == Put(tree, store, S, Absent)
           some == {cleared(S) : S \in SUBSET held}
<1>1. tree \in Tree
  BY DEF Inv, TypeInv
<1>2. \/ c = "custom" /\ Does(tree, {})
      \/ Does(cleared(held), some)
  BY DEF ClearData
<1>3. c = "custom" => store \notin Stores
  BY DEF Stores
<1>4. Clears(tree, tree, store, a, r)
  BY DEF Clears
<1>5. held \subseteq DataOf(a, r) /\ DataOf(a, r) \subseteq Slots
  BY DEF DataOf, Of
<1>6. \A s \in DataOf(a, r) \ held : tree.data[store][s] = Absent
  OBVIOUS
<1> HIDE DEF a, r, c, store, held
<1>7. ASSUME NEW S \in SUBSET held
      PROVE  /\ Clears(tree, cleared(S), store, a, r)
             /\ store \in Stores => \A s \in S : cleared(S).data[store][s] = Absent
             /\ store \in Stores => \A s \in Slots \ S : cleared(S).data[store][s] = tree.data[store][s]
  <2> DEFINE u == cleared(S)
  <2>1. /\ u.there = tree.there /\ u.rct = tree.rct /\ u.def = tree.def
        /\ \A st \in Stores, s \in Slots :
             u.data[st][s] = IF st = store /\ s \in S THEN Absent ELSE tree.data[st][s]
    BY <1>1, AbsentType, PutParts
  <2> HIDE DEF u
  <2>2. \A s \in S : s \in DataOf(a, r) /\ s \in Slots
    BY <1>5
  <2> QED
    BY <2>1, <2>2 DEF Clears, u
<1>8. \A s \in DataOf(a, r) : s \in Slots /\ (s \in held \/ tree.data[store][s] = Absent)
  BY <1>5, <1>6
<1>9. store \in Stores => \A s \in DataOf(a, r) : cleared(held).data[store][s] = Absent
  <2>1. /\ store \in Stores => \A s \in held : cleared(held).data[store][s] = Absent
        /\ store \in Stores => \A s \in Slots \ held : cleared(held).data[store][s] = tree.data[store][s]
    BY <1>7
  <2> DEFINE data == cleared(held).data
  <2> HIDE DEF data
  <2> QED
    BY <1>8, <2>1 DEF data
<1>10. \A t \in some : Clears(tree, t, store, a, r)
  BY <1>7
<1>11. Clears(tree, cleared(held), store, a, r)
  BY <1>7
<1>12. CASE c = "custom" /\ Does(tree, {})
  <2>1. \A t \in {} : Clears(tree, t, store, a, r)
    OBVIOUS
  <2> QED
    BY <1>3, <1>4, <1>12, <2>1 DEF a, r, c, store
<1>13. CASE Does(cleared(held), some)
  <2> DEFINE w == cleared(held)
             all == some
  <2>1. /\ Does(w, all) /\ Clears(tree, w, store, a, r)
        /\ \A t \in all : Clears(tree, t, store, a, r)
        /\ store \in Stores => \A s \in DataOf(a, r) : w.data[store][s] = Absent
    BY <1>9, <1>10, <1>11, <1>13
  <2> HIDE DEF w, some
  <2> QED
    BY <2>1 DEF a, r, c, store
<1> QED
  BY <1>2, <1>12, <1>13

LEMMA ClearDataDid == ASSUME Inv, ClearData PROVE Did
<1> DEFINE p == Package
           b == hist.before
           k == hist.skipped
           a == Now.area
           r == Now.res
           q == todo
           d == p.rct[a][r]
           store == IF d = "na" THEN "wt" ELSE d
<1>1. TypeInv /\ phase = "work" /\ q # <<>> /\ Now.do = "clearData" /\ Now.do \in OnResource
  BY DEF Inv, ClearData, Calling, OnResource
<1>13. SUFFICES ASSUME ~Unnoticed(tree, DataOf(a, r)) PROVE Did
  <2>1. DataDone(p, k \cup DataOf(a, r), tree, a, r)
    BY DEF DataDone
  <2> QED
    BY <1>1, <2>1, PassedOverDid
<1>2. /\ p \in Packages /\ a \in Area /\ a \in WithTable(p) /\ r \in Resources /\ Asked(p, Now)
      /\ q \in Seq(Fits(p)) /\ Now = Head(q) /\ Now = ResCall("clearData", a, r)
      /\ Fresh(p, a) => Cleaned(p, b, tree, a, r)
      /\ ~Fresh(p, a) => Resumable(p, b, k, tree, a, r)
      /\ InOrder(p, b, k, tree, q, a, r) /\ Remains(p, b, k, tree, q, a, r)
  BY <1>1, AtResource
<1>3. d # "none" /\ "normal" \in LookUpRules[Rule(p, a)].affects /\ ConfigurationNeeded(p, a, r) = "delete"
  BY <1>1, <1>2 DEF Asked
<1>4. ~Fresh(p, a) => Deleted(p, a, r)
  <2>1. PICK kind \in Kinds : TRUE
    BY DEF Kinds
  <2> QED
    BY <1>2, <1>3, RuleMeans
<1>5. ~In(Tail(q), ResCall("obsolete", a, r)) /\ ~In(Tail(q), ResCall("deleteEntry", a, r))
  BY <1>1, <1>3, LeftAt
<1>6. PICK u, some :
        /\ Does(u, some)
        /\ Clears(tree, u, store, a, r) /\ \A t \in some : Clears(tree, t, store, a, r)
        /\ store \in Stores => \A s \in DataOf(a, r) : u.data[store][s] = Absent
  BY <1>13, ClearData1
<1>7. d \in Stores => store = d
  BY DEF Stores
<1> HIDE DEF store
<1>8. ASSUME NEW t, Clears(tree, t, store, a, r)
      PROVE  /\ ~Fresh(p, a) => Resumable(p, b, k, t, a, r)
             /\ ~Fresh(p, a) => (Switched(p, b, k, tree, a, r) => Switched(p, b, k, t, a, r))
             /\ Fresh(p, a) => Cleaned(p, b, t, a, r)
             /\ t.rct = tree.rct /\ t.def = tree.def
  <2>1. /\ t.rct = tree.rct /\ t.def = tree.def
        /\ \A st \in Stores, s \in Slots :
             t.data[st][s] = tree.data[st][s] \/ (st = store /\ t.data[st][s] = Absent)
    BY <1>8 DEF Clears
  <2>2. \A s \in DataOf(a, r) : s \in Slots
    BY DEF DataOf, Of
  <2>3. \A s \in SlotsOf(a, r) : s \in Slots
    BY DEF SlotsOf
  <2>4. Removed(p, b, k, t, a, r)
    BY <1>3 DEF Removed
  <2>5. ~Fresh(p, a) => (Switched(p, b, k, tree, a, r) => Switched(p, b, k, t, a, r))
    BY <1>4, <1>7, <2>1, <2>2 DEF Switched, Moves
  <2>6. ~Fresh(p, a) => \A s \in DataOf(a, r) :
          SlotKept(p, b, tree, a, r, s) => SlotKept(p, b, t, a, r, s)
    BY <1>4, <2>1, <2>2 DEF SlotKept
  <2>7. ~Fresh(p, a) => Resumable(p, b, k, t, a, r)
    BY <1>2, <2>1, <2>4, <2>5, <2>6 DEF Resumable
  <2>8. Fresh(p, a) => Cleaned(p, b, t, a, r)
    BY <1>2, <2>1, <2>3 DEF Cleaned
  <2> QED
    BY <2>1, <2>5, <2>7, <2>8
<1>9. InOrder(p, b, k, u, Tail(q), a, r)
  <2>1. Head(q) # ResCall("obsolete", a, r) /\ Head(q) # ResCall("changePolicy", a, r)
    BY <1>1, <1>2, ResCallParts
  <2>2. k \subseteq k /\ u.rct[a][r] = tree.rct[a][r]
    BY <1>6, <1>8
  <2>3. ~Fresh(p, a) => (Switched(p, b, k, tree, a, r) => Switched(p, b, k, u, a, r))
    BY <1>6, <1>8
  <2> HIDE DEF p, b, k, a, r, q
  <2> QED
    BY <1>1, <1>2, <1>5, <2>1, <2>2, <2>3, InOrderHead
<1>10. Remains(p, b, k, u, Tail(q), a, r)
  <2>1. TableDone(p, tree, a, r) <=> TableDone(p, u, a, r)
    BY <1>6, <1>8 DEF TableDone
  <2>2. DataDone(p, k, u, a, r)
    BY <1>6, <1>7 DEF DataDone
  <2>3. /\ \A do : Head(q) = ResCall(do, a, r) => do = "clearData"
        /\ \A kind : Head(q) # Call("default", a, r, kind)
    BY <1>1, <1>2, ResCallParts, CallParts
  <2>4. \A e : DefaultDone(p, b, k, tree, e) <=> DefaultDone(p, b, k, u, e)
    BY <1>6, <1>8 DEF DefaultDone
  <2>5. Head(q).do \in OnResource
    BY <1>1, <1>2
  <2> HIDE DEF p, b, k, a, r, q
  <2> QED
    BY <1>1, <1>2, <2>1, <2>2, <2>3, <2>4, <2>5, RemainsHead
<1>11. \A t \in some : Safe(p, b, k, t, a)
  <2> TAKE t \in some
  <2>1. Beside(tree, t, a, r) /\ (~Fresh(p, a) => Resumable(p, b, k, t, a, r))
    BY <1>6, <1>8, ClearsBeside
  <2> QED
    BY <1>1, <2>1, SafeCall
<1>12. Safe(p, b, k, u, a) /\ AttemptAt(p, b, k, u, Tail(q), a)
  <2>1. /\ Beside(tree, u, a, r) /\ (~Fresh(p, a) => Resumable(p, b, k, u, a, r))
        /\ Fresh(p, a) => Cleaned(p, b, u, a, r)
    BY <1>6, <1>8, ClearsBeside
  <2> QED
    BY <1>1, <1>9, <1>10, <2>1, SafeCall, WholeCall
<1> QED
  BY <1>1, <1>6, <1>11, <1>12, DidDoes

\* Of what the table told of the resource, some may be gone.
Uninstalls(t, u, a, r) ==
  LET c == t.rct[a][r] IN
  /\ u.there = t.there /\ u.rct = t.rct
  /\ \A st \in Stores, s \in Slots :
       \/ u.data[st][s] = t.data[st][s]
       \/ st = c /\ s \in DataOf(a, r) /\ u.data[st][s] = Absent
  /\ \A e \in Defaults :
       \/ u.def[e] = t.def[e]
       \/ c # "custom" /\ e \in DefaultsOf(a, r) /\ e[2] = Form(c) /\ u.def[e] = Absent

LEMMA UninstallsBeside ==
  ASSUME NEW t, NEW u, NEW a, NEW r, Uninstalls(t, u, a, r)
  PROVE  Beside(t, u, a, r)
<1>1. \A s \in DataOf(a, r) : s[3] = r
  BY DEF DataOf
<1>2. \A x \in Resources \ {r} : \A s \in SlotsOf(a, x) : s \in Slots /\ s[3] # r
  BY DEF SlotsOf
<1>3. \A x \in Resources \ {r} : \A e \in DefaultsOf(a, x) : e \in Defaults /\ e \notin DefaultsOf(a, r)
  BY DEF DefaultsOf
<1>4. /\ u.there = t.there /\ u.rct = t.rct
      /\ \A st \in Stores, s \in Slots : u.data[st][s] = t.data[st][s] \/ s \in DataOf(a, r)
      /\ \A e \in Defaults : u.def[e] = t.def[e] \/ e \in DefaultsOf(a, r)
  BY DEF Uninstalls
<1> QED
  BY <1>1, <1>2, <1>3, <1>4 DEF Beside, SameAt

\* A tree without the defaults of some kinds.
LEMMA LessParts ==
  ASSUME NEW t \in Tree, NEW f \in [Defaults -> Values]
  PROVE  LET u == [t EXCEPT !.def = f] IN
         /\ u \in Tree /\ u.there = t.there /\ u.rct = t.rct /\ u.data = t.data /\ u.def = f
BY DEF Tree

LEMMA UninstallParts ==
  ASSUME NEW t \in Tree, NEW a, NEW r, NEW parts
  PROVE  LET u == UninstallObsolete(t, a, r, parts)  c == t.rct[a][r] IN
         /\ Uninstalls(t, u, a, r)
         /\ "data" \in parts /\ c \in Stores => \A s \in DataOf(a, r) : u.data[c][s] = Absent
         /\ c # "custom" => \A e \in DefaultsOf(a, r) :
              e[1] \in parts /\ e[2] = Form(c) => u.def[e] = Absent
<1> DEFINE c == t.rct[a][r]
           gone(e) == e[1] \in parts /\ e[2] = Form(c) /\ e[3] = a /\ e[4] = r
           f == [e \in Defaults |-> IF gone(e) THEN Absent ELSE t.def[e]]
           less == [t EXCEPT !.def = f]
           S == DataOf(a, r)
           fewer == Put(less, c, S, Absent)
           u == UninstallObsolete(t, a, r, parts)
<1>1. f \in [Defaults -> Values]
  BY TreeParts, AbsentType
<1>2. /\ c = "custom" => u = t
      /\ c # "custom" => u = IF "data" \in parts /\ c \in Stores THEN fewer ELSE less
  BY TreeParts DEF UninstallObsolete
<1>3. /\ \A e \in Defaults : gone(e) => f[e] = Absent /\ e \in DefaultsOf(a, r) /\ e[2] = Form(c)
      /\ \A e \in Defaults : ~gone(e) => f[e] = t.def[e]
      /\ \A e \in DefaultsOf(a, r) : e \in Defaults /\ (e[1] \in parts /\ e[2] = Form(c) => gone(e))
  BY DEF DefaultsOf
<1>4. \A s \in S : s \in Slots
  BY DEF DataOf, Of
<1>5. c \in Stores => c # "custom"
  BY DEF Stores
<1> HIDE DEF f, gone
<1>6. /\ less \in Tree /\ less.there = t.there /\ less.rct = t.rct /\ less.data = t.data
      /\ less.def = f
  BY <1>1, LessParts
<1> HIDE DEF less, c, S
<1>7. /\ fewer.there = less.there /\ fewer.rct = less.rct /\ fewer.def = less.def
      /\ \A st \in Stores, s \in Slots :
           fewer.data[st][s] = IF st = c /\ s \in S THEN Absent ELSE less.data[st][s]
  BY <1>6, AbsentType, PutParts
<1> HIDE DEF fewer, u
<1>8. CASE c = "custom"
  <2>1. Uninstalls(t, t, a, r)
    BY DEF Uninstalls
  <2> QED
    BY <1>2, <1>5, <1>8, <2>1 DEF u, c
<1>9. CASE c # "custom" /\ "data" \in parts /\ c \in Stores
  <2>1. u = fewer
    BY <1>2, <1>9
  <2>2. Uninstalls(t, u, a, r)
    BY <1>3, <1>6, <1>7, <1>9, <2>1 DEF Uninstalls, c, S
  <2>3. \A s \in S : u.data[c][s] = Absent
    BY <1>4, <1>7, <1>9, <2>1
  <2>4. \A e \in DefaultsOf(a, r) : e[1] \in parts /\ e[2] = Form(c) => u.def[e] = Absent
    BY <1>3, <1>6, <1>7, <2>1
  <2> QED
    BY <2>2, <2>3, <2>4 DEF u, c, S
<1>10. CASE c # "custom" /\ ~("data" \in parts /\ c \in Stores)
  <2>1. u = less
    BY <1>2, <1>10
  <2>2. Uninstalls(t, u, a, r)
    BY <1>3, <1>6, <1>10, <2>1 DEF Uninstalls, c
  <2>3. \A e \in DefaultsOf(a, r) : e[1] \in parts /\ e[2] = Form(c) => u.def[e] = Absent
    BY <1>3, <1>6, <2>1
  <2> QED
    BY <1>10, <2>2, <2>3 DEF u, c
<1> QED
  BY <1>8, <1>9, <1>10

LEMMA ObsoletedDid == ASSUME Inv, Obsoleted PROVE Did
<1> DEFINE p == Package
           b == hist.before
           k == hist.skipped
           a == Now.area
           r == Now.res
           q == todo
           c == tree.rct[a][r]
           files == {<<kind, "file", a, r>> : kind \in Kinds}
           all == Kinds \cup {"data"}
           u == UninstallObsolete(tree, a, r, all)
           some == {UninstallObsolete(tree, a, r, parts) : parts \in SUBSET all}
<1>1. TypeInv /\ phase = "work" /\ q # <<>> /\ Now.do = "obsolete" /\ Now.do \in OnResource
  BY DEF Inv, Obsoleted, Calling, OnResource
<1>2. /\ tree \in Tree /\ a \in Area /\ a \in WithTable(p) /\ r \in Resources
      /\ q \in Seq(Fits(p)) /\ Now = Head(q) /\ Now = ResCall("obsolete", a, r)
      /\ ~Fresh(p, a) => Resumable(p, b, k, tree, a, r)
      /\ InOrder(p, b, k, tree, q, a, r) /\ Remains(p, b, k, tree, q, a, r)
  BY <1>1, AtResource
<1>3. ~Fresh(p, a) /\ c = b.rct[a][r] /\ c # "none" /\ p.rct[a][r] = "none"
  BY <1>1, AtHead
<1>4. ~In(Tail(q), ResCall("changePolicy", a, r)) /\ ~In(Tail(q), ResCall("writeEntry", a, r))
  BY <1>1, <1>3, LeftAt
<1>5. \/ c = "na" /\ Fails /\ Become(u)
      \/ c # "na" /\ Does(u, some)
      \/ c = "file" /\ Unnoticed(tree, DataOf(a, r) \cup files)
  BY DEF Obsoleted
<1>6. /\ Uninstalls(tree, u, a, r) /\ \A t \in some : Uninstalls(tree, t, a, r)
      /\ c \in Stores => \A s \in DataOf(a, r) : u.data[c][s] = Absent
      /\ c # "custom" => \A e \in DefaultsOf(a, r) : e[2] = Form(c) => u.def[e] = Absent
  <2>1. \A e \in DefaultsOf(a, r) : e[1] \in all
    BY DEF DefaultsOf, Defaults
  <2>2. "data" \in all
    OBVIOUS
  <2> HIDE DEF a, r, all
  <2>3. /\ Uninstalls(tree, u, a, r)
        /\ c \in Stores => \A s \in DataOf(a, r) : u.data[c][s] = Absent
        /\ c # "custom" => \A e \in DefaultsOf(a, r) : e[1] \in all /\ e[2] = Form(c) => u.def[e] = Absent
    BY <1>2, <2>2, UninstallParts
  <2>4. \A t \in some : Uninstalls(tree, t, a, r)
    BY <1>2, UninstallParts
  <2> QED
    BY <2>1, <2>3, <2>4
<1> HIDE DEF u, some
<1>7. \A e \in DefaultsOf(a, r) :
        ExpectedDefault(p, b, e) = IF c # "custom" /\ e[2] = Form(c) THEN Absent ELSE b.def[e]
  <2> TAKE e \in DefaultsOf(a, r)
  <2>1. e[3] = a /\ e[4] = r
    BY DEF DefaultsOf
  <2> QED
    BY <1>3, <2>1 DEF ExpectedDefault
<1>8. ASSUME NEW t, Uninstalls(tree, t, a, r)
      PROVE  Resumable(p, b, k, t, a, r) /\ t.rct = tree.rct
  <2>1. /\ t.rct = tree.rct
        /\ \A st \in Stores, s \in Slots :
             t.data[st][s] = tree.data[st][s] \/ t.data[st][s] = Absent
        /\ \A e \in Defaults :
             t.def[e] = tree.def[e] \/ (c # "custom" /\ e[2] = Form(c) /\ t.def[e] = Absent)
    BY <1>8 DEF Uninstalls
  <2>2. \A s \in DataOf(a, r) : s \in Slots
    BY DEF DataOf, Of
  <2>3. \A e \in DefaultsOf(a, r) : e \in Defaults
    BY DEF DefaultsOf
  <2>4. ~Moves(b.rct[a][r], p.rct[a][r]) /\ b.rct[a][r] # p.rct[a][r]
    BY <1>3 DEF Moves, Keyed
  <2>5. \A s \in DataOf(a, r) : SlotKept(p, b, tree, a, r, s) => SlotKept(p, b, t, a, r, s)
    BY <2>1, <2>2, <2>4 DEF SlotKept
  <2>6. \A e \in DefaultsOf(a, r) : t.def[e] \in {b.def[e], ExpectedDefault(p, b, e)}
    <3>1. \A e \in DefaultsOf(a, r) : tree.def[e] \in {b.def[e], ExpectedDefault(p, b, e)}
      BY <1>2, <1>3 DEF Resumable
    <3> QED
      BY <1>7, <2>1, <2>3, <3>1
  <2>7. t.rct[a][r] = b.rct[a][r] /\ t.rct[a][r] # p.rct[a][r]
    BY <1>3, <2>1
  <2> QED
    BY <1>2, <1>3, <2>1, <2>5, <2>6, <2>7 DEF Resumable
<1>9. \A t : Uninstalls(tree, t, a, r) => Safe(p, b, k, t, a)
  <2> SUFFICES ASSUME NEW t, Uninstalls(tree, t, a, r) PROVE Safe(p, b, k, t, a)
    OBVIOUS
  <2>1. Beside(tree, t, a, r) /\ Resumable(p, b, k, t, a, r)
    BY <1>8, UninstallsBeside
  <2> QED
    BY <1>1, <2>1, SafeCall
<1>10. CASE c = "na" /\ Fails /\ Become(u)
  <2>1. /\ tree' = u /\ hist'.before = b /\ hist'.skipped = k /\ hist'.begun = hist.begun
    BY <1>1, <1>10 DEF Become, TypeInv, History
  <2>2. phase' = "cleanup" /\ result' # "ok"
    BY <1>10 DEF Fails
  <2>3. Safe(p, b, k, u, a)
    BY <1>6, <1>9
  <2> QED
    BY <2>1, <2>2, <2>3 DEF Did
<1>11. CASE c # "na" /\ Does(u, some)
  <2>1. Removed(p, b, k, u, a, r)
    BY <1>3, <1>6, <1>11 DEF Removed
  <2>2. u.rct = tree.rct
    BY <1>6, <1>8
  <2>3. InOrder(p, b, k, u, Tail(q), a, r)
    <3>1. k \subseteq k
      OBVIOUS
    <3> HIDE DEF p, b, k, a, r, q
    <3> QED
      BY <1>1, <1>2, <1>4, <2>1, <2>2, <3>1, InOrderHead
  <2>4. \A e \in DefaultsOf(a, r) : DefaultDone(p, b, k, u, e)
    <3>1. \A e \in DefaultsOf(a, r) : e \in Defaults
      BY DEF DefaultsOf
    <3>2. \A e \in DefaultsOf(a, r) : u.def[e] = tree.def[e] \/ (c # "custom" /\ e[2] = Form(c))
      BY <1>6, <3>1 DEF Uninstalls
    <3>3. \A e \in DefaultsOf(a, r) : tree.def[e] \in {b.def[e], ExpectedDefault(p, b, e)}
      BY <1>2, <1>3 DEF Resumable
    <3>4. c # "custom" => \A e \in DefaultsOf(a, r) : e[2] = Form(c) => u.def[e] = Absent
      BY <1>6
    <3> QED
      BY <1>7, <3>2, <3>3, <3>4 DEF DefaultDone
  <2>5. Remains(p, b, k, u, Tail(q), a, r)
    <3>1. TableDone(p, tree, a, r) <=> TableDone(p, u, a, r)
      BY <2>2 DEF TableDone
    <3>2. DataDone(p, k, u, a, r)
      BY <1>3 DEF DataDone, Stores
    <3>3. \A do : Head(q) = ResCall(do, a, r) => do = "obsolete"
      BY <1>1, <1>2, ResCallParts
    <3>4. Head(q).do \in OnResource
      BY <1>1, <1>2
    <3> HIDE DEF p, b, k, a, r, q
    <3> QED
      BY <1>1, <1>2, <2>4, <3>1, <3>2, <3>3, <3>4, RemainsHead
  <2>6. Safe(p, b, k, u, a) /\ \A t \in some : Safe(p, b, k, t, a)
    BY <1>6, <1>9
  <2>7. AttemptAt(p, b, k, u, Tail(q), a)
    <3>1. Beside(tree, u, a, r) /\ k \subseteq k
      BY <1>6, UninstallsBeside
    <3> QED
      BY <1>1, <1>3, <2>3, <2>5, <3>1, WholeCall
  <2> QED
    BY <1>1, <1>11, <2>6, <2>7, DidDoes
<1>12. CASE c = "file" /\ Unnoticed(tree, DataOf(a, r) \cup files)
  <2> DEFINE S == DataOf(a, r) \cup files
  <2>1. Form(c) = "file"
    BY <1>12 DEF Form
  <2>2. \A e \in DefaultsOf(a, r) : e[2] = "file" => e \in files
    BY DEF DefaultsOf, Defaults
  <2>3. Removed(p, b, k \cup S, tree, a, r)
    <3> HIDE DEF files, c
    <3> QED
      BY <1>3, <1>12, <2>1, <2>2 DEF Removed
  <2>4. \A e \in DefaultsOf(a, r) : DefaultDone(p, b, k \cup S, tree, e)
    <3> TAKE e \in DefaultsOf(a, r)
    <3>1. tree.def[e] \in {b.def[e], ExpectedDefault(p, b, e)}
      BY <1>2, <1>3 DEF Resumable
    <3>2. e[2] # "file" => ExpectedDefault(p, b, e) = b.def[e]
      BY <1>7, <2>1
    <3> HIDE DEF files
    <3> QED
      BY <2>2, <3>1, <3>2 DEF DefaultDone
  <2> HIDE DEF files
  <2> QED
    BY <1>1, <1>12, <2>3, <2>4, PassedOverDid
<1> QED
  BY <1>5, <1>10, <1>11, <1>12

\* What a key had in one database may be in the other, or in both.
Carries(t, u, from, to, a, r) ==
  /\ u.there = t.there /\ u.rct = t.rct /\ u.def = t.def
  /\ \A s \in Slots :
       \/ \A st \in Stores : u.data[st][s] = t.data[st][s]
       \/ /\ s \in DataOf(a, r) /\ t.data[from][s] # Absent
          /\ u.data[to][s] = t.data[from][s]
          /\ u.data[from][s] \in {Absent, t.data[from][s]}
          /\ \A st \in Stores \ {from, to} : u.data[st][s] = t.data[st][s]

Carried(t, u, from, to, s) ==
  /\ u.data[from][s] = Absent
  /\ u.data[to][s] = IF t.data[from][s] # Absent THEN t.data[from][s] ELSE t.data[to][s]

LEMMA CarriesBeside ==
  ASSUME NEW t, NEW u, NEW from, NEW to, NEW a, NEW r, Carries(t, u, from, to, a, r)
  PROVE  Beside(t, u, a, r)
<1>1. \A s \in DataOf(a, r) : s[3] = r
  BY DEF DataOf
<1>2. \A x \in Resources \ {r} : \A s \in SlotsOf(a, x) : s \in Slots /\ s[3] # r
  BY DEF SlotsOf
<1> QED
  BY <1>1, <1>2 DEF Carries, Beside, SameAt

Moved(t, u, S, from, to) ==
  /\ u \in Tree /\ u.there = t.there /\ u.rct = t.rct /\ u.def = t.def
  /\ \A s \in Slots, st \in Stores : s \notin S => u.data[st][s] = t.data[st][s]
  /\ \A s \in S : /\ u.data[from][s] = Absent
                  /\ t.data[from][s] # Absent => u.data[to][s] = t.data[from][s]
                  /\ \A st \in Stores \ {from, to} : u.data[st][s] = t.data[st][s]

LEMMA MoveParts ==
  ASSUME NEW t \in Tree, NEW S \in SUBSET Slots, NEW from \in Stores, NEW to \in Stores, from # to
  PROVE  Moved(t, MoveKeys(t, S, from, to), S, from, to)
<1> DEFINE data == [st \in Stores |-> [s \in Slots |->
                      CASE s \in S /\ t.data[from][s] # Absent /\ st = to -> t.data[from][s]
                        [] s \in S /\ st = from -> Absent
                        [] OTHER -> t.data[st][s]]]
           u == MoveKeys(t, S, from, to)
<1>1. data \in [Stores -> [Slots -> Values]]
  <2>1. \A st \in Stores, s \in Slots : data[st][s] \in {t.data[from][s], Absent, t.data[st][s]}
    OBVIOUS
  <2>2. \A st \in Stores, s \in Slots : t.data[st][s] \in Values
    BY TreeParts
  <2>3. \A st \in Stores, s \in Slots : data[st][s] \in Values
    BY <2>1, <2>2, AbsentType
  <2> QED
    BY <2>3
<1>2. \A s \in Slots, st \in Stores : s \notin S => data[st][s] = t.data[st][s]
  OBVIOUS
<1>3. \A s \in S : /\ data[from][s] = Absent
                   /\ t.data[from][s] # Absent => data[to][s] = t.data[from][s]
                   /\ \A st \in Stores \ {from, to} : data[st][s] = t.data[st][s]
  OBVIOUS
<1>4. u = [t EXCEPT !.data = data]
  BY TreeParts DEF MoveKeys
<1> HIDE DEF data, u
<1>5. u \in Tree /\ u.there = t.there /\ u.rct = t.rct /\ u.data = data /\ u.def = t.def
  BY <1>1, <1>4 DEF Tree
<1> QED
  BY <1>2, <1>3, <1>5 DEF u, Moved

\* The keys of a set are moved, and perhaps one more is copied.
LEMMA MoveCarries ==
  ASSUME NEW t \in Tree, NEW a, NEW r, NEW from \in Stores, NEW to \in Stores, from # to,
         NEW S \in SUBSET DataOf(a, r), \A s \in S : t.data[from][s] # Absent
  PROVE  LET u == MoveKeys(t, S, from, to) IN
         /\ Carries(t, u, from, to, a, r)
         /\ \A s \in S : Carried(t, u, from, to, s)
         /\ \A s \in DataOf(a, r) : t.data[from][s] # Absent =>
              Carries(t, Put(u, to, {s}, t.data[from][s]), from, to, a, r)
<1> DEFINE u == MoveKeys(t, S, from, to)
<1>1. \A s \in DataOf(a, r) : s \in Slots
  BY DEF DataOf, Of
<1>2. S \in SUBSET Slots
  BY <1>1
<1>3. /\ u \in Tree /\ u.there = t.there /\ u.rct = t.rct /\ u.def = t.def
      /\ \A s \in Slots, st \in Stores : s \notin S => u.data[st][s] = t.data[st][s]
      /\ \A s \in S : /\ u.data[from][s] = Absent
                      /\ t.data[from][s] # Absent => u.data[to][s] = t.data[from][s]
                      /\ \A st \in Stores \ {from, to} : u.data[st][s] = t.data[st][s]
  <2>1. Moved(t, u, S, from, to)
    BY <1>2, MoveParts
  <2> HIDE DEF u
  <2> QED
    BY <2>1 DEF Moved
<1> HIDE DEF u
<1>4. Carries(t, u, from, to, a, r)
  BY <1>3 DEF Carries
<1>5. \A s \in S : Carried(t, u, from, to, s)
  BY <1>3 DEF Carried
<1>6. ASSUME NEW x \in DataOf(a, r), t.data[from][x] # Absent
      PROVE  Carries(t, Put(u, to, {x}, t.data[from][x]), from, to, a, r)
  <2> DEFINE v == t.data[from][x]
             w == Put(u, to, {x}, v)
  <2>1. v \in Values
    BY <1>1, TreeParts
  <2> HIDE DEF v
  <2>2. /\ w.there = u.there /\ w.rct = u.rct /\ w.def = u.def
        /\ \A st \in Stores, s \in Slots :
             w.data[st][s] = IF st = to /\ s \in {x} THEN v ELSE u.data[st][s]
    BY <1>3, <2>1, PutParts
  <2> HIDE DEF w
  <2>3. ASSUME NEW s \in Slots
        PROVE  \/ \A st \in Stores : w.data[st][s] = t.data[st][s]
               \/ /\ s \in DataOf(a, r) /\ t.data[from][s] # Absent
                  /\ w.data[to][s] = t.data[from][s]
                  /\ w.data[from][s] \in {Absent, t.data[from][s]}
                  /\ \A st \in Stores \ {from, to} : w.data[st][s] = t.data[st][s]
    <3>1. CASE s # x
      BY <1>3, <2>2, <3>1
    <3>2. CASE s = x
      <4>1. w.data[to][s] = t.data[from][s]
        BY <2>2, <3>2 DEF v
      <4>2. /\ w.data[from][s] = u.data[from][s]
            /\ \A st \in Stores \ {from, to} : w.data[st][s] = u.data[st][s]
        BY <2>2
      <4>3. /\ u.data[from][s] \in {Absent, t.data[from][s]}
            /\ \A st \in Stores \ {from, to} : u.data[st][s] = t.data[st][s]
        BY <1>3
      <4> QED
        BY <1>6, <3>2, <4>1, <4>2, <4>3
    <3> QED
      BY <3>1, <3>2
  <2>4. w.there = t.there /\ w.rct = t.rct /\ w.def = t.def
    BY <1>3, <2>2
  <2>5. Carries(t, w, from, to, a, r)
    BY <2>3, <2>4 DEF Carries
  <2> QED
    BY <2>5 DEF w, v
<1> QED
  BY <1>4, <1>5, <1>6 DEF u

LEMMA ChangePolicy1 ==
  ASSUME Inv, ChangePolicy
  PROVE  LET a == Now.area  r == Now.res
             to == Package.rct[a][r]
             from == IF to = "cached" THEN "wt" ELSE "cached"
         IN \/ Fails /\ UNCHANGED <<tree, hist>>
            \/ /\ to \in Stores
               /\ \E u, some :
                    /\ Does(u, some)
                    /\ Carries(tree, u, from, to, a, r)
                    /\ \A t \in some : Carries(tree, t, from, to, a, r)
                    /\ \A s \in DataOf(a, r) : Carried(tree, u, from, to, s)
            \/ /\ to \in Stores
               /\ \E u, S :
                    /\ Unnoticed(u, S)
                    /\ Carries(tree, u, from, to, a, r)
                    /\ \A s \in DataOf(a, r) \ S : Carried(tree, u, from, to, s)
            \/ Unnoticed(tree, DataOf(a, r))
<1> DEFINE a == Now.area
           r == Now.res
           to == Package.rct[a][r]
           from == IF to = "cached" THEN "wt" ELSE "cached"
           held == {s \in DataOf(a, r) : tree.data[from][s] # Absent}
           moved(S) == MoveKeys(tree, S, from, to)
           both(S, s) == Put(moved(S), to, {s}, tree.data[from][s])
           some == {moved(S) : S \in SUBSET held} \cup UNION {{both(S, s) : s \in held} : S \in SUBSET held}
<1>1. tree \in Tree
  BY DEF Inv, TypeInv
<1>2. \/ to \in Stores /\ Does(moved(held), some)
      \/ to \in Stores /\ \E S \in SUBSET held : Unnoticed(moved(held \ S), S)
      \/ Unnoticed(tree, DataOf(a, r))
      \/ Fails /\ UNCHANGED <<tree, hist>>
  BY DEF ChangePolicy
<1>3. from \in Stores /\ from # to
  BY DEF Stores
<1>4. held \in SUBSET DataOf(a, r) /\ \A s \in DataOf(a, r) : s \in held <=> tree.data[from][s] # Absent
  OBVIOUS
<1> HIDE DEF a, r, to, from, held
<1>5. ASSUME to \in Stores, NEW S \in SUBSET held
      PROVE  /\ Carries(tree, moved(S), from, to, a, r)
             /\ \A s \in S : Carried(tree, moved(S), from, to, s)
             /\ \A s \in held : Carries(tree, both(S, s), from, to, a, r)
  <2>1. S \in SUBSET DataOf(a, r) /\ \A s \in S : tree.data[from][s] # Absent
    BY <1>4
  <2>2. LET u == MoveKeys(tree, S, from, to) IN
         /\ Carries(tree, u, from, to, a, r)
         /\ \A s \in S : Carried(tree, u, from, to, s)
         /\ \A s \in DataOf(a, r) : tree.data[from][s] # Absent =>
              Carries(tree, Put(u, to, {s}, tree.data[from][s]), from, to, a, r)
    BY <1>1, <1>3, <1>5, <2>1, MoveCarries
  <2>3. \A s \in held : s \in DataOf(a, r) /\ tree.data[from][s] # Absent
    BY <1>4
  <2> QED
    BY <2>2, <2>3
\* What is not there is not carried.
<1>6. ASSUME NEW u, Carries(tree, u, from, to, a, r), NEW s \in DataOf(a, r), s \notin held,
             to \in Stores
      PROVE  Carried(tree, u, from, to, s)
  <2>1. s \in Slots /\ tree.data[from][s] = Absent
    BY <1>4, <1>6 DEF DataOf, Of
  <2>2. \A st \in Stores : u.data[st][s] = tree.data[st][s]
    BY <1>6, <2>1 DEF Carries
  <2> QED
    BY <1>3, <1>6, <2>1, <2>2 DEF Carried
<1>7. CASE to \in Stores /\ Does(moved(held), some)
  <2> DEFINE w == moved(held)
  <2>1. Carries(tree, w, from, to, a, r) /\ \A s \in held : Carried(tree, w, from, to, s)
    BY <1>5, <1>7
  <2>2. \A t \in some : Carries(tree, t, from, to, a, r)
    BY <1>5, <1>7
  <2>3. Does(w, some)
    BY <1>7
  <2> HIDE DEF w, some
  <2>4. \A s \in DataOf(a, r) : Carried(tree, w, from, to, s)
    BY <1>6, <1>7, <2>1
  <2> QED
    BY <1>7, <2>1, <2>2, <2>3, <2>4 DEF a, r, to, from
<1>8. CASE to \in Stores /\ \E S \in SUBSET held : Unnoticed(moved(held \ S), S)
  <2>1. PICK S \in SUBSET held : Unnoticed(moved(held \ S), S)
    BY <1>8
  <2> DEFINE w == moved(held \ S)
  <2>2. held \ S \in SUBSET held
    OBVIOUS
  <2>3. Carries(tree, w, from, to, a, r) /\ \A s \in held \ S : Carried(tree, w, from, to, s)
    BY <1>5, <1>8, <2>2
  <2>4. Unnoticed(w, S)
    BY <2>1
  <2> HIDE DEF w
  <2>5. \A s \in DataOf(a, r) \ S : Carried(tree, w, from, to, s)
    BY <1>6, <1>8, <2>3
  <2> QED
    BY <1>8, <2>3, <2>4, <2>5 DEF a, r, to, from
<1>9. CASE Unnoticed(tree, DataOf(a, r))
  BY <1>9 DEF a, r
<1> QED
  BY <1>2, <1>7, <1>8, <1>9

EntryOf(t, a, r) == t.rct[a][r]

\* What a change of policy makes of the resource, m being what is passed over by
\* then.
LEMMA CarriesSafe ==
  ASSUME NEW p, NEW b, NEW k, NEW m, k \subseteq m, NEW t, NEW u, NEW a, NEW r,
         NEW c, NEW d, c = EntryOf(b, a, r), d = EntryOf(p, a, r),
         NEW from \in Stores, d \in Stores, from # d, c \in Stores => c = from, c # d,
         EntryOf(t, a, r) = c, ~Fresh(p, a),
         Resumable(p, b, k, t, a, r), Carries(t, u, from, d, a, r)
  PROVE  /\ Resumable(p, b, m, u, a, r)
         /\ (\A s \in DataOf(a, r) \ m : Carried(t, u, from, d, s)) => Switched(p, b, m, u, a, r)
<1>8. c = b.rct[a][r] /\ d = p.rct[a][r] /\ t.rct[a][r] = c
  BY DEF EntryOf
<1>1. /\ u.rct = t.rct /\ u.def = t.def
      /\ \A s \in Slots :
           \/ \A st \in Stores : u.data[st][s] = t.data[st][s]
           \/ /\ t.data[from][s] # Absent
              /\ u.data[d][s] = t.data[from][s]
              /\ u.data[from][s] \in {Absent, t.data[from][s]}
              /\ \A st \in Stores \ {from, d} : u.data[st][s] = t.data[st][s]
  BY DEF Carries
<1>2. \A s \in DataOf(a, r) \ m : s \in Slots /\ s \in DataOf(a, r) \ k
  BY DEF DataOf, Of
<1>3. \A s \in DataOf(a, r) \ m : SlotKept(p, b, t, a, r, s)
  BY <1>2 DEF Resumable
<1>4. /\ d \in Stores /\ from # d /\ c # d /\ (c \in Stores => c = from)
  OBVIOUS
<1>5. ASSUME NEW s \in DataOf(a, r) \ m PROVE SlotKept(p, b, u, a, r, s)
  <2>1. /\ \A st \in Stores : t.data[st][s] # Absent => st = d \/ b.data[st][s] # Absent
        /\ c \in Stores /\ ~Deleted(p, a, r) /\ Moves(c, d) =>
             IF t.data[c][s] # Absent THEN t.data[c][s] = b.data[c][s]
             ELSE t.data[d][s] = Stored(b, c, d, s)
    BY <1>3, <1>4, <1>8 DEF SlotKept
  <2>2. \A st \in Stores : u.data[st][s] # Absent => st = d \/ t.data[st][s] # Absent
    BY <1>1, <1>2
  <2>3. c \in Stores /\ ~Deleted(p, a, r) /\ Moves(c, d) =>
             IF u.data[c][s] # Absent THEN u.data[c][s] = b.data[c][s]
             ELSE u.data[d][s] = Stored(b, c, d, s)
    <3> HAVE c \in Stores /\ ~Deleted(p, a, r) /\ Moves(c, d)
    <3>1. CASE \A st \in Stores : u.data[st][s] = t.data[st][s]
      BY <1>4, <2>1, <3>1
    <3>2. CASE /\ t.data[from][s] # Absent /\ u.data[d][s] = t.data[from][s]
               /\ u.data[from][s] \in {Absent, t.data[from][s]}
      BY <1>4, <2>1, <3>2 DEF Stored
    <3> QED
      BY <1>1, <1>2, <3>1, <3>2
  <2>4. \A st \in Stores : u.data[st][s] # Absent => st = d \/ b.data[st][s] # Absent
    BY <2>1, <2>2
  <2> QED
    BY <1>4, <1>8, <2>3, <2>4 DEF SlotKept
<1>6. Resumable(p, b, m, u, a, r)
  <2>1. u.rct[a][r] = c /\ u.rct[a][r] # d
    BY <1>1, <1>4, <1>8
  <2>2. \A e \in DefaultsOf(a, r) : u.def[e] \in {b.def[e], ExpectedDefault(p, b, e)}
    BY <1>1 DEF Resumable
  <2> QED
    BY <1>5, <1>8, <2>1, <2>2 DEF Resumable
<1>7. ASSUME \A s \in DataOf(a, r) \ m : Carried(t, u, from, d, s) PROVE Switched(p, b, m, u, a, r)
  <2>1. ASSUME c \in Stores, Moves(c, d), NEW s \in DataOf(a, r) \ m
        PROVE  d \in Stores /\ u.data[c][s] = Absent /\ (~Deleted(p, a, r) => u.data[d][s] = Stored(b, c, d, s))
    <3>1. Carried(t, u, from, d, s)
      BY <1>7
    <3>2. /\ c = from /\ u.data[c][s] = Absent
          /\ u.data[d][s] = IF t.data[c][s] # Absent THEN t.data[c][s] ELSE t.data[d][s]
      BY <1>4, <2>1, <3>1 DEF Carried
    <3>3. ~Deleted(p, a, r) =>
             IF t.data[c][s] # Absent THEN t.data[c][s] = b.data[c][s]
             ELSE t.data[d][s] = Stored(b, c, d, s)
      BY <1>3, <1>4, <1>8, <2>1 DEF SlotKept
    <3>4. ~Deleted(p, a, r) => u.data[d][s] = Stored(b, c, d, s)
      BY <3>2, <3>3 DEF Stored
    <3> QED
      BY <1>4, <3>2, <3>4
  <2> QED
    BY <1>4, <1>8, <2>1 DEF Switched
<1> QED
  BY <1>6, <1>7

LEMMA ChangePolicyDid == ASSUME Inv, ChangePolicy PROVE Did
<1> DEFINE p == Package
           b == hist.before
           k == hist.skipped
           a == Now.area
           r == Now.res
           q == todo
           c == b.rct[a][r]
           d == p.rct[a][r]
           from == IF d = "cached" THEN "wt" ELSE "cached"
<1>1. TypeInv /\ phase = "work" /\ q # <<>> /\ Now.do = "changePolicy" /\ Now.do \in OnResource
  BY DEF Inv, ChangePolicy, Calling, OnResource
<1>2. /\ tree \in Tree /\ a \in Area /\ a \in WithTable(p) /\ r \in Resources
      /\ q \in Seq(Fits(p)) /\ Now = Head(q) /\ Now = ResCall("changePolicy", a, r)
      /\ ~Fresh(p, a) => Resumable(p, b, k, tree, a, r)
      /\ InOrder(p, b, k, tree, q, a, r) /\ Remains(p, b, k, tree, q, a, r)
  BY <1>1, AtResource
<1>3. ~Fresh(p, a) /\ tree.rct[a][r] = c /\ Moves(c, d) /\ d # "none"
  BY <1>1, AtHead
<1>4. /\ ~In(Tail(q), ResCall("obsolete", a, r)) /\ ~In(Tail(q), ResCall("deleteEntry", a, r))
      /\ Deleted(p, a, r) => In(Tail(q), ResCall("clearData", a, r))
  BY <1>1, <1>3, LeftAt
<1>5. from \in Stores /\ from # d
  BY DEF Stores
<1>6. d \in Stores => (c \in Stores => c = from)
  BY <1>3 DEF Moves, Keyed, Stores
<1>7. ASSUME d \in Stores, NEW m, k \subseteq m, NEW u, Carries(tree, u, from, d, a, r)
      PROVE  /\ Safe(p, b, m, u, a)
             /\ (\A s \in DataOf(a, r) \ m : Carried(tree, u, from, d, s))
                  => AttemptAt(p, b, m, u, Tail(q), a)
  <2>1. /\ Resumable(p, b, m, u, a, r)
        /\ (\A s \in DataOf(a, r) \ m : Carried(tree, u, from, d, s))
             => Switched(p, b, m, u, a, r)
    <3>1. c # d
      BY <1>3 DEF Moves
    <3>2. /\ k \subseteq m /\ c = EntryOf(b, a, r) /\ d = EntryOf(p, a, r)
          /\ from \in Stores /\ d \in Stores /\ from # d /\ (c \in Stores => c = from)
          /\ c # d /\ EntryOf(tree, a, r) = c /\ ~Fresh(p, a)
          /\ Resumable(p, b, k, tree, a, r) /\ Carries(tree, u, from, d, a, r)
      BY <1>2, <1>3, <1>5, <1>6, <1>7, <3>1 DEF EntryOf
    <3> HIDE DEF p, b, k, a, r, from, c, d
    <3> QED
      BY <3>2, CarriesSafe
  <2>2. Beside(tree, u, a, r)
    BY <1>7, CarriesBeside
  <2>3. Safe(p, b, m, u, a)
    BY <1>1, <1>7, <2>1, <2>2, SafeCall
  <2>4. ASSUME \A s \in DataOf(a, r) \ m : Carried(tree, u, from, d, s)
        PROVE  AttemptAt(p, b, m, u, Tail(q), a)
    <3>1. Switched(p, b, m, u, a, r)
      BY <2>1, <2>4
    <3>2. u.rct = tree.rct /\ u.def = tree.def
      BY <1>7 DEF Carries
    <3>3. InOrder(p, b, m, u, Tail(q), a, r)
      <4>1. u.rct[a][r] = tree.rct[a][r]
        BY <3>2
      <4> HIDE DEF p, b, k, a, r, q
      <4> QED
        BY <1>1, <1>2, <1>4, <3>1, <4>1, InOrderHead
    <3>4. Remains(p, b, m, u, Tail(q), a, r)
      <4>1. TableDone(p, tree, a, r) <=> TableDone(p, u, a, r)
        BY <3>2 DEF TableDone
      <4>2. DataDone(p, m, u, a, r) \/ In(Tail(q), ResCall("clearData", a, r))
        BY <1>4 DEF DataDone
      <4>3. /\ \A do : Head(q) = ResCall(do, a, r) => do = "changePolicy"
            /\ \A kind : Head(q) # Call("default", a, r, kind)
        BY <1>1, <1>2, ResCallParts, CallParts
      <4>4. \A e : DefaultDone(p, b, k, tree, e) => DefaultDone(p, b, m, u, e)
        BY <1>7, <3>2 DEF DefaultDone
      <4>5. Head(q).do \in OnResource
        BY <1>1, <1>2
      <4> HIDE DEF p, b, k, a, r, q
      <4> QED
        BY <1>1, <1>2, <4>1, <4>2, <4>3, <4>4, <4>5, RemainsHead
    <3> QED
      BY <1>1, <1>3, <1>7, <2>2, <3>3, <3>4, WholeCall
  <2> QED
    BY <2>3, <2>4
<1>8. \/ Fails /\ UNCHANGED <<tree, hist>>
      \/ /\ d \in Stores
         /\ \E u, some :
              /\ Does(u, some)
              /\ Carries(tree, u, from, d, a, r)
              /\ \A t \in some : Carries(tree, t, from, d, a, r)
              /\ \A s \in DataOf(a, r) : Carried(tree, u, from, d, s)
      \/ /\ d \in Stores
         /\ \E u, S :
              /\ Unnoticed(u, S)
              /\ Carries(tree, u, from, d, a, r)
              /\ \A s \in DataOf(a, r) \ S : Carried(tree, u, from, d, s)
      \/ Unnoticed(tree, DataOf(a, r))
  BY ChangePolicy1
<1>9. CASE Fails /\ UNCHANGED <<tree, hist>>
  BY <1>1, <1>9, SafeSelf, DidRefuse
<1> HIDE DEF from
<1>10. CASE /\ d \in Stores
            /\ \E u, some :
              /\ Does(u, some)
              /\ Carries(tree, u, from, d, a, r)
              /\ \A t \in some : Carries(tree, t, from, d, a, r)
              /\ \A s \in DataOf(a, r) : Carried(tree, u, from, d, s)
  <2>1. PICK u, some :
              /\ Does(u, some)
              /\ Carries(tree, u, from, d, a, r)
              /\ \A t \in some : Carries(tree, t, from, d, a, r)
              /\ \A s \in DataOf(a, r) : Carried(tree, u, from, d, s)
    BY <1>10
  <2>2. Safe(p, b, k, u, a) /\ \A t \in some : Safe(p, b, k, t, a)
    BY <1>7, <1>10, <2>1
  <2>3. AttemptAt(p, b, k, u, Tail(q), a)
    BY <1>7, <1>10, <2>1
  <2> QED
    BY <1>1, <2>1, <2>2, <2>3, DidDoes
<1>11. CASE /\ d \in Stores
            /\ \E u, S :
              /\ Unnoticed(u, S)
              /\ Carries(tree, u, from, d, a, r)
              /\ \A s \in DataOf(a, r) \ S : Carried(tree, u, from, d, s)
  <2>1. PICK u, S :
              /\ Unnoticed(u, S)
              /\ Carries(tree, u, from, d, a, r)
              /\ \A s \in DataOf(a, r) \ S : Carried(tree, u, from, d, s)
    BY <1>11
  <2> DEFINE m == k \cup S
  <2>2. k \subseteq m /\ \A s \in DataOf(a, r) \ m : Carried(tree, u, from, d, s)
    BY <2>1
  <2> HIDE DEF m
  <2>3. Safe(p, b, m, u, a) /\ AttemptAt(p, b, m, u, Tail(q), a)
    BY <1>7, <1>11, <2>1, <2>2
  <2> QED
    BY <1>1, <2>1, <2>3, DidUnnoticed DEF m
<1>12. CASE Unnoticed(tree, DataOf(a, r))
  <2>1. Switched(p, b, k \cup DataOf(a, r), tree, a, r)
    BY DEF Switched
  <2> QED
    BY <1>1, <1>12, <2>1, PassedOverDid
<1> QED
  BY <1>8, <1>9, <1>10, <1>11, <1>12

-----------------------------------------------------------------------------
(* Between two attempts. *)

LEMMA SameAsBefore ==
  ASSUME NEW p, NEW k, NEW t, NEW a, NEW r
  PROVE  Resumable(p, t, k, t, a, r) /\ AsBefore(t, t, a, r)
<1>1. ~Moves(t.rct[a][r], t.rct[a][r])
  BY DEF Moves
<1>2. t.rct[a][r] = p.rct[a][r] => Switched(p, t, k, t, a, r) /\ Removed(p, t, k, t, a, r)
  BY <1>1 DEF Switched, Removed
<1>3. \A s : SlotKept(p, t, t, a, r, s)
  BY DEF SlotKept, Stored
<1> QED
  BY <1>2, <1>3 DEF Resumable, AsBefore

\* A client stores a value.
Stores1(t, u, x, s, v) ==
  /\ u.there = t.there /\ u.rct = t.rct /\ u.def = t.def
  /\ \A st \in Stores, y \in Slots : u.data[st][y] = IF st = x /\ y = s THEN v ELSE t.data[st][y]

LEMMA PutOne ==
  ASSUME NEW t \in Tree, NEW x, NEW s, NEW v \in Values
  PROVE  Stores1(t, Put(t, x, {s}, v), x, s, v)
<1> DEFINE u == Put(t, x, {s}, v)
<1>1. /\ u.there = t.there /\ u.rct = t.rct /\ u.def = t.def
      /\ \A st \in Stores, y \in Slots : u.data[st][y] = IF st = x /\ y \in {s} THEN v ELSE t.data[st][y]
  BY PutParts
<1> HIDE DEF u
<1> QED
  BY <1>1 DEF Stores1, u

LEMMA StoresElsewhere ==
  ASSUME NEW t, NEW u, NEW x, NEW s, NEW v, Stores1(t, u, x, s, v), NEW a, NEW r,
         s[1] # a \/ s[3] # r
  PROVE  SameAt(t, u, a, r)
<1>1. \A y \in SlotsOf(a, r) : y \in Slots /\ y # s
  BY DEF SlotsOf
<1> QED
  BY <1>1 DEF Stores1, SameAt

\* What is to be kept is what was written last, in the tree before as well.
LEMMA WriteResumable ==
  ASSUME NEW p, NEW k, NEW b, NEW B, NEW t, NEW u, NEW a, NEW r, NEW s \in SlotsOf(a, r), NEW v,
         v # Absent, NEW x \in Stores, EntryOf(t, a, r) = x,
         NEW c, NEW d, c = EntryOf(b, a, r), d = EntryOf(p, a, r),
         Stores1(t, u, x, s, v),
         c \in Stores => Stores1(b, B, c, s, v), c \notin Stores => B = b
  PROVE  /\ Resumable(p, b, k, t, a, r) => Resumable(p, B, k, u, a, r)
         /\ AsBefore(b, t, a, r) => AsBefore(B, u, a, r)
<1> s \in Slots
  BY DEF SlotsOf
<1>1. /\ u.rct = t.rct /\ u.def = t.def
      /\ \A st \in Stores, y \in Slots : u.data[st][y] = IF st = x /\ y = s THEN v ELSE t.data[st][y]
  BY DEF Stores1
<1>2. /\ B.rct = b.rct /\ B.def = b.def
      /\ \A st \in Stores, y \in Slots :
           B.data[st][y] = IF c \in Stores /\ st = c /\ y = s THEN v ELSE b.data[st][y]
  BY DEF Stores1
<1>3. c = b.rct[a][r] /\ d = p.rct[a][r] /\ t.rct[a][r] = x
  BY DEF EntryOf
<1>4. AsBefore(b, t, a, r) => AsBefore(B, u, a, r)
  <2> SUFFICES ASSUME AsBefore(b, t, a, r) PROVE AsBefore(B, u, a, r)
    OBVIOUS
  <2>1. x = c
    BY <1>3 DEF AsBefore
  <2>2. \A y \in SlotsOf(a, r) : y \in Slots
    BY DEF SlotsOf
  <2> QED
    BY <1>1, <1>2, <1>3, <2>1, <2>2 DEF AsBefore
<1>5. ASSUME Resumable(p, b, k, t, a, r) PROVE Resumable(p, B, k, u, a, r)
  <2>1. x \in {c, d}
    BY <1>3, <1>5 DEF Resumable
  <2>2. \A y \in DataOf(a, r) : y \in Slots
    BY DEF DataOf, Of
  <2>3. \A y \in DataOf(a, r) \ k :
          /\ \A st \in Stores : t.data[st][y] # Absent => st = d \/ b.data[st][y] # Absent
          /\ c \in Stores /\ ~Deleted(p, a, r) =>
               /\ c = d => t.data[c][y] = b.data[c][y]
               /\ Moves(c, d) /\ d \in Stores =>
                    IF t.data[c][y] # Absent THEN t.data[c][y] = b.data[c][y]
                    ELSE t.data[d][y] = Stored(b, c, d, y)
    BY <1>3, <1>5 DEF Resumable, SlotKept
  <2>4. x = d => Switched(p, b, k, t, a, r)
    BY <1>3, <1>5 DEF Resumable
  <2>5. x = d /\ Moves(c, d) /\ c \in Stores => \A y \in DataOf(a, r) \ k :
          /\ d \in Stores /\ t.data[c][y] = Absent
          /\ ~Deleted(p, a, r) => t.data[d][y] = Stored(b, c, d, y)
    BY <1>3, <2>4 DEF Switched
  <2>6. ASSUME NEW y \in Slots, y # s, c \in Stores, d \in Stores
        PROVE  Stored(B, c, d, y) = Stored(b, c, d, y)
    BY <1>2, <2>6 DEF Stored
  <2>7. c \in Stores => Stored(B, c, d, s) = v
    BY <1>2 DEF Stored
  <2>8. Moves(c, d) => c # d
    BY DEF Moves
  <2>9. ASSUME NEW y \in DataOf(a, r) \ k
        PROVE  /\ \A st \in Stores : u.data[st][y] # Absent => st = d \/ B.data[st][y] # Absent
               /\ c \in Stores /\ ~Deleted(p, a, r) =>
                    /\ c = d => u.data[c][y] = B.data[c][y]
                    /\ Moves(c, d) /\ d \in Stores =>
                         IF u.data[c][y] # Absent THEN u.data[c][y] = B.data[c][y]
                         ELSE u.data[d][y] = Stored(B, c, d, y)
    <3>1. y \in Slots
      BY <2>2
    <3>2. CASE y # s
      <4>1. \A st \in Stores : u.data[st][y] = t.data[st][y] /\ B.data[st][y] = b.data[st][y]
        BY <1>1, <1>2, <3>1, <3>2
      <4> QED
        BY <2>3, <2>6, <3>1, <3>2, <4>1
    <3>3. CASE y = s
      <4>1. \A st \in Stores : /\ u.data[st][s] = IF st = x THEN v ELSE t.data[st][s]
                               /\ B.data[st][s] = IF c \in Stores /\ st = c THEN v ELSE b.data[st][s]
        BY <1>1, <1>2
      <4>2. \A st \in Stores : u.data[st][s] # Absent => st = d \/ B.data[st][s] # Absent
        BY <2>1, <2>3, <3>3, <4>1
      <4>3. ASSUME c \in Stores, ~Deleted(p, a, r), c = d PROVE u.data[c][s] = B.data[c][s]
        BY <2>1, <4>1, <4>3
      <4>4. ASSUME c \in Stores, ~Deleted(p, a, r), Moves(c, d), d \in Stores
            PROVE  IF u.data[c][s] # Absent THEN u.data[c][s] = B.data[c][s]
                   ELSE u.data[d][s] = Stored(B, c, d, s)
        <5>1. CASE x = c
          BY <4>1, <4>4, <5>1
        <5>2. CASE x = d
          BY <2>5, <2>7, <2>8, <3>3, <4>1, <4>4, <5>2
        <5> QED
          BY <2>1, <5>1, <5>2
      <4> QED
        BY <3>3, <4>2, <4>3, <4>4
    <3> QED
      BY <3>2, <3>3
  <2>10. ASSUME x = d, Moves(c, d), c \in Stores, NEW y \in DataOf(a, r) \ k
         PROVE  d \in Stores /\ u.data[c][y] = Absent /\ (~Deleted(p, a, r) => u.data[d][y] = Stored(B, c, d, y))
    <3>1. y \in Slots /\ d \in Stores /\ c # d
      BY <2>2, <2>8, <2>10
    <3>2. u.data[c][y] = t.data[c][y]
      BY <1>1, <2>10, <3>1
    <3>3. CASE y # s
      <4>1. u.data[d][y] = t.data[d][y]
        BY <1>1, <3>1, <3>3
      <4> QED
        BY <2>5, <2>6, <2>10, <3>1, <3>2, <3>3, <4>1
    <3>4. CASE y = s
      <4>1. u.data[d][y] = v
        BY <1>1, <2>10, <3>1, <3>4
      <4> QED
        BY <2>5, <2>7, <2>10, <3>2, <3>4, <4>1
    <3> QED
      BY <3>3, <3>4
  <2>11. B.rct[a][r] = c /\ u.rct[a][r] = x
    BY <1>1, <1>2, <1>3
  <2>12. u.rct[a][r] = p.rct[a][r] => Switched(p, B, k, u, a, r) /\ Removed(p, B, k, u, a, r)
    <3>1. d # "none" \/ x # d
      BY DEF Stores
    <3> QED
      BY <1>3, <2>5, <2>10, <2>11, <3>1 DEF Switched, Removed
  <2>13. \A y \in DataOf(a, r) \ k : SlotKept(p, B, u, a, r, y)
    BY <1>3, <2>9, <2>11 DEF SlotKept
  <2>14. \A e \in DefaultsOf(a, r) : u.def[e] \in {B.def[e], ExpectedDefault(p, B, e)}
    <3>1. \A e \in DefaultsOf(a, r) : t.def[e] \in {b.def[e], ExpectedDefault(p, b, e)}
      BY <1>5 DEF Resumable
    <3>2. \A e \in DefaultsOf(a, r) : ExpectedDefault(p, B, e) = ExpectedDefault(p, b, e)
      BY <1>2 DEF ExpectedDefault
    <3> QED
      BY <1>1, <1>2, <3>1, <3>2
  <2>15. u.rct[a][r] \in {B.rct[a][r], p.rct[a][r]}
    BY <1>3, <2>1, <2>11
  <2> QED
    BY <2>12, <2>13, <2>14, <2>15 DEF Resumable
<1> QED
  BY <1>4, <1>5

LEMMA WriteInv == ASSUME Inv, Write PROVE Inv'
<1>1. PICK s \in Slots, v \in Versions :
        /\ tree.rct[s[1]][s[3]] \in Stores
        /\ tree' = Put(tree, tree.rct[s[1]][s[3]], {s}, v)
        /\ hist' = IF hist.begun /\ hist.before.rct[s[1]][s[3]] \in Stores
                     THEN [hist EXCEPT !.before = Put(hist.before, hist.before.rct[s[1]][s[3]], {s}, v)]
                     ELSE hist
  BY DEF Write
<1> DEFINE p == Package
           k == hist.skipped
           b == hist.before
           B == hist'.before
           u == tree'
           x == tree.rct[s[1]][s[3]]
           c == b.rct[s[1]][s[3]]
           d == p.rct[s[1]][s[3]]
<1>2. /\ phase' = "idle" /\ script' = script /\ tree \in Tree /\ b \in Tree /\ hist \in History
      /\ v \in Values /\ v # Absent /\ s[1] \in Area /\ s[3] \in Resources
  BY SlotArea, InstallAssumption DEF Write, Inv, TypeInv, History, Values, Absent
<1>3. /\ hist'.begun = hist.begun /\ hist'.skipped = k
      /\ hist.begun => B = IF c \in Stores THEN Put(b, c, {s}, v) ELSE b
  BY <1>1, <1>2 DEF History
<1>4. TypeInv' /\ PackageInv'
  BY WriteTyped DEF Inv
<1>5. x \in Stores /\ u = Put(tree, x, {s}, v)
  BY <1>1
<1>6. Package' = p
  BY <1>2 DEF Package
<1> HIDE DEF p, k, b, B, u, c, d
<1>7. Stores1(tree, u, x, s, v)
  <2> HIDE DEF x
  <2> QED
    BY <1>2, <1>5, PutOne
<1>8. hist.begun => IF c \in Stores THEN Stores1(b, B, c, s, v) ELSE B = b
  BY <1>2, <1>3, PutOne
<1>9. HousedInv'
  <2>1. \A a \in Area : a \in tree.there \/ \A r \in Resources : EmptyAt(tree, a, r)
    BY <1>2, HousedMeans DEF HousedInv, Inv
  <2>2. ASSUME NEW a \in Area, a \notin u.there, NEW r \in Resources PROVE EmptyAt(u, a, r)
    <3>1. \A y \in Resources : EmptyAt(tree, a, y)
      BY <1>7, <2>1, <2>2 DEF Stores1
    <3>2. s[1] # a
      BY <1>2, <1>5, <3>1 DEF EmptyAt, Stores
    <3>3. SameAt(tree, u, a, r)
      BY <1>7, <3>2, StoresElsewhere
    <3> QED
      BY <3>1, <3>3, DoneSame
  <2>3. u \in Tree
    BY <1>4 DEF TypeInv, u
  <2>4. Housed(u)
    BY <2>2, <2>3, HousedMeans
  <2> QED
    BY <2>4 DEF HousedInv, u
<1>10. ASSUME hist.begun, NEW a \in Area, NEW r \in Resources
       PROVE  /\ Resumable(p, b, k, tree, a, r) => Resumable(p, B, k, u, a, r)
              /\ AsBefore(b, tree, a, r) => AsBefore(B, u, a, r)
  <2>1. CASE s[1] # a \/ s[3] # r
    <3>1. SameAt(tree, u, a, r)
      BY <1>7, <2>1, StoresElsewhere
    <3>2. SameAt(b, B, a, r)
      BY <1>8, <1>10, <2>1, StoresElsewhere, SameSelf
    <3>3. k \subseteq k
      OBVIOUS
    <3> QED
      BY <3>1, <3>2, <3>3, ResumableSame
  <2>2. CASE s[1] = a /\ s[3] = r
    <3>1. x = EntryOf(tree, a, r) /\ c = EntryOf(b, a, r) /\ d = EntryOf(p, a, r)
      BY <2>2 DEF EntryOf, c, d
    <3> HIDE DEF x
    <3>2. x \in Stores /\ Stores1(tree, u, x, s, v)
      BY <1>5, <1>7
    <3>3. (c \in Stores => Stores1(b, B, c, s, v)) /\ (c \notin Stores => B = b)
      BY <1>8, <1>10
    <3>4. s \in SlotsOf(a, r) /\ v # Absent
      BY <1>2, <2>2 DEF SlotsOf
    <3> QED
      BY <3>1, <3>2, <3>3, <3>4, WriteResumable
  <2> QED
    BY <2>1, <2>2
<1>11. ResumeInv'
  <2>1. ASSUME hist.begun, NEW a \in Area, NEW r \in Resources
        PROVE  IF a \in Configured(p) THEN ~Fresh(p, a) => Resumable(p, B, k, u, a, r)
               ELSE AsBefore(B, u, a, r)
    <3>1. IF a \in Configured(p) THEN ~Fresh(p, a) => Resumable(p, b, k, tree, a, r)
          ELSE AsBefore(b, tree, a, r)
      BY <2>1 DEF Inv, ResumeInv, p, b, k
    <3> QED
      BY <1>10, <2>1, <3>1
  <2>2. hist'.begun => \A a \in Area, r \in Resources :
          IF a \in Configured(p) THEN ~Fresh(p, a) => Resumable(p, B, hist'.skipped, u, a, r)
          ELSE AsBefore(B, u, a, r)
    BY <1>3, <2>1
  <2> QED
    BY <1>6, <2>2 DEF ResumeInv, B, u
<1>12. AttemptInv' /\ DoneInv' /\ BegunInv'
  BY <1>2 DEF AttemptInv, DoneInv, BegunInv
<1> QED
  BY <1>4, <1>9, <1>11, <1>12 DEF Inv

LEMMA BeginInv == ASSUME Inv, Begin PROVE Inv'
<1>1. /\ phase' = "unarchive" /\ UNCHANGED <<tree, script>> /\ hist \in History
      /\ hist' = [hist EXCEPT !.begun = TRUE, !.start = tree,
                              !.before = IF hist.begun THEN hist.before ELSE tree,
                              !.skipped = IF hist.begun THEN hist.skipped ELSE {}]
  BY DEF Begin, Inv, TypeInv
<1>2. /\ hist'.begun /\ hist'.skipped = (IF hist.begun THEN hist.skipped ELSE {})
      /\ hist'.before = IF hist.begun THEN hist.before ELSE tree
  BY <1>1 DEF History
<1>3. TypeInv' /\ PackageInv' /\ Package' = Package
  BY <1>1, BeginTyped DEF Inv, Package
<1>4. ResumeInv'
  <2>1. CASE hist.begun
    BY <1>1, <1>2, <1>3, <2>1 DEF ResumeInv, Inv
  <2>2. CASE ~hist.begun
    <3>1. hist'.before = tree /\ tree' = tree
      BY <1>1, <1>2, <2>2
    <3> QED
      BY <3>1, SameAsBefore DEF ResumeInv
  <2> QED
    BY <2>1, <2>2
<1>5. HousedInv' /\ AttemptInv' /\ DoneInv' /\ BegunInv'
  BY <1>1, <1>2 DEF HousedInv, AttemptInv, DoneInv, BegunInv, Inv
<1> QED
  BY <1>3, <1>4, <1>5 DEF Inv

\* A step that leaves the tree alone, and the package.
LEMMA StillInv ==
  ASSUME Inv, TypeInv', PackageInv', UNCHANGED <<tree, script, hist>>, phase # "idle"
  PROVE  HousedInv' /\ ResumeInv' /\ BegunInv'
<1>1. Package' = Package
  BY DEF Package
<1> QED
  BY <1>1 DEF Inv, HousedInv, ResumeInv, BegunInv

LEMMA UnarchiveInv == ASSUME Inv, Unarchive PROVE Inv'
<1>1. TypeInv' /\ PackageInv' /\ UNCHANGED <<tree, script, hist>> /\ phase = "unarchive"
  BY UnarchiveTyped DEF Inv, Unarchive
<1>2. HousedInv' /\ ResumeInv' /\ BegunInv'
  BY <1>1, StillInv
<1>3. Package' = Package
  BY <1>1 DEF Package
<1>4. \/ phase' = "work" /\ todo' = PublicPlan(Package) \o GroupsPlan(Package) \o AppsPlan(Package)
      \/ phase' \in {"cleanup", "idle"} /\ result' # "ok"
  BY DEF Unarchive, Fails, Dies
<1>5. CASE phase' = "work" /\ todo' = PublicPlan(Package) \o GroupsPlan(Package) \o AppsPlan(Package)
  <2>1. Package \in Packages
    <3>1. script \in Seq(Packages) /\ script # <<>>
      BY <1>1 DEF Inv, TypeInv, PackageInv
    <3> QED
      BY <3>1 DEF Package
  <2>2. \A a \in Configured(Package) : a \in Area
    BY DEF Configured
  <2>3. \A a \in Area : todo' \in Orderly(Package, a) /\ (a \in Configured(Package) => Reached(Package, a, todo'))
    BY <1>5, <2>1, PackageOrderly
  <2>4. ASSUME NEW a \in Configured(Package)
        PROVE  ResourcesFirst(todo') /\ AttemptAt(Package, hist.before, hist.skipped, tree, todo', a)
    <3> DEFINE q == todo'
    <3>1. q \in Orderly(Package, a) /\ Reached(Package, a, q)
      BY <2>2, <2>3
    <3> HIDE DEF q
    <3>2. ResourcesFirst(q) /\ AttemptAt(Package, hist.before, hist.skipped, tree, q, a)
      BY <3>1, PlanAttempt
    <3> QED
      BY <3>2 DEF q
  <2>5. ResourcesFirst(todo')
    <3> DEFINE q == todo'
               S == Prepares(Package)
    <3>1. q \in Seq(S)
      <4>1. q \in Orderly(Package, Public)
        BY <2>3 DEF Area, Shared
      <4> QED
        BY <4>1 DEF Orderly
    <3>2. \A c \in S : c.do \notin OnResource
      BY DEF Prepares
    <3> HIDE DEF q, S
    <3>3. \A i \in 1..Len(q) : q[i].do \notin OnResource
      BY <3>1, <3>2, ElementType
    <3>4. ResourcesFirst(q)
      BY <3>1, <3>3, NoCalls
    <3> QED
      BY <3>4 DEF q
  <2>6. AttemptInv'
    BY <1>1, <1>3, <2>4, <2>5 DEF AttemptInv
  <2>7. DoneInv'
    BY <1>5 DEF DoneInv
  <2> QED
    BY <1>1, <1>2, <2>6, <2>7 DEF Inv
<1>6. CASE phase' \in {"cleanup", "idle"} /\ result' # "ok"
  <2>1. AttemptInv' /\ DoneInv'
    BY <1>6 DEF AttemptInv, DoneInv
  <2> QED
    BY <1>1, <1>2, <2>1 DEF Inv
<1> QED
  BY <1>4, <1>5, <1>6

\* No call is left: what was to be true is.
LEMMA AttemptDone ==
  ASSUME NEW p, NEW b, NEW k, NEW t, NEW a, AttemptAt(p, b, k, t, <<>>, a)
  PROVE  /\ a \in WithTable(p) => a \in t.there
         /\ \A r \in Resources :
              /\ Fresh(p, a) => Cleaned(p, b, t, a, r)
              /\ a \in WithTable(p) =>
                   /\ TableDone(p, t, a, r)
                   /\ \A e \in DefaultsOf(a, r) : DefaultDone(p, b, k, t, e)
                   /\ ~Fresh(p, a) => DataDone(p, k, t, a, r)
<1> DEFINE q == <<>>
<1>1. \A c : ~In(q, c)
  BY InEmpty
<1>2. AttemptAt(p, b, k, t, q, a)
  OBVIOUS
<1> HIDE DEF q
<1>3. \A r \in Resources : Fresh(p, a) => Cleaned(p, b, t, a, r)
  BY <1>1, <1>2 DEF AttemptAt, Anew
<1>4. a \in WithTable(p) => a \in t.there /\ \A r \in Resources : Remains(p, b, k, t, q, a, r)
  BY <1>1, <1>2 DEF AttemptAt, Hosted
<1> QED
  BY <1>1, <1>3, <1>4 DEF Remains

LEMMA InstalledInv == ASSUME Inv, Installed PROVE Inv'
<1>1. /\ TypeInv' /\ PackageInv' /\ UNCHANGED <<tree, script, hist>>
      /\ phase = "work" /\ phase' = "cleanup" /\ todo = <<>>
  BY CleanupTyped DEF Inv, Installed
<1>2. HousedInv' /\ ResumeInv' /\ BegunInv'
  BY <1>1, StillInv
<1>3. Package' = Package
  BY <1>1 DEF Package
<1>4. \A a \in Configured(Package) :
        AttemptAt(Package, hist.before, hist.skipped, tree, <<>>, a)
  BY <1>1 DEF Inv, AttemptInv
<1>5. \A a \in Configured(Package) :
        /\ a \in WithTable(Package) => a \in tree.there
        /\ \A r \in Resources :
             /\ Fresh(Package, a) => Cleaned(Package, hist.before, tree, a, r)
             /\ a \in WithTable(Package) =>
                  /\ TableDone(Package, tree, a, r)
                  /\ \A e \in DefaultsOf(a, r) : DefaultDone(Package, hist.before, hist.skipped, tree, e)
                  /\ ~Fresh(Package, a) => DataDone(Package, hist.skipped, tree, a, r)
  BY <1>4, AttemptDone
<1>6. \A a \in WithTable(Package) : a \in Configured(Package)
  BY DEF WithTable
<1>7. DoneInv'
  BY <1>1, <1>3, <1>5, <1>6 DEF DoneInv
<1>8. AttemptInv'
  BY <1>1 DEF AttemptInv
<1> QED
  BY <1>1, <1>2, <1>7, <1>8 DEF Inv

LEMMA CleanupInv == ASSUME Inv, Cleanup PROVE Inv'
<1>1. /\ TypeInv' /\ PackageInv' /\ UNCHANGED <<tree, script, hist>> /\ phase = "cleanup"
  BY CleanupTyped DEF Inv, Cleanup
<1>2. HousedInv' /\ ResumeInv' /\ BegunInv'
  BY <1>1, StillInv
<1>3. Package' = Package
  BY <1>1 DEF Package
<1>4. phase' \in {"reply", "idle"} /\ (result' = "ok" => result = "ok")
  BY DEF Cleanup, Dies
<1>5. DoneInv' /\ AttemptInv'
  BY <1>1, <1>3, <1>4 DEF DoneInv, AttemptInv, Inv
<1> QED
  BY <1>1, <1>2, <1>5 DEF Inv

LEMMA ReplyInv == ASSUME Inv, Reply \/ Abandon PROVE Inv'
<1>1. TypeInv' /\ PackageInv' /\ phase' = "idle" /\ tree' = tree
  BY ReplyTyped DEF Inv
<1>2. (hist' = hist /\ script' = script) \/ ~hist'.begun
  BY DEF Reply, Abandon, Inv, TypeInv, History
<1>3. ResumeInv'
  <2>1. hist' = hist /\ script' = script => Package' = Package
    BY DEF Package
  <2> QED
    BY <1>1, <1>2, <2>1 DEF ResumeInv, Inv
<1>4. HousedInv' /\ AttemptInv' /\ DoneInv' /\ BegunInv'
  BY <1>1 DEF HousedInv, AttemptInv, DoneInv, BegunInv, Inv
<1> QED
  BY <1>1, <1>3, <1>4 DEF Inv

LEMMA WronglyInv == ASSUME Inv, Wrongly PROVE Inv'
<1>1. Wrongly /\ ~ConfigureFolder
  BY DEF Wrongly, ConfigureFolder, Calling
<1>2. TypeInv' /\ PackageInv'
  BY <1>1, CallTyped DEF Inv
<1>3. UNCHANGED <<tree, script, hist>> /\ phase = "work" /\ phase' = "cleanup" /\ result' # "ok"
  BY DEF Wrongly, Calling, Fails, Kept
<1>4. HousedInv' /\ ResumeInv' /\ BegunInv'
  BY <1>2, <1>3, StillInv
<1>5. DoneInv' /\ AttemptInv'
  BY <1>3 DEF DoneInv, AttemptInv
<1> QED
  BY <1>2, <1>4, <1>5 DEF Inv

LEMMA FolderInv == ASSUME Inv, ConfigureFolder PROVE Inv'
<1>1. UNCHANGED <<tree, script, hist, phase>> /\ phase = "work"
  BY DEF ConfigureFolder, Calling
<1>2. TypeInv' /\ PackageInv'
  BY FolderTyped DEF Inv
<1>3. HousedInv' /\ ResumeInv' /\ BegunInv'
  BY <1>1, <1>2, StillInv
<1>4. AttemptInv'
  BY FolderAttempt DEF Inv
<1>5. DoneInv'
  BY <1>1 DEF DoneInv
<1> QED
  BY <1>2, <1>3, <1>4, <1>5 DEF Inv

LEMMA CallInv == ASSUME Inv, Configures, ~ConfigureFolder PROVE Inv'
<1>1. TypeInv' /\ PackageInv' /\ Goes /\ phase = "work" /\ todo # <<>>
  BY CallTyped DEF Inv
<1>2. Did
  BY RemoveDataDid, GetContextDid, GroupMembersDid, LinkPublicDid, ObsoletedDid, ChangePolicyDid,
     SetDefaultDid, ClearDataDid, UpdateRctDid DEF Configures
<1>3. Now.do # "wrong"
  BY DEF Configures, RemoveData, GetContext, GroupMembers, LinkPublic, Obsoleted, ChangePolicy,
         SetDefault, ClearData, UpdateRct, Calling
<1>4. TypeInv /\ PackageInv /\ HousedInv /\ ResumeInv /\ AttemptInv /\ BegunInv
  BY DEF Inv
<1>5. HousedInv' /\ ResumeInv' /\ AttemptInv' /\ DoneInv' /\ BegunInv'
  BY <1>1, <1>2, <1>3, <1>4, DidInv
<1> QED
  BY <1>1, <1>5 DEF Inv

LEMMA InitInv == ASSUME Init PROVE Inv
<1>1. TypeInv /\ PackageInv
  BY InitTyped
<1>2. HousedInv
  BY ScenarioAssumption DEF Init, HousedInv
<1>3. phase = "idle" /\ ~hist.begun
  BY DEF Init
<1> QED
  BY <1>1, <1>2, <1>3 DEF Inv, ResumeInv, AttemptInv, DoneInv, BegunInv

LEMMA NextInv == ASSUME Inv, [Next]_vars PROVE Inv'
<1>1. CASE UNCHANGED vars
  <2>1. UNCHANGED <<tree, phase, todo, result, script, hist, faults, writes>>
    BY <1>1 DEF vars
  <2>2. Package' = Package
    BY <2>1 DEF Package
  <2>3. TypeInv' /\ PackageInv'
    BY <1>1, NextTyped DEF Inv
  <2> QED
    BY <2>1, <2>2, <2>3 DEF Inv, HousedInv, ResumeInv, AttemptInv, DoneInv, BegunInv
<1>2. CASE Configures
  BY <1>2, CallInv, FolderInv
<1>3. CASE Begin \/ Unarchive \/ Wrongly \/ Installed \/ Cleanup \/ Reply \/ Abandon \/ Write
  BY <1>3, BeginInv, UnarchiveInv, WronglyInv, InstalledInv, CleanupInv, ReplyInv, WriteInv
<1> QED
  BY <1>1, <1>2, <1>3 DEF Next

LEMMA Always == Spec => []Inv
<1>1. Init => Inv
  BY InitInv
<1>2. Inv /\ [Next]_vars => Inv'
  BY NextInv
<1> QED
  BY <1>1, <1>2, PTL DEF Spec

-----------------------------------------------------------------------------
(* What a successful installation has made of the target. *)

LEMMA ToldTo == ASSUME Inv PROVE InstalledAsToldTo
<1> SUFFICES ASSUME Success PROVE InstalledAsToldTo
  BY DEF InstalledAsToldTo
<1> DEFINE p == Package
           b == hist.before
           k == hist.skipped
<1>1. phase = "reply" /\ result = "ok" /\ tree \in Tree /\ script \in Seq(Packages) /\ script # <<>>
  BY DEF Success, Inv, TypeInv, PackageInv
<1>2. p \in Packages
  BY <1>1 DEF Package
<1>3. /\ \A a \in Configured(p), r \in Resources : Fresh(p, a) => Cleaned(p, b, tree, a, r)
      /\ \A a \in WithTable(p) : a \in tree.there
      /\ \A a \in WithTable(p), r \in Resources :
           /\ TableDone(p, tree, a, r) /\ \A e \in DefaultsOf(a, r) : DefaultDone(p, b, k, tree, e)
  BY <1>1 DEF Inv, DoneInv
<1>4. \A a \in Area : /\ tree.rct[a] \in [Resources -> Configs]
                      /\ p.rct[a] \in [Resources -> Configs]
  BY <1>1, <1>2, TreeParts DEF Packages
<1>5. \A a \in Configured(p) : a \in Area
  BY DEF Configured
<1> HIDE DEF p, b, k
<1>6. ASSUME NEW e \in Defaults PROVE e[4] \in Resources /\ e \in DefaultsOf(e[3], e[4])
  BY DEF DefaultsOf, Defaults
<1>7. ASSUME NEW a \in WithTable(p)
      PROVE  /\ a \in tree.there /\ tree.rct[a] = p.rct[a]
             /\ \A e \in Defaults \ k : e[3] = a => tree.def[e] = ExpectedDefault(p, b, e)
  <2>1. a \in Area
    BY <1>5 DEF WithTable
  <2>2. \A r \in Resources : tree.rct[a][r] = p.rct[a][r]
    BY <1>3 DEF TableDone
  <2>3. tree.rct[a] = p.rct[a]
    BY <1>4, <2>1, <2>2
  <2>4. ASSUME NEW e \in Defaults \ k, e[3] = a PROVE tree.def[e] = ExpectedDefault(p, b, e)
    BY <1>3, <1>6, <2>4 DEF DefaultDone
  <2> QED
    BY <1>3, <2>3, <2>4
<1>8. ASSUME NEW a \in Configured(p) \ WithTable(p)
      PROVE  /\ tree.rct[a] = NoTable
             /\ \A e \in Defaults : e[3] = a => tree.def[e] = Absent
  <2>1. Fresh(p, a)
    BY DEF Fresh, WithTable
  <2>2. \A r \in Resources : Cleaned(p, b, tree, a, r)
    BY <1>3, <2>1
  <2>3. \A r \in Resources : tree.rct[a][r] = "none"
    BY <2>2 DEF Cleaned
  <2>4. tree.rct[a] = NoTable
    BY <1>4, <1>5, <2>3 DEF NoTable
  <2>5. ASSUME NEW e \in Defaults, e[3] = a PROVE tree.def[e] = Absent
    BY <1>6, <2>2, <2>5 DEF Cleaned
  <2> QED
    BY <2>4, <2>5
<1> QED
  BY <1>7, <1>8 DEF InstalledAsToldTo, p, b, k

\* What is known of a resource then, in an area that was not made anew.
LEMMA AtSuccess ==
  ASSUME Inv, Success, NEW s \in Slots
  PROVE  LET p == Package  b == hist.before  k == hist.skipped  a == s[1]  r == s[3] IN
         /\ a \in Area /\ r \in Resources /\ s \in SlotsOf(a, r)
         /\ a \notin Configured(p) => AsBefore(b, tree, a, r)
         /\ a \in Configured(p) /\ Fresh(p, a) => Cleaned(p, b, tree, a, r)
         /\ a \in Configured(p) /\ ~Fresh(p, a) =>
              /\ tree.rct[a][r] = p.rct[a][r] /\ DataDone(p, k, tree, a, r)
              /\ Switched(p, b, k, tree, a, r) /\ Removed(p, b, k, tree, a, r)
              /\ \A y \in DataOf(a, r) \ k : SlotKept(p, b, tree, a, r, y)
<1> DEFINE p == Package
           b == hist.before
           k == hist.skipped
           a == s[1]
           r == s[3]
<1>1. phase = "reply" /\ result = "ok" /\ hist.begun
  BY DEF Success, Inv, BegunInv
<1>2. a \in Area /\ r \in Resources /\ s \in SlotsOf(a, r)
  BY SlotArea DEF SlotsOf
<1>3. /\ \A e \in Configured(p), x \in Resources : Fresh(p, e) => Cleaned(p, b, tree, e, x)
      /\ \A e \in WithTable(p), x \in Resources :
           TableDone(p, tree, e, x) /\ (~Fresh(p, e) => DataDone(p, k, tree, e, x))
  BY <1>1 DEF Inv, DoneInv
<1>4. \A e \in Area, x \in Resources :
        IF e \in Configured(p) THEN ~Fresh(p, e) => Resumable(p, b, k, tree, e, x)
        ELSE AsBefore(b, tree, e, x)
  BY <1>1 DEF Inv, ResumeInv
<1> HIDE DEF p, b, k, a, r
<1>5. a \in Configured(p) /\ ~Fresh(p, a) => a \in WithTable(p)
  BY DEF Fresh, WithTable
<1>6. ASSUME a \in Configured(p), ~Fresh(p, a)
      PROVE  /\ tree.rct[a][r] = p.rct[a][r] /\ DataDone(p, k, tree, a, r)
             /\ Switched(p, b, k, tree, a, r) /\ Removed(p, b, k, tree, a, r)
             /\ \A y \in DataOf(a, r) \ k : SlotKept(p, b, tree, a, r, y)
  <2>1. Resumable(p, b, k, tree, a, r) /\ TableDone(p, tree, a, r) /\ DataDone(p, k, tree, a, r)
    BY <1>2, <1>3, <1>4, <1>5, <1>6
  <2> QED
    BY <2>1 DEF Resumable, TableDone
<1> QED
  BY <1>2, <1>3, <1>4, <1>6 DEF p, b, k, a, r

LEMMA FormsMove ==
  ASSUME NEW c, NEW d, SameForm(c, d), c # d
  PROVE  Moves(c, d)
BY DEF SameForm, Moves

LEMMA DataKept == ASSUME Inv PROVE UserDataKept
<1> SUFFICES ASSUME Success, NEW s \in Slots \ hist.skipped
             PROVE  LET a == s[1]  c == hist.before.rct[a][s[3]]  d == tree.rct[a][s[3]]
                    IN /\ a \in Configured(Package) =>
                            ~Fresh(Package, a) /\ ~Deleted(Package, a, s[3]) /\ s[2] \notin OtherOwners
                       /\ SameForm(c, d) /\ c \in Stores
                       => /\ d \in Stores
                          /\ tree.data[d][s] = IF hist.before.data[c][s] # Absent
                                                 THEN hist.before.data[c][s] ELSE hist.before.data[d][s]
  BY DEF UserDataKept, Found
<1> DEFINE p == Package
           b == hist.before
           a == s[1]
           r == s[3]
           c == b.rct[a][r]
           d == tree.rct[a][r]
<1>1. /\ a \in Area /\ r \in Resources /\ s \in SlotsOf(a, r)
      /\ a \notin Configured(p) => AsBefore(b, tree, a, r)
      /\ a \in Configured(p) /\ ~Fresh(p, a) =>
              /\ d = p.rct[a][r]
              /\ Switched(p, b, hist.skipped, tree, a, r)
              /\ \A y \in DataOf(a, r) \ hist.skipped : SlotKept(p, b, tree, a, r, y)
  BY AtSuccess
<1>2. s[2] \notin OtherOwners => s \in DataOf(a, r) \ hist.skipped
  BY DEF DataOf, Of
<1> SUFFICES ASSUME a \in Configured(p) => ~Fresh(p, a) /\ ~Deleted(p, a, r) /\ s[2] \notin OtherOwners,
                    SameForm(c, d), c \in Stores
             PROVE  d \in Stores /\ tree.data[d][s] = Stored(b, c, d, s)
  BY DEF Stored
<1>3. CASE a \notin Configured(p)
  <2>1. d = c /\ tree.data[c][s] = b.data[c][s]
    BY <1>1, <1>3 DEF AsBefore
  <2> QED
    BY <2>1 DEF Stored
<1>4. CASE a \in Configured(p)
  <2>1. /\ d = p.rct[a][r] /\ Switched(p, b, hist.skipped, tree, a, r)
        /\ SlotKept(p, b, tree, a, r, s) /\ ~Deleted(p, a, r) /\ s \in DataOf(a, r) \ hist.skipped
    BY <1>1, <1>2, <1>4
  <2>2. CASE c = d
    <3>1. tree.data[c][s] = b.data[c][s]
      BY <2>1, <2>2 DEF SlotKept
    <3> QED
      BY <2>2, <3>1 DEF Stored
  <2>3. CASE c # d
    <3>1. Moves(c, d)
      BY <2>3, FormsMove
    <3> QED
      BY <2>1, <3>1 DEF Switched
  <2> QED
    BY <2>2, <2>3
<1> QED
  BY <1>3, <1>4

LEMMA NothingLeft == ASSUME Inv PROVE NothingLeftBehind
<1> SUFFICES ASSUME Success, NEW s \in Slots \ hist.skipped, NEW st \in Stores,
                    s[1] \in Configured(Package), tree.data[st][s] # Absent
             PROVE  LET a == s[1]  c == hist.before.rct[a][s[3]]  d == tree.rct[a][s[3]]
                    IN /\ ~Fresh(Package, a)
                       /\ s[2] \notin OtherOwners =>
                            \/ st = d /\ ~Deleted(Package, a, s[3])
                            \/ hist.before.data[st][s] # Absent
                                 /\ (st # c \/ (~SameForm(c, d) /\ d # "none"))
  BY DEF NothingLeftBehind
<1> DEFINE p == Package
           b == hist.before
           a == s[1]
           r == s[3]
           c == b.rct[a][r]
           d == tree.rct[a][r]
<1>1. /\ a \in Area /\ r \in Resources /\ s \in SlotsOf(a, r)
      /\ Fresh(p, a) => Cleaned(p, b, tree, a, r)
      /\ ~Fresh(p, a) =>
              /\ d = p.rct[a][r] /\ DataDone(p, hist.skipped, tree, a, r)
              /\ Switched(p, b, hist.skipped, tree, a, r) /\ Removed(p, b, hist.skipped, tree, a, r)
              /\ \A y \in DataOf(a, r) \ hist.skipped : SlotKept(p, b, tree, a, r, y)
  BY AtSuccess
<1>2. ~Fresh(p, a)
  BY <1>1 DEF Cleaned
<1>3. ASSUME s[2] \notin OtherOwners
      PROVE  \/ st = d /\ ~Deleted(p, a, r)
             \/ b.data[st][s] # Absent /\ (st # c \/ (~SameForm(c, d) /\ d # "none"))
  <2>1. s \in DataOf(a, r) \ hist.skipped
    BY <1>3 DEF DataOf, Of
  <2>2. /\ d = p.rct[a][r] /\ DataDone(p, hist.skipped, tree, a, r)
        /\ Switched(p, b, hist.skipped, tree, a, r) /\ Removed(p, b, hist.skipped, tree, a, r)
        /\ SlotKept(p, b, tree, a, r, s)
    BY <1>1, <1>2, <2>1
  <2>3. CASE st = d
    BY <2>1, <2>2, <2>3 DEF DataDone
  <2>4. CASE st # d
    <3>1. b.data[st][s] # Absent
      BY <2>2, <2>4 DEF SlotKept
    <3>2. ASSUME st = c, d = "none" PROVE FALSE
      BY <2>1, <2>2, <3>2 DEF Removed, Stores
    <3>3. ASSUME st = c, SameForm(c, d) PROVE FALSE
      <4>1. Moves(c, d)
        BY <2>4, <3>3, FormsMove
      <4> QED
        BY <2>1, <2>2, <3>3, <4>1 DEF Switched
    <3> QED
      BY <3>1, <3>2, <3>3
  <2> QED
    BY <2>3, <2>4
<1> QED
  BY <1>2, <1>3

\* An installation that reports success has made the tables and defaults of the
\* areas the package configures what package, rule and exceptions say, whatever
\* the attempts that were broken off before it, but for defaults passed over
\* without an error (persAdminResourceConfigAdd,
\* pas_conf_configureDataForInstallFolder).
THEOREM Told == Spec => []InstalledAsToldTo
<1>1. Inv => InstalledAsToldTo
  BY ToldTo
<1> QED
  BY <1>1, Always, PTL

\* A client finds what it stored after a successful installation, through the
\* table there is then: a change of policy moves it, and no failed attempt loses
\* it, unless it was passed over without an error
\* (pas_conf_processPolicyChangesForKey, pas_conf_updateRctForInstallFolder).
THEOREM DataSafe == Spec => []UserDataKept
<1>1. Inv => UserDataKept
  BY DataKept
<1> QED
  BY <1>1, Always, PTL

\* After a successful installation nothing is left of what became obsolete, was to
\* be deleted or was moved, but for what was passed over without an error
\* (pas_conf_uninstallObsoleteKey,
\* pas_conf_deleteNonDefaultDataForResource, pas_conf_removeDataForApp).
THEOREM LeavesNothing == Spec => []NothingLeftBehind
<1>1. Inv => NothingLeftBehind
  BY NothingLeft
<1> QED
  BY <1>1, Always, PTL

=============================================================================
