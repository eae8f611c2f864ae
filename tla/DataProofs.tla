----------------------------- MODULE DataProofs ------------------------------
(***************************************************************************)
(* Proofs about the operations on the data (DataRequests): the type        *)
(* invariant, that no operation touches data its request does not select,  *)
(* and that a recovery changes guarded data only where the resource tables *)
(* agree.  The three go the same way: what a call may do is read off the   *)
(* call, every plan is made of calls that fit the request, and a step of   *)
(* the operation does no more than its call may.                           *)
(*                                                                         *)
(* And that a restore to default and a deletion of a user's data that      *)
(* report success have deleted all they select: of everything that is      *)
(* selected, it is gone already, or a call that is left deletes it.        *)
(***************************************************************************)
EXTENDS DataRequests, FlattenLemmas, FiniteSetTheorems

-----------------------------------------------------------------------------
(* What the calls of a request's plan may be. *)

MayWrite(r) == r.op \in {"recover", "restore", "delete"}

OnFolders == {"copy", "clear", "clearSeat"}
OnKeys == {"copyKeys", "clearKeys"}

Labels ==
  {"", "node", "user", "databases", "application", "local", "shared", "user_all",
   "appl_node", "appl_user", "local_keys", "shared_keys", "keys", "appl_data",
   "non_user_shared", "public_files", "group_files", "user_shared", "user_local",
   "import_links", "all_data"}
    \cup ((Area \cup {"groups", "mount"}) \X {"mnt-c", "mnt-wt"})

Calls ==
  [do : OnFolders \cup OnKeys \cup
          {"list", "listNothing", "checkRct", "copyRct", "copyAll", "exportLinks",
           "importLinks", "clearConfFolder", "clearConfDb", "listArea", "return", "testSum"},
   from : {"data", "coll", "ext"}, to : {"data", "coll"},
   area : Area \cup {""}, set : SUBSET (Folders \cup Keys),
   db : Databases \cup {NoDb}, err : {"abort", "ignore", "count", "leave"},
   fn : Labels]

\* A call concerns folders, or the keys of one database, or an area.
Typed(c) ==
  /\ c.do \in OnFolders => c.set \in SUBSET Folders
  /\ c.do \in OnKeys => /\ c.db \in Databases
                        /\ c.set \in SUBSET {k \in Keys : <<k[1], k[3]>> = c.db}
  /\ c.do \in {"checkRct", "copyRct", "clearConfFolder", "clearConfDb", "listArea"} =>
       c.area \in Area
  /\ c.do \in {"exportLinks", "importLinks"} => c.area \in Apps

\* It changes nothing of the target that the request does not select.
Selected(r, c) ==
  c.to = "data" =>
    /\ c.do \in OnFolders => \A f \in c.set : MayWrite(r) /\ SelectsFile(r, f)
    /\ c.do \in OnKeys => \A k \in c.set : MayWrite(r) /\ SelectsKey(r, k)

\* The functions that end a recovery when the resource tables differ.
CheckLabels == {"appl_data", "user_local"}

\* What keeps a check together with what it guards.
Checking(r, c) ==
  r.op = "recover" =>
    /\ c.do = "checkRct" => c.err = "count" \/ (c.err = "abort" /\ c.fn \in CheckLabels)
    /\ c.err \in {"count", "leave"} => c.fn \notin CheckLabels

Fits(r) == {c \in Calls : Typed(c) /\ Selected(r, c) /\ Checking(r, c)}

\* The call may change guarded data of an area: an application's, or the user's
\* files of a shared one.
Writes(c, a) ==
  /\ c.to = "data"
  /\ \/ c.do \in OnFolders /\ \E f \in c.set : f[1] = a /\ (a \in Apps \/ f[2] # Node)
     \/ c.do \in OnKeys /\ a \in Apps /\ c.db[1] = a

\* Call j of a plan is a check without which call i is not reached.
Guards(p, j, i, a) ==
  /\ p[j].do = "checkRct" /\ p[j].area = a
  /\ p[j].err = "abort" \/ \A m \in j..i : p[m].fn = p[j].fn
GuardedAt(p, i) ==
  \A a \in Area : Writes(p[i], a) => \E j \in 1..(i - 1) : Guards(p, j, i, a)

Plans(r) ==
  {p \in Seq(Fits(r)) : r.op = "recover" => \A i \in 1..Len(p) : GuardedAt(p, i)}

-----------------------------------------------------------------------------
(* Sequences. *)

LEMMA ThoseType ==
  ASSUME NEW T, NEW S, NEW seq \in Seq(T)
  PROVE  Those(seq, S) \in Seq(T \cap S)
<1> DEFINE seqs == [i \in 1..Len(seq) |-> IF seq[i] \in S THEN <<seq[i]>> ELSE <<>>]
<1>1. \A i \in 1..Len(seq) : seqs[i] \in Seq(T \cap S)
  <2> TAKE i \in 1..Len(seq)
  <2>1. seq[i] \in T
    OBVIOUS
  <2>2. CASE seq[i] \in S
    <3>1. seqs[i] = <<seq[i]>>
      BY <2>2
    <3>2. seq[i] \in T \cap S
      BY <2>1, <2>2
    <3> HIDE DEF seqs
    <3> QED
      BY <3>1, <3>2, OneType
  <2>3. CASE seq[i] \notin S
    BY <2>3
  <2> QED
    BY <2>2, <2>3
<1>2. seqs \in Seq(Seq(T \cap S))
  BY <1>1
<1> HIDE DEF seqs
<1>3. FlattenSeq(seqs) \in Seq(T \cap S)
  BY <1>2, FlattenType
<1> QED
  BY <1>3 DEF Those, seqs

LEMMA AppListType == AppList \in Seq(Apps)
<1>1. AppList \in Seq(ToSet(MntList) \cap Apps)
  BY DataAssumption, ThoseType DEF AppList
<1> QED
  BY <1>1, SeqSubset

LEMMA AppsOfType == ASSUME NEW t PROVE AppsOf(t) \in Seq(Apps)
<1>1. AppsOf(t) \in Seq(Apps \cap {a \in Apps : AreaExists(t, a)})
  BY AppListType, ThoseType DEF AppsOf
<1> QED
  BY <1>1, SeqSubset

LEMMA GroupsOfType == ASSUME NEW t PROVE GroupsOf(t) \in Seq(Groups)
<1>1. GroupsOf(t) \in Seq(Groups \cap {g \in Groups : AreaExists(t, g)})
  BY DataAssumption, ThoseType DEF GroupsOf
<1> QED
  BY <1>1, SeqSubset

LEMMA PoliciesType ==
  /\ Policies \in Seq(ToSet(Policies)) /\ Len(Policies) = 2
  /\ ToSet(Policies) = {"cached", "wt"}
BY DEF Policies, ToSet

LEMMA LocalDbsType ==
  ASSUME NEW a \in Area
  PROVE  LocalDbs(a) \in Seq({a} \X ToSet(Policies))
<1> DEFINE D == {a} \X ToSet(Policies)
<1>1. \A i \in 1..Len(Policies) : <<a, Policies[i]>> \in D
  BY PoliciesType
<1>2. Len(Policies) \in Nat
  BY PoliciesType
<1> HIDE DEF D
<1>3. [i \in 1..Len(Policies) |-> <<a, Policies[i]>>] \in Seq(D)
  BY <1>1, <1>2, ListType
<1> QED
  BY <1>3 DEF LocalDbs, D

LEMMA SharedDbsType ==
  ASSUME NEW t
  PROVE  SharedDbs(t) \in Seq(Shared \X ToSet(Policies))
<1> DEFINE D == Shared \X ToSet(Policies)
           of(i) == [j \in 1..Len(GroupsOf(t)) |-> <<GroupsOf(t)[j], Policies[i]>>]
           seqs == [i \in 1..Len(Policies) |-> of(i)]
<1>1. LocalDbs(Public) \in Seq(D)
  <2>1. LocalDbs(Public) \in Seq({Public} \X ToSet(Policies))
    BY LocalDbsType DEF Area, Shared
  <2>2. {Public} \X ToSet(Policies) \subseteq D
    BY DEF Shared
  <2> QED
    BY <2>1, <2>2, SeqSubset
<1>2. ASSUME NEW i \in 1..Len(Policies) PROVE of(i) \in Seq(D)
  <2>1. \A j \in 1..Len(GroupsOf(t)) : <<GroupsOf(t)[j], Policies[i]>> \in D
    <3> TAKE j \in 1..Len(GroupsOf(t))
    <3>1. GroupsOf(t)[j] \in Shared
      BY GroupsOfType, ElementType DEF Shared
    <3>2. Policies[i] \in ToSet(Policies)
      BY PoliciesType, ElementType
    <3> QED
      BY <3>1, <3>2
  <2>2. Len(GroupsOf(t)) \in Nat
    BY GroupsOfType
  <2> QED
    BY <2>1, <2>2
<1>3. seqs \in Seq(Seq(D))
  BY <1>2, PoliciesType
<1> HIDE DEF seqs, D
<1>4. FlattenSeq(seqs) \in Seq(D)
  BY <1>3, FlattenType
<1>5. SharedDbs(t) = LocalDbs(Public) \o FlattenSeq(seqs)
  BY DEF SharedDbs, seqs
<1> QED
  BY <1>1, <1>4, <1>5 DEF D

-----------------------------------------------------------------------------
(* What a request selects. *)

\* A plan for an area, a user and a seat stays with the request.
Reach(r, a, u, s) ==
  /\ r.op \in {"recover", "restore"}
  /\ r.type = "application" => a = r.app
  /\ r.type = "user" => /\ u = r.user /\ s = r.seat
                        /\ r.op = "restore" /\ r.app # "" => a = r.app

LEMMA NodeSelected ==
  ASSUME NEW r \in Requests, NEW a, NEW u, NEW s, Reach(r, a, u, s), r.type # "user",
         NEW f \in NodeFolder(a)
  PROVE  SelectsFile(r, f)
<1>1. r.op # "delete" /\ r.type \in {"all", "application"}
  BY DEF Reach, Requests
<1> QED
  BY <1>1 DEF Reach, NodeFolder, SelectsFile

LEMMA UserSelected ==
  ASSUME NEW r \in Requests, NEW a, NEW u, NEW s, Reach(r, a, u, s),
         NEW f \in UserFolder(a, u, s)
  PROVE  SelectsFile(r, f)
<1>1. r.op \in {"recover", "restore"} /\ r.type \in {"all", "user", "application"}
  BY DEF Reach, Requests
<1>2. f[1] = a /\ f[2] # Node /\ OwnedBy(f[2], u, s)
  BY DEF UserFolder
<1>3. CASE r.type = "all"
  BY <1>1, <1>3 DEF SelectsFile
<1>4. CASE r.type = "application"
  BY <1>1, <1>2, <1>4 DEF SelectsFile, EveryUser, Reach
<1>5. CASE r.type = "user"
  <2>1. Owns(r, f[2])
    <3>1. u = r.user /\ s = r.seat
      BY <1>5 DEF Reach
    <3>2. CASE u = AllUsers
      BY <1>2, <3>1, <3>2 DEF Owns
    <3>3. CASE u # AllUsers /\ s = AllSeats
      BY <1>2, <3>1, <3>3 DEF Owns, OwnedBy
    <3>4. CASE u # AllUsers /\ s # AllSeats
      BY <1>2, <3>1, <3>4 DEF Owns, OwnedBy
    <3> QED
      BY <3>2, <3>3, <3>4
  <2> QED
    BY <1>1, <1>2, <1>5, <2>1 DEF SelectsFile, Reach
<1> QED
  BY <1>1, <1>3, <1>4, <1>5

LEMMA KeysSelected ==
  ASSUME NEW r \in Requests, NEW d, NEW type, NEW u, NEW s, Reach(r, d[1], u, s),
         r.type = "user" => type = "user", NEW k \in FilterKeys(d, type, u, s)
  PROVE  SelectsKey(r, k)
<1>1. r.op \in {"recover", "restore"} /\ r.type \in {"all", "user", "application"}
  BY DEF Reach, Requests
<1>2. k[1] = d[1] /\ Filter(type, u, s, k[2])
  BY DEF FilterKeys
<1>3. CASE r.type = "all"
  BY <1>3 DEF SelectsKey
<1>4. CASE r.type = "application"
  BY <1>1, <1>2, <1>4 DEF SelectsKey, EveryUser, Reach
<1>5. CASE r.type = "user"
  <2>1. Owns(r, k[2])
    BY <1>2, <1>5 DEF Owns, Filter, Reach
  <2> QED
    BY <1>1, <1>2, <1>5, <2>1 DEF SelectsKey, Reach
<1> QED
  BY <1>1, <1>3, <1>4, <1>5

\* A user's deletion.
LEMMA DeletedKeysSelected ==
  ASSUME NEW r \in Requests, r.op = "delete", NEW d,
         NEW k \in FilterKeys(d, "user", r.user, r.seat)
  PROVE  SelectsKey(r, k)
<1>1. r.type = "user"
  BY DEF Requests
<1>2. Filter("user", r.user, r.seat, k[2])
  BY DEF FilterKeys
<1>3. Owns(r, k[2])
  BY <1>2 DEF Owns, Filter
<1> QED
  BY <1>1, <1>3 DEF SelectsKey

-----------------------------------------------------------------------------
(* Calls that fit. *)

Quiet == {"list", "listNothing", "checkRct", "copyRct", "copyAll", "exportLinks",
          "importLinks", "clearConfFolder", "clearConfDb", "return", "testSum"}

\* A call that changes no folder and no key of the target.
LEMMA QuietFits ==
  ASSUME NEW r, NEW do \in Quiet, NEW from \in {"data", "coll", "ext"},
         NEW to \in {"data", "coll"}, NEW a \in Area \cup {""},
         do \in {"checkRct", "copyRct", "clearConfFolder", "clearConfDb"} => a \in Area,
         do \in {"exportLinks", "importLinks"} => a \in Apps,
         NEW err \in {"abort", "ignore", "count"}, NEW fn \in Labels,
         do = "checkRct" => err = "count" \/ (err = "abort" /\ fn \in CheckLabels),
         err = "count" => fn \notin CheckLabels
  PROVE  LET c == Call(do, from, to, a, {}, NoDb, err, fn)
         IN c \in Fits(r) /\ \A b : ~Writes(c, b)
<1> DEFINE c == Call(do, from, to, a, {}, NoDb, err, fn)
<1>1. c \in Calls
  BY DEF Call, Calls, Quiet
<1>2. c.do = do /\ c.area = a /\ c.err = err /\ c.fn = fn
  BY DEF Call
<1>3. do \notin OnFolders \cup OnKeys /\ do # "listArea"
  BY DEF Quiet, OnFolders, OnKeys
<1> HIDE DEF c
<1>4. c \in Fits(r) /\ \A b : ~Writes(c, b)
  BY <1>1, <1>2, <1>3 DEF Fits, Typed, Selected, Checking, Writes
<1> QED
  BY <1>4 DEF c

LEMMA CopyCall ==
  ASSUME NEW from \in {"data", "coll", "ext"}, NEW to \in {"data", "coll"},
         NEW S \in SUBSET Folders, NEW err \in {"abort", "ignore", "count", "leave"},
         NEW fn \in Labels
  PROVE  Copy(from, to, S, err, fn) \in Calls
BY DEF Copy, Call, Calls, OnFolders

LEMMA ClearCall ==
  ASSUME NEW from \in {"data", "coll", "ext"}, NEW to \in {"data", "coll"},
         NEW S \in SUBSET Folders, NEW err \in {"abort", "ignore", "count", "leave"},
         NEW fn \in Labels
  PROVE  Clear(from, to, S, err, fn) \in Calls
BY DEF Clear, Call, Calls, OnFolders

LEMMA CopyDbCall ==
  ASSUME NEW from \in {"data", "coll", "ext"}, NEW to \in {"data", "coll"},
         NEW d \in Databases, NEW S \in SUBSET Keys, NEW err \in {"abort", "ignore"},
         NEW fn \in Labels
  PROVE  CopyDb(from, to, d, S, err, fn) \in Calls
<1>1. d[1] \in Area
  BY DEF Databases
<1> QED
  BY <1>1 DEF CopyDb, Call, Calls, OnKeys

LEMMA ClearDbCall ==
  ASSUME NEW from \in {"data", "coll", "ext"}, NEW to \in {"data", "coll"},
         NEW d \in Databases, NEW S \in SUBSET Keys, NEW err \in {"abort", "ignore"},
         NEW fn \in Labels
  PROVE  ClearDb(from, to, d, S, err, fn) \in Calls
<1>1. d[1] \in Area
  BY DEF Databases
<1> QED
  BY <1>1 DEF ClearDb, Call, Calls, OnKeys

\* A call on folders the request selects, or that are not the target's.
LEMMA FoldersFit ==
  ASSUME NEW r, NEW c \in Calls, c.do \in OnFolders, c.set \in SUBSET Folders,
         c.to = "data" => MayWrite(r) /\ \A f \in c.set : SelectsFile(r, f),
         r.op = "recover" /\ c.err \in {"count", "leave"} => c.fn \notin CheckLabels
  PROVE  /\ c \in Fits(r)
         /\ \A b : Writes(c, b) => \E f \in c.set : f[1] = b /\ (b \in Apps \/ f[2] # Node)
<1>1. c.do \notin OnKeys /\ c.do \notin Quiet /\ c.do # "listArea"
  BY DEF Quiet, OnFolders, OnKeys
<1>2. Typed(c)
  BY <1>1 DEF Typed, Quiet
<1>3. Selected(r, c) /\ Checking(r, c)
  BY <1>1 DEF Selected, Checking, Quiet
<1>4. \A b : Writes(c, b) => \E f \in c.set : f[1] = b /\ (b \in Apps \/ f[2] # Node)
  BY <1>1 DEF Writes
<1> QED
  BY <1>2, <1>3, <1>4 DEF Fits

\* The same of the keys of a database.
LEMMA KeysFit ==
  ASSUME NEW r, NEW c \in Calls, c.do \in OnKeys, c.db \in Databases,
         c.set \in SUBSET {k \in Keys : <<k[1], k[3]>> = c.db},
         c.to = "data" => MayWrite(r) /\ \A k \in c.set : SelectsKey(r, k),
         c.err \in {"abort", "ignore"}
  PROVE  c \in Fits(r) /\ \A b : Writes(c, b) => b \in Apps /\ b = c.db[1]
<1>1. c.do \notin OnFolders /\ c.do \notin Quiet /\ c.do # "listArea"
  BY DEF Quiet, OnFolders, OnKeys
<1>2. Typed(c)
  BY <1>1 DEF Typed, Quiet
<1>3. Selected(r, c) /\ Checking(r, c)
  BY <1>1 DEF Selected, Checking, Quiet
<1>4. \A b : Writes(c, b) => b \in Apps /\ b = c.db[1]
  BY <1>1 DEF Writes
<1> QED
  BY <1>2, <1>3, <1>4 DEF Fits

-----------------------------------------------------------------------------
(* Plans put together. *)

\* Calls that change guarded data of no other areas than those of A.
FitsIn(r, A) == {c \in Fits(r) : \A b \in Area : Writes(c, b) => b \in A}

LEMMA PlansConcat ==
  ASSUME NEW r, NEW p \in Plans(r), NEW q \in Plans(r)
  PROVE  p \o q \in Plans(r)
<1> DEFINE m == Len(p)
           n == Len(q)
           pq == p \o q
<1>1. p \in Seq(Fits(r)) /\ q \in Seq(Fits(r)) /\ m \in Nat /\ n \in Nat
  BY DEF Plans
<1>2. pq \in Seq(Fits(r)) /\ Len(pq) = m + n
  BY <1>1
<1>3. \A i \in 1..m : pq[i] = p[i]
  BY <1>1
<1>4. \A i \in 1..n : pq[m + i] = q[i]
  BY <1>1
<1> HIDE DEF pq, m, n
<1>5. ASSUME r.op = "recover", NEW i \in 1..(m + n) PROVE GuardedAt(pq, i)
  <2> SUFFICES ASSUME NEW a \in Area, Writes(pq[i], a)
               PROVE  \E j \in 1..(i - 1) : Guards(pq, j, i, a)
    BY DEF GuardedAt
  <2>1. CASE i <= m
    <3>1. i \in 1..m /\ GuardedAt(p, i) /\ Writes(p[i], a)
      BY <1>1, <1>3, <1>5, <2>1 DEF Plans, m
    <3>2. PICK j \in 1..(i - 1) : Guards(p, j, i, a)
      BY <3>1 DEF GuardedAt
    <3>3. pq[j] = p[j] /\ \A k \in j..i : pq[k] = p[k]
      BY <1>1, <1>3, <3>1
    <3>4. Guards(pq, j, i, a)
      BY <3>2, <3>3 DEF Guards
    <3> QED
      BY <3>4
  <2>2. CASE i > m
    <3> DEFINE h == i - m
    <3>1. h \in 1..n /\ i = m + h
      BY <1>1, <2>2
    <3> HIDE DEF h
    <3>2. GuardedAt(q, h) /\ Writes(q[h], a)
      BY <1>4, <1>5, <3>1 DEF Plans, n
    <3>3. PICK j \in 1..(h - 1) : Guards(q, j, h, a)
      BY <3>2 DEF GuardedAt
    <3>4. m + j \in 1..(i - 1)
      BY <1>1, <3>1
    <3>5. pq[m + j] = q[j]
      BY <1>1, <1>4, <3>1
    <3>6. ASSUME \A k \in j..h : q[k].fn = q[j].fn, NEW k \in (m + j)..i
          PROVE  pq[k].fn = pq[m + j].fn
      <4>1. k - m \in j..h /\ k - m \in 1..n /\ k = m + (k - m)
        BY <1>1, <3>1
      <4>2. pq[k] = q[k - m]
        BY <1>4, <4>1
      <4> QED
        BY <3>6, <3>5, <4>1, <4>2
    <3>7. Guards(pq, m + j, i, a)
      BY <3>3, <3>5, <3>6 DEF Guards
    <3> QED
      BY <3>4, <3>7
  <2> QED
    BY <1>1, <2>1, <2>2
<1> QED
  BY <1>2, <1>5 DEF Plans, pq

LEMMA PlansEmpty == ASSUME NEW r PROVE <<>> \in Plans(r)
BY DEF Plans

LEMMA FlattenPlans ==
  ASSUME NEW r, NEW seqs \in Seq(Plans(r))
  PROVE  FlattenSeq(seqs) \in Plans(r)
<1>1. \A p, q \in Plans(r) : p \o q \in Plans(r)
  BY PlansConcat
<1> QED
  BY <1>1, PlansEmpty, FlattenClosed

\* Nothing to guard.
LEMMA PlansFree ==
  ASSUME NEW r, NEW p \in Seq(Fits(r)),
         r.op = "recover" => p \in Seq(FitsIn(r, {}))
  PROVE  p \in Plans(r)
<1>1. ASSUME r.op = "recover", NEW i \in 1..Len(p) PROVE GuardedAt(p, i)
  <2>1. p[i] \in FitsIn(r, {})
    BY <1>1, ElementType
  <2> QED
    BY <2>1 DEF FitsIn, GuardedAt
<1> QED
  BY <1>1 DEF Plans

\* A check that ends the recovery, then what it guards.
LEMMA PlansChecked ==
  ASSUME NEW r, NEW a \in Area, NEW c \in Fits(r), c.do = "checkRct", c.area = a,
         c.err = "abort", NEW p \in Seq(FitsIn(r, {a}))
  PROVE  <<c>> \o p \in Plans(r)
<1> DEFINE q == <<c>> \o p
<1>1. p \in Seq(Fits(r)) /\ Len(p) \in Nat
  BY DEF FitsIn
<1>2. q \in Seq(Fits(r)) /\ Len(q) = Len(p) + 1
  BY <1>1
<1>3. q[1] = c /\ \A i \in 2..Len(q) : q[i] = p[i - 1]
  BY <1>1
<1> HIDE DEF q
<1>4. ASSUME NEW i \in 1..Len(q) PROVE GuardedAt(q, i)
  <2> SUFFICES ASSUME NEW b \in Area, Writes(q[i], b)
               PROVE  \E j \in 1..(i - 1) : Guards(q, j, i, b)
    BY DEF GuardedAt
  <2>1. i # 1
    <3>1. ~Writes(c, b)
      BY DEF Writes, OnFolders, OnKeys
    <3> QED
      BY <1>3, <3>1
  <2>2. i - 1 \in 1..Len(p) /\ q[i] = p[i - 1]
    BY <1>1, <1>2, <1>3, <2>1
  <2>3. p[i - 1] \in FitsIn(r, {a})
    BY <2>2, ElementType
  <2>4. b = a
    BY <2>2, <2>3 DEF FitsIn
  <2>5. Guards(q, 1, i, b)
    BY <1>3, <2>4 DEF Guards
  <2> QED
    BY <2>1, <2>5, <1>1, <1>2
<1> QED
  BY <1>2, <1>4 DEF Plans, q

\* The calls without an area, a folder or a key.
LEMMA PlainFits ==
  ASSUME NEW r, NEW do \in {"list", "listNothing", "return", "testSum"},
         NEW err \in {"abort", "count"}, NEW fn \in Labels,
         err = "count" => fn \notin CheckLabels
  PROVE  Call(do, "data", "data", "", {}, NoDb, err, fn) \in FitsIn(r, {})
<1>1. do \in Quiet
  BY DEF Quiet
<1> QED
  BY <1>1, QuietFits DEF FitsIn

LEMMA ListFits ==
  ASSUME NEW r, NEW err \in {"abort", "count"}, NEW fn \in Labels,
         err = "count" => fn \notin CheckLabels
  PROVE  ListFolders(err, fn) \in FitsIn(r, {}) /\ ListGroups(err, fn) \in FitsIn(r, {})
BY PlainFits DEF ListFolders, ListGroups

LEMMA ReturnFits ==
  ASSUME NEW r, NEW fn \in Labels
  PROVE  Return(fn) \in FitsIn(r, {}) /\ TestSum \in FitsIn(r, {})
<1>1. "" \in Labels
  BY DEF Labels
<1> QED
  BY <1>1, PlainFits DEF Return, TestSum

\* A check that aborts, or one that is counted, and what follows in a recovery.
LEMMA CheckFits ==
  ASSUME NEW r, NEW a \in Area, NEW err \in {"abort", "count"}, NEW fn \in Labels,
         err = "abort" => fn \in CheckLabels, err = "count" => fn \notin CheckLabels
  PROVE  /\ CheckRct(a, err, fn) \in FitsIn(r, {})
         /\ CheckRct(a, err, fn).do = "checkRct" /\ CheckRct(a, err, fn).area = a
         /\ CheckRct(a, err, fn).err = err /\ CheckRct(a, err, fn).fn = fn
<1>1. "checkRct" \in Quiet
  BY DEF Quiet
<1>2. CheckRct(a, err, fn) \in Fits(r) /\ \A b : ~Writes(CheckRct(a, err, fn), b)
  BY <1>1, QuietFits DEF CheckRct
<1> QED
  BY <1>2 DEF FitsIn, CheckRct, Call

LEMMA LinksFit ==
  ASSUME NEW r, NEW a \in Apps, NEW err \in {"abort", "ignore", "count"},
         NEW fn \in Labels, err = "count" => fn \notin CheckLabels
  PROVE  ImportLinks(a, err, fn) \in FitsIn(r, {})
<1>1. "importLinks" \in Quiet
  BY DEF Quiet
<1>2. a \in Area
  BY DEF Area
<1> QED
  BY <1>1, <1>2, QuietFits DEF ImportLinks, FitsIn

LEMMA FitsInGrows ==
  ASSUME NEW r, NEW A, NEW B, A \subseteq B
  PROVE  FitsIn(r, A) \subseteq FitsIn(r, B) /\ FitsIn(r, A) \subseteq Fits(r)
BY DEF FitsIn

-----------------------------------------------------------------------------
(* The plan of a recovery. *)

LEMMA ReplaceFolderShape ==
  ASSUME NEW S, NEW err, NEW fn
  PROVE  /\ Len(ReplaceFolder(S, err, fn)) = 2
         /\ ReplaceFolder(S, err, fn)[1].fn = fn /\ ReplaceFolder(S, err, fn)[2].fn = fn
BY DEF ReplaceFolder, Clear, Copy, Call

LEMMA ReplaceFolderFits ==
  ASSUME NEW r \in Requests, r.op = "recover", NEW S \in SUBSET Folders,
         \A f \in S : SelectsFile(r, f), NEW A,
         \A f \in S : f[1] \in A \/ (f[1] \notin Apps /\ f[2] = Node),
         NEW err \in {"abort", "count"}, NEW fn \in Labels, fn \notin CheckLabels
  PROVE  ReplaceFolder(S, err, fn) \in Seq(FitsIn(r, A))
<1> DEFINE clear == Clear("ext", "data", S, "ignore", fn)
           copy == Copy("ext", "data", S, err, fn)
<1>1. MayWrite(r)
  BY DEF MayWrite
<1>2. /\ clear \in Calls /\ clear.do \in OnFolders /\ clear.set = S /\ clear.fn = fn
      /\ copy \in Calls /\ copy.do \in OnFolders /\ copy.set = S /\ copy.fn = fn
  <2>1. clear \in Calls /\ copy \in Calls
    BY CopyCall, ClearCall
  <2> QED
    BY <2>1 DEF Clear, Copy, Call, OnFolders
<1> HIDE DEF clear, copy
<1>3. clear \in FitsIn(r, A)
  <2>1. clear.to = "data" => MayWrite(r) /\ \A f \in clear.set : SelectsFile(r, f)
    BY <1>1, <1>2
  <2>2. clear \in Fits(r) /\ \A b : Writes(clear, b) => \E f \in S : f[1] = b /\ (b \in Apps \/ f[2] # Node)
    BY <1>2, <2>1, FoldersFit
  <2> QED
    BY <2>2 DEF FitsIn
<1>4. copy \in FitsIn(r, A)
  <2>1. copy.to = "data" => MayWrite(r) /\ \A f \in copy.set : SelectsFile(r, f)
    BY <1>1, <1>2
  <2>2. copy \in Fits(r) /\ \A b : Writes(copy, b) => \E f \in S : f[1] = b /\ (b \in Apps \/ f[2] # Node)
    BY <1>2, <2>1, FoldersFit
  <2> QED
    BY <2>2 DEF FitsIn
<1> QED
  BY <1>3, <1>4 DEF ReplaceFolder, clear, copy

LEMMA RestoreNodeFits ==
  ASSUME NEW r \in Requests, r.op = "recover", r.type # "user", NEW a,
         NEW u, NEW s, Reach(r, a, u, s), NEW A, a \in A \/ a \notin Apps
  PROVE  RestoreNode(a) \in Seq(FitsIn(r, A))
<1> DEFINE S == NodeFolder(a)
<1>1. S \in SUBSET Folders /\ \A f \in S : f[1] = a /\ f[2] = Node
  BY DEF NodeFolder
<1>2. \A f \in S : SelectsFile(r, f)
  BY NodeSelected
<1>3. "appl_node" \in Labels /\ "appl_node" \notin CheckLabels
  BY DEF Labels, CheckLabels
<1> HIDE DEF S
<1>4. \A f \in S : f[1] \in A \/ (f[1] \notin Apps /\ f[2] = Node)
  BY <1>1
<1>5. ReplaceFolder(S, "abort", "appl_node") \in Seq(FitsIn(r, A))
  BY <1>1, <1>2, <1>3, <1>4, ReplaceFolderFits
<1> QED
  BY <1>5 DEF RestoreNode, S

LEMMA RestoreUserFits ==
  ASSUME NEW r \in Requests, r.op = "recover", NEW a, NEW u, NEW s, Reach(r, a, u, s)
  PROVE  RestoreUser(a, u, s) \in Seq(FitsIn(r, {a}))
<1> DEFINE S == UserFolder(a, u, s)
<1>1. S \in SUBSET Folders /\ \A f \in S : f[1] = a
  BY DEF UserFolder
<1>2. \A f \in S : SelectsFile(r, f)
  BY UserSelected
<1>3. "appl_user" \in Labels /\ "appl_user" \notin CheckLabels
  BY DEF Labels, CheckLabels
<1> HIDE DEF S
<1>4. ReplaceFolder(S, "abort", "appl_user") \in Seq(FitsIn(r, {a}))
  BY <1>1, <1>2, <1>3, ReplaceFolderFits
<1> QED
  BY <1>4 DEF RestoreUser, S

LEMMA ReplaceKeysFit ==
  ASSUME NEW r \in Requests, r.op = "recover", NEW d \in Databases, NEW type, NEW u, NEW s,
         Reach(r, d[1], u, s), r.type = "user" => type = "user", NEW fn \in Labels,
         NEW A, d[1] \in A \/ d[1] \notin Apps
  PROVE  /\ ClearDb("ext", "data", d, FilterKeys(d, type, u, s), "ignore", fn) \in FitsIn(r, A)
         /\ CopyDb("ext", "data", d, FilterKeys(d, type, u, s), "abort", fn) \in FitsIn(r, A)
<1> DEFINE S == FilterKeys(d, type, u, s)
           clear == ClearDb("ext", "data", d, S, "ignore", fn)
           copy == CopyDb("ext", "data", d, S, "abort", fn)
<1>1. MayWrite(r)
  BY DEF MayWrite
<1>2. \A k \in S : SelectsKey(r, k)
  BY KeysSelected
<1>3. S \in SUBSET {k \in Keys : <<k[1], k[3]>> = d}
  BY DEF FilterKeys
<1> HIDE DEF S
<1>4. S \in SUBSET Keys
  BY <1>3
<1>5. /\ clear \in Calls /\ clear.do \in OnKeys /\ clear.set = S /\ clear.db = d
      /\ clear.err = "ignore"
      /\ copy \in Calls /\ copy.do \in OnKeys /\ copy.set = S /\ copy.db = d
      /\ copy.err = "abort"
  <2>1. clear \in Calls /\ copy \in Calls
    BY <1>4, CopyDbCall, ClearDbCall
  <2> QED
    BY <2>1 DEF ClearDb, CopyDb, Call, OnKeys
<1> HIDE DEF clear, copy
<1>6. clear \in FitsIn(r, A)
  BY <1>1, <1>2, <1>3, <1>5, KeysFit DEF FitsIn
<1>7. copy \in FitsIn(r, A)
  BY <1>1, <1>2, <1>3, <1>5, KeysFit DEF FitsIn
<1> QED
  BY <1>6, <1>7 DEF S, clear, copy

LEMMA RestoreLocalKeysFit ==
  ASSUME NEW r \in Requests, r.op = "recover", NEW a \in Area, NEW type, NEW u, NEW s,
         Reach(r, a, u, s), r.type = "user" => type = "user"
  PROVE  RestoreLocalKeys(a, type, u, s) \in Seq(FitsIn(r, {a}))
<1> DEFINE X == FitsIn(r, {a})
           dbs == LocalDbs(a)
           Plan(d) == <<ClearDb("ext", "data", d, FilterKeys(d, type, u, s), "ignore", "local_keys"),
                        CopyDb("ext", "data", d, FilterKeys(d, type, u, s), "abort", "local_keys")>>
           seqs == [i \in 1..Len(dbs) |-> Plan(dbs[i])]
<1>1. ASSUME NEW d \in {a} \X ToSet(Policies) PROVE Plan(d) \in Seq(X)
  <2>1. d \in Databases /\ d[1] = a
    BY DEF Databases
  <2>2. "local_keys" \in Labels
    BY DEF Labels
  <2>3. /\ ClearDb("ext", "data", d, FilterKeys(d, type, u, s), "ignore", "local_keys") \in X
        /\ CopyDb("ext", "data", d, FilterKeys(d, type, u, s), "abort", "local_keys") \in X
    BY <2>1, <2>2, ReplaceKeysFit
  <2> HIDE DEF X
  <2> QED
    BY <2>3
<1>2. dbs \in Seq({a} \X ToSet(Policies))
  BY LocalDbsType
<1> HIDE DEF X, dbs, Plan
<1>3. \A i \in 1..Len(dbs) : Plan(dbs[i]) \in Seq(X)
  BY <1>1, <1>2, ElementType
<1>4. seqs \in Seq(Seq(X))
  BY <1>2, <1>3
<1>5. FlattenSeq(seqs) \in Seq(X)
  BY <1>4, FlattenType
<1> QED
  BY <1>5 DEF RestoreLocalKeys, ForAll, X, dbs, Plan

LEMMA RestoreSharedKeysFit ==
  ASSUME NEW r \in Requests, r.op = "recover", NEW t, NEW type, NEW u, NEW s,
         \A a \in Shared : Reach(r, a, u, s), r.type = "user" => type = "user"
  PROVE  RestoreSharedKeys(t, type, u, s) \in Seq(FitsIn(r, {}))
<1> DEFINE X == FitsIn(r, {})
           dbs == SharedDbs(t)
           Plan(d) == <<CopyDb("ext", "data", d, FilterKeys(d, type, u, s), "abort", "shared_keys")>>
           seqs == [i \in 1..Len(dbs) |-> Plan(dbs[i])]
<1>1. ASSUME NEW d \in Shared \X ToSet(Policies) PROVE Plan(d) \in Seq(X)
  <2>1. d \in Databases /\ d[1] \in Shared
    BY DEF Databases, Area
  <2>2. "shared_keys" \in Labels
    BY DEF Labels
  <2>3. d[1] \notin Apps
    BY <2>1, DataAssumption
  <2>4. CopyDb("ext", "data", d, FilterKeys(d, type, u, s), "abort", "shared_keys") \in X
    BY <2>1, <2>2, <2>3, ReplaceKeysFit
  <2> HIDE DEF X
  <2> QED
    BY <2>4
<1>2. dbs \in Seq(Shared \X ToSet(Policies))
  BY SharedDbsType
<1> HIDE DEF X, dbs, Plan
<1>3. \A i \in 1..Len(dbs) : Plan(dbs[i]) \in Seq(X)
  BY <1>1, <1>2, ElementType
<1>4. seqs \in Seq(Seq(X))
  BY <1>2, <1>3
<1>5. FlattenSeq(seqs) \in Seq(X)
  BY <1>4, FlattenType
<1> QED
  BY <1>5 DEF RestoreSharedKeys, ForAll, X, dbs, Plan

LEMMA FreeIsPlan ==
  ASSUME NEW r, NEW p \in Seq(FitsIn(r, {}))
  PROVE  p \in Plans(r)
<1>1. p \in Seq(Fits(r))
  BY FitsInGrows, SeqSubset
<1> QED
  BY <1>1, PlansFree

LEMMA RestoreApplicationPlan ==
  ASSUME NEW r \in Requests, r.op = "recover", r.type # "user", NEW a \in Apps,
         Reach(r, a, AllUsers, AllSeats)
  PROVE  RestoreApplication(a) \in Plans(r)
<1> DEFINE X == FitsIn(r, {a})
           check == CheckRct(a, "abort", "appl_data")
           rest == RestoreNode(a) \o RestoreUser(a, AllUsers, AllSeats)
                     \o RestoreLocalKeys(a, "application", AllUsers, AllSeats)
<1>1. a \in Area /\ "appl_data" \in Labels /\ "appl_data" \in CheckLabels
  BY DEF Area, Labels, CheckLabels
<1>2. RestoreNode(a) \in Seq(X)
  BY RestoreNodeFits
<1>3. RestoreUser(a, AllUsers, AllSeats) \in Seq(X)
  BY RestoreUserFits
<1>4. RestoreLocalKeys(a, "application", AllUsers, AllSeats) \in Seq(X)
  BY <1>1, RestoreLocalKeysFit
<1> HIDE DEF X
<1>5. rest \in Seq(X)
  BY <1>2, <1>3, <1>4, ConcatType
<1>6. check \in Fits(r) /\ check.do = "checkRct" /\ check.area = a /\ check.err = "abort"
  BY <1>1, CheckFits DEF FitsIn
<1> HIDE DEF check, rest
<1>7. <<check>> \o rest \in Plans(r)
  BY <1>1, <1>5, <1>6, PlansChecked DEF X
<1>8. RestoreApplication(a) = <<check>> \o rest
  BY <1>2, <1>3, <1>4 DEF RestoreApplication, check, rest
<1> QED
  BY <1>7, <1>8

LEMMA RestoreNonUserSharedPlan ==
  ASSUME NEW r \in Requests, r.op = "recover", r.type = "all", NEW t
  PROVE  RestoreNonUserShared(t) \in Plans(r)
<1> DEFINE X == FitsIn(r, {})
           groups == GroupsOf(t)
           seqs == [i \in 1..Len(groups) |-> RestoreNode(groups[i])]
<1>1. ASSUME NEW a \in Shared PROVE RestoreNode(a) \in Seq(X)
  <2>1. a \notin Apps
    BY DataAssumption
  <2>2. Reach(r, a, AllUsers, AllSeats)
    BY DEF Reach
  <2> QED
    BY <2>1, <2>2, RestoreNodeFits
<1>2. groups \in Seq(Groups)
  BY GroupsOfType
<1>3. Public \in Shared /\ Groups \subseteq Shared
  BY DEF Shared
<1>4. "non_user_shared" \in Labels
  BY DEF Labels
<1>5. ListFolders("abort", "non_user_shared") \in X
  BY <1>4, ListFits
<1> HIDE DEF X, groups
<1>6. \A i \in 1..Len(groups) : RestoreNode(groups[i]) \in Seq(X)
  BY <1>1, <1>2, <1>3, ElementType
<1>7. seqs \in Seq(Seq(X))
  BY <1>2, <1>6
<1>8. FlattenSeq(seqs) \in Seq(X)
  BY <1>7, FlattenType
<1>9. RestoreNode(Public) \o <<ListFolders("abort", "non_user_shared")>> \in Seq(X)
  BY <1>1, <1>3, <1>5, ConcatType, OneType
<1> HIDE DEF seqs
<1>10. RestoreNode(Public) \o <<ListFolders("abort", "non_user_shared")>> \o FlattenSeq(seqs)
         \in Seq(X)
  BY <1>8, <1>9, ConcatType
<1> QED
  BY <1>10, FreeIsPlan DEF RestoreNonUserShared, ForAll, X, seqs, groups

\* The check stands in the function it is counted for.
LEMMA RestoreUserFilesPlan ==
  ASSUME NEW r \in Requests, r.op = "recover", NEW a \in Area, NEW u, NEW s,
         Reach(r, a, u, s), NEW fn \in Labels, fn \notin CheckLabels
  PROVE  RestoreUserFiles(a, u, s, fn) \in Plans(r)
<1> DEFINE check == CheckRct(a, "count", fn)
           S == UserFolder(a, u, s)
           rest == ReplaceFolder(S, "count", fn)
           p == <<check>> \o rest
<1>1. S \in SUBSET Folders /\ \A f \in S : f[1] = a
  BY DEF UserFolder
<1>2. \A f \in S : SelectsFile(r, f)
  BY UserSelected
<1> HIDE DEF S
<1>3. /\ rest \in Seq(FitsIn(r, {a})) /\ Len(rest) = 2
      /\ rest[1].fn = fn /\ rest[2].fn = fn
  <2>1. \A f \in S : f[1] \in {a} \/ (f[1] \notin Apps /\ f[2] = Node)
    BY <1>1
  <2> QED
    <3>1. S \in SUBSET Folders /\ "count" \in {"abort", "count"}
      BY <1>1
    <3> HIDE DEF rest
    <3>2. ReplaceFolder(S, "count", fn) \in Seq(FitsIn(r, {a}))
      BY <3>1, <1>2, <2>1, ReplaceFolderFits
    <3> QED
      BY <3>2, ReplaceFolderShape DEF rest
<1>4. /\ check \in Fits(r) /\ check.do = "checkRct" /\ check.area = a
      /\ check.err = "count" /\ check.fn = fn
  BY CheckFits DEF FitsIn
<1> HIDE DEF check, rest
<1>5. rest \in Seq(Fits(r))
  BY <1>3, FitsInGrows, SeqSubset
<1>6. p \in Seq(Fits(r)) /\ Len(p) = Len(rest) + 1 /\ p[1] = check
      /\ \A i \in 1..Len(rest) : p[i + 1] = rest[i]
  BY <1>4, <1>5, Prepended
<1>7. Len(p) = 3 /\ p[2] = rest[1] /\ p[3] = rest[2]
  <2> HIDE DEF p
  <2>1. Len(p) = 3 /\ p[1 + 1] = rest[1] /\ p[2 + 1] = rest[2]
    BY <1>3, <1>6
  <2> QED
    BY <2>1
<1>8. rest[1] \in FitsIn(r, {a}) /\ rest[2] \in FitsIn(r, {a})
  BY <1>3, ElementType
<1> HIDE DEF p
<1>9. \A i \in 1..3 : p[i].fn = fn
  BY <1>3, <1>4, <1>6, <1>7
<1>10. ASSUME NEW i \in 1..3 PROVE GuardedAt(p, i)
  <2> SUFFICES ASSUME NEW b \in Area, Writes(p[i], b)
               PROVE  \E j \in 1..(i - 1) : Guards(p, j, i, b)
    BY DEF GuardedAt
  <2>1. i # 1
    BY <1>4, <1>6 DEF Writes, OnFolders, OnKeys
  <2>2. b = a
    <3>1. p[i] \in FitsIn(r, {a})
      BY <1>7, <1>8, <2>1
    <3> QED
      BY <3>1 DEF FitsIn
  <2>3. \A m \in 1..i : p[m].fn = p[1].fn
    BY <1>9
  <2>4. Guards(p, 1, i, b)
    BY <1>4, <1>6, <2>2, <2>3 DEF Guards
  <2> QED
    BY <2>1, <2>4
<1>11. p \in Plans(r)
  BY <1>6, <1>7, <1>10 DEF Plans
<1> QED
  BY <1>11 DEF RestoreUserFiles, p, check, rest, S

LEMMA RestoreUserSharedPlan ==
  ASSUME NEW r \in Requests, r.op = "recover", NEW t, NEW type, NEW u, NEW s,
         \A a \in Shared : Reach(r, a, u, s), r.type = "user" => type = "user"
  PROVE  RestoreUserShared(t, type, u, s) \in Plans(r)
<1> DEFINE groups == GroupsOf(t)
           Group(g) == RestoreUserFiles(g, u, s, "group_files")
           seqs == [i \in 1..Len(groups) |-> Group(groups[i])]
           public == IF AreaExists(t, Public)
                       THEN RestoreUserFiles(Public, u, s, "public_files") ELSE <<>>
           P == Plans(r)
<1>1. /\ {"public_files", "group_files", "user_shared"} \subseteq Labels
      /\ "public_files" \notin CheckLabels /\ "group_files" \notin CheckLabels
  BY DEF Labels, CheckLabels
<1>2. Public \in Shared /\ Groups \subseteq Shared /\ Shared \subseteq Area
  BY DEF Shared, Area
<1>3. public \in P
  <2>1. RestoreUserFiles(Public, u, s, "public_files") \in P
    BY <1>1, <1>2, RestoreUserFilesPlan
  <2> QED
    BY <2>1, PlansEmpty
<1>4. groups \in Seq(Groups)
  BY GroupsOfType
<1>5. \A g \in Groups : Group(g) \in P
  BY <1>1, <1>2, RestoreUserFilesPlan
<1>6. /\ <<Return("user_shared")>> \in P /\ <<TestSum>> \in P
      /\ <<ListFolders("count", "group_files")>> \in P
  BY <1>1, ReturnFits, ListFits, OneType, FreeIsPlan
<1>7. RestoreSharedKeys(t, type, u, s) \in P
  BY RestoreSharedKeysFit, FreeIsPlan
<1> HIDE DEF P, groups, Group, public
<1>8. \A i \in 1..Len(groups) : Group(groups[i]) \in P
  BY <1>4, <1>5, ElementType
<1>9. seqs \in Seq(P)
  BY <1>4, <1>8
<1> HIDE DEF seqs
<1>10. FlattenSeq(seqs) \in P
  BY <1>9, FlattenPlans DEF P
<1>11. public \o <<Return("user_shared")>> \in P
  BY <1>3, <1>6, PlansConcat DEF P
<1>12. public \o <<Return("user_shared")>> \o <<ListFolders("count", "group_files")>> \in P
  BY <1>11, <1>6, PlansConcat DEF P
<1>13. public \o <<Return("user_shared")>> \o <<ListFolders("count", "group_files")>>
         \o FlattenSeq(seqs) \in P
  BY <1>12, <1>10, PlansConcat DEF P
<1>14. public \o <<Return("user_shared")>> \o <<ListFolders("count", "group_files")>>
         \o FlattenSeq(seqs) \o <<Return("user_shared")>> \in P
  BY <1>13, <1>6, PlansConcat DEF P
<1>15. public \o <<Return("user_shared")>> \o <<ListFolders("count", "group_files")>>
         \o FlattenSeq(seqs) \o <<Return("user_shared")>>
         \o RestoreSharedKeys(t, type, u, s) \in P
  BY <1>14, <1>7, PlansConcat DEF P
<1>16. public \o <<Return("user_shared")>> \o <<ListFolders("count", "group_files")>>
         \o FlattenSeq(seqs) \o <<Return("user_shared")>>
         \o RestoreSharedKeys(t, type, u, s) \o <<TestSum>> \in P
  BY <1>15, <1>6, PlansConcat DEF P
<1> QED
  BY <1>16 DEF RestoreUserShared, ForAll, P, seqs, groups, Group, public

LEMMA RestoreUserLocalPlan ==
  ASSUME NEW r \in Requests, r.op = "recover", r.type = "user", NEW t
  PROVE  RestoreUserLocal(t, r.user, r.seat) \in Plans(r)
<1> DEFINE P == Plans(r)
           apps == AppsOf(t)
           Plan(a) == <<CheckRct(a, "abort", "user_local")>> \o RestoreUser(a, r.user, r.seat)
                        \o RestoreLocalKeys(a, "user", r.user, r.seat)
                        \o <<Return("user_local"), ImportLinks(a, "count", "import_links")>>
           seqs == [i \in 1..Len(apps) |-> Plan(apps[i])]
<1>1. /\ "user_local" \in Labels /\ "user_local" \in CheckLabels
      /\ "import_links" \in Labels /\ "import_links" \notin CheckLabels
  BY DEF Labels, CheckLabels
<1>2. ASSUME NEW a \in Apps PROVE Plan(a) \in P
  <2> DEFINE X == FitsIn(r, {a})
             check == CheckRct(a, "abort", "user_local")
             rest == RestoreUser(a, r.user, r.seat)
                       \o RestoreLocalKeys(a, "user", r.user, r.seat)
                       \o <<Return("user_local"), ImportLinks(a, "count", "import_links")>>
  <2>1. a \in Area /\ Reach(r, a, r.user, r.seat)
    BY DEF Area, Reach
  <2>2. RestoreUser(a, r.user, r.seat) \in Seq(X)
    BY <2>1, RestoreUserFits
  <2>3. RestoreLocalKeys(a, "user", r.user, r.seat) \in Seq(X)
    BY <2>1, RestoreLocalKeysFit
  <2>4. <<Return("user_local"), ImportLinks(a, "count", "import_links")>> \in Seq(X)
    <3>1. Return("user_local") \in FitsIn(r, {})
      BY <1>1, ReturnFits
    <3>2. ImportLinks(a, "count", "import_links") \in FitsIn(r, {})
      BY <1>1, LinksFit
    <3>3. FitsIn(r, {}) \subseteq X
      BY FitsInGrows
    <3> HIDE DEF X
    <3> QED
      BY <3>1, <3>2, <3>3
  <2> HIDE DEF X
  <2>5. rest \in Seq(X)
    BY <2>2, <2>3, <2>4, ConcatType
  <2>6. check \in Fits(r) /\ check.do = "checkRct" /\ check.area = a /\ check.err = "abort"
    BY <1>1, <2>1, CheckFits DEF FitsIn
  <2> HIDE DEF check, rest
  <2>7. <<check>> \o rest \in P
    BY <2>1, <2>5, <2>6, PlansChecked DEF X
  <2>8. Plan(a) = <<check>> \o rest
    BY <2>2, <2>3, <2>4 DEF check, rest
  <2> QED
    BY <2>7, <2>8
<1>3. apps \in Seq(Apps)
  BY AppsOfType
<1>4. <<ListFolders("abort", "user_local")>> \in P /\ <<TestSum>> \in P
  BY <1>1, ListFits, ReturnFits, OneType, FreeIsPlan
<1> HIDE DEF P, apps, Plan
<1>5. \A i \in 1..Len(apps) : Plan(apps[i]) \in P
  BY <1>2, <1>3, ElementType
<1>6. seqs \in Seq(P)
  BY <1>3, <1>5
<1> HIDE DEF seqs
<1>7. FlattenSeq(seqs) \in P
  BY <1>6, FlattenPlans DEF P
<1>8. <<ListFolders("abort", "user_local")>> \o FlattenSeq(seqs) \in P
  BY <1>4, <1>7, PlansConcat DEF P
<1>9. <<ListFolders("abort", "user_local")>> \o FlattenSeq(seqs) \o <<TestSum>> \in P
  BY <1>4, <1>8, PlansConcat DEF P
<1> QED
  BY <1>9 DEF RestoreUserLocal, ForAll, P, seqs, apps, Plan

LEMMA RestoreAllDataPlan ==
  ASSUME NEW r \in Requests, r.op = "recover", r.type = "all", NEW t
  PROVE  RestoreAllData(t) \in Plans(r)
<1> DEFINE P == Plans(r)
           installed == Those(AppsOf(t), {a \in Apps : AreaExists(tree.data, a)})
           Plan(a) == RestoreApplication(a) \o <<ImportLinks(a, "ignore", "all_data")>>
           seqs == [i \in 1..Len(installed) |-> Plan(installed[i])]
<1>1. "all_data" \in Labels
  BY DEF Labels
<1>2. \A a \in Area : Reach(r, a, AllUsers, AllSeats)
  BY DEF Reach
<1>3. ASSUME NEW a \in Apps PROVE Plan(a) \in P
  <2>1. RestoreApplication(a) \in P
    BY <1>2, RestoreApplicationPlan DEF Area
  <2>2. <<ImportLinks(a, "ignore", "all_data")>> \in P
    BY <1>1, LinksFit, OneType, FreeIsPlan
  <2> QED
    BY <2>1, <2>2, PlansConcat
<1>4. installed \in Seq(Apps)
  <2>1. installed \in Seq(Apps \cap {a \in Apps : AreaExists(tree.data, a)})
    BY AppsOfType, ThoseType
  <2> QED
    BY <2>1, SeqSubset
<1>5. <<ListFolders("abort", "all_data")>> \in P /\ <<TestSum>> \in P
  BY <1>1, ListFits, ReturnFits, OneType, FreeIsPlan
<1>6. RestoreNonUserShared(t) \in P
  BY RestoreNonUserSharedPlan
<1>7. RestoreUserShared(t, "all", AllUsers, AllSeats) \in P
  <2>1. \A a \in Shared : Reach(r, a, AllUsers, AllSeats)
    BY <1>2 DEF Area
  <2> QED
    BY <2>1, RestoreUserSharedPlan
<1>8. <<>> \in P
  BY PlansEmpty
<1> HIDE DEF P, installed, Plan
<1>9. \A i \in 1..Len(installed) : Plan(installed[i]) \in P
  BY <1>3, <1>4, ElementType
<1>10. seqs \in Seq(P)
  BY <1>4, <1>9
<1> HIDE DEF seqs
<1>11. FlattenSeq(seqs) \in P
  BY <1>10, FlattenPlans DEF P
<1>12. <<ListFolders("abort", "all_data")>> \o FlattenSeq(seqs) \in P
  BY <1>5, <1>11, PlansConcat DEF P
<1>13. <<ListFolders("abort", "all_data")>> \o FlattenSeq(seqs) \o RestoreNonUserShared(t) \in P
  BY <1>6, <1>12, PlansConcat DEF P
<1>14. <<ListFolders("abort", "all_data")>> \o FlattenSeq(seqs) \o RestoreNonUserShared(t)
         \o <<TestSum>> \in P
  BY <1>5, <1>13, PlansConcat DEF P
<1>15. <<ListFolders("abort", "all_data")>> \o FlattenSeq(seqs) \o RestoreNonUserShared(t)
         \o <<TestSum>> \o RestoreUserShared(t, "all", AllUsers, AllSeats) \in P
  BY <1>7, <1>14, PlansConcat DEF P
<1> QED
  BY <1>8, <1>15 DEF RestoreAllData, ForAll, P, seqs, installed, Plan

LEMMA RecoveryPlanFits ==
  ASSUME NEW r \in Requests, r.op = "recover", NEW t
  PROVE  RecoveryPlan(t, r) \in Plans(r)
<1>1. CASE r.type = "all"
  BY <1>1, RestoreAllDataPlan DEF RecoveryPlan
<1>2. CASE r.type = "user"
  <2>1. RestoreUserLocal(t, r.user, r.seat) \in Plans(r)
    BY <1>2, RestoreUserLocalPlan
  <2>2. RestoreUserShared(t, "user", r.user, r.seat) \in Plans(r)
    <3>1. \A a \in Shared : Reach(r, a, r.user, r.seat)
      BY <1>2 DEF Reach
    <3> QED
      BY <3>1, RestoreUserSharedPlan
  <2>3. RestoreUserData(t, r) \in Plans(r)
    BY <2>1, <2>2, PlansConcat DEF RestoreUserData
  <2> QED
    BY <1>2, <2>3 DEF RecoveryPlan
<1>3. CASE r.type = "application"
  <2>1. r.app \in Apps
    BY <1>3 DEF Requests
  <2>2. Reach(r, r.app, AllUsers, AllSeats)
    BY <1>3 DEF Reach
  <2>3. RestoreApplication(r.app) \in Plans(r)
    BY <1>3, <2>1, <2>2, RestoreApplicationPlan
  <2> QED
    BY <1>3, <2>3 DEF RecoveryPlan
<1> QED
  BY <1>1, <1>2, <1>3 DEF Requests

-----------------------------------------------------------------------------
(* The plan of a restore to default. *)

\* Only a recovery has to be guarded.
LEMMA SeqIsPlan ==
  ASSUME NEW r, r.op # "recover", NEW p \in Seq(Fits(r))
  PROVE  p \in Plans(r)
BY PlansFree

LEMMA PlainCalls ==
  ASSUME NEW r, NEW fn \in Labels
  PROVE  /\ ListFolders("abort", fn) \in Fits(r) /\ ListGroups("abort", fn) \in Fits(r)
         /\ <<ListFolders("abort", fn)>> \in Seq(Fits(r))
         /\ <<ListGroups("abort", fn)>> \in Seq(Fits(r))
<1>1. ListFolders("abort", fn) \in Fits(r) /\ ListGroups("abort", fn) \in Fits(r)
  BY ListFits, FitsInGrows
<1> QED
  BY <1>1, OneType

LEMMA ResetNodeFits ==
  ASSUME NEW r \in Requests, r.op = "restore", r.type # "user", NEW a,
         NEW u, NEW s, Reach(r, a, u, s)
  PROVE  ResetNode(a) \in Seq(Fits(r))
<1> DEFINE S == NodeFolder(a)
           c == Clear("data", "data", S, "abort", "appl_node")
<1>1. S \in SUBSET Folders
  BY DEF NodeFolder
<1>2. MayWrite(r) /\ \A f \in S : SelectsFile(r, f)
  BY NodeSelected DEF MayWrite
<1>3. "appl_node" \in Labels
  BY DEF Labels
<1> HIDE DEF S
<1>4. c \in Calls /\ c.do \in OnFolders /\ c.set = S
  <2>1. c \in Calls
    BY <1>1, <1>3, ClearCall
  <2> QED
    BY <2>1 DEF Clear, Call, OnFolders
<1> HIDE DEF c
<1>5. c \in Fits(r)
  BY <1>1, <1>2, <1>4, FoldersFit
<1> QED
  BY <1>5, OneType DEF ResetNode, c, S

LEMMA DefaultsFit ==
  ASSUME NEW r, NEW a \in Area, NEW fn \in Labels
  PROVE  ClearDefaultFolder(a, fn) \in Fits(r) /\ ClearDefaultDb(a, fn) \in Fits(r)
<1>1. "clearConfFolder" \in Quiet /\ "clearConfDb" \in Quiet
  BY DEF Quiet
<1> QED
  BY <1>1, QuietFits DEF ClearDefaultFolder, ClearDefaultDb

LEMMA ResetUserFits ==
  ASSUME NEW r \in Requests, r.op = "restore", NEW a \in Area, NEW u, NEW s, Reach(r, a, u, s)
  PROVE  ResetUser(a, r, u, s) \in Seq(Fits(r))
<1> DEFINE S == UserFolder(a, u, s)
           c == Clear("data", "data", S, "abort", "appl_user")
           e == IF Factory(r) THEN <<ClearDefaultFolder(a, "appl_user")>> ELSE <<>>
<1>1. S \in SUBSET Folders
  BY DEF UserFolder
<1>2. MayWrite(r) /\ \A f \in S : SelectsFile(r, f)
  BY UserSelected DEF MayWrite
<1>3. "appl_user" \in Labels
  BY DEF Labels
<1> HIDE DEF S
<1>4. c \in Calls /\ c.do \in OnFolders /\ c.set = S
  <2>1. c \in Calls
    BY <1>1, <1>3, ClearCall
  <2> QED
    BY <2>1 DEF Clear, Call, OnFolders
<1>5. e \in Seq(Fits(r))
  BY <1>3, DefaultsFit, OneType
<1> HIDE DEF c, e
<1>6. <<c>> \in Seq(Fits(r))
  BY <1>1, <1>2, <1>4, FoldersFit, OneType
<1>7. <<c>> \o e \in Seq(Fits(r))
  BY <1>5, <1>6, ConcatType
<1> QED
  BY <1>7 DEF ResetUser, c, e, S

LEMMA ResetKeysFit ==
  ASSUME NEW r \in Requests, r.op = "restore", NEW type, NEW u, NEW s,
         r.type = "user" => type = "user",
         NEW dbs \in Seq({d \in Databases : Reach(r, d[1], u, s)})
  PROVE  ResetKeys(dbs, r, type, u, s) \in Seq(Fits(r))
<1> DEFINE S(d) == FilterKeys(d, type, u, s)
           c(d) == ClearDb("data", "data", d, S(d), "abort", "keys")
<1>1. ASSUME NEW d \in Databases, Reach(r, d[1], u, s) PROVE c(d) \in Fits(r)
  <2>1. S(d) \in SUBSET {k \in Keys : <<k[1], k[3]>> = d}
    BY DEF FilterKeys
  <2>2. MayWrite(r) /\ \A k \in S(d) : SelectsKey(r, k)
    BY <1>1, KeysSelected DEF MayWrite
  <2>3. "keys" \in Labels
    BY DEF Labels
  <2> HIDE DEF S
  <2>4. S(d) \in SUBSET Keys
    BY <2>1
  <2>5. /\ c(d) \in Calls /\ c(d).do \in OnKeys /\ c(d).set = S(d) /\ c(d).db = d
        /\ c(d).err = "abort"
    <3>1. c(d) \in Calls
      BY <2>3, <2>4, ClearDbCall
    <3> QED
      BY <3>1 DEF ClearDb, Call, OnKeys
  <2> HIDE DEF c
  <2> QED
    BY <2>1, <2>2, <2>5, KeysFit
<1> HIDE DEF c
<1>2. \A i \in 1..Len(dbs) : c(dbs[i]) \in Fits(r)
  BY <1>1, ElementType
<1>3. [i \in 1..Len(dbs) |-> c(dbs[i])] \in Seq(Fits(r))
  BY <1>2
<1> QED
  BY <1>3 DEF ResetKeys, c

LEMMA ResetLocalKeysFit ==
  ASSUME NEW r \in Requests, r.op = "restore", NEW a \in Area, NEW type, NEW u, NEW s,
         Reach(r, a, u, s), r.type = "user" => type = "user"
  PROVE  ResetLocalKeys(a, r, type, u, s) \in Seq(Fits(r))
<1> DEFINE e == IF Factory(r) THEN <<ClearDefaultDb(a, "local_keys")>> ELSE <<>>
<1>1. "local_keys" \in Labels
  BY DEF Labels
<1>2. e \in Seq(Fits(r))
  BY <1>1, DefaultsFit, OneType
<1>3. LocalDbs(a) \in Seq({d \in Databases : Reach(r, d[1], u, s)})
  <2>1. {a} \X ToSet(Policies) \subseteq {d \in Databases : Reach(r, d[1], u, s)}
    BY DEF Databases
  <2> QED
    BY <2>1, LocalDbsType, SeqSubset
<1>4. ResetKeys(LocalDbs(a), r, type, u, s) \in Seq(Fits(r))
  BY <1>3, ResetKeysFit
<1> HIDE DEF e
<1>5. ResetKeys(LocalDbs(a), r, type, u, s) \o e \in Seq(Fits(r))
  BY <1>2, <1>4, ConcatType
<1> QED
  BY <1>5 DEF ResetLocalKeys, e

LEMMA ResetSharedKeysFit ==
  ASSUME NEW r \in Requests, r.op = "restore", NEW type, NEW u, NEW s,
         \A a \in Shared : Reach(r, a, u, s), r.type = "user" => type = "user"
  PROVE  ResetSharedKeys(r, type, u, s) \in Seq(Fits(r))
<1> DEFINE X == Fits(r)
           dbs == SharedDbs(tree.data)
           e(d) == IF Factory(r) THEN <<ClearDefaultDb(d[1], "shared_keys")>> ELSE <<>>
           Plan(d) == ResetKeys(<<d>>, r, type, u, s) \o e(d)
           seqs == [i \in 1..Len(dbs) |-> Plan(dbs[i])]
<1>1. "shared_keys" \in Labels
  BY DEF Labels
<1>2. ASSUME NEW d \in Shared \X ToSet(Policies) PROVE Plan(d) \in Seq(X)
  <2>1. d \in Databases /\ d[1] \in Shared /\ d[1] \in Area
    BY DEF Databases, Area
  <2>2. e(d) \in Seq(X)
    BY <1>1, <2>1, DefaultsFit, OneType
  <2>3. <<d>> \in Seq({b \in Databases : Reach(r, b[1], u, s)})
    BY <2>1, OneType
  <2>4. ResetKeys(<<d>>, r, type, u, s) \in Seq(X)
    BY <2>3, ResetKeysFit
  <2> HIDE DEF e, X
  <2> QED
    BY <2>2, <2>4, ConcatType
<1>3. dbs \in Seq(Shared \X ToSet(Policies))
  BY SharedDbsType
<1> HIDE DEF X, dbs, Plan
<1>4. \A i \in 1..Len(dbs) : Plan(dbs[i]) \in Seq(X)
  BY <1>2, <1>3, ElementType
<1>5. seqs \in Seq(Seq(X))
  BY <1>3, <1>4
<1>6. FlattenSeq(seqs) \in Seq(X)
  BY <1>5, FlattenType
<1> QED
  BY <1>6 DEF ResetSharedKeys, ForAll, X, dbs, Plan, e

LEMMA ResetApplicationFits ==
  ASSUME NEW r \in Requests, r.op = "restore", r.type # "user", NEW a \in Apps,
         Reach(r, a, AllUsers, AllSeats)
  PROVE  ResetApplication(a, r) \in Seq(Fits(r))
<1> DEFINE X == Fits(r)
<1>1. a \in Area
  BY DEF Area
<1>2. ResetNode(a) \in Seq(X)
  BY ResetNodeFits
<1>3. ResetUser(a, r, AllUsers, AllSeats) \in Seq(X)
  BY <1>1, ResetUserFits
<1>4. ResetLocalKeys(a, r, "application", AllUsers, AllSeats) \in Seq(X)
  BY <1>1, ResetLocalKeysFit
<1> HIDE DEF X
<1>5. ResetNode(a) \o ResetUser(a, r, AllUsers, AllSeats)
        \o ResetLocalKeys(a, r, "application", AllUsers, AllSeats) \in Seq(X)
  BY <1>2, <1>3, <1>4, ConcatType
<1> QED
  BY <1>5 DEF ResetApplication, X

LEMMA ResetNonUserSharedFits ==
  ASSUME NEW r \in Requests, r.op = "restore", r.type = "all"
  PROVE  ResetNonUserShared \in Seq(Fits(r))
<1> DEFINE X == Fits(r)
           groups == GroupsOf(tree.data)
           seqs == [i \in 1..Len(groups) |-> ResetNode(groups[i])]
<1>1. ASSUME NEW a \in Shared PROVE ResetNode(a) \in Seq(X)
  <2>1. Reach(r, a, AllUsers, AllSeats)
    BY DEF Reach
  <2> QED
    BY <2>1, ResetNodeFits
<1>2. groups \in Seq(Groups)
  BY GroupsOfType
<1>3. Public \in Shared /\ Groups \subseteq Shared
  BY DEF Shared
<1>4. <<ListFolders("abort", "non_user_shared")>> \in Seq(X)
  <2>1. "non_user_shared" \in Labels
    BY DEF Labels
  <2> QED
    BY <2>1, PlainCalls
<1> HIDE DEF X, groups
<1>5. \A i \in 1..Len(groups) : ResetNode(groups[i]) \in Seq(X)
  BY <1>1, <1>2, <1>3, ElementType
<1>6. seqs \in Seq(Seq(X))
  BY <1>2, <1>5
<1>7. FlattenSeq(seqs) \in Seq(X)
  BY <1>6, FlattenType
<1> HIDE DEF seqs
<1>8. ResetNode(Public) \o <<ListFolders("abort", "non_user_shared")>> \o FlattenSeq(seqs)
        \in Seq(X)
  BY <1>1, <1>3, <1>4, <1>7, ConcatType
<1> QED
  BY <1>8 DEF ResetNonUserShared, ForAll, X, seqs, groups

LEMMA ResetUserSharedFits ==
  ASSUME NEW r \in Requests, r.op = "restore", NEW type, NEW u, NEW s,
         \A a \in Shared : Reach(r, a, u, s), r.type = "user" => type = "user"
  PROVE  ResetUserShared(r, type, u, s) \in Seq(Fits(r))
<1> DEFINE X == Fits(r)
           groups == GroupsOf(tree.data)
           Plan(a) == ResetUser(a, r, u, s)
           seqs == [i \in 1..Len(groups) |-> Plan(groups[i])]
<1>1. Public \in Shared /\ Groups \subseteq Shared /\ Shared \subseteq Area
  BY DEF Shared, Area
<1>2. \A a \in Shared : Plan(a) \in Seq(X)
  BY <1>1, ResetUserFits
<1>3. groups \in Seq(Groups)
  BY GroupsOfType
<1>4. <<ListFolders("abort", "group_files")>> \in Seq(X)
  <2>1. "group_files" \in Labels
    BY DEF Labels
  <2> QED
    BY <2>1, PlainCalls
<1>5. ResetSharedKeys(r, type, u, s) \in Seq(X)
  BY ResetSharedKeysFit
<1> HIDE DEF X, groups, Plan
<1>6. \A i \in 1..Len(groups) : Plan(groups[i]) \in Seq(X)
  BY <1>1, <1>2, <1>3, ElementType
<1>7. seqs \in Seq(Seq(X))
  BY <1>3, <1>6
<1>8. FlattenSeq(seqs) \in Seq(X)
  BY <1>7, FlattenType
<1> HIDE DEF seqs
<1>9. Plan(Public) \in Seq(X)
  BY <1>1, <1>2
<1>10. Plan(Public) \o <<ListFolders("abort", "group_files")>> \o FlattenSeq(seqs)
         \o ResetSharedKeys(r, type, u, s) \in Seq(X)
  BY <1>4, <1>5, <1>8, <1>9, ConcatType
<1> QED
  BY <1>10 DEF ResetUserShared, ForAll, X, seqs, groups, Plan

LEMMA ResetUserDataFits ==
  ASSUME NEW r \in Requests, r.op = "restore", r.type = "user"
  PROVE  ResetUserData(r) \in Seq(Fits(r))
<1> DEFINE X == Fits(r)
           apps == AppsOf(tree.data)
           Plan(a) == ResetUser(a, r, r.user, r.seat)
                        \o ResetLocalKeys(a, r, "user", r.user, r.seat)
           seqs == [i \in 1..Len(apps) |-> Plan(apps[i])]
<1>1. ASSUME NEW a \in Apps, r.app # "" => a = r.app PROVE Plan(a) \in Seq(X)
  <2>1. a \in Area /\ Reach(r, a, r.user, r.seat)
    BY <1>1 DEF Area, Reach
  <2>2. ResetUser(a, r, r.user, r.seat) \in Seq(X)
    BY <2>1, ResetUserFits
  <2>3. ResetLocalKeys(a, r, "user", r.user, r.seat) \in Seq(X)
    BY <2>1, ResetLocalKeysFit
  <2> HIDE DEF X
  <2> QED
    BY <2>2, <2>3, ConcatType
<1>2. CASE r.app # ""
  <2>1. r.app \in Apps
    BY <1>2 DEF Requests
  <2>2. Plan(r.app) \in Seq(X)
    BY <1>1, <2>1
  <2> QED
    BY <1>2, <2>2 DEF ResetUserData
<1>3. CASE r.app = ""
  <2>1. apps \in Seq(Apps)
    BY AppsOfType
  <2>2. <<ListFolders("abort", "user_local")>> \in Seq(X)
    <3>1. "user_local" \in Labels
      BY DEF Labels
    <3> QED
      BY <3>1, PlainCalls
  <2>3. ResetUserShared(r, "user", r.user, r.seat) \in Seq(X)
    <3>1. \A a \in Shared : Reach(r, a, r.user, r.seat)
      BY <1>3 DEF Reach
    <3> QED
      BY <3>1, ResetUserSharedFits
  <2> HIDE DEF X, apps, Plan
  <2>4. \A i \in 1..Len(apps) : Plan(apps[i]) \in Seq(X)
    BY <1>1, <1>3, <2>1, ElementType
  <2>5. seqs \in Seq(Seq(X))
    BY <2>1, <2>4
  <2>6. FlattenSeq(seqs) \in Seq(X)
    BY <2>5, FlattenType
  <2> HIDE DEF seqs
  <2>7. <<ListFolders("abort", "user_local")>> \o FlattenSeq(seqs)
          \o ResetUserShared(r, "user", r.user, r.seat) \in Seq(X)
    BY <2>2, <2>3, <2>6, ConcatType
  <2> QED
    BY <1>3, <2>7 DEF ResetUserData, ForAll, X, seqs, apps, Plan
<1> QED
  BY <1>2, <1>3

LEMMA ResetAllDataFits ==
  ASSUME NEW r \in Requests, r.op = "restore", r.type = "all"
  PROVE  ResetAllData(r) \in Seq(Fits(r))
<1> DEFINE X == Fits(r)
           apps == AppsOf(tree.data)
           Plan(a) == ResetApplication(a, r)
           seqs == [i \in 1..Len(apps) |-> Plan(apps[i])]
<1>1. \A a : Reach(r, a, AllUsers, AllSeats)
  BY DEF Reach
<1>2. \A a \in Apps : Plan(a) \in Seq(X)
  BY <1>1, ResetApplicationFits
<1>3. apps \in Seq(Apps)
  BY AppsOfType
<1>4. <<ListFolders("abort", "all_data")>> \in Seq(X)
  <2>1. "all_data" \in Labels
    BY DEF Labels
  <2> QED
    BY <2>1, PlainCalls
<1>5. ResetNonUserShared \in Seq(X)
  BY ResetNonUserSharedFits
<1>6. ResetUserShared(r, "all", AllUsers, AllSeats) \in Seq(X)
  BY <1>1, ResetUserSharedFits
<1>7. <<>> \in Seq(X)
  OBVIOUS
<1> HIDE DEF X, apps, Plan
<1>8. \A i \in 1..Len(apps) : Plan(apps[i]) \in Seq(X)
  BY <1>2, <1>3, ElementType
<1>9. seqs \in Seq(Seq(X))
  BY <1>3, <1>8
<1>10. FlattenSeq(seqs) \in Seq(X)
  BY <1>9, FlattenType
<1> HIDE DEF seqs
<1>11. <<ListFolders("abort", "all_data")>> \o FlattenSeq(seqs) \o ResetNonUserShared
         \o ResetUserShared(r, "all", AllUsers, AllSeats) \in Seq(X)
  BY <1>4, <1>5, <1>6, <1>10, ConcatType
<1> QED
  BY <1>7, <1>11 DEF ResetAllData, ForAll, X, seqs, apps, Plan

LEMMA ResetPlanFits ==
  ASSUME NEW r \in Requests, r.op = "restore"
  PROVE  ResetPlan(r) \in Plans(r)
<1> SUFFICES ResetPlan(r) \in Seq(Fits(r))
  BY SeqIsPlan
<1>1. CASE r.type = "all"
  BY <1>1, ResetAllDataFits DEF ResetPlan
<1>2. CASE r.type = "user"
  BY <1>2, ResetUserDataFits DEF ResetPlan
<1>3. CASE r.type = "application"
  <2>1. r.app \in Apps /\ Reach(r, r.app, AllUsers, AllSeats)
    BY <1>3 DEF Requests, Reach
  <2>2. ResetApplication(r.app, r) \in Seq(Fits(r))
    BY <1>3, <2>1, ResetApplicationFits
  <2> QED
    BY <1>3, <2>2 DEF ResetPlan
<1> QED
  BY <1>1, <1>2, <1>3 DEF Requests

-----------------------------------------------------------------------------
(* The plan of a deletion. *)

LEMMA DeleteKeysFit ==
  ASSUME NEW r \in Requests, r.op = "delete", NEW dbs \in Seq(Databases), NEW fn \in Labels
  PROVE  DeleteKeysOf(dbs, r, fn) \in Seq(Fits(r))
<1> DEFINE S(d) == FilterKeys(d, "user", r.user, r.seat)
           c(d) == ClearDb("data", "data", d, S(d), "ignore", fn)
<1>1. ASSUME NEW d \in Databases PROVE c(d) \in Fits(r)
  <2>1. S(d) \in SUBSET {k \in Keys : <<k[1], k[3]>> = d}
    BY DEF FilterKeys
  <2>2. MayWrite(r) /\ \A k \in S(d) : SelectsKey(r, k)
    BY DeletedKeysSelected DEF MayWrite
  <2> HIDE DEF S
  <2>3. S(d) \in SUBSET Keys
    BY <2>1
  <2>4. /\ c(d) \in Calls /\ c(d).do \in OnKeys /\ c(d).set = S(d) /\ c(d).db = d
        /\ c(d).err = "ignore"
    <3>1. c(d) \in Calls
      BY <2>3, ClearDbCall
    <3> QED
      BY <3>1 DEF ClearDb, Call, OnKeys
  <2> HIDE DEF c
  <2> QED
    BY <2>1, <2>2, <2>4, KeysFit
<1> HIDE DEF c
<1>2. \A i \in 1..Len(dbs) : c(dbs[i]) \in Fits(r)
  BY <1>1, ElementType
<1>3. [i \in 1..Len(dbs) |-> c(dbs[i])] \in Seq(Fits(r))
  BY <1>2
<1> QED
  BY <1>3 DEF DeleteKeysOf, c

\* A seat's folder is there or not.
LEMMA SeatFolderIs ==
  ASSUME NEW r, NEW a
  PROVE  \/ SeatFolder(a, r) = {} /\ Cardinality(SeatFolder(a, r)) = 0
         \/ /\ SeatFolder(a, r) = {<<a, <<r.user, r.seat>>>>}
            /\ Cardinality(SeatFolder(a, r)) = 1
<1> DEFINE f == <<a, <<r.user, r.seat>>>>
<1>1. SeatFolder(a, r) \subseteq {f}
  <2> SUFFICES ASSUME NEW g \in SeatFolder(a, r) PROVE g = f
    OBVIOUS
  <2>1. g \in Folders /\ g[1] = a /\ g[2] = <<r.user, r.seat>>
    BY DEF SeatFolder
  <2>2. PICK b \in Area, o \in Nat \X Nat : g = <<b, o>>
    BY <2>1, DataAssumption
  <2> QED
    BY <2>1, <2>2
<1> HIDE DEF f
<1>2. SeatFolder(a, r) = {} \/ SeatFolder(a, r) = {f}
  BY <1>1
<1>3. Cardinality({}) = 0 /\ Cardinality({f}) = 1
  BY FS_EmptySet, FS_Singleton
<1> QED
  BY <1>2, <1>3 DEF f

LEMMA SeatFolderFits ==
  ASSUME NEW r \in Requests, r.op = "delete", NEW a, NEW fn \in Labels
  PROVE  [i \in 1..Cardinality(SeatFolder(a, r)) |-> ClearSeat(<<a, <<r.user, r.seat>>>>, fn)]
           \in Seq(Fits(r))
<1> DEFINE f == <<a, <<r.user, r.seat>>>>
           c == ClearSeat(f, fn)
<1>1. CASE Cardinality(SeatFolder(a, r)) = 0
  BY <1>1
<1>2. CASE SeatFolder(a, r) = {f} /\ Cardinality(SeatFolder(a, r)) = 1
  <2>1. f \in SeatFolder(a, r)
    BY <1>2
  <2>2. f \in Folders /\ f[2] # Node /\ f[2] = <<r.user, r.seat>> /\ f[1] = a
    BY <2>1 DEF SeatFolder
  <2>3. f[1] \in Area
    BY <2>2, DataAssumption
  <2>4. SelectsFile(r, f) /\ MayWrite(r)
    BY <2>2 DEF SelectsFile, MayWrite
  <2> HIDE DEF f
  <2>5. c \in Calls
    BY <2>2, <2>3 DEF ClearSeat, Call, Calls, OnFolders
  <2>6. c.do \in OnFolders /\ c.set = {f}
    BY DEF ClearSeat, Call, OnFolders
  <2>7. r.op # "recover"
    OBVIOUS
  <2> HIDE DEF c
  <2>8. c \in Fits(r)
    BY <2>2, <2>4, <2>5, <2>6, <2>7, FoldersFit
  <2>9. [i \in 1..1 |-> c] \in Seq(Fits(r))
    BY <2>8
  <2> QED
    BY <1>2, <2>9 DEF c, f
<1> QED
  BY <1>1, <1>2, SeatFolderIs

\* The listing a walk of an area begins with.
LEMMA ListAreaFits ==
  ASSUME NEW r, r.op = "delete", NEW a \in Area, NEW fn \in Labels
  PROVE  ListArea(a, fn) \in Fits(r)
<1> DEFINE c == ListArea(a, fn)
<1>1. c \in Calls
  BY DEF ListArea, Call, Calls, NoDb
<1>2. c.do = "listArea" /\ c.area = a
  BY DEF ListArea, Call
<1> HIDE DEF c
<1>3. Typed(c) /\ Selected(r, c) /\ Checking(r, c)
  BY <1>2 DEF Typed, Selected, Checking, OnFolders, OnKeys
<1>4. c \in Fits(r)
  BY <1>1, <1>3 DEF Fits
<1> QED
  BY <1>4 DEF c

LEMMA DeleteFromFolderFits ==
  ASSUME NEW r \in Requests, r.op = "delete", NEW a \in Area, NEW before,
         NEW mount \in {"mnt-c", "mnt-wt"}
  PROVE  DeleteFromFolder(a, r, before, mount) \in Seq(Fits(r))
<1> DEFINE X == Fits(r)
           dbs(policies) == Those(LocalDbs(a), {d \in tree.data.db : d[2] \in policies})
           fn == <<a, mount>>
           seat == [i \in 1..Cardinality(SeatFolder(a, r)) |->
                      ClearSeat(<<a, <<r.user, r.seat>>>>, fn)]
<1>1. fn \in Labels
  BY DEF Labels
<1>2. \A policies : dbs(policies) \in Seq(Databases)
  <2> TAKE policies
  <2>1. dbs(policies) \in Seq(({a} \X ToSet(Policies))
                               \cap {d \in tree.data.db : d[2] \in policies})
    BY LocalDbsType, ThoseType
  <2>2. ({a} \X ToSet(Policies)) \cap {d \in tree.data.db : d[2] \in policies}
          \subseteq Databases
    BY DEF Databases
  <2> QED
    BY <2>1, <2>2, SeqSubset
<1>3. seat \in Seq(X)
  BY <1>1, SeatFolderFits
<1>6. ListArea(a, fn) \in X
  BY <1>1, ListAreaFits
<1> HIDE DEF X, dbs, fn, seat
<1>4. \A policies : DeleteKeysOf(dbs(policies), r, fn) \in Seq(X)
  BY <1>1, <1>2, DeleteKeysFit DEF X
<1>7. <<ListArea(a, fn)>> \in Seq(X)
  BY <1>6, OneType
<1>5. <<ListArea(a, fn)>> \o DeleteKeysOf(dbs(before), r, fn) \o seat
        \o DeleteKeysOf(dbs(ToSet(Policies) \ before), r, fn) \in Seq(X)
  BY <1>3, <1>4, <1>7, ConcatType
<1> QED
  BY <1>5 DEF DeleteFromFolder, X, dbs, fn, seat

LEMMA DeleteFromMountFits ==
  ASSUME NEW r \in Requests, r.op = "delete", NEW before, NEW mount \in {"mnt-c", "mnt-wt"}
  PROVE  DeleteFromMount(r, before, mount) \in Seq(Fits(r))
<1> DEFINE X == Fits(r)
           groups == GroupsOf(tree.data)
           From(a) == DeleteFromFolder(a, r, before, mount)
           seqs == [i \in 1..Len(groups) |-> From(groups[i])]
           Entry(m) ==
             IF m = SharedFolder
               THEN From(Public) \o <<ListGroups("abort", <<"groups", mount>>)>>
                      \o FlattenSeq(seqs)
               ELSE IF AreaExists(tree.data, m) THEN From(m) ELSE <<>>
           entries == [i \in 1..Len(MntList) |-> Entry(MntList[i])]
<1>1. \A a \in Area : From(a) \in Seq(X)
  BY DeleteFromFolderFits
<1>2. groups \in Seq(Groups)
  BY GroupsOfType
<1>3. Public \in Area /\ Groups \subseteq Area /\ Apps \subseteq Area
  BY DEF Shared, Area
<1>4. <<ListGroups("abort", <<"groups", mount>>)>> \in Seq(X)
  <2>1. <<"groups", mount>> \in Labels
    BY DEF Labels
  <2> QED
    BY <2>1, PlainCalls
<1>5. <<ListFolders("abort", <<"mount", mount>>)>> \in Seq(X)
  <2>1. <<"mount", mount>> \in Labels
    BY DEF Labels
  <2> QED
    BY <2>1, PlainCalls
<1>6. <<>> \in Seq(X)
  OBVIOUS
<1> HIDE DEF X, groups, From
<1>7. \A i \in 1..Len(groups) : From(groups[i]) \in Seq(X)
  BY <1>1, <1>2, <1>3, ElementType
<1>8. seqs \in Seq(Seq(X))
  BY <1>2, <1>7
<1>9. FlattenSeq(seqs) \in Seq(X)
  BY <1>8, FlattenType
<1>10. From(Public) \o <<ListGroups("abort", <<"groups", mount>>)>> \o FlattenSeq(seqs)
         \in Seq(X)
  BY <1>1, <1>3, <1>4, <1>9, ConcatType
<1>11. \A m \in ToSet(MntList) : Entry(m) \in Seq(X)
  BY <1>1, <1>3, <1>6, <1>10 DEF Apps
<1>12. MntList \in Seq(ToSet(MntList))
  BY DataAssumption
<1>13. entries \in Seq(Seq(X))
  <2> HIDE DEF Entry
  <2>1. \A i \in 1..Len(MntList) : Entry(MntList[i]) \in Seq(X)
    BY <1>11, <1>12, ElementType
  <2> QED
    BY <1>12, <2>1
<1>14. FlattenSeq(entries) \in Seq(X)
  BY <1>13, FlattenType
<1>15. <<ListFolders("abort", <<"mount", mount>>)>> \o FlattenSeq(entries) \in Seq(X)
  <2> HIDE DEF entries
  <2> QED
    BY <1>5, <1>14, ConcatType
<1> QED
  BY <1>15 DEF DeleteFromMount, ForAll, X, groups, From

LEMMA DeletePlanFits ==
  ASSUME NEW r \in Requests, r.op = "delete", NEW before
  PROVE  DeletePlan(r, before) \in Plans(r)
<1>1. DeletePlan(r, before) \in Seq(Fits(r))
  BY DeleteFromMountFits, ConcatType DEF DeletePlan
<1> QED
  BY <1>1, SeqIsPlan

-----------------------------------------------------------------------------
(* The plan of a backup: everything goes to the collection. *)

LEMMA CollectFits ==
  ASSUME NEW r, r.op = "backup", NEW S \in SUBSET Folders, NEW fn \in Labels
  PROVE  Copy("data", "coll", S, "abort", fn) \in Fits(r)
<1> DEFINE c == Copy("data", "coll", S, "abort", fn)
<1>1. c \in Calls /\ c.do \in OnFolders /\ c.set = S /\ c.to = "coll"
  <2>1. c \in Calls
    BY CopyCall
  <2> QED
    BY <2>1 DEF Copy, Call, OnFolders
<1> HIDE DEF c
<1>2. c \in Fits(r)
  BY <1>1, FoldersFit
<1> QED
  BY <1>2 DEF c

LEMMA BackupDatabasesFit ==
  ASSUME NEW r, r.op = "backup", NEW dbs \in Seq(Databases)
  PROVE  BackupDatabases(dbs, r) \in Seq(Fits(r))
<1> DEFINE S(d) == FilterKeys(d, r.type, r.user, r.seat)
           c(d) == CopyDb("data", "coll", d, S(d), "abort", "databases")
<1>1. ASSUME NEW d \in Databases PROVE c(d) \in Fits(r)
  <2>1. S(d) \in SUBSET {k \in Keys : <<k[1], k[3]>> = d}
    BY DEF FilterKeys
  <2>2. "databases" \in Labels
    BY DEF Labels
  <2> HIDE DEF S
  <2>3. S(d) \in SUBSET Keys
    BY <2>1
  <2>4. /\ c(d) \in Calls /\ c(d).do \in OnKeys /\ c(d).set = S(d) /\ c(d).db = d
        /\ c(d).err = "abort" /\ c(d).to = "coll"
    <3>1. c(d) \in Calls
      BY <2>2, <2>3, CopyDbCall
    <3> QED
      BY <3>1 DEF CopyDb, Call, OnKeys
  <2> HIDE DEF c
  <2> QED
    BY <2>1, <2>4, KeysFit
<1> HIDE DEF c
<1>2. \A i \in 1..Len(dbs) : c(dbs[i]) \in Fits(r)
  BY <1>1, ElementType
<1>3. [i \in 1..Len(dbs) |-> c(dbs[i])] \in Seq(Fits(r))
  BY <1>2
<1> QED
  BY <1>3 DEF BackupDatabases, c

LEMMA CollectQuietly ==
  ASSUME NEW r, r.op = "backup", NEW a \in Area, NEW fn \in Labels
  PROVE  /\ CopyRct(a, fn) \in Fits(r) /\ CopyAll \in Fits(r)
         /\ a \in Apps => ExportLinks(a, fn) \in Fits(r)
<1>1. {"copyRct", "copyAll", "exportLinks"} \subseteq Quiet /\ "" \in Labels
  BY DEF Quiet, Labels
<1> QED
  BY <1>1, QuietFits DEF CopyRct, CopyAll, ExportLinks

LEMMA BackupFoldersFit ==
  ASSUME NEW r, r.op = "backup", NEW a
  PROVE  BackupNode(a) \in Seq(Fits(r)) /\ BackupUser(a, r) \in Seq(Fits(r))
<1>1. "node" \in Labels /\ "user" \in Labels
  BY DEF Labels
<1>2. NodeFolder(a) \in SUBSET Folders /\ UserFolder(a, r.user, r.seat) \in SUBSET Folders
  BY DEF NodeFolder, UserFolder
<1> QED
  BY <1>1, <1>2, CollectFits, OneType DEF BackupNode, BackupUser

LEMMA BackupUserLocalFits ==
  ASSUME NEW r, r.op = "backup"
  PROVE  BackupUserLocal(r) \in Seq(Fits(r))
<1> DEFINE X == Fits(r)
           apps == AppsOf(tree.data)
           Plan(a) == BackupUser(a, r) \o <<CopyRct(a, "local"), ExportLinks(a, "local")>>
           seqs == [i \in 1..Len(apps) |-> Plan(apps[i])]
<1>1. ASSUME NEW a \in Apps PROVE Plan(a) \in Seq(X)
  <2>1. a \in Area /\ "local" \in Labels
    BY DEF Area, Labels
  <2>2. CopyRct(a, "local") \in X /\ ExportLinks(a, "local") \in X
    BY <2>1, CollectQuietly
  <2>3. BackupUser(a, r) \in Seq(X)
    BY BackupFoldersFit
  <2> HIDE DEF X
  <2>4. <<CopyRct(a, "local"), ExportLinks(a, "local")>> \in Seq(X)
    BY <2>2
  <2> QED
    BY <2>3, <2>4, ConcatType
<1>2. apps \in Seq(Apps)
  BY AppsOfType
<1> HIDE DEF X, apps, Plan
<1>3. \A i \in 1..Len(apps) : Plan(apps[i]) \in Seq(X)
  BY <1>1, <1>2, ElementType
<1>4. seqs \in Seq(Seq(X))
  BY <1>2, <1>3
<1>5. FlattenSeq(seqs) \in Seq(X)
  BY <1>4, FlattenType
<1> QED
  BY <1>5 DEF BackupUserLocal, ForAll, X, apps, Plan

LEMMA BackupUserSharedFits ==
  ASSUME NEW r, r.op = "backup"
  PROVE  BackupUserShared(r) \in Seq(Fits(r))
<1> DEFINE X == Fits(r)
           public == IF AreaExists(tree.data, Public) THEN <<Public>> ELSE <<>>
           groups == GroupsOf(tree.data)
           Plan(a) == BackupUser(a, r) \o <<CopyRct(a, "shared")>>
           seqs(areas) == [i \in 1..Len(areas) |-> Plan(areas[i])]
<1>1. ASSUME NEW a \in Shared PROVE Plan(a) \in Seq(X)
  <2>1. a \in Area /\ "shared" \in Labels
    BY DEF Area, Labels
  <2>2. <<CopyRct(a, "shared")>> \in Seq(X)
    BY <2>1, CollectQuietly, OneType
  <2>3. BackupUser(a, r) \in Seq(X)
    BY BackupFoldersFit
  <2> HIDE DEF X
  <2> QED
    BY <2>2, <2>3, ConcatType
<1>2. public \in Seq(Shared) /\ groups \in Seq(Shared)
  <2>1. Public \in Shared /\ Groups \subseteq Shared
    BY DEF Shared
  <2>2. <<Public>> \in Seq(Shared) /\ <<>> \in Seq(Shared)
    BY <2>1, OneType
  <2> QED
    BY <2>1, <2>2, GroupsOfType, SeqSubset
<1>3. <<ListGroups("abort", "shared")>> \in Seq(X)
  <2>1. "shared" \in Labels
    BY DEF Labels
  <2> QED
    BY <2>1, PlainCalls
<1> HIDE DEF X, public, groups, Plan
<1>4. ASSUME NEW areas \in Seq(Shared) PROVE FlattenSeq(seqs(areas)) \in Seq(X)
  <2>1. \A i \in 1..Len(areas) : Plan(areas[i]) \in Seq(X)
    BY <1>1, ElementType
  <2>2. seqs(areas) \in Seq(Seq(X))
    BY <2>1
  <2> QED
    BY <2>2, FlattenType
<1>5. FlattenSeq(seqs(public)) \in Seq(X) /\ FlattenSeq(seqs(groups)) \in Seq(X)
  BY <1>2, <1>4
<1>6. FlattenSeq(seqs(public)) \o <<ListGroups("abort", "shared")>>
        \o FlattenSeq(seqs(groups)) \in Seq(X)
  <2> HIDE DEF seqs
  <2> QED
    BY <1>3, <1>5, ConcatType
<1> QED
  BY <1>6 DEF BackupUserShared, ForAll, X, public, groups, Plan

LEMMA BackupUserAllFits ==
  ASSUME NEW r, r.op = "backup"
  PROVE  BackupUserAll(r) \in Seq(Fits(r))
<1> DEFINE X == Fits(r)
           apps == AppsOf(tree.data)
           Plan(a) == BackupDatabases(LocalDbs(a), r)
           seqs == [i \in 1..Len(apps) |-> Plan(apps[i])]
<1>1. ASSUME NEW a \in Apps PROVE Plan(a) \in Seq(X)
  <2>1. a \in Area /\ {a} \X ToSet(Policies) \subseteq Databases
    BY DEF Area, Databases
  <2>2. LocalDbs(a) \in Seq(Databases)
    BY <2>1, LocalDbsType, SeqSubset
  <2> QED
    BY <2>2, BackupDatabasesFit
<1>2. apps \in Seq(Apps)
  BY AppsOfType
<1>3. <<ListFolders("abort", "user_all")>> \in Seq(X)
  <2>1. "user_all" \in Labels
    BY DEF Labels
  <2> QED
    BY <2>1, PlainCalls
<1>4. BackupUserLocal(r) \in Seq(X) /\ BackupUserShared(r) \in Seq(X)
  BY BackupUserLocalFits, BackupUserSharedFits
<1>5. BackupDatabases(SharedDbs(tree.data), r) \in Seq(X)
  <2>1. Shared \X ToSet(Policies) \subseteq Databases
    BY DEF Area, Databases
  <2>2. SharedDbs(tree.data) \in Seq(Databases)
    BY <2>1, SharedDbsType, SeqSubset
  <2> QED
    BY <2>2, BackupDatabasesFit
<1>6. <<>> \in Seq(X)
  OBVIOUS
<1> HIDE DEF X, apps, Plan
<1>7. \A i \in 1..Len(apps) : Plan(apps[i]) \in Seq(X)
  BY <1>1, <1>2, ElementType
<1>8. seqs \in Seq(Seq(X))
  BY <1>2, <1>7
<1>9. FlattenSeq(seqs) \in Seq(X)
  BY <1>8, FlattenType
<1> HIDE DEF seqs
<1>10. <<ListFolders("abort", "user_all")>> \o BackupUserLocal(r) \o BackupUserShared(r)
         \o FlattenSeq(seqs) \in Seq(X)
  BY <1>3, <1>4, <1>9, ConcatType
<1>11. <<ListFolders("abort", "user_all")>> \o BackupUserLocal(r) \o BackupUserShared(r)
         \o FlattenSeq(seqs) \o BackupDatabases(SharedDbs(tree.data), r) \in Seq(X)
  BY <1>5, <1>10, ConcatType
<1> QED
  BY <1>6, <1>11 DEF BackupUserAll, ForAll, X, apps, seqs, Plan

LEMMA BackupPlanFits ==
  ASSUME NEW r \in Requests, r.op = "backup"
  PROVE  BackupPlan(r) \in Plans(r)
<1> SUFFICES BackupPlan(r) \in Seq(Fits(r))
  BY SeqIsPlan
<1>1. CASE r.type = "all"
  <2>1. "" \in Labels /\ Public \in Area
    BY DEF Labels, Area, Shared
  <2>2. <<CopyAll>> \in Seq(Fits(r))
    BY <2>1, CollectQuietly, OneType
  <2> QED
    BY <1>1, <2>2 DEF BackupPlan
<1>2. CASE r.type = "user"
  BY <1>2, BackupUserAllFits DEF BackupPlan
<1>3. CASE r.type = "application"
  <2> DEFINE X == Fits(r)
  <2>1. r.app \in Area /\ "application" \in Labels
    BY <1>3 DEF Requests, Area, Labels
  <2>2. BackupNode(r.app) \in Seq(X) /\ BackupUser(r.app, r) \in Seq(X)
    BY BackupFoldersFit
  <2>3. <<CopyRct(r.app, "application")>> \in Seq(X)
    BY <2>1, CollectQuietly, OneType
  <2>4. BackupDatabases(LocalDbs(r.app), r) \in Seq(X)
    <3>1. LocalDbs(r.app) \in Seq({r.app} \X ToSet(Policies))
      BY <2>1, LocalDbsType
    <3>2. {r.app} \X ToSet(Policies) \subseteq Databases
      BY <2>1 DEF Databases
    <3>3. LocalDbs(r.app) \in Seq(Databases)
      BY <3>1, <3>2, SeqSubset
    <3> QED
      BY <3>3, BackupDatabasesFit
  <2> HIDE DEF X
  <2>5. BackupApplication(r) \in Seq(X)
    BY <2>2, <2>3, <2>4, ConcatType DEF BackupApplication
  <2> QED
    BY <1>3, <2>5 DEF BackupPlan, X
<1> QED
  BY <1>1, <1>2, <1>3 DEF Requests

-----------------------------------------------------------------------------
(* What a call does to the trees. *)

Trees == [data : Tree, coll : Tree, ext : Tree]

\* The new tree differs from the old one in folders of F and in keys of K, and
\* not in the resource tables.
Differs(old, new, F, K) ==
  /\ new \in Tree /\ new.rct = old.rct
  /\ \A f \in Folders : new.file[f] # old.file[f] => f \in F
  /\ \A k \in Keys : new.key[k] # old.key[k] => k \in K

LEMMA FileChanged ==
  ASSUME NEW t \in Tree, NEW file \in [Folders -> {Absent, Empty} \cup Versions], NEW S,
         \A f \in Folders : file[f] # t.file[f] => f \in S
  PROVE  Differs(t, [t EXCEPT !.file = file], S, {})
BY DEF Differs, Tree

LEMMA CopyFolderDiffers ==
  ASSUME NEW src \in Tree, NEW dst \in Tree, NEW S
  PROVE  Differs(dst, CopyFolder(src, dst, S), S, {})
<1> DEFINE file == [f \in Folders |->
                      IF f \in S /\ (src.file[f] \in Versions \/ dst.file[f] = Absent)
                        THEN src.file[f] ELSE dst.file[f]]
<1>1. file \in [Folders -> {Absent, Empty} \cup Versions]
  BY DEF Tree
<1>2. \A f \in Folders : file[f] # dst.file[f] => f \in S
  OBVIOUS
<1> HIDE DEF file
<1>3. Differs(dst, [dst EXCEPT !.file = file], S, {})
  BY <1>1, <1>2, FileChanged
<1> QED
  BY <1>3 DEF CopyFolder, file

LEMMA DeleteFolderDiffers ==
  ASSUME NEW t \in Tree, NEW S
  PROVE  Differs(t, DeleteFolder(t, S), S, {})
<1> DEFINE file == [f \in Folders |-> IF f \in S THEN Absent ELSE t.file[f]]
<1>1. file \in [Folders -> {Absent, Empty} \cup Versions]
  BY DEF Tree
<1>2. \A f \in Folders : file[f] # t.file[f] => f \in S
  OBVIOUS
<1> HIDE DEF file
<1>3. Differs(t, [t EXCEPT !.file = file], S, {})
  BY <1>1, <1>2, FileChanged
<1> QED
  BY <1>3 DEF DeleteFolder, file

LEMMA EmptiedDiffers ==
  ASSUME NEW t \in Tree, NEW S, NEW held, held \subseteq S
  PROVE  Differs(t, [t EXCEPT !.file = [f \in Folders |->
                       IF f \in held THEN Empty ELSE t.file[f]]], S, {})
<1> DEFINE file == [f \in Folders |-> IF f \in held THEN Empty ELSE t.file[f]]
<1>1. file \in [Folders -> {Absent, Empty} \cup Versions]
  BY DEF Tree
<1>2. \A f \in Folders : file[f] # t.file[f] => f \in S
  OBVIOUS
<1> HIDE DEF file
<1>3. Differs(t, [t EXCEPT !.file = file], S, {})
  BY <1>1, <1>2, FileChanged
<1> QED
  BY <1>3 DEF file

LEMMA CopyKeysDiffers ==
  ASSUME NEW src \in Tree, NEW dst \in Tree, NEW d \in Databases, NEW S
  PROVE  Differs(dst, CopyKeys(src, dst, d, S), {}, S)
<1> DEFINE key == [k \in Keys |-> IF k \in S /\ src.key[k] # Absent THEN src.key[k]
                                    ELSE dst.key[k]]
           db == IF \E k \in Keys : <<k[1], k[3]>> = d /\ src.key[k] # Absent
                   THEN dst.db \cup {d} ELSE dst.db
<1>1. key \in [Keys -> {Absent} \cup Versions] /\ db \in SUBSET Databases
  BY DEF Tree
<1>2. \A k \in Keys : key[k] # dst.key[k] => k \in S
  OBVIOUS
<1>3. CopyKeys(src, dst, d, S) = [dst EXCEPT !.key = key, !.db = db]
  BY DEF CopyKeys, Tree
<1> HIDE DEF key, db
<1> QED
  BY <1>1, <1>2, <1>3 DEF Differs, Tree

LEMMA DeleteKeysDiffers ==
  ASSUME NEW t \in Tree, NEW S
  PROVE  Differs(t, DeleteKeys(t, S), {}, S)
<1> DEFINE key == [k \in Keys |-> IF k \in S THEN Absent ELSE t.key[k]]
<1>1. key \in [Keys -> {Absent} \cup Versions]
  BY DEF Tree
<1>2. \A k \in Keys : key[k] # t.key[k] => k \in S
  OBVIOUS
<1>3. DeleteKeys(t, S) = [t EXCEPT !.key = key]
  BY DEF DeleteKeys, Tree
<1> HIDE DEF key
<1> QED
  BY <1>1, <1>2, <1>3 DEF Differs, Tree

LEMMA OverlayType ==
  ASSUME NEW src \in Tree, NEW dst \in Tree, NEW areas
  PROVE  Overlay(src, dst, areas) \in Tree
<1> DEFINE in == CopyFolder(src, dst, {f \in Folders : f[1] \in areas})
           key == [k \in Keys |-> IF k[1] \in areas /\ <<k[1], k[3]>> \in src.db
                                    THEN src.key[k] ELSE in.key[k]]
           db == in.db \cup {d \in src.db : d[1] \in areas}
           rct == [a \in Area |-> IF a \in areas /\ src.rct[a] # 0 THEN src.rct[a]
                                    ELSE in.rct[a]]
           link == [a \in Apps |-> IF a \in areas THEN in.link[a] \cup src.link[a]
                                     ELSE in.link[a]]
           info == [a \in Apps |-> IF a \in areas /\ src.info[a] # {} THEN src.info[a]
                                     ELSE in.info[a]]
<1>1. in \in Tree
  BY CopyFolderDiffers DEF Differs
<1> HIDE DEF in
<1>2. /\ key \in [Keys -> {Absent} \cup Versions] /\ db \in SUBSET Databases
      /\ rct \in [Area -> Nat]
  BY <1>1 DEF Tree
<1>3. link \in [Apps -> SUBSET Shared] /\ info \in [Apps -> SUBSET Shared]
  BY <1>1 DEF Tree
<1>4. Overlay(src, dst, areas) =
        [in EXCEPT !.key = key, !.db = db, !.rct = rct, !.link = link, !.info = info]
  BY DEF Overlay, in
<1> HIDE DEF key, db, rct, link, info
<1> QED
  BY <1>1, <1>2, <1>3, <1>4 DEF Tree

LEMMA NoTreeType == NoTree \in Tree
<1>1. /\ [f \in Folders |-> Absent] \in [Folders -> {Absent, Empty} \cup Versions]
      /\ [k \in Keys |-> Absent] \in [Keys -> {Absent} \cup Versions]
      /\ [a \in Area |-> 0] \in [Area -> Nat]
      /\ [a \in Apps |-> {}] \in [Apps -> SUBSET Shared]
  BY DEF Absent
<1> QED
  BY <1>1 DEF NoTree, Tree

\* The step keeps within what call c may touch.
Within(c) ==
  /\ tree' \in Trees
  /\ tree'.data.rct = tree.data.rct /\ tree'.ext = tree.ext
  /\ \A f \in Folders : tree'.data.file[f] # tree.data.file[f] =>
       c.to = "data" /\ c.do \in OnFolders /\ f \in c.set
  /\ \A k \in Keys : tree'.data.key[k] # tree.data.key[k] =>
       c.to = "data" /\ c.do \in OnKeys /\ k \in c.set

LEMMA SetWithin ==
  ASSUME tree \in Trees, NEW c, NEW to \in {"data", "coll"}, NEW F, NEW K, NEW t,
         Differs(tree[to], t, F, K), Set(to, t),
         to = "data" => /\ F # {} => c.to = "data" /\ c.do \in OnFolders /\ F \subseteq c.set
                        /\ K # {} => c.to = "data" /\ c.do \in OnKeys /\ K \subseteq c.set
  PROVE  Within(c)
<1>1. t \in Tree
  BY DEF Differs
<1>2. tree' \in Trees
  BY <1>1 DEF Set, Trees
<1>3. CASE to = "data"
  <2>1. tree'.data = t /\ tree'.ext = tree.ext
    BY <1>3 DEF Set, Trees
  <2>2. Differs(tree.data, t, F, K)
    BY <1>3
  <2> QED
    BY <1>2, <1>3, <2>1, <2>2 DEF Within, Differs
<1>4. CASE to = "coll"
  <2>1. tree'.data = tree.data /\ tree'.ext = tree.ext
    BY <1>4 DEF Set, Trees
  <2> QED
    BY <1>2, <2>1 DEF Within
<1> QED
  BY <1>3, <1>4

\* The collection is no one's business here.
LEMMA CollectionWithin ==
  ASSUME tree \in Trees, NEW c, NEW t \in Tree, Set("coll", t)
  PROVE  Within(c)
BY DEF Set, Trees, Within

-----------------------------------------------------------------------------
(* What a call does to the rest, and where the operation goes on. *)

Phases == {"idle", "next", "uncompress", "work", "reply"}
Results == {"none", "ok", "error", "crashed"}
ArchiveRecord == [state : {"none", "good", "broken"}, tree : Tree, of : Requests \cup {NoRequest},
             was : Tree, sound : BOOLEAN]
Unnoticed == Folders \cup Keys \cup Area
History == [before : Tree, fresh : BOOLEAN, lost : SUBSET Unnoticed,
            counted : SUBSET Labels, extracted : SUBSET Tree]

TypeInv ==
  /\ tree \in Trees /\ arch \in [Archives -> ArchiveRecord]
  /\ conf \in [folder : SUBSET Area, db : SUBSET Area]
  /\ phase \in Phases /\ result \in Results
  /\ sum \in Int /\ part \in Nat /\ faults \in Nat /\ writes \in Nat
  /\ hist \in History

Goes ==
  /\ sum' \in Int /\ part' \in Nat /\ result' \in Results
  /\ hist' \in History /\ hist'.before = hist.before
  /\ hist'.extracted = hist.extracted
  /\ \/ todo' = Tail(todo) /\ phase' = phase
     \/ Leave /\ Now.err \in {"count", "leave"} /\ phase' = phase
     \/ todo' = <<>> /\ phase' = "reply"

LEMMA NoteType ==
  ASSUME hist \in History, NEW S \in SUBSET Unnoticed, Note(S)
  PROVE  hist' \in History /\ hist'.before = hist.before /\ hist'.extracted = hist.extracted
BY DEF Note, History

LEMMA SucceedGoes ==
  ASSUME TypeInv, NEW bytes \in Nat, Succeed(bytes)
  PROVE  Goes
BY DEF TypeInv, Succeed, Goes

LEMMA SkipGoes ==
  ASSUME TypeInv, NEW S \in SUBSET Unnoticed, Note(S), todo' = Tail(todo),
         UNCHANGED <<sum, part, phase, result>>
  PROVE  Goes
BY NoteType DEF TypeInv, Goes

LEMMA FailGoes ==
  ASSUME TypeInv, NEW S \in SUBSET Unnoticed, Fail(S), Now.fn \in Labels
  PROVE  Goes
<1>1. CASE /\ Now.err = "abort"
           /\ todo' = <<>> /\ part' = 0 /\ sum' = 0
           /\ phase' = "reply" /\ result' = "error"
           /\ UNCHANGED hist
  BY <1>1 DEF TypeInv, Goes, Results
<1>2. CASE /\ Now.err = "ignore"
           /\ todo' = Tail(todo)
           /\ Note(S)
           /\ UNCHANGED <<part, sum, phase, result>>
  BY <1>2, NoteType DEF TypeInv, Goes
<1>3. CASE /\ Now.err = "count"
           /\ Leave
           /\ part' = 0 /\ sum' = sum - ErrorCode
           /\ hist' = [hist EXCEPT !.counted = @ \cup {Now.fn}]
           /\ UNCHANGED <<phase, result>>
  <2>1. sum' \in Int
    BY <1>3, DataAssumption DEF TypeInv
  <2>2. hist' \in History /\ hist'.before = hist.before /\ hist'.extracted = hist.extracted
    BY <1>3 DEF TypeInv, History
  <2> QED
    BY <1>3, <2>1, <2>2 DEF TypeInv, Goes
<1>4. CASE /\ Now.err = "leave"
           /\ Leave
           /\ Note(S)
           /\ UNCHANGED <<part, sum, phase, result>>
  BY <1>4, NoteType DEF TypeInv, Goes
<1> QED
  BY <1>1, <1>2, <1>3, <1>4 DEF Fail

LEMMA VolumeType ==
  ASSUME NEW t, NEW S \in SUBSET Folders
  PROVE  Volume(t, S) \in Nat
<1> DEFINE held == {f \in S : t.file[f] \in Versions}
<1>1. held \in SUBSET Folders
  OBVIOUS
<1> HIDE DEF held
<1>2. IsFiniteSet(held)
  BY <1>1, DataAssumption, FS_Subset
<1> QED
  BY <1>2, FS_CardinalityType DEF Volume, held

LEMMA TreeOf ==
  ASSUME tree \in Trees, NEW n \in {"data", "coll", "ext"}
  PROVE  tree[n] \in Tree
BY DEF Trees

LEMMA FaultType ==
  ASSUME TypeInv, Fault \/ NoFault
  PROVE  faults' \in Nat
BY DEF TypeInv, Fault, NoFault

\* The parts of a call that the steps use.
LEMMA NowFits ==
  ASSUME NEW do, Calling(do), todo \in Seq(Fits(req))
  PROVE  /\ phase = "work" /\ todo # <<>> /\ Now.do = do
         /\ Now \in Fits(req) /\ Now \in Calls /\ Typed(Now)
         /\ Now.from \in {"data", "coll", "ext"} /\ Now.to \in {"data", "coll"}
         /\ Now.fn \in Labels
<1>1. phase = "work" /\ todo # <<>> /\ Now.do = do
  BY DEF Calling
<1>2. Now \in Fits(req)
  BY <1>1 DEF Now
<1>3. Now \in Calls /\ Typed(Now)
  BY <1>2 DEF Fits
<1>4. Now.from \in {"data", "coll", "ext"} /\ Now.to \in {"data", "coll"}
      /\ Now.fn \in Labels
  BY <1>3 DEF Calls
<1> QED
  BY <1>1, <1>2, <1>3, <1>4

\* What every step of an operation comes to.
Effect ==
  /\ phase = "work" /\ todo # <<>>
  /\ Within(Now) /\ Goes
  /\ conf' \in [folder : SUBSET Area, db : SUBSET Area] /\ faults' \in Nat
  /\ UNCHANGED <<arch, req, batch, script, writes>>

LEMMA SameTree ==
  ASSUME tree \in Trees, UNCHANGED tree, NEW c
  PROVE  Within(c)
BY DEF Within

LEMMA EffectOf ==
  ASSUME TypeInv, phase = "work", todo # <<>>, Kept, UNCHANGED conf, Fault \/ NoFault,
         Within(Now), Goes
  PROVE  Effect
BY FaultType DEF Effect, Kept, TypeInv

LEMMA ListEffect ==
  ASSUME TypeInv, todo \in Seq(Fits(req)), List
  PROVE  Effect
<1>1. Kept /\ UNCHANGED <<tree, conf>> /\ Within(Now)
  BY SameTree DEF List, TypeInv
<1>2. ASSUME NEW do \in {"list", "listNothing"}, Calling(do), Fault \/ NoFault,
             Succeed(0) \/ Fail({})
      PROVE  Effect
  <2>1. phase = "work" /\ todo # <<>> /\ Now.fn \in Labels
    BY <1>2, NowFits
  <2>2. {} \in SUBSET Unnoticed
    OBVIOUS
  <2>3. Goes
    BY <1>2, <2>1, <2>2, SucceedGoes, FailGoes
  <2> QED
    BY <1>1, <1>2, <2>1, <2>3, EffectOf
<1>3. CASE Calling("list") /\ NoFault /\ Succeed(0)
  BY <1>2, <1>3
<1>4. CASE Calling("list") /\ Fault /\ Fail({})
  BY <1>2, <1>4
<1>5. CASE Calling("listNothing") /\ NoFault /\ Fail({})
  BY <1>2, <1>5
<1> QED
  BY <1>3, <1>4, <1>5 DEF List

LEMMA CopyEffect ==
  ASSUME TypeInv, todo \in Seq(Fits(req)), CopyStep
  PROVE  Effect
<1>1. Calling("copy") /\ Kept /\ UNCHANGED conf
  BY DEF CopyStep
<1>2. /\ phase = "work" /\ todo # <<>> /\ Now.do = "copy" /\ Typed(Now) /\ Now.fn \in Labels
      /\ Now.from \in {"data", "coll", "ext"} /\ Now.to \in {"data", "coll"}
  BY <1>1, NowFits
<1>3. Now.do \in OnFolders /\ Now.set \in SUBSET Folders
  BY <1>2 DEF OnFolders, Typed
<1>4. tree \in Trees /\ tree[Now.from] \in Tree /\ tree[Now.to] \in Tree
  BY <1>2, TreeOf DEF TypeInv
<1>5. ASSUME NEW S \in SUBSET Now.set,
             Set(Now.to, CopyFolder(tree[Now.from], tree[Now.to], S))
      PROVE  Within(Now)
  <2>1. Differs(tree[Now.to], CopyFolder(tree[Now.from], tree[Now.to], S), S, {})
    BY <1>4, CopyFolderDiffers
  <2> QED
    BY <1>2, <1>3, <1>4, <1>5, <2>1, SetWithin
<1>6. CASE /\ NoFault /\ Succeed(Volume(tree[Now.from], Now.set))
           /\ Set(Now.to, CopyFolder(tree[Now.from], tree[Now.to], Now.set))
  <2>1. Goes
    BY <1>3, <1>6, VolumeType, SucceedGoes
  <2>2. Within(Now)
    BY <1>5, <1>6
  <2> QED
    BY <1>1, <1>2, <1>6, <2>1, <2>2, EffectOf
<1>7. CASE /\ Exists(tree[Now.from], Now.set) /\ Fault /\ Fail({})
           /\ \E S \in (SUBSET Now.set) \ {Now.set} :
                Set(Now.to, CopyFolder(tree[Now.from], tree[Now.to], S))
  <2>1. {} \in SUBSET Unnoticed
    OBVIOUS
  <2>2. Goes
    BY <1>2, <1>7, <2>1, FailGoes
  <2>3. Within(Now)
    BY <1>5, <1>7
  <2> QED
    BY <1>1, <1>2, <1>7, <2>2, <2>3, EffectOf
<1> QED
  BY <1>6, <1>7 DEF CopyStep

LEMMA ClearEffect ==
  ASSUME TypeInv, todo \in Seq(Fits(req)), ClearStep
  PROVE  Effect
<1>1. Calling("clear") /\ Kept /\ UNCHANGED conf
  BY DEF ClearStep
<1>2. /\ phase = "work" /\ todo # <<>> /\ Now.do = "clear" /\ Typed(Now) /\ Now.fn \in Labels
      /\ Now.to \in {"data", "coll"}
  BY <1>1, NowFits
<1>3. Now.do \in OnFolders /\ Now.set \in SUBSET Folders
  BY <1>2 DEF OnFolders, Typed
<1>4. tree \in Trees /\ tree[Now.to] \in Tree
  BY <1>2, TreeOf DEF TypeInv
<1>5. ASSUME NEW S \in SUBSET Now.set, Set(Now.to, DeleteFolder(tree[Now.to], S))
      PROVE  Within(Now)
  <2>1. Differs(tree[Now.to], DeleteFolder(tree[Now.to], S), S, {})
    BY <1>4, DeleteFolderDiffers
  <2> QED
    BY <1>2, <1>3, <1>4, <1>5, <2>1, SetWithin
<1>6. {} \in SUBSET Unnoticed /\ Now.set \in SUBSET Unnoticed
  BY <1>3 DEF Unnoticed
<1>7. CASE Succeed(0) /\ NoFault /\ (UNCHANGED tree \/ Set(Now.to, DeleteFolder(tree[Now.to], Now.set)))
  <2>1. Goes
    BY <1>7, SucceedGoes
  <2>2. Within(Now)
    BY <1>4, <1>5, <1>7, SameTree
  <2> QED
    BY <1>1, <1>2, <1>7, <2>1, <2>2, EffectOf
<1>8. CASE Fail({}) /\ NoFault /\ UNCHANGED tree
  <2>1. Goes
    BY <1>2, <1>6, <1>8, FailGoes
  <2>2. Within(Now)
    BY <1>4, <1>8, SameTree
  <2> QED
    BY <1>1, <1>2, <1>8, <2>1, <2>2, EffectOf
<1>9. CASE /\ Fail(Now.set) /\ Fault
           /\ \E S \in (SUBSET Now.set) \ {Now.set} : Set(Now.to, DeleteFolder(tree[Now.to], S))
  <2>1. Goes
    BY <1>2, <1>6, <1>9, FailGoes
  <2>2. Within(Now)
    BY <1>5, <1>9
  <2> QED
    BY <1>1, <1>2, <1>9, <2>1, <2>2, EffectOf
<1> QED
  BY <1>7, <1>8, <1>9 DEF ClearStep

LEMMA CopyKeysEffect ==
  ASSUME TypeInv, todo \in Seq(Fits(req)), CopyKeysStep
  PROVE  Effect
<1> DEFINE src == tree[Now.from]
           dst == tree[Now.to]
           held == {k \in Now.set : src.key[k] # Absent}
<1>1. Calling("copyKeys") /\ Kept /\ UNCHANGED conf
  BY DEF CopyKeysStep
<1>2. /\ phase = "work" /\ todo # <<>> /\ Now.do = "copyKeys" /\ Typed(Now)
      /\ Now.fn \in Labels
      /\ Now.from \in {"data", "coll", "ext"} /\ Now.to \in {"data", "coll"}
  BY <1>1, NowFits
<1>3. Now.do \in OnKeys /\ Now.db \in Databases /\ Now.set \in SUBSET Keys
  BY <1>2 DEF OnKeys, Typed
<1>4. tree \in Trees /\ src \in Tree /\ dst \in Tree
  BY <1>2, TreeOf DEF TypeInv
<1>5. ASSUME NEW S \in SUBSET Now.set, Set(Now.to, CopyKeys(src, dst, Now.db, S))
      PROVE  Within(Now)
  <2>1. Differs(dst, CopyKeys(src, dst, Now.db, S), {}, S)
    BY <1>3, <1>4, CopyKeysDiffers
  <2> QED
    BY <1>2, <1>3, <1>4, <1>5, <2>1, SetWithin
<1>6. {} \in SUBSET Unnoticed /\ \A k \in held : {k} \in SUBSET Unnoticed
  BY <1>3 DEF Unnoticed
<1>7. CASE NoFault /\ Succeed(0)
           /\ (UNCHANGED tree \/ Set(Now.to, CopyKeys(src, dst, Now.db, Now.set)))
  <2>1. Goes
    BY <1>7, SucceedGoes
  <2>2. Within(Now)
    BY <1>4, <1>5, <1>7, SameTree
  <2> QED
    BY <1>1, <1>2, <1>7, <2>1, <2>2, EffectOf
<1>8. CASE \E k \in held :
             /\ Fault /\ Set(Now.to, CopyKeys(src, dst, Now.db, Now.set \ {k}))
             /\ todo' = Tail(todo) /\ Note({k})
             /\ UNCHANGED <<sum, part, phase, result>>
  <2> PICK k \in held :
             /\ Fault /\ Set(Now.to, CopyKeys(src, dst, Now.db, Now.set \ {k}))
             /\ todo' = Tail(todo) /\ Note({k})
             /\ UNCHANGED <<sum, part, phase, result>>
    BY <1>8
  <2>1. Goes
    BY <1>6, SkipGoes
  <2>2. Within(Now)
    BY <1>5
  <2> QED
    BY <1>1, <1>2, <2>1, <2>2, EffectOf
<1>9. CASE \E S \in (SUBSET held) \ {held} :
             Fault /\ Fail({}) /\ Set(Now.to, CopyKeys(src, dst, Now.db, S))
  <2>1. Goes
    BY <1>2, <1>6, <1>9, FailGoes
  <2>2. Within(Now)
    BY <1>5, <1>9
  <2> QED
    BY <1>1, <1>2, <1>9, <2>1, <2>2, EffectOf
<1> QED
  BY <1>7, <1>8, <1>9 DEF CopyKeysStep

LEMMA ClearKeysEffect ==
  ASSUME TypeInv, todo \in Seq(Fits(req)), ClearKeysStep
  PROVE  Effect
<1> DEFINE dst == tree[Now.to]
           held == {k \in Now.set : dst.key[k] # Absent}
<1>1. Calling("clearKeys") /\ Kept /\ UNCHANGED conf
  BY DEF ClearKeysStep
<1>2. /\ phase = "work" /\ todo # <<>> /\ Now.do = "clearKeys" /\ Typed(Now)
      /\ Now.fn \in Labels /\ Now.to \in {"data", "coll"}
  BY <1>1, NowFits
<1>3. Now.do \in OnKeys /\ Now.set \in SUBSET Keys
  BY <1>2 DEF OnKeys, Typed
<1>4. tree \in Trees /\ dst \in Tree
  BY <1>2, TreeOf DEF TypeInv
<1>5. ASSUME NEW S \in SUBSET Now.set, Set(Now.to, DeleteKeys(dst, S))
      PROVE  Within(Now)
  <2>1. Differs(dst, DeleteKeys(dst, S), {}, S)
    BY <1>4, DeleteKeysDiffers
  <2> QED
    BY <1>2, <1>3, <1>4, <1>5, <2>1, SetWithin
<1>6. {} \in SUBSET Unnoticed /\ held \in SUBSET Unnoticed
  BY <1>3 DEF Unnoticed
<1>7. CASE NoFault /\ Succeed(0) /\ (UNCHANGED tree \/ Set(Now.to, DeleteKeys(dst, Now.set)))
  <2>1. Goes
    BY <1>7, SucceedGoes
  <2>2. Within(Now)
    BY <1>4, <1>5, <1>7, SameTree
  <2> QED
    BY <1>1, <1>2, <1>7, <2>1, <2>2, EffectOf
<1>8. CASE NoFault /\ Fail({}) /\ UNCHANGED tree
  <2>1. Goes
    BY <1>2, <1>6, <1>8, FailGoes
  <2>2. Within(Now)
    BY <1>4, <1>8, SameTree
  <2> QED
    BY <1>1, <1>2, <1>8, <2>1, <2>2, EffectOf
<1>9. CASE Fault /\ Fail(held) /\ \E S \in (SUBSET held) \ {held} : Set(Now.to, DeleteKeys(dst, S))
  <2>1. Goes
    BY <1>2, <1>6, <1>9, FailGoes
  <2>2. Within(Now)
    BY <1>5, <1>9
  <2> QED
    BY <1>1, <1>2, <1>9, <2>1, <2>2, EffectOf
<1> QED
  BY <1>7, <1>8, <1>9 DEF ClearKeysStep

\* The calls that leave folders and keys alone.
LEMMA QuietEffect ==
  ASSUME TypeInv, todo \in Seq(Fits(req)), NEW do, Calling(do), Kept, UNCHANGED conf,
         NoFault \/ Fault, Within(Now), Succeed(0) \/ Fail({})
  PROVE  Effect
<1>1. phase = "work" /\ todo # <<>> /\ Now.fn \in Labels
  BY NowFits
<1>2. {} \in SUBSET Unnoticed
  OBVIOUS
<1>3. Goes
  BY <1>1, <1>2, SucceedGoes, FailGoes
<1> QED
  BY <1>1, <1>3, EffectOf

LEMMA CheckEffect ==
  ASSUME TypeInv, todo \in Seq(Fits(req)), CheckRctStep
  PROVE  Effect
<1>1. Within(Now)
  BY SameTree DEF CheckRctStep, TypeInv
<1> QED
  BY <1>1, QuietEffect DEF CheckRctStep

LEMMA CopyRctEffect ==
  ASSUME TypeInv, todo \in Seq(Fits(req)), CopyRctStep
  PROVE  Effect
<1>1. tree \in Trees
  BY DEF TypeInv
<1>2. Now.area \in Area
  <2>1. Calling("copyRct")
    BY DEF CopyRctStep
  <2> QED
    BY <2>1, NowFits DEF Typed
<1>3. Within(Now)
  <2>1. CASE UNCHANGED tree
    BY <1>1, <2>1, SameTree
  <2>2. CASE Set("coll", [tree.coll EXCEPT !.rct[Now.area] = tree.data.rct[Now.area]])
    <3>1. [tree.coll EXCEPT !.rct[Now.area] = tree.data.rct[Now.area]] \in Tree
      BY <1>1, <1>2 DEF Trees, Tree
    <3> QED
      BY <1>1, <2>2, <3>1, CollectionWithin
  <2> QED
    BY <2>1, <2>2 DEF CopyRctStep
<1> QED
  BY <1>3, QuietEffect DEF CopyRctStep

LEMMA CopyAllEffect ==
  ASSUME TypeInv, todo \in Seq(Fits(req)), CopyAllStep
  PROVE  Effect
<1>1. tree \in Trees /\ tree.data \in Tree /\ tree.coll \in Tree
  BY DEF TypeInv, Trees
<1>2. ASSUME NEW areas, Set("coll", Overlay(tree.data, tree.coll, areas))
      PROVE  Within(Now)
  BY <1>1, <1>2, OverlayType, CollectionWithin
<1>3. Within(Now)
  BY <1>2 DEF CopyAllStep
<1> QED
  BY <1>3, QuietEffect DEF CopyAllStep

LEMMA ExportLinksEffect ==
  ASSUME TypeInv, todo \in Seq(Fits(req)), ExportLinksStep
  PROVE  Effect
<1> DEFINE links == tree.data.link[Now.area]
           t == IF links = {} THEN tree.coll ELSE [tree.coll EXCEPT !.info[Now.area] = links]
<1>1. tree \in Trees
  BY DEF TypeInv
<1>2. Now.area \in Apps
  <2>1. Calling("exportLinks")
    BY DEF ExportLinksStep
  <2> QED
    BY <2>1, NowFits DEF Typed
<1>3. t \in Tree
  BY <1>1, <1>2 DEF Trees, Tree
<1> HIDE DEF t
<1>4. Within(Now)
  <2>1. UNCHANGED tree \/ Set("coll", t)
    BY DEF ExportLinksStep, t
  <2> QED
    BY <1>1, <1>3, <2>1, SameTree, CollectionWithin
<1> QED
  BY <1>4, QuietEffect DEF ExportLinksStep

LEMMA ImportLinksEffect ==
  ASSUME TypeInv, todo \in Seq(Fits(req)), ImportLinksStep
  PROVE  Effect
<1> DEFINE a == Now.area
           links == tree.ext.info[a]
           t == [tree.data EXCEPT !.link[a] = @ \cup links]
<1>1. tree \in Trees /\ tree.data \in Tree /\ tree.ext \in Tree
  BY DEF TypeInv, Trees
<1>2. Calling("importLinks") /\ Kept /\ UNCHANGED conf
  BY DEF ImportLinksStep
<1>3. a \in Apps /\ phase = "work" /\ todo # <<>> /\ Now.fn \in Labels
  BY <1>2, NowFits DEF Typed
<1>4. Differs(tree.data, t, {}, {})
  BY <1>1, <1>3 DEF Differs, Tree
<1>5. CASE NoFault /\ Succeed(0) /\ Set("data", t)
  <2> HIDE DEF t
  <2>1. Within(Now)
    BY <1>1, <1>4, <1>5, SetWithin
  <2> QED
    BY <1>2, <1>5, <2>1, QuietEffect
<1>6. CASE Fault /\ Fail({a}) /\ UNCHANGED tree
  <2>1. {a} \in SUBSET Unnoticed
    BY <1>3 DEF Unnoticed, Area
  <2>2. Goes
    BY <1>3, <1>6, <2>1, FailGoes
  <2>3. Within(Now)
    BY <1>1, <1>6, SameTree
  <2> QED
    BY <1>2, <1>3, <1>6, <2>2, <2>3, EffectOf
<1> QED
  BY <1>5, <1>6 DEF ImportLinksStep

LEMMA ClearDefaultEffect ==
  ASSUME TypeInv, todo \in Seq(Fits(req)), ClearDefaultStep
  PROVE  Effect
<1> DEFINE which == IF Now.do = "clearConfFolder" THEN "folder" ELSE "db"
<1>1. PICK do : Calling(do)
  BY DEF ClearDefaultStep
<1>2. phase = "work" /\ todo # <<>> /\ Now.fn \in Labels
  BY <1>1, NowFits
<1>3. Within(Now)
  BY SameTree DEF ClearDefaultStep, TypeInv
<1>4. Kept /\ UNCHANGED tree
  BY DEF ClearDefaultStep
<1>5. CASE /\ NoFault /\ Succeed(0)
           /\ conf' = [conf EXCEPT ![which] = @ \ {Now.area}]
  <2>1. conf' \in [folder : SUBSET Area, db : SUBSET Area]
    <3>1. which \in {"folder", "db"}
      OBVIOUS
    <3> HIDE DEF which
    <3> QED
      BY <1>5, <3>1 DEF TypeInv
  <2>2. Goes
    BY <1>5, SucceedGoes
  <2> QED
    BY <1>2, <1>3, <1>4, <1>5, <2>1, <2>2, FaultType DEF Effect, Kept
<1>6. CASE /\ Now.area \in conf[which] /\ Fault /\ Fail({})
           /\ UNCHANGED conf
  BY <1>1, <1>3, <1>4, <1>6, QuietEffect
<1> QED
  BY <1>5, <1>6 DEF ClearDefaultStep

LEMMA ListAreaEffect ==
  ASSUME TypeInv, todo \in Seq(Fits(req)), ListAreaStep
  PROVE  Effect
<1>1. Calling("listArea") /\ Kept /\ UNCHANGED conf /\ Within(Now)
  BY SameTree DEF ListAreaStep, TypeInv
<1>2. Now.area \in Area /\ phase = "work" /\ todo # <<>> /\ Now.fn \in Labels
  BY <1>1, NowFits DEF Typed
<1>3. CASE NoFault /\ Succeed(0)
  BY <1>1, <1>3, QuietEffect
<1>4. CASE Fault /\ Fail({Now.area})
  <2>1. {Now.area} \in SUBSET Unnoticed
    BY <1>2 DEF Unnoticed
  <2>2. Goes
    BY <1>2, <1>4, <2>1, FailGoes
  <2> QED
    BY <1>1, <1>2, <1>4, <2>2, EffectOf
<1> QED
  BY <1>3, <1>4 DEF ListAreaStep

LEMMA ClearSeatEffect ==
  ASSUME TypeInv, todo \in Seq(Fits(req)), ClearSeatStep
  PROVE  Effect
<1> DEFINE dst == tree[Now.to]
           held == {f \in Now.set : dst.file[f] \in Versions}
           emptied == [dst EXCEPT !.file = [f \in Folders |->
                         IF f \in held THEN Empty ELSE dst.file[f]]]
<1>1. Calling("clearSeat") /\ Kept /\ UNCHANGED conf
  BY DEF ClearSeatStep
<1>2. /\ phase = "work" /\ todo # <<>> /\ Now.do = "clearSeat" /\ Typed(Now)
      /\ Now.fn \in Labels /\ Now.to \in {"data", "coll"}
  BY <1>1, NowFits
<1>3. Now.do \in OnFolders /\ Now.set \in SUBSET Folders
  BY <1>2 DEF OnFolders, Typed
<1>4. tree \in Trees /\ dst \in Tree
  BY <1>2, TreeOf DEF TypeInv
<1>5. ASSUME Set(Now.to, emptied)
      PROVE  Within(Now)
  <2>1. held \subseteq Now.set
    OBVIOUS
  <2> HIDE DEF dst, held
  <2>2. Differs(dst, emptied, Now.set, {})
    BY <1>4, <2>1, EmptiedDiffers
  <2> HIDE DEF emptied
  <2>3. Differs(tree[Now.to], emptied, Now.set, {})
    BY <2>2 DEF dst
  <2> QED
    BY <1>2, <1>3, <1>4, <1>5, <2>3, SetWithin
<1>6. held \in SUBSET Unnoticed
  BY <1>3 DEF Unnoticed
<1>7. CASE NoFault /\ Succeed(0) /\ (UNCHANGED tree \/ Set(Now.to, emptied))
  <2>1. Within(Now)
    <3> HIDE DEF emptied
    <3> QED
      BY <1>4, <1>5, <1>7, SameTree
  <2> QED
    BY <1>1, <1>7, <2>1, QuietEffect
<1>8. CASE NoFault /\ Fail({}) /\ UNCHANGED tree
  <2>1. Within(Now)
    BY <1>4, <1>8, SameTree
  <2> QED
    BY <1>1, <1>8, <2>1, QuietEffect
<1>9. CASE /\ held # {} /\ Fault /\ UNCHANGED tree
           /\ todo' = Tail(todo) /\ Note(held)
           /\ UNCHANGED <<sum, part, phase, result>>
  <2> HIDE DEF held
  <2>1. Goes
    BY <1>6, <1>9, SkipGoes
  <2>2. Within(Now)
    BY <1>4, <1>9, SameTree
  <2> QED
    BY <1>1, <1>2, <1>9, <2>1, <2>2, EffectOf
<1>10. CASE Fault /\ Fail(held) /\ UNCHANGED tree
  <2> HIDE DEF held
  <2>1. Goes
    BY <1>2, <1>6, <1>10, FailGoes
  <2>2. Within(Now)
    BY <1>4, <1>10, SameTree
  <2> QED
    BY <1>1, <1>2, <1>10, <2>1, <2>2, EffectOf
<1> QED
  BY <1>7, <1>8, <1>9, <1>10 DEF ClearSeatStep

LEMMA ReturnEffect ==
  ASSUME TypeInv, todo \in Seq(Fits(req)), ReturnStep
  PROVE  Effect
<1>1. Calling("return") /\ Kept /\ UNCHANGED conf /\ NoFault
  BY DEF ReturnStep
<1>2. Within(Now)
  BY SameTree DEF ReturnStep, TypeInv
<1>3. Goes
  BY DEF ReturnStep, TypeInv, Goes
<1> QED
  BY <1>1, <1>2, <1>3, NowFits, EffectOf

LEMMA TestSumEffect ==
  ASSUME TypeInv, todo \in Seq(Fits(req)), TestSumStep
  PROVE  Effect
<1>1. Calling("testSum") /\ Kept /\ UNCHANGED conf /\ NoFault
  BY DEF TestSumStep
<1>2. Within(Now)
  BY SameTree DEF TestSumStep, TypeInv
<1>3. CASE Fail({})
  BY <1>1, <1>2, <1>3, QuietEffect
<1>4. CASE todo' = Tail(todo) /\ sum' = 0 /\ part' = 0 /\ UNCHANGED <<phase, result, hist>>
  <2>1. Goes
    BY <1>4 DEF TypeInv, Goes
  <2> QED
    BY <1>1, <1>2, <2>1, NowFits, EffectOf
<1> QED
  BY <1>3, <1>4 DEF TestSumStep

LEMMA CallEffect ==
  ASSUME TypeInv, todo \in Seq(Fits(req)), CallStep
  PROVE  Effect
BY ListEffect, CopyEffect, ClearEffect, CopyKeysEffect, ClearKeysEffect, CheckEffect,
   CopyRctEffect, CopyAllEffect, ExportLinksEffect, ImportLinksEffect, ClearDefaultEffect,
   ListAreaEffect, ClearSeatEffect, ReturnEffect, TestSumEffect
   DEF CallStep

-----------------------------------------------------------------------------
(* The requests and their plans. *)

RequestInv ==
  /\ req \in Requests \cup {NoRequest}
  /\ batch \in Seq(Requests) /\ script \in Seq(Requests)
  /\ todo \in Seq(Fits(req))
  /\ phase \in {"uncompress", "work"} => req \in Requests
  /\ phase = "uncompress" => req.op = "recover" /\ tree.data = hist.before

LEMMA EveryoneType == AllUsers \in Int /\ AllSeats \in Int
BY DEF AllUsers, AllSeats

LEMMA RequestType ==
  ASSUME NEW op \in {"backup", "recover"}, NEW type \in {"all", "user", "application"},
         NEW app \in Apps \cup {""}, type = "application" => app \in Apps,
         NEW file \in Archives \cup {""}, op = "recover" => file \in Archives,
         NEW other \in {"", "new", "same", "configurable", "factory"}
  PROVE  Request(op, type, app, AllUsers, AllSeats, file, other) \in Requests
<1> DEFINE r == Request(op, type, app, AllUsers, AllSeats, file, other)
           R == [op : {"backup", "recover", "restore", "export", "import", "delete",
                       "changeProperties"},
                 type : {"all", "user", "application"}, app : Apps \cup {""},
                 user : Int, seat : Int, arch : Archives \cup {""},
                 source : {"", "new", "same", "configurable", "factory"},
                 into : {"", "new", "same", "configurable", "factory"}]
<1>1. AllUsers \in Int /\ AllSeats \in Int
  BY EveryoneType
<1>2. r \in R
  BY <1>1 DEF Request
<1>3. /\ r.op = op /\ r.type = type /\ r.app = app /\ r.arch = file
      /\ r.seat = AllSeats
  BY DEF Request
<1> HIDE DEF r
<1>4. r \in Requests
  BY <1>2, <1>3 DEF Requests
<1> QED
  BY <1>4 DEF r

LEMMA ExportRequestsType ==
  ASSUME NEW r \in Requests, r.op = "export"
  PROVE  ExportRequests(r) \in Seq(Requests)
<1> DEFINE apps == AppsOf(tree.data)
           one(i) == persAdminDataBackupCreate("application", IF i = 1 THEN r.into ELSE "same",
                                               apps[i], AllUsers, AllSeats)
<1>1. r.into \in {"", "new", "same", "configurable", "factory"}
  BY DEF Requests
<1>2. apps \in Seq(Apps)
  BY AppsOfType
<1>3. "" \in Archives \cup {""} /\ "" \in Apps \cup {""}
  OBVIOUS
<1>4. CASE r.type = "application"
  <2> HIDE DEF apps
  <2>1. ASSUME NEW i \in 1..Len(apps) PROVE one(i) \in Requests
    <3>1. apps[i] \in Apps
      BY <1>2, ElementType
    <3>2. (IF i = 1 THEN r.into ELSE "same")
             \in {"", "new", "same", "configurable", "factory"}
      BY <1>1
    <3> QED
      BY <3>1, <3>2, RequestType DEF persAdminDataBackupCreate
  <2> HIDE DEF one
  <2>2. [i \in 1..Len(apps) |-> one(i)] \in Seq(Requests)
    BY <1>2, <2>1
  <2> QED
    BY <1>4, <2>2 DEF ExportRequests, apps, one
<1>5. CASE r.type # "application"
  <2>1. r.type \in {"all", "user"}
    BY <1>5 DEF Requests
  <2>2. persAdminDataBackupCreate(r.type, r.into, "", AllUsers, AllSeats) \in Requests
    BY <1>1, <1>3, <2>1, RequestType DEF persAdminDataBackupCreate
  <2> QED
    BY <1>5, <2>2, OneType DEF ExportRequests
<1> QED
  BY <1>4, <1>5

LEMMA ImportRequestsType ==
  ASSUME NEW r \in Requests, r.op = "import"
  PROVE  ImportRequests(r) \in Seq(Requests)
<1> DEFINE apps == IF r.arch = "folder" THEN AppsOf(tree.coll) ELSE <<>>
           one(i) == persAdminDataBackupRecovery("application", r.arch, apps[i],
                                                 AllUsers, AllSeats)
<1>1. r.arch \in Archives
  BY DEF Requests
<1>2. apps \in Seq(Apps)
  BY AppsOfType
<1>3. CASE r.type = "application"
  <2> HIDE DEF apps
  <2>1. ASSUME NEW i \in 1..Len(apps) PROVE one(i) \in Requests
    <3>1. apps[i] \in Apps
      BY <1>2, ElementType
    <3> QED
      BY <1>1, <3>1, RequestType DEF persAdminDataBackupRecovery
  <2> HIDE DEF one
  <2>2. [i \in 1..Len(apps) |-> one(i)] \in Seq(Requests)
    BY <1>2, <2>1
  <2> QED
    BY <1>3, <2>2 DEF ImportRequests, apps, one
<1>4. CASE r.type # "application"
  <2>1. r.type \in {"all", "user"} /\ "" \in Apps \cup {""}
    BY <1>4 DEF Requests
  <2>2. persAdminDataBackupRecovery(r.type, r.arch, "", AllUsers, AllSeats) \in Requests
    BY <1>1, <2>1, RequestType DEF persAdminDataBackupRecovery
  <2> QED
    BY <1>4, <2>2, OneType DEF ImportRequests
<1> QED
  BY <1>3, <1>4

LEMMA OperationsType ==
  ASSUME NEW r \in Requests
  PROVE  Operations(r) \in Seq(Requests)
BY ExportRequestsType, ImportRequestsType, OneType DEF Operations

LEMMA NextRequest ==
  ASSUME batch \in Seq(Requests), batch # <<>>
  PROVE  Head(batch) \in Requests /\ Tail(batch) \in Seq(Requests)
OBVIOUS

LEMMA PlanCalls == ASSUME NEW r, NEW p \in Plans(r) PROVE p \in Seq(Fits(r))
BY DEF Plans

LEMMA SuffixType ==
  ASSUME NEW S, NEW p \in Seq(S), NEW n \in 1..Len(p)
  PROVE  SubSeq(p, n + 1, Len(p)) \in Seq(S)
OBVIOUS

\* A step of an operation.
LEMMA CallTypes ==
  ASSUME TypeInv, RequestInv, Effect
  PROVE  TypeInv' /\ RequestInv'
<1>1. TypeInv'
  <2>1. tree' \in Trees
    BY DEF Effect, Within
  <2>2. /\ sum' \in Int /\ part' \in Nat /\ result' \in Results /\ hist' \in History
        /\ phase' \in Phases
    BY DEF Effect, Goes, Phases
  <2> QED
    BY <2>1, <2>2 DEF TypeInv, Effect
<1>2. todo' \in Seq(Fits(req))
  <2> DEFINE X == Fits(req)
  <2>1. todo \in Seq(X) /\ todo # <<>>
    BY DEF RequestInv, Effect
  <2> HIDE DEF X
  <2>2. Leave => todo' \in Seq(X)
    BY <2>1, SuffixType DEF Leave
  <2>3. Tail(todo) \in Seq(X) /\ <<>> \in Seq(X)
    BY <2>1
  <2> QED
    BY <2>2, <2>3 DEF Effect, Goes, X
<1>3. RequestInv'
  <2>1. req' = req /\ batch' = batch /\ script' = script /\ phase = "work"
        /\ phase' \in {"work", "reply"}
    BY DEF Effect, Goes
  <2> QED
    BY <1>2, <2>1 DEF RequestInv
<1> QED
  BY <1>1, <1>3

LEMMA BeginTypes ==
  ASSUME TypeInv, RequestInv, NEW r, batch # <<>>, r = Head(batch),
         NEW start \in {"work", "uncompress", "reply"}, NEW plan \in Seq(Fits(r)),
         Begin(r, start, plan), tree' \in Trees, result' \in Results, hist' \in History,
         start = "uncompress" => r.op = "recover" /\ tree'.data = hist'.before
  PROVE  TypeInv' /\ RequestInv'
<1>1. r \in Requests /\ Tail(batch) \in Seq(Requests)
  BY NextRequest DEF RequestInv
<1>2. TypeInv'
  BY DEF Begin, TypeInv, Phases
<1>3. RequestInv'
  BY <1>1 DEF Begin, RequestInv
<1> QED
  BY <1>2, <1>3

LEMMA RememberType ==
  ASSUME TypeInv, NEW coll, Remember(coll)
  PROVE  hist' \in History /\ hist'.before = tree.data
BY DEF Remember, TypeInv, History, Trees

LEMMA ChangeTypes ==
  ASSUME TypeInv, RequestInv, NEW t \in Tree, Change(t)
  PROVE  TypeInv' /\ RequestInv'
<1>1. tree' \in Trees /\ writes' \in Nat
  BY DEF Change, Set, Trees, TypeInv
<1>2. TypeInv'
  BY <1>1 DEF Change, TypeInv
<1>3. RequestInv'
  BY DEF Change, RequestInv
<1> QED
  BY <1>2, <1>3

LEMMA InitTypes == Init => TypeInv /\ RequestInv
<1> SUFFICES ASSUME Init PROVE TypeInv /\ RequestInv
  OBVIOUS
<1>1. PICK s \in Scenarios :
        /\ tree = [data |-> s.data, coll |-> NoTree, ext |-> NoTree]
        /\ script = s.script /\ faults = s.faults /\ writes = s.writes
  BY DEF Init
<1>2. /\ s.data \in Tree /\ s.script \in Seq(Requests) /\ s.faults \in Nat
      /\ s.writes \in Nat
  BY ScenarioAssumption
<1>3. tree \in Trees
  BY <1>1, <1>2, NoTreeType DEF Trees
<1>4. NoArchive \in ArchiveRecord
  BY NoTreeType DEF NoArchive, ArchiveRecord
<1>5. arch \in [Archives -> ArchiveRecord] /\ hist \in History
  BY <1>3, <1>4 DEF Init, History, Trees
<1>6. TypeInv
  BY <1>1, <1>2, <1>3, <1>5 DEF Init, TypeInv, Phases, Results
<1>7. RequestInv
  BY <1>1, <1>2 DEF Init, RequestInv
<1> QED
  BY <1>6, <1>7

LEMMA UncompressTypes ==
  ASSUME TypeInv, RequestInv, Uncompress
  PROVE  TypeInv' /\ RequestInv'
<1> DEFINE a == arch[req.arch]
<1>1. phase = "uncompress" /\ req \in Requests /\ req.op = "recover"
  BY DEF Uncompress, RequestInv
<1>2. a \in ArchiveRecord /\ a.tree \in Tree
  <2>1. req.arch \in Archives
    BY <1>1 DEF Requests
  <2> QED
    BY <2>1 DEF TypeInv, ArchiveRecord
<1>3. tree \in Trees /\ tree.ext \in Tree
  BY DEF TypeInv, Trees
<1>4. ASSUME NEW areas, Set("ext", Overlay(a.tree, tree.ext, areas)) PROVE tree' \in Trees
  BY <1>2, <1>3, <1>4, OverlayType DEF Set, Trees
<1>5. hist' = [hist EXCEPT !.extracted = @ \cup {a.tree}] => hist' \in History
  BY <1>2 DEF TypeInv, History
<1>6. UNCHANGED <<arch, conf, req, batch, sum, part, script, writes>>
  BY DEF Uncompress
<1>7. faults' \in Nat
  BY FaultType DEF Uncompress, NoFault
<1> HIDE DEF a
<1>8. CASE /\ a.state = "good" /\ NoFault
           /\ LET t == Extracted(a) IN
              /\ Set("ext", t)
              /\ todo' = RecoveryPlan(t, req) /\ phase' = "work"
           /\ hist' = [hist EXCEPT !.extracted = @ \cup {a.tree}]
           /\ UNCHANGED result
  <2>1. tree' \in Trees
    BY <1>4, <1>8 DEF Extracted
  <2>2. TypeInv'
    BY <1>5, <1>6, <1>7, <1>8, <2>1 DEF TypeInv, Phases
  <2>3. todo' \in Seq(Fits(req))
    BY <1>1, <1>8, RecoveryPlanFits, PlanCalls
  <2>4. RequestInv'
    BY <1>1, <1>6, <1>8, <2>3 DEF RequestInv
  <2> QED
    BY <2>2, <2>4
<1>9. CASE /\ \E n \in 0..Len(AppList) :
                Set("ext", Overlay(a.tree, tree.ext, ToSet(SubSeq(AppList, 1, n))))
           /\ hist' = [hist EXCEPT !.extracted = @ \cup {a.tree}]
           /\ phase' = "reply" /\ result' = "error"
           /\ UNCHANGED todo
  <2>1. tree' \in Trees
    BY <1>4, <1>9
  <2>2. TypeInv'
    BY <1>5, <1>6, <1>7, <1>9, <2>1 DEF TypeInv, Phases, Results
  <2>3. RequestInv'
    BY <1>6, <1>9 DEF RequestInv
  <2> QED
    BY <2>2, <2>3
<1>10. CASE /\ phase' = "reply" /\ result' = "error"
            /\ UNCHANGED <<tree, todo, hist>>
  <2>1. TypeInv'
    BY <1>6, <1>7, <1>10 DEF TypeInv, Phases, Results
  <2>2. RequestInv'
    BY <1>6, <1>10 DEF RequestInv
  <2> QED
    BY <2>1, <2>2
<1> QED
  BY <1>8, <1>9, <1>10 DEF Uncompress, a

LEMMA ArchiveTypes ==
  ASSUME TypeInv, RequestInv, Archive
  PROVE  TypeInv' /\ RequestInv'
<1>1. phase = "work" /\ req \in Requests /\ phase' = "reply"
  BY DEF Archive, RequestInv
<1>2. PICK state \in {"good", "broken"}, res \in {"ok", "error"} :
        /\ NoFault \/ Fault
        /\ result' = res
        /\ arch' = [arch EXCEPT ![ArchiveName(req)] =
             [state |-> state, tree |-> tree.coll, of |-> req, was |-> tree.data,
              sound |-> hist.fresh /\ hist.lost = {}]]
  BY DEF Archive
<1>3. [state |-> state, tree |-> tree.coll, of |-> req, was |-> tree.data,
       sound |-> hist.fresh /\ hist.lost = {}] \in ArchiveRecord
  <2>1. hist.fresh \in BOOLEAN /\ tree.coll \in Tree /\ tree.data \in Tree
    BY DEF TypeInv, History, Trees
  <2>2. (hist.fresh /\ hist.lost = {}) \in BOOLEAN
    BY <2>1
  <2> QED
    BY <1>1, <2>1, <2>2 DEF ArchiveRecord
<1>4. arch' \in [Archives -> ArchiveRecord]
  BY <1>2, <1>3 DEF TypeInv
<1>5. TypeInv'
  BY <1>1, <1>2, <1>4, FaultType DEF Archive, TypeInv, Phases, Results
<1>6. RequestInv'
  BY <1>1 DEF Archive, RequestInv
<1> QED
  BY <1>5, <1>6

LEMMA CleanupTypes ==
  ASSUME TypeInv, RequestInv, Cleanup
  PROVE  TypeInv' /\ RequestInv'
<1>1. tree' \in Trees /\ hist' \in History
  <2>1. CASE Set("ext", NoTree) /\ hist' = [hist EXCEPT !.extracted = {}]
    BY <2>1, NoTreeType DEF Set, TypeInv, Trees, History
  <2>2. CASE UNCHANGED <<tree, hist>>
    BY <2>2 DEF TypeInv
  <2> QED
    BY <2>1, <2>2 DEF Cleanup
<1>2. faults' \in Nat
  BY FaultType DEF Cleanup
<1>3. TypeInv'
  BY <1>1, <1>2 DEF Cleanup, TypeInv, Phases, Results
<1>4. RequestInv'
  BY DEF Cleanup, RequestInv
<1> QED
  BY <1>3, <1>4

LEMMA ChangesTypes ==
  ASSUME TypeInv, RequestInv, WriteFile \/ WriteKey \/ Update \/ Uninstall
  PROVE  TypeInv' /\ RequestInv'
<1>1. tree.data \in Tree
  BY DEF TypeInv, Trees
<1>2. CASE WriteFile
  <2>1. PICK f \in Volatile.folders, v \in Versions : Change([tree.data EXCEPT !.file[f] = v])
    BY <1>2 DEF WriteFile
  <2>2. [tree.data EXCEPT !.file[f] = v] \in Tree
    BY <1>1, ScenarioAssumption DEF Tree
  <2> QED
    BY <2>1, <2>2, ChangeTypes
<1>3. CASE WriteKey
  <2>1. PICK k \in Volatile.keys, v \in Versions \cup {Absent} :
          Change([tree.data EXCEPT !.key[k] = v, !.db = @ \cup {<<k[1], k[3]>>}])
    BY <1>3 DEF WriteKey
  <2>2. k \in Keys /\ <<k[1], k[3]>> \in Databases
    BY ScenarioAssumption, DataAssumption DEF Databases
  <2>3. [tree.data EXCEPT !.key[k] = v, !.db = @ \cup {<<k[1], k[3]>>}] \in Tree
    BY <1>1, <2>2 DEF Tree
  <2> QED
    BY <2>1, <2>3, ChangeTypes
<1>4. CASE Update
  <2>1. PICK a \in Volatile.areas : Change([tree.data EXCEPT !.rct[a] = @ + 1])
    BY <1>4 DEF Update
  <2>2. [tree.data EXCEPT !.rct[a] = @ + 1] \in Tree
    <3>1. a \in Area /\ tree.data.rct \in [Area -> Nat]
      BY <1>1, ScenarioAssumption DEF Tree
    <3>2. [tree.data.rct EXCEPT ![a] = @ + 1] \in [Area -> Nat]
      BY <3>1
    <3>3. [tree.data EXCEPT !.rct = [tree.data.rct EXCEPT ![a] = @ + 1]] \in Tree
      BY <1>1, <3>2 DEF Tree
    <3> QED
      BY <1>1, <3>3 DEF Tree
  <2> QED
    BY <2>1, <2>2, ChangeTypes
<1>5. CASE Uninstall
  <2>1. PICK a \in Volatile.areas \cap Apps :
          Change([file |-> [f \in Folders |-> IF f[1] = a THEN Absent ELSE tree.data.file[f]],
                  key |-> [k \in Keys |-> IF k[1] = a THEN Absent ELSE tree.data.key[k]],
                  db |-> {d \in tree.data.db : d[1] # a},
                  rct |-> [tree.data.rct EXCEPT ![a] = 0],
                  link |-> [tree.data.link EXCEPT ![a] = {}],
                  info |-> [tree.data.info EXCEPT ![a] = {}]])
    BY <1>5 DEF Uninstall
  <2> DEFINE file == [f \in Folders |-> IF f[1] = a THEN Absent ELSE tree.data.file[f]]
             key == [k \in Keys |-> IF k[1] = a THEN Absent ELSE tree.data.key[k]]
             db == {d \in tree.data.db : d[1] # a}
             rct == [tree.data.rct EXCEPT ![a] = 0]
             link == [tree.data.link EXCEPT ![a] = {}]
             info == [tree.data.info EXCEPT ![a] = {}]
  <2>2. /\ file \in [Folders -> {Absent, Empty} \cup Versions]
        /\ key \in [Keys -> {Absent} \cup Versions] /\ db \in SUBSET Databases
        /\ rct \in [Area -> Nat]
    BY <1>1 DEF Tree
  <2>3. link \in [Apps -> SUBSET Shared] /\ info \in [Apps -> SUBSET Shared]
    BY <1>1 DEF Tree
  <2> HIDE DEF file, key, db, rct, link, info
  <2>4. [file |-> file, key |-> key, db |-> db, rct |-> rct, link |-> link, info |-> info]
          \in Tree
    BY <2>2, <2>3 DEF Tree
  <2>5. Change([file |-> file, key |-> key, db |-> db, rct |-> rct, link |-> link,
                info |-> info])
    BY <2>1 DEF file, key, db, rct, link, info
  <2> QED
    BY <2>4, <2>5, ChangeTypes
<1> QED
  BY <1>2, <1>3, <1>4, <1>5

LEMMA NextTypes ==
  ASSUME TypeInv, RequestInv, [Next]_vars
  PROVE  TypeInv' /\ RequestInv'
<1>1. CASE UNCHANGED vars
  BY <1>1 DEF vars, TypeInv, RequestInv
<1>2. CASE Receive
  <2>1. script # <<>> /\ script \in Seq(Requests)
    BY <1>2 DEF Receive, RequestInv
  <2>2. Head(script) \in Requests /\ Tail(script) \in Seq(Requests)
    BY <2>1
  <2>3. Operations(Head(script)) \in Seq(Requests)
    BY <2>2, OperationsType
  <2>4. TypeInv'
    BY <1>2 DEF Receive, TypeInv, Phases, Results
  <2>5. RequestInv'
    BY <1>2, <2>2, <2>3 DEF Receive, RequestInv
  <2> QED
    BY <2>4, <2>5
<1>3. CASE RefuseInLibrary
  <2>1. TypeInv'
    BY <1>3 DEF RefuseInLibrary, TypeInv, Results
  <2>2. RequestInv'
    <3>1. script # <<>> /\ script \in Seq(Requests)
      BY <1>3 DEF RefuseInLibrary, RequestInv
    <3>2. Tail(script) \in Seq(Requests)
      BY <3>1
    <3> QED
      BY <1>3, <3>2 DEF RefuseInLibrary, RequestInv
  <2> QED
    BY <2>1, <2>2
<1>4. CASE Refuse
  <2>1. <<>> \in Seq(Fits(Head(batch)))
    OBVIOUS
  <2>2. tree' \in Trees /\ result' \in Results /\ hist' \in History
    BY <1>4, RememberType DEF Refuse, TypeInv, Results
  <2> QED
    BY <1>4, <2>1, <2>2, BeginTypes DEF Refuse
<1>5. CASE BeginBackup
  <2> DEFINE r == Head(batch)
             coll == IF r.into = "new" THEN NoTree ELSE tree.coll
  <2>1. /\ batch # <<>> /\ r.op = "backup" /\ Begin(r, "work", BackupPlan(r))
        /\ Set("coll", coll) /\ Remember(coll) /\ UNCHANGED result
    BY <1>5 DEF BeginBackup
  <2>2. r \in Requests
    BY <2>1, NextRequest DEF RequestInv
  <2>3. coll \in Tree
    BY NoTreeType DEF TypeInv, Trees
  <2> HIDE DEF coll, r
  <2>4. BackupPlan(r) \in Seq(Fits(r))
    BY <2>1, <2>2, BackupPlanFits, PlanCalls
  <2>5. tree' \in Trees /\ result' \in Results /\ hist' \in History
    BY <2>1, <2>3, RememberType DEF Set, TypeInv, Trees
  <2> QED
    BY <2>1, <2>4, <2>5, BeginTypes DEF r
<1>6. CASE BeginRecovery
  <2> DEFINE r == Head(batch)
  <2>1. /\ batch # <<>> /\ r.op = "recover" /\ Begin(r, "uncompress", <<>>)
        /\ Remember(tree.coll) /\ UNCHANGED <<tree, result>>
    BY <1>6 DEF BeginRecovery
  <2> HIDE DEF r
  <2>2. /\ tree' \in Trees /\ result' \in Results /\ hist' \in History
        /\ tree'.data = hist'.before
    BY <2>1, RememberType DEF TypeInv
  <2>3. <<>> \in Seq(Fits(r))
    OBVIOUS
  <2> QED
    BY <2>1, <2>2, <2>3, BeginTypes DEF r
<1>7. CASE BeginReset
  <2> DEFINE r == Head(batch)
  <2>1. /\ batch # <<>> /\ r.op = "restore" /\ Begin(r, "work", ResetPlan(r))
        /\ Remember(tree.coll) /\ UNCHANGED <<tree, result>>
    BY <1>7 DEF BeginReset
  <2>2. r \in Requests
    BY <2>1, NextRequest DEF RequestInv
  <2> HIDE DEF r
  <2>3. ResetPlan(r) \in Seq(Fits(r))
    BY <2>1, <2>2, ResetPlanFits, PlanCalls
  <2>4. tree' \in Trees /\ result' \in Results /\ hist' \in History
    BY <2>1, RememberType DEF TypeInv
  <2> QED
    BY <2>1, <2>3, <2>4, BeginTypes DEF r
<1>8. CASE BeginDelete
  <2> DEFINE r == Head(batch)
  <2>1. PICK before \in SUBSET ToSet(Policies) :
          /\ batch # <<>> /\ r.op = "delete" /\ Begin(r, "work", DeletePlan(r, before))
          /\ Remember(tree.coll) /\ UNCHANGED <<tree, result>>
    BY <1>8 DEF BeginDelete
  <2>2. r \in Requests
    BY <2>1, NextRequest DEF RequestInv
  <2> HIDE DEF r
  <2>3. DeletePlan(r, before) \in Seq(Fits(r))
    BY <2>1, <2>2, DeletePlanFits, PlanCalls
  <2>4. tree' \in Trees /\ result' \in Results /\ hist' \in History
    BY <2>1, RememberType DEF TypeInv
  <2> QED
    BY <2>1, <2>3, <2>4, BeginTypes DEF r
<1>9. CASE CallStep
  BY <1>9, CallEffect, CallTypes DEF RequestInv
<1>10. CASE Archive
  BY <1>10, ArchiveTypes
<1>11. CASE Uncompress
  BY <1>11, UncompressTypes
<1>12. CASE Cleanup
  BY <1>12, CleanupTypes
<1>13. CASE Complete
  BY <1>13 DEF Complete, TypeInv, RequestInv, Phases, Results
<1>14. CASE Reply
  <2>1. batch' \in Seq(Requests) /\ phase' \in {"next", "idle"}
    <3>1. \/ phase' = "next" /\ UNCHANGED batch
          \/ phase' = "idle" /\ batch' = <<>>
      BY <1>14 DEF Reply
    <3>2. <<>> \in Seq(Requests) /\ batch \in Seq(Requests)
      BY DEF RequestInv
    <3> QED
      BY <3>1, <3>2
  <2> QED
    BY <1>14, <2>1 DEF Reply, TypeInv, RequestInv, Phases
<1>15. CASE Crash
  <2>1. faults' \in Nat
    BY <1>15, FaultType DEF Crash
  <2>2. TypeInv'
    BY <1>15, <2>1 DEF Crash, TypeInv, Phases, Results
  <2>3. RequestInv'
    BY <1>15 DEF Crash, RequestInv
  <2> QED
    BY <2>2, <2>3
<1>16. CASE WriteFile \/ WriteKey \/ Update \/ Uninstall
  BY <1>16, ChangesTypes
<1> QED
  BY <1>1, <1>2, <1>3, <1>4, <1>5, <1>6, <1>7, <1>8, <1>9, <1>10, <1>11, <1>12, <1>13,
     <1>14, <1>15, <1>16 DEF Next

LEMMA TypesHold == Spec => [](TypeInv /\ RequestInv)
<1>1. (TypeInv /\ RequestInv) /\ [Next]_vars => (TypeInv /\ RequestInv)'
  BY NextTypes
<1> QED
  BY <1>1, InitTypes, PTL DEF Spec

\* The variables hold what the code's can hold.
THEOREM TypeCorrect == Spec => []TypeOK
<1>1. TypeInv /\ RequestInv => TypeOK
  BY DEF TypeInv, TypeOK, Trees, ArchiveRecord, Phases, Results, History
<1> QED
  BY <1>1, TypesHold, PTL

-----------------------------------------------------------------------------
(* Nothing but what the request selects. *)

LEMMA SelectedCall ==
  ASSUME RequestInv, Effect
  PROVE  /\ \A f \in Folders : tree'.data.file[f] # tree.data.file[f] =>
              MayWrite(req) /\ SelectsFile(req, f)
         /\ \A k \in Keys : tree'.data.key[k] # tree.data.key[k] =>
              MayWrite(req) /\ SelectsKey(req, k)
<1>1. Now \in Fits(req)
  <2>1. todo \in Seq(Fits(req)) /\ todo # <<>>
    BY DEF RequestInv, Effect
  <2> QED
    BY <2>1 DEF Now
<1>2. Selected(req, Now) /\ Within(Now)
  BY <1>1 DEF Fits, Effect
<1> QED
  BY <1>2 DEF Selected, Within

\* Nothing has been changed since the operation began.
LEMMA SelectsFresh ==
  ASSUME tree'.data = hist'.before
  PROVE  OnlySelected'
BY DEF OnlySelected

\* Or not by this step.
LEMMA SelectsKept ==
  ASSUME OnlySelected, phase \in {"work", "uncompress", "reply"},
         tree'.data = tree.data, hist'.before = hist.before, req' = req
  PROVE  OnlySelected'
BY DEF OnlySelected

LEMMA SelectsIdle ==
  ASSUME phase' \notin {"work", "uncompress", "reply"}
  PROVE  OnlySelected'
BY DEF OnlySelected

LEMMA CallSelects ==
  ASSUME RequestInv, OnlySelected, Effect
  PROVE  OnlySelected'
<1>1. phase = "work" /\ req' = req
  BY DEF Effect
<1>2. hist'.before = hist.before
  BY DEF Effect, Goes
<1>3. tree'.data.rct = tree.data.rct
  BY DEF Effect, Within
<1>4. tree.data.rct = hist.before.rct
  BY <1>1 DEF OnlySelected
<1>5. \A f \in Folders : tree.data.file[f] # hist.before.file[f] =>
        MayWrite(req) /\ SelectsFile(req, f)
  BY <1>1 DEF OnlySelected, MayWrite
<1>6. \A k \in Keys : tree.data.key[k] # hist.before.key[k] =>
        MayWrite(req) /\ SelectsKey(req, k)
  BY <1>1 DEF OnlySelected, MayWrite
<1>7. \A f \in Folders : tree'.data.file[f] # hist.before.file[f] =>
        MayWrite(req) /\ SelectsFile(req, f)
  BY <1>5, SelectedCall
<1>8. \A k \in Keys : tree'.data.key[k] # hist.before.key[k] =>
        MayWrite(req) /\ SelectsKey(req, k)
  BY <1>6, SelectedCall
<1> QED
  BY <1>1, <1>2, <1>3, <1>4, <1>7, <1>8 DEF OnlySelected, MayWrite

LEMMA UncompressKeeps ==
  ASSUME TypeInv, Uncompress
  PROVE  /\ phase = "uncompress" /\ req' = req
         /\ tree'.data = tree.data /\ hist'.before = hist.before
<1>1. phase = "uncompress" /\ req' = req
  BY DEF Uncompress
<1>2. \A t : Set("ext", t) => tree'.data = tree.data
  BY DEF Set, TypeInv, Trees
<1>3. \A S : hist' = [hist EXCEPT !.extracted = S] => hist'.before = hist.before
  BY DEF TypeInv, History
<1>4. tree'.data = tree.data
  BY <1>2 DEF Uncompress
<1>5. hist'.before = hist.before
  BY <1>3 DEF Uncompress
<1> QED
  BY <1>1, <1>4, <1>5

LEMMA CleanupKeeps ==
  ASSUME TypeInv, Cleanup
  PROVE  /\ phase = "work" /\ phase' = "reply" /\ req' = req
         /\ tree'.data = tree.data /\ hist'.before = hist.before
<1>1. phase = "work" /\ phase' = "reply" /\ req' = req
  BY DEF Cleanup
<1>2. CASE Set("ext", NoTree) /\ hist' = [hist EXCEPT !.extracted = {}]
  BY <1>1, <1>2 DEF Set, TypeInv, Trees, History
<1>3. CASE UNCHANGED <<tree, hist>>
  BY <1>1, <1>3
<1> QED
  BY <1>2, <1>3 DEF Cleanup

\* An operation begins: what is stored is what it is compared with.
Begins == Refuse \/ BeginBackup \/ BeginRecovery \/ BeginReset \/ BeginDelete

LEMMA BeginsFresh ==
  ASSUME TypeInv, Begins
  PROVE  /\ tree'.data = hist'.before
         /\ phase' = "work" => req'.op # "recover"
<1>1. CASE BeginBackup
  <2>1. PICK coll : Set("coll", coll) /\ Remember(coll)
    BY <1>1 DEF BeginBackup
  <2>2. tree'.data = tree.data
    BY <2>1 DEF Set, TypeInv, Trees
  <2>3. hist'.before = tree.data
    BY <2>1, RememberType
  <2>4. req'.op = "backup"
    BY <1>1 DEF BeginBackup, Begin
  <2> QED
    BY <2>2, <2>3, <2>4
<1>2. CASE Refuse \/ BeginRecovery \/ BeginReset \/ BeginDelete
  <2>1. tree' = tree /\ Remember(tree.coll)
    BY <1>2 DEF Refuse, BeginRecovery, BeginReset, BeginDelete
  <2>2. hist'.before = tree.data
    BY <2>1, RememberType
  <2>3. phase' = "work" => req'.op # "recover"
    BY <1>2 DEF Refuse, BeginRecovery, BeginReset, BeginDelete, Begin
  <2> QED
    BY <2>1, <2>2, <2>3
<1> QED
  BY <1>1, <1>2 DEF Begins

LEMMA NextSelects ==
  ASSUME TypeInv, RequestInv, OnlySelected, [Next]_vars
  PROVE  OnlySelected'
<1>1. CASE UNCHANGED vars
  BY <1>1 DEF vars, OnlySelected
<1>2. CASE Receive \/ RefuseInLibrary \/ Reply \/ Crash
           \/ WriteFile \/ WriteKey \/ Update \/ Uninstall
  <2>1. phase' \in {"idle", "next"}
    BY <1>2 DEF Receive, RefuseInLibrary, Reply, Crash, WriteFile, WriteKey, Update,
                Uninstall, Change
  <2> QED
    BY <2>1, SelectsIdle
<1>3. CASE Begins
  BY <1>3, BeginsFresh, SelectsFresh
<1>4. CASE CallStep
  BY <1>4, CallEffect, CallSelects DEF RequestInv
<1>5. CASE Archive \/ Complete
  BY <1>5, SelectsKept DEF Archive, Complete
<1>6. CASE Uncompress
  BY <1>6, UncompressKeeps, SelectsKept
<1>7. CASE Cleanup
  BY <1>7, CleanupKeeps, SelectsKept
<1> QED
  BY <1>1, <1>2, <1>3, <1>4, <1>5, <1>6, <1>7 DEF Next, Begins

\* No operation touches data its request does not select, and none a resource
\* table: whatever the target holds, whatever calls fail half way, and whatever
\* the archive that is recovered from holds.
THEOREM Selects == Spec => []OnlySelected
<1> DEFINE IInv == TypeInv /\ RequestInv /\ OnlySelected
<1>1. Init => IInv
  <2>1. Init => OnlySelected
    BY DEF Init, OnlySelected
  <2> QED
    BY <2>1, InitTypes
<1>2. IInv /\ [Next]_vars => IInv'
  BY NextTypes, NextSelects
<1> QED
  BY <1>1, <1>2, PTL DEF Spec

-----------------------------------------------------------------------------
(* Only under the resource table that is installed. *)

Agree(a) == tree.ext.rct[a] # 0 /\ tree.ext.rct[a] = tree.data.rct[a]

\* A call that may change guarded data of an area is still to be reached through
\* a check of that area's table, or the check has passed.
GuardInv ==
  phase = "work" /\ req.op = "recover" =>
    \A i \in 1..Len(todo), a \in Area :
      Writes(todo[i], a) => Agree(a) \/ \E j \in 1..(i - 1) : Guards(todo, j, i, a)

LEMMA AgreeKept ==
  ASSUME Effect, NEW a
  PROVE  Agree(a)' <=> Agree(a)
BY DEF Effect, Within, Agree

\* The calls a recovery does not return from are left at the function's end.
LEMMA LeftUnchecked ==
  ASSUME RequestInv, req.op = "recover", todo # <<>>, Now.err \in {"count", "leave"}
  PROVE  Now.fn \notin CheckLabels
<1>1. todo \in Seq(Fits(req))
  BY DEF RequestInv
<1>2. Now \in Fits(req)
  BY <1>1 DEF Now
<1> QED
  BY <1>2 DEF Fits, Checking

\* A check that does not end the operation and is not left has passed.
LEMMA CheckPassed ==
  ASSUME TypeInv, RequestInv, CallStep, req.op = "recover", Now.do = "checkRct",
         phase' = "work", todo' = Tail(todo)
  PROVE  Agree(Now.area) \/ (Leave /\ Now.err = "count")
<1>1. CheckRctStep
  <2>1. ASSUME NEW do, Calling(do) PROVE do = "checkRct"
    BY <2>1 DEF Calling
  <2> QED
    BY <2>1 DEF CallStep, List, CopyStep, ClearStep, CopyKeysStep, ClearKeysStep,
                CopyRctStep, CopyAllStep, ExportLinksStep, ImportLinksStep,
                ClearDefaultStep, ListAreaStep, ClearSeatStep, ReturnStep, TestSumStep
<1>2. Now \in Fits(req) /\ todo # <<>>
  <2>1. Calling("checkRct")
    BY <1>1 DEF CheckRctStep
  <2> QED
    BY <2>1, NowFits DEF RequestInv
<1>3. Now.err \in {"count", "abort"}
  BY <1>2 DEF Fits, Checking
<1>4. CASE tree.ext.rct[Now.area] # 0 /\ tree.ext.rct[Now.area] = tree.data.rct[Now.area]
  BY <1>4 DEF Agree
<1>5. CASE ~(tree.ext.rct[Now.area] # 0 /\ tree.ext.rct[Now.area] = tree.data.rct[Now.area])
  <2>1. Fail({})
    BY <1>1, <1>5 DEF CheckRctStep
  <2>2. Now.err # "abort"
    BY <2>1 DEF Fail
  <2> QED
    BY <1>3, <2>1, <2>2 DEF Fail
<1> QED
  BY <1>4, <1>5

\* The next call.
LEMMA TailGuards ==
  ASSUME RequestInv, GuardInv, Effect, req.op = "recover", phase' = "work",
         todo' = Tail(todo), Now.do = "checkRct" => Agree(Now.area)
  PROVE  GuardInv'
<1>1. todo \in Seq(Fits(req)) /\ todo # <<>> /\ phase = "work" /\ req' = req
  BY DEF RequestInv, Effect
<1>2. Len(todo') = Len(todo) - 1 /\ Len(todo) \in Nat
  BY <1>1
<1>3. \A i \in 1..Len(todo') : todo'[i] = todo[i + 1]
  BY <1>1
<1>4. ASSUME NEW i \in 1..Len(todo'), NEW a \in Area, Writes(todo'[i], a)
      PROVE  Agree(a) \/ \E j \in 1..(i - 1) : Guards(todo', j, i, a)
  <2>1. i + 1 \in 1..Len(todo) /\ Writes(todo[i + 1], a)
    BY <1>2, <1>3, <1>4
  <2>2. CASE Agree(a)
    BY <2>2
  <2>3. CASE \E j \in 1..i : Guards(todo, j, i + 1, a)
    <3>1. PICK j \in 1..i : Guards(todo, j, i + 1, a)
      BY <2>3
    <3>2. CASE j = 1
      <4>1. Now.do = "checkRct" /\ Now.area = a
        BY <3>1, <3>2 DEF Guards, Now
      <4> QED
        BY <4>1
    <3>3. CASE j # 1
      <4>1. j - 1 \in 1..(i - 1) /\ todo'[j - 1] = todo[j]
        BY <1>2, <1>3, <3>3
      <4>2. \A m \in (j - 1)..i : m + 1 \in j..(i + 1) /\ todo'[m] = todo[m + 1]
        BY <1>2, <1>3, <3>3
      <4>3. Guards(todo', j - 1, i, a)
        BY <3>1, <4>1, <4>2 DEF Guards
      <4> QED
        BY <4>1, <4>3
    <3> QED
      BY <3>2, <3>3
  <2>4. Agree(a) \/ \E j \in 1..((i + 1) - 1) : Guards(todo, j, i + 1, a)
    BY <1>1, <2>1 DEF GuardInv
  <2>5. (i + 1) - 1 = i
    OBVIOUS
  <2> QED
    BY <2>2, <2>3, <2>4, <2>5
<1> QED
  BY <1>4, AgreeKept DEF GuardInv

\* The first call of another function: no check of the one that is left guards
\* what comes after it.
LEMMA LeaveGuards ==
  ASSUME RequestInv, GuardInv, Effect, req.op = "recover", phase' = "work",
         Leave, Now.err \in {"count", "leave"}
  PROVE  GuardInv'
<1>1. todo \in Seq(Fits(req)) /\ todo # <<>> /\ phase = "work" /\ req' = req
  BY DEF RequestInv, Effect
<1>2. PICK n \in 1..Len(todo) :
        /\ \A i \in 1..n : todo[i].fn = Now.fn
        /\ n < Len(todo) => todo[n + 1].fn # Now.fn
        /\ todo' = SubSeq(todo, n + 1, Len(todo))
  BY DEF Leave
<1>3. Len(todo') = Len(todo) - n /\ Len(todo) \in Nat
  BY <1>1, <1>2
<1>4. \A i \in 1..Len(todo') : todo'[i] = todo[i + n]
  BY <1>1, <1>2
<1>5. Now.fn \notin CheckLabels
  BY <1>1, LeftUnchecked
<1>6. ASSUME NEW j \in 1..n, todo[j].do = "checkRct", todo[j].err = "abort" PROVE FALSE
  <2>1. todo[j] \in Fits(req)
    BY <1>1, <1>2, <1>3
  <2>2. todo[j].fn \in CheckLabels
    BY <1>6, <2>1 DEF Fits, Checking
  <2> QED
    BY <1>2, <1>5, <2>2
<1>7. ASSUME NEW i \in 1..Len(todo'), NEW a \in Area, Writes(todo'[i], a)
      PROVE  Agree(a) \/ \E j \in 1..(i - 1) : Guards(todo', j, i, a)
  <2> DEFINE h == i + n
  <2>1. h \in 1..Len(todo) /\ Writes(todo[h], a) /\ n < Len(todo) /\ n + 1 <= h
    BY <1>2, <1>3, <1>4, <1>7
  <2>2. CASE \E j \in 1..(h - 1) : Guards(todo, j, h, a)
    <3>1. PICK j \in 1..(h - 1) : Guards(todo, j, h, a)
      BY <2>2
    <3>2. CASE j <= n
      <4>1. j \in 1..n
        BY <3>2
      <4>2. todo[j].err # "abort"
        BY <1>6, <3>1, <4>1 DEF Guards
      <4>3. todo[n + 1].fn = todo[j].fn
        <5>1. n + 1 \in j..h
          BY <2>1, <3>2
        <5> QED
          BY <3>1, <4>2, <5>1 DEF Guards
      <4>4. todo[j].fn = Now.fn
        BY <1>2, <4>1
      <4> QED
        BY <1>2, <2>1, <4>3, <4>4
    <3>3. CASE j > n
      <4>1. j - n \in 1..(i - 1) /\ todo'[j - n] = todo[j]
        BY <1>2, <1>3, <1>4, <3>3
      <4>2. \A m \in (j - n)..i : m + n \in j..h /\ todo'[m] = todo[m + n]
        BY <1>2, <1>3, <1>4, <3>3
      <4>3. Guards(todo', j - n, i, a)
        BY <3>1, <4>1, <4>2 DEF Guards
      <4> QED
        BY <4>1, <4>3
    <3> QED
      BY <3>2, <3>3
  <2>3. Agree(a) \/ \E j \in 1..(h - 1) : Guards(todo, j, h, a)
    BY <1>1, <2>1 DEF GuardInv
  <2> QED
    BY <2>2, <2>3
<1> QED
  BY <1>7, AgreeKept DEF GuardInv

LEMMA CallGuards ==
  ASSUME TypeInv, RequestInv, GuardInv, CallStep
  PROVE  GuardInv'
<1>1. Effect
  BY CallEffect DEF RequestInv
<1>2. CASE phase' # "work" \/ req.op # "recover"
  BY <1>1, <1>2 DEF GuardInv, Effect
<1>3. CASE phase' = "work" /\ req.op = "recover"
  <2>1. CASE Leave /\ Now.err \in {"count", "leave"}
    BY <1>1, <1>3, <2>1, LeaveGuards
  <2>2. CASE ~(Leave /\ Now.err \in {"count", "leave"})
    <3>1. todo' = Tail(todo)
      BY <1>1, <1>3, <2>2 DEF Effect, Goes
    <3>2. Now.do = "checkRct" => Agree(Now.area)
      BY <1>3, <2>2, <3>1, CheckPassed
    <3> QED
      BY <1>1, <1>3, <3>1, <3>2, TailGuards
  <2> QED
    BY <2>1, <2>2
<1> QED
  BY <1>2, <1>3

LEMMA UncompressGuards ==
  ASSUME TypeInv, RequestInv, Uncompress
  PROVE  GuardInv'
<1>1. phase = "uncompress" /\ req \in Requests /\ req.op = "recover" /\ req' = req
  BY DEF Uncompress, RequestInv
<1>2. CASE phase' # "work"
  BY <1>2 DEF GuardInv
<1>3. CASE phase' = "work"
  <2>1. PICK t : todo' = RecoveryPlan(t, req)
    BY <1>3 DEF Uncompress
  <2>2. todo' \in Plans(req)
    BY <1>1, <2>1, RecoveryPlanFits
  <2>3. \A i \in 1..Len(todo') : GuardedAt(todo', i)
    BY <1>1, <2>2 DEF Plans
  <2> QED
    BY <2>3 DEF GuardInv, GuardedAt
<1> QED
  BY <1>2, <1>3

LEMMA NextGuards ==
  ASSUME TypeInv, RequestInv, GuardInv, [Next]_vars
  PROVE  GuardInv'
<1>1. CASE UNCHANGED vars
  BY <1>1 DEF vars, GuardInv, Agree
<1>2. CASE CallStep
  BY <1>2, CallGuards
<1>3. CASE Uncompress
  BY <1>3, UncompressGuards
<1>4. CASE Begins
  BY <1>4, BeginsFresh DEF GuardInv
<1>5. CASE Receive \/ RefuseInLibrary \/ Reply \/ Crash \/ Archive \/ Complete \/ Cleanup
           \/ WriteFile \/ WriteKey \/ Update \/ Uninstall
  <2>1. phase' # "work"
    BY <1>5 DEF Receive, RefuseInLibrary, Reply, Crash, Archive, Complete, Cleanup,
                WriteFile, WriteKey, Update, Uninstall, Change
  <2> QED
    BY <2>1 DEF GuardInv
<1> QED
  BY <1>1, <1>2, <1>3, <1>4, <1>5 DEF Next, Begins

\* The first call of the plan has no call before it to guard it.
LEMMA GuardedCall ==
  ASSUME RequestInv, GuardInv, Effect, req.op = "recover", NEW a \in Area, Writes(Now, a)
  PROVE  Agree(a)
<1>1. phase = "work" /\ 1 \in 1..Len(todo)
  BY DEF Effect, RequestInv
<1>2. Agree(a) \/ \E j \in 1..(1 - 1) : Guards(todo, j, 1, a)
  BY <1>1 DEF GuardInv, Now
<1> QED
  BY <1>2

LEMMA CallProtects ==
  ASSUME TypeInv, RequestInv, GuardInv, RctProtects, CallStep
  PROVE  RctProtects'
<1> SUFFICES ASSUME req'.op = "recover", phase' = "work" PROVE RctProtects'
  BY DEF RctProtects
<1>1. Effect
  BY CallEffect DEF RequestInv
<1>2. req.op = "recover" /\ phase = "work" /\ todo # <<>> /\ Within(Now)
      /\ hist'.before = hist.before
  BY <1>1 DEF Effect, Goes
<1>3. Now \in Fits(req)
  BY <1>2 DEF RequestInv, Now
<1>4. ASSUME NEW f \in Folders, tree'.data.file[f] # hist.before.file[f]
      PROVE  Agree(f[1]) \/ (f[1] \in Shared /\ f[2] = Node)
  <2>1. f[1] \in Area
    BY DataAssumption
  <2>2. CASE tree.data.file[f] # hist.before.file[f]
    BY <1>2, <2>2 DEF RctProtects, Agree
  <2>3. CASE tree'.data.file[f] # tree.data.file[f]
    <3>1. Now.to = "data" /\ Now.do \in OnFolders /\ f \in Now.set
      BY <1>2, <2>3 DEF Within
    <3>2. CASE f[1] \in Apps \/ f[2] # Node
      BY <1>1, <1>2, <2>1, <3>1, <3>2, GuardedCall DEF Writes
    <3>3. CASE f[1] \notin Apps /\ f[2] = Node
      BY <2>1, <3>3 DEF Area
    <3> QED
      BY <3>2, <3>3
  <2> QED
    BY <1>4, <2>2, <2>3
<1>5. ASSUME NEW k \in Keys, tree'.data.key[k] # hist.before.key[k]
      PROVE  Agree(k[1]) \/ k[1] \in Shared
  <2>1. k[1] \in Area
    BY DataAssumption
  <2>2. CASE tree.data.key[k] # hist.before.key[k]
    BY <1>2, <2>2 DEF RctProtects, Agree
  <2>3. CASE tree'.data.key[k] # tree.data.key[k]
    <3>1. Now.to = "data" /\ Now.do \in OnKeys /\ k \in Now.set
      BY <1>2, <2>3 DEF Within
    <3>2. <<k[1], k[3]>> = Now.db
      BY <1>3, <3>1 DEF Fits, Typed
    <3>3. Now.db[1] = k[1]
      BY <3>2
    <3>4. CASE k[1] \in Apps
      BY <1>1, <1>2, <2>1, <3>1, <3>3, <3>4, GuardedCall DEF Writes
    <3>5. CASE k[1] \notin Apps
      BY <2>1, <3>5 DEF Area
    <3> QED
      BY <3>4, <3>5
  <2> QED
    BY <1>5, <2>2, <2>3
<1>6. \A a : Agree(a)' <=> Agree(a)
  BY <1>1, AgreeKept
<1> QED
  BY <1>2, <1>4, <1>5, <1>6 DEF RctProtects, Agree

LEMMA NextProtects ==
  ASSUME TypeInv, RequestInv, GuardInv, RctProtects, [Next]_vars
  PROVE  RctProtects'
<1>1. CASE UNCHANGED vars
  BY <1>1 DEF vars, RctProtects
<1>2. CASE CallStep
  BY <1>2, CallProtects
<1>3. CASE Uncompress
  <2>1. tree'.data = tree.data /\ hist'.before = hist.before /\ phase = "uncompress"
    BY <1>3, UncompressKeeps
  <2>2. tree'.data = hist'.before
    BY <2>1 DEF RequestInv
  <2> QED
    BY <2>2 DEF RctProtects
<1>4. CASE Begins
  BY <1>4, BeginsFresh DEF RctProtects
<1>5. CASE Receive \/ RefuseInLibrary \/ Reply \/ Crash \/ Archive \/ Complete \/ Cleanup
           \/ WriteFile \/ WriteKey \/ Update \/ Uninstall
  <2>1. phase' # "work"
    BY <1>5 DEF Receive, RefuseInLibrary, Reply, Crash, Archive, Complete, Cleanup,
                WriteFile, WriteKey, Update, Uninstall, Change
  <2> QED
    BY <2>1 DEF RctProtects
<1> QED
  BY <1>1, <1>2, <1>3, <1>4, <1>5 DEF Next, Begins

\* A recovery changes an application, or a user's files of a shared area, only
\* where archive and target have the same resource table: whichever calls fail,
\* however their errors are passed on, no call the check guards is reached
\* without it.
THEOREM Protects == Spec => []RctProtects
<1> DEFINE IInv == TypeInv /\ RequestInv /\ GuardInv /\ RctProtects
<1>1. Init => IInv
  <2>1. Init => GuardInv /\ RctProtects
    BY DEF Init, GuardInv, RctProtects
  <2> QED
    BY <2>1, InitTypes
<1>2. IInv /\ [Next]_vars => IInv'
  BY NextTypes, NextGuards, NextProtects
<1> QED
  BY <1>1, <1>2, PTL DEF Spec

-----------------------------------------------------------------------------
(* What a list has. *)

\* A sequence over A that x is in.
Lists(A, x) == Holding(A, {x})

LEMMA ThoseHas ==
  ASSUME NEW A, NEW seq \in Seq(A), NEW S, NEW x \in S, seq \in Lists(A, x)
  PROVE  Those(seq, S) \in Lists(A, x)
<1> DEFINE seqs == [i \in 1..Len(seq) |-> IF seq[i] \in S THEN <<seq[i]>> ELSE <<>>]
<1>1. \A i \in 1..Len(seq) : seqs[i] \in Seq(A)
  <2> TAKE i \in 1..Len(seq)
  <2>1. seq[i] \in A
    OBVIOUS
  <2>2. CASE seq[i] \in S
    <3>1. seqs[i] = <<seq[i]>>
      BY <2>2
    <3> HIDE DEF seqs
    <3> QED
      BY <2>1, <3>1, OneType
  <2>3. CASE seq[i] \notin S
    BY <2>3
  <2> QED
    BY <2>2, <2>3
<1>2. seqs \in Seq(Seq(A)) /\ Len(seqs) = Len(seq)
  BY <1>1
<1>3. PICK i \in 1..Len(seq) : seq[i] = x
  BY DEF Lists, Holding
<1>4. seqs[i] = <<x>>
  BY <1>3
<1>5. x \in A
  BY <1>3
<1> HIDE DEF seqs
<1>6. seqs[i] \in Lists(A, x)
  <2>1. <<x>> \in Seq(A) /\ <<x>>[1] = x /\ Len(<<x>>) = 1
    BY <1>5
  <2> QED
    BY <1>4, <2>1 DEF Lists, Holding
<1>7. Lasting(A, A, Lists(A, x))
  BY HoldingLasts DEF Lists
<1>8. \A j \in 1..(i - 1) : seqs[j] \in Seq(A)
  BY <1>1, <1>3
<1>9. FlattenSeq(seqs) \in Lists(A, x)
  BY <1>2, <1>3, <1>6, <1>7, <1>8, FlattenLasts
<1> QED
  BY <1>9 DEF Those, seqs

LEMMA ListsAt ==
  ASSUME NEW A, NEW x, NEW seq \in Lists(A, x)
  PROVE  seq \in Seq(A) /\ \E i \in 1..Len(seq) : seq[i] = x
BY DEF Lists, Holding

LEMMA ToSetLists ==
  ASSUME NEW A, NEW seq \in Seq(A), NEW x \in ToSet(seq)
  PROVE  seq \in Lists(A, x)
BY DEF ToSet, Lists, Holding

LEMMA AppsOfHas ==
  ASSUME NEW t, NEW a \in Apps, AreaExists(t, a)
  PROVE  \E i \in 1..Len(AppsOf(t)) : AppsOf(t)[i] = a
<1> DEFINE A == ToSet(MntList)
<1>1. a \in A /\ MntList \in Seq(A)
  BY DataAssumption DEF Apps
<1>2. MntList \in Lists(A, a)
  BY <1>1, ToSetLists
<1>3. AppList \in Lists(A, a)
  BY <1>1, <1>2, ThoseHas DEF AppList
<1>4. AppList \in Seq(A)
  BY <1>3, ListsAt
<1>5. AppsOf(t) \in Lists(A, a)
  BY <1>3, <1>4, ThoseHas DEF AppsOf
<1> QED
  BY <1>5, ListsAt

LEMMA GroupsOfHas ==
  ASSUME NEW t, NEW g \in Groups, AreaExists(t, g)
  PROVE  \E i \in 1..Len(GroupsOf(t)) : GroupsOf(t)[i] = g
<1>1. GroupList \in Seq(Groups) /\ g \in ToSet(GroupList)
  BY DataAssumption DEF Groups
<1>2. GroupList \in Lists(Groups, g)
  BY <1>1, ToSetLists
<1>3. GroupsOf(t) \in Lists(Groups, g)
  BY <1>1, <1>2, ThoseHas DEF GroupsOf
<1> QED
  BY <1>3, ListsAt

LEMMA LocalDbsHas ==
  ASSUME NEW a, NEW p \in ToSet(Policies)
  PROVE  \E i \in 1..Len(LocalDbs(a)) : LocalDbs(a)[i] = <<a, p>>
<1>1. PICK i \in 1..Len(Policies) : Policies[i] = p
  BY PoliciesType DEF ToSet, Policies
<1> QED
  BY <1>1, PoliciesType DEF LocalDbs

\* Public's databases, and those of the groups that exist.
LEMMA SharedDbsHas ==
  ASSUME NEW t, NEW a \in Shared, a # Public => AreaExists(t, a), NEW p \in ToSet(Policies)
  PROVE  \E i \in 1..Len(SharedDbs(t)) : SharedDbs(t)[i] = <<a, p>>
<1> DEFINE D == Shared \X ToSet(Policies)
           d == <<a, p>>
           groups == GroupsOf(t)
           of(i) == [j \in 1..Len(groups) |-> <<groups[j], Policies[i]>>]
           seqs == [i \in 1..Len(Policies) |-> of(i)]
<1>1. Lasting(D, D, Lists(D, d))
  BY HoldingLasts DEF Lists
<1>2. LocalDbs(Public) \in Seq(D)
  <2>1. LocalDbs(Public) \in Seq({Public} \X ToSet(Policies))
    BY LocalDbsType DEF Area, Shared
  <2>2. {Public} \X ToSet(Policies) \subseteq D
    BY DEF Shared
  <2> QED
    BY <2>1, <2>2, SeqSubset
<1>3. groups \in Seq(Groups)
  BY GroupsOfType
<1>4. ASSUME NEW i \in 1..Len(Policies) PROVE of(i) \in Seq(D)
  <2>1. \A j \in 1..Len(groups) : <<groups[j], Policies[i]>> \in D
    <3> TAKE j \in 1..Len(groups)
    <3>1. groups[j] \in Shared
      BY <1>3, ElementType DEF Shared
    <3>2. Policies[i] \in ToSet(Policies)
      BY PoliciesType, ElementType
    <3> QED
      BY <3>1, <3>2
  <2>2. Len(groups) \in Nat
    BY <1>3
  <2> HIDE DEF D, groups
  <2> QED
    BY <2>1, <2>2
<1>5. seqs \in Seq(Seq(D)) /\ Len(seqs) = Len(Policies)
  BY <1>4, PoliciesType
<1>6. SharedDbs(t) = LocalDbs(Public) \o FlattenSeq(seqs)
  BY DEF SharedDbs
<1>7. FlattenSeq(seqs) \in Seq(D)
  BY <1>5, FlattenType
<1>8. CASE a = Public
  <2>1. LocalDbs(Public) \in Lists(D, d)
    BY <1>2, <1>8, LocalDbsHas DEF Lists, Holding
  <2> HIDE DEF seqs, D, d
  <2>2. SharedDbs(t) \in Lists(D, d)
    BY <1>1, <1>6, <1>7, <2>1, LastingBefore
  <2> QED
    BY <2>2, ListsAt DEF d
<1>9. CASE a # Public
  <2>1. a \in Groups
    BY <1>9 DEF Shared
  <2>2. PICK j \in 1..Len(groups) : groups[j] = a
    BY <1>9, <2>1, GroupsOfHas
  <2>3. PICK i \in 1..Len(Policies) : Policies[i] = p
    BY PoliciesType DEF ToSet, Policies
  <2>4. of(i)[j] = d /\ Len(of(i)) = Len(groups)
    <3>1. Len(groups) \in Nat
      BY <1>3
    <3> HIDE DEF groups
    <3> QED
      BY <2>2, <2>3, <3>1
  <2> HIDE DEF of
  <2>5. of(i) \in Lists(D, d)
    <3>1. of(i) \in Seq(D)
      BY <1>4
    <3> HIDE DEF groups, D, d
    <3> QED
      BY <2>2, <2>4, <3>1 DEF Lists, Holding
  <2>6. seqs[i] = of(i)
    OBVIOUS
  <2>7. \A k \in 1..(i - 1) : seqs[k] \in Seq(D)
    <3>1. Len(Policies) = 2
      BY PoliciesType
    <3> QED
      BY <1>4, <3>1
  <2> HIDE DEF seqs, D, d
  <2>8. FlattenSeq(seqs) \in Lists(D, d)
    BY <1>1, <1>5, <2>5, <2>6, <2>7, FlattenLasts
  <2>9. LocalDbs(Public) \o FlattenSeq(seqs) \in Lists(D, d)
    BY <1>1, <1>2, <2>8, LastingAfter
  <2> QED
    BY <1>6, <2>9, ListsAt DEF d
<1> QED
  BY <1>8, <1>9
-----------------------------------------------------------------------------
(* What a restore to default deletes. *)

\* The calls it makes: the first error ends it.
ResetCalls ==
  {c \in Calls : /\ c.do \in {"list", "listNothing", "clear", "clearKeys",
                              "clearConfFolder", "clearConfDb"}
                 /\ c.from = "data" /\ c.to = "data" /\ c.err = "abort"}

\* What there is to delete: files, keys, configurable defaults.
Things == ({"file"} \X Folders) \cup ({"key"} \X Keys) \cup ({"folder", "db"} \X Area)

Gone(x, data, defaults) ==
  \/ x[1] = "file" /\ data.file[x[2]] = Absent
  \/ x[1] = "key" /\ data.key[x[2]] = Absent
  \/ x[1] \in {"folder", "db"} /\ x[2] \notin defaults[x[1]]

\* The calls that delete it.
Clearing(x) ==
  {c \in ResetCalls :
     \/ x[1] = "file" /\ c.do = "clear" /\ x[2] \in c.set
     \/ x[1] = "key" /\ c.do = "clearKeys" /\ x[2] \in c.set
     \/ x[1] = "folder" /\ c.do = "clearConfFolder" /\ x[2] = c.area
     \/ x[1] = "db" /\ c.do = "clearConfDb" /\ x[2] = c.area}

\* A plan that deletes all of X.
Clears(X) == {p \in Seq(ResetCalls) : \A x \in X : p \in Holding(ResetCalls, Clearing(x))}

LEMMA ClearsLess ==
  ASSUME NEW X, NEW Y, Y \subseteq X, NEW p \in Clears(X)
  PROVE  p \in Clears(Y)
BY DEF Clears

LEMMA ClearsOne ==
  ASSUME NEW c \in ResetCalls, NEW X, \A x \in X : c \in Clearing(x)
  PROVE  <<c>> \in Clears(X)
<1>1. <<c>> \in Seq(ResetCalls) /\ Len(<<c>>) = 1 /\ <<c>>[1] = c
  OBVIOUS
<1> DEFINE p == <<c>>
<1> HIDE DEF p
<1>2. p \in Seq(ResetCalls) /\ 1 \in 1..Len(p) /\ p[1] = c
  BY <1>1 DEF p
<1>3. \A x \in X : p \in Holding(ResetCalls, Clearing(x))
  BY <1>2 DEF Holding
<1> QED
  BY <1>2, <1>3 DEF Clears, p

LEMMA ClearsBoth ==
  ASSUME NEW X, NEW Y, NEW p \in Clears(X), NEW q \in Clears(Y)
  PROVE  p \o q \in Clears(X \cup Y)
<1> DEFINE C == ResetCalls
<1>1. p \in Seq(C) /\ q \in Seq(C)
  BY DEF Clears
<1> HIDE DEF C
<1>2. p \o q \in Seq(C)
  BY <1>1, ConcatType
<1>3. ASSUME NEW x \in X PROVE p \o q \in Holding(C, Clearing(x))
  <2>1. p \in Holding(C, Clearing(x))
    BY DEF Clears, C
  <2> QED
    BY <1>1, <2>1, HoldingLasts, LastingBefore
<1>4. ASSUME NEW x \in Y PROVE p \o q \in Holding(C, Clearing(x))
  <2>1. q \in Holding(C, Clearing(x))
    BY DEF Clears, C
  <2> QED
    BY <1>1, <2>1, HoldingLasts, LastingAfter
<1> DEFINE pq == p \o q
<1> HIDE DEF pq
<1>5. pq \in Clears(X \cup Y)
  <2>1. pq \in Seq(C)
    BY <1>2 DEF pq
  <2>2. \A x \in X \cup Y : pq \in Holding(C, Clearing(x))
    BY <1>3, <1>4 DEF pq
  <2> QED
    BY <2>1, <2>2 DEF Clears, C
<1> QED
  BY <1>5 DEF pq

\* A walk: all that one of its parts deletes.
LEMMA ClearsAlong ==
  ASSUME NEW seqs \in Seq(Seq(ResetCalls)), NEW X,
         \A x \in X : \E i \in 1..Len(seqs) : seqs[i] \in Clears({x})
  PROVE  FlattenSeq(seqs) \in Clears(X)
<1> DEFINE C == ResetCalls
           all == FlattenSeq(seqs)
<1> HIDE DEF C, all
<1>1. all \in Seq(C)
  BY FlattenType DEF all, C
<1>2. ASSUME NEW x \in X PROVE all \in Holding(C, Clearing(x))
  <2>1. PICK i \in 1..Len(seqs) : seqs[i] \in Clears({x})
    OBVIOUS
  <2>2. seqs[i] \in Holding(C, Clearing(x))
    BY <2>1 DEF Clears, C
  <2>3. \A j \in 1..(i - 1) : seqs[j] \in Seq(C)
    BY DEF C
  <2>4. Lasting(C, C, Holding(C, Clearing(x)))
    BY HoldingLasts
  <2> QED
    BY <2>2, <2>3, <2>4, FlattenLasts DEF all, C
<1> QED
  BY <1>1, <1>2 DEF Clears, C, all

LEMMA ListsClear ==
  ASSUME NEW fn \in Labels
  PROVE  <<ListFolders("abort", fn)>> \in Clears({})
<1>1. ListFolders("abort", fn) \in ResetCalls
  BY DEF ListFolders, Call, ResetCalls, Calls, NoDb
<1> QED
  BY <1>1, ClearsOne

\* An area's own folder.
LEMMA ResetNodeClears ==
  ASSUME NEW a
  PROVE  ResetNode(a) \in Clears({"file"} \X NodeFolder(a))
<1> DEFINE S == NodeFolder(a)
           c == Clear("data", "data", S, "abort", "appl_node")
<1>1. S \in SUBSET Folders /\ "appl_node" \in Labels
  BY DEF NodeFolder, Labels
<1> HIDE DEF S
<1>2. c \in Calls
  BY <1>1, ClearCall
<1>3. c.do = "clear" /\ c.from = "data" /\ c.to = "data" /\ c.err = "abort" /\ c.set = S
  BY DEF Clear, Call
<1> HIDE DEF c
<1>4. c \in ResetCalls
  BY <1>2, <1>3 DEF ResetCalls
<1>5. \A x \in {"file"} \X S : c \in Clearing(x)
  BY <1>3, <1>4 DEF Clearing
<1>6. <<c>> \in Clears({"file"} \X S)
  BY <1>4, <1>5, ClearsOne
<1> QED
  BY <1>6 DEF ResetNode, c, S

\* Its configurable defaults, if they are asked for.
LEMMA DefaultsClear ==
  ASSUME NEW r, NEW a \in Area, NEW fn \in Labels
  PROVE  /\ (IF Factory(r) THEN <<ClearDefaultFolder(a, fn)>> ELSE <<>>)
              \in Clears({"folder"} \X {b \in {a} : Factory(r)})
         /\ (IF Factory(r) THEN <<ClearDefaultDb(a, fn)>> ELSE <<>>)
              \in Clears({"db"} \X {b \in {a} : Factory(r)})
<1> DEFINE c == ClearDefaultFolder(a, fn)
           d == ClearDefaultDb(a, fn)
<1>1. c \in ResetCalls /\ d \in ResetCalls
  BY DEF ClearDefaultFolder, ClearDefaultDb, Call, ResetCalls, Calls, NoDb
<1>2. c.do = "clearConfFolder" /\ c.area = a /\ d.do = "clearConfDb" /\ d.area = a
  BY DEF ClearDefaultFolder, ClearDefaultDb, Call
<1> HIDE DEF c, d
<1>3. \A x \in {"folder"} \X {b \in {a} : Factory(r)} : c \in Clearing(x)
  BY <1>1, <1>2 DEF Clearing
<1>4. \A x \in {"db"} \X {b \in {a} : Factory(r)} : d \in Clearing(x)
  BY <1>1, <1>2 DEF Clearing
<1>5. <<c>> \in Clears({"folder"} \X {b \in {a} : Factory(r)})
  BY <1>1, <1>3, ClearsOne
<1>6. <<d>> \in Clears({"db"} \X {b \in {a} : Factory(r)})
  BY <1>1, <1>4, ClearsOne
<1>7. ~Factory(r) => /\ <<>> \in Clears({"folder"} \X {b \in {a} : Factory(r)})
                     /\ <<>> \in Clears({"db"} \X {b \in {a} : Factory(r)})
  <2>1. <<>> \in Seq(ResetCalls)
    OBVIOUS
  <2> QED
    BY <2>1 DEF Clears
<1> QED
  BY <1>5, <1>6, <1>7 DEF c, d

\* What there is of users' files of an area.
UserThings(r, a, u, s) ==
  ({"file"} \X UserFolder(a, u, s)) \cup ({"folder"} \X {b \in {a} : Factory(r)})

LEMMA ResetUserClears ==
  ASSUME NEW r, NEW a \in Area, NEW u, NEW s
  PROVE  ResetUser(a, r, u, s) \in Clears(UserThings(r, a, u, s))
<1> DEFINE S == UserFolder(a, u, s)
           c == Clear("data", "data", S, "abort", "appl_user")
           e == IF Factory(r) THEN <<ClearDefaultFolder(a, "appl_user")>> ELSE <<>>
<1>1. S \in SUBSET Folders /\ "appl_user" \in Labels
  BY DEF UserFolder, Labels
<1> HIDE DEF S
<1>2. c \in Calls
  BY <1>1, ClearCall
<1>3. c.do = "clear" /\ c.from = "data" /\ c.to = "data" /\ c.err = "abort" /\ c.set = S
  BY DEF Clear, Call
<1>4. e \in Clears({"folder"} \X {b \in {a} : Factory(r)})
  BY <1>1, DefaultsClear
<1> HIDE DEF c, e
<1>5. c \in ResetCalls
  BY <1>2, <1>3 DEF ResetCalls
<1>6. \A x \in {"file"} \X S : c \in Clearing(x)
  BY <1>3, <1>5 DEF Clearing
<1>7. <<c>> \in Clears({"file"} \X S)
  BY <1>5, <1>6, ClearsOne
<1>8. <<c>> \o e \in Clears(({"file"} \X S) \cup ({"folder"} \X {b \in {a} : Factory(r)}))
  BY <1>4, <1>7, ClearsBoth
<1> QED
  BY <1>8 DEF ResetUser, UserThings, c, e, S

LEMMA ResetKeysClear ==
  ASSUME NEW r, NEW type, NEW u, NEW s, NEW dbs \in Seq(Databases)
  PROVE  ResetKeys(dbs, r, type, u, s)
           \in Clears({"key"} \X UNION {FilterKeys(dbs[i], type, u, s) : i \in 1..Len(dbs)})
<1> DEFINE S(d) == FilterKeys(d, type, u, s)
           c(d) == ClearDb("data", "data", d, S(d), "abort", "keys")
           p == [i \in 1..Len(dbs) |-> c(dbs[i])]
           X == {"key"} \X UNION {FilterKeys(dbs[i], type, u, s) : i \in 1..Len(dbs)}
<1>1. ASSUME NEW d \in Databases
      PROVE  c(d) \in ResetCalls /\ \A k \in S(d) : c(d) \in Clearing(<<"key", k>>)
  <2>1. S(d) \in SUBSET Keys /\ "keys" \in Labels
    BY DEF FilterKeys, Labels
  <2> HIDE DEF S
  <2>2. c(d) \in Calls
    BY <2>1, ClearDbCall
  <2>3. /\ c(d).do = "clearKeys" /\ c(d).from = "data" /\ c(d).to = "data"
        /\ c(d).err = "abort" /\ c(d).set = S(d)
    BY DEF ClearDb, Call
  <2> HIDE DEF c
  <2>4. c(d) \in ResetCalls
    BY <2>2, <2>3 DEF ResetCalls
  <2> QED
    BY <2>3, <2>4 DEF Clearing
<1> HIDE DEF c
<1>2. \A i \in 1..Len(dbs) : dbs[i] \in Databases
  BY ElementType
<1>3. p \in Seq(ResetCalls) /\ Len(p) = Len(dbs)
  <2>1. \A i \in 1..Len(dbs) : c(dbs[i]) \in ResetCalls
    BY <1>1, <1>2
  <2> QED
    BY <2>1
<1>4. ASSUME NEW x \in X PROVE p \in Holding(ResetCalls, Clearing(x))
  <2>1. PICK i \in 1..Len(dbs) : x[1] = "key" /\ x[2] \in S(dbs[i]) /\ x = <<x[1], x[2]>>
    OBVIOUS
  <2>2. c(dbs[i]) \in Clearing(x)
    BY <1>1, <1>2, <2>1
  <2>3. p[i] = c(dbs[i])
    OBVIOUS
  <2> HIDE DEF p
  <2> QED
    BY <1>3, <2>2, <2>3 DEF Holding
<1> HIDE DEF p, X
<1>5. p \in Clears(X)
  BY <1>3, <1>4 DEF Clears
<1> QED
  BY <1>5 DEF ResetKeys, p, c, X

\* The keys of an area, and its defaults.
KeyThings(r, a, type, u, s) ==
  ({"key"} \X {k \in Keys : k[1] = a /\ Filter(type, u, s, k[2])})
    \cup ({"db"} \X {b \in {a} : Factory(r)})

LEMMA ResetLocalKeysClear ==
  ASSUME NEW r, NEW a \in Area, NEW type, NEW u, NEW s
  PROVE  ResetLocalKeys(a, r, type, u, s) \in Clears(KeyThings(r, a, type, u, s))
<1> DEFINE dbs == LocalDbs(a)
           e == IF Factory(r) THEN <<ClearDefaultDb(a, "local_keys")>> ELSE <<>>
           X == {"key"} \X UNION {FilterKeys(dbs[i], type, u, s) : i \in 1..Len(dbs)}
           Y == {"db"} \X {b \in {a} : Factory(r)}
<1>1. dbs \in Seq(Databases)
  <2>1. {a} \X ToSet(Policies) \subseteq Databases
    BY DEF Databases
  <2> QED
    BY <2>1, LocalDbsType, SeqSubset
<1>2. ResetKeys(dbs, r, type, u, s) \in Clears(X)
  BY <1>1, ResetKeysClear
<1>3. e \in Clears(Y)
  <2>1. "local_keys" \in Labels
    BY DEF Labels
  <2> QED
    BY <2>1, DefaultsClear
<1>4. KeyThings(r, a, type, u, s) \subseteq X \cup Y
  <2>1. ASSUME NEW k \in Keys, k[1] = a, Filter(type, u, s, k[2])
        PROVE  \E i \in 1..Len(dbs) : k \in FilterKeys(dbs[i], type, u, s)
    <3>1. k[3] \in ToSet(Policies)
      BY DataAssumption
    <3>2. PICK i \in 1..Len(dbs) : dbs[i] = <<a, k[3]>>
      BY <3>1, LocalDbsHas
    <3> QED
      BY <2>1, <3>2 DEF FilterKeys
  <2> HIDE DEF dbs
  <2> QED
    BY <2>1 DEF KeyThings
<1> HIDE DEF dbs, e, X, Y
<1>5. ResetKeys(dbs, r, type, u, s) \o e \in Clears(X \cup Y)
  BY <1>2, <1>3, ClearsBoth
<1>6. ResetKeys(dbs, r, type, u, s) \o e \in Clears(KeyThings(r, a, type, u, s))
  BY <1>4, <1>5, ClearsLess
<1> QED
  BY <1>6 DEF ResetLocalKeys, dbs, e

\* The shared areas that are looked at.
Present(t) == {a \in Shared : a # Public => AreaExists(t, a)}

\* One database's keys, and its area's defaults.
DbThings(r, d, type, u, s) ==
  ({"key"} \X FilterKeys(d, type, u, s)) \cup ({"db"} \X {b \in {d[1]} : Factory(r)})

LEMMA DbThingsCover ==
  ASSUME NEW r, NEW a \in Area, NEW type, NEW u, NEW s, NEW x \in KeyThings(r, a, type, u, s)
  PROVE  \E p \in ToSet(Policies) : x \in DbThings(r, <<a, p>>, type, u, s)
<1>1. CASE x \in {"key"} \X {k \in Keys : k[1] = a /\ Filter(type, u, s, k[2])}
  <2>1. PICK k \in Keys : x = <<"key", k>> /\ k[1] = a /\ Filter(type, u, s, k[2])
    BY <1>1
  <2>2. k[3] \in ToSet(Policies)
    BY DataAssumption
  <2>3. k \in FilterKeys(<<a, k[3]>>, type, u, s)
    BY <2>1 DEF FilterKeys
  <2> QED
    BY <2>1, <2>2, <2>3 DEF DbThings
<1>2. CASE x \in {"db"} \X {b \in {a} : Factory(r)}
  <2>1. "cached" \in ToSet(Policies)
    BY PoliciesType
  <2> QED
    BY <1>2, <2>1 DEF DbThings
<1> QED
  BY <1>1, <1>2 DEF KeyThings

LEMMA ResetSharedKeysClear ==
  ASSUME NEW r, NEW type, NEW u, NEW s
  PROVE  ResetSharedKeys(r, type, u, s)
           \in Clears(UNION {KeyThings(r, a, type, u, s) : a \in Present(tree.data)})
<1> DEFINE dbs == SharedDbs(tree.data)
           e(d) == IF Factory(r) THEN <<ClearDefaultDb(d[1], "shared_keys")>> ELSE <<>>
           Plan(d) == ResetKeys(<<d>>, r, type, u, s) \o e(d)
           seqs == [i \in 1..Len(dbs) |-> Plan(dbs[i])]
           X == UNION {KeyThings(r, a, type, u, s) : a \in Present(tree.data)}
<1>1. ASSUME NEW d \in Shared \X ToSet(Policies)
      PROVE  Plan(d) \in Clears(DbThings(r, d, type, u, s))
  <2> DEFINE one == <<d>>
             U == {"key"} \X UNION {FilterKeys(one[i], type, u, s) : i \in 1..Len(one)}
             Y == {"db"} \X {b \in {d[1]} : Factory(r)}
  <2>1. d \in Databases /\ d[1] \in Area
    BY DEF Databases, Area
  <2>2. one \in Seq(Databases) /\ Len(one) = 1 /\ one[1] = d
    BY <2>1
  <2>3. e(d) \in Clears(Y)
    <3>1. "shared_keys" \in Labels
      BY DEF Labels
    <3> QED
      BY <2>1, <3>1, DefaultsClear
  <2> HIDE DEF one, e
  <2>4. ResetKeys(one, r, type, u, s) \in Clears(U)
    BY <2>2, ResetKeysClear
  <2>5. DbThings(r, d, type, u, s) \subseteq U \cup Y
    <3>1. 1 \in 1..Len(one)
      BY <2>2
    <3> QED
      BY <2>2, <3>1 DEF DbThings
  <2> HIDE DEF U, Y
  <2>6. ResetKeys(one, r, type, u, s) \o e(d) \in Clears(U \cup Y)
    BY <2>3, <2>4, ClearsBoth
  <2>7. ResetKeys(one, r, type, u, s) \o e(d) \in Clears(DbThings(r, d, type, u, s))
    BY <2>5, <2>6, ClearsLess
  <2> QED
    BY <2>7 DEF one
<1>2. dbs \in Seq(Shared \X ToSet(Policies))
  BY SharedDbsType
<1>3. \A a \in Present(tree.data), p \in ToSet(Policies) : \E i \in 1..Len(dbs) : dbs[i] = <<a, p>>
  BY SharedDbsHas DEF Present
<1> HIDE DEF dbs, Plan
<1>4. \A i \in 1..Len(dbs) : Plan(dbs[i]) \in Clears(DbThings(r, dbs[i], type, u, s))
  BY <1>1, <1>2, ElementType
<1>5. seqs \in Seq(Seq(ResetCalls)) /\ Len(seqs) = Len(dbs)
  <2>1. \A i \in 1..Len(dbs) : Plan(dbs[i]) \in Seq(ResetCalls)
    BY <1>4 DEF Clears
  <2>2. Len(dbs) \in Nat
    BY <1>2
  <2> QED
    BY <2>1, <2>2
<1>6. ASSUME NEW x \in X PROVE \E i \in 1..Len(seqs) : seqs[i] \in Clears({x})
  <2>1. PICK a \in Present(tree.data) : x \in KeyThings(r, a, type, u, s)
    OBVIOUS
  <2>2. a \in Area
    BY DEF Present, Area
  <2>3. PICK p \in ToSet(Policies) : x \in DbThings(r, <<a, p>>, type, u, s)
    BY <2>1, <2>2, DbThingsCover
  <2>4. PICK i \in 1..Len(dbs) : dbs[i] = <<a, p>>
    BY <1>3
  <2>5. Plan(dbs[i]) \in Clears(DbThings(r, dbs[i], type, u, s)) /\ {x} \subseteq DbThings(r, dbs[i], type, u, s)
    BY <1>4, <2>3, <2>4
  <2>6. Plan(dbs[i]) \in Clears({x})
    BY <2>5, ClearsLess
  <2>7. seqs[i] = Plan(dbs[i])
    OBVIOUS
  <2> QED
    BY <1>5, <2>6, <2>7
<1> HIDE DEF seqs, X
<1>7. FlattenSeq(seqs) \in Clears(X)
  BY <1>5, <1>6, ClearsAlong
<1> QED
  BY <1>7 DEF ResetSharedKeys, ForAll, seqs, dbs, Plan, e, X

\* All there is of an area.
AreaThings(r, a) ==
  ({"file"} \X {f \in Folders : f[1] = a}) \cup ({"key"} \X {k \in Keys : k[1] = a})
    \cup ({"folder", "db"} \X {b \in {a} : Factory(r)})

LEMMA ResetApplicationClears ==
  ASSUME NEW r, NEW a \in Area
  PROVE  ResetApplication(a, r) \in Clears(AreaThings(r, a))
<1> DEFINE p == ResetNode(a)
           q == ResetUser(a, r, AllUsers, AllSeats)
           k == ResetLocalKeys(a, r, "application", AllUsers, AllSeats)
           X == {"file"} \X NodeFolder(a)
           Y == UserThings(r, a, AllUsers, AllSeats)
           Z == KeyThings(r, a, "application", AllUsers, AllSeats)
<1>1. p \in Clears(X) /\ q \in Clears(Y) /\ k \in Clears(Z)
  BY ResetNodeClears, ResetUserClears, ResetLocalKeysClear
<1>2. AreaThings(r, a) \subseteq (X \cup Y) \cup Z
  <2>1. \A f \in Folders : f[1] = a => f \in NodeFolder(a) \cup UserFolder(a, AllUsers, AllSeats)
    BY DEF NodeFolder, UserFolder, OwnedBy
  <2>2. \A o : Filter("application", AllUsers, AllSeats, o)
    BY DEF Filter
  <2> QED
    BY <2>1, <2>2 DEF AreaThings, UserThings, KeyThings
<1> HIDE DEF p, q, k, X, Y, Z
<1>3. p \o q \in Clears(X \cup Y)
  BY <1>1, ClearsBoth
<1>4. (p \o q) \o k \in Clears((X \cup Y) \cup Z)
  BY <1>1, <1>3, ClearsBoth
<1>5. (p \o q) \o k \in Clears(AreaThings(r, a))
  BY <1>2, <1>4, ClearsLess
<1> QED
  BY <1>5 DEF ResetApplication, p, q, k

LEMMA ResetNonUserSharedClears ==
  ResetNonUserShared \in Clears({"file"} \X {f \in Folders : f[1] \in Present(tree.data) /\ f[2] = Node})
<1> DEFINE groups == GroupsOf(tree.data)
           seqs == [i \in 1..Len(groups) |-> ResetNode(groups[i])]
           X == {"file"} \X NodeFolder(Public)
           Y == {"file"} \X {f \in Folders : f[1] \in Present(tree.data) \ {Public} /\ f[2] = Node}
           list == <<ListFolders("abort", "non_user_shared")>>
<1>1. groups \in Seq(Groups)
  BY GroupsOfType
<1>2. \A a \in Present(tree.data) \ {Public} : \E i \in 1..Len(groups) : groups[i] = a
  BY GroupsOfHas DEF Present, Shared
<1>3. list \in Clears({})
  <2>1. "non_user_shared" \in Labels
    BY DEF Labels
  <2> QED
    BY <2>1, ListsClear
<1> HIDE DEF groups
<1>4. seqs \in Seq(Seq(ResetCalls)) /\ Len(seqs) = Len(groups)
  <2>1. \A i \in 1..Len(groups) : ResetNode(groups[i]) \in Seq(ResetCalls)
    BY ResetNodeClears DEF Clears
  <2>2. Len(groups) \in Nat
    BY <1>1
  <2> QED
    BY <2>1, <2>2
<1>5. ASSUME NEW x \in Y PROVE \E i \in 1..Len(seqs) : seqs[i] \in Clears({x})
  <2>1. PICK f \in Folders : x = <<"file", f>> /\ f[1] \in Present(tree.data) \ {Public} /\ f[2] = Node
    OBVIOUS
  <2>2. PICK i \in 1..Len(groups) : groups[i] = f[1]
    BY <1>2, <2>1
  <2>3. {x} \subseteq {"file"} \X NodeFolder(groups[i])
    BY <2>1, <2>2 DEF NodeFolder
  <2>4. ResetNode(groups[i]) \in Clears({x})
    <3> DEFINE p == ResetNode(groups[i])
               Z == {"file"} \X NodeFolder(groups[i])
    <3>1. p \in Clears(Z)
      BY ResetNodeClears
    <3> HIDE DEF p, Z
    <3>2. p \in Clears({x})
      BY <2>3, <3>1, ClearsLess DEF Z
    <3> QED
      BY <3>2 DEF p
  <2>5. seqs[i] = ResetNode(groups[i])
    OBVIOUS
  <2> QED
    BY <1>4, <2>4, <2>5
<1>6. {"file"} \X {f \in Folders : f[1] \in Present(tree.data) /\ f[2] = Node} \subseteq (X \cup {}) \cup Y
  BY DEF NodeFolder
<1> HIDE DEF seqs, X, Y, list
<1>7. FlattenSeq(seqs) \in Clears(Y)
  BY <1>4, <1>5, ClearsAlong
<1>8. ResetNode(Public) \in Clears(X)
  BY ResetNodeClears DEF X
<1>9. ResetNode(Public) \o list \in Clears(X \cup {})
  BY <1>3, <1>8, ClearsBoth
<1>10. (ResetNode(Public) \o list) \o FlattenSeq(seqs) \in Clears((X \cup {}) \cup Y)
  BY <1>7, <1>9, ClearsBoth
<1> QED
  BY <1>6, <1>10, ClearsLess DEF ResetNonUserShared, ForAll, seqs, groups, list

LEMMA ResetUserSharedClears ==
  ASSUME NEW r, NEW type, NEW u, NEW s
  PROVE  ResetUserShared(r, type, u, s)
           \in Clears(UNION {UserThings(r, a, u, s) \cup KeyThings(r, a, type, u, s) :
                               a \in Present(tree.data)})
<1> DEFINE groups == GroupsOf(tree.data)
           Plan(a) == ResetUser(a, r, u, s)
           Of(a) == UserThings(r, a, u, s)
           seqs == [i \in 1..Len(groups) |-> Plan(groups[i])]
           X == Of(Public)
           Y == UNION {Of(a) : a \in Present(tree.data) \ {Public}}
           K == UNION {KeyThings(r, a, type, u, s) : a \in Present(tree.data)}
           All == UNION {UserThings(r, a, u, s) \cup KeyThings(r, a, type, u, s) :
                               a \in Present(tree.data)}
           list == <<ListFolders("abort", "group_files")>>
           keys == ResetSharedKeys(r, type, u, s)
<1>1. groups \in Seq(Groups)
  BY GroupsOfType
<1>2. \A a \in Present(tree.data) \ {Public} : \E i \in 1..Len(groups) : groups[i] = a
  BY GroupsOfHas DEF Present, Shared
<1>3. list \in Clears({})
  <2>1. "group_files" \in Labels
    BY DEF Labels
  <2> QED
    BY <2>1, ListsClear
<1>4. keys \in Clears(K)
  BY ResetSharedKeysClear
<1>5. \A a \in Shared : Plan(a) \in Clears(Of(a))
  BY ResetUserClears DEF Area
<1>6. Public \in Shared /\ Groups \subseteq Shared
  BY DEF Shared
<1>7. All \subseteq ((X \cup {}) \cup Y) \cup K
  OBVIOUS
<1> HIDE DEF groups, list, keys, K, Plan, Of, All
<1>8. \A i \in 1..Len(groups) : Plan(groups[i]) \in Clears(Of(groups[i]))
  BY <1>1, <1>5, <1>6, ElementType
<1>9. seqs \in Seq(Seq(ResetCalls)) /\ Len(seqs) = Len(groups)
  <2>1. \A i \in 1..Len(groups) : Plan(groups[i]) \in Seq(ResetCalls)
    BY <1>8 DEF Clears
  <2>2. Len(groups) \in Nat
    BY <1>1
  <2> QED
    BY <2>1, <2>2
<1>10. ASSUME NEW x \in Y PROVE \E i \in 1..Len(seqs) : seqs[i] \in Clears({x})
  <2>1. PICK a \in Present(tree.data) \ {Public} : x \in Of(a)
    OBVIOUS
  <2>2. PICK i \in 1..Len(groups) : groups[i] = a
    BY <1>2, <2>1
  <2>3. Plan(groups[i]) \in Clears(Of(groups[i])) /\ {x} \subseteq Of(groups[i])
    BY <1>8, <2>1, <2>2
  <2>4. Plan(groups[i]) \in Clears({x})
    BY <2>3, ClearsLess
  <2>5. seqs[i] = Plan(groups[i])
    OBVIOUS
  <2> QED
    BY <1>9, <2>4, <2>5
<1> HIDE DEF seqs, Y
<1>11. FlattenSeq(seqs) \in Clears(Y)
  BY <1>9, <1>10, ClearsAlong
<1>12. Plan(Public) \in Clears(X)
  BY <1>5, <1>6
<1> HIDE DEF X
<1>13. Plan(Public) \o list \in Clears(X \cup {})
  BY <1>3, <1>12, ClearsBoth
<1>14. (Plan(Public) \o list) \o FlattenSeq(seqs) \in Clears((X \cup {}) \cup Y)
  BY <1>11, <1>13, ClearsBoth
<1>15. ((Plan(Public) \o list) \o FlattenSeq(seqs)) \o keys \in Clears(((X \cup {}) \cup Y) \cup K)
  BY <1>4, <1>14, ClearsBoth
<1>16. ((Plan(Public) \o list) \o FlattenSeq(seqs)) \o keys \in Clears(All)
  BY <1>7, <1>15, ClearsLess
<1> QED
  BY <1>16 DEF ResetUserShared, ForAll, seqs, groups, list, keys, Plan, All

\* What a request selects.
Selection(r, t) ==
  ({"file"} \X {f \in Folders : SelectsFile(r, f)})
    \cup ({"key"} \X {k \in Keys : SelectsKey(r, k)})
    \cup ({"folder", "db"} \X
            {a \in Area : Factory(r) /\ AreaExists(t, a) /\ (r.type = "all" \/ a = r.app)})

AreaOf(x) == IF x[1] \in {"file", "key"} THEN x[2][1] ELSE x[2]

\* What is not gone is in an area that exists.
LEMMA WhereThingsAre ==
  ASSUME NEW r, NEW t, KeysInDbs(t), NEW x \in Selection(r, t), NEW defaults,
         ~Gone(x, t, defaults)
  PROVE  AreaOf(x) \in Area /\ AreaExists(t, AreaOf(x))
<1>1. CASE x \in {"file"} \X {f \in Folders : SelectsFile(r, f)}
  <2>1. PICK f \in Folders : x = <<"file", f>>
    BY <1>1
  <2>2. f[1] \in Area
    BY DataAssumption
  <2>3. t.file[f] # Absent
    BY <2>1 DEF Gone
  <2> QED
    BY <2>1, <2>2, <2>3 DEF AreaOf, AreaExists
<1>2. CASE x \in {"key"} \X {k \in Keys : SelectsKey(r, k)}
  <2>1. PICK k \in Keys : x = <<"key", k>>
    BY <1>2
  <2>2. k[1] \in Area
    BY DataAssumption
  <2>3. t.key[k] # Absent
    BY <2>1 DEF Gone
  <2>4. <<k[1], k[3]>> \in t.db
    BY <2>3 DEF KeysInDbs
  <2> QED
    BY <2>1, <2>2, <2>4 DEF AreaOf, AreaExists
<1>3. CASE x \in {"folder", "db"} \X
            {a \in Area : Factory(r) /\ AreaExists(t, a) /\ (r.type = "all" \/ a = r.app)}
  BY <1>3 DEF AreaOf
<1> QED
  BY <1>1, <1>2, <1>3 DEF Selection

LEMMA SelectionByArea ==
  ASSUME NEW r, NEW t, NEW x \in Selection(r, t)
  PROVE  x \in AreaThings(r, AreaOf(x))
<1>1. CASE x \in {"file"} \X {f \in Folders : SelectsFile(r, f)}
  BY <1>1 DEF AreaOf, AreaThings
<1>2. CASE x \in {"key"} \X {k \in Keys : SelectsKey(r, k)}
  BY <1>2 DEF AreaOf, AreaThings
<1>3. CASE x \in {"folder", "db"} \X
            {a \in Area : Factory(r) /\ AreaExists(t, a) /\ (r.type = "all" \/ a = r.app)}
  BY <1>3 DEF AreaOf, AreaThings
<1> QED
  BY <1>1, <1>2, <1>3 DEF Selection

\* Of a user's data, files and keys.
LEMMA UserSelection ==
  ASSUME NEW r \in Requests, r.op = "restore", r.type = "user", ~Factory(r),
         NEW t, NEW x \in Selection(r, t)
  PROVE  /\ r.app # "" => AreaOf(x) = r.app
         /\ x \in UserThings(r, AreaOf(x), r.user, r.seat)
                    \cup KeyThings(r, AreaOf(x), "user", r.user, r.seat)
<1>1. r.user = AllUsers => r.seat = AllSeats
  BY DEF Requests
<1>2. CASE x \in {"file"} \X {f \in Folders : SelectsFile(r, f)}
  <2>1. PICK f \in Folders : x = <<"file", f>> /\ SelectsFile(r, f)
    BY <1>2
  <2>2. Owns(r, f[2]) /\ (r.app # "" => f[1] = r.app)
    BY <2>1 DEF SelectsFile
  <2>3. f[2] # Node /\ OwnedBy(f[2], r.user, r.seat)
    <3>1. f[2] = <<f[2][1], f[2][2]>>
      BY DataAssumption
    <3> QED
      BY <1>1, <2>2, <3>1 DEF Owns, OwnedBy
  <2>4. f \in UserFolder(f[1], r.user, r.seat)
    BY <2>3 DEF UserFolder
  <2> QED
    BY <2>1, <2>2, <2>4 DEF AreaOf, UserThings
<1>3. CASE x \in {"key"} \X {k \in Keys : SelectsKey(r, k)}
  <2>1. PICK k \in Keys : x = <<"key", k>> /\ SelectsKey(r, k)
    BY <1>3
  <2>2. Owns(r, k[2]) /\ (r.app # "" => k[1] = r.app)
    BY <2>1 DEF SelectsKey
  <2>3. Filter("user", r.user, r.seat, k[2])
    BY <2>2 DEF Owns, Filter
  <2> QED
    BY <2>1, <2>2, <2>3 DEF AreaOf, KeyThings
<1> QED
  BY <1>2, <1>3 DEF Selection

\* What a request selects and is there.
ThereFor(r, t, defaults) == {x \in Selection(r, t) : ~Gone(x, t, defaults)}

LEMMA ResetUserDataClears ==
  ASSUME NEW r \in Requests, r.op = "restore", r.type = "user", ~Factory(r),
         KeysInDbs(tree.data)
  PROVE  ResetUserData(r) \in Clears(ThereFor(r, tree.data, conf))
<1> DEFINE apps == AppsOf(tree.data)
           Plan(a) == ResetUser(a, r, r.user, r.seat)
                        \o ResetLocalKeys(a, r, "user", r.user, r.seat)
           Of(a) == UserThings(r, a, r.user, r.seat)
                        \cup KeyThings(r, a, "user", r.user, r.seat)
           seqs == [i \in 1..Len(apps) |-> Plan(apps[i])]
           All == ThereFor(r, tree.data, conf)
           Y == UNION {Of(a) : a \in {b \in Apps : AreaExists(tree.data, b)}}
           Z == UNION {Of(a) : a \in Present(tree.data)}
           list == <<ListFolders("abort", "user_local")>>
           shared == ResetUserShared(r, "user", r.user, r.seat)
<1>1. ASSUME NEW a \in Area PROVE Plan(a) \in Clears(Of(a))
  <2> DEFINE p == ResetUser(a, r, r.user, r.seat)
             q == ResetLocalKeys(a, r, "user", r.user, r.seat)
             U == UserThings(r, a, r.user, r.seat)
             K == KeyThings(r, a, "user", r.user, r.seat)
  <2>1. p \in Clears(U) /\ q \in Clears(K)
    BY ResetUserClears, ResetLocalKeysClear
  <2> HIDE DEF p, q, U, K
  <2>2. p \o q \in Clears(U \cup K)
    BY <2>1, ClearsBoth
  <2> QED
    BY <2>2 DEF p, q, U, K
<1>2. \A x \in All : /\ AreaOf(x) \in Area /\ AreaExists(tree.data, AreaOf(x))
                     /\ r.app # "" => AreaOf(x) = r.app
                     /\ x \in Of(AreaOf(x))
  BY WhereThingsAre, UserSelection DEF ThereFor
<1>3. CASE r.app # ""
  <2>1. r.app \in Area
    BY <1>3 DEF Requests, Area
  <2>2. All \subseteq Of(r.app)
    BY <1>2, <1>3
  <2>3. Plan(r.app) \in Clears(Of(r.app))
    BY <1>1, <2>1
  <2> HIDE DEF Plan, Of, All
  <2>4. Plan(r.app) \in Clears(All)
    BY <2>2, <2>3, ClearsLess
  <2> QED
    BY <1>3, <2>4 DEF ResetUserData, Plan, All
<1>4. CASE r.app = ""
  <2>1. apps \in Seq(Apps) /\ Apps \subseteq Area
    BY AppsOfType DEF Area
  <2>2. \A a \in Apps : AreaExists(tree.data, a) => \E i \in 1..Len(apps) : apps[i] = a
    BY AppsOfHas
  <2>3. list \in Clears({})
    <3>1. "user_local" \in Labels
      BY DEF Labels
    <3> QED
      BY <3>1, ListsClear
  <2>4. shared \in Clears(Z)
    BY ResetUserSharedClears
  <2>5. All \subseteq ({} \cup Y) \cup Z
    <3> SUFFICES ASSUME NEW x \in All PROVE x \in Y \cup Z
      OBVIOUS
    <3>1. AreaOf(x) \in Apps \cup Present(tree.data)
      BY <1>2 DEF Area, Present
    <3> QED
      BY <1>2, <3>1
  <2> HIDE DEF apps, list, shared, Plan, Of, All, Z
  <2>6. \A i \in 1..Len(apps) : Plan(apps[i]) \in Clears(Of(apps[i]))
    BY <1>1, <2>1, ElementType
  <2>7. seqs \in Seq(Seq(ResetCalls)) /\ Len(seqs) = Len(apps)
    <3>1. \A i \in 1..Len(apps) : Plan(apps[i]) \in Seq(ResetCalls)
      BY <2>6 DEF Clears
    <3>2. Len(apps) \in Nat
      BY <2>1
    <3> QED
      BY <3>1, <3>2
  <2>8. ASSUME NEW x \in Y PROVE \E i \in 1..Len(seqs) : seqs[i] \in Clears({x})
    <3>1. PICK a \in Apps : AreaExists(tree.data, a) /\ x \in Of(a)
      OBVIOUS
    <3>2. PICK i \in 1..Len(apps) : apps[i] = a
      BY <2>2, <3>1
    <3>3. Plan(apps[i]) \in Clears(Of(apps[i])) /\ {x} \subseteq Of(apps[i])
      BY <2>6, <3>1, <3>2
    <3>4. Plan(apps[i]) \in Clears({x})
      BY <3>3, ClearsLess
    <3>5. seqs[i] = Plan(apps[i])
      OBVIOUS
    <3> QED
      BY <2>7, <3>4, <3>5
  <2> HIDE DEF seqs, Y
  <2>9. FlattenSeq(seqs) \in Clears(Y)
    BY <2>7, <2>8, ClearsAlong
  <2>10. list \o FlattenSeq(seqs) \in Clears({} \cup Y)
    BY <2>3, <2>9, ClearsBoth
  <2>11. (list \o FlattenSeq(seqs)) \o shared \in Clears(({} \cup Y) \cup Z)
    BY <2>4, <2>10, ClearsBoth
  <2>12. (list \o FlattenSeq(seqs)) \o shared \in Clears(All)
    BY <2>5, <2>11, ClearsLess
  <2> QED
    BY <1>4, <2>12 DEF ResetUserData, ForAll, seqs, apps, list, shared, Plan, All
<1> QED
  BY <1>3, <1>4

LEMMA ResetAllDataClears ==
  ASSUME NEW r, KeysInDbs(tree.data), AppsOf(tree.data) # <<>>
  PROVE  ResetAllData(r) \in Clears(ThereFor(r, tree.data, conf))
<1> DEFINE apps == AppsOf(tree.data)
           Plan(a) == ResetApplication(a, r)
           Of(a) == AreaThings(r, a)
           seqs == [i \in 1..Len(apps) |-> Plan(apps[i])]
           All == ThereFor(r, tree.data, conf)
           Y == UNION {Of(a) : a \in {b \in Apps : AreaExists(tree.data, b)}}
           N == {"file"} \X {f \in Folders : f[1] \in Present(tree.data) /\ f[2] = Node}
           Z == UNION {UserThings(r, a, AllUsers, AllSeats)
                          \cup KeyThings(r, a, "all", AllUsers, AllSeats) :
                               a \in Present(tree.data)}
           list == <<ListFolders("abort", "all_data")>>
           node == ResetNonUserShared
           shared == ResetUserShared(r, "all", AllUsers, AllSeats)
<1>1. \A a \in Area : Plan(a) \in Clears(Of(a))
  BY ResetApplicationClears
<1>2. \A x \in All : /\ AreaOf(x) \in Area /\ AreaExists(tree.data, AreaOf(x))
                     /\ x \in Of(AreaOf(x))
  BY WhereThingsAre, SelectionByArea DEF ThereFor
<1>3. apps \in Seq(Apps) /\ Apps \subseteq Area
  BY AppsOfType DEF Area
<1>4. \A a \in Apps : AreaExists(tree.data, a) => \E i \in 1..Len(apps) : apps[i] = a
  BY AppsOfHas
<1>5. list \in Clears({})
  <2>1. "all_data" \in Labels
    BY DEF Labels
  <2> QED
    BY <2>1, ListsClear
<1>6. node \in Clears(N) /\ shared \in Clears(Z)
  BY ResetNonUserSharedClears, ResetUserSharedClears
<1>7. All \subseteq (({} \cup Y) \cup N) \cup Z
  <2> SUFFICES ASSUME NEW x \in All PROVE x \in (Y \cup N) \cup Z
    OBVIOUS
  <2>1. CASE AreaOf(x) \in Apps
    BY <1>2, <2>1
  <2>2. CASE AreaOf(x) \notin Apps
    <3> DEFINE a == AreaOf(x)
    <3>1. a \in Present(tree.data) /\ x \in AreaThings(r, a)
      BY <1>2, <2>2 DEF Area, Present
    <3> HIDE DEF a
    <3>2. CASE x \in {"file"} \X {f \in Folders : f[1] = a}
      <4>1. PICK f \in Folders : x = <<"file", f>> /\ f[1] = a
        BY <3>2
      <4>2. f[2] = Node \/ f \in UserFolder(a, AllUsers, AllSeats)
        BY <4>1 DEF UserFolder, OwnedBy
      <4>3. x \in N \/ x \in UserThings(r, a, AllUsers, AllSeats)
        BY <3>1, <4>1, <4>2 DEF UserThings
      <4> QED
        BY <3>1, <4>3
    <3>3. CASE x \in {"key"} \X {k \in Keys : k[1] = a}
      <4>1. \A o : Filter("all", AllUsers, AllSeats, o)
        BY DEF Filter
      <4>2. x \in KeyThings(r, a, "all", AllUsers, AllSeats)
        BY <3>3, <4>1 DEF KeyThings
      <4> QED
        BY <3>1, <4>2
    <3>4. CASE x \in {"folder", "db"} \X {b \in {a} : Factory(r)}
      <4>1. x \in UserThings(r, a, AllUsers, AllSeats)
                    \cup KeyThings(r, a, "all", AllUsers, AllSeats)
        BY <3>4 DEF UserThings, KeyThings
      <4> QED
        BY <3>1, <4>1
    <3> QED
      BY <3>1, <3>2, <3>3, <3>4 DEF AreaThings
  <2> QED
    BY <2>1, <2>2
<1> HIDE DEF apps, list, node, shared, Plan, Of, All, N, Z
<1>8. \A i \in 1..Len(apps) : Plan(apps[i]) \in Clears(Of(apps[i]))
  BY <1>1, <1>3, ElementType
<1>9. seqs \in Seq(Seq(ResetCalls)) /\ Len(seqs) = Len(apps)
  <2>1. \A i \in 1..Len(apps) : Plan(apps[i]) \in Seq(ResetCalls)
    BY <1>8 DEF Clears
  <2>2. Len(apps) \in Nat
    BY <1>3
  <2> QED
    BY <2>1, <2>2
<1>10. ASSUME NEW x \in Y PROVE \E i \in 1..Len(seqs) : seqs[i] \in Clears({x})
  <2>1. PICK a \in Apps : AreaExists(tree.data, a) /\ x \in Of(a)
    OBVIOUS
  <2>2. PICK i \in 1..Len(apps) : apps[i] = a
    BY <1>4, <2>1
  <2>3. Plan(apps[i]) \in Clears(Of(apps[i])) /\ {x} \subseteq Of(apps[i])
    BY <1>8, <2>1, <2>2
  <2>4. Plan(apps[i]) \in Clears({x})
    BY <2>3, ClearsLess
  <2>5. seqs[i] = Plan(apps[i])
    OBVIOUS
  <2> QED
    BY <1>9, <2>4, <2>5
<1> HIDE DEF seqs, Y
<1>11. FlattenSeq(seqs) \in Clears(Y)
  BY <1>9, <1>10, ClearsAlong
<1>12. list \o FlattenSeq(seqs) \in Clears({} \cup Y)
  BY <1>5, <1>11, ClearsBoth
<1>13. (list \o FlattenSeq(seqs)) \o node \in Clears(({} \cup Y) \cup N)
  BY <1>6, <1>12, ClearsBoth
<1>14. ((list \o FlattenSeq(seqs)) \o node) \o shared \in Clears((({} \cup Y) \cup N) \cup Z)
  BY <1>6, <1>13, ClearsBoth
<1>15. ((list \o FlattenSeq(seqs)) \o node) \o shared \in Clears(All)
  BY <1>7, <1>14, ClearsLess
<1> QED
  BY <1>15 DEF ResetAllData, ForAll, seqs, apps, list, node, shared, Plan, All

LEMMA ResetPlanClears ==
  ASSUME NEW r \in Requests, r.op = "restore", ~ResetRefused(r),
         KeysInDbs(tree.data), AppsOf(tree.data) # <<>>
  PROVE  ResetPlan(r) \in Clears(ThereFor(r, tree.data, conf))
<1>1. CASE r.type = "all"
  BY <1>1, ResetAllDataClears DEF ResetPlan
<1>2. CASE r.type = "user"
  <2>1. ~Factory(r)
    BY <1>2 DEF ResetRefused
  <2> QED
    BY <1>2, <2>1, ResetUserDataClears DEF ResetPlan
<1>3. CASE r.type = "application"
  <2> DEFINE p == ResetApplication(r.app, r)
             X == AreaThings(r, r.app)
             Y == ThereFor(r, tree.data, conf)
  <2>1. r.app \in Area
    BY <1>3 DEF Requests, Area
  <2>2. p \in Clears(X)
    BY <2>1, ResetApplicationClears
  <2>3. Y \subseteq X
    <3> SUFFICES ASSUME NEW x \in Selection(r, tree.data) PROVE x \in X
      BY DEF ThereFor
    <3>1. AreaOf(x) = r.app
      BY <1>3 DEF Selection, AreaOf, SelectsFile, SelectsKey
    <3> QED
      BY <3>1, SelectionByArea
  <2> HIDE DEF p, X, Y
  <2>4. p \in Clears(Y)
    BY <2>2, <2>3, ClearsLess
  <2> QED
    BY <1>3, <2>4 DEF ResetPlan, p, Y
<1> QED
  BY <1>1, <1>2, <1>3 DEF Requests

-----------------------------------------------------------------------------
(* A key that is there is in a database that is there, at every step.       *)

\* Keys and databases stay what they are.
LEMMA SameKeys ==
  ASSUME NEW old, NEW new, KeysInDbs(old), new.key = old.key, new.db = old.db
  PROVE  KeysInDbs(new)
BY DEF KeysInDbs

LEMMA FilesOnly ==
  ASSUME NEW t \in Tree, NEW file
  PROVE  [t EXCEPT !.file = file].key = t.key /\ [t EXCEPT !.file = file].db = t.db
BY DEF Tree

LEMMA FoldersLeaveKeys ==
  ASSUME NEW src \in Tree, NEW dst \in Tree, NEW S, KeysInDbs(dst)
  PROVE  KeysInDbs(CopyFolder(src, dst, S)) /\ KeysInDbs(DeleteFolder(dst, S))
<1>1. CopyFolder(src, dst, S).key = dst.key /\ CopyFolder(src, dst, S).db = dst.db
  BY FilesOnly DEF CopyFolder
<1>2. DeleteFolder(dst, S).key = dst.key /\ DeleteFolder(dst, S).db = dst.db
  BY FilesOnly DEF DeleteFolder
<1> QED
  BY <1>1, <1>2, SameKeys

LEMMA CopiedKeysInDbs ==
  ASSUME NEW src \in Tree, NEW dst \in Tree, NEW d,
         NEW S \in SUBSET {k \in Keys : <<k[1], k[3]>> = d}, KeysInDbs(dst)
  PROVE  KeysInDbs(CopyKeys(src, dst, d, S))
<1> DEFINE key == [k \in Keys |-> IF k \in S /\ src.key[k] # Absent THEN src.key[k]
                                    ELSE dst.key[k]]
           db == IF \E k \in Keys : <<k[1], k[3]>> = d /\ src.key[k] # Absent
                   THEN dst.db \cup {d} ELSE dst.db
<1>1. ASSUME NEW k \in Keys, key[k] # Absent PROVE <<k[1], k[3]>> \in db
  <2>1. CASE k \in S /\ src.key[k] # Absent
    BY <2>1
  <2>2. CASE ~ (k \in S /\ src.key[k] # Absent)
    BY <1>1, <2>2 DEF KeysInDbs
  <2> QED
    BY <2>1, <2>2
<1>2. CopyKeys(src, dst, d, S).key = key /\ CopyKeys(src, dst, d, S).db = db
  BY DEF CopyKeys, Tree
<1> HIDE DEF key, db
<1> QED
  BY <1>1, <1>2 DEF KeysInDbs

LEMMA KeysAfterDelete ==
  ASSUME NEW t \in Tree, NEW S
  PROVE  /\ DeleteKeys(t, S).key = [k \in Keys |-> IF k \in S THEN Absent ELSE t.key[k]]
         /\ DeleteKeys(t, S).db = t.db /\ DeleteKeys(t, S).file = t.file
BY DEF DeleteKeys, Tree

LEMMA DeletedKeysInDbs ==
  ASSUME NEW t \in Tree, NEW S, KeysInDbs(t)
  PROVE  KeysInDbs(DeleteKeys(t, S))
<1> DEFINE u == DeleteKeys(t, S)
<1>1. u.key = [k \in Keys |-> IF k \in S THEN Absent ELSE t.key[k]] /\ u.db = t.db
  BY KeysAfterDelete
<1> HIDE DEF u
<1>2. KeysInDbs(u)
  BY <1>1 DEF KeysInDbs
<1> QED
  BY <1>2 DEF u

LEMMA OverlaidKeysInDbs ==
  ASSUME NEW src \in Tree, NEW dst \in Tree, NEW areas, KeysInDbs(dst)
  PROVE  KeysInDbs(Overlay(src, dst, areas))
<1> DEFINE in == CopyFolder(src, dst, {f \in Folders : f[1] \in areas})
           key == [k \in Keys |-> IF k[1] \in areas /\ <<k[1], k[3]>> \in src.db
                                    THEN src.key[k] ELSE in.key[k]]
           db == in.db \cup {d \in src.db : d[1] \in areas}
<1>1. in \in Tree /\ KeysInDbs(in)
  BY CopyFolderDiffers, FoldersLeaveKeys DEF Differs
<1> HIDE DEF in
<1>2. ASSUME NEW k \in Keys, key[k] # Absent PROVE <<k[1], k[3]>> \in db
  BY <1>1, <1>2 DEF KeysInDbs
<1> HIDE DEF key, db
<1>3. Overlay(src, dst, areas).key = key /\ Overlay(src, dst, areas).db = db
  BY <1>1 DEF Overlay, Tree, in, key, db
<1> QED
  BY <1>2, <1>3 DEF KeysInDbs

\* A tree is replaced.
LEMMA SetKeepsDbs ==
  ASSUME tree \in Trees, NEW n \in {"data", "coll"}, KeysInDbs(tree[n]),
         NEW to \in {"data", "coll"}, NEW t, Set(to, t), to = n => KeysInDbs(t)
  PROVE  KeysInDbs(tree'[n])
BY DEF Set, Trees

LEMMA CallKeepsDbs ==
  ASSUME TypeInv, RequestInv, NEW n \in {"data", "coll"}, KeysInDbs(tree[n]),
         KeysInDbs(tree.data), CallStep
  PROVE  KeysInDbs(tree'[n])
<1>1. tree \in Trees /\ \A m \in {"data", "coll", "ext"} : tree[m] \in Tree
  BY TreeOf DEF TypeInv
<1>2. todo \in Seq(Fits(req))
  BY DEF RequestInv
<1>3. CASE UNCHANGED tree
  BY <1>3
<1>4. CASE CopyStep
  <2>1. Calling("copy")
    BY <1>4 DEF CopyStep
  <2>2. Now.from \in {"data", "coll", "ext"} /\ Now.to \in {"data", "coll"}
    BY <1>2, <2>1, NowFits
  <2>3. PICK S : Set(Now.to, CopyFolder(tree[Now.from], tree[Now.to], S))
    BY <1>4 DEF CopyStep
  <2>4. Now.to = n => KeysInDbs(CopyFolder(tree[Now.from], tree[Now.to], S))
    BY <1>1, <2>2, FoldersLeaveKeys
  <2> QED
    BY <1>1, <2>2, <2>3, <2>4, SetKeepsDbs
<1>5. CASE ClearStep
  <2>1. Calling("clear")
    BY <1>5 DEF ClearStep
  <2>2. Now.to \in {"data", "coll"}
    BY <1>2, <2>1, NowFits
  <2>3. CASE \E S : Set(Now.to, DeleteFolder(tree[Now.to], S))
    <3>1. PICK S : Set(Now.to, DeleteFolder(tree[Now.to], S))
      BY <2>3
    <3>2. Now.to = n => KeysInDbs(DeleteFolder(tree[Now.to], S))
      BY <1>1, <2>2, FoldersLeaveKeys
    <3> QED
      BY <1>1, <2>2, <3>1, <3>2, SetKeepsDbs
  <2> QED
    BY <1>3, <1>5, <2>3 DEF ClearStep
<1>6. CASE CopyKeysStep
  <2>1. Calling("copyKeys")
    BY <1>6 DEF CopyKeysStep
  <2>2. /\ Now.from \in {"data", "coll", "ext"} /\ Now.to \in {"data", "coll"}
        /\ Now.do = "copyKeys" /\ Typed(Now)
    BY <1>2, <2>1, NowFits
  <2>3. Now.set \in SUBSET {k \in Keys : <<k[1], k[3]>> = Now.db}
    BY <2>2 DEF Typed, OnKeys
  <2>4. CASE \E S \in SUBSET Now.set : Set(Now.to, CopyKeys(tree[Now.from], tree[Now.to], Now.db, S))
    <3>1. PICK S \in SUBSET Now.set :
            Set(Now.to, CopyKeys(tree[Now.from], tree[Now.to], Now.db, S))
      BY <2>4
    <3>2. S \in SUBSET {k \in Keys : <<k[1], k[3]>> = Now.db}
      BY <2>3
    <3>3. Now.to = n => KeysInDbs(CopyKeys(tree[Now.from], tree[Now.to], Now.db, S))
      BY <1>1, <2>2, <3>2, CopiedKeysInDbs
    <3> QED
      BY <1>1, <2>2, <3>1, <3>3, SetKeepsDbs
  <2>5. Now.set \in SUBSET Now.set /\ \A k : Now.set \ {k} \in SUBSET Now.set
    OBVIOUS
  <2>6. \A S \in SUBSET {k \in Now.set : tree[Now.from].key[k] # Absent} : S \in SUBSET Now.set
    OBVIOUS
  <2> QED
    BY <1>3, <1>6, <2>4, <2>5, <2>6 DEF CopyKeysStep
<1>7. CASE ClearKeysStep
  <2>1. Calling("clearKeys")
    BY <1>7 DEF ClearKeysStep
  <2>2. Now.to \in {"data", "coll"}
    BY <1>2, <2>1, NowFits
  <2>3. CASE \E S : Set(Now.to, DeleteKeys(tree[Now.to], S))
    <3>1. PICK S : Set(Now.to, DeleteKeys(tree[Now.to], S))
      BY <2>3
    <3>2. Now.to = n => KeysInDbs(DeleteKeys(tree[Now.to], S))
      BY <1>1, <2>2, DeletedKeysInDbs
    <3> QED
      BY <1>1, <2>2, <3>1, <3>2, SetKeepsDbs
  <2> QED
    BY <1>3, <1>7, <2>3 DEF ClearKeysStep
<1>8. CASE CopyRctStep \/ ExportLinksStep
  <2>1. ASSUME NEW t, t.key = tree.coll.key, t.db = tree.coll.db, Set("coll", t)
        PROVE  KeysInDbs(tree'[n])
    <3>1. n = "coll" => KeysInDbs(t)
      BY <2>1, SameKeys
    <3> QED
      BY <1>1, <2>1, <3>1, SetKeepsDbs
  <2>2. \A r : LET t == [tree.coll EXCEPT !.rct[Now.area] = r] IN
                t.key = tree.coll.key /\ t.db = tree.coll.db
    BY <1>1 DEF Tree
  <2>3. \A r : LET t == [tree.coll EXCEPT !.info[Now.area] = r] IN
                t.key = tree.coll.key /\ t.db = tree.coll.db
    BY <1>1 DEF Tree
  <2>4. CASE CopyRctStep
    BY <1>3, <2>1, <2>2, <2>4 DEF CopyRctStep
  <2>5. CASE ExportLinksStep
    <3>1. CASE UNCHANGED tree
      BY <1>3, <3>1
    <3>2. CASE Set("coll", tree.coll)
      BY <2>1, <3>2
    <3>3. CASE Set("coll", [tree.coll EXCEPT !.info[Now.area] = tree.data.link[Now.area]])
      BY <2>1, <2>3, <3>3
    <3> QED
      BY <2>5, <3>1, <3>2, <3>3 DEF ExportLinksStep
  <2> QED
    BY <1>8, <2>4, <2>5
<1>12. CASE CopyAllStep
  <2>1. PICK S : Set("coll", Overlay(tree.data, tree.coll, S))
    BY <1>12 DEF CopyAllStep
  <2>2. n = "coll" => KeysInDbs(Overlay(tree.data, tree.coll, S))
    BY <1>1, OverlaidKeysInDbs
  <2> QED
    BY <1>1, <2>1, <2>2, SetKeepsDbs
<1>9. CASE ImportLinksStep
  <2>1. CASE Set("data", [tree.data EXCEPT !.link[Now.area] = @ \cup tree.ext.info[Now.area]])
    <3> DEFINE t == [tree.data EXCEPT !.link[Now.area] = @ \cup tree.ext.info[Now.area]]
    <3>1. t.key = tree.data.key /\ t.db = tree.data.db
      BY <1>1 DEF Tree
    <3> HIDE DEF t
    <3>2. KeysInDbs(t)
      BY <3>1, SameKeys
    <3>3. Set("data", t)
      BY <2>1 DEF t
    <3> QED
      BY <1>1, <3>2, <3>3, SetKeepsDbs
  <2> QED
    BY <1>3, <1>9, <2>1 DEF ImportLinksStep
<1>10. CASE ClearSeatStep
  <2>1. Calling("clearSeat")
    BY <1>10 DEF ClearSeatStep
  <2>2. Now.to \in {"data", "coll"}
    BY <1>2, <2>1, NowFits
  <2>3. CASE \E file : Set(Now.to, [tree[Now.to] EXCEPT !.file = file])
    <3>1. PICK file : Set(Now.to, [tree[Now.to] EXCEPT !.file = file])
      BY <2>3
    <3>2. ASSUME Now.to = n PROVE KeysInDbs([tree[Now.to] EXCEPT !.file = file])
      <4> DEFINE u == [tree[Now.to] EXCEPT !.file = file]
      <4>1. u.key = tree[Now.to].key /\ u.db = tree[Now.to].db
        BY <1>1, <2>2, FilesOnly
      <4> HIDE DEF u
      <4>2. KeysInDbs(u)
        BY <3>2, <4>1, SameKeys
      <4> QED
        BY <4>2 DEF u
    <3> QED
      BY <1>1, <2>2, <3>1, <3>2, SetKeepsDbs
  <2> QED
    BY <1>3, <1>10, <2>3 DEF ClearSeatStep
<1>11. CASE \/ List \/ CheckRctStep \/ ClearDefaultStep \/ ListAreaStep \/ ReturnStep
            \/ TestSumStep
  BY <1>3, <1>11 DEF List, CheckRctStep, ClearDefaultStep, ListAreaStep, ReturnStep,
                     TestSumStep
<1> QED
  BY <1>4, <1>5, <1>6, <1>7, <1>8, <1>9, <1>10, <1>11, <1>12 DEF CallStep

\* What the clients and the installer do.
LEMMA ChangesKeepDbs ==
  ASSUME TypeInv, KeysInDbs(tree.data), WriteFile \/ WriteKey \/ Update \/ Uninstall
  PROVE  KeysInDbs(tree'.data)
<1>1. tree \in Trees /\ tree.data \in Tree
  BY DEF TypeInv, Trees
<1>2. ASSUME NEW t, KeysInDbs(t), Change(t) PROVE KeysInDbs(tree'.data)
  BY <1>1, <1>2, SetKeepsDbs DEF Change
<1>3. CASE WriteFile
  <2>1. PICK f \in Volatile.folders, v \in Versions : Change([tree.data EXCEPT !.file[f] = v])
    BY <1>3 DEF WriteFile
  <2> DEFINE t == [tree.data EXCEPT !.file[f] = v]
  <2>2. t.key = tree.data.key /\ t.db = tree.data.db
    BY <1>1 DEF Tree
  <2>3. Change(t)
    BY <2>1
  <2> HIDE DEF t
  <2> QED
    BY <1>2, <2>2, <2>3, SameKeys
<1>4. CASE WriteKey
  <2>1. PICK k \in Volatile.keys, v \in Versions \cup {Absent} :
          Change([tree.data EXCEPT !.key[k] = v, !.db = @ \cup {<<k[1], k[3]>>}])
    BY <1>4 DEF WriteKey
  <2> DEFINE t == [tree.data EXCEPT !.key[k] = v, !.db = @ \cup {<<k[1], k[3]>>}]
  <2>2. /\ t.key = [tree.data.key EXCEPT ![k] = v]
        /\ t.db = tree.data.db \cup {<<k[1], k[3]>>}
        /\ tree.data.key \in [Keys -> {Absent} \cup Versions]
    BY <1>1 DEF Tree
  <2>3. Change(t)
    BY <2>1
  <2> HIDE DEF t
  <2>4. KeysInDbs(t)
    <3> SUFFICES ASSUME NEW j \in Keys, t.key[j] # Absent PROVE <<j[1], j[3]>> \in t.db
      BY DEF KeysInDbs
    <3>1. CASE j = k
      BY <2>2, <3>1
    <3>2. CASE j # k
      <4>1. tree.data.key[j] # Absent
        BY <2>2, <3>2
      <4> QED
        BY <2>2, <4>1 DEF KeysInDbs
    <3> QED
      BY <3>1, <3>2
  <2> QED
    BY <1>2, <2>3, <2>4
<1>5. CASE Update
  <2>1. PICK a \in Volatile.areas : Change([tree.data EXCEPT !.rct[a] = @ + 1])
    BY <1>5 DEF Update
  <2> DEFINE t == [tree.data EXCEPT !.rct[a] = @ + 1]
  <2>2. t.key = tree.data.key /\ t.db = tree.data.db
    BY <1>1 DEF Tree
  <2>3. Change(t)
    BY <2>1
  <2> HIDE DEF t
  <2> QED
    BY <1>2, <2>2, <2>3, SameKeys
<1>6. CASE Uninstall
  <2>1. PICK a \in Volatile.areas \cap Apps :
          Change([file |-> [f \in Folders |-> IF f[1] = a THEN Absent ELSE tree.data.file[f]],
                  key |-> [k \in Keys |-> IF k[1] = a THEN Absent ELSE tree.data.key[k]],
                  db |-> {d \in tree.data.db : d[1] # a},
                  rct |-> [tree.data.rct EXCEPT ![a] = 0],
                  link |-> [tree.data.link EXCEPT ![a] = {}],
                  info |-> [tree.data.info EXCEPT ![a] = {}]])
    BY <1>6 DEF Uninstall
  <2> DEFINE t == [file |-> [f \in Folders |-> IF f[1] = a THEN Absent ELSE tree.data.file[f]],
                   key |-> [k \in Keys |-> IF k[1] = a THEN Absent ELSE tree.data.key[k]],
                   db |-> {d \in tree.data.db : d[1] # a},
                   rct |-> [tree.data.rct EXCEPT ![a] = 0],
                   link |-> [tree.data.link EXCEPT ![a] = {}],
                   info |-> [tree.data.info EXCEPT ![a] = {}]]
  <2>3. Change(t)
    BY <2>1
  <2>4. /\ t.key = [k \in Keys |-> IF k[1] = a THEN Absent ELSE tree.data.key[k]]
        /\ t.db = {d \in tree.data.db : d[1] # a}
    OBVIOUS
  <2> HIDE DEF t
  <2>2. KeysInDbs(t)
    <3> SUFFICES ASSUME NEW j \in Keys, t.key[j] # Absent PROVE <<j[1], j[3]>> \in t.db
      BY DEF KeysInDbs
    <3>1. j[1] # a /\ tree.data.key[j] # Absent
      BY <2>4
    <3> QED
      BY <2>4, <3>1 DEF KeysInDbs
  <2> QED
    BY <1>2, <2>2, <2>3
<1> QED
  BY <1>3, <1>4, <1>5, <1>6

\* What an operation begins with is what was there.
LEMMA BeginsKeep ==
  ASSUME TypeInv, Begins
  PROVE  tree'.data = tree.data /\ hist'.before = tree.data /\ hist'.lost = {}
<1>1. \A c : Remember(c) => hist'.before = tree.data /\ hist'.lost = {}
  BY DEF Remember, TypeInv, History
<1>2. CASE BeginBackup
  <2>1. PICK coll : Set("coll", coll) /\ Remember(coll)
    BY <1>2 DEF BeginBackup
  <2> QED
    BY <1>1, <2>1 DEF Set, TypeInv, Trees
<1>3. CASE Refuse \/ BeginRecovery \/ BeginReset \/ BeginDelete
  <2>1. tree' = tree /\ Remember(tree.coll)
    BY <1>3 DEF Refuse, BeginRecovery, BeginReset, BeginDelete
  <2> QED
    BY <1>1, <2>1
<1> QED
  BY <1>2, <1>3 DEF Begins

LEMMA NextKeepsDbs ==
  ASSUME TypeInv, RequestInv, KeysInDbs(tree.data), [Next]_vars
  PROVE  KeysInDbs(tree'.data)
<1>1. CASE UNCHANGED vars
  BY <1>1 DEF vars
<1>2. CASE Receive \/ RefuseInLibrary \/ Reply \/ Crash \/ Archive \/ Complete
  BY <1>2 DEF Receive, RefuseInLibrary, Reply, Crash, Archive, Complete
<1>3. CASE WriteFile \/ WriteKey \/ Update \/ Uninstall
  BY <1>3, ChangesKeepDbs
<1>4. CASE Begins
  BY <1>4, BeginsKeep
<1>5. CASE CallStep
  BY <1>5, CallKeepsDbs
<1>6. CASE Uncompress
  BY <1>6, UncompressKeeps
<1>7. CASE Cleanup
  BY <1>7, CleanupKeeps
<1> QED
  BY <1>1, <1>2, <1>3, <1>4, <1>5, <1>6, <1>7 DEF Next, Begins

LEMMA InitKeysInDbs == Init => KeysInDbs(tree.data)
<1> SUFFICES ASSUME Init PROVE KeysInDbs(tree.data)
  OBVIOUS
<1>1. PICK s \in Scenarios : tree = [data |-> s.data, coll |-> NoTree, ext |-> NoTree]
  BY DEF Init
<1> QED
  BY <1>1, ScenarioAssumption

-----------------------------------------------------------------------------
(* A restore to default. *)

LEMMA FailAborts ==
  ASSUME NEW S, Now.err = "abort", Fail(S)
  PROVE  phase' = "reply" /\ result' = "error"
BY DEF Fail

LEMMA DataSet ==
  ASSUME tree \in Trees, NEW t, Set("data", t)
  PROVE  tree'.data = t
BY DEF Set, Trees

LEMMA FilesAfterDelete ==
  ASSUME NEW t \in Tree, NEW S
  PROVE  /\ DeleteFolder(t, S).file = [f \in Folders |-> IF f \in S THEN Absent ELSE t.file[f]]
         /\ DeleteFolder(t, S).key = t.key
BY DEF DeleteFolder, Tree

\* A call that succeeds: what it is to delete is gone, and nothing comes back.
Proceeds(old, new, oldConf, newConf) ==
  \A x \in Things : Gone(x, old, oldConf) \/ Now \in Clearing(x) => Gone(x, new, newConf)

LEMMA ProceedsQuietly ==
  ASSUME NEW t, NEW defaults, Now.do \in {"list", "listNothing"}
  PROVE  Proceeds(t, t, defaults, defaults)
BY DEF Proceeds, Clearing

LEMMA ProceedsWithFiles ==
  ASSUME NEW old, NEW new, NEW defaults, Now.do = "clear", new.key = old.key,
         \A f \in Folders : new.file[f] = IF f \in Now.set THEN Absent ELSE old.file[f]
  PROVE  Proceeds(old, new, defaults, defaults)
<1> SUFFICES ASSUME NEW x \in Things, Gone(x, old, defaults) \/ Now \in Clearing(x)
             PROVE  Gone(x, new, defaults)
  BY DEF Proceeds
<1>1. CASE x \in {"file"} \X Folders
  <2>1. PICK f \in Folders : x[1] = "file" /\ x[2] = f
    BY <1>1
  <2>2. old.file[f] = Absent \/ f \in Now.set
    BY <2>1 DEF Gone, Clearing
  <2> QED
    BY <2>1, <2>2 DEF Gone
<1>2. CASE x \in ({"key"} \X Keys) \cup ({"folder", "db"} \X Area)
  <2>1. x[1] \in {"key", "folder", "db"}
    BY <1>2
  <2>2. Gone(x, old, defaults)
    BY <2>1 DEF Clearing
  <2> QED
    BY <2>1, <2>2 DEF Gone
<1> QED
  BY <1>1, <1>2 DEF Things

LEMMA ProceedsWithKeys ==
  ASSUME NEW old, NEW new, NEW defaults, Now.do = "clearKeys", new.file = old.file,
         \A k \in Keys : new.key[k] = IF k \in Now.set THEN Absent ELSE old.key[k]
  PROVE  Proceeds(old, new, defaults, defaults)
<1> SUFFICES ASSUME NEW x \in Things, Gone(x, old, defaults) \/ Now \in Clearing(x)
             PROVE  Gone(x, new, defaults)
  BY DEF Proceeds
<1>1. CASE x \in {"key"} \X Keys
  <2>1. PICK k \in Keys : x[1] = "key" /\ x[2] = k
    BY <1>1
  <2>2. old.key[k] = Absent \/ k \in Now.set
    BY <2>1 DEF Gone, Clearing
  <2> QED
    BY <2>1, <2>2 DEF Gone
<1>2. CASE x \in ({"file"} \X Folders) \cup ({"folder", "db"} \X Area)
  <2>1. x[1] \in {"file", "folder", "db"}
    BY <1>2
  <2>2. Gone(x, old, defaults)
    BY <2>1 DEF Clearing
  <2> QED
    BY <2>1, <2>2 DEF Gone
<1> QED
  BY <1>1, <1>2 DEF Things

LEMMA ProceedsWithDefaults ==
  ASSUME NEW t, NEW old, NEW new, Now.do \in {"clearConfFolder", "clearConfDb"},
         new.folder = IF Now.do = "clearConfFolder" THEN old.folder \ {Now.area} ELSE old.folder,
         new.db = IF Now.do = "clearConfFolder" THEN old.db ELSE old.db \ {Now.area}
  PROVE  Proceeds(t, t, old, new)
<1> SUFFICES ASSUME NEW x \in Things, Gone(x, t, old) \/ Now \in Clearing(x)
             PROVE  Gone(x, t, new)
  BY DEF Proceeds
<1>1. CASE x[1] \in {"file", "key"}
  <2>1. Gone(x, t, old)
    BY <1>1 DEF Clearing
  <2> QED
    BY <1>1, <2>1 DEF Gone
<1>2. CASE x[1] = "folder"
  <2>1. CASE Now.do = "clearConfFolder"
    <3>1. new.folder = old.folder \ {Now.area}
      BY <2>1
    <3>2. x[2] \notin old.folder \/ x[2] = Now.area
      BY <1>2 DEF Gone, Clearing
    <3>3. new[x[1]] = new.folder
      BY <1>2
    <3> QED
      BY <1>2, <3>1, <3>2, <3>3 DEF Gone
  <2>2. CASE Now.do = "clearConfDb"
    <3>1. new.folder = old.folder
      BY <2>2
    <3>2. x[2] \notin old.folder
      BY <1>2, <2>2 DEF Gone, Clearing
    <3>3. new[x[1]] = new.folder
      BY <1>2
    <3> QED
      BY <1>2, <3>1, <3>2, <3>3 DEF Gone
  <2> QED
    BY <2>1, <2>2
<1>3. CASE x[1] = "db"
  <2>1. CASE Now.do = "clearConfDb"
    <3>1. new.db = old.db \ {Now.area}
      BY <2>1
    <3>2. x[2] \notin old.db \/ x[2] = Now.area
      BY <1>3 DEF Gone, Clearing
    <3>3. new[x[1]] = new.db
      BY <1>3
    <3> QED
      BY <1>3, <3>1, <3>2, <3>3 DEF Gone
  <2>2. CASE Now.do = "clearConfFolder"
    <3>1. new.db = old.db
      BY <2>2
    <3>2. x[2] \notin old.db
      BY <1>3, <2>2 DEF Gone, Clearing
    <3>3. new[x[1]] = new.db
      BY <1>3
    <3> QED
      BY <1>3, <3>1, <3>2, <3>3 DEF Gone
  <2> QED
    BY <2>1, <2>2
<1> QED
  BY <1>1, <1>2, <1>3 DEF Things

\* A step of a restore to default fails and ends it, or does what it is to do.
ResetGoes ==
  \/ phase' = "reply" /\ result' = "error"
  \/ /\ todo' = Tail(todo) /\ hist' = hist /\ phase' = phase
     /\ Proceeds(tree.data, tree'.data, conf, conf')

LEMMA ResetStep ==
  ASSUME TypeInv, Now \in ResetCalls, CallStep
  PROVE  ResetGoes
<1>1. /\ Now.from = "data" /\ Now.to = "data" /\ Now.err = "abort"
      /\ Now.do \in {"list", "listNothing", "clear", "clearKeys", "clearConfFolder",
                     "clearConfDb"}
  BY DEF ResetCalls
<1>2. tree \in Trees /\ tree.data \in Tree /\ conf \in [folder : SUBSET Area, db : SUBSET Area]
  BY DEF TypeInv, Trees
<1>3. tree[Now.from] = tree.data /\ tree[Now.to] = tree.data
  BY <1>1
<1>4. \A bytes : Succeed(bytes) => todo' = Tail(todo) /\ hist' = hist /\ phase' = phase
  BY DEF Succeed
<1>5. CASE \E S : Fail(S)
  BY <1>1, <1>5, FailAborts DEF ResetGoes
<1>6. CASE List
  <2>1. Now.do \in {"list", "listNothing"} /\ tree' = tree /\ conf' = conf
    BY <1>6 DEF List, Calling
  <2>2. Proceeds(tree.data, tree'.data, conf, conf')
    BY <2>1, ProceedsQuietly
  <2>3. Succeed(0) \/ Fail({})
    BY <1>6 DEF List
  <2> QED
    BY <1>4, <1>5, <2>2, <2>3 DEF ResetGoes
<1>7. CASE ClearStep
  <2>1. Now.do = "clear" /\ conf' = conf
    BY <1>7 DEF ClearStep, Calling
  <2>2. CASE Succeed(0) /\ Set(Now.to, DeleteFolder(tree[Now.to], Now.set))
    <3> DEFINE t == DeleteFolder(tree.data, Now.set)
    <3>1. tree'.data = t
      BY <1>1, <1>2, <1>3, <2>2, DataSet
    <3>2. /\ t.file = [f \in Folders |-> IF f \in Now.set THEN Absent ELSE tree.data.file[f]]
          /\ t.key = tree.data.key
      BY <1>2, FilesAfterDelete
    <3> HIDE DEF t
    <3>3. Proceeds(tree.data, t, conf, conf)
      BY <2>1, <3>2, ProceedsWithFiles
    <3> QED
      BY <1>4, <2>1, <2>2, <3>1, <3>3 DEF ResetGoes
  <2>3. CASE Succeed(0) /\ UNCHANGED tree /\ ~Exists(tree[Now.from], Now.set)
    <3>1. \A f \in Folders : tree.data.file[f] = IF f \in Now.set THEN Absent ELSE tree.data.file[f]
      BY <1>3, <2>3 DEF Exists
    <3>2. Proceeds(tree.data, tree.data, conf, conf)
      BY <2>1, <3>1, ProceedsWithFiles
    <3> QED
      BY <1>4, <2>1, <2>3, <3>2 DEF ResetGoes
  <2> QED
    BY <1>5, <1>7, <2>2, <2>3 DEF ClearStep
<1>8. CASE ClearKeysStep
  <2>1. Now.do = "clearKeys" /\ conf' = conf
    BY <1>8 DEF ClearKeysStep, Calling
  <2>2. CASE Succeed(0) /\ Set(Now.to, DeleteKeys(tree[Now.to], Now.set))
    <3> DEFINE t == DeleteKeys(tree.data, Now.set)
    <3>1. tree'.data = t
      BY <1>1, <1>2, <1>3, <2>2, DataSet
    <3>2. /\ t.key = [k \in Keys |-> IF k \in Now.set THEN Absent ELSE tree.data.key[k]]
          /\ t.file = tree.data.file
      BY <1>2, KeysAfterDelete
    <3> HIDE DEF t
    <3>3. Proceeds(tree.data, t, conf, conf)
      BY <2>1, <3>2, ProceedsWithKeys
    <3> QED
      BY <1>4, <2>1, <2>2, <3>1, <3>3 DEF ResetGoes
  <2>3. ~ (Now.from = "ext")
    BY <1>1
  <2> QED
    BY <1>5, <1>8, <2>2, <2>3 DEF ClearKeysStep
<1>9. CASE ClearDefaultStep
  <2>1. Now.do \in {"clearConfFolder", "clearConfDb"} /\ tree' = tree
    BY <1>9 DEF ClearDefaultStep, Calling
  <2>2. CASE /\ Succeed(0)
             /\ conf' = [conf EXCEPT ![IF Now.do = "clearConfFolder" THEN "folder" ELSE "db"] =
                           @ \ {Now.area}]
    <3>1. CASE Now.do = "clearConfFolder"
      <4>1. conf'.folder = conf.folder \ {Now.area} /\ conf'.db = conf.db
        BY <1>2, <2>2, <3>1
      <4>2. Proceeds(tree.data, tree.data, conf, conf')
        BY <2>1, <3>1, <4>1, ProceedsWithDefaults
      <4> QED
        BY <1>4, <2>1, <2>2, <4>2 DEF ResetGoes
    <3>2. CASE Now.do = "clearConfDb"
      <4>1. conf'.folder = conf.folder /\ conf'.db = conf.db \ {Now.area}
        BY <1>2, <2>2, <3>2
      <4>2. Proceeds(tree.data, tree.data, conf, conf')
        BY <2>1, <3>2, <4>1, ProceedsWithDefaults
      <4> QED
        BY <1>4, <2>1, <2>2, <4>2 DEF ResetGoes
    <3> QED
      BY <2>1, <3>1, <3>2
  <2> QED
    BY <1>5, <1>9, <2>2 DEF ClearDefaultStep
<1>10. CASE \/ CopyStep \/ CopyKeysStep \/ CheckRctStep \/ CopyRctStep \/ CopyAllStep
            \/ ExportLinksStep \/ ImportLinksStep \/ ListAreaStep \/ ClearSeatStep
            \/ ReturnStep \/ TestSumStep
  <2>1. Now.do \in {"copy", "copyKeys", "checkRct", "copyRct", "copyAll", "exportLinks",
                    "importLinks", "listArea", "clearSeat", "return", "testSum"}
    BY <1>10 DEF CopyStep, CopyKeysStep, CheckRctStep, CopyRctStep, CopyAllStep,
                 ExportLinksStep, ImportLinksStep, ListAreaStep, ClearSeatStep, ReturnStep,
                 TestSumStep, Calling
  <2> QED
    BY <1>1, <2>1
<1> QED
  BY <1>6, <1>7, <1>8, <1>9, <1>10 DEF CallStep

LEMMA HoldingTail ==
  ASSUME NEW C, NEW S, NEW p \in Holding(C, S), p[1] \notin S
  PROVE  Tail(p) \in Holding(C, S)
<1>1. p \in Seq(C)
  BY DEF Holding
<1>2. PICK i \in 1..Len(p) : p[i] \in S
  BY DEF Holding
<1>3. i # 1
  BY <1>2
<1>4. i - 1 \in 1..Len(Tail(p)) /\ Tail(p)[i - 1] = p[i] /\ Tail(p) \in Seq(C)
  BY <1>1, <1>3
<1> QED
  BY <1>2, <1>4 DEF Holding

\* Of what is selected, a call that is left deletes what is still there.
ResetInv ==
  phase = "work" /\ req.op = "restore" /\ AppsOf(hist.before) # <<>> =>
    todo \in Clears({x \in Selection(req, hist.before) : ~Gone(x, tree.data, conf)})

LEMMA SelectionOfThings ==
  ASSUME NEW r, NEW t
  PROVE  Selection(r, t) \subseteq Things
BY DEF Selection, Things

LEMMA ResetCallKeeps ==
  ASSUME TypeInv, ResetInv, CallStep, phase = "work", req.op = "restore",
         AppsOf(hist.before) # <<>>, todo # <<>>, req' = req
  PROVE  \/ phase' = "reply" /\ result' = "error"
         \/ ResetInv' /\ phase' = phase
<1> DEFINE X == Selection(req, hist.before)
           Left == {x \in X : ~Gone(x, tree.data, conf)}
           Later == {x \in X : ~Gone(x, tree'.data, conf')}
<1>1. todo \in Clears(Left)
  BY DEF ResetInv
<1>2. todo \in Seq(ResetCalls)
  BY <1>1 DEF Clears
<1>3. Now \in ResetCalls
  <2> DEFINE C == ResetCalls
  <2> HIDE DEF C
  <2>1. todo \in Seq(C)
    BY <1>2 DEF C
  <2>2. todo[1] \in C
    BY <2>1
  <2> QED
    BY <2>2 DEF Now, C
<1>4. CASE phase' = "reply" /\ result' = "error"
  BY <1>4
<1>5. CASE /\ todo' = Tail(todo) /\ hist' = hist /\ phase' = phase
           /\ Proceeds(tree.data, tree'.data, conf, conf')
  <2>1. \A x \in Later : x \in Left /\ Now \notin Clearing(x)
    BY <1>5, SelectionOfThings DEF Proceeds
  <2>2. \A x \in Later : todo \in Holding(ResetCalls, Clearing(x)) /\ todo[1] \notin Clearing(x)
    BY <1>1, <2>1 DEF Clears, Now
  <2>3. Tail(todo) \in Seq(ResetCalls)
    BY <1>2
  <2> HIDE DEF X, Left, Later
  <2>4. \A x \in Later : Tail(todo) \in Holding(ResetCalls, Clearing(x))
    BY <2>2, HoldingTail
  <2>5. Tail(todo) \in Clears(Later)
    BY <2>3, <2>4 DEF Clears
  <2>6. hist'.before = hist.before
    BY <1>5
  <2>7. ResetInv'
    BY <1>5, <2>5, <2>6 DEF ResetInv, Later, X
  <2> QED
    BY <1>5, <2>7
<1> QED
  BY <1>3, <1>4, <1>5, ResetStep DEF ResetGoes

LEMMA ResetBegins ==
  ASSUME TypeInv, RequestInv, KeysInDbs(tree.data), BeginReset
  PROVE  ResetInv'
<1> DEFINE r == Head(batch)
<1>1. /\ batch # <<>> /\ r.op = "restore" /\ ~ResetRefused(r) /\ req' = r
      /\ todo' = ResetPlan(r) /\ tree' = tree /\ conf' = conf
  BY DEF BeginReset, Begin
<1>2. r \in Requests
  BY <1>1, NextRequest DEF RequestInv
<1>3. hist'.before = tree.data
  BY BeginsKeep DEF Begins
<1> HIDE DEF r
<1>4. AppsOf(tree.data) # <<>> => todo' \in Clears(ThereFor(r, tree.data, conf))
  BY <1>1, <1>2, ResetPlanClears
<1> QED
  BY <1>1, <1>3, <1>4 DEF ResetInv, ThereFor

LEMMA ResetEnds ==
  ASSUME ResetInv, Complete
  PROVE  ResetComplete'
<1> DEFINE X == Selection(req, hist.before)
<1>1. /\ phase = "work" /\ todo = <<>> /\ req' = req /\ hist' = hist /\ tree' = tree
      /\ conf' = conf
  BY DEF Complete
<1>2. ASSUME req.op = "restore", AppsOf(hist.before) # <<>>, NEW x \in X
      PROVE  Gone(x, tree.data, conf)
  <2>1. todo \in Clears({y \in X : ~Gone(y, tree.data, conf)})
    BY <1>1, <1>2 DEF ResetInv
  <2>2. \A S : todo \notin Holding(ResetCalls, S)
    BY <1>1 DEF Holding
  <2> QED
    BY <2>1, <2>2 DEF Clears
<1> SUFFICES ASSUME req.op = "restore", AppsOf(hist.before) # <<>>
             PROVE  /\ \A f \in Folders : SelectsFile(req, f) => tree.data.file[f] = Absent
                    /\ \A k \in Keys : SelectsKey(req, k) => tree.data.key[k] = Absent
                    /\ \A a \in Area : Factory(req) /\ AreaExists(hist.before, a)
                                         /\ (req.type = "all" \/ a = req.app) =>
                         a \notin conf.folder /\ a \notin conf.db
  BY <1>1 DEF ResetComplete, Answered
<1>3. \A f \in Folders : SelectsFile(req, f) => tree.data.file[f] = Absent
  <2> SUFFICES ASSUME NEW f \in Folders, SelectsFile(req, f) PROVE tree.data.file[f] = Absent
    OBVIOUS
  <2>1. <<"file", f>> \in X
    BY DEF Selection
  <2> QED
    BY <1>2, <2>1 DEF Gone
<1>4. \A k \in Keys : SelectsKey(req, k) => tree.data.key[k] = Absent
  <2> SUFFICES ASSUME NEW k \in Keys, SelectsKey(req, k) PROVE tree.data.key[k] = Absent
    OBVIOUS
  <2>1. <<"key", k>> \in X
    BY DEF Selection
  <2> QED
    BY <1>2, <2>1 DEF Gone
<1>5. ASSUME NEW a \in Area, Factory(req), AreaExists(hist.before, a),
             req.type = "all" \/ a = req.app
      PROVE  a \notin conf.folder /\ a \notin conf.db
  <2>1. <<"folder", a>> \in X /\ <<"db", a>> \in X
    BY <1>5 DEF Selection
  <2>2. Gone(<<"folder", a>>, tree.data, conf) /\ Gone(<<"db", a>>, tree.data, conf)
    BY <1>2, <2>1
  <2> QED
    BY <2>2 DEF Gone
<1> QED
  BY <1>3, <1>4, <1>5

LEMMA NextResets ==
  ASSUME TypeInv, RequestInv, KeysInDbs(tree.data), ResetInv, ResetComplete, [Next]_vars
  PROVE  ResetInv' /\ ResetComplete'
<1>1. CASE UNCHANGED vars
  BY <1>1 DEF vars, ResetInv, ResetComplete, Answered
<1>2. CASE phase' \in {"idle", "next"}
  BY <1>2 DEF ResetInv, ResetComplete, Answered
<1>3. CASE req'.op # "restore"
  BY <1>3 DEF ResetInv, ResetComplete, Answered
<1>4. CASE phase' = "reply" /\ result' = "error"
  BY <1>4 DEF ResetInv, ResetComplete, Answered
<1>5. CASE Receive \/ RefuseInLibrary \/ Reply \/ Crash
           \/ WriteFile \/ WriteKey \/ Update \/ Uninstall
  <2>1. phase' \in {"idle", "next"}
    BY <1>5 DEF Receive, RefuseInLibrary, Reply, Crash, WriteFile, WriteKey, Update,
                Uninstall, Change
  <2> QED
    BY <1>2, <2>1
<1>6. CASE Refuse
  BY <1>4, <1>6 DEF Refuse, Begin
<1>7. CASE BeginBackup \/ BeginRecovery \/ BeginDelete
  BY <1>3, <1>7 DEF BeginBackup, BeginRecovery, BeginDelete, Begin
<1>8. CASE BeginReset
  <2>1. phase' = "work"
    BY <1>8 DEF BeginReset, Begin
  <2> QED
    BY <1>8, <2>1, ResetBegins DEF ResetComplete, Answered
<1>9. CASE CallStep
  <2>1. /\ phase = "work" /\ todo # <<>> /\ req' = req /\ hist'.before = hist.before
        /\ phase' \in {"work", "reply"}
    BY <1>9, CallEffect DEF RequestInv, Effect, Goes
  <2>2. CASE AppsOf(hist.before) # <<>> /\ req.op = "restore"
    <3>1. \/ phase' = "reply" /\ result' = "error"
          \/ ResetInv' /\ phase' = phase
      BY <1>9, <2>1, <2>2, ResetCallKeeps
    <3> QED
      BY <1>4, <2>1, <3>1 DEF ResetComplete, Answered
  <2> QED
    BY <2>1, <2>2 DEF ResetInv, ResetComplete, Answered
<1>10. CASE Archive \/ Cleanup
  BY <1>3, <1>10 DEF Archive, Cleanup
<1>11. CASE Uncompress
  <2>1. req.op = "recover" /\ req' = req
    BY <1>11 DEF RequestInv, Uncompress
  <2> QED
    BY <1>3, <2>1
<1>12. CASE Complete
  <2>1. phase' = "reply"
    BY <1>12 DEF Complete
  <2> QED
    BY <1>12, <2>1, ResetEnds DEF ResetInv
<1> QED
  BY <1>1, <1>5, <1>6, <1>7, <1>8, <1>9, <1>10, <1>11, <1>12 DEF Next

\* A restore to default that reports success has deleted all that it selects,
\* whatever the target held and whichever calls could have failed: every file,
\* every key, and with the factory's defaults the configurable ones.
THEOREM Resets == Spec => []ResetComplete
<1> DEFINE IInv == TypeInv /\ RequestInv /\ KeysInDbs(tree.data) /\ ResetInv /\ ResetComplete
<1>1. Init => IInv
  <2>1. Init => ResetInv /\ ResetComplete
    BY DEF Init, ResetInv, ResetComplete, Answered
  <2> QED
    BY <2>1, InitTypes, InitKeysInDbs
<1>2. IInv /\ [Next]_vars => IInv'
  BY NextTypes, NextKeepsDbs, NextResets
<1> QED
  BY <1>1, <1>2, PTL DEF Spec

-----------------------------------------------------------------------------
(* What a deletion of a user's data deletes.  A seat's folder that is empty *)
(* breaks its area's walk off: a key is deleted if no more than one call on *)
(* that folder comes before, and that one finds files in it.                *)

\* The calls a deletion makes: those on an area are made from that area's walk.
DeleteCalls ==
  {c \in Calls :
     /\ c.from = "data" /\ c.to = "data"
     /\ \/ c.do \in {"list", "listNothing"} /\ c.err = "abort"
        \/ c.do = "listArea" /\ c.err = "leave"
        \/ c.do = "clearKeys" /\ c.err = "ignore" /\ \A k \in c.set : k[1] = c.fn[1]
        \/ /\ c.do = "clearSeat" /\ c.err = "leave"
           /\ \E f \in Folders : c.set = {f} /\ f[1] = c.fn[1]}

\* The calls on the seat folder of an area, and the others.
SeatCalls(a) == {c \in DeleteCalls : c.do = "clearSeat" /\ c.fn[1] = a}
Others(a) == DeleteCalls \ SeatCalls(a)

FileCalls(f) == {c \in DeleteCalls : c.do = "clearSeat" /\ f \in c.set}
KeyCalls(k) == {c \in DeleteCalls : c.do = "clearKeys" /\ k \in c.set}

\* A key is deleted after at most one call on the seat folder, and after none.
Soon(k) ==
  {p \in Seq(DeleteCalls) : \E i \in 1..Len(p) :
     /\ p[i] \in KeyCalls(k)
     /\ \E j \in 1..i : \A m \in 1..(i - 1) : m = j \/ p[m] \notin SeatCalls(k[1])}
AtOnce(k) ==
  {p \in Seq(DeleteCalls) : \E i \in 1..Len(p) :
     p[i] \in KeyCalls(k) /\ \A m \in 1..(i - 1) : p[m] \notin SeatCalls(k[1])}

LEMMA SoonLasts == ASSUME NEW k PROVE Lasting(DeleteCalls, Others(k[1]), Soon(k))
<1> DEFINE C == DeleteCalls
           N == Others(k[1])
<1>1. N \subseteq C /\ Soon(k) \subseteq Seq(C)
  BY DEF Others, Soon
<1> HIDE DEF C, N
<1>2. ASSUME NEW p \in Seq(N), NEW q \in Soon(k), NEW r \in Seq(C)
      PROVE  Cat(Cat(p, q), r) \in Soon(k)
  <2> DEFINE w == Cat(Cat(p, q), r)
  <2>1. p \in Seq(C) /\ q \in Seq(C)
    BY <1>1, <1>2, SeqSubset
  <2>2. /\ w \in Seq(C) /\ Len(w) = Len(p) + Len(q) + Len(r)
        /\ \A m \in 1..Len(p) : w[m] = p[m]
        /\ \A m \in 1..Len(q) : w[Len(p) + m] = q[m]
    BY <2>1 DEF Cat
  <2>0. PICK i \in 1..Len(q) :
          /\ q[i] \in KeyCalls(k)
          /\ \E j \in 1..i : \A m \in 1..(i - 1) : m = j \/ q[m] \notin SeatCalls(k[1])
    BY DEF Soon
  <2>3. PICK j \in 1..i : \A m \in 1..(i - 1) : m = j \/ q[m] \notin SeatCalls(k[1])
    BY <2>0
  <2> HIDE DEF w
  <2>4. Len(p) \in Nat /\ Len(q) \in Nat /\ Len(r) \in Nat
    BY <2>1
  <2>5. Len(p) + i \in 1..Len(w) /\ w[Len(p) + i] \in KeyCalls(k) /\ Len(p) + j \in 1..(Len(p) + i)
    BY <2>0, <2>2, <2>4
  <2>6. ASSUME NEW m \in 1..(Len(p) + i - 1)
        PROVE  m = Len(p) + j \/ w[m] \notin SeatCalls(k[1])
    <3>1. CASE m <= Len(p)
      <4>1. m \in 1..Len(p)
        BY <3>1
      <4>2. w[m] = p[m] /\ p[m] \in N
        BY <2>2, <4>1
      <4> QED
        BY <4>2 DEF N, Others
    <3>2. CASE m > Len(p)
      <4>1. m - Len(p) \in 1..(i - 1) /\ m - Len(p) \in 1..Len(q) /\ Len(p) + (m - Len(p)) = m
        BY <2>4, <3>2
      <4>2. w[m] = q[m - Len(p)]
        BY <2>2, <4>1
      <4> QED
        BY <2>3, <2>4, <4>1, <4>2
    <3> QED
      BY <2>4, <3>1, <3>2
  <2>7. w \in Soon(k)
    <3> DEFINE at == Len(p) + i
               one == Len(p) + j
    <3>1. at \in 1..Len(w) /\ w[at] \in KeyCalls(k) /\ one \in 1..at
      BY <2>5
    <3>2. \A m \in 1..(at - 1) : m = one \/ w[m] \notin SeatCalls(k[1])
      BY <2>6
    <3> HIDE DEF at, one
    <3>3. \E x \in 1..at : \A m \in 1..(at - 1) : m = x \/ w[m] \notin SeatCalls(k[1])
      BY <3>1, <3>2
    <3>4. w \in Seq(DeleteCalls)
      BY <2>2 DEF C
    <3> QED
      BY <3>1, <3>3, <3>4 DEF Soon
  <2> QED
    BY <2>7 DEF w
<1> QED
  BY <1>1, <1>2 DEF Lasting, C, N

LEMMA FileLasts ==
  ASSUME NEW f, NEW a
  PROVE  Lasting(DeleteCalls, Others(a), Holding(DeleteCalls, FileCalls(f)))
<1> DEFINE C == DeleteCalls
           N == Others(a)
           Q == Holding(C, FileCalls(f))
<1>1. N \subseteq C
  BY DEF Others
<1>2. Lasting(C, C, Q)
  BY HoldingLasts
<1> HIDE DEF C, N, Q
<1>3. \A p \in Seq(N) : p \in Seq(C)
  BY <1>1, SeqSubset
<1> QED
  BY <1>1, <1>2, <1>3 DEF Lasting, C, N, Q

\* The databases of an area, before and after the seat's folder.
DbsOf(a, policies) == Those(LocalDbs(a), {d \in tree.data.db : d[2] \in policies})

LEMMA DbsOfType ==
  ASSUME NEW a \in Area, NEW policies
  PROVE  DbsOf(a, policies) \in Seq({a} \X ToSet(Policies))
<1> DEFINE D == {a} \X ToSet(Policies)
           S == {d \in tree.data.db : d[2] \in policies}
<1>1. LocalDbs(a) \in Seq(D)
  BY LocalDbsType
<1> HIDE DEF D, S
<1>2. Those(LocalDbs(a), S) \in Seq(D \cap S)
  BY <1>1, ThoseType
<1>3. Those(LocalDbs(a), S) \in Seq(D)
  <2>1. D \cap S \subseteq D
    OBVIOUS
  <2> QED
    BY <1>2, <2>1, SeqSubset
<1> QED
  BY <1>3 DEF DbsOf, D, S

LEMMA DbsOfHas ==
  ASSUME NEW a \in Area, NEW policies, NEW p \in ToSet(Policies), p \in policies,
         <<a, p>> \in tree.data.db
  PROVE  \E i \in 1..Len(DbsOf(a, policies)) : DbsOf(a, policies)[i] = <<a, p>>
<1> DEFINE D == {a} \X ToSet(Policies)
           S == {d \in tree.data.db : d[2] \in policies}
           x == <<a, p>>
<1>1. x \in S /\ LocalDbs(a) \in Seq(D)
  BY LocalDbsType
<1>2. LocalDbs(a) \in Lists(D, x)
  BY <1>1, LocalDbsHas DEF Lists, Holding
<1> HIDE DEF D, S, x
<1>3. Those(LocalDbs(a), S) \in Lists(D, x)
  BY <1>1, <1>2, ThoseHas
<1> QED
  BY <1>3, ListsAt DEF DbsOf, S, x

\* The calls that are not on a seat's folder.
BesideSeats == {c \in DeleteCalls : c.do \in {"listArea", "clearKeys"}}

LEMMA DeleteKeysOfDeletes ==
  ASSUME NEW r \in Requests, r.op = "delete", NEW a \in Area, NEW mount \in {"mnt-c", "mnt-wt"},
         NEW dbs \in Seq({a} \X ToSet(Policies))
  PROVE  /\ DeleteKeysOf(dbs, r, <<a, mount>>) \in Seq(BesideSeats)
         /\ Len(DeleteKeysOf(dbs, r, <<a, mount>>)) = Len(dbs)
         /\ \A i \in 1..Len(dbs), k \in Keys :
              SelectsKey(r, k) /\ dbs[i] = <<k[1], k[3]>> =>
                DeleteKeysOf(dbs, r, <<a, mount>>)[i] \in KeyCalls(k)
<1> DEFINE fn == <<a, mount>>
           S(d) == FilterKeys(d, "user", r.user, r.seat)
           c(d) == ClearDb("data", "data", d, S(d), "ignore", fn)
           p == [i \in 1..Len(dbs) |-> c(dbs[i])]
<1>1. ASSUME NEW d \in {a} \X ToSet(Policies)
      PROVE  c(d) \in BesideSeats /\ \A k \in S(d) : c(d) \in KeyCalls(k)
  <2>1. d \in Databases /\ fn \in Labels /\ d[1] = a /\ fn[1] = a
    BY DEF Databases, Labels
  <2>2. S(d) \in SUBSET Keys /\ \A k \in S(d) : k[1] = a
    BY <2>1 DEF FilterKeys
  <2> HIDE DEF S, fn
  <2>3. c(d) \in Calls
    BY <2>1, <2>2, ClearDbCall
  <2>4. /\ c(d).do = "clearKeys" /\ c(d).from = "data" /\ c(d).to = "data"
        /\ c(d).err = "ignore" /\ c(d).set = S(d) /\ c(d).fn = fn
    BY DEF ClearDb, Call
  <2> HIDE DEF c
  <2>5. c(d) \in DeleteCalls
    BY <2>1, <2>2, <2>3, <2>4 DEF DeleteCalls
  <2> QED
    BY <2>4, <2>5 DEF BesideSeats, KeyCalls
<1>2. \A i \in 1..Len(dbs) : dbs[i] \in {a} \X ToSet(Policies)
  BY ElementType
<1>3. Len(dbs) \in Nat
  OBVIOUS
<1>4. ASSUME NEW i \in 1..Len(dbs), NEW k \in Keys, SelectsKey(r, k), dbs[i] = <<k[1], k[3]>>
      PROVE  k \in S(dbs[i])
  <2>1. r.type = "user"
    BY DEF Requests
  <2>2. Owns(r, k[2])
    BY <1>4, <2>1 DEF SelectsKey
  <2>3. Filter("user", r.user, r.seat, k[2])
    BY <2>2 DEF Owns, Filter
  <2> QED
    BY <1>4, <2>3 DEF FilterKeys
<1> HIDE DEF c, S
<1>5. p \in Seq(BesideSeats) /\ Len(p) = Len(dbs)
  <2>1. \A i \in 1..Len(dbs) : c(dbs[i]) \in BesideSeats
    BY <1>1, <1>2
  <2> QED
    BY <1>3, <2>1
<1>6. \A i \in 1..Len(dbs), k \in Keys :
        SelectsKey(r, k) /\ dbs[i] = <<k[1], k[3]>> => p[i] \in KeyCalls(k)
  BY <1>1, <1>2, <1>4
<1>7. DeleteKeysOf(dbs, r, fn) = p
  BY DEF DeleteKeysOf, c, S
<1> HIDE DEF p, fn
<1>8. /\ DeleteKeysOf(dbs, r, fn) \in Seq(BesideSeats)
      /\ Len(DeleteKeysOf(dbs, r, fn)) = Len(dbs)
      /\ \A i \in 1..Len(dbs), k \in Keys :
           SelectsKey(r, k) /\ dbs[i] = <<k[1], k[3]>> =>
             DeleteKeysOf(dbs, r, fn)[i] \in KeyCalls(k)
  BY <1>5, <1>6, <1>7
<1> QED
  BY <1>8 DEF fn

\* The call on the seat's folder, if it is there.
SeatPlan(a, r, mount) ==
  [i \in 1..Cardinality(SeatFolder(a, r)) |-> ClearSeat(<<a, <<r.user, r.seat>>>>, <<a, mount>>)]

LEMMA SeatPlanDeletes ==
  ASSUME NEW r \in Requests, r.op = "delete", NEW a \in Area, NEW mount \in {"mnt-c", "mnt-wt"}
  PROVE  /\ SeatPlan(a, r, mount) \in Seq(SeatCalls(a))
         /\ Len(SeatPlan(a, r, mount)) \in {0, 1}
         /\ \A f \in Folders : f[1] = a /\ SelectsFile(r, f) =>
              SeatPlan(a, r, mount) \in Holding(DeleteCalls, FileCalls(f))
<1> DEFINE f == <<a, <<r.user, r.seat>>>>
           fn == <<a, mount>>
           c == ClearSeat(f, fn)
           n == Cardinality(SeatFolder(a, r))
           p == [i \in 1..n |-> c]
<1>1. CASE SeatFolder(a, r) = {} /\ n = 0
  <2>1. p = <<>>
    BY <1>1
  <2>2. \A g \in Folders : ~ (g[1] = a /\ SelectsFile(r, g))
    BY <1>1 DEF SelectsFile, SeatFolder
  <2>3. SeatPlan(a, r, mount) = p
    BY DEF SeatPlan
  <2>4. SeatPlan(a, r, mount) = <<>>
    BY <2>1, <2>3
  <2>5. SeatPlan(a, r, mount) \in Seq(SeatCalls(a)) /\ Len(SeatPlan(a, r, mount)) = 0
    BY <2>4, EmptyType
  <2> QED
    BY <2>2, <2>5
<1>2. CASE SeatFolder(a, r) = {f} /\ n = 1
  <2>1. f \in Folders /\ f[1] = a /\ fn \in Labels /\ fn[1] = a
    BY <1>2 DEF SeatFolder, Labels
  <2>2. \A g \in Folders : g[1] = a /\ SelectsFile(r, g) => g = f
    BY <1>2 DEF SelectsFile, SeatFolder
  <2> HIDE DEF f, fn
  <2>3. c \in Calls
    BY <2>1 DEF ClearSeat, Call, Calls, OnFolders
  <2>4. /\ c.do = "clearSeat" /\ c.from = "data" /\ c.to = "data" /\ c.err = "leave"
        /\ c.set = {f} /\ c.fn = fn
    BY DEF ClearSeat, Call
  <2> HIDE DEF c
  <2>5. c \in DeleteCalls /\ c \in SeatCalls(a) /\ c \in FileCalls(f)
    BY <2>1, <2>3, <2>4 DEF DeleteCalls, SeatCalls, FileCalls
  <2>6. p \in Seq(SeatCalls(a)) /\ p \in Seq(DeleteCalls) /\ Len(p) = 1 /\ p[1] = c
    <3>1. n = 1
      BY <1>2
    <3> HIDE DEF n
    <3> QED
      BY <2>5, <3>1
  <2> HIDE DEF p
  <2>7. p \in Holding(DeleteCalls, FileCalls(f))
    <3>1. 1 \in 1..Len(p) /\ p[1] \in FileCalls(f) /\ p \in Seq(DeleteCalls)
      BY <2>5, <2>6
    <3> QED
      BY <3>1 DEF Holding
  <2>8. SeatPlan(a, r, mount) = p
    BY DEF SeatPlan, p, c, f, fn
  <2> QED
    BY <2>2, <2>6, <2>7, <2>8
<1> QED
  BY <1>1, <1>2, SeatFolderIs

LEMMA OneSeatCall ==
  ASSUME NEW k, NEW x \in Seq(BesideSeats), NEW y \in Seq(SeatCalls(k[1])), Len(y) \in {0, 1},
         NEW z \in Seq(BesideSeats),
         \/ \E i \in 1..Len(x) : x[i] \in KeyCalls(k)
         \/ \E i \in 1..Len(z) : z[i] \in KeyCalls(k)
  PROVE  Cat(Cat(x, y), z) \in Soon(k)
<1> DEFINE C == DeleteCalls
           w == Cat(Cat(x, y), z)
<1>1. /\ x \in Seq(C) /\ y \in Seq(C) /\ z \in Seq(C)
      /\ BesideSeats \cap SeatCalls(k[1]) = {}
  <2>1. BesideSeats \subseteq C /\ SeatCalls(k[1]) \subseteq C
    BY DEF BesideSeats, SeatCalls
  <2> QED
    BY <2>1, SeqSubset DEF BesideSeats, SeatCalls
<1> HIDE DEF C
<1>2. /\ w \in Seq(C) /\ Len(w) = Len(x) + Len(y) + Len(z)
      /\ \A m \in 1..Len(x) : w[m] = x[m]
      /\ \A m \in 1..Len(z) : w[Len(x) + Len(y) + m] = z[m]
  BY <1>1 DEF Cat
<1>3. Len(x) \in Nat /\ Len(y) \in Nat /\ Len(z) \in Nat
  BY <1>1
<1> HIDE DEF w
<1>4. \A m \in 1..Len(x) : w[m] \notin SeatCalls(k[1])
  BY <1>1, <1>2
<1>5. \A m \in (Len(x) + Len(y) + 1)..Len(w) : w[m] \notin SeatCalls(k[1])
  <2> TAKE m \in (Len(x) + Len(y) + 1)..Len(w)
  <2>1. m - Len(x) - Len(y) \in 1..Len(z) /\ Len(x) + Len(y) + (m - Len(x) - Len(y)) = m
    BY <1>2, <1>3
  <2>2. w[m] = z[m - Len(x) - Len(y)]
    BY <1>2, <2>1
  <2> QED
    BY <1>1, <2>1, <2>2
<1>6. CASE \E i \in 1..Len(x) : x[i] \in KeyCalls(k)
  <2>1. PICK i \in 1..Len(x) : x[i] \in KeyCalls(k)
    BY <1>6
  <2>2. i \in 1..Len(w) /\ w[i] \in KeyCalls(k) /\ 1 \in 1..i
    BY <1>2, <1>3, <2>1
  <2>3. \A m \in 1..(i - 1) : m = 1 \/ w[m] \notin SeatCalls(k[1])
    BY <1>3, <1>4
  <2> QED
    BY <1>2, <2>2, <2>3 DEF Soon, C, w
<1>7. CASE \E i \in 1..Len(z) : z[i] \in KeyCalls(k)
  <2>1. PICK n \in 1..Len(z) : z[n] \in KeyCalls(k)
    BY <1>7
  <2> DEFINE i == Len(x) + Len(y) + n
             j == Len(x) + 1
  <2>2. i \in 1..Len(w) /\ w[i] \in KeyCalls(k) /\ j \in 1..i
    BY <1>2, <1>3, <2>1
  <2>3. \A m \in 1..(i - 1) : m = j \/ w[m] \notin SeatCalls(k[1])
    <3> TAKE m \in 1..(i - 1)
    <3>0. m <= Len(x) \/ m = Len(x) + 1 \/ m > Len(x) + Len(y)
      <4> DEFINE lx == Len(x)
                 ly == Len(y)
      <4>1. lx \in Nat /\ (ly = 0 \/ ly = 1) /\ m \in Int
        BY <1>3
      <4> HIDE DEF lx, ly, i, j
      <4>2. m <= lx \/ m = lx + 1 \/ m > lx + ly
        BY <4>1
      <4> QED
        BY <4>2 DEF lx, ly
    <3>1. m \in 1..Len(x) \/ m = j \/ m \in (Len(x) + Len(y) + 1)..Len(w)
      BY <1>2, <1>3, <2>2, <3>0
    <3> QED
      BY <1>4, <1>5, <3>1
  <2> HIDE DEF i, j
  <2>4. \E o \in 1..i : \A m \in 1..(i - 1) : m = o \/ w[m] \notin SeatCalls(k[1])
    BY <2>2, <2>3
  <2> QED
    BY <1>2, <2>2, <2>4 DEF Soon, C, w
<1> QED
  BY <1>6, <1>7

\* An area's walk: all of its own, and nothing of another's seat folder.
LEMMA FolderDeletes ==
  ASSUME NEW r \in Requests, r.op = "delete", NEW a \in Area, NEW before,
         NEW mount \in {"mnt-c", "mnt-wt"}
  PROVE  /\ DeleteFromFolder(a, r, before, mount) \in Seq(DeleteCalls)
         /\ \A b : b # a => DeleteFromFolder(a, r, before, mount) \in Seq(Others(b))
         /\ \A f \in Folders : f[1] = a /\ SelectsFile(r, f) =>
              DeleteFromFolder(a, r, before, mount) \in Holding(DeleteCalls, FileCalls(f))
         /\ \A k \in Keys : /\ k[1] = a /\ SelectsKey(r, k) /\ <<k[1], k[3]>> \in tree.data.db
                            => DeleteFromFolder(a, r, before, mount) \in Soon(k)
<1> DEFINE C == DeleteCalls
           after == ToSet(Policies) \ before
           list == <<ListArea(a, <<a, mount>>)>>
           keys == DeleteKeysOf(DbsOf(a, before), r, <<a, mount>>)
           x == Cat(list, keys)
           y == SeatPlan(a, r, mount)
           z == DeleteKeysOf(DbsOf(a, after), r, <<a, mount>>)
           w == Cat(Cat(x, y), z)
<1>1. DeleteFromFolder(a, r, before, mount) = w
  BY DEF DeleteFromFolder, DbsOf, SeatPlan, Cat
<1>0. list \in Seq(BesideSeats) /\ Len(list) = 1
  <2> DEFINE c == ListArea(a, <<a, mount>>)
  <2>1. c \in Calls
    BY DEF ListArea, Call, Calls, NoDb, Labels
  <2>2. /\ c.do = "listArea" /\ c.from = "data" /\ c.to = "data" /\ c.err = "leave"
    BY DEF ListArea, Call
  <2> HIDE DEF c
  <2>3. c \in BesideSeats
    BY <2>1, <2>2 DEF BesideSeats, DeleteCalls
  <2>4. <<c>> \in Seq(BesideSeats) /\ Len(<<c>>) = 1
    BY <2>3, OneType
  <2> QED
    BY <2>4 DEF c
<1>10. keys \in Seq(BesideSeats) /\ z \in Seq(BesideSeats)
  BY DeleteKeysOfDeletes, DbsOfType
<1>2. x \in Seq(BesideSeats) /\ z \in Seq(BesideSeats)
  <2> HIDE DEF list, keys, z
  <2> QED
    BY <1>0, <1>10 DEF Cat
<1>3. y \in Seq(SeatCalls(a)) /\ Len(y) \in {0, 1}
  BY SeatPlanDeletes
<1>4. /\ BesideSeats \subseteq C /\ SeatCalls(a) \subseteq C
      /\ \A b : b # a => BesideSeats \subseteq Others(b) /\ SeatCalls(a) \subseteq Others(b)
  BY DEF BesideSeats, SeatCalls, Others
<1>5. \A S : BesideSeats \subseteq S /\ SeatCalls(a) \subseteq S => w \in Seq(S)
  <2> TAKE S
  <2> SUFFICES ASSUME BesideSeats \subseteq S, SeatCalls(a) \subseteq S PROVE w \in Seq(S)
    OBVIOUS
  <2>1. x \in Seq(S) /\ y \in Seq(S) /\ z \in Seq(S)
    BY <1>2, <1>3, SeqSubset
  <2> HIDE DEF x, y, z
  <2> QED
    BY <2>1 DEF Cat
<1>6. ASSUME NEW f \in Folders, f[1] = a, SelectsFile(r, f)
      PROVE  w \in Holding(C, FileCalls(f))
  <2>1. y \in Holding(C, FileCalls(f))
    BY <1>6, SeatPlanDeletes
  <2>2. x \in Seq(C) /\ z \in Seq(C)
    BY <1>2, <1>4, SeqSubset
  <2>3. Lasting(C, C, Holding(C, FileCalls(f)))
    BY HoldingLasts
  <2> HIDE DEF C, x, y, z
  <2> QED
    BY <2>1, <2>2, <2>3 DEF Lasting
<1>7. ASSUME NEW k \in Keys, k[1] = a, SelectsKey(r, k), <<k[1], k[3]>> \in tree.data.db
      PROVE  w \in Soon(k)
  <2>1. k[3] \in ToSet(Policies) /\ <<a, k[3]>> \in tree.data.db
    BY <1>7, DataAssumption
  <2> HIDE DEF C, w, y, after
  <2>4. ASSUME NEW policies, k[3] \in policies
        PROVE  \E i \in 1..Len(DbsOf(a, policies)) : DbsOf(a, policies)[i] = <<k[1], k[3]>>
    <3>1. \E i \in 1..Len(DbsOf(a, policies)) : DbsOf(a, policies)[i] = <<a, k[3]>>
      BY <2>1, <2>4, DbsOfHas
    <3> QED
      BY <1>7, <3>1
  <2>5. ASSUME NEW dbs \in Seq({a} \X ToSet(Policies)), NEW i \in 1..Len(dbs),
               dbs[i] = <<k[1], k[3]>>
        PROVE  /\ i \in 1..Len(DeleteKeysOf(dbs, r, <<a, mount>>))
               /\ DeleteKeysOf(dbs, r, <<a, mount>>)[i] \in KeyCalls(k)
    <3> HIDE DEF x, z
    <3> DEFINE q == DeleteKeysOf(dbs, r, <<a, mount>>)
    <3>1. Len(q) = Len(dbs)
      BY DeleteKeysOfDeletes
    <3>2. \A n \in 1..Len(dbs), h \in Keys :
            SelectsKey(r, h) /\ dbs[n] = <<h[1], h[3]>> => q[n] \in KeyCalls(h)
      BY DeleteKeysOfDeletes
    <3> HIDE DEF q
    <3> QED
      BY <1>7, <2>5, <3>1, <3>2 DEF q
  <2>2. CASE k[3] \in before
    <3>1. PICK i \in 1..Len(DbsOf(a, before)) : DbsOf(a, before)[i] = <<k[1], k[3]>>
      BY <2>2, <2>4
    <3>3. i \in 1..Len(keys) /\ keys[i] \in KeyCalls(k)
      BY <2>5, <3>1, DbsOfType
    <3>4. 1 + i \in 1..Len(x) /\ x[1 + i] = keys[i]
      <4> HIDE DEF list, keys, z
      <4>3. /\ Len(list \o keys) = Len(list) + Len(keys)
            /\ (list \o keys)[Len(list) + i] = keys[i]
        <5>1. \A j \in 1..Len(keys) : (list \o keys)[Len(list) + j] = keys[j]
          BY <1>0, <1>10, ConcatParts
        <5>2. Len(list \o keys) = Len(list) + Len(keys)
          BY <1>0, <1>10, ConcatParts
        <5> QED
          BY <3>3, <5>1, <5>2
      <4>1. Len(list \o keys) = 1 + Len(keys) /\ (list \o keys)[1 + i] = keys[i]
        BY <1>0, <4>3
      <4>2. Len(keys) \in Nat /\ 1 + i \in 1..(1 + Len(keys))
        BY <1>10, <3>3
      <4> QED
        BY <4>1, <4>2 DEF Cat
    <3>2. \E j \in 1..Len(x) : x[j] \in KeyCalls(k)
      <4> HIDE DEF x, keys
      <4> QED
        BY <3>3, <3>4
    <3> HIDE DEF x, z
    <3> QED
      BY <1>2, <1>3, <1>7, <3>2, OneSeatCall DEF w
  <2>3. CASE k[3] \notin before
    <3>0. k[3] \in after
      BY <2>1, <2>3 DEF after
    <3>1. PICK i \in 1..Len(DbsOf(a, after)) : DbsOf(a, after)[i] = <<k[1], k[3]>>
      BY <3>0, <2>4
    <3>2. i \in 1..Len(z) /\ z[i] \in KeyCalls(k)
      BY <2>5, <3>1, DbsOfType
    <3> HIDE DEF x, z
    <3> QED
      BY <1>2, <1>3, <1>7, <3>2, OneSeatCall DEF w
  <2> QED
    BY <2>2, <2>3
<1> HIDE DEF w
<1> QED
  BY <1>1, <1>4, <1>5, <1>6, <1>7

\* Where something first comes in a list.
LEMMA FirstAt ==
  ASSUME NEW A, NEW seq \in Seq(A), NEW x, \E i \in 1..Len(seq) : seq[i] = x
  PROVE  \E i \in 1..Len(seq) : seq[i] = x /\ \A j \in 1..(i - 1) : seq[j] # x
<1> DEFINE T == {n \in 1..Len(seq) : seq[n] = x}
<1>1. T \subseteq Nat /\ T # {}
  OBVIOUS
<1>2. PICK i \in T : \A j \in T : ~(<<j, i>> \in Less)
  <2> HIDE DEF T
  <2> QED
    BY <1>1, LessWellFounded, WFMin
<1>3. i \in 1..Len(seq) /\ seq[i] = x /\ Len(seq) \in Nat
  BY <1>2
<1>4. ASSUME NEW j \in 1..(i - 1) PROVE seq[j] # x
  <2>1. j \in Nat /\ i \in Nat /\ j < i /\ j \in 1..Len(seq)
    BY <1>3
  <2>2. <<j, i>> \in Less
    BY <2>1 DEF Less
  <2>3. j \notin T
    BY <1>2, <2>2
  <2> QED
    BY <2>1, <2>3
<1> QED
  BY <1>3, <1>4

\* A walk over a list that x is in.
LEMMA WalkLasts ==
  ASSUME NEW C, NEW N, NEW Q, Lasting(C, N, Q), NEW A, NEW seq \in Seq(A), NEW x,
         \E i \in 1..Len(seq) : seq[i] = x,
         NEW seqs \in Seq(Seq(C)), Len(seqs) = Len(seq),
         \A i \in 1..Len(seq) : seq[i] = x => seqs[i] \in Q,
         \A i \in 1..Len(seq) : seq[i] # x => seqs[i] \in Seq(N)
  PROVE  FlattenSeq(seqs) \in Q
<1>1. PICK i \in 1..Len(seq) : seq[i] = x /\ \A j \in 1..(i - 1) : seq[j] # x
  BY FirstAt
<1>2. i \in 1..Len(seqs) /\ seqs[i] \in Q
  BY <1>1
<1>3. \A j \in 1..(i - 1) : seqs[j] \in Seq(N)
  <2> TAKE j \in 1..(i - 1)
  <2>1. j \in 1..Len(seq)
    BY <1>1
  <2> QED
    BY <1>1, <2>1
<1> QED
  BY <1>2, <1>3, FlattenLasts

\* The lists a deletion begins its walks with.
LEMMA DeleteLists ==
  ASSUME NEW a, NEW mount \in {"mnt-c", "mnt-wt"}
  PROVE  /\ <<ListFolders("abort", <<"mount", mount>>)>> \in Seq(Others(a))
         /\ <<ListGroups("abort", <<"groups", mount>>)>> \in Seq(Others(a))
<1>1. <<"mount", mount>> \in Labels /\ <<"groups", mount>> \in Labels
  BY DEF Labels
<1>2. ASSUME NEW c \in Calls, c.do \in {"list", "listNothing"}, c.err = "abort",
             c.from = "data", c.to = "data"
      PROVE  <<c>> \in Seq(Others(a))
  <2>1. c \in Others(a)
    BY <1>2 DEF Others, SeatCalls, DeleteCalls
  <2> QED
    BY <2>1, OneType
<1>3. <<ListFolders("abort", <<"mount", mount>>)>> \in Seq(Others(a))
  <2> DEFINE fn == <<"mount", mount>>
             c == ListFolders("abort", fn)
  <2> HIDE DEF fn
  <2>1. /\ c \in Calls /\ c.do \in {"list", "listNothing"} /\ c.err = "abort"
        /\ c.from = "data" /\ c.to = "data"
    BY <1>1 DEF ListFolders, Call, Calls, NoDb, fn
  <2> HIDE DEF c
  <2>2. <<c>> \in Seq(Others(a))
    BY <1>2, <2>1
  <2> QED
    BY <2>2 DEF c, fn
<1>4. <<ListGroups("abort", <<"groups", mount>>)>> \in Seq(Others(a))
  <2> DEFINE fn == <<"groups", mount>>
             c == ListGroups("abort", fn)
  <2> HIDE DEF fn
  <2>1. /\ c \in Calls /\ c.do \in {"list", "listNothing"} /\ c.err = "abort"
        /\ c.from = "data" /\ c.to = "data"
    BY <1>1 DEF ListGroups, Call, Calls, NoDb, fn
  <2> HIDE DEF c
  <2>2. <<c>> \in Seq(Others(a))
    BY <1>2, <2>1
  <2> QED
    BY <2>2 DEF c, fn
<1> QED
  BY <1>3, <1>4

\* A mount's walk passes each area's folder.
LEMMA MountDeletes ==
  ASSUME NEW r \in Requests, r.op = "delete", NEW before, NEW mount \in {"mnt-c", "mnt-wt"},
         NEW a \in Area, AreaExists(tree.data, a) \/ a = Public,
         NEW Q, Lasting(DeleteCalls, Others(a), Q), DeleteFromFolder(a, r, before, mount) \in Q
  PROVE  DeleteFromMount(r, before, mount) \in Q
<1> DEFINE C == DeleteCalls
           N == Others(a)
           groups == GroupsOf(tree.data)
           From(b) == DeleteFromFolder(b, r, before, mount)
           seqs == [i \in 1..Len(groups) |-> From(groups[i])]
           rest == FlattenSeq(seqs)
           list == <<ListGroups("abort", <<"groups", mount>>)>>
           first == From(Public) \o list
           Entry(m) ==
             IF m = SharedFolder
               THEN From(Public) \o list \o FlattenSeq(seqs)
               ELSE IF AreaExists(tree.data, m) THEN From(m) ELSE <<>>
           entries == [i \in 1..Len(MntList) |-> Entry(MntList[i])]
           own == IF a \in Apps THEN a ELSE SharedFolder
<1>1. \A b \in Area : From(b) \in Seq(C) /\ (b # a => From(b) \in Seq(N))
  BY FolderDeletes
<1>2. N \subseteq C /\ Q \subseteq Seq(C) /\ \A p \in Seq(N) : p \in Seq(C)
  BY SeqSubset DEF Lasting
<1>3. groups \in Seq(Groups)
  BY GroupsOfType
<1>4. Public \in Area /\ Groups \subseteq Area /\ Apps \subseteq Area
  BY DEF Shared, Area
<1>5. list \in Seq(N) /\ <<ListFolders("abort", <<"mount", mount>>)>> \in Seq(N)
  BY DeleteLists
<1>6. From(a) \in Q /\ Lasting(C, N, Q)
  OBVIOUS
<1> HIDE DEF C, N, groups, From, list
<1>7. \A i \in 1..Len(groups) : groups[i] \in Groups /\ From(groups[i]) \in Seq(C)
  BY <1>1, <1>3, <1>4, ElementType
<1>8. seqs \in Seq(Seq(C)) /\ Len(seqs) = Len(groups)
  BY <1>3, <1>7
<1>9. \A i \in 1..Len(groups) : seqs[i] = From(groups[i])
  OBVIOUS
<1> HIDE DEF seqs
<1>10. rest \in Seq(C)
  BY <1>8, FlattenType
<1>11. ASSUME NEW b, \A i \in 1..Len(groups) : groups[i] # b, b = a
       PROVE  rest \in Seq(N)
  <2>1. \A i \in 1..Len(seqs) : seqs[i] \in Seq(N)
    BY <1>1, <1>4, <1>7, <1>8, <1>9, <1>11
  <2>2. seqs \in Seq(Seq(N))
    <3> DEFINE T == Seq(N)
    <3> HIDE DEF T
    <3>1. \A i \in 1..Len(seqs) : seqs[i] \in T
      BY <2>1 DEF T
    <3>2. seqs \in Seq(T)
      BY <1>8, <3>1
    <3> QED
      BY <3>2 DEF T
  <2> QED
    BY <2>2, FlattenType
<1>12. a \in Groups => rest \in Q
  <2> SUFFICES ASSUME a \in Groups PROVE rest \in Q
    OBVIOUS
  <2>1. a # Public
    BY DataAssumption
  <2>2. \E i \in 1..Len(groups) : groups[i] = a
    BY <2>1, GroupsOfHas DEF groups
  <2>3. \A i \in 1..Len(groups) : groups[i] = a => seqs[i] \in Q
    BY <1>6, <1>9
  <2>4. \A i \in 1..Len(groups) : groups[i] # a => seqs[i] \in Seq(N)
    BY <1>1, <1>4, <1>7, <1>9
  <2> QED
    BY <1>3, <1>6, <1>8, <2>2, <2>3, <2>4, WalkLasts DEF rest
<1> HIDE DEF rest
<1>13. first \in Seq(C) /\ (a # Public => first \in Seq(N)) /\ (a = Public => first \in Q)
  <2>1. From(Public) \in Seq(C) /\ list \in Seq(C)
    BY <1>1, <1>2, <1>4, <1>5
  <2>2. a # Public => From(Public) \in Seq(N)
    BY <1>1, <1>4
  <2>3. first \in Seq(C)
    BY <2>1, ConcatType
  <2>4. a # Public => first \in Seq(N)
    BY <1>5, <2>2, ConcatType
  <2>5. a = Public => first \in Q
    BY <1>6, <2>1, LastingBefore
  <2> QED
    BY <2>3, <2>4, <2>5
<1> HIDE DEF first
<1>14. /\ first \o rest \in Seq(C)
       /\ a \in Apps => first \o rest \in Seq(N)
       /\ a \notin Apps => first \o rest \in Q
  <2>1. first \o rest \in Seq(C)
    BY <1>10, <1>13, ConcatType
  <2>2. a \in Apps => first \o rest \in Seq(N)
    <3> SUFFICES ASSUME a \in Apps PROVE first \o rest \in Seq(N)
      OBVIOUS
    <3>1. a # Public /\ a \notin Groups
      BY DataAssumption DEF Shared
    <3>2. \A i \in 1..Len(groups) : groups[i] # a
      BY <1>7, <3>1
    <3> QED
      BY <1>11, <1>13, <3>1, <3>2, ConcatType
  <2>3. a = Public => first \o rest \in Q
    BY <1>6, <1>10, <1>13, LastingBefore
  <2>4. a \in Groups => first \o rest \in Q
    <3>1. a \in Groups => a # Public
      BY DataAssumption
    <3> QED
      BY <1>6, <1>12, <1>13, <3>1, LastingAfter
  <2> QED
    BY <2>1, <2>2, <2>3, <2>4 DEF Area, Shared
<1>15. Entry(SharedFolder) = first \o rest
  BY DEF first, rest
<1>16. \A m \in Apps : Entry(m) = IF AreaExists(tree.data, m) THEN From(m) ELSE <<>>
  BY DEF Apps
<1>17. MntList \in Seq(ToSet(MntList)) /\ ToSet(MntList) = Apps \cup {SharedFolder}
  BY DataAssumption DEF Apps
<1>18. <<>> \in Seq(N) /\ <<>> \in Seq(C)
  OBVIOUS
<1> HIDE DEF Entry
<1>19. SharedFolder \notin Apps
  BY DEF Apps
<1>20. \A m \in ToSet(MntList) :
         Entry(m) \in Seq(C) /\ (IF m = own THEN Entry(m) \in Q ELSE Entry(m) \in Seq(N))
  <2> TAKE m \in ToSet(MntList)
  <2>1. CASE m = SharedFolder
    BY <1>14, <1>15, <1>19, <2>1
  <2>2. CASE m \in Apps
    <3>1. Entry(m) \in Seq(C)
      BY <1>1, <1>4, <1>16, <1>18, <2>2
    <3>2. m = own => m = a /\ AreaExists(tree.data, a)
      <4>1. m = own => m = a
        BY <1>19, <2>2
      <4>2. m = a => a # Public
        BY <2>2, DataAssumption DEF Shared
      <4> QED
        BY <4>1, <4>2
    <3>3. m # own => m # a
      BY <2>2
    <3> QED
      BY <1>1, <1>4, <1>6, <1>16, <1>18, <2>2, <3>1, <3>2, <3>3
  <2> QED
    BY <1>17, <2>1, <2>2
<1>21. \A i \in 1..Len(MntList) : MntList[i] \in ToSet(MntList) /\ entries[i] = Entry(MntList[i])
  BY <1>17, ElementType
<1>22. entries \in Seq(Seq(C)) /\ Len(entries) = Len(MntList)
  <2>1. \A i \in 1..Len(MntList) : Entry(MntList[i]) \in Seq(C)
    BY <1>20, <1>21
  <2> QED
    BY <1>17, <2>1
<1>23. own \in ToSet(MntList)
  BY <1>17
<1>24. \E i \in 1..Len(MntList) : MntList[i] = own
  BY <1>23 DEF ToSet
<1> HIDE DEF entries, own
<1>25. /\ \A i \in 1..Len(MntList) : MntList[i] = own => entries[i] \in Q
       /\ \A i \in 1..Len(MntList) : MntList[i] # own => entries[i] \in Seq(N)
  BY <1>20, <1>21
<1>26. FlattenSeq(entries) \in Q
  BY <1>6, <1>17, <1>22, <1>24, <1>25, WalkLasts
<1>27. <<ListFolders("abort", <<"mount", mount>>)>> \o FlattenSeq(entries) \in Q
  BY <1>5, <1>6, <1>26, LastingAfter
<1> QED
  BY <1>27 DEF DeleteFromMount, ForAll, entries, Entry, seqs, From, groups, list

LEMMA DeletePlanHas ==
  ASSUME NEW r \in Requests, r.op = "delete", NEW before,
         NEW a \in Area, AreaExists(tree.data, a) \/ a = Public,
         NEW Q, Lasting(DeleteCalls, Others(a), Q),
         \A mount \in {"mnt-c", "mnt-wt"} : DeleteFromFolder(a, r, before, mount) \in Q
  PROVE  DeletePlan(r, before) \in Q
<1>1. DeleteFromMount(r, before, "mnt-c") \in Q /\ DeleteFromMount(r, before, "mnt-wt") \in Q
  BY MountDeletes
<1>2. DeleteFromMount(r, before, "mnt-wt") \in Seq(DeleteCalls)
  BY <1>1 DEF Lasting
<1> QED
  BY <1>1, <1>2, LastingBefore DEF DeletePlan

LEMMA DeletePlanCalls ==
  ASSUME NEW r \in Requests, r.op = "delete", NEW before
  PROVE  DeletePlan(r, before) \in Seq(DeleteCalls)
<1> DEFINE C == DeleteCalls
           N == Others(Public)
<1>1. N \subseteq C /\ Public \in Area
  BY DEF Others, Area, Shared
<1>2. \A mount \in {"mnt-c", "mnt-wt"} : DeleteFromFolder(Public, r, before, mount) \in Seq(C)
  BY <1>1, FolderDeletes
<1> HIDE DEF C, N
<1>3. Lasting(C, N, Seq(C))
  <2>1. \A p \in Seq(N), q, s \in Seq(C) : Cat(Cat(p, q), s) \in Seq(C)
    BY <1>1, SeqSubset, ConcatType DEF Cat
  <2> QED
    BY <1>1, <2>1 DEF Lasting
<1> QED
  BY <1>1, <1>2, <1>3, DeletePlanHas DEF C, N

-----------------------------------------------------------------------------
(* A deletion of a user's data. *)

\* What is left of a plan after its first calls.
After(p, n) == SubSeq(p, n + 1, Len(p))

LEMMA AfterIs ==
  ASSUME NEW C, NEW p \in Seq(C), NEW n \in 1..Len(p)
  PROVE  /\ After(p, n) \in Seq(C) /\ Len(After(p, n)) = Len(p) - n
         /\ \A i \in 1..(Len(p) - n) : After(p, n)[i] = p[n + i]
BY DEF After

LEMMA AfterOne ==
  ASSUME NEW C, NEW p \in Seq(C), p # <<>>
  PROVE  1 \in 1..Len(p) /\ After(p, 1) = Tail(p)
<1>1. 1 \in 1..Len(p) /\ Len(p) \in Nat
  OBVIOUS
<1>2. /\ After(p, 1) \in Seq(C) /\ Len(After(p, 1)) = Len(p) - 1
      /\ \A i \in 1..(Len(p) - 1) : After(p, 1)[i] = p[1 + i]
  BY <1>1, AfterIs
<1>3. /\ Tail(p) \in Seq(C) /\ Len(Tail(p)) = Len(p) - 1
      /\ \A i \in 1..(Len(p) - 1) : Tail(p)[i] = p[i + 1]
  BY <1>1
<1> QED
  BY <1>1, <1>2, <1>3

LEMMA HoldingAfter ==
  ASSUME NEW C, NEW S, NEW p \in Holding(C, S), NEW n \in 1..Len(p),
         \A i \in 1..n : p[i] \notin S
  PROVE  After(p, n) \in Holding(C, S)
<1>1. p \in Seq(C)
  BY DEF Holding
<1>2. PICK i \in 1..Len(p) : p[i] \in S
  BY DEF Holding
<1>3. i > n
  BY <1>1, <1>2
<1>4. i - n \in 1..(Len(p) - n) /\ n + (i - n) = i
  BY <1>1, <1>3
<1> DEFINE q == After(p, n)
<1>5. /\ q \in Seq(C) /\ Len(q) = Len(p) - n
      /\ \A m \in 1..(Len(p) - n) : q[m] = p[n + m]
  BY <1>1, AfterIs
<1> HIDE DEF q
<1>6. i - n \in 1..Len(q) /\ q[i - n] = p[i]
  BY <1>4, <1>5
<1>7. q \in Holding(C, S)
  BY <1>2, <1>5, <1>6 DEF Holding
<1> QED
  BY <1>7 DEF q

LEMMA AtOnceAfter ==
  ASSUME NEW k, NEW p \in AtOnce(k), NEW n \in 1..Len(p),
         \A i \in 1..n : p[i] \notin KeyCalls(k)
  PROVE  After(p, n) \in AtOnce(k)
<1> DEFINE C == DeleteCalls
           q == After(p, n)
<1>1. p \in Seq(C) /\ Len(p) \in Nat
  BY DEF AtOnce
<1>2. PICK i \in 1..Len(p) :
        p[i] \in KeyCalls(k) /\ \A m \in 1..(i - 1) : p[m] \notin SeatCalls(k[1])
  BY DEF AtOnce
<1> HIDE DEF C, q
<1>3. /\ q \in Seq(C) /\ Len(q) = Len(p) - n
      /\ \A m \in 1..(Len(p) - n) : q[m] = p[n + m]
  BY <1>1, AfterIs DEF q
<1>4. i > n
  BY <1>1, <1>2
<1>5. i - n \in 1..(Len(p) - n) /\ n + (i - n) = i
  BY <1>1, <1>4
<1>6. i - n \in 1..Len(q) /\ q[i - n] \in KeyCalls(k)
  BY <1>2, <1>3, <1>5
<1>7. \A m \in 1..(i - n - 1) : q[m] \notin SeatCalls(k[1])
  <2> TAKE m \in 1..(i - n - 1)
  <2>1. m \in 1..(Len(p) - n) /\ n + m \in 1..(i - 1)
    BY <1>1, <1>4
  <2> QED
    BY <1>2, <1>3, <2>1
<1> QED
  BY <1>3, <1>6, <1>7 DEF AtOnce, C, q

LEMMA SoonAfter ==
  ASSUME NEW k, NEW p \in Soon(k), NEW n \in 1..Len(p),
         \A i \in 1..n : p[i] \notin KeyCalls(k)
  PROVE  /\ After(p, n) \in Soon(k)
         /\ n = 1 /\ p[1] \in SeatCalls(k[1]) => After(p, n) \in AtOnce(k)
<1> DEFINE C == DeleteCalls
           q == After(p, n)
<1>1. p \in Seq(C) /\ Len(p) \in Nat
  BY DEF Soon
<1>2. PICK i \in 1..Len(p) :
        /\ p[i] \in KeyCalls(k)
        /\ \E j \in 1..i : \A m \in 1..(i - 1) : m = j \/ p[m] \notin SeatCalls(k[1])
  BY DEF Soon
<1>3. PICK j \in 1..i : \A m \in 1..(i - 1) : m = j \/ p[m] \notin SeatCalls(k[1])
  BY <1>2
<1> HIDE DEF C, q
<1>4. /\ q \in Seq(C) /\ Len(q) = Len(p) - n
      /\ \A m \in 1..(Len(p) - n) : q[m] = p[n + m]
  BY <1>1, AfterIs DEF q
<1>5. i > n
  BY <1>1, <1>2
<1>6. i - n \in 1..(Len(p) - n) /\ n + (i - n) = i
  BY <1>1, <1>5
<1>7. i - n \in 1..Len(q) /\ q[i - n] \in KeyCalls(k)
  BY <1>2, <1>4, <1>6
<1>8. \A m \in 1..(i - n - 1) : n + m = j \/ q[m] \notin SeatCalls(k[1])
  <2> TAKE m \in 1..(i - n - 1)
  <2>1. m \in 1..(Len(p) - n) /\ n + m \in 1..(i - 1)
    BY <1>1, <1>5
  <2> QED
    BY <1>3, <1>4, <2>1
<1>9. q \in Soon(k)
  <2> DEFINE x == IF j > n THEN j - n ELSE 1
             at == i - n
  <2>1. x \in 1..at
    BY <1>5
  <2>2. \A m \in 1..(at - 1) : m = x \/ q[m] \notin SeatCalls(k[1])
    <3> TAKE m \in 1..(at - 1)
    <3>1. n + m = j => m = x
      OBVIOUS
    <3> QED
      BY <1>8, <3>1
  <2>3. at \in 1..Len(q) /\ q[at] \in KeyCalls(k)
    BY <1>7
  <2> HIDE DEF x, at
  <2>4. \E o \in 1..at : \A m \in 1..(at - 1) : m = o \/ q[m] \notin SeatCalls(k[1])
    BY <2>1, <2>2
  <2> QED
    BY <1>4, <2>3, <2>4 DEF Soon, C
<1>10. n = 1 /\ p[1] \in SeatCalls(k[1]) => q \in AtOnce(k)
  <2> SUFFICES ASSUME n = 1, p[1] \in SeatCalls(k[1]) PROVE q \in AtOnce(k)
    OBVIOUS
  <2>1. j = 1
    BY <1>3, <1>5
  <2>2. \A m \in 1..(i - n - 1) : q[m] \notin SeatCalls(k[1])
    BY <1>8, <2>1
  <2> QED
    BY <1>4, <1>7, <2>2 DEF AtOnce, C
<1> QED
  BY <1>9, <1>10 DEF q

\* Where no key call comes first, one at once comes before any seat call.
LEMMA AtOnceFirst ==
  ASSUME NEW k, NEW p \in AtOnce(k)
  PROVE  p[1] \notin SeatCalls(k[1])
<1>1. PICK i \in 1..Len(p) :
        p[i] \in KeyCalls(k) /\ \A m \in 1..(i - 1) : p[m] \notin SeatCalls(k[1])
  BY DEF AtOnce
<1>2. CASE i = 1
  BY <1>1, <1>2 DEF KeyCalls, SeatCalls
<1>3. CASE i # 1
  <2>1. 1 \in 1..(i - 1)
    BY <1>3
  <2> QED
    BY <1>1, <2>1
<1> QED
  BY <1>2, <1>3

\* What a call of the deletion does that succeeds, or of which nobody learns
\* that there was nothing to do.
Passes ==
  /\ todo' = Tail(todo)
  /\ \A f \in Folders : tree'.data.file[f] =
       IF Now.do = "clearSeat" /\ f \in Now.set /\ tree.data.file[f] \in Versions
         THEN Empty ELSE tree.data.file[f]
  /\ \A k \in Keys : tree'.data.key[k] =
       IF Now.do = "clearKeys" /\ k \in Now.set THEN Absent ELSE tree.data.key[k]
  /\ Now.do = "clearSeat" => \A f \in Now.set : tree.data.file[f] # Empty

\* The seat's folder is empty: the walk of its area breaks off.
BreaksOff ==
  /\ Now.do = "clearSeat" /\ tree' = tree
  /\ \E f \in Now.set : tree.data.file[f] = Empty
  /\ \E n \in 1..Len(todo) : /\ \A i \in 1..n : todo[i].fn = Now.fn
                             /\ todo' = After(todo, n)

\* A step of a deletion fails and ends it, or leaves something behind and says
\* so to nobody, or goes on.
DeleteGoes ==
  \/ phase' = "reply" /\ result' = "error"
  \/ hist'.lost # {}
  \/ hist' = hist /\ phase' = phase /\ Passes
  \/ hist'.before = hist.before /\ phase' = phase /\ BreaksOff

LEMMA FailIgnored ==
  ASSUME NEW S, Now.err = "ignore", Fail(S)
  PROVE  todo' = Tail(todo) /\ Note(S) /\ phase' = phase
BY DEF Fail

LEMMA FailLeaves ==
  ASSUME NEW S, Now.err = "leave", Fail(S)
  PROVE  Leave /\ Note(S) /\ phase' = phase
BY DEF Fail

LEMMA Noted ==
  ASSUME hist \in History, NEW S, Note(S)
  PROVE  hist'.before = hist.before /\ hist'.lost = hist.lost \cup S /\ (S = {} => hist' = hist)
BY DEF Note, History

\* What nobody learned of is not forgotten before the next operation.
LEMMA LostStays ==
  ASSUME hist \in History, CallStep
  PROVE  hist.lost \subseteq hist'.lost
<1>1. \A bytes : Succeed(bytes) => hist.lost \subseteq hist'.lost
  BY DEF Succeed
<1>2. \A S : Note(S) => hist.lost \subseteq hist'.lost
  BY Noted
<1>3. \A S : Fail(S) => hist.lost \subseteq hist'.lost
  <2> TAKE S
  <2>1. [hist EXCEPT !.counted = @ \cup {Now.fn}].lost = hist.lost
    BY DEF History
  <2> QED
    BY <1>2, <2>1 DEF Fail
<1>4. hist' = hist => hist.lost \subseteq hist'.lost
  OBVIOUS
<1>5. CASE List
  BY <1>1, <1>3, <1>5 DEF List
<1>6. CASE CopyStep
  BY <1>1, <1>3, <1>6 DEF CopyStep
<1>7. CASE ClearStep
  BY <1>1, <1>3, <1>7 DEF ClearStep
<1>8. CASE CopyKeysStep
  BY <1>1, <1>2, <1>3, <1>8 DEF CopyKeysStep
<1>9. CASE ClearKeysStep
  BY <1>1, <1>3, <1>9 DEF ClearKeysStep
<1>10. CASE CheckRctStep
  BY <1>1, <1>3, <1>10 DEF CheckRctStep
<1>11. CASE CopyRctStep
  BY <1>1, <1>3, <1>11 DEF CopyRctStep
<1>12. CASE CopyAllStep
  BY <1>1, <1>3, <1>12 DEF CopyAllStep
<1>13. CASE ExportLinksStep
  BY <1>1, <1>3, <1>13 DEF ExportLinksStep
<1>14. CASE ImportLinksStep
  BY <1>1, <1>3, <1>14 DEF ImportLinksStep
<1>15. CASE ClearDefaultStep
  BY <1>1, <1>3, <1>15 DEF ClearDefaultStep
<1>16. CASE ClearSeatStep
  BY <1>1, <1>2, <1>3, <1>16 DEF ClearSeatStep
<1>19. CASE ListAreaStep
  BY <1>1, <1>3, <1>19 DEF ListAreaStep
<1>17. CASE ReturnStep
  BY <1>4, <1>17 DEF ReturnStep
<1>18. CASE TestSumStep
  BY <1>3, <1>4, <1>18 DEF TestSumStep
<1> QED
  BY <1>5, <1>6, <1>7, <1>8, <1>9, <1>10, <1>11, <1>12, <1>13, <1>14, <1>15, <1>16,
     <1>17, <1>18, <1>19 DEF CallStep

LEMMA DeleteStep ==
  ASSUME TypeInv, KeysInDbs(tree.data), Now \in DeleteCalls, Typed(Now), CallStep
  PROVE  DeleteGoes
<1>1. /\ Now.from = "data" /\ Now.to = "data"
      /\ \/ Now.do \in {"list", "listNothing"} /\ Now.err = "abort"
         \/ Now.do = "listArea" /\ Now.err = "leave"
         \/ Now.do = "clearKeys" /\ Now.err = "ignore"
         \/ Now.do = "clearSeat" /\ Now.err = "leave" /\ \E f \in Folders : Now.set = {f}
  BY DEF DeleteCalls
<1>2. tree \in Trees /\ tree.data \in Tree /\ hist \in History
  BY DEF TypeInv, Trees
<1>3. tree[Now.from] = tree.data /\ tree[Now.to] = tree.data
  BY <1>1
<1>4. \A bytes : Succeed(bytes) => todo' = Tail(todo) /\ hist' = hist /\ phase' = phase
  BY DEF Succeed
<1>5. \A S : S # {} /\ Note(S) => DeleteGoes
  BY <1>2, Noted DEF DeleteGoes
<1>6. CASE List
  <2>1. Now.do \in {"list", "listNothing"} /\ tree' = tree
    BY <1>6 DEF List, Calling
  <2>2. Succeed(0) \/ Fail({})
    BY <1>6 DEF List
  <2>3. CASE Succeed(0)
    BY <1>4, <2>1, <2>3 DEF DeleteGoes, Passes
  <2>4. CASE Fail({})
    BY <1>1, <2>1, <2>4, FailAborts DEF DeleteGoes
  <2> QED
    BY <2>2, <2>3, <2>4
<1>7. CASE ClearKeysStep
  <2> DEFINE dst == tree[Now.to]
             held == {k \in Now.set : dst.key[k] # Absent}
  <2>1. Now.do = "clearKeys" /\ Now.err = "ignore"
    BY <1>1, <1>7 DEF ClearKeysStep, Calling
  <2>2. CASE Succeed(0) /\ Set(Now.to, DeleteKeys(tree[Now.to], Now.set))
    <3> DEFINE t == DeleteKeys(tree.data, Now.set)
    <3>1. tree'.data = t
      BY <1>1, <1>2, <1>3, <2>2, DataSet
    <3>2. /\ t.key = [k \in Keys |-> IF k \in Now.set THEN Absent ELSE tree.data.key[k]]
          /\ t.file = tree.data.file
      BY <1>2, KeysAfterDelete
    <3> HIDE DEF t
    <3>3. Passes
      BY <1>4, <2>1, <2>2, <3>1, <3>2 DEF Passes
    <3> QED
      BY <1>4, <2>2, <3>3 DEF DeleteGoes
  <2>3. CASE Now.db \notin tree[Now.to].db /\ Fail({}) /\ UNCHANGED tree
    <3>1. \A k \in Now.set : k \in Keys /\ <<k[1], k[3]>> \notin tree.data.db
      BY <1>3, <2>1, <2>3 DEF Typed, OnKeys
    <3>2. \A k \in Now.set : tree.data.key[k] = Absent
      BY <3>1 DEF KeysInDbs
    <3>3. todo' = Tail(todo) /\ Note({}) /\ phase' = phase
      BY <2>1, <2>3, FailIgnored
    <3>4. Passes
      BY <2>1, <2>3, <3>2, <3>3 DEF Passes
    <3> QED
      BY <1>2, <3>3, <3>4, Noted DEF DeleteGoes
  <2>4. CASE Fail(held) /\ \E S \in SUBSET held : S # held
    <3> HIDE DEF held
    <3>1. held # {}
      <4>1. PICK S \in SUBSET held : S # held
        BY <2>4
      <4> QED
        BY <4>1
    <3>2. Note(held)
      BY <2>1, <2>4, FailIgnored
    <3> QED
      BY <1>5, <3>1, <3>2
  <2>5. ~ (Now.from = "ext")
    BY <1>1
  <2>6. \/ Succeed(0) /\ Set(Now.to, DeleteKeys(dst, Now.set))
        \/ Now.db \notin dst.db /\ Fail({}) /\ UNCHANGED tree
        \/ Fail(held) /\ \E S \in (SUBSET held) \ {held} : Set(Now.to, DeleteKeys(dst, S))
    BY <1>7, <2>5 DEF ClearKeysStep
  <2>7. (\E S \in (SUBSET held) \ {held} : Set(Now.to, DeleteKeys(dst, S)))
          => \E S \in SUBSET held : S # held
    <3> HIDE DEF held
    <3> QED
      OBVIOUS
  <2> QED
    BY <2>2, <2>3, <2>4, <2>6, <2>7
<1>8. CASE ClearSeatStep
  <2> DEFINE held == {f \in Now.set : tree.data.file[f] \in Versions}
             emptied == [tree.data EXCEPT !.file = [f \in Folders |->
                           IF f \in held THEN Empty ELSE tree.data.file[f]]]
  <2>1. Now.do = "clearSeat" /\ Now.err = "leave"
    BY <1>1, <1>8 DEF ClearSeatStep, Calling
  <2>2. PICK g \in Folders : Now.set = {g}
    BY <1>1, <2>1
  <2>3. Versions \cap {Absent, Empty} = {} /\ Absent # Empty
    BY DataAssumption DEF Absent, Empty
  <2>4. CASE ~Exists(tree[Now.to], Now.set) /\ Succeed(0) /\ UNCHANGED tree
    <3>1. tree.data.file[g] = Absent
      BY <1>3, <2>2, <2>4 DEF Exists
    <3>2. Passes
      BY <1>4, <2>1, <2>2, <2>3, <2>4, <3>1 DEF Passes
    <3> QED
      BY <1>4, <2>4, <3>2 DEF DeleteGoes
  <2>5. CASE (\E f \in Now.set : tree[Now.to].file[f] = Empty) /\ Fail({}) /\ UNCHANGED tree
    <3>1. Leave /\ Note({}) /\ phase' = phase
      BY <2>1, <2>5, FailLeaves
    <3>2. BreaksOff
      BY <1>3, <2>1, <2>5, <3>1 DEF BreaksOff, Leave, After
    <3> QED
      BY <1>2, <3>1, <3>2, Noted DEF DeleteGoes
  <2>6. CASE held # {} /\ Succeed(0) /\ Set(Now.to, emptied)
    <3>1. /\ emptied.key = tree.data.key
          /\ emptied.file = [f \in Folders |->
               IF f \in held THEN Empty ELSE tree.data.file[f]]
      BY <1>2 DEF Tree
    <3>2. tree.data.file[g] \in Versions
      BY <2>2, <2>6
    <3> HIDE DEF emptied
    <3>3. tree'.data = emptied
      BY <1>1, <1>2, <2>6, DataSet
    <3>4. Passes
      BY <1>4, <2>1, <2>2, <2>3, <2>6, <3>1, <3>2, <3>3 DEF Passes
    <3> QED
      BY <1>4, <2>6, <3>4 DEF DeleteGoes
  <2>7. CASE held # {} /\ Note(held)
    <3> HIDE DEF held
    <3> QED
      BY <1>5, <2>7
  <2>8. CASE held # {} /\ Fail(held)
    <3> HIDE DEF held
    <3>1. Note(held)
      BY <2>1, <2>8, FailLeaves
    <3> QED
      BY <2>7, <2>8, <3>1
  <2> QED
    BY <1>3, <1>8, <2>4, <2>5, <2>6, <2>7, <2>8 DEF ClearSeatStep
<1>10. CASE ListAreaStep
  <2>1. Now.do = "listArea" /\ Now.err = "leave" /\ tree' = tree
    BY <1>1, <1>10 DEF ListAreaStep, Calling
  <2>2. CASE Succeed(0)
    BY <1>4, <2>1, <2>2 DEF DeleteGoes, Passes
  <2>3. CASE Fail({Now.area})
    <3>1. Note({Now.area}) /\ {Now.area} # {}
      BY <2>1, <2>3, FailLeaves
    <3> QED
      BY <1>5, <3>1
  <2> QED
    BY <1>10, <2>2, <2>3 DEF ListAreaStep
<1>9. CASE \/ ClearStep \/ CopyStep \/ CopyKeysStep \/ CheckRctStep \/ CopyRctStep
           \/ CopyAllStep \/ ExportLinksStep \/ ImportLinksStep \/ ClearDefaultStep
           \/ ReturnStep \/ TestSumStep
  <2>1. Now.do \in {"clear", "copy", "copyKeys", "checkRct", "copyRct", "copyAll",
                    "exportLinks", "importLinks", "clearConfFolder", "clearConfDb", "return",
                    "testSum"}
    BY <1>9 DEF ClearStep, CopyStep, CopyKeysStep, CheckRctStep, CopyRctStep, CopyAllStep,
                ExportLinksStep, ImportLinksStep, ClearDefaultStep, ReturnStep, TestSumStep,
                Calling
  <2> QED
    BY <1>1, <2>1
<1> QED
  BY <1>6, <1>7, <1>8, <1>9, <1>10 DEF CallStep

\* The seat's folder of an area is there, without files.
Emptied(r, a, t) == \E f \in Folders : f[1] = a /\ SelectsFile(r, f) /\ t.file[f] = Empty

\* Of what is selected, a call that is left deletes what is still there, unless
\* the walk of its area broke off.
DeleteInv ==
  phase = "work" /\ req.op = "delete" /\ hist.lost = {} =>
    /\ todo \in Seq(DeleteCalls)
    /\ \A f \in Folders : SelectsFile(req, f) =>
         \/ tree.data.file[f] \in {Absent, Empty}
         \/ todo \in Holding(DeleteCalls, FileCalls(f))
    /\ \A k \in Keys : SelectsKey(req, k) =>
         \/ tree.data.key[k] = Absent
         \/ Emptied(req, k[1], hist.before)
         \/ todo \in AtOnce(k)
         \/ todo \in Soon(k) /\ ~Emptied(req, k[1], tree.data)

LEMMA DeleteBegins ==
  ASSUME TypeInv, RequestInv, KeysInDbs(tree.data), BeginDelete
  PROVE  DeleteInv'
<1> DEFINE r == Head(batch)
           C == DeleteCalls
<1>1. batch # <<>> /\ r.op = "delete" /\ req' = r /\ tree' = tree
  BY DEF BeginDelete, Begin
<1>2. PICK before : todo' = DeletePlan(r, before)
  BY DEF BeginDelete, Begin
<1>3. r \in Requests
  BY <1>1, NextRequest DEF RequestInv
<1>4. hist'.before = tree.data
  BY BeginsKeep DEF Begins
<1> HIDE DEF r, C
<1>5. todo' \in Seq(C)
  BY <1>1, <1>2, <1>3, DeletePlanCalls DEF C
<1>6. ASSUME NEW f \in Folders, SelectsFile(r, f), tree.data.file[f] # Absent
      PROVE  todo' \in Holding(C, FileCalls(f))
  <2>1. f[1] \in Area /\ AreaExists(tree.data, f[1])
    BY <1>6, DataAssumption DEF AreaExists
  <2>2. Lasting(C, Others(f[1]), Holding(C, FileCalls(f)))
    BY FileLasts DEF C
  <2>3. \A mount \in {"mnt-c", "mnt-wt"} :
          DeleteFromFolder(f[1], r, before, mount) \in Holding(C, FileCalls(f))
    BY <1>1, <1>3, <1>6, <2>1, FolderDeletes DEF C
  <2> QED
    BY <1>1, <1>2, <1>3, <2>1, <2>2, <2>3, DeletePlanHas DEF C
<1>7. ASSUME NEW k \in Keys, SelectsKey(r, k), tree.data.key[k] # Absent
      PROVE  todo' \in Soon(k)
  <2>1. <<k[1], k[3]>> \in tree.data.db
    BY <1>7 DEF KeysInDbs
  <2>2. k[1] \in Area /\ AreaExists(tree.data, k[1])
    BY <2>1, DataAssumption DEF AreaExists
  <2>3. Lasting(C, Others(k[1]), Soon(k))
    BY SoonLasts DEF C
  <2>4. \A mount \in {"mnt-c", "mnt-wt"} :
          DeleteFromFolder(k[1], r, before, mount) \in Soon(k)
    BY <1>1, <1>3, <1>7, <2>1, <2>2, FolderDeletes
  <2> QED
    BY <1>1, <1>2, <1>3, <2>2, <2>3, <2>4, DeletePlanHas DEF C
<1> QED
  BY <1>1, <1>4, <1>5, <1>6, <1>7 DEF DeleteInv, Emptied, C


LEMMA PassesKeeps ==
  ASSUME TypeInv, RequestInv, DeleteInv, phase = "work", req.op = "delete", hist.lost = {},
         todo # <<>>, Passes, hist' = hist, phase' = phase, req' = req
  PROVE  DeleteInv'
<1> DEFINE C == DeleteCalls
<1>1. todo \in Seq(C) /\ Now \in C /\ 1 \in 1..Len(todo) /\ todo' = After(todo, 1)
  <2>1. todo \in Seq(C)
    BY DEF DeleteInv
  <2> HIDE DEF C
  <2>2. todo' = Tail(todo)
    BY DEF Passes
  <2>3. 1 \in 1..Len(todo) /\ Now \in C
    BY <2>1 DEF Now
  <2> QED
    BY <2>1, <2>2, <2>3, AfterOne
<1>2. todo' \in Seq(C)
  <2> HIDE DEF C
  <2> QED
    BY <1>1, AfterIs
<1>3. \A i \in 1..1 : todo[i] = Now
  BY DEF Now
<1>4. ASSUME NEW f \in Folders, SelectsFile(req, f)
      PROVE  tree'.data.file[f] \in {Absent, Empty} \/ todo' \in Holding(C, FileCalls(f))
  <2>1. CASE tree.data.file[f] \in {Absent, Empty}
    BY <2>1 DEF Passes
  <2>2. CASE tree.data.file[f] \notin {Absent, Empty} /\ Now \in FileCalls(f)
    <3>1. tree.data.file[f] \in Versions
      BY <2>2 DEF TypeInv, Trees, Tree
    <3>2. Now.do = "clearSeat" /\ f \in Now.set
      BY <2>2 DEF FileCalls
    <3> QED
      BY <3>1, <3>2 DEF Passes
  <2>3. CASE tree.data.file[f] \notin {Absent, Empty} /\ Now \notin FileCalls(f)
    <3>1. todo \in Holding(C, FileCalls(f))
      BY <1>4, <2>3 DEF DeleteInv
    <3> HIDE DEF C
    <3>2. After(todo, 1) \in Holding(C, FileCalls(f))
      BY <1>1, <1>3, <2>3, <3>1, HoldingAfter
    <3> QED
      BY <1>1, <3>2
  <2> QED
    BY <2>1, <2>2, <2>3
<1>5. ASSUME NEW k \in Keys, SelectsKey(req, k)
      PROVE  \/ tree'.data.key[k] = Absent
             \/ Emptied(req, k[1], hist.before)
             \/ todo' \in AtOnce(k)
             \/ todo' \in Soon(k) /\ ~Emptied(req, k[1], tree'.data)
  <2>1. CASE tree.data.key[k] = Absent
    BY <2>1 DEF Passes
  <2>2. CASE Now \in KeyCalls(k)
    <3>1. Now.do = "clearKeys" /\ k \in Now.set
      BY <2>2 DEF KeyCalls
    <3> QED
      BY <3>1 DEF Passes
  <2>3. CASE Now \notin KeyCalls(k) /\ todo \in AtOnce(k)
    BY <1>1, <1>3, <2>3, AtOnceAfter
  <2>4. CASE Now \notin KeyCalls(k) /\ todo \in Soon(k) /\ ~Emptied(req, k[1], tree.data)
    <3>1. After(todo, 1) \in Soon(k)
      BY <1>1, <1>3, <2>4, SoonAfter
    <3>2. Now \in SeatCalls(k[1]) => After(todo, 1) \in AtOnce(k)
      BY <1>1, <1>3, <2>4, SoonAfter DEF Now
    <3>3. ASSUME Now \notin SeatCalls(k[1])
          PROVE  ~Emptied(req, k[1], tree'.data)
      <4> SUFFICES ASSUME NEW f \in Folders, f[1] = k[1], SelectsFile(req, f),
                          tree'.data.file[f] = Empty
                   PROVE  FALSE
        BY DEF Emptied
      <4>1. tree.data.file[f] # Empty
        BY <2>4 DEF Emptied
      <4>2. Now.do = "clearSeat" /\ f \in Now.set
        BY <4>1 DEF Passes
      <4>3. Now.fn[1] = f[1]
        BY <1>1, <4>2 DEF DeleteCalls
      <4> QED
        BY <1>1, <3>3, <4>2, <4>3 DEF SeatCalls
    <3> QED
      BY <1>1, <3>1, <3>2, <3>3
  <2> QED
    BY <1>5, <2>1, <2>2, <2>3, <2>4 DEF DeleteInv
<1> QED
  BY <1>2, <1>4, <1>5 DEF DeleteInv

\* The seat's folder of an area, of a request to delete.
LEMMA OneSeatFolder ==
  ASSUME NEW r, r.op = "delete", NEW f \in Folders, NEW g \in Folders, f[1] = g[1],
         SelectsFile(r, f), SelectsFile(r, g)
  PROVE  f = g
<1>1. f[2] = g[2]
  BY DEF SelectsFile
<1>2. f \in Area \X (Nat \X Nat) /\ g \in Area \X (Nat \X Nat)
  BY DataAssumption
<1> QED
  BY <1>1, <1>2

LEMMA BreaksOffKeeps ==
  ASSUME TypeInv, RequestInv, DeleteInv, phase = "work", req.op = "delete", hist.lost = {},
         todo # <<>>, BreaksOff, hist'.before = hist.before, phase' = phase, req' = req
  PROVE  DeleteInv'
<1> DEFINE C == DeleteCalls
<1>1. todo \in Seq(C) /\ Now \in C /\ Now = todo[1]
  <2>1. todo \in Seq(C)
    BY DEF DeleteInv
  <2> HIDE DEF C
  <2> QED
    BY <2>1 DEF Now
<1>2. PICK n \in 1..Len(todo) :
        (\A i \in 1..n : todo[i].fn = Now.fn) /\ todo' = After(todo, n)
  BY DEF BreaksOff
<1>3. Now.do = "clearSeat" /\ tree' = tree /\ \E f \in Now.set : tree.data.file[f] = Empty
  BY DEF BreaksOff
<1>4. PICK g \in Folders : Now.set = {g} /\ g[1] = Now.fn[1] /\ tree.data.file[g] = Empty
  BY <1>1, <1>3 DEF DeleteCalls
<1>5. SelectsFile(req, g)
  <2>1. Now \in Fits(req)
    BY <1>1 DEF RequestInv
  <2>2. Now.to = "data" /\ Now.do \in OnFolders
    BY <1>1, <1>3 DEF DeleteCalls, OnFolders
  <2> QED
    BY <1>4, <2>1, <2>2 DEF Fits, Selected
<1>6. Now \in SeatCalls(g[1])
  BY <1>1, <1>3, <1>4 DEF SeatCalls
<1>7. \A i \in 1..n : todo[i] \in C /\ todo[i].fn[1] = g[1]
  <2> HIDE DEF C
  <2>1. \A i \in 1..n : todo[i] \in C
    BY <1>1, <1>2
  <2> QED
    BY <1>2, <1>4, <2>1
<1>8. todo' \in Seq(C)
  <2> HIDE DEF C
  <2> QED
    BY <1>1, <1>2, AfterIs
<1>9. ASSUME NEW f \in Folders, SelectsFile(req, f)
      PROVE  tree'.data.file[f] \in {Absent, Empty} \/ todo' \in Holding(C, FileCalls(f))
  <2> SUFFICES ASSUME tree.data.file[f] \notin {Absent, Empty}
               PROVE  todo' \in Holding(C, FileCalls(f))
    BY <1>3
  <2>1. todo \in Holding(C, FileCalls(f))
    BY <1>9 DEF DeleteInv
  <2>2. f[1] # g[1]
    BY <1>4, <1>5, <1>9, OneSeatFolder
  <2>3. \A i \in 1..n : todo[i] \notin FileCalls(f)
    BY <1>7, <2>2 DEF FileCalls, DeleteCalls
  <2> HIDE DEF C
  <2> QED
    BY <1>2, <2>1, <2>3, HoldingAfter
<1>10. ASSUME NEW k \in Keys, SelectsKey(req, k)
       PROVE  \/ tree'.data.key[k] = Absent
              \/ Emptied(req, k[1], hist.before)
              \/ todo' \in AtOnce(k)
              \/ todo' \in Soon(k) /\ ~Emptied(req, k[1], tree'.data)
  <2>1. CASE tree.data.key[k] = Absent \/ Emptied(req, k[1], hist.before)
    BY <1>3, <2>1
  <2>2. k[1] # g[1] => \A i \in 1..n : todo[i] \notin KeyCalls(k)
    BY <1>7 DEF KeyCalls, DeleteCalls
  <2>3. CASE todo \in AtOnce(k)
    <3>1. k[1] # g[1]
      BY <1>1, <1>6, <2>3, AtOnceFirst
    <3> QED
      BY <1>2, <2>2, <2>3, <3>1, AtOnceAfter
  <2>4. CASE todo \in Soon(k) /\ ~Emptied(req, k[1], tree.data)
    <3>1. k[1] # g[1]
      BY <1>4, <1>5, <2>4 DEF Emptied
    <3> QED
      BY <1>2, <1>3, <2>2, <2>4, <3>1, SoonAfter
  <2> QED
    BY <1>10, <2>1, <2>3, <2>4 DEF DeleteInv
<1> QED
  BY <1>8, <1>9, <1>10 DEF DeleteInv

LEMMA DeleteCallKeeps ==
  ASSUME TypeInv, RequestInv, KeysInDbs(tree.data), DeleteInv, CallStep, phase = "work",
         req.op = "delete", todo # <<>>, req' = req
  PROVE  \/ phase' = "reply" /\ result' = "error"
         \/ hist'.lost # {}
         \/ DeleteInv' /\ phase' = phase
<1>1. CASE hist.lost # {}
  BY <1>1, LostStays DEF TypeInv
<1>2. CASE hist.lost = {}
  <2> DEFINE C == DeleteCalls
  <2>1. todo \in Seq(C)
    BY <1>2 DEF DeleteInv
  <2>2. Now \in C
    <3> HIDE DEF C
    <3> QED
      BY <2>1 DEF Now
  <2>3. Typed(Now)
    <3>1. Now \in Fits(req)
      BY DEF RequestInv, Now
    <3> QED
      BY <3>1 DEF Fits
  <2>4. DeleteGoes
    BY <2>2, <2>3, DeleteStep
  <2> QED
    BY <1>2, <2>4, PassesKeeps, BreaksOffKeeps DEF DeleteGoes
<1> QED
  BY <1>1, <1>2

LEMMA DeleteEnds ==
  ASSUME TypeInv, DeleteInv, Complete
  PROVE  DeleteComplete'
<1>1. /\ phase = "work" /\ todo = <<>> /\ req' = req /\ hist' = hist /\ tree' = tree
  BY DEF Complete
<1>2. \A S : todo \notin Holding(DeleteCalls, S)
  BY <1>1 DEF Holding
<1>3. \A k : todo \notin Soon(k) /\ todo \notin AtOnce(k)
  BY <1>1 DEF Soon, AtOnce
<1> SUFFICES ASSUME req.op = "delete", hist.lost = {}
             PROVE  /\ \A f \in Folders : SelectsFile(req, f) =>
                         tree.data.file[f] \in {Absent, Empty}
                    /\ \A k \in Keys : SelectsKey(req, k) =>
                         \/ tree.data.key[k] = Absent
                         \/ Emptied(req, k[1], hist.before)
  BY <1>1 DEF DeleteComplete, Answered, Emptied
<1> QED
  BY <1>1, <1>2, <1>3 DEF DeleteInv

LEMMA NextDeletes ==
  ASSUME TypeInv, RequestInv, KeysInDbs(tree.data), DeleteInv, DeleteComplete, [Next]_vars
  PROVE  DeleteInv' /\ DeleteComplete'
<1>1. CASE UNCHANGED vars
  BY <1>1 DEF vars, DeleteInv, DeleteComplete, Answered
<1>2. CASE phase' \in {"idle", "next"}
  BY <1>2 DEF DeleteInv, DeleteComplete, Answered
<1>3. CASE req'.op # "delete"
  BY <1>3 DEF DeleteInv, DeleteComplete, Answered
<1>4. CASE phase' = "reply" /\ result' = "error"
  BY <1>4 DEF DeleteInv, DeleteComplete, Answered
<1>5. CASE Receive \/ RefuseInLibrary \/ Reply \/ Crash
           \/ WriteFile \/ WriteKey \/ Update \/ Uninstall
  <2>1. phase' \in {"idle", "next"}
    BY <1>5 DEF Receive, RefuseInLibrary, Reply, Crash, WriteFile, WriteKey, Update,
                Uninstall, Change
  <2> QED
    BY <1>2, <2>1
<1>6. CASE Refuse
  BY <1>4, <1>6 DEF Refuse, Begin
<1>7. CASE BeginBackup \/ BeginRecovery \/ BeginReset
  BY <1>3, <1>7 DEF BeginBackup, BeginRecovery, BeginReset, Begin
<1>8. CASE BeginDelete
  <2>1. phase' = "work"
    BY <1>8 DEF BeginDelete, Begin
  <2> QED
    BY <1>8, <2>1, DeleteBegins DEF DeleteComplete, Answered
<1>9. CASE CallStep
  <2>1. phase = "work" /\ todo # <<>> /\ req' = req /\ phase' \in {"work", "reply"}
    BY <1>9, CallEffect DEF RequestInv, Effect, Goes
  <2>2. CASE req.op = "delete"
    <3>1. \/ phase' = "reply" /\ result' = "error"
          \/ hist'.lost # {}
          \/ DeleteInv' /\ phase' = phase
      BY <1>9, <2>1, <2>2, DeleteCallKeeps
    <3>2. CASE hist'.lost # {}
      BY <3>2 DEF DeleteInv, DeleteComplete
    <3> QED
      BY <1>4, <2>1, <3>1, <3>2 DEF DeleteComplete, Answered
  <2> QED
    BY <1>3, <2>1, <2>2
<1>10. CASE Archive \/ Cleanup
  BY <1>3, <1>10 DEF Archive, Cleanup
<1>11. CASE Uncompress
  <2>1. req.op = "recover" /\ req' = req
    BY <1>11 DEF RequestInv, Uncompress
  <2> QED
    BY <1>3, <2>1
<1>12. CASE Complete
  <2>1. phase' = "reply"
    BY <1>12 DEF Complete
  <2> QED
    BY <1>12, <2>1, DeleteEnds DEF DeleteInv
<1> QED
  BY <1>1, <1>5, <1>6, <1>7, <1>8, <1>9, <1>10, <1>11, <1>12 DEF Next

\* A deletion that ends without an error nobody learned of has deleted every
\* file of the user's seat, and every key outside the areas whose seat folder
\* had no file when it began: there the walk breaks off.
THEOREM Deletes == Spec => []DeleteComplete
<1> DEFINE IInv == TypeInv /\ RequestInv /\ KeysInDbs(tree.data) /\ DeleteInv /\ DeleteComplete
<1>1. Init => IInv
  <2>1. Init => DeleteInv /\ DeleteComplete
    BY DEF Init, DeleteInv, DeleteComplete, Answered
  <2> QED
    BY <2>1, InitTypes, InitKeysInDbs
<1>2. IInv /\ [Next]_vars => IInv'
  BY NextTypes, NextKeepsDbs, NextDeletes
<1> QED
  BY <1>1, <1>2, PTL DEF Spec

=============================================================================
