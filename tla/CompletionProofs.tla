-------------------------- MODULE CompletionProofs ---------------------------
(***************************************************************************)
(* Proofs that a backup and a recovery that report success have done their *)
(* work.  A backup has collected all it selects: it is collected, or a     *)
(* call that is left collects it.  A recovery has brought back what the    *)
(* archive has: it is back, or was just deleted and the next call copies   *)
(* it, or calls that are left delete and copy it.  The two together bring  *)
(* back what was there when the backup was made.  And errors that a        *)
(* recovery only adds to its bytes are outweighed by folders that are      *)
(* back, or the tests of the sum see them.                                 *)
(***************************************************************************)
EXTENDS DataProofs

-----------------------------------------------------------------------------
(* What plans have.  Q says of each x which plans do for it. *)

Covers(C, Q, X) == {p \in Seq(C) : \A x \in X : p \in Q[x]}

LEMMA CoversLess ==
  ASSUME NEW C, NEW Q, NEW X, NEW Y, Y \subseteq X, NEW p \in Covers(C, Q, X)
  PROVE  p \in Covers(C, Q, Y)
BY DEF Covers

LEMMA CoversNone ==
  ASSUME NEW C, NEW Q, NEW p \in Seq(C)
  PROVE  p \in Covers(C, Q, {})
BY DEF Covers

LEMMA CoversCalls ==
  ASSUME NEW C, NEW Q, NEW X, NEW p \in Covers(C, Q, X)
  PROVE  p \in Seq(C)
BY DEF Covers

LEMMA CoversBoth ==
  ASSUME NEW C, NEW Q, NEW X, NEW Y, \A x \in X \cup Y : Lasting(C, C, Q[x]),
         NEW p \in Covers(C, Q, X), NEW q \in Covers(C, Q, Y)
  PROVE  p \o q \in Covers(C, Q, X \cup Y)
<1>1. p \in Seq(C) /\ q \in Seq(C)
  BY DEF Covers
<1>2. p \o q \in Seq(C)
  BY <1>1, ConcatType
<1>3. ASSUME NEW x \in X PROVE p \o q \in Q[x]
  <2>1. p \in Q[x] /\ Lasting(C, C, Q[x])
    BY DEF Covers
  <2> QED
    BY <1>1, <2>1, LastingBefore
<1>4. ASSUME NEW x \in Y PROVE p \o q \in Q[x]
  <2>1. q \in Q[x] /\ Lasting(C, C, Q[x])
    BY DEF Covers
  <2> QED
    BY <1>1, <2>1, LastingAfter
<1> DEFINE pq == p \o q
<1> HIDE DEF pq
<1>5. pq \in Covers(C, Q, X \cup Y)
  BY <1>2, <1>3, <1>4 DEF Covers, pq
<1> QED
  BY <1>5 DEF pq

\* A walk does what one of its parts does.
LEMMA CoversAlong ==
  ASSUME NEW C, NEW Q, NEW X, \A x \in X : Lasting(C, C, Q[x]),
         NEW seqs \in Seq(Seq(C)),
         \A x \in X : \E i \in 1..Len(seqs) : seqs[i] \in Q[x]
  PROVE  FlattenSeq(seqs) \in Covers(C, Q, X)
<1> DEFINE all == FlattenSeq(seqs)
<1> HIDE DEF all
<1>1. all \in Seq(C)
  BY FlattenType DEF all
<1>2. ASSUME NEW x \in X PROVE all \in Q[x]
  <2>1. PICK i \in 1..Len(seqs) : seqs[i] \in Q[x]
    OBVIOUS
  <2>2. \A j \in 1..(i - 1) : seqs[j] \in Seq(C)
    OBVIOUS
  <2> QED
    BY <2>1, <2>2, FlattenLasts DEF all
<1> QED
  BY <1>1, <1>2 DEF Covers, all

\* The plan of one call.
LEMMA HoldsOne ==
  ASSUME NEW C, NEW S, NEW c \in C, c \in S
  PROVE  <<c>> \in Holding(C, S)
<1> DEFINE p == <<c>>
<1>1. p \in Seq(C) /\ 1 \in 1..Len(p) /\ p[1] = c
  OBVIOUS
<1> HIDE DEF p
<1>2. p \in Holding(C, S)
  BY <1>1 DEF Holding
<1> QED
  BY <1>2 DEF p

LEMMA PairOf == ASSUME NEW c, NEW d PROVE <<c>> \o <<d>> = <<c, d>>
<1> DEFINE S == {c, d}
<1>1. <<c>> \in Seq(S) /\ <<d>> \in Seq(S) /\ <<c, d>> \in Seq(S)
  OBVIOUS
<1>2. Len(<<c>>) = 1 /\ Len(<<d>>) = 1 /\ Len(<<c, d>>) = 2
  OBVIOUS
<1>3. /\ <<c>> \o <<d>> \in Seq(S) /\ Len(<<c>> \o <<d>>) = 2
      /\ (<<c>> \o <<d>>)[1] = <<c>>[1] /\ (<<c>> \o <<d>>)[1 + 1] = <<d>>[1]
  BY <1>1, <1>2, ConcatType, ConcatParts
<1> DEFINE x == <<c>> \o <<d>>
           y == <<c, d>>
<1>4. x \in Seq(S) /\ Len(x) = 2 /\ x[1] = c /\ x[2] = d
  BY <1>3
<1>5. y \in Seq(S) /\ Len(y) = 2 /\ y[1] = c /\ y[2] = d
  BY <1>1
<1> HIDE DEF x, y, S
<1>6. x = y
  BY <1>4, <1>5
<1> QED
  BY <1>6 DEF x, y

-----------------------------------------------------------------------------
(* What a backup collects. *)

\* The calls it makes: the first error ends it.
BackupCalls(r) ==
  {c \in Calls :
     /\ c.err = "abort" /\ c.from = "data"
     /\ \/ c.do \in {"list", "listNothing"}
        \/ c.to = "coll" /\ c.do = "exportLinks"
        \/ c.to = "coll" /\ c.do = "copyAll" /\ r.type = "all"
        \/ /\ c.to = "coll" /\ c.do = "copyRct"
           /\ c.area \in Area /\ (r.type = "application" => c.area = r.app)
        \/ /\ c.to = "coll" /\ c.do = "copy"
           /\ c.set \in SUBSET {f \in Folders : SelectsFile(r, f)}
        \/ /\ c.to = "coll" /\ c.do = "copyKeys"
           /\ c.db \in Databases /\ (r.type = "application" => c.db[1] = r.app)
           /\ c.set \in SUBSET {k \in Keys : <<k[1], k[3]>> = c.db /\ SelectsKey(r, k)}}

\* What there is to collect: files, keys, resource tables.
Items == ({"file"} \X Folders) \cup ({"key"} \X Keys) \cup ({"table"} \X Area)

\* The calls that collect it.
Collecting(r, x) ==
  {c \in BackupCalls(r) :
     \/ c.do = "copyAll"
     \/ x[1] = "file" /\ c.do = "copy" /\ x[2] \in c.set
     \/ x[1] = "key" /\ c.do = "copyKeys" /\ x[2] \in c.set
     \/ x[1] = "table" /\ c.do = "copyRct" /\ x[2] = c.area}
Collect(r) == [x \in Items |-> Holding(BackupCalls(r), Collecting(r, x))]
Collects(r, X) == Covers(BackupCalls(r), Collect(r), X)

\* The areas a backup is about.
Tabled(r, t) ==
  {a \in Area : IF r.type = "application" THEN a = r.app ELSE AreaExists(t, a)}

ToCollect(r, t) ==
  ({"file"} \X {f \in Folders : SelectsFile(r, f) /\ t.file[f] # Absent})
    \cup ({"key"} \X {k \in Keys : SelectsKey(r, k) /\ t.key[k] # Absent})
    \cup ({"table"} \X Tabled(r, t))

LEMMA CollectLasts ==
  ASSUME NEW r, NEW x \in Items
  PROVE  Lasting(BackupCalls(r), BackupCalls(r), Collect(r)[x])
BY HoldingLasts DEF Collect

LEMMA CollectsLess ==
  ASSUME NEW r, NEW X, NEW Y, Y \subseteq X, NEW p \in Collects(r, X)
  PROVE  p \in Collects(r, Y)
BY CoversLess DEF Collects

LEMMA CollectsBoth ==
  ASSUME NEW r, NEW X \in SUBSET Items, NEW Y \in SUBSET Items,
         NEW p \in Collects(r, X), NEW q \in Collects(r, Y)
  PROVE  p \o q \in Collects(r, X \cup Y)
<1>1. \A x \in X \cup Y : Lasting(BackupCalls(r), BackupCalls(r), Collect(r)[x])
  BY CollectLasts
<1> QED
  BY <1>1, CoversBoth DEF Collects

LEMMA CollectsAlong ==
  ASSUME NEW r, NEW X \in SUBSET Items, NEW seqs \in Seq(Seq(BackupCalls(r))),
         \A x \in X : \E i \in 1..Len(seqs) : seqs[i] \in Collects(r, {x})
  PROVE  FlattenSeq(seqs) \in Collects(r, X)
<1>1. \A x \in X : Lasting(BackupCalls(r), BackupCalls(r), Collect(r)[x])
  BY CollectLasts
<1>2. \A x \in X : \E i \in 1..Len(seqs) : seqs[i] \in Collect(r)[x]
  BY DEF Collects, Covers
<1> QED
  BY <1>1, <1>2, CoversAlong DEF Collects

LEMMA CollectsOne ==
  ASSUME NEW r, NEW c \in BackupCalls(r), NEW X \in SUBSET Items,
         \A x \in X : c \in Collecting(r, x)
  PROVE  <<c>> \in Collects(r, X)
<1>1. <<c>> \in Seq(BackupCalls(r))
  BY OneType
<1>2. \A x \in X : <<c>> \in Collect(r)[x]
  BY HoldsOne DEF Collect
<1> DEFINE p == <<c>>
<1> HIDE DEF p
<1>3. p \in Collects(r, X)
  BY <1>1, <1>2 DEF Collects, Covers, p
<1> QED
  BY <1>3 DEF p

LEMMA CollectsNothing ==
  ASSUME NEW r, NEW p \in Seq(BackupCalls(r))
  PROVE  p \in Collects(r, {})
BY CoversNone DEF Collects

LEMMA CollectsCalls ==
  ASSUME NEW r, NEW X, NEW p \in Collects(r, X)
  PROVE  p \in Seq(BackupCalls(r))
BY CoversCalls DEF Collects

\* The user's folder and the filter pick what the request selects.
LEMMA BackupSelects ==
  ASSUME NEW r \in Requests, r.op = "backup", r.type \in {"user", "application"}
  PROVE  /\ \A f \in Folders : f \in UserFolder(f[1], r.user, r.seat) <=> Owns(r, f[2])
         /\ \A k \in Keys : (r.type = "application" => k[1] = r.app) =>
              (Filter(r.type, r.user, r.seat, k[2]) <=> SelectsKey(r, k))
         /\ \A f \in Folders : r.type = "user" => (SelectsFile(r, f) <=> Owns(r, f[2]))
         /\ \A f \in Folders : r.type = "application" =>
              (SelectsFile(r, f) <=> f[1] = r.app /\ (f[2] = Node \/ Owns(r, f[2])))
<1>1. r.user = AllUsers => r.seat = AllSeats
  BY DEF Requests
<1>2. ~EveryUser(r) /\ r.op # "delete" /\ r.op # "restore"
  BY DEF EveryUser
<1>3. ASSUME NEW f \in Folders
      PROVE  f \in UserFolder(f[1], r.user, r.seat) <=> Owns(r, f[2])
  <2>1. f \in UserFolder(f[1], r.user, r.seat) <=> f[2] # Node /\ OwnedBy(f[2], r.user, r.seat)
    BY DEF UserFolder
  <2>2. CASE r.user = AllUsers
    BY <1>1, <2>1, <2>2 DEF OwnedBy, Owns
  <2>3. CASE r.user # AllUsers /\ r.seat = AllSeats
    BY <2>1, <2>3 DEF OwnedBy, Owns
  <2>4. CASE r.user # AllUsers /\ r.seat # AllSeats
    <3>1. f[2] = <<f[2][1], f[2][2]>>
      BY DataAssumption
    <3>2. OwnedBy(f[2], r.user, r.seat) <=> f[2] = <<r.user, r.seat>>
      BY <2>4 DEF OwnedBy
    <3> QED
      BY <2>1, <2>4, <3>1, <3>2 DEF Owns
  <2> QED
    BY <2>2, <2>3, <2>4
<1>4. ASSUME NEW k \in Keys, r.type = "application" => k[1] = r.app
      PROVE  Filter(r.type, r.user, r.seat, k[2]) <=> SelectsKey(r, k)
  <2>1. CASE r.type = "user"
    BY <1>2, <2>1 DEF Filter, SelectsKey, Owns
  <2>2. CASE r.type = "application"
    BY <1>2, <1>4, <2>2 DEF Filter, SelectsKey, Owns
  <2> QED
    BY <2>1, <2>2
<1>5. ASSUME NEW f \in Folders, r.type = "user" PROVE SelectsFile(r, f) <=> Owns(r, f[2])
  BY <1>2, <1>5 DEF SelectsFile
<1>6. ASSUME NEW f \in Folders, r.type = "application"
      PROVE  SelectsFile(r, f) <=> f[1] = r.app /\ (f[2] = Node \/ Owns(r, f[2]))
  BY <1>2, <1>6 DEF SelectsFile
<1> QED
  BY <1>3, <1>4, <1>5, <1>6

LEMMA CopyCollects ==
  ASSUME NEW r, NEW S \in SUBSET Folders, \A f \in S : SelectsFile(r, f), NEW fn \in Labels
  PROVE  <<Copy("data", "coll", S, "abort", fn)>> \in Collects(r, {"file"} \X S)
<1> DEFINE c == Copy("data", "coll", S, "abort", fn)
<1>1. c \in Calls
  BY CopyCall
<1>2. c.do = "copy" /\ c.from = "data" /\ c.to = "coll" /\ c.err = "abort" /\ c.set = S
  BY DEF Copy, Call
<1> HIDE DEF c
<1>3. c \in BackupCalls(r)
  BY <1>1, <1>2 DEF BackupCalls
<1>4. \A x \in {"file"} \X S : c \in Collecting(r, x)
  BY <1>2, <1>3 DEF Collecting
<1>5. {"file"} \X S \subseteq Items
  BY DEF Items
<1>6. <<c>> \in Collects(r, {"file"} \X S)
  BY <1>3, <1>4, <1>5, CollectsOne
<1> QED
  BY <1>6 DEF c

LEMMA BackupUserCollects ==
  ASSUME NEW r \in Requests, r.op = "backup", r.type \in {"user", "application"},
         NEW a, r.type = "application" => a = r.app
  PROVE  BackupUser(a, r) \in Collects(r, {"file"} \X {f \in Folders : f[1] = a /\ Owns(r, f[2])})
<1> DEFINE S == UserFolder(a, r.user, r.seat)
           O == {f \in Folders : f[1] = a /\ Owns(r, f[2])}
<1>1. S = O
  BY BackupSelects DEF UserFolder
<1>2. \A f \in O : SelectsFile(r, f)
  BY BackupSelects
<1>3. "user" \in Labels
  BY DEF Labels
<1>4. O \in SUBSET Folders
  OBVIOUS
<1> HIDE DEF S, O
<1>5. <<Copy("data", "coll", O, "abort", "user")>> \in Collects(r, {"file"} \X O)
  BY <1>2, <1>3, <1>4, CopyCollects
<1> QED
  BY <1>1, <1>5 DEF BackupUser, S, O

LEMMA CopyRctCollects ==
  ASSUME NEW r, NEW a \in Area, r.type = "application" => a = r.app, NEW fn \in Labels
  PROVE  <<CopyRct(a, fn)>> \in Collects(r, {"table"} \X {a})
<1> DEFINE c == CopyRct(a, fn)
<1>1. c \in Calls
  BY DEF CopyRct, Call, Calls
<1>2. c.do = "copyRct" /\ c.from = "data" /\ c.to = "coll" /\ c.err = "abort" /\ c.area = a
  BY DEF CopyRct, Call
<1> HIDE DEF c
<1>3. c \in BackupCalls(r)
  BY <1>1, <1>2 DEF BackupCalls
<1>4. \A x \in {"table"} \X {a} : c \in Collecting(r, x)
  BY <1>2, <1>3 DEF Collecting
<1>5. {"table"} \X {a} \subseteq Items
  BY DEF Items
<1>6. <<c>> \in Collects(r, {"table"} \X {a})
  BY <1>3, <1>4, <1>5, CollectsOne
<1> QED
  BY <1>6 DEF c

LEMMA SilentCollects ==
  ASSUME NEW r, NEW a \in Apps, NEW fn \in Labels
  PROVE  /\ <<ListFolders("abort", fn)>> \in Collects(r, {})
         /\ <<ListGroups("abort", fn)>> \in Collects(r, {})
         /\ <<ExportLinks(a, fn)>> \in Collects(r, {})
<1>1. ListFolders("abort", fn) \in BackupCalls(r)
  BY DEF ListFolders, Call, Calls, BackupCalls
<1>2. ListGroups("abort", fn) \in BackupCalls(r)
  BY DEF ListGroups, Call, Calls, BackupCalls
<1>3. ExportLinks(a, fn) \in BackupCalls(r)
  BY DEF ExportLinks, Call, Calls, BackupCalls, Area
<1> QED
  BY <1>1, <1>2, <1>3, OneType, CollectsNothing

\* The keys of a list of databases.
LEMMA BackupDatabasesCollect ==
  ASSUME NEW r \in Requests, r.op = "backup", r.type \in {"user", "application"},
         NEW dbs \in Seq(Databases),
         \A i \in 1..Len(dbs) : r.type = "application" => dbs[i][1] = r.app
  PROVE  BackupDatabases(dbs, r) \in
           Collects(r, {"key"} \X {k \in Keys : /\ SelectsKey(r, k)
                                                /\ \E i \in 1..Len(dbs) : dbs[i] = <<k[1], k[3]>>})
<1> DEFINE S(d) == FilterKeys(d, r.type, r.user, r.seat)
           c(d) == CopyDb("data", "coll", d, S(d), "abort", "databases")
           C == BackupCalls(r)
           p == BackupDatabases(dbs, r)
           K == {k \in Keys : SelectsKey(r, k) /\ \E i \in 1..Len(dbs) : dbs[i] = <<k[1], k[3]>>}
<1>1. ASSUME NEW i \in 1..Len(dbs)
      PROVE  /\ c(dbs[i]) \in C /\ c(dbs[i]).do = "copyKeys"
             /\ c(dbs[i]).set = {k \in Keys : <<k[1], k[3]>> = dbs[i] /\ SelectsKey(r, k)}
  <2> DEFINE d == dbs[i]
  <2>1. d \in Databases /\ (r.type = "application" => d[1] = r.app)
    BY ElementType
  <2>2. S(d) = {k \in Keys : <<k[1], k[3]>> = d /\ SelectsKey(r, k)}
    <3>1. \A k \in Keys : <<k[1], k[3]>> = d =>
            (Filter(r.type, r.user, r.seat, k[2]) <=> SelectsKey(r, k))
      BY <2>1, BackupSelects
    <3> HIDE DEF d
    <3> QED
      BY <3>1 DEF FilterKeys
  <2>3. "databases" \in Labels
    BY DEF Labels
  <2> HIDE DEF S, d
  <2>4. S(d) \in SUBSET Keys
    BY <2>2
  <2>5. c(d) \in Calls
    BY <2>1, <2>3, <2>4, CopyDbCall
  <2>6. /\ c(d).do = "copyKeys" /\ c(d).from = "data" /\ c(d).to = "coll" /\ c(d).db = d
        /\ c(d).err = "abort" /\ c(d).set = S(d)
    BY DEF CopyDb, Call
  <2> HIDE DEF c
  <2>7. c(d) \in C
    BY <2>1, <2>2, <2>5, <2>6 DEF BackupCalls
  <2> QED
    BY <2>2, <2>6, <2>7 DEF d
<1>2. p = [i \in 1..Len(dbs) |-> c(dbs[i])]
  BY DEF BackupDatabases
<1> HIDE DEF c, C, p
<1>3. Len(dbs) \in Nat
  OBVIOUS
<1>4. p \in Seq(C) /\ Len(p) = Len(dbs)
  BY <1>1, <1>2, <1>3
<1>5. ASSUME NEW x \in {"key"} \X K PROVE p \in Collect(r)[x]
  <2>1. PICK k \in K : x = <<"key", k>>
    OBVIOUS
  <2>2. PICK i \in 1..Len(dbs) : dbs[i] = <<k[1], k[3]>>
    OBVIOUS
  <2>3. c(dbs[i]) \in C /\ c(dbs[i]).do = "copyKeys" /\ k \in c(dbs[i]).set
    BY <1>1, <2>2
  <2>4. p[i] = c(dbs[i]) /\ i \in 1..Len(p)
    BY <1>2, <1>4
  <2>5. p[i] \in Collecting(r, x)
    BY <2>1, <2>3, <2>4 DEF Collecting, C
  <2>6. x \in Items
    BY DEF Items
  <2> QED
    BY <1>4, <2>4, <2>5, <2>6 DEF Collect, Holding, C
<1> QED
  BY <1>4, <1>5 DEF Collects, Covers, C, p

\* A walk over areas, each with its user's folder and its table.
AreaItems(r, a) ==
  ({"file"} \X {f \in Folders : f[1] = a /\ Owns(r, f[2])}) \cup ({"table"} \X {a})

LEMMA AreaItemsAre ==
  ASSUME NEW r, NEW a \in Area
  PROVE  AreaItems(r, a) \in SUBSET Items
BY DEF AreaItems, Items

LEMMA AreaCollects ==
  ASSUME NEW r \in Requests, r.op = "backup", r.type = "user", NEW a \in Area,
         NEW fn \in Labels
  PROVE  BackupUser(a, r) \o <<CopyRct(a, fn)>> \in Collects(r, AreaItems(r, a))
<1> DEFINE X == {"file"} \X {f \in Folders : f[1] = a /\ Owns(r, f[2])}
           Y == {"table"} \X {a}
<1>1. BackupUser(a, r) \in Collects(r, X)
  BY BackupUserCollects
<1>2. <<CopyRct(a, fn)>> \in Collects(r, Y)
  BY CopyRctCollects
<1>3. X \in SUBSET Items /\ Y \in SUBSET Items
  BY DEF Items
<1> HIDE DEF X, Y
<1>4. BackupUser(a, r) \o <<CopyRct(a, fn)>> \in Collects(r, X \cup Y)
  BY <1>1, <1>2, <1>3, CollectsBoth
<1> QED
  BY <1>4 DEF AreaItems, X, Y

LEMMA BackupUserLocalCollects ==
  ASSUME NEW r \in Requests, r.op = "backup", r.type = "user",
         NEW X \in SUBSET Items,
         \A x \in X : \E a \in Apps : AreaExists(tree.data, a) /\ x \in AreaItems(r, a)
  PROVE  BackupUserLocal(r) \in Collects(r, X)
<1> DEFINE C == BackupCalls(r)
           apps == AppsOf(tree.data)
           both(a) == <<CopyRct(a, "local"), ExportLinks(a, "local")>>
           Plan(a) == BackupUser(a, r) \o both(a)
           seqs == [i \in 1..Len(apps) |-> Plan(apps[i])]
<1>1. ASSUME NEW a \in Apps PROVE Plan(a) \in Collects(r, AreaItems(r, a))
  <2>1. a \in Area /\ "local" \in Labels
    BY DEF Area, Labels
  <2> DEFINE p == BackupUser(a, r)
             q == <<CopyRct(a, "local")>>
             s == <<ExportLinks(a, "local")>>
  <2>2. p \o q \in Collects(r, AreaItems(r, a))
    BY <2>1, AreaCollects
  <2>3. s \in Collects(r, {})
    BY <2>1, SilentCollects
  <2>4. (p \o q) \o s \in Collects(r, AreaItems(r, a) \cup {})
    BY <2>1, <2>2, <2>3, AreaItemsAre, CollectsBoth
  <2>5. q \o s = both(a)
    BY PairOf
  <2>6. p \in Seq(C) /\ q \in Seq(C) /\ s \in Seq(C)
    BY <2>1, <2>3, BackupUserCollects, CopyRctCollects, CollectsCalls
  <2> HIDE DEF p, q, s, C
  <2>7. (p \o q) \o s = p \o (q \o s)
    BY <2>6
  <2> QED
    BY <2>4, <2>5, <2>7 DEF p
<1>2. apps \in Seq(Apps)
  BY AppsOfType
<1> HIDE DEF C, apps, Plan
<1>3. \A i \in 1..Len(apps) : Plan(apps[i]) \in Seq(C)
  BY <1>1, <1>2, ElementType, CollectsCalls DEF C
<1>4. seqs \in Seq(Seq(C)) /\ Len(seqs) = Len(apps)
  BY <1>2, <1>3
<1>5. ASSUME NEW x \in X PROVE \E i \in 1..Len(seqs) : seqs[i] \in Collects(r, {x})
  <2>1. PICK a \in Apps : AreaExists(tree.data, a) /\ x \in AreaItems(r, a)
    OBVIOUS
  <2>2. PICK i \in 1..Len(apps) : apps[i] = a
    BY <2>1, AppsOfHas DEF apps
  <2>3. Plan(a) \in Collects(r, {x})
    BY <1>1, <2>1, CollectsLess
  <2>4. i \in 1..Len(seqs) /\ seqs[i] = Plan(a)
    BY <1>4, <2>2
  <2> QED
    BY <2>3, <2>4
<1> HIDE DEF seqs
<1>6. FlattenSeq(seqs) \in Collects(r, X)
  BY <1>4, <1>5, CollectsAlong DEF C
<1> QED
  BY <1>6 DEF BackupUserLocal, ForAll, apps, Plan, seqs

LEMMA BackupUserSharedCollects ==
  ASSUME NEW r \in Requests, r.op = "backup", r.type = "user",
         NEW X \in SUBSET Items,
         \A x \in X : \E a \in Shared : AreaExists(tree.data, a) /\ x \in AreaItems(r, a)
  PROVE  BackupUserShared(r) \in Collects(r, X)
<1> DEFINE C == BackupCalls(r)
           public == IF AreaExists(tree.data, Public) THEN <<Public>> ELSE <<>>
           groups == GroupsOf(tree.data)
           Plan(a) == BackupUser(a, r) \o <<CopyRct(a, "shared")>>
           seqs(areas) == [i \in 1..Len(areas) |-> Plan(areas[i])]
           list == <<ListGroups("abort", "shared")>>
           In(areas) == {x \in X : \E i \in 1..Len(areas) : x \in AreaItems(r, areas[i])}
<1>1. ASSUME NEW a \in Shared PROVE Plan(a) \in Collects(r, AreaItems(r, a))
  <2>1. a \in Area /\ "shared" \in Labels
    BY DEF Area, Labels
  <2> QED
    BY <2>1, AreaCollects
<1>2. public \in Seq(Shared) /\ groups \in Seq(Shared)
  <2>1. Public \in Shared /\ Groups \subseteq Shared
    BY DEF Shared
  <2>2. <<Public>> \in Seq(Shared) /\ <<>> \in Seq(Shared)
    BY <2>1, OneType
  <2> QED
    BY <2>1, <2>2, GroupsOfType, SeqSubset
<1>3. list \in Collects(r, {})
  <2>1. "shared" \in Labels
    BY DEF Labels
  <2>2. list \in Seq(C)
    BY <2>1, OneType DEF ListGroups, Call, Calls, BackupCalls
  <2> QED
    BY <2>2, CollectsNothing
<1>4. ASSUME NEW x \in X PROVE x \in In(public) \/ x \in In(groups)
  <2>1. PICK a \in Shared : AreaExists(tree.data, a) /\ x \in AreaItems(r, a)
    OBVIOUS
  <2>2. CASE a = Public
    <3>1. public = <<Public>>
      BY <2>1, <2>2
    <3>2. 1 \in 1..Len(public) /\ public[1] = a
      BY <2>2, <3>1
    <3> HIDE DEF public
    <3> QED
      BY <2>1, <3>2
  <2>3. CASE a \in Groups
    <3>1. PICK i \in 1..Len(groups) : groups[i] = a
      BY <2>1, <2>3, GroupsOfHas
    <3> QED
      BY <2>1, <3>1
  <2> QED
    BY <2>2, <2>3 DEF Shared
<1> HIDE DEF C, public, groups, Plan, list
<1>5. ASSUME NEW areas \in Seq(Shared)
      PROVE  FlattenSeq(seqs(areas)) \in Collects(r, In(areas))
  <2> DEFINE s == seqs(areas)
             I == In(areas)
  <2>1. \A i \in 1..Len(areas) : areas[i] \in Shared /\ Plan(areas[i]) \in Seq(C)
    BY <1>1, ElementType, CollectsCalls DEF C
  <2>2. s \in Seq(Seq(C)) /\ Len(s) = Len(areas)
    BY <2>1
  <2>3. ASSUME NEW x \in I PROVE \E i \in 1..Len(s) : s[i] \in Collects(r, {x})
    <3>1. PICK i \in 1..Len(areas) : x \in AreaItems(r, areas[i])
      OBVIOUS
    <3>2. Plan(areas[i]) \in Collects(r, {x})
      BY <1>1, <2>1, <3>1, CollectsLess
    <3>3. i \in 1..Len(s) /\ s[i] = Plan(areas[i])
      BY <2>2
    <3> QED
      BY <3>2, <3>3
  <2>4. I \in SUBSET Items
    OBVIOUS
  <2> HIDE DEF s, I
  <2>5. FlattenSeq(s) \in Collects(r, I)
    BY <2>2, <2>3, <2>4, CollectsAlong DEF C
  <2> QED
    BY <2>5 DEF s, I
<1> DEFINE P == FlattenSeq(seqs(public))
           G == FlattenSeq(seqs(groups))
           XP == In(public)
           XG == In(groups)
<1>6. P \in Collects(r, XP) /\ G \in Collects(r, XG)
  BY <1>2, <1>5
<1>7. XP \in SUBSET Items /\ XG \in SUBSET Items /\ X \subseteq (XP \cup {}) \cup XG
  BY <1>4
<1>8. BackupUserShared(r) = P \o list \o G
  BY DEF BackupUserShared, ForAll, public, groups, Plan, list
<1> HIDE DEF P, G, XP, XG
<1>9. P \o list \in Collects(r, XP \cup {})
  BY <1>3, <1>6, <1>7, CollectsBoth
<1>10. P \o list \o G \in Collects(r, (XP \cup {}) \cup XG)
  BY <1>6, <1>7, <1>9, CollectsBoth
<1> QED
  BY <1>7, <1>8, <1>10, CollectsLess

\* What is collected is in an area that exists.
LEMMA CollectedThere ==
  ASSUME NEW t, KeysInDbs(t)
  PROVE  /\ \A f \in Folders : t.file[f] # Absent => f[1] \in Area /\ AreaExists(t, f[1])
         /\ \A k \in Keys : t.key[k] # Absent => k[1] \in Area /\ AreaExists(t, k[1])
<1>1. \A f \in Folders : f[1] \in Area
  BY DataAssumption
<1>2. \A k \in Keys : k[1] \in Area
  BY DataAssumption
<1>3. \A k \in Keys : t.key[k] # Absent => AreaExists(t, k[1])
  <2> SUFFICES ASSUME NEW k \in Keys, t.key[k] # Absent PROVE AreaExists(t, k[1])
    OBVIOUS
  <2>1. <<k[1], k[3]>> \in t.db /\ <<k[1], k[3]>>[1] = k[1]
    BY DEF KeysInDbs
  <2> QED
    BY <2>1 DEF AreaExists
<1>4. \A f \in Folders : t.file[f] # Absent => AreaExists(t, f[1])
  BY DEF AreaExists
<1> QED
  BY <1>1, <1>2, <1>3, <1>4

LEMMA ToCollectItems ==
  ASSUME NEW r, NEW t
  PROVE  ToCollect(r, t) \in SUBSET Items
BY DEF ToCollect, Items, Tabled

LEMMA BackupUserAllCollects ==
  ASSUME NEW r \in Requests, r.op = "backup", r.type = "user",
         KeysInDbs(tree.data), AppsOf(tree.data) # <<>>
  PROVE  BackupUserAll(r) \in Collects(r, ToCollect(r, tree.data))
<1> DEFINE C == BackupCalls(r)
           t == tree.data
           X == ToCollect(r, t)
           apps == AppsOf(t)
           Databases_(a) == BackupDatabases(LocalDbs(a), r)
           seqs == [i \in 1..Len(apps) |-> Databases_(apps[i])]
           list == <<ListFolders("abort", "user_all")>>
           local == BackupUserLocal(r)
           shared == BackupUserShared(r)
           sharedDbs == BackupDatabases(SharedDbs(t), r)
           L == {x \in X : \E a \in Apps : AreaExists(t, a) /\ x \in AreaItems(r, a)}
           S == {x \in X : \E a \in Shared : AreaExists(t, a) /\ x \in AreaItems(r, a)}
           KeysOf(A) == {"key"} \X {k \in Keys : /\ k[1] \in A /\ SelectsKey(r, k)
                                                 /\ AreaExists(t, k[1])}
           KL == KeysOf(Apps)
           KS == KeysOf(Shared)
<1>1. X \in SUBSET Items /\ L \in SUBSET Items /\ S \in SUBSET Items
      /\ KL \in SUBSET Items /\ KS \in SUBSET Items
  <2>1. X \in SUBSET Items
    BY ToCollectItems
  <2>2. KL \in SUBSET Items /\ KS \in SUBSET Items
    BY DEF Items
  <2> QED
    BY <2>1, <2>2
<1>2. X \subseteq ((({} \cup L) \cup S) \cup KL) \cup KS
  <2> SUFFICES ASSUME NEW x \in X PROVE x \in L \/ x \in S \/ x \in KL \/ x \in KS
    OBVIOUS
  <2>1. CASE x[1] = "file"
    <3>1. PICK f \in Folders : x = <<"file", f>> /\ SelectsFile(r, f) /\ t.file[f] # Absent
      BY <2>1 DEF ToCollect
    <3>2. f[1] \in Area /\ AreaExists(t, f[1])
      BY <3>1, CollectedThere
    <3>3. Owns(r, f[2])
      BY <3>1, BackupSelects
    <3>4. x \in AreaItems(r, f[1])
      BY <3>1, <3>3 DEF AreaItems
    <3> QED
      BY <3>2, <3>4 DEF Area
  <2>2. CASE x[1] = "key"
    <3>1. PICK k \in Keys : x = <<"key", k>> /\ SelectsKey(r, k) /\ t.key[k] # Absent
      BY <2>2 DEF ToCollect
    <3>2. k[1] \in Area /\ AreaExists(t, k[1])
      BY <3>1, CollectedThere
    <3> QED
      BY <3>1, <3>2 DEF Area
  <2>3. CASE x[1] = "table"
    <3>1. PICK a \in Tabled(r, t) : x = <<"table", a>>
      BY <2>3 DEF ToCollect
    <3>2. a \in Area /\ AreaExists(t, a)
      BY DEF Tabled
    <3>3. x \in AreaItems(r, a)
      BY <3>1 DEF AreaItems
    <3> QED
      BY <3>2, <3>3 DEF Area
  <2> QED
    BY <2>1, <2>2, <2>3 DEF ToCollect
<1>3. list \in Collects(r, {})
  <2>1. "user_all" \in Labels
    BY DEF Labels
  <2>2. list \in Seq(C)
    BY <2>1, OneType DEF ListFolders, Call, Calls, BackupCalls
  <2> QED
    BY <2>2, CollectsNothing
<1>4. local \in Collects(r, L)
  BY <1>1, BackupUserLocalCollects
<1>5. shared \in Collects(r, S)
  BY <1>1, BackupUserSharedCollects
<1>6. FlattenSeq(seqs) \in Collects(r, KL)
  <2> DEFINE D(a) == {"key"} \X {k \in Keys : SelectsKey(r, k)
                                   /\ \E i \in 1..Len(LocalDbs(a)) : LocalDbs(a)[i] = <<k[1], k[3]>>}
  <2>1. ASSUME NEW a \in Apps PROVE Databases_(a) \in Collects(r, D(a))
    <3>1. a \in Area /\ {a} \X ToSet(Policies) \subseteq Databases
      BY DEF Area, Databases
    <3>2. LocalDbs(a) \in Seq(Databases)
      BY <3>1, LocalDbsType, SeqSubset
    <3> QED
      BY <3>2, BackupDatabasesCollect
  <2>2. apps \in Seq(Apps)
    BY AppsOfType
  <2>3. ASSUME NEW x \in KL
        PROVE  \E a \in Apps : AreaExists(t, a) /\ x \in D(a)
    <3>1. PICK k \in Keys : x = <<"key", k>> /\ k[1] \in Apps /\ SelectsKey(r, k) /\ AreaExists(t, k[1])
      OBVIOUS
    <3>2. k[3] \in ToSet(Policies)
      BY DataAssumption
    <3>3. \E i \in 1..Len(LocalDbs(k[1])) : LocalDbs(k[1])[i] = <<k[1], k[3]>>
      BY <3>2, LocalDbsHas
    <3> QED
      BY <3>1, <3>3
  <2> HIDE DEF C, D, KL, apps, Databases_
  <2>4. \A i \in 1..Len(apps) : apps[i] \in Apps /\ Databases_(apps[i]) \in Seq(C)
    BY <2>1, <2>2, ElementType, CollectsCalls DEF C
  <2>5. seqs \in Seq(Seq(C)) /\ Len(seqs) = Len(apps)
    BY <2>2, <2>4
  <2>6. ASSUME NEW x \in KL PROVE \E i \in 1..Len(seqs) : seqs[i] \in Collects(r, {x})
    <3>1. PICK a \in Apps : AreaExists(t, a) /\ x \in D(a)
      BY <2>3
    <3>2. PICK i \in 1..Len(apps) : apps[i] = a
      BY <3>1, AppsOfHas DEF apps
    <3>3. Databases_(a) \in Collects(r, {x})
      BY <2>1, <3>1, CollectsLess
    <3>4. i \in 1..Len(seqs) /\ seqs[i] = Databases_(a)
      BY <2>5, <3>2
    <3> QED
      BY <3>3, <3>4
  <2> HIDE DEF seqs
  <2> QED
    BY <1>1, <2>5, <2>6, CollectsAlong DEF C
<1>7. sharedDbs \in Collects(r, KS)
  <2> DEFINE D == {"key"} \X {k \in Keys : SelectsKey(r, k)
                       /\ \E i \in 1..Len(SharedDbs(t)) : SharedDbs(t)[i] = <<k[1], k[3]>>}
  <2>1. Shared \X ToSet(Policies) \subseteq Databases
    BY DEF Area, Databases
  <2>2. SharedDbs(t) \in Seq(Databases)
    BY <2>1, SharedDbsType, SeqSubset
  <2>3. sharedDbs \in Collects(r, D)
    BY <2>2, BackupDatabasesCollect
  <2>4. KS \subseteq D
    <3> SUFFICES ASSUME NEW k \in Keys, k[1] \in Shared, SelectsKey(r, k), AreaExists(t, k[1])
                 PROVE  \E i \in 1..Len(SharedDbs(t)) : SharedDbs(t)[i] = <<k[1], k[3]>>
      OBVIOUS
    <3>1. k[3] \in ToSet(Policies)
      BY DataAssumption
    <3> QED
      BY <3>1, SharedDbsHas
  <2> HIDE DEF D, KS, sharedDbs
  <2> QED
    BY <2>3, <2>4, CollectsLess
<1>8. BackupUserAll(r) = list \o local \o shared \o FlattenSeq(seqs) \o sharedDbs
  BY DEF BackupUserAll, ForAll
<1> DEFINE keys == FlattenSeq(seqs)
<1> HIDE DEF list, local, shared, keys, sharedDbs, L, S, KL, KS, X
<1>9. list \o local \in Collects(r, {} \cup L)
  BY <1>1, <1>3, <1>4, CollectsBoth
<1>10. list \o local \o shared \in Collects(r, ({} \cup L) \cup S)
  BY <1>1, <1>5, <1>9, CollectsBoth
<1>11. list \o local \o shared \o keys \in Collects(r, (({} \cup L) \cup S) \cup KL)
  BY <1>1, <1>6, <1>10, CollectsBoth DEF keys
<1>12. list \o local \o shared \o keys \o sharedDbs
         \in Collects(r, ((({} \cup L) \cup S) \cup KL) \cup KS)
  BY <1>1, <1>7, <1>11, CollectsBoth
<1> QED
  BY <1>2, <1>8, <1>12, CollectsLess DEF keys, X

LEMMA BackupApplicationCollects ==
  ASSUME NEW r \in Requests, r.op = "backup", r.type = "application"
  PROVE  BackupApplication(r) \in Collects(r, ToCollect(r, tree.data))
<1> DEFINE a == r.app
           node == BackupNode(a)
           user == BackupUser(a, r)
           table == <<CopyRct(a, "application")>>
           dbs == BackupDatabases(LocalDbs(a), r)
           N == {"file"} \X NodeFolder(a)
           U == {"file"} \X {f \in Folders : f[1] = a /\ Owns(r, f[2])}
           T == {"table"} \X {a}
           K == {"key"} \X {k \in Keys : SelectsKey(r, k)
                              /\ \E i \in 1..Len(LocalDbs(a)) : LocalDbs(a)[i] = <<k[1], k[3]>>}
           X == ToCollect(r, tree.data)
<1>1. a \in Apps /\ a \in Area
  BY DEF Requests, Area
<1>2. node \in Collects(r, N)
  <2>1. NodeFolder(a) \in SUBSET Folders /\ "node" \in Labels
    BY DEF NodeFolder, Labels
  <2>2. \A f \in NodeFolder(a) : SelectsFile(r, f)
    BY BackupSelects DEF NodeFolder
  <2> QED
    BY <2>1, <2>2, CopyCollects DEF BackupNode
<1>3. user \in Collects(r, U)
  BY BackupUserCollects
<1>4. table \in Collects(r, T)
  <2>1. "application" \in Labels
    BY DEF Labels
  <2> QED
    BY <1>1, <2>1, CopyRctCollects
<1>5. dbs \in Collects(r, K)
  <2>1. LocalDbs(a) \in Seq({a} \X ToSet(Policies))
    BY <1>1, LocalDbsType
  <2>2. {a} \X ToSet(Policies) \subseteq Databases
    BY <1>1 DEF Databases
  <2>3. LocalDbs(a) \in Seq(Databases)
    BY <2>1, <2>2, SeqSubset
  <2>4. \A i \in 1..Len(LocalDbs(a)) : LocalDbs(a)[i][1] = a
    BY <2>1, ElementType
  <2> QED
    BY <2>3, <2>4, BackupDatabasesCollect
<1>6. N \in SUBSET Items /\ U \in SUBSET Items /\ T \in SUBSET Items /\ K \in SUBSET Items
  BY <1>1 DEF Items, NodeFolder
<1>7. X \subseteq ((N \cup U) \cup T) \cup K
  <2>1. \A f \in Folders : SelectsFile(r, f) => f \in NodeFolder(a) \/ (f[1] = a /\ Owns(r, f[2]))
    BY BackupSelects DEF NodeFolder
  <2>2. ASSUME NEW k \in Keys, SelectsKey(r, k)
        PROVE  \E i \in 1..Len(LocalDbs(a)) : LocalDbs(a)[i] = <<k[1], k[3]>>
    <3>1. k[3] \in ToSet(Policies)
      BY DataAssumption
    <3>2. k[1] = a
      BY <2>2 DEF SelectsKey
    <3> QED
      BY <3>1, <3>2, LocalDbsHas
  <2>3. Tabled(r, tree.data) \subseteq {a}
    BY DEF Tabled
  <2> QED
    BY <2>1, <2>2, <2>3 DEF ToCollect
<1> HIDE DEF node, user, table, dbs, N, U, T, K, X
<1>8. node \o user \in Collects(r, N \cup U)
  BY <1>2, <1>3, <1>6, CollectsBoth
<1>9. node \o user \o table \in Collects(r, (N \cup U) \cup T)
  BY <1>4, <1>6, <1>8, CollectsBoth
<1>10. node \o user \o table \o dbs \in Collects(r, ((N \cup U) \cup T) \cup K)
  BY <1>5, <1>6, <1>9, CollectsBoth
<1>11. BackupApplication(r) = node \o user \o table \o dbs
  BY DEF BackupApplication, node, user, table, dbs
<1> QED
  BY <1>7, <1>10, <1>11, CollectsLess DEF X

LEMMA BackupPlanCollects ==
  ASSUME NEW r \in Requests, r.op = "backup", KeysInDbs(tree.data),
         r.type = "user" => AppsOf(tree.data) # <<>>
  PROVE  BackupPlan(r) \in Collects(r, ToCollect(r, tree.data))
<1>1. CASE r.type = "all"
  <2> DEFINE c == CopyAll
             X == ToCollect(r, tree.data)
  <2>1. c \in BackupCalls(r) /\ c.do = "copyAll"
    <3>1. c \in Calls
      BY DEF CopyAll, Call, Calls, Labels
    <3>2. c.do = "copyAll" /\ c.err = "abort" /\ c.from = "data" /\ c.to = "coll"
      BY DEF CopyAll, Call
    <3> HIDE DEF c
    <3> QED
      BY <1>1, <3>1, <3>2 DEF BackupCalls
  <2>2. X \in SUBSET Items
    BY ToCollectItems
  <2> HIDE DEF c, X
  <2>3. \A x \in X : c \in Collecting(r, x)
    BY <2>1 DEF Collecting
  <2>4. <<c>> \in Collects(r, X)
    BY <2>1, <2>2, <2>3, CollectsOne
  <2> QED
    BY <1>1, <2>4 DEF BackupPlan, c, X
<1>2. CASE r.type = "user"
  BY <1>2, BackupUserAllCollects DEF BackupPlan
<1>3. CASE r.type = "application"
  BY <1>3, BackupApplicationCollects DEF BackupPlan
<1> QED
  BY <1>1, <1>2, <1>3 DEF Requests

-----------------------------------------------------------------------------
(* What the calls of a backup collect. *)

\* An item is in the collection as it is on the target.  A folder without files
\* is no news to a collection that has it.  With the table goes the area.
Copied(x, data, coll, fresh) ==
  CASE x[1] = "file" -> \/ data.file[x[2]] = Absent \/ coll.file[x[2]] = data.file[x[2]]
                        \/ data.file[x[2]] = Empty /\ ~fresh
    [] x[1] = "key" -> data.key[x[2]] = Absent \/ coll.key[x[2]] = data.key[x[2]]
    [] x[1] = "table" -> /\ fresh => coll.rct[x[2]] = data.rct[x[2]]
                         /\ AreaExists(data, x[2]) => AreaExists(coll, x[2])

\* Nothing is in the collection but what the request is about, as it is on the
\* target.
OnlyFrom(r, data, coll) ==
  /\ \A f \in Folders : coll.file[f] # Absent =>
       SelectsFile(r, f) /\ coll.file[f] = data.file[f]
  /\ \A k \in Keys : coll.key[k] # Absent => SelectsKey(r, k) /\ coll.key[k] = data.key[k]
  /\ \A d \in coll.db : d \in data.db /\ (r.type = "application" => d[1] = r.app)
  /\ \A a \in Area : coll.rct[a] # 0 =>
       (r.type = "application" => a = r.app) /\ coll.rct[a] = data.rct[a]

Gathers(r, c, data, old, new, fresh) ==
  /\ \A x \in Items : Copied(x, data, old, fresh) \/ c \in Collecting(r, x) =>
       Copied(x, data, new, fresh)
  /\ fresh => OnlyFrom(r, data, new)

LEMMA CopiedFile ==
  ASSUME NEW f, NEW data, NEW coll, NEW fresh
  PROVE  Copied(<<"file", f>>, data, coll, fresh) <=>
           (\/ data.file[f] = Absent \/ coll.file[f] = data.file[f]
            \/ (data.file[f] = Empty /\ ~fresh))
BY DEF Copied

LEMMA CopiedKey ==
  ASSUME NEW k, NEW data, NEW coll, NEW fresh
  PROVE  Copied(<<"key", k>>, data, coll, fresh) <=>
           (data.key[k] = Absent \/ coll.key[k] = data.key[k])
BY DEF Copied

LEMMA CopiedTable ==
  ASSUME NEW a, NEW data, NEW coll, NEW fresh
  PROVE  Copied(<<"table", a>>, data, coll, fresh) <=>
           (/\ fresh => coll.rct[a] = data.rct[a]
            /\ AreaExists(data, a) => AreaExists(coll, a))
BY DEF Copied

\* An area that is there stays when nothing of it goes.
LEMMA AreaStays ==
  ASSUME NEW old, NEW new, NEW a,
         \A f \in Folders : old.file[f] # Absent => new.file[f] # Absent,
         old.db \subseteq new.db, old.rct[a] # 0 => new.rct[a] # 0, AreaExists(old, a)
  PROVE  AreaExists(new, a)
BY DEF AreaExists

LEMMA ItemsAre ==
  ASSUME NEW x \in Items
  PROVE  \/ \E f \in Folders : x = <<"file", f>>
         \/ \E k \in Keys : x = <<"key", k>>
         \/ \E a \in Area : x = <<"table", a>>
BY DEF Items

\* The collection is as it was, and there was nothing to collect.
LEMMA GathersNothing ==
  ASSUME NEW r, NEW c, NEW data, NEW old, NEW new, NEW fresh,
         fresh => OnlyFrom(r, data, old),
         new.file = old.file, new.key = old.key, new.db = old.db, new.rct = old.rct,
         \A x \in Items : c \in Collecting(r, x) => Copied(x, data, old, fresh)
  PROVE  Gathers(r, c, data, old, new, fresh)
<1>1. ASSUME NEW x \in Items, Copied(x, data, old, fresh) PROVE Copied(x, data, new, fresh)
  <2>1. \A a \in Area : AreaExists(old, a) => AreaExists(new, a)
    BY AreaStays
  <2> QED
    BY <1>1, <2>1, ItemsAre, CopiedFile, CopiedKey, CopiedTable
<1>2. OnlyFrom(r, data, old) => OnlyFrom(r, data, new)
  BY DEF OnlyFrom
<1>3. ASSUME NEW x \in Items, Copied(x, data, old, fresh) \/ c \in Collecting(r, x)
      PROVE  Copied(x, data, new, fresh)
  BY <1>1, <1>3
<1> QED
  BY <1>2, <1>3 DEF Gathers

LEMMA GathersFiles ==
  ASSUME NEW r, NEW c \in BackupCalls(r), c.do = "copy", NEW data, NEW old, NEW new,
         NEW fresh, fresh => OnlyFrom(r, data, old),
         \A f \in Folders : new.file[f] =
           IF f \in c.set /\ (data.file[f] \in Versions \/ old.file[f] = Absent)
             THEN data.file[f] ELSE old.file[f],
         \A f \in Folders : data.file[f] \in {Absent, Empty} \cup Versions,
         new.key = old.key, new.db = old.db, new.rct = old.rct
  PROVE  Gathers(r, c, data, old, new, fresh)
<1>1. c.set \in SUBSET {f \in Folders : SelectsFile(r, f)}
  BY DEF BackupCalls
<1>2. ASSUME NEW x \in Items, Copied(x, data, old, fresh) \/ c \in Collecting(r, x)
      PROVE  Copied(x, data, new, fresh)
  <2>1. CASE \E f \in Folders : x = <<"file", f>>
    <3>1. PICK f \in Folders : x = <<"file", f>>
      BY <2>1
    <3>2. x[1] = "file" /\ x[2] = f
      BY <3>1
    <3>3. c \in Collecting(r, x) => f \in c.set
      BY <3>2 DEF Collecting
    <3>4. Copied(x, data, old, fresh) =>
            (\/ data.file[f] = Absent \/ old.file[f] = data.file[f]
             \/ (data.file[f] = Empty /\ ~fresh))
      BY <3>1, CopiedFile
    <3>5. fresh /\ old.file[f] # Absent => old.file[f] = data.file[f]
      BY DEF OnlyFrom
    <3>6. \/ data.file[f] = Absent \/ new.file[f] = data.file[f]
          \/ (data.file[f] = Empty /\ ~fresh)
      BY <1>2, <3>3, <3>4, <3>5
    <3> QED
      BY <3>1, <3>6, CopiedFile
  <2>2. CASE \E k \in Keys : x = <<"key", k>>
    <3>1. PICK k \in Keys : x = <<"key", k>>
      BY <2>2
    <3>2. c \notin Collecting(r, x)
      BY <3>1 DEF Collecting
    <3> QED
      BY <1>2, <3>1, <3>2, CopiedKey
  <2>3. CASE \E a \in Area : x = <<"table", a>>
    <3>1. PICK a \in Area : x = <<"table", a>>
      BY <2>3
    <3>2. c \notin Collecting(r, x)
      BY <3>1 DEF Collecting
    <3>3. \A f \in Folders : old.file[f] # Absent => new.file[f] # Absent
      BY DataAssumption
    <3>4. AreaExists(old, a) => AreaExists(new, a)
      BY <3>3, AreaStays
    <3> QED
      BY <1>2, <3>1, <3>2, <3>4, CopiedTable
  <2> QED
    BY <2>1, <2>2, <2>3, ItemsAre
<1>3. ASSUME fresh PROVE OnlyFrom(r, data, new)
  <2>1. OnlyFrom(r, data, old)
    BY <1>3
  <2>2. \A f \in Folders : new.file[f] # Absent =>
          SelectsFile(r, f) /\ new.file[f] = data.file[f]
    BY <1>1, <2>1 DEF OnlyFrom
  <2> QED
    BY <2>1, <2>2 DEF OnlyFrom
<1> QED
  BY <1>2, <1>3 DEF Gathers

LEMMA GathersKeys ==
  ASSUME NEW r, NEW c \in BackupCalls(r), c.do = "copyKeys", NEW data, NEW old, NEW new,
         NEW fresh, fresh => OnlyFrom(r, data, old), c.db \in data.db,
         \A k \in Keys : new.key[k] =
           IF k \in c.set /\ data.key[k] # Absent THEN data.key[k] ELSE old.key[k],
         old.db \subseteq new.db, new.db \subseteq old.db \cup {c.db},
         new.file = old.file, new.rct = old.rct
  PROVE  Gathers(r, c, data, old, new, fresh)
<1>1. /\ c.set \in SUBSET {k \in Keys : SelectsKey(r, k)}
      /\ r.type = "application" => c.db[1] = r.app
  BY DEF BackupCalls
<1>2. ASSUME NEW x \in Items, Copied(x, data, old, fresh) \/ c \in Collecting(r, x)
      PROVE  Copied(x, data, new, fresh)
  <2>1. CASE \E k \in Keys : x = <<"key", k>>
    <3>1. PICK k \in Keys : x = <<"key", k>>
      BY <2>1
    <3>2. x[1] = "key" /\ x[2] = k
      BY <3>1
    <3>3. c \in Collecting(r, x) => k \in c.set
      BY <3>2 DEF Collecting
    <3>4. Copied(x, data, old, fresh) =>
            data.key[k] = Absent \/ old.key[k] = data.key[k]
      BY <3>1, CopiedKey
    <3>5. data.key[k] = Absent \/ new.key[k] = data.key[k]
      BY <1>2, <3>3, <3>4
    <3> QED
      BY <3>1, <3>5, CopiedKey
  <2>2. CASE \E f \in Folders : x = <<"file", f>>
    <3>1. PICK f \in Folders : x = <<"file", f>>
      BY <2>2
    <3>2. c \notin Collecting(r, x)
      BY <3>1 DEF Collecting
    <3> QED
      BY <1>2, <3>1, <3>2, CopiedFile
  <2>3. CASE \E a \in Area : x = <<"table", a>>
    <3>1. PICK a \in Area : x = <<"table", a>>
      BY <2>3
    <3>2. c \notin Collecting(r, x)
      BY <3>1 DEF Collecting
    <3>3. AreaExists(old, a) => AreaExists(new, a)
      BY AreaStays
    <3> QED
      BY <1>2, <3>1, <3>2, <3>3, CopiedTable
  <2> QED
    BY <2>1, <2>2, <2>3, ItemsAre
<1>3. ASSUME fresh PROVE OnlyFrom(r, data, new)
  <2>1. OnlyFrom(r, data, old)
    BY <1>3
  <2>2. \A k \in Keys : new.key[k] # Absent => SelectsKey(r, k) /\ new.key[k] = data.key[k]
    BY <1>1, <2>1 DEF OnlyFrom
  <2>3. \A d \in new.db : d \in data.db /\ (r.type = "application" => d[1] = r.app)
    BY <1>1, <2>1 DEF OnlyFrom
  <2> QED
    BY <2>1, <2>2, <2>3 DEF OnlyFrom
<1> QED
  BY <1>2, <1>3 DEF Gathers

LEMMA GathersTable ==
  ASSUME NEW r, NEW c \in BackupCalls(r), c.do = "copyRct", NEW data, NEW old, NEW new,
         NEW fresh, fresh => OnlyFrom(r, data, old), data.rct[c.area] # 0,
         \A a \in Area : new.rct[a] = IF a = c.area THEN data.rct[a] ELSE old.rct[a],
         new.file = old.file, new.key = old.key, new.db = old.db
  PROVE  Gathers(r, c, data, old, new, fresh)
<1>1. r.type = "application" => c.area = r.app
  BY DEF BackupCalls
<1>2. ASSUME NEW x \in Items, Copied(x, data, old, fresh) \/ c \in Collecting(r, x)
      PROVE  Copied(x, data, new, fresh)
  <2>1. CASE \E a \in Area : x = <<"table", a>>
    <3>1. PICK a \in Area : x = <<"table", a>>
      BY <2>1
    <3>2. x[1] = "table" /\ x[2] = a
      BY <3>1
    <3>3. c \in Collecting(r, x) => a = c.area
      BY <3>2 DEF Collecting
    <3>4. Copied(x, data, old, fresh) =>
            (/\ fresh => old.rct[a] = data.rct[a]
             /\ AreaExists(data, a) => AreaExists(old, a))
      BY <3>1, CopiedTable
    <3>5. fresh => new.rct[a] = data.rct[a]
      BY <1>2, <3>3, <3>4
    <3>6. a = c.area => AreaExists(new, a)
      BY DEF AreaExists
    <3>7. a # c.area /\ AreaExists(old, a) => AreaExists(new, a)
      BY AreaStays
    <3>8. AreaExists(data, a) => AreaExists(new, a)
      BY <1>2, <3>3, <3>4, <3>6, <3>7
    <3> QED
      BY <3>1, <3>5, <3>8, CopiedTable
  <2>2. CASE \E f \in Folders : x = <<"file", f>>
    <3>1. PICK f \in Folders : x = <<"file", f>>
      BY <2>2
    <3>2. c \notin Collecting(r, x)
      BY <3>1 DEF Collecting
    <3> QED
      BY <1>2, <3>1, <3>2, CopiedFile
  <2>3. CASE \E k \in Keys : x = <<"key", k>>
    <3>1. PICK k \in Keys : x = <<"key", k>>
      BY <2>3
    <3>2. c \notin Collecting(r, x)
      BY <3>1 DEF Collecting
    <3> QED
      BY <1>2, <3>1, <3>2, CopiedKey
  <2> QED
    BY <2>1, <2>2, <2>3, ItemsAre
<1>3. ASSUME fresh PROVE OnlyFrom(r, data, new)
  <2>1. OnlyFrom(r, data, old)
    BY <1>3
  <2>2. \A a \in Area : new.rct[a] # 0 =>
          (r.type = "application" => a = r.app) /\ new.rct[a] = data.rct[a]
    BY <1>1, <2>1 DEF OnlyFrom
  <2> QED
    BY <2>1, <2>2 DEF OnlyFrom
<1> QED
  BY <1>2, <1>3 DEF Gathers

\* What is in a tree after another is laid over it.
LEMMA OverlayHas ==
  ASSUME NEW src \in Tree, NEW dst \in Tree, NEW areas
  PROVE  LET u == Overlay(src, dst, areas) IN
         /\ \A f \in Folders : u.file[f] =
              IF f[1] \in areas /\ (src.file[f] \in Versions \/ dst.file[f] = Absent)
                THEN src.file[f] ELSE dst.file[f]
         /\ \A k \in Keys : u.key[k] =
              IF k[1] \in areas /\ <<k[1], k[3]>> \in src.db THEN src.key[k] ELSE dst.key[k]
         /\ u.db = dst.db \cup {d \in src.db : d[1] \in areas}
         /\ \A a \in Area : u.rct[a] =
              IF a \in areas /\ src.rct[a] # 0 THEN src.rct[a] ELSE dst.rct[a]
         /\ \A a \in Apps : u.info[a] =
              IF a \in areas /\ src.info[a] # {} THEN src.info[a] ELSE dst.info[a]
<1> DEFINE S == {f \in Folders : f[1] \in areas}
           file == [f \in Folders |->
                      IF f \in S /\ (src.file[f] \in Versions \/ dst.file[f] = Absent)
                        THEN src.file[f] ELSE dst.file[f]]
           in == [dst EXCEPT !.file = file]
           key == [k \in Keys |-> IF k[1] \in areas /\ <<k[1], k[3]>> \in src.db
                                    THEN src.key[k] ELSE in.key[k]]
           db == in.db \cup {d \in src.db : d[1] \in areas}
           rct == [a \in Area |-> IF a \in areas /\ src.rct[a] # 0 THEN src.rct[a]
                                    ELSE in.rct[a]]
           link == [a \in Apps |-> IF a \in areas THEN in.link[a] \cup src.link[a]
                                     ELSE in.link[a]]
           info == [a \in Apps |-> IF a \in areas /\ src.info[a] # {} THEN src.info[a]
                                     ELSE in.info[a]]
           u == Overlay(src, dst, areas)
<1>1. CopyFolder(src, dst, S) = in
  BY DEF CopyFolder
<1>2. /\ in \in [file : [Folders -> {Absent, Empty} \cup Versions],
                 key : [Keys -> {Absent} \cup Versions], db : SUBSET Databases,
                 rct : [Area -> Nat], link : [Apps -> SUBSET Shared],
                 info : [Apps -> SUBSET Shared]]
      /\ in.file = file /\ in.key = dst.key /\ in.db = dst.db /\ in.rct = dst.rct
      /\ in.info = dst.info
  <2>1. file \in [Folders -> {Absent, Empty} \cup Versions]
    BY DEF Tree
  <2> HIDE DEF file
  <2> QED
    BY <2>1 DEF Tree
<1> HIDE DEF in
<1>3. u = [in EXCEPT !.key = key, !.db = db, !.rct = rct, !.link = link, !.info = info]
  BY <1>1 DEF Overlay
<1>4. /\ \A f \in Folders : file[f] =
           IF f[1] \in areas /\ (src.file[f] \in Versions \/ dst.file[f] = Absent)
             THEN src.file[f] ELSE dst.file[f]
      /\ \A k \in Keys : key[k] =
           IF k[1] \in areas /\ <<k[1], k[3]>> \in src.db THEN src.key[k] ELSE dst.key[k]
      /\ db = dst.db \cup {d \in src.db : d[1] \in areas}
      /\ \A a \in Area : rct[a] =
           IF a \in areas /\ src.rct[a] # 0 THEN src.rct[a] ELSE dst.rct[a]
      /\ \A a \in Apps : info[a] =
           IF a \in areas /\ src.info[a] # {} THEN src.info[a] ELSE dst.info[a]
  BY <1>2
<1> HIDE DEF file, key, db, rct, link, info, u
<1>5. u.file = file /\ u.key = key /\ u.db = db /\ u.rct = rct /\ u.info = info
  BY <1>2, <1>3
<1> QED
  BY <1>4, <1>5 DEF u

LEMMA GathersAll ==
  ASSUME NEW r, r.type = "all", r.op = "backup", NEW c \in BackupCalls(r), c.do = "copyAll",
         NEW data \in Tree, NEW old \in Tree, KeysInDbs(data),
         NEW fresh, fresh => OnlyFrom(r, data, old)
  PROVE  Gathers(r, c, data, old, Overlay(data, old, Area), fresh)
<1> DEFINE new == Overlay(data, old, Area)
<1>1. /\ \A f \in Folders : new.file[f] =
           IF f[1] \in Area /\ (data.file[f] \in Versions \/ old.file[f] = Absent)
             THEN data.file[f] ELSE old.file[f]
      /\ \A k \in Keys : new.key[k] =
           IF k[1] \in Area /\ <<k[1], k[3]>> \in data.db THEN data.key[k] ELSE old.key[k]
      /\ new.db = old.db \cup {d \in data.db : d[1] \in Area}
      /\ \A a \in Area : new.rct[a] =
           IF a \in Area /\ data.rct[a] # 0 THEN data.rct[a] ELSE old.rct[a]
  BY OverlayHas
<1> HIDE DEF new
<1>2. /\ \A f \in Folders : f[1] \in Area /\ data.file[f] \in {Absent, Empty} \cup Versions
      /\ \A k \in Keys : k[1] \in Area
      /\ \A a \in Area : data.rct[a] \in Nat
  BY DataAssumption DEF Tree
<1>3. /\ \A f \in Folders : SelectsFile(r, f)
      /\ \A k \in Keys : SelectsKey(r, k)
  BY DEF SelectsFile, SelectsKey
<1>4. /\ fresh => \A f \in Folders : old.file[f] # Absent => old.file[f] = data.file[f]
      /\ fresh => \A k \in Keys : old.key[k] # Absent => old.key[k] = data.key[k]
      /\ fresh => \A a \in Area : old.rct[a] # 0 => old.rct[a] = data.rct[a]
      /\ fresh => old.db \subseteq data.db
  BY DEF OnlyFrom
<1>5. ASSUME NEW x \in Items
      PROVE  Copied(x, data, new, fresh)
  <2>1. CASE \E f \in Folders : x = <<"file", f>>
    <3>1. PICK f \in Folders : x = <<"file", f>>
      BY <2>1
    <3>2. \/ data.file[f] = Absent \/ new.file[f] = data.file[f]
          \/ (data.file[f] = Empty /\ ~fresh)
      BY <1>1, <1>2, <1>4
    <3> QED
      BY <3>1, <3>2, CopiedFile
  <2>2. CASE \E k \in Keys : x = <<"key", k>>
    <3>1. PICK k \in Keys : x = <<"key", k>>
      BY <2>2
    <3>2. data.key[k] = Absent \/ new.key[k] = data.key[k]
      BY <1>1, <1>2 DEF KeysInDbs
    <3> QED
      BY <3>1, <3>2, CopiedKey
  <2>3. CASE \E a \in Area : x = <<"table", a>>
    <3>1. PICK a \in Area : x = <<"table", a>>
      BY <2>3
    <3>2. fresh => new.rct[a] = data.rct[a]
      BY <1>1, <1>2, <1>4
    <3>3. \A f \in Folders : data.file[f] # Absent => new.file[f] # Absent
      BY <1>1, <1>2, DataAssumption
    <3>4. \A d \in data.db : d[1] \in Area
      BY DEF Tree, Databases
    <3>5. data.db \subseteq new.db /\ (data.rct[a] # 0 => new.rct[a] # 0)
      BY <1>1, <3>4
    <3>6. AreaExists(data, a) => AreaExists(new, a)
      BY <3>3, <3>5, AreaStays
    <3> QED
      BY <3>1, <3>2, <3>6, CopiedTable
  <2> QED
    BY <2>1, <2>2, <2>3, ItemsAre
<1>6. ASSUME fresh PROVE OnlyFrom(r, data, new)
  <2>1. \A f \in Folders : new.file[f] # Absent => new.file[f] = data.file[f]
    BY <1>1, <1>4, <1>6
  <2>2. \A k \in Keys : new.key[k] # Absent => new.key[k] = data.key[k]
    BY <1>1, <1>4, <1>6
  <2>3. \A d \in new.db : d \in data.db
    BY <1>1, <1>4, <1>6
  <2>4. \A a \in Area : new.rct[a] # 0 => new.rct[a] = data.rct[a]
    BY <1>1, <1>4, <1>6
  <2> QED
    BY <1>3, <2>1, <2>2, <2>3, <2>4 DEF OnlyFrom
<1> QED
  BY <1>5, <1>6 DEF Gathers, new

\* A step of a backup fails and ends it, loses a key, or collects what it is to.
BackupGoes(r) ==
  \/ phase' = "reply" /\ result' = "error"
  \/ hist'.lost # {}
  \/ /\ todo' = Tail(todo) /\ hist' = hist /\ phase' = phase
     /\ tree'.data = tree.data
     /\ Gathers(r, Now, tree.data, tree.coll, tree'.coll, hist.fresh)

LEMMA CollSet ==
  ASSUME tree \in Trees, NEW t, Set("coll", t)
  PROVE  tree'.coll = t /\ tree'.data = tree.data
BY DEF Set, Trees

LEMMA CopyFolderHas ==
  ASSUME NEW src \in Tree, NEW dst \in Tree, NEW S
  PROVE  LET u == CopyFolder(src, dst, S) IN
         /\ \A f \in Folders : u.file[f] =
              IF f \in S /\ (src.file[f] \in Versions \/ dst.file[f] = Absent)
                THEN src.file[f] ELSE dst.file[f]
         /\ u.key = dst.key /\ u.db = dst.db /\ u.rct = dst.rct /\ u.link = dst.link
<1> DEFINE file == [f \in Folders |->
                      IF f \in S /\ (src.file[f] \in Versions \/ dst.file[f] = Absent)
                        THEN src.file[f] ELSE dst.file[f]]
           u == [dst EXCEPT !.file = file]
<1>1. u.file = file /\ u.key = dst.key /\ u.db = dst.db /\ u.rct = dst.rct /\ u.link = dst.link
  BY DEF Tree
<1>2. CopyFolder(src, dst, S) = u
  BY DEF CopyFolder
<1> HIDE DEF u
<1> QED
  BY <1>1, <1>2

LEMMA CopyKeysHas ==
  ASSUME NEW src \in Tree, NEW dst \in Tree, NEW d, NEW S
  PROVE  LET u == CopyKeys(src, dst, d, S) IN
         /\ \A k \in Keys : u.key[k] =
              IF k \in S /\ src.key[k] # Absent THEN src.key[k] ELSE dst.key[k]
         /\ u.db \in {dst.db, dst.db \cup {d}}
         /\ u.file = dst.file /\ u.rct = dst.rct /\ u.link = dst.link
<1> DEFINE key == [k \in Keys |-> IF k \in S /\ src.key[k] # Absent THEN src.key[k]
                                    ELSE dst.key[k]]
           db == IF \E k \in Keys : <<k[1], k[3]>> = d /\ src.key[k] # Absent
                   THEN dst.db \cup {d} ELSE dst.db
           u == [dst EXCEPT !.key = key, !.db = db]
<1>1. db \in {dst.db, dst.db \cup {d}}
  OBVIOUS
<1>2. CopyKeys(src, dst, d, S) = u
  BY DEF CopyKeys, Tree
<1> HIDE DEF db
<1>3. u.key = key /\ u.db = db /\ u.file = dst.file /\ u.rct = dst.rct /\ u.link = dst.link
  BY DEF Tree
<1> HIDE DEF u
<1> QED
  BY <1>1, <1>2, <1>3

LEMMA BackupStep ==
  ASSUME TypeInv, KeysInDbs(tree.data), req \in Requests, req.op = "backup",
         Now \in BackupCalls(req), hist.fresh => OnlyFrom(req, tree.data, tree.coll), CallStep
  PROVE  BackupGoes(req)
<1> DEFINE r == req
           data == tree.data
           old == tree.coll
           fresh == hist.fresh
<1>1. Now \in BackupCalls(r) /\ Now.err = "abort" /\ Now.from = "data"
  BY DEF BackupCalls
<1>2. \/ Now.do \in {"list", "listNothing"}
      \/ /\ Now.do \in {"exportLinks", "copyAll", "copyRct", "copy", "copyKeys"}
         /\ Now.to = "coll"
  BY DEF BackupCalls
<1>3. tree \in Trees /\ data \in Tree /\ old \in Tree /\ hist \in History
  BY DEF TypeInv, Trees
<1>4. tree[Now.from] = data
  BY <1>1
<1>5. \A bytes : Succeed(bytes) => todo' = Tail(todo) /\ hist' = hist /\ phase' = phase
  BY DEF Succeed
<1>6. CASE \E S : Fail(S)
  BY <1>1, <1>6, FailAborts DEF BackupGoes
<1>7. ASSUME NEW t, Set("coll", t), \E bytes : Succeed(bytes),
             Gathers(r, Now, data, old, t, fresh)
      PROVE  BackupGoes(req)
  <2>1. tree'.coll = t /\ tree'.data = tree.data
    BY <1>3, <1>7, CollSet
  <2> QED
    BY <1>5, <1>7, <2>1 DEF BackupGoes
<1>8. ASSUME UNCHANGED tree, \E bytes : Succeed(bytes),
             \A x \in Items : Now \in Collecting(r, x) => Copied(x, data, old, fresh)
      PROVE  BackupGoes(req)
  <2>1. Gathers(r, Now, data, old, old, fresh)
    BY <1>8, GathersNothing
  <2> QED
    BY <1>5, <1>8, <2>1 DEF BackupGoes
<1>9. CASE List
  <2>1. Now.do \in {"list", "listNothing"} /\ UNCHANGED tree /\ (Succeed(0) \/ Fail({}))
    BY <1>9 DEF List, Calling
  <2>2. \A x \in Items : Now \notin Collecting(r, x)
    BY <2>1 DEF Collecting
  <2> QED
    BY <1>6, <1>8, <2>1, <2>2
<1>10. CASE CopyStep
  <2>1. Now.do = "copy" /\ Now.to = "coll"
    BY <1>2, <1>10 DEF CopyStep, Calling
  <2>2. CASE /\ \E bytes : Succeed(bytes)
             /\ Set(Now.to, CopyFolder(tree[Now.from], tree[Now.to], Now.set))
    <3> DEFINE t == CopyFolder(data, old, Now.set)
    <3>1. Set("coll", t)
      BY <1>4, <2>1, <2>2
    <3>2. /\ \A f \in Folders : t.file[f] =
               IF f \in Now.set /\ (data.file[f] \in Versions \/ old.file[f] = Absent)
                 THEN data.file[f] ELSE old.file[f]
          /\ t.key = old.key /\ t.db = old.db /\ t.rct = old.rct
      BY <1>3, CopyFolderHas
    <3>3. \A f \in Folders : data.file[f] \in {Absent, Empty} \cup Versions
      BY <1>3 DEF Tree
    <3> HIDE DEF t
    <3>4. Gathers(r, Now, data, old, t, fresh)
      BY <1>1, <2>1, <3>2, <3>3, GathersFiles
    <3> QED
      BY <1>7, <2>2, <3>1, <3>4
  <2> QED
    BY <1>6, <1>10, <2>2 DEF CopyStep
<1>11. CASE CopyKeysStep
  <2>1. Now.do = "copyKeys" /\ Now.to = "coll"
    BY <1>2, <1>11 DEF CopyKeysStep, Calling
  <2>2. CASE /\ \E bytes : Succeed(bytes) /\ Now.db \in data.db
             /\ Set(Now.to, CopyKeys(tree[Now.from], tree[Now.to], Now.db, Now.set))
    <3> DEFINE t == CopyKeys(data, old, Now.db, Now.set)
    <3>1. Set("coll", t)
      BY <1>4, <2>1, <2>2
    <3>2. /\ \A k \in Keys : t.key[k] =
               IF k \in Now.set /\ data.key[k] # Absent THEN data.key[k] ELSE old.key[k]
          /\ t.db \in {old.db, old.db \cup {Now.db}}
          /\ t.file = old.file /\ t.rct = old.rct
      BY <1>3, CopyKeysHas
    <3> HIDE DEF t
    <3>3. old.db \subseteq t.db /\ t.db \subseteq old.db \cup {Now.db}
      BY <3>2
    <3>4. Gathers(r, Now, data, old, t, fresh)
      BY <1>1, <2>1, <2>2, <3>2, <3>3, GathersKeys
    <3> QED
      BY <1>7, <2>2, <3>1, <3>4
  <2>3. CASE \E k : Note({k})
    <3>1. PICK k : hist'.lost = hist.lost \cup {k}
      BY <1>3, <2>3 DEF Note, History
    <3> QED
      BY <3>1 DEF BackupGoes
  <2>4. CASE Now.db \notin data.db /\ Succeed(0) /\ UNCHANGED tree
    <3>1. Now.set \in SUBSET {k \in Keys : <<k[1], k[3]>> = Now.db}
      BY <1>1, <2>1 DEF BackupCalls
    <3>2. ASSUME NEW x \in Items, Now \in Collecting(r, x)
          PROVE  Copied(x, data, old, fresh)
      <4>1. x[1] = "key" /\ x[2] \in Now.set
        BY <2>1, <3>2 DEF Collecting
      <4>2. PICK k \in Keys : x = <<"key", k>>
        BY <4>1, ItemsAre
      <4>3. k \in Now.set
        BY <4>1, <4>2
      <4>4. data.key[k] = Absent
        BY <2>4, <3>1, <4>3 DEF KeysInDbs
      <4> QED
        BY <4>2, <4>4, CopiedKey
    <3> QED
      BY <1>8, <2>4, <3>2
  <2> QED
    BY <1>4, <1>6, <1>11, <2>2, <2>3, <2>4 DEF CopyKeysStep
<1>12. CASE CopyRctStep
  <2>1. Now.do = "copyRct" /\ Now.area \in Area
    BY <1>1, <1>12 DEF CopyRctStep, Calling, BackupCalls
  <2>2. CASE /\ Succeed(0) /\ data.rct[Now.area] # 0
             /\ Set("coll", [tree.coll EXCEPT !.rct[Now.area] = tree.data.rct[Now.area]])
    <3> DEFINE t == [old EXCEPT !.rct[Now.area] = data.rct[Now.area]]
    <3>1. /\ \A a \in Area : t.rct[a] = IF a = Now.area THEN data.rct[a] ELSE old.rct[a]
          /\ t.file = old.file /\ t.key = old.key /\ t.db = old.db
      BY <1>3, <2>1 DEF Tree
    <3>2. Set("coll", t)
      BY <2>2
    <3> HIDE DEF t
    <3>3. Gathers(r, Now, data, old, t, fresh)
      BY <1>1, <2>1, <2>2, <3>1, GathersTable
    <3> QED
      BY <1>7, <2>2, <3>2, <3>3
  <2> QED
    BY <1>6, <1>12, <2>2 DEF CopyRctStep
<1>13. CASE CopyAllStep
  <2>1. Now.do = "copyAll" /\ r.type = "all"
    BY <1>1, <1>13 DEF CopyAllStep, Calling, BackupCalls
  <2>2. CASE Succeed(0) /\ Set("coll", Overlay(tree.data, tree.coll, Area))
    <3> DEFINE t == Overlay(data, old, Area)
    <3>1. Gathers(r, Now, data, old, t, fresh)
      BY <1>1, <1>3, <2>1, GathersAll
    <3>2. Set("coll", t)
      BY <2>2
    <3> HIDE DEF t
    <3> QED
      BY <1>7, <2>2, <3>1, <3>2
  <2> QED
    BY <1>6, <1>13, <2>2 DEF CopyAllStep
<1>14. CASE ExportLinksStep
  <2> DEFINE links == data.link[Now.area]
             t == IF links = {} THEN old ELSE [old EXCEPT !.info[Now.area] = links]
  <2>1. Now.do = "exportLinks"
    BY <1>14 DEF ExportLinksStep, Calling
  <2>2. CASE Succeed(0) /\ Set("coll", t)
    <3>1. t.file = old.file /\ t.key = old.key /\ t.db = old.db /\ t.rct = old.rct
      BY <1>3 DEF Tree
    <3>2. \A x \in Items : Now \notin Collecting(r, x)
      BY <2>1 DEF Collecting
    <3> HIDE DEF t
    <3>3. Gathers(r, Now, data, old, t, fresh)
      BY <3>1, <3>2, GathersNothing
    <3> QED
      BY <1>7, <2>2, <3>3
  <2> QED
    BY <1>6, <1>14, <2>2 DEF ExportLinksStep
<1>15. CASE \/ ClearStep \/ ClearKeysStep \/ CheckRctStep \/ ImportLinksStep
            \/ ClearDefaultStep \/ ListAreaStep \/ ClearSeatStep \/ ReturnStep
            \/ TestSumStep
  <2>1. Now.do \in {"clear", "clearKeys", "checkRct", "importLinks", "clearConfFolder",
                    "clearConfDb", "listArea", "clearSeat", "return", "testSum"}
    BY <1>15 DEF ClearStep, ClearKeysStep, CheckRctStep, ImportLinksStep, ClearDefaultStep,
                 ListAreaStep, ClearSeatStep, ReturnStep, TestSumStep, Calling
  <2> QED
    BY <1>2, <2>1
<1> QED
  BY <1>9, <1>10, <1>11, <1>12, <1>13, <1>14, <1>15 DEF CallStep

\* Of what is to be collected, a call that is left collects what is not yet in
\* the collection; and nothing else comes to be in a new one.
Looks(r, data) == r.type = "user" => AppsOf(data) # <<>>
Missing(r, data, coll, fresh) == {x \in ToCollect(r, data) : ~Copied(x, data, coll, fresh)}
BackupInv ==
  phase = "work" /\ req.op = "backup" /\ hist.lost = {} =>
    IF Looks(req, tree.data)
      THEN /\ todo \in Collects(req, Missing(req, tree.data, tree.coll, hist.fresh))
           /\ hist.fresh => OnlyFrom(req, tree.data, tree.coll)
      ELSE todo = <<>> /\ (hist.fresh => tree.coll = NoTree)

LEMMA BackupCallKeeps ==
  ASSUME TypeInv, KeysInDbs(tree.data), BackupInv, CallStep, phase = "work",
         req \in Requests, req.op = "backup", todo # <<>>, req' = req, hist.lost = {}
  PROVE  phase' = "reply" \/ hist'.lost # {} \/ BackupInv'
<1> DEFINE C == BackupCalls(req)
           X == ToCollect(req, tree.data)
           Left == Missing(req, tree.data, tree.coll, hist.fresh)
           Later == {x \in X : ~Copied(x, tree.data, tree'.coll, hist.fresh)}
<1>1. /\ todo \in Collects(req, Left) /\ (hist.fresh => OnlyFrom(req, tree.data, tree.coll))
      /\ Looks(req, tree.data)
  BY DEF BackupInv
<1>2. todo \in Seq(C)
  BY <1>1, CollectsCalls
<1>3. Now \in C
  <2> HIDE DEF C
  <2> QED
    BY <1>2 DEF Now
<1>4. BackupGoes(req)
  BY <1>1, <1>3, BackupStep
<1>5. CASE /\ todo' = Tail(todo) /\ hist' = hist /\ phase' = phase
           /\ tree'.data = tree.data
           /\ Gathers(req, Now, tree.data, tree.coll, tree'.coll, hist.fresh)
  <2>1. X \in SUBSET Items
    BY ToCollectItems
  <2>2. \A x \in Later : x \in Left /\ x \in Items /\ Now \notin Collecting(req, x)
    BY <1>5, <2>1 DEF Gathers, Missing
  <2>3. \A x \in Later : todo \in Holding(C, Collecting(req, x)) /\ todo[1] \notin Collecting(req, x)
    BY <1>1, <2>2 DEF Collects, Covers, Collect, Now
  <2> HIDE DEF X, Left, Later, C
  <2>4. \A x \in Later : Tail(todo) \in Holding(C, Collecting(req, x))
    BY <2>3, HoldingTail
  <2>5. Tail(todo) \in Seq(C)
    BY <1>2
  <2>6. \A x \in Later : Tail(todo) \in Collect(req)[x]
    BY <2>2, <2>4 DEF Collect, C
  <2>7. Tail(todo) \in Collects(req, Later)
    BY <2>5, <2>6 DEF Collects, Covers, C
  <2>8. Later = Missing(req, tree'.data, tree'.coll, hist'.fresh)
    BY <1>5 DEF Later, X, Missing
  <2>9. hist'.fresh => OnlyFrom(req, tree'.data, tree'.coll)
    BY <1>5 DEF Gathers
  <2> QED
    BY <1>1, <1>5, <2>7, <2>8, <2>9 DEF BackupInv
<1> QED
  BY <1>4, <1>5 DEF BackupGoes

LEMMA FreshFrom ==
  ASSUME NEW r, NEW data
  PROVE  OnlyFrom(r, data, NoTree)
BY DEF OnlyFrom, NoTree

LEMMA BackupBegins ==
  ASSUME TypeInv, RequestInv, KeysInDbs(tree.data), BeginBackup
  PROVE  BackupInv'
<1> DEFINE r == Head(batch)
           coll == IF r.into = "new" THEN NoTree ELSE tree.coll
<1>1. /\ batch # <<>> /\ r.op = "backup" /\ req' = r /\ todo' = BackupPlan(r)
      /\ Set("coll", coll) /\ Remember(coll)
  BY DEF BeginBackup, Begin
<1>2. r \in Requests
  BY <1>1, NextRequest DEF RequestInv
<1> HIDE DEF r, coll
<1>3. tree'.coll = coll /\ tree'.data = tree.data
  BY <1>1, CollSet DEF TypeInv
<1>4. hist'.fresh <=> coll = NoTree
  BY <1>1 DEF Remember, TypeInv, History
<1>5. hist'.fresh => OnlyFrom(req', tree'.data, tree'.coll)
  BY <1>3, <1>4, FreshFrom
<1>6. ASSUME Looks(r, tree.data)
      PROVE  todo' \in Collects(r, Missing(r, tree.data, coll, hist'.fresh))
  <2> DEFINE M == Missing(r, tree.data, coll, hist'.fresh)
  <2>1. BackupPlan(r) \in Collects(r, ToCollect(r, tree.data))
    BY <1>1, <1>2, <1>6, BackupPlanCollects DEF Looks
  <2>2. M \subseteq ToCollect(r, tree.data)
    BY DEF Missing
  <2> HIDE DEF M
  <2> QED
    BY <1>1, <2>1, <2>2, CollectsLess DEF M
<1>7. ~Looks(r, tree.data) => todo' = <<>>
  BY <1>1 DEF Looks, BackupPlan, BackupUserAll
<1> QED
  BY <1>1, <1>3, <1>4, <1>5, <1>6, <1>7 DEF BackupInv

LEMMA NextBackup ==
  ASSUME TypeInv, RequestInv, KeysInDbs(tree.data), BackupInv, [Next]_vars
  PROVE  BackupInv'
<1>1. CASE UNCHANGED vars
  BY <1>1 DEF vars, BackupInv
<1>2. CASE phase' # "work" \/ req'.op # "backup"
  BY <1>2 DEF BackupInv
<1>3. CASE Receive \/ RefuseInLibrary \/ Reply \/ Crash \/ Archive \/ Cleanup \/ Complete
           \/ WriteFile \/ WriteKey \/ Update \/ Uninstall \/ Refuse
  <2>1. phase' # "work"
    BY <1>3 DEF Receive, RefuseInLibrary, Reply, Crash, Archive, Cleanup, Complete,
                WriteFile, WriteKey, Update, Uninstall, Change, Refuse, Begin
  <2> QED
    BY <1>2, <2>1
<1>4. CASE BeginRecovery \/ BeginReset \/ BeginDelete
  BY <1>2, <1>4 DEF BeginRecovery, BeginReset, BeginDelete, Begin
<1>5. CASE Uncompress
  <2>1. req.op = "recover" /\ req' = req
    BY <1>5 DEF RequestInv, Uncompress
  <2> QED
    BY <1>2, <2>1
<1>6. CASE BeginBackup
  BY <1>6, BackupBegins
<1>7. CASE CallStep
  <2>1. phase = "work" /\ todo # <<>> /\ req' = req
    BY <1>7, CallEffect DEF RequestInv, Effect
  <2>2. CASE req.op = "backup" /\ hist.lost = {}
    <3>1. phase' = "reply" \/ hist'.lost # {} \/ BackupInv'
      BY <1>7, <2>1, <2>2, BackupCallKeeps DEF RequestInv
    <3> QED
      BY <1>2, <3>1 DEF BackupInv
  <2>3. CASE hist.lost # {}
    <3>1. hist'.lost # {}
      BY <1>7, <2>3, LostStays DEF TypeInv
    <3> QED
      BY <3>1 DEF BackupInv
  <2> QED
    BY <1>2, <2>1, <2>2, <2>3
<1> QED
  BY <1>1, <1>3, <1>4, <1>5, <1>6, <1>7 DEF Next

\* With no call left, nothing is missing.
LEMMA BackupEnds ==
  ASSUME KeysInDbs(tree.data), BackupInv, req \in Requests
  PROVE  BackupFaithful
<1> DEFINE r == req
           data == tree.data
           coll == tree.coll
           fresh == hist.fresh
<1> SUFFICES ASSUME Done("backup"), AppsOf(data) # <<>>
             PROVE  /\ \A f \in Folders :
                         LET stored == IF SelectsFile(r, f) THEN data.file[f] ELSE Absent IN
                         stored \in Versions \/ fresh => coll.file[f] = stored
                    /\ \A k \in Keys :
                         LET stored == IF SelectsKey(r, k) THEN data.key[k] ELSE Absent IN
                         stored # Absent \/ fresh => coll.key[k] = stored
                    /\ \A a \in Area : fresh /\ AreaExists(coll, a) => coll.rct[a] = data.rct[a]
  BY DEF BackupFaithful
<1>1. /\ todo = <<>> /\ r.op = "backup"
      /\ todo \in Collects(r, Missing(r, data, coll, fresh))
      /\ fresh => OnlyFrom(r, data, coll)
  BY DEF Done, BackupInv, Looks
<1>2. \A x \in ToCollect(r, data) : Copied(x, data, coll, fresh)
  <2> SUFFICES ASSUME NEW x \in Missing(r, data, coll, fresh) PROVE FALSE
    BY DEF Missing
  <2>1. x \in Items
    BY ToCollectItems DEF Missing
  <2>2. todo \in Holding(BackupCalls(r), Collecting(r, x))
    BY <1>1, <2>1 DEF Collects, Covers, Collect
  <2> QED
    BY <1>1, <2>2 DEF Holding
<1>3. ASSUME NEW f \in Folders
      PROVE  LET stored == IF SelectsFile(r, f) THEN data.file[f] ELSE Absent IN
             stored \in Versions \/ fresh => coll.file[f] = stored
  <2>1. fresh /\ coll.file[f] # Absent => SelectsFile(r, f) /\ coll.file[f] = data.file[f]
    BY <1>1 DEF OnlyFrom
  <2>2. Absent \notin Versions /\ Empty \notin Versions
    BY DataAssumption
  <2>3. SelectsFile(r, f) /\ data.file[f] # Absent =>
          (coll.file[f] = data.file[f] \/ (data.file[f] = Empty /\ ~fresh))
    <3> SUFFICES ASSUME SelectsFile(r, f), data.file[f] # Absent
                 PROVE  coll.file[f] = data.file[f] \/ (data.file[f] = Empty /\ ~fresh)
      OBVIOUS
    <3>1. <<"file", f>> \in ToCollect(r, data)
      BY DEF ToCollect
    <3> QED
      BY <1>2, <3>1, CopiedFile
  <2> QED
    BY <2>1, <2>2, <2>3
<1>4. ASSUME NEW k \in Keys
      PROVE  LET stored == IF SelectsKey(r, k) THEN data.key[k] ELSE Absent IN
             stored # Absent \/ fresh => coll.key[k] = stored
  <2>1. fresh /\ coll.key[k] # Absent => SelectsKey(r, k) /\ coll.key[k] = data.key[k]
    BY <1>1 DEF OnlyFrom
  <2>2. SelectsKey(r, k) /\ data.key[k] # Absent => coll.key[k] = data.key[k]
    <3> SUFFICES ASSUME SelectsKey(r, k), data.key[k] # Absent
                 PROVE  coll.key[k] = data.key[k]
      OBVIOUS
    <3>1. <<"key", k>> \in ToCollect(r, data)
      BY DEF ToCollect
    <3> QED
      BY <1>2, <3>1, CopiedKey
  <2> QED
    BY <2>1, <2>2
<1>5. ASSUME NEW a \in Area, fresh, AreaExists(coll, a) PROVE coll.rct[a] = data.rct[a]
  <2>1. OnlyFrom(r, data, coll)
    BY <1>1, <1>5
  <2>2. CASE coll.rct[a] # 0
    BY <2>1, <2>2 DEF OnlyFrom
  <2>3. CASE \E f \in Folders : f[1] = a /\ coll.file[f] # Absent
    <3>1. PICK f \in Folders : f[1] = a /\ coll.file[f] # Absent
      BY <2>3
    <3>2. SelectsFile(r, f) /\ data.file[f] # Absent
      BY <2>1, <3>1 DEF OnlyFrom
    <3>3. r.type = "application" => a = r.app
      BY <1>1, <3>1, <3>2 DEF SelectsFile
    <3>4. a \in Tabled(r, data)
      BY <3>1, <3>2, <3>3 DEF Tabled, AreaExists
    <3>5. <<"table", a>> \in ToCollect(r, data)
      BY <3>4 DEF ToCollect
    <3> QED
      BY <1>2, <1>5, <3>5, CopiedTable
  <2>4. CASE \E d \in coll.db : d[1] = a
    <3>1. PICK d \in coll.db : d[1] = a
      BY <2>4
    <3>2. d \in data.db /\ (r.type = "application" => a = r.app)
      BY <2>1, <3>1 DEF OnlyFrom
    <3>3. a \in Tabled(r, data)
      BY <3>1, <3>2 DEF Tabled, AreaExists
    <3>4. <<"table", a>> \in ToCollect(r, data)
      BY <3>3 DEF ToCollect
    <3> QED
      BY <1>2, <1>5, <3>4, CopiedTable
  <2> QED
    BY <1>5, <2>2, <2>3, <2>4 DEF AreaExists
<1> QED
  BY <1>3, <1>4, <1>5

\* What a backup archives that hid no error is the selected data as it was on
\* the target, whatever the target held and whichever calls could have failed;
\* and in a folder that was new nothing else.
THEOREM Collected == Spec => []BackupFaithful
<1> DEFINE IInv == TypeInv /\ RequestInv /\ KeysInDbs(tree.data) /\ BackupInv
<1>1. Init => IInv
  <2>1. Init => BackupInv
    BY DEF Init, BackupInv
  <2> QED
    BY <2>1, InitTypes, InitKeysInDbs
<1>2. IInv /\ [Next]_vars => IInv'
  BY NextTypes, NextKeepsDbs, NextBackup
<1>3. IInv => BackupFaithful
  <2> SUFFICES ASSUME IInv PROVE BackupFaithful
    OBVIOUS
  <2>1. CASE Done("backup")
    <3>1. req \in Requests
      BY <2>1 DEF Done, RequestInv
    <3> QED
      BY <3>1, BackupEnds
  <2>2. CASE ~Done("backup")
    BY <2>2 DEF BackupFaithful
  <2> QED
    BY <2>1, <2>2
<1> QED
  BY <1>1, <1>2, <1>3, PTL DEF Spec

-----------------------------------------------------------------------------
(* What a recovery brings back. *)

\* An application that is not installed is left alone by a recovery of all data.
Opens(r, before, a) == r.type = "all" /\ a \in Apps => AreaExists(before, a)

\* The calls a recovery makes.  An error ends it, or is counted; only what is
\* deleted and links are ignored.
RecoveryCalls(r, before) ==
  {c \in Calls :
     /\ \/ c.err \in {"abort", "count"}
        \/ c.err = "ignore" /\ c.do \in {"clear", "clearKeys", "importLinks"}
     /\ \/ c.do \in {"list", "checkRct", "return", "testSum"}
        \/ c.do = "importLinks" /\ c.area \in Apps
        \/ /\ c.do \in {"clear", "copy"} /\ c.from = "ext" /\ c.to = "data"
           /\ c.set \in SUBSET Folders
           /\ \A f \in c.set : c.set = UnitOf(r, f) /\ Opens(r, before, f[1])
        \/ /\ c.do \in {"clearKeys", "copyKeys"} /\ c.from = "ext" /\ c.to = "data"
           /\ c.db \in Databases /\ Opens(r, before, c.db[1])
           /\ c.set \in SUBSET {k \in Keys : <<k[1], k[3]>> = c.db}}

\* What is deleted is copied next.
Redone(c, d) ==
  /\ d.set = c.set
  /\ c.do = "clear" => d.do = "copy"
  /\ c.do = "clearKeys" => d.do = "copyKeys"
Paired(p) ==
  \A i \in 1..Len(p) : p[i].do \in {"clear", "clearKeys"} =>
    i < Len(p) /\ Redone(p[i], p[i + 1])

\* What there is to bring back: files, keys, links.
Goods == ({"file"} \X Folders) \cup ({"key"} \X Keys) \cup ({"link"} \X Apps)

\* The calls that delete it, and those that copy it.
Emptying(C, x) ==
  {c \in C : \/ x[1] = "file" /\ c.do = "clear" /\ x[2] \in c.set
             \/ x[1] = "key" /\ c.do = "clearKeys" /\ x[2] \in c.set}
Filling(C, x) ==
  {c \in C : \/ x[1] = "file" /\ c.do = "copy" /\ x[2] \in c.set
             \/ x[1] = "key" /\ c.do = "copyKeys" /\ x[2] \in c.set
             \/ x[1] = "link" /\ c.do = "importLinks" /\ x[2] = c.area}

\* Shared keys and links are not deleted first.
Plain(x) == x[1] = "link" \/ (x[1] = "key" /\ x[2][1] \in Shared)
Redoing(C, x) == IF Plain(x) THEN Filling(C, x) ELSE Emptying(C, x)

Redo(C) == [x \in Goods |-> Holding(C, Redoing(C, x))]
Redoes(C, X) == {p \in Covers(C, Redo(C), X) : Paired(p)}

LEMMA RedoLasts ==
  ASSUME NEW C, NEW x \in Goods
  PROVE  Lasting(C, C, Redo(C)[x])
BY HoldingLasts DEF Redo

LEMMA RedoesLess ==
  ASSUME NEW C, NEW X, NEW Y, Y \subseteq X, NEW p \in Redoes(C, X)
  PROVE  p \in Redoes(C, Y)
BY CoversLess DEF Redoes

LEMMA RedoesCalls ==
  ASSUME NEW C, NEW X, NEW p \in Redoes(C, X)
  PROVE  p \in Seq(C) /\ Paired(p) /\ p \in Redoes(C, {})
BY CoversCalls, CoversNone DEF Redoes

LEMMA PairedBoth ==
  ASSUME NEW C, NEW p \in Seq(C), NEW q \in Seq(C), Paired(p), Paired(q)
  PROVE  Paired(p \o q)
<1> DEFINE pq == p \o q
<1>1. /\ pq \in Seq(C) /\ Len(pq) = Len(p) + Len(q) /\ Len(p) \in Nat /\ Len(q) \in Nat
      /\ \A i \in 1..Len(p) : pq[i] = p[i]
      /\ \A i \in 1..Len(q) : pq[Len(p) + i] = q[i]
  BY ConcatType, ConcatParts, LenType
<1> HIDE DEF pq
<1>2. ASSUME NEW i \in 1..Len(pq), pq[i].do \in {"clear", "clearKeys"}
      PROVE  i < Len(pq) /\ Redone(pq[i], pq[i + 1])
  <2>1. CASE i <= Len(p)
    <3>1. i \in 1..Len(p)
      BY <1>1, <2>1
    <3>4. pq[i] = p[i]
      BY <1>1, <3>1
    <3>2. i < Len(p) /\ Redone(p[i], p[i + 1])
      BY <1>2, <3>1, <3>4 DEF Paired
    <3>3. i + 1 \in 1..Len(p)
      BY <1>1, <3>1, <3>2
    <3> QED
      BY <1>1, <3>1, <3>2, <3>3, <3>4
  <2>2. CASE i > Len(p)
    <3>1. PICK j \in 1..Len(q) : i = Len(p) + j
      <4>1. i - Len(p) \in 1..Len(q) /\ i = Len(p) + (i - Len(p))
        BY <1>1, <2>2
      <4> QED
        BY <4>1
    <3>2. pq[i] = q[j]
      BY <1>1, <3>1
    <3>3. j < Len(q) /\ Redone(q[j], q[j + 1])
      BY <1>2, <3>2 DEF Paired
    <3>4. j + 1 \in 1..Len(q) /\ i + 1 = Len(p) + (j + 1)
      BY <1>1, <3>1, <3>3
    <3>5. pq[i + 1] = q[j + 1]
      BY <1>1, <3>4
    <3> QED
      BY <1>1, <3>1, <3>2, <3>3, <3>5
  <2> QED
    BY <1>1, <2>1, <2>2
<1>3. Paired(pq)
  BY <1>2 DEF Paired
<1> QED
  BY <1>3 DEF pq

LEMMA RedoesBoth ==
  ASSUME NEW C, NEW X \in SUBSET Goods, NEW Y \in SUBSET Goods,
         NEW p \in Redoes(C, X), NEW q \in Redoes(C, Y)
  PROVE  p \o q \in Redoes(C, X \cup Y)
<1>1. \A x \in X \cup Y : Lasting(C, C, Redo(C)[x])
  BY RedoLasts
<1>2. p \o q \in Covers(C, Redo(C), X \cup Y)
  BY <1>1, CoversBoth DEF Redoes
<1>3. Paired(p \o q)
  BY RedoesCalls, PairedBoth
<1> QED
  BY <1>2, <1>3 DEF Redoes

LEMMA RedoesAlong ==
  ASSUME NEW C, NEW X \in SUBSET Goods, NEW seqs \in Seq(Redoes(C, {})),
         \A x \in X : \E i \in 1..Len(seqs) : seqs[i] \in Redoes(C, {x})
  PROVE  FlattenSeq(seqs) \in Redoes(C, X)
<1> DEFINE G == Redoes(C, {})
           all == FlattenSeq(seqs)
<1>1. <<>> \in G
  <2>1. <<>> \in Covers(C, Redo(C), {})
    BY EmptyType, CoversNone
  <2>2. Paired(<<>>)
    BY DEF Paired
  <2> QED
    BY <2>1, <2>2 DEF Redoes
<1>2. ASSUME NEW p \in G, NEW q \in G PROVE p \o q \in G
  <2>1. p \o q \in Redoes(C, {} \cup {})
    BY RedoesBoth
  <2> QED
    BY <2>1
<1>3. G \subseteq Seq(C)
  BY RedoesCalls
<1> HIDE DEF G
<1>4. all \in G
  BY <1>1, <1>2, FlattenClosed DEF G
<1>5. seqs \in Seq(Seq(C))
  BY <1>3, SeqSubset DEF G
<1>6. \A x \in X : Lasting(C, C, Redo(C)[x])
  BY RedoLasts
<1>7. \A x \in X : \E i \in 1..Len(seqs) : seqs[i] \in Redo(C)[x]
  BY DEF Redoes, Covers
<1>8. all \in Covers(C, Redo(C), X)
  BY <1>5, <1>6, <1>7, CoversAlong
<1> HIDE DEF all
<1>9. all \in Redoes(C, X)
  BY <1>4, <1>8, RedoesCalls DEF Redoes, G
<1> QED
  BY <1>9 DEF all

\* A call that deletes nothing.
LEMMA RedoesOne ==
  ASSUME NEW C, NEW c \in C, c.do \notin {"clear", "clearKeys"}, NEW X \in SUBSET Goods,
         \A x \in X : Plain(x) /\ c \in Filling(C, x)
  PROVE  <<c>> \in Redoes(C, X)
<1> DEFINE p == <<c>>
<1>1. p \in Seq(C) /\ Len(p) = 1 /\ p[1] = c
  BY OneType
<1>2. \A x \in X : p \in Redo(C)[x]
  BY HoldsOne DEF Redo, Redoing
<1> HIDE DEF p
<1>3. Paired(p)
  BY <1>1 DEF Paired
<1>4. p \in Redoes(C, X)
  BY <1>1, <1>2, <1>3 DEF Redoes, Covers
<1> QED
  BY <1>4 DEF p

LEMMA RedoesQuiet ==
  ASSUME NEW C, NEW c \in C, c.do \notin {"clear", "clearKeys"}
  PROVE  <<c>> \in Redoes(C, {})
BY RedoesOne

\* A call that deletes, and one that copies.
LEMMA RedoesPair ==
  ASSUME NEW C, NEW c \in C, NEW d \in C, Redone(c, d), d.do \notin {"clear", "clearKeys"},
         NEW X \in SUBSET Goods,
         \A x \in X : IF Plain(x) THEN d \in Filling(C, x) ELSE c \in Emptying(C, x)
  PROVE  <<c, d>> \in Redoes(C, X)
<1> DEFINE p == <<c, d>>
<1>1. p \in Seq(C) /\ Len(p) = 2 /\ p[1] = c /\ p[2] = d /\ p[1 + 1] = d
  OBVIOUS
<1> HIDE DEF p
<1>2. ASSUME NEW x \in X PROVE p \in Redo(C)[x]
  <2>1. \E i \in 1..Len(p) : p[i] \in Redoing(C, x)
    BY <1>1 DEF Redoing
  <2> QED
    BY <1>1, <2>1 DEF Redo, Holding
<1>3. Paired(p)
  BY <1>1 DEF Paired
<1>4. p \in Redoes(C, X)
  BY <1>1, <1>2, <1>3 DEF Redoes, Covers
<1> QED
  BY <1>4 DEF p

-----------------------------------------------------------------------------
(* What the parts of a recovery's plan bring back. *)

\* Whom the plan is for.
For(r, a, u, s) ==
  IF r.type = "user" THEN u = r.user /\ s = r.seat
  ELSE u = AllUsers /\ s = AllSeats /\ (r.type = "application" => a = r.app)

LEMMA UserUnit ==
  ASSUME NEW r \in Requests, r.op = "recover", NEW a, NEW u, NEW s, For(r, a, u, s)
  PROVE  /\ UserFolder(a, u, s) = {f \in Folders : f[1] = a /\ f[2] # Node /\ SelectsFile(r, f)}
         /\ \A f \in UserFolder(a, u, s) : UserFolder(a, u, s) = UnitOf(r, f)
<1> DEFINE S == {f \in Folders : f[1] = a /\ f[2] # Node /\ SelectsFile(r, f)}
<1>1. ASSUME NEW f \in Folders, f[1] = a, f[2] # Node
      PROVE  OwnedBy(f[2], u, s) <=> SelectsFile(r, f)
  <2>1. r.type \in {"all", "user", "application"} /\ r.op = "recover"
    BY DEF Requests
  <2>2. CASE r.type = "all"
    BY <1>1, <2>2 DEF For, OwnedBy, SelectsFile
  <2>3. CASE r.type = "application"
    BY <1>1, <2>3 DEF For, OwnedBy, SelectsFile, EveryUser
  <2>4. CASE r.type = "user"
    <3>1. u = r.user /\ s = r.seat /\ (u = AllUsers => s = AllSeats)
      BY <2>4 DEF For, Requests
    <3>2. SelectsFile(r, f) <=> Owns(r, f[2])
      BY <2>4 DEF SelectsFile
    <3>3. OwnedBy(f[2], u, s) <=> Owns(r, f[2])
      <4>1. CASE u = AllUsers
        BY <1>1, <3>1, <4>1 DEF OwnedBy, Owns
      <4>2. CASE u # AllUsers /\ s = AllSeats
        BY <1>1, <3>1, <4>2 DEF OwnedBy, Owns
      <4>3. CASE u # AllUsers /\ s # AllSeats
        <5>1. f[2] = <<f[2][1], f[2][2]>>
          BY DataAssumption
        <5>2. OwnedBy(f[2], u, s) <=> f[2] = <<u, s>>
          BY <4>3 DEF OwnedBy
        <5> QED
          BY <1>1, <3>1, <4>3, <5>1, <5>2 DEF Owns
      <4> QED
        BY <4>1, <4>2, <4>3
    <3> QED
      BY <3>2, <3>3
  <2> QED
    BY <2>1, <2>2, <2>3, <2>4
<1>2. UserFolder(a, u, s) = S
  BY <1>1 DEF UserFolder
<1>3. \A f \in S : S = UnitOf(r, f)
  BY DEF UnitOf
<1> QED
  BY <1>2, <1>3

LEMMA NodeUnit ==
  ASSUME NEW r, NEW a
  PROVE  \A f \in NodeFolder(a) : NodeFolder(a) = UnitOf(r, f)
<1> SUFFICES ASSUME NEW f \in NodeFolder(a) PROVE NodeFolder(a) = UnitOf(r, f)
  OBVIOUS
<1>1. f \in Folders /\ f[1] = a /\ f[2] = Node
  BY DEF NodeFolder
<1>2. \A g \in Folders : g = <<g[1], g[2]>>
  BY DataAssumption
<1>3. NodeFolder(a) = {f}
  BY <1>1, <1>2 DEF NodeFolder
<1> QED
  BY <1>1, <1>3 DEF UnitOf

LEMMA KeysUnit ==
  ASSUME NEW r \in Requests, r.op = "recover", NEW d, NEW u, NEW s, For(r, d[1], u, s),
         NEW type, r.type = "user" <=> type = "user"
  PROVE  FilterKeys(d, type, u, s) = {k \in Keys : <<k[1], k[3]>> = d /\ SelectsKey(r, k)}
<1> SUFFICES ASSUME NEW k \in Keys, <<k[1], k[3]>> = d
             PROVE  Filter(type, u, s, k[2]) <=> SelectsKey(r, k)
  BY DEF FilterKeys
<1>1. r.type \in {"all", "user", "application"} /\ k[1] = d[1]
  BY DEF Requests
<1>2. CASE r.type = "all"
  BY <1>2 DEF For, Filter, SelectsKey
<1>3. CASE r.type = "application"
  BY <1>1, <1>3 DEF For, Filter, SelectsKey, EveryUser
<1>4. CASE r.type = "user"
  BY <1>4 DEF For, Filter, SelectsKey, Owns
<1> QED
  BY <1>1, <1>2, <1>3, <1>4

LEMMA GoodsAre ==
  ASSUME NEW x \in Goods
  PROVE  \/ \E f \in Folders : x = <<"file", f>>
         \/ \E k \in Keys : x = <<"key", k>>
         \/ \E a \in Apps : x = <<"link", a>>
BY DEF Goods

LEMMA ReplaceFolderRedoes ==
  ASSUME NEW r, NEW b, NEW S \in SUBSET Folders,
         \A f \in S : S = UnitOf(r, f) /\ Opens(r, b, f[1]),
         NEW err \in {"abort", "count"}, NEW fn \in Labels
  PROVE  ReplaceFolder(S, err, fn) \in Redoes(RecoveryCalls(r, b), {"file"} \X S)
<1> DEFINE C == RecoveryCalls(r, b)
           clear == Clear("ext", "data", S, "ignore", fn)
           copy == Copy("ext", "data", S, err, fn)
           X == {"file"} \X S
<1>1. clear \in Calls /\ copy \in Calls
  BY CopyCall, ClearCall
<1>2. /\ clear.do = "clear" /\ clear.set = S /\ clear.from = "ext" /\ clear.to = "data"
      /\ clear.err = "ignore"
      /\ copy.do = "copy" /\ copy.set = S /\ copy.from = "ext" /\ copy.to = "data"
      /\ copy.err = err
  BY DEF Clear, Copy, Call
<1> HIDE DEF clear, copy
<1>3. clear \in C /\ copy \in C
  BY <1>1, <1>2 DEF RecoveryCalls
<1>4. Redone(clear, copy)
  BY <1>2 DEF Redone
<1>5. X \in SUBSET Goods
  BY DEF Goods
<1>6. \A x \in X : ~Plain(x) /\ clear \in Emptying(C, x)
  BY <1>2, <1>3 DEF Plain, Emptying
<1> HIDE DEF C, X
<1>7. <<clear, copy>> \in Redoes(C, X)
  BY <1>2, <1>3, <1>4, <1>5, <1>6, RedoesPair
<1> QED
  BY <1>7 DEF ReplaceFolder, C, X, clear, copy

NodeGoods(a) == {"file"} \X NodeFolder(a)
UserGoods(r, a) == {"file"} \X {f \in Folders : f[1] = a /\ f[2] # Node /\ SelectsFile(r, f)}
KeyGoods(r, a) == {"key"} \X {k \in Keys : k[1] = a /\ SelectsKey(r, k)}

LEMMA GoodsType ==
  ASSUME NEW r, NEW a
  PROVE  NodeGoods(a) \in SUBSET Goods /\ UserGoods(r, a) \in SUBSET Goods
         /\ KeyGoods(r, a) \in SUBSET Goods
BY DEF NodeGoods, UserGoods, KeyGoods, NodeFolder, Goods

LEMMA RestoreNodeRedoes ==
  ASSUME NEW r, NEW b, NEW a, Opens(r, b, a)
  PROVE  RestoreNode(a) \in Redoes(RecoveryCalls(r, b), NodeGoods(a))
<1> DEFINE S == NodeFolder(a)
<1>1. S \in SUBSET Folders /\ "appl_node" \in Labels /\ \A f \in S : f[1] = a
  BY DEF NodeFolder, Labels
<1>2. \A f \in S : S = UnitOf(r, f) /\ Opens(r, b, f[1])
  BY <1>1, NodeUnit
<1> HIDE DEF S
<1>3. ReplaceFolder(S, "abort", "appl_node") \in Redoes(RecoveryCalls(r, b), {"file"} \X S)
  BY <1>1, <1>2, ReplaceFolderRedoes
<1> QED
  BY <1>3 DEF RestoreNode, NodeGoods, S

LEMMA UserFilesRedo ==
  ASSUME NEW r \in Requests, r.op = "recover", NEW b, NEW a, Opens(r, b, a),
         NEW u, NEW s, For(r, a, u, s), NEW err \in {"abort", "count"}, NEW fn \in Labels
  PROVE  ReplaceFolder(UserFolder(a, u, s), err, fn)
           \in Redoes(RecoveryCalls(r, b), UserGoods(r, a))
<1> DEFINE S == UserFolder(a, u, s)
<1>1. S = {f \in Folders : f[1] = a /\ f[2] # Node /\ SelectsFile(r, f)}
      /\ \A f \in S : S = UnitOf(r, f)
  BY UserUnit
<1>2. \A f \in S : S = UnitOf(r, f) /\ Opens(r, b, f[1])
  BY <1>1
<1>3. S \in SUBSET Folders /\ UserGoods(r, a) = {"file"} \X S
  BY <1>1 DEF UserGoods
<1> HIDE DEF S
<1>4. ReplaceFolder(S, err, fn) \in Redoes(RecoveryCalls(r, b), {"file"} \X S)
  BY <1>2, <1>3, ReplaceFolderRedoes
<1> QED
  BY <1>3, <1>4 DEF S

LEMMA QuietCalls ==
  ASSUME NEW r, NEW b, NEW fn \in Labels, NEW err \in {"abort", "count"}, NEW a \in Area
  PROVE  /\ <<ListFolders(err, fn)>> \in Redoes(RecoveryCalls(r, b), {})
         /\ <<CheckRct(a, err, fn)>> \in Redoes(RecoveryCalls(r, b), {})
         /\ <<Return(fn)>> \in Redoes(RecoveryCalls(r, b), {})
         /\ <<TestSum>> \in Redoes(RecoveryCalls(r, b), {})
<1> DEFINE C == RecoveryCalls(r, b)
<1>1. ListFolders(err, fn) \in C /\ ListFolders(err, fn).do = "list"
  BY DEF ListFolders, Call, Calls, RecoveryCalls
<1>2. CheckRct(a, err, fn) \in C /\ CheckRct(a, err, fn).do = "checkRct"
  BY DEF CheckRct, Call, Calls, RecoveryCalls
<1>3. Return(fn) \in C /\ Return(fn).do = "return"
  BY DEF Return, Call, Calls, RecoveryCalls
<1>4. TestSum \in C /\ TestSum.do = "testSum"
  <2>1. "" \in Labels
    BY DEF Labels
  <2> QED
    BY <2>1 DEF TestSum, Call, Calls, RecoveryCalls
<1> HIDE DEF C
<1> QED
  BY <1>1, <1>2, <1>3, <1>4, RedoesQuiet DEF C

LEMMA LinksRedo ==
  ASSUME NEW r, NEW b, NEW a \in Apps, NEW err \in {"ignore", "count"}, NEW fn \in Labels
  PROVE  <<ImportLinks(a, err, fn)>> \in Redoes(RecoveryCalls(r, b), {<<"link", a>>})
<1> DEFINE C == RecoveryCalls(r, b)
           c == ImportLinks(a, err, fn)
           X == {<<"link", a>>}
<1>1. c \in C /\ c.do = "importLinks" /\ c.area = a
  BY DEF ImportLinks, Call, Calls, RecoveryCalls, Area
<1>2. X \in SUBSET Goods
  BY DEF Goods
<1> HIDE DEF C, c
<1>3. \A x \in X : Plain(x) /\ c \in Filling(C, x)
  BY <1>1 DEF Plain, Filling
<1> HIDE DEF X
<1>4. <<c>> \in Redoes(C, X)
  BY <1>1, <1>2, <1>3, RedoesOne
<1> QED
  BY <1>4 DEF C, c, X

\* A walk over a list, whose part for a does what G[a] has.
LEMMA RedoesWalk ==
  ASSUME NEW C, NEW A, NEW seq \in Seq(A), NEW seqs, NEW G,
         seqs = [i \in 1..Len(seq) |-> seqs[i]],
         \A i \in 1..Len(seq) : seqs[i] \in Redoes(C, G[seq[i]]),
         NEW X \in SUBSET Goods, \A x \in X : \E i \in 1..Len(seq) : x \in G[seq[i]]
  PROVE  FlattenSeq(seqs) \in Redoes(C, X)
<1> DEFINE R == Redoes(C, {})
<1>1. \A i \in 1..Len(seq) : seqs[i] \in R
  BY RedoesCalls
<1> HIDE DEF R
<1>2. seqs \in Seq(R) /\ Len(seqs) = Len(seq)
  BY <1>1
<1>3. ASSUME NEW x \in X PROVE \E i \in 1..Len(seqs) : seqs[i] \in Redoes(C, {x})
  <2>1. PICK i \in 1..Len(seq) : x \in G[seq[i]]
    OBVIOUS
  <2>2. seqs[i] \in Redoes(C, G[seq[i]])
    OBVIOUS
  <2>3. seqs[i] \in Redoes(C, {x})
    BY <2>1, <2>2, RedoesLess
  <2> QED
    BY <1>2, <2>3
<1> QED
  BY <1>2, <1>3, RedoesAlong DEF R

\* The selected keys of a database.
DbGoods(r, d) == {"key"} \X {k \in Keys : <<k[1], k[3]>> = d /\ SelectsKey(r, k)}

LEMMA DbGoodsType ==
  ASSUME NEW r, NEW d
  PROVE  DbGoods(r, d) \in SUBSET Goods
BY DEF DbGoods, Goods

LEMMA DbCalls ==
  ASSUME NEW r \in Requests, r.op = "recover", NEW b, NEW d \in Databases, Opens(r, b, d[1]),
         NEW u, NEW s, For(r, d[1], u, s), NEW type, r.type = "user" <=> type = "user",
         NEW fn \in Labels
  PROVE  LET C == RecoveryCalls(r, b)
             S == FilterKeys(d, type, u, s)
             clear == ClearDb("ext", "data", d, S, "ignore", fn)
             copy == CopyDb("ext", "data", d, S, "abort", fn)
         IN /\ clear \in C /\ copy \in C /\ Redone(clear, copy)
            /\ copy.do = "copyKeys"
            /\ \A x \in DbGoods(r, d) : clear \in Emptying(C, x) /\ copy \in Filling(C, x)
<1> DEFINE C == RecoveryCalls(r, b)
           S == FilterKeys(d, type, u, s)
           clear == ClearDb("ext", "data", d, S, "ignore", fn)
           copy == CopyDb("ext", "data", d, S, "abort", fn)
<1>1. S = {k \in Keys : <<k[1], k[3]>> = d /\ SelectsKey(r, k)}
  BY KeysUnit
<1> HIDE DEF S
<1>2. S \in SUBSET {k \in Keys : <<k[1], k[3]>> = d} /\ S \in SUBSET Keys
  BY <1>1
<1>3. clear \in Calls /\ copy \in Calls
  BY <1>2, CopyDbCall, ClearDbCall
<1>4. /\ clear.do = "clearKeys" /\ clear.set = S /\ clear.from = "ext" /\ clear.to = "data"
      /\ clear.err = "ignore" /\ clear.db = d
      /\ copy.do = "copyKeys" /\ copy.set = S /\ copy.from = "ext" /\ copy.to = "data"
      /\ copy.err = "abort" /\ copy.db = d
  BY DEF ClearDb, CopyDb, Call
<1> HIDE DEF clear, copy
<1>5. clear \in C /\ copy \in C
  BY <1>2, <1>3, <1>4 DEF RecoveryCalls
<1>6. Redone(clear, copy)
  BY <1>4 DEF Redone
<1> HIDE DEF C
<1>7. \A x \in DbGoods(r, d) : clear \in Emptying(C, x) /\ copy \in Filling(C, x)
  BY <1>1, <1>4, <1>5 DEF DbGoods, Emptying, Filling
<1> QED
  BY <1>4, <1>5, <1>6, <1>7 DEF C, S, clear, copy

LEMMA LocalDbRedoes ==
  ASSUME NEW r \in Requests, r.op = "recover", NEW b, NEW d \in Databases, Opens(r, b, d[1]),
         NEW u, NEW s, For(r, d[1], u, s), NEW type, r.type = "user" <=> type = "user"
  PROVE  <<ClearDb("ext", "data", d, FilterKeys(d, type, u, s), "ignore", "local_keys"),
           CopyDb("ext", "data", d, FilterKeys(d, type, u, s), "abort", "local_keys")>>
           \in Redoes(RecoveryCalls(r, b), DbGoods(r, d))
<1> DEFINE C == RecoveryCalls(r, b)
           S == FilterKeys(d, type, u, s)
           clear == ClearDb("ext", "data", d, S, "ignore", "local_keys")
           copy == CopyDb("ext", "data", d, S, "abort", "local_keys")
<1>1. "local_keys" \in Labels
  BY DEF Labels
<1>2. /\ clear \in C /\ copy \in C /\ Redone(clear, copy) /\ copy.do = "copyKeys"
      /\ \A x \in DbGoods(r, d) : clear \in Emptying(C, x) /\ copy \in Filling(C, x)
  BY <1>1, DbCalls
<1> HIDE DEF C, clear, copy
<1>3. <<clear, copy>> \in Redoes(C, DbGoods(r, d))
  BY <1>2, DbGoodsType, RedoesPair
<1> QED
  BY <1>3 DEF C, clear, copy

LEMMA LocalKeysRedo ==
  ASSUME NEW r \in Requests, r.op = "recover", NEW b, NEW a \in Area, Opens(r, b, a),
         NEW u, NEW s, For(r, a, u, s), NEW type, r.type = "user" <=> type = "user"
  PROVE  RestoreLocalKeys(a, type, u, s) \in Redoes(RecoveryCalls(r, b), KeyGoods(r, a))
<1> DEFINE C == RecoveryCalls(r, b)
           D == {a} \X ToSet(Policies)
           dbs == LocalDbs(a)
           Plan(d) == <<ClearDb("ext", "data", d, FilterKeys(d, type, u, s), "ignore", "local_keys"),
                        CopyDb("ext", "data", d, FilterKeys(d, type, u, s), "abort", "local_keys")>>
           seqs == [i \in 1..Len(dbs) |-> Plan(dbs[i])]
           G == [d \in D |-> DbGoods(r, d)]
           X == KeyGoods(r, a)
<1>1. dbs \in Seq(D)
  BY LocalDbsType
<1>2. ASSUME NEW d \in D PROVE Plan(d) \in Redoes(C, G[d])
  <2>1. d \in Databases /\ d[1] = a
    BY DEF Databases
  <2>2. Plan(d) \in Redoes(C, DbGoods(r, d))
    BY <2>1, LocalDbRedoes
  <2> HIDE DEF Plan, C
  <2> QED
    BY <2>2
<1> HIDE DEF C, Plan, dbs
<1>3. \A i \in 1..Len(dbs) : seqs[i] \in Redoes(C, G[dbs[i]])
  BY <1>1, <1>2, ElementType
<1>4. X \in SUBSET Goods
  BY GoodsType
<1>5. ASSUME NEW x \in X PROVE \E i \in 1..Len(dbs) : x \in G[dbs[i]]
  <2>1. PICK k \in Keys : x = <<"key", k>> /\ k[1] = a /\ SelectsKey(r, k)
    BY DEF KeyGoods
  <2>2. k[3] \in ToSet(Policies)
    BY DataAssumption
  <2>3. PICK i \in 1..Len(dbs) : dbs[i] = <<a, k[3]>>
    BY <2>2, LocalDbsHas DEF dbs
  <2>4. x \in DbGoods(r, dbs[i])
    BY <2>1, <2>3 DEF DbGoods
  <2>5. dbs[i] \in D
    BY <2>2, <2>3
  <2> QED
    BY <2>4, <2>5
<1> HIDE DEF G, X
<1>6. seqs = [i \in 1..Len(dbs) |-> seqs[i]]
  OBVIOUS
<1> HIDE DEF seqs
<1>7. FlattenSeq(seqs) \in Redoes(C, X)
  BY <1>1, <1>3, <1>4, <1>5, <1>6, RedoesWalk
<1> QED
  BY <1>7 DEF RestoreLocalKeys, ForAll, C, seqs, Plan, dbs, X

\* The selected keys of the shared databases that are in the archive.
SharedKeyGoods(r, t) ==
  {"key"} \X {k \in Keys : k[1] \in Shared /\ SelectsKey(r, k) /\ <<k[1], k[3]>> \in t.db}

LEMMA NoAppShared == ASSUME NEW a \in Shared PROVE a \notin Apps /\ a \in Area
BY DataAssumption DEF Area

LEMMA SharedDbRedoes ==
  ASSUME NEW r \in Requests, r.op = "recover", NEW b, NEW d \in Databases, d[1] \in Shared,
         NEW u, NEW s, For(r, d[1], u, s), NEW type, r.type = "user" <=> type = "user"
  PROVE  <<CopyDb("ext", "data", d, FilterKeys(d, type, u, s), "abort", "shared_keys")>>
           \in Redoes(RecoveryCalls(r, b), DbGoods(r, d))
<1> DEFINE C == RecoveryCalls(r, b)
           S == FilterKeys(d, type, u, s)
           copy == CopyDb("ext", "data", d, S, "abort", "shared_keys")
<1>1. "shared_keys" \in Labels /\ Opens(r, b, d[1])
  BY NoAppShared DEF Labels, Opens
<1>2. /\ copy \in C /\ copy.do = "copyKeys"
      /\ \A x \in DbGoods(r, d) : copy \in Filling(C, x)
  BY <1>1, DbCalls
<1>3. \A x \in DbGoods(r, d) : Plain(x)
  BY DEF DbGoods, Plain
<1> HIDE DEF C, copy
<1>4. <<copy>> \in Redoes(C, DbGoods(r, d))
  BY <1>2, <1>3, DbGoodsType, RedoesOne
<1> QED
  BY <1>4 DEF C, copy

LEMMA SharedKeysRedo ==
  ASSUME NEW r \in Requests, r.op = "recover", NEW b, NEW t, NEW u, NEW s,
         \A a \in Shared : For(r, a, u, s), NEW type, r.type = "user" <=> type = "user"
  PROVE  RestoreSharedKeys(t, type, u, s) \in Redoes(RecoveryCalls(r, b), SharedKeyGoods(r, t))
<1> DEFINE C == RecoveryCalls(r, b)
           D == Shared \X ToSet(Policies)
           dbs == SharedDbs(t)
           Plan(d) == <<CopyDb("ext", "data", d, FilterKeys(d, type, u, s), "abort", "shared_keys")>>
           seqs == [i \in 1..Len(dbs) |-> Plan(dbs[i])]
           G == [d \in D |-> DbGoods(r, d)]
           X == SharedKeyGoods(r, t)
<1>1. dbs \in Seq(D)
  BY SharedDbsType
<1>2. ASSUME NEW d \in D PROVE Plan(d) \in Redoes(C, G[d])
  <2>1. d \in Databases /\ d[1] \in Shared
    BY DEF Databases, Area
  <2>2. Plan(d) \in Redoes(C, DbGoods(r, d))
    BY <2>1, SharedDbRedoes
  <2> HIDE DEF Plan, C
  <2> QED
    BY <2>2
<1> HIDE DEF C, Plan, dbs
<1>3. \A i \in 1..Len(dbs) : seqs[i] \in Redoes(C, G[dbs[i]])
  BY <1>1, <1>2, ElementType
<1>4. X \in SUBSET Goods
  BY DEF SharedKeyGoods, Goods
<1>5. ASSUME NEW x \in X PROVE \E i \in 1..Len(dbs) : x \in G[dbs[i]]
  <2>1. PICK k \in Keys : /\ x = <<"key", k>> /\ k[1] \in Shared /\ SelectsKey(r, k)
                          /\ <<k[1], k[3]>> \in t.db
    BY DEF SharedKeyGoods
  <2>2. k[3] \in ToSet(Policies) /\ AreaExists(t, k[1])
    BY <2>1, DataAssumption DEF AreaExists
  <2>3. PICK i \in 1..Len(dbs) : dbs[i] = <<k[1], k[3]>>
    BY <2>1, <2>2, SharedDbsHas DEF dbs
  <2>4. x \in DbGoods(r, dbs[i])
    BY <2>1, <2>3 DEF DbGoods
  <2>5. dbs[i] \in D
    BY <2>1, <2>2, <2>3
  <2> QED
    BY <2>4, <2>5
<1> HIDE DEF G, X
<1>6. seqs = [i \in 1..Len(dbs) |-> seqs[i]]
  OBVIOUS
<1> HIDE DEF seqs
<1>7. FlattenSeq(seqs) \in Redoes(C, X)
  BY <1>1, <1>3, <1>4, <1>5, <1>6, RedoesWalk
<1> QED
  BY <1>7 DEF RestoreSharedKeys, ForAll, C, seqs, Plan, dbs, X

LEMMA RedoesNothing == ASSUME NEW C PROVE <<>> \in Redoes(C, {})
<1>1. <<>> \in Covers(C, Redo(C), {})
  BY EmptyType, CoversNone
<1>2. Paired(<<>>)
  BY DEF Paired
<1> QED
  BY <1>1, <1>2 DEF Redoes

LEMMA RedoesBeside ==
  ASSUME NEW C, NEW X \in SUBSET Goods, NEW p \in Redoes(C, X), NEW q \in Redoes(C, {})
  PROVE  p \o q \in Redoes(C, X) /\ q \o p \in Redoes(C, X)
<1>1. p \o q \in Redoes(C, X \cup {})
  BY RedoesBoth
<1>2. q \o p \in Redoes(C, {} \cup X)
  BY RedoesBoth
<1> QED
  BY <1>1, <1>2

AppGoods(r, a) == NodeGoods(a) \cup UserGoods(r, a) \cup KeyGoods(r, a)

LEMMA ApplicationRedoes ==
  ASSUME NEW r \in Requests, r.op = "recover", r.type # "user", NEW b, NEW a \in Apps,
         Opens(r, b, a), For(r, a, AllUsers, AllSeats)
  PROVE  RestoreApplication(a) \in Redoes(RecoveryCalls(r, b), AppGoods(r, a))
<1> DEFINE C == RecoveryCalls(r, b)
           check == <<CheckRct(a, "abort", "appl_data")>>
           node == RestoreNode(a)
           user == RestoreUser(a, AllUsers, AllSeats)
           keys == RestoreLocalKeys(a, "application", AllUsers, AllSeats)
           X == NodeGoods(a)
           Y == UserGoods(r, a)
           Z == KeyGoods(r, a)
<1>1. a \in Area /\ "appl_data" \in Labels /\ "appl_user" \in Labels
  BY DEF Area, Labels
<1>2. check \in Redoes(C, {})
  BY <1>1, QuietCalls
<1>3. node \in Redoes(C, X)
  BY RestoreNodeRedoes
<1>4. user \in Redoes(C, Y)
  BY <1>1, UserFilesRedo DEF RestoreUser
<1>5. keys \in Redoes(C, Z)
  BY <1>1, LocalKeysRedo
<1>6. X \in SUBSET Goods /\ Y \in SUBSET Goods /\ Z \in SUBSET Goods
  BY GoodsType
<1>7. RestoreApplication(a) = ((check \o node) \o user) \o keys
  BY DEF RestoreApplication
<1> HIDE DEF C, check, node, user, keys, X, Y, Z
<1>8. check \o node \in Redoes(C, X)
  BY <1>2, <1>3, <1>6, RedoesBeside
<1>9. (check \o node) \o user \in Redoes(C, X \cup Y)
  BY <1>4, <1>6, <1>8, RedoesBoth
<1>10. ((check \o node) \o user) \o keys \in Redoes(C, (X \cup Y) \cup Z)
  BY <1>5, <1>6, <1>9, RedoesBoth
<1> QED
  BY <1>7, <1>10 DEF C, X, Y, Z, AppGoods

\* The folders of the node in the shared areas there are.
SharedNodeGoods(t) ==
  {"file"} \X {f \in Folders : /\ f[1] \in Shared /\ f[2] = Node
                               /\ f[1] # Public => AreaExists(t, f[1])}

LEMMA NonUserSharedRedoes ==
  ASSUME NEW r, NEW b, NEW t
  PROVE  RestoreNonUserShared(t) \in Redoes(RecoveryCalls(r, b), SharedNodeGoods(t))
<1> DEFINE C == RecoveryCalls(r, b)
           list == <<ListFolders("abort", "non_user_shared")>>
           public == RestoreNode(Public)
           groups == GroupsOf(t)
           seqs == [i \in 1..Len(groups) |-> RestoreNode(groups[i])]
           G == [g \in Groups |-> NodeGoods(g)]
           X == NodeGoods(Public)
           Y == {x \in SharedNodeGoods(t) : x \notin X}
<1>1. "non_user_shared" \in Labels /\ Public \in Shared /\ Public \in Area
      /\ \A a \in Shared : Opens(r, b, a)
  BY NoAppShared DEF Labels, Opens, Shared, Area
<1>2. list \in Redoes(C, {})
  BY <1>1, QuietCalls
<1>3. public \in Redoes(C, X)
  BY <1>1, RestoreNodeRedoes
<1>4. groups \in Seq(Groups)
  BY GroupsOfType
<1>5. ASSUME NEW g \in Groups PROVE RestoreNode(g) \in Redoes(C, G[g])
  <2>1. Opens(r, b, g)
    BY <1>1 DEF Shared
  <2>2. RestoreNode(g) \in Redoes(C, NodeGoods(g))
    BY <2>1, RestoreNodeRedoes
  <2> HIDE DEF C
  <2> QED
    BY <2>2
<1> HIDE DEF C, groups
<1>6. \A i \in 1..Len(groups) : seqs[i] \in Redoes(C, G[groups[i]])
  BY <1>4, <1>5, ElementType
<1>7. X \in SUBSET Goods /\ Y \in SUBSET Goods
  BY GoodsType DEF SharedNodeGoods, Goods
<1>8. ASSUME NEW x \in Y PROVE \E i \in 1..Len(groups) : x \in G[groups[i]]
  <2>1. PICK f \in Folders : /\ x = <<"file", f>> /\ f[1] \in Shared /\ f[2] = Node
                             /\ f[1] # Public => AreaExists(t, f[1])
    BY DEF SharedNodeGoods
  <2>2. f[1] # Public
    BY <2>1 DEF NodeGoods, NodeFolder
  <2>3. f[1] \in Groups /\ AreaExists(t, f[1])
    BY <2>1, <2>2 DEF Shared
  <2>4. PICK i \in 1..Len(groups) : groups[i] = f[1]
    BY <2>3, GroupsOfHas DEF groups
  <2>5. x \in NodeGoods(f[1])
    BY <2>1 DEF NodeGoods, NodeFolder
  <2> QED
    BY <2>3, <2>4, <2>5
<1> HIDE DEF G
<1>9. seqs = [i \in 1..Len(groups) |-> seqs[i]]
  OBVIOUS
<1>10. RestoreNonUserShared(t) = (public \o list) \o FlattenSeq(seqs)
  BY DEF RestoreNonUserShared, ForAll, groups
<1>11. SharedNodeGoods(t) \subseteq X \cup Y
  OBVIOUS
<1> HIDE DEF list, public, seqs, X, Y
<1>12. FlattenSeq(seqs) \in Redoes(C, Y)
  BY <1>4, <1>6, <1>7, <1>8, <1>9, RedoesWalk
<1>13. public \o list \in Redoes(C, X)
  BY <1>2, <1>3, <1>7, RedoesBeside
<1>14. (public \o list) \o FlattenSeq(seqs) \in Redoes(C, X \cup Y)
  BY <1>7, <1>12, <1>13, RedoesBoth
<1>15. RestoreNonUserShared(t) \in Redoes(C, X \cup Y)
  BY <1>10, <1>14
<1>16. RestoreNonUserShared(t) \in Redoes(C, SharedNodeGoods(t))
  BY <1>11, <1>15, RedoesLess
<1> QED
  BY <1>16 DEF C

LEMMA UserFilesOfAreaRedo ==
  ASSUME NEW r \in Requests, r.op = "recover", NEW b, NEW a \in Shared,
         NEW u, NEW s, For(r, a, u, s), NEW fn \in Labels
  PROVE  RestoreUserFiles(a, u, s, fn) \in Redoes(RecoveryCalls(r, b), UserGoods(r, a))
<1> DEFINE C == RecoveryCalls(r, b)
           check == <<CheckRct(a, "count", fn)>>
           files == ReplaceFolder(UserFolder(a, u, s), "count", fn)
           X == UserGoods(r, a)
<1>1. a \in Area /\ Opens(r, b, a)
  BY NoAppShared DEF Opens
<1>2. check \in Redoes(C, {})
  BY <1>1, QuietCalls
<1>3. files \in Redoes(C, X)
  BY <1>1, UserFilesRedo
<1>4. X \in SUBSET Goods
  BY GoodsType
<1> HIDE DEF C, check, files, X
<1>5. check \o files \in Redoes(C, X)
  BY <1>2, <1>3, <1>4, RedoesBeside
<1> QED
  BY <1>5 DEF RestoreUserFiles, C, check, files, X

\* The users' folders in the shared areas there are, and the shared keys.
SharedUserGoods(r, t) ==
  {"file"} \X {f \in Folders : /\ f[1] \in Shared /\ f[2] # Node /\ SelectsFile(r, f)
                               /\ AreaExists(t, f[1])}

LEMMA UserSharedRedoes ==
  ASSUME NEW r \in Requests, r.op = "recover", NEW b, NEW t, NEW u, NEW s,
         \A a \in Shared : For(r, a, u, s), NEW type, r.type = "user" <=> type = "user"
  PROVE  RestoreUserShared(t, type, u, s)
           \in Redoes(RecoveryCalls(r, b), SharedUserGoods(r, t) \cup SharedKeyGoods(r, t))
<1> DEFINE C == RecoveryCalls(r, b)
           public == IF AreaExists(t, Public)
                       THEN RestoreUserFiles(Public, u, s, "public_files") ELSE <<>>
           ret == <<Return("user_shared")>>
           list == <<ListFolders("count", "group_files")>>
           groups == GroupsOf(t)
           Group(g) == RestoreUserFiles(g, u, s, "group_files")
           seqs == [i \in 1..Len(groups) |-> Group(groups[i])]
           keys == RestoreSharedKeys(t, type, u, s)
           test == <<TestSum>>
           G == [g \in Groups |-> UserGoods(r, g)]
           X == IF AreaExists(t, Public) THEN UserGoods(r, Public) ELSE {}
           Y == {x \in SharedUserGoods(r, t) : x \notin X}
           Z == SharedKeyGoods(r, t)
<1>1. /\ {"user_shared", "group_files", "public_files"} \subseteq Labels
      /\ Public \in Shared /\ Public \in Area /\ Groups \subseteq Shared
  BY DEF Labels, Shared, Area
<1>2. ret \in Redoes(C, {}) /\ list \in Redoes(C, {}) /\ test \in Redoes(C, {})
  BY <1>1, QuietCalls
<1>3. public \in Redoes(C, X)
  <2>1. CASE AreaExists(t, Public)
    <3>1. RestoreUserFiles(Public, u, s, "public_files") \in Redoes(C, UserGoods(r, Public))
      BY <1>1, UserFilesOfAreaRedo
    <3> HIDE DEF C
    <3> QED
      BY <2>1, <3>1
  <2>2. CASE ~AreaExists(t, Public)
    <3>1. <<>> \in Redoes(C, {})
      BY RedoesNothing
    <3> HIDE DEF C
    <3> QED
      BY <2>2, <3>1
  <2> QED
    BY <2>1, <2>2
<1>4. groups \in Seq(Groups)
  BY GroupsOfType
<1>5. ASSUME NEW g \in Groups PROVE Group(g) \in Redoes(C, G[g])
  <2>1. g \in Shared
    BY <1>1
  <2>2. Group(g) \in Redoes(C, UserGoods(r, g))
    BY <1>1, <2>1, UserFilesOfAreaRedo
  <2> HIDE DEF C, Group
  <2> QED
    BY <2>2
<1>6. keys \in Redoes(C, Z)
  BY SharedKeysRedo
<1> HIDE DEF C, groups, Group
<1>7. \A i \in 1..Len(groups) : seqs[i] \in Redoes(C, G[groups[i]])
  BY <1>4, <1>5, ElementType
<1>8. X \in SUBSET Goods /\ Y \in SUBSET Goods /\ Z \in SUBSET Goods
  BY GoodsType DEF SharedUserGoods, SharedKeyGoods, Goods
<1>9. ASSUME NEW x \in Y PROVE \E i \in 1..Len(groups) : x \in G[groups[i]]
  <2>1. PICK f \in Folders : /\ x = <<"file", f>> /\ f[1] \in Shared /\ f[2] # Node
                             /\ SelectsFile(r, f) /\ AreaExists(t, f[1])
    BY DEF SharedUserGoods
  <2>2. x \in UserGoods(r, f[1])
    BY <2>1 DEF UserGoods
  <2>3. f[1] # Public
    BY <2>1, <2>2
  <2>4. f[1] \in Groups
    BY <2>1, <2>3 DEF Shared
  <2>5. PICK i \in 1..Len(groups) : groups[i] = f[1]
    BY <2>1, <2>4, GroupsOfHas DEF groups
  <2> QED
    BY <2>2, <2>4, <2>5
<1> HIDE DEF G
<1>10. seqs = [i \in 1..Len(groups) |-> seqs[i]]
  OBVIOUS
<1>11. RestoreUserShared(t, type, u, s)
         = (((((public \o ret) \o list) \o FlattenSeq(seqs)) \o ret) \o keys) \o test
  BY DEF RestoreUserShared, ForAll, groups, Group
<1>12. SharedUserGoods(r, t) \cup Z \subseteq (X \cup Y) \cup Z
  OBVIOUS
<1> HIDE DEF public, ret, list, seqs, keys, test, X, Y, Z
<1>13. FlattenSeq(seqs) \in Redoes(C, Y)
  BY <1>4, <1>7, <1>8, <1>9, <1>10, RedoesWalk
<1>14. (public \o ret) \in Redoes(C, X)
  BY <1>2, <1>3, <1>8, RedoesBeside
<1>15. ((public \o ret) \o list) \in Redoes(C, X)
  BY <1>2, <1>8, <1>14, RedoesBeside
<1>16. (((public \o ret) \o list) \o FlattenSeq(seqs)) \in Redoes(C, X \cup Y)
  BY <1>8, <1>13, <1>15, RedoesBoth
<1>17. ((((public \o ret) \o list) \o FlattenSeq(seqs)) \o ret) \in Redoes(C, X \cup Y)
  BY <1>2, <1>8, <1>16, RedoesBeside
<1>18. (((((public \o ret) \o list) \o FlattenSeq(seqs)) \o ret) \o keys)
         \in Redoes(C, (X \cup Y) \cup Z)
  BY <1>6, <1>8, <1>17, RedoesBoth
<1>19. (((((public \o ret) \o list) \o FlattenSeq(seqs)) \o ret) \o keys) \o test
         \in Redoes(C, (X \cup Y) \cup Z)
  BY <1>2, <1>8, <1>18, RedoesBeside
<1>20. RestoreUserShared(t, type, u, s) \in Redoes(C, SharedUserGoods(r, t) \cup Z)
  BY <1>11, <1>12, <1>19, RedoesLess
<1> QED
  BY <1>20 DEF C, Z

\* What is the user's in an application, with its links.
UserAppGoods(r, a) == UserGoods(r, a) \cup KeyGoods(r, a) \cup {<<"link", a>>}

LEMMA UserAppRedoes ==
  ASSUME NEW r \in Requests, r.op = "recover", r.type = "user", NEW b, NEW a \in Apps
  PROVE  <<CheckRct(a, "abort", "user_local")>> \o RestoreUser(a, r.user, r.seat)
           \o RestoreLocalKeys(a, "user", r.user, r.seat)
           \o <<Return("user_local"), ImportLinks(a, "count", "import_links")>>
           \in Redoes(RecoveryCalls(r, b), UserAppGoods(r, a))
<1> DEFINE C == RecoveryCalls(r, b)
           check == <<CheckRct(a, "abort", "user_local")>>
           user == RestoreUser(a, r.user, r.seat)
           keys == RestoreLocalKeys(a, "user", r.user, r.seat)
           ret == <<Return("user_local")>>
           links == <<ImportLinks(a, "count", "import_links")>>
           both == <<Return("user_local"), ImportLinks(a, "count", "import_links")>>
           X == UserGoods(r, a)
           Y == KeyGoods(r, a)
           Z == {<<"link", a>>}
<1>1. /\ {"user_local", "import_links", "appl_user"} \subseteq Labels /\ a \in Area
      /\ Opens(r, b, a) /\ For(r, a, r.user, r.seat)
  BY DEF Labels, Area, Opens, For
<1>2. check \in Redoes(C, {}) /\ ret \in Redoes(C, {})
  BY <1>1, QuietCalls
<1>3. user \in Redoes(C, X)
  BY <1>1, UserFilesRedo DEF RestoreUser
<1>4. keys \in Redoes(C, Y)
  BY <1>1, LocalKeysRedo
<1>5. links \in Redoes(C, Z)
  BY <1>1, LinksRedo
<1>6. X \in SUBSET Goods /\ Y \in SUBSET Goods /\ Z \in SUBSET Goods
  BY GoodsType DEF Goods
<1>7. both = ret \o links
  BY PairOf
<1> HIDE DEF C, check, user, keys, ret, links, both, X, Y, Z
<1>8. check \o user \in Redoes(C, X)
  BY <1>2, <1>3, <1>6, RedoesBeside
<1>9. (check \o user) \o keys \in Redoes(C, X \cup Y)
  BY <1>4, <1>6, <1>8, RedoesBoth
<1>10. both \in Redoes(C, Z)
  BY <1>2, <1>5, <1>6, <1>7, RedoesBeside
<1>11. ((check \o user) \o keys) \o both \in Redoes(C, (X \cup Y) \cup Z)
  BY <1>6, <1>9, <1>10, RedoesBoth
<1> QED
  BY <1>11 DEF UserAppGoods, C, check, user, keys, both, X, Y, Z

LEMMA UserLocalRedoes ==
  ASSUME NEW r \in Requests, r.op = "recover", r.type = "user", NEW b, NEW t,
         NEW X \in SUBSET Goods,
         \A x \in X : \E a \in Apps : AreaExists(t, a) /\ x \in UserAppGoods(r, a)
  PROVE  RestoreUserLocal(t, r.user, r.seat) \in Redoes(RecoveryCalls(r, b), X)
<1> DEFINE C == RecoveryCalls(r, b)
           apps == AppsOf(t)
           Plan(a) == <<CheckRct(a, "abort", "user_local")>> \o RestoreUser(a, r.user, r.seat)
                        \o RestoreLocalKeys(a, "user", r.user, r.seat)
                        \o <<Return("user_local"), ImportLinks(a, "count", "import_links")>>
           seqs == [i \in 1..Len(apps) |-> Plan(apps[i])]
           list == <<ListFolders("abort", "user_local")>>
           test == <<TestSum>>
           G == [a \in Apps |-> UserAppGoods(r, a)]
<1>1. "user_local" \in Labels /\ Public \in Area
  BY DEF Labels, Shared, Area
<1>2. list \in Redoes(C, {}) /\ test \in Redoes(C, {})
  BY <1>1, QuietCalls
<1>3. apps \in Seq(Apps)
  BY AppsOfType
<1>4. ASSUME NEW a \in Apps PROVE Plan(a) \in Redoes(C, G[a])
  <2>1. Plan(a) \in Redoes(C, UserAppGoods(r, a))
    BY UserAppRedoes
  <2> HIDE DEF C, Plan
  <2> QED
    BY <2>1
<1>5. RestoreUserLocal(t, r.user, r.seat) = (list \o FlattenSeq(seqs)) \o test
  BY DEF RestoreUserLocal, ForAll
<1> HIDE DEF C, apps, Plan
<1>6. \A i \in 1..Len(apps) : seqs[i] \in Redoes(C, G[apps[i]])
  BY <1>3, <1>4, ElementType
<1>7. ASSUME NEW x \in X PROVE \E i \in 1..Len(apps) : x \in G[apps[i]]
  <2>1. PICK a \in Apps : AreaExists(t, a) /\ x \in UserAppGoods(r, a)
    OBVIOUS
  <2>2. PICK i \in 1..Len(apps) : apps[i] = a
    BY <2>1, AppsOfHas DEF apps
  <2> QED
    BY <2>1, <2>2
<1> HIDE DEF G
<1>8. seqs = [i \in 1..Len(apps) |-> seqs[i]]
  OBVIOUS
<1> HIDE DEF seqs, list, test
<1>9. FlattenSeq(seqs) \in Redoes(C, X)
  BY <1>3, <1>6, <1>7, <1>8, RedoesWalk
<1>10. list \o FlattenSeq(seqs) \in Redoes(C, X)
  BY <1>2, <1>9, RedoesBeside
<1>11. (list \o FlattenSeq(seqs)) \o test \in Redoes(C, X)
  BY <1>2, <1>10, RedoesBeside
<1> QED
  BY <1>5, <1>11 DEF C

\* The applications of the archive that are installed.
Installed(t) == Those(AppsOf(t), {a \in Apps : AreaExists(tree.data, a)})

LEMMA InstalledAre ==
  ASSUME NEW t
  PROVE  /\ Installed(t) \in Seq({a \in Apps : AreaExists(tree.data, a)})
         /\ \A a \in Apps : AreaExists(t, a) /\ AreaExists(tree.data, a) =>
              \E i \in 1..Len(Installed(t)) : Installed(t)[i] = a
<1> DEFINE S == {a \in Apps : AreaExists(tree.data, a)}
<1>1. AppsOf(t) \in Seq(Apps)
  BY AppsOfType
<1>2. S \in SUBSET Apps
  OBVIOUS
<1> HIDE DEF S
<1>3. Apps \cap S = S
  BY <1>2
<1>4. Those(AppsOf(t), S) \in Seq(S)
  BY <1>1, <1>3, ThoseType
<1>5. ASSUME NEW a \in Apps, AreaExists(t, a), a \in S
      PROVE  \E i \in 1..Len(Those(AppsOf(t), S)) : Those(AppsOf(t), S)[i] = a
  <2>1. \E i \in 1..Len(AppsOf(t)) : AppsOf(t)[i] = a
    BY <1>5, AppsOfHas
  <2>2. AppsOf(t) \in Lists(Apps, a)
    BY <1>1, <2>1 DEF Lists, Holding
  <2>3. Those(AppsOf(t), S) \in Lists(Apps, a)
    BY <1>1, <1>5, <2>2, ThoseHas
  <2> QED
    BY <2>3, ListsAt
<1> QED
  BY <1>4, <1>5 DEF Installed, S

LEMMA AllAppsRedo ==
  ASSUME NEW r \in Requests, r.op = "recover", r.type = "all", NEW t,
         NEW X \in SUBSET Goods,
         \A x \in X : \E a \in Apps : /\ AreaExists(t, a) /\ AreaExists(tree.data, a)
                                      /\ x \in AppGoods(r, a) \cup {<<"link", a>>}
  PROVE  FlattenSeq([i \in 1..Len(Installed(t)) |->
           RestoreApplication(Installed(t)[i])
             \o <<ImportLinks(Installed(t)[i], "ignore", "all_data")>>])
           \in Redoes(RecoveryCalls(r, tree.data), X)
<1> DEFINE C == RecoveryCalls(r, tree.data)
           S == {a \in Apps : AreaExists(tree.data, a)}
           apps == Installed(t)
           Plan(a) == RestoreApplication(a) \o <<ImportLinks(a, "ignore", "all_data")>>
           seqs == [i \in 1..Len(apps) |-> Plan(apps[i])]
           G == [a \in S |-> AppGoods(r, a) \cup {<<"link", a>>}]
<1>1. apps \in Seq(S)
  BY InstalledAre
<1>2. ASSUME NEW a \in S PROVE Plan(a) \in Redoes(C, G[a])
  <2> DEFINE p == RestoreApplication(a)
             q == <<ImportLinks(a, "ignore", "all_data")>>
             X1 == AppGoods(r, a)
             X2 == {<<"link", a>>}
  <2>1. /\ "all_data" \in Labels /\ a \in Apps /\ Opens(r, tree.data, a)
        /\ For(r, a, AllUsers, AllSeats)
    BY DEF Labels, Opens, For
  <2>2. p \in Redoes(C, X1)
    BY <2>1, ApplicationRedoes
  <2>3. q \in Redoes(C, X2)
    BY <2>1, LinksRedo
  <2>4. X1 \in SUBSET Goods /\ X2 \in SUBSET Goods
    BY GoodsType DEF AppGoods, Goods
  <2>5. G[a] = X1 \cup X2
    OBVIOUS
  <2> HIDE DEF C, G, p, q, X1, X2
  <2>6. p \o q \in Redoes(C, X1 \cup X2)
    BY <2>2, <2>3, <2>4, RedoesBoth
  <2> QED
    BY <2>5, <2>6 DEF p, q
<1> HIDE DEF C, apps, Plan
<1>3. \A i \in 1..Len(apps) : seqs[i] \in Redoes(C, G[apps[i]])
  <2> HIDE DEF S, G
  <2> QED
    BY <1>1, <1>2, ElementType
<1>4. ASSUME NEW x \in X PROVE \E i \in 1..Len(apps) : x \in G[apps[i]]
  <2>1. PICK a \in Apps : /\ AreaExists(t, a) /\ AreaExists(tree.data, a)
                          /\ x \in AppGoods(r, a) \cup {<<"link", a>>}
    OBVIOUS
  <2>2. PICK i \in 1..Len(apps) : apps[i] = a
    BY <2>1, InstalledAre DEF apps
  <2> QED
    BY <2>1, <2>2
<1> HIDE DEF G, S
<1>5. seqs = [i \in 1..Len(apps) |-> seqs[i]]
  OBVIOUS
<1> HIDE DEF seqs
<1>6. FlattenSeq(seqs) \in Redoes(C, X)
  BY <1>1, <1>3, <1>4, <1>5, RedoesWalk
<1> QED
  BY <1>6 DEF C, seqs, Plan, apps

LEMMA AllDataRedoes ==
  ASSUME NEW r \in Requests, r.op = "recover", r.type = "all", NEW t, AppsOf(t) # <<>>,
         NEW X \in SUBSET Goods,
         \A x \in X : \E a \in Apps : /\ AreaExists(t, a) /\ AreaExists(tree.data, a)
                                      /\ x \in AppGoods(r, a) \cup {<<"link", a>>}
  PROVE  RestoreAllData(t) \in Redoes(RecoveryCalls(r, tree.data),
           (X \cup SharedNodeGoods(t)) \cup (SharedUserGoods(r, t) \cup SharedKeyGoods(r, t)))
<1> DEFINE C == RecoveryCalls(r, tree.data)
           apps == Installed(t)
           Plan(a) == RestoreApplication(a) \o <<ImportLinks(a, "ignore", "all_data")>>
           each == FlattenSeq([i \in 1..Len(apps) |-> Plan(apps[i])])
           list == <<ListFolders("abort", "all_data")>>
           node == RestoreNonUserShared(t)
           test == <<TestSum>>
           user == RestoreUserShared(t, "all", AllUsers, AllSeats)
           Y == SharedNodeGoods(t)
           Z == SharedUserGoods(r, t) \cup SharedKeyGoods(r, t)
<1>1. "all_data" \in Labels /\ Public \in Area
  BY DEF Labels, Area, Shared
<1>2. list \in Redoes(C, {}) /\ test \in Redoes(C, {})
  BY <1>1, QuietCalls
<1>3. each \in Redoes(C, X)
  BY AllAppsRedo
<1>4. node \in Redoes(C, Y)
  BY NonUserSharedRedoes
<1>5. user \in Redoes(C, Z)
  <2>1. \A a \in Shared : For(r, a, AllUsers, AllSeats)
    BY DEF For
  <2> QED
    BY <2>1, UserSharedRedoes
<1>6. Y \in SUBSET Goods /\ Z \in SUBSET Goods
  BY DEF SharedNodeGoods, SharedUserGoods, SharedKeyGoods, Goods
<1>7. RestoreAllData(t) = (((list \o each) \o node) \o test) \o user
  BY DEF RestoreAllData, ForAll, Installed
<1> HIDE DEF C, each, list, node, test, user, Y, Z
<1>8. list \o each \in Redoes(C, X)
  BY <1>2, <1>3, RedoesBeside
<1>9. (list \o each) \o node \in Redoes(C, X \cup Y)
  BY <1>4, <1>6, <1>8, RedoesBoth
<1>10. X \cup Y \in SUBSET Goods
  BY <1>6
<1> DEFINE XY == X \cup Y
<1> HIDE DEF XY
<1>11. ((list \o each) \o node) \o test \in Redoes(C, XY)
  BY <1>2, <1>9, <1>10, RedoesBeside DEF XY
<1>12. (((list \o each) \o node) \o test) \o user \in Redoes(C, XY \cup Z)
  BY <1>5, <1>6, <1>10, <1>11, RedoesBoth DEF XY
<1> QED
  BY <1>7, <1>12 DEF C, XY, Y, Z

\* The areas a recovery from t is about, b being there before.
Scope(r, t, b, a) ==
  CASE r.type = "application" -> a = r.app
    [] r.type = "user" -> a \in Shared \/ AreaExists(t, a)
    [] r.type = "all" -> a \in Shared \/ (AreaExists(t, a) /\ AreaExists(b, a))

\* What it is to bring back.
ToRecover(r, t, b) ==
  ({"file"} \X {f \in Folders : /\ SelectsFile(r, f) /\ Scope(r, t, b, f[1])
                                /\ Exists(t, UnitOf(r, f))})
    \cup ({"key"} \X {k \in Keys : /\ SelectsKey(r, k) /\ Scope(r, t, b, k[1])
                                   /\ <<k[1], k[3]>> \in t.db
                                   /\ k[1] \in Shared => t.key[k] # Absent})
    \cup ({"link"} \X {a \in Apps : r.type # "application" /\ Scope(r, t, b, a)})

LEMMA ToRecoverGoods ==
  ASSUME NEW r, NEW t, NEW b
  PROVE  ToRecover(r, t, b) \in SUBSET Goods
BY DEF ToRecover, Goods

LEMMA UnitArea ==
  ASSUME NEW r, NEW f \in Folders, NEW t, Exists(t, UnitOf(r, f))
  PROVE  AreaExists(t, f[1])
BY DEF Exists, UnitOf, AreaExists

LEMMA FolderGoods ==
  ASSUME NEW r, NEW f \in Folders, SelectsFile(r, f)
  PROVE  IF f[2] = Node THEN <<"file", f>> \in NodeGoods(f[1])
                        ELSE <<"file", f>> \in UserGoods(r, f[1])
BY DEF NodeGoods, NodeFolder, UserGoods

LEMMA ToRecoverCases ==
  ASSUME NEW r, NEW t, NEW b, NEW x \in ToRecover(r, t, b)
  PROVE  \/ \E f \in Folders : /\ x = <<"file", f>> /\ SelectsFile(r, f) /\ Scope(r, t, b, f[1])
                               /\ Exists(t, UnitOf(r, f))
         \/ \E k \in Keys : /\ x = <<"key", k>> /\ SelectsKey(r, k) /\ Scope(r, t, b, k[1])
                            /\ <<k[1], k[3]>> \in t.db
         \/ \E a \in Apps : x = <<"link", a>> /\ r.type # "application" /\ Scope(r, t, b, a)
BY DEF ToRecover

LEMMA ApplicationPlan ==
  ASSUME NEW r \in Requests, r.op = "recover", r.type = "application", NEW t, NEW b
  PROVE  RecoveryPlan(t, r) \in Redoes(RecoveryCalls(r, b), ToRecover(r, t, b))
<1>1. r.app \in Apps
  BY DEF Requests
<1>2. RestoreApplication(r.app) \in Redoes(RecoveryCalls(r, b), AppGoods(r, r.app))
  BY <1>1, ApplicationRedoes DEF Opens, For
<1>3. ASSUME NEW x \in ToRecover(r, t, b) PROVE x \in AppGoods(r, r.app)
  <2>1. CASE \E f \in Folders : x = <<"file", f>> /\ SelectsFile(r, f) /\ Scope(r, t, b, f[1])
    BY <2>1, FolderGoods DEF Scope, AppGoods
  <2>2. CASE \E k \in Keys : x = <<"key", k>> /\ SelectsKey(r, k) /\ Scope(r, t, b, k[1])
    BY <2>2 DEF Scope, AppGoods, KeyGoods
  <2> QED
    BY <2>1, <2>2, ToRecoverCases
<1>4. RestoreApplication(r.app) \in Redoes(RecoveryCalls(r, b), ToRecover(r, t, b))
  <2> HIDE DEF ToRecover
  <2>1. ToRecover(r, t, b) \subseteq AppGoods(r, r.app)
    BY <1>3
  <2> QED
    BY <1>2, <2>1, RedoesLess
<1> QED
  BY <1>4 DEF RecoveryPlan

LEMMA UserPlan ==
  ASSUME NEW r \in Requests, r.op = "recover", r.type = "user", NEW t, NEW b
  PROVE  RecoveryPlan(t, r) \in Redoes(RecoveryCalls(r, b), ToRecover(r, t, b))
<1> DEFINE C == RecoveryCalls(r, b)
           local == RestoreUserLocal(t, r.user, r.seat)
           shared == RestoreUserShared(t, "user", r.user, r.seat)
           Z == SharedUserGoods(r, t) \cup SharedKeyGoods(r, t)
           X == {x \in ToRecover(r, t, b) : x \notin Z}
<1>1. X \in SUBSET Goods /\ Z \in SUBSET Goods
  BY ToRecoverGoods DEF SharedUserGoods, SharedKeyGoods, Goods
<1>2. ASSUME NEW x \in X
      PROVE  \E a \in Apps : AreaExists(t, a) /\ x \in UserAppGoods(r, a)
  <2>1. x \in ToRecover(r, t, b)
    OBVIOUS
  <2>2. CASE \E f \in Folders : /\ x = <<"file", f>> /\ SelectsFile(r, f)
                                /\ Exists(t, UnitOf(r, f))
    <3>1. PICK f \in Folders : /\ x = <<"file", f>> /\ SelectsFile(r, f)
                               /\ Exists(t, UnitOf(r, f))
      BY <2>2
    <3>2. AreaExists(t, f[1]) /\ f[1] \in Area
      BY <3>1, UnitArea, DataAssumption
    <3>3. f[2] # Node
      BY <3>1 DEF SelectsFile, Owns
    <3>4. f[1] \notin Shared
      BY <3>1, <3>2, <3>3 DEF SharedUserGoods
    <3>5. f[1] \in Apps /\ x \in UserAppGoods(r, f[1])
      BY <3>1, <3>2, <3>3, <3>4, FolderGoods DEF UserAppGoods, Area
    <3> QED
      BY <3>2, <3>5
  <2>3. CASE \E k \in Keys : /\ x = <<"key", k>> /\ SelectsKey(r, k)
                             /\ <<k[1], k[3]>> \in t.db
    <3>1. PICK k \in Keys : /\ x = <<"key", k>> /\ SelectsKey(r, k)
                            /\ <<k[1], k[3]>> \in t.db
      BY <2>3
    <3>2. AreaExists(t, k[1]) /\ k[1] \in Area
      BY <3>1, DataAssumption DEF AreaExists
    <3>3. k[1] \notin Shared
      BY <3>1 DEF SharedKeyGoods
    <3>4. k[1] \in Apps /\ x \in UserAppGoods(r, k[1])
      BY <3>1, <3>2, <3>3 DEF UserAppGoods, KeyGoods, Area
    <3> QED
      BY <3>2, <3>4
  <2>4. CASE \E a \in Apps : x = <<"link", a>> /\ Scope(r, t, b, a)
    <3>1. PICK a \in Apps : x = <<"link", a>> /\ Scope(r, t, b, a)
      BY <2>4
    <3>2. AreaExists(t, a)
      BY <3>1, NoAppShared DEF Scope
    <3> QED
      BY <3>1, <3>2 DEF UserAppGoods
  <2> QED
    BY <2>1, <2>2, <2>3, <2>4, ToRecoverCases
<1>3. local \in Redoes(C, X)
  <2> HIDE DEF X
  <2> QED
    BY <1>1, <1>2, UserLocalRedoes
<1>4. shared \in Redoes(C, Z)
  <2>1. \A a \in Shared : For(r, a, r.user, r.seat)
    BY DEF For
  <2> QED
    BY <2>1, UserSharedRedoes
<1>5. ToRecover(r, t, b) \subseteq X \cup Z
  OBVIOUS
<1>6. RecoveryPlan(t, r) = local \o shared
  BY DEF RecoveryPlan, RestoreUserData
<1> HIDE DEF C, X, Z, local, shared
<1>7. local \o shared \in Redoes(C, X \cup Z)
  BY <1>1, <1>3, <1>4, RedoesBoth
<1>8. local \o shared \in Redoes(C, ToRecover(r, t, b))
  BY <1>5, <1>7, RedoesLess
<1> QED
  BY <1>6, <1>8 DEF C

LEMMA AllPlan ==
  ASSUME NEW r \in Requests, r.op = "recover", r.type = "all", NEW t, AppsOf(t) # <<>>
  PROVE  RecoveryPlan(t, r)
           \in Redoes(RecoveryCalls(r, tree.data), ToRecover(r, t, tree.data))
<1> DEFINE C == RecoveryCalls(r, tree.data)
           R == ToRecover(r, t, tree.data)
           Y == SharedNodeGoods(t)
           Z == SharedUserGoods(r, t) \cup SharedKeyGoods(r, t)
           X == {x \in R : x \notin Y \cup Z}
<1>1. X \in SUBSET Goods
  BY ToRecoverGoods
<1>2. ASSUME NEW x \in X
      PROVE  \E a \in Apps : /\ AreaExists(t, a) /\ AreaExists(tree.data, a)
                             /\ x \in AppGoods(r, a) \cup {<<"link", a>>}
  <2>1. x \in R
    OBVIOUS
  <2>2. CASE \E f \in Folders : /\ x = <<"file", f>> /\ SelectsFile(r, f)
                                /\ Scope(r, t, tree.data, f[1]) /\ Exists(t, UnitOf(r, f))
    <3>1. PICK f \in Folders : /\ x = <<"file", f>> /\ SelectsFile(r, f)
                               /\ Scope(r, t, tree.data, f[1]) /\ Exists(t, UnitOf(r, f))
      BY <2>2
    <3>2. AreaExists(t, f[1]) /\ f[1] \in Area
      BY <3>1, UnitArea, DataAssumption
    <3>3. f[1] \notin Shared
      BY <3>1, <3>2 DEF SharedUserGoods, SharedNodeGoods
    <3>4. f[1] \in Apps /\ AreaExists(tree.data, f[1])
      BY <3>1, <3>2, <3>3 DEF Area, Scope
    <3>5. x \in AppGoods(r, f[1])
      BY <3>1, FolderGoods DEF AppGoods
    <3> QED
      BY <3>2, <3>4, <3>5
  <2>3. CASE \E k \in Keys : /\ x = <<"key", k>> /\ SelectsKey(r, k)
                             /\ Scope(r, t, tree.data, k[1]) /\ <<k[1], k[3]>> \in t.db
    <3>1. PICK k \in Keys : /\ x = <<"key", k>> /\ SelectsKey(r, k)
                            /\ Scope(r, t, tree.data, k[1]) /\ <<k[1], k[3]>> \in t.db
      BY <2>3
    <3>2. AreaExists(t, k[1]) /\ k[1] \in Area
      BY <3>1, DataAssumption DEF AreaExists
    <3>3. k[1] \notin Shared
      BY <3>1 DEF SharedKeyGoods
    <3>4. k[1] \in Apps /\ AreaExists(tree.data, k[1])
      BY <3>1, <3>2, <3>3 DEF Area, Scope
    <3>5. x \in AppGoods(r, k[1])
      BY <3>1 DEF AppGoods, KeyGoods
    <3> QED
      BY <3>2, <3>4, <3>5
  <2>4. CASE \E a \in Apps : x = <<"link", a>> /\ Scope(r, t, tree.data, a)
    <3>1. PICK a \in Apps : x = <<"link", a>> /\ Scope(r, t, tree.data, a)
      BY <2>4
    <3>2. AreaExists(t, a) /\ AreaExists(tree.data, a)
      BY <3>1, NoAppShared DEF Scope
    <3> QED
      BY <3>1, <3>2
  <2> QED
    BY <2>1, <2>2, <2>3, <2>4, ToRecoverCases
<1>3. R \subseteq (X \cup Y) \cup Z
  OBVIOUS
<1> HIDE DEF C, R, X
<1>4. RestoreAllData(t) \in Redoes(C, (X \cup Y) \cup Z)
  BY <1>1, <1>2, AllDataRedoes DEF C
<1>5. RestoreAllData(t) \in Redoes(C, R)
  <2> HIDE DEF Y, Z
  <2> QED
    BY <1>3, <1>4, RedoesLess
<1> QED
  BY <1>5 DEF RecoveryPlan, C, R

\* With no application in the archive, a recovery of all data does nothing.
LEMMA RecoveryPlanRedoes ==
  ASSUME NEW r \in Requests, r.op = "recover", NEW t
  PROVE  IF r.type = "all" /\ AppsOf(t) = <<>>
           THEN RecoveryPlan(t, r) = <<>>
           ELSE RecoveryPlan(t, r)
                  \in Redoes(RecoveryCalls(r, tree.data), ToRecover(r, t, tree.data))
<1>1. r.type \in {"all", "user", "application"}
  BY DEF Requests
<1>2. r.type = "all" /\ AppsOf(t) = <<>> => RecoveryPlan(t, r) = <<>>
  BY DEF RecoveryPlan, RestoreAllData
<1> QED
  BY <1>1, <1>2, AllPlan, UserPlan, ApplicationPlan

-----------------------------------------------------------------------------
(* What a call of a recovery does to what is to be brought back. *)

Restored(x, t, data) ==
  /\ x[1] = "file" => data.file[x[2]] = t.file[x[2]]
  /\ x[1] = "key" => data.key[x[2]] = t.key[x[2]]
  /\ x[1] = "link" => t.info[x[2]] \subseteq data.link[x[2]]
Cleared(x, data) ==
  /\ x[1] = "file" => data.file[x[2]] = Absent
  /\ x[1] = "key" => data.key[x[2]] = Absent
  /\ x[1] # "link"

\* One that deletes, or copies, has its effect, and the others leave alone what
\* has been brought back.  No application comes to be that was not installed.
Brings(r, b, c, t, old, new) ==
  LET C == RecoveryCalls(r, b) IN
  /\ \A x \in ToRecover(r, t, b) :
       /\ c \in Emptying(C, x) => Cleared(x, new)
       /\ c \in Filling(C, x) /\ (Cleared(x, old) \/ Restored(x, t, old) \/ Plain(x)) =>
            Restored(x, t, new)
       /\ c \notin Emptying(C, x) \cup Filling(C, x) /\ Restored(x, t, old) =>
            Restored(x, t, new)
  /\ \A a \in Apps : r.type = "all" /\ AreaExists(new, a) => AreaExists(old, a) \/ AreaExists(b, a)

LEMMA OfFile ==
  ASSUME NEW f
  PROVE  LET x == <<"file", f>> IN
         /\ \A t, data : Restored(x, t, data) <=> data.file[f] = t.file[f]
         /\ \A data : Cleared(x, data) <=> data.file[f] = Absent
         /\ ~Plain(x)
         /\ \A C : Emptying(C, x) = {c \in C : c.do = "clear" /\ f \in c.set}
         /\ \A C : Filling(C, x) = {c \in C : c.do = "copy" /\ f \in c.set}
BY DEF Restored, Cleared, Plain, Emptying, Filling

LEMMA OfKey ==
  ASSUME NEW k
  PROVE  LET x == <<"key", k>> IN
         /\ \A t, data : Restored(x, t, data) <=> data.key[k] = t.key[k]
         /\ \A data : Cleared(x, data) <=> data.key[k] = Absent
         /\ Plain(x) <=> k[1] \in Shared
         /\ \A C : Emptying(C, x) = {c \in C : c.do = "clearKeys" /\ k \in c.set}
         /\ \A C : Filling(C, x) = {c \in C : c.do = "copyKeys" /\ k \in c.set}
BY DEF Restored, Cleared, Plain, Emptying, Filling

LEMMA OfLink ==
  ASSUME NEW a
  PROVE  LET x == <<"link", a>> IN
         /\ \A t, data : Restored(x, t, data) <=> t.info[a] \subseteq data.link[a]
         /\ \A data : ~Cleared(x, data)
         /\ \A C : Emptying(C, x) = {}
         /\ \A C : Filling(C, x) = {c \in C : c.do = "importLinks" /\ a = c.area}
BY DEF Restored, Cleared, Emptying, Filling

\* What is to be brought back is in the archive.
FileThere(r, t, x) == \E f \in Folders : x = <<"file", f>> /\ Exists(t, UnitOf(r, f))
KeyThere(t, x) == \E k \in Keys : x = <<"key", k>> /\ <<k[1], k[3]>> \in t.db

LEMMA ToRecoverHas ==
  ASSUME NEW r, NEW t, NEW b, NEW x \in ToRecover(r, t, b)
  PROVE  FileThere(r, t, x) \/ KeyThere(t, x) \/ \E a \in Apps : x = <<"link", a>>
BY DEF ToRecover, FileThere, KeyThere

\* Where nothing changes it is enough that no call of its kind is made.
LEMMA BringsNothing ==
  ASSUME NEW r, NEW b, NEW c, NEW t, NEW old,
         \A x \in ToRecover(r, t, b) :
           /\ c \in Emptying(RecoveryCalls(r, b), x) => Cleared(x, old)
           /\ c \notin Filling(RecoveryCalls(r, b), x)
  PROVE  Brings(r, b, c, t, old, old)
BY DEF Brings

LEMMA BringsFiles ==
  ASSUME NEW r, NEW b, NEW c \in RecoveryCalls(r, b), c.do = "copy",
         NEW t \in Tree, NEW old, NEW new,
         \A f \in Folders : new.file[f] =
           IF f \in c.set /\ (t.file[f] \in Versions \/ old.file[f] = Absent)
             THEN t.file[f] ELSE old.file[f],
         new.key = old.key, new.db = old.db, new.rct = old.rct, new.link = old.link
  PROVE  Brings(r, b, c, t, old, new)
<1> DEFINE C == RecoveryCalls(r, b)
<1>1. ASSUME NEW x \in ToRecover(r, t, b)
      PROVE  /\ c \in Emptying(C, x) => Cleared(x, new)
             /\ c \in Filling(C, x) /\ (Cleared(x, old) \/ Restored(x, t, old) \/ Plain(x)) =>
                  Restored(x, t, new)
             /\ c \notin Emptying(C, x) \cup Filling(C, x) /\ Restored(x, t, old) =>
                  Restored(x, t, new)
  <2> HIDE DEF C
  <2>1. CASE \E f \in Folders : x = <<"file", f>>
    <3>1. PICK f \in Folders : x = <<"file", f>>
      BY <2>1
    <3>2. c \notin Emptying(C, x) /\ ~Plain(x)
      BY <3>1, OfFile
    <3>3. c \in Filling(C, x) => f \in c.set
      BY <3>1, OfFile
    <3>4. c \notin Filling(C, x) => f \notin c.set
      BY <3>1, OfFile DEF C
    <3>5. new.file[f] = IF f \in c.set /\ (t.file[f] \in Versions \/ old.file[f] = Absent)
                          THEN t.file[f] ELSE old.file[f]
      OBVIOUS
    <3>6. Restored(x, t, new) <=> new.file[f] = t.file[f]
      BY <3>1, OfFile
    <3>7. Restored(x, t, old) <=> old.file[f] = t.file[f]
      BY <3>1, OfFile
    <3>8. Cleared(x, old) <=> old.file[f] = Absent
      BY <3>1, OfFile
    <3> QED
      BY <3>2, <3>3, <3>4, <3>5, <3>6, <3>7, <3>8
  <2>2. CASE \E k \in Keys : x = <<"key", k>>
    <3>1. PICK k \in Keys : x = <<"key", k>>
      BY <2>2
    <3>2. c \notin Emptying(C, x) /\ c \notin Filling(C, x)
      BY <3>1, OfKey
    <3>3. Restored(x, t, new) <=> Restored(x, t, old)
      BY <3>1, OfKey
    <3> QED
      BY <3>2, <3>3
  <2>3. CASE \E a \in Apps : x = <<"link", a>>
    <3>1. PICK a \in Apps : x = <<"link", a>>
      BY <2>3
    <3>2. c \notin Emptying(C, x) /\ c \notin Filling(C, x)
      BY <3>1, OfLink
    <3>3. Restored(x, t, new) <=> Restored(x, t, old)
      BY <3>1, OfLink
    <3> QED
      BY <3>2, <3>3
  <2>4. x \in Goods
    BY ToRecoverGoods
  <2> QED
    BY <2>1, <2>2, <2>3, <2>4, GoodsAre
<1>2. ASSUME NEW a \in Apps, r.type = "all", AreaExists(new, a)
      PROVE  AreaExists(old, a) \/ AreaExists(b, a)
  <2>1. \A f \in c.set : Opens(r, b, f[1])
    BY DEF RecoveryCalls
  <2>2. ASSUME NEW f \in Folders, f[1] = a, new.file[f] # Absent
        PROVE  AreaExists(old, a) \/ AreaExists(b, a)
    <3>1. f \in c.set => AreaExists(b, a)
      BY <1>2, <2>1, <2>2 DEF Opens
    <3>2. f \notin c.set => old.file[f] # Absent
      BY <2>2
    <3> QED
      BY <2>2, <3>1, <3>2 DEF AreaExists
  <2> QED
    BY <1>2, <2>2 DEF AreaExists
<1> QED
  BY <1>1, <1>2 DEF Brings

LEMMA BringsDeletion ==
  ASSUME NEW r, NEW b, NEW c \in RecoveryCalls(r, b), c.do = "clear",
         NEW t, NEW old, NEW new,
         \A f \in Folders : new.file[f] = IF f \in c.set THEN Absent ELSE old.file[f],
         new.key = old.key, new.db = old.db, new.rct = old.rct, new.link = old.link
  PROVE  Brings(r, b, c, t, old, new)
<1> DEFINE C == RecoveryCalls(r, b)
<1>1. ASSUME NEW x \in ToRecover(r, t, b)
      PROVE  /\ c \in Emptying(C, x) => Cleared(x, new)
             /\ c \notin Filling(C, x)
             /\ c \notin Emptying(C, x) /\ Restored(x, t, old) => Restored(x, t, new)
  <2> HIDE DEF C
  <2>1. CASE \E f \in Folders : x = <<"file", f>>
    <3>1. PICK f \in Folders : x = <<"file", f>>
      BY <2>1
    <3>2. c \notin Filling(C, x)
      BY <3>1, OfFile
    <3>3. c \in Emptying(C, x) <=> f \in c.set
      BY <3>1, OfFile DEF C
    <3>4. new.file[f] = IF f \in c.set THEN Absent ELSE old.file[f]
      OBVIOUS
    <3>5. Restored(x, t, new) <=> new.file[f] = t.file[f]
      BY <3>1, OfFile
    <3>6. Restored(x, t, old) <=> old.file[f] = t.file[f]
      BY <3>1, OfFile
    <3>7. Cleared(x, new) <=> new.file[f] = Absent
      BY <3>1, OfFile
    <3> QED
      BY <3>2, <3>3, <3>4, <3>5, <3>6, <3>7
  <2>2. CASE \E k \in Keys : x = <<"key", k>>
    <3>1. PICK k \in Keys : x = <<"key", k>>
      BY <2>2
    <3>2. c \notin Emptying(C, x) /\ c \notin Filling(C, x)
      BY <3>1, OfKey
    <3>3. Restored(x, t, new) <=> Restored(x, t, old)
      BY <3>1, OfKey
    <3> QED
      BY <3>2, <3>3
  <2>3. CASE \E a \in Apps : x = <<"link", a>>
    <3>1. PICK a \in Apps : x = <<"link", a>>
      BY <2>3
    <3>2. c \notin Emptying(C, x) /\ c \notin Filling(C, x)
      BY <3>1, OfLink
    <3>3. Restored(x, t, new) <=> Restored(x, t, old)
      BY <3>1, OfLink
    <3> QED
      BY <3>2, <3>3
  <2>4. x \in Goods
    BY ToRecoverGoods
  <2> QED
    BY <2>1, <2>2, <2>3, <2>4, GoodsAre
<1>2. ASSUME NEW a \in Apps, AreaExists(new, a) PROVE AreaExists(old, a)
  <2>1. \A f \in Folders : new.file[f] # Absent => old.file[f] # Absent
    OBVIOUS
  <2> QED
    BY <1>2, <2>1 DEF AreaExists
<1> QED
  BY <1>1, <1>2 DEF Brings

LEMMA BringsKeys ==
  ASSUME NEW r, NEW b, NEW c \in RecoveryCalls(r, b), c.do = "copyKeys",
         NEW t \in Tree, NEW old, NEW new,
         \A k \in Keys : new.key[k] =
           IF k \in c.set /\ t.key[k] # Absent THEN t.key[k] ELSE old.key[k],
         new.file = old.file, new.db \subseteq old.db \cup {c.db}, new.rct = old.rct,
         new.link = old.link
  PROVE  Brings(r, b, c, t, old, new)
<1> DEFINE C == RecoveryCalls(r, b)
<1>1. ASSUME NEW x \in ToRecover(r, t, b)
      PROVE  /\ c \in Emptying(C, x) => Cleared(x, new)
             /\ c \in Filling(C, x) /\ (Cleared(x, old) \/ Restored(x, t, old) \/ Plain(x)) =>
                  Restored(x, t, new)
             /\ c \notin Emptying(C, x) \cup Filling(C, x) /\ Restored(x, t, old) =>
                  Restored(x, t, new)
  <2> HIDE DEF C
  <2>1. CASE \E f \in Folders : x = <<"file", f>>
    <3>1. PICK f \in Folders : x = <<"file", f>>
      BY <2>1
    <3>2. c \notin Emptying(C, x) /\ c \notin Filling(C, x)
      BY <3>1, OfFile
    <3>3. Restored(x, t, new) <=> Restored(x, t, old)
      BY <3>1, OfFile
    <3> QED
      BY <3>2, <3>3
  <2>2. CASE \E k \in Keys : x = <<"key", k>>
    <3>1. PICK k \in Keys : x = <<"key", k>>
      BY <2>2
    <3>2. c \notin Emptying(C, x)
      BY <3>1, OfKey
    <3>3. c \in Filling(C, x) <=> k \in c.set
      BY <3>1, OfKey DEF C
    <3>4. Plain(x) => t.key[k] # Absent
      <4>1. Plain(x) => k[1] \in Shared
        BY <3>1, OfKey
      <4>2. k[1] \in Shared => t.key[k] # Absent
        BY <3>1 DEF ToRecover
      <4> QED
        BY <4>1, <4>2
    <3>5. new.key[k] = IF k \in c.set /\ t.key[k] # Absent THEN t.key[k] ELSE old.key[k]
      OBVIOUS
    <3>6. Restored(x, t, new) <=> new.key[k] = t.key[k]
      BY <3>1, OfKey
    <3>7. Restored(x, t, old) <=> old.key[k] = t.key[k]
      BY <3>1, OfKey
    <3>8. Cleared(x, old) <=> old.key[k] = Absent
      BY <3>1, OfKey
    <3> QED
      BY <3>2, <3>3, <3>4, <3>5, <3>6, <3>7, <3>8
  <2>3. CASE \E a \in Apps : x = <<"link", a>>
    <3>1. PICK a \in Apps : x = <<"link", a>>
      BY <2>3
    <3>2. c \notin Emptying(C, x) /\ c \notin Filling(C, x)
      BY <3>1, OfLink
    <3>3. Restored(x, t, new) <=> Restored(x, t, old)
      BY <3>1, OfLink
    <3> QED
      BY <3>2, <3>3
  <2>4. x \in Goods
    BY ToRecoverGoods
  <2> QED
    BY <2>1, <2>2, <2>3, <2>4, GoodsAre
<1>2. ASSUME NEW a \in Apps, r.type = "all", AreaExists(new, a)
      PROVE  AreaExists(old, a) \/ AreaExists(b, a)
  <2>1. Opens(r, b, c.db[1])
    BY DEF RecoveryCalls
  <2>2. ASSUME NEW d \in new.db, d[1] = a
        PROVE  AreaExists(old, a) \/ AreaExists(b, a)
    <3>1. d = c.db => AreaExists(b, a)
      BY <1>2, <2>1, <2>2 DEF Opens
    <3>2. d # c.db => d \in old.db
      BY <2>2
    <3> QED
      BY <2>2, <3>1, <3>2 DEF AreaExists
  <2> QED
    BY <1>2, <2>2 DEF AreaExists
<1> QED
  BY <1>1, <1>2 DEF Brings

LEMMA BringsKeyDeletion ==
  ASSUME NEW r, NEW b, NEW c \in RecoveryCalls(r, b), c.do = "clearKeys",
         NEW t, NEW old, NEW new,
         \A k \in Keys : new.key[k] = IF k \in c.set THEN Absent ELSE old.key[k],
         new.file = old.file, new.db = old.db, new.rct = old.rct, new.link = old.link
  PROVE  Brings(r, b, c, t, old, new)
<1> DEFINE C == RecoveryCalls(r, b)
<1>1. ASSUME NEW x \in ToRecover(r, t, b)
      PROVE  /\ c \in Emptying(C, x) => Cleared(x, new)
             /\ c \notin Filling(C, x)
             /\ c \notin Emptying(C, x) /\ Restored(x, t, old) => Restored(x, t, new)
  <2> HIDE DEF C
  <2>1. CASE \E f \in Folders : x = <<"file", f>>
    <3>1. PICK f \in Folders : x = <<"file", f>>
      BY <2>1
    <3>2. c \notin Emptying(C, x) /\ c \notin Filling(C, x)
      BY <3>1, OfFile
    <3>3. Restored(x, t, new) <=> Restored(x, t, old)
      BY <3>1, OfFile
    <3> QED
      BY <3>2, <3>3
  <2>2. CASE \E k \in Keys : x = <<"key", k>>
    <3>1. PICK k \in Keys : x = <<"key", k>>
      BY <2>2
    <3>2. c \notin Filling(C, x)
      BY <3>1, OfKey
    <3>3. c \in Emptying(C, x) <=> k \in c.set
      BY <3>1, OfKey DEF C
    <3>4. new.key[k] = IF k \in c.set THEN Absent ELSE old.key[k]
      OBVIOUS
    <3>5. Restored(x, t, new) <=> new.key[k] = t.key[k]
      BY <3>1, OfKey
    <3>6. Restored(x, t, old) <=> old.key[k] = t.key[k]
      BY <3>1, OfKey
    <3>7. Cleared(x, new) <=> new.key[k] = Absent
      BY <3>1, OfKey
    <3> QED
      BY <3>2, <3>3, <3>4, <3>5, <3>6, <3>7
  <2>3. CASE \E a \in Apps : x = <<"link", a>>
    <3>1. PICK a \in Apps : x = <<"link", a>>
      BY <2>3
    <3>2. c \notin Emptying(C, x) /\ c \notin Filling(C, x)
      BY <3>1, OfLink
    <3>3. Restored(x, t, new) <=> Restored(x, t, old)
      BY <3>1, OfLink
    <3> QED
      BY <3>2, <3>3
  <2>4. x \in Goods
    BY ToRecoverGoods
  <2> QED
    BY <2>1, <2>2, <2>3, <2>4, GoodsAre
<1>2. ASSUME NEW a \in Apps, AreaExists(new, a) PROVE AreaExists(old, a)
  BY <1>2 DEF AreaExists
<1> QED
  BY <1>1, <1>2 DEF Brings

LEMMA BringsLinks ==
  ASSUME NEW r, NEW b, NEW c \in RecoveryCalls(r, b), c.do = "importLinks",
         NEW t, NEW old, NEW new,
         \A a \in Apps : new.link[a] =
           IF a = c.area THEN old.link[a] \cup t.info[a] ELSE old.link[a],
         new.file = old.file, new.key = old.key, new.db = old.db, new.rct = old.rct
  PROVE  Brings(r, b, c, t, old, new)
<1> DEFINE C == RecoveryCalls(r, b)
<1>1. ASSUME NEW x \in ToRecover(r, t, b)
      PROVE  /\ c \notin Emptying(C, x)
             /\ c \in Filling(C, x) => Restored(x, t, new)
             /\ c \notin Filling(C, x) /\ Restored(x, t, old) => Restored(x, t, new)
  <2> HIDE DEF C
  <2>1. CASE \E f \in Folders : x = <<"file", f>>
    <3>1. PICK f \in Folders : x = <<"file", f>>
      BY <2>1
    <3>2. c \notin Emptying(C, x) /\ c \notin Filling(C, x)
      BY <3>1, OfFile
    <3>3. Restored(x, t, new) <=> Restored(x, t, old)
      BY <3>1, OfFile
    <3> QED
      BY <3>2, <3>3
  <2>2. CASE \E k \in Keys : x = <<"key", k>>
    <3>1. PICK k \in Keys : x = <<"key", k>>
      BY <2>2
    <3>2. c \notin Emptying(C, x) /\ c \notin Filling(C, x)
      BY <3>1, OfKey
    <3>3. Restored(x, t, new) <=> Restored(x, t, old)
      BY <3>1, OfKey
    <3> QED
      BY <3>2, <3>3
  <2>3. CASE \E a \in Apps : x = <<"link", a>>
    <3>1. PICK a \in Apps : x = <<"link", a>>
      BY <2>3
    <3>2. c \notin Emptying(C, x)
      BY <3>1, OfLink
    <3>3. c \in Filling(C, x) => a = c.area
      BY <3>1, OfLink
    <3>4. new.link[a] = IF a = c.area THEN old.link[a] \cup t.info[a] ELSE old.link[a]
      OBVIOUS
    <3>5. Restored(x, t, new) <=> t.info[a] \subseteq new.link[a]
      BY <3>1, OfLink
    <3>6. Restored(x, t, old) <=> t.info[a] \subseteq old.link[a]
      BY <3>1, OfLink
    <3>7. t.info[a] \subseteq old.link[a] => t.info[a] \subseteq new.link[a]
      BY <3>4
    <3>8. a = c.area => t.info[a] \subseteq new.link[a]
      BY <3>4
    <3> QED
      BY <3>2, <3>3, <3>5, <3>6, <3>7, <3>8
  <2>4. x \in Goods
    BY ToRecoverGoods
  <2> QED
    BY <2>1, <2>2, <2>3, <2>4, GoodsAre
<1>2. ASSUME NEW a \in Apps, AreaExists(new, a) PROVE AreaExists(old, a)
  BY <1>2 DEF AreaExists
<1> QED
  BY <1>1, <1>2 DEF Brings

LEMMA OnlyDataSet ==
  ASSUME tree \in Trees, NEW t, Set("data", t)
  PROVE  tree'.data = t /\ tree'.ext = tree.ext
<1>1. tree' = [tree EXCEPT !.data = t]
  BY DEF Set
<1> QED
  BY <1>1 DEF Trees

LEMMA DeleteFolderHas ==
  ASSUME NEW t \in Tree, NEW S
  PROVE  LET u == DeleteFolder(t, S) IN
         /\ \A f \in Folders : u.file[f] = IF f \in S THEN Absent ELSE t.file[f]
         /\ u.key = t.key /\ u.db = t.db /\ u.rct = t.rct /\ u.link = t.link
BY DEF DeleteFolder, Tree

LEMMA DeleteKeysHas ==
  ASSUME NEW t \in Tree, NEW S
  PROVE  LET u == DeleteKeys(t, S) IN
         /\ \A k \in Keys : u.key[k] = IF k \in S THEN Absent ELSE t.key[k]
         /\ u.file = t.file /\ u.db = t.db /\ u.rct = t.rct /\ u.link = t.link
BY DEF DeleteKeys, Tree

LEMMA CountedStays ==
  ASSUME hist \in History, CallStep
  PROVE  hist.counted \subseteq hist'.counted
<1>1. \A bytes : Succeed(bytes) => hist.counted \subseteq hist'.counted
  BY DEF Succeed
<1>2. \A S : Note(S) => hist.counted \subseteq hist'.counted
  BY DEF Note, History
<1>3. \A S : Fail(S) => hist.counted \subseteq hist'.counted
  <2> TAKE S
  <2>1. hist.counted \subseteq [hist EXCEPT !.counted = @ \cup {Now.fn}].counted
    BY DEF History
  <2> QED
    BY <1>2, <2>1 DEF Fail
<1>4. hist' = hist => hist.counted \subseteq hist'.counted
  OBVIOUS
<1>5. CASE List \/ CopyStep \/ ClearStep
  BY <1>1, <1>3, <1>5 DEF List, CopyStep, ClearStep
<1>8. CASE CopyKeysStep
  BY <1>1, <1>2, <1>3, <1>8 DEF CopyKeysStep
<1>9. CASE ClearKeysStep
  BY <1>1, <1>3, <1>9 DEF ClearKeysStep
<1>10. CASE CheckRctStep
  BY <1>1, <1>3, <1>10 DEF CheckRctStep
<1>11. CASE CopyRctStep
  BY <1>1, <1>3, <1>11 DEF CopyRctStep
<1>12. CASE CopyAllStep
  BY <1>1, <1>3, <1>12 DEF CopyAllStep
<1>13. CASE ExportLinksStep
  BY <1>1, <1>3, <1>13 DEF ExportLinksStep
<1>14. CASE ImportLinksStep
  BY <1>1, <1>3, <1>14 DEF ImportLinksStep
<1>15. CASE ClearDefaultStep
  BY <1>1, <1>3, <1>15 DEF ClearDefaultStep
<1>16. CASE ClearSeatStep
  BY <1>1, <1>2, <1>3, <1>16 DEF ClearSeatStep
<1>17. CASE ReturnStep
  BY <1>4, <1>17 DEF ReturnStep
<1>18. CASE TestSumStep
  BY <1>3, <1>4, <1>18 DEF TestSumStep
<1>19. CASE ListAreaStep
  BY <1>1, <1>3, <1>19 DEF ListAreaStep
<1> QED
  BY <1>5, <1>8, <1>9, <1>10, <1>11, <1>12, <1>13, <1>14, <1>15, <1>16, <1>17, <1>18, <1>19
     DEF CallStep

\* A step of a recovery fails and ends it, or is counted, or leaves something
\* behind and says so to nobody, or does what it is to do.
RecoveryGoes(r, b) ==
  \/ phase' = "reply"
  \/ hist'.lost # {}
  \/ hist'.counted # {}
  \/ /\ todo' = Tail(todo) /\ hist' = hist /\ phase' = phase /\ tree'.ext = tree.ext
     /\ Brings(r, b, Now, tree.ext, tree.data, tree'.data)

LEMMA FailEnds ==
  ASSUME hist \in History, NEW S, Now.err \in {"abort", "count", "ignore"}, Fail(S)
  PROVE  \/ phase' = "reply"
         \/ hist'.counted # {}
         \/ Now.err = "ignore" /\ todo' = Tail(todo) /\ Note(S) /\ phase' = phase
<1>1. Now.fn \in [hist EXCEPT !.counted = @ \cup {Now.fn}].counted
  BY DEF History
<1> QED
  BY <1>1 DEF Fail

LEMMA RecoveryStep ==
  ASSUME TypeInv, KeysInDbs(tree.data), NEW r, NEW b, Now \in RecoveryCalls(r, b), CallStep
  PROVE  RecoveryGoes(r, b)
<1> DEFINE C == RecoveryCalls(r, b)
           t == tree.ext
           old == tree.data
           X == ToRecover(r, t, b)
<1>1. /\ Now \in C /\ Now.err \in {"abort", "count", "ignore"}
      /\ Now.err = "ignore" => Now.do \in {"clear", "clearKeys", "importLinks"}
  BY DEF RecoveryCalls
<1>2. \/ Now.do \in {"list", "checkRct", "return", "testSum"}
      \/ Now.do = "importLinks" /\ Now.area \in Apps
      \/ /\ Now.do \in {"clear", "copy"} /\ Now.from = "ext" /\ Now.to = "data"
         /\ Now.set \in SUBSET Folders
         /\ \A f \in Now.set : Now.set = UnitOf(r, f)
      \/ /\ Now.do \in {"clearKeys", "copyKeys"} /\ Now.from = "ext" /\ Now.to = "data"
         /\ Now.set \in SUBSET {k \in Keys : <<k[1], k[3]>> = Now.db}
  BY DEF RecoveryCalls
<1>3. tree \in Trees /\ old \in Tree /\ t \in Tree /\ hist \in History
  BY DEF TypeInv, Trees
<1>4. \A bytes : Succeed(bytes) => todo' = Tail(todo) /\ hist' = hist /\ phase' = phase
  BY DEF Succeed
<1>5. \A S : Fail(S) /\ Now.err # "ignore" => RecoveryGoes(r, b)
  BY <1>1, <1>3, FailEnds DEF RecoveryGoes
<1>6. \A x : Note({x}) => RecoveryGoes(r, b)
  <2> TAKE x
  <2>1. Note({x}) => hist'.lost = hist.lost \cup {x}
    BY <1>3, Noted
  <2> QED
    BY <2>1 DEF RecoveryGoes
<1>7. \A S : Fail(S) => \/ RecoveryGoes(r, b)
                        \/ S = {} /\ todo' = Tail(todo) /\ hist' = hist /\ phase' = phase
  <2> TAKE S
  <2>1. Note(S) => hist'.lost = hist.lost \cup S /\ (S = {} => hist' = hist)
    BY <1>3, Noted
  <2>2. Fail(S) => \/ phase' = "reply"
                   \/ hist'.counted # {}
                   \/ Now.err = "ignore" /\ todo' = Tail(todo) /\ Note(S) /\ phase' = phase
    BY <1>1, <1>3, FailEnds
  <2>3. CASE S = {}
    BY <2>1, <2>2, <2>3 DEF RecoveryGoes
  <2>4. CASE S # {}
    BY <2>1, <2>2, <2>4 DEF RecoveryGoes
  <2> QED
    BY <2>3, <2>4
<1>8. ASSUME UNCHANGED tree, todo' = Tail(todo), hist' = hist, phase' = phase,
             \A x \in X : /\ Now \in Emptying(C, x) => Cleared(x, old)
                          /\ Now \notin Filling(C, x)
      PROVE  RecoveryGoes(r, b)
  <2>1. Brings(r, b, Now, t, old, old)
    BY <1>8, BringsNothing
  <2> QED
    BY <1>8, <2>1 DEF RecoveryGoes
<1>9. ASSUME NEW new, Set("data", new), \E bytes : Succeed(bytes),
             Brings(r, b, Now, t, old, new)
      PROVE  RecoveryGoes(r, b)
  <2>1. tree'.data = new /\ tree'.ext = tree.ext
    BY <1>3, <1>9, OnlyDataSet
  <2> QED
    BY <1>4, <1>9, <2>1 DEF RecoveryGoes
<1>10. Now.do \in {"list", "checkRct", "return", "testSum"} =>
         \A x : Now \notin Emptying(C, x) /\ Now \notin Filling(C, x)
  BY DEF Emptying, Filling
<1> HIDE DEF C, t, old, X
<1>11. CASE List
  <2>1. Now.do = "list" /\ UNCHANGED tree /\ (Succeed(0) \/ Fail({}))
    BY <1>2, <1>11 DEF List, Calling
  <2> QED
    BY <1>1, <1>4, <1>5, <1>8, <1>10, <2>1
<1>12. CASE CheckRctStep
  <2>1. Now.do = "checkRct" /\ UNCHANGED tree /\ (Succeed(0) \/ Fail({}))
    BY <1>12 DEF CheckRctStep, Calling
  <2> QED
    BY <1>1, <1>4, <1>5, <1>8, <1>10, <2>1
<1>13. CASE ReturnStep
  <2>1. /\ Now.do = "return" /\ UNCHANGED tree /\ todo' = Tail(todo) /\ hist' = hist
        /\ phase' = phase
    BY <1>13 DEF ReturnStep, Calling
  <2> QED
    BY <1>8, <1>10, <2>1
<1>14. CASE TestSumStep
  <2>1. /\ Now.do = "testSum" /\ UNCHANGED tree
        /\ \/ Fail({})
           \/ todo' = Tail(todo) /\ hist' = hist /\ phase' = phase
    BY <1>14 DEF TestSumStep, Calling
  <2> QED
    BY <1>1, <1>5, <1>8, <1>10, <2>1
<1>15. CASE CopyStep
  <2>1. Now.do = "copy" /\ Now.from = "ext" /\ Now.to = "data"
    BY <1>2, <1>15 DEF CopyStep, Calling
  <2>2. \/ /\ Succeed(Volume(t, Now.set)) /\ Set("data", CopyFolder(t, old, Now.set))
        \/ Fail({})
    BY <1>15, <2>1 DEF CopyStep, t, old
  <2>3. CASE Succeed(Volume(t, Now.set)) /\ Set("data", CopyFolder(t, old, Now.set))
    <3> DEFINE new == CopyFolder(t, old, Now.set)
    <3>1. /\ \A f \in Folders : new.file[f] =
               IF f \in Now.set /\ (t.file[f] \in Versions \/ old.file[f] = Absent)
                 THEN t.file[f] ELSE old.file[f]
          /\ new.key = old.key /\ new.db = old.db /\ new.rct = old.rct /\ new.link = old.link
      BY <1>3, CopyFolderHas
    <3> HIDE DEF new
    <3>2. Brings(r, b, Now, t, old, new)
      BY <1>3, <2>1, <3>1, BringsFiles
    <3> QED
      BY <1>9, <2>3, <3>2 DEF new
  <2> QED
    BY <1>1, <1>5, <2>1, <2>2, <2>3
<1>16. CASE ClearStep
  <2>1. /\ Now.do = "clear" /\ Now.from = "ext" /\ Now.to = "data"
        /\ Now.set \in SUBSET Folders /\ \A f \in Now.set : Now.set = UnitOf(r, f)
    BY <1>2, <1>16 DEF ClearStep, Calling
  <2>2. \/ /\ Succeed(0) /\ Set("data", DeleteFolder(old, Now.set))
        \/ ~Exists(old, Now.set) /\ Fail({}) /\ UNCHANGED tree
        \/ Exists(old, Now.set) /\ Fail(Now.set)
        \/ ~Exists(t, Now.set) /\ Succeed(0) /\ UNCHANGED tree
    BY <1>16, <2>1 DEF ClearStep, t, old
  <2>3. ASSUME NEW x \in X, Now \in Emptying(C, x) \cup Filling(C, x)
        PROVE  Exists(t, Now.set) /\ Now \notin Filling(C, x) /\ x[1] = "file"
               /\ x[2] \in Now.set
    <3>1. x[1] = "file" /\ x[2] \in Now.set /\ Now \notin Filling(C, x)
      BY <2>1, <2>3 DEF Emptying, Filling
    <3>4. FileThere(r, t, x) \/ KeyThere(t, x) \/ \E a \in Apps : x = <<"link", a>>
      BY ToRecoverHas DEF X
    <3>6. \A k, a : x # <<"key", k>> /\ x # <<"link", a>>
      BY <3>1
    <3>5. FileThere(r, t, x)
      <4>1. ~KeyThere(t, x)
        BY <3>6 DEF KeyThere
      <4> QED
        BY <3>4, <3>6, <4>1
    <3>2. PICK f \in Folders : x = <<"file", f>> /\ Exists(t, UnitOf(r, f))
      BY <3>5 DEF FileThere
    <3>3. f \in Now.set
      BY <3>1, <3>2
    <3> QED
      BY <2>1, <3>1, <3>2, <3>3
  <2>4. CASE Succeed(0) /\ Set("data", DeleteFolder(old, Now.set))
    <3> DEFINE new == DeleteFolder(old, Now.set)
    <3>1. /\ \A f \in Folders : new.file[f] = IF f \in Now.set THEN Absent ELSE old.file[f]
          /\ new.key = old.key /\ new.db = old.db /\ new.rct = old.rct /\ new.link = old.link
      BY <1>3, DeleteFolderHas
    <3> HIDE DEF new
    <3>2. Brings(r, b, Now, t, old, new)
      BY <2>1, <3>1, BringsDeletion
    <3> QED
      BY <1>9, <2>4, <3>2 DEF new
  <2>5. CASE ~Exists(old, Now.set) /\ Fail({}) /\ UNCHANGED tree
    <3>1. \A x \in X : /\ Now \in Emptying(C, x) => Cleared(x, old)
                       /\ Now \notin Filling(C, x)
      BY <2>3, <2>5 DEF Cleared, Exists
    <3> QED
      BY <1>7, <1>8, <2>5, <3>1
  <2>6. CASE Exists(old, Now.set) /\ Fail(Now.set)
    <3>1. Now.set # {}
      BY <2>6 DEF Exists
    <3> QED
      BY <1>7, <2>6, <3>1
  <2>7. CASE ~Exists(t, Now.set) /\ Succeed(0) /\ UNCHANGED tree
    <3>1. \A x \in X : Now \notin Emptying(C, x) /\ Now \notin Filling(C, x)
      BY <2>3, <2>7
    <3> QED
      BY <1>4, <1>8, <2>7, <3>1
  <2> QED
    BY <2>2, <2>4, <2>5, <2>6, <2>7
<1>17. CASE CopyKeysStep
  <2>1. /\ Now.do = "copyKeys" /\ Now.from = "ext" /\ Now.to = "data"
        /\ Now.set \in SUBSET {k \in Keys : <<k[1], k[3]>> = Now.db}
    BY <1>2, <1>17 DEF CopyKeysStep, Calling
  <2>2. \/ Succeed(0) /\ Set("data", CopyKeys(t, old, Now.db, Now.set))
        \/ \E k : Note({k})
        \/ Fail({})
        \/ Now.db \notin t.db /\ Succeed(0) /\ UNCHANGED tree
    BY <1>17, <2>1 DEF CopyKeysStep, t, old
  <2>3. CASE Succeed(0) /\ Set("data", CopyKeys(t, old, Now.db, Now.set))
    <3> DEFINE new == CopyKeys(t, old, Now.db, Now.set)
    <3>1. /\ \A k \in Keys : new.key[k] =
               IF k \in Now.set /\ t.key[k] # Absent THEN t.key[k] ELSE old.key[k]
          /\ new.db \in {old.db, old.db \cup {Now.db}}
          /\ new.file = old.file /\ new.rct = old.rct /\ new.link = old.link
      BY <1>3, CopyKeysHas
    <3> HIDE DEF new
    <3>2. new.db \subseteq old.db \cup {Now.db}
      BY <3>1
    <3>3. Brings(r, b, Now, t, old, new)
      BY <1>3, <2>1, <3>1, <3>2, BringsKeys
    <3> QED
      BY <1>9, <2>3, <3>3 DEF new
  <2>4. CASE Now.db \notin t.db /\ Succeed(0) /\ UNCHANGED tree
    <3>1. ASSUME NEW x \in X PROVE Now \notin Emptying(C, x) /\ Now \notin Filling(C, x)
      <4>1. SUFFICES ASSUME Now \in Emptying(C, x) \cup Filling(C, x) PROVE FALSE
        OBVIOUS
      <4>2. x[1] = "key" /\ x[2] \in Now.set
        BY <2>1, <4>1 DEF Emptying, Filling
      <4>5. KeyThere(t, x)
        BY <4>2, ToRecoverHas DEF X, FileThere
      <4>3. PICK k \in Keys : x = <<"key", k>> /\ <<k[1], k[3]>> \in t.db
        BY <4>5 DEF KeyThere
      <4>4. <<k[1], k[3]>> = Now.db
        BY <2>1, <4>2, <4>3
      <4> QED
        BY <2>4, <4>3, <4>4
    <3> QED
      BY <1>4, <1>8, <2>4, <3>1
  <2> QED
    BY <1>1, <1>5, <1>6, <2>1, <2>2, <2>3, <2>4
<1>18. CASE ClearKeysStep
  <2>1. /\ Now.do = "clearKeys" /\ Now.from = "ext" /\ Now.to = "data"
        /\ Now.set \in SUBSET {k \in Keys : <<k[1], k[3]>> = Now.db}
    BY <1>2, <1>18 DEF ClearKeysStep, Calling
  <2>2. \/ Now.db \notin t.db /\ Succeed(0) /\ UNCHANGED tree
        \/ Succeed(0) /\ Set("data", DeleteKeys(old, Now.set))
        \/ Now.db \notin old.db /\ Fail({}) /\ UNCHANGED tree
        \/ \E held : held # {} /\ Fail(held)
    <3> DEFINE held == {k \in Now.set : old.key[k] # Absent}
    <3>1. \/ Now.db \notin t.db /\ Succeed(0) /\ UNCHANGED tree
          \/ Succeed(0) /\ Set("data", DeleteKeys(old, Now.set))
          \/ Now.db \notin old.db /\ Fail({}) /\ UNCHANGED tree
          \/ Fail(held) /\ \E S \in (SUBSET held) \ {held} : Set("data", DeleteKeys(old, S))
      BY <1>18, <2>1 DEF ClearKeysStep, t, old
    <3>2. (\E S \in (SUBSET held) \ {held} : TRUE) => held # {}
      OBVIOUS
    <3> HIDE DEF held
    <3> QED
      BY <3>1, <3>2
  <2>3. ASSUME NEW x \in X, Now \in Emptying(C, x) \cup Filling(C, x)
        PROVE  /\ Now.db \in t.db /\ Now \notin Filling(C, x)
               /\ \E k \in Keys : x = <<"key", k>> /\ <<k[1], k[3]>> = Now.db
    <3>1. x[1] = "key" /\ x[2] \in Now.set /\ Now \notin Filling(C, x)
      BY <2>1, <2>3 DEF Emptying, Filling
    <3>4. KeyThere(t, x)
      BY <3>1, ToRecoverHas DEF X, FileThere
    <3>2. PICK k \in Keys : x = <<"key", k>> /\ <<k[1], k[3]>> \in t.db
      BY <3>4 DEF KeyThere
    <3>3. <<k[1], k[3]>> = Now.db
      BY <2>1, <3>1, <3>2
    <3> QED
      BY <3>1, <3>2, <3>3
  <2>4. CASE Now.db \notin t.db /\ Succeed(0) /\ UNCHANGED tree
    <3>1. \A x \in X : Now \notin Emptying(C, x) /\ Now \notin Filling(C, x)
      BY <2>3, <2>4
    <3> QED
      BY <1>4, <1>8, <2>4, <3>1
  <2>5. CASE Succeed(0) /\ Set("data", DeleteKeys(old, Now.set))
    <3> DEFINE new == DeleteKeys(old, Now.set)
    <3>1. /\ \A k \in Keys : new.key[k] = IF k \in Now.set THEN Absent ELSE old.key[k]
          /\ new.file = old.file /\ new.db = old.db /\ new.rct = old.rct /\ new.link = old.link
      BY <1>3, DeleteKeysHas
    <3> HIDE DEF new
    <3>2. Brings(r, b, Now, t, old, new)
      BY <2>1, <3>1, BringsKeyDeletion
    <3> QED
      BY <1>9, <2>5, <3>2 DEF new
  <2>6. CASE Now.db \notin old.db /\ Fail({}) /\ UNCHANGED tree
    <3>1. ASSUME NEW x \in X
          PROVE  /\ Now \in Emptying(C, x) => Cleared(x, old)
                 /\ Now \notin Filling(C, x)
      <4>1. ASSUME Now \in Emptying(C, x) PROVE Cleared(x, old)
        <5>1. PICK k \in Keys : x = <<"key", k>> /\ <<k[1], k[3]>> = Now.db
          BY <2>3, <4>1
        <5>2. old.key[k] = Absent
          BY <2>6, <5>1 DEF KeysInDbs, old
        <5> QED
          BY <5>1, <5>2, OfKey
      <4> QED
        BY <2>3, <4>1
    <3> QED
      BY <1>7, <1>8, <2>6, <3>1
  <2>7. CASE \E held : held # {} /\ Fail(held)
    BY <1>7, <2>7
  <2> QED
    BY <2>2, <2>4, <2>5, <2>6, <2>7
<1>19. CASE ImportLinksStep
  <2>1. Now.do = "importLinks" /\ Now.area \in Apps
    BY <1>2, <1>19 DEF ImportLinksStep, Calling
  <2> DEFINE new == [old EXCEPT !.link[Now.area] = @ \cup t.info[Now.area]]
  <2>2. (Succeed(0) /\ Set("data", new)) \/ Fail({Now.area})
    BY <1>19 DEF ImportLinksStep, t, old
  <2>3. /\ \A a \in Apps : new.link[a] =
             IF a = Now.area THEN old.link[a] \cup t.info[a] ELSE old.link[a]
        /\ new.file = old.file /\ new.key = old.key /\ new.db = old.db /\ new.rct = old.rct
    <3> DEFINE links == t.info[Now.area]
    <3>1. new = [old EXCEPT !.link[Now.area] = @ \cup links]
      OBVIOUS
    <3> HIDE DEF links, new
    <3>2. /\ \A a \in Apps : new.link[a] =
               IF a = Now.area THEN old.link[a] \cup links ELSE old.link[a]
          /\ new.file = old.file /\ new.key = old.key /\ new.db = old.db /\ new.rct = old.rct
      BY <1>3, <2>1, <3>1 DEF Tree
    <3> QED
      BY <3>2 DEF links
  <2> HIDE DEF new
  <2>4. CASE Succeed(0) /\ Set("data", new)
    <3>1. Brings(r, b, Now, t, old, new)
      BY <2>1, <2>3, BringsLinks
    <3> QED
      BY <1>9, <2>4, <3>1
  <2> QED
    BY <1>7, <2>2, <2>4
<1>20. CASE \/ CopyRctStep \/ CopyAllStep \/ ExportLinksStep
            \/ ClearDefaultStep \/ ListAreaStep \/ ClearSeatStep
  <2>1. Now.do \in {"copyRct", "copyAll", "exportLinks", "clearConfFolder", "clearConfDb",
                    "listArea", "clearSeat"}
    BY <1>20 DEF CopyRctStep, CopyAllStep, ExportLinksStep, ClearDefaultStep, ListAreaStep,
                 ClearSeatStep, Calling
  <2> QED
    BY <1>2, <2>1
<1> QED
  BY <1>11, <1>12, <1>13, <1>14, <1>15, <1>16, <1>17, <1>18, <1>19, <1>20 DEF CallStep

-----------------------------------------------------------------------------
(* The invariant of a recovery. *)

\* It is brought back; or it is deleted, and the next call copies it; or a call
\* that is left deletes it, or, if it is not deleted, copies it.
Pending(C, x, t, data, p) ==
  \/ Restored(x, t, data)
  \/ p # <<>> /\ p[1] \in Filling(C, x) /\ Cleared(x, data)
  \/ p \in Holding(C, Redoing(C, x))

RecoverInv ==
  phase = "work" /\ req.op = "recover" /\ hist.lost = {} /\ hist.counted = {} =>
    IF req.type = "all" /\ AppsOf(tree.ext) = <<>>
      THEN todo = <<>>
      ELSE LET C == RecoveryCalls(req, hist.before) IN
           /\ todo \in Seq(C) /\ Paired(todo)
           /\ \A x \in ToRecover(req, tree.ext, hist.before) :
                Pending(C, x, tree.ext, tree.data, todo)
           /\ \A a \in Apps : req.type = "all" /\ AreaExists(tree.data, a) =>
                AreaExists(hist.before, a)

LEMMA PairedTail ==
  ASSUME NEW C, NEW p \in Seq(C), p # <<>>, Paired(p)
  PROVE  Paired(Tail(p))
<1> DEFINE q == Tail(p)
<1>1. q \in Seq(C) /\ Len(q) = Len(p) - 1 /\ Len(p) \in Nat /\ \A i \in 1..Len(q) : q[i] = p[i + 1]
  OBVIOUS
<1> HIDE DEF q
<1>2. ASSUME NEW i \in 1..Len(q), q[i].do \in {"clear", "clearKeys"}
      PROVE  i < Len(q) /\ Redone(q[i], q[i + 1])
  <2>1. i + 1 \in 1..Len(p) /\ q[i] = p[i + 1]
    BY <1>1
  <2>2. i + 1 < Len(p) /\ Redone(p[i + 1], p[(i + 1) + 1])
    BY <1>2, <2>1 DEF Paired
  <2>3. i + 1 \in 1..Len(q)
    BY <1>1, <2>2
  <2>4. q[i + 1] = p[(i + 1) + 1]
    BY <1>1, <2>3
  <2> QED
    BY <1>1, <2>1, <2>2, <2>3, <2>4
<1>3. Paired(q)
  BY <1>2 DEF Paired
<1> QED
  BY <1>3 DEF q

\* What was deleted is copied by the next call.
LEMMA FillingNext ==
  ASSUME NEW C, NEW p \in Seq(C), p # <<>>, Paired(p), NEW x, p[1] \in Emptying(C, x)
  PROVE  Tail(p) # <<>> /\ Tail(p)[1] \in Filling(C, x)
<1> DEFINE q == Tail(p)
<1>0. /\ Len(p) \in Nat /\ 1 \in 1..Len(p) /\ Len(q) = Len(p) - 1
      /\ q \in Seq(C) /\ \A i \in 1..Len(q) : q[i] = p[i + 1]
  OBVIOUS
<1>1. p[1].do \in {"clear", "clearKeys"}
  BY DEF Emptying
<1>2. 1 < Len(p) /\ Redone(p[1], p[2])
  <2>1. 1 < Len(p) /\ Redone(p[1], p[1 + 1])
    BY <1>0, <1>1 DEF Paired
  <2>2. 1 + 1 = 2
    OBVIOUS
  <2> QED
    BY <2>1, <2>2
<1>3. Tail(p) # <<>> /\ Tail(p)[1] = p[2] /\ p[2] \in C
  <2> HIDE DEF q
  <2>1. 1 \in 1..Len(q) /\ 1 + 1 = 2
    BY <1>0, <1>2
  <2>2. q[1] = p[2]
    BY <1>0, <2>1
  <2>3. q # <<>>
    BY <2>1
  <2>4. 2 \in 1..Len(p)
    BY <1>0, <1>2
  <2>5. p[2] \in C
    BY <2>4
  <2> QED
    BY <2>2, <2>3, <2>5 DEF q
<1>4. p[2] \in Filling(C, x)
  BY <1>2, <1>3 DEF Emptying, Filling, Redone
<1> QED
  BY <1>3, <1>4

LEMMA PendingStays ==
  ASSUME NEW r, NEW b, NEW t, NEW old, NEW new, NEW p \in Seq(RecoveryCalls(r, b)), p # <<>>,
         Paired(p), NEW x \in ToRecover(r, t, b), Brings(r, b, p[1], t, old, new),
         Pending(RecoveryCalls(r, b), x, t, old, p)
  PROVE  Pending(RecoveryCalls(r, b), x, t, new, Tail(p))
<1> DEFINE C == RecoveryCalls(r, b)
<1>1. /\ p[1] \in Emptying(C, x) => Cleared(x, new)
      /\ p[1] \in Filling(C, x) /\ (Cleared(x, old) \/ Restored(x, t, old) \/ Plain(x)) =>
           Restored(x, t, new)
      /\ p[1] \notin Emptying(C, x) \cup Filling(C, x) /\ Restored(x, t, old) =>
           Restored(x, t, new)
  BY DEF Brings
<1> HIDE DEF C
<1>2. CASE p[1] \in Emptying(C, x)
  <2>1. Tail(p) # <<>> /\ Tail(p)[1] \in Filling(C, x)
    BY <1>2, FillingNext DEF C
  <2> QED
    BY <1>1, <1>2, <2>1 DEF Pending, C
<1>3. CASE p[1] \in Filling(C, x) /\ (Cleared(x, old) \/ Restored(x, t, old) \/ Plain(x))
  BY <1>1, <1>3 DEF Pending
<1>4. CASE p[1] \notin Emptying(C, x) /\ Restored(x, t, old)
  <2>1. Restored(x, t, new)
    BY <1>1, <1>4
  <2> QED
    BY <2>1 DEF Pending
<1>5. CASE /\ p[1] \notin Emptying(C, x) /\ p \in Holding(C, Redoing(C, x))
           /\ ~(p[1] \in Filling(C, x) /\ (Cleared(x, old) \/ Restored(x, t, old) \/ Plain(x)))
  <2>1. p[1] \notin Redoing(C, x)
    BY <1>5 DEF Redoing
  <2>2. Tail(p) \in Holding(C, Redoing(C, x))
    BY <1>5, <2>1, HoldingTail
  <2> QED
    BY <2>2 DEF Pending, C
<1>6. \/ Restored(x, t, old)
      \/ p[1] \in Filling(C, x) /\ Cleared(x, old)
      \/ p \in Holding(C, Redoing(C, x))
  BY DEF Pending, C
<1> QED
  BY <1>2, <1>3, <1>4, <1>5, <1>6

LEMMA RecoveryCallKeeps ==
  ASSUME TypeInv, KeysInDbs(tree.data), RecoverInv, CallStep, phase = "work",
         req \in Requests, req.op = "recover", todo # <<>>, req' = req,
         hist.lost = {}, hist.counted = {}
  PROVE  phase' = "reply" \/ hist'.lost # {} \/ hist'.counted # {} \/ RecoverInv'
<1> DEFINE r == req
           b == hist.before
           C == RecoveryCalls(r, b)
           t == tree.ext
           old == tree.data
           new == tree'.data
<1>1. /\ todo \in Seq(C) /\ Paired(todo)
      /\ \A x \in ToRecover(r, t, b) : Pending(C, x, t, old, todo)
      /\ \A a \in Apps : r.type = "all" /\ AreaExists(old, a) => AreaExists(b, a)
      /\ ~(r.type = "all" /\ AppsOf(t) = <<>>)
  BY DEF RecoverInv
<1>2. Now \in C /\ Now = todo[1]
  <2> HIDE DEF C
  <2> QED
    BY <1>1 DEF Now
<1>3. RecoveryGoes(r, b)
  BY <1>2, RecoveryStep
<1>4. CASE /\ todo' = Tail(todo) /\ hist' = hist /\ phase' = phase /\ tree'.ext = t
           /\ Brings(r, b, Now, t, old, new)
  <2> HIDE DEF C
  <2>1. Tail(todo) \in Seq(C)
    BY <1>1
  <2>2. Paired(Tail(todo))
    BY <1>1, PairedTail
  <2>3. ASSUME NEW x \in ToRecover(r, t, b) PROVE Pending(C, x, t, new, Tail(todo))
    BY <1>1, <1>2, <1>4, PendingStays DEF C
  <2>4. \A a \in Apps : r.type = "all" /\ AreaExists(new, a) => AreaExists(b, a)
    BY <1>1, <1>4 DEF Brings
  <2>5. RecoveryCalls(req', hist'.before) = C
    BY <1>4 DEF C
  <2> HIDE DEF r, b, t, new
  <2>6. /\ todo' \in Seq(C) /\ Paired(todo')
        /\ \A x \in ToRecover(r, t, b) : Pending(C, x, t, new, todo')
    BY <1>4, <2>1, <2>2, <2>3
  <2> QED
    BY <1>4, <2>4, <2>5, <2>6 DEF RecoverInv, r, b, t, new
<1> QED
  BY <1>3, <1>4 DEF RecoveryGoes

LEMMA RedoesPending ==
  ASSUME NEW r, NEW b, NEW t, NEW p \in Redoes(RecoveryCalls(r, b), ToRecover(r, t, b)), NEW data
  PROVE  /\ p \in Seq(RecoveryCalls(r, b)) /\ Paired(p)
         /\ \A x \in ToRecover(r, t, b) : Pending(RecoveryCalls(r, b), x, t, data, p)
<1> DEFINE C == RecoveryCalls(r, b)
<1>1. ASSUME NEW x \in ToRecover(r, t, b) PROVE p \in Holding(C, Redoing(C, x))
  <2>1. x \in Goods
    BY ToRecoverGoods
  <2>2. p \in Redo(C)[x]
    BY DEF Redoes, Covers
  <2> HIDE DEF C
  <2> QED
    BY <2>1, <2>2 DEF Redo
<1> QED
  BY <1>1, RedoesCalls DEF Pending

LEMMA ExtSet ==
  ASSUME tree \in Trees, NEW t, Set("ext", t)
  PROVE  tree'.ext = t /\ tree'.data = tree.data
BY DEF Set, Trees

LEMMA RecoveryBegins ==
  ASSUME TypeInv, RequestInv, Uncompress
  PROVE  RecoverInv'
<1>1. CASE phase' # "work"
  BY <1>1 DEF RecoverInv
<1>2. CASE phase' = "work"
  <2> DEFINE t == Extracted(arch[req.arch])
             b == hist.before
  <2>1. /\ phase = "uncompress" /\ req' = req /\ Set("ext", t)
        /\ todo' = RecoveryPlan(t, req)
        /\ hist' = [hist EXCEPT !.extracted = @ \cup {arch[req.arch].tree}]
    BY <1>2 DEF Uncompress
  <2>2. req \in Requests /\ req.op = "recover" /\ tree.data = b
    BY <2>1 DEF RequestInv
  <2> HIDE DEF t
  <2>3. tree'.ext = t /\ tree'.data = tree.data /\ hist'.before = b
    BY <2>1, ExtSet DEF TypeInv, History
  <2>4. IF req.type = "all" /\ AppsOf(t) = <<>>
          THEN RecoveryPlan(t, req) = <<>>
          ELSE RecoveryPlan(t, req) \in Redoes(RecoveryCalls(req, b), ToRecover(req, t, b))
    BY <2>2, RecoveryPlanRedoes
  <2> DEFINE p == RecoveryPlan(t, req)
             C == RecoveryCalls(req, b)
  <2> HIDE DEF p, b
  <2>5. CASE req.type = "all" /\ AppsOf(t) = <<>>
    <3>1. todo' = <<>>
      BY <2>1, <2>4, <2>5
    <3> QED
      BY <2>1, <2>3, <2>5, <3>1 DEF RecoverInv
  <2>6. CASE ~(req.type = "all" /\ AppsOf(t) = <<>>)
    <3>1. p \in Redoes(C, ToRecover(req, t, b))
      BY <2>4, <2>6 DEF p
    <3>2. /\ p \in Seq(C) /\ Paired(p)
          /\ \A x \in ToRecover(req, t, b) : Pending(C, x, t, tree.data, p)
      BY <3>1, RedoesPending
    <3>3. todo' = p
      BY <2>1 DEF p
    <3> QED
      BY <2>1, <2>2, <2>3, <2>6, <3>2, <3>3 DEF RecoverInv
  <2> QED
    BY <2>5, <2>6
<1> QED
  BY <1>1, <1>2

LEMMA NextRecovers ==
  ASSUME TypeInv, RequestInv, KeysInDbs(tree.data), RecoverInv, [Next]_vars
  PROVE  RecoverInv'
<1>1. CASE UNCHANGED vars
  BY <1>1 DEF vars, RecoverInv
<1>2. CASE phase' # "work" \/ req'.op # "recover"
  BY <1>2 DEF RecoverInv
<1>3. CASE Receive \/ RefuseInLibrary \/ Reply \/ Crash \/ Archive \/ Cleanup \/ Complete
           \/ WriteFile \/ WriteKey \/ Update \/ Uninstall \/ Refuse \/ BeginRecovery
  <2>1. phase' # "work"
    BY <1>3 DEF Receive, RefuseInLibrary, Reply, Crash, Archive, Cleanup, Complete,
                WriteFile, WriteKey, Update, Uninstall, Change, Refuse, BeginRecovery, Begin
  <2> QED
    BY <1>2, <2>1
<1>4. CASE BeginBackup \/ BeginReset \/ BeginDelete
  BY <1>2, <1>4 DEF BeginBackup, BeginReset, BeginDelete, Begin
<1>5. CASE Uncompress
  BY <1>5, RecoveryBegins
<1>6. CASE CallStep
  <2>1. phase = "work" /\ todo # <<>> /\ req' = req
    BY <1>6, CallEffect DEF RequestInv, Effect
  <2>2. CASE req.op = "recover" /\ hist.lost = {} /\ hist.counted = {}
    <3>1. phase' = "reply" \/ hist'.lost # {} \/ hist'.counted # {} \/ RecoverInv'
      BY <1>6, <2>1, <2>2, RecoveryCallKeeps DEF RequestInv
    <3> QED
      BY <1>2, <3>1 DEF RecoverInv
  <2>3. CASE hist.lost # {}
    <3>1. hist'.lost # {}
      BY <1>6, <2>3, LostStays DEF TypeInv
    <3> QED
      BY <3>1 DEF RecoverInv
  <2>4. CASE hist.counted # {}
    <3>1. hist'.counted # {}
      BY <1>6, <2>4, CountedStays DEF TypeInv
    <3> QED
      BY <3>1 DEF RecoverInv
  <2> QED
    BY <1>2, <2>1, <2>2, <2>3, <2>4
<1> QED
  BY <1>1, <1>3, <1>4, <1>5, <1>6 DEF Next

LEMMA RecoverEnds ==
  ASSUME RecoverInv, req \in Requests
  PROVE  RecoveryRestores
<1> DEFINE r == req
           t == tree.ext
           b == hist.before
           data == tree.data
<1> SUFFICES ASSUME Done("recover"), hist.counted = {}, r.type = "all" => AppsOf(t) # <<>>
             PROVE  /\ \A f \in Folders :
                         SelectsFile(r, f) /\ InScope(r, f[1]) /\ Exists(t, UnitOf(r, f)) =>
                           data.file[f] = t.file[f]
                    /\ \A k \in Keys :
                         /\ SelectsKey(r, k) /\ InScope(r, k[1]) /\ <<k[1], k[3]>> \in t.db
                         /\ k[1] \in Shared => t.key[k] # Absent
                         => data.key[k] = t.key[k]
                    /\ r.type # "application" =>
                         \A a \in Apps : InScope(r, a) => t.info[a] \subseteq data.link[a]
  BY DEF RecoveryRestores
<1>1. /\ todo = <<>>
      /\ \A x \in ToRecover(r, t, b) : Pending(RecoveryCalls(r, b), x, t, data, todo)
      /\ \A a \in Apps : r.type = "all" /\ AreaExists(data, a) => AreaExists(b, a)
  BY DEF Done, RecoverInv
<1>2. ASSUME NEW x \in ToRecover(r, t, b) PROVE Restored(x, t, data)
  <2>1. Pending(RecoveryCalls(r, b), x, t, data, <<>>)
    BY <1>1
  <2>2. \A C, S : <<>> \notin Holding(C, S)
    BY DEF Holding
  <2> QED
    BY <2>1, <2>2 DEF Pending
<1>3. ASSUME NEW a \in Area, InScope(r, a) PROVE Scope(r, t, b, a)
  <2>1. r.type \in {"all", "user", "application"}
    BY DEF Requests
  <2>2. CASE r.type = "application"
    BY <1>3, <2>2 DEF InScope, Scope
  <2>3. CASE r.type = "user"
    BY <1>3, <2>3 DEF InScope, Scope
  <2>4. CASE r.type = "all"
    BY <1>1, <1>3, <2>4 DEF InScope, Scope, Area
  <2> QED
    BY <2>1, <2>2, <2>3, <2>4
<1>4. ASSUME NEW f \in Folders, SelectsFile(r, f), InScope(r, f[1]), Exists(t, UnitOf(r, f))
      PROVE  data.file[f] = t.file[f]
  <2>1. Scope(r, t, b, f[1])
    BY <1>3, <1>4, DataAssumption
  <2>2. <<"file", f>> \in ToRecover(r, t, b)
    BY <1>4, <2>1 DEF ToRecover
  <2> QED
    BY <1>2, <2>2, OfFile
<1>5. ASSUME NEW k \in Keys, SelectsKey(r, k), InScope(r, k[1]), <<k[1], k[3]>> \in t.db,
             k[1] \in Shared => t.key[k] # Absent
      PROVE  data.key[k] = t.key[k]
  <2>1. Scope(r, t, b, k[1])
    BY <1>3, <1>5, DataAssumption
  <2>2. <<"key", k>> \in ToRecover(r, t, b)
    BY <1>5, <2>1 DEF ToRecover
  <2> QED
    BY <1>2, <2>2, OfKey
<1>6. ASSUME NEW a \in Apps, r.type # "application", InScope(r, a)
      PROVE  t.info[a] \subseteq data.link[a]
  <2>1. Scope(r, t, b, a)
    BY <1>3, <1>6 DEF Area
  <2>2. <<"link", a>> \in ToRecover(r, t, b)
    BY <1>6, <2>1 DEF ToRecover
  <2> QED
    BY <1>2, <2>2, OfLink
<1> QED
  BY <1>4, <1>5, <1>6

\* A recovery that made all its calls and hid no error has brought back what the
\* request selects in the archive, whatever was on the target, and whichever
\* calls could have failed: local data exactly, shared keys without deleting
\* those that came since, and the links.
THEOREM Recovers == Spec => []RecoveryRestores
<1> DEFINE IInv == TypeInv /\ RequestInv /\ KeysInDbs(tree.data) /\ RecoverInv
<1>1. Init => IInv
  <2>1. Init => RecoverInv
    BY DEF Init, RecoverInv
  <2> QED
    BY <2>1, InitTypes, InitKeysInDbs
<1>2. IInv /\ [Next]_vars => IInv'
  BY NextTypes, NextKeepsDbs, NextRecovers
<1>3. IInv => RecoveryRestores
  <2> SUFFICES ASSUME IInv PROVE RecoveryRestores
    OBVIOUS
  <2>1. CASE Done("recover")
    <3>1. req \in Requests
      BY <2>1 DEF Done, RequestInv
    <3> QED
      BY <3>1, RecoverEnds
  <2>2. CASE ~Done("recover")
    BY <2>2 DEF RecoveryRestores
  <2> QED
    BY <2>1, <2>2
<1> QED
  BY <1>1, <1>2, <1>3, PTL DEF Spec

-----------------------------------------------------------------------------
(* What an archive holds.  *)

LEMMA AppThere ==
  ASSUME NEW t
  PROVE  AppsOf(t) # <<>> <=> \E b \in Apps : AreaExists(t, b)
<1> DEFINE S == {a \in Apps : AreaExists(t, a)}
<1>1. AppsOf(t) \in Seq(Apps \cap S)
  BY AppListType, ThoseType DEF AppsOf
<1> DEFINE p == AppsOf(t)
<1>2. ASSUME NEW b \in Apps, AreaExists(t, b) PROVE p # <<>>
  <2>1. PICK i \in 1..Len(p) : p[i] = b
    BY <1>2, AppsOfHas
  <2> HIDE DEF p
  <2> QED
    BY <2>1
<1>3. ASSUME p # <<>> PROVE \E b \in Apps : AreaExists(t, b)
  <2> DEFINE T == Apps \cap S
  <2>1. p \in Seq(T)
    BY <1>1
  <2> HIDE DEF p, T
  <2>2. p[1] \in T
    BY <1>3, <2>1
  <2> QED
    BY <2>2 DEF T
<1> QED
  BY <1>2, <1>3

\* A good archive of a backup that hid no error, from a folder that was new, has
\* what the request selected as it was.
Faithful(a) ==
  a.sound /\ a.state = "good" =>
    /\ a.of \in Requests /\ a.of.op = "backup" /\ KeysInDbs(a.tree)
    /\ \A f \in Folders : SelectsFile(a.of, f) /\ a.was.file[f] # Absent =>
         a.tree.file[f] = a.was.file[f]
    /\ \A k \in Keys : SelectsKey(a.of, k) /\ a.was.key[k] # Absent =>
         a.tree.key[k] = a.was.key[k]
    /\ a.of.type # "application" =>
         \A b \in Apps : AreaExists(a.was, b) => AreaExists(a.tree, b)

ArchInv == \A n \in Archives : Faithful(arch[n])

\* With no call left, everything is copied.
LEMMA AllCopied ==
  ASSUME BackupInv, phase = "work", req.op = "backup", todo = <<>>, hist.lost = {},
         Looks(req, tree.data), NEW x \in ToCollect(req, tree.data)
  PROVE  Copied(x, tree.data, tree.coll, hist.fresh)
<1> SUFFICES ASSUME x \in Missing(req, tree.data, tree.coll, hist.fresh) PROVE FALSE
  BY DEF Missing
<1>1. x \in Items
  BY ToCollectItems
<1>2. todo \in Collects(req, Missing(req, tree.data, tree.coll, hist.fresh))
  BY DEF BackupInv
<1>3. todo \in Holding(BackupCalls(req), Collecting(req, x))
  BY <1>1, <1>2 DEF Collects, Covers, Collect
<1> QED
  BY <1>3 DEF Holding

LEMMA ArchiveFaithful ==
  ASSUME TypeInv, RequestInv, KeysInDbs(tree.coll), BackupInv, ArchInv, Archive
  PROVE  ArchInv'
<1>1. /\ phase = "work" /\ todo = <<>> /\ req.op = "backup" /\ req \in Requests
  BY DEF Archive, RequestInv
<1>2. PICK state \in {"good", "broken"} :
        /\ state = "good" => tree.coll # NoTree
        /\ arch' = [arch EXCEPT ![ArchiveName(req)] =
             [state |-> state, tree |-> tree.coll, of |-> req, was |-> tree.data,
              sound |-> hist.fresh /\ hist.lost = {}]]
  BY DEF Archive
<1> DEFINE a == [state |-> state, tree |-> tree.coll, of |-> req, was |-> tree.data,
                 sound |-> hist.fresh /\ hist.lost = {}]
           r == req
           data == tree.data
           coll == tree.coll
<1>3. Faithful(a)
  <2> SUFFICES ASSUME hist.fresh, hist.lost = {}, state = "good"
               PROVE  /\ r \in Requests /\ r.op = "backup" /\ KeysInDbs(coll)
                      /\ \A f \in Folders : SelectsFile(r, f) /\ data.file[f] # Absent =>
                           coll.file[f] = data.file[f]
                      /\ \A k \in Keys : SelectsKey(r, k) /\ data.key[k] # Absent =>
                           coll.key[k] = data.key[k]
                      /\ r.type # "application" =>
                           \A b \in Apps : AreaExists(data, b) => AreaExists(coll, b)
    BY DEF Faithful
  <2>1. Looks(r, data)
    BY <1>1, <1>2 DEF BackupInv
  <2>2. \A x \in ToCollect(r, data) : Copied(x, data, coll, hist.fresh)
    BY <1>1, <2>1, AllCopied
  <2>3. ASSUME NEW f \in Folders, SelectsFile(r, f), data.file[f] # Absent
        PROVE  coll.file[f] = data.file[f]
    <3>1. <<"file", f>> \in ToCollect(r, data)
      BY <2>3 DEF ToCollect
    <3> QED
      BY <2>2, <2>3, <3>1, CopiedFile
  <2>4. ASSUME NEW k \in Keys, SelectsKey(r, k), data.key[k] # Absent
        PROVE  coll.key[k] = data.key[k]
    <3>1. <<"key", k>> \in ToCollect(r, data)
      BY <2>4 DEF ToCollect
    <3> QED
      BY <2>2, <2>4, <3>1, CopiedKey
  <2>5. ASSUME r.type # "application", NEW b \in Apps, AreaExists(data, b)
        PROVE  AreaExists(coll, b)
    <3>1. <<"table", b>> \in ToCollect(r, data)
      BY <2>5 DEF ToCollect, Tabled, Area
    <3> QED
      BY <2>2, <2>5, <3>1, CopiedTable
  <2> QED
    BY <1>1, <2>3, <2>4, <2>5
<1> HIDE DEF a
<1>4. \A n \in Archives : arch'[n] = a \/ arch'[n] = arch[n]
  BY <1>2 DEF TypeInv, a
<1>5. ASSUME NEW n \in Archives PROVE Faithful(arch'[n])
  BY <1>3, <1>4 DEF ArchInv
<1> QED
  BY <1>5 DEF ArchInv

LEMMA NextArchives ==
  ASSUME TypeInv, RequestInv, KeysInDbs(tree.coll), BackupInv, ArchInv, [Next]_vars
  PROVE  ArchInv'
<1>1. CASE Archive
  BY <1>1, ArchiveFaithful
<1>2. CASE UNCHANGED arch
  BY <1>2 DEF ArchInv
<1>3. CASE UNCHANGED vars
  BY <1>2, <1>3 DEF vars
<1>4. CASE CallStep
  BY <1>2, <1>4, CallEffect DEF RequestInv, Effect
<1>5. CASE Refuse \/ BeginBackup \/ BeginRecovery \/ BeginReset \/ BeginDelete
  BY <1>2, <1>5 DEF Refuse, BeginBackup, BeginRecovery, BeginReset, BeginDelete, Begin
<1>6. CASE Receive \/ RefuseInLibrary \/ Reply \/ Crash \/ Uncompress \/ Cleanup \/ Complete
           \/ WriteFile \/ WriteKey \/ Update \/ Uninstall
  BY <1>2, <1>6 DEF Receive, RefuseInLibrary, Reply, Crash, Uncompress, Cleanup, Complete,
                    WriteFile, WriteKey, Update, Uninstall, Change
<1> QED
  BY <1>1, <1>3, <1>4, <1>5, <1>6 DEF Next

\* The keys of a collection are in its databases.
LEMMA NextKeepsCollDbs ==
  ASSUME TypeInv, RequestInv, KeysInDbs(tree.data), KeysInDbs(tree.coll), [Next]_vars
  PROVE  KeysInDbs(tree'.coll)
<1>1. CASE tree'.coll = tree.coll
  BY <1>1
<1>2. tree \in Trees
  BY DEF TypeInv
<1>3. CASE UNCHANGED tree
  BY <1>1, <1>3
<1>4. CASE BeginBackup
  <2>1. PICK t \in {NoTree, tree.coll} : Set("coll", t)
    BY <1>4 DEF BeginBackup
  <2>2. KeysInDbs(NoTree)
    BY DEF KeysInDbs, NoTree
  <2> QED
    BY <1>2, <2>1, <2>2, CollSet
<1>5. CASE CallStep
  BY <1>5, CallKeepsDbs
<1>6. CASE Uncompress \/ Cleanup
  <2>1. \A t : Set("ext", t) => tree'.coll = tree.coll
    BY <1>2 DEF Set, Trees
  <2> QED
    BY <1>1, <1>6, <2>1 DEF Uncompress, Cleanup
<1>7. CASE WriteFile \/ WriteKey \/ Update \/ Uninstall
  <2>1. \A t : Set("data", t) => tree'.coll = tree.coll
    BY <1>2 DEF Set, Trees
  <2> QED
    BY <1>1, <1>7, <2>1 DEF WriteFile, WriteKey, Update, Uninstall, Change
<1>8. CASE Receive \/ RefuseInLibrary \/ Reply \/ Crash \/ Archive \/ Complete \/ Refuse
           \/ BeginRecovery \/ BeginReset \/ BeginDelete
  BY <1>3, <1>8 DEF Receive, RefuseInLibrary, Reply, Crash, Archive, Complete, Refuse,
                    BeginRecovery, BeginReset, BeginDelete
<1> QED
  BY <1>3, <1>4, <1>5, <1>6, <1>7, <1>8 DEF Next, vars

-----------------------------------------------------------------------------
(* What is extracted. *)

\* Of tree e, nothing is there that is not as in t.
PartOf(e, t) ==
  /\ \A f \in Folders : e.file[f] \in {Absent, t.file[f]}
  /\ \A k \in Keys : e.key[k] \in {Absent, t.key[k]}
  /\ e.db \subseteq t.db
  /\ \A a \in Area : e.rct[a] \in {0, t.rct[a]}

\* They are the same, but for links.
Same(e, t) ==
  /\ \A f \in Folders : e.file[f] = t.file[f]
  /\ \A k \in Keys : <<k[1], k[3]>> \in t.db => e.key[k] = t.key[k]
  /\ e.db = t.db
  /\ \A a \in Area : e.rct[a] = t.rct[a]

LEMMA OverlayPart ==
  ASSUME NEW t \in Tree, NEW e \in Tree, PartOf(e, t), NEW areas
  PROVE  PartOf(Overlay(t, e, areas), t)
<1> DEFINE u == Overlay(t, e, areas)
<1>1. /\ \A f \in Folders : u.file[f] =
           IF f[1] \in areas /\ (t.file[f] \in Versions \/ e.file[f] = Absent)
             THEN t.file[f] ELSE e.file[f]
      /\ \A k \in Keys : u.key[k] =
           IF k[1] \in areas /\ <<k[1], k[3]>> \in t.db THEN t.key[k] ELSE e.key[k]
      /\ u.db = e.db \cup {d \in t.db : d[1] \in areas}
      /\ \A a \in Area : u.rct[a] =
           IF a \in areas /\ t.rct[a] # 0 THEN t.rct[a] ELSE e.rct[a]
  BY OverlayHas
<1> HIDE DEF u
<1>2. \A f \in Folders : u.file[f] \in {Absent, t.file[f]}
  BY <1>1 DEF PartOf
<1>3. \A k \in Keys : u.key[k] \in {Absent, t.key[k]}
  BY <1>1 DEF PartOf
<1>4. u.db \subseteq t.db
  BY <1>1 DEF PartOf
<1>5. \A a \in Area : u.rct[a] \in {0, t.rct[a]}
  BY <1>1 DEF PartOf
<1> QED
  BY <1>2, <1>3, <1>4, <1>5 DEF PartOf, u

LEMMA OverlaySame ==
  ASSUME NEW t \in Tree, NEW e \in Tree, PartOf(e, t)
  PROVE  Same(Overlay(t, e, Area), t)
<1> DEFINE u == Overlay(t, e, Area)
<1>1. /\ \A f \in Folders : u.file[f] =
           IF f[1] \in Area /\ (t.file[f] \in Versions \/ e.file[f] = Absent)
             THEN t.file[f] ELSE e.file[f]
      /\ \A k \in Keys : u.key[k] =
           IF k[1] \in Area /\ <<k[1], k[3]>> \in t.db THEN t.key[k] ELSE e.key[k]
      /\ u.db = e.db \cup {d \in t.db : d[1] \in Area}
      /\ \A a \in Area : u.rct[a] =
           IF a \in Area /\ t.rct[a] # 0 THEN t.rct[a] ELSE e.rct[a]
  BY OverlayHas
<1> HIDE DEF u
<1>2. /\ \A f \in Folders : f[1] \in Area
      /\ \A k \in Keys : k[1] \in Area
      /\ \A d \in t.db : d[1] \in Area
  BY DataAssumption DEF Tree, Databases
<1>3. \A f \in Folders : u.file[f] = t.file[f]
  BY <1>1, <1>2 DEF PartOf
<1>4. \A k \in Keys : <<k[1], k[3]>> \in t.db => u.key[k] = t.key[k]
  BY <1>1, <1>2
<1>5. u.db = t.db
  BY <1>1, <1>2 DEF PartOf
<1>6. \A a \in Area : u.rct[a] = t.rct[a]
  BY <1>1 DEF PartOf
<1> QED
  BY <1>3, <1>4, <1>5, <1>6 DEF Same, u

\* If nothing but tree t was extracted, nothing else is there; and in a recovery
\* at work it is there as a whole.
ExtractInv ==
  /\ \A t \in Tree : hist.extracted \subseteq {t} => PartOf(tree.ext, t)
  /\ phase = "work" /\ req.op = "recover" =>
       LET a == arch[req.arch] IN
       a.state = "good" /\ (hist.extracted = {a.tree} => Same(tree.ext, a.tree))

LEMMA UncompressExtracts ==
  ASSUME TypeInv, RequestInv, ExtractInv, Uncompress
  PROVE  ExtractInv'
<1> DEFINE a == arch[req.arch]
           u == a.tree
<1>1. phase = "uncompress" /\ req \in Requests /\ req.op = "recover" /\ req' = req
      /\ arch' = arch
  BY DEF Uncompress, RequestInv
<1>2. a \in ArchiveRecord /\ u \in Tree
  <2>1. req.arch \in Archives
    BY <1>1 DEF Requests
  <2> QED
    BY <2>1 DEF TypeInv, ArchiveRecord
<1>3. tree \in Trees /\ tree.ext \in Tree /\ hist \in History
  BY DEF TypeInv, Trees
<1>4. \/ UNCHANGED <<tree, hist>> /\ phase' = "reply"
      \/ /\ \E areas : Set("ext", Overlay(u, tree.ext, areas))
         /\ hist' = [hist EXCEPT !.extracted = @ \cup {u}]
         /\ \/ phase' = "reply"
            \/ a.state = "good" /\ Set("ext", Overlay(u, tree.ext, Area))
  BY DEF Uncompress, Extracted
<1> HIDE DEF a, u
<1>5. CASE UNCHANGED <<tree, hist>> /\ phase' = "reply"
  BY <1>5 DEF ExtractInv
<1>6. CASE /\ \E areas : Set("ext", Overlay(u, tree.ext, areas))
           /\ hist' = [hist EXCEPT !.extracted = @ \cup {u}]
           /\ \/ phase' = "reply"
              \/ a.state = "good" /\ Set("ext", Overlay(u, tree.ext, Area))
  <2>1. PICK areas : Set("ext", Overlay(u, tree.ext, areas))
    BY <1>6
  <2>2. tree'.ext = Overlay(u, tree.ext, areas)
    BY <1>3, <2>1, ExtSet
  <2>3. hist'.extracted = hist.extracted \cup {u}
    BY <1>3, <1>6 DEF History
  <2>4. ASSUME NEW t \in Tree, hist'.extracted \subseteq {t} PROVE PartOf(tree'.ext, t)
    <3>1. u = t /\ hist.extracted \subseteq {t}
      BY <2>3, <2>4
    <3>2. PartOf(tree.ext, t)
      BY <3>1 DEF ExtractInv
    <3> QED
      BY <1>3, <2>2, <3>1, <3>2, OverlayPart
  <2>5. ASSUME phase' = "work"
        PROVE  a.state = "good" /\ (hist'.extracted = {u} => Same(tree'.ext, u))
    <3>1. a.state = "good" /\ Set("ext", Overlay(u, tree.ext, Area))
      BY <1>6, <2>5
    <3>2. tree'.ext = Overlay(u, tree.ext, Area)
      BY <1>3, <3>1, ExtSet
    <3>3. ASSUME hist'.extracted = {u} PROVE PartOf(tree.ext, u)
      BY <1>2, <2>3, <3>3 DEF ExtractInv
    <3> QED
      BY <1>2, <1>3, <3>1, <3>2, <3>3, OverlaySame
  <2> QED
    BY <1>1, <2>4, <2>5 DEF ExtractInv, a, u
<1> QED
  BY <1>4, <1>5, <1>6

LEMMA ExtractStays ==
  ASSUME ExtractInv, tree'.ext = tree.ext, hist'.extracted = hist.extracted, arch' = arch,
         req' = req, phase' = "work" => phase = "work"
  PROVE  ExtractInv'
BY DEF ExtractInv

\* What begins is not a recovery at work.
LEMMA ExtractBegins ==
  ASSUME ExtractInv, tree'.ext = tree.ext, hist'.extracted = hist.extracted,
         phase' # "work" \/ req'.op # "recover"
  PROVE  ExtractInv'
BY DEF ExtractInv

LEMMA NextExtracts ==
  ASSUME TypeInv, RequestInv, ExtractInv, [Next]_vars
  PROVE  ExtractInv'
<1>1. tree \in Trees /\ hist \in History
  BY DEF TypeInv
<1>2. \A c : Remember(c) => hist'.extracted = hist.extracted
  BY <1>1 DEF Remember, History
<1>3. CASE UNCHANGED vars
  BY <1>3, ExtractStays DEF vars
<1>4. CASE Receive \/ RefuseInLibrary \/ Reply \/ Crash \/ Archive \/ Complete
  BY <1>4, ExtractBegins DEF Receive, RefuseInLibrary, Reply, Crash, Archive, Complete
<1>5. CASE WriteFile \/ WriteKey \/ Update \/ Uninstall
  <2>1. PICK t : Change(t)
    BY <1>5 DEF WriteFile, WriteKey, Update, Uninstall
  <2>2. tree'.ext = tree.ext
    BY <1>1, <2>1 DEF Change, Set, Trees
  <2>3. UNCHANGED <<arch, phase, req, hist>>
    BY <2>1 DEF Change
  <2> QED
    BY <2>2, <2>3, ExtractStays
<1>6. CASE BeginBackup
  <2>1. PICK t : Set("coll", t) /\ Remember(t)
    BY <1>6 DEF BeginBackup
  <2>2. tree'.ext = tree.ext
    BY <1>1, <2>1 DEF Set, Trees
  <2>3. req'.op # "recover"
    BY <1>6 DEF BeginBackup, Begin
  <2> QED
    BY <1>2, <2>1, <2>2, <2>3, ExtractBegins
<1>7. CASE Refuse \/ BeginRecovery \/ BeginReset \/ BeginDelete
  <2>1. tree' = tree /\ Remember(tree.coll)
    BY <1>7 DEF Refuse, BeginRecovery, BeginReset, BeginDelete
  <2>2. phase' # "work" \/ req'.op # "recover"
    BY <1>7 DEF Refuse, BeginRecovery, BeginReset, BeginDelete, Begin
  <2> QED
    BY <1>2, <2>1, <2>2, ExtractBegins
<1>8. CASE CallStep
  <2>1. Effect
    BY <1>8, CallEffect DEF RequestInv
  <2> QED
    BY <2>1, ExtractStays DEF Effect, Within, Goes
<1>9. CASE Uncompress
  BY <1>9, UncompressExtracts
<1>10. CASE Cleanup
  <2>1. phase' = "reply"
    BY <1>10 DEF Cleanup
  <2>2. CASE UNCHANGED <<tree, hist>>
    BY <2>1, <2>2, ExtractBegins
  <2>3. CASE Set("ext", NoTree) /\ hist' = [hist EXCEPT !.extracted = {}]
    <3>1. tree'.ext = NoTree
      BY <1>1, <2>3, ExtSet
    <3>2. \A t \in Tree : PartOf(NoTree, t)
      BY DEF PartOf, NoTree
    <3> QED
      BY <2>1, <3>1, <3>2 DEF ExtractInv
  <2> QED
    BY <1>10, <2>2, <2>3 DEF Cleanup
<1> QED
  BY <1>3, <1>4, <1>5, <1>6, <1>7, <1>8, <1>9, <1>10 DEF Next

-----------------------------------------------------------------------------
(* There and back. *)

\* An archive of which a file or a key is there that its request selected has an
\* application, if there was one or the request was for one.
LEMMA AppArchived ==
  ASSUME NEW a, Faithful(a), a.sound, a.state = "good", AppsOf(a.was) # <<>>,
         NEW b, a.of.type = "application" => b = a.of.app, AreaExists(a.tree, b)
  PROVE  \E c \in Apps : AreaExists(a.tree, c)
<1>1. CASE a.of.type = "application"
  <2>1. a.of.app \in Apps
    BY <1>1 DEF Faithful, Requests
  <2> QED
    BY <1>1, <2>1
<1>2. CASE a.of.type # "application"
  <2>1. PICK c \in Apps : AreaExists(a.was, c)
    BY AppThere
  <2> QED
    BY <1>2, <2>1 DEF Faithful
<1> QED
  BY <1>1, <1>2

LEMMA SameAreas ==
  ASSUME NEW e, NEW t, Same(e, t), NEW c \in Area, AreaExists(t, c)
  PROVE  AreaExists(e, c)
BY DEF Same, AreaExists

LEMMA TripEnds ==
  ASSUME TypeInv, RequestInv, ArchInv, ExtractInv, RecoveryRestores
  PROVE  RoundTrip
<1> DEFINE a == arch[req.arch]
           e == tree.ext
<1> SUFFICES ASSUME Done("recover"), hist.counted = {}, a.sound, hist.extracted = {a.tree},
                    req.type = "all" => AppsOf(a.was) # <<>>
             PROVE  /\ \A f \in Folders :
                         /\ SelectsFile(a.of, f) /\ SelectsFile(req, f) /\ InScope(req, f[1])
                         /\ a.was.file[f] \in Versions
                         => tree.data.file[f] = a.was.file[f]
                    /\ \A k \in Keys :
                         /\ SelectsKey(a.of, k) /\ SelectsKey(req, k) /\ InScope(req, k[1])
                         /\ a.was.key[k] # Absent
                         => tree.data.key[k] = a.was.key[k]
  BY DEF RoundTrip
<1>1. phase = "work" /\ req.op = "recover" /\ req \in Requests
  BY DEF Done, RequestInv
<1>2. a.state = "good" /\ Same(e, a.tree)
  BY <1>1 DEF ExtractInv
<1>3. Faithful(a)
  <2>1. req.arch \in Archives
    BY <1>1 DEF Requests
  <2> QED
    BY <2>1 DEF ArchInv
<1> HIDE DEF a
<1>4. a.of \in Requests /\ a.of.op = "backup" /\ KeysInDbs(a.tree)
  BY <1>2, <1>3 DEF Faithful
<1>5. ASSUME NEW b \in Area, a.of.type = "application" => b = a.of.app, AreaExists(a.tree, b)
      PROVE  req.type = "all" => AppsOf(e) # <<>>
  <2> SUFFICES ASSUME req.type = "all" PROVE AppsOf(e) # <<>>
    OBVIOUS
  <2>1. PICK c \in Apps : AreaExists(a.tree, c)
    BY <1>2, <1>3, <1>5, AppArchived
  <2>2. AreaExists(e, c)
    BY <1>2, <2>1, SameAreas DEF Area
  <2> QED
    BY <2>2, AppThere
<1>6. ASSUME NEW f \in Folders, SelectsFile(a.of, f), SelectsFile(req, f), InScope(req, f[1]),
             a.was.file[f] \in Versions
      PROVE  tree.data.file[f] = a.was.file[f]
  <2>1. Absent \notin Versions /\ f[1] \in Area
    BY DataAssumption
  <2>2. a.tree.file[f] = a.was.file[f] /\ a.was.file[f] # Absent
    BY <1>2, <1>3, <1>6, <2>1 DEF Faithful
  <2>3. e.file[f] = a.was.file[f]
    BY <1>2, <2>2 DEF Same
  <2>4. AreaExists(a.tree, f[1])
    BY <2>2 DEF AreaExists
  <2>5. a.of.type = "application" => f[1] = a.of.app
    BY <1>4, <1>6 DEF SelectsFile
  <2>6. f \in UnitOf(req, f)
    BY <1>6 DEF UnitOf
  <2>7. Exists(e, UnitOf(req, f))
    BY <2>2, <2>3, <2>6 DEF Exists
  <2>8. req.type = "all" => AppsOf(e) # <<>>
    BY <1>5, <2>1, <2>4, <2>5
  <2>9. tree.data.file[f] = e.file[f]
    BY <1>6, <2>7, <2>8 DEF RecoveryRestores
  <2> QED
    BY <2>3, <2>9
<1>7. ASSUME NEW k \in Keys, SelectsKey(a.of, k), SelectsKey(req, k), InScope(req, k[1]),
             a.was.key[k] # Absent
      PROVE  tree.data.key[k] = a.was.key[k]
  <2>1. k[1] \in Area
    BY DataAssumption
  <2>2. a.tree.key[k] = a.was.key[k]
    BY <1>2, <1>3, <1>7 DEF Faithful
  <2>3. <<k[1], k[3]>> \in a.tree.db
    BY <1>4, <1>7, <2>2 DEF KeysInDbs
  <2>4. <<k[1], k[3]>> \in e.db /\ e.key[k] = a.was.key[k]
    BY <1>2, <2>2, <2>3 DEF Same
  <2>5. AreaExists(a.tree, k[1])
    BY <2>3 DEF AreaExists
  <2>6. a.of.type = "application" => k[1] = a.of.app
    BY <1>4, <1>7 DEF SelectsKey
  <2>7. req.type = "all" => AppsOf(e) # <<>>
    BY <1>5, <2>1, <2>5, <2>6
  <2>8. tree.data.key[k] = e.key[k]
    BY <1>7, <2>4, <2>7 DEF RecoveryRestores
  <2> QED
    BY <2>4, <2>8
<1> QED
  BY <1>6, <1>7

\* Backup, any changes, crashes and operations between, and a recovery of that
\* archive that hid no error bring back every folder and key both requests
\* select, if the two worked in folders that held nothing else.
THEOREM ThereAndBack == Spec => []RoundTrip
<1> DEFINE KeysInv == KeysInDbs(tree.data) /\ KeysInDbs(tree.coll)
           IInv == TypeInv /\ RequestInv /\ KeysInv /\ BackupInv /\ RecoverInv
                     /\ ArchInv /\ ExtractInv
<1>1. Init => IInv
  <2> SUFFICES ASSUME Init PROVE IInv
    OBVIOUS
  <2>1. BackupInv /\ RecoverInv
    BY DEF Init, BackupInv, RecoverInv
  <2>2. ArchInv
    BY DEF Init, ArchInv, Faithful, NoArchive
  <2>3. tree.coll = NoTree /\ tree.ext = NoTree /\ hist.extracted = {} /\ phase = "idle"
    BY DEF Init
  <2>4. KeysInDbs(tree.coll)
    BY <2>3 DEF KeysInDbs, NoTree
  <2>5. ExtractInv
    BY <2>3 DEF ExtractInv, PartOf, NoTree
  <2> QED
    BY <2>1, <2>2, <2>4, <2>5, InitTypes, InitKeysInDbs
<1>2. IInv /\ [Next]_vars => IInv'
  <2> SUFFICES ASSUME IInv, [Next]_vars PROVE IInv'
    OBVIOUS
  <2>1. TypeInv' /\ RequestInv'
    BY NextTypes
  <2>2. KeysInv'
    BY NextKeepsDbs, NextKeepsCollDbs
  <2>3. BackupInv' /\ RecoverInv'
    BY NextBackup, NextRecovers
  <2>4. ArchInv' /\ ExtractInv'
    BY NextArchives, NextExtracts
  <2> QED
    BY <2>1, <2>2, <2>3, <2>4
<1>3. IInv => RoundTrip
  <2> SUFFICES ASSUME IInv PROVE RoundTrip
    OBVIOUS
  <2>1. CASE Done("recover")
    <3>1. req \in Requests
      BY <2>1 DEF Done, RequestInv
    <3>2. RecoveryRestores
      BY <3>1, RecoverEnds
    <3> QED
      BY <3>2, TripEnds
  <2>2. CASE ~Done("recover")
    BY <2>2 DEF RoundTrip
  <2> QED
    BY <2>1, <2>2
<1> QED
  BY <1>1, <1>2, <1>3, PTL DEF Spec

-----------------------------------------------------------------------------
(* Lists in which nothing is twice.  *)

\* x is in the list once at most.
Lone(A, x) ==
  {p \in Seq(A) : \A i, j \in 1..Len(p) : p[i] = x /\ p[j] = x => i = j}

LEMMA LoneBeside ==
  ASSUME NEW A, NEW x, NEW p \in Seq(A \ {x}), NEW q \in Lone(A, x)
  PROVE  p \o q \in Lone(A, x) /\ q \o p \in Lone(A, x)
<1>1. p \in Seq(A) /\ q \in Seq(A) /\ Len(p) \in Nat /\ Len(q) \in Nat
  BY SeqSubset DEF Lone
<1>2. \A i \in 1..Len(p) : p[i] # x
  OBVIOUS
<1>3. \A i, j \in 1..Len(q) : q[i] = x /\ q[j] = x => i = j
  BY DEF Lone
<1> DEFINE u == p \o q
           v == q \o p
<1>4. /\ u \in Seq(A) /\ Len(u) = Len(p) + Len(q)
      /\ \A i \in 1..Len(p) : u[i] = p[i]
      /\ \A i \in 1..Len(q) : u[Len(p) + i] = q[i]
  BY <1>1
<1>5. /\ v \in Seq(A) /\ Len(v) = Len(q) + Len(p)
      /\ \A i \in 1..Len(q) : v[i] = q[i]
      /\ \A i \in 1..Len(p) : v[Len(q) + i] = p[i]
  BY <1>1
<1> HIDE DEF u, v
<1>6. \A i \in 1..Len(u) : u[i] = x => i - Len(p) \in 1..Len(q) /\ q[i - Len(p)] = x
  <2> SUFFICES ASSUME NEW i \in 1..Len(u), u[i] = x
               PROVE  i - Len(p) \in 1..Len(q) /\ q[i - Len(p)] = x
    OBVIOUS
  <2>1. i \notin 1..Len(p)
    BY <1>2, <1>4
  <2>2. i - Len(p) \in 1..Len(q) /\ Len(p) + (i - Len(p)) = i
    BY <1>1, <1>4, <2>1
  <2> QED
    BY <1>4, <2>2
<1>7. \A i \in 1..Len(v) : v[i] = x => i \in 1..Len(q) /\ q[i] = x
  <2> SUFFICES ASSUME NEW i \in 1..Len(v), v[i] = x
               PROVE  i \in 1..Len(q) /\ q[i] = x
    OBVIOUS
  <2>1. CASE i \in 1..Len(q)
    BY <1>5, <2>1
  <2>2. CASE i \notin 1..Len(q)
    <3>1. i - Len(q) \in 1..Len(p) /\ Len(q) + (i - Len(q)) = i
      BY <1>1, <1>5, <2>2
    <3> QED
      BY <1>2, <1>5, <3>1
  <2> QED
    BY <2>1, <2>2
<1>8. u \in Lone(A, x)
  <2>1. \A i, j \in 1..Len(u) : u[i] = x /\ u[j] = x => i = j
    <3> SUFFICES ASSUME NEW i \in 1..Len(u), NEW j \in 1..Len(u), u[i] = x, u[j] = x
                 PROVE  i = j
      OBVIOUS
    <3>1. i - Len(p) = j - Len(p)
      BY <1>3, <1>6
    <3> QED
      BY <1>1, <1>4, <3>1
  <2> QED
    BY <1>4, <2>1 DEF Lone
<1>9. v \in Lone(A, x)
  BY <1>3, <1>5, <1>7 DEF Lone
<1> QED
  BY <1>8, <1>9 DEF u, v

LEMMA ThoseLone ==
  ASSUME NEW A, NEW x, NEW seq \in Lone(A, x), NEW T
  PROVE  Those(seq, T) \in Lone(A, x)
<1> DEFINE seqs == [i \in 1..Len(seq) |-> IF seq[i] \in T THEN <<seq[i]>> ELSE <<>>]
           N == Seq(A \ {x})
           Q == Lone(A, x)
<1>1. seq \in Seq(A) /\ \A i, j \in 1..Len(seq) : seq[i] = x /\ seq[j] = x => i = j
  BY DEF Lone
<1>2. ASSUME NEW i \in 1..Len(seq)
      PROVE  seqs[i] \in Q /\ (seqs[i] \notin N => seq[i] = x)
  <2>1. seq[i] \in A
    BY <1>1
  <2>2. CASE seq[i] \in T
    <3>1. seqs[i] = <<seq[i]>>
      BY <2>2
    <3>2. <<seq[i]>> \in Q
      BY <2>1 DEF Lone
    <3>3. seq[i] # x => <<seq[i]>> \in N
      BY <2>1
    <3> QED
      BY <3>1, <3>2, <3>3
  <2>3. CASE seq[i] \notin T
    <3>1. seqs[i] = <<>>
      BY <2>3
    <3>2. <<>> \in Q /\ <<>> \in N
      BY DEF Lone
    <3> QED
      BY <3>1, <3>2
  <2> QED
    BY <2>2, <2>3
<1>3. Len(seq) \in Nat /\ Len(seqs) = Len(seq)
  BY <1>1
<1>4. seqs = [i \in 1..Len(seq) |-> seqs[i]]
  OBVIOUS
<1>5. N \in SUBSET Seq(A) /\ Q \in SUBSET Seq(A) /\ <<>> \in N /\ \A p, q \in N : p \o q \in N
  BY SeqSubset DEF Lone
<1>6. N \subseteq Q
  BY DEF Lone
<1>7. \A p \in N : \A q \in Q : p \o q \in Q /\ q \o p \in Q
  BY LoneBeside
<1> HIDE DEF seqs, N, Q
<1>8. seqs \in Seq(Q)
  BY <1>2, <1>3, <1>4, ListType
<1>9. \A i, j \in 1..Len(seqs) : seqs[i] \notin N /\ seqs[j] \notin N => i = j
  BY <1>1, <1>2, <1>3
<1>10. NextTo(N, Q)
  BY <1>5, <1>6, <1>7 DEF NextTo
<1>11. FlattenSeq(seqs) \in Q
  BY <1>5, <1>8, <1>9, <1>10, FlattenAround
<1> QED
  BY <1>11 DEF Those, seqs, Q

LEMMA AppsLone == ASSUME NEW t, NEW a PROVE AppsOf(t) \in Lone(ToSet(MntList), a)
<1>1. MntList \in Seq(ToSet(MntList))
  BY DataAssumption
<1>2. \A i, j \in 1..Len(MntList) : MntList[i] = a /\ MntList[j] = a => i = j
  BY <1>1, DataAssumption DEF IsInjective
<1>3. MntList \in Lone(ToSet(MntList), a)
  BY <1>1, <1>2 DEF Lone
<1>4. AppList \in Lone(ToSet(MntList), a)
  BY <1>3, ThoseLone DEF AppList
<1> QED
  BY <1>4, ThoseLone DEF AppsOf

LEMMA GroupsLone == ASSUME NEW t, NEW a PROVE GroupsOf(t) \in Lone(Groups, a)
<1>1. GroupList \in Seq(Groups)
  BY DataAssumption
<1>2. \A i, j \in 1..Len(GroupList) : GroupList[i] = a /\ GroupList[j] = a => i = j
  BY <1>1, DataAssumption DEF IsInjective
<1>3. GroupList \in Lone(Groups, a)
  BY <1>1, <1>2 DEF Lone
<1> QED
  BY <1>3, ThoseLone DEF GroupsOf

-----------------------------------------------------------------------------
(* The calls a recovery adds up the bytes of, and the folders they copy.  *)

\* The functions whose errors are counted before the first test of the sum, if
\* there are two, and those before the last.
LocalCounts == {"import_links"}
SharedCounts == {"public_files", "group_files"}
RecoveryNames ==
  {"appl_node", "appl_user", "local_keys", "shared_keys", "appl_data", "non_user_shared",
   "public_files", "group_files", "user_shared", "user_local", "import_links", "all_data"}

\* The calls but the tests that copy and delete no folders but those of S, and
\* have their errors counted only if their function is in N.
SummedCalls(S, N) ==
  {c \in Calls :
     /\ c.fn \in RecoveryNames
     /\ c.err \in {"abort", "ignore"} \/ (c.err = "count" /\ c.fn \in N)
     /\ \/ c.do \in {"list", "checkRct", "return", "importLinks"}
        \/ c.do \in {"copyKeys", "clearKeys"} /\ c.from = "ext" /\ c.to = "data"
        \/ c.do \in {"clear", "copy"} /\ c.from = "ext" /\ c.to = "data" /\ c.set \in SUBSET S}

Touching(c, f) == c.do \in {"clear", "copy"} /\ f \in c.set

\* Sequences of calls that leave a folder alone, and those that do after it was copied.
Free(C, f) == Seq({c \in C : ~Touching(c, f)})
Once(C, f) ==
  {p \in Seq(C) : \A i, j \in 1..Len(p) :
     i < j /\ p[i].do = "copy" /\ Touching(p[i], f) => ~Touching(p[j], f)}

\* They touch folders of U only, and none after it was copied.
Sole(C, U) ==
  {p \in Seq(C) : \A f \in Folders : p \in Once(C, f) /\ (f \notin U => p \in Free(C, f))}

LEMMA FreeOnce ==
  ASSUME NEW C, NEW f
  PROVE  /\ Free(C, f) \in SUBSET Seq(C) /\ Once(C, f) \in SUBSET Seq(C)
         /\ Free(C, f) \subseteq Once(C, f) /\ <<>> \in Free(C, f)
         /\ \A p, q \in Free(C, f) : p \o q \in Free(C, f)
<1> DEFINE D == {c \in C : ~Touching(c, f)}
<1>1. D \subseteq C /\ \A d \in D : ~Touching(d, f)
  OBVIOUS
<1> HIDE DEF D
<1>2. Seq(D) \in SUBSET Seq(C)
  BY <1>1, SeqSubset
<1>3. ASSUME NEW p \in Seq(D) PROVE p \in Once(C, f)
  <2>1. \A j \in 1..Len(p) : ~Touching(p[j], f)
    BY <1>1, ElementType
  <2> QED
    BY <1>2, <2>1 DEF Once
<1>4. \A p, q \in Seq(D) : p \o q \in Seq(D)
  OBVIOUS
<1>5. Once(C, f) \in SUBSET Seq(C)
  BY DEF Once
<1> QED
  BY <1>2, <1>3, <1>4, <1>5 DEF Free, D

LEMMA FreeBeside ==
  ASSUME NEW C, NEW f, NEW p \in Free(C, f), NEW q \in Once(C, f)
  PROVE  p \o q \in Once(C, f) /\ q \o p \in Once(C, f)
<1>1. p \in Seq(C) /\ q \in Seq(C) /\ Len(p) \in Nat /\ Len(q) \in Nat
  BY FreeOnce
<1>2. \A i \in 1..Len(p) : ~Touching(p[i], f)
  BY DEF Free
<1> DEFINE Copying(c) == c.do = "copy" /\ Touching(c, f)
<1>3. \A i, j \in 1..Len(q) : i < j /\ Copying(q[i]) => ~Touching(q[j], f)
  BY DEF Once
<1> DEFINE u == p \o q
           v == q \o p
<1>4. /\ u \in Seq(C) /\ Len(u) = Len(p) + Len(q)
      /\ \A i \in 1..Len(p) : u[i] = p[i]
      /\ \A i \in 1..Len(q) : u[Len(p) + i] = q[i]
  BY <1>1
<1>5. /\ v \in Seq(C) /\ Len(v) = Len(q) + Len(p)
      /\ \A i \in 1..Len(q) : v[i] = q[i]
      /\ \A i \in 1..Len(p) : v[Len(q) + i] = p[i]
  BY <1>1
<1>6. \A c : Copying(c) => Touching(c, f)
  OBVIOUS
<1> HIDE DEF u, v, Copying
<1>7. \A i \in 1..Len(u) : Touching(u[i], f) => i - Len(p) \in 1..Len(q) /\ u[i] = q[i - Len(p)]
  <2> SUFFICES ASSUME NEW i \in 1..Len(u), Touching(u[i], f)
               PROVE  i - Len(p) \in 1..Len(q) /\ u[i] = q[i - Len(p)]
    OBVIOUS
  <2>1. i \notin 1..Len(p)
    BY <1>2, <1>4
  <2>2. i - Len(p) \in 1..Len(q) /\ Len(p) + (i - Len(p)) = i
    BY <1>1, <1>4, <2>1
  <2> QED
    BY <1>4, <2>2
<1>8. \A i \in 1..Len(v) : Touching(v[i], f) => i \in 1..Len(q) /\ v[i] = q[i]
  <2> SUFFICES ASSUME NEW i \in 1..Len(v), Touching(v[i], f)
               PROVE  i \in 1..Len(q) /\ v[i] = q[i]
    OBVIOUS
  <2>1. CASE i \in 1..Len(q)
    BY <1>5, <2>1
  <2>2. CASE i \notin 1..Len(q)
    <3>1. i - Len(q) \in 1..Len(p) /\ Len(q) + (i - Len(q)) = i
      BY <1>1, <1>5, <2>2
    <3> QED
      BY <1>2, <1>5, <3>1
  <2> QED
    BY <2>1, <2>2
<1>9. \A i, j \in 1..Len(u) : i < j /\ Copying(u[i]) => ~Touching(u[j], f)
  <2> SUFFICES ASSUME NEW i \in 1..Len(u), NEW j \in 1..Len(u), i < j, Copying(u[i]),
                      Touching(u[j], f)
               PROVE  FALSE
    OBVIOUS
  <2>1. i - Len(p) \in 1..Len(q) /\ u[i] = q[i - Len(p)]
    BY <1>6, <1>7
  <2>2. j - Len(p) \in 1..Len(q) /\ u[j] = q[j - Len(p)]
    BY <1>7
  <2>3. i - Len(p) < j - Len(p)
    BY <1>1, <1>4
  <2> QED
    BY <1>3, <2>1, <2>2, <2>3
<1>10. \A i, j \in 1..Len(v) : i < j /\ Copying(v[i]) => ~Touching(v[j], f)
  <2> SUFFICES ASSUME NEW i \in 1..Len(v), NEW j \in 1..Len(v), i < j, Copying(v[i]),
                      Touching(v[j], f)
               PROVE  FALSE
    OBVIOUS
  <2>1. i \in 1..Len(q) /\ v[i] = q[i] /\ j \in 1..Len(q) /\ v[j] = q[j]
    BY <1>6, <1>8
  <2> QED
    BY <1>3, <2>1
<1> QED
  BY <1>4, <1>5, <1>9, <1>10 DEF Once, u, v, Copying

LEMMA SoleCalls == ASSUME NEW C, NEW U, NEW p \in Sole(C, U) PROVE p \in Seq(C)
BY DEF Sole

LEMMA SoleLess ==
  ASSUME NEW C, NEW U, NEW V, U \subseteq V, NEW p \in Sole(C, U)
  PROVE  p \in Sole(C, V)
BY DEF Sole

LEMMA SoleNone == ASSUME NEW C, NEW U PROVE <<>> \in Sole(C, U)
<1>1. <<>> \in Seq(C)
  OBVIOUS
<1>2. \A f \in Folders : <<>> \in Once(C, f) /\ <<>> \in Free(C, f)
  BY FreeOnce
<1> QED
  BY <1>1, <1>2 DEF Sole

\* Parts that touch different folders.
LEMMA SoleBoth ==
  ASSUME NEW C, NEW U, NEW V, U \cap V = {}, NEW p \in Sole(C, U), NEW q \in Sole(C, V)
  PROVE  p \o q \in Sole(C, U \cup V)
<1>1. p \in Seq(C) /\ q \in Seq(C) /\ p \o q \in Seq(C)
  BY SoleCalls
<1>2. ASSUME NEW f \in Folders
      PROVE  p \o q \in Once(C, f) /\ (f \notin U \cup V => p \o q \in Free(C, f))
  <2>1. /\ p \in Once(C, f) /\ (f \notin U => p \in Free(C, f))
        /\ q \in Once(C, f) /\ (f \notin V => q \in Free(C, f))
    BY DEF Sole
  <2>2. f \notin U \/ f \notin V
    OBVIOUS
  <2>3. p \o q \in Once(C, f)
    BY <2>1, <2>2, FreeBeside
  <2>4. f \notin U \cup V => p \o q \in Free(C, f)
    BY <2>1, FreeOnce
  <2> QED
    BY <2>3, <2>4
<1> QED
  BY <1>1, <1>2 DEF Sole

\* The folders of an area, and of some areas.
OfArea(V, a) == {f \in V : f[1] = a}
OfAreas(V, A) == {f \in V : f[1] \in A}

\* A part for each area of a list that has none twice.
LEMMA SoleWalk ==
  ASSUME NEW C, NEW V, NEW A, NEW list \in Seq(A), NEW B, \A a : list \in Lone(B, a),
         NEW seqs, seqs = [i \in 1..Len(list) |-> seqs[i]],
         \A i \in 1..Len(list) : seqs[i] \in Sole(C, OfArea(V, list[i]))
  PROVE  FlattenSeq(seqs) \in Sole(C, OfAreas(V, A))
<1>1. Len(list) \in Nat /\ Len(seqs) = Len(list)
  OBVIOUS
<1>2. \A i \in 1..Len(list) : list[i] \in A
  OBVIOUS
<1>3. \A i \in 1..Len(list) : seqs[i] \in Seq(C)
  BY SoleCalls
<1>4. seqs \in Seq(Seq(C))
  BY <1>1, <1>3, ListType
<1>5. FlattenSeq(seqs) \in Seq(C)
  BY <1>4, FlattenType
<1>6. ASSUME NEW f \in Folders PROVE FlattenSeq(seqs) \in Once(C, f)
  <2> DEFINE N == Free(C, f)
             Q == Once(C, f)
  <2>1. \A i \in 1..Len(list) : seqs[i] \in Q /\ (seqs[i] \notin N => list[i] = f[1])
    BY DEF Sole, OfArea
  <2>2. list \in Lone(B, f[1])
    OBVIOUS
  <2>3. \A i, j \in 1..Len(list) : list[i] = f[1] /\ list[j] = f[1] => i = j
    BY <2>2 DEF Lone
  <2>4. /\ N \in SUBSET Seq(C) /\ Q \in SUBSET Seq(C) /\ N \subseteq Q /\ <<>> \in N
        /\ \A p, q \in N : p \o q \in N
    BY FreeOnce
  <2>5. \A p \in N : \A q \in Q : p \o q \in Q /\ q \o p \in Q
    BY FreeBeside
  <2> HIDE DEF N, Q
  <2>6. seqs \in Seq(Q)
    BY <1>1, <2>1, ListType
  <2>7. \A i, j \in 1..Len(seqs) : seqs[i] \notin N /\ seqs[j] \notin N => i = j
    BY <1>1, <2>1, <2>3
  <2>8. NextTo(N, Q)
    BY <2>4, <2>5 DEF NextTo
  <2>9. FlattenSeq(seqs) \in Q
    BY <2>4, <2>6, <2>7, <2>8, FlattenAround
  <2> QED
    BY <2>9 DEF Q
<1>7. ASSUME NEW f \in Folders, f \notin OfAreas(V, A)
      PROVE  FlattenSeq(seqs) \in Free(C, f)
  <2> DEFINE N == Free(C, f)
  <2>1. \A i \in 1..Len(list) : seqs[i] \in N
    <3> TAKE i \in 1..Len(list)
    <3>1. f \notin OfArea(V, list[i])
      BY <1>2, <1>7 DEF OfArea, OfAreas
    <3> QED
      BY <3>1 DEF Sole
  <2>2. <<>> \in N /\ \A p, q \in N : p \o q \in N
    BY FreeOnce
  <2> HIDE DEF N
  <2>3. seqs \in Seq(N)
    BY <1>1, <2>1, ListType
  <2>4. FlattenSeq(seqs) \in N
    BY <2>2, <2>3, FlattenClosed
  <2> QED
    BY <2>4 DEF N
<1> QED
  BY <1>5, <1>6, <1>7 DEF Sole

\* A call that touches no folder.
LEMMA SoleOne ==
  ASSUME NEW C, NEW c \in C, c.do \notin {"clear", "copy"}, NEW U
  PROVE  <<c>> \in Sole(C, U)
<1>1. <<c>> \in Seq(C)
  OBVIOUS
<1>2. ASSUME NEW f \in Folders PROVE <<c>> \in Free(C, f)
  <2>1. ~Touching(c, f)
    BY DEF Touching
  <2> QED
    BY <2>1 DEF Free
<1> QED
  BY <1>1, <1>2, FreeOnce DEF Sole

\* A folder that is deleted and copied.
LEMMA SolePair ==
  ASSUME NEW C, NEW c \in C, NEW d \in C, c.do = "clear", NEW U, c.set \subseteq U,
         d.set \subseteq U
  PROVE  <<c, d>> \in Sole(C, U)
<1> DEFINE p == <<c, d>>
<1>1. p \in Seq(C) /\ Len(p) = 2 /\ p[1] = c /\ p[2] = d
  OBVIOUS
<1> HIDE DEF p
<1>2. ASSUME NEW f PROVE p \in Once(C, f)
  <2>1. \A i, j \in 1..Len(p) : i < j => i = 1
    BY <1>1
  <2> QED
    BY <1>1, <2>1 DEF Once
<1>3. ASSUME NEW f, f \notin U PROVE p \in Free(C, f)
  <2>1. ~Touching(c, f) /\ ~Touching(d, f)
    BY <1>3 DEF Touching
  <2>2. <<c, d>> \in Seq({x \in C : ~Touching(x, f)})
    BY <2>1
  <2> QED
    BY <2>2 DEF Free, p
<1> QED
  BY <1>1, <1>2, <1>3 DEF Sole, p

-----------------------------------------------------------------------------
(* The calls of each function.  *)

LEMMA NamesLabel ==
  /\ RecoveryNames \subseteq Labels
  /\ LocalCounts \subseteq RecoveryNames /\ SharedCounts \subseteq RecoveryNames
BY DEF RecoveryNames, Labels, LocalCounts, SharedCounts

\* Calls without folders.
LEMMA PlainSummed ==
  ASSUME NEW S, NEW N, NEW fn \in RecoveryNames, NEW a \in Area,
         NEW err \in {"abort", "ignore", "count"}, err = "count" => fn \in N, NEW U
  PROVE  LET C == SummedCalls(S, N) IN
         /\ <<ListFolders(err, fn)>> \in Sole(C, U)
         /\ <<CheckRct(a, err, fn)>> \in Sole(C, U)
         /\ <<Return(fn)>> \in Sole(C, U)
         /\ <<ImportLinks(a, err, fn)>> \in Sole(C, U)
<1> DEFINE C == SummedCalls(S, N)
<1>0. fn \in Labels
  BY NamesLabel
<1>1. ListFolders(err, fn) \in C /\ ListFolders(err, fn).do = "list"
  BY <1>0 DEF ListFolders, Call, Calls, SummedCalls
<1>2. CheckRct(a, err, fn) \in C /\ CheckRct(a, err, fn).do = "checkRct"
  BY <1>0 DEF CheckRct, Call, Calls, SummedCalls
<1>3. Return(fn) \in C /\ Return(fn).do = "return"
  BY <1>0 DEF Return, Call, Calls, SummedCalls
<1>4. ImportLinks(a, err, fn) \in C /\ ImportLinks(a, err, fn).do = "importLinks"
  BY <1>0 DEF ImportLinks, Call, Calls, SummedCalls
<1> HIDE DEF C
<1> QED
  BY <1>1, <1>2, <1>3, <1>4, SoleOne DEF C

\* A folder is replaced.
LEMMA ReplaceSole ==
  ASSUME NEW S \in SUBSET Folders, NEW N, NEW fn \in RecoveryNames,
         NEW err \in {"abort", "count"}, err = "count" => fn \in N, NEW U \in SUBSET S
  PROVE  ReplaceFolder(U, err, fn) \in Sole(SummedCalls(S, N), U)
<1> DEFINE C == SummedCalls(S, N)
           c == Clear("ext", "data", U, "ignore", fn)
           d == Copy("ext", "data", U, err, fn)
<1>1. fn \in Labels /\ U \in SUBSET Folders
  BY NamesLabel
<1>2. c \in Calls /\ d \in Calls
  BY <1>1, CopyCall, ClearCall
<1>3. /\ c.do = "clear" /\ c.from = "ext" /\ c.to = "data" /\ c.set = U /\ c.err = "ignore"
      /\ c.fn = fn
      /\ d.do = "copy" /\ d.from = "ext" /\ d.to = "data" /\ d.set = U /\ d.err = err
      /\ d.fn = fn
  BY DEF Clear, Copy, Call
<1>4. ReplaceFolder(U, err, fn) = <<c, d>>
  BY DEF ReplaceFolder
<1> HIDE DEF c, d
<1>5. c \in C /\ d \in C
  BY <1>2, <1>3 DEF SummedCalls
<1> HIDE DEF C
<1>6. <<c, d>> \in Sole(C, U)
  BY <1>3, <1>5, SolePair
<1> QED
  BY <1>4, <1>6 DEF C

\* The keys of a database.
LEMMA KeysSole ==
  ASSUME NEW S, NEW N, NEW d \in Databases, NEW T \in SUBSET Keys, NEW fn \in RecoveryNames,
         NEW U
  PROVE  LET C == SummedCalls(S, N) IN
         /\ <<ClearDb("ext", "data", d, T, "ignore", fn),
              CopyDb("ext", "data", d, T, "abort", fn)>> \in Sole(C, U)
         /\ <<CopyDb("ext", "data", d, T, "abort", fn)>> \in Sole(C, U)
<1> DEFINE C == SummedCalls(S, N)
           x == ClearDb("ext", "data", d, T, "ignore", fn)
           y == CopyDb("ext", "data", d, T, "abort", fn)
<1>1. fn \in Labels
  BY NamesLabel
<1>2. x \in Calls /\ y \in Calls
  BY <1>1, CopyDbCall, ClearDbCall
<1>3. /\ x.do = "clearKeys" /\ x.from = "ext" /\ x.to = "data" /\ x.err = "ignore" /\ x.fn = fn
      /\ y.do = "copyKeys" /\ y.from = "ext" /\ y.to = "data" /\ y.err = "abort" /\ y.fn = fn
  BY DEF ClearDb, CopyDb, Call
<1> HIDE DEF x, y
<1>4. x \in C /\ y \in C
  BY <1>2, <1>3 DEF SummedCalls
<1> HIDE DEF C
<1>5. <<x>> \in Sole(C, {}) /\ <<y>> \in Sole(C, {}) /\ <<y>> \in Sole(C, U)
  BY <1>3, <1>4, SoleOne
<1>6. <<x>> \o <<y>> \in Sole(C, {} \cup {})
  BY <1>5, SoleBoth
<1>7. <<x, y>> \in Sole(C, U)
  BY <1>6, PairOf, SoleLess
<1> QED
  BY <1>5, <1>7 DEF C, x, y

\* Parts that touch no folders.
LEMMA SoleEach ==
  ASSUME NEW C, NEW n \in Nat, NEW seqs, seqs = [i \in 1..n |-> seqs[i]],
         \A i \in 1..n : seqs[i] \in Sole(C, {})
  PROVE  FlattenSeq(seqs) \in Sole(C, {})
<1> DEFINE G == Sole(C, {})
<1>1. \A p, q \in G : p \o q \in G
  <2>1. \A p, q \in G : p \o q \in Sole(C, {} \cup {})
    BY SoleBoth
  <2> QED
    BY <2>1
<1>2. <<>> \in G
  BY SoleNone
<1> HIDE DEF G
<1>3. seqs \in Seq(G)
  BY ListType DEF G
<1>4. FlattenSeq(seqs) \in G
  BY <1>1, <1>2, <1>3, FlattenClosed
<1> QED
  BY <1>4 DEF G

LEMMA LocalKeysSole ==
  ASSUME NEW S, NEW N, NEW a \in Area, NEW type, NEW u, NEW s
  PROVE  RestoreLocalKeys(a, type, u, s) \in Sole(SummedCalls(S, N), {})
<1> DEFINE C == SummedCalls(S, N)
           D == {a} \X ToSet(Policies)
           dbs == LocalDbs(a)
           Plan(d) == <<ClearDb("ext", "data", d, FilterKeys(d, type, u, s), "ignore", "local_keys"),
                        CopyDb("ext", "data", d, FilterKeys(d, type, u, s), "abort", "local_keys")>>
           seqs == [i \in 1..Len(dbs) |-> Plan(dbs[i])]
<1>0. "local_keys" \in RecoveryNames
  BY DEF RecoveryNames
<1>1. dbs \in Seq(D) /\ Len(dbs) \in Nat
  BY LocalDbsType
<1>2. ASSUME NEW d \in D PROVE Plan(d) \in Sole(C, {})
  <2>1. d \in Databases
    BY DEF Databases
  <2>2. FilterKeys(d, type, u, s) \in SUBSET Keys
    BY DEF FilterKeys
  <2> QED
    BY <1>0, <2>1, <2>2, KeysSole
<1> HIDE DEF C, Plan, dbs, D
<1>3. \A i \in 1..Len(dbs) : seqs[i] \in Sole(C, {})
  BY <1>1, <1>2, ElementType
<1>4. seqs = [i \in 1..Len(dbs) |-> seqs[i]]
  OBVIOUS
<1> HIDE DEF seqs
<1>5. FlattenSeq(seqs) \in Sole(C, {})
  BY <1>1, <1>3, <1>4, SoleEach
<1> QED
  BY <1>5 DEF RestoreLocalKeys, ForAll, C, seqs, Plan, dbs

LEMMA SharedKeysSole ==
  ASSUME NEW S, NEW N, NEW t, NEW type, NEW u, NEW s
  PROVE  RestoreSharedKeys(t, type, u, s) \in Sole(SummedCalls(S, N), {})
<1> DEFINE C == SummedCalls(S, N)
           D == Shared \X ToSet(Policies)
           dbs == SharedDbs(t)
           Plan(d) == <<CopyDb("ext", "data", d, FilterKeys(d, type, u, s), "abort", "shared_keys")>>
           seqs == [i \in 1..Len(dbs) |-> Plan(dbs[i])]
<1>0. "shared_keys" \in RecoveryNames
  BY DEF RecoveryNames
<1>1. dbs \in Seq(D) /\ Len(dbs) \in Nat
  BY SharedDbsType
<1>2. ASSUME NEW d \in D PROVE Plan(d) \in Sole(C, {})
  <2>1. d \in Databases
    BY DEF Databases, Area
  <2>2. FilterKeys(d, type, u, s) \in SUBSET Keys
    BY DEF FilterKeys
  <2> QED
    BY <1>0, <2>1, <2>2, KeysSole
<1> HIDE DEF C, Plan, dbs, D
<1>3. \A i \in 1..Len(dbs) : seqs[i] \in Sole(C, {})
  BY <1>1, <1>2, ElementType
<1>4. seqs = [i \in 1..Len(dbs) |-> seqs[i]]
  OBVIOUS
<1> HIDE DEF seqs
<1>5. FlattenSeq(seqs) \in Sole(C, {})
  BY <1>1, <1>3, <1>4, SoleEach
<1> QED
  BY <1>5 DEF RestoreSharedKeys, ForAll, C, seqs, Plan, dbs

-----------------------------------------------------------------------------
(* The plans, up to each test of the sum.  *)

UsersOf(A) == {f \in Folders : f[1] \in A /\ f[2] # Node}
LocalCalls == SummedCalls(UsersOf(Apps), LocalCounts)
SharedCalls == SummedCalls(UsersOf(Shared), SharedCounts)
UncountedCalls == SummedCalls(Folders, {})

\* What a recovery does before a test of the sum, each folder once.
LocalStretch == Sole(LocalCalls, UsersOf(Apps))
SharedStretch == Sole(SharedCalls, UsersOf(Shared))

LEMMA UsersAre ==
  /\ UsersOf(Apps) \in SUBSET Folders /\ UsersOf(Shared) \in SUBSET Folders
  /\ UsersOf(Apps) \cap UsersOf(Shared) = {}
  /\ Apps \subseteq Area /\ Shared \subseteq Area
BY DataAssumption DEF UsersOf, Area

LEMMA UserFilesSole ==
  ASSUME NEW a \in Shared, NEW u, NEW s, NEW fn \in SharedCounts
  PROVE  RestoreUserFiles(a, u, s, fn) \in Sole(SharedCalls, OfArea(UsersOf(Shared), a))
<1> DEFINE U == UserFolder(a, u, s)
           W == OfArea(UsersOf(Shared), a)
           p == <<CheckRct(a, "count", fn)>>
           q == ReplaceFolder(U, "count", fn)
<1>1. U \in SUBSET W /\ U \in SUBSET UsersOf(Shared) /\ UsersOf(Shared) \in SUBSET Folders
  BY DEF UserFolder, UsersOf, OfArea
<1>2. fn \in RecoveryNames /\ a \in Area
  BY NamesLabel, UsersAre
<1> HIDE DEF U, W
<1>3. p \in Sole(SharedCalls, {})
  BY <1>2, PlainSummed DEF SharedCalls
<1>4. q \in Sole(SharedCalls, U)
  BY <1>1, <1>2, ReplaceSole DEF SharedCalls
<1>5. RestoreUserFiles(a, u, s, fn) = p \o q
  BY DEF RestoreUserFiles, U
<1> HIDE DEF p, q
<1>6. p \o q \in Sole(SharedCalls, {} \cup U)
  BY <1>3, <1>4, SoleBoth
<1>7. {} \cup U \subseteq W
  BY <1>1
<1>8. p \o q \in Sole(SharedCalls, W)
  BY <1>6, <1>7, SoleLess
<1> QED
  BY <1>5, <1>8 DEF W

LEMMA SharedPlan ==
  ASSUME NEW t, NEW type, NEW u, NEW s
  PROVE  \E q \in SharedStretch : RestoreUserShared(t, type, u, s) = q \o <<TestSum>>
<1> DEFINE C == SharedCalls
           V == UsersOf(Shared)
           public == IF AreaExists(t, Public)
                       THEN RestoreUserFiles(Public, u, s, "public_files") ELSE <<>>
           ret == <<Return("user_shared")>>
           list == <<ListFolders("count", "group_files")>>
           groups == GroupsOf(t)
           Group(g) == RestoreUserFiles(g, u, s, "group_files")
           seqs == [i \in 1..Len(groups) |-> Group(groups[i])]
           keys == RestoreSharedKeys(t, type, u, s)
           test == <<TestSum>>
           X == OfArea(V, Public)
           Y == OfAreas(V, Groups)
<1>1. /\ {"user_shared", "group_files", "public_files"} \subseteq RecoveryNames
      /\ {"group_files", "public_files"} \subseteq SharedCounts
      /\ Public \in Shared /\ Public \in Area /\ Groups \subseteq Shared
  BY DEF RecoveryNames, SharedCounts, Shared, Area
<1>2. ret \in Sole(C, {}) /\ list \in Sole(C, {})
  BY <1>1, PlainSummed DEF SharedCalls
<1>3. public \in Sole(C, X)
  <2>1. RestoreUserFiles(Public, u, s, "public_files") \in Sole(C, X)
    BY <1>1, UserFilesSole
  <2>2. <<>> \in Sole(C, X)
    BY SoleNone
  <2> QED
    BY <2>1, <2>2
<1>4. groups \in Seq(Groups)
  BY GroupsOfType
<1>5. \A a : groups \in Lone(Groups, a)
  BY GroupsLone
<1>6. \A g \in Groups : Group(g) \in Sole(C, OfArea(V, g))
  BY <1>1, UserFilesSole
<1>7. keys \in Sole(C, {})
  BY SharedKeysSole DEF SharedCalls
<1>8. RestoreUserShared(t, type, u, s)
        = (((((public \o ret) \o list) \o FlattenSeq(seqs)) \o ret) \o keys) \o test
  BY DEF RestoreUserShared, ForAll
<1>9. X \cap Y = {} /\ X \cup Y = V
  BY DataAssumption DEF UsersOf, Shared, OfArea, OfAreas
<1> HIDE DEF C, groups, Group, V
<1>10. \A i \in 1..Len(groups) : seqs[i] \in Sole(C, OfArea(V, groups[i]))
  BY <1>4, <1>6, ElementType
<1>11. seqs = [i \in 1..Len(groups) |-> seqs[i]]
  OBVIOUS
<1> HIDE DEF public, ret, list, seqs, keys, test
<1>12. FlattenSeq(seqs) \in Sole(C, Y)
  BY <1>4, <1>5, <1>10, <1>11, SoleWalk
<1> HIDE DEF X, Y
<1>13. public \o ret \in Sole(C, X)
  <2>1. public \o ret \in Sole(C, X \cup {})
    BY <1>2, <1>3, SoleBoth
  <2> QED
    BY <2>1
<1>14. (public \o ret) \o list \in Sole(C, X)
  <2>1. (public \o ret) \o list \in Sole(C, X \cup {})
    BY <1>2, <1>13, SoleBoth
  <2> QED
    BY <2>1
<1>15. ((public \o ret) \o list) \o FlattenSeq(seqs) \in Sole(C, V)
  BY <1>9, <1>12, <1>14, SoleBoth
<1>16. (((public \o ret) \o list) \o FlattenSeq(seqs)) \o ret \in Sole(C, V)
  <2>1. (((public \o ret) \o list) \o FlattenSeq(seqs)) \o ret \in Sole(C, V \cup {})
    BY <1>2, <1>15, SoleBoth
  <2> QED
    BY <2>1
<1>17. ((((public \o ret) \o list) \o FlattenSeq(seqs)) \o ret) \o keys \in Sole(C, V)
  <2>1. ((((public \o ret) \o list) \o FlattenSeq(seqs)) \o ret) \o keys \in Sole(C, V \cup {})
    BY <1>7, <1>16, SoleBoth
  <2> QED
    BY <2>1
<1> QED
  BY <1>8, <1>17 DEF SharedStretch, C, V, test

\* The user's data of an application.
LEMMA UserAppSole ==
  ASSUME NEW a \in Apps, NEW u, NEW s
  PROVE  (((<<CheckRct(a, "abort", "user_local")>> \o RestoreUser(a, u, s))
            \o RestoreLocalKeys(a, "user", u, s))
            \o <<Return("user_local"), ImportLinks(a, "count", "import_links")>>)
           \in Sole(LocalCalls, OfArea(UsersOf(Apps), a))
<1> DEFINE C == LocalCalls
           U == UserFolder(a, u, s)
           W == OfArea(UsersOf(Apps), a)
           check == <<CheckRct(a, "abort", "user_local")>>
           files == RestoreUser(a, u, s)
           keys == RestoreLocalKeys(a, "user", u, s)
           ret == <<Return("user_local")>>
           links == <<ImportLinks(a, "count", "import_links")>>
<1>1. /\ {"user_local", "import_links", "appl_user"} \subseteq RecoveryNames
      /\ "import_links" \in LocalCounts /\ a \in Area
  BY UsersAre DEF RecoveryNames, LocalCounts
<1>2. check \in Sole(C, {}) /\ ret \in Sole(C, {}) /\ links \in Sole(C, {})
  BY <1>1, PlainSummed DEF LocalCalls
<1>3. U \in SUBSET W /\ U \in SUBSET UsersOf(Apps) /\ UsersOf(Apps) \in SUBSET Folders
  BY DEF UserFolder, UsersOf, OfArea
<1>4. files \in Sole(C, U)
  <2>1. files = ReplaceFolder(U, "abort", "appl_user")
    BY DEF RestoreUser
  <2> HIDE DEF U
  <2> QED
    BY <1>1, <1>3, <2>1, ReplaceSole DEF LocalCalls
<1>5. keys \in Sole(C, {})
  BY <1>1, LocalKeysSole DEF LocalCalls
<1>6. <<Return("user_local"), ImportLinks(a, "count", "import_links")>> = ret \o links
  BY PairOf
<1> HIDE DEF C, U, W, check, files, keys, ret, links
<1>7. check \o files \in Sole(C, {} \cup U)
  BY <1>2, <1>4, SoleBoth
<1>8. (check \o files) \o keys \in Sole(C, ({} \cup U) \cup {})
  BY <1>5, <1>7, SoleBoth
<1>9. ret \o links \in Sole(C, {} \cup {})
  BY <1>2, SoleBoth
<1>10. ((check \o files) \o keys) \o (ret \o links) \in Sole(C, (({} \cup U) \cup {}) \cup ({} \cup {}))
  BY <1>8, <1>9, SoleBoth
<1>11. (({} \cup U) \cup {}) \cup ({} \cup {}) \subseteq W
  BY <1>3
<1>12. ((check \o files) \o keys) \o (ret \o links) \in Sole(C, W)
  BY <1>10, <1>11, SoleLess
<1> QED
  BY <1>6, <1>12 DEF C, W, check, files, keys

LEMMA LocalPlan ==
  ASSUME NEW t, NEW u, NEW s
  PROVE  \E q \in LocalStretch : RestoreUserLocal(t, u, s) = q \o <<TestSum>>
<1> DEFINE C == LocalCalls
           V == UsersOf(Apps)
           apps == AppsOf(t)
           Plan(a) == <<CheckRct(a, "abort", "user_local")>> \o RestoreUser(a, u, s)
                        \o RestoreLocalKeys(a, "user", u, s)
                        \o <<Return("user_local"), ImportLinks(a, "count", "import_links")>>
           seqs == [i \in 1..Len(apps) |-> Plan(apps[i])]
           list == <<ListFolders("abort", "user_local")>>
           test == <<TestSum>>
<1>1. "user_local" \in RecoveryNames /\ Public \in Area
  BY UsersAre DEF RecoveryNames, Shared
<1>2. list \in Sole(C, {})
  BY <1>1, PlainSummed DEF LocalCalls
<1>3. apps \in Seq(Apps) /\ \A a : apps \in Lone(ToSet(MntList), a)
  BY AppsOfType, AppsLone
<1>4. \A a \in Apps : Plan(a) \in Sole(C, OfArea(V, a))
  BY UserAppSole
<1>5. RestoreUserLocal(t, u, s) = (list \o FlattenSeq(seqs)) \o test
  BY DEF RestoreUserLocal, ForAll
<1>6. OfAreas(V, Apps) = V
  BY DEF UsersOf, OfAreas
<1> HIDE DEF C, V, apps, Plan
<1>7. \A i \in 1..Len(apps) : seqs[i] \in Sole(C, OfArea(V, apps[i]))
  BY <1>3, <1>4, ElementType
<1>8. seqs = [i \in 1..Len(apps) |-> seqs[i]]
  OBVIOUS
<1> HIDE DEF seqs, list, test
<1>9. FlattenSeq(seqs) \in Sole(C, V)
  <2>1. FlattenSeq(seqs) \in Sole(C, OfAreas(V, Apps))
    BY <1>3, <1>7, <1>8, SoleWalk
  <2> QED
    BY <1>6, <2>1
<1>10. list \o FlattenSeq(seqs) \in Sole(C, V)
  <2>1. list \o FlattenSeq(seqs) \in Sole(C, {} \cup V)
    BY <1>2, <1>9, SoleBoth
  <2> QED
    BY <2>1
<1> QED
  BY <1>5, <1>10 DEF LocalStretch, C, V, test

\* An application, whose errors are not counted.
LEMMA ApplicationUncounted ==
  ASSUME NEW a \in Area
  PROVE  RestoreApplication(a) \in Seq(UncountedCalls) /\ RestoreNode(a) \in Seq(UncountedCalls)
<1> DEFINE C == UncountedCalls
           check == <<CheckRct(a, "abort", "appl_data")>>
           node == RestoreNode(a)
           user == RestoreUser(a, AllUsers, AllSeats)
           keys == RestoreLocalKeys(a, "application", AllUsers, AllSeats)
<1>1. {"appl_data", "appl_node", "appl_user"} \subseteq RecoveryNames
  BY DEF RecoveryNames
<1>2. check \in Sole(C, {})
  BY <1>1, PlainSummed DEF UncountedCalls
<1>3. NodeFolder(a) \in SUBSET Folders /\ UserFolder(a, AllUsers, AllSeats) \in SUBSET Folders
  BY DEF NodeFolder, UserFolder
<1>4. node \in Sole(C, NodeFolder(a))
  BY <1>1, <1>3, ReplaceSole DEF RestoreNode, UncountedCalls
<1>5. user \in Sole(C, UserFolder(a, AllUsers, AllSeats))
  BY <1>1, <1>3, ReplaceSole DEF RestoreUser, UncountedCalls
<1>6. keys \in Sole(C, {})
  BY LocalKeysSole DEF UncountedCalls
<1>7. RestoreApplication(a) = ((check \o node) \o user) \o keys
  BY DEF RestoreApplication
<1> HIDE DEF C, check, node, user, keys
<1>8. check \in Seq(C) /\ node \in Seq(C) /\ user \in Seq(C) /\ keys \in Seq(C)
  BY <1>2, <1>4, <1>5, <1>6, SoleCalls
<1> QED
  BY <1>7, <1>8, ConcatType DEF C, node

LEMMA NonUserUncounted ==
  ASSUME NEW t
  PROVE  RestoreNonUserShared(t) \in Seq(UncountedCalls)
<1> DEFINE C == UncountedCalls
           node == RestoreNode(Public)
           list == <<ListFolders("abort", "non_user_shared")>>
           groups == GroupsOf(t)
           seqs == [i \in 1..Len(groups) |-> RestoreNode(groups[i])]
<1>1. "non_user_shared" \in RecoveryNames /\ Public \in Area /\ Groups \subseteq Area
  BY DEF RecoveryNames, Area, Shared
<1>2. list \in Sole(C, {})
  BY <1>1, PlainSummed DEF UncountedCalls
<1>3. groups \in Seq(Groups) /\ Len(groups) \in Nat
  BY GroupsOfType
<1>4. node \in Seq(C) /\ \A g \in Groups : RestoreNode(g) \in Seq(C)
  BY <1>1, ApplicationUncounted
<1>5. RestoreNonUserShared(t) = (node \o list) \o FlattenSeq(seqs)
  BY DEF RestoreNonUserShared, ForAll
<1> HIDE DEF C, groups
<1>6. \A i \in 1..Len(groups) : seqs[i] \in Seq(C)
  BY <1>3, <1>4, ElementType
<1>7. seqs \in Seq(Seq(C))
  BY <1>3, <1>6
<1> HIDE DEF node, list, seqs
<1>8. list \in Seq(C) /\ FlattenSeq(seqs) \in Seq(C)
  BY <1>2, <1>7, SoleCalls, FlattenType
<1> QED
  BY <1>4, <1>5, <1>8, ConcatType DEF C

\* A plan with two tests of the sum, of which the last ends it.
TwoParts(G, p) ==
  \E q1 \in G, q2 \in SharedStretch : p = (q1 \o <<TestSum>>) \o (q2 \o <<TestSum>>)

LEMMA AllPlanParts ==
  ASSUME NEW t, AppsOf(t) # <<>>
  PROVE  TwoParts(Seq(UncountedCalls), RestoreAllData(t))
<1> DEFINE C == UncountedCalls
           apps == Installed(t)
           Plan(a) == RestoreApplication(a) \o <<ImportLinks(a, "ignore", "all_data")>>
           seqs == [i \in 1..Len(apps) |-> Plan(apps[i])]
           list == <<ListFolders("abort", "all_data")>>
           shared == RestoreNonUserShared(t)
           last == RestoreUserShared(t, "all", AllUsers, AllSeats)
           test == <<TestSum>>
<1>1. "all_data" \in RecoveryNames /\ Public \in Area
  BY DEF RecoveryNames, Area, Shared
<1>2. list \in Sole(C, {})
  BY <1>1, PlainSummed DEF UncountedCalls
<1>3. apps \in Seq(Apps) /\ Len(apps) \in Nat
  <2>1. apps \in Seq({a \in Apps : AreaExists(tree.data, a)})
    BY InstalledAre
  <2>2. {a \in Apps : AreaExists(tree.data, a)} \subseteq Apps
    OBVIOUS
  <2> HIDE DEF apps
  <2>3. apps \in Seq(Apps)
    BY <2>1, <2>2, SeqSubset
  <2> QED
    BY <2>3
<1>4. ASSUME NEW a \in Apps PROVE Plan(a) \in Seq(C)
  <2>1. a \in Area
    BY DEF Area
  <2>2. RestoreApplication(a) \in Seq(C)
    BY <2>1, ApplicationUncounted
  <2>3. <<ImportLinks(a, "ignore", "all_data")>> \in Sole(C, {})
    BY <1>1, <2>1, PlainSummed DEF UncountedCalls
  <2>4. <<ImportLinks(a, "ignore", "all_data")>> \in Seq(C)
    BY <2>3, SoleCalls
  <2> HIDE DEF C
  <2> QED
    BY <2>2, <2>4, ConcatType
<1>5. shared \in Seq(C)
  BY NonUserUncounted
<1>6. PICK q \in SharedStretch : last = q \o test
  BY SharedPlan
<1>7. RestoreAllData(t) = (((list \o FlattenSeq(seqs)) \o shared) \o test) \o last
  BY DEF RestoreAllData, ForAll, Installed
<1> HIDE DEF C, apps, Plan
<1>8. \A i \in 1..Len(apps) : seqs[i] \in Seq(C)
  BY <1>3, <1>4, ElementType
<1>9. seqs \in Seq(Seq(C))
  BY <1>3, <1>8
<1> HIDE DEF seqs, list, shared, test, last
<1>10. (list \o FlattenSeq(seqs)) \o shared \in Seq(C)
  BY <1>2, <1>5, <1>9, SoleCalls, FlattenType, ConcatType
<1> QED
  BY <1>6, <1>7, <1>10 DEF TwoParts, C, test

LEMMA RecoveryParts ==
  ASSUME NEW r \in Requests, r.op = "recover", NEW t
  PROVE  \/ RecoveryPlan(t, r) \in Seq(UncountedCalls)
         \/ TwoParts(Seq(UncountedCalls), RecoveryPlan(t, r))
         \/ TwoParts(LocalStretch, RecoveryPlan(t, r))
<1>1. r.type \in {"all", "user", "application"}
  BY DEF Requests
<1>2. CASE r.type = "application"
  <2>1. r.app \in Apps
    BY <1>2 DEF Requests
  <2>2. r.app \in Area
    BY <2>1 DEF Area
  <2>3. RecoveryPlan(t, r) = RestoreApplication(r.app)
    BY <1>2 DEF RecoveryPlan
  <2> QED
    BY <2>2, <2>3, ApplicationUncounted
<1>3. CASE r.type = "user"
  <2>1. RecoveryPlan(t, r) = RestoreUserLocal(t, r.user, r.seat)
                               \o RestoreUserShared(t, "user", r.user, r.seat)
    BY <1>3 DEF RecoveryPlan, RestoreUserData
  <2>2. PICK q1 \in LocalStretch : RestoreUserLocal(t, r.user, r.seat) = q1 \o <<TestSum>>
    BY LocalPlan
  <2>3. PICK q2 \in SharedStretch :
          RestoreUserShared(t, "user", r.user, r.seat) = q2 \o <<TestSum>>
    BY SharedPlan
  <2> QED
    BY <2>1, <2>2, <2>3 DEF TwoParts
<1>4. CASE r.type = "all"
  <2>1. RecoveryPlan(t, r) = RestoreAllData(t)
    BY <1>4 DEF RecoveryPlan
  <2>2. CASE AppsOf(t) = <<>>
    <3>1. RestoreAllData(t) = <<>>
      BY <2>2 DEF RestoreAllData
    <3> QED
      BY <2>1, <3>1
  <2>3. CASE AppsOf(t) # <<>>
    BY <2>1, <2>3, AllPlanParts
  <2> QED
    BY <2>2, <2>3
<1> QED
  BY <1>1, <1>2, <1>3, <1>4

-----------------------------------------------------------------------------
(* What a call does to the sum.  *)

LEMMA AfterConcat ==
  ASSUME NEW T, NEW p \in Seq(T), NEW r \in Seq(T), NEW n \in 1..Len(p)
  PROVE  After(p \o r, n) = After(p, n) \o r
<1> DEFINE pr == p \o r
           a == After(p, n)
           x == After(pr, n)
           y == a \o r
<1>1. pr \in Seq(T) /\ Len(pr) = Len(p) + Len(r) /\ Len(p) \in Nat /\ Len(r) \in Nat
  OBVIOUS
<1>2. n \in 1..Len(pr)
  <2> HIDE DEF pr
  <2> QED
    BY <1>1
<1>3. /\ \A i \in 1..Len(p) : pr[i] = p[i]
      /\ \A i \in 1..Len(r) : pr[Len(p) + i] = r[i]
  BY ConcatParts
<1>4. /\ a \in Seq(T) /\ Len(a) = Len(p) - n
      /\ \A i \in 1..(Len(p) - n) : a[i] = p[n + i]
  BY AfterIs
<1> HIDE DEF pr, a
<1>5. /\ x \in Seq(T) /\ Len(x) = Len(p) + Len(r) - n
      /\ \A i \in 1..(Len(p) + Len(r) - n) : x[i] = pr[n + i]
  <2>1. x \in Seq(T) /\ Len(x) = Len(pr) - n /\ \A i \in 1..(Len(pr) - n) : x[i] = pr[n + i]
    BY <1>1, <1>2, AfterIs
  <2> HIDE DEF x
  <2> QED
    BY <1>1, <2>1
<1>6. /\ y \in Seq(T) /\ Len(y) = Len(p) - n + Len(r)
      /\ \A i \in 1..(Len(p) - n) : y[i] = a[i]
      /\ \A i \in 1..Len(r) : y[Len(p) - n + i] = r[i]
  <2>1. a \in Seq(T)
    BY <1>4
  <2>2. y \in Seq(T)
    BY <2>1
  <2>3. /\ Len(y) = Len(a) + Len(r)
        /\ \A i \in 1..Len(a) : y[i] = a[i]
        /\ \A i \in 1..Len(r) : y[Len(a) + i] = r[i]
    BY <2>1, ConcatParts
  <2> HIDE DEF y
  <2> QED
    BY <1>4, <2>2, <2>3
<1> HIDE DEF x, y
<1>7. ASSUME NEW i \in 1..(Len(p) + Len(r) - n) PROVE x[i] = y[i]
  <2>1. CASE i <= Len(p) - n
    <3>1. i \in 1..(Len(p) - n) /\ n + i \in 1..Len(p)
      BY <1>1, <2>1
    <3> QED
      BY <1>3, <1>4, <1>5, <1>6, <3>1
  <2>2. CASE i > Len(p) - n
    <3> DEFINE h == i - (Len(p) - n)
    <3>1. h \in 1..Len(r) /\ i = Len(p) - n + h /\ n + i = Len(p) + h
      BY <1>1, <2>2
    <3> HIDE DEF h
    <3>2. x[i] = pr[Len(p) + h] /\ pr[Len(p) + h] = r[h]
      BY <1>3, <1>5, <3>1
    <3>3. y[Len(p) - n + h] = r[h]
      BY <1>6, <3>1
    <3> QED
      BY <3>1, <3>2, <3>3
  <2> QED
    BY <1>1, <2>1, <2>2
<1>8. x = y
  BY <1>1, <1>5, <1>6, <1>7
<1> QED
  BY <1>8 DEF x, y, pr, a

\* It is added or not, or an error is.
Adds ==
  \/ todo' = Tail(todo) /\ hist'.counted = hist.counted /\ sum' + part' = sum + part
  \/ /\ Now.do = "copy" /\ todo' = Tail(todo) /\ hist'.counted = hist.counted
     /\ sum' = sum /\ part' = part + Volume(tree.ext, Now.set)
     /\ \A f \in Now.set : tree.ext.file[f] \in Versions =>
          tree'.data.file[f] = tree.ext.file[f]
  \/ /\ Now.err = "count" /\ Leave /\ part' = 0 /\ sum' = sum - ErrorCode
     /\ hist'.counted = hist.counted \cup {Now.fn}

LEMMA CallAdds ==
  ASSUME TypeInv, NEW S \in SUBSET Folders, NEW N, Now \in SummedCalls(S, N), CallStep,
         phase = "work", phase' = "work"
  PROVE  Adds
<1>0. tree \in Trees /\ tree.data \in Tree /\ tree.ext \in Tree /\ hist \in History
      /\ sum \in Int /\ part \in Nat /\ ErrorCode \in Nat
  BY DataAssumption DEF TypeInv, Trees
<1>1. /\ Now.err \in {"abort", "ignore", "count"}
      /\ Now.do \in {"list", "checkRct", "return", "importLinks", "copyKeys", "clearKeys",
                     "clear", "copy"}
      /\ Now.do \in {"clear", "copy"} =>
           Now.from = "ext" /\ Now.to = "data" /\ Now.set \in SUBSET Folders
  BY DEF SummedCalls
<1>2. Succeed(0) => Adds
  BY <1>0 DEF Succeed, Adds
<1>3. ASSUME NEW x, Note(x), todo' = Tail(todo), UNCHANGED <<sum, part>> PROVE Adds
  <2>1. hist'.counted = hist.counted
    BY <1>0, <1>3 DEF Note, History
  <2> QED
    BY <1>3, <2>1 DEF Adds
<1>4. ASSUME NEW x, Fail(x) PROVE Adds
  <2>1. CASE Now.err = "abort"
    BY <1>4, <2>1 DEF Fail
  <2>2. CASE Now.err = "ignore"
    <3>1. Note(x) /\ todo' = Tail(todo) /\ UNCHANGED <<sum, part>>
      BY <1>4, <2>2 DEF Fail
    <3> QED
      BY <1>3, <3>1
  <2>3. CASE Now.err = "count"
    <3>1. /\ Leave /\ part' = 0 /\ sum' = sum - ErrorCode
          /\ hist' = [hist EXCEPT !.counted = @ \cup {Now.fn}]
      BY <1>4, <2>3 DEF Fail
    <3>2. hist'.counted = hist.counted \cup {Now.fn}
      BY <1>0, <3>1 DEF History
    <3> QED
      BY <2>3, <3>1, <3>2 DEF Adds
  <2> QED
    BY <1>1, <2>1, <2>2, <2>3
<1>5. CASE List \/ CheckRctStep \/ ImportLinksStep
  BY <1>2, <1>4, <1>5 DEF List, CheckRctStep, ImportLinksStep
<1>6. CASE ClearStep \/ CopyKeysStep \/ ClearKeysStep
  <2>1. Succeed(0) \/ (\E x : Fail(x)) \/ \E x : Note(x) /\ todo' = Tail(todo) /\ UNCHANGED <<sum, part>>
    <3>1. CASE ClearStep
      BY <3>1 DEF ClearStep
    <3>2. CASE CopyKeysStep
      BY <3>2 DEF CopyKeysStep
    <3>3. CASE ClearKeysStep
      BY <3>3 DEF ClearKeysStep
    <3> QED
      BY <1>6, <3>1, <3>2, <3>3
  <2> QED
    BY <1>2, <1>3, <1>4, <2>1
<1>7. CASE ReturnStep
  <2>1. todo' = Tail(todo) /\ sum' = sum + part /\ part' = 0 /\ hist' = hist
    BY <1>7 DEF ReturnStep
  <2> QED
    BY <1>0, <2>1 DEF Adds
<1>8. CASE CopyStep
  <2>1. Now.do = "copy"
    BY <1>8 DEF CopyStep, Calling
  <2>2. Now.from = "ext" /\ Now.to = "data" /\ Now.set \in SUBSET Folders
    BY <1>1, <2>1
  <2> DEFINE new == CopyFolder(tree.ext, tree.data, Now.set)
  <2>3. (Succeed(Volume(tree.ext, Now.set)) /\ Set("data", new)) \/ \E x : Fail(x)
    BY <1>8, <2>2 DEF CopyStep
  <2>4. CASE Succeed(Volume(tree.ext, Now.set)) /\ Set("data", new)
    <3>1. \A f \in Folders : f \in Now.set /\ tree.ext.file[f] \in Versions =>
            new.file[f] = tree.ext.file[f]
      BY <1>0, CopyFolderHas
    <3> HIDE DEF new
    <3>2. tree'.data = new
      BY <1>0, <2>4, OnlyDataSet
    <3> QED
      BY <2>1, <2>2, <2>4, <3>1, <3>2 DEF Succeed, Adds
  <2> QED
    BY <1>4, <2>3, <2>4
<1>9. CASE \/ CopyRctStep \/ CopyAllStep \/ ExportLinksStep \/ TestSumStep
           \/ ClearDefaultStep \/ ListAreaStep \/ ClearSeatStep
  <2>1. Now.do \in {"copyRct", "copyAll", "exportLinks", "clearConfFolder", "clearConfDb",
                    "listArea", "clearSeat", "testSum"}
    BY <1>9 DEF CopyRctStep, CopyAllStep, ExportLinksStep, ClearDefaultStep, ListAreaStep,
                ClearSeatStep, TestSumStep, Calling
  <2> QED
    BY <1>1, <2>1
<1> QED
  BY <1>5, <1>6, <1>7, <1>8, <1>9 DEF CallStep

\* The test, which is passed with a sum that is not negative.
TestIt ==
  /\ todo' = Tail(todo) /\ hist'.counted = hist.counted
  /\ sum + part >= 0 /\ sum' = 0 /\ part' = 0

LEMMA TestAlone ==
  /\ TestSum \in Calls /\ TestSum.do = "testSum" /\ TestSum.err = "abort"
  /\ TestSum.fn \notin RecoveryNames
<1>1. "" \in Labels
  BY DEF Labels
<1>2. TestSum.do = "testSum" /\ TestSum.err = "abort" /\ TestSum.fn = ""
  BY DEF TestSum, Call
<1>3. "" \notin RecoveryNames
  BY Zenon DEF RecoveryNames, LocalCounts, SharedCounts
<1>4. TestSum \in Calls
  BY <1>1 DEF TestSum, Call, Calls
<1> QED
  BY <1>2, <1>3, <1>4, Zenon

LEMMA TestAdds ==
  ASSUME TypeInv, Now = TestSum, CallStep, phase = "work", phase' = "work"
  PROVE  TestIt
<1>1. sum \in Int /\ part \in Nat
  BY DEF TypeInv
<1>2. Now.do = "testSum" /\ Now.err = "abort"
  BY TestAlone
<1>3. TestSumStep
  BY <1>2 DEF CallStep, List, CopyStep, ClearStep, CopyKeysStep, ClearKeysStep, CheckRctStep,
              CopyRctStep, CopyAllStep, ExportLinksStep, ImportLinksStep, ClearDefaultStep,
              ListAreaStep, ClearSeatStep, ReturnStep, Calling
<1>4. ~Fail({})
  BY <1>2 DEF Fail
<1> QED
  BY <1>1, <1>3, <1>4 DEF TestSumStep, TestIt

\* What is left of a part has nothing the part did not have.
LEMMA SoleAfter ==
  ASSUME NEW C, NEW U, NEW p \in Sole(C, U), NEW n \in 1..Len(p)
  PROVE  After(p, n) \in Sole(C, U)
<1> DEFINE a == After(p, n)
<1>1. p \in Seq(C) /\ Len(p) \in Nat
  BY SoleCalls
<1>2. /\ a \in Seq(C) /\ Len(a) = Len(p) - n
      /\ \A i \in 1..(Len(p) - n) : a[i] = p[n + i]
  BY <1>1, AfterIs
<1> HIDE DEF a
<1>3. \A i \in 1..Len(a) : n + i \in 1..Len(p) /\ a[i] = p[n + i]
  BY <1>1, <1>2
<1>4. ASSUME NEW f \in Folders PROVE a \in Once(C, f)
  <2>1. \A i, j \in 1..Len(p) :
          i < j /\ p[i].do = "copy" /\ Touching(p[i], f) => ~Touching(p[j], f)
    BY DEF Sole, Once
  <2>2. ASSUME NEW i \in 1..Len(a), NEW j \in 1..Len(a), i < j, a[i].do = "copy",
               Touching(a[i], f)
        PROVE  ~Touching(a[j], f)
    <3>1. n + i \in 1..Len(p) /\ n + j \in 1..Len(p) /\ n + i < n + j
      BY <1>2, <1>3, <2>2
    <3>2. a[i] = p[n + i] /\ a[j] = p[n + j]
      BY <1>3
    <3> QED
      BY <2>1, <2>2, <3>1, <3>2
  <2> QED
    BY <1>2, <2>2 DEF Once
<1>5. ASSUME NEW f \in Folders, f \notin U PROVE a \in Free(C, f)
  <2> DEFINE D == {c \in C : ~Touching(c, f)}
  <2>1. p \in Seq(D)
    BY <1>5 DEF Sole, Free
  <2> HIDE DEF D
  <2>2. a \in Seq(D)
    BY <2>1, AfterIs DEF a
  <2> QED
    BY <2>2 DEF Free, D
<1> QED
  BY <1>2, <1>4, <1>5 DEF Sole, a

-----------------------------------------------------------------------------
(* The folders of S that are back, and that no call is left for.  *)

Back(S) ==
  {f \in S : /\ tree.ext.file[f] \in Versions
             /\ tree.data.file[f] = tree.ext.file[f]
             /\ \A i \in 1..Len(todo) : ~Touching(todo[i], f)}

\* What must be weighed against an error of a function in N.
Owed(N) == IF hist.counted \cap N # {} THEN ErrorCode ELSE 0
Covered(S, N) == Owed(N) <= Cardinality(Back(S))
Weighed(S, N) == sum + part + Owed(N) <= Cardinality(Back(S))

LEMMA BackFinite ==
  ASSUME NEW S \in SUBSET Folders
  PROVE  IsFiniteSet(Back(S)) /\ Cardinality(Back(S)) \in Nat
<1>1. Back(S) \in SUBSET Folders
  BY DEF Back
<1> HIDE DEF Back
<1>2. IsFiniteSet(Back(S))
  BY <1>1, DataAssumption, FS_Subset
<1> QED
  BY <1>2, FS_CardinalityType

LEMMA BackFinitePrime ==
  ASSUME NEW S \in SUBSET Folders
  PROVE  IsFiniteSet(Back(S)') /\ Cardinality(Back(S)') \in Nat
<1>1. Back(S)' \in SUBSET Folders
  BY DEF Back
<1> DEFINE B == Back(S)'
<1> HIDE DEF B
<1>2. B \in SUBSET Folders
  BY <1>1 DEF B
<1>3. IsFiniteSet(B)
  BY <1>2, DataAssumption, FS_Subset
<1>4. IsFiniteSet(B) /\ Cardinality(B) \in Nat
  BY <1>3, FS_CardinalityType
<1> QED
  BY <1>4 DEF B

\* A call leaves the calls after it, or those after the function it is made from.
LEMMA CallLeaves ==
  ASSUME TypeInv, RequestInv, CallStep, phase' = "work"
  PROVE  \E n \in 1..Len(todo) :
           (\A i \in 1..n : todo[i].fn = Now.fn) /\ todo' = After(todo, n)
<1>1. todo \in Seq(Fits(req)) /\ todo # <<>> /\ Goes /\ phase = "work"
  BY CallEffect DEF RequestInv, Effect
<1>2. CASE todo' = Tail(todo)
  <2>1. 1 \in 1..Len(todo) /\ After(todo, 1) = Tail(todo)
    BY <1>1, AfterOne
  <2>2. \A i \in 1..1 : todo[i].fn = Now.fn
    BY DEF Now
  <2> QED
    BY <1>2, <2>1, <2>2
<1>3. CASE Leave
  BY <1>3 DEF Leave, After
<1> QED
  BY <1>1, <1>2, <1>3 DEF Goes

LEMMA BackGrows ==
  ASSUME TypeInv, RequestInv, CallStep, phase' = "work", Now.do # "clearSeat",
         NEW S \in SUBSET Folders
  PROVE  Back(S) \subseteq Back(S)'
<1>1. todo \in Seq(Fits(req)) /\ todo # <<>> /\ Within(Now) /\ Now = todo[1]
  BY CallEffect DEF RequestInv, Effect, Now
<1>2. PICK n \in 1..Len(todo) : todo' = After(todo, n)
  BY CallLeaves
<1>3. /\ Len(todo) \in Nat /\ Len(todo') = Len(todo) - n
      /\ \A i \in 1..(Len(todo) - n) : todo'[i] = todo[n + i]
  <2>1. /\ Len(After(todo, n)) = Len(todo) - n
        /\ \A i \in 1..(Len(todo) - n) : After(todo, n)[i] = todo[n + i]
    BY <1>1, AfterIs
  <2>2. Len(todo) \in Nat
    BY <1>1
  <2> QED
    BY <1>2, <2>1, <2>2
<1>4. 1 \in 1..Len(todo)
  BY <1>3
<1> SUFFICES ASSUME NEW f \in Back(S) PROVE f \in Back(S)'
  OBVIOUS
<1>5. /\ f \in S /\ f \in Folders /\ tree.ext.file[f] \in Versions
      /\ tree.data.file[f] = tree.ext.file[f]
      /\ \A i \in 1..Len(todo) : ~Touching(todo[i], f)
  BY DEF Back
<1>6. tree'.ext = tree.ext /\ tree'.data.file[f] = tree.data.file[f]
  <2>1. ~Touching(Now, f)
    BY <1>1, <1>4, <1>5
  <2> QED
    BY <1>1, <1>5, <2>1 DEF Within, Touching, OnFolders
<1>7. \A i \in 1..Len(todo') : ~Touching(todo'[i], f)
  <2> TAKE i \in 1..Len(todo')
  <2>1. n + i \in 1..Len(todo) /\ todo'[i] = todo[n + i]
    BY <1>3
  <2> QED
    BY <1>5, <2>1
<1> QED
  BY <1>5, <1>6, <1>7 DEF Back

\* After the call no call touches a folder that it copies.
Final == Now.do = "copy" => \A f \in Now.set, i \in 2..Len(todo) : ~Touching(todo[i], f)

\* A copy brings as many folders back as it says.
LEMMA BackCopied ==
  ASSUME TypeInv, RequestInv, CallStep, phase' = "work", Now.do = "copy", Final,
         todo' = Tail(todo), NEW S \in SUBSET Folders, Now.set \in SUBSET S,
         \A f \in Now.set : tree.ext.file[f] \in Versions =>
           tree'.data.file[f] = tree.ext.file[f]
  PROVE  Cardinality(Back(S)) + Volume(tree.ext, Now.set) <= Cardinality(Back(S)')
<1> DEFINE V == {f \in Now.set : tree.ext.file[f] \in Versions}
           B == Back(S)
           C == Back(S)'
<1>1. todo \in Seq(Fits(req)) /\ todo # <<>> /\ Within(Now) /\ Now = todo[1]
  BY CallEffect DEF RequestInv, Effect, Now
<1>2. 1 \in 1..Len(todo) /\ \A i \in 1..Len(todo') : i + 1 \in 2..Len(todo) /\ todo'[i] = todo[i + 1]
  BY <1>1
<1>3. V \subseteq C
  <2> SUFFICES ASSUME NEW f \in V PROVE f \in C
    OBVIOUS
  <2>1. \A i \in 1..Len(todo') : ~Touching(todo'[i], f)
    BY <1>2 DEF Final
  <2>2. tree'.ext = tree.ext
    BY <1>1 DEF Within
  <2> QED
    BY <2>1, <2>2 DEF Back
<1>4. B \subseteq C
  BY BackGrows
<1>5. V \cap B = {}
  <2> SUFFICES ASSUME NEW f \in V, f \in B PROVE FALSE
    OBVIOUS
  <2>1. Touching(todo[1], f)
    BY <1>1 DEF Touching
  <2> QED
    BY <1>2, <2>1 DEF Back
<1>6. IsFiniteSet(B) /\ Cardinality(B) \in Nat
  BY BackFinite
<1>7. IsFiniteSet(C)
  BY BackFinitePrime
<1>8. V \in SUBSET Folders /\ Volume(tree.ext, Now.set) = Cardinality(V)
  BY DEF Volume
<1> HIDE DEF V, B, C
<1>9. IsFiniteSet(V)
  BY <1>8, DataAssumption, FS_Subset
<1>10. Cardinality(V) \in Nat
  BY <1>9, FS_CardinalityType
<1>11. B \cup V \in SUBSET C /\ B \cap V = {}
  BY <1>3, <1>4, <1>5
<1>12. Cardinality(B \cup V) = Cardinality(B) + Cardinality(V)
  <2>1. Cardinality(B \cap V) = 0
    BY <1>11, FS_EmptySet
  <2>2. Cardinality(B \cup V) = Cardinality(B) + Cardinality(V) - Cardinality(B \cap V)
    BY <1>6, <1>9, FS_Union
  <2> QED
    BY <1>6, <1>10, <2>1, <2>2
<1>13. Cardinality(B \cup V) <= Cardinality(C)
  BY <1>7, <1>11, FS_Subset
<1> QED
  BY <1>8, <1>12, <1>13 DEF B, C

\* What is added to the bytes is back, and an error takes from the bytes what it
\* owes.
LEMMA CallWeighs ==
  ASSUME TypeInv, RequestInv, CallStep, phase' = "work", Final,
         NEW S \in SUBSET Folders, NEW N, Now \in SummedCalls(S, N), Weighed(S, N)
  PROVE  Weighed(S, N)'
<1> DEFINE b == Cardinality(Back(S))
           c == Cardinality(Back(S)')
           owed == Owed(N)
           later == Owed(N)'
<1>0. phase = "work" /\ sum \in Int /\ part \in Nat /\ ErrorCode \in Nat
      /\ sum' \in Int /\ part' \in Nat
  BY CallEffect, DataAssumption DEF TypeInv, RequestInv, Effect, Goes
<1>1. b \in Nat /\ c \in Nat
  BY BackFinite, BackFinitePrime
<1>2. b <= c
  <2>1. Now.do # "clearSeat"
    BY DEF SummedCalls
  <2>2. Back(S) \subseteq Back(S)'
    BY <2>1, BackGrows
  <2> DEFINE B == Back(S)
             C == Back(S)'
  <2>3. IsFiniteSet(C)
    BY BackFinitePrime
  <2> HIDE DEF B, C
  <2>4. B \in SUBSET C
    BY <2>2 DEF B, C
  <2>5. Cardinality(B) <= Cardinality(C)
    BY <2>3, <2>4, FS_Subset
  <2> QED
    BY <2>5 DEF B, C
<1>3. sum + part + owed <= b
  BY DEF Weighed
<1>4. Adds
  BY <1>0, CallAdds
<1>5. hist'.counted = hist.counted => later = owed
  BY DEF Owed
<1>6. owed \in Nat /\ later \in Nat /\ (hist.counted \cap N = {} => owed = 0)
      /\ owed \in {0, ErrorCode} /\ later \in {0, ErrorCode}
  BY <1>0 DEF Owed
<1>7. sum' + part' + later <= c
  <2>1. CASE hist'.counted = hist.counted /\ sum' + part' = sum + part
    <3>1. later = owed
      BY <1>5, <2>1
    <3> HIDE DEF b, c, owed, later
    <3> QED
      BY <1>0, <1>1, <1>2, <1>3, <1>6, <2>1, <3>1
  <2>2. CASE /\ Now.do = "copy" /\ todo' = Tail(todo) /\ hist'.counted = hist.counted
             /\ sum' = sum /\ part' = part + Volume(tree.ext, Now.set)
             /\ \A f \in Now.set : tree.ext.file[f] \in Versions =>
                  tree'.data.file[f] = tree.ext.file[f]
    <3>1. Now.set \in SUBSET S
      BY <2>2 DEF SummedCalls
    <3>2. b + Volume(tree.ext, Now.set) <= c
      BY <2>2, <3>1, BackCopied
    <3>3. Volume(tree.ext, Now.set) \in Nat
      BY <3>1, VolumeType
    <3>4. later = owed
      BY <1>5, <2>2
    <3> DEFINE v == Volume(tree.ext, Now.set)
    <3> HIDE DEF b, c, owed, later, v
    <3>5. v \in Nat /\ b + v <= c /\ sum' = sum /\ part' = part + v
      BY <2>2, <3>2, <3>3 DEF v
    <3> QED
      BY <1>0, <1>1, <1>3, <1>6, <3>4, <3>5
  <2>3. CASE /\ Now.err = "count" /\ part' = 0 /\ sum' = sum - ErrorCode
             /\ hist'.counted = hist.counted \cup {Now.fn}
    <3>1. Now.fn \in N
      BY <2>3 DEF SummedCalls
    <3>2. later = ErrorCode
      BY <2>3, <3>1 DEF Owed
    <3> HIDE DEF b, c, owed, later
    <3> QED
      BY <1>0, <1>1, <1>2, <1>3, <1>6, <2>3, <3>2
  <2> QED
    BY <1>4, <2>1, <2>2, <2>3 DEF Adds
<1> QED
  BY <1>7 DEF Weighed

LEMMA CallCounts ==
  ASSUME TypeInv, RequestInv, CallStep, phase' = "work",
         NEW S \in SUBSET Folders, NEW N, Now \in SummedCalls(S, N)
  PROVE  hist'.counted \subseteq hist.counted \cup N
<1>1. phase = "work"
  BY CallEffect DEF RequestInv, Effect
<1>2. Adds
  BY <1>1, CallAdds
<1>3. Now.err = "count" => Now.fn \in N
  BY DEF SummedCalls
<1> QED
  BY <1>2, <1>3 DEF Adds

\* What was covered stays so, while no error of N can come.
LEMMA CallCovers ==
  ASSUME TypeInv, RequestInv, CallStep, phase' = "work", Now.do # "clearSeat",
         NEW S \in SUBSET Folders, NEW N, hist'.counted \cap N = hist.counted \cap N,
         Covered(S, N)
  PROVE  Covered(S, N)'
<1> DEFINE B == Back(S)
           C == Back(S)'
<1>1. B \subseteq C
  BY BackGrows
<1>2. IsFiniteSet(C) /\ Cardinality(B) \in Nat /\ Cardinality(C) \in Nat
  BY BackFinite, BackFinitePrime
<1>3. Owed(N)' = Owed(N) /\ Owed(N) \in Nat
  BY DataAssumption DEF Owed
<1>4. Owed(N) <= Cardinality(B)
  BY DEF Covered
<1> DEFINE owed == Owed(N)
<1> HIDE DEF B, C, owed
<1>5. Cardinality(B) <= Cardinality(C)
  BY <1>1, <1>2, FS_Subset
<1>6. owed <= Cardinality(C) /\ Owed(N)' = owed
  BY <1>2, <1>3, <1>4, <1>5 DEF owed
<1> QED
  BY <1>6 DEF Covered, C

-----------------------------------------------------------------------------
(* Where a step leads from one part of a plan to the next.  *)

\* A part is left call by call: no function reaches from it into what follows.
LEMMA PartGoes ==
  ASSUME TypeInv, RequestInv, CallStep, phase' = "work", NEW S, NEW N,
         NEW q \in Seq(SummedCalls(S, N)), q # <<>>, NEW rest \in Seq(Calls),
         rest # <<>> => rest[1].fn \notin RecoveryNames, todo = q \o rest
  PROVE  /\ Now \in SummedCalls(S, N)
         /\ \E n \in 1..Len(q) : todo' = After(q, n) \o rest
<1> DEFINE C == SummedCalls(S, N)
<1>1. C \subseteq Calls /\ \A c \in C : c.fn \in RecoveryNames
  BY DEF SummedCalls
<1> HIDE DEF C
<1>2. q \in Seq(C) /\ Len(q) \in Nat /\ 1 \in 1..Len(q) /\ q[1] \in C
  BY DEF C
<1>3. q \in Seq(Calls)
  BY <1>1, <1>2, SeqSubset
<1>4. /\ Len(todo) = Len(q) + Len(rest) /\ Len(rest) \in Nat
      /\ \A i \in 1..Len(q) : todo[i] = q[i]
      /\ \A i \in 1..Len(rest) : todo[Len(q) + i] = rest[i]
  BY <1>3, ConcatParts
<1>5. Now = q[1]
  BY <1>2, <1>4 DEF Now
<1>6. PICK n \in 1..Len(todo) :
        (\A i \in 1..n : todo[i].fn = Now.fn) /\ todo' = After(todo, n)
  BY CallLeaves
<1>7. n <= Len(q)
  <2> SUFFICES ASSUME n > Len(q) PROVE FALSE
    BY <1>2, <1>4
  <2>1. 1 \in 1..Len(rest) /\ rest # <<>> /\ Len(q) + 1 \in 1..n
    BY <1>2, <1>4
  <2>2. todo[Len(q) + 1] = rest[1]
    BY <1>4, <2>1
  <2>3. rest[1].fn = Now.fn
    BY <1>6, <2>1, <2>2
  <2>4. Now.fn \in RecoveryNames
    BY <1>1, <1>2, <1>5
  <2> QED
    BY <2>1, <2>3, <2>4
<1>8. n \in 1..Len(q)
  BY <1>2, <1>4, <1>7
<1>9. After(q \o rest, n) = After(q, n) \o rest
  BY <1>3, <1>8, AfterConcat
<1>10. todo' = After(q, n) \o rest
  BY <1>6, <1>9
<1> QED
  BY <1>2, <1>5, <1>8, <1>10 DEF C

\* In a part whose folders are copied once, and not touched after it.
LEMMA SoleFinal ==
  ASSUME NEW S \in SUBSET Folders, NEW N, NEW q \in Sole(SummedCalls(S, N), S), q # <<>>,
         NEW rest \in Seq(Calls), todo = q \o rest,
         \A f \in S : \A i \in 1..Len(rest) : ~Touching(rest[i], f)
  PROVE  Final
<1> DEFINE C == SummedCalls(S, N)
<1>1. C \subseteq Calls /\ \A c \in C : c.do = "copy" => c.set \in SUBSET S
  BY DEF SummedCalls
<1>2. q \in Seq(C)
  BY SoleCalls
<1>3. \A f \in Folders : q \in Once(C, f)
  BY DEF Sole
<1> HIDE DEF C
<1>4. Len(q) \in Nat /\ 1 \in 1..Len(q) /\ q[1] \in C
  BY <1>2
<1>5. q \in Seq(Calls)
  BY <1>1, <1>2, SeqSubset
<1>6. /\ Len(todo) = Len(q) + Len(rest) /\ Len(rest) \in Nat
      /\ \A i \in 1..Len(q) : todo[i] = q[i]
      /\ \A i \in 1..Len(rest) : todo[Len(q) + i] = rest[i]
  BY <1>5, ConcatParts
<1>7. Now = q[1]
  BY <1>4, <1>6 DEF Now
<1> SUFFICES ASSUME Now.do = "copy", NEW f \in Now.set, NEW i \in 2..Len(todo)
             PROVE  ~Touching(todo[i], f)
  BY DEF Final
<1>8. f \in S /\ Touching(q[1], f)
  BY <1>1, <1>4, <1>7 DEF Touching
<1>9. CASE i <= Len(q)
  <2>1. i \in 1..Len(q) /\ 1 < i
    BY <1>4, <1>9
  <2>2. q \in Once(C, f)
    BY <1>3, <1>8
  <2>3. ~Touching(q[i], f)
    BY <1>4, <1>7, <1>8, <2>1, <2>2 DEF Once
  <2> QED
    BY <1>6, <2>1, <2>3
<1>10. CASE i > Len(q)
  <2> DEFINE h == i - Len(q)
  <2>1. h \in 1..Len(rest) /\ i = Len(q) + h
    BY <1>4, <1>6, <1>10
  <2> HIDE DEF h
  <2> QED
    BY <1>6, <1>8, <2>1
<1> QED
  BY <1>4, <1>9, <1>10

\* A step within a part whose bytes are added up.
LEMMA SoleGoes ==
  ASSUME TypeInv, RequestInv, CallStep, phase' = "work", NEW S \in SUBSET Folders, NEW N,
         NEW q \in Sole(SummedCalls(S, N), S), q # <<>>, NEW rest \in Seq(Calls),
         rest # <<>> => rest[1].fn \notin RecoveryNames, todo = q \o rest,
         \A f \in S : \A i \in 1..Len(rest) : ~Touching(rest[i], f), Weighed(S, N)
  PROVE  /\ Weighed(S, N)' /\ hist'.counted \subseteq hist.counted \cup N
         /\ Now.do # "clearSeat"
         /\ \E p \in Sole(SummedCalls(S, N), S) : todo' = p \o rest
<1> DEFINE C == SummedCalls(S, N)
<1>1. q \in Seq(C)
  BY SoleCalls
<1>2. Now \in C /\ \E n \in 1..Len(q) : todo' = After(q, n) \o rest
  BY <1>1, PartGoes
<1>3. Final
  BY SoleFinal
<1>4. Weighed(S, N)'
  BY <1>2, <1>3, CallWeighs
<1>5. hist'.counted \subseteq hist.counted \cup N
  BY <1>2, CallCounts
<1>6. \A n \in 1..Len(q) : After(q, n) \in Sole(C, S)
  BY SoleAfter
<1>7. Now.do # "clearSeat"
  BY <1>2 DEF SummedCalls
<1> QED
  BY <1>2, <1>4, <1>5, <1>6, <1>7

\* After the test begins what is added up anew.
LEMMA TestGoes ==
  ASSUME TypeInv, RequestInv, CallStep, phase' = "work", Now = TestSum
  PROVE  /\ TestIt
         /\ \A S \in SUBSET Folders : \A N :
              /\ Weighed(S, N) => Covered(S, N)'
              /\ Covered(S, N) => Covered(S, N)'
              /\ hist.counted \cap N = {} => Covered(S, N)' /\ Weighed(S, N)'
<1>1. phase = "work" /\ sum \in Int /\ part \in Nat /\ ErrorCode \in Nat
  BY CallEffect, DataAssumption DEF TypeInv, RequestInv, Effect
<1>2. TestIt
  BY <1>1, TestAdds
<1> SUFFICES ASSUME NEW S \in SUBSET Folders, NEW N
             PROVE  /\ Weighed(S, N) => Covered(S, N)'
                    /\ Covered(S, N) => Covered(S, N)'
                    /\ hist.counted \cap N = {} => Covered(S, N)' /\ Weighed(S, N)'
  BY <1>2
<1>3. Now.do # "clearSeat"
  BY TestAlone
<1>4. hist'.counted = hist.counted /\ sum' = 0 /\ part' = 0 /\ sum + part >= 0
  BY <1>2 DEF TestIt
<1>5. Covered(S, N) => Covered(S, N)'
  BY <1>3, <1>4, CallCovers
<1>6. Cardinality(Back(S)) \in Nat /\ Cardinality(Back(S)') \in Nat
  BY BackFinite, BackFinitePrime
<1>7. Weighed(S, N) => Covered(S, N)
  <2> DEFINE b == Cardinality(Back(S))
             owed == Owed(N)
  <2>1. owed \in Nat
    BY <1>1 DEF Owed
  <2>2. Weighed(S, N) => sum + part + owed <= b
    BY DEF Weighed
  <2> HIDE DEF b, owed
  <2>3. Weighed(S, N) => owed <= b
    BY <1>1, <1>4, <1>6, <2>1, <2>2 DEF b
  <2> QED
    BY <2>3 DEF Covered, b, owed
<1>8. hist.counted \cap N = {} => Owed(N)' = 0
  BY <1>4 DEF Owed
<1> DEFINE c == Cardinality(Back(S)')
<1>9. c \in Nat
  BY <1>6
<1> HIDE DEF c
<1>10. hist.counted \cap N = {} => Owed(N)' <= c /\ sum' + part' + Owed(N)' <= c
  BY <1>4, <1>8, <1>9
<1> QED
  BY <1>5, <1>7, <1>10 DEF Covered, Weighed, c

-----------------------------------------------------------------------------
(* The parts of a recovery.  *)

\* From the first test of the sum on.
RestOf(q) == <<TestSum>> \o (q \o <<TestSum>>)

\* Of an application, or of all data before the first test.
UncountedPart == hist.counted = {} /\ todo \in Seq(UncountedCalls)
AllPart ==
  /\ hist.counted = {}
  /\ \E p \in Seq(UncountedCalls), q \in SharedStretch : todo = p \o RestOf(q)

\* The user's data, of the applications before the first test and shared after it.
LocalPart ==
  /\ hist.counted \subseteq LocalCounts /\ Weighed(UsersOf(Apps), LocalCounts)
  /\ \E p \in LocalStretch, q \in SharedStretch : todo = p \o RestOf(q)
SharedPart ==
  /\ hist.counted \subseteq LocalCounts \cup SharedCounts
  /\ Covered(UsersOf(Apps), LocalCounts) /\ Weighed(UsersOf(Shared), SharedCounts)
  /\ \E q \in SharedStretch : todo = q \o <<TestSum>>

Over ==
  /\ todo = <<>> /\ hist.counted \subseteq LocalCounts \cup SharedCounts
  /\ Covered(UsersOf(Apps), LocalCounts) /\ Covered(UsersOf(Shared), SharedCounts)

\* Errors that were counted do not exceed the folders that are back, as they did
\* not make the sum negative.
VolumeInv ==
  /\ phase = "uncompress" => hist.counted = {} /\ sum = 0 /\ part = 0
  /\ phase = "work" /\ req.op = "recover" =>
       UncountedPart \/ AllPart \/ LocalPart \/ SharedPart \/ Over

LEMMA RestIs ==
  ASSUME NEW q \in SharedStretch
  PROVE  /\ RestOf(q) \in Seq(Calls) /\ RestOf(q) # <<>> /\ RestOf(q)[1] = TestSum
         /\ Tail(RestOf(q)) = q \o <<TestSum>>
         /\ \A f \in UsersOf(Apps) : \A i \in 1..Len(RestOf(q)) : ~Touching(RestOf(q)[i], f)
<1> DEFINE C == SharedCalls
           D(f) == {c \in Calls : ~Touching(c, f)}
           s == q \o <<TestSum>>
<1>1. q \in Seq(C)
  BY SoleCalls DEF SharedStretch
<1>2. TestSum \in Calls /\ TestSum.do = "testSum"
  BY TestAlone
<1>3. \A f \in UsersOf(Apps) : C \subseteq D(f) /\ TestSum \in D(f)
  <2> TAKE f \in UsersOf(Apps)
  <2>1. f \notin UsersOf(Shared)
    BY DataAssumption DEF UsersOf
  <2>2. TestSum \in D(f)
    BY <1>2 DEF Touching
  <2> QED
    BY <2>1, <2>2 DEF SharedCalls, SummedCalls, Touching
<1>4. C \subseteq Calls
  BY DEF SharedCalls, SummedCalls
<1> HIDE DEF C
<1>5. q \in Seq(Calls)
  BY <1>1, <1>4, SeqSubset
<1>6. <<TestSum>> \in Seq(Calls)
  BY <1>2
<1>7. s \in Seq(Calls)
  BY <1>5, <1>6, ConcatType
<1>8. \A f \in UsersOf(Apps) : \A i \in 1..Len(RestOf(q)) : ~Touching(RestOf(q)[i], f)
  <2> TAKE f \in UsersOf(Apps)
  <2> DEFINE E == D(f)
  <2>1. C \subseteq E /\ TestSum \in E /\ \A c \in E : ~Touching(c, f)
    BY <1>3
  <2> HIDE DEF E
  <2>2. q \in Seq(E)
    BY <1>1, <2>1, SeqSubset
  <2>3. <<TestSum>> \in Seq(E)
    BY <2>1
  <2>4. RestOf(q) \in Seq(E)
    BY <2>2, <2>3, ConcatType DEF RestOf
  <2> QED
    BY <2>1, <2>4, ElementType
<1> HIDE DEF s
<1>9. /\ <<TestSum>> \o s \in Seq(Calls) /\ Len(<<TestSum>> \o s) = Len(s) + 1
      /\ (<<TestSum>> \o s)[1] = TestSum
      /\ \A i \in 1..Len(s) : (<<TestSum>> \o s)[i + 1] = s[i]
  BY <1>2, <1>7, Prepended
<1> DEFINE r == <<TestSum>> \o s
<1>10. r \in Seq(Calls) /\ Len(r) = Len(s) + 1 /\ r[1] = TestSum
       /\ \A i \in 1..Len(s) : r[i + 1] = s[i]
  BY <1>9
<1>11. RestOf(q) = r
  BY DEF RestOf, s
<1> HIDE DEF r
<1>12. r # <<>> /\ Tail(r) = s
  <2>1. Len(s) \in Nat
    BY <1>7
  <2>2. r # <<>>
    BY <1>10, <2>1
  <2>3. Tail(r) \in Seq(Calls) /\ Len(Tail(r)) = Len(s) /\ \A i \in 1..Len(s) : Tail(r)[i] = s[i]
    BY <1>10, <2>1, <2>2
  <2> QED
    BY <1>7, <2>2, <2>3
<1> QED
  BY <1>8, <1>10, <1>11, <1>12 DEF s

\* The first test is passed.
LEMMA FirstTest ==
  ASSUME TypeInv, RequestInv, CallStep, phase' = "work", hist.counted \subseteq LocalCounts,
         NEW q \in SharedStretch, todo = <<>> \o RestOf(q),
         Weighed(UsersOf(Apps), LocalCounts) \/ hist.counted = {}
  PROVE  SharedPart'
<1>1. RestOf(q) \in Seq(Calls) /\ RestOf(q)[1] = TestSum /\ Tail(RestOf(q)) = q \o <<TestSum>>
  BY RestIs
<1>2. todo = RestOf(q)
  BY <1>1
<1>3. Now = TestSum
  BY <1>1, <1>2 DEF Now
<1>4. UsersOf(Apps) \in SUBSET Folders /\ UsersOf(Shared) \in SUBSET Folders
  BY DEF UsersOf
<1>5. hist.counted \cap SharedCounts = {} /\ (hist.counted = {} => hist.counted \cap LocalCounts = {})
  BY DEF LocalCounts, SharedCounts
<1>6. TestIt /\ Covered(UsersOf(Apps), LocalCounts)' /\ Weighed(UsersOf(Shared), SharedCounts)'
  BY <1>3, <1>4, <1>5, TestGoes
<1>7. todo' = q \o <<TestSum>> /\ hist'.counted = hist.counted
  BY <1>1, <1>2, <1>6 DEF TestIt
<1> QED
  BY <1>6, <1>7 DEF SharedPart

LEMMA UncountedGoes ==
  ASSUME TypeInv, RequestInv, CallStep, phase' = "work", UncountedPart
  PROVE  UncountedPart'
<1> DEFINE C == UncountedCalls
<1>1. todo # <<>>
  BY CallEffect DEF RequestInv, Effect
<1>2. todo \in Seq(C)
  BY DEF UncountedPart
<1>3. <<>> \in Seq(Calls)
  OBVIOUS
<1>4. todo = todo \o <<>>
  BY <1>2
<1>5. Now \in C /\ \E n \in 1..Len(todo) : todo' = After(todo, n) \o <<>>
  BY <1>1, <1>2, <1>3, <1>4, PartGoes DEF UncountedCalls
<1>6. hist'.counted \subseteq hist.counted \cup {}
  BY <1>5, CallCounts DEF UncountedCalls
<1> HIDE DEF C
<1>7. \A n \in 1..Len(todo) : After(todo, n) \in Seq(C)
  BY <1>2, AfterIs
<1>8. todo' \in Seq(C)
  BY <1>3, <1>5, <1>7, ConcatType
<1> QED
  BY <1>6, <1>8 DEF UncountedPart, C

LEMMA AllGoes ==
  ASSUME TypeInv, RequestInv, CallStep, phase' = "work", AllPart
  PROVE  AllPart' \/ SharedPart'
<1> DEFINE C == UncountedCalls
<1>1. PICK p \in Seq(C), q \in SharedStretch : todo = p \o RestOf(q)
  BY DEF AllPart
<1>2. hist.counted = {} /\ hist.counted \subseteq LocalCounts
  BY DEF AllPart
<1>3. CASE p = <<>>
  BY <1>1, <1>2, <1>3, FirstTest
<1>4. CASE p # <<>>
  <2>1. RestOf(q) \in Seq(Calls) /\ RestOf(q)[1].fn \notin RecoveryNames
    BY RestIs, TestAlone
  <2>2. Now \in C /\ \E n \in 1..Len(p) : todo' = After(p, n) \o RestOf(q)
    BY <1>1, <1>4, <2>1, PartGoes DEF UncountedCalls
  <2>3. hist'.counted \subseteq hist.counted \cup {}
    BY <2>2, CallCounts DEF UncountedCalls
  <2> HIDE DEF C
  <2>4. \A n \in 1..Len(p) : After(p, n) \in Seq(C)
    BY <1>1, AfterIs
  <2> QED
    BY <1>2, <2>2, <2>3, <2>4 DEF AllPart, C
<1> QED
  BY <1>3, <1>4

LEMMA LocalGoes ==
  ASSUME TypeInv, RequestInv, CallStep, phase' = "work", LocalPart
  PROVE  LocalPart' \/ SharedPart'
<1> DEFINE S == UsersOf(Apps)
           N == LocalCounts
<1>1. PICK p \in LocalStretch, q \in SharedStretch : todo = p \o RestOf(q)
  BY DEF LocalPart
<1>2. hist.counted \subseteq N /\ Weighed(S, N)
  BY DEF LocalPart
<1>3. CASE p = <<>>
  BY <1>1, <1>2, <1>3, FirstTest
<1>4. CASE p # <<>>
  <2>1. /\ RestOf(q) \in Seq(Calls) /\ RestOf(q)[1].fn \notin RecoveryNames
        /\ \A f \in S : \A i \in 1..Len(RestOf(q)) : ~Touching(RestOf(q)[i], f)
    BY RestIs, TestAlone
  <2>2. p \in Sole(SummedCalls(S, N), S) /\ S \in SUBSET Folders
    BY DEF LocalStretch, LocalCalls, UsersOf
  <2> HIDE DEF S, N
  <2>3. /\ Weighed(S, N)' /\ hist'.counted \subseteq hist.counted \cup N
        /\ \E s \in Sole(SummedCalls(S, N), S) : todo' = s \o RestOf(q)
    BY <1>1, <1>2, <1>4, <2>1, <2>2, SoleGoes
  <2>4. hist'.counted \subseteq N
    BY <1>2, <2>3
  <2> QED
    BY <2>3, <2>4 DEF LocalPart, LocalStretch, LocalCalls, S, N
<1> QED
  BY <1>3, <1>4

LEMMA SharedGoes ==
  ASSUME TypeInv, RequestInv, CallStep, phase' = "work", SharedPart
  PROVE  SharedPart' \/ Over'
<1> DEFINE S == UsersOf(Shared)
           N == SharedCounts
           R == UsersOf(Apps)
           M == LocalCounts
           rest == <<TestSum>>
<1>1. PICK q \in SharedStretch : todo = q \o rest
  BY DEF SharedPart
<1>2. hist.counted \subseteq M \cup N /\ Covered(R, M) /\ Weighed(S, N)
  BY DEF SharedPart
<1>3. S \in SUBSET Folders /\ R \in SUBSET Folders /\ M \cap N = {}
  BY DEF UsersOf, LocalCounts, SharedCounts
<1>4. TestSum \in Calls /\ TestSum.do = "testSum" /\ TestSum.fn \notin RecoveryNames
  BY TestAlone
<1>5. rest \in Seq(Calls) /\ Len(rest) = 1 /\ rest[1] = TestSum
  BY <1>4
<1>6. CASE q = <<>>
  <2>1. todo = rest
    BY <1>1, <1>5, <1>6
  <2>2. Now = TestSum /\ Tail(todo) = <<>>
    BY <2>1 DEF Now
  <2> HIDE DEF S, N, R, M
  <2>3. TestIt /\ Covered(R, M)' /\ Covered(S, N)'
    BY <1>2, <1>3, <2>2, TestGoes
  <2>4. todo' = <<>> /\ hist'.counted \subseteq M \cup N
    BY <1>2, <2>2, <2>3 DEF TestIt
  <2> QED
    BY <2>3, <2>4 DEF Over, S, N, R, M
<1>7. CASE q # <<>>
  <2>1. q \in Sole(SummedCalls(S, N), S)
    BY DEF SharedStretch, SharedCalls
  <2>2. \A f \in S : \A i \in 1..Len(rest) : ~Touching(rest[i], f)
    BY <1>4, <1>5 DEF Touching
  <2>3. rest # <<>> => rest[1].fn \notin RecoveryNames
    BY <1>4, <1>5
  <2> HIDE DEF S, N, R, M, rest
  <2>4. /\ Weighed(S, N)' /\ hist'.counted \subseteq hist.counted \cup N
        /\ Now.do # "clearSeat"
        /\ \E s \in Sole(SummedCalls(S, N), S) : todo' = s \o rest
    BY <1>1, <1>2, <1>3, <1>5, <1>7, <2>1, <2>2, <2>3, SoleGoes
  <2>5. hist.counted \subseteq hist'.counted
    BY CountedStays DEF TypeInv
  <2>6. hist'.counted \cap M = hist.counted \cap M /\ hist'.counted \subseteq M \cup N
    BY <1>2, <1>3, <2>4, <2>5
  <2>7. Covered(R, M)'
    BY <1>2, <1>3, <2>4, <2>6, CallCovers
  <2> QED
    BY <2>4, <2>6, <2>7 DEF SharedPart, SharedStretch, SharedCalls, S, N, R, M, rest
<1> QED
  BY <1>6, <1>7

\* While nothing was counted nothing is owed.
LEMMA NothingOwed ==
  ASSUME NEW S \in SUBSET Folders, NEW N, hist'.counted = {}, sum' = 0, part' = 0
  PROVE  Weighed(S, N)' /\ Covered(S, N)'
<1>1. Owed(N)' = 0
  BY DEF Owed
<1> DEFINE c == Cardinality(Back(S)')
<1>2. c \in Nat
  BY BackFinitePrime
<1> HIDE DEF c
<1>3. Owed(N)' <= c /\ sum' + part' + Owed(N)' <= c
  BY <1>1, <1>2
<1> QED
  BY <1>3 DEF Weighed, Covered, c

LEMMA VolumeBegins ==
  ASSUME TypeInv, RequestInv, VolumeInv, Uncompress
  PROVE  VolumeInv'
<1>1. CASE phase' # "work"
  <2>1. phase' # "uncompress"
    BY <1>1 DEF Uncompress
  <2> QED
    BY <1>1, <2>1 DEF VolumeInv
<1>2. CASE phase' = "work"
  <2> DEFINE t == Extracted(arch[req.arch])
             p == RecoveryPlan(t, req)
  <2>1. /\ phase = "uncompress" /\ req' = req /\ sum' = sum /\ part' = part /\ todo' = p
        /\ hist' = [hist EXCEPT !.extracted = @ \cup {arch[req.arch].tree}]
    BY <1>2 DEF Uncompress
  <2>2. req \in Requests /\ req.op = "recover" /\ hist.counted = {} /\ sum = 0 /\ part = 0
    BY <2>1 DEF RequestInv, VolumeInv
  <2>3. hist'.counted = {} /\ sum' = 0 /\ part' = 0
    BY <2>1, <2>2 DEF TypeInv, History
  <2> HIDE DEF t
  <2>4. \/ p \in Seq(UncountedCalls)
        \/ TwoParts(Seq(UncountedCalls), p) \/ TwoParts(LocalStretch, p)
    BY <2>2, RecoveryParts
  <2> HIDE DEF p
  <2>5. CASE p \in Seq(UncountedCalls)
    <3>1. UncountedPart'
      BY <2>1, <2>3, <2>5 DEF UncountedPart
    <3> QED
      BY <1>2, <3>1 DEF VolumeInv
  <2>6. ASSUME NEW C, NEW a \in Seq(C), C \subseteq Calls, NEW q \in SharedStretch
        PROVE  (a \o <<TestSum>>) \o (q \o <<TestSum>>) = a \o RestOf(q)
    <3>1. a \in Seq(Calls)
      BY <2>6, SeqSubset
    <3>2. q \in Seq(SharedCalls) /\ SharedCalls \subseteq Calls
      BY SoleCalls DEF SharedStretch, SharedCalls, SummedCalls
    <3>3. q \in Seq(Calls) /\ <<TestSum>> \in Seq(Calls)
      BY <3>2, SeqSubset, TestAlone
    <3> DEFINE s == q \o <<TestSum>>
    <3>4. s \in Seq(Calls)
      BY <3>3, ConcatType
    <3> HIDE DEF s
    <3>5. (a \o <<TestSum>>) \o s = a \o (<<TestSum>> \o s)
      BY <3>1, <3>3, <3>4, ConcatThree
    <3> QED
      BY <3>5 DEF RestOf, s
  <2>7. CASE TwoParts(Seq(UncountedCalls), p)
    <3>1. PICK a \in Seq(UncountedCalls), q \in SharedStretch :
            p = (a \o <<TestSum>>) \o (q \o <<TestSum>>)
      BY <2>7 DEF TwoParts
    <3>2. UncountedCalls \subseteq Calls
      BY DEF UncountedCalls, SummedCalls
    <3>3. todo' = a \o RestOf(q)
      BY <2>1, <2>6, <3>1, <3>2
    <3>4. AllPart'
      BY <2>3, <3>3 DEF AllPart
    <3> QED
      BY <1>2, <3>4 DEF VolumeInv
  <2>8. CASE TwoParts(LocalStretch, p)
    <3>1. PICK a \in LocalStretch, q \in SharedStretch :
            p = (a \o <<TestSum>>) \o (q \o <<TestSum>>)
      BY <2>8 DEF TwoParts
    <3>2. a \in Seq(LocalCalls) /\ LocalCalls \subseteq Calls
      BY SoleCalls DEF LocalStretch, LocalCalls, SummedCalls
    <3>3. todo' = a \o RestOf(q)
      BY <2>1, <2>6, <3>1, <3>2
    <3>4. UsersOf(Apps) \in SUBSET Folders
      BY DEF UsersOf
    <3>5. Weighed(UsersOf(Apps), LocalCounts)'
      BY <2>3, <3>4, NothingOwed
    <3>6. LocalPart'
      BY <2>3, <3>3, <3>5 DEF LocalPart
    <3> QED
      BY <1>2, <3>6 DEF VolumeInv
  <2> QED
    BY <2>4, <2>5, <2>7, <2>8
<1> QED
  BY <1>1, <1>2

LEMMA NextVolume ==
  ASSUME TypeInv, RequestInv, VolumeInv, [Next]_vars
  PROVE  VolumeInv'
<1>1. CASE UNCHANGED vars
  <2>1. /\ tree' = tree /\ todo' = todo /\ hist' = hist /\ sum' = sum /\ part' = part
        /\ phase' = phase /\ req' = req
    BY <1>1 DEF vars
  <2> QED
    BY <2>1 DEF VolumeInv, UncountedPart, AllPart, LocalPart, SharedPart, Over, Weighed,
                Covered, Owed, Back
<1>2. CASE phase' \notin {"uncompress", "work"}
  BY <1>2 DEF VolumeInv
<1>3. CASE Receive \/ RefuseInLibrary \/ Reply \/ Crash \/ Archive \/ Cleanup \/ Complete
           \/ WriteFile \/ WriteKey \/ Update \/ Uninstall \/ Refuse
  <2>1. phase' \notin {"uncompress", "work"}
    BY <1>3 DEF Receive, RefuseInLibrary, Reply, Crash, Archive, Cleanup, Complete,
                WriteFile, WriteKey, Update, Uninstall, Change, Refuse, Begin
  <2> QED
    BY <1>2, <2>1
<1>4. CASE BeginBackup \/ BeginReset \/ BeginDelete
  BY <1>4 DEF BeginBackup, BeginReset, BeginDelete, Begin, VolumeInv
<1>5. CASE BeginRecovery
  <2>1. phase' = "uncompress" /\ sum' = 0 /\ part' = 0 /\ Remember(tree.coll)
    BY <1>5 DEF BeginRecovery, Begin
  <2>2. hist'.counted = {}
    BY <2>1 DEF Remember, TypeInv, History
  <2> QED
    BY <2>1, <2>2 DEF VolumeInv
<1>6. CASE Uncompress
  BY <1>6, VolumeBegins
<1>7. CASE CallStep
  <2>1. phase = "work" /\ req' = req /\ (phase' = phase \/ phase' = "reply")
    BY <1>7, CallEffect DEF RequestInv, Effect, Goes
  <2>2. CASE phase' = "work" /\ req.op = "recover"
    <3>1. UncountedPart \/ AllPart \/ LocalPart \/ SharedPart \/ Over
      BY <2>1, <2>2 DEF VolumeInv
    <3>2. ~Over
      BY <1>7, CallEffect DEF RequestInv, Effect, Over
    <3>3. UncountedPart' \/ AllPart' \/ LocalPart' \/ SharedPart' \/ Over'
      BY <1>7, <2>2, <3>1, <3>2, UncountedGoes, AllGoes, LocalGoes, SharedGoes
    <3> QED
      BY <2>2, <3>3 DEF VolumeInv
  <2>3. CASE phase' # "work" \/ req.op # "recover"
    BY <2>1, <2>3 DEF VolumeInv
  <2> QED
    BY <2>2, <2>3
<1> QED
  BY <1>1, <1>3, <1>4, <1>5, <1>6, <1>7 DEF Next

LEMMA VolumeEnds ==
  ASSUME TypeInv, VolumeInv
  PROVE  HiddenOnlyByVolume
<1> DEFINE Likes(fn) == {f \in Folders : /\ f[2] # Node /\ (f[1] \in Apps <=> fn = "import_links")
                                        /\ tree.ext.file[f] \in Versions
                                        /\ tree.data.file[f] = tree.ext.file[f]}
<1> SUFFICES ASSUME Done("recover"), NEW fn \in hist.counted
             PROVE  ErrorCode <= Cardinality(Likes(fn))
  BY DEF HiddenOnlyByVolume
<1>1. phase = "work" /\ todo = <<>> /\ req.op = "recover"
  BY DEF Done
<1>2. Over
  <2>1. UncountedPart \/ AllPart \/ LocalPart \/ SharedPart \/ Over
    BY <1>1 DEF VolumeInv
  <2>2. ~UncountedPart
    BY DEF UncountedPart
  <2>3. ASSUME NEW C, NEW p \in Seq(C), C \subseteq Calls, NEW r \in Seq(Calls), r # <<>>
        PROVE  <<>> # p \o r
    <3>1. p \in Seq(Calls) /\ Len(p) \in Nat /\ Len(r) \in Nat /\ Len(r) # 0
      BY <2>3, SeqSubset
    <3>2. Len(p \o r) = Len(p) + Len(r)
      BY <3>1, ConcatParts
    <3>3. Len(p \o r) # 0
      BY <3>1, <3>2
    <3>4. Len(<<>>) = 0
      OBVIOUS
    <3> QED
      BY <3>3, <3>4, Zenon
  <2>4. UncountedCalls \subseteq Calls /\ LocalCalls \subseteq Calls /\ SharedCalls \subseteq Calls
    BY DEF UncountedCalls, LocalCalls, SharedCalls, SummedCalls
  <2>5. /\ \A p \in LocalStretch : p \in Seq(LocalCalls)
        /\ \A p \in SharedStretch : p \in Seq(SharedCalls)
    BY SoleCalls DEF LocalStretch, SharedStretch
  <2>6. \A q \in SharedStretch : RestOf(q) \in Seq(Calls) /\ RestOf(q) # <<>>
    BY RestIs
  <2>7. <<TestSum>> \in Seq(Calls) /\ <<TestSum>> # <<>>
    BY TestAlone
  <2>8. ~AllPart
    BY <1>1, <2>3, <2>4, <2>6 DEF AllPart
  <2>9. ~LocalPart
    BY <1>1, <2>3, <2>4, <2>5, <2>6 DEF LocalPart
  <2>10. ~SharedPart
    BY <1>1, <2>3, <2>4, <2>5, <2>7 DEF SharedPart
  <2> QED
    BY <2>1, <2>2, <2>8, <2>9, <2>10
<1>3. IsFiniteSet(Likes(fn)) /\ Cardinality(Likes(fn)) \in Nat
  <2> DEFINE A == Likes(fn)
  <2>1. A \in SUBSET Folders
    OBVIOUS
  <2> HIDE DEF A
  <2>2. IsFiniteSet(A)
    BY <2>1, DataAssumption, FS_Subset
  <2>3. Cardinality(A) \in Nat
    BY <2>2, FS_CardinalityType
  <2> QED
    BY <2>2, <2>3 DEF A
<1>4. ASSUME NEW S, NEW N, Covered(S, N), fn \in N, Back(S) \subseteq Likes(fn), S \in SUBSET Folders
      PROVE  ErrorCode <= Cardinality(Likes(fn))
  <2>1. Owed(N) = ErrorCode
    BY <1>4 DEF Owed
  <2>2. ErrorCode <= Cardinality(Back(S))
    BY <1>4, <2>1 DEF Covered
  <2>3. Cardinality(Back(S)) \in Nat /\ ErrorCode \in Nat
    BY <1>4, BackFinite, DataAssumption
  <2> DEFINE A == Likes(fn)
             B == Back(S)
  <2>4. B \in SUBSET A /\ IsFiniteSet(A)
    BY <1>3, <1>4
  <2> HIDE DEF A, B
  <2>5. Cardinality(B) <= Cardinality(A)
    BY <2>4, FS_Subset
  <2> DEFINE a == Cardinality(A)
             b == Cardinality(B)
  <2>6. a \in Nat /\ b \in Nat /\ ErrorCode <= b /\ b <= a
    BY <1>3, <2>2, <2>3, <2>5 DEF A, B
  <2> HIDE DEF a, b
  <2>7. ErrorCode <= a
    BY <2>3, <2>6
  <2> QED
    BY <2>7 DEF a, A
<1>5. CASE fn \in LocalCounts
  <2>1. Back(UsersOf(Apps)) \subseteq Likes(fn)
    BY <1>5 DEF Back, UsersOf, LocalCounts
  <2>2. UsersOf(Apps) \in SUBSET Folders
    BY DEF UsersOf
  <2> HIDE DEF Likes
  <2> QED
    BY <1>2, <1>4, <1>5, <2>1, <2>2 DEF Over
<1>6. CASE fn \in SharedCounts
  <2>1. fn # "import_links" /\ \A a \in Shared : a \notin Apps
    BY <1>6, DataAssumption DEF SharedCounts
  <2>2. Back(UsersOf(Shared)) \subseteq Likes(fn)
    BY <2>1 DEF Back, UsersOf
  <2>3. UsersOf(Shared) \in SUBSET Folders
    BY DEF UsersOf
  <2> HIDE DEF Likes
  <2> QED
    BY <1>2, <1>4, <1>6, <2>2, <2>3 DEF Over
<1> HIDE DEF Likes
<1> QED
  BY <1>2, <1>5, <1>6 DEF Over

\* A recovery that reports success although errors were added to its bytes has
\* brought back as many folders as an error code is large: users' folders of the
\* applications for links that were not made, of the shared areas for theirs.
THEOREM Outweighed == Spec => []HiddenOnlyByVolume
<1> DEFINE IInv == TypeInv /\ RequestInv /\ VolumeInv
<1>1. Init => IInv
  <2>1. Init => VolumeInv
    BY DEF Init, VolumeInv
  <2> QED
    BY <2>1, InitTypes
<1>2. IInv /\ [Next]_vars => IInv'
  BY NextTypes, NextVolume
<1>3. IInv => HiddenOnlyByVolume
  BY VolumeEnds
<1> QED
  BY <1>1, <1>2, <1>3, PTL DEF Spec

=============================================================================
