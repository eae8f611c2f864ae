---------------------------- MODULE InstallProofs -----------------------------
(***************************************************************************)
(* Proofs about the installation of packages (Install): the type           *)
(* invariant, that an attempt touches no area its package does not         *)
(* configure, and that members and applications keep their links.  As in   *)
(* DataProofs, what a call may touch is read off the call, all calls of an *)
(* attempt fit its package, and a step does no more than its call may.     *)
(***************************************************************************)
EXTENDS Install, FlattenLemmas

-----------------------------------------------------------------------------
(* What the calls of an attempt may be. *)

OnResource ==
  {"obsolete", "changePolicy", "default", "clearData", "deleteEntry", "writeEntry"}

Calls ==
  [do : OnResource \cup {"wrong", "removeData", "getContext", "folder", "members", "linkPublic"},
   area : Area, res : Resources \cup {""}, kind : Kinds \cup {""}]

\* The calls that a rule asks for, on a resource of an area.
Asked(p, c) ==
  LET needed == ConfigurationNeeded(p, c.area, c.res)
      affects == LookUpRules[Rule(p, c.area)].affects
      there == p.rct[c.area][c.res] # "none"
  IN CASE c.do \in {"obsolete", "deleteEntry"} -> ~there
       [] c.do \in {"changePolicy", "writeEntry"} -> there
       [] c.do = "default" -> there /\ c.kind \in affects /\ needed # "dontTouch"
       [] c.do = "clearData" -> there /\ "normal" \in affects /\ needed = "delete"

\* A call other than the refusal of the package concerns an area it configures;
\* old data is removed by the rules that start afresh, and resources are
\* configured where there is a table to be afterwards.
Fits(p) ==
  {c \in Calls :
     /\ c.do # "wrong" => c.area \in Configured(p)
     /\ c.do = "removeData" => Fresh(p, c.area)
     /\ c.do \in OnResource \cup {"folder"} => c.area \in WithTable(p)
     /\ c.do \in OnResource => c.res \in Resources /\ Asked(p, c)
     /\ c.do \notin OnResource => c.res = ""
     /\ c.do = "members" => c.area \in Groups
     /\ c.do = "linkPublic" => c.area \in Apps
     /\ IF c.do = "default" THEN c.kind \in Kinds ELSE c.kind = ""}

\* The calls that give an application resources come after its link to the
\* public data is made.
Fills(c) == c.do \in {"folder", "deleteEntry", "writeEntry"} /\ c.area \in Apps
Links(c, a) == c.do = "linkPublic" /\ c.area = a
LinkedBefore(plan, i) ==
  Fills(plan[i]) => \E j \in 1..(i - 1) : Links(plan[j], plan[i].area)

Plans(p) == {plan \in Seq(Fits(p)) : \A i \in 1..Len(plan) : LinkedBefore(plan, i)}

\* The resources whose defaults, and whose data, a package is about.
DefaultsDue(p, a) ==
  {r \in Resources : p.rct[a][r] # "none" /\ ConfigurationNeeded(p, a, r) # "dontTouch"}
DataDue(p, a) ==
  {r \in Resources : p.rct[a][r] # "none" /\ ConfigurationNeeded(p, a, r) = "delete"}

\* The calls of a folder, made when its turn comes: all in one area.
FitsIn(p, a) == {c \in Fits(p) : c.area = a /\ c.do \in OnResource}

-----------------------------------------------------------------------------
(* The invariant. *)

Phases == {"idle", "unarchive", "work", "cleanup", "reply"}
Outcomes == {"none", "ok", "error", "crashed"}
History ==
  [begun : BOOLEAN, before : Tree, start : Tree,
   loses : SUBSET (Apps \X Shared), skipped : SUBSET (Slots \cup Defaults)]

TypeInv ==
  /\ tree \in Tree /\ phase \in Phases /\ result \in Outcomes
  /\ script \in Seq(Packages) /\ faults \in Nat /\ writes \in Nat /\ hist \in History

\* There is a package to install, and the calls left are its.
PackageInv ==
  /\ phase # "idle" \/ hist.begun => script # <<>>
  /\ phase = "work" => todo \in Seq(Fits(Package))
  /\ phase # "work" => todo = <<>>

\* The link is there, or hist.loses says why not.
LinkedIn(t, h, a, s) == s \in t.link[a] \/ <<a, s>> \in h.loses
Linked(a, s) == LinkedIn(tree, hist, a, s)

\* MembersLinked needs to know that an application is linked by the time its
\* table is written.
LinkInv ==
  phase = "work" =>
    \A i \in 1..Len(todo) :
      Fills(todo[i]) =>
        Linked(todo[i].area, Public) \/ \E j \in 1..(i - 1) : Links(todo[j], todo[i].area)

-----------------------------------------------------------------------------
(* The plans. *)

LEMMA RuleType ==
  ASSUME NEW p \in Packages, NEW a \in Area
  PROVE  Rule(p, a) \in DOMAIN LookUpRules
BY DEF Rule, ToRule, LookUpRules, Packages

LEMMA CallType ==
  ASSUME NEW p, NEW a \in Area, NEW do \in {"removeData", "getContext", "folder", "members",
         "linkPublic"}, a \in Configured(p), do = "members" => a \in Groups,
         do = "linkPublic" => a \in Apps, do = "removeData" => Fresh(p, a),
         do = "folder" => a \in WithTable(p)
  PROVE  Call(do, a, "", "") \in Fits(p)
BY DEF Call, Fits, Calls, OnResource

LEMMA WrongType == ASSUME NEW p PROVE Call("wrong", Public, "", "") \in Fits(p)
BY DEF Call, Fits, Calls, OnResource, Area, Shared

LEMMA PlansConcat ==
  ASSUME NEW p, NEW x \in Plans(p), NEW y \in Plans(p)
  PROVE  x \o y \in Plans(p)
<1> DEFINE m == Len(x)
           n == Len(y)
           xy == x \o y
<1>1. x \in Seq(Fits(p)) /\ y \in Seq(Fits(p)) /\ m \in Nat /\ n \in Nat
  BY DEF Plans
<1>2. xy \in Seq(Fits(p)) /\ Len(xy) = m + n
  BY <1>1
<1>3. \A i \in 1..m : xy[i] = x[i]
  BY <1>1
<1>4. \A i \in 1..n : xy[m + i] = y[i]
  BY <1>1
<1>5. /\ \A i \in 1..m : LinkedBefore(x, i)
      /\ \A i \in 1..n : LinkedBefore(y, i)
  BY DEF Plans
<1> HIDE DEF xy, m, n
<1>6. ASSUME NEW i \in 1..(m + n) PROVE LinkedBefore(xy, i)
  <2> SUFFICES ASSUME Fills(xy[i])
               PROVE  \E j \in 1..(i - 1) : Links(xy[j], xy[i].area)
    BY DEF LinkedBefore
  <2>1. CASE i <= m
    <3>1. i \in 1..m /\ xy[i] = x[i]
      BY <1>1, <1>3, <2>1
    <3>2. PICK j \in 1..(i - 1) : Links(x[j], x[i].area)
      BY <1>5, <3>1 DEF LinkedBefore
    <3>3. j \in 1..m
      BY <1>1, <3>1
    <3>4. xy[j] = x[j]
      BY <1>3, <3>3
    <3> QED
      BY <3>1, <3>2, <3>4
  <2>2. CASE i > m
    <3> DEFINE h == i - m
    <3>1. h \in 1..n /\ i = m + h
      BY <1>1, <2>2
    <3> HIDE DEF h
    <3>2. xy[i] = y[h]
      BY <1>4, <3>1
    <3>3. PICK j \in 1..(h - 1) : Links(y[j], y[h].area)
      BY <1>5, <3>1, <3>2 DEF LinkedBefore
    <3>4. j \in 1..n /\ m + j \in 1..(i - 1)
      BY <1>1, <3>1
    <3>5. xy[m + j] = y[j]
      BY <1>4, <3>4
    <3> QED
      BY <3>2, <3>3, <3>4, <3>5
  <2> QED
    BY <1>1, <2>1, <2>2
<1> QED
  BY <1>2, <1>6 DEF Plans, xy

LEMMA PlansEmpty == ASSUME NEW p PROVE <<>> \in Plans(p)
BY DEF Plans

LEMMA FlattenPlans ==
  ASSUME NEW p, NEW seqs \in Seq(Plans(p))
  PROVE  FlattenSeq(seqs) \in Plans(p)
<1>1. \A x, y \in Plans(p) : x \o y \in Plans(p)
  BY PlansConcat
<1> QED
  BY <1>1, PlansEmpty, FlattenClosed

\* A call that fills no application, on its own.
LEMMA OnePlan ==
  ASSUME NEW p, NEW c \in Fits(p), ~Fills(c)
  PROVE  <<c>> \in Plans(p)
<1>1. <<c>> \in Seq(Fits(p)) /\ Len(<<c>>) = 1 /\ <<c>>[1] = c
  BY OneType
<1> QED
  BY <1>1 DEF Plans, LinkedBefore

LEMMA WrongPlan == ASSUME NEW p PROVE Wrong \in Plans(p)
<1> DEFINE c == Call("wrong", Public, "", "")
<1>1. c \in Fits(p) /\ ~Fills(c)
  BY WrongType DEF Fills, Call
<1> HIDE DEF c
<1>2. <<c>> \in Plans(p)
  BY <1>1, OnePlan
<1> QED
  BY <1>2 DEF Wrong, On, c

\* The calls before the configuration of a folder.
LEMMA PreparedPlan ==
  ASSUME NEW p, NEW a \in Configured(p), NEW do \in {"removeData", "getContext", "members", "linkPublic"},
         do = "members" => a \in Groups, do = "linkPublic" => a \in Apps,
         do = "removeData" => Fresh(p, a)
  PROVE  On(do, a) \in Plans(p)
<1> DEFINE c == Call(do, a, "", "")
<1>1. a \in Area
  BY DEF Configured
<1>2. c \in Fits(p) /\ ~Fills(c)
  BY <1>1, CallType DEF Fills, Call
<1> HIDE DEF c
<1>3. <<c>> \in Plans(p)
  BY <1>2, OnePlan
<1> QED
  BY <1>3 DEF On, c

LEMMA OldDataPlan ==
  ASSUME NEW p, NEW a \in Configured(p)
  PROVE  OldDataGone(Rule(p, a), a) \in Plans(p)
BY PreparedPlan, PlansEmpty DEF OldDataGone, Fresh

\* The folder of a shared area, and of an application that is linked first.
LEMMA SharedFolderPlan ==
  ASSUME NEW p, NEW a \in WithTable(p), a \in Shared
  PROVE  On("folder", a) \in Plans(p)
<1> DEFINE c == Call("folder", a, "", "")
<1>1. a \in Area /\ a \notin Apps /\ a \in Configured(p)
  BY InstallAssumption DEF Area, WithTable
<1>2. c \in Fits(p) /\ ~Fills(c)
  BY <1>1, CallType DEF Fills, Call
<1> HIDE DEF c
<1>3. <<c>> \in Plans(p)
  BY <1>2, OnePlan
<1> QED
  BY <1>3 DEF On, c

LEMMA AppFolderPlan ==
  ASSUME NEW p, NEW a \in WithTable(p), a \in Apps
  PROVE  On("linkPublic", a) \o On("folder", a) \in Plans(p)
<1> DEFINE link == Call("linkPublic", a, "", "")
           folder == Call("folder", a, "", "")
           rest == <<folder>>
           plan == <<link>> \o rest
<1>1. a \in Area /\ a \in Configured(p)
  BY DEF Area, WithTable
<1>2. link \in Fits(p) /\ folder \in Fits(p)
  BY <1>1, CallType
<1>3. ~Fills(link) /\ Links(link, a) /\ folder.area = a
  BY DEF Fills, Links, Call
<1> HIDE DEF link, folder
<1>4. rest \in Seq(Fits(p)) /\ Len(rest) = 1 /\ rest[1] = folder
  BY <1>2
<1> HIDE DEF rest
<1>5. plan \in Seq(Fits(p)) /\ Len(plan) = 2 /\ plan[1] = link /\ plan[1 + 1] = folder
  BY <1>2, <1>4, Prepended
<1> HIDE DEF plan
<1>6. LinkedBefore(plan, 1) /\ LinkedBefore(plan, 2)
  BY <1>3, <1>5 DEF LinkedBefore
<1>7. \A i \in 1..2 : i = 1 \/ i = 2
  OBVIOUS
<1>8. plan \in Plans(p)
  BY <1>5, <1>6, <1>7 DEF Plans
<1> QED
  BY <1>8 DEF On, plan, rest, link, folder

LEMMA PublicPlanFits == ASSUME NEW p \in Packages PROVE PublicPlan(p) \in Plans(p)
<1>1. CASE "public" \in p.files /\ Rule(p, Public) # "DontTouch"
  <2>1. Public \in Configured(p) /\ Public \in WithTable(p) /\ Public \in Shared
    BY <1>1 DEF Configured, WithTable, Area, Shared
  <2>2. /\ OldDataGone(Rule(p, Public), Public) \in Plans(p)
        /\ On("getContext", Public) \in Plans(p) /\ On("folder", Public) \in Plans(p)
    BY <2>1, OldDataPlan, PreparedPlan, SharedFolderPlan
  <2>3. OldDataGone(Rule(p, Public), Public) \o On("getContext", Public) \in Plans(p)
    BY <2>2, PlansConcat
  <2>4. OldDataGone(Rule(p, Public), Public) \o On("getContext", Public)
          \o On("folder", Public) \in Plans(p)
    BY <2>2, <2>3, PlansConcat
  <2> QED
    BY <1>1, <2>4 DEF PublicPlan
<1> QED
  BY <1>1, WrongPlan, PlansEmpty DEF PublicPlan

LEMMA GroupPlanFits == ASSUME NEW p \in Packages, NEW g PROVE GroupPlan(p, g) \in Plans(p)
<1>1. CASE g \notin Groups
  BY <1>1, WrongPlan DEF GroupPlan
<1>2. CASE g \in Groups /\ Rule(p, g) = "DontTouch"
  BY <1>2, PlansEmpty DEF GroupPlan
<1>3. CASE g \in Groups /\ Rule(p, g) = "Uninstall"
  <2>1. g \in Configured(p)
    BY <1>3 DEF Configured, Area, Shared
  <2>2. OldDataGone(Rule(p, g), g) \in Plans(p)
    BY <2>1, OldDataPlan
  <2> QED
    BY <1>3, <2>2 DEF GroupPlan
<1>4. CASE g \in Groups /\ Rule(p, g) # "DontTouch" /\ Rule(p, g) # "Uninstall"
  <2>1. g \in Configured(p) /\ g \in WithTable(p) /\ g \in Shared
    BY <1>4 DEF Configured, WithTable, Area, Shared
  <2>2. /\ OldDataGone(Rule(p, g), g) \in Plans(p)
        /\ On("getContext", g) \in Plans(p) /\ On("members", g) \in Plans(p)
        /\ On("folder", g) \in Plans(p)
    BY <1>4, <2>1, OldDataPlan, PreparedPlan, SharedFolderPlan
  <2>3. OldDataGone(Rule(p, g), g) \o On("getContext", g) \in Plans(p)
    BY <2>2, PlansConcat
  <2>4. OldDataGone(Rule(p, g), g) \o On("getContext", g) \o On("members", g) \in Plans(p)
    BY <2>2, <2>3, PlansConcat
  <2>5. OldDataGone(Rule(p, g), g) \o On("getContext", g) \o On("members", g)
          \o On("folder", g) \in Plans(p)
    BY <2>2, <2>4, PlansConcat
  <2> QED
    BY <1>4, <2>5 DEF GroupPlan
<1> QED
  BY <1>1, <1>2, <1>3, <1>4

LEMMA AppPlanFits == ASSUME NEW p \in Packages, NEW a \in Apps PROVE AppPlan(p, a) \in Plans(p)
<1>1. CASE Rule(p, a) = "DontTouch"
  BY <1>1, PlansEmpty DEF AppPlan
<1>2. CASE Rule(p, a) = "Uninstall"
  <2>1. a \in Configured(p)
    BY <1>2 DEF Configured, Area
  <2>2. OldDataGone(Rule(p, a), a) \in Plans(p)
    BY <2>1, OldDataPlan
  <2> QED
    BY <1>2, <2>2 DEF AppPlan
<1>3. CASE Rule(p, a) # "DontTouch" /\ Rule(p, a) # "Uninstall"
  <2>1. a \in Configured(p) /\ a \in WithTable(p)
    BY <1>3 DEF Configured, WithTable, Area
  <2> DEFINE linked == On("linkPublic", a) \o On("folder", a)
  <2>2. /\ OldDataGone(Rule(p, a), a) \in Plans(p)
        /\ On("getContext", a) \in Plans(p) /\ linked \in Plans(p)
    BY <2>1, OldDataPlan, PreparedPlan, AppFolderPlan
  <2>3. OldDataGone(Rule(p, a), a) \o On("getContext", a) \in Plans(p)
    BY <2>2, PlansConcat
  <2> HIDE DEF linked
  <2>4. (OldDataGone(Rule(p, a), a) \o On("getContext", a)) \o linked \in Plans(p)
    BY <2>2, <2>3, PlansConcat
  <2>5. OldDataGone(Rule(p, a), a) \o On("getContext", a) \o On("linkPublic", a) \o On("folder", a)
          = (OldDataGone(Rule(p, a), a) \o On("getContext", a)) \o linked
    <3> DEFINE x == OldDataGone(Rule(p, a), a) \o On("getContext", a)
               y == On("linkPublic", a)
               z == On("folder", a)
    <3>1. y \in Seq(Fits(p)) /\ z \in Seq(Fits(p))
      BY <2>1, CallType, OneType DEF On, Configured
    <3>2. x \in Seq(Fits(p))
      BY <2>3 DEF Plans
    <3> HIDE DEF x, y, z
    <3>3. (x \o y) \o z = x \o (y \o z)
      BY <3>1, <3>2
    <3> QED
      BY <3>3 DEF linked, x, y, z
  <2> QED
    BY <1>3, <2>4, <2>5 DEF AppPlan
<1> QED
  BY <1>1, <1>2, <1>3

LEMMA GroupsPlanFits == ASSUME NEW p \in Packages PROVE GroupsPlan(p) \in Plans(p)
<1> DEFINE names == p.groups
           seqs == [i \in 1..Len(names) |-> GroupPlan(p, names[i])]
<1>1. names \in Seq(STRING)
  BY DEF Packages
<1>2. \A i \in 1..Len(names) : GroupPlan(p, names[i]) \in Plans(p)
  BY GroupPlanFits
<1> HIDE DEF names
<1>3. seqs \in Seq(Plans(p))
  BY <1>1, <1>2
<1>4. FlattenSeq(seqs) \in Plans(p)
  BY <1>3, FlattenPlans
<1> QED
  BY <1>4, WrongPlan DEF GroupsPlan, ForAll, seqs, names

LEMMA AppsPlanFits == ASSUME NEW p \in Packages PROVE AppsPlan(p) \in Plans(p)
<1> DEFINE names == p.apps
           seqs == [i \in 1..Len(names) |-> AppPlan(p, names[i])]
<1>1. names \in Seq(Apps)
  BY DEF Packages
<1>2. \A i \in 1..Len(names) : AppPlan(p, names[i]) \in Plans(p)
  BY <1>1, ElementType, AppPlanFits
<1> HIDE DEF names
<1>3. seqs \in Seq(Plans(p))
  BY <1>1, <1>2
<1>4. FlattenSeq(seqs) \in Plans(p)
  BY <1>3, FlattenPlans
<1> QED
  BY <1>4, WrongPlan DEF AppsPlan, ForAll, seqs, names

LEMMA PackagePlanFits ==
  ASSUME NEW p \in Packages
  PROVE  PublicPlan(p) \o GroupsPlan(p) \o AppsPlan(p) \in Plans(p)
<1>1. PublicPlan(p) \o GroupsPlan(p) \in Plans(p)
  BY PublicPlanFits, GroupsPlanFits, PlansConcat
<1> QED
  BY <1>1, AppsPlanFits, PlansConcat

LEMMA EachFits ==
  ASSUME NEW p, NEW a \in WithTable(p), NEW S, NEW do \in OnResource, NEW kind,
         IF do = "default" THEN kind \in Kinds ELSE kind = "",
         \A r \in S : Asked(p, Call(do, a, r, kind))
  PROVE  ForEach(S, do, a, kind) \in Seq(FitsIn(p, a))
<1> DEFINE X == FitsIn(p, a)
           One(r) == IF r \in S THEN <<Call(do, a, r, kind)>> ELSE <<>>
           seqs == [i \in 1..Len(ResourceList) |-> One(ResourceList[i])]
<1>1. ASSUME NEW r \in Resources PROVE One(r) \in Seq(X)
  <2> DEFINE c == Call(do, a, r, kind)
  <2>1. c.do = do /\ c.area = a /\ c.res = r /\ c.kind = kind /\ a \in Configured(p) /\ a \in Area
    BY DEF Call, WithTable, Configured
  <2>2. c \in Calls
    BY DEF Calls, Call, OnResource, WithTable, Configured
  <2> HIDE DEF c
  <2>3. ASSUME r \in S PROVE c \in X
    <3>1. Asked(p, c)
      BY <2>3 DEF c
    <3> QED
      BY <2>1, <2>2, <3>1 DEF FitsIn, Fits, OnResource
  <2> HIDE DEF X
  <2>4. r \in S => <<c>> \in Seq(X)
    BY <2>3, OneType
  <2>5. <<>> \in Seq(X)
    BY EmptyType
  <2> QED
    BY <2>4, <2>5 DEF c
<1>2. ResourceList \in Seq(Resources)
  BY InstallAssumption
<1> HIDE DEF X, One
<1>3. \A i \in 1..Len(ResourceList) : One(ResourceList[i]) \in Seq(X)
  BY <1>1, <1>2, ElementType
<1>4. seqs \in Seq(Seq(X))
  <2> DEFINE n == Len(ResourceList)
  <2>1. n \in Nat
    BY <1>2, LenType
  <2>2. DOMAIN seqs = 1..n /\ seqs = [i \in 1..n |-> seqs[i]] /\ \A i \in 1..n : seqs[i] \in Seq(X)
    BY <1>3
  <2> HIDE DEF n, seqs
  <2> QED
    BY <2>1, <2>2, ListType
<1>5. FlattenSeq(seqs) \in Seq(X)
  BY <1>4, FlattenType
<1> QED
  BY <1>5 DEF ForEach, ForAll, X, One

\* The calls that are made for the resources of which the tables differ, or that
\* the rule is about, are asked for.
LEMMA ResourcesAsked ==
  ASSUME NEW p, NEW a
  PROVE  /\ \A r \in Obsolete(p, a) : /\ Asked(p, Call("obsolete", a, r, ""))
                                      /\ Asked(p, Call("deleteEntry", a, r, ""))
         /\ \A r \in PolicyChange(p, a) : Asked(p, Call("changePolicy", a, r, ""))
         /\ \A r \in Changed(p, a) : Asked(p, Call("writeEntry", a, r, ""))
         /\ \A kind \in LookUpRules[Rule(p, a)].affects, r \in DefaultsDue(p, a) :
              Asked(p, Call("default", a, r, kind))
         /\ "normal" \in LookUpRules[Rule(p, a)].affects =>
              \A r \in DataDue(p, a) : Asked(p, Call("clearData", a, r, ""))
BY DEF Obsolete, Changed, PolicyChange, DefaultsDue, DataDue, Asked, Call

LEMMA FolderPlanFits ==
  ASSUME NEW p, NEW a \in WithTable(p)
  PROVE  FolderPlan(p, a) \in Seq(FitsIn(p, a))
<1> DEFINE X == FitsIn(p, a)
           obsolete == ForEach(Obsolete(p, a), "obsolete", a, "")
           moved == ForEach(PolicyChange(p, a), "changePolicy", a, "")
<1>1. obsolete \in Seq(X) /\ moved \in Seq(X)
  BY EachFits, ResourcesAsked DEF OnResource
<1>2. \A kind \in Kinds : DefaultPlan(p, a, kind) \in Seq(X)
  <2> TAKE kind \in Kinds
  <2>1. <<>> \in Seq(X)
    BY EmptyType
  <2>2. kind \in LookUpRules[Rule(p, a)].affects =>
          ForEach(DefaultsDue(p, a), "default", a, kind) \in Seq(X)
    BY EachFits, ResourcesAsked DEF OnResource
  <2> HIDE DEF X
  <2> QED
    BY <2>1, <2>2 DEF DefaultPlan, DefaultsDue
<1>3. NonDefaultPlan(p, a) \in Seq(X)
  <2>1. <<>> \in Seq(X)
    BY EmptyType
  <2>2. "normal" \in LookUpRules[Rule(p, a)].affects =>
          ForEach(DataDue(p, a), "clearData", a, "") \in Seq(X)
    BY EachFits, ResourcesAsked DEF OnResource
  <2> HIDE DEF X
  <2> QED
    BY <2>1, <2>2 DEF NonDefaultPlan, DataDue
<1>4. UpdateRctPlan(p, a) \in Seq(X)
  <2>1. /\ ForEach(Obsolete(p, a), "deleteEntry", a, "") \in Seq(X)
        /\ ForEach(Changed(p, a), "writeEntry", a, "") \in Seq(X)
    BY EachFits, ResourcesAsked DEF OnResource
  <2> HIDE DEF X
  <2> QED
    BY <2>1, ConcatType DEF UpdateRctPlan
<1> HIDE DEF X, obsolete, moved
<1>5. DefaultPlan(p, a, "factory") \in Seq(X) /\ DefaultPlan(p, a, "configurable") \in Seq(X)
  BY <1>2 DEF Kinds
<1>6. obsolete \o moved \in Seq(X)
  BY <1>1, ConcatType
<1>7. obsolete \o moved \o DefaultPlan(p, a, "factory") \in Seq(X)
  BY <1>5, <1>6, ConcatType
<1>8. obsolete \o moved \o DefaultPlan(p, a, "factory") \o DefaultPlan(p, a, "configurable")
        \in Seq(X)
  BY <1>5, <1>7, ConcatType
<1>9. obsolete \o moved \o DefaultPlan(p, a, "factory") \o DefaultPlan(p, a, "configurable")
        \o NonDefaultPlan(p, a) \in Seq(X)
  BY <1>3, <1>8, ConcatType
<1>10. obsolete \o moved \o DefaultPlan(p, a, "factory") \o DefaultPlan(p, a, "configurable")
        \o NonDefaultPlan(p, a) \o UpdateRctPlan(p, a) \in Seq(X)
  BY <1>4, <1>9, ConcatType
<1> QED
  BY <1>10 DEF FolderPlan, obsolete, moved, X

-----------------------------------------------------------------------------
(* What one call makes of a tree. *)

\* What an attempt leaves alone in an area it does not configure.
Same(t, u, a) ==
  /\ u.rct[a] = t.rct[a]
  /\ \A s \in Of(a), st \in Stores : u.data[st][s] = t.data[st][s]
  /\ \A d \in Defaults : d[3] = a => u.def[d] = t.def[d]
  /\ a \in Groups => u.content[a] = t.content[a]
  /\ a \in t.there => a \in u.there

\* A call in an area leaves the others alone, but for the links the package makes,
\* or makes anew, of the members of a group.
Within(p, t, u, a) ==
  /\ u \in Tree
  /\ \A b \in Area \ {a} : Same(t, u, b)
  /\ \A b \in Apps \ {a}, s \in Shared :
       (s \in t.link[b]) # (s \in u.link[b]) => s = a /\ b \in p.members[a]

\* A call that makes nobody a member and gives nobody resources.
Keeps(t, u) ==
  /\ \A g \in Groups : u.content[g] \in {t.content[g], NoContent}
  /\ \A b \in Apps : u.rct[b] \in {t.rct[b], NoTable}

\* Such a call in an area.
Tends(p, t, u, a) == Within(p, t, u, a) /\ Keeps(t, u)

LEMMA TreeParts ==
  ASSUME NEW t \in Tree
  PROVE  /\ t.there \in SUBSET Area /\ t.rct \in [Area -> [Resources -> Configs]]
         /\ t.data \in [Stores -> [Slots -> Values]] /\ t.def \in [Defaults -> Values]
         /\ t.content \in [Groups -> ({NoContent} \cup SUBSET Apps)]
         /\ t.link \in [Apps -> SUBSET Shared]
         /\ t = [there |-> t.there, rct |-> t.rct, data |-> t.data, def |-> t.def,
                 content |-> t.content, link |-> t.link]
BY DEF Tree

LEMMA SlotArea == ASSUME NEW s \in Slots PROVE s[1] \in Area /\ s[3] \in Resources
BY InstallAssumption

LEMMA AbsentType == Absent \in Values
BY DEF Values

LEMMA SameTends == ASSUME NEW p, NEW t \in Tree, NEW a PROVE Tends(p, t, t, a)
BY DEF Tends, Keeps, Within, Same

LEMMA PutParts ==
  ASSUME NEW t \in Tree, NEW store, NEW S, NEW v \in Values
  PROVE  /\ Put(t, store, S, v) \in Tree
         /\ Put(t, store, S, v).there = t.there /\ Put(t, store, S, v).rct = t.rct
         /\ Put(t, store, S, v).def = t.def /\ Put(t, store, S, v).content = t.content
         /\ Put(t, store, S, v).link = t.link
         /\ \A st \in Stores, s \in Slots :
              Put(t, store, S, v).data[st][s]
                = IF st = store /\ s \in S THEN v ELSE t.data[st][s]
<1> DEFINE u == Put(t, store, S, v)
<1>1. /\ u.there = t.there /\ u.rct = t.rct /\ u.def = t.def /\ u.content = t.content
      /\ u.link = t.link /\ u = [t EXCEPT !.data = u.data]
      /\ u.data = [t.data EXCEPT ![store] = [s \in Slots |-> IF s \in S THEN v ELSE t.data[store][s]]]
  BY TreeParts DEF Put
<1>2. \A st \in Stores : u.data[st] \in [Slots -> Values]
  BY <1>1, TreeParts
<1>3. u.data \in [Stores -> [Slots -> Values]]
  BY <1>1, <1>2, TreeParts
<1>4. \A st \in Stores, s \in Slots : u.data[st][s] = IF st = store /\ s \in S THEN v ELSE t.data[st][s]
  BY <1>1, TreeParts
<1> HIDE DEF u
<1>5. u \in Tree
  BY <1>1, <1>3, TreeParts DEF Tree
<1> QED
  BY <1>1, <1>4, <1>5 DEF u

LEMMA PutTends ==
  ASSUME NEW p, NEW t \in Tree, NEW a \in Area, NEW store, NEW S \in SUBSET Of(a), NEW v \in Values
  PROVE  Tends(p, t, Put(t, store, S, v), a)
<1> DEFINE u == Put(t, store, S, v)
<1>1. /\ u \in Tree /\ u.there = t.there /\ u.rct = t.rct /\ u.def = t.def
      /\ u.content = t.content /\ u.link = t.link
      /\ \A st \in Stores, s \in Slots :
           u.data[st][s] = IF st = store /\ s \in S THEN v ELSE t.data[st][s]
  BY PutParts
<1> HIDE DEF u
<1>2. \A b \in Area \ {a} : \A s \in Of(b) : s \in Slots /\ s \notin S
  BY DEF Of
<1> QED
  BY <1>1, <1>2 DEF Tends, Keeps, Within, Same, u

LEMMA WipeParts ==
  ASSUME NEW t \in Tree, NEW a \in Area, NEW parts
  PROVE  /\ Wipe(t, a, parts) \in Tree
         /\ Wipe(t, a, parts).there = t.there /\ Wipe(t, a, parts).link = t.link
         /\ \A b \in Area : Wipe(t, a, parts).rct[b]
              = IF b = a /\ "table" \in parts THEN NoTable ELSE t.rct[b]
         /\ \A g \in Groups : Wipe(t, a, parts).content[g]
              = IF g = a /\ "table" \in parts THEN NoContent ELSE t.content[g]
         /\ \A b \in Area \ {a} : Same(t, Wipe(t, a, parts), b)
<1> DEFINE u == Wipe(t, a, parts)
           table == IF "table" \in parts THEN NoTable ELSE t.rct[a]
           rct == [t.rct EXCEPT ![a] = table]
           content == [g \in Groups |-> IF g = a /\ "table" \in parts THEN NoContent ELSE t.content[g]]
           data == [st \in Stores |-> [s \in Slots |->
                      IF "data" \in parts /\ s[1] = a THEN Absent ELSE t.data[st][s]]]
           def == [d \in Defaults |-> IF "defaults" \in parts /\ d[3] = a THEN Absent ELSE t.def[d]]
<1>1. table \in [Resources -> Configs]
  BY TreeParts DEF NoTable, Configs
<1>2. content \in [Groups -> ({NoContent} \cup SUBSET Apps)]
  <2>1. t.content \in [Groups -> ({NoContent} \cup SUBSET Apps)]
    BY TreeParts
  <2>2. \A g \in Groups : content[g] \in ({NoContent} \cup SUBSET Apps)
    BY <2>1
  <2> QED
    BY <2>2
<1>3. data \in [Stores -> [Slots -> Values]] /\ def \in [Defaults -> Values]
  BY TreeParts, AbsentType
<1>4. \A b \in Area \ {a} : \A s \in Of(b) : \A st \in Stores : data[st][s] = t.data[st][s]
  BY DEF Of
<1>10. \A b \in Area \ {a} : \A d \in Defaults : d[3] = b => def[d] = t.def[d]
  OBVIOUS
<1>5. \A g \in Groups : content[g] = IF g = a /\ "table" \in parts THEN NoContent ELSE t.content[g]
  OBVIOUS
<1>6. u = [t EXCEPT !.rct = rct, !.content = content, !.data = data, !.def = def]
  <2>1. t.rct = [b \in Area |-> t.rct[b]] /\ DOMAIN t.rct = Area
    BY TreeParts
  <2>2. [t EXCEPT !.rct[a] = table, !.content = content, !.data = data, !.def = def]
          = [t EXCEPT !.rct = rct, !.content = content, !.data = data, !.def = def]
    BY TreeParts
  <2> QED
    BY <2>2 DEF Wipe
<1> HIDE DEF u, table, content, data, def
<1>7. rct \in [Area -> [Resources -> Configs]]
  BY <1>1, TreeParts
<1>8. \A b \in Area : rct[b] = IF b = a THEN table ELSE t.rct[b]
  BY TreeParts
<1> HIDE DEF rct
<1>9. /\ u \in Tree /\ u.there = t.there /\ u.link = t.link /\ u.rct = rct /\ u.data = data
      /\ u.def = def /\ u.content = content
  BY <1>2, <1>3, <1>6, <1>7 DEF Tree
<1>11. \A b \in Area : u.rct[b] = IF b = a /\ "table" \in parts THEN NoTable ELSE t.rct[b]
  BY <1>8, <1>9 DEF table
<1> HIDE DEF u
<1>12. ASSUME NEW b \in Area \ {a} PROVE Same(t, u, b)
  <2>1. u.rct[b] = t.rct[b] /\ (b \in Groups => u.content[b] = t.content[b])
    BY <1>5, <1>8, <1>9
  <2>2. \A s \in Of(b), st \in Stores : u.data[st][s] = t.data[st][s]
    BY <1>4, <1>9
  <2>3. \A d \in Defaults : d[3] = b => u.def[d] = t.def[d]
    BY <1>9, <1>10
  <2> QED
    BY <1>9, <2>1, <2>2, <2>3 DEF Same
<1> QED
  BY <1>5, <1>9, <1>11, <1>12 DEF u

LEMMA WipeTends ==
  ASSUME NEW p, NEW t \in Tree, NEW a \in Area, NEW parts
  PROVE  Tends(p, t, Wipe(t, a, parts), a)
<1> DEFINE u == Wipe(t, a, parts)
<1>1. /\ u \in Tree /\ u.link = t.link
      /\ \A b \in Area : u.rct[b] \in {t.rct[b], NoTable}
      /\ \A g \in Groups : u.content[g] \in {t.content[g], NoContent}
      /\ \A b \in Area \ {a} : Same(t, u, b)
  BY WipeParts
<1> HIDE DEF u
<1> QED
  BY <1>1 DEF Tends, Keeps, Within, Area, u

\* The links go with the folder.
Unlinked(t, a) == [b \in Apps |-> IF b = a THEN {} ELSE t.link[b]]

LEMMA UnlinkedTends ==
  ASSUME NEW p, NEW t \in Tree, NEW a \in Area, NEW parts, NEW there \in SUBSET Area,
         \A b \in Area \ {a} : b \in t.there => b \in there
  PROVE  /\ Tends(p, t, [Wipe(t, a, parts) EXCEPT !.link = Unlinked(t, a)], a)
         /\ Tends(p, t, [Wipe(t, a, parts) EXCEPT !.there = there, !.link = Unlinked(t, a)], a)
<1> DEFINE u == Wipe(t, a, parts)
           v == [u EXCEPT !.link = Unlinked(t, a)]
           w == [u EXCEPT !.there = there, !.link = Unlinked(t, a)]
<1>1. Unlinked(t, a) \in [Apps -> SUBSET Shared]
  BY TreeParts DEF Unlinked
<1>2. \A b \in Apps \ {a} : Unlinked(t, a)[b] = t.link[b]
  BY DEF Unlinked
<1>3. u \in Tree /\ (\A b \in Area \ {a} : Same(t, u, b)) /\ Keeps(t, u)
  BY WipeParts, WipeTends DEF Tends
<1> HIDE DEF u
<1>4. /\ v \in Tree /\ v.link = Unlinked(t, a) /\ v.there = u.there /\ v.rct = u.rct
      /\ v.data = u.data /\ v.def = u.def /\ v.content = u.content
  BY <1>1, <1>3 DEF Tree
<1>5. /\ w \in Tree /\ w.link = Unlinked(t, a) /\ w.there = there /\ w.rct = u.rct
      /\ w.data = u.data /\ w.def = u.def /\ w.content = u.content
  BY <1>1, <1>3 DEF Tree
<1> HIDE DEF v, w
<1>6. \A b \in Area \ {a} : Same(t, v, b) /\ Same(t, w, b)
  BY <1>3, <1>4, <1>5 DEF Same
<1>7. Keeps(t, v) /\ Keeps(t, w)
  BY <1>3, <1>4, <1>5 DEF Keeps
<1> QED
  BY <1>2, <1>4, <1>5, <1>6, <1>7 DEF Tends, Within, u, v, w

\* RemoveData, its three outcomes.
LEMMA DeleteAreaLink ==
  ASSUME NEW t \in Tree, NEW a \in Area
  PROVE  /\ DeleteArea(t, a).link = Unlinked(t, a)
         /\ DeleteArea(t, a) = [Wipe(t, a, Parts) EXCEPT !.there = t.there \ {a},
                                                         !.link = Unlinked(t, a)]
<1> DEFINE u == Wipe(t, a, Parts)
<1>1. u \in Tree /\ u.link = t.link /\ u.there = t.there
  BY WipeParts
<1> HIDE DEF u
<1>2. DeleteArea(t, a) = [u EXCEPT !.there = u.there \ {a},
                                   !.link = [b \in Apps |-> IF b = a THEN {} ELSE u.link[b]]]
  BY <1>1, TreeParts DEF DeleteArea, u
<1>3. DeleteArea(t, a) = [u EXCEPT !.there = t.there \ {a}, !.link = Unlinked(t, a)]
  BY <1>1, <1>2 DEF Unlinked
<1>4. [u EXCEPT !.there = t.there \ {a}, !.link = Unlinked(t, a)].link = Unlinked(t, a)
  BY <1>1 DEF Tree
<1> QED
  BY <1>3, <1>4 DEF u

LEMMA FolderTends ==
  ASSUME NEW p, NEW t \in Tree, NEW a \in Area
  PROVE  Tends(p, t, [t EXCEPT !.there = t.there \cup {a}], a)
<1> DEFINE u == [t EXCEPT !.there = t.there \cup {a}]
<1>1. /\ u \in Tree /\ u.there = t.there \cup {a} /\ u.rct = t.rct /\ u.data = t.data
      /\ u.def = t.def /\ u.content = t.content /\ u.link = t.link
  BY DEF Tree
<1> HIDE DEF u
<1> QED
  BY <1>1 DEF Tends, Keeps, Within, Same, u

LEMMA LinkTends ==
  ASSUME NEW p, NEW t \in Tree, NEW a \in Apps, NEW g \in Shared
  PROVE  /\ Tends(p, t, AddMemberToGroup(t, a, g), a)
         /\ \A b \in Apps : t.link[b] \subseteq AddMemberToGroup(t, a, g).link[b]
         /\ g \in AddMemberToGroup(t, a, g).link[a]
<1> DEFINE link == [t.link EXCEPT ![a] = t.link[a] \cup {g}]
           there == t.there \cup {a}
           u == AddMemberToGroup(t, a, g)
<1>1. /\ link \in [Apps -> SUBSET Shared] /\ g \in link[a]
      /\ \A b \in Apps : t.link[b] \subseteq link[b] /\ (b # a => link[b] = t.link[b])
  BY TreeParts
<1>2. there \in SUBSET Area /\ \A b \in t.there : b \in there
  BY TreeParts DEF Area
<1>3. u = [t EXCEPT !.link = link, !.there = there]
  BY TreeParts DEF AddMemberToGroup
<1> HIDE DEF link, there, u
<1>4. /\ u \in Tree /\ u.there = there /\ u.rct = t.rct /\ u.data = t.data /\ u.def = t.def
      /\ u.content = t.content /\ u.link = link
  BY <1>1, <1>2, <1>3 DEF Tree
<1> QED
  BY <1>1, <1>2, <1>4 DEF Tends, Keeps, Within, Same, u

\* New members have their links; what should remove the others' does nothing.
LEMMA MembersEffect ==
  ASSUME NEW p, NEW t \in Tree, NEW g \in Groups, NEW S \in SUBSET (Apps \cap p.members[g])
  PROVE  /\ Tends(p, t, AddMembersToGroup(t, S, g), g)
         /\ \A b \in Apps : t.link[b] \subseteq AddMembersToGroup(t, S, g).link[b]
         /\ \A b \in S : g \in AddMembersToGroup(t, S, g).link[b]
<1> DEFINE link == [b \in Apps |-> IF b \in S THEN t.link[b] \cup {g} ELSE t.link[b]]
           there == t.there \cup S
           u == AddMembersToGroup(t, S, g)
<1>1. /\ link \in [Apps -> SUBSET Shared] /\ (\A b \in S : g \in link[b])
      /\ \A b \in Apps : t.link[b] \subseteq link[b]
      /\ \A b \in Apps, s \in Shared :
           (s \in t.link[b]) # (s \in link[b]) => s = g /\ b \in p.members[g]
  BY TreeParts DEF Shared
<1>2. there \in SUBSET Area /\ \A b \in t.there : b \in there
  BY TreeParts DEF Area
<1>3. u = [t EXCEPT !.link = link, !.there = there]
  BY TreeParts DEF AddMembersToGroup
<1> HIDE DEF link, there, u
<1>4. /\ u \in Tree /\ u.there = there /\ u.rct = t.rct /\ u.data = t.data /\ u.def = t.def
      /\ u.content = t.content /\ u.link = link
  BY <1>1, <1>2, <1>3 DEF Tree
<1> QED
  BY <1>1, <1>2, <1>4 DEF Tends, Keeps, Within, Same, u

\* A link that is deleted before it is made anew.
LEMMA LinkDeletedParts ==
  ASSUME NEW t \in Tree, NEW b \in Apps, NEW g
  PROVE  /\ LinkDeleted(t, b, g) \in Tree
         /\ LinkDeleted(t, b, g).there = t.there /\ LinkDeleted(t, b, g).rct = t.rct
         /\ LinkDeleted(t, b, g).data = t.data /\ LinkDeleted(t, b, g).def = t.def
         /\ LinkDeleted(t, b, g).content = t.content
         /\ \A c \in Apps, s \in Shared :
              (s \in t.link[c]) # (s \in LinkDeleted(t, b, g).link[c]) => c = b /\ s = g
<1> DEFINE link == [t.link EXCEPT ![b] = t.link[b] \ {g}]
           u == LinkDeleted(t, b, g)
<1>1. /\ link \in [Apps -> SUBSET Shared]
      /\ \A c \in Apps, s \in Shared : (s \in t.link[c]) # (s \in link[c]) => c = b /\ s = g
  BY TreeParts
<1>2. u = [t EXCEPT !.link = link]
  BY TreeParts DEF LinkDeleted
<1> HIDE DEF link, u
<1>3. /\ u \in Tree /\ u.there = t.there /\ u.rct = t.rct /\ u.data = t.data /\ u.def = t.def
      /\ u.content = t.content /\ u.link = link
  BY <1>1, <1>2 DEF Tree
<1> QED
  BY <1>1, <1>3 DEF u

LEMMA LinkDeletedTends ==
  ASSUME NEW p, NEW a, NEW t \in Tree, NEW u \in Tree, NEW b \in Apps, NEW g \in Shared,
         Tends(p, t, u, a), b = a \/ (g = a /\ b \in p.members[a])
  PROVE  Tends(p, t, LinkDeleted(u, b, g), a)
<1> DEFINE v == LinkDeleted(u, b, g)
<1>1. /\ v \in Tree /\ v.there = u.there /\ v.rct = u.rct /\ v.data = u.data /\ v.def = u.def
      /\ v.content = u.content
      /\ \A c \in Apps, s \in Shared : (s \in u.link[c]) # (s \in v.link[c]) => c = b /\ s = g
  BY LinkDeletedParts
<1> HIDE DEF v
<1>2. \A c \in Area \ {a} : Same(t, v, c)
  BY <1>1 DEF Tends, Within, Same
<1>3. Keeps(t, v)
  BY <1>1 DEF Tends, Keeps
<1>4. \A c \in Apps \ {a}, s \in Shared :
        (s \in t.link[c]) # (s \in v.link[c]) => s = a /\ c \in p.members[a]
  BY <1>1 DEF Tends, Within
<1> QED
  BY <1>1, <1>2, <1>3, <1>4 DEF Tends, Within, v

LEMMA RemoveMembersStays ==
  ASSUME NEW t \in Tree, NEW S, NEW g
  PROVE  RemoveMembersFromGroup(t, S, g) = t
<1> DEFINE link == [b \in Apps |-> IF b \in S /\ g \notin t.link[b] THEN t.link[b] \ {g} ELSE t.link[b]]
<1>1. link = t.link
  <2>1. \A b \in Apps : link[b] = t.link[b]
    OBVIOUS
  <2>2. t.link \in [Apps -> SUBSET Shared]
    BY TreeParts
  <2> QED
    BY <2>1, <2>2
<1>2. RemoveMembersFromGroup(t, S, g) = [t EXCEPT !.link = link]
  BY TreeParts DEF RemoveMembersFromGroup
<1> HIDE DEF link
<1>3. [t EXCEPT !.link = t.link] = t
  BY DEF Tree
<1> QED
  BY <1>1, <1>2, <1>3

WithContent(t, g, m) == [t EXCEPT !.content[g] = m]
WithEntry(t, a, r, c) == [t EXCEPT !.rct[a][r] = c]

LEMMA ContentParts ==
  ASSUME NEW t \in Tree, NEW g \in Groups, NEW m \in {NoContent} \cup (SUBSET Apps)
  PROVE  /\ WithContent(t, g, m) \in Tree
         /\ WithContent(t, g, m).there = t.there /\ WithContent(t, g, m).rct = t.rct
         /\ WithContent(t, g, m).data = t.data /\ WithContent(t, g, m).def = t.def
         /\ WithContent(t, g, m).link = t.link /\ WithContent(t, g, m).content[g] = m
         /\ \A h \in Groups : h # g => WithContent(t, g, m).content[h] = t.content[h]
<1> DEFINE v == WithContent(t, g, m)
           content == [t.content EXCEPT ![g] = m]
<1>1. /\ content \in [Groups -> ({NoContent} \cup SUBSET Apps)] /\ content[g] = m
      /\ \A h \in Groups : h # g => content[h] = t.content[h]
  <2>1. t.content \in [Groups -> ({NoContent} \cup SUBSET Apps)]
    BY TreeParts
  <2> QED
    BY <2>1
<1>2. v = [t EXCEPT !.content = content]
  BY TreeParts DEF WithContent
<1> HIDE DEF content, v
<1>3. /\ v \in Tree /\ v.there = t.there /\ v.rct = t.rct /\ v.data = t.data /\ v.def = t.def
      /\ v.content = content /\ v.link = t.link
  BY <1>1, <1>2 DEF Tree
<1> QED
  BY <1>1, <1>3 DEF v

LEMMA ContentWithin ==
  ASSUME NEW p, NEW t \in Tree, NEW u \in Tree, NEW g \in Groups,
         NEW m \in {NoContent} \cup (SUBSET Apps), Tends(p, t, u, g)
  PROVE  Within(p, t, WithContent(u, g, m), g)
<1> DEFINE v == WithContent(u, g, m)
<1>1. /\ v \in Tree /\ v.there = u.there /\ v.rct = u.rct /\ v.data = u.data /\ v.def = u.def
      /\ v.link = u.link /\ \A h \in Groups : h # g => v.content[h] = u.content[h]
  BY ContentParts
<1> HIDE DEF v
<1>2. \A b \in Area \ {g} : Same(t, u, b)
  BY DEF Tends, Within
<1>3. \A b \in Area \ {g} : Same(t, v, b)
  BY <1>1, <1>2 DEF Same
<1>4. Within(p, t, v, g)
  BY <1>1, <1>3 DEF Tends, Within
<1> QED
  BY <1>4 DEF v

\* The list of members, half written.
LEMMA ContentGoneTends ==
  ASSUME NEW p, NEW t \in Tree, NEW u \in Tree, NEW g \in Groups, Tends(p, t, u, g)
  PROVE  Tends(p, t, WithContent(u, g, NoContent), g)
<1> DEFINE v == WithContent(u, g, NoContent)
<1>1. /\ v.rct = u.rct /\ v.content[g] = NoContent
      /\ \A h \in Groups : h # g => v.content[h] = u.content[h]
  BY ContentParts
<1>2. Within(p, t, v, g)
  BY ContentWithin
<1> HIDE DEF v
<1>3. Keeps(t, v)
  BY <1>1 DEF Tends, Keeps
<1> QED
  BY <1>2, <1>3 DEF Tends, v

LEMMA DataOfType == ASSUME NEW a, NEW r PROVE DataOf(a, r) \in SUBSET Of(a)
BY DEF DataOf

\* A tree that differs in the defaults of an area.
LEMMA DefaultsTends ==
  ASSUME NEW p, NEW t \in Tree, NEW a, NEW def \in [Defaults -> Values],
         \A d \in Defaults : d[3] # a => def[d] = t.def[d]
  PROVE  Tends(p, t, [t EXCEPT !.def = def], a)
<1> DEFINE u == [t EXCEPT !.def = def]
<1>1. /\ u \in Tree /\ u.there = t.there /\ u.rct = t.rct /\ u.data = t.data
      /\ u.def = def /\ u.content = t.content /\ u.link = t.link
  BY DEF Tree
<1> HIDE DEF u
<1>2. \A b \in Area \ {a} : Same(t, u, b)
  BY <1>1 DEF Same
<1> QED
  BY <1>1, <1>2 DEF Tends, Keeps, Within, u

LEMMA SetDefaultTends ==
  ASSUME NEW p, NEW t \in Tree, NEW kind \in Kinds, NEW form, NEW a \in Area, NEW r \in Resources,
         NEW v \in Values
  PROVE  Tends(p, t, [t EXCEPT !.def[<<kind, form, a, r>>] = v], a)
<1> DEFINE e == <<kind, form, a, r>>
           def == [t.def EXCEPT ![e] = v]
<1>1. e[3] = a
  OBVIOUS
<1> HIDE DEF e
<1>2. def \in [Defaults -> Values] /\ \A d \in Defaults : d[3] # a => def[d] = t.def[d]
  BY <1>1, TreeParts
<1>3. [t EXCEPT !.def[e] = v] = [t EXCEPT !.def = def]
  BY TreeParts
<1> HIDE DEF def
<1>4. Tends(p, t, [t EXCEPT !.def = def], a)
  BY <1>2, DefaultsTends
<1> QED
  BY <1>3, <1>4 DEF e

LEMMA TendsAgain ==
  ASSUME NEW p, NEW a, NEW t, NEW u, NEW v, Tends(p, t, u, a), Tends(p, u, v, a),
         a \in Groups => t.link = u.link
  PROVE  Tends(p, t, v, a)
<1>1. \A b \in Area \ {a} : Same(t, v, b)
  BY DEF Tends, Within, Same
<1>2. Keeps(t, v)
  BY DEF Tends, Keeps
<1>3. \A b \in Apps \ {a}, s \in Shared :
        (s \in t.link[b]) # (s \in v.link[b]) => s = a /\ b \in p.members[a]
  BY DEF Tends, Within
<1> QED
  BY <1>1, <1>2, <1>3 DEF Tends, Within

LEMMA ObsoleteTends ==
  ASSUME NEW p, NEW t \in Tree, NEW a \in Area, NEW r \in Resources, NEW parts
  PROVE  Tends(p, t, UninstallObsolete(t, a, r, parts), a)
<1> DEFINE c == t.rct[a][r]
           def == [d \in Defaults |-> IF d[1] \in parts /\ d[2] = Form(c) /\ d[3] = a /\ d[4] = r
                                        THEN Absent ELSE t.def[d]]
           less == [t EXCEPT !.def = def]
<1>1. def \in [Defaults -> Values] /\ \A d \in Defaults : d[3] # a => def[d] = t.def[d]
  BY TreeParts, AbsentType
<1>2. UninstallObsolete(t, a, r, parts) \in {t, less, Put(less, c, DataOf(a, r), Absent)}
  BY TreeParts DEF UninstallObsolete
<1> HIDE DEF c, def
<1>3. Tends(p, t, less, a)
  BY <1>1, DefaultsTends
<1>4. less \in Tree /\ less.link = t.link
  BY <1>1 DEF Tree
<1> HIDE DEF less
<1>5. Tends(p, less, Put(less, c, DataOf(a, r), Absent), a)
  BY <1>4, PutTends, DataOfType, AbsentType
<1>6. Tends(p, t, Put(less, c, DataOf(a, r), Absent), a)
  BY <1>3, <1>4, <1>5, TendsAgain
<1> QED
  BY <1>2, <1>3, <1>6, SameTends

LEMMA MoveTends ==
  ASSUME NEW p, NEW t \in Tree, NEW a \in Area, NEW S \in SUBSET Of(a), NEW from \in Stores, NEW to
  PROVE  Tends(p, t, MoveKeys(t, S, from, to), a) /\ MoveKeys(t, S, from, to).link = t.link
<1> DEFINE data == [st \in Stores |-> [s \in Slots |->
                      CASE s \in S /\ t.data[from][s] # Absent /\ st = to -> t.data[from][s]
                        [] s \in S /\ st = from -> Absent
                        [] OTHER -> t.data[st][s]]]
           u == MoveKeys(t, S, from, to)
<1>1. data \in [Stores -> [Slots -> Values]]
  <2>1. \A st \in Stores, s \in Slots : data[st][s] \in {t.data[from][s], Absent, t.data[st][s]}
    OBVIOUS
  <2>2. \A st \in Stores, s \in Slots : t.data[st][s] \in Values
    BY TreeParts
  <2>3. \A st \in Stores, s \in Slots : data[st][s] \in Values
    BY <2>1, <2>2, AbsentType
  <2> QED
    BY <2>3
<1>2. \A st \in Stores, s \in Slots : s \notin S => data[st][s] = t.data[st][s]
  OBVIOUS
<1>3. u = [t EXCEPT !.data = data]
  BY TreeParts DEF MoveKeys
<1> HIDE DEF data, u
<1>4. /\ u \in Tree /\ u.there = t.there /\ u.rct = t.rct /\ u.data = data
      /\ u.def = t.def /\ u.content = t.content /\ u.link = t.link
  BY <1>1, <1>3 DEF Tree
<1>5. \A b \in Area \ {a} : \A s \in Of(b) : s \in Slots /\ s \notin S
  BY DEF Of
<1>6. \A b \in Area \ {a} : Same(t, u, b)
  BY <1>2, <1>4, <1>5 DEF Same
<1> QED
  BY <1>4, <1>6 DEF Tends, Keeps, Within, u

LEMMA EntryWithin ==
  ASSUME NEW p, NEW t \in Tree, NEW a \in Area, NEW r \in Resources, NEW c \in Configs
  PROVE  /\ Within(p, t, WithEntry(t, a, r, c), a)
         /\ WithEntry(t, a, r, c).content = t.content /\ WithEntry(t, a, r, c).link = t.link
         /\ \A b \in Area \ {a} : WithEntry(t, a, r, c).rct[b] = t.rct[b]
<1> DEFINE rct == [t.rct EXCEPT ![a][r] = c]
           u == WithEntry(t, a, r, c)
<1>1. rct \in [Area -> [Resources -> Configs]] /\ \A b \in Area \ {a} : rct[b] = t.rct[b]
  BY TreeParts
<1>2. u = [t EXCEPT !.rct = rct]
  BY TreeParts DEF WithEntry
<1> HIDE DEF rct, u
<1>3. /\ u \in Tree /\ u.there = t.there /\ u.rct = rct /\ u.data = t.data
      /\ u.def = t.def /\ u.content = t.content /\ u.link = t.link
  BY <1>1, <1>2 DEF Tree
<1>4. \A b \in Area \ {a} : Same(t, u, b)
  BY <1>1, <1>3 DEF Same
<1> QED
  BY <1>1, <1>3, <1>4 DEF Within, u

-----------------------------------------------------------------------------
(* What a step makes of the tree and of what is left to do. *)

\* Besides staying in its area, a call makes members of those it links only, or of
\* those it passes over (l), and gives resources by an entry of a table only.
Effect(p, c, t, u, l) ==
  /\ Within(p, t, u, c.area)
  /\ \A g \in Groups :
       \/ u.content[g] \in {t.content[g], NoContent}
       \/ \A a \in u.content[g] :
            \/ g \in u.link[a] \/ <<a, g>> \in l
            \/ t.content[g] # NoContent /\ a \in t.content[g]
  /\ \A a \in Apps :
       \/ u.rct[a] \in {t.rct[a], NoTable}
       \/ c.do \in {"deleteEntry", "writeEntry"} /\ a = c.area

\* A link that was there is remembered.
Remembers ==
  /\ hist' \in History /\ hist'.start = hist.start /\ hist'.begun = hist.begun
  /\ \A a \in Apps, s \in Shared : Linked(a, s) => LinkedIn(tree', hist', a, s)

\* The attempt goes on with the next call, or ends.
Ends ==
  \/ /\ todo' = Tail(todo) /\ UNCHANGED <<phase, result>>
     /\ Now.do = "linkPublic" => Public \in tree'.link[Now.area]
  \/ phase' \in {"cleanup", "idle"} /\ result' \in Outcomes /\ todo' = <<>>

Goes ==
  /\ Effect(Package, Now, tree, tree', hist'.loses) /\ Remembers /\ Ends
  /\ UNCHANGED <<script, writes>> /\ faults' \in Nat

LEMMA TendsEffect ==
  ASSUME NEW p, NEW c, NEW t, NEW u, Tends(p, t, u, c.area)
  PROVE  \A l : Effect(p, c, t, u, l)
BY DEF Tends, Keeps, Effect

LEMMA EffectMore ==
  ASSUME NEW p, NEW c, NEW t, NEW u, NEW l, Effect(p, c, t, u, {})
  PROVE  Effect(p, c, t, u, l)
BY DEF Effect

LEMMA LinksType == ASSUME NEW t PROVE LinksOf(t) \in SUBSET (Apps \X Shared)
BY DEF LinksOf

\* hist.loses is kept up to date.
LEMMA LosesRemembers ==
  ASSUME TypeInv, tree' \in Tree, NEW loses \in SUBSET (Apps \X Shared),
         (hist.loses \cup LinksOf(tree)) \ LinksOf(tree') \subseteq loses,
         hist' = [hist EXCEPT !.loses = loses]
  PROVE  Remembers
<1>1. hist \in History
  BY DEF TypeInv
<1>3. /\ hist' \in History /\ hist'.start = hist.start /\ hist'.begun = hist.begun
      /\ hist'.loses = loses
  BY <1>1 DEF History
<1>4. ASSUME NEW a \in Apps, NEW s \in Shared, Linked(a, s) PROVE LinkedIn(tree', hist', a, s)
  <2> DEFINE l == <<a, s>>
  <2>1. l \in Apps \X Shared /\ l[1] = a /\ l[2] = s
    OBVIOUS
  <2> HIDE DEF l
  <2>2. s \in tree.link[a] \/ l \in hist.loses
    BY <1>4 DEF Linked, LinkedIn, l
  <2>3. s \in tree'.link[a] <=> l \in LinksOf(tree')
    BY <2>1 DEF LinksOf
  <2>4. s \in tree.link[a] <=> l \in LinksOf(tree)
    BY <2>1 DEF LinksOf
  <2>5. s \in tree'.link[a] \/ l \in hist'.loses
    BY <1>3, <2>2, <2>3, <2>4
  <2> QED
    BY <2>5 DEF Linked, LinkedIn, l
<1> QED
  BY <1>3, <1>4 DEF Remembers

LEMMA BecomeRemembers ==
  ASSUME TypeInv, tree' \in Tree,
         hist' = [hist EXCEPT !.loses = (hist.loses \cup LinksOf(tree)) \ LinksOf(tree')]
  PROVE  Remembers
<1> DEFINE loses == (hist.loses \cup LinksOf(tree)) \ LinksOf(tree')
<1>1. loses \in SUBSET (Apps \X Shared)
  BY LinksType DEF TypeInv, History
<1> QED
  BY <1>1, LosesRemembers

\* A call that has been made, and one the attempt ends with.
LEMMA DoneGoes ==
  ASSUME TypeInv, Effect(Package, Now, tree, tree', {}), Kept,
         hist' = [hist EXCEPT !.loses = (hist.loses \cup LinksOf(tree)) \ LinksOf(tree')],
         todo' = Tail(todo), UNCHANGED <<phase, result, faults>>,
         Now.do = "linkPublic" => Public \in tree'.link[Now.area]
  PROVE  Goes
<1>1. tree' \in Tree
  BY DEF Effect, Within
<1>2. Remembers
  BY <1>1, BecomeRemembers
<1> QED
  BY <1>2, EffectMore DEF Goes, Ends, Kept, TypeInv

LEMMA EndGoes ==
  ASSUME TypeInv, Effect(Package, Now, tree, tree', {}), Kept,
         hist' = [hist EXCEPT !.loses = (hist.loses \cup LinksOf(tree)) \ LinksOf(tree')],
         Fault \/ faults' = faults, Fails \/ Dies
  PROVE  Goes
<1>1. tree' \in Tree
  BY DEF Effect, Within
<1>2. Remembers
  BY <1>1, BecomeRemembers
<1>3. faults' \in Nat
  BY DEF Fault, TypeInv
<1>4. Ends
  BY DEF Ends, Fails, Dies, Outcomes
<1> QED
  BY <1>2, <1>3, <1>4, EffectMore DEF Goes, Kept

\* An attempt that is refused leaves the tree and the links as they are.
LEMMA RefusedGoes ==
  ASSUME TypeInv, Fails, Kept, UNCHANGED <<tree, faults, hist>>
  PROVE  Goes
<1>1. Effect(Package, Now, tree, tree', {})
  BY SameTends, TendsEffect DEF TypeInv
<1>2. Remembers
  BY DEF Remembers, Linked, LinkedIn, TypeInv
<1>3. Ends
  BY DEF Ends, Fails, Outcomes
<1> QED
  BY <1>1, <1>2, <1>3, EffectMore DEF Goes, Kept, TypeInv

\* An error nobody is told.
LEMMA PassedGoes ==
  ASSUME TypeInv, PassedOver, Remembers, Effect(Package, Now, tree, tree', hist'.loses),
         Now.do # "linkPublic"
  PROVE  Goes
BY DEF Goes, Ends, PassedOver, Kept, Fault, TypeInv

LEMMA UnnoticedGoes ==
  ASSUME TypeInv, NEW t, NEW S \in SUBSET (Slots \cup Defaults), Unnoticed(t, S),
         Tends(Package, tree, t, Now.area), t.link = tree.link, Now.do # "linkPublic"
  PROVE  Goes
<1>1. /\ tree' = t /\ PassedOver /\ hist' = [hist EXCEPT !.skipped = hist.skipped \cup S]
  BY DEF Unnoticed
<1>2. /\ hist' \in History /\ hist'.start = hist.start /\ hist'.begun = hist.begun
      /\ hist'.loses = hist.loses
  BY <1>1 DEF TypeInv, History
<1>3. Remembers
  BY <1>1, <1>2 DEF Remembers, Linked, LinkedIn
<1>4. Effect(Package, Now, tree, tree', hist'.loses)
  BY <1>1, TendsEffect
<1> QED
  BY <1>1, <1>3, <1>4, PassedGoes

LEMMA DoesGoes ==
  ASSUME TypeInv, NEW whole, NEW onTheWay, Does(whole, onTheWay),
         Effect(Package, Now, tree, whole, {}),
         \A t \in onTheWay : Effect(Package, Now, tree, t, {}),
         Now.do = "linkPublic" => Public \in whole.link[Now.area]
  PROVE  Goes
<1>1. CASE Become(whole) /\ todo' = Tail(todo) /\ UNCHANGED <<phase, result, faults>>
  BY <1>1, DoneGoes DEF Does, Become
<1>2. CASE Fault /\ (Fails \/ Dies) /\ \E t \in onTheWay : Become(t)
  BY <1>2, EndGoes DEF Does, Become
<1> QED
  BY <1>1, <1>2 DEF Does

LEMMA NowType ==
  ASSUME TypeInv, PackageInv, phase = "work"
  PROVE  /\ Package \in Packages /\ todo \in Seq(Fits(Package))
         /\ todo # <<>> => Now \in Fits(Package) /\ Tail(todo) \in Seq(Fits(Package))
<1>1. script \in Seq(Packages) /\ script # <<>> /\ todo \in Seq(Fits(Package))
  BY DEF TypeInv, PackageInv
<1>2. Head(script) \in Packages
  BY <1>1
<1>3. ASSUME todo # <<>> PROVE Head(todo) \in Fits(Package) /\ Tail(todo) \in Seq(Fits(Package))
  <2> DEFINE X == Fits(Package)
  <2>1. todo \in Seq(X)
    BY <1>1
  <2> HIDE DEF X
  <2>2. Head(todo) \in X /\ Tail(todo) \in Seq(X)
    BY <1>3, <2>1
  <2> QED
    BY <2>2 DEF X
<1> QED
  BY <1>1, <1>2, <1>3 DEF Package, Now

\* The call that is made, as its action sees it.
LEMMA NowFits ==
  ASSUME TypeInv, PackageInv, NEW do, Calling(do)
  PROVE  /\ Package \in Packages /\ tree \in Tree /\ Now.do = do /\ Now.area \in Area
         /\ do # "wrong" => Now.area \in Configured(Package)
         /\ do = "removeData" => Fresh(Package, Now.area)
         /\ do \in OnResource \cup {"folder"} => Now.area \in WithTable(Package)
         /\ do \in OnResource => Now.res \in Resources /\ Asked(Package, Now)
         /\ do = "members" => Now.area \in Groups
         /\ do = "linkPublic" => Now.area \in Apps
         /\ do = "default" => Now.kind \in Kinds
         /\ Now = IF do \in OnResource THEN Call(do, Now.area, Now.res, Now.kind)
                   ELSE Call(do, Now.area, "", "")
         /\ do # "default" => Now.kind = ""
<1>1. Now \in Fits(Package) /\ Package \in Packages /\ tree \in Tree /\ Now.do = do
  BY NowType DEF Calling, TypeInv
<1>2. Now \in Calls
  BY <1>1 DEF Fits
<1>3. Now = Call(do, Now.area, Now.res, Now.kind)
  BY <1>1, <1>2 DEF Calls, Call
<1>4. "default" \in OnResource
  BY DEF OnResource
<1> QED
  BY <1>1, <1>2, <1>3, <1>4 DEF Fits, Calls

LEMMA RemoveDataGoes == ASSUME TypeInv, PackageInv, RemoveData PROVE Goes
<1> DEFINE a == Now.area
           parts == {Wipe(tree, a, S) : S \in SUBSET Parts}
           unlinked == {[t EXCEPT !.link = DeleteArea(tree, a).link] : t \in parts}
           there == tree.there \ {a}
<1>1. tree \in Tree /\ Now.do = "removeData" /\ a \in Area /\ tree.there \in SUBSET Area
  BY NowFits, TreeParts DEF RemoveData
<1> HIDE DEF a
<1>2. Tends(Package, tree, Wipe(tree, a, Parts), a) /\ \A t \in parts : Tends(Package, tree, t, a)
  BY <1>1, WipeTends
<1>3. there \in SUBSET Area /\ \A b \in Area \ {a} : b \in tree.there => b \in there
  BY <1>1
<1> HIDE DEF there
<1>4. \A S : /\ Tends(Package, tree, [Wipe(tree, a, S) EXCEPT !.link = Unlinked(tree, a)], a)
             /\ Tends(Package, tree, [Wipe(tree, a, S) EXCEPT !.there = there,
                                                              !.link = Unlinked(tree, a)], a)
  BY <1>1, <1>3, UnlinkedTends
<1>5. DeleteArea(tree, a).link = Unlinked(tree, a)
  BY <1>1, DeleteAreaLink
<1>6. DeleteArea(tree, a) = [Wipe(tree, a, Parts) EXCEPT !.there = there, !.link = Unlinked(tree, a)]
  BY <1>1, DeleteAreaLink DEF there
<1>7. Tends(Package, tree, DeleteArea(tree, a), a)
  BY <1>4, <1>6
<1>11. \A t \in unlinked : Tends(Package, tree, t, a)
  <2> TAKE t \in unlinked
  <2>1. PICK S \in SUBSET Parts :
          t = [Wipe(tree, a, S) EXCEPT !.link = DeleteArea(tree, a).link]
    OBVIOUS
  <2> QED
    BY <1>4, <1>5, <2>1
<1>8. Tends(Package, tree, tree, a)
  BY <1>1, SameTends
<1>9. \/ Does(tree, {}) \/ Does(Wipe(tree, a, Parts), parts)
      \/ Does(DeleteArea(tree, a), parts \cup unlinked)
  BY DEF RemoveData, a
<1> HIDE DEF parts, unlinked
<1>10. /\ Effect(Package, Now, tree, tree, {}) /\ Effect(Package, Now, tree, Wipe(tree, a, Parts), {})
       /\ Effect(Package, Now, tree, DeleteArea(tree, a), {})
       /\ \A t \in parts \cup unlinked : Effect(Package, Now, tree, t, {})
  BY <1>2, <1>7, <1>8, <1>11, TendsEffect DEF a
<1> QED
  BY <1>1, <1>9, <1>10, DoesGoes

LEMMA GetContextGoes == ASSUME TypeInv, PackageInv, GetContext PROVE Goes
<1> DEFINE a == Now.area
           made == [tree EXCEPT !.there = tree.there \cup {a}]
<1>1. tree \in Tree /\ Now.do = "getContext" /\ a \in Area
  BY NowFits DEF GetContext
<1>2. Does(made, {tree, made})
  BY DEF GetContext
<1> HIDE DEF a
<1>3. Tends(Package, tree, tree, a) /\ Tends(Package, tree, made, a)
  BY <1>1, FolderTends, SameTends
<1> HIDE DEF made
<1>4. Effect(Package, Now, tree, tree, {}) /\ Effect(Package, Now, tree, made, {})
  BY <1>3, TendsEffect DEF a
<1> QED
  BY <1>1, <1>2, <1>4, DoesGoes

LEMMA ListedType ==
  ASSUME NEW m \in {NoContent} \cup (SUBSET Apps)
  PROVE  Listed(m) \in SUBSET Apps
BY DEF Listed

\* A group, by the lists that were read: those that have no link are new to the
\* list that was not.
LEMMA ConfiguredEffect ==
  ASSUME tree \in Tree, Package \in Packages, Now.area \in Groups,
         NEW o \in SUBSET Listed(tree.content[Now.area]),
         NEW n \in SUBSET Listed(Package.members[Now.area]), NEW l,
         \A a \in Listed(Package.members[Now.area]) \ n :
           \/ Now.area \in MembersConfigured(Now.area, o, n).link[a]
           \/ <<a, Now.area>> \in l
  PROVE  Effect(Package, Now, tree, MembersConfigured(Now.area, o, n), l)
<1> DEFINE g == Now.area
           src == Package.members[g]
           added == NewMembers(o, n)
           all == AddMembersToGroup(tree, added, g)
           linked == RemoveMembersFromGroup(all, o \ n, g)
           whole == MembersConfigured(g, o, n)
<1>1. g \in Groups /\ src \in {NoContent} \cup (SUBSET Apps)
  BY DEF Packages
<1>2. added \in SUBSET (Apps \cap src) /\ \A a \in n : a \in added \/ a \in o
  BY <1>1 DEF NewMembers, Listed
<1>3. \A a \in o : tree.content[g] # NoContent /\ a \in tree.content[g]
  BY DEF Listed
<1>4. whole = IF src = NoContent THEN linked ELSE WithContent(linked, g, src)
  BY DEF MembersConfigured, WithContent
<1>5. \A a \in Listed(src) \ n : g \in whole.link[a] \/ <<a, g>> \in l
  OBVIOUS
<1>6. Listed(src) = IF src = NoContent THEN {} ELSE src
  BY DEF Listed
<1> HIDE DEF added
<1>7. Tends(Package, tree, all, g) /\ all \in Tree /\ \A a \in added : g \in all.link[a]
  BY <1>1, <1>2, MembersEffect DEF Tends, Within
<1> HIDE DEF all
<1>8. linked = all
  BY <1>7, RemoveMembersStays
<1> HIDE DEF linked, whole, src, g
<1>9. CASE src = NoContent
  BY <1>4, <1>7, <1>8, <1>9, TendsEffect DEF g, whole
<1>10. CASE src # NoContent
  <2>1. whole = WithContent(all, g, src)
    BY <1>4, <1>8, <1>10
  <2>2. Within(Package, tree, whole, g)
    BY <1>1, <1>7, <2>1, ContentWithin
  <2>3. /\ whole.link = all.link /\ whole.rct = all.rct /\ whole.content[g] = src
        /\ \A h \in Groups : h # g => whole.content[h] = all.content[h]
    BY <1>1, <1>7, <2>1, ContentParts
  <2>4. Keeps(tree, all)
    BY <1>7 DEF Tends
  <2>5. \A a \in src : \/ g \in whole.link[a] \/ <<a, g>> \in l
                       \/ tree.content[g] # NoContent /\ a \in tree.content[g]
    BY <1>2, <1>3, <1>5, <1>6, <1>7, <1>10, <2>3
  <2>6. Effect(Package, Now, tree, whole, l)
    BY <2>2, <2>3, <2>4, <2>5 DEF Effect, Keeps, g
  <2> QED
    BY <2>6 DEF whole, g
<1> QED
  BY <1>9, <1>10

\* A group on the way: some of the new members have their links, one is without
\* while its link is made anew, or the list is half written.
LEMMA HalfEffect ==
  ASSUME tree \in Tree, Package \in Packages, Now.area \in Groups,
         NEW o, NEW n \in SUBSET Listed(Package.members[Now.area]),
         NEW t \in MembersHalfConfigured(Now.area, o, n)
  PROVE  Effect(Package, Now, tree, t, {})
<1> DEFINE g == Now.area
           src == Package.members[g]
           added == NewMembers(o, n)
           some(S) == AddMembersToGroup(tree, S, g)
           linked == RemoveMembersFromGroup(some(added), o \ n, g)
           gone == [MembersConfigured(g, o, n) EXCEPT !.content[g] = NoContent]
<1>1. g \in Groups /\ g \in Shared /\ src \in {NoContent} \cup (SUBSET Apps)
  BY DEF Packages, Shared
<1>2. added \in SUBSET (Apps \cap src)
  BY <1>1 DEF NewMembers, Listed
<1>3. \/ \E S \in SUBSET added : t = some(S)
      \/ \E S \in SUBSET added : \E a \in S : t = LinkDeleted(some(S), a, g)
      \/ src # NoContent /\ t = gone
  BY DEF MembersHalfConfigured
<1>4. src # NoContent =>
        gone = [[linked EXCEPT !.content[g] = src] EXCEPT !.content[g] = NoContent]
  BY DEF MembersConfigured
<1> HIDE DEF added, g, src, gone
<1>5. \A S \in SUBSET added : Tends(Package, tree, some(S), g)
  BY <1>1, <1>2, MembersEffect DEF src
<1>6. \A S \in SUBSET added : some(S) \in Tree
  BY <1>5 DEF Tends, Within
<1>7. ASSUME NEW S \in SUBSET added, NEW a \in S
      PROVE  Tends(Package, tree, LinkDeleted(some(S), a, g), g)
  <2> DEFINE u == some(S)
  <2>1. u \in Tree /\ Tends(Package, tree, u, g) /\ a \in Apps /\ a \in src
    BY <1>2, <1>5, <1>6
  <2> HIDE DEF u
  <2>2. Tends(Package, tree, LinkDeleted(u, a, g), g)
    BY <1>1, <2>1, LinkDeletedTends DEF src
  <2> QED
    BY <2>2 DEF u
<1>8. CASE src # NoContent /\ t = gone
  <2> DEFINE u == some(added)
             v == WithContent(u, g, src)
  <2>1. u \in Tree /\ Tends(Package, tree, u, g)
    BY <1>5, <1>6
  <2> HIDE DEF u
  <2>2. linked = u
    BY <2>1, RemoveMembersStays DEF u
  <2>3. gone = [[u EXCEPT !.content[g] = src] EXCEPT !.content[g] = NoContent]
    BY <1>4, <1>8, <2>2
  <2>4. u.content \in [Groups -> ({NoContent} \cup SUBSET Apps)]
    BY <2>1, TreeParts
  <2>5. [[u EXCEPT !.content[g] = src] EXCEPT !.content[g] = NoContent]
          = [u EXCEPT !.content[g] = NoContent]
    BY <1>1, <2>1, <2>4 DEF Tree
  <2>6. t = WithContent(u, g, NoContent)
    BY <1>8, <2>3, <2>5 DEF WithContent
  <2>7. Tends(Package, tree, t, g)
    BY <1>1, <2>1, <2>6, ContentGoneTends
  <2> QED
    BY <2>7, TendsEffect DEF g
<1>9. Tends(Package, tree, t, g) => Effect(Package, Now, tree, t, {})
  BY TendsEffect DEF g
<1> HIDE DEF some
<1> QED
  BY <1>3, <1>5, <1>7, <1>8, <1>9

LEMMA GroupMembersGoes == ASSUME TypeInv, PackageInv, GroupMembers PROVE Goes
<1> DEFINE g == Now.area
           old == Listed(tree.content[g])
           new == Listed(Package.members[g])
<1>1. tree \in Tree /\ Now.do = "members" /\ g \in Groups /\ g \in Shared /\ Package \in Packages
  BY NowFits DEF GroupMembers, Shared
<1>2. \/ Fails /\ Kept /\ UNCHANGED <<tree, faults, hist>>
      \/ Does(MembersConfigured(g, old, new), {})
      \/ \E o \in {old, {}}, n \in {new, {}} :
           \/ /\ Fault /\ (Fails \/ Dies) /\ Kept
              /\ \E t \in MembersHalfConfigured(g, o, n) : Become(t)
           \/ /\ PassedOver /\ tree' = MembersConfigured(g, o, n)
              /\ hist' = [hist EXCEPT !.loses =
                   (hist.loses \cup LinksOf(tree) \cup ((new \ n) \X {g})) \ LinksOf(tree')]
  BY DEF GroupMembers
<1>3. new \in SUBSET Apps
  BY <1>1, ListedType DEF Packages
<1> HIDE DEF g, old, new
<1>4. CASE Does(MembersConfigured(g, old, new), {})
  <2> DEFINE u == MembersConfigured(g, old, new)
  <2>1. Effect(Package, Now, tree, u, {})
    BY <1>1, ConfiguredEffect DEF g, old, new
  <2>2. Does(u, {})
    BY <1>4
  <2> HIDE DEF u
  <2> QED
    BY <1>1, <2>1, <2>2, DoesGoes
<1>5. ASSUME NEW o \in {old, {}}, NEW n \in {new, {}},
             NEW t \in MembersHalfConfigured(g, o, n), Fault, Fails \/ Dies, Kept, Become(t)
      PROVE  Goes
  <2>1. n \in SUBSET new
    OBVIOUS
  <2>2. Effect(Package, Now, tree, t, {})
    BY <1>1, <2>1, HalfEffect DEF g, new
  <2> QED
    BY <1>5, <2>2, EndGoes DEF Become
<1>6. ASSUME NEW o \in {old, {}}, NEW n \in {new, {}}, PassedOver,
             tree' = MembersConfigured(g, o, n),
             hist' = [hist EXCEPT !.loses =
               (hist.loses \cup LinksOf(tree) \cup ((new \ n) \X {g})) \ LinksOf(tree')]
      PROVE  Goes
  <2> DEFINE loses == (hist.loses \cup LinksOf(tree) \cup ((new \ n) \X {g})) \ LinksOf(tree')
  <2>1. loses \in SUBSET (Apps \X Shared)
    BY <1>1, <1>3, LinksType DEF TypeInv, History
  <2>2. hist'.loses = loses
    BY <1>6 DEF TypeInv, History
  <2>3. ASSUME NEW a \in new \ n PROVE g \in tree'.link[a] \/ <<a, g>> \in loses
    <3> DEFINE l == <<a, g>>
    <3>1. /\ l \in Apps \X Shared /\ l[1] = a /\ l[2] = g /\ l \in (new \ n) \X {g}
      BY <1>1, <1>3
    <3> HIDE DEF l
    <3>2. l \in LinksOf(tree') <=> g \in tree'.link[a]
      BY <3>1 DEF LinksOf
    <3> QED
      BY <3>1, <3>2 DEF l
  <2>4. o \in SUBSET old /\ n \in SUBSET new
    OBVIOUS
  <2>5. (hist.loses \cup LinksOf(tree)) \ LinksOf(tree') \subseteq loses
    OBVIOUS
  <2>6. hist' = [hist EXCEPT !.loses = loses]
    BY <1>6
  <2> HIDE DEF loses
  <2>7. Effect(Package, Now, tree, tree', loses)
    BY <1>1, <1>6, <2>3, <2>4, ConfiguredEffect DEF g, old, new
  <2>8. tree' \in Tree
    BY <2>7 DEF Effect, Within
  <2>9. Remembers
    BY <2>1, <2>5, <2>6, <2>8, LosesRemembers
  <2> QED
    BY <1>1, <1>6, <2>2, <2>7, <2>9, PassedGoes
<1>7. CASE Fails /\ Kept /\ UNCHANGED <<tree, faults, hist>>
  BY <1>7, RefusedGoes
<1> QED
  BY <1>2, <1>4, <1>5, <1>6, <1>7

LEMMA LinkPublicGoes == ASSUME TypeInv, PackageInv, LinkPublic PROVE Goes
<1> DEFINE a == Now.area
           u == AddMemberToGroup(tree, a, Public)
           v == LinkDeleted(tree, a, Public)
<1>1. tree \in Tree /\ Now.do = "linkPublic" /\ a \in Apps /\ Public \in Shared
  BY NowFits DEF LinkPublic, Shared
<1>2. Does(u, {tree, v})
  BY DEF LinkPublic
<1> HIDE DEF a
<1>3. Tends(Package, tree, u, a) /\ Tends(Package, tree, tree, a) /\ Public \in u.link[a]
  BY <1>1, LinkTends, SameTends
<1>4. Tends(Package, tree, v, a)
  BY <1>1, <1>3, LinkDeletedTends
<1> HIDE DEF u, v
<1>5. /\ \A t \in {tree, v} : Effect(Package, Now, tree, t, {})
      /\ Effect(Package, Now, tree, u, {}) /\ Public \in u.link[Now.area]
  BY <1>3, <1>4, TendsEffect DEF a
<1> QED
  BY <1>2, <1>5, DoesGoes

LEMMA ObsoletedGoes == ASSUME TypeInv, PackageInv, Obsoleted PROVE Goes
<1> DEFINE a == Now.area
           r == Now.res
           all == Kinds \cup {"data"}
           whole == UninstallObsolete(tree, a, r, all)
           some == {UninstallObsolete(tree, a, r, parts) : parts \in SUBSET all}
           left == DataOf(a, r) \cup {<<kind, "file", a, r>> : kind \in Kinds}
<1>1. tree \in Tree /\ Now.do = "obsolete" /\ a \in Area /\ r \in Resources
  BY NowFits DEF Obsoleted, OnResource
<1>2. \/ Fails /\ Kept /\ Become(whole) /\ UNCHANGED faults
      \/ Does(whole, some)
      \/ Unnoticed(tree, left)
  BY DEF Obsoleted
<1>7. left \in SUBSET (Slots \cup Defaults)
  BY <1>1 DEF DataOf, Of, Defaults
<1> HIDE DEF a, r, all, left
<1>3. Tends(Package, tree, whole, a) /\ \A t \in some : Tends(Package, tree, t, a)
  BY <1>1, ObsoleteTends
<1> HIDE DEF whole, some
<1>4. Effect(Package, Now, tree, whole, {}) /\ \A t \in some : Effect(Package, Now, tree, t, {})
  BY <1>3, TendsEffect DEF a
<1>5. CASE Does(whole, some)
  BY <1>1, <1>4, <1>5, DoesGoes
<1>6. CASE Fails /\ Kept /\ Become(whole) /\ UNCHANGED faults
  BY <1>4, <1>6, EndGoes DEF Become
<1>8. CASE Unnoticed(tree, left)
  BY <1>1, <1>7, <1>8, SameTends, UnnoticedGoes
<1> QED
  BY <1>2, <1>5, <1>6, <1>8

LEMMA SetDefaultGoes == ASSUME TypeInv, PackageInv, SetDefault PROVE Goes
<1> DEFINE a == Now.area
           r == Now.res
           kind == Now.kind
           form == Form(Package.rct[a][r])
           v == Package.def[<<kind, a, r>>]
           set == [tree EXCEPT !.def[<<kind, form, a, r>>] = v]
           none == [tree EXCEPT !.def[<<kind, form, a, r>>] = Absent]
<1>1. /\ tree \in Tree /\ Now.do = "default" /\ a \in Area /\ r \in Resources /\ kind \in Kinds
      /\ Package \in Packages
  BY NowFits DEF SetDefault, OnResource
<1>2. v \in Values
  BY <1>1 DEF Packages
<1>3. \/ \E whole \in {tree, set, none} : Does(whole, {tree})
      \/ Unnoticed(tree, {<<kind, form, a, r>>})
  BY DEF SetDefault, WriteDefault, DeleteDefault
<1>6. <<kind, form, a, r>> \in Defaults
  BY <1>1 DEF Form, Defaults
<1> HIDE DEF a, r, kind, form, v
<1>4. Tends(Package, tree, tree, a) /\ Tends(Package, tree, set, a) /\ Tends(Package, tree, none, a)
  BY <1>1, <1>2, SetDefaultTends, SameTends, AbsentType
<1> HIDE DEF set, none
<1>5. \A t \in {tree, set, none} : Effect(Package, Now, tree, t, {})
  BY <1>4, TendsEffect DEF a
<1>7. CASE Unnoticed(tree, {<<kind, form, a, r>>})
  <2>1. {<<kind, form, a, r>>} \in SUBSET (Slots \cup Defaults)
    BY <1>6
  <2> QED
    BY <1>1, <1>4, <1>7, <2>1, UnnoticedGoes DEF a
<1> QED
  BY <1>1, <1>3, <1>5, <1>7, DoesGoes

LEMMA ClearDataGoes == ASSUME TypeInv, PackageInv, ClearData PROVE Goes
<1> DEFINE a == Now.area
           c == Package.rct[a][Now.res]
           store == IF c = "na" THEN "wt" ELSE c
           held == {s \in DataOf(a, Now.res) : tree.data[store][s] # Absent}
           some == {Put(tree, store, S, Absent) : S \in SUBSET held}
           whole == Put(tree, store, held, Absent)
<1>1. tree \in Tree /\ Now.do = "clearData" /\ a \in Area
  BY NowFits DEF ClearData
<1>2. Does(tree, {}) \/ Does(whole, some) \/ Unnoticed(tree, DataOf(a, Now.res))
  BY DEF ClearData
<1>3. held \in SUBSET Of(a) /\ DataOf(a, Now.res) \in SUBSET (Slots \cup Defaults)
  BY DataOfType DEF Of
<1> HIDE DEF a, store, held
<1>4. Tends(Package, tree, tree, a) /\ \A t \in some : Tends(Package, tree, t, a)
  BY <1>1, <1>3, PutTends, SameTends, AbsentType
<1>5. whole \in some
  OBVIOUS
<1> HIDE DEF whole, some
<1>6. Effect(Package, Now, tree, tree, {}) /\ \A t \in some : Effect(Package, Now, tree, t, {})
  BY <1>4, TendsEffect DEF a
<1>7. CASE Unnoticed(tree, DataOf(a, Now.res))
  BY <1>1, <1>3, <1>4, <1>7, UnnoticedGoes DEF a
<1> QED
  BY <1>1, <1>2, <1>5, <1>6, <1>7, DoesGoes

LEMMA UpdateRctGoes == ASSUME TypeInv, PackageInv, UpdateRct PROVE Goes
<1> DEFINE a == Now.area
           r == Now.res
           c == Package.rct[a][r]
           u == WithEntry(tree, a, r, c)
<1>1. /\ tree \in Tree /\ Now.do \in {"deleteEntry", "writeEntry"} /\ a \in Area
      /\ r \in Resources /\ Package \in Packages
  BY NowFits DEF UpdateRct, OnResource
<1>2. c \in Configs
  BY <1>1 DEF Packages
<1>3. Does(u, {tree})
  BY DEF UpdateRct, WithEntry
<1> HIDE DEF a, r, c
<1>5. /\ Within(Package, tree, u, a) /\ u.content = tree.content /\ u.link = tree.link
      /\ \A b \in Area \ {a} : u.rct[b] = tree.rct[b]
  BY <1>1, <1>2, EntryWithin
<1> HIDE DEF u
<1>6. Tends(Package, tree, tree, a)
  BY <1>1, SameTends
<1>7. Effect(Package, Now, tree, tree, {})
  BY <1>6, TendsEffect DEF a
<1>8. Effect(Package, Now, tree, u, {})
  BY <1>1, <1>5 DEF Effect, Area, a
<1> QED
  BY <1>1, <1>3, <1>7, <1>8, DoesGoes

LEMMA ChangePolicyGoes == ASSUME TypeInv, PackageInv, ChangePolicy PROVE Goes
<1> DEFINE a == Now.area
           to == Package.rct[a][Now.res]
           from == IF to = "cached" THEN "wt" ELSE "cached"
           held == {s \in DataOf(a, Now.res) : tree.data[from][s] # Absent}
           moved(S) == MoveKeys(tree, S, from, to)
           both(S, s) == Put(moved(S), to, {s}, tree.data[from][s])
           some == {moved(S) : S \in SUBSET held} \cup UNION {{both(S, s) : s \in held} : S \in SUBSET held}
<1>1. tree \in Tree /\ Now.do = "changePolicy" /\ a \in Area
  BY NowFits DEF ChangePolicy
<1>2. \/ Does(moved(held), some)
      \/ \E S \in SUBSET held : Unnoticed(moved(held \ S), S)
      \/ Unnoticed(tree, DataOf(a, Now.res))
      \/ Fails /\ Kept /\ UNCHANGED <<tree, faults, hist>>
  BY DEF ChangePolicy
<1>3. from \in Stores
  BY DEF Stores
<1>4. /\ held \in SUBSET Of(a) /\ \A s \in held : s \in Of(a) /\ s \in Slots
      /\ DataOf(a, Now.res) \in SUBSET (Slots \cup Defaults)
  BY DataOfType DEF Of
<1> HIDE DEF a, to, from, held
<1>6. ASSUME NEW S \in SUBSET held
      PROVE  Tends(Package, tree, moved(S), a) /\ moved(S).link = tree.link
  BY <1>1, <1>3, <1>4, MoveTends
<1>7. ASSUME NEW S \in SUBSET held, NEW s \in held PROVE Tends(Package, tree, both(S, s), a)
  <2> DEFINE t == moved(S)
             v == tree.data[from][s]
  <2>1. Tends(Package, tree, t, a) /\ t.link = tree.link /\ t \in Tree
    BY <1>6 DEF Tends, Within
  <2>2. v \in Values /\ {s} \in SUBSET Of(a)
    BY <1>1, <1>3, <1>4, TreeParts
  <2> HIDE DEF t, v
  <2>3. Tends(Package, t, Put(t, to, {s}, v), a)
    BY <1>1, <2>1, <2>2, PutTends
  <2>4. Tends(Package, tree, Put(t, to, {s}, v), a)
    BY <2>1, <2>3, TendsAgain
  <2> QED
    BY <2>4 DEF t, v
<1>8. \A t \in some : Tends(Package, tree, t, a)
  <2> TAKE t \in some
  <2>1. CASE \E S \in SUBSET held : t = moved(S)
    BY <1>6, <2>1
  <2>2. CASE \E S \in SUBSET held : \E s \in held : t = both(S, s)
    BY <1>7, <2>2
  <2>3. t \in {moved(S) : S \in SUBSET held} \/ t \in UNION {{both(S, s) : s \in held} : S \in SUBSET held}
    OBVIOUS
  <2> QED
    BY <2>1, <2>2, <2>3
<1>9. moved(held) \in some
  OBVIOUS
<1> HIDE DEF some
<1>10. CASE Does(moved(held), some)
  <2> DEFINE whole == moved(held)
  <2>1. Effect(Package, Now, tree, whole, {}) /\ \A t \in some : Effect(Package, Now, tree, t, {})
    BY <1>8, <1>9, TendsEffect DEF a
  <2>2. Does(whole, some)
    BY <1>10
  <2> HIDE DEF whole
  <2> QED
    BY <1>1, <2>1, <2>2, DoesGoes
<1>11. ASSUME NEW S \in SUBSET held, Unnoticed(moved(held \ S), S) PROVE Goes
  <2> DEFINE t == moved(held \ S)
  <2>1. Tends(Package, tree, t, a) /\ t.link = tree.link
    BY <1>6
  <2>2. S \in SUBSET (Slots \cup Defaults) /\ Unnoticed(t, S)
    BY <1>4, <1>11
  <2> HIDE DEF t
  <2> QED
    BY <1>1, <2>1, <2>2, UnnoticedGoes DEF a
<1>13. CASE Unnoticed(tree, DataOf(a, Now.res))
  BY <1>1, <1>4, <1>13, SameTends, UnnoticedGoes
<1>12. CASE Fails /\ Kept /\ UNCHANGED <<tree, faults, hist>>
  BY <1>12, RefusedGoes
<1> QED
  BY <1>2, <1>10, <1>11, <1>12, <1>13

LEMMA WronglyGoes == ASSUME TypeInv, Wrongly PROVE Goes
BY RefusedGoes DEF Wrongly

\* The calls of an attempt, except the one that makes the calls of a folder.
LEMMA ConfiguresGoes ==
  ASSUME TypeInv, PackageInv, Configures \/ Wrongly, ~ConfigureFolder
  PROVE  Goes
BY RemoveDataGoes, GetContextGoes, GroupMembersGoes, LinkPublicGoes, ObsoletedGoes,
   ChangePolicyGoes, SetDefaultGoes, ClearDataGoes, UpdateRctGoes, WronglyGoes DEF Configures

-----------------------------------------------------------------------------
(* The type invariant. *)

LEMMA GoesTyped ==
  ASSUME TypeInv, PackageInv, phase = "work", todo # <<>>, Goes
  PROVE  TypeInv' /\ PackageInv'
<1>1. tree' \in Tree
  BY DEF Goes, Effect, Within
<1>2. TypeInv'
  BY <1>1 DEF Goes, Ends, Remembers, TypeInv, Phases
<1>3. Package' = Package /\ script # <<>> /\ script' = script
  BY DEF Goes, Package, PackageInv
<1>4. CASE todo' = Tail(todo) /\ phase' = phase
  <2>1. Tail(todo) \in Seq(Fits(Package))
    BY NowType
  <2>2. todo' \in Seq(Fits(Package'))
    BY <1>3, <1>4, <2>1
  <2> QED
    BY <1>2, <1>3, <1>4, <2>2 DEF PackageInv
<1>5. CASE phase' \in {"cleanup", "idle"} /\ todo' = <<>>
  BY <1>2, <1>3, <1>5 DEF PackageInv
<1> QED
  BY <1>4, <1>5 DEF Goes, Ends

\* The calls of a folder and those after it.
LEMMA FolderTodo ==
  ASSUME TypeInv, PackageInv, ConfigureFolder
  PROVE  /\ FolderPlan(Package, Now.area) \in Seq(FitsIn(Package, Now.area))
         /\ FolderPlan(Package, Now.area) \in Seq(Fits(Package))
         /\ Tail(todo) \in Seq(Fits(Package))
<1> DEFINE a == Now.area
           plan == FolderPlan(Package, a)
<1>1. phase = "work" /\ todo # <<>> /\ Calling("folder")
  BY DEF ConfigureFolder, Calling
<1>2. Tail(todo) \in Seq(Fits(Package)) /\ a \in WithTable(Package)
  BY <1>1, NowType, NowFits
<1> HIDE DEF a
<1>3. plan \in Seq(FitsIn(Package, a))
  BY <1>2, FolderPlanFits
<1>4. FitsIn(Package, a) \subseteq Fits(Package)
  BY DEF FitsIn
<1> HIDE DEF plan
<1>5. plan \in Seq(Fits(Package))
  BY <1>3, <1>4, SeqSubset
<1> QED
  BY <1>2, <1>3, <1>5 DEF plan, a

LEMMA FolderTyped ==
  ASSUME TypeInv, PackageInv, ConfigureFolder
  PROVE  TypeInv' /\ PackageInv'
<1> DEFINE X == Fits(Package)
           plan == FolderPlan(Package, Now.area)
           rest == Tail(todo)
<1>1. plan \in Seq(X) /\ rest \in Seq(X)
  BY FolderTodo
<1>2. phase = "work" /\ todo' = plan \o rest
      /\ UNCHANGED <<tree, phase, result, script, faults, writes, hist>>
  BY DEF ConfigureFolder, Calling
<1> HIDE DEF X, plan, rest
<1>3. todo' \in Seq(X)
  BY <1>1, <1>2, ConcatType
<1> QED
  BY <1>2, <1>3 DEF TypeInv, PackageInv, Package, X

LEMMA InitTyped == ASSUME Init PROVE TypeInv /\ PackageInv
<1>1. PICK s \in Scenarios :
        tree = s.tree /\ script = s.script /\ faults = s.faults /\ writes = s.writes
  BY DEF Init
<1>2. tree \in Tree /\ script \in Seq(Packages) /\ faults \in Nat /\ writes \in Nat
  BY <1>1, ScenarioAssumption
<1>3. hist = [begun |-> FALSE, before |-> tree, start |-> tree,
              loses |-> {}, skipped |-> {}]
  BY DEF Init
<1>4. hist \in History /\ ~hist.begun
  BY <1>2, <1>3 DEF History
<1> QED
  BY <1>2, <1>4 DEF Init, TypeInv, PackageInv, Phases, Outcomes

LEMMA BeginTyped ==
  ASSUME TypeInv, PackageInv, Begin
  PROVE  TypeInv' /\ PackageInv' /\ hist'.start = tree /\ hist'.loses = hist.loses
<1>1. /\ hist' \in History /\ hist'.start = tree /\ hist'.loses = hist.loses
  BY DEF Begin, TypeInv, History
<1> QED
  BY <1>1 DEF Begin, TypeInv, PackageInv, Phases

LEMMA UnarchiveTyped == ASSUME TypeInv, PackageInv, Unarchive PROVE TypeInv' /\ PackageInv'
<1>1. /\ phase = "unarchive" /\ UNCHANGED <<tree, script, writes, hist>>
      /\ script \in Seq(Packages) /\ script # <<>>
  BY DEF Unarchive, TypeInv, PackageInv
<1>2. Package \in Packages /\ Package' = Package
  BY <1>1 DEF Package
<1>3. CASE /\ phase' = "work" /\ result' = "ok" /\ UNCHANGED faults
           /\ todo' = PublicPlan(Package) \o GroupsPlan(Package) \o AppsPlan(Package)
  <2>1. todo' \in Plans(Package)
    BY <1>2, <1>3, PackagePlanFits
  <2>2. todo' \in Seq(Fits(Package'))
    BY <1>2, <2>1 DEF Plans
  <2> QED
    BY <1>1, <1>3, <2>2 DEF TypeInv, PackageInv, Phases, Outcomes
<1>4. CASE Fault /\ (Fails \/ Dies)
  BY <1>1, <1>4 DEF Fault, Fails, Dies, TypeInv, PackageInv, Phases, Outcomes
<1> QED
  BY <1>3, <1>4 DEF Unarchive

LEMMA CleanupTyped ==
  ASSUME TypeInv, PackageInv, Installed \/ Cleanup
  PROVE  TypeInv' /\ PackageInv' /\ UNCHANGED <<tree, script, hist>>
<1>1. CASE Installed
  BY <1>1 DEF Installed, TypeInv, PackageInv, Phases
<1>2. CASE Cleanup
  <2>1. /\ phase = "cleanup" /\ todo = <<>> /\ script # <<>>
        /\ UNCHANGED <<tree, script, writes, hist>>
    BY <1>2 DEF Cleanup, PackageInv
  <2>2. phase' \in {"reply", "idle"} /\ todo' = <<>> /\ result' \in Outcomes /\ faults' \in Nat
    BY <1>2, <2>1 DEF Cleanup, Fault, Dies, TypeInv, Outcomes
  <2> QED
    BY <2>1, <2>2 DEF TypeInv, PackageInv, Phases
<1> QED
  BY <1>1, <1>2

LEMMA ReplyTyped ==
  ASSUME TypeInv, PackageInv, Reply \/ Abandon
  PROVE  TypeInv' /\ PackageInv' /\ phase' = "idle" /\ tree' = tree /\ hist'.loses = hist.loses
<1>1. script \in Seq(Packages) /\ script # <<>>
  BY DEF Reply, Abandon, TypeInv, PackageInv
<1>2. Tail(script) \in Seq(Packages)
  BY <1>1
<1>3. hist' \in History /\ hist'.loses = hist.loses
  BY DEF Reply, Abandon, TypeInv, History
<1>4. script' \in Seq(Packages) /\ (hist'.begun => script' # <<>>)
  <2>1. hist' = [hist EXCEPT !.begun = FALSE] => ~hist'.begun
    BY DEF TypeInv, History
  <2>2. script' = script \/ (script' = Tail(script) /\ ~hist'.begun)
    BY <2>1 DEF Reply, Abandon
  <2> QED
    BY <1>1, <1>2, <2>2
<1> QED
  BY <1>3, <1>4 DEF Reply, Abandon, TypeInv, PackageInv, Phases

LEMMA WriteTyped ==
  ASSUME TypeInv, PackageInv, Write
  PROVE  /\ TypeInv' /\ PackageInv' /\ phase' = "idle" /\ hist'.loses = hist.loses
         /\ tree'.rct = tree.rct /\ tree'.content = tree.content /\ tree'.link = tree.link
<1>1. PICK s \in Slots, v \in Versions :
        /\ tree' = Put(tree, tree.rct[s[1]][s[3]], {s}, v)
        /\ hist' = IF hist.begun /\ hist.before.rct[s[1]][s[3]] \in Stores
                     THEN [hist EXCEPT !.before = Put(hist.before, hist.before.rct[s[1]][s[3]], {s}, v)]
                     ELSE hist
  BY DEF Write
<1>2. v \in Values /\ tree \in Tree /\ hist.before \in Tree
  BY DEF Values, TypeInv, History
<1> DEFINE before == Put(hist.before, hist.before.rct[s[1]][s[3]], {s}, v)
<1>3. /\ tree' \in Tree /\ tree'.rct = tree.rct /\ tree'.content = tree.content
      /\ tree'.link = tree.link
  BY <1>1, <1>2, PutParts
<1>4. before \in Tree
  BY <1>2, PutParts
<1>5. hist' \in {hist, [hist EXCEPT !.before = before]}
  BY <1>1
<1> HIDE DEF before
<1>6. hist' \in History /\ hist'.loses = hist.loses /\ hist'.begun = hist.begun
  BY <1>4, <1>5 DEF TypeInv, History
<1>7. /\ phase = "idle" /\ script # <<>> /\ writes > 0 /\ writes' = writes - 1
      /\ UNCHANGED <<phase, todo, result, script, faults>>
  BY DEF Write
<1>8. writes' \in Nat
  BY <1>7 DEF TypeInv
<1> QED
  BY <1>3, <1>6, <1>7, <1>8 DEF TypeInv, PackageInv

LEMMA CallTyped ==
  ASSUME TypeInv, PackageInv, Configures \/ Wrongly, ~ConfigureFolder
  PROVE  TypeInv' /\ PackageInv' /\ Goes /\ phase = "work" /\ todo # <<>>
<1>1. phase = "work" /\ todo # <<>>
  BY DEF Configures, Wrongly, RemoveData, GetContext, GroupMembers, LinkPublic, Obsoleted,
         ChangePolicy, SetDefault, ClearData, UpdateRct, Calling
<1> QED
  BY <1>1, ConfiguresGoes, GoesTyped

LEMMA NextTyped ==
  ASSUME TypeInv, PackageInv, [Next]_vars
  PROVE  TypeInv' /\ PackageInv'
<1>1. CASE UNCHANGED vars
  BY <1>1 DEF vars, TypeInv, PackageInv, Package
<1>2. CASE ConfigureFolder
  BY <1>2, FolderTyped
<1>3. CASE (Configures \/ Wrongly) /\ ~ConfigureFolder
  BY <1>3, CallTyped
<1>4. CASE Begin \/ Unarchive
  BY <1>4, BeginTyped, UnarchiveTyped
<1>5. CASE Installed \/ Cleanup \/ Reply \/ Abandon \/ Write
  BY <1>5, CleanupTyped, ReplyTyped, WriteTyped
<1> QED
  BY <1>1, <1>2, <1>3, <1>4, <1>5 DEF Next

LEMMA Typed == Spec => [](TypeInv /\ PackageInv)
<1>1. Init => TypeInv /\ PackageInv
  BY InitTyped
<1>2. TypeInv /\ PackageInv /\ [Next]_vars => (TypeInv /\ PackageInv)'
  BY NextTyped
<1> QED
  BY <1>1, <1>2, PTL DEF Spec

\* The variables hold what the code's can hold, whatever the packages, the
\* failures and the writes between the attempts (persAdminResourceConfigAdd).
THEOREM TypeCorrect == Spec => []TypeOK
<1>1. TypeInv => TypeOK
  BY DEF TypeInv, TypeOK, Phases, Outcomes, History
<1> QED
  BY <1>1, Typed, PTL

-----------------------------------------------------------------------------
(* An attempt stays in the areas its package configures. *)

\* OthersUntouched, of two trees.
Untouched(p, t, u) ==
  /\ \A a \in Area \ Configured(p) : Same(t, u, a)
  /\ \A a \in Apps \ Configured(p), s \in Shared :
       (s \in u.link[a]) # (s \in t.link[a]) => s \in Configured(p) /\ a \in p.members[s]

LEMMA UntouchedMeans ==
  OthersUntouched <=> (phase # "idle" => Untouched(Package, hist.start, tree))
BY DEF OthersUntouched, Untouched, Same

LEMMA UntouchedAtFirst == ASSUME NEW p, NEW t PROVE Untouched(p, t, t)
BY DEF Untouched, Same

\* A call in an area that is configured leaves the others as they were.
LEMMA UntouchedStill ==
  ASSUME NEW p, NEW t, NEW u, NEW v, NEW c \in Configured(p),
         Untouched(p, t, u), Within(p, u, v, c)
  PROVE  Untouched(p, t, v)
<1>1. \A a \in Area \ Configured(p) : Same(t, v, a)
  BY DEF Untouched, Within, Same
<1>2. \A a \in Apps \ Configured(p), s \in Shared :
        (s \in v.link[a]) # (s \in t.link[a]) => s \in Configured(p) /\ a \in p.members[s]
  BY DEF Untouched, Within
<1> QED
  BY <1>1, <1>2 DEF Untouched

LEMMA NextUntouched ==
  ASSUME TypeInv, PackageInv, OthersUntouched, [Next]_vars
  PROVE  OthersUntouched'
<1> SUFFICES ASSUME phase' # "idle"
             PROVE  Untouched(Package', hist'.start, tree')
  BY UntouchedMeans DEF OthersUntouched, Untouched, Same
<1>1. CASE (Configures \/ Wrongly) /\ ~ConfigureFolder
  <2>1. Goes /\ phase = "work" /\ todo # <<>>
    BY <1>1, CallTyped
  <2>2. Untouched(Package, hist.start, tree)
    BY <2>1, UntouchedMeans
  <2>3. /\ Within(Package, tree, tree', Now.area)
        /\ Package' = Package /\ hist'.start = hist.start
    BY <2>1 DEF Goes, Effect, Remembers, Package
  <2>4. CASE Wrongly
    BY <2>2, <2>3, <2>4 DEF Wrongly
  <2>5. CASE ~Wrongly
    <3>1. \E do \in OnResource \cup {"removeData", "getContext", "members", "linkPublic"} :
            Calling(do)
      BY <1>1, <2>5 DEF OnResource, Configures, RemoveData, GetContext, GroupMembers, LinkPublic,
         Obsoleted, ChangePolicy, SetDefault, ClearData, UpdateRct
    <3>2. Now.area \in Configured(Package)
      BY <3>1, NowFits DEF OnResource
    <3> QED
      BY <2>2, <2>3, <3>2, UntouchedStill
  <2> QED
    BY <2>4, <2>5
<1>2. CASE Begin
  <2>1. hist'.start = tree /\ tree' = tree
    BY <1>2, BeginTyped DEF Begin
  <2> QED
    BY <2>1, UntouchedAtFirst
<1>3. CASE ConfigureFolder \/ Unarchive \/ Installed \/ Cleanup \/ UNCHANGED vars
  <2>1. phase # "idle" /\ UNCHANGED <<tree, script, hist>>
    BY <1>3 DEF ConfigureFolder, Calling, Unarchive, Installed, Cleanup, vars
  <2> QED
    BY <2>1, UntouchedMeans DEF Package
<1>4. CASE Reply \/ Abandon \/ Write
  BY <1>4, ReplyTyped, WriteTyped
<1> QED
  BY <1>1, <1>2, <1>3, <1>4 DEF Next

\* No attempt, however it ends, touches an area the package does not configure,
\* but to link its application to a group or to make such a link anew
\* (pas_conf_configureDataForPublic, ..Groups, ..Apps).
THEOREM OthersSafe == Spec => []OthersUntouched
<1>1. Init => OthersUntouched
  BY DEF Init, OthersUntouched
<1>2. TypeInv /\ PackageInv /\ OthersUntouched /\ [Next]_vars => OthersUntouched'
  BY NextUntouched
<1> QED
  BY <1>1, <1>2, Typed, PTL DEF Spec

-----------------------------------------------------------------------------
(* Members and applications keep their links. *)

LEMMA MembersMeans ==
  MembersLinked <=>
    /\ \A g \in Groups : tree.content[g] # NoContent => \A a \in tree.content[g] : Linked(a, g)
    /\ \A a \in Apps : tree.rct[a] # NoTable => Linked(a, Public)
BY DEF MembersLinked, Linked, LinkedIn

\* What is called next is not preceded by anything.
LEMMA FirstLinked ==
  ASSUME TypeInv, PackageInv, LinkInv, phase = "work", todo # <<>>, Fills(Now)
  PROVE  Linked(Now.area, Public)
<1>1. todo \in Seq(Fits(Package)) /\ Now = todo[1] /\ 1 \in 1..Len(todo)
  <2> DEFINE X == Fits(Package)
  <2>1. todo \in Seq(X)
    BY NowType
  <2> HIDE DEF X
  <2>2. Head(todo) = todo[1] /\ 1 \in 1..Len(todo)
    BY <2>1
  <2> QED
    BY <2>1, <2>2 DEF Now, X
<1>2. Linked(todo[1].area, Public) \/ \E j \in 1..(1 - 1) : Links(todo[j], todo[1].area)
  BY <1>1 DEF LinkInv
<1>3. 1..(1 - 1) = {}
  OBVIOUS
<1> QED
  BY <1>1, <1>2, <1>3

LEMMA GoesMembers ==
  ASSUME TypeInv, PackageInv, LinkInv, MembersLinked, phase = "work", todo # <<>>, Goes
  PROVE  MembersLinked'
<1>1. /\ tree \in Tree /\ tree' \in Tree /\ Public \in Shared /\ Groups \subseteq Shared
      /\ \A a \in Apps, s \in Shared : Linked(a, s) => LinkedIn(tree', hist', a, s)
  BY DEF Goes, Effect, Within, Remembers, TypeInv, Shared
<1>2. ASSUME NEW g \in Groups, tree'.content[g] # NoContent, NEW a \in tree'.content[g]
      PROVE  LinkedIn(tree', hist', a, g)
  <2>1. a \in Apps
    BY <1>1, <1>2, TreeParts
  <2>2. \/ tree'.content[g] \in {tree.content[g], NoContent}
        \/ g \in tree'.link[a] \/ <<a, g>> \in hist'.loses
        \/ tree.content[g] # NoContent /\ a \in tree.content[g]
    BY <1>2 DEF Goes, Effect
  <2>3. LinkedIn(tree', hist', a, g) \/ Linked(a, g)
    BY <1>2, <2>2, MembersMeans DEF LinkedIn
  <2> QED
    BY <1>1, <2>1, <2>3
<1>3. ASSUME NEW a \in Apps, tree'.rct[a] # NoTable PROVE LinkedIn(tree', hist', a, Public)
  <2>1. CASE tree'.rct[a] = tree.rct[a]
    BY <1>1, <1>3, <2>1, MembersMeans
  <2>2. CASE Now.do \in {"deleteEntry", "writeEntry"} /\ a = Now.area
    BY <1>1, <2>2, FirstLinked DEF Fills
  <2> QED
    BY <1>3, <2>1, <2>2 DEF Goes, Effect
<1> QED
  BY <1>2, <1>3 DEF MembersLinked, Linked, LinkedIn

LEMMA GoesLinks ==
  ASSUME TypeInv, PackageInv, LinkInv, phase = "work", todo # <<>>, Goes
  PROVE  LinkInv'
<1> SUFFICES ASSUME phase' = "work", NEW i \in 1..Len(todo'), Fills(todo'[i])
             PROVE  \/ LinkedIn(tree', hist', todo'[i].area, Public)
                    \/ \E j \in 1..(i - 1) : Links(todo'[j], todo'[i].area)
  BY DEF LinkInv, Linked, LinkedIn
<1> DEFINE X == Fits(Package)
<1>1. todo \in Seq(X)
  BY NowType
<1>2. todo' = Tail(todo) /\ (Now.do = "linkPublic" => Public \in tree'.link[Now.area])
  BY DEF Goes, Ends
<1> HIDE DEF X
<1>3. /\ Len(todo) \in Nat /\ Len(todo') = Len(todo) - 1 /\ Now = todo[1]
      /\ \A h \in 1..(Len(todo) - 1) : todo'[h] = todo[h + 1]
  BY <1>1, <1>2 DEF Now
<1>4. i \in 1..(Len(todo) - 1) /\ i + 1 \in 1..Len(todo) /\ todo'[i] = todo[i + 1]
  BY <1>3
<1> DEFINE a == todo'[i].area
<1>5. a \in Apps /\ Public \in Shared
  BY DEF Fills, Shared
<1>6. Linked(a, Public) \/ \E j \in 1..((i + 1) - 1) : Links(todo[j], a)
  BY <1>4 DEF LinkInv
<1> HIDE DEF a
<1>7. CASE Linked(a, Public)
  <2>1. LinkedIn(tree', hist', a, Public)
    BY <1>5, <1>7 DEF Goes, Remembers
  <2> QED
    BY <2>1 DEF a, Linked, LinkedIn
<1>8. ASSUME NEW j \in 1..((i + 1) - 1), Links(todo[j], a)
      PROVE  \/ LinkedIn(tree', hist', todo'[i].area, Public)
             \/ \E h \in 1..(i - 1) : Links(todo'[h], todo'[i].area)
  <2>1. CASE j = 1
    BY <1>2, <1>3, <1>8, <2>1 DEF Links, Linked, LinkedIn, a
  <2>2. CASE j # 1
    <3>1. j - 1 \in 1..(i - 1) /\ j - 1 \in 1..(Len(todo) - 1) /\ (j - 1) + 1 = j
      BY <1>3, <1>4, <2>2
    <3>2. todo'[j - 1] = todo[j]
      BY <1>3, <3>1
    <3> QED
      BY <1>8, <3>1, <3>2 DEF a
  <2> QED
    BY <2>1, <2>2
<1> QED
  BY <1>6, <1>7, <1>8

\* The calls of a folder concern it; those after it are as far from their links
\* as they were.
LEMMA FolderLinks ==
  ASSUME TypeInv, PackageInv, LinkInv, ConfigureFolder
  PROVE  LinkInv'
<1> SUFFICES ASSUME NEW i \in 1..Len(todo'), Fills(todo'[i])
             PROVE  \/ LinkedIn(tree', hist', todo'[i].area, Public)
                    \/ \E j \in 1..(i - 1) : Links(todo'[j], todo'[i].area)
  BY DEF LinkInv, Linked, LinkedIn
<1> DEFINE X == Fits(Package)
           Y == FitsIn(Package, Now.area)
           plan == FolderPlan(Package, Now.area)
           rest == Tail(todo)
           m == Len(plan)
           n == Len(todo)
<1>1. /\ phase = "work" /\ todo # <<>> /\ Now.do = "folder" /\ todo' = plan \o rest
      /\ UNCHANGED <<tree, hist>>
  BY DEF ConfigureFolder, Calling
<1>2. plan \in Seq(X) /\ plan \in Seq(Y) /\ rest \in Seq(X) /\ todo \in Seq(X)
  BY <1>1, FolderTodo, NowType
<1>3. \A c \in Y : Fills(c) => c.area = Now.area /\ Fills(Now)
  BY <1>1 DEF FitsIn, Fills
<1> HIDE DEF X, Y, plan
<1>4. /\ n \in Nat /\ Len(rest) = n - 1 /\ n > 0 /\ Now = todo[1]
      /\ \A h \in 1..(n - 1) : rest[h] = todo[h + 1]
  BY <1>1, <1>2 DEF Now
<1>5. m \in Nat /\ \A h \in 1..m : plan[h] \in Y
  BY <1>2
<1> HIDE DEF rest, n
<1>6. /\ Len(todo') = m + (n - 1)
      /\ \A h \in 1..m : todo'[h] = plan[h]
      /\ \A h \in 1..(n - 1) : todo'[m + h] = rest[h]
  <2>1. /\ Len(plan \o rest) = Len(plan) + Len(rest)
        /\ \A h \in 1..Len(plan) : (plan \o rest)[h] = plan[h]
        /\ \A h \in 1..Len(rest) : (plan \o rest)[Len(plan) + h] = rest[h]
    BY <1>2, ConcatParts
  <2> QED
    BY <1>1, <1>4, <2>1
<1> HIDE DEF m
<1>7. CASE i \in 1..m
  <2>1. Linked(todo'[i].area, Public)
    BY <1>1, <1>3, <1>5, <1>6, <1>7, FirstLinked
  <2> QED
    BY <1>1, <2>1 DEF Linked
<1>8. CASE i \notin 1..m
  <2> DEFINE h == i - m
  <2>1. h \in 1..(n - 1) /\ i = m + h /\ h + 1 \in 1..n
    BY <1>4, <1>5, <1>6, <1>8
  <2> HIDE DEF h
  <2>2. todo'[i] = todo[h + 1]
    BY <1>4, <1>6, <2>1
  <2>3. \/ Linked(todo[h + 1].area, Public)
        \/ \E j \in 1..((h + 1) - 1) : Links(todo[j], todo[h + 1].area)
    BY <1>1, <2>1, <2>2 DEF LinkInv, n
  <2>4. CASE Linked(todo[h + 1].area, Public)
    BY <1>1, <2>2, <2>4 DEF Linked
  <2>5. ASSUME NEW j \in 1..((h + 1) - 1), Links(todo[j], todo[h + 1].area)
        PROVE  \E g \in 1..(i - 1) : Links(todo'[g], todo'[i].area)
    <3>1. j # 1
      BY <1>1, <1>4, <2>5 DEF Links
    <3>2. j - 1 \in 1..(n - 1) /\ (j - 1) + 1 = j /\ m + (j - 1) \in 1..(i - 1)
      BY <1>4, <1>5, <2>1, <3>1
    <3>3. todo'[m + (j - 1)] = todo[j]
      BY <1>4, <1>6, <3>2
    <3> QED
      BY <2>2, <2>5, <3>2, <3>3
  <2> QED
    BY <2>3, <2>4, <2>5
<1> QED
  BY <1>7, <1>8

LEMMA UnarchiveLinks == ASSUME TypeInv, PackageInv, Unarchive PROVE LinkInv'
<1>1. CASE phase' = "work"
  <2>1. Package \in Packages
    BY <1>1, UnarchiveTyped DEF Unarchive, TypeInv, PackageInv, Package
  <2>2. todo' = PublicPlan(Package) \o GroupsPlan(Package) \o AppsPlan(Package)
    BY <1>1 DEF Unarchive, Fails, Dies
  <2>3. todo' \in Plans(Package)
    BY <2>1, <2>2, PackagePlanFits
  <2> QED
    BY <2>3 DEF Plans, LinkedBefore, LinkInv
<1> QED
  BY <1>1 DEF LinkInv

LEMMA NextLinks ==
  ASSUME TypeInv, PackageInv, LinkInv, MembersLinked, [Next]_vars
  PROVE  LinkInv' /\ MembersLinked'
<1>1. CASE (Configures \/ Wrongly) /\ ~ConfigureFolder
  BY <1>1, CallTyped, GoesLinks, GoesMembers
<1>2. ASSUME tree'.rct = tree.rct, tree'.content = tree.content, tree'.link = tree.link,
             hist'.loses = hist.loses
      PROVE  MembersLinked'
  BY <1>2 DEF MembersLinked
<1>3. CASE ConfigureFolder
  BY <1>2, <1>3, FolderLinks DEF ConfigureFolder
<1>4. CASE Unarchive
  BY <1>2, <1>4, UnarchiveLinks DEF Unarchive
<1>5. CASE Begin
  BY <1>2, <1>5, BeginTyped DEF Begin, LinkInv
<1>6. CASE Installed \/ Cleanup
  <2>1. phase' # "work"
    BY <1>6 DEF Installed, Cleanup, Dies
  <2> QED
    BY <1>2, <1>6, <2>1, CleanupTyped DEF LinkInv
<1>7. CASE Reply \/ Abandon \/ Write
  BY <1>2, <1>7, ReplyTyped, WriteTyped DEF LinkInv
<1>8. CASE UNCHANGED vars
  BY <1>8 DEF vars, LinkInv, MembersLinked, Linked
<1> QED
  BY <1>1, <1>3, <1>4, <1>5, <1>6, <1>7, <1>8 DEF Next

LEMMA InitLinks == ASSUME Init PROVE LinkInv /\ MembersLinked
<1>1. PICK s \in Scenarios : tree = s.tree
  BY DEF Init
<1>2. /\ \A a \in Apps : tree.rct[a] # NoTable => Public \in tree.link[a]
      /\ \A g \in Groups : tree.content[g] # NoContent =>
           \A a \in tree.content[g] : g \in tree.link[a]
  BY <1>1, ScenarioAssumption
<1> QED
  BY <1>2 DEF Init, LinkInv, MembersLinked

\* At any moment, also after a crash between any two steps, a member of a group
\* has its link, and an application that has resources the public one, unless
\* the link was there and was taken away (the application was uninstalled, or an
\* attempt broken off while it made the link anew), or the list of members could
\* not be read when it was installed (pas_conf_configureGroupMembers, persadmin_
\* create_symbolic_link, pas_conf_updateRctForInstallFolder).
THEOREM LinksKept == Spec => []MembersLinked
<1>1. Init => LinkInv /\ MembersLinked
  BY InitLinks
<1>2. TypeInv /\ PackageInv /\ LinkInv /\ MembersLinked /\ [Next]_vars
        => LinkInv' /\ MembersLinked'
  BY NextLinks
<1> QED
  BY <1>1, <1>2, Typed, PTL DEF Spec

=============================================================================
