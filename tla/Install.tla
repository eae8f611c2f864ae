------------------------------- MODULE Install -------------------------------
(***************************************************************************)
(* Installation of a resource package (persAdminResourceConfigAdd):        *)
(* ssw_pers_admin_resource_config_add.c, and what it takes from the        *)
(* package's files through ssw_pers_admin_config.c.  A package configures  *)
(* the public area, groups and applications, one after the other, by a     *)
(* rule each.  Nothing is rolled back when a call fails or the power goes: *)
(* what counts is what a further attempt makes of it.  Some errors are not *)
(* reported: hist.skipped and hist.loses say what is not done then.  The   *)
(* clients are locked during an attempt (PclLock), and write again between *)
(* attempts.                                                               *)
(***************************************************************************)
EXTENDS Integers, Sequences, FiniteSets, SequencesExt

CONSTANTS
  Public, Groups, Apps,
  ResourceList,  \* the resource IDs, in the order the tables list them
  Slots,         \* what clients store: <<area, owner, resource>>
  OtherOwners,   \* owners no prefix of pas_conf_filterResourcesList names
  NameSize,      \* the bytes an application's name takes in a list
  Versions,      \* the values of data and defaults
  Scenarios      \* [tree, script, faults, writes]: what the target starts with, the
                 \* packages, how many failures, how many writes come between

Shared == {Public} \cup Groups
Area == Shared \cup Apps
Resources == ToSet(ResourceList)

Absent == 0
NotFound == -1  \* PAS_FAILURE_NOT_FOUND
Values == {Absent} \cup Versions

\* An entry of a resource table: a key and its policy, a file, or a key in
\* custom storage.
Configs == {"none", "cached", "wt", "na", "file", "custom"}
Keyed == {"cached", "wt", "na"}
Form(c) == IF c = "file" THEN "file" ELSE "key"

Stores == {"cached", "wt", "file"}
Kinds == {"factory", "configurable"}
Defaults == Kinds \X {"key", "file"} \X Area \X Resources

NoTable == [r \in Resources |-> "none"]

\* A group without the file that lists its members, or with half of it.
NoContent == {""}

Tree == [there   : SUBSET Area,                             \* the folders
         rct     : [Area -> [Resources -> Configs]],        \* resource tables
         data    : [Stores -> [Slots -> Values]],           \* non-default data
         def     : [Defaults -> Values],                    \* default data
         content : [Groups -> ({NoContent} \cup SUBSET Apps)],
         link    : [Apps -> SUBSET Shared]]

ASSUME InstallAssumption ==
  /\ Public \notin Groups /\ Shared \cap Apps = {} /\ "" \notin Apps
  /\ ResourceList \in Seq(Resources) /\ IsInjective(ResourceList)
  /\ \A s \in Slots : s[1] \in Area /\ s[3] \in Resources
  /\ NameSize \in [Apps -> Nat \ {0}]
  /\ Versions \subseteq Nat \ {0}

(***************************************************************************)
(* A package: which of the three rules files it has, the groups and        *)
(* applications in the order these list them, and for each area the rule,  *)
(* the resource table, the exceptions, the defaults, the members.          *)
(***************************************************************************)
Packages ==
  {p \in [files   : SUBSET {"public", "groups", "apps"},
          groups  : Seq(STRING),
          apps    : Seq(Apps),
          rule    : [Area -> STRING],                 \* "none": not listed
          rct     : [Area -> [Resources -> Configs]],
          exc     : [Area -> [Resources -> STRING]],
          def     : [Kinds \X Area \X Resources -> Values],
          members : [Groups -> ({NoContent} \cup SUBSET Apps)]] :
     /\ \A g \in Groups : p.rule[g] # "none" => g \in ToSet(p.groups)
     /\ \A a \in Apps : p.rule[a] # "none" => a \in ToSet(p.apps)}

\* The tables, data and defaults of an area lie in its folder.
Empty(t, a) ==
  /\ t.rct[a] = NoTable
  /\ \A st \in Stores, s \in Slots : s[1] = a => t.data[st][s] = Absent
  /\ \A d \in Defaults : d[3] = a => t.def[d] = Absent
Housed(t) == \A a \in Area \ t.there : Empty(t, a)

\* What an attempt starts from is what installations leave: applications with
\* resources are linked to the public data, members to their group.
ASSUME ScenarioAssumption ==
  \A s \in Scenarios :
    /\ s.tree \in Tree /\ Housed(s.tree) /\ s.script \in Seq(Packages)
    /\ s.faults \in Nat /\ s.writes \in Nat
    /\ \A a \in Apps : s.tree.rct[a] # NoTable => Public \in s.tree.link[a]
    /\ \A g \in Groups : s.tree.content[g] # NoContent =>
         \A a \in s.tree.content[g] : g \in s.tree.link[a]

VARIABLES
  tree,    \* what is installed
  phase,   \* where the service is
  todo,    \* the calls left
  result,  \* of the last attempt
  script,  \* the packages still to install
  faults,  \* how many more calls may fail, or crashes happen
  writes,  \* how many more values clients write between attempts
  hist     \* see Begin, Write, Become and Unnoticed

vars == <<tree, phase, todo, result, script, faults, writes, hist>>

\* The package that is being installed.
Package == Head(script)

-----------------------------------------------------------------------------
(* Rules and exceptions.                                                    *)

Entry(type, affects, exceptions) ==
  [type |-> type, affects |-> affects, exceptions |-> exceptions]

\* g_LookUpRules: what is done to a resource, to which of its data, and which
\* exceptions a resource may have from it.
LookUpRules ==
  LET one == {"dontTouch"} IN
  [NewInstall           |-> Entry("update", {"factory", "configurable", "normal"}, {}),
   Uninstall            |-> Entry("delete", {"factory", "configurable", "normal"}, {}),
   DontTouch            |-> Entry("dontTouch", {}, {}),
   UpdateAll            |-> Entry("update", {"factory", "configurable", "normal"}, one),
   UpdateAllSkipDefaultFactory |-> Entry("update", {"configurable", "normal"}, one),
   UpdateAllSkipDefaultConfig  |-> Entry("update", {"factory", "normal"}, one),
   UpdateAllSkipDefaultAll     |-> Entry("update", {"normal"}, one),
   UpdateDefaultFactory |-> Entry("update", {"factory"}, one),
   UpdateDefaultConfig  |-> Entry("update", {"configurable"}, one),
   UpdateDefaultAll     |-> Entry("update", {"factory", "configurable"}, one),
   UpdateSetOfResources |-> Entry("dontTouch", {"factory", "configurable", "normal"},
                                  {"update", "delete"}),
   UninstallNonDefault  |-> Entry("delete", {"normal"}, one)]

\* cfg_priv_json_to_pas: a word the table does not know is its first entry.
ToRule(word) == IF word \in DOMAIN LookUpRules THEN word ELSE "NewInstall"
ToException(word) == IF word \in {"update", "dontTouch", "delete"} THEN word ELSE "update"

\* An area the rules file does not name is left alone.
Rule(p, a) == IF p.rule[a] = "none" THEN "DontTouch" ELSE ToRule(p.rule[a])

\* pas_conf_getConfigurationNeededForResource; a resource with an exception the
\* rule does not allow is skipped.
ConfigurationNeeded(p, a, r) ==
  LET rule == LookUpRules[Rule(p, a)]
      exception == ToException(p.exc[a][r])
  IN IF p.exc[a][r] = "none" THEN rule.type
     ELSE IF exception \in rule.exceptions THEN exception ELSE "dontTouch"

-----------------------------------------------------------------------------
(* How one call changes the tree. *)

Of(a) == {s \in Slots : s[1] = a}

\* Mutant: the filter does not ask where the data is.
DataOfAnyArea(a, r) == {s \in Slots : s[3] = r /\ s[2] \notin OtherOwners}

\* pas_conf_filterResourcesList: the data of a resource, by the prefixes of the
\* users and seats there should be.
DataOf(a, r) == {s \in Of(a) : s[3] = r /\ s[2] \notin OtherOwners}

Put(t, store, S, v) ==
  [t EXCEPT !.data[store] = [s \in Slots |-> IF s \in S THEN v ELSE @[s]]]

Parts == {"table", "data", "defaults"}

\* pas_conf_deleteFolderContent, or a part of it.
Wipe(t, a, parts) ==
  [t EXCEPT
     !.rct[a] = IF "table" \in parts THEN NoTable ELSE @,
     !.content = [g \in Groups |-> IF g = a /\ "table" \in parts THEN NoContent ELSE @[g]],
     !.data = [st \in Stores |-> [s \in Slots |->
                 IF "data" \in parts /\ s[1] = a THEN Absent ELSE @[st][s]]],
     !.def = [d \in Defaults |-> IF "defaults" \in parts /\ d[3] = a THEN Absent ELSE @[d]]]

\* The links go with the folder of an application, and stay with its content.
DeleteArea(t, a) ==
  LET empty == Wipe(t, a, Parts) IN
  [empty EXCEPT !.there = @ \ {a},
                !.link = [b \in Apps |-> IF b = a THEN {} ELSE @[b]]]

\* persadmin_create_symbolic_link makes the application's folder if need be.
AddMemberToGroup(t, a, g) ==
  [t EXCEPT !.link[a] = @ \cup {g}, !.there = @ \cup {a}]
AddMembersToGroup(t, S, g) ==
  [t EXCEPT !.link = [a \in Apps |-> IF a \in S THEN @[a] \cup {g} ELSE @[a]],
            !.there = @ \cup S]

\* It deletes the link there is before it makes it anew.
LinkDeleted(t, a, g) == [t EXCEPT !.link[a] = @ \ {g}]

\* pas_conf_removeMemberFromGroup asks for a number below zero or above it where
\* zero says the link is there: the link is deleted when there is none.
RemoveMembersFromGroup(t, S, g) ==
  [t EXCEPT !.link = [a \in Apps |-> IF a \in S /\ g \notin @[a] THEN @[a] \ {g} ELSE @[a]]]

\* Mutant: the old policy's database is emptied, the new one's is not written.
MoveKeysLost(t, S, from, to) == Put(t, from, S, Absent)

\* A key is written to the database of the new policy, then deleted from the old.
MoveKeys(t, S, from, to) ==
  [t EXCEPT !.data =
     [st \in Stores |-> [s \in Slots |->
        CASE s \in S /\ t.data[from][s] # Absent /\ st = to -> t.data[from][s]
          [] s \in S /\ st = from -> Absent
          [] OTHER -> @[st][s]]]]

\* Mutant: the answer that there is no default is written as one.
WriteDefaultUntested(t, kind, form, a, r, v) ==
  [t EXCEPT !.def[<<kind, form, a, r>>] = IF v = Absent THEN NotFound ELSE v]

\* A package without a default for the resource leaves the one there is.
WriteDefault(t, kind, form, a, r, v) ==
  IF v = Absent THEN t ELSE [t EXCEPT !.def[<<kind, form, a, r>>] = v]

DeleteDefault(t, kind, form, a, r) == [t EXCEPT !.def[<<kind, form, a, r>>] = Absent]

\* pas_conf_uninstallObsoleteKey and ..File, up to "parts" of it.
UninstallObsolete(t, a, r, parts) ==
  LET c == t.rct[a][r]
      less == [t EXCEPT !.def = [d \in Defaults |->
                 IF d[1] \in parts /\ d[2] = Form(c) /\ d[3] = a /\ d[4] = r
                   THEN Absent ELSE @[d]]]
  IN IF c = "custom" THEN t
     ELSE IF "data" \in parts /\ c \in Stores THEN Put(less, c, DataOf(a, r), Absent)
     ELSE less

-----------------------------------------------------------------------------
(* The calls an attempt is made of. *)

Call(do, a, r, kind) == [do |-> do, area |-> a, res |-> r, kind |-> kind]
On(do, a) == <<Call(do, a, "", "")>>
Wrong == On("wrong", Public)

ForAll(seq, Plan(_)) == FlattenSeq([i \in 1..Len(seq) |-> Plan(seq[i])])
ForEach(S, do, a, kind) ==
  ForAll(ResourceList, LAMBDA r : IF r \in S THEN <<Call(do, a, r, kind)>> ELSE <<>>)

OldDataGone(rule, a) ==
  IF rule \in {"NewInstall", "Uninstall"} THEN On("removeData", a) ELSE <<>>

\* pas_conf_configureDataForPublic goes on after an Uninstall.
PublicPlan(p) ==
  IF "public" \notin p.files THEN Wrong
  ELSE IF Rule(p, Public) = "DontTouch" THEN <<>>
  ELSE OldDataGone(Rule(p, Public), Public) \o On("getContext", Public)
         \o On("folder", Public)

GroupPlan(p, g) ==
  IF g \notin Groups THEN Wrong  \* pas_conf_isGroupIdValid
  ELSE CASE Rule(p, g) = "DontTouch" -> <<>>
         [] Rule(p, g) = "Uninstall" -> OldDataGone("Uninstall", g)
         [] OTHER -> OldDataGone(Rule(p, g), g) \o On("getContext", g)
                       \o On("members", g) \o On("folder", g)
GroupsPlan(p) ==
  IF "groups" \in p.files THEN ForAll(p.groups, LAMBDA g : GroupPlan(p, g)) ELSE Wrong

AppPlan(p, a) ==
  CASE Rule(p, a) = "DontTouch" -> <<>>
    [] Rule(p, a) = "Uninstall" -> OldDataGone("Uninstall", a)
    [] OTHER -> OldDataGone(Rule(p, a), a) \o On("getContext", a)
                  \o On("linkPublic", a) \o On("folder", a)
AppsPlan(p) ==
  IF "apps" \in p.files THEN ForAll(p.apps, LAMBDA a : AppPlan(p, a)) ELSE Wrong

\* The resources of which the tables differ.
Obsolete(p, a) == {r \in Resources : tree.rct[a][r] # "none" /\ p.rct[a][r] = "none"}
Changed(p, a) == {r \in Resources : p.rct[a][r] # "none" /\ tree.rct[a][r] # p.rct[a][r]}
PolicyChange(p, a) ==
  {r \in Changed(p, a) : tree.rct[a][r] \in Keyed /\ p.rct[a][r] \in Keyed}

DefaultPlan(p, a, kind) ==
  LET due == {r \in Resources : p.rct[a][r] # "none" /\ ConfigurationNeeded(p, a, r) # "dontTouch"}
  IN IF kind \in LookUpRules[Rule(p, a)].affects THEN ForEach(due, "default", a, kind) ELSE <<>>

NonDefaultPlan(p, a) ==
  LET due == {r \in Resources : p.rct[a][r] # "none" /\ ConfigurationNeeded(p, a, r) = "delete"}
  IN IF "normal" \in LookUpRules[Rule(p, a)].affects THEN ForEach(due, "clearData", a, "") ELSE <<>>

\* Mutant: the entries of resources the package does not have any more stay.
UpdateRctPlanKeeps(p, a) ==
  ForEach(Changed(p, a), "writeEntry", a, "")

\* pas_conf_updateRctForInstallFolder
UpdateRctPlan(p, a) ==
  ForEach(Obsolete(p, a), "deleteEntry", a, "") \o ForEach(Changed(p, a), "writeEntry", a, "")

\* Mutant: the table is updated before the keys it leads to are moved.
FolderPlanTableFirst(p, a) ==
  ForEach(Obsolete(p, a), "obsolete", a, "")
    \o DefaultPlan(p, a, "factory") \o DefaultPlan(p, a, "configurable")
    \o NonDefaultPlan(p, a)
    \o UpdateRctPlan(p, a)
    \o ForEach(PolicyChange(p, a), "changePolicy", a, "")

\* pas_conf_configureDataForInstallFolder: the resource table comes last.
FolderPlan(p, a) ==
  ForEach(Obsolete(p, a), "obsolete", a, "")
    \o ForEach(PolicyChange(p, a), "changePolicy", a, "")
    \o DefaultPlan(p, a, "factory") \o DefaultPlan(p, a, "configurable")
    \o NonDefaultPlan(p, a)
    \o UpdateRctPlan(p, a)

-----------------------------------------------------------------------------
(* An attempt. *)

Init ==
  /\ \E s \in Scenarios :
       /\ tree = s.tree /\ script = s.script
       /\ faults = s.faults /\ writes = s.writes
  /\ phase = "idle" /\ todo = <<>> /\ result = "none"
  /\ hist = [begun |-> FALSE, before |-> tree, start |-> tree,
             loses |-> {}, skipped |-> {}]

\* hist.before is the tree at the first attempt with the package, hist.start at
\* this one.
Begin ==
  /\ phase = "idle" /\ script # <<>>
  /\ phase' = "unarchive"
  /\ hist' = [hist EXCEPT !.begun = TRUE, !.start = tree,
                          !.before = IF hist.begun THEN @ ELSE tree,
                          !.skipped = IF hist.begun THEN @ ELSE {}]
  /\ UNCHANGED <<tree, todo, result, script, faults, writes>>

Fault == faults > 0 /\ faults' = faults - 1

\* An error ends the attempt if it is noticed; the power may go as well.
Fails == phase' = "cleanup" /\ result' = "error" /\ todo' = <<>>
Dies == phase' = "idle" /\ result' = "crashed" /\ todo' = <<>>

\* pas_conf_unarchiveResourceFile
Unarchive ==
  /\ phase = "unarchive"
  /\ \/ /\ phase' = "work" /\ result' = "ok"
        /\ todo' = PublicPlan(Package) \o GroupsPlan(Package) \o AppsPlan(Package)
        /\ UNCHANGED faults
     \/ Fault /\ (Fails \/ Dies)
  /\ UNCHANGED <<tree, script, writes, hist>>

Now == Head(todo)
Calling(do) == phase = "work" /\ todo # <<>> /\ Now.do = do
Kept == UNCHANGED <<script, writes>>

\* hist.loses: the links that were there and are not any more, and those that a
\* list which could not be read left out.
LinksOf(t) == {l \in Apps \X Shared : l[2] \in t.link[l[1]]}
Become(t) ==
  /\ tree' = t
  /\ hist' = [hist EXCEPT !.loses = (@ \cup LinksOf(tree)) \ LinksOf(t)]

\* A call does all it should, or stops at one of the trees on the way.
Does(whole, onTheWay) ==
  /\ Kept
  /\ \/ Become(whole) /\ todo' = Tail(todo) /\ UNCHANGED <<phase, result, faults>>
     \/ /\ Fault /\ (Fails \/ Dies)
        /\ \E t \in onTheWay : Become(t)

\* An error nobody is told: the attempt goes on, and success may be reported.
\* hist.skipped: the data and the defaults that calls have passed over like this
\* since the first attempt with the package.
PassedOver == Fault /\ todo' = Tail(todo) /\ Kept /\ UNCHANGED <<phase, result>>
Unnoticed(t, S) ==
  /\ PassedOver /\ tree' = t
  /\ hist' = [hist EXCEPT !.skipped = @ \cup S]

\* A rules file is missing, or the name of a group is none.
Wrongly == Calling("wrong") /\ Fails /\ Kept /\ UNCHANGED <<tree, faults, hist>>

\* pas_conf_removeDataForPublic, ..Group, ..App
RemoveData ==
  /\ Calling("removeData")
  /\ LET a == Now.area
         parts == {Wipe(tree, a, S) : S \in SUBSET Parts}
         unlinked == {[t EXCEPT !.link = DeleteArea(tree, a).link] : t \in parts}
     IN \/ a \notin tree.there /\ Does(tree, {})
        \/ /\ a \in tree.there /\ Rule(Package, a) = "NewInstall"
           /\ Does(Wipe(tree, a, Parts), parts)
        \/ /\ a \in tree.there /\ Rule(Package, a) # "NewInstall"
           /\ Does(DeleteArea(tree, a), parts \cup unlinked)

\* pas_conf_getContextInstallFolder: the folder, the table and four databases
\* are created; what the package lacks is made up without resources in it.
GetContext ==
  /\ Calling("getContext")
  /\ LET made == [tree EXCEPT !.there = @ \cup {Now.area}] IN Does(made, {tree, made})

ListSize(S) == MapThenSumSet(LAMBDA a : NameSize[a], S)

\* Mutant: nobody is new to a group that has members.
NewMembersFirst(old, new) == IF old = {} THEN new ELSE {}

\* pas_conf_identifyAndAddNewMembersToGroup
NewMembers(old, new) == new \ old

Listed(content) == IF content = NoContent THEN {} ELSE content
SizesDiffer(old, new) == old # {} /\ ListSize(old) # ListSize(new)

\* What becomes of a group by the lists that were read, at the end and on the way.
MembersConfigured(g, old, new) ==
  LET added == AddMembersToGroup(tree, NewMembers(old, new), g)
      linked == RemoveMembersFromGroup(added, old \ new, g)
      src == Package.members[g]
  IN IF src = NoContent THEN linked ELSE [linked EXCEPT !.content[g] = src]
MembersHalfConfigured(g, old, new) ==
  LET some(S) == AddMembersToGroup(tree, S, g)
      added == SUBSET NewMembers(old, new)
      whole == MembersConfigured(g, old, new)
  IN {some(S) : S \in added}
       \cup (IF Package.members[g] = NoContent THEN {}
             ELSE {[whole EXCEPT !.content[g] = NoContent]})
       \cup UNION {{LinkDeleted(some(S), a, g) : a \in S} : S \in added}

\* pas_conf_configureGroupMembers.  The list there is must take as many bytes as
\* the package's.  One that cannot be opened or sized counts as empty, and the
\* package's is copied all the same.
GroupMembers ==
  /\ Calling("members")
  /\ LET g == Now.area
         old == Listed(tree.content[g])
         new == Listed(Package.members[g])
     IN \/ SizesDiffer(old, new) /\ Fails /\ Kept /\ UNCHANGED <<tree, faults, hist>>
        \/ ~SizesDiffer(old, new) /\ Does(MembersConfigured(g, old, new), {})
        \/ \E o \in {old, {}}, n \in {new, {}} :
             /\ ~SizesDiffer(o, n)
             /\ \/ /\ Fault /\ (Fails \/ Dies) /\ Kept
                   /\ \E t \in MembersHalfConfigured(g, o, n) : Become(t)
                \/ /\ PassedOver /\ tree' = MembersConfigured(g, o, n)
                   /\ hist' = [hist EXCEPT !.loses =
                        (@ \cup LinksOf(tree) \cup ((new \ n) \X {g})) \ LinksOf(tree')]

\* An application is linked to the public data.
LinkPublic ==
  /\ Calling("linkPublic")
  /\ Does(AddMemberToGroup(tree, Now.area, Public),
          {tree, LinkDeleted(tree, Now.area, Public)})

\* What is to be done in the folder is known when its lists have been made.
ConfigureFolder ==
  /\ Calling("folder")
  /\ todo' = FolderPlan(Package, Now.area) \o Tail(todo)
  /\ UNCHANGED <<tree, phase, result, script, faults, writes, hist>>

\* A key of no policy is in no database: what is left are its defaults.  A
\* folder that cannot be listed counts as one without files.
Obsoleted ==
  /\ Calling("obsolete")
  /\ LET a == Now.area
         r == Now.res
         some(parts) == UninstallObsolete(tree, a, r, parts)
         whole == some(Kinds \cup {"data"})
     IN \/ /\ tree.rct[a][r] = "na"
           /\ Fails /\ Kept /\ Become(whole) /\ UNCHANGED faults
        \/ /\ tree.rct[a][r] # "na"
           /\ Does(whole, {some(parts) : parts \in SUBSET (Kinds \cup {"data"})})
        \/ /\ tree.rct[a][r] = "file"
           /\ Unnoticed(tree, DataOf(a, r) \cup {<<kind, "file", a, r>> : kind \in Kinds})

\* pas_conf_processPolicyChangesForKey: there is a database for two policies
\* only.  A key may be in both when the old one cannot be deleted.  An entry that
\* cannot be read is passed over with all keys, a key that cannot be read alone.
ChangePolicy ==
  /\ Calling("changePolicy")
  /\ LET to == Package.rct[Now.area][Now.res]
         from == IF to = "cached" THEN "wt" ELSE "cached"
         keys == DataOf(Now.area, Now.res)
         held == {s \in keys : tree.data[from][s] # Absent}
         moved(S) == MoveKeys(tree, S, from, to)
         both(S, s) == Put(moved(S), to, {s}, tree.data[from][s])
     IN \/ /\ to \notin Stores
           /\ Fails /\ Kept /\ UNCHANGED <<tree, faults, hist>>
        \/ /\ to \in Stores
           /\ \/ Does(moved(held),
                      {moved(S) : S \in SUBSET held}
                        \cup UNION {{both(S, s) : s \in held} : S \in SUBSET held})
              \/ \E S \in SUBSET held : S # {} /\ Unnoticed(moved(held \ S), S)
        \/ Unnoticed(tree, keys)

\* pas_conf_configureForDefault, for a resource.  A key in custom storage has
\* its default written and never deleted.  A default that cannot be read, or that
\* is too large, is left out, and so is one whose exception cannot be read.
SetDefault ==
  /\ Calling("default")
  /\ LET a == Now.area
         r == Now.res
         form == Form(Package.rct[a][r])
         custom == Package.rct[a][r] = "custom"
         whole == IF ConfigurationNeeded(Package, a, r) = "update"
                    THEN WriteDefault(tree, Now.kind, form, a, r, Package.def[<<Now.kind, a, r>>])
                    ELSE IF custom THEN tree
                    ELSE DeleteDefault(tree, Now.kind, form, a, r)
     IN Does(whole, {tree}) \/ Unnoticed(tree, {<<Now.kind, form, a, r>>})

\* pas_conf_deleteNonDefaultDataForResource; what is not cached is written
\* through.  It is passed over when its exception cannot be read, and so are files
\* when the folder cannot be listed.
ClearData ==
  /\ Calling("clearData")
  /\ LET c == Package.rct[Now.area][Now.res]
         store == IF c = "na" THEN "wt" ELSE c
         keys == DataOf(Now.area, Now.res)
         cleared(S) == Put(tree, store, S, Absent)
         held == {s \in keys : tree.data[store][s] # Absent}
     IN \/ c = "custom" /\ Does(tree, {})
        \/ c # "custom" /\ Does(cleared(held), {cleared(S) : S \in SUBSET held})
        \/ Unnoticed(tree, keys)

UpdateRct ==
  /\ Calling("deleteEntry") \/ Calling("writeEntry")
  /\ Does([tree EXCEPT !.rct[Now.area][Now.res] = Package.rct[Now.area][Now.res]], {tree})

Configures ==
  \/ RemoveData \/ GetContext \/ GroupMembers \/ LinkPublic \/ ConfigureFolder
  \/ Obsoleted \/ ChangePolicy \/ SetDefault \/ ClearData \/ UpdateRct

Installed ==
  /\ phase = "work" /\ todo = <<>>
  /\ phase' = "cleanup"
  /\ UNCHANGED <<tree, todo, result, script, faults, writes, hist>>

\* The unarchived package is deleted; if that fails, so has the installation.
Cleanup ==
  /\ phase = "cleanup"
  /\ \/ phase' = "reply" /\ UNCHANGED <<result, faults, todo>>
     \/ Fault /\ phase' = "reply" /\ result' = "error" /\ UNCHANGED todo
     \/ Fault /\ Dies
  /\ UNCHANGED <<tree, script, writes, hist>>

\* What failed may be tried again.
Reply ==
  /\ phase = "reply" /\ phase' = "idle"
  /\ IF result = "ok"
       THEN script' = Tail(script) /\ hist' = [hist EXCEPT !.begun = FALSE]
       ELSE UNCHANGED <<script, hist>>
  /\ UNCHANGED <<tree, todo, result, faults, writes>>

\* Another package is installed after one that failed.
Abandon ==
  /\ phase = "idle" /\ hist.begun
  /\ script' = Tail(script)
  /\ hist' = [hist EXCEPT !.begun = FALSE]
  /\ UNCHANGED <<tree, phase, todo, result, faults, writes>>

\* A client writes where the resource table leads it.
Write ==
  /\ phase = "idle" /\ script # <<>> /\ writes > 0
  /\ writes' = writes - 1
  /\ \E s \in Slots, v \in Versions :
       /\ tree.rct[s[1]][s[3]] \in Stores
       /\ v # tree.data[tree.rct[s[1]][s[3]]][s]
       /\ tree' = Put(tree, tree.rct[s[1]][s[3]], {s}, v)
       \* what it wrote before the package is not what is to be kept any more
       /\ hist' = IF hist.begun /\ hist.before.rct[s[1]][s[3]] \in Stores
                    THEN [hist EXCEPT !.before =
                            Put(@, hist.before.rct[s[1]][s[3]], {s}, v)]
                    ELSE hist
  /\ UNCHANGED <<phase, todo, result, script, faults>>

Next ==
  \/ Begin \/ Unarchive \/ Wrongly \/ Configures \/ Installed \/ Cleanup \/ Reply
  \/ Abandon \/ Write

Spec == Init /\ [][Next]_vars

-----------------------------------------------------------------------------
(* What the rules say (ssw_pers_admin_config.h:121-146), apart from the code. *)

\* The areas a package is about.
Configured(p) == {a \in Area : Rule(p, a) # "DontTouch"}
Fresh(p, a) == Rule(p, a) \in {"NewInstall", "Uninstall"}

\* The kinds of default a rule brings up to date.
Brings(p, a) ==
  CASE Rule(p, a) \in {"NewInstall", "UpdateAll", "UpdateDefaultAll"} -> Kinds
    [] Rule(p, a) \in {"UpdateAllSkipDefaultConfig", "UpdateDefaultFactory"} -> {"factory"}
    [] Rule(p, a) \in {"UpdateAllSkipDefaultFactory", "UpdateDefaultConfig"} -> {"configurable"}
    [] OTHER -> {}

\* A set of resources is updated or deleted resource by resource; from another
\* rule a resource is excepted, also by an exception the rule does not know.
Updated(p, a, r, kind) ==
  IF Rule(p, a) = "UpdateSetOfResources"
    THEN p.exc[a][r] # "none" /\ ToException(p.exc[a][r]) = "update"
    ELSE kind \in Brings(p, a) /\ p.exc[a][r] = "none"
Deleted(p, a, r) ==
  CASE Rule(p, a) = "UpdateSetOfResources" -> p.exc[a][r] = "delete"
    [] Rule(p, a) = "UninstallNonDefault" -> p.exc[a][r] = "none"
    [] OTHER -> FALSE

\* The default a resource has after the package, by what there was before.
ExpectedDefault(p, before, d) ==
  LET a == d[3]  r == d[4]  c == p.rct[a][r]
      was == before.rct[a][r]
      old == IF Fresh(p, a) THEN Absent ELSE before.def[d]
      brought == p.def[<<d[1], a, r>>]
      gone == c = "none" /\ was \notin {"none", "custom"} /\ Form(was) = d[2]
  IN IF gone THEN Absent
     ELSE IF c = "none" \/ Form(c) # d[2] THEN old
     ELSE CASE Updated(p, a, r, d[1]) /\ brought # Absent -> brought
            [] Deleted(p, a, r) /\ Rule(p, a) = "UpdateSetOfResources" /\ c # "custom" -> Absent
            [] OTHER -> old

\* The package has been installed, whatever attempts that took.
Success == phase = "reply" /\ result = "ok"
WithTable(p) == {a \in Configured(p) : Rule(p, a) # "Uninstall" \/ a = Public}
SameForm(c, d) == (c \in Keyed /\ d \in Keyed) \/ (c = "file" /\ d = "file")

\* What a client had stored, and what is not to be deleted, is where the table
\* leads to now.
Found(s) ==
  LET a == s[1]
      c == hist.before.rct[a][s[3]]
      d == tree.rct[a][s[3]]
  IN /\ a \in Configured(Package) =>
          ~Fresh(Package, a) /\ ~Deleted(Package, a, s[3]) /\ s[2] \notin OtherOwners
     /\ SameForm(c, d) /\ c \in Stores
     => /\ d \in Stores
        /\ tree.data[d][s] = IF hist.before.data[c][s] # Absent
                               THEN hist.before.data[c][s] ELSE hist.before.data[d][s]

-----------------------------------------------------------------------------
(* Properties *)

\* The variables hold what the code's can hold.
TypeOK ==
  /\ tree \in Tree
  /\ phase \in {"idle", "unarchive", "work", "cleanup", "reply"}
  /\ result \in {"none", "ok", "error", "crashed"}
  /\ faults \in Nat /\ writes \in Nat
  /\ hist.before \in Tree /\ hist.start \in Tree /\ hist.skipped \subseteq Slots \cup Defaults

\* An installation that reports success has made the tables of the areas the
\* package configures the package's, and their defaults what rule and exceptions
\* say, also when earlier attempts with it, or with packages given up since, were
\* broken off anywhere; but for defaults passed over without an error.  What is
\* uninstalled is gone.
InstalledAsToldTo ==
  Success =>
    /\ \A a \in WithTable(Package) :
         /\ a \in tree.there /\ tree.rct[a] = Package.rct[a]
         /\ \A d \in Defaults \ hist.skipped :
              d[3] = a => tree.def[d] = ExpectedDefault(Package, hist.before, d)
    /\ \A a \in Configured(Package) \ WithTable(Package) :
         tree.rct[a] = NoTable /\ \A d \in Defaults : d[3] = a => tree.def[d] = Absent

\* A client finds what it stored after a successful installation, through the
\* table there is then: a change of policy moves it, and no failed attempt loses
\* it, unless the package says it is to be deleted or it was passed over without
\* an error.  Where it had stored nothing it finds what the new database held
\* before.
UserDataKept == Success => \A s \in Slots \ hist.skipped : Found(s)

\* What pas_conf_processPolicyChangesForInstallFolder says it returns for an error,
\* "negative value": an attempt that leaves keys behind does not end in success.
\* The code does not keep this (see the README).
EveryKeyMoved == Success => \A s \in Slots : Found(s)

\* After a successful installation nothing is left of a resource that became
\* obsolete, nothing in the database of the old policy, nothing of what was to
\* be deleted, and of an area installed anew nothing at all; but for data passed
\* over without an error.
NothingLeftBehind ==
  Success => \A s \in Slots \ hist.skipped, st \in Stores :
    LET a == s[1]
        c == hist.before.rct[a][s[3]]
        d == tree.rct[a][s[3]]
    IN /\ a \in Configured(Package) /\ tree.data[st][s] # Absent
       => /\ ~Fresh(Package, a)
          /\ s[2] \notin OtherOwners =>
               \/ st = d /\ ~Deleted(Package, a, s[3])
               \/ hist.before.data[st][s] # Absent /\ (st # c \/ (~SameForm(c, d) /\ d # "none"))

\* At any moment, also after a crash between any two steps, a member of a group
\* has its link, and an application that has resources the public one, unless
\* the link was there and was taken away (the application was uninstalled, or
\* an attempt broken off while it made the link anew), or the list of members
\* could not be read when it was installed.
MembersLinked ==
  /\ \A g \in Groups : tree.content[g] # NoContent =>
       \A a \in tree.content[g] : g \in tree.link[a] \/ <<a, g>> \in hist.loses
  /\ \A a \in Apps :
       tree.rct[a] # NoTable => Public \in tree.link[a] \/ <<a, Public>> \in hist.loses

\* What pas_conf_configureGroupMembers keeps a copy of the list for, "to be able to
\* get the group's members list easily (without scanning all the applications'
\* folders)": after a successful installation those it names are linked.  The code
\* does not keep this (see the README).
ListedAreLinked ==
  Success => \A g \in Groups : \A a \in Listed(tree.content[g]) : g \in tree.link[a]

\* No attempt, however it ends, touches an area the package does not configure,
\* but to link its application to a group or to make such a link anew.
OthersUntouched ==
  phase # "idle" =>
    /\ \A a \in Area \ Configured(Package) :
         /\ tree.rct[a] = hist.start.rct[a]
         /\ \A s \in Of(a), st \in Stores : tree.data[st][s] = hist.start.data[st][s]
         /\ \A d \in Defaults : d[3] = a => tree.def[d] = hist.start.def[d]
         /\ a \in Groups => tree.content[a] = hist.start.content[a]
         /\ a \in hist.start.there => a \in tree.there
    /\ \A a \in Apps \ Configured(Package) :
         \A s \in Shared : (s \in tree.link[a]) # (s \in hist.start.link[a]) =>
           s \in Configured(Package) /\ a \in Package.members[s]
=============================================================================
