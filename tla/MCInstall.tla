----------------------------- MODULE MCInstall -----------------------------
(* Instance of Install for TLC. *)
EXTENDS Install

MCGroups == {"10"}
MCApps == {"app1", "app2"}
MCResourceList == <<"r1", "r2">>
MCNameSize == [a \in MCApps |-> 5]
MCSlots ==
  {<<"app1", "user1", "r1">>, <<"app1", "user5", "r1">>, <<"app1", "node", "r2">>,
   <<"public", "user1", "r1">>, <<"10", "user1", "r1">>, <<"app2", "user1", "r1">>}

None == [r \in Resources |-> "none"]
T(c1, c2) == [r \in Resources |-> IF r = "r1" THEN c1 ELSE c2]
AllDefaults(a, c) == {d \in Defaults : d[3] = a /\ c[d[4]] # "none" /\ d[2] = Form(c[d[4]])}

\* Areas with their tables, every resource with its data and both defaults.
Target(tables, members) ==
  LET rct(a) == IF a \in DOMAIN tables THEN tables[a] ELSE None IN
  [there |-> DOMAIN tables,
   rct |-> [a \in Area |-> rct(a)],
   data |-> [st \in Stores |-> [s \in Slots |-> IF rct(s[1])[s[3]] = st THEN 1 ELSE Absent]],
   def |-> [d \in Defaults |-> IF d \in AllDefaults(d[3], rct(d[3])) THEN 1 ELSE Absent],
   content |-> [g \in Groups |-> members],
   link |-> [a \in Apps |-> (IF a \in DOMAIN tables THEN {Public} ELSE {})
                              \cup {g \in Groups : a \in members}]]

NoRules == [a \in Area |-> "none"]
NoExceptions == [a \in Area |-> None]
NoDefaults == [k \in Kinds \X Area \X Resources |-> Absent]
NewDefaults == [k \in Kinds \X Area \X Resources |-> 2]
\* The first resource only has a default.
SomeDefaults == [k \in Kinds \X Area \X Resources |-> IF k[3] = "r1" THEN 2 ELSE Absent]
AllFiles == {"public", "groups", "apps"}

\* A package that configures the areas of "rules".
Pack(rules, tables, exc, def, members) ==
  [files |-> AllFiles,
   groups |-> SetToSeq(DOMAIN rules \cap Groups),
   apps |-> SetToSeq(DOMAIN rules \cap Apps),
   rule |-> [a \in Area |-> IF a \in DOMAIN rules THEN rules[a] ELSE "none"],
   rct |-> [a \in Area |-> IF a \in DOMAIN tables THEN tables[a] ELSE None],
   exc |-> [a \in Area |-> IF a \in DOMAIN exc THEN exc[a] ELSE None],
   def |-> def,
   members |-> [g \in Groups |-> members]]
One(a, v) == [b \in {a} |-> v]

Rules == DOMAIN LookUpRules \cup {"Unknown"}
Exceptions == {None, T("update", "delete"), T("dontTouch", "none"), T("delete", "misspelt")}
App(rule, table, exc) == Pack(One("app1", rule), One("app1", table), One("app1", exc), SomeDefaults, {})
From(t, f, w, scripts) ==
  {[tree |-> t, script |-> s, faults |-> f, writes |-> w] : s \in scripts}

Base == Target([app1 |-> T("cached", "file"), public |-> T("wt", "none")], NoContent)
All == Target([app1 |-> T("cached", "wt"), app2 |-> T("wt", "none"), public |-> T("wt", "none")]
                @@ One("10", T("cached", "none")), {"app1"})
Whole(rule, members) ==
  Pack([app1 |-> rule, app2 |-> "UpdateAll", public |-> rule] @@ One("10", rule),
       [app1 |-> T("wt", "none"), app2 |-> T("wt", "file"), public |-> T("cached", "none")]
         @@ One("10", T("wt", "file")), One("app1", None), NewDefaults, members)

MCScenarios ==
  \* every rule with every set of exceptions
  From(Base, 1, 0, {<<App(r, T("wt", "file"), e)>> : r \in Rules, e \in Exceptions})
  \* every change of an entry
  \cup From(Base, 0, 0, {<<App(r, T(c1, c2), None)>> :
              r \in {"UpdateAll", "UninstallNonDefault"}, c1 \in Configs, c2 \in Configs})
  \cup UNION {From(Target([app1 |-> T(c1, "custom")], NoContent), 0, 0,
                   {<<App("UpdateAll", T("wt", "none"), None)>>, <<App("UpdateAll", None, None)>>}) :
              c1 \in Configs}
  \* two failures, and writes in between
  \cup From(Base, 2, 1, {<<App("UpdateAll", T("wt", "none"), None)>>,
                        <<App("UpdateAll", T("na", "custom"), None), App("UpdateAll", T("wt", "file"), None)>>})
  \* one application among others
  \cup From(All, 1, 1, {<<App("UpdateAll", T("wt", "file"), None)>>,
                        <<App("UpdateSetOfResources", T("cached", "wt"), T("update", "delete"))>>})
  \cup From(All, 1, 0, {<<App("Uninstall", None, None), App("NewInstall", T("wt", "none"), None)>>,
                        <<App("UninstallNonDefault", T("cached", "wt"), None)>>})
  \* all areas at once, and one package after the other
  \cup From(All, 2, 1, {<<Whole("UpdateAll", {"app2"})>>})
  \cup From(All, 1, 0, {<<Whole("NewInstall", {"app1", "app2"})>>, <<Whole("Uninstall", {"app1"})>>,
                        <<Whole("UpdateAll", {"app1"}), Whole("Uninstall", {}), Whole("NewInstall", {"app2"})>>})
  \cup From(All, 0, 0, {<<Whole("UpdateAll", {"app1", "app2"})>>, <<Whole("UpdateAll", NoContent)>>,
                        <<[Whole("UpdateAll", {"app2"}) EXCEPT !.files = {"public"}]>>,
                        <<[Whole("UpdateAll", {"app2"}) EXCEPT !.files = {"public", "groups"}]>>,
                        <<[Whole("UpdateAll", {"app2"}) EXCEPT !.groups = <<"10", "zz">>]>>})
  \* a key becomes a file, a key again, and changes its policy; another package
  \* when one failed
  \cup From(Base, 1, 0, {<<App("UpdateAll", T("file", "none"), None),
                         App("UpdateAll", T("wt", "none"), None),
                         App("UpdateAll", T("cached", "none"), None)>>})
  \cup From(Base, 2, 1, {<<App("UpdateAll", T("wt", "none"), None),
                         App("UpdateAll", T("cached", "file"), None)>>,
                        <<App("NewInstall", T("wt", "none"), None),
                         App("UpdateAll", T("cached", "file"), None)>>})
=============================================================================
