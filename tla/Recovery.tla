------------------------------ MODULE Recovery ------------------------------
(***************************************************************************)
(* Recovery: ssw_pers_admin_recovery.c.  An archive is extracted next to   *)
(* the archives, over whatever an earlier recovery left there, and what it *)
(* holds replaces the selected data.  Folders are deleted before they are  *)
(* copied; local keys are deleted before they are copied, shared keys are  *)
(* not.  An application, and the user's files of shared data, are touched  *)
(* only if the resource tables of both sides agree.                        *)
(***************************************************************************)
EXTENDS DataSteps

\* Mutant: the folder is not deleted first.
ReplaceFolderKept(S, err, fn) == <<Copy("ext", "data", S, err, fn)>>

ReplaceFolder(S, err, fn) ==
  <<Clear("ext", "data", S, "ignore", fn), Copy("ext", "data", S, err, fn)>>

RestoreNode(a) == ReplaceFolder(NodeFolder(a), "abort", "appl_node")
RestoreUser(a, user, seat) ==
  ReplaceFolder(UserFolder(a, user, seat), "abort", "appl_user")

RestoreLocalKeys(a, type, user, seat) ==
  LET Plan(d) == <<ClearDb("ext", "data", d, FilterKeys(d, type, user, seat),
                           "ignore", "local_keys"),
                   CopyDb("ext", "data", d, FilterKeys(d, type, user, seat),
                          "abort", "local_keys")>>
  IN ForAll(LocalDbs(a), Plan)

RestoreSharedKeys(t, type, user, seat) ==
  LET Plan(d) == <<CopyDb("ext", "data", d, FilterKeys(d, type, user, seat),
                          "abort", "shared_keys")>>
  IN ForAll(SharedDbs(t), Plan)

RestoreApplication(a) ==
  <<CheckRct(a, "abort", "appl_data")>> \o RestoreNode(a)
    \o RestoreUser(a, AllUsers, AllSeats)
    \o RestoreLocalKeys(a, "application", AllUsers, AllSeats)

RestoreNonUserShared(t) ==
  RestoreNode(Public) \o <<ListFolders("abort", "non_user_shared")>>
    \o ForAll(GroupsOf(t), RestoreNode)

\* The user's files of an area that is shared; an error is "counted".
RestoreUserFiles(a, user, seat, fn) ==
  <<CheckRct(a, "count", fn)>> \o ReplaceFolder(UserFolder(a, user, seat), "count", fn)

RestoreUserShared(t, type, user, seat) ==
  LET Group(g) == RestoreUserFiles(g, user, seat, "group_files") IN
  (IF AreaExists(t, Public)
     THEN RestoreUserFiles(Public, user, seat, "public_files") ELSE <<>>)
    \o <<Return("user_shared")>>
    \o <<ListFolders("count", "group_files")>> \o ForAll(GroupsOf(t), Group)
    \o <<Return("user_shared")>>
    \o RestoreSharedKeys(t, type, user, seat)
    \o <<TestSum>>

\* The error code of import_links is in a variable nobody tests, and is added
\* to the bytes.
RestoreUserLocal(t, user, seat) ==
  LET Plan(a) == <<CheckRct(a, "abort", "user_local")>> \o RestoreUser(a, user, seat)
                   \o RestoreLocalKeys(a, "user", user, seat)
                   \o <<Return("user_local"), ImportLinks(a, "count", "import_links")>>
  IN <<ListFolders("abort", "user_local")>> \o ForAll(AppsOf(t), Plan) \o <<TestSum>>

RestoreUserData(t, r) ==
  RestoreUserLocal(t, r.user, r.seat) \o RestoreUserShared(t, "user", r.user, r.seat)

\* An application of the archive that is not installed is passed over.  Here
\* the result of import_links is lost.
RestoreAllData(t) ==
  LET installed == Those(AppsOf(t), {a \in Apps : AreaExists(tree.data, a)})
      Plan(a) == RestoreApplication(a) \o <<ImportLinks(a, "ignore", "all_data")>>
  IN IF AppsOf(t) = <<>>
       THEN <<>>
       ELSE <<ListFolders("abort", "all_data")>> \o ForAll(installed, Plan)
              \o RestoreNonUserShared(t) \o <<TestSum>>
              \o RestoreUserShared(t, "all", AllUsers, AllSeats)

\* t is the extracted tree.
RecoveryPlan(t, r) ==
  CASE r.type = "all" -> RestoreAllData(t)
    [] r.type = "user" -> RestoreUserData(t, r)
    [] r.type = "application" -> RestoreApplication(r.app)

\* Mutant: the shared folder is left out.
ExtractedApps(a) == Overlay(a.tree, tree.ext, Apps)

Extracted(a) == Overlay(a.tree, tree.ext, Area)

\* persadmin_uncompress: what is extracted is added to what lies there.
Uncompress ==
  /\ phase = "uncompress"
  /\ LET a == arch[req.arch] IN
     \/ /\ a.state = "good" /\ NoFault
        /\ LET t == Extracted(a) IN
           /\ Set("ext", t)
           /\ todo' = RecoveryPlan(t, req) /\ phase' = "work"
        /\ hist' = [hist EXCEPT !.extracted = @ \cup {a.tree}]
        /\ UNCHANGED result
     \/ /\ \/ a.state = "good" /\ Fault
           \/ a.state = "broken" /\ NoFault
        /\ \E n \in 0..Len(AppList) :
             Set("ext", Overlay(a.tree, tree.ext, ToSet(SubSeq(AppList, 1, n))))
        /\ hist' = [hist EXCEPT !.extracted = @ \cup {a.tree}]
        /\ phase' = "reply" /\ result' = "error"
        /\ UNCHANGED todo
     \/ /\ a.state = "none" /\ NoFault
        /\ phase' = "reply" /\ result' = "error"
        /\ UNCHANGED <<tree, todo, hist>>
  /\ UNCHANGED <<arch, conf, req, batch, sum, part, script, writes>>

\* Only a recovery that succeeded removes what it extracted.
Cleanup ==
  /\ phase = "work" /\ todo = <<>> /\ req.op = "recover"
  /\ phase' = "reply" /\ result' = "ok"
  /\ sum' = 0 /\ part' = 0
  /\ \/ /\ NoFault /\ Set("ext", NoTree)
        /\ hist' = [hist EXCEPT !.extracted = {}]
     \/ Fault /\ UNCHANGED <<tree, hist>>
  /\ UNCHANGED <<arch, conf, req, batch, todo, script, writes>>

=============================================================================
