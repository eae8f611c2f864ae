------------------------------- MODULE Backup -------------------------------
(***************************************************************************)
(* Backup: ssw_pers_admin_backup.c.  The selected data is collected under  *)
(* a folder the caller names, which is not emptied first, and what the     *)
(* folder then holds is packed into an archive.  The archive is an extra:  *)
(* its failure is not reported.                                            *)
(***************************************************************************)
EXTENDS DataSteps

ValidUser(user) == user = AllUsers \/ user >= 1
ValidSeat(seat) == seat = AllSeats \/ (1 <= seat /\ seat <= 4)
ValidSelection(r) == ValidUser(r.user) /\ ValidSeat(r.seat)

\* The archive's name: the application's, "user" or "all".
ArchiveName(r) == IF r.type = "application" THEN r.app ELSE r.type

BackupNode(a) == <<Copy("data", "coll", NodeFolder(a), "abort", "node")>>
BackupUser(a, r) ==
  <<Copy("data", "coll", UserFolder(a, r.user, r.seat), "abort", "user")>>
BackupDatabases(dbs, r) ==
  [i \in 1..Len(dbs) |->
     CopyDb("data", "coll", dbs[i], FilterKeys(dbs[i], r.type, r.user, r.seat),
            "abort", "databases")]

BackupApplication(r) ==
  BackupNode(r.app) \o BackupUser(r.app, r) \o <<CopyRct(r.app, "application")>>
    \o BackupDatabases(LocalDbs(r.app), r)

BackupUserLocal(r) ==
  LET Plan(a) == BackupUser(a, r) \o <<CopyRct(a, "local"), ExportLinks(a, "local")>>
  IN ForAll(AppsOf(tree.data), Plan)

\* Mutant: the loop over the groups ends one too early.
BackupUserSharedShort(r) ==
  LET Plan(a) == BackupUser(a, r) \o <<CopyRct(a, "shared")>>
      public == IF AreaExists(tree.data, Public) THEN <<Public>> ELSE <<>>
      groups == GroupsOf(tree.data)
  IN ForAll(public, Plan) \o <<ListGroups("abort", "shared")>>
       \o ForAll(SubSeq(groups, 1, Len(groups) - 1), Plan)

BackupUserShared(r) ==
  LET Plan(a) == BackupUser(a, r) \o <<CopyRct(a, "shared")>>
      public == IF AreaExists(tree.data, Public) THEN <<Public>> ELSE <<>>
  IN ForAll(public, Plan) \o <<ListGroups("abort", "shared")>>
       \o ForAll(GroupsOf(tree.data), Plan)

\* No application, nothing to back up: shared data is not looked at.
BackupUserAll(r) ==
  LET Databases_(a) == BackupDatabases(LocalDbs(a), r) IN
  IF AppsOf(tree.data) = <<>>
    THEN <<>>
    ELSE <<ListFolders("abort", "user_all")>> \o BackupUserLocal(r) \o BackupUserShared(r)
           \o ForAll(AppsOf(tree.data), Databases_)
           \o BackupDatabases(SharedDbs(tree.data), r)

BackupPlan(r) ==
  CASE r.type = "all" -> <<CopyAll>>
    [] r.type = "application" -> BackupApplication(r)
    [] r.type = "user" -> BackupUserAll(r)

\* Everything but a backup of all data looks at the user and the seat.
BackupRefused(r) == r.type # "all" /\ ~ValidSelection(r)

(***************************************************************************)
(* The collection is done: its size is the result, and                     *)
(* persadmin_priv_data_backup_archive packs it.  If packing breaks off the *)
(* archive is left as far as it got, in the place of an older one, and the *)
(* backup succeeds all the same.  A folder nothing was copied to does not  *)
(* exist: neither its size nor an archive of it can be had.                *)
(***************************************************************************)
Archive ==
  /\ phase = "work" /\ todo = <<>> /\ req.op = "backup"
  /\ phase' = "reply"
  /\ \E state \in {"good", "broken"}, res \in {"ok", "error"} :
       /\ \/ state = "good" /\ res = "ok" /\ tree.coll # NoTree /\ NoFault
          \/ (state = "good") # (res = "ok") /\ tree.coll # NoTree /\ Fault
          \/ state = "broken" /\ res = "error" /\ tree.coll = NoTree /\ NoFault
       /\ result' = res
       /\ arch' = [arch EXCEPT ![ArchiveName(req)] =
            [state |-> state, tree |-> tree.coll, of |-> req, was |-> tree.data,
             sound |-> hist.fresh /\ hist.lost = {}]]
  /\ sum' = 0 /\ part' = 0
  /\ UNCHANGED <<tree, conf, req, batch, todo, script, writes, hist>>

=============================================================================
