--------------------------- MODULE RestoreDefault ---------------------------
(***************************************************************************)
(* Restore to default: ssw_pers_admin_restore_default.c.  The selected     *)
(* data is deleted, so that the clients read the defaults again: the       *)
(* configurable ones, or with source "factory" the factory's, for which    *)
(* the configurable defaults are deleted too.  The first error ends it.    *)
(***************************************************************************)
EXTENDS DataSteps

Factory(r) == r.source = "factory"

\* Mutant: an error is only logged.
ResetNodeIgnores(a) == <<Clear("data", "data", NodeFolder(a), "ignore", "appl_node")>>

ResetNode(a) == <<Clear("data", "data", NodeFolder(a), "abort", "appl_node")>>

\* The user's files of one area, and its folder of configurable defaults.
ResetUser(a, r, user, seat) ==
  <<Clear("data", "data", UserFolder(a, user, seat), "abort", "appl_user")>>
    \o (IF Factory(r) THEN <<ClearDefaultFolder(a, "appl_user")>> ELSE <<>>)

\* Both databases must be there.
ResetKeys(dbs, r, type, user, seat) ==
  [i \in 1..Len(dbs) |->
     ClearDb("data", "data", dbs[i], FilterKeys(dbs[i], type, user, seat),
             "abort", "keys")]

ResetLocalKeys(a, r, type, user, seat) ==
  ResetKeys(LocalDbs(a), r, type, user, seat)
    \o (IF Factory(r) THEN <<ClearDefaultDb(a, "local_keys")>> ELSE <<>>)

ResetSharedKeys(r, type, user, seat) ==
  LET Plan(d) == ResetKeys(<<d>>, r, type, user, seat)
                 \o (IF Factory(r) THEN <<ClearDefaultDb(d[1], "shared_keys")>> ELSE <<>>)
  IN ForAll(SharedDbs(tree.data), Plan)

ResetApplication(a, r) ==
  ResetNode(a) \o ResetUser(a, r, AllUsers, AllSeats)
    \o ResetLocalKeys(a, r, "application", AllUsers, AllSeats)

ResetNonUserShared ==
  ResetNode(Public) \o <<ListFolders("abort", "non_user_shared")>>
    \o ForAll(GroupsOf(tree.data), ResetNode)

ResetUserShared(r, type, user, seat) ==
  LET Plan(a) == ResetUser(a, r, user, seat) IN
  Plan(Public) \o <<ListFolders("abort", "group_files")>>
    \o ForAll(GroupsOf(tree.data), Plan)
    \o ResetSharedKeys(r, type, user, seat)

\* A user's data of one application, or of all and of the shared areas.
ResetUserData(r) ==
  LET Plan(a) == ResetUser(a, r, r.user, r.seat)
                 \o ResetLocalKeys(a, r, "user", r.user, r.seat)
  IN IF r.app # ""
       THEN Plan(r.app)
       ELSE <<ListFolders("abort", "user_local")>> \o ForAll(AppsOf(tree.data), Plan)
              \o ResetUserShared(r, "user", r.user, r.seat)

\* Without an application the shared data is not looked at either.
ResetAllData(r) ==
  LET Plan(a) == ResetApplication(a, r) IN
  IF AppsOf(tree.data) = <<>>
    THEN <<>>
    ELSE <<ListFolders("abort", "all_data")>> \o ForAll(AppsOf(tree.data), Plan)
           \o ResetNonUserShared
           \o ResetUserShared(r, "all", AllUsers, AllSeats)

ResetPlan(r) ==
  CASE r.type = "all" -> ResetAllData(r)
    [] r.type = "user" -> ResetUserData(r)
    [] r.type = "application" -> ResetApplication(r.app, r)

\* Factory defaults of a user's data are not supported.
ResetRefused(r) == r.type = "user" /\ Factory(r)

=============================================================================
