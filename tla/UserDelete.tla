----------------------------- MODULE UserDelete -----------------------------
(***************************************************************************)
(* Deletion of a user's data: ssw_pers_admin_user_delete_data.c.  Both     *)
(* mounts are walked, so everything is visited twice.  A folder's entries  *)
(* are taken in the order readdir gives them: the databases of the         *)
(* policies in "before" come before the user folder.                       *)
(***************************************************************************)
EXTENDS DataSteps

\* The user and seat are printed into a path and need to name a folder:
\* "all users" does not.
SeatFolder(a, r) == {f \in Folders : f[1] = a /\ f[2] # Node /\ f[2] = <<r.user, r.seat>>}

DeleteKeysOf(dbs, r, fn) ==
  [i \in 1..Len(dbs) |->
     ClearDb("data", "data", dbs[i], FilterKeys(dbs[i], "user", r.user, r.seat),
             "ignore", fn)]

\* user_data_delete_from_folder.  An error in the listing leaves all, one in the
\* user folder what comes after it; both return the bytes deleted so far.
DeleteFromFolder(a, r, before, mount) ==
  LET dbs(policies) == Those(LocalDbs(a), {d \in tree.data.db : d[2] \in policies})
      fn == <<a, mount>>
  IN <<ListArea(a, fn)>> \o DeleteKeysOf(dbs(before), r, fn)
       \o [i \in 1..Cardinality(SeatFolder(a, r)) |-> ClearSeat(<<a, <<r.user, r.seat>>>>, fn)]
       \o DeleteKeysOf(dbs(ToSet(Policies) \ before), r, fn)

\* Mutant: public data is left out.
DeleteFromMountNoPublic(r, before, mount) ==
  LET From(a) == DeleteFromFolder(a, r, before, mount)
      Entry(m) ==
        IF m = SharedFolder
          THEN <<ListGroups("abort", <<"groups", mount>>)>>
                 \o ForAll(GroupsOf(tree.data), From)
          ELSE IF AreaExists(tree.data, m) THEN From(m) ELSE <<>>
  IN <<ListFolders("abort", <<"mount", mount>>)>> \o ForAll(MntList, Entry)

\* Listing the groups is an error also when there are none; it ends the walk.
DeleteFromMount(r, before, mount) ==
  LET From(a) == DeleteFromFolder(a, r, before, mount)
      Entry(m) ==
        IF m = SharedFolder
          THEN From(Public) \o <<ListGroups("abort", <<"groups", mount>>)>>
                 \o ForAll(GroupsOf(tree.data), From)
          ELSE IF AreaExists(tree.data, m) THEN From(m) ELSE <<>>
  IN <<ListFolders("abort", <<"mount", mount>>)>> \o ForAll(MntList, Entry)

DeletePlan(r, before) ==
  DeleteFromMount(r, before, "mnt-c") \o DeleteFromMount(r, before, "mnt-wt")

=============================================================================
