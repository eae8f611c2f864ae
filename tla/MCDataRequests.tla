--------------------------- MODULE MCDataRequests ---------------------------
(* Instance of DataRequests for TLC. *)
EXTENDS DataRequests

MCMntList == <<"app1", "shared", "app2">>
MCGroupList == <<"10", "11">>

\* User 1 sits in two seats, user 2 in one.
MCFolders ==
  {<<"app1", Node>>, <<"app1", <<1, 1>>>>, <<"app1", <<1, 2>>>>, <<"app1", <<2, 1>>>>,
   <<"app2", <<1, 1>>>>,
   <<"public", Node>>, <<"public", <<1, 1>>>>,
   <<"10", <<1, 1>>>>, <<"11", <<1, 1>>>>}
MCKeys ==
  {<<"app1", Node, "cached">>, <<"app1", <<1, 1>>, "cached">>, <<"app1", <<1, 2>>, "wt">>,
   <<"app2", <<2, 1>>, "cached">>,
   <<"public", <<1, 1>>, "cached">>, <<"10", <<1, 1>>, "wt">>}

Filled(areas, dbs) ==
  [file |-> [f \in Folders |-> IF f[1] \in areas THEN 2 ELSE Absent],
   key |-> [k \in Keys |-> IF k[1] \in areas THEN 2 ELSE Absent],
   db |-> {d \in dbs : d[1] \in areas},
   rct |-> [a \in Area |-> IF a \in areas THEN 1 ELSE 0],
   link |-> [a \in Apps |-> IF a \in areas THEN {Public} ELSE {}],
   info |-> [a \in Apps |-> {}]]

AllDatabases == {<<a, p>> : a \in Area, p \in {"cached", "wt"}}
\* The second seat of user 1 has no files yet.
Full ==
  LET all == Filled(Area, AllDatabases)
  IN [all EXCEPT !.file[<<"app1", <<1, 2>>>>] = Absent]
\* No groups, and an application without one of the databases.
Sparse == Filled(Apps \cup {Public}, AllDatabases \ {<<"app2", "wt">>})
NoApps == Filled(Shared, AllDatabases)

\* The folders, keys and areas that change between operations.
MCVolatile ==
  [folders |-> {<<"app1", <<1, 1>>>>, <<"app1", <<1, 2>>>>, <<"10", <<1, 1>>>>},
   keys |-> {<<"app1", <<1, 1>>, "cached">>, <<"public", <<1, 1>>, "cached">>},
   areas |-> {"app1", "public"}]

New(type, app, user, seat) == persAdminDataBackupCreate(type, "new", app, user, seat)
Again(type, app, user, seat) == persAdminDataBackupCreate(type, "same", app, user, seat)
Recover(type, file, app, user, seat) == persAdminDataBackupRecovery(type, file, app, user, seat)
From(data, f, w, scripts) ==
  {[data |-> data, script |-> s, faults |-> f, writes |-> w] : s \in scripts}
AppBackup == New("application", "app1", AllUsers, AllSeats)
AllBackup == New("all", "", AllUsers, AllSeats)

\* Failures in one operation, then failures and changes around a pair of them.
MCScenarios ==
  From(Full, 1, 0, {
    <<New("application", "app1", 1, 1), Again("user", "", 2, 1)>>,
    <<New("user", "", 1, AllSeats), Recover("user", "user", "", 1, 1)>>,
    <<AllBackup, Recover("all", "all", "", 1, 1)>>,
    <<persAdminDataRestore("all", "factory", "", AllUsers, AllSeats)>>,
    <<persAdminDataRestore("application", "configurable", "app1", 1, 1),
      persAdminDataRestore("user", "configurable", "", 1, AllSeats)>>,
    <<persAdminDataRestore("user", "configurable", "app1", 1, 1),
      persAdminResourceConfigChangeProperties, New("user", "", 1, 0)>>,
    <<persAdminDataRestore("user", "factory", "app1", 1, 1), persAdminUserDataDelete(1, 1)>>})
  \cup From(Full, 1, 1, {
    <<AppBackup, Recover("application", "app1", "app1", AllUsers, AllSeats)>>,
    <<New("user", "", 1, 1), persAdminUserDataDelete(1, 1), Recover("user", "user", "", 1, 1)>>})
  \cup From(Full, 0, 1, {
    <<AllBackup, Recover("user", "all", "", 2, AllSeats)>>,
    <<AllBackup, persAdminDataRestore("all", "configurable", "", AllUsers, AllSeats),
      Recover("application", "all", "app1", AllUsers, AllSeats)>>,
    <<AllBackup, Recover("all", "all", "", AllUsers, AllSeats)>>,
    <<New("user", "", AllUsers, AllSeats), Recover("user", "user", "", AllUsers, AllSeats)>>,
    <<persAdminDataRestore("user", "configurable", "app1", 1, 1), persAdminUserDataDelete(1, 1),
      persAdminUserDataDelete(1, 1)>>,
    <<persAdminUserDataDelete(AllUsers, 1), persAdminUserDataDelete(1, AllSeats)>>,
    <<persAdminDataFolderExport("application", "new"),
      persAdminDataFolderImport("application", "folder")>>,
    <<persAdminDataFolderExport("user", "new"), persAdminDataFolderImport("user", "user")>>})
  \cup From(Sparse, 0, 0, {
    <<persAdminDataRestore("all", "configurable", "", AllUsers, AllSeats)>>,
    <<persAdminUserDataDelete(1, 1)>>, <<New("user", "", 1, 1)>>,
    <<AllBackup, persAdminDataFolderImport("all", "all")>>})
  \cup From(NoApps, 0, 1, {
    <<New("user", "", 1, 1), Recover("user", "user", "", 1, 1)>>,
    <<AllBackup, persAdminDataFolderImport("application", "all"),
      Recover("all", "all", "", 1, 1)>>,
    <<persAdminDataRestore("all", "factory", "", AllUsers, AllSeats)>>})
=============================================================================
