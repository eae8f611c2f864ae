---------------------------- MODULE DataRequests ----------------------------
(***************************************************************************)
(* The service's side of the requests that concern data: which operation   *)
(* a request becomes (ssw_pers_admin_service.c), the loops of import and   *)
(* export, and one operation after the other with what happens between     *)
(* them.  AccessLib models how a request comes here and its response goes  *)
(* back, PclLock how the clients are stopped meanwhile.                    *)
(***************************************************************************)
EXTENDS Backup, Recovery, RestoreDefault, UserDelete

CONSTANTS
  Scenarios,  \* [data, script, faults, writes]: what the target starts with, the
              \* requests made, how many calls fail, how many changes come between
  Volatile    \* [folders, keys, areas]: what such a change concerns

-----------------------------------------------------------------------------
(* The requests of ssw_pers_admin_access_lib.c.                             *)

Request(op, type, app, user, seat, file, other) ==
  [op |-> op, type |-> type, app |-> app, user |-> user, seat |-> seat,
   arch |-> file, source |-> other, into |-> other]

\* "into" is "new" for a folder nothing was collected in before.
persAdminDataBackupCreate(type, into, app, user, seat) ==
  Request("backup", type, app, user, seat, "", into)
persAdminDataBackupRecovery(type, file, app, user, seat) ==
  Request("recover", type, app, user, seat, file, "")
persAdminDataRestore(type, source, app, user, seat) ==
  Request("restore", type, app, user, seat, "", source)
persAdminDataFolderExport(type, into) ==
  Request("export", type, "", AllUsers, AllSeats, "", into)
persAdminDataFolderImport(type, file) ==
  Request("import", type, "", AllUsers, AllSeats, file, "")
persAdminUserDataDelete(user, seat) ==
  Request("delete", "user", "", user, seat, "", "")
persAdminResourceConfigChangeProperties ==
  Request("changeProperties", "all", "", AllUsers, AllSeats, "", "")

\* The seat of a deletion is the only number the library looks at.
Sent(r) == r.op = "delete" => 0 <= r.seat /\ r.seat <= 4

\* persadmin_data_folder_export: a backup of each application, or one of all.
ExportRequests(r) ==
  IF r.type = "application"
    THEN [i \in 1..Len(AppsOf(tree.data)) |->
            persAdminDataBackupCreate("application", IF i = 1 THEN r.into ELSE "same",
                                      AppsOf(tree.data)[i], AllUsers, AllSeats)]
    ELSE <<persAdminDataBackupCreate(r.type, r.into, "", AllUsers, AllSeats)>>

\* persadmin_data_folder_import.  Applications are looked up in a folder, and
\* recovered from an archive of the same name; an archive has none.
ImportRequests(r) ==
  LET apps == IF r.arch = "folder" THEN AppsOf(tree.coll) ELSE <<>> IN
  IF r.type = "application"
    THEN [i \in 1..Len(apps) |->
            persAdminDataBackupRecovery("application", r.arch, apps[i], AllUsers, AllSeats)]
    ELSE <<persAdminDataBackupRecovery(r.type, r.arch, "", AllUsers, AllSeats)>>

Operations(r) ==
  CASE r.op = "export" -> ExportRequests(r)
    [] r.op = "import" -> ImportRequests(r)
    [] OTHER -> <<r>>

\* What a request may name.  All users of one seat are left out: then none of the
\* tests holds that set the user's path, and it is used as it is.
Archives == Apps \cup {"all", "user", "folder"}
Requests ==
  {r \in [op : {"backup", "recover", "restore", "export", "import", "delete",
                "changeProperties"},
          type : {"all", "user", "application"}, app : Apps \cup {""},
          user : Int, seat : Int, arch : Archives \cup {""},
          source : {"", "new", "same", "configurable", "factory"},
          into : {"", "new", "same", "configurable", "factory"}] :
     /\ r.type = "application" /\ r.op \in {"backup", "recover", "restore"} => r.app \in Apps
     /\ r.op \in {"recover", "import"} => r.arch \in Archives
     /\ r.op = "delete" => r.type = "user"
     /\ r.op \in {"backup", "recover", "restore"} /\ r.type # "all" /\ r.user = AllUsers =>
          r.seat = AllSeats}

\* A key that is there is in a database that is there.
KeysInDbs(t) == \A k \in Keys : t.key[k] # Absent => <<k[1], k[3]>> \in t.db

ASSUME ScenarioAssumption ==
  /\ \A s \in Scenarios :
       /\ s.data \in Tree /\ s.script \in Seq(Requests)
       /\ s.faults \in Nat /\ s.writes \in Nat
       /\ KeysInDbs(s.data)
  /\ Volatile.folders \subseteq Folders /\ Volatile.keys \subseteq Keys
  /\ Volatile.areas \subseteq Area

-----------------------------------------------------------------------------
NoRequest == Request("", "", "", 0, 0, "", "")
NoArchive == [state |-> "none", tree |-> NoTree, of |-> NoRequest, was |-> NoTree,
              sound |-> FALSE]

Init ==
  /\ \E s \in Scenarios :
       /\ tree = [data |-> s.data, coll |-> NoTree, ext |-> NoTree]
       /\ script = s.script /\ faults = s.faults /\ writes = s.writes
  /\ arch = [n \in Archives |-> NoArchive]
  /\ conf = [folder |-> Area, db |-> Area]
  /\ phase = "idle" /\ req = NoRequest /\ batch = <<>> /\ todo = <<>>
  /\ sum = 0 /\ part = 0 /\ result = "none"
  /\ hist = [before |-> tree.data, fresh |-> FALSE, lost |-> {}, counted |-> {},
             extracted |-> {}]

\* A request arrives; the clients are locked from here to the reply.
Receive ==
  /\ phase = "idle" /\ script # <<>> /\ Sent(Head(script))
  /\ phase' = "next"
  /\ batch' = Operations(Head(script)) /\ script' = Tail(script)
  /\ result' = "ok"
  /\ UNCHANGED <<tree, arch, conf, req, todo, sum, part, faults, writes, hist>>

\* What the library refuses never gets here.
RefuseInLibrary ==
  /\ phase = "idle" /\ script # <<>> /\ ~Sent(Head(script))
  /\ script' = Tail(script) /\ result' = "error"
  /\ UNCHANGED <<tree, arch, conf, phase, req, batch, todo, sum, part, faults, writes, hist>>

Begin(r, start, plan) ==
  /\ phase = "next" /\ batch # <<>> /\ r = Head(batch)
  /\ req' = r /\ batch' = Tail(batch)
  /\ phase' = start /\ todo' = plan /\ sum' = 0 /\ part' = 0
  /\ UNCHANGED <<arch, conf, script, faults, writes>>

Remember(coll) ==
  hist' = [hist EXCEPT !.before = tree.data, !.fresh = coll = NoTree, !.lost = {},
                       !.counted = {}]

\* persadmin_data_backup_create
BeginBackup ==
  LET r == Head(batch)
      coll == IF r.into = "new" THEN NoTree ELSE tree.coll
  IN /\ batch # <<>> /\ r.op = "backup" /\ ~BackupRefused(r)
     /\ Begin(r, "work", BackupPlan(r))
     /\ Set("coll", coll) /\ Remember(coll)
     /\ UNCHANGED result

\* persadmin_data_backup_recovery; the plan is made from what is extracted.
BeginRecovery ==
  LET r == Head(batch) IN
  /\ batch # <<>> /\ r.op = "recover"
  /\ Begin(r, "uncompress", <<>>) /\ Remember(tree.coll)
  /\ UNCHANGED <<tree, result>>

\* persadmin_data_restore_to_default
BeginReset ==
  LET r == Head(batch) IN
  /\ batch # <<>> /\ r.op = "restore" /\ ~ResetRefused(r)
  /\ Begin(r, "work", ResetPlan(r)) /\ Remember(tree.coll)
  /\ UNCHANGED <<tree, result>>

\* persadmin_user_data_delete
BeginDelete ==
  LET r == Head(batch) IN
  /\ batch # <<>> /\ r.op = "delete"
  /\ \E before \in SUBSET ToSet(Policies) : Begin(r, "work", DeletePlan(r, before))
  /\ Remember(tree.coll)
  /\ UNCHANGED <<tree, result>>

\* An operation that is not supported, or not with these parameters.
Refuse ==
  LET r == Head(batch) IN
  /\ batch # <<>>
  /\ \/ r.op = "changeProperties"
     \/ r.op = "backup" /\ BackupRefused(r)
     \/ r.op = "restore" /\ ResetRefused(r)
  /\ Begin(r, "reply", <<>>) /\ Remember(tree.coll)
  /\ result' = "error"
  /\ UNCHANGED tree

\* The last call of a restore or a deletion has returned.
Complete ==
  /\ phase = "work" /\ todo = <<>> /\ req.op \in {"restore", "delete"}
  /\ phase' = "reply" /\ result' = "ok" /\ sum' = 0 /\ part' = 0
  /\ UNCHANGED <<tree, arch, conf, req, batch, todo, script, faults, writes, hist>>

\* Export and import stop at the first operation that fails.
Reply ==
  /\ \/ phase = "reply"
     \/ phase = "next" /\ batch = <<>>
  /\ IF result = "ok" /\ batch # <<>>
       THEN phase' = "next" /\ UNCHANGED batch
       ELSE phase' = "idle" /\ batch' = <<>>
  /\ UNCHANGED <<tree, arch, conf, req, todo, sum, part, result, script, faults, writes, hist>>

\* The service dies; what it had written stays.
Crash ==
  /\ phase \notin {"idle", "next"} /\ Fault
  /\ phase' = "idle" /\ result' = "crashed"
  /\ batch' = <<>> /\ todo' = <<>> /\ sum' = 0 /\ part' = 0
  /\ UNCHANGED <<tree, arch, conf, req, script, writes, hist>>

-----------------------------------------------------------------------------
(* What the clients and the installer do between operations. *)

Change(data) ==
  /\ phase = "idle" /\ script # <<>> /\ writes > 0
  /\ writes' = writes - 1 /\ Set("data", data)
  /\ UNCHANGED <<arch, conf, phase, req, batch, todo, sum, part, result, script, faults, hist>>

WriteFile ==
  \E f \in Volatile.folders, v \in Versions :
    /\ AreaExists(tree.data, f[1]) /\ v # tree.data.file[f]
    /\ Change([tree.data EXCEPT !.file[f] = v])

WriteKey ==
  \E k \in Volatile.keys, v \in Versions \cup {Absent} :
    /\ AreaExists(tree.data, k[1]) /\ v # tree.data.key[k]
    /\ Change([tree.data EXCEPT !.key[k] = v, !.db = @ \cup {<<k[1], k[3]>>}])

\* An application is updated: a resource table that is not the old one.
Update ==
  \E a \in Volatile.areas :
    /\ tree.data.rct[a] # 0
    /\ Change([tree.data EXCEPT !.rct[a] = @ + 1])

Uninstall ==
  \E a \in Volatile.areas \cap Apps :
    /\ AreaExists(tree.data, a)
    /\ Change([file |-> [f \in Folders |-> IF f[1] = a THEN Absent ELSE tree.data.file[f]],
               key |-> [k \in Keys |-> IF k[1] = a THEN Absent ELSE tree.data.key[k]],
               db |-> {d \in tree.data.db : d[1] # a},
               rct |-> [tree.data.rct EXCEPT ![a] = 0],
               link |-> [tree.data.link EXCEPT ![a] = {}],
               info |-> [tree.data.info EXCEPT ![a] = {}]])

Next ==
  \/ Receive \/ RefuseInLibrary \/ Refuse
  \/ BeginBackup \/ BeginRecovery \/ BeginReset \/ BeginDelete
  \/ CallStep
  \/ Archive \/ Uncompress \/ Cleanup \/ Complete \/ Reply
  \/ Crash
  \/ WriteFile \/ WriteKey \/ Update \/ Uninstall

Spec == Init /\ [][Next]_vars

-----------------------------------------------------------------------------
(* What a request selects, from its parameters alone. *)

EveryUser(r) == r.type # "user" /\ r.op \in {"recover", "restore"}

\* A seat means nothing without a user.
Owns(r, o) ==
  /\ o # Node
  /\ r.user # AllUsers => o[1] = r.user /\ (r.seat # AllSeats => o[2] = r.seat)

SelectsFile(r, f) ==
  IF r.op = "delete" THEN f[2] # Node /\ f[2] = <<r.user, r.seat>>
  ELSE CASE r.type = "all" -> TRUE
         [] r.type = "application" ->
              f[1] = r.app /\ (f[2] = Node \/ EveryUser(r) \/ Owns(r, f[2]))
         [] r.type = "user" ->
              /\ Owns(r, f[2])
              /\ r.op = "restore" /\ r.app # "" => f[1] = r.app

SelectsKey(r, k) ==
  CASE r.type = "all" -> TRUE
    [] r.type = "application" ->
         k[1] = r.app /\ (EveryUser(r) \/ r.user = AllUsers \/ Owns(r, k[2]))
    [] r.type = "user" ->
         /\ Owns(r, k[2])
         /\ r.op = "restore" /\ r.app # "" => k[1] = r.app

\* The areas a recovery is about.
InScope(r, a) ==
  CASE r.type = "application" -> a = r.app
    [] r.type = "user" -> a \in Shared \/ AreaExists(tree.ext, a)
    [] r.type = "all" -> a \in Shared \/ (AreaExists(tree.ext, a) /\ AreaExists(tree.data, a))

\* The folder that is deleted and copied in one.
UnitOf(r, f) ==
  IF f[2] = Node THEN {f}
  ELSE {g \in Folders : g[1] = f[1] /\ g[2] # Node /\ SelectsFile(r, g)}

\* Every step of the operation has been made, none with an error nobody saw.
Done(op) == phase = "work" /\ todo = <<>> /\ req.op = op /\ hist.lost = {}
Answered(op) == phase = "reply" /\ req.op = op /\ result = "ok"

-----------------------------------------------------------------------------
(* Properties *)

\* The variables hold what the code's can hold.
TypeOK ==
  /\ tree \in [data : Tree, coll : Tree, ext : Tree]
  /\ \A n \in Archives : arch[n].state \in {"none", "good", "broken"} /\ arch[n].tree \in Tree
  /\ conf \in [folder : SUBSET Area, db : SUBSET Area]
  /\ phase \in {"idle", "next", "uncompress", "work", "reply"}
  /\ result \in {"none", "ok", "error", "crashed"}
  /\ sum \in Int /\ part \in Nat
  /\ faults \in Nat /\ writes \in Nat
  /\ hist.before \in Tree /\ hist.extracted \in SUBSET Tree

\* No operation touches data the request does not select, whatever fails half
\* way: not another user's, not another application's, and a backup nothing.
\* The resource tables are never touched.
OnlySelected ==
  phase \in {"work", "uncompress", "reply"} =>
    LET mayWrite == req.op \in {"recover", "restore", "delete"} IN
    /\ \A f \in Folders : tree.data.file[f] # hist.before.file[f] =>
         mayWrite /\ SelectsFile(req, f)
    /\ \A k \in Keys : tree.data.key[k] # hist.before.key[k] =>
         mayWrite /\ SelectsKey(req, k)
    /\ tree.data.rct = hist.before.rct

\* A recovery changes an application, or a user's files of a shared area, only
\* where the backup was made under the resource table that is installed now
\* (persadmin_restore_check_RCT_compatibility).
RctProtects ==
  req.op = "recover" /\ phase = "work" =>
    LET same(a) == tree.ext.rct[a] # 0 /\ tree.ext.rct[a] = tree.data.rct[a] IN
    /\ \A f \in Folders : tree.data.file[f] # hist.before.file[f] =>
         same(f[1]) \/ (f[1] \in Shared /\ f[2] = Node)
    /\ \A k \in Keys : tree.data.key[k] # hist.before.key[k] =>
         same(k[1]) \/ k[1] \in Shared

\* A recovery that is about to report success, and that hid no error, has made
\* every selected folder of the archive, and every selected key of its
\* databases, what the archive holds: local data exactly, shared keys without
\* deleting those that came since.  (Of an archive of all data that has no
\* application nothing is recovered, and success reported: recovery.c:1944.)
RecoveryRestores ==
  Done("recover") /\ hist.counted = {} /\ (req.type = "all" => AppsOf(tree.ext) # <<>>) =>
    /\ \A f \in Folders :
         SelectsFile(req, f) /\ InScope(req, f[1]) /\ Exists(tree.ext, UnitOf(req, f)) =>
           tree.data.file[f] = tree.ext.file[f]
    /\ \A k \in Keys :
         /\ SelectsKey(req, k) /\ InScope(req, k[1]) /\ <<k[1], k[3]>> \in tree.ext.db
         /\ k[1] \in Shared => tree.ext.key[k] # Absent
         => tree.data.key[k] = tree.ext.key[k]
    /\ req.type # "application" =>
         \A a \in Apps : InScope(req, a) => tree.ext.info[a] \subseteq tree.data.link[a]

\* What a backup that hid no error archives holds the selected data; if it
\* was collected in a new folder, nothing else.
BackupFaithful ==
  Done("backup") /\ AppsOf(tree.data) # <<>> =>
    /\ \A f \in Folders :
         LET stored == IF SelectsFile(req, f) THEN tree.data.file[f] ELSE Absent IN
         stored \in Versions \/ hist.fresh => tree.coll.file[f] = stored
    /\ \A k \in Keys :
         LET stored == IF SelectsKey(req, k) THEN tree.data.key[k] ELSE Absent IN
         stored # Absent \/ hist.fresh => tree.coll.key[k] = stored
    /\ \A a \in Area : hist.fresh /\ AreaExists(tree.coll, a) =>
         tree.coll.rct[a] = tree.data.rct[a]

\* Backup, any changes, and a recovery of that archive that hid no error, bring
\* back every folder and key both requests select, if nothing else was in the
\* folders the two worked in.
RoundTrip ==
  LET a == arch[req.arch] IN
  /\ Done("recover") /\ hist.counted = {} /\ a.sound /\ hist.extracted = {a.tree}
  /\ req.type = "all" => AppsOf(a.was) # <<>>
  =>
    /\ \A f \in Folders :
         /\ SelectsFile(a.of, f) /\ SelectsFile(req, f) /\ InScope(req, f[1])
         /\ a.was.file[f] \in Versions
         => tree.data.file[f] = a.was.file[f]
    /\ \A k \in Keys :
         /\ SelectsKey(a.of, k) /\ SelectsKey(req, k) /\ InScope(req, k[1])
         /\ a.was.key[k] # Absent
         => tree.data.key[k] = a.was.key[k]

\* An error code that was added to the bytes is reported, unless at least as
\* many bytes of users' files were restored beside it: of the applications if
\* their links failed, else of the shared areas.
HiddenOnlyByVolume ==
  Done("recover") => \A fn \in hist.counted :
    ErrorCode <= Cardinality({f \in Folders :
                                /\ f[2] # Node /\ (f[1] \in Apps <=> fn = "import_links")
                                /\ tree.ext.file[f] \in Versions
                                /\ tree.data.file[f] = tree.ext.file[f]})

\* A restore to default that reports success has deleted all it selects; with
\* the factory's defaults, also the configurable ones.
ResetComplete ==
  Answered("restore") /\ AppsOf(hist.before) # <<>> =>
    /\ \A f \in Folders : SelectsFile(req, f) => tree.data.file[f] = Absent
    /\ \A k \in Keys : SelectsKey(req, k) => tree.data.key[k] = Absent
    /\ \A a \in Area :
         Factory(req) /\ AreaExists(hist.before, a) /\ (req.type = "all" \/ a = req.app) =>
           a \notin conf.folder /\ a \notin conf.db

\* After a user's data was deleted without an error nobody saw, no file of that
\* user and seat is left, and no key, but for areas whose seat folder was empty
\* already: there the walk breaks off.
DeleteComplete ==
  Answered("delete") /\ hist.lost = {} =>
    /\ \A f \in Folders : SelectsFile(req, f) => tree.data.file[f] \in {Absent, Empty}
    /\ \A k \in Keys : SelectsKey(req, k) =>
         \/ tree.data.key[k] = Absent
         \/ \E f \in Folders : f[1] = k[1] /\ SelectsFile(req, f) /\ hist.before.file[f] = Empty
=============================================================================
