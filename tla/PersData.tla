------------------------------ MODULE PersData ------------------------------
(***************************************************************************)
(* The persistent data the administration service works on, and the state  *)
(* of the one operation it works on them with: what backup, recovery,      *)
(* restore-to-default and user deletion have in common                     *)
(* (ssw_pers_admin_files_helper.c, _database_helper.c, _common.c).         *)
(*                                                                         *)
(* A tree is what lies under one data root: the target's own (/Data), the  *)
(* folder a backup collects in, and the place a recovery extracts to.      *)
(* Cached and write-through data are reached through two mounts, mnt-c and *)
(* mnt-wt, of one file system; a tree is that file system, so what the     *)
(* code does once per mount is here done once.  The clients of the data    *)
(* are locked during an operation (PclLock): nothing else changes a tree.  *)
(* The folder of the groups exists, as the installation leaves it.         *)
(***************************************************************************)
EXTENDS Integers, Sequences, FiniteSets, SequencesExt

CONSTANTS
  MntList,       \* the folders under a mount, in the order readdir gives them
  SharedFolder,  \* the one of them that holds public and group data
  Public,        \* the public area
  GroupList,     \* the group areas, in the order readdir gives them
  Folders,       \* the data folders: <<area, owner>>
  Keys,          \* the database keys: <<area, owner, policy>>
  Versions,      \* the values a client can write
  ErrorCode      \* the size of the error code, in folders restored

Policies == <<"cached", "wt">>

\* The elements of a sequence that are in S, in their order.  Not SelectSeq: of
\* that the provers have no definition.
Those(seq, S) ==
  FlattenSeq([i \in 1..Len(seq) |-> IF seq[i] \in S THEN <<seq[i]>> ELSE <<>>])

Apps == ToSet(MntList) \ {SharedFolder}
AppList == Those(MntList, Apps)
Groups == ToSet(GroupList)
Shared == {Public} \cup Groups
Area == Apps \cup Shared

\* An owner of data is the node, or a user in a seat.
Node == <<0, 0>>
AllUsers == -1
AllSeats == -1

Databases == Area \X ToSet(Policies)

\* The value of a folder or of a key: absent, a folder without files, or the
\* version a client wrote.
Absent == 0
Empty == 1

ASSUME DataAssumption ==
  /\ MntList \in Seq(ToSet(MntList)) /\ GroupList \in Seq(Groups)
  /\ SharedFolder \in ToSet(MntList) /\ IsInjective(MntList)
  /\ IsInjective(GroupList) /\ Apps \cap Shared = {} /\ Public \notin Groups
  /\ IsFiniteSet(Folders) /\ Folders \subseteq Area \X (Nat \X Nat)
  /\ Keys \subseteq Area \X (Nat \X Nat) \X ToSet(Policies)
  /\ Versions \subseteq Nat \ {Absent, Empty}
  /\ ErrorCode \in Nat \ {0}
  \* with more, the walk at backup.c:1020 leaves the buffer of group names
  /\ Len(GroupList) <= 2

Tree == [file : [Folders -> {Absent, Empty} \cup Versions],
         key  : [Keys -> {Absent} \cup Versions],
         db   : SUBSET Databases,             \* the database files
         rct  : [Area -> Nat],                \* resource tables, 0: none
         link : [Apps -> SUBSET Shared],      \* symbolic links of an application
         info : [Apps -> SUBSET Shared]]      \* the file that lists them, {}: none

NoTree == [file |-> [f \in Folders |-> Absent], key |-> [k \in Keys |-> Absent],
           db |-> {}, rct |-> [a \in Area |-> 0],
           link |-> [a \in Apps |-> {}], info |-> [a \in Apps |-> {}]]

VARIABLES
  \* what is stored
  tree,    \* [data, coll, ext]: the target's data, the collection, the extraction
  arch,    \* the archives under BACKUP_LOCATION
  conf,    \* the areas that have configurable defaults: [folder, db]
  \* the operation in progress
  phase,   \* where the service is
  req,     \* the request it serves
  batch,   \* the requests an import or export still has to make
  todo,    \* the steps left
  sum,     \* the bytes the function in progress adds up, as a sint_t
  part,    \* the bytes of the callee in progress
  result,  \* of the last operation
  \* the environment, and history
  script,  \* the requests still to come
  faults,  \* how many more calls may fail, or crashes happen
  writes,  \* how many more changes are made between operations
  hist     \* what the properties compare with: see Begin

vars == <<tree, arch, conf, phase, req, batch, todo, sum, part, result,
          script, faults, writes, hist>>

-----------------------------------------------------------------------------
(* What a tree holds. *)

AreaExists(t, a) ==
  \/ t.rct[a] # 0
  \/ \E f \in Folders : f[1] = a /\ t.file[f] # Absent
  \/ \E d \in t.db : d[1] = a

\* persadmin_list_application_folders: all but the shared folder.
AppsOf(t) == Those(AppList, {a \in Apps : AreaExists(t, a)})
GroupsOf(t) == Those(GroupList, {g \in Groups : AreaExists(t, g)})
LocalDbs(a) == [i \in 1..Len(Policies) |-> <<a, Policies[i]>>]

\* The databases of shared data: public, then each policy of each group.
SharedDbs(t) ==
  LocalDbs(Public)
    \o FlattenSeq([i \in 1..Len(Policies) |->
         [j \in 1..Len(GroupsOf(t)) |-> <<GroupsOf(t)[j], Policies[i]>>]])

NodeFolder(a) == {f \in Folders : f[1] = a /\ f[2] = Node}

\* The folder persadmin_restore_set_user_path and its likes name.  All users
\* of one seat is no folder: none of the three tests holds, the path is not set.
OwnedBy(o, user, seat) ==
  CASE user = AllUsers /\ seat = AllSeats -> o # Node
    [] user # AllUsers /\ seat = AllSeats -> o[1] = user
    [] user # AllUsers /\ seat # AllSeats -> o = <<user, seat>>
    [] OTHER -> FALSE
UserFolder(a, user, seat) ==
  {f \in Folders : f[1] = a /\ f[2] # Node /\ OwnedBy(f[2], user, seat)}

\* Mutant: the seat is never compared.
FilterAnySeat(type, user, seat, o) ==
  IF user # AllUsers THEN o # Node /\ o[1] = user ELSE type = "user" => o # Node

\* persadmin_priv_filter_keys_in_list: by the prefix of the key's name.  The
\* seat is not looked at when all users are meant.
Filter(type, user, seat, o) ==
  IF user # AllUsers
    THEN o # Node /\ o[1] = user /\ (seat # AllSeats => o[2] = seat)
    ELSE type = "user" => o # Node
FilterKeys(d, type, user, seat) ==
  {k \in Keys : <<k[1], k[3]>> = d /\ Filter(type, user, seat, k[2])}

Exists(t, S) == \E f \in S : t.file[f] # Absent
Volume(t, S) == Cardinality({f \in S : t.file[f] \in Versions})

(* How one tree changes. *)

\* Mutant: a file that is there is appended to.
CopyFolderAppends(src, dst, S) ==
  [dst EXCEPT !.file = [f \in Folders |->
     IF f \in S /\ (src.file[f] \in Versions \/ dst.file[f] = Absent)
       THEN src.file[f] + dst.file[f] ELSE dst.file[f]]]

\* persadmin_copy_folder: what is there and not in the source stays.
CopyFolder(src, dst, S) ==
  [dst EXCEPT !.file = [f \in Folders |->
     IF f \in S /\ (src.file[f] \in Versions \/ dst.file[f] = Absent)
       THEN src.file[f] ELSE dst.file[f]]]

\* persadmin_delete_folder
DeleteFolder(t, S) ==
  [t EXCEPT !.file = [f \in Folders |-> IF f \in S THEN Absent ELSE t.file[f]]]

\* persadmin_priv_copy_keys_by_filter: the database is created when the source
\* has any key at all.
CopyKeys(src, dst, d, S) ==
  [dst EXCEPT
     !.key = [k \in Keys |-> IF k \in S /\ src.key[k] # Absent THEN src.key[k] ELSE @[k]],
     !.db = IF \E k \in Keys : <<k[1], k[3]>> = d /\ src.key[k] # Absent
              THEN @ \cup {d} ELSE @]

DeleteKeys(t, S) ==
  [t EXCEPT !.key = [k \in Keys |-> IF k \in S THEN Absent ELSE @[k]]]

\* A whole tree copied, or extracted, over another: files are added or
\* overwritten, and a database is a file.
Overlay(src, dst, areas) ==
  LET in == CopyFolder(src, dst, {f \in Folders : f[1] \in areas}) IN
  [in EXCEPT
     !.key = [k \in Keys |-> IF k[1] \in areas /\ <<k[1], k[3]>> \in src.db
                               THEN src.key[k] ELSE @[k]],
     !.db = @ \cup {d \in src.db : d[1] \in areas},
     !.rct = [a \in Area |-> IF a \in areas /\ src.rct[a] # 0 THEN src.rct[a] ELSE @[a]],
     !.link = [a \in Apps |-> IF a \in areas THEN @[a] \cup src.link[a] ELSE @[a]],
     !.info = [a \in Apps |-> IF a \in areas /\ src.info[a] # {} THEN src.info[a] ELSE @[a]]]

=============================================================================
