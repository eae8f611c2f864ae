----------------------------- MODULE DataSteps ------------------------------
(***************************************************************************)
(* The calls an operation on the data is made of.  Each function of the    *)
(* service that works on the data is, in the modules that extend this one, *)
(* a sequence of calls ("plan"); here is what a call does when it succeeds *)
(* and when it fails half way, and where its caller goes on after that.    *)
(***************************************************************************)
EXTENDS PersData

(***************************************************************************)
(* A call: what it does, the trees it reads and changes, the area, folder  *)
(* set or database and keys it concerns, the function it is made from, and *)
(* what that function does with an error:                                  *)
(*   abort   returns it, and so do all its callers                         *)
(*   ignore  logs it and goes on                                           *)
(*   count   returns it to a caller that logs it and adds it to the bytes  *)
(*   leave   breaks off, and its caller does not learn of it               *)
(***************************************************************************)
Call(do, from, to, area, set, db, err, fn) ==
  [do |-> do, from |-> from, to |-> to, area |-> area, set |-> set, db |-> db,
   err |-> err, fn |-> fn]

NoDb == <<"", "">>

ListFolders(err, fn) == Call("list", "data", "data", "", {}, NoDb, err, fn)
\* The groups of the target, in a buffer of the size the list has: with no
\* group there is none, and persadmin_list_folder refuses it.
ListGroups(err, fn) ==
  Call(IF GroupsOf(tree.data) = <<>> THEN "listNothing" ELSE "list",
       "data", "data", "", {}, NoDb, err, fn)
Copy(from, to, S, err, fn) == Call("copy", from, to, "", S, NoDb, err, fn)
\* Delete folder S of "to" if the one of "from" exists.
Clear(from, to, S, err, fn) == Call("clear", from, to, "", S, NoDb, err, fn)
CopyDb(from, to, d, S, err, fn) == Call("copyKeys", from, to, d[1], S, d, err, fn)
\* Delete keys S from a database, in a recovery only if the archive has it.
ClearDb(from, to, d, S, err, fn) == Call("clearKeys", from, to, d[1], S, d, err, fn)
CheckRct(a, err, fn) == Call("checkRct", "ext", "data", a, {}, NoDb, err, fn)
CopyRct(a, fn) == Call("copyRct", "data", "coll", a, {}, NoDb, "abort", fn)
CopyAll == Call("copyAll", "data", "coll", "", {}, NoDb, "abort", "")
ExportLinks(a, fn) == Call("exportLinks", "data", "coll", a, {}, NoDb, "abort", fn)
ImportLinks(a, err, fn) == Call("importLinks", "ext", "data", a, {}, NoDb, err, fn)
ClearDefaultFolder(a, fn) == Call("clearConfFolder", "data", "data", a, {}, NoDb, "abort", fn)
ClearDefaultDb(a, fn) == Call("clearConfDb", "data", "data", a, {}, NoDb, "abort", fn)
ListArea(a, fn) == Call("listArea", "data", "data", a, {}, NoDb, "leave", fn)
ClearSeat(f, fn) == Call("clearSeat", "data", "data", f[1], {f}, NoDb, "leave", fn)
Return(fn) == Call("return", "data", "data", "", {}, NoDb, "abort", fn)
TestSum == Call("testSum", "data", "data", "", {}, NoDb, "abort", "")

\* The plan that walks a sequence of areas or databases.
ForAll(seq, Plan(_)) == FlattenSeq([i \in 1..Len(seq) |-> Plan(seq[i])])

-----------------------------------------------------------------------------
(* Where the caller goes on. *)

Now == todo[1]

Note(S) == hist' = [hist EXCEPT !.lost = @ \cup S]

Succeed(bytes) ==
  /\ todo' = Tail(todo)
  /\ part' = part + bytes
  /\ UNCHANGED <<sum, phase, result, hist>>

\* The function the call is made from breaks off.
Leave ==
  \E n \in 1..Len(todo) :
    /\ \A i \in 1..n : todo[i].fn = Now.fn
    /\ n < Len(todo) => todo[n + 1].fn # Now.fn
    /\ todo' = SubSeq(todo, n + 1, Len(todo))

\* "quiet" says that a failure goes unreported; the error code is added to the
\* bytes the callee had returned so far, its own are lost.
Fail(quiet) ==
  \/ /\ Now.err = "abort"
     /\ todo' = <<>> /\ part' = 0 /\ sum' = 0
     /\ phase' = "reply" /\ result' = "error"
     /\ UNCHANGED hist
  \/ /\ Now.err = "ignore"
     /\ todo' = Tail(todo)
     /\ Note(quiet)
     /\ UNCHANGED <<part, sum, phase, result>>
  \/ /\ Now.err = "count"
     /\ Leave
     /\ part' = 0 /\ sum' = sum - ErrorCode
     /\ hist' = [hist EXCEPT !.counted = @ \cup {Now.fn}]
     /\ UNCHANGED <<phase, result>>
  \/ /\ Now.err = "leave"
     /\ Leave
     /\ Note(quiet)
     /\ UNCHANGED <<part, sum, phase, result>>

Fault == faults > 0 /\ faults' = faults - 1
NoFault == UNCHANGED faults
Set(name, t) == tree' = [tree EXCEPT ![name] = t]

Calling(do) == phase = "work" /\ todo # <<>> /\ Now.do = do
\* What no call changes.
Kept == UNCHANGED <<arch, req, batch, script, writes>>

-----------------------------------------------------------------------------
(* persadmin_list_folder and persadmin_list_application_folders, whose       *)
(* result the plan has used already.                                         *)
List ==
  /\ Kept /\ UNCHANGED <<tree, conf>>
  /\ \/ Calling("list") /\ NoFault /\ Succeed(0)
     \/ Calling("list") /\ Fault /\ Fail({})
     \/ Calling("listNothing") /\ NoFault /\ Fail({})

\* The listing user_data_delete_from_folder begins with: when it fails, no byte
\* was deleted, which is no error.
ListAreaStep ==
  /\ Calling("listArea") /\ Kept /\ UNCHANGED <<tree, conf>>
  /\ \/ NoFault /\ Succeed(0)
     \/ Fault /\ Fail({Now.area})

\* A folder that is there is copied; the copy stops at the first error.
CopyStep ==
  /\ Calling("copy") /\ Kept /\ UNCHANGED conf
  /\ LET src == tree[Now.from] IN
     \/ /\ NoFault /\ Succeed(Volume(src, Now.set))
        /\ Set(Now.to, CopyFolder(src, tree[Now.to], Now.set))
     \/ /\ Exists(src, Now.set) /\ Fault /\ Fail({})
        /\ \E S \in (SUBSET Now.set) \ {Now.set} :
             Set(Now.to, CopyFolder(src, tree[Now.to], S))

\* The folder to delete may be missing, which is an error too.  Deletion stops
\* at the first error.
ClearStep ==
  /\ Calling("clear") /\ Kept /\ UNCHANGED conf
  /\ IF Exists(tree[Now.from], Now.set)
       THEN LET dst == tree[Now.to] IN
            \/ /\ Exists(dst, Now.set) /\ NoFault /\ Succeed(0)
               /\ Set(Now.to, DeleteFolder(dst, Now.set))
            \/ /\ ~Exists(dst, Now.set) /\ NoFault /\ Fail({})
               /\ UNCHANGED tree
            \/ /\ Exists(dst, Now.set) /\ Fault /\ Fail(Now.set)
               /\ \E S \in (SUBSET Now.set) \ {Now.set} : Set(Now.to, DeleteFolder(dst, S))
       ELSE NoFault /\ Succeed(0) /\ UNCHANGED tree

(***************************************************************************)
(* persadmin_copy_keys_by_filter: no database, nothing to copy.  A key     *)
(* that cannot be read is skipped without a word; one that cannot be       *)
(* written ends the copy.                                                  *)
(***************************************************************************)
CopyKeysStep ==
  /\ Calling("copyKeys") /\ Kept /\ UNCHANGED conf
  /\ LET src == tree[Now.from]
         dst == tree[Now.to]
         held == {k \in Now.set : src.key[k] # Absent}
     IN IF Now.db \in src.db
          THEN \/ NoFault /\ Succeed(0) /\ Set(Now.to, CopyKeys(src, dst, Now.db, Now.set))
               \/ \E k \in held :
                    /\ Fault /\ Set(Now.to, CopyKeys(src, dst, Now.db, Now.set \ {k}))
                    /\ todo' = Tail(todo) /\ Note({k})
                    /\ UNCHANGED <<sum, part, phase, result>>
               \/ \E S \in (SUBSET held) \ {held} :
                    Fault /\ Fail({}) /\ Set(Now.to, CopyKeys(src, dst, Now.db, S))
          ELSE NoFault /\ Succeed(0) /\ UNCHANGED tree

\* persadmin_delete_keys_by_filter: a missing database is an error.  In a
\* recovery it is called for the databases the archive has.
ClearKeysStep ==
  /\ Calling("clearKeys") /\ Kept /\ UNCHANGED conf
  /\ LET dst == tree[Now.to]
         held == {k \in Now.set : dst.key[k] # Absent}
     IN IF Now.from = "ext" /\ Now.db \notin tree.ext.db
          THEN NoFault /\ Succeed(0) /\ UNCHANGED tree
          ELSE \/ /\ Now.db \in dst.db /\ NoFault /\ Succeed(0)
                  /\ Set(Now.to, DeleteKeys(dst, Now.set))
               \/ /\ Now.db \notin dst.db /\ NoFault /\ Fail({})
                  /\ UNCHANGED tree
               \/ /\ Now.db \in dst.db /\ Fault /\ Fail(held)
                  /\ \E S \in (SUBSET held) \ {held} : Set(Now.to, DeleteKeys(dst, S))

\* Mutant: both tables are there, what they hold is not compared.
CheckRctStepThere ==
  /\ Calling("checkRct") /\ Kept /\ NoFault /\ UNCHANGED <<tree, conf>>
  /\ IF tree.ext.rct[Now.area] # 0 /\ tree.data.rct[Now.area] # 0
       THEN Succeed(0)
       ELSE Fail({})

\* persadmin_restore_check_RCT_compatibility: both there, and the same.
CheckRctStep ==
  /\ Calling("checkRct") /\ Kept /\ NoFault /\ UNCHANGED <<tree, conf>>
  /\ IF tree.ext.rct[Now.area] # 0 /\ tree.ext.rct[Now.area] = tree.data.rct[Now.area]
       THEN Succeed(0)
       ELSE Fail({})

\* persadmin_copy_file of the resource table, which must be there.
CopyRctStep ==
  /\ Calling("copyRct") /\ Kept /\ UNCHANGED conf
  /\ LET rct == tree.data.rct[Now.area] IN
     \/ /\ rct # 0 /\ NoFault /\ Succeed(0)
        /\ Set("coll", [tree.coll EXCEPT !.rct[Now.area] = rct])
     \/ rct # 0 /\ Fault /\ Fail({}) /\ UNCHANGED tree
     \/ rct = 0 /\ NoFault /\ Fail({}) /\ UNCHANGED tree

\* persadmin_copy_folder of the whole root.
CopyAllStep ==
  /\ Calling("copyAll") /\ Kept /\ UNCHANGED conf
  /\ \/ NoFault /\ Succeed(0) /\ Set("coll", Overlay(tree.data, tree.coll, Area))
     \/ /\ Fault /\ Fail({})
        /\ \E n \in 0..Len(AppList) :
             Set("coll", Overlay(tree.data, tree.coll, ToSet(SubSeq(AppList, 1, n))))

\* persadmin_export_links: the file is written when there is a link.
ExportLinksStep ==
  /\ Calling("exportLinks") /\ Kept /\ UNCHANGED conf
  /\ LET links == tree.data.link[Now.area] IN
     \/ /\ NoFault /\ Succeed(0)
        /\ Set("coll", IF links = {} THEN tree.coll
                       ELSE [tree.coll EXCEPT !.info[Now.area] = links])
     \/ links # {} /\ Fault /\ Fail({}) /\ UNCHANGED tree

\* persadmin_import_links: a link that is there already is replaced.  That the
\* application is installed its callers have found out.
ImportLinksStep ==
  /\ Calling("importLinks") /\ Kept /\ UNCHANGED conf
  /\ LET a == Now.area
         links == tree.ext.info[a]
     IN \/ /\ NoFault /\ Succeed(0)
           /\ Set("data", [tree.data EXCEPT !.link[a] = @ \cup links])
        \/ links # {} /\ Fault /\ Fail({a}) /\ UNCHANGED tree

\* The configurable defaults of an area: a folder, and a database file.
ClearDefaultStep ==
  /\ (Calling("clearConfFolder") \/ Calling("clearConfDb")) /\ Kept /\ UNCHANGED tree
  /\ LET which == IF Now.do = "clearConfFolder" THEN "folder" ELSE "db" IN
     \/ /\ NoFault /\ Succeed(0)
        /\ conf' = [conf EXCEPT ![which] = @ \ {Now.area}]
     \/ /\ Now.area \in conf[which] /\ Fault /\ Fail({})
        /\ UNCHANGED conf

(***************************************************************************)
(* The user entry of user_data_delete_from_folder: every file in the       *)
(* seat's folder is deleted and the folder stays.  Listing an empty folder *)
(* is an error, like any failing listing; a file that cannot be deleted is *)
(* only printed.                                                           *)
(***************************************************************************)
ClearSeatStep ==
  /\ Calling("clearSeat") /\ Kept /\ UNCHANGED conf
  /\ LET dst == tree[Now.to]
         held == {f \in Now.set : dst.file[f] \in Versions}
         emptied == [dst EXCEPT !.file = [f \in Folders |->
                       IF f \in held THEN Empty ELSE dst.file[f]]]
     IN \/ ~Exists(dst, Now.set) /\ NoFault /\ Succeed(0) /\ UNCHANGED tree
        \/ /\ \E f \in Now.set : dst.file[f] = Empty
           /\ NoFault /\ Fail({}) /\ UNCHANGED tree
        \/ held # {} /\ NoFault /\ Succeed(0) /\ Set(Now.to, emptied)
        \/ held # {} /\ Fault /\ Fail(held) /\ UNCHANGED tree
        \/ /\ held # {} /\ Fault /\ UNCHANGED tree
           /\ todo' = Tail(todo) /\ Note(held)
           /\ UNCHANGED <<sum, part, phase, result>>

\* A callee returns its bytes.
ReturnStep ==
  /\ Calling("return") /\ Kept /\ NoFault /\ UNCHANGED <<tree, conf>>
  /\ todo' = Tail(todo) /\ sum' = sum + part /\ part' = 0
  /\ UNCHANGED <<phase, result, hist>>

\* Mutant: the sum is returned as it is.
TestSumStepSkipped ==
  /\ Calling("testSum") /\ Kept /\ NoFault /\ UNCHANGED <<tree, conf>>
  /\ todo' = Tail(todo) /\ sum' = 0 /\ part' = 0
  /\ UNCHANGED <<phase, result, hist>>

\* "if(retVal < SUCCESS_CODE)": the sum of what the callees returned.
TestSumStep ==
  /\ Calling("testSum") /\ Kept /\ NoFault /\ UNCHANGED <<tree, conf>>
  /\ IF sum + part < 0
       THEN Fail({})
       ELSE /\ todo' = Tail(todo) /\ sum' = 0 /\ part' = 0
            /\ UNCHANGED <<phase, result, hist>>

CallStep ==
  \/ List \/ CopyStep \/ ClearStep \/ CopyKeysStep \/ ClearKeysStep
  \/ CheckRctStep \/ CopyRctStep \/ CopyAllStep \/ ExportLinksStep \/ ImportLinksStep
  \/ ClearDefaultStep \/ ListAreaStep \/ ClearSeatStep \/ ReturnStep \/ TestSumStep

=============================================================================
