# Verification of the persistence administration service

TLA+ models, TLC runs and TLAPS proofs about the GENIVI *persistence
administration service* (PAS, `Administrator/src`).  PAS is a daemon that backs
up, recovers, resets, deletes, imports and installs the persistent data of
applications while the applications run.  Its administrative clients call it
through a library; the applications' persistence clients (PCL) are told to
flush and to stop writing while an operation runs; the node state manager (NSM)
tells it when the system shuts down; systemd starts, watches and restarts it.

## 1. The system

### Components

| Component | Source | State | Operations |
|---|---|---|---|
| PCL lock protocol | `ssw_pers_admin_pcl.c` | list of registered clients with two flags each, its mutex, request id, requested mode, current mode, "registration blocked", "waiting for confirmations" | register, unregister, confirm (IPC thread); lock and sync, wait, roll back, unlock (access-lib thread) |
| Shutdown gate | `ssw_pers_admin_service.c`, `ssw_pers_admin_dbus.c` | operation flag, shutdown flag, their mutex and condition, "registered to NSM", "run access-lib thread" | process request, set shutdown state, lifecycle request, SIGTERM, stop |
| Access library and queues | `ssw_pers_admin_access_lib.c`, `ssw_pers_admin_service.c` | a named semaphore, two named queues of one message | nine library calls of one form; create, read, answer, close |
| D-Bus loop and watchdog | `ssw_pers_admin_dbus.c` | connection, name, proxy, timer | callbacks of the main loop |
| Start, PID file, daemon | `ssw_pers_admin_service.c` | PID file and its lock | "already running?", double fork, lock, end |
| Resource configuration install | `ssw_pers_admin_resource_config_add.c` | the persistence tree: folders, resource tables (RCT), data, factory and configurable defaults, members of groups, links | install a package: per area a rule, per resource an exception |
| Backup / recovery | `ssw_pers_admin_backup.c`, `..._recovery.c` | backup folder, persistence tree, shared and local databases | by application, user, seat or everything |
| Restore to default | `ssw_pers_admin_restore_default.c` | persistence tree, databases | by application, user, everything |
| User deletion | `ssw_pers_admin_user_delete_data.c` | persistence tree, databases | by user, seat |
| Folder import / export | `ssw_pers_admin_data_import.c`, `..._export.c` | a folder, the persistence tree | by type |
| Database helper | `ssw_pers_admin_database_helper.c` | databases opened by path | list, filter, copy, delete keys |
| Helpers | `..._files_helper.c`, `..._common.c`, `..._config.c` | file system, JSON handles | copy, remove, pack, parse |

### How they interact

```
 admin client --semaphore, request queue--> access-lib thread --persIpc--> PCL clients
      ^                                        |   ^                          |
      +-------------response queue-------------+   | op flag, shutdown flag    | register,
                                                   | (mutex, condition)        | confirm
 NSM --D-Bus lifecycle request--> main thread -----+            IPC thread <---+
 systemd --start, SIGTERM, watchdog--> main thread              (list, mutex, globals)
```

One request takes this path: the client takes the semaphore and sends; the
access-lib thread reads the request, locks the PCL clients, passes the gate
(registered to NSM? shutdown pending?), runs the operation, unlocks the PCL
clients, and responds.  Three threads of the daemon are involved, and each pair
of them shares state: the IPC and the access-lib thread the list of clients and
five globals, the main and the access-lib thread the two flags of the gate.

### What is hard, and what makes each part correct

* *PCL lock protocol.* Two threads, unprotected reads before the mutex, clients
  that die, refuse, or answer late, messages of one request meeting the next.
  Correct when an operation runs only while all registered clients keep their
  hands off, confirmations count for their own request only, every request
  ends, and everybody who was locked is unlocked.
* *Shutdown gate.* A handler that waits for an operation, a signal handler, a
  thread that can stop itself.  Correct when nothing runs after NSM was told
  that the system may go down, the handler is always woken, and every way out
  leaves the clients unlocked.
* *Access library.* Processes that share three named objects without any
  ownership, signals, crashes and restarts.  Correct when callers get the
  answer to their own request, requests are executed at most once, and
  undisturbed calls return.
* *Data operations.* Sequential, but with dozens of calls that can fail one by
  one on a tree that applications depend on.  Some failures end the operation,
  some are logged, some are added to a count of bytes.  Correct when nothing but
  the selection changes, and when what succeeds without a hidden failure has done
  all it says, also across several operations and what happens between them.
* *Installation.* The longest sequence, worked out from the old resource tables
  that it replaces on the way, and never rolled back.  Correct when a further
  attempt makes up for a broken one: the tables and defaults are the package's,
  clients find their data, nothing obsolete is left, other areas are untouched.

Each of these has its entries under "hazards" in `PROJECT.json`, at the line
where they bite.

## 2. The modules

| Module | Models | Checked by |
|---|---|---|
| `PclLock` | `ssw_pers_admin_pcl.c` and the PCL clients as its environment | `MCPclLock`: `PclProtocol`, `PclLock`, `PclClientError`, `PclSendFail` |
| `PclLockProofs` | theorems about `PclLock`: exclusion while an operation runs; what messages carry, and who is owed an unlock | tlapm |
| `ShutdownGate` | `persadmin_ProcessRequest`, `persadmin_set_shutdown_state`, the access-lib thread, `persadmin_RunDaemon`, the D-Bus callbacks | `MCShutdownGate`: `ShutdownGate`, `ShutdownWaits` |
| `ShutdownGateProofs` | theorems about `ShutdownGate` | tlapm |
| `RequestServer` | what the access library promises: calls executed one at a time, at most once, answered with their own result | through `AccessLib` |
| `AccessLib` | a library call, the objects, the service's loop, crash and restart | `MCAccessLib`: `AccessLib`, `AccessFaults`, `AccessInterrupt`, `AccessRestart` |
| `AccessLibProofs` | theorems about `AccessLib`: its objects and conversations; that it implements `RequestServer` | tlapm |
| `PersData` | what lies under a data root: folders, keys, databases, resource tables, links; copy, deletion and filters (`_files_helper.c`, `_database_helper.c`, `_common.c`) | through `DataRequests` |
| `DataSteps` | the calls a data operation is made of, how each fails half way, and what its caller does with the error | through `DataRequests` |
| `Backup`, `Recovery`, `RestoreDefault`, `UserDelete` | the four operations, each as a sequence of such calls | through `DataRequests` |
| `DataRequests` | the requests of the access library, export and import, one operation after the other; EXTENDS the four | `MCDataRequests`: `DataRequests` |
| `Install` | installation of a resource package, attempts, further attempts, clients in between | `MCInstall`: `Install` |
| `FlattenLemmas` | what the concatenation of sequences of sequences yields, for the plans of the two | tlapm |
| `DataProofs` | theorems about `DataRequests`: nothing is done that was not selected; reset and deletion are complete | tlapm |
| `CompletionProofs` | theorems about `DataRequests`: backup and recovery are complete, and together a round trip; what hidden errors are outweighed by | tlapm |
| `InstallProofs` | theorems about `Install`: types, other areas, links | tlapm |
| `InstallDataProofs` | theorems about `Install`: tables, defaults and data after a successful installation | tlapm |

In the first group of modules every action is one stretch of code between two
points at which another thread or process can see or change what it uses; program
counters (`libPc`, `threadPc`, `mainPc`, `daemonPc`, `clientPc`) say where each one
is.  A critical section that cannot block inside is one action.  In the data
operations and the installation, which nothing runs beside (the clients are locked,
`PclLock`), an action is one call into the file system or a database: that is where
an error may come from, and where a crash may leave the tree.

"Mutant" operators (`...NoReset`, `...OffByOne`, ...) are plausible bugs; nothing
uses them in the specification, they show that the properties can fail.

### PclLock

`regClients` is the linked list as a sequence, in order of registration; an
entry has its client and the two flags.  `notificationFlag` and `timeoutMs`
never change, so they are constants per client.  The five globals have the
code's names without prefixes.  The thread that holds the mutex inside the
notification loop is `listMtx`; the other critical sections are one action.

The loop of `NotifyRegisteredClients` takes one action per client because each
turn makes a synchronous call during which the environment moves.
`WaitForNotificationConfirmations` reads `g_bWaitForNotifConf` at three places
(loop condition, under the mutex, before the sleep), and another thread may
clear it between any two: three program points.  The callbacks test a global
*before* they lock the mutex (`RegisterTest`/`RegisterInsert`,
`ConfirmTest`/`Confirm...`), so each is two actions; the IPC library
dispatches one callback at a time.  Two places read a client through a NIL
pointer; that is undefined, and modelled as a choice between a crash and going
on.

`Faults` selects what may go wrong: failing messages, refusing, crashing or
leaving clients.  That a callback is preempted between test and mutex is no fault
but scheduling, and always possible, for as long as whole requests take.  What
needs more is stated of `PromptSpec`, whose `PromptConfirmation` says that a
*confirmation* past its test reaches the mutex before the next request gets its
id.  Of registrations nothing is assumed.

### ShutdownGate

The lock of the PCL clients is one flag here, `PclLock` is about the rest.
`opInProgress` and `shutdownInProgress` are touched only under `g_shutdownMtx`,
so each critical section is one action.  The waiting handler is `mainPc` going
from "waiting" to "woken" by the broadcast (or spuriously) and then through the
test again.  The queues of the access library are here what the thread sees of them:
one request, one response, and a client that waits, sends or is interrupted
(`ClientNext`).  `mq_send` blocks while an interrupted client's response is still in the
queue (`Respond`), until some client takes it; a signal may end that (`RespondFails`).
What the queue holds when the service starts (left by an instance that crashed) is what
interrupted clients leave, and starts empty.  `g_main_loop_quit` lets the current iteration of the loop finish,
so callbacks may still run after `quit`.  The operation itself is one program
point: its kinds do not matter to the gate.  A denied request's error code is
overwritten by `PAS_FAILURE` at the end of `persadmin_ProcessRequest`, and
`result` shows it.

### AccessLib and RequestServer

The objects are named by the boot that created them, so that a client can hold
one that has lost its name, and a restarted service can open the objects of its
predecessor.  The nine functions of the library are one action sequence,
`CallBegin` ... `Post`: they differ in the parameters they check and copy.
`RequestServer` has no objects: a call is asked, begun, finished and answered,
or refused, and a refused call was not begun.  The refinement maps a client's
program counter to what it does for its caller, and the service's to the
running call.

### PersData and DataSteps

A *tree* is what lies under one data root.  There are three: the target's own
(`tree.data`), the folder a backup collects in (`tree.coll`) and the place an
archive is extracted to (`tree.ext`).  The unit of files is the folder of an owner
in an area: `<<"app1", Node>>`, or `<<"app1", <<1, 2>>>>` for user 1 in seat 2; its
value is a version, `Empty`, or `Absent`.  Keys are in databases, one per area and
policy; the database file may be missing, which is an error for some calls and
none for others.  Cached and write-through data are two mounts of one file system,
so the model keeps one copy, and a deletion, which walks both mounts, sees in the
second what it did in the first.

Each C function that works on data is a *plan*, the sequence of its calls, written
`RestoreUser`, `ResetLocalKeys`, ... after the function.  A call has the trees and
data it concerns, and what its caller does with an error: `abort` it, `ignore`
it, `count` it (a negative number is added to the bytes restored: `recovery.c:1293`),
or `leave` the loop.  `DataSteps` says what a call does when it succeeds, and which
states it may leave when it fails.  `sum` and `part` are the byte counts of the code;
a failure that was counted is reported only if the sum is negative in the end.

`hist` remembers what the properties compare with: the tree before the operation,
failures nobody saw (`lost`), failures that were counted (`counted`), and what has
been extracted.

### DataRequests

The nine functions of the library become seven kinds of request; the user copy is
not modelled.  Export and import are loops over backups and recoveries (`batch`).
Between two operations clients write (`WriteFile`, `WriteKey`), and applications are
updated or removed (`Update`, `Uninstall`): that makes a backup older than
the data, and its resource table different from the installed one.  What a request
*should* select (`SelectsFile`, `SelectsKey`) is written from its parameters alone,
apart from the filters and paths of the code.

### Install

An attempt goes through the public area, the groups and the applications of the
package; `todo` is the list of calls left.  What is to be done in a folder is worked
out from the installed and the package's tables when its turn comes
(`ConfigureFolder`), in the order of `pas_conf_configureDataForInstallFolder`: obsolete
resources, changes of policy, defaults, data, and the resource table last.  Each
call does all it should, or fails at one of the trees on the way (`Does`); an error
that is noticed ends the attempt, a crash leaves the service idle.  Some errors are not
noticed: a table entry, a key, an exception or a default that cannot be read, or a
folder that cannot be listed, is passed over, and the attempt goes on to success.
`Unnoticed` is such a step, and adds the data and defaults concerned to `hist.skipped`;
`hist.loses` has the links of members that a list which could not be read left out
(`GroupMembers`), and those that were deleted to be made anew.  Then the same package may be
tried again, or given up (`Abandon`), and clients write where the table of that moment
leads them.  `Packages` are the packages there can be, and `ScenarioAssumption` says what
is found when the first arrives: applications that have resources are linked to the
public data, members to their groups, and tables, databases and defaults lie in the
folder of their area (`Housed`).  What a package *should* do (`ExpectedDefault`, `Updated`, `Deleted`) is
written from the comments on the rules in `ssw_pers_admin_config.h:121-146`,
apart from the table and the code that uses it.

## 3. The runs

| Run | Expect | Question |
|---|---|---|
| `pcl_protocol` | pass | With *all* faults: do the two globals that say "locked" agree, does one client at most slip past the registration block, and does every request end? |
| `pcl_lock` | pass | With crashing clients: exclusive access but for that client, sound confirmations, nobody left locked, everybody released? |
| `pcl_client_error` | violation | Does a refusing client stop the operation?  It does not. |
| `pcl_send_fail` | violation | Does the rollback leave only those locked that it cannot reach?  It does not: it stops at the first of them. |
| `shutdown_gate` | pass | No operation after the promise to NSM, no lost wake-up, a clean stop, answers and stop once operations pause and the thread is not stuck in `mq_send`? |
| `shutdown_waits` | violation | Are requests denied from the moment the handler waits?  They are not. |
| `access_lib` | pass | With killed clients and a crashing service: one client inside, own responses, refinement of `RequestServer`, and return of undisturbed calls? |
| `access_faults` | pass | What survives signals, stops and crashes together: semaphore counts and at-most-once execution. |
| `access_interrupt` | violation | Does a client get the response to its own request after another was interrupted?  It may not. |
| `access_restart` | violation | Does a call return when the service crashed and came back?  It may not. |
| `data_requests` | pass | Do data operations change only what is selected, and does success without a hidden failure mean that all of it was done?  Does backup, change, recovery bring the data back? |
| `install` | pass | Whatever was broken off and tried again: is a package that was reported as installed installed, is all data still found, is nothing left behind, but for what a call passed over without an error, and are other areas untouched? |

The five violations are described under "findings" in `PROJECT.json`, with the
line of the repository that says otherwise.

Five more definitions state what one expects of the code, and it does not keep.  They are
beside the properties of their modules; with one of them added to the .cfg
named here, TLC prints a counterexample:

| Definition | .cfg | What the counterexample shows |
|---|---|---|
| `NoLateRegistration` | `PclLock` | A callback finds registration open (`pcl.c:185`), the lock is requested and granted, and the client enters the list (192) during the operation, without having been asked.  The history at line 17 says "Block DBus client registration during Sync&Lock". |
| `RegisteredIsListed` | `PclLock` with `"unregister"` | When the head of the list leaves, all others drop out with it (`pcl.c:300`). |
| `StopReachesThread` | `ShutdownGate` | Two interrupted clients leave a response in the queue and the thread in `mq_send` (`service.c:678`); SIGTERM ends the main loop, and main waits in `pthread_join` forever, while no operation runs. |
| `EveryKeyMoved` | `Install` | A failing read skips a key (`resource_config_add.c:2436`), or all keys of a resource (2278-2280), at a change of policy; the table is updated, success reported, and clients look in the wrong place.  Line 2255 says "negative value for error". |
| `ListedAreLinked` | `Install` | A list of members that cannot be opened or sized (915-919) counts as empty and is copied (983): its members have no link, and for a later update, which compares with the copy, they are not new. |

### What the pass of `pcl_lock` depends on

`ExclusiveAccess` is about the clients that were asked; of the others
`OneLateRegistration` says that there is at most one, the one whose callback had passed
the test when registration was blocked.  `ExclusiveAccess` also holds with failing
messages, but TLC finds it violated with a client that refuses (`client_error`), with the
first client of the list leaving (`unregister`), and without `PromptConfirmation`, when a
confirmation is preempted between its test and the mutex until the next request has begun.
With `unregister` a client may be left locked, and the NIL reads are reachable.
`pcl_protocol` has all of these enabled, and does not assume `PromptConfirmation`: what it
checks holds regardless.

### What the pass of `shutdown_gate` depends on

A response that an interrupted client left is taken by the next one that calls.  If none
does, the thread stays in `mq_send`.  Answers to NSM do not suffer: the operation flag
falls before the response is sent.  The stop does: `StopsWhenCalm` excepts a thread that
is `Stuck` for good.  (`access_interrupt` shows what else the left response does.)

### What the pass of `data_requests` says, and what it does not

The properties state what the code keeps, and name what it does not keep:

* `RecoveryRestores` and `BackupFaithful` are about operations in which no
  failure was hidden.  Hidden are: a key that cannot be read while it is copied, a
  deletion before a copy, keys of shared databases, and what is counted as bytes.
* `HiddenOnlyByVolume` says when a counted failure is reported after all: unless
  at least 1.3 MB (`ErrorCode`) of users' files were restored beside it.
* `RoundTrip` needs a sound archive, which the code does not make sure of
  (`backup.c:151`), collected in a new folder and extracted to an empty one.  A
  recovery that failed leaves its extraction behind, to be merged into the next.
* "All" of an archive or a target without any application is nothing, also not the
  shared data, and reported as success (`recovery.c:1944`, `restore_default.c:1511`);
  a backup of a user fails there instead.
* `DeleteComplete` leaves out areas whose seat folder was empty already, which is
  what a first deletion leaves: the walk breaks off there (`user_delete_data.c:143`).
  A listing of an area's folder that fails (lines 62-92) leaves the whole area, and
  the deletion reports success: like every error nobody sees it is noted in `hist.lost`,
  and the property is about deletions without one.

### What the pass of `install` says, and what it does not

* `UserDataKept`, `InstalledAsToldTo` and `NothingLeftBehind` leave out what a call passed
  over without an error (`hist.skipped`), which is data that stays where it was and
  defaults that stay what they were, in a resource where a call could not read

  | what | at `resource_config_add.c` | passed over |
  |---|---|---|
  | its entry in one of the two tables, at a change of policy | 2278-2280 | all its keys |
  | a key, at a change of policy | 2436 | the key |
  | the files of the folder, when it became obsolete, or its data is to be deleted | 2718, 3539 | all its data |
  | its exception | 2928-2943, 3050-3063 | its default, or all its data |
  | its entry, or its default (also one larger than the buffer, `config.c:995`) | 3211, 3220 | the default |

  That the code reports success then is the hazard; that these, and no others, are the
  ways to lose data, a default or a link behind a success is what the properties say.
* Tests whether a file is there (`lstat`) are taken to answer right, and the words of a rules
  file to be well formed: an area whose rule cannot be read is passed over
  as one without a rule.  A default that was only half written counts as not written.
  The filter of a list of keys or files cannot fail (`pas_conf_filterResourcesList` adds up
  lengths), so the branches for a negative result (3474-3483) are not taken.
* Keys of users and seats no prefix of the filter names are neither moved nor deleted.
* What is compared is the target at the first attempt with *this* package
  (`hist.before`).  After a package was given up half way the properties hold of the next
  one, but what it finds may already be wrong: keys may have been moved that the old
  table still looks for in the old place.
* A client that had stored nothing under the old policy finds what the *new* policy's
  database still held.  That may be old: a resource that was a key, became a file and a
  key again leaves its first value behind, and a later change to that policy brings it
  back.  `UserDataKept` states this.
* `MembersLinked` is one direction.  Links of former members stay: the tests that guard
  their removal are inverted (`resource_config_add.c:1100`, `1185`, `1187`), although the
  comment at line 1172 says "delete sym-link for the application that is no longer
  member of the group".  A link that is there is deleted before it is made anew
  (`files_helper.c:458`), and an attempt may break off in between; and a list of members
  that cannot be read leaves its members without links.  `hist.loses` has both.  An application that was uninstalled and comes back does not
  get the links of its groups.
* An exception a rule does not know makes the code skip the resource, and
  report success; under "NewInstall", "Uninstall" and "DontTouch" that is every
  exception.  `InstalledAsToldTo` takes this as given.  So it does with words the tables do not
  know, which become "NewInstall" or "Update" (`config.c:1026`).
* An "Uninstall" of the public area goes on and writes the package's
  resource table (`ssw_pers_admin_config.h:124` says "remove the existent data").
* A change of a resource from key to file leaves the old value and default.

### Bounds

* `PclLock`: two clients are a head and a later element of the list, "one
  confirmed, one pending", "one up, one down"; one times out at once, one after
  a step.  `MaxRequestId = 4` is two lock/unlock rounds, enough for messages of
  one round to meet the next; with all faults on, one round.  A request is only
  started when the bound leaves room for its unlock, so a run never stops in
  the middle.
* `ShutdownGate`: `MaxLifecycle = 2` requests on the bus while a third is
  handled: a shutdown, its cancellation, and a second shutdown.  Requests of
  clients, and how many of them are interrupted, are not bounded.
* `AccessLib`: two clients with two calls each, two boots.  A response or a
  semaphore left behind by one call meets the next call of the same and of the
  other client; a second boot meets what the first left.

* `DataRequests`: two applications, the public area, two groups, users and
  seats such that each selection (one user in one seat, one user in all, all) differs
  from the others somewhere; an application without a user, a folder without a key, a
  database that is missing, a target without applications.  Each call may fail once
  in a script (failures and crashes together: one), and one change comes in between.
  The order of the entries of a folder is one for the applications, with the shared
  folder between them, and any for the databases and user folder within an area.
  `Versions` of two and a volume of one per folder, with `ErrorCode = 2`, let a counted failure be
  hidden and not hidden.  Groups are at most two (`DataAssumption`): from three on
  `backup.c:1020` reads outside its buffer.  Backup, recovery and reset of "all users in
  one seat" are left out, because the code then uses a path it has not set.
* `Install`: every rule with every set of exceptions on one application; every change
  of an entry between six kinds of resource; one application among others; packages for all
  areas, also one after the other; missing rules files, an invalid group, a
  member list of another size.  Up to two failures or crashes, so that the second
  may hit the further attempt, and one write in between.  Two resources, so that one
  can change while the other has an exception.  A resource that becomes a file, a key and
  another key, for values that are left behind; a package after one that failed, for what
  it finds.

### Fairness

`DataRequests` and `Install` are sequential and end by themselves: they state no
fairness and no liveness.


* `PclLock!FairSpec`: the access-lib thread and the IPC thread are scheduled
  (weak fairness); clients may be silent forever.  `RequestEnds` needs no more,
  because the timeout ends the wait.  `LiveSpec` adds that clients handle what
  they are sent, and `PromptConfirmation`, for `HeldIsReleased` and the safety
  properties of `pcl_lock`.
* `ShutdownGate!FairSpec`: both threads are scheduled.  The code does not make
  operations pause, so the liveness properties say "if from some time on no
  operation starts".  Strong fairness of `RunDaemonStop` stands for
  `g_main_loop_run` testing its flag after each iteration, however many callbacks
  are pending.  Nothing is assumed of NSM, of systemd or of clients: no client has to
  come and take a response that was left, which is why `StopsWhenCalm` excepts a thread that
  waits for one.
* `AccessLib!FairSpec`: the service is started and scheduled, every client
  thread is scheduled.  With a bounded number of calls weak fairness of
  `sem_wait` suffices.

## 4. The proofs

TLC checks the instances above; TLAPS proves the following for every number of
clients, calls, applications, users, groups, keys and packages, all timeouts and
masks, and without the bounds being small.

Each proof has the same shape: the invariant holds initially, every action keeps
it (a lemma per thread or per group of actions, a case per action), it implies the
property, and one temporal step.  The assumptions on the constants are the named
ones of the modules, which TLC evaluates on the instances; where a theorem
restricts what may go wrong, the restriction is a definition in its hypothesis.

### PclLock

`PclLockProofs`:

* `TypeCorrect`, `BlockedExactly`: no assumption on the faults.  The invariant
  `BlockInv` says at which program points registration is blocked and which mode
  the service is in.
* `Exclusion`, `GrantSound`, `NoNilPointer`: of `PromptSpec`, for `WellBehaved`
  environments, `Faults` within failing messages and crashing clients.  `ExclusiveAccess` is
  not inductive: that a client holds is known from its confirmation flag, which is
  set by a callback from a message the client sent when it handled a request from
  its inbox.  `LockInv` strengthens it along that path: entries of the list
  are exactly the registered clients (`ListInv`); a message in an inbox with the
  current id is of the current mode and comes last (`InboxInv`); a confirmation
  in transit with the current id and the status "locked" belongs to a client
  that holds (`ConfirmationInv`); a confirmed entry belongs to a client that
  holds or is down (`EntryInv`); and where the waiting loop is, says which
  entries have been notified (`WaitInv`).  For `NoNilPointer`, `NilInv` adds that
  whoever has a request or a confirmation under way is listed, and that nobody
  but the waiting loop lowers its flag.

and, in its second part, of what messages carry:

* `ConfirmedIsCurrent`: with every fault, of `PromptSpec`.  A confirmation is followed back to where it
  comes from: each client is listed once (`UniqueInv`); requests reach it in the order of
  their ids, and it answers each once (`OrderInv`); a new id was sent to nobody, and then
  to those the loop has passed (`ToldInv`); who counts as confirmed has no request with
  the current id left (`AnsweredInv`).
* `UnlockFollowsLock`: between two operations nobody is left locked, though clients
  refuse or die and callbacks are preempted, when messages are delivered, nobody leaves
  the list, and who asks to be told of a lock also asks for the unlock (`UnlockReaches`).
  A client is *owed* an unlock when it is locked, or will be, and no unlock is on its way;
  `OwedInv` says that it is listed, and during the unlock still ahead of the loop's
  position.  The first two conditions are needed: `pcl_send_fail` and the list of
  faults under `pcl_lock` above.
* `OneLateJoin` (`OneLateRegistration`): with every fault and any preemption.  `LateInv`: the
  loop of notifications misses nobody it passes, with the mutex held; when it is over,
  either the one callback that had passed the test is still under way and nobody was
  missed, or it has come in and was.

### ShutdownGate

`ShutdownGateProofs`: `TypeCorrect`, `ShutdownPromise`, `NoLostWakeUp`,
`StopIsClean`, for any number of lifecycle requests.  The invariant relates the
operation flag to the program point (`OpFlagExact`), makes the two flags exclusive
(`FlagsExclude`), and ties what NSM was told, or is about to be told, to the
shutdown flag (`ToldConsistent`).

### AccessLib

`AccessLibProofs`, three invariants one on the other:

* `TypeCorrect`, `Exclusion`: no assumption on the faults.  `IInv` says which handles
  belong to which program points (`HandlesInv`), that no object
  is used before the boot that creates it (`FreshInv`), and that whoever is inside has
  found its semaphore free and is there alone (`SemInv`).
* `ExecutedOnce`: no assumption either.  A call that was sent is not a later one than
  its client is making, and if it is that one the client is past its send (`SentInv`); a
  call in a queue is in no other, and was not taken out of one before (`OnceInv`).
* `OwnResponse`, `RoomForResponse`, `OnlyOneInside`: for `WellBehaved` environments,
  in which clients may be killed and the service may crash, but no wait is interrupted and
  the service is not stopped: for those `access_interrupt` shows a counterexample.
  `ResponseIsMine` alone is not inductive.  `SessionInv` adds that all who are in a
  conversation use the same objects (`SameObjects`), that one message at most is under
  way, in the queue that fits the program points of client and service
  (`OneConversation`), and that a response was made from the request of the client that
  waits for it (`ResponseMade`).

`Refinement`, under the same hypothesis: initial states map to
initial states, and every action to a step of `RequestServer` or to none, one lemma per
group of actions, with the invariants above as what is known of the state before.

### DataRequests

`DataProofs`: `TypeCorrect`, `Selects` (`OnlySelected`) and `Protects` (`RctProtects`), for
all applications, groups (two at most, `DataAssumption`), users, seats, keys and scripts,
any number of failures and crashes.  The argument:

1. *Calls.*  What a call may write is read off the call (`Typed`, `Selected`).
   `Fits(r)` are the calls that a request `r` may make: each writes only what `SelectsFile` and
   `SelectsKey` say of `r`.  This is where the filters and paths of the code meet the
   selection as the interface describes it (`NodeSelected`, `UserSelected`,
   `KeysSelected`, `DeletedKeysSelected`).
2. *Plans.*  One lemma per C function says that its calls fit the request.  For a recovery they
   also are in an order: a call that writes to an area with a resource table comes after
   its check, and a failed check ends the operation or leaves the loop over that
   application (`GuardedAt`, `Plans(r)`).
   The plans are concatenations; that these stay within a set of sequences is
   `FlattenClosed` in `FlattenLemmas`, which needs induction over the number of parts and gets
   it from a least counterexample (`WFMin`).
3. *Effects.*  What a call does to the trees, whether it succeeds or fails half way, stays
   within what the call may write (`Within`, one lemma per kind of call), and so does
   each step (`CallEffect`).
4. *Steps.*  `TypeInv` and `RequestInv` (the calls left fit the current request, the requests
   left are requests) are kept by every action; for `RctProtects`, `GuardInv` says that
   every call left is still guarded, or the tables of its area have been found to agree.

The second half of `DataProofs`: `Resets` (`ResetComplete`) and `Deletes`
(`DeleteComplete`), for the same instances.  Nothing is said of a step that fails half way, so
what is needed is the opposite of the above: that no call is missing.

5. *Every selected thing has its call.*  `Clears(X)` are the plans in which each
   file, key and configurable default of `X` is deleted by some call; one lemma per C
   function of the reset says what its plan clears, down to the lists the loops walk
   (`ThoseHas`, `GroupsOfHas`, `LocalDbsHas`), up to the whole (`ResetPlanClears`).  That
   one part of a concatenation is found in it again is `FlattenSplit`, by induction
   like `FlattenClosed`.
6. *A key that is there has a database file* (`KeysInDbs`): without that the deletion of
   keys would find nothing to open.  It is an invariant of its own, kept by every
   operation and by what the clients do in between; the instances start with it
   (`ScenarioAssumption`).
7. *Reset.*  `ResetInv`: what is selected is gone, or a call that is left deletes it.
   Every error ends a reset, so a call either does all its work or no success is reported.
8. *Deletion.*  Here an empty seat folder breaks off its area's walk, and each area is
   walked once per mount: the second walk always finds the folder empty that the first
   has emptied.  So that keys which come behind the folder are deleted all the same,
   `DeleteInv` counts: a call on the key is left before which the seat's folder is visited
   at most once, and that folder has files now (`Soon`), or is not visited at all
   (`AtOnce`).  `DeletePlanHas` finds the walk of an area in the plan of both mounts, and
   `WalkLasts` says that what precedes it are other areas' calls.

`CompletionProofs`: `Collected` (`BackupFaithful`), `Recovers` (`RecoveryRestores`),
`ThereAndBack` (`RoundTrip`) and `Outweighed` (`HiddenOnlyByVolume`), again for the same
instances.

9. *Backup.*  The items to collect are folders, keys and the resource tables of areas that
   something is collected of (`ToCollect`); `BackupPlanCollects` finds a call for each, in every
   plan.  `BackupInv`: an item that the collection does not have as the target does is collected by a
   call that is left, and, if the collection began as a new folder, what it holds beside
   is not there by another operation's doing (`OnlyFrom`).  A call does its part (`Gathers`, one lemma
   per kind) unless its error is noted in `hist.lost`.  An operation that fails aborts.
10. *Recovery.*  Here a folder or key is first deleted, and then copied by a *later* call, so
   that a call on an item may take it away.  `Paired` says that a plan never deletes without
   the copy coming next, and `RecoverInv` that an item is as the archive has it, or has been
   deleted with the copying call next, or is to be deleted and copied yet (`Pending`).  Links and
   the keys of shared databases are not deleted, and only have a copying call (`Plain`).
   The plan is made from what was extracted, and from which applications are installed:
   `RecoveryPlanRedoes` relates it to what the request selects, per type.
11. *Round trip.*  `ArchInv`: an archive that was soundly made holds what its backup
   selected as it was, and is not changed after.  `ExtractInv`: where one tree has been
   extracted since the folder was empty, what lies there is part of that tree, and at work it is
   all of it (`PartOf`, `Same`).  With `Recovers` and the two, that the archive's
   applications are the ones the recovery finds (`TripEnds`).
12. *Counted errors.*  A recovery's plan has no test of the sum, or two parts that each end in one
   (`RecoveryParts`).  Within a part no folder is touched after it was copied, as the lists that
   the loops walk name no area twice (`Lone`, `Sole`, `SoleWalk`).  So the folders that are as
   the archive has them, and that no call is left for (`Back`), only become more, and a
   copy that adds its volume to the sum brings as many back (`BackCopied`).  `VolumeInv`: the
   sum, and an error code if one was subtracted, are together no more than the users' folders of the part
   that are back (`Weighed`); where the test passes the sum is not negative, and what remains
   is `Covered`.  Which errors belong to which part follows from the names of the functions:
   links before the first test, shared files after it; an error leaves the function that
   made it and never a part (`PartGoes`).

### Install

`InstallProofs`: `TypeCorrect`, `OthersSafe` (`OthersUntouched`) and `LinksKept`
(`MembersLinked`), for every list of packages, every rule and exception, any number of
failures, crashes, further attempts and writes in between.  The calls of an attempt fit
its package (`Fits`, per function that plans them), a step changes only what its call may
(`Within`, `Effect`, `Goes`), and from that the two invariants: `PackageInv`, the calls left
are those of the package at hand, and `LinkInv`.  `MembersLinked` is not inductive:
an application gets its resources after its link to the public data, and `LinkInv` says
that as long as a call is left that gives it one, the link is there or its call comes
before (`LinkedBefore` for the plans).  A folder's calls, which are worked out on the
way, are of that folder's area (`FitsIn`).

`InstallDataProofs`: `Told` (`InstalledAsToldTo`), `DataSafe` (`UserDataKept`) and
`LeavesNothing` (`NothingLeftBehind`), under the same generality, across attempts that were
broken off anywhere and packages that were given up.  None of the three is inductive:
a plan is worked out from tables that earlier attempts have changed in part, and nothing
of the earlier attempts is remembered but the tree.  The invariant `Inv` says

* between attempts (`ResumeInv`), how far each single resource may have got (`Resumable`).
  Its table entry is the old or the new one.  When it is the new one, the keys have left
  the old database (`Switched`), or everything obsolete is gone (`Removed`): the next
  attempt will not look there.  A value is in one of two places and in
  no third (`SlotKept`), a default is the old or the expected one; all of this but for what
  was passed over (`hist.skipped`, which only grows until a package has been installed or
  given up).  Areas the package
  does not configure are as they were.
* during an attempt (`AttemptInv`), that what is to be true of a resource at the end is
  true, or a call that is left makes it true: the area is emptied before it is filled
  (`Anew`), has a folder before it is configured (`Hosted`, `MadeAgain`), calls on a
  resource come in the order in which they build on each other (`InOrder`), and what
  remains to be done is among them (`Remains`).
* that tables, data and defaults are only in folders that exist (`HousedInv`), and what
  holds once `todo` is empty (`DoneInv`, `BegunInv`), from which the theorems follow.

The argument, in the order of the module:

1. *Lists of calls.*  "c is in q", "each c comes after an e", "no e after a c", "an e
   follows each c at once" (`In`, `Earlier`, `Later`, `NoneAfter`, `Follows`) under `Tail` and
   under concatenation.
2. *Plans.*  The plan of an attempt and of each folder keeps the order (`MadeAgain`,
   `InOrder`) and has what remains.  Here the order of the functions in
   `pas_conf_configureDataForInstallFolder` counts: the resource table comes last.
3. *Rules.*  The table of rules and exceptions does what the comments on it say:
   `RuleMeans` relates `ConfigurationNeeded` to `Updated` and `Deleted`.
4. *Calls.*  One lemma per kind of call for what it makes of its resource, whole or failing
   half way (`...Did`), and that other areas and resources stay as they are (`SameAt`).
5. *Between attempts.*  A client's write changes the value and what is to be kept alike
   (`WriteResumable`); a new attempt finds what a broken one left, and `Resumable` is what
   its plan needs.

### Only model-checked

* Liveness: `RequestEnds`, `HeldIsReleased`, `AnsweredWhenCalm`, `StopsWhenCalm`,
  `PclReleased`, `CallReturns`.  It rests on fairness, which is out of the prover's reach.

Every safety property that a passing run checks is also a theorem.

## 5. Not modelled

* Time as such: the watchdog (fed from the main loop, which the lifecycle handler
  blocks), `PAS_SHUTDOWN_TIMEOUT_MS`, the 50 ms of the queue's poll.  A timeout is a
  number of waiting steps in `PclLock` and a step that may happen elsewhere.
* The PID file, daemonizing, `TEST_MODE_ENABLED`, logging.
* Errors of the pthread and GLib primitives themselves.
* Paths and their lengths, sizes of lists and buffers, the JSON reader and its table
  of handles, the archive format, `system()` and what it runs.  They enter as
  a call that succeeds or fails.
* The key-value store (`persComDbAccess`) and the persistence client library are
  external: a database is a set of keys with values, a call on it is atomic.
* `persAdminUserDataCopy`: the service answers it as not supported (`service.c:284`), but the
  library sends the request code of a *backup* with type and paths it never sets
  (`access_lib.c:1001`), so what happens depends on what was on the stack.
* A single file within a folder, and hence a folder copied or deleted in part: a
  set of folders may be, a folder not.
* Who locks the clients during an operation, and how its request arrives: `PclLock`,
  `ShutdownGate` and `AccessLib`, which take an operation as one step.

Facts the reading has shown that no property states, because the code contradicts its
own interface there or nothing is promised:

* The interface counts seats "0 to 3" (`persistence_admin_service.h:111`); the backup
  takes 1 to 4 (`backup.c:57`), the deletion checks for at most 4 only.
* Import of type application lists the folders in a folder, and recovers each from an
  archive of the same name (`data_import.c:64,98`): one of the two never exists.
* A member list whose names take another number of bytes than the installed one fails
  an update (`resource_config_add.c:950`: the size of the other list is compared).
* A link for an application that is not installed makes a folder for it without a
  resource table; every later backup of a user fails at that folder (`backup.c:838`).
* A failure to delete the unpacked package is reported as a failed installation.

## 6. Plan

1. `PidFile`: several starting and stopping processes over one file.
2. A composition of `ShutdownGate`, `AccessLib` and the flag abstraction of `PclLock`
   for the path of one request across a restart of the service: clients that registered with
   the previous instance, a request left in the queue.
