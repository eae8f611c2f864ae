------------------------------ MODULE PclLock ------------------------------
(***************************************************************************)
(* The lock protocol between the administration service (PAS) and the      *)
(* clients of the persistence client library (PCL):                        *)
(* Administrator/src/ssw_pers_admin_pcl.c.                                 *)
(*                                                                         *)
(* Before every administrative operation the access-lib thread asks each   *)
(* registered client to flush its cache and to stop writing ("lock and     *)
(* sync"), waits until all have confirmed, runs the operation, and unlocks *)
(* them.  Meanwhile the IPC thread runs the callbacks by which clients     *)
(* register, unregister and confirm.  The two threads share a linked list  *)
(* under one mutex, and five globals under none.                           *)
(*                                                                         *)
(* One action is one stretch of code between two points where the other    *)
(* thread can see or change what it uses.  The clients and the transport   *)
(* (persIpc, an external library) are the environment.                     *)
(***************************************************************************)
EXTENDS Naturals, Sequences, FiniteSets, SequencesExt

CONSTANTS
  Clients,            \* the PCL clients, each with the id it registers under
  NotificationFlags,  \* the requests each client registers for
  TimeoutMs,          \* the timeout each registers, in PAS_NOTIF_CONF_WAIT_STEPs
  Faults,             \* what the environment may do wrong, see FaultKinds
  MaxRequestId        \* bound on g_s32RequestId

(***************************************************************************)
(* Faults.  "send_fail": persIpcSendRequestToPCL returns an error other    *)
(* than "not available".  "client_error": a client answers with an error   *)
(* or without the locked status, and has not locked.  "client_crash",      *)
(* "unregister": a client dies, or leaves.                                 *)
(***************************************************************************)
FaultKinds == {"send_fail", "client_error", "client_crash", "unregister"}

Modes == {"LOCK", "SYNC", "UNLOCK"}
LockAndSync == {"LOCK", "SYNC"}
Unlock == {"UNLOCK"}

ASSUME ConstantsAssumption ==
  /\ NotificationFlags \in [Clients -> SUBSET Modes]
  /\ TimeoutMs \in [Clients -> Nat]
  /\ Faults \subseteq FaultKinds
  /\ MaxRequestId \in Nat

VARIABLES
  \* globals of ssw_pers_admin_pcl.c
  regClients,        \* the list pPersRegClients
  listMtx,           \* the owner of persRegClientsListMtx
  blockClientReg,    \* g_bBlockClientReg
  waitForNotifConf,  \* g_bWaitForNotifConf
  requestId,         \* g_s32RequestId
  reqAdminPersMode,  \* g_ReqAdminPersMode
  persistenceMode,   \* persistenceMode
  \* the access-lib thread
  libPc,             \* where it is
  phase,             \* which of its three requests it is making
  pos,               \* index of pClientInfo in the notification loop
  retVal,            \* retVal of the running function: no error yet?
  savedMode,         \* tmpReqAdminPersMode
  currentTimeout,    \* currentTimeout, in steps
  \* the IPC thread
  regCall,           \* the registration past its test of g_bBlockClientReg
  confCall,          \* the confirmation past its test of the request id
  \* the clients
  registered,        \* the client's own view
  up,                \* the process runs
  held,              \* the client has flushed and keeps its hands off
  inbox,             \* requests delivered, not yet handled
  outbox             \* confirmations sent, not yet dispatched

pasVars == <<regClients, listMtx, blockClientReg, waitForNotifConf, requestId,
             reqAdminPersMode, persistenceMode>>
libVars == <<libPc, phase, pos, retVal, savedMode, currentTimeout>>
ipcVars == <<regCall, confCall>>
clientVars == <<registered, up, held, inbox, outbox>>
vars == <<pasVars, libVars, ipcVars, clientVars>>

-----------------------------------------------------------------------------
Entry == [id : Clients, notified : BOOLEAN, confirmed : BOOLEAN]
Request == [req : Nat, mode : {LockAndSync, Unlock}]
Confirmation == [id : Clients, req : Nat,
                 status : {"locked", "ok", "error"}]

\* The index of the first list entry of client c, 0 when there is none.
FindClient(c) == SelectInSeq(regClients, LAMBDA entry : entry.id = c)

Pending(entry) == entry.notified /\ ~ entry.confirmed

\* Mutant: the scan looks at the head of the list only.
FirstPendingHeadOnly ==
  IF regClients # <<>> /\ Pending(regClients[1]) THEN 1 ELSE 0

\* The entry the waiting loop stops at, 0 when every notified client confirmed.
FirstPending == SelectInSeq(regClients, Pending)

Target == IF phase = "lock" THEN LockAndSync ELSE Unlock
IpcIdle == libPc # "crashed" /\ regCall = {} /\ confCall = {}

Init ==
  /\ regClients = <<>> /\ listMtx = "free"
  /\ blockClientReg = FALSE /\ waitForNotifConf = FALSE
  /\ requestId = 0 /\ reqAdminPersMode = {} /\ persistenceMode = {}
  /\ libPc = "idle" /\ phase = "unlock" /\ pos = 1 /\ retVal = TRUE
  /\ savedMode = {} /\ currentTimeout = 0
  /\ regCall = {} /\ confCall = {}
  /\ registered = [c \in Clients |-> FALSE]
  /\ up = [c \in Clients |-> TRUE]
  /\ held = [c \in Clients |-> FALSE]
  /\ inbox = [c \in Clients |-> <<>>]
  /\ outbox = {}

-----------------------------------------------------------------------------
(* The access-lib thread.                                                  *)

\* persadmin_SendLockAndSyncRequestToPCL.  Its test for "already locked" only
\* sets a return value that the next call overwrites.  A request is started
\* only when the bound leaves room for the unlock that follows it.
LockStart ==
  /\ libPc = "idle"
  /\ requestId + 2 <= MaxRequestId
  /\ blockClientReg' = TRUE
  /\ persistenceMode' = LockAndSync
  /\ phase' = "lock" /\ libPc' = "change"
  /\ UNCHANGED <<regClients, listMtx, waitForNotifConf, requestId, reqAdminPersMode,
                 pos, retVal, savedMode, currentTimeout, ipcVars, clientVars>>

\* Mutant: the unlock tells nobody.
UnlockStartSilent ==
  /\ libPc = "op"
  /\ persistenceMode' = Unlock
  /\ phase' = "unlock" /\ libPc' = "changed"
  /\ UNCHANGED <<regClients, listMtx, blockClientReg, waitForNotifConf, requestId,
                 reqAdminPersMode, pos, retVal, savedMode, currentTimeout,
                 ipcVars, clientVars>>

\* The operation is over: persadmin_SendUnlockRequestToPCL.
UnlockStart ==
  /\ libPc = "op"
  /\ persistenceMode' = Unlock
  /\ phase' = "unlock" /\ libPc' = "change"
  /\ UNCHANGED <<regClients, listMtx, blockClientReg, waitForNotifConf, requestId,
                 reqAdminPersMode, pos, retVal, savedMode, currentTimeout,
                 ipcVars, clientVars>>

\* persadmin_ChangePersistenceMode up to the call of NotifyRegisteredClients.
ChangeMode ==
  /\ libPc = "change"
  /\ savedMode' = reqAdminPersMode
  /\ reqAdminPersMode' = Target
  /\ retVal' = TRUE
  /\ libPc' = "new_id"
  /\ UNCHANGED <<regClients, listMtx, blockClientReg, waitForNotifConf, requestId,
                 persistenceMode, phase, pos, currentTimeout, ipcVars, clientVars>>

NewRequestId ==
  /\ libPc = "new_id"
  /\ requestId' = requestId + 1
  /\ libPc' = "notify_lock"
  /\ UNCHANGED <<regClients, listMtx, blockClientReg, waitForNotifConf,
                 reqAdminPersMode, persistenceMode, phase, pos, retVal, savedMode,
                 currentTimeout, ipcVars, clientVars>>

\* Mutant: the loop starts in front of the head.
NotifyBeginOffByOne ==
  /\ libPc = "notify_lock" /\ listMtx = "free"
  /\ listMtx' = "lib" /\ pos' = 0
  /\ libPc' = "notify"
  /\ UNCHANGED <<regClients, blockClientReg, waitForNotifConf, requestId,
                 reqAdminPersMode, persistenceMode, phase, retVal, savedMode,
                 currentTimeout, ipcVars, clientVars>>

NotifyBegin ==
  /\ libPc = "notify_lock" /\ listMtx = "free"
  /\ listMtx' = "lib" /\ pos' = 1
  /\ libPc' = "notify"
  /\ UNCHANGED <<regClients, blockClientReg, waitForNotifConf, requestId,
                 reqAdminPersMode, persistenceMode, phase, retVal, savedMode,
                 currentTimeout, ipcVars, clientVars>>

\* Mutant: bRequestConfirmed is not reset.
NotifySetsNoReset(notified, confirmed) ==
  /\ libPc = "notify" /\ pos <= Len(regClients)
  /\ regClients' = [regClients EXCEPT ![pos] =
                    [@ EXCEPT !.notified = notified, !.confirmed = @ \/ confirmed]]
  /\ UNCHANGED <<blockClientReg, waitForNotifConf, requestId, reqAdminPersMode,
                 persistenceMode, phase, savedMode, currentTimeout, ipcVars>>

\* One turn of the loop.  The mutex stays locked over the synchronous call.
NotifySets(notified, confirmed) ==
  /\ libPc = "notify" /\ pos <= Len(regClients)
  /\ regClients' = [regClients EXCEPT ![pos] =
                    [@ EXCEPT !.notified = notified, !.confirmed = confirmed]]
  /\ UNCHANGED <<blockClientReg, waitForNotifConf, requestId, reqAdminPersMode,
                 persistenceMode, phase, savedMode, currentTimeout, ipcVars>>

NotifyGoesOn == pos' = pos + 1 /\ UNCHANGED <<listMtx, libPc, retVal>>

Concerned == NotificationFlags[regClients[pos].id] \cap Target # {}

NotifySkip ==
  /\ NotifySets(FALSE, FALSE) /\ ~ Concerned
  /\ NotifyGoesOn
  /\ UNCHANGED clientVars

NotifyDelivered ==
  /\ NotifySets(TRUE, FALSE) /\ Concerned
  /\ up[regClients[pos].id]
  /\ inbox' = [inbox EXCEPT ![regClients[pos].id] =
                 Append(@, [req |-> requestId, mode |-> Target])]
  /\ NotifyGoesOn
  /\ UNCHANGED <<registered, up, held, outbox>>

\* PERS_COM_IPC_ERR_PCL_NOT_AVAILABLE counts as notified and confirmed.
NotifyUnavailable ==
  /\ NotifySets(TRUE, TRUE) /\ Concerned
  /\ ~ up[regClients[pos].id]
  /\ NotifyGoesOn
  /\ UNCHANGED clientVars

\* Any other error ends the loop: the clients further on are not notified.
NotifyFailed ==
  /\ NotifySets(FALSE, FALSE) /\ Concerned
  /\ "send_fail" \in Faults
  /\ listMtx' = "free"
  /\ retVal' = FALSE /\ libPc' = "changed"
  /\ UNCHANGED <<pos, clientVars>>

NotifyEnd ==
  /\ libPc = "notify" /\ pos > Len(regClients)
  /\ listMtx' = "free"
  /\ libPc' = IF phase = "lock" THEN "wait_begin" ELSE "changed"
  /\ UNCHANGED <<regClients, blockClientReg, waitForNotifConf, requestId,
                 reqAdminPersMode, persistenceMode, phase, pos, retVal, savedMode,
                 currentTimeout, ipcVars, clientVars>>

\* WaitForNotificationConfirmations.  The flag is raised after the clients
\* were notified: an error reported before this step is forgotten.
WaitBegin ==
  /\ libPc = "wait_begin"
  /\ currentTimeout' = 0
  /\ waitForNotifConf' = TRUE
  /\ libPc' = "wait_test"
  /\ UNCHANGED <<regClients, listMtx, blockClientReg, requestId, reqAdminPersMode,
                 persistenceMode, phase, pos, retVal, savedMode, ipcVars, clientVars>>

\* The loop condition.  When a callback has cleared the flag the loop ends
\* with the return value it has.
WaitTest ==
  /\ libPc = "wait_test"
  /\ libPc' = IF waitForNotifConf THEN "wait_scan" ELSE "changed"
  /\ UNCHANGED <<pasVars, phase, pos, retVal, savedMode, currentTimeout,
                 ipcVars, clientVars>>

\* The scan of the list under the mutex.
WaitScan ==
  /\ libPc = "wait_scan" /\ listMtx = "free"
  /\ UNCHANGED <<regClients, listMtx, blockClientReg, requestId, reqAdminPersMode,
                 persistenceMode, phase, pos, savedMode, currentTimeout,
                 ipcVars, clientVars>>

WaitAllConfirmed ==
  /\ WaitScan
  /\ FirstPending = 0 /\ waitForNotifConf
  /\ libPc' = "changed"
  /\ UNCHANGED <<waitForNotifConf, retVal>>

\* Everyone has confirmed and the flag is down: the log statement reads
\* pClientInfo, which is NIL.  Undefined: the read traps, or it is not made
\* because the log level filters the statement out.
WaitNilClient ==
  /\ WaitScan
  /\ FirstPending = 0 /\ ~ waitForNotifConf
  /\ \/ libPc' = "crashed" /\ UNCHANGED retVal
     \/ libPc' = "changed" /\ retVal' = FALSE
  /\ UNCHANGED waitForNotifConf

\* Mutant: the timeout does not lower the flag.
WaitTimedOutFlagUp ==
  /\ WaitScan
  /\ FirstPending # 0
  /\ \/ ~ waitForNotifConf
     \/ currentTimeout > TimeoutMs[regClients[FirstPending].id]
  /\ retVal' = FALSE
  /\ libPc' = "wait_test"
  /\ UNCHANGED waitForNotifConf

WaitTimedOut ==
  /\ WaitScan
  /\ FirstPending # 0
  /\ \/ ~ waitForNotifConf
     \/ currentTimeout > TimeoutMs[regClients[FirstPending].id]
  /\ waitForNotifConf' = FALSE
  /\ retVal' = FALSE
  /\ libPc' = "wait_test"

WaitGoesOn ==
  /\ WaitScan
  /\ FirstPending # 0 /\ waitForNotifConf
  /\ currentTimeout <= TimeoutMs[regClients[FirstPending].id]
  /\ libPc' = "wait_sleep"
  /\ UNCHANGED <<waitForNotifConf, retVal>>

\* The flag is read again after the mutex is released: no sleep when it is down.
WaitSleep ==
  /\ libPc = "wait_sleep"
  /\ currentTimeout' = IF waitForNotifConf THEN currentTimeout + 1 ELSE currentTimeout
  /\ libPc' = "wait_test"
  /\ UNCHANGED <<pasVars, phase, pos, retVal, savedMode, ipcVars, clientVars>>

\* The end of persadmin_ChangePersistenceMode and of its caller.
SwitchBack ==
  reqAdminPersMode' = IF retVal THEN reqAdminPersMode ELSE savedMode

LockGranted ==
  /\ libPc = "changed" /\ phase = "lock" /\ retVal
  /\ SwitchBack
  /\ libPc' = "op"
  /\ UNCHANGED <<regClients, listMtx, blockClientReg, waitForNotifConf, requestId,
                 persistenceMode, phase, pos, retVal, savedMode, currentTimeout,
                 ipcVars, clientVars>>

\* Mutant: a failed lock is not rolled back.
LockFailedNoRollback ==
  /\ libPc = "changed" /\ phase = "lock" /\ ~ retVal
  /\ SwitchBack
  /\ persistenceMode' = Unlock /\ blockClientReg' = FALSE
  /\ libPc' = "idle"
  /\ UNCHANGED <<regClients, listMtx, waitForNotifConf, requestId, phase,
                 pos, retVal, savedMode, currentTimeout, ipcVars, clientVars>>

\* Mutant: the rollback forgets to reset persistenceMode.
LockFailedModeKept ==
  /\ libPc = "changed" /\ phase = "lock" /\ ~ retVal
  /\ SwitchBack
  /\ phase' = "rollback" /\ libPc' = "change"
  /\ UNCHANGED <<regClients, listMtx, blockClientReg, waitForNotifConf, requestId,
                 persistenceMode, pos, retVal, savedMode, currentTimeout,
                 ipcVars, clientVars>>

LockFailed ==
  /\ libPc = "changed" /\ phase = "lock" /\ ~ retVal
  /\ SwitchBack
  /\ persistenceMode' = Unlock
  /\ phase' = "rollback" /\ libPc' = "change"
  /\ UNCHANGED <<regClients, listMtx, blockClientReg, waitForNotifConf, requestId,
                 pos, retVal, savedMode, currentTimeout, ipcVars, clientVars>>

Unlocked ==
  /\ libPc = "changed" /\ phase # "lock"
  /\ SwitchBack
  /\ blockClientReg' = FALSE
  /\ libPc' = "idle"
  /\ UNCHANGED <<regClients, listMtx, waitForNotifConf, requestId, persistenceMode,
                 phase, pos, retVal, savedMode, currentTimeout, ipcVars, clientVars>>

LibNext ==
  \/ LockStart \/ UnlockStart \/ ChangeMode \/ NewRequestId
  \/ NotifyBegin \/ NotifySkip \/ NotifyDelivered \/ NotifyUnavailable
  \/ NotifyFailed \/ NotifyEnd
  \/ WaitBegin \/ WaitTest \/ WaitAllConfirmed \/ WaitNilClient \/ WaitTimedOut
  \/ WaitGoesOn \/ WaitSleep
  \/ LockGranted \/ LockFailed \/ Unlocked

-----------------------------------------------------------------------------
(* The IPC thread: one callback at a time.                                 *)

\* Mutant: registration is never refused.
RegisterTestOpen(c) ==
  /\ IpcIdle
  /\ up[c] /\ ~ registered[c]
  /\ regCall' = {c}
  /\ UNCHANGED <<pasVars, libVars, confCall, clientVars>>

\* persIpcRegisterCB: the test of g_bBlockClientReg, then the mutex.  A refused
\* call changes nothing.
RegisterTest(c) ==
  /\ IpcIdle
  /\ up[c] /\ ~ registered[c]
  /\ ~ blockClientReg
  /\ regCall' = {c}
  /\ UNCHANGED <<pasVars, libVars, confCall, clientVars>>

RegisterInsert(c) ==
  /\ libPc # "crashed"
  /\ c \in regCall /\ listMtx = "free"
  /\ regClients' = Append(regClients,
                          [id |-> c, notified |-> FALSE, confirmed |-> FALSE])
  /\ registered' = [registered EXCEPT ![c] = up[c]]
  /\ regCall' = {}
  /\ UNCHANGED <<listMtx, blockClientReg, waitForNotifConf, requestId,
                 reqAdminPersMode, persistenceMode, libVars, confCall,
                 up, held, inbox, outbox>>

\* persIpcUnRegisterCB: removing the head empties the list.
Unregister(c) ==
  /\ IpcIdle /\ "unregister" \in Faults
  /\ registered[c] /\ listMtx = "free"
  /\ regClients' = CASE FindClient(c) = 0 -> regClients
                     [] FindClient(c) = 1 -> <<>>
                     [] OTHER -> RemoveAt(regClients, FindClient(c))
  /\ registered' = [registered EXCEPT ![c] = FALSE]
  /\ held' = [held EXCEPT ![c] = FALSE]
  /\ inbox' = [inbox EXCEPT ![c] = <<>>]
  /\ UNCHANGED <<listMtx, blockClientReg, waitForNotifConf, requestId,
                 reqAdminPersMode, persistenceMode, libVars, ipcVars, up, outbox>>

\* Mutant: the request id is not compared.
ConfirmTestAnyId(m) ==
  /\ IpcIdle
  /\ m \in outbox
  /\ outbox' = outbox \ {m}
  /\ confCall' = {m}
  /\ UNCHANGED <<pasVars, libVars, regCall, registered, up, held, inbox>>

\* persIpcRequestCompletedCB: the test of the request id, then the mutex.
ConfirmTest(m) ==
  /\ IpcIdle
  /\ m \in outbox
  /\ outbox' = outbox \ {m}
  /\ confCall' = IF m.req = requestId THEN {m} ELSE {}
  /\ UNCHANGED <<pasVars, libVars, regCall, registered, up, held, inbox>>

ConfirmLocks(m) ==
  /\ libPc # "crashed"
  /\ m \in confCall /\ listMtx = "free"
  /\ confCall' = {}
  /\ UNCHANGED <<listMtx, blockClientReg, requestId, reqAdminPersMode,
                 persistenceMode, phase, pos, retVal, savedMode, currentTimeout,
                 regCall, clientVars>>

\* The sender is not in the list: the error message reads the id through the
\* NIL pointer.  Undefined, as in WaitNilClient.
ConfirmUnknown(m) ==
  /\ ConfirmLocks(m)
  /\ FindClient(m.id) = 0
  /\ libPc' \in {libPc, "crashed"}
  /\ UNCHANGED <<regClients, waitForNotifConf>>

Expected(m) == NotificationFlags[m.id] \cap reqAdminPersMode # {}
MustLock(m) == "LOCK" \in NotificationFlags[m.id] \cap reqAdminPersMode
Refusal(m) == m.status = "error" \/ (MustLock(m) /\ m.status # "locked")

ConfirmUnexpected(m) ==
  /\ ConfirmLocks(m)
  /\ FindClient(m.id) # 0 /\ ~ Expected(m)
  /\ UNCHANGED <<regClients, waitForNotifConf, libPc>>

\* "Mark the failed notification": the flag goes down, nothing else is kept.
ConfirmRefused(m) ==
  /\ ConfirmLocks(m)
  /\ FindClient(m.id) # 0 /\ Expected(m) /\ Refusal(m)
  /\ waitForNotifConf' = FALSE
  /\ UNCHANGED <<regClients, libPc>>

ConfirmAccepted(m) ==
  /\ ConfirmLocks(m)
  /\ FindClient(m.id) # 0 /\ Expected(m) /\ ~ Refusal(m)
  /\ regClients' = [regClients EXCEPT ![FindClient(m.id)] =
                    [@ EXCEPT !.confirmed = TRUE]]
  /\ UNCHANGED <<waitForNotifConf, libPc>>

IpcInsert == \E c \in Clients : RegisterInsert(c)
IpcConfirm ==
  \E m \in confCall : \/ ConfirmUnknown(m) \/ ConfirmUnexpected(m)
                      \/ ConfirmRefused(m) \/ ConfirmAccepted(m)
IpcDispatch == \E m \in outbox : ConfirmTest(m)
IpcNext ==
  \/ \E c \in Clients : RegisterTest(c) \/ Unregister(c)
  \/ IpcInsert \/ IpcConfirm \/ IpcDispatch

-----------------------------------------------------------------------------
(* The clients.  Each handles its requests in the order they arrive.       *)

ClientAnswers(c, locks, status) ==
  /\ up[c] /\ inbox[c] # <<>>
  /\ held' = [held EXCEPT ![c] = locks]
  /\ inbox' = [inbox EXCEPT ![c] = Tail(@)]
  /\ outbox' = outbox \cup {[id |-> c, req |-> Head(inbox[c]).req, status |-> status]}
  /\ UNCHANGED <<pasVars, libVars, ipcVars, registered, up>>

ClientLocks(c) ==
  LET locks == "LOCK" \in NotificationFlags[c]
  IN /\ inbox[c] # <<>> /\ Head(inbox[c]).mode = LockAndSync
     /\ ClientAnswers(c, locks, IF locks THEN "locked" ELSE "ok")

ClientUnlocks(c) ==
  /\ inbox[c] # <<>> /\ Head(inbox[c]).mode = Unlock
  /\ ClientAnswers(c, FALSE, "ok")

\* The client could not lock, and says so or answers without the status bit.
ClientFails(c) ==
  /\ "client_error" \in Faults
  /\ inbox[c] # <<>> /\ Head(inbox[c]).mode = LockAndSync
  /\ \E status \in {"error", "ok"} : ClientAnswers(c, held[c], status)

ClientCrash(c) ==
  /\ "client_crash" \in Faults /\ up[c]
  /\ up' = [up EXCEPT ![c] = FALSE]
  /\ registered' = [registered EXCEPT ![c] = FALSE]
  /\ held' = [held EXCEPT ![c] = FALSE]
  /\ inbox' = [inbox EXCEPT ![c] = <<>>]
  /\ UNCHANGED <<pasVars, libVars, ipcVars, outbox>>

ClientHandles(c) == ClientLocks(c) \/ ClientUnlocks(c)
ClientNext == \E c \in Clients : ClientHandles(c) \/ ClientFails(c) \/ ClientCrash(c)

\* The bound on request ids is reached and the service is quiet, or it died.
Terminating ==
  /\ libPc = "crashed" \/ (libPc = "idle" /\ requestId + 2 > MaxRequestId /\ IpcIdle)
  /\ UNCHANGED vars

Next == LibNext \/ IpcNext \/ ClientNext \/ Terminating

Spec == Init /\ [][Next]_vars

(***************************************************************************)
(* Both callbacks test a global before they take the mutex, and the other  *)
(* thread waits for neither: the IPC thread may be preempted in between    *)
(* while whole requests go by.  PromptConfirmation is an assumption on the *)
(* scheduler: a confirmation past its test reaches the mutex before the    *)
(* next request gets its id.  Nothing in the code enforces it, so it is no *)
(* guard of an action: what needs it is stated of PromptSpec.              *)
(***************************************************************************)
PromptConfirmation == confCall # {} => requestId' = requestId

PromptSpec == Init /\ [][Next /\ PromptConfirmation]_vars

\* The two PAS threads are scheduled, the IPC thread dispatches what arrives.
ServiceFairness ==
  /\ WF_vars(LibNext)
  /\ WF_vars(IpcInsert \/ IpcConfirm)
  /\ WF_vars(IpcDispatch)

FairSpec == Spec /\ ServiceFairness

\* The clients, too, eventually handle what they are sent.
LiveSpec ==
  PromptSpec /\ ServiceFairness /\ \A c \in Clients : WF_vars(ClientHandles(c))
-----------------------------------------------------------------------------
(* Properties.                                                             *)

TypeOK ==
  /\ regClients \in Seq(Entry)
  /\ listMtx \in {"free", "lib"}
  /\ blockClientReg \in BOOLEAN
  /\ waitForNotifConf \in BOOLEAN
  /\ requestId \in Nat
  /\ reqAdminPersMode \in SUBSET Modes
  /\ persistenceMode \in SUBSET Modes
  /\ libPc \in {"idle", "change", "new_id", "notify_lock", "notify", "changed",
                "wait_begin", "wait_test", "wait_scan", "wait_sleep", "op", "crashed"}
  /\ phase \in {"lock", "rollback", "unlock"}
  /\ pos \in Nat \ {0}
  /\ retVal \in BOOLEAN
  /\ savedMode \in SUBSET Modes
  /\ currentTimeout \in Nat
  /\ regCall \in SUBSET Clients
  /\ confCall \in SUBSET Confirmation
  /\ registered \in [Clients -> BOOLEAN]
  /\ up \in [Clients -> BOOLEAN]
  /\ held \in [Clients -> BOOLEAN]
  /\ inbox \in [Clients -> Seq(Request)]
  /\ outbox \in SUBSET Confirmation

Locker(c) == registered[c] /\ up[c] /\ "LOCK" \in NotificationFlags[c]

\* The entries of clients that a lock concerns and that were not asked for it.
Unasked ==
  {i \in DOMAIN regClients : /\ NotificationFlags[regClients[i].id] \cap LockAndSync # {}
                             /\ ~ regClients[i].notified}

\* Every client was asked for the lock, and the unlock has not begun.
AllAsked ==
  \/ libPc \in {"wait_begin", "wait_test", "wait_scan", "wait_sleep", "op"}
  \/ libPc = "changed" /\ phase = "lock" /\ retVal

\* While the administrative operation runs, every living registered client that
\* asked to be locked has flushed its cache and keeps its hands off the data,
\* except one that came in too late to be asked: "locks the memory access and
\* synchronizes the cache for all clients" (persadmin_SendLockAndSyncRequestToPCL).
ExclusiveAccess ==
  libPc = "op" =>
    \A c \in Clients : Locker(c) => held[c] \/ \E i \in Unasked : regClients[i].id = c

\* At most one client comes in too late: the one whose callback had found the
\* registration open when the lock began.  Whatever leaves the list, is refused
\* or fails to be sent, no second one gets past the block.
OneLateRegistration == AllAsked => \A i, j \in Unasked : i = j

\* "Block DBus client registration during Sync&Lock" (the file's history): no
\* client that was never asked is in the list while the operation runs.  The code
\* does not keep this (see the README).
NoLateRegistration == libPc = "op" => Unasked = {}

\* What the service knows of a client is about the current request: an entry
\* that counts as confirmed belongs to a client that has no request with the
\* current id left to handle.
CurrentConfirmation ==
  libPc \in {"wait_begin", "wait_test", "wait_scan", "wait_sleep", "changed", "op"} =>
    \A i \in DOMAIN regClients :
      regClients[i].notified /\ regClients[i].confirmed =>
        \A k \in DOMAIN inbox[regClients[i].id] :
          inbox[regClients[i].id][k].req # requestId

\* Between two operations nobody is left locked out: a registered client that
\* still holds, or has still to handle a lock, has an unlock coming as the last
\* of its requests ("unlock access for all notified clients").
NoClientLeftLocked ==
  libPc = "idle" =>
    \A c \in Clients :
      IF inbox[c] = <<>> THEN ~ held[c]
      ELSE inbox[c][Len(inbox[c])].mode = Unlock

\* A client left locked out is one whose own unlock could not be sent: a loop that
\* tells everybody else leaves nobody further on with the mark of the lock
\* ("unlock access for all notified clients").
OnlyUnreachableLeftLocked ==
  libPc = "idle" =>
    \A i \in DOMAIN regClients :
      LET c == regClients[i].id
      IN inbox[c] = <<>> /\ held[c] => ~ regClients[i].notified

\* Registration stays blocked from the first lock message to the unlock: the
\* two globals that say "locked" cannot drift apart, whichever way a request
\* ends, and the service is never idle while clients are told they are locked.
BlockedWhileLocked ==
  /\ "LOCK" \in persistenceMode => blockClientReg
  /\ libPc = "idle" => persistenceMode \cap LockAndSync = {} /\ ~ blockClientReg
  /\ libPc = "op" => "LOCK" \in persistenceMode

\* A client stays in the list until it leaves: no other client's callback and
\* no step of the service takes it out ("remove specified client info").  The
\* code does not keep this (see the README).
RegisteredIsListed == \A c \in Clients : registered[c] => FindClient(c) # 0

\* The callbacks and the waiting loop read no client through a NIL pointer.
NoNilRead == libPc # "crashed"

\* A granted lock was confirmed by everyone notified: an error report never
\* ends the wait as a success ("Mark the failed notification").
GrantedIsConfirmed ==
  libPc = "op" => \A i \in DOMAIN regClients :
                    regClients[i].notified => regClients[i].confirmed

\* Every request comes to an end, whatever the clients do: a silent client
\* costs its timeout and no more.
RequestEnds == libPc # "idle" ~> libPc \in {"idle", "crashed"}

\* A client that was locked is released.
HeldIsReleased == \A c \in Clients : held[c] ~> ~ held[c]
=============================================================================
