--------------------------- MODULE PclLockProofs ---------------------------
(***************************************************************************)
(* The safety of the lock protocol, for any clients: exclusion while an    *)
(* operation runs, and after that where its messages are.                  *)
(***************************************************************************)
EXTENDS PclLock, SequenceTheorems, WellFoundedInduction, TLAPS

\* Every non-empty set of naturals has a least element.
LEMMA LeastExists ==
  ASSUME NEW T, T \subseteq Nat, T # {}
  PROVE  \E x \in T : \A y \in T : x <= y
<1> DEFINE R == OpToRel(<, Nat)
<1>1. PICK x \in T : \A y \in T : ~ (<<y, x>> \in R)
  BY NatLessThanWellFounded, WFMin
<1>2. \A y \in T : y < x => <<y, x>> \in R
  BY DEF OpToRel
<1>3. \A y \in T : ~ (y < x)
  BY <1>1, <1>2
<1>4. \A y \in T : x <= y
  BY <1>3
<1> QED BY <1>4

LEMMA MinOfNats ==
  ASSUME NEW T, T \subseteq Nat, T # {}
  PROVE  Min(T) \in T /\ \A y \in T : Min(T) <= y
  BY LeastExists DEF Min

\* What the search for a client returns.
LEMMA FindClientFinds ==
  ASSUME NEW S, regClients \in Seq(S), NEW c
  PROVE  /\ FindClient(c) \in Nat
         /\ FindClient(c) # 0 =>
              /\ FindClient(c) \in 1 .. Len(regClients)
              /\ regClients[FindClient(c)].id = c
         /\ FindClient(c) = 0 => \A i \in 1 .. Len(regClients) : regClients[i].id # c
<1> DEFINE I == {i \in 1 .. Len(regClients) : regClients[i].id = c}
<1>0. Len(regClients) \in Nat
  BY LenProperties
<1>1. FindClient(c) = IF I # {} THEN Min(I) ELSE 0
  BY DEF FindClient, SelectInSeq
<1>2. I \subseteq Nat
  BY <1>0
<1>3. I # {} => Min(I) \in I
  BY <1>2, MinOfNats
<1> QED BY <1>0, <1>1, <1>3

\* The same of the search for a client that has not confirmed.
LEMMA FirstPendingFinds ==
  ASSUME NEW S, regClients \in Seq(S)
  PROVE  /\ FirstPending \in Nat
         /\ FirstPending # 0 =>
              /\ FirstPending \in 1 .. Len(regClients)
              /\ Pending(regClients[FirstPending])
         /\ FirstPending = 0 => \A i \in 1 .. Len(regClients) : ~ Pending(regClients[i])
<1> DEFINE I == {i \in 1 .. Len(regClients) : Pending(regClients[i])}
<1>0. Len(regClients) \in Nat
  BY LenProperties
<1>1. FirstPending = IF I # {} THEN Min(I) ELSE 0
  BY DEF FirstPending, SelectInSeq
<1>2. I \subseteq Nat
  BY <1>0
<1>3. I # {} => Min(I) \in I
  BY <1>2, MinOfNats
<1> QED BY <1>0, <1>1, <1>3

\* Removing an element leaves a sequence over the same set.
LEMMA RemoveAtIsSeq ==
  ASSUME NEW S, NEW s \in Seq(S), NEW i \in 1 .. Len(s)
  PROVE  RemoveAt(s, i) \in Seq(S)
<1>0. Len(s) \in Nat /\ \A j \in 1 .. Len(s) : s[j] \in S
  BY LenProperties, ElementOfSeq
<1>1. SubSeq(s, 1, i - 1) \in Seq(S)
  BY <1>0, SubSeqProperties
<1>2. SubSeq(s, i + 1, Len(s)) \in Seq(S)
  BY <1>0, SubSeqProperties
<1> QED BY <1>1, <1>2, ConcatProperties DEF RemoveAt
-----------------------------------------------------------------------------
(* Types.                                                                  *)

LEMMA InitTypeOK == Init => TypeOK
<1> SUFFICES ASSUME Init PROVE TypeOK
  OBVIOUS
<1>1. regClients \in Seq(Entry) /\ inbox \in [Clients -> Seq(Request)]
  BY EmptySeq DEF Init
<1>2. blockClientReg \in BOOLEAN /\ waitForNotifConf \in BOOLEAN /\ retVal \in BOOLEAN
  BY DEF Init
<1>3. registered \in [Clients -> BOOLEAN] /\ up \in [Clients -> BOOLEAN]
      /\ held \in [Clients -> BOOLEAN]
  BY DEF Init
<1>4. libPc = "idle" /\ phase = "unlock" /\ listMtx = "free" /\ pos = 1
      /\ requestId = 0 /\ currentTimeout = 0
  BY DEF Init
<1>5. reqAdminPersMode = {} /\ persistenceMode = {} /\ savedMode = {}
      /\ regCall = {} /\ confCall = {} /\ outbox = {}
  BY DEF Init
<1> QED BY <1>1, <1>2, <1>3, <1>4, <1>5 DEF TypeOK

\* A turn of the notification loop rewrites one entry of the list.
LEMMA NotifySetsType ==
  ASSUME TypeOK, NEW n \in BOOLEAN, NEW k \in BOOLEAN, NotifySets(n, k)
  PROVE  /\ pos \in 1 .. Len(regClients)
         /\ regClients[pos] \in Entry
         /\ regClients' \in Seq(Entry)
<1>1. pos \in 1 .. Len(regClients)
  BY LenProperties DEF TypeOK, NotifySets
<1>2. regClients[pos] \in Entry
  BY <1>1, ElementOfSeq DEF TypeOK
<1>3. [regClients[pos] EXCEPT !.notified = n, !.confirmed = k] \in Entry
  BY <1>2 DEF Entry
<1>4. regClients' = [regClients EXCEPT ![pos] =
                       [regClients[pos] EXCEPT !.notified = n, !.confirmed = k]]
  BY DEF NotifySets
<1>5. regClients' \in Seq(Entry)
  BY <1>1, <1>3, <1>4, ExceptSeq DEF TypeOK
<1> QED BY <1>1, <1>2, <1>5

LEMMA LibTypeOK == TypeOK /\ LibNext => TypeOK'
<1> SUFFICES ASSUME TypeOK, LibNext PROVE TypeOK'
  OBVIOUS
<1> USE DEF TypeOK, ipcVars, clientVars, pasVars
<1>1. CASE LockStart \/ UnlockStart \/ ChangeMode
  BY <1>1 DEF LockStart, UnlockStart, ChangeMode, Target, LockAndSync, Unlock, Modes
<1>2. CASE NewRequestId \/ NotifyBegin \/ NotifyEnd
  BY <1>2 DEF NewRequestId, NotifyBegin, NotifyEnd
<1>3. CASE NotifySkip
  <2>1. regClients' \in Seq(Entry)
    BY <1>3, NotifySetsType DEF NotifySkip
  <2> QED BY <1>3, <2>1 DEF NotifySkip, NotifySets, NotifyGoesOn
<1>4. CASE NotifyUnavailable
  <2>1. regClients' \in Seq(Entry)
    BY <1>4, NotifySetsType DEF NotifyUnavailable
  <2> QED BY <1>4, <2>1 DEF NotifyUnavailable, NotifySets, NotifyGoesOn
<1>5. CASE NotifyFailed
  <2>1. regClients' \in Seq(Entry)
    BY <1>5, NotifySetsType DEF NotifyFailed
  <2> QED BY <1>5, <2>1 DEF NotifyFailed, NotifySets
<1>6. CASE NotifyDelivered
  <2>1. regClients' \in Seq(Entry) /\ regClients[pos].id \in Clients
    BY <1>6, NotifySetsType DEF NotifyDelivered, Entry
  <2>2. [req |-> requestId, mode |-> Target] \in Request
    BY DEF Request, Target
  <2>3. Append(inbox[regClients[pos].id], [req |-> requestId, mode |-> Target])
          \in Seq(Request)
    BY <2>1, <2>2, AppendProperties
  <2>4. inbox' \in [Clients -> Seq(Request)]
    BY <1>6, <2>3 DEF NotifyDelivered
  <2> QED BY <1>6, <2>1, <2>4 DEF NotifyDelivered, NotifySets, NotifyGoesOn
<1>7. CASE WaitBegin \/ WaitTest \/ WaitSleep
  <2>1. CASE WaitBegin
    BY <2>1 DEF WaitBegin
  <2>2. CASE WaitTest
    BY <2>2 DEF WaitTest
  <2>3. CASE WaitSleep
    <3>1. currentTimeout' \in Nat
      BY <2>3 DEF WaitSleep
    <3> QED BY <2>3, <3>1 DEF WaitSleep
  <2> QED BY <1>7, <2>1, <2>2, <2>3
<1>8. CASE WaitAllConfirmed \/ WaitNilClient \/ WaitTimedOut \/ WaitGoesOn
  BY <1>8 DEF WaitScan, WaitAllConfirmed, WaitNilClient, WaitTimedOut, WaitGoesOn
<1>9. CASE LockGranted \/ LockFailed \/ Unlocked
  BY <1>9 DEF LockGranted, LockFailed, Unlocked, SwitchBack, Unlock, Modes
<1> QED
  BY <1>1, <1>2, <1>3, <1>4, <1>5, <1>6, <1>7, <1>8, <1>9 DEF LibNext

LEMMA IpcTypeOK == TypeOK /\ IpcNext => TypeOK'
<1> SUFFICES ASSUME TypeOK, IpcNext PROVE TypeOK'
  OBVIOUS
<1> USE DEF TypeOK, ipcVars, clientVars, pasVars, libVars
<1>1. ASSUME NEW c \in Clients, RegisterTest(c) PROVE TypeOK'
  BY <1>1 DEF RegisterTest
<1>2. ASSUME NEW c \in Clients, Unregister(c) PROVE TypeOK'
  <2>1. FindClient(c) # 0 => FindClient(c) \in 1 .. Len(regClients)
    BY FindClientFinds
  <2>2. regClients' \in Seq(Entry)
    BY <1>2, <2>1, RemoveAtIsSeq, EmptySeq DEF Unregister
  <2>3. inbox' \in [Clients -> Seq(Request)]
    BY <1>2, EmptySeq DEF Unregister
  <2> QED BY <1>2, <2>2, <2>3 DEF Unregister
<1>3. CASE IpcInsert
  <2> PICK c \in Clients : RegisterInsert(c)
    BY <1>3 DEF IpcInsert
  <2>1. [id |-> c, notified |-> FALSE, confirmed |-> FALSE] \in Entry
    BY DEF Entry
  <2>2. regClients' \in Seq(Entry)
    BY <2>1, AppendProperties DEF RegisterInsert
  <2> QED BY <2>2 DEF RegisterInsert
<1>4. CASE IpcConfirm
  <2> PICK m \in confCall :
         \/ ConfirmUnknown(m) \/ ConfirmUnexpected(m)
         \/ ConfirmRefused(m) \/ ConfirmAccepted(m)
    BY <1>4 DEF IpcConfirm
  <2> USE DEF ConfirmLocks
  <2>1. CASE ConfirmUnknown(m)
    BY <2>1 DEF ConfirmUnknown
  <2>2. CASE ConfirmUnexpected(m)
    BY <2>2 DEF ConfirmUnexpected
  <2>3. CASE ConfirmRefused(m)
    BY <2>3 DEF ConfirmRefused
  <2>4. CASE ConfirmAccepted(m)
    <3> DEFINE k == FindClient(m.id)
               e == [regClients[k] EXCEPT !.confirmed = TRUE]
    <3>1. k \in 1 .. Len(regClients)
      BY <2>4, FindClientFinds DEF ConfirmAccepted
    <3> HIDE DEF k
    <3>5. regClients[k] \in Entry
      BY <3>1, ElementOfSeq
    <3>2. e \in Entry
      BY <3>5 DEF Entry
    <3>3. regClients' = [regClients EXCEPT ![k] = e]
      BY <2>4 DEF ConfirmAccepted, k
    <3>4. regClients' \in Seq(Entry)
      BY <3>1, <3>2, <3>3, ExceptSeq
    <3> QED BY <2>4, <3>4 DEF ConfirmAccepted
  <2> QED BY <2>1, <2>2, <2>3, <2>4
<1>5. CASE IpcDispatch
  <2> PICK m \in outbox : ConfirmTest(m)
    BY <1>5 DEF IpcDispatch
  <2>1. confCall' \in SUBSET Confirmation
    BY DEF ConfirmTest
  <2> QED BY <2>1 DEF ConfirmTest
<1> QED BY <1>1, <1>2, <1>3, <1>4, <1>5 DEF IpcNext

LEMMA ClientTypeOK == TypeOK /\ ClientNext => TypeOK'
<1> SUFFICES ASSUME TypeOK, ClientNext PROVE TypeOK'
  OBVIOUS
<1> USE DEF TypeOK, ipcVars, pasVars, libVars
<1>1. ASSUME NEW c \in Clients, NEW l \in BOOLEAN, NEW st \in {"locked", "ok", "error"},
             ClientAnswers(c, l, st)
      PROVE  TypeOK'
  <2>1. Head(inbox[c]) \in Request /\ Tail(inbox[c]) \in Seq(Request)
    BY <1>1, HeadTailProperties DEF ClientAnswers
  <2>2. [id |-> c, req |-> Head(inbox[c]).req, status |-> st] \in Confirmation
    BY <2>1 DEF Request, Confirmation
  <2>3. inbox' \in [Clients -> Seq(Request)]
    BY <1>1, <2>1 DEF ClientAnswers
  <2>4. outbox' \in SUBSET Confirmation
    BY <1>1, <2>2 DEF ClientAnswers
  <2> QED BY <1>1, <2>3, <2>4 DEF ClientAnswers
<1>2. ASSUME NEW c \in Clients, ClientCrash(c) PROVE TypeOK'
  <2>1. inbox' \in [Clients -> Seq(Request)]
    BY <1>2, EmptySeq DEF ClientCrash
  <2>2. /\ registered' \in [Clients -> BOOLEAN]
        /\ up' \in [Clients -> BOOLEAN]
        /\ held' \in [Clients -> BOOLEAN]
    BY <1>2 DEF ClientCrash
  <2>3. UNCHANGED <<pasVars, libVars, ipcVars, outbox>>
    BY <1>2 DEF ClientCrash
  <2> QED BY <2>1, <2>2, <2>3
<1> PICK c \in Clients : ClientHandles(c) \/ ClientFails(c) \/ ClientCrash(c)
  BY DEF ClientNext
<1>3. CASE ClientLocks(c)
  <2>1. ("LOCK" \in NotificationFlags[c]) \in BOOLEAN
    OBVIOUS
  <2> QED BY <1>1, <1>3, <2>1 DEF ClientLocks
<1>4. CASE ClientUnlocks(c)
  BY <1>1, <1>4 DEF ClientUnlocks
<1>5. CASE ClientFails(c)
  <2>1. held[c] \in BOOLEAN
    OBVIOUS
  <2> QED BY <1>1, <1>5, <2>1 DEF ClientFails
<1> QED BY <1>2, <1>3, <1>4, <1>5 DEF ClientHandles

LEMMA NextTypeOK == TypeOK /\ [Next]_vars => TypeOK'
<1> SUFFICES ASSUME TypeOK, [Next]_vars PROVE TypeOK'
  OBVIOUS
<1>1. CASE UNCHANGED vars
  BY <1>1 DEF TypeOK, vars, pasVars, libVars, ipcVars, clientVars
<1>2. CASE Terminating
  BY <1>1, <1>2 DEF Terminating
<1> QED BY <1>1, <1>2, LibTypeOK, IpcTypeOK, ClientTypeOK DEF Next

\* Every variable of the protocol keeps its type.
THEOREM TypeCorrect == Spec => []TypeOK
  BY InitTypeOK, NextTypeOK, PTL DEF Spec
-----------------------------------------------------------------------------
(* The two globals that say "locked".                                      *)

\* They follow the thread: blocked and in the mode of the current request from
\* the first step of a lock to the last of the unlock or rollback.
BlockInv ==
  /\ TypeOK
  /\ libPc \notin {"idle", "crashed"} => blockClientReg /\ persistenceMode = Target
  /\ libPc = "idle" => ~ blockClientReg /\ persistenceMode \cap LockAndSync = {}
  /\ libPc = "op" => phase = "lock"
  /\ "LOCK" \in persistenceMode => blockClientReg

LEMMA InitBlockInv == Init => BlockInv
  BY InitTypeOK DEF Init, BlockInv

\* Only the ends of a request change these variables.
LEMMA LibBlockInv == BlockInv /\ LibNext => BlockInv'
<1> SUFFICES ASSUME BlockInv, LibNext PROVE BlockInv'
  OBVIOUS
<1>0. TypeOK'
  BY LibTypeOK DEF BlockInv
<1> USE DEF BlockInv, Target, LockAndSync, Unlock
<1>1. CASE LockStart
  BY <1>0, <1>1 DEF LockStart
<1>2. CASE UnlockStart
  BY <1>0, <1>2 DEF UnlockStart
<1>3. CASE LockGranted
  BY <1>0, <1>3 DEF LockGranted
<1>4. CASE LockFailed
  BY <1>0, <1>4 DEF LockFailed
<1>5. CASE Unlocked
  BY <1>0, <1>5 DEF Unlocked
<1>6. CASE ~ (LockStart \/ UnlockStart \/ LockGranted \/ LockFailed \/ Unlocked)
  <2>1. UNCHANGED <<blockClientReg, persistenceMode, phase>>
    BY <1>6 DEF LibNext, ChangeMode, NewRequestId, NotifyBegin, NotifySkip,
       NotifyDelivered, NotifyUnavailable, NotifyFailed, NotifyEnd, NotifySets,
       WaitBegin, WaitTest, WaitAllConfirmed, WaitNilClient, WaitTimedOut,
       WaitGoesOn, WaitSleep, WaitScan, pasVars
  <2>2. libPc \notin {"idle", "crashed", "op"} /\ libPc' \notin {"idle", "op"}
    BY <1>6 DEF LibNext, ChangeMode, NewRequestId, NotifyBegin, NotifySkip,
       NotifyDelivered, NotifyUnavailable, NotifyFailed, NotifyEnd, NotifySets,
       NotifyGoesOn, WaitBegin, WaitTest, WaitAllConfirmed, WaitNilClient,
       WaitTimedOut, WaitGoesOn, WaitSleep, WaitScan
  <2> QED BY <1>0, <2>1, <2>2
<1> QED BY <1>1, <1>2, <1>3, <1>4, <1>5, <1>6

LEMMA NextBlockInv == BlockInv /\ [Next]_vars => BlockInv'
<1> SUFFICES ASSUME BlockInv, [Next]_vars PROVE BlockInv'
  OBVIOUS
<1>0. TypeOK'
  BY NextTypeOK DEF BlockInv
<1>1. CASE IpcNext
  <2>1. UNCHANGED <<blockClientReg, persistenceMode, phase>>
        /\ libPc' \in {libPc, "crashed"}
    BY <1>1 DEF IpcNext, IpcInsert, IpcConfirm, IpcDispatch, RegisterTest,
       RegisterInsert, Unregister, ConfirmTest, ConfirmLocks, ConfirmUnknown,
       ConfirmUnexpected, ConfirmRefused, ConfirmAccepted, pasVars, libVars
  <2> QED BY <1>0, <2>1 DEF BlockInv, Target
<1>2. CASE ClientNext \/ Terminating \/ UNCHANGED vars
  <2>1. UNCHANGED <<blockClientReg, persistenceMode, phase, libPc>>
    BY <1>2 DEF ClientNext, ClientHandles, ClientLocks, ClientUnlocks, ClientFails,
       ClientAnswers, ClientCrash, Terminating, vars, pasVars, libVars
  <2> QED BY <1>0, <2>1 DEF BlockInv, Target
<1> QED BY <1>1, <1>2, LibBlockInv DEF Next

\* Registration is blocked while clients are told that they are locked, and open
\* when the service is idle, however a request ends and whatever fails.
THEOREM BlockedExactly == Spec => []BlockedWhileLocked
<1>1. BlockInv => BlockedWhileLocked
  BY DEF BlockInv, BlockedWhileLocked, Target, LockAndSync
<1> QED BY <1>1, InitBlockInv, NextBlockInv, PTL DEF Spec
-----------------------------------------------------------------------------
(* Exclusive access, when the clients behave: messages may fail to be sent *)
(* and clients may die, but none answers with an error and none leaves the *)
(* list.  A confirmation past its test meets no later request (PromptSpec); *)
(* a registration may be preempted for as long as it likes.                *)

WellBehaved == Faults \subseteq {"send_fail", "client_crash"}

Waiting == {"wait_begin", "wait_test", "wait_scan", "wait_sleep"}

\* A request for a lock is being made, or has been granted.
Locking == phase = "lock" /\ libPc \in {"notify_lock", "notify", "changed", "op"} \cup Waiting

\* Every client was visited by the notification loop.
Visited == libPc \in Waiting \cup {"op"} \/ (libPc = "changed" /\ phase = "lock" /\ retVal)

WantsLock(c) == "LOCK" \in NotificationFlags[c]

\* The client keeps its hands off, and no unlock is on its way.
Kept(c) ==
  held[c] /\ \A k \in 1 .. Len(inbox[c]) : inbox[c][k].mode = LockAndSync

\* Who has joined is listed.
ListInv ==
  /\ \A c \in Clients : registered[c] => \E i \in 1 .. Len(regClients) : regClients[i].id = c
  /\ libPc = "notify" <=> listMtx = "lib"
  /\ libPc \in Waiting => phase = "lock"

\* Requests arrive in order; those of the current id carry the current mode.
InboxInv ==
  \A c \in Clients :
    /\ \A k \in 1 .. Len(inbox[c]) : inbox[c][k].req <= requestId
    /\ \A j, k \in 1 .. Len(inbox[c]) : j <= k => inbox[c][j].req <= inbox[c][k].req
    /\ Locking => \A k \in 1 .. Len(inbox[c]) :
                    inbox[c][k].req = requestId => inbox[c][k].mode = LockAndSync

\* A confirmation of the current lock request tells the truth.
ConfirmationInv ==
  /\ \A m \in outbox : m.req <= requestId
  /\ \A m \in confCall : m.req = requestId
  /\ \A m \in outbox \cup confCall : m.status # "error"
  /\ Locking => \A m \in outbox \cup confCall :
                  m.req = requestId /\ WantsLock(m.id) =>
                    m.status = "locked" /\ (up[m.id] => Kept(m.id))

\* What a client that was told has confirmed is true.
EntryOK(e) ==
  WantsLock(e.id) /\ e.notified /\ e.confirmed /\ up[e.id] => Kept(e.id)
EntryInv ==
  /\ phase = "lock" /\ libPc = "notify" =>
       \A i \in 1 .. Len(regClients) : i < pos => EntryOK(regClients[i])
  /\ Visited => \A i \in 1 .. Len(regClients) : EntryOK(regClients[i])

\* The flag goes down with the return value; who is granted was confirmed.
WaitInv ==
  /\ libPc \in Waiting \ {"wait_begin"} => waitForNotifConf \/ ~ retVal
  /\ libPc = "op" \/ (libPc = "changed" /\ phase = "lock" /\ retVal) =>
       \A i \in 1 .. Len(regClients) : ~ Pending(regClients[i])

LockInv == BlockInv /\ ListInv /\ InboxInv /\ ConfirmationInv /\ EntryInv /\ WaitInv

LEMMA InitLockInv == Init => LockInv
<1> SUFFICES ASSUME Init PROVE LockInv
  OBVIOUS
<1>1. ListInv
  BY DEF Init, ListInv, Waiting
<1>2. InboxInv
  BY DEF Init, InboxInv, Locking
<1>3. ConfirmationInv /\ EntryInv /\ WaitInv
  BY DEF Init, ConfirmationInv, EntryInv, WaitInv, Locking, Visited, Waiting
<1> QED BY <1>1, <1>2, <1>3, InitBlockInv DEF LockInv

\* Steps of the access-lib thread that touch neither the list nor a message.
QuietLib ==
  \/ LockStart \/ UnlockStart \/ ChangeMode \/ NewRequestId \/ NotifyBegin \/ NotifyEnd
  \/ WaitBegin \/ WaitTest \/ WaitAllConfirmed \/ WaitNilClient \/ WaitTimedOut
  \/ WaitGoesOn \/ WaitSleep \/ LockGranted \/ LockFailed \/ Unlocked

LEMMA QuietFrame ==
  QuietLib => UNCHANGED <<regClients, inbox, outbox, regCall, confCall, registered, up, held>>
BY DEF QuietLib, LockStart, UnlockStart, ChangeMode, NewRequestId, NotifyBegin, NotifyEnd,
   WaitBegin, WaitTest, WaitScan, WaitAllConfirmed, WaitNilClient, WaitTimedOut,
   WaitGoesOn, WaitSleep, LockGranted, LockFailed, Unlocked, pasVars, ipcVars, clientVars

\* A new lock request begins with a new id; every other quiet step stays in the
\* request it belongs to.
LEMMA QuietLocking ==
  ASSUME TypeOK, BlockInv, QuietLib, ~ NewRequestId
  PROVE  requestId' = requestId /\ (Locking' => Locking)
<1> USE DEF Locking, Waiting
<1>1. CASE LockStart \/ UnlockStart \/ ChangeMode \/ NotifyBegin \/ NotifyEnd
  BY <1>1 DEF LockStart, UnlockStart, ChangeMode, NotifyBegin, NotifyEnd
<1>2. CASE WaitBegin \/ WaitTest \/ WaitSleep
  BY <1>2 DEF WaitBegin, WaitTest, WaitSleep, pasVars
<1>3. CASE WaitAllConfirmed \/ WaitNilClient \/ WaitTimedOut \/ WaitGoesOn
  BY <1>3 DEF WaitScan, WaitAllConfirmed, WaitNilClient, WaitTimedOut, WaitGoesOn
<1>4. CASE LockGranted \/ LockFailed \/ Unlocked
  BY <1>4 DEF LockGranted, LockFailed, Unlocked
<1> QED BY <1>1, <1>2, <1>3, <1>4 DEF QuietLib

LEMMA QuietListInv ==
  ASSUME LockInv, QuietLib PROVE ListInv'
<1> USE DEF LockInv, BlockInv, ListInv, Waiting
<1>0. UNCHANGED <<regClients, regCall, registered>>
  BY QuietFrame
<1>1. CASE LockStart
  BY <1>0, <1>1 DEF LockStart
<1>2. CASE NotifyBegin \/ NotifyEnd
  BY <1>0, <1>2 DEF NotifyBegin, NotifyEnd
<1>3. CASE UnlockStart \/ ChangeMode \/ NewRequestId
  BY <1>0, <1>3 DEF UnlockStart, ChangeMode, NewRequestId
<1>4. CASE WaitBegin \/ WaitTest \/ WaitSleep
  BY <1>0, <1>4 DEF WaitBegin, WaitTest, WaitSleep, pasVars
<1>5. CASE WaitAllConfirmed \/ WaitNilClient \/ WaitTimedOut \/ WaitGoesOn
  BY <1>0, <1>5 DEF WaitScan, WaitAllConfirmed, WaitNilClient, WaitTimedOut, WaitGoesOn
<1>6. CASE LockGranted \/ LockFailed \/ Unlocked
  BY <1>0, <1>6 DEF LockGranted, LockFailed, Unlocked
<1> QED BY <1>1, <1>2, <1>3, <1>4, <1>5, <1>6 DEF QuietLib

LEMMA InboxTypes ==
  ASSUME TypeOK, NEW c \in Clients
  PROVE  /\ inbox[c] \in Seq(Request) /\ Len(inbox[c]) \in Nat
         /\ \A k \in 1 .. Len(inbox[c]) :
              inbox[c][k] \in Request /\ inbox[c][k].req \in Nat
<1>1. inbox[c] \in Seq(Request)
  BY DEF TypeOK
<1>2. Len(inbox[c]) \in Nat /\ \A k \in 1 .. Len(inbox[c]) : inbox[c][k] \in Request
  BY <1>1, LenProperties, ElementOfSeq
<1> QED BY <1>1, <1>2 DEF Request

LEMMA QuietMessages ==
  ASSUME LockInv, QuietLib, PromptConfirmation PROVE InboxInv' /\ ConfirmationInv'
<1>0. UNCHANGED <<inbox, outbox, confCall, up, held>>
  BY QuietFrame
<1>1. \A c : Kept(c)' = Kept(c)
  BY <1>0 DEF Kept
<1>2. CASE ~ NewRequestId
  <2>1. requestId' = requestId /\ (Locking' => Locking)
    BY <1>2, QuietLocking DEF LockInv, BlockInv
  <2> QED BY <1>0, <1>1, <2>1 DEF LockInv, InboxInv, ConfirmationInv, WantsLock
<1>3. CASE NewRequestId
  <2>1. confCall = {} /\ requestId' = requestId + 1 /\ requestId \in Nat
    BY <1>3 DEF NewRequestId, PromptConfirmation, LockInv, BlockInv, TypeOK
  <2>2. InboxInv'
    <3>1. \A c \in Clients : \A k \in 1 .. Len(inbox[c]) :
            inbox[c][k].req \in Nat /\ inbox[c][k].req <= requestId
      BY InboxTypes DEF LockInv, BlockInv, InboxInv
    <3>2. \A c \in Clients : \A k \in 1 .. Len(inbox[c]) :
            inbox[c][k].req <= requestId' /\ inbox[c][k].req # requestId'
      BY <2>1, <3>1
    <3> QED BY <1>0, <3>2 DEF LockInv, InboxInv
  <2>3. ConfirmationInv'
    <3>1. \A m \in outbox : m.req \in Nat /\ m.req <= requestId
      BY DEF LockInv, BlockInv, ConfirmationInv, TypeOK, Confirmation
    <3>2. \A m \in outbox : m.req <= requestId' /\ m.req # requestId'
      BY <2>1, <3>1
    <3>3. \A m \in outbox \cup confCall : m.status # "error"
      BY DEF LockInv, ConfirmationInv
    <3>4. (outbox \cup confCall)' = outbox
      BY <1>0, <2>1
    <3>5. \A m \in (outbox \cup confCall)' : m.status # "error" /\ m.req # requestId'
      BY <3>2, <3>3, <3>4
    <3> QED BY <1>0, <2>1, <3>2, <3>5 DEF ConfirmationInv
  <2> QED BY <2>2, <2>3
<1> QED BY <1>2, <1>3

LEMMA QuietEntries ==
  ASSUME LockInv, QuietLib PROVE EntryInv' /\ WaitInv'
<1>0. UNCHANGED <<regClients, inbox, up, held>> /\ Len(regClients) \in Nat
  BY QuietFrame, LenProperties DEF LockInv, BlockInv, TypeOK
<1>1. \A e : EntryOK(e)' = EntryOK(e)
  BY <1>0 DEF EntryOK, Kept, WantsLock
<1> USE DEF LockInv, BlockInv, Waiting, Visited
<1>2. CASE LockStart \/ UnlockStart \/ ChangeMode \/ NewRequestId
  BY <1>0, <1>1, <1>2 DEF LockStart, UnlockStart, ChangeMode, NewRequestId, EntryInv, WaitInv
<1>3. CASE NotifyBegin
  BY <1>0, <1>1, <1>3 DEF NotifyBegin, EntryInv, WaitInv
<1>4. CASE NotifyEnd
  BY <1>0, <1>1, <1>4 DEF NotifyEnd, EntryInv, WaitInv, TypeOK
<1>5. CASE WaitBegin \/ WaitTest \/ WaitSleep
  BY <1>0, <1>1, <1>5 DEF WaitBegin, WaitTest, WaitSleep, pasVars, EntryInv, WaitInv
<1>6. CASE WaitAllConfirmed
  <2>1. \A i \in 1 .. Len(regClients) : ~ Pending(regClients[i])
    BY <1>6, FirstPendingFinds DEF WaitAllConfirmed, TypeOK
  <2> QED BY <1>0, <1>1, <1>6, <2>1 DEF WaitAllConfirmed, WaitScan, EntryInv, WaitInv, ListInv
<1>7. CASE WaitNilClient
  BY <1>0, <1>1, <1>7 DEF WaitNilClient, WaitScan, EntryInv, WaitInv
<1>8. CASE WaitTimedOut \/ WaitGoesOn
  BY <1>0, <1>1, <1>8 DEF WaitTimedOut, WaitGoesOn, WaitScan, EntryInv, WaitInv
<1>9. CASE LockGranted \/ LockFailed \/ Unlocked
  BY <1>0, <1>1, <1>9 DEF LockGranted, LockFailed, Unlocked, EntryInv, WaitInv
<1> QED BY <1>2, <1>3, <1>4, <1>5, <1>6, <1>7, <1>8, <1>9 DEF QuietLib

LEMMA EntryTypes ==
  ASSUME TypeOK, NEW i \in 1 .. Len(regClients)
  PROVE  regClients[i] \in Entry /\ regClients[i].id \in Clients
<1>1. regClients[i] \in Entry
  BY ElementOfSeq DEF TypeOK
<1> QED BY <1>1 DEF Entry

\* A turn of the loop changes the flags of the entry it visits and nothing else
\* of the list.
LEMMA NotifySetsList ==
  ASSUME TypeOK, NEW n \in BOOLEAN, NEW k \in BOOLEAN, NotifySets(n, k)
  PROVE  /\ Len(regClients) \in Nat /\ Len(regClients') = Len(regClients)
         /\ \A i \in 1 .. Len(regClients) : regClients'[i].id = regClients[i].id
         /\ \A i \in 1 .. Len(regClients) : i # pos => regClients'[i] = regClients[i]
         /\ regClients'[pos].notified = n /\ regClients'[pos].confirmed = k
<1> DEFINE e == [regClients[pos] EXCEPT !.notified = n, !.confirmed = k]
<1>1. pos \in 1 .. Len(regClients) /\ regClients[pos] \in Entry
  BY NotifySetsType
<1>2. e \in Entry /\ e.id = regClients[pos].id /\ e.notified = n /\ e.confirmed = k
  BY <1>1 DEF Entry
<1>3. regClients' = [regClients EXCEPT ![pos] = e] /\ regClients \in Seq(Entry)
  BY DEF NotifySets, TypeOK
<1>4. Len(regClients) \in Nat
  BY <1>3, LenProperties
<1> HIDE DEF e
<1>5. /\ Len(regClients') = Len(regClients)
      /\ \A j \in 1 .. Len(regClients) :
           regClients'[j] = IF j = pos THEN e ELSE regClients[j]
  BY <1>1, <1>2, <1>3, ExceptSeq
<1> QED BY <1>1, <1>2, <1>4, <1>5

\* What a delivered lock request leaves true of the inboxes.
LEMMA DeliveredInbox ==
  ASSUME LockInv, NotifyDelivered
  PROVE  /\ InboxInv'
         /\ phase = "lock" => \A c \in Clients : Kept(c) => Kept(c)'
<1> DEFINE d == regClients[pos].id
           r == [req |-> requestId, mode |-> Target]
<1>1. TypeOK /\ d \in Clients /\ requestId \in Nat
  BY NotifySetsType DEF NotifyDelivered, LockInv, BlockInv, Entry, TypeOK
<1>2. r \in Request /\ r.req = requestId /\ r.mode = Target
  BY <1>1 DEF Request, Target
<1>3. \A c \in Clients : c # d => inbox'[c] = inbox[c]
  BY <1>1 DEF NotifyDelivered, TypeOK
<1>4. inbox'[d] = Append(inbox[d], r)
  BY <1>1 DEF NotifyDelivered, TypeOK
<1>5. UNCHANGED <<requestId, phase, held, libPc>> /\ libPc = "notify"
  BY DEF NotifyDelivered, NotifySets, NotifyGoesOn
<1> HIDE DEF r
<1>6. /\ Len(inbox'[d]) = Len(inbox[d]) + 1
      /\ \A k \in 1 .. Len(inbox[d]) : inbox'[d][k] = inbox[d][k]
      /\ inbox'[d][Len(inbox[d]) + 1] = r
  BY <1>1, <1>2, <1>4, InboxTypes, AppendProperties
<1>7. ASSUME NEW c \in Clients
      PROVE  /\ Len(inbox[c]) \in Nat
             /\ \A k \in 1 .. Len(inbox[c]) :
                  inbox[c][k].req \in Nat /\ inbox[c][k].req <= requestId
  BY <1>1, InboxTypes DEF LockInv, InboxInv
<1>8. ASSUME NEW c \in Clients, c # d
      PROVE  /\ \A k \in 1 .. Len(inbox'[c]) : inbox'[c][k].req <= requestId
             /\ \A j, k \in 1 .. Len(inbox'[c]) :
                  j <= k => inbox'[c][j].req <= inbox'[c][k].req
             /\ Locking' => \A k \in 1 .. Len(inbox'[c]) :
                  inbox'[c][k].req = requestId => inbox'[c][k].mode = LockAndSync
  BY <1>3, <1>5, <1>8 DEF LockInv, InboxInv, Locking
<1>9. /\ \A k \in 1 .. Len(inbox'[d]) : inbox'[d][k].req <= requestId
      /\ \A j, k \in 1 .. Len(inbox'[d]) :
           j <= k => inbox'[d][j].req <= inbox'[d][k].req
      /\ Locking' => \A k \in 1 .. Len(inbox'[d]) :
           inbox'[d][k].req = requestId => inbox'[d][k].mode = LockAndSync
  <2>1. \A k \in 1 .. Len(inbox'[d]) : k \in 1 .. Len(inbox[d]) \/ k = Len(inbox[d]) + 1
    BY <1>1, <1>6, <1>7
  <2>2. ASSUME NEW k \in 1 .. Len(inbox'[d]) PROVE inbox'[d][k].req <= requestId
    <3>1. CASE k \in 1 .. Len(inbox[d])
      <4>1. inbox'[d][k] = inbox[d][k]
        BY <3>1, <1>6
      <4>2. inbox[d][k].req <= requestId
        BY <3>1, <1>1, <1>7
      <4> QED BY <4>1, <4>2
    <3>2. CASE k = Len(inbox[d]) + 1
      <4>1. inbox'[d][k].req = requestId
        BY <3>2, <1>2, <1>6
      <4> QED BY <4>1, <1>1
    <3> QED BY <3>1, <3>2, <2>1
  <2>3. \A j, k \in 1 .. Len(inbox'[d]) :
           j <= k => inbox'[d][j].req <= inbox'[d][k].req
    <3> SUFFICES ASSUME NEW j \in 1 .. Len(inbox'[d]), NEW k \in 1 .. Len(inbox'[d]), j <= k
                 PROVE  inbox'[d][j].req <= inbox'[d][k].req
      OBVIOUS
    <3>1. CASE k = Len(inbox[d]) + 1
      BY <3>1, <2>2, <1>2, <1>6
    <3>2. CASE k \in 1 .. Len(inbox[d])
      <4>1. j \in 1 .. Len(inbox[d])
        BY <3>2, <1>1, <1>6, <1>7
      <4> QED BY <3>2, <4>1, <1>1, <1>6 DEF LockInv, InboxInv
    <3> QED BY <3>1, <3>2, <2>1
  <2>4. Locking' => Locking /\ Target = LockAndSync
    BY <1>5 DEF Locking, Target
  <2> QED BY <2>1, <2>2, <2>3, <2>4, <1>1, <1>2, <1>6 DEF LockInv, InboxInv
<1>10. InboxInv'
  <2>1. requestId' = requestId
    BY <1>5
  <2> QED BY <1>8, <1>9, <2>1 DEF InboxInv
<1>11. ASSUME phase = "lock", NEW c \in Clients, Kept(c) PROVE Kept(c)'
  <2>1. CASE c # d
    BY <2>1, <1>3, <1>5, <1>11 DEF Kept
  <2>2. CASE c = d
    <3>1. \A k \in 1 .. Len(inbox'[d]) : k \in 1 .. Len(inbox[d]) \/ k = Len(inbox[d]) + 1
      BY <1>1, <1>6, <1>7
    <3> QED BY <2>2, <3>1, <1>2, <1>5, <1>6, <1>11 DEF Kept, Target
  <2> QED BY <2>1, <2>2
<1> QED BY <1>10, <1>11

\* The turns of the notification loop keep the invariant.
LEMMA NotifyLockInv ==
  ASSUME LockInv,
         NotifySkip \/ NotifyDelivered \/ NotifyUnavailable \/ NotifyFailed
  PROVE  LockInv'
<1>0. TypeOK /\ BlockInv /\ BlockInv'
  BY LibBlockInv DEF LockInv, BlockInv, LibNext
<1>1. PICK n \in BOOLEAN, k \in BOOLEAN : NotifySets(n, k)
  BY DEF NotifySkip, NotifyDelivered, NotifyUnavailable, NotifyFailed
<1>2. /\ Len(regClients) \in Nat /\ Len(regClients') = Len(regClients)
      /\ \A i \in 1 .. Len(regClients) : regClients'[i].id = regClients[i].id
      /\ \A i \in 1 .. Len(regClients) : i # pos => regClients'[i] = regClients[i]
  BY <1>0, <1>1, NotifySetsList
<1>3. UNCHANGED <<blockClientReg, requestId, phase, regCall, confCall, registered,
                  up, held, outbox>>
      /\ libPc = "notify"
  BY DEF NotifySkip, NotifyDelivered, NotifyUnavailable, NotifyFailed, NotifySets,
     ipcVars, clientVars
<1>4. \/ libPc' = "notify" /\ listMtx' = "lib"
      \/ libPc' = "changed" /\ listMtx' = "free" /\ retVal' = FALSE
  BY <1>3 DEF NotifySkip, NotifyDelivered, NotifyUnavailable, NotifyFailed,
     NotifyGoesOn, LockInv, ListInv
<1>5. ListInv'
  BY <1>2, <1>3, <1>4 DEF LockInv, ListInv, Waiting
<1>6. InboxInv' /\ (phase = "lock" => \A c \in Clients : Kept(c) => Kept(c)')
  <2>1. CASE NotifyDelivered
    BY <2>1, DeliveredInbox
  <2>2. CASE ~ NotifyDelivered
    <3>1. UNCHANGED inbox
      BY <2>2 DEF NotifySkip, NotifyUnavailable, NotifyFailed, clientVars
    <3>2. Locking' => Locking
      BY <1>3 DEF Locking
    <3>3. \A c : Kept(c)' = Kept(c)
      BY <1>3, <3>1 DEF Kept
    <3> QED BY <1>3, <3>1, <3>2, <3>3 DEF LockInv, InboxInv
  <2> QED BY <2>1, <2>2
<1>7. ConfirmationInv'
  <2>1. Locking' => Locking /\ phase = "lock"
    BY <1>3 DEF Locking
  <2>2. \A m \in outbox \cup confCall : m.id \in Clients
    BY <1>0 DEF TypeOK, Confirmation
  <2> QED BY <1>3, <1>6, <2>1, <2>2 DEF LockInv, ConfirmationInv, WantsLock
<1>8. EntryInv'
  <2>1. ~ Visited'
    BY <1>4 DEF Visited, Waiting
  <2> SUFFICES ASSUME phase = "lock", libPc' = "notify",
                      NEW i \in 1 .. Len(regClients), i < pos'
               PROVE  EntryOK(regClients[i])'
    BY <1>2, <1>3, <2>1 DEF EntryInv
  <2>2. regClients[i].id \in Clients
    BY <1>0, EntryTypes
  <2>3. pos' = pos + 1 /\ ~ NotifyFailed /\ pos \in Nat
    BY <1>0 DEF NotifySkip, NotifyDelivered, NotifyUnavailable, NotifyFailed,
       NotifyGoesOn, TypeOK
  <2>4. CASE i # pos
    <3>1. EntryOK(regClients[i]) /\ regClients'[i] = regClients[i]
      BY <1>2, <1>3, <2>3, <2>4 DEF LockInv, EntryInv
    <3> QED BY <1>3, <1>6, <2>2, <3>1 DEF EntryOK, WantsLock
  <2>5. CASE i = pos
    <3>1. CASE NotifySkip
      <4>1. regClients'[i].notified = FALSE
        BY <1>0, <2>5, <3>1, NotifySetsList DEF NotifySkip
      <4> QED BY <4>1 DEF EntryOK
    <3>2. CASE NotifyDelivered
      <4>1. regClients'[i].notified = TRUE /\ regClients'[i].confirmed = FALSE
        BY <1>0, <2>5, <3>2, NotifySetsList DEF NotifyDelivered
      <4> QED BY <4>1 DEF EntryOK
    <3>3. CASE NotifyUnavailable
      <4>1. regClients'[i].notified = TRUE
        BY <1>0, <2>5, <3>3, NotifySetsList DEF NotifyUnavailable
      <4>2. ~ up'[regClients'[i].id]
        BY <1>2, <1>3, <2>5, <3>3 DEF NotifyUnavailable
      <4> QED BY <4>1, <4>2 DEF EntryOK
    <3> QED BY <2>3, <3>1, <3>2, <3>3
  <2> QED BY <2>4, <2>5
<1>9. WaitInv'
  BY <1>4 DEF WaitInv, Waiting
<1> QED BY <1>0, <1>5, <1>6, <1>7, <1>8, <1>9 DEF LockInv

\* An accepted confirmation marks one entry, of the sender.
LEMMA AcceptedList ==
  ASSUME TypeOK, NEW m, ConfirmAccepted(m)
  PROVE  /\ Len(regClients) \in Nat /\ Len(regClients') = Len(regClients)
         /\ \A i \in 1 .. Len(regClients) :
              /\ regClients'[i].id = regClients[i].id
              /\ regClients'[i].notified = regClients[i].notified
              /\ \/ regClients'[i] = regClients[i]
                 \/ regClients[i].id = m.id /\ regClients'[i].confirmed = TRUE
<1> DEFINE k == FindClient(m.id)
           e == [regClients[k] EXCEPT !.confirmed = TRUE]
<1>1. k \in 1 .. Len(regClients) /\ regClients[k].id = m.id
  BY FindClientFinds DEF ConfirmAccepted, TypeOK
<1>2. regClients' = [regClients EXCEPT ![k] = e]
  BY DEF ConfirmAccepted
<1> HIDE DEF k
<1>3. regClients[k] \in Entry
  BY <1>1, EntryTypes
<1>4. e \in Entry /\ e.id = m.id /\ e.notified = regClients[k].notified /\ e.confirmed = TRUE
  BY <1>1, <1>3 DEF Entry
<1> HIDE DEF e
<1>5. Len(regClients) \in Nat
  BY LenProperties DEF TypeOK
<1>6. /\ Len(regClients') = Len(regClients)
      /\ \A j \in 1 .. Len(regClients) : regClients'[j] = IF j = k THEN e ELSE regClients[j]
  BY <1>1, <1>2, <1>4, ExceptSeq DEF TypeOK
<1> QED BY <1>1, <1>4, <1>5, <1>6

\* Whoever was visited was visited by the lock request still being made.
LEMMA VisitedLocking == LockInv /\ Visited => Locking
BY DEF LockInv, BlockInv, ListInv, Visited, Locking, Waiting

\* While a lock is requested nobody refuses it.
LEMMA NoRefusal ==
  ASSUME LockInv, Locking, NEW m \in confCall PROVE ~ Refusal(m)
<1>1. m.req = requestId /\ m.status # "error"
  BY DEF LockInv, ConfirmationInv
<1>2. WantsLock(m.id) => m.status = "locked"
  BY <1>1 DEF LockInv, ConfirmationInv
<1> QED BY <1>1, <1>2 DEF Refusal, MustLock, WantsLock

LEMMA ConfirmLockInv ==
  ASSUME LockInv, BlockInv', NEW m \in confCall,
         \/ ConfirmUnknown(m) \/ ConfirmUnexpected(m)
         \/ ConfirmRefused(m) \/ ConfirmAccepted(m)
  PROVE  LockInv'
<1>0. TypeOK /\ BlockInv
  BY DEF LockInv, BlockInv
<1>1. /\ ConfirmLocks(m) /\ confCall' = {} /\ listMtx = "free" /\ libPc # "notify"
      /\ UNCHANGED <<listMtx, blockClientReg, requestId, phase, pos, retVal, regCall,
                     registered, up, held, inbox, outbox>>
  BY DEF ConfirmUnknown, ConfirmUnexpected, ConfirmRefused, ConfirmAccepted,
     ConfirmLocks, LockInv, ListInv, clientVars
<1>2. libPc' \in {libPc, "crashed"}
  BY <1>1 DEF ConfirmUnknown, ConfirmUnexpected, ConfirmRefused, ConfirmAccepted
<1>3. \A x : Kept(x)' = Kept(x)
  BY <1>1 DEF Kept
<1>4. (Locking' => Locking) /\ (Visited' => Visited)
  BY <1>1, <1>2 DEF Locking, Visited, Waiting
<1>5. InboxInv' /\ ConfirmationInv'
  BY <1>1, <1>3, <1>4 DEF LockInv, InboxInv, ConfirmationInv, WantsLock
<1>6. CASE ConfirmAccepted(m)
  <2>1. ListInv'
    BY <1>0, <1>1, <1>2, <1>6, AcceptedList DEF LockInv, ListInv, Waiting, ConfirmAccepted
  <2>2. EntryInv'
    <3> SUFFICES ASSUME Visited, NEW i \in 1 .. Len(regClients), WantsLock(regClients[i].id),
                        regClients[i].notified, regClients'[i].confirmed, up[regClients[i].id]
                 PROVE  Kept(regClients[i].id)
      BY <1>0, <1>1, <1>2, <1>3, <1>4, <1>6, AcceptedList DEF EntryInv, EntryOK, WantsLock
    <3>1. EntryOK(regClients[i])
      BY DEF LockInv, EntryInv
    <3>2. CASE regClients'[i] = regClients[i]
      BY <3>1, <3>2 DEF EntryOK
    <3>3. CASE regClients[i].id = m.id
      <4>1. Locking /\ m.req = requestId
        BY VisitedLocking DEF LockInv, ConfirmationInv
      <4>2. up[m.id] => Kept(m.id)
        BY <3>3, <4>1 DEF LockInv, ConfirmationInv
      <4> QED BY <3>3, <4>2
    <3> QED BY <1>0, <1>6, <3>2, <3>3, AcceptedList
  <2>3. WaitInv'
    BY <1>0, <1>1, <1>2, <1>6, AcceptedList DEF LockInv, WaitInv, Pending, ConfirmAccepted, Waiting
  <2> QED BY <1>5, <2>1, <2>2, <2>3 DEF LockInv
<1>7. CASE ~ ConfirmAccepted(m)
  <2>1. UNCHANGED regClients
    BY <1>7 DEF ConfirmUnknown, ConfirmUnexpected, ConfirmRefused
  <2>2. ListInv' /\ EntryInv'
    BY <1>1, <1>2, <1>3, <1>4, <2>1 DEF LockInv, ListInv, EntryInv, EntryOK, WantsLock, Waiting
  <2>3. libPc' \in Waiting \ {"wait_begin"} => waitForNotifConf' \/ ~ retVal
    <3>1. CASE ConfirmRefused(m)
      <4>1. libPc \in Waiting => Locking
        BY DEF LockInv, ListInv, Locking
      <4> QED BY <1>2, <3>1, <4>1, NoRefusal DEF ConfirmRefused, Waiting
    <3>2. CASE ~ ConfirmRefused(m)
      BY <1>2, <1>7, <3>2 DEF LockInv, WaitInv, ConfirmUnknown, ConfirmUnexpected, Waiting
    <3> QED BY <3>1, <3>2
  <2>4. WaitInv'
    BY <1>1, <1>2, <2>1, <2>3 DEF LockInv, WaitInv
  <2> QED BY <1>5, <2>2, <2>4 DEF LockInv
<1> QED BY <1>6, <1>7

\* What the IPC thread does keeps it: who registers during a request was not
\* notified, and a confirmation that counts is of the current one.
LEMMA IpcLockInv ==
  ASSUME WellBehaved, LockInv, IpcNext PROVE LockInv'
<1>0. TypeOK /\ BlockInv /\ BlockInv'
  BY NextBlockInv DEF LockInv, BlockInv, Next
<1>a. Len(regClients) \in Nat
  BY <1>0, LenProperties DEF TypeOK
<1>1. ASSUME NEW c \in Clients, RegisterTest(c) PROVE LockInv'
  <2>1. UNCHANGED <<pasVars, libVars, confCall, clientVars>> /\ ~ blockClientReg
    BY <1>1 DEF RegisterTest
  <2>2. ListInv'
    BY <2>1 DEF LockInv, ListInv, pasVars, libVars, clientVars
  <2>3. \A x : Kept(x)' = Kept(x) /\ EntryOK(x)' = EntryOK(x)
    BY <2>1 DEF EntryOK, Kept, WantsLock, clientVars
  <2>4. Locking' = Locking /\ Visited' = Visited
    BY <2>1 DEF Locking, Visited, libVars
  <2>5. InboxInv' /\ ConfirmationInv'
    BY <2>1, <2>3, <2>4 DEF LockInv, InboxInv, ConfirmationInv, WantsLock, pasVars, clientVars
  <2>6. EntryInv' /\ WaitInv'
    BY <2>1, <2>3, <2>4 DEF LockInv, EntryInv, WaitInv, pasVars, libVars
  <2> QED BY <1>0, <2>2, <2>5, <2>6 DEF LockInv
<1>2. ASSUME NEW c \in Clients, Unregister(c) PROVE LockInv'
  BY <1>2 DEF Unregister, WellBehaved
<1>3. ASSUME NEW c \in Clients, RegisterInsert(c) PROVE LockInv'
  <2> DEFINE e == [id |-> c, notified |-> FALSE, confirmed |-> FALSE]
  <2>1. libPc # "notify"
    BY <1>3 DEF RegisterInsert, LockInv, ListInv
  <2>2. UNCHANGED <<libVars, blockClientReg, listMtx, waitForNotifConf, requestId>>
        /\ UNCHANGED <<confCall, up, held, inbox, outbox>>
    BY <1>3 DEF RegisterInsert
  <2>3. /\ Len(regClients') = Len(regClients) + 1
        /\ \A i \in 1 .. Len(regClients) : regClients'[i] = regClients[i]
        /\ regClients'[Len(regClients) + 1] = e
    <3>1. e \in Entry /\ regClients \in Seq(Entry) /\ regClients' = Append(regClients, e)
      BY <1>0, <1>3 DEF RegisterInsert, Entry, TypeOK
    <3> QED BY <3>1, AppendProperties
  <2>4. e.id = c /\ e.notified = FALSE /\ e.confirmed = FALSE
    OBVIOUS
  <2> HIDE DEF e
  <2>5. \A i \in 1 .. Len(regClients') :
          i \in 1 .. Len(regClients) \/ i = Len(regClients) + 1
    BY <1>a, <2>3
  <2>6. ListInv'
    <3>1. ASSUME NEW x \in Clients, registered'[x]
          PROVE  \E i \in 1 .. Len(regClients') : regClients'[i].id = x
      <4>1. CASE x = c
        BY <1>a, <2>3, <2>4, <4>1
      <4>2. CASE x # c
        <5>1. registered[x]
          BY <1>0, <1>3, <3>1, <4>2 DEF RegisterInsert, TypeOK
        <5>2. PICK i \in 1 .. Len(regClients) : regClients[i].id = x
          BY <5>1 DEF LockInv, ListInv
        <5> QED BY <1>a, <2>3, <5>2
      <4> QED BY <4>1, <4>2
    <3> QED BY <2>2, <3>1 DEF LockInv, ListInv, Waiting, libVars
  <2>7. Locking' = Locking /\ Visited' = Visited
    BY <2>2 DEF Locking, Visited, libVars
  <2>8. \A x : Kept(x)' = Kept(x) /\ EntryOK(x)' = EntryOK(x)
    BY <2>2 DEF EntryOK, Kept, WantsLock
  <2>9. InboxInv' /\ ConfirmationInv'
    BY <2>2, <2>7, <2>8 DEF LockInv, InboxInv, ConfirmationInv, WantsLock
  <2>10. EntryInv'
    <3>1. EntryOK(e)
      BY <2>4 DEF EntryOK
    <3>2. Visited => \A i \in 1 .. Len(regClients') : EntryOK(regClients'[i])
      BY <2>3, <2>5, <3>1 DEF LockInv, EntryInv
    <3> QED BY <2>1, <2>2, <2>7, <2>8, <3>2 DEF EntryInv, libVars
  <2>11. WaitInv'
    <3>1. ~ Pending(e)
      BY <2>4 DEF Pending
    <3>2. libPc = "op" \/ (libPc = "changed" /\ phase = "lock" /\ retVal) =>
            \A i \in 1 .. Len(regClients') : ~ Pending(regClients'[i])
      BY <2>3, <2>5, <3>1 DEF LockInv, WaitInv
    <3> QED BY <2>2, <3>2 DEF LockInv, WaitInv, Pending, libVars
  <2> QED BY <1>0, <2>6, <2>9, <2>10, <2>11 DEF LockInv
<1>5. ASSUME NEW m \in outbox, ConfirmTest(m) PROVE LockInv'
  <2>1. /\ UNCHANGED <<pasVars, libVars, regCall, registered, up, held, inbox>>
        /\ outbox' \subseteq outbox
        /\ \A x \in confCall' : x = m /\ m.req = requestId
    BY <1>5 DEF ConfirmTest
  <2>2. ListInv'
    BY <2>1 DEF LockInv, ListInv, pasVars, libVars
  <2>3. \A x : Kept(x)' = Kept(x) /\ EntryOK(x)' = EntryOK(x)
    BY <2>1 DEF EntryOK, Kept, WantsLock
  <2>4. Locking' = Locking /\ Visited' = Visited
    BY <2>1 DEF Locking, Visited, libVars
  <2>5. InboxInv'
    BY <2>1, <2>4 DEF LockInv, InboxInv, pasVars
  <2>6. ConfirmationInv'
    BY <2>1, <2>3, <2>4 DEF LockInv, ConfirmationInv, WantsLock, pasVars
  <2>7. EntryInv' /\ WaitInv'
    BY <2>1, <2>3, <2>4 DEF LockInv, EntryInv, WaitInv, pasVars, libVars
  <2> QED BY <1>0, <2>2, <2>5, <2>6, <2>7 DEF LockInv
<1> QED
  BY <1>0, <1>1, <1>2, <1>3, <1>5, ConfirmLockInv
     DEF IpcNext, IpcInsert, IpcConfirm, IpcDispatch

\* What a client leaves in its inbox when it answers the first request.
LEMMA AnswerInbox ==
  ASSUME TypeOK, NEW c \in Clients, NEW l \in BOOLEAN, NEW st, ClientAnswers(c, l, st)
  PROVE  /\ Len(inbox[c]) \in Nat \ {0} /\ Head(inbox[c]) = inbox[c][1]
         /\ Len(inbox'[c]) = Len(inbox[c]) - 1
         /\ \A k \in 1 .. Len(inbox'[c]) : /\ k + 1 \in 1 .. Len(inbox[c])
                                         /\ inbox'[c][k] = inbox[c][k + 1]
         /\ \A x \in Clients : x # c => inbox'[x] = inbox[x] /\ held'[x] = held[x]
         /\ held'[c] = l
<1>2. inbox[c] \in Seq(Request) /\ inbox[c] # <<>> /\ Len(inbox[c]) \in Nat
  BY InboxTypes DEF ClientAnswers
<1>3. inbox' = [inbox EXCEPT ![c] = Tail(inbox[c])] /\ held' = [held EXCEPT ![c] = l]
  BY DEF ClientAnswers
<1>4. inbox'[c] = Tail(inbox[c]) /\ held'[c] = l
  BY <1>3 DEF TypeOK
<1>5. \A x \in Clients : x # c => inbox'[x] = inbox[x] /\ held'[x] = held[x]
  BY <1>3 DEF TypeOK
<1>6. /\ Len(Tail(inbox[c])) = Len(inbox[c]) - 1
      /\ \A i \in 1 .. Len(Tail(inbox[c])) : Tail(inbox[c])[i] = inbox[c][i + 1]
  BY <1>2, HeadTailProperties
<1>7. Len(inbox[c]) \in Nat \ {0} /\ Head(inbox[c]) = inbox[c][1]
  BY <1>2, EmptySeq
<1> QED BY <1>4, <1>5, <1>6, <1>7

\* An answer keeps the invariant if the client stays locked when it should and
\* says so only when it is.
LEMMA AnswerLockInv ==
  ASSUME LockInv, BlockInv', NEW c \in Clients, NEW l \in BOOLEAN, NEW st,
         ClientAnswers(c, l, st), st # "error",
         WantsLock(c) /\ Kept(c) => Kept(c)',
         Locking /\ WantsLock(c) /\ Head(inbox[c]).req = requestId
           => st = "locked" /\ Kept(c)'
  PROVE  LockInv'
<1>0. TypeOK /\ BlockInv
  BY DEF LockInv, BlockInv
<1> DEFINE m0 == [id |-> c, req |-> Head(inbox[c]).req, status |-> st]
<1>1. UNCHANGED <<pasVars, libVars, ipcVars, registered, up>> /\ outbox' = outbox \cup {m0}
  BY DEF ClientAnswers
<1>2. ListInv'
  BY <1>1 DEF LockInv, ListInv, pasVars, libVars, ipcVars
<1>3. Locking' = Locking /\ Visited' = Visited /\ requestId' = requestId
  BY <1>1 DEF Locking, Visited, libVars, pasVars
<1>4. \A x \in Clients : WantsLock(x) /\ Kept(x) => Kept(x)'
  BY <1>0, AnswerInbox DEF Kept
<1>5. InboxInv'
  <2> SUFFICES ASSUME NEW x \in Clients
               PROVE  /\ \A k \in 1 .. Len(inbox'[x]) : inbox'[x][k].req <= requestId
                      /\ \A j, k \in 1 .. Len(inbox'[x]) :
                           j <= k => inbox'[x][j].req <= inbox'[x][k].req
                      /\ Locking => \A k \in 1 .. Len(inbox'[x]) :
                           inbox'[x][k].req = requestId => inbox'[x][k].mode = LockAndSync
    BY <1>3 DEF InboxInv
  <2>1. CASE x # c
    BY <1>0, <2>1, AnswerInbox DEF LockInv, InboxInv
  <2>2. CASE x = c
    <3>1. \A k \in 1 .. Len(inbox'[c]) : inbox'[c][k].req <= requestId
      BY <1>0, AnswerInbox DEF LockInv, InboxInv
    <3>2. ASSUME NEW j \in 1 .. Len(inbox'[c]), NEW k \in 1 .. Len(inbox'[c]), j <= k
          PROVE  inbox'[c][j].req <= inbox'[c][k].req
      <4>1. /\ j + 1 \in 1 .. Len(inbox[c]) /\ k + 1 \in 1 .. Len(inbox[c])
            /\ inbox'[c][j] = inbox[c][j + 1] /\ inbox'[c][k] = inbox[c][k + 1]
        BY <1>0, AnswerInbox
      <4>2. j + 1 <= k + 1
        BY <1>0, <3>2, AnswerInbox
      <4> QED BY <4>1, <4>2 DEF LockInv, InboxInv
    <3>3. Locking => \A k \in 1 .. Len(inbox'[c]) :
            inbox'[c][k].req = requestId => inbox'[c][k].mode = LockAndSync
      BY <1>0, AnswerInbox DEF LockInv, InboxInv
    <3> QED BY <2>2, <3>1, <3>2, <3>3
  <2> QED BY <2>1, <2>2
<1>6. ConfirmationInv'
  <2>1. 1 \in 1 .. Len(inbox[c]) /\ Head(inbox[c]) = inbox[c][1]
    BY <1>0, AnswerInbox
  <2>2. m0.req <= requestId /\ m0.status # "error"
    BY <2>1 DEF LockInv, InboxInv
  <2>3. Locking /\ m0.req = requestId /\ WantsLock(m0.id) => m0.status = "locked" /\ Kept(c)'
    OBVIOUS
  <2>4. \A m \in outbox \cup confCall : m.id \in Clients
    BY <1>0 DEF TypeOK, Confirmation
  <2>5. ASSUME NEW m \in (outbox \cup confCall)',
               Locking, m.req = requestId, WantsLock(m.id)
        PROVE  m.status = "locked" /\ (up[m.id] => Kept(m.id)')
    <3>1. CASE m = m0
      BY <2>3, <2>5, <3>1
    <3>2. CASE m \in outbox \cup confCall
      BY <1>4, <2>4, <2>5, <3>2 DEF LockInv, ConfirmationInv
    <3> QED BY <1>1, <3>1, <3>2 DEF ipcVars
  <2>6. UNCHANGED <<confCall, up>>
    BY <1>1 DEF ipcVars
  <2>7. \A m \in outbox' : m.req <= requestId
    BY <1>1, <2>2 DEF LockInv, ConfirmationInv
  <2>8. \A m \in (outbox \cup confCall)' : m.status # "error"
    BY <1>1, <2>2, <2>6 DEF LockInv, ConfirmationInv
  <2>9. \A m \in confCall' : m.req = requestId
    BY <2>6 DEF LockInv, ConfirmationInv
  <2>10. \A m \in (outbox \cup confCall)' :
           m.id \in Clients /\ WantsLock(m.id)' = WantsLock(m.id)
    BY <1>1, <2>4, <2>6 DEF WantsLock
  <2> QED BY <1>3, <2>5, <2>6, <2>7, <2>8, <2>9, <2>10 DEF ConfirmationInv, WantsLock
<1>7. EntryInv'
  <2>1. UNCHANGED <<regClients, phase, libPc, pos, up>>
    BY <1>1 DEF pasVars, libVars
  <2>2. \A i \in 1 .. Len(regClients) : EntryOK(regClients[i]) => EntryOK(regClients[i])'
    BY <1>0, <1>4, <2>1, EntryTypes DEF EntryOK, WantsLock
  <2> QED BY <1>3, <2>1, <2>2 DEF LockInv, EntryInv
<1>8. WaitInv'
  BY <1>1 DEF LockInv, WaitInv, pasVars, libVars
<1> QED BY <1>2, <1>5, <1>6, <1>7, <1>8 DEF LockInv

LEMMA ClientLockInv ==
  ASSUME WellBehaved, LockInv, ClientNext PROVE LockInv'
<1>0. TypeOK /\ BlockInv /\ BlockInv'
  BY NextBlockInv DEF LockInv, BlockInv, Next
<1>1. ASSUME NEW c \in Clients, ClientLocks(c) PROVE LockInv'
  <2> DEFINE st == IF WantsLock(c) THEN "locked" ELSE "ok"
  <2>1. /\ WantsLock(c) \in BOOLEAN /\ ClientAnswers(c, WantsLock(c), st) /\ st # "error"
        /\ Head(inbox[c]).mode = LockAndSync
    BY <1>1 DEF ClientLocks, WantsLock
  <2>a. WantsLock(c) => st = "locked"
    OBVIOUS
  <2> HIDE DEF st
  <2>b. /\ Len(inbox[c]) \in Nat \ {0} /\ Head(inbox[c]) = inbox[c][1]
        /\ \A k \in 1 .. Len(inbox'[c]) : /\ k + 1 \in 1 .. Len(inbox[c])
                                        /\ inbox'[c][k] = inbox[c][k + 1]
        /\ held'[c] = WantsLock(c)
    BY <1>0, <2>1, AnswerInbox
  <2>2. WantsLock(c) /\ Kept(c) => Kept(c)'
    BY <2>b DEF Kept
  <2>3. ASSUME Locking, WantsLock(c), Head(inbox[c]).req = requestId
        PROVE  st = "locked" /\ Kept(c)'
    <3>1. held'[c]
      BY <2>3, <2>b
    <3>2. ASSUME NEW k \in 1 .. Len(inbox'[c]) PROVE inbox'[c][k].mode = LockAndSync
      <4>1. /\ 1 \in 1 .. Len(inbox[c]) /\ k + 1 \in 1 .. Len(inbox[c]) /\ 1 <= k + 1
            /\ inbox[c][1].req = requestId
            /\ inbox'[c][k] = inbox[c][k + 1]
        BY <2>3, <2>b
      <4>2. inbox[c][1].req <= inbox[c][k + 1].req /\ inbox[c][k + 1].req <= requestId
        BY <4>1 DEF LockInv, InboxInv
      <4>3. inbox[c][k + 1].req \in Nat /\ requestId \in Nat
        BY <1>0, <4>1, InboxTypes DEF TypeOK
      <4>4. inbox[c][k + 1].req = requestId
        BY <4>1, <4>2, <4>3
      <4> QED BY <2>3, <4>1, <4>4 DEF LockInv, InboxInv
    <3> QED BY <2>3, <2>a, <3>1, <3>2 DEF Kept
  <2> QED BY <1>0, <2>1, <2>2, <2>3, AnswerLockInv
<1>2. ASSUME NEW c \in Clients, ClientUnlocks(c) PROVE LockInv'
  <2>1. ClientAnswers(c, FALSE, "ok") /\ Head(inbox[c]).mode = Unlock /\ Unlock # LockAndSync
    BY <1>2 DEF ClientUnlocks, Unlock, LockAndSync
  <2>a. Len(inbox[c]) \in Nat \ {0} /\ Head(inbox[c]) = inbox[c][1]
    BY <1>0, <2>1, AnswerInbox
  <2>2. 1 \in 1 .. Len(inbox[c]) /\ inbox[c][1].mode # LockAndSync
        /\ Head(inbox[c]) = inbox[c][1]
    BY <2>1, <2>a
  <2>3. ~ Kept(c)
    BY <2>2 DEF Kept
  <2>4. ~ (Locking /\ Head(inbox[c]).req = requestId)
    BY <2>2 DEF LockInv, InboxInv
  <2> QED BY <1>0, <2>1, <2>3, <2>4, AnswerLockInv
<1>3. ASSUME NEW c \in Clients, ClientFails(c) PROVE LockInv'
  BY <1>3 DEF ClientFails, WellBehaved
<1>4. ASSUME NEW c \in Clients, ClientCrash(c) PROVE LockInv'
  <2>1. /\ UNCHANGED <<pasVars, libVars, ipcVars, outbox>>
        /\ up'[c] = FALSE /\ registered'[c] = FALSE /\ inbox'[c] = <<>>
        /\ \A x \in Clients : x # c =>
             /\ up'[x] = up[x] /\ registered'[x] = registered[x]
             /\ inbox'[x] = inbox[x] /\ held'[x] = held[x]
    BY <1>0, <1>4 DEF ClientCrash, TypeOK
  <2>2. Locking' = Locking /\ Visited' = Visited
    BY <2>1 DEF Locking, Visited, libVars
  <2>3. \A x \in Clients : x # c => Kept(x)' = Kept(x)
    BY <2>1 DEF Kept
  <2>4. ListInv'
    BY <2>1 DEF LockInv, ListInv, pasVars, libVars, ipcVars
  <2>5. InboxInv'
    <3>1. Len(inbox'[c]) = 0
      BY <2>1, EmptySeq
    <3> QED BY <2>1, <2>2, <3>1 DEF LockInv, InboxInv, pasVars
  <2>6. ConfirmationInv'
    <3>1. \A m \in outbox \cup confCall : m.id \in Clients
      BY <1>0 DEF TypeOK, Confirmation
    <3> QED BY <2>1, <2>2, <2>3, <3>1
            DEF LockInv, ConfirmationInv, WantsLock, pasVars, ipcVars
  <2>7. EntryInv'
    <3>1. UNCHANGED <<regClients, phase, libPc, pos>>
      BY <2>1 DEF pasVars, libVars
    <3>2. \A i \in 1 .. Len(regClients) : EntryOK(regClients[i]) => EntryOK(regClients[i])'
      BY <1>0, <2>1, <2>3, <3>1, EntryTypes DEF EntryOK, WantsLock
    <3> QED BY <2>2, <3>1, <3>2 DEF LockInv, EntryInv
  <2>8. WaitInv'
    BY <2>1 DEF LockInv, WaitInv, pasVars, libVars
  <2> QED BY <1>0, <2>4, <2>5, <2>6, <2>7, <2>8 DEF LockInv
<1> QED BY <1>1, <1>2, <1>3, <1>4 DEF ClientNext, ClientHandles

LEMMA NextLockInv ==
  ASSUME WellBehaved, LockInv, [Next /\ PromptConfirmation]_vars PROVE LockInv'
<1>0. BlockInv'
  BY NextBlockInv DEF LockInv
<1>p. PromptConfirmation
  BY DEF PromptConfirmation, vars, pasVars
<1>1. CASE QuietLib
  BY <1>0, <1>p, <1>1, QuietListInv, QuietMessages, QuietEntries DEF LockInv
<1>2. CASE NotifySkip \/ NotifyDelivered \/ NotifyUnavailable \/ NotifyFailed
  BY <1>2, NotifyLockInv
<1>3. CASE IpcNext \/ ClientNext
  BY <1>3, IpcLockInv, ClientLockInv
<1>4. CASE Terminating \/ UNCHANGED vars
  <2>1. UNCHANGED <<pasVars, libVars, ipcVars, clientVars>>
    BY <1>4 DEF Terminating, vars
  <2>2. /\ UNCHANGED <<regClients, listMtx, blockClientReg, waitForNotifConf, requestId>>
        /\ UNCHANGED <<libPc, phase, pos, retVal, regCall, confCall>>
        /\ UNCHANGED <<registered, up, held, inbox, outbox>>
    BY <2>1 DEF pasVars, libVars, ipcVars, clientVars
  <2>3. Locking' = Locking /\ Visited' = Visited
    BY <2>2 DEF Locking, Visited
  <2>4. \A x : Kept(x)' = Kept(x) /\ EntryOK(x)' = EntryOK(x)
    BY <2>2 DEF EntryOK, Kept, WantsLock
  <2>5. ListInv' /\ InboxInv' /\ ConfirmationInv'
    BY <2>2, <2>3, <2>4 DEF LockInv, ListInv, InboxInv, ConfirmationInv, WantsLock
  <2>6. EntryInv' /\ WaitInv'
    BY <2>2, <2>3, <2>4 DEF LockInv, EntryInv, WaitInv
  <2> QED BY <1>0, <2>5, <2>6 DEF LockInv
<1> QED BY <1>1, <1>2, <1>3, <1>4 DEF Next, LibNext, QuietLib

LEMMA LockInvariance == ASSUME WellBehaved PROVE PromptSpec => []LockInv
<1>1. LockInv /\ [Next /\ PromptConfirmation]_vars => LockInv'
  BY NextLockInv
<1> QED BY <1>1, InitLockInv, PTL DEF PromptSpec

\* While the administrative operation runs, every living registered client that
\* asked to be locked is locked, or registered too late to be asked, for any
\* number of clients and requests.
THEOREM Exclusion == ASSUME WellBehaved PROVE PromptSpec => []ExclusiveAccess
<1>1. LockInv => ExclusiveAccess
  <2> SUFFICES ASSUME LockInv, libPc = "op", NEW c \in Clients, Locker(c),
                      ~ \E i \in Unasked : regClients[i].id = c
               PROVE  held[c]
    BY DEF ExclusiveAccess
  <2>1. PICK i \in 1 .. Len(regClients) : regClients[i].id = c
    BY DEF LockInv, ListInv, Locker
  <2>2. EntryOK(regClients[i]) /\ ~ Pending(regClients[i])
    BY DEF LockInv, EntryInv, WaitInv, Visited
  <2>3. i \in DOMAIN regClients
    BY <2>1, LenProperties DEF LockInv, BlockInv, TypeOK
  <2>4. regClients[i].notified
    BY <2>1, <2>3 DEF Unasked, Locker, LockAndSync
  <2> QED BY <2>1, <2>2, <2>4 DEF EntryOK, Pending, Kept, Locker, WantsLock
<1> QED BY <1>1, LockInvariance, PTL

\* A lock is granted only when everyone notified has confirmed.
THEOREM GrantSound == ASSUME WellBehaved PROVE PromptSpec => []GrantedIsConfirmed
<1>1. LockInv => GrantedIsConfirmed
  <2> SUFFICES ASSUME LockInv, libPc = "op", NEW i \in DOMAIN regClients
               PROVE  regClients[i].notified => regClients[i].confirmed
    BY DEF GrantedIsConfirmed
  <2>1. i \in 1 .. Len(regClients)
    BY LenProperties DEF LockInv, BlockInv, TypeOK
  <2> QED BY <2>1 DEF LockInv, WaitInv, Pending
<1> QED BY <1>1, LockInvariance, PTL
-----------------------------------------------------------------------------
(* No read through a NIL pointer: whoever sends or is sent a message is in *)
(* the list, and the flag is up wherever the waiting loop scans it.        *)

Listed(c) == \E i \in 1 .. Len(regClients) : regClients[i].id = c

NilInv ==
  /\ libPc # "crashed"
  /\ libPc = "wait_scan" => waitForNotifConf
  /\ \A c \in Clients : inbox[c] # <<>> => Listed(c)
  /\ \A m \in outbox \cup confCall : Listed(m.id)

\* Nobody is taken out of the list.
LEMMA ListGrows ==
  ASSUME TypeOK, "unregister" \notin Faults, [Next]_vars, NEW c, Listed(c) PROVE Listed(c)'
<1>0. TypeOK /\ Len(regClients) \in Nat
  BY LenProperties DEF TypeOK
<1>1. CASE UNCHANGED regClients
  BY <1>1 DEF Listed
<1>2. CASE NotifySkip \/ NotifyDelivered \/ NotifyUnavailable \/ NotifyFailed
  <2>1. PICK n \in BOOLEAN, k \in BOOLEAN : NotifySets(n, k)
    BY <1>2 DEF NotifySkip, NotifyDelivered, NotifyUnavailable, NotifyFailed
  <2> QED BY <1>0, <2>1, NotifySetsList DEF Listed
<1>3. CASE IpcConfirm
  <2>1. PICK m \in confCall : \/ ConfirmUnknown(m) \/ ConfirmUnexpected(m)
                            \/ ConfirmRefused(m) \/ ConfirmAccepted(m)
    BY <1>3 DEF IpcConfirm
  <2>2. CASE ConfirmAccepted(m)
    BY <1>0, <2>2, AcceptedList DEF Listed
  <2>3. CASE ~ ConfirmAccepted(m)
    BY <1>1, <2>1, <2>3 DEF ConfirmUnknown, ConfirmUnexpected, ConfirmRefused
  <2> QED BY <2>2, <2>3
<1>4. CASE IpcInsert
  <2>1. PICK x \in Clients : RegisterInsert(x)
    BY <1>4 DEF IpcInsert
  <2> DEFINE e == [id |-> x, notified |-> FALSE, confirmed |-> FALSE]
  <2>2. e \in Entry /\ regClients \in Seq(Entry) /\ regClients' = Append(regClients, e)
    BY <1>0, <2>1 DEF RegisterInsert, Entry, TypeOK
  <2>3. /\ Len(regClients') = Len(regClients) + 1
        /\ \A i \in 1 .. Len(regClients) : regClients'[i] = regClients[i]
    BY <2>2, AppendProperties
  <2> QED BY <1>0, <2>3 DEF Listed
<1>5. \/ UNCHANGED regClients \/ IpcConfirm \/ IpcInsert
      \/ NotifySkip \/ NotifyDelivered \/ NotifyUnavailable \/ NotifyFailed
  <2>1. CASE LibNext
    BY <2>1, QuietFrame DEF LibNext, QuietLib
  <2>2. CASE IpcNext
    BY <2>2 DEF IpcNext, RegisterTest, Unregister, IpcDispatch, ConfirmTest, pasVars
  <2>3. CASE ClientNext \/ Terminating \/ UNCHANGED vars
    BY <2>3 DEF ClientNext, ClientHandles, ClientLocks, ClientUnlocks, ClientFails,
       ClientAnswers, ClientCrash, Terminating, vars, pasVars
  <2> QED BY <2>1, <2>2, <2>3 DEF Next
<1> QED BY <1>1, <1>2, <1>3, <1>4, <1>5

\* A message travels from a listed client, or to one.
LEMMA SendersListed ==
  ASSUME WellBehaved, LockInv, NilInv, [Next]_vars
  PROVE  /\ \A c \in Clients : inbox'[c] # <<>> => Listed(c)
         /\ \A m \in outbox' \cup confCall' : Listed(m.id)
<1>0. TypeOK
  BY DEF LockInv, BlockInv
<1>1. CASE UNCHANGED <<inbox, outbox, confCall>>
  BY <1>1 DEF NilInv
<1>2. CASE NotifyDelivered
  <2>1. pos \in 1 .. Len(regClients)
    BY <1>0, <1>2, NotifySetsType DEF NotifyDelivered
  <2>2. Listed(regClients[pos].id)
    BY <2>1 DEF Listed
  <2>3. /\ \A c \in Clients : c # regClients[pos].id => inbox'[c] = inbox[c]
        /\ UNCHANGED <<outbox, confCall>>
    BY <1>0, <1>2 DEF NotifyDelivered, NotifySets, ipcVars, TypeOK
  <2> QED BY <2>2, <2>3 DEF NilInv
<1>3. CASE IpcNext
  <2>1. UNCHANGED inbox /\ outbox' \subseteq outbox /\ confCall' \subseteq outbox \cup confCall
    BY <1>3 DEF IpcNext, IpcInsert, IpcConfirm, IpcDispatch, RegisterTest, RegisterInsert,
       Unregister, WellBehaved, ConfirmTest, ConfirmUnknown, ConfirmUnexpected,
       ConfirmRefused, ConfirmAccepted, ConfirmLocks, clientVars
  <2> QED BY <2>1 DEF NilInv
<1>4. CASE ClientNext
  <2>1. PICK c \in Clients : ClientHandles(c) \/ ClientFails(c) \/ ClientCrash(c)
    BY <1>4 DEF ClientNext
  <2>2. CASE ClientCrash(c)
    BY <1>0, <2>2 DEF ClientCrash, NilInv, TypeOK, ipcVars
  <2>3. CASE ~ ClientCrash(c)
    <3>1. PICK l, st : ClientAnswers(c, l, st)
      BY <2>1, <2>3 DEF ClientHandles, ClientLocks, ClientUnlocks, ClientFails
    <3>2. Listed(c)
      BY <3>1 DEF ClientAnswers, NilInv
    <3>3. /\ \A x \in Clients : x # c => inbox'[x] = inbox[x]
          /\ confCall' = confCall
          /\ \A m \in outbox' : m \in outbox \/ m.id = c
      BY <1>0, <3>1 DEF ClientAnswers, ipcVars, TypeOK
    <3> QED BY <3>2, <3>3 DEF NilInv
  <2> QED BY <2>2, <2>3
<1>5. UNCHANGED <<inbox, outbox, confCall>> \/ NotifyDelivered \/ IpcNext \/ ClientNext
  <2>1. CASE LibNext
    BY <2>1, QuietFrame DEF LibNext, QuietLib, NotifySkip, NotifyUnavailable, NotifyFailed,
       NotifySets, ipcVars, clientVars
  <2>2. CASE Terminating \/ UNCHANGED vars
    BY <2>2 DEF Terminating, vars, ipcVars, clientVars
  <2> QED BY <2>1, <2>2 DEF Next
<1> QED BY <1>1, <1>2, <1>3, <1>4, <1>5

LEMMA NextNilInv ==
  ASSUME WellBehaved, LockInv, NilInv, [Next]_vars PROVE NilInv'
<1>1. /\ \A c \in Clients : inbox'[c] # <<>> => Listed(c)'
      /\ \A m \in outbox' \cup confCall' : Listed(m.id)'
  BY SendersListed, ListGrows DEF WellBehaved, LockInv, BlockInv
<1>2. libPc' # "crashed" /\ (libPc' = "wait_scan" => waitForNotifConf')
  <2>1. CASE QuietLib
    <3>1. CASE WaitTest
      BY <3>1 DEF WaitTest, pasVars, NilInv
    <3>2. CASE WaitNilClient
      BY <3>2 DEF WaitNilClient, WaitScan, NilInv
    <3>3. CASE ~ WaitTest /\ ~ WaitNilClient
      BY <2>1, <3>3 DEF QuietLib, LockStart, UnlockStart, ChangeMode, NewRequestId,
         NotifyBegin, NotifyEnd, WaitBegin, WaitScan, WaitAllConfirmed, WaitTimedOut,
         WaitGoesOn, WaitSleep, LockGranted, LockFailed, Unlocked
    <3> QED BY <3>1, <3>2, <3>3
  <2>2. CASE NotifySkip \/ NotifyDelivered \/ NotifyUnavailable \/ NotifyFailed
    BY <2>2 DEF NotifySkip, NotifyDelivered, NotifyUnavailable, NotifyFailed, NotifySets,
       NotifyGoesOn
  <2>3. CASE IpcConfirm
    <3>1. PICK m \in confCall : \/ ConfirmUnknown(m) \/ ConfirmUnexpected(m)
                              \/ ConfirmRefused(m) \/ ConfirmAccepted(m)
      BY <2>3 DEF IpcConfirm
    <3>2. ~ ConfirmUnknown(m)
      <4>1. PICK i \in 1 .. Len(regClients) : regClients[i].id = m.id
        BY <3>1 DEF NilInv, Listed
      <4>2. FindClient(m.id) # 0
        BY <4>1, FindClientFinds DEF LockInv, BlockInv, TypeOK
      <4> QED BY <4>2 DEF ConfirmUnknown
    <3>3. libPc = "wait_scan" => ~ ConfirmRefused(m)
      <4>1. libPc = "wait_scan" => Locking
        BY DEF LockInv, ListInv, Locking, Waiting
      <4> QED BY <3>1, <4>1, NoRefusal DEF ConfirmRefused
    <3> QED BY <3>1, <3>2, <3>3 DEF ConfirmUnexpected, ConfirmRefused, ConfirmAccepted, NilInv
  <2>4. CASE IpcNext /\ ~ IpcConfirm
    <3>1. CASE \E c \in Clients : RegisterTest(c) \/ Unregister(c)
      <4>1. UNCHANGED <<libPc, waitForNotifConf>>
        BY <3>1 DEF RegisterTest, Unregister, pasVars, libVars
      <4> QED BY <4>1 DEF NilInv
    <3>2. CASE IpcInsert
      <4>1. UNCHANGED <<libPc, waitForNotifConf>>
        BY <3>2 DEF IpcInsert, RegisterInsert, libVars
      <4> QED BY <4>1 DEF NilInv
    <3>3. CASE IpcDispatch
      <4>1. UNCHANGED <<libPc, waitForNotifConf>>
        BY <3>3 DEF IpcDispatch, ConfirmTest, pasVars, libVars
      <4> QED BY <4>1 DEF NilInv
    <3> QED BY <2>4, <3>1, <3>2, <3>3 DEF IpcNext
  <2>5. CASE ClientNext \/ Terminating \/ UNCHANGED vars
    <3>1. UNCHANGED <<libPc, waitForNotifConf>>
      BY <2>5 DEF ClientNext, ClientHandles, ClientLocks, ClientUnlocks, ClientFails,
         ClientAnswers, ClientCrash, Terminating, vars, pasVars, libVars
    <3> QED BY <3>1 DEF NilInv
  <2> QED BY <2>1, <2>2, <2>3, <2>4, <2>5 DEF Next, LibNext, QuietLib
<1> QED BY <1>1, <1>2 DEF NilInv

\* The callbacks and the waiting loop never read a client through a NIL
\* pointer, as long as clients do not refuse and do not leave.
THEOREM NoNilPointer == ASSUME WellBehaved PROVE PromptSpec => []NoNilRead
<1>1. Init => NilInv
  BY DEF Init, NilInv
<1>2. LockInv /\ NilInv /\ [Next]_vars => NilInv'
  BY NextNilInv
<1>3. NilInv => NoNilRead
  BY DEF NilInv, NoNilRead
<1> QED BY <1>1, <1>2, <1>3, LockInvariance, PTL DEF PromptSpec

-----------------------------------------------------------------------------
(* Where the messages are: at most one of each request for each client, and  *)
(* an unlock behind every lock.                                              *)

\* The client has a request with the current id to handle, or has answered one.
InInbox(c) == \E k \in 1 .. Len(inbox[c]) : inbox[c][k].req = requestId
InTransit(c) == \E m \in outbox \cup confCall : m.id = c /\ m.req = requestId
Told(c) == InInbox(c) \/ InTransit(c)

\* Each client is in the list once: who may register is not in it.
UniqueInv ==
  /\ \A i, j \in 1 .. Len(regClients) : regClients[i].id = regClients[j].id => i = j
  /\ \A c \in Clients : Listed(c) => registered[c] \/ ~ up[c]
  /\ \A c \in regCall : ~ Listed(c)
  /\ libPc = "notify" <=> listMtx = "lib"

\* Requests come to a client in the order of their ids, each once; it answers each
\* once; a dead one has none.
OrderInv ==
  /\ \A c \in Clients :
       /\ \A k \in 1 .. Len(inbox[c]) : inbox[c][k].req <= requestId
       /\ \A j, k \in 1 .. Len(inbox[c]) : j < k => inbox[c][j].req < inbox[c][k].req
       /\ ~ up[c] => inbox[c] = <<>>
  /\ \A m \in outbox : m.req <= requestId
  /\ \A m \in confCall : m.req = requestId
  /\ \A c \in Clients : InTransit(c) => ~ InInbox(c)

\* A new id was sent to nobody, and then to those the loop has passed.
ToldInv ==
  /\ libPc = "notify_lock" => \A c \in Clients : ~ Told(c)
  /\ libPc = "notify" =>
       \A c \in Clients : Told(c) => \E i \in 1 .. Len(regClients) :
                                       i < pos /\ regClients[i].id = c

\* Who counts as confirmed has answered.
AnsweredInv ==
  \A i \in 1 .. Len(regClients) :
    regClients[i].notified /\ regClients[i].confirmed => ~ InInbox(regClients[i].id)

DeliveryInv == BlockInv /\ UniqueInv /\ OrderInv /\ ToldInv /\ AnsweredInv

LEMMA InitDeliveryInv == Init => DeliveryInv
<1> SUFFICES ASSUME Init PROVE DeliveryInv
  OBVIOUS
<1>1. Len(regClients) = 0
  BY EmptySeq DEF Init
<1>2. \A c \in Clients : inbox[c] = <<>> /\ Len(inbox[c]) = 0
  BY EmptySeq DEF Init
<1>3. UniqueInv /\ AnsweredInv
  BY <1>1 DEF Init, UniqueInv, AnsweredInv, Listed
<1>4. OrderInv
  BY <1>2 DEF Init, OrderInv, InTransit
<1>5. ToldInv
  BY DEF Init, ToldInv
<1> QED BY <1>3, <1>4, <1>5, InitBlockInv DEF DeliveryInv

LEMMA EntryCount == TypeOK => Len(regClients) \in Nat
BY LenProperties DEF TypeOK

\* Nobody is told of a request by a step that touches no message and no id.
LEMMA SameMessages ==
  ASSUME UNCHANGED <<requestId, inbox, outbox, confCall>>, NEW c
  PROVE  /\ InInbox(c)' = InInbox(c) /\ InTransit(c)' = InTransit(c)
         /\ Told(c)' = Told(c)
BY DEF InInbox, InTransit, Told

LEMMA SameOrder ==
  ASSUME OrderInv, UNCHANGED <<requestId, inbox, outbox, confCall, up>> PROVE OrderInv'
BY SameMessages DEF OrderInv

\* A step that moves no message can be judged by the list and by the thread.
LEMMA SameAnswered ==
  ASSUME AnsweredInv, UNCHANGED <<requestId, inbox, outbox, confCall, regClients>>
  PROVE  AnsweredInv'
BY SameMessages DEF AnsweredInv

\* The quiet steps of the access-lib thread: the id is new, or nothing moves.
LEMMA QuietDelivery ==
  ASSUME PromptConfirmation, DeliveryInv, QuietLib
  PROVE  UniqueInv' /\ OrderInv' /\ ToldInv' /\ AnsweredInv'
<1>0. TypeOK /\ BlockInv /\ UniqueInv /\ OrderInv /\ ToldInv /\ AnsweredInv
  BY DEF DeliveryInv, BlockInv
<1>1. UNCHANGED <<regClients, inbox, outbox, regCall, confCall, registered, up>>
  BY QuietFrame
<1>2. /\ libPc' = "notify" <=> listMtx' = "lib"
      /\ libPc' = "notify_lock" => NewRequestId
      /\ libPc' = "notify" => NotifyBegin
  <2> USE DEF UniqueInv
  <2>1. CASE LockStart \/ UnlockStart \/ ChangeMode \/ NewRequestId \/ NotifyBegin \/ NotifyEnd
    BY <1>0, <2>1 DEF LockStart, UnlockStart, ChangeMode, NewRequestId, NotifyBegin, NotifyEnd
  <2>2. CASE WaitBegin \/ WaitTest \/ WaitSleep
    BY <1>0, <2>2 DEF WaitBegin, WaitTest, WaitSleep, pasVars
  <2>3. CASE WaitAllConfirmed \/ WaitNilClient \/ WaitTimedOut \/ WaitGoesOn
    BY <1>0, <2>3 DEF WaitScan, WaitAllConfirmed, WaitNilClient, WaitTimedOut, WaitGoesOn
  <2>4. CASE LockGranted \/ LockFailed \/ Unlocked
    BY <1>0, <2>4 DEF LockGranted, LockFailed, Unlocked
  <2> QED BY <2>1, <2>2, <2>3, <2>4 DEF QuietLib
<1>3. UniqueInv'
  BY <1>0, <1>1, <1>2 DEF UniqueInv, Listed
<1>4. CASE ~ NewRequestId
  <2>1. requestId' = requestId
    BY <1>0, <1>4, QuietLocking
  <2>2. OrderInv' /\ AnsweredInv'
    BY <1>0, <1>1, <2>1, SameOrder, SameAnswered
  <2>3. libPc' = "notify" => \A c \in Clients : ~ Told(c)'
    <3>1. NotifyBegin => \A c \in Clients : ~ Told(c)
      BY <1>0 DEF NotifyBegin, ToldInv
    <3> QED BY <1>1, <1>2, <2>1, <3>1, SameMessages
  <2> QED BY <1>2, <1>3, <1>4, <2>2, <2>3 DEF ToldInv
<1>5. CASE NewRequestId
  <2>1. requestId' = requestId + 1 /\ requestId \in Nat /\ confCall = {} /\ libPc' # "notify"
    BY <1>0, <1>5 DEF NewRequestId, PromptConfirmation, TypeOK
  <2>2. \A c \in Clients : \A k \in 1 .. Len(inbox[c]) :
          inbox[c][k].req <= requestId' /\ inbox[c][k].req # requestId'
    BY <1>0, <2>1, InboxTypes DEF OrderInv
  <2>3. \A m \in outbox : m.req <= requestId' /\ m.req # requestId'
    BY <1>0, <2>1 DEF OrderInv, TypeOK, Confirmation
  <2>4. \A c \in Clients : ~ InInbox(c)' /\ ~ InTransit(c)' /\ ~ Told(c)'
    BY <1>1, <2>1, <2>2, <2>3 DEF InInbox, InTransit, Told
  <2>5. OrderInv'
    BY <1>0, <1>1, <2>1, <2>2, <2>3, <2>4 DEF OrderInv
  <2>6. AnsweredInv'
    BY <1>0, <1>1, <2>4, EntryTypes DEF AnsweredInv
  <2> QED BY <1>3, <2>1, <2>4, <2>5, <2>6 DEF ToldInv
<1> QED BY <1>4, <1>5

\* Each client is once in a list with the same ids.
LEMMA SameIds ==
  ASSUME TypeOK, UniqueInv, Len(regClients') = Len(regClients),
         \A i \in 1 .. Len(regClients) : regClients'[i].id = regClients[i].id,
         UNCHANGED <<regCall, registered, up>>, libPc' = "notify" <=> listMtx' = "lib"
  PROVE  UniqueInv'
<1>1. \A c : Listed(c)' = Listed(c)
  BY DEF Listed
<1> QED BY <1>1 DEF UniqueInv

\* A turn of the notification loop that sends nothing.
LEMMA SilentDelivery ==
  ASSUME DeliveryInv, NotifySkip \/ NotifyUnavailable \/ NotifyFailed
  PROVE  UniqueInv' /\ OrderInv' /\ ToldInv' /\ AnsweredInv'
<1>0. TypeOK /\ UniqueInv /\ OrderInv /\ ToldInv /\ AnsweredInv /\ pos \in Nat
  BY DEF DeliveryInv, BlockInv, TypeOK
<1>1. PICK n \in BOOLEAN, k \in BOOLEAN :
        NotifySets(n, k) /\ (n /\ k => NotifyUnavailable)
  BY DEF NotifySkip, NotifyUnavailable, NotifyFailed
<1>2. /\ Len(regClients') = Len(regClients)
      /\ \A i \in 1 .. Len(regClients) : regClients'[i].id = regClients[i].id
      /\ \A i \in 1 .. Len(regClients) : i # pos => regClients'[i] = regClients[i]
      /\ regClients'[pos].notified = n /\ regClients'[pos].confirmed = k
  BY <1>0, <1>1, NotifySetsList
<1>3. UNCHANGED <<requestId, inbox, outbox, regCall, confCall, registered, up>>
      /\ libPc = "notify"
  BY <1>1 DEF NotifySkip, NotifyUnavailable, NotifyFailed, NotifySets, ipcVars, clientVars
<1>4. \/ libPc' = "notify" /\ listMtx' = "lib" /\ pos' = pos + 1
      \/ libPc' = "changed" /\ listMtx' = "free"
  BY <1>0, <1>3 DEF NotifySkip, NotifyUnavailable, NotifyFailed, NotifyGoesOn, UniqueInv
<1>5. UniqueInv'
  BY <1>0, <1>2, <1>3, <1>4, SameIds
<1>6. OrderInv'
  BY <1>0, <1>3, SameOrder
<1>7. ToldInv'
  <2> SUFFICES ASSUME libPc' = "notify", NEW c \in Clients, Told(c)
               PROVE  \E i \in 1 .. Len(regClients') : i < pos' /\ regClients'[i].id = c
    BY <1>3, <1>4, SameMessages DEF ToldInv
  <2>1. PICK i \in 1 .. Len(regClients) : i < pos /\ regClients[i].id = c
    BY <1>0, <1>3 DEF ToldInv
  <2>2. i < pos'
    BY <1>0, <1>4, <2>1, EntryCount
  <2> QED BY <1>2, <2>1, <2>2
<1>8. AnsweredInv'
  <2> SUFFICES ASSUME NEW i \in 1 .. Len(regClients),
                      regClients'[i].notified, regClients'[i].confirmed
               PROVE  ~ InInbox(regClients[i].id)
    BY <1>2, <1>3, SameMessages DEF AnsweredInv
  <2>1. CASE i # pos
    BY <1>0, <1>2, <2>1 DEF AnsweredInv
  <2>2. CASE i = pos
    <3>1. ~ up[regClients[i].id] /\ regClients[i].id \in Clients
      BY <1>0, <1>1, <1>2, <2>2, EntryTypes DEF NotifyUnavailable
    <3>2. Len(inbox[regClients[i].id]) = 0
      BY <1>0, <3>1, EmptySeq DEF OrderInv
    <3> QED BY <3>2 DEF InInbox
  <2> QED BY <2>1, <2>2
<1> QED BY <1>5, <1>6, <1>7, <1>8
\* A request sent is the last in the inbox of the client it is sent to.
LEMMA Delivered ==
  ASSUME TypeOK, NotifyDelivered
  PROVE  LET d == regClients[pos].id
             n == Len(inbox[d])
         IN /\ pos \in 1 .. Len(regClients) /\ d \in Clients /\ up[d] /\ n \in Nat
            /\ Len(inbox'[d]) = n + 1
            /\ \A k \in 1 .. n : inbox'[d][k] = inbox[d][k]
            /\ inbox'[d][n + 1].req = requestId /\ inbox'[d][n + 1].mode = Target
            /\ \A c \in Clients : c # d => inbox'[c] = inbox[c]
            /\ UNCHANGED <<requestId, phase, outbox, regCall, confCall, registered, up, held>>
            /\ libPc = "notify" /\ UNCHANGED <<libPc, listMtx>> /\ pos' = pos + 1
<1> DEFINE d == regClients[pos].id
           r == [req |-> requestId, mode |-> Target]
<1>1. pos \in 1 .. Len(regClients) /\ d \in Clients /\ requestId \in Nat
  BY NotifySetsType DEF NotifyDelivered, Entry, TypeOK
<1>2. r \in Request /\ r.req = requestId /\ r.mode = Target
  BY <1>1 DEF Request, Target
<1>3. \A c \in Clients : c # d => inbox'[c] = inbox[c]
  BY <1>1 DEF NotifyDelivered, TypeOK
<1>4. inbox'[d] = Append(inbox[d], r)
  BY <1>1 DEF NotifyDelivered, TypeOK
<1> HIDE DEF r
<1>5. /\ Len(inbox[d]) \in Nat /\ Len(inbox'[d]) = Len(inbox[d]) + 1
      /\ \A k \in 1 .. Len(inbox[d]) : inbox'[d][k] = inbox[d][k]
      /\ inbox'[d][Len(inbox[d]) + 1] = r
  BY <1>1, <1>2, <1>4, InboxTypes, AppendProperties
<1>6. /\ UNCHANGED <<requestId, phase, outbox, regCall, confCall, registered, up, held>>
      /\ libPc = "notify" /\ UNCHANGED <<libPc, listMtx>> /\ pos' = pos + 1 /\ up[d]
  BY DEF NotifyDelivered, NotifySets, NotifyGoesOn, ipcVars
<1> QED BY <1>1, <1>2, <1>3, <1>5, <1>6

\* The turn that sends a request: to a client not yet told of this one.
LEMMA SentDelivery ==
  ASSUME DeliveryInv, NotifyDelivered
  PROVE  UniqueInv' /\ OrderInv' /\ ToldInv' /\ AnsweredInv'
<1> DEFINE d == regClients[pos].id
           n == Len(inbox[d])
<1>0. TypeOK /\ UniqueInv /\ OrderInv /\ ToldInv /\ AnsweredInv
      /\ pos \in Nat /\ requestId \in Nat
  BY DEF DeliveryInv, BlockInv, TypeOK
<1>1. /\ pos \in 1 .. Len(regClients) /\ d \in Clients /\ up[d] /\ n \in Nat
      /\ Len(inbox'[d]) = n + 1
      /\ \A k \in 1 .. n : inbox'[d][k] = inbox[d][k]
      /\ inbox'[d][n + 1].req = requestId
      /\ \A c \in Clients : c # d => inbox'[c] = inbox[c]
      /\ UNCHANGED <<requestId, outbox, regCall, confCall, registered, up>>
      /\ libPc = "notify" /\ UNCHANGED <<libPc, listMtx>> /\ pos' = pos + 1
  BY <1>0, Delivered
<1>2. /\ Len(regClients') = Len(regClients)
      /\ \A i \in 1 .. Len(regClients) : regClients'[i].id = regClients[i].id
      /\ \A i \in 1 .. Len(regClients) : i # pos => regClients'[i] = regClients[i]
      /\ regClients'[pos].confirmed = FALSE
  BY <1>0, NotifySetsList DEF NotifyDelivered
<1> HIDE DEF d, n
<1>3. ~ Told(d)
  <2>1. ASSUME NEW i \in 1 .. Len(regClients), i < pos, regClients[i].id = d PROVE FALSE
    <3>1. i # pos
      BY <1>0, <1>1, <2>1, EntryCount
    <3> QED BY <1>0, <1>1, <2>1, <3>1 DEF UniqueInv, d
  <2> QED BY <1>0, <1>1, <2>1 DEF ToldInv
<1>4. \A c \in Clients : c # d => InInbox(c)' = InInbox(c)
  BY <1>1 DEF InInbox
<1>5. \A c : InTransit(c)' = InTransit(c)
  BY <1>1 DEF InTransit
<1>6. UniqueInv'
  BY <1>0, <1>1, <1>2, SameIds DEF UniqueInv
<1>7. \A k \in 1 .. n : inbox[d][k].req < requestId
  BY <1>0, <1>1, <1>3, InboxTypes DEF OrderInv, Told, InInbox, n
<1>8. /\ \A k \in 1 .. Len(inbox'[d]) : inbox'[d][k].req <= requestId
      /\ \A j, k \in 1 .. Len(inbox'[d]) : j < k => inbox'[d][j].req < inbox'[d][k].req
  <2>1. \A k \in 1 .. Len(inbox'[d]) : k \in 1 .. n \/ k = n + 1
    BY <1>1
  <2>2. ASSUME NEW k \in 1 .. Len(inbox'[d]) PROVE inbox'[d][k].req <= requestId
    <3>1. CASE k \in 1 .. n
      BY <1>0, <1>1, <3>1 DEF OrderInv, n
    <3>2. CASE k = n + 1
      BY <1>0, <1>1, <3>2
    <3> QED BY <2>1, <3>1, <3>2
  <2>3. ASSUME NEW j \in 1 .. Len(inbox'[d]), NEW k \in 1 .. Len(inbox'[d]), j < k
        PROVE  inbox'[d][j].req < inbox'[d][k].req
    <3>1. j \in 1 .. n
      BY <1>1, <2>3
    <3>2. CASE k \in 1 .. n
      BY <1>0, <1>1, <2>3, <3>1, <3>2 DEF OrderInv, n
    <3>3. CASE k = n + 1
      BY <1>1, <1>7, <3>1, <3>3
    <3> QED BY <2>1, <3>2, <3>3
  <2> QED BY <2>2, <2>3
<1>9. OrderInv'
  <2> SUFFICES ASSUME NEW c \in Clients
               PROVE  /\ \A k \in 1 .. Len(inbox'[c]) : inbox'[c][k].req <= requestId
                      /\ \A j, k \in 1 .. Len(inbox'[c]) :
                           j < k => inbox'[c][j].req < inbox'[c][k].req
                      /\ ~ up[c] => inbox'[c] = <<>>
                      /\ InTransit(c) => ~ InInbox(c)'
    BY <1>0, <1>1, <1>5 DEF OrderInv
  <2>1. CASE c # d
    BY <1>0, <1>1, <1>4, <2>1 DEF OrderInv
  <2>2. CASE c = d
    BY <1>1, <1>3, <1>8, <2>2 DEF Told
  <2> QED BY <2>1, <2>2
<1>10. ToldInv'
  <2> SUFFICES ASSUME NEW c \in Clients, Told(c)'
               PROVE  \E i \in 1 .. Len(regClients) : i < pos' /\ regClients[i].id = c
    BY <1>1, <1>2 DEF ToldInv
  <2>1. CASE c = d
    BY <1>0, <1>1, <2>1 DEF d
  <2>2. CASE c # d
    <3>1. Told(c)
      BY <1>4, <1>5, <2>2 DEF Told
    <3>2. PICK i \in 1 .. Len(regClients) : i < pos /\ regClients[i].id = c
      BY <1>0, <1>1, <3>1 DEF ToldInv
    <3>3. i < pos'
      BY <1>0, <1>1, <3>2, EntryCount
    <3> QED BY <3>2, <3>3
  <2> QED BY <2>1, <2>2
<1>11. AnsweredInv'
  <2> SUFFICES ASSUME NEW i \in 1 .. Len(regClients),
                      regClients'[i].notified, regClients'[i].confirmed
               PROVE  ~ InInbox(regClients[i].id)'
    BY <1>2 DEF AnsweredInv
  <2>1. i # pos /\ regClients'[i] = regClients[i] /\ regClients[i].id \in Clients
    BY <1>0, <1>2, EntryTypes
  <2>2. regClients[i].id # d
    BY <1>0, <1>1, <2>1 DEF UniqueInv, d
  <2>3. ~ InInbox(regClients[i].id)
    BY <1>0, <2>1 DEF AnsweredInv
  <2> QED BY <1>4, <2>1, <2>2, <2>3 DEF InInbox
<1> QED BY <1>6, <1>9, <1>10, <1>11

\* Registering tells nobody and nothing.
LEMMA RegisterDelivery ==
  ASSUME DeliveryInv, NEW c \in Clients, RegisterTest(c) \/ RegisterInsert(c)
  PROVE  UniqueInv' /\ OrderInv' /\ ToldInv' /\ AnsweredInv'
<1>0. TypeOK /\ UniqueInv /\ OrderInv /\ ToldInv /\ AnsweredInv /\ Len(regClients) \in Nat
  BY EntryCount DEF DeliveryInv, BlockInv
<1>1. UNCHANGED <<requestId, inbox, outbox, confCall, up, libPc, listMtx, pos>>
  BY DEF RegisterTest, RegisterInsert, pasVars, libVars, clientVars
<1>2. OrderInv'
  BY <1>0, <1>1, SameOrder
<1>3. CASE RegisterTest(c)
  <2>1. UNCHANGED <<regClients, registered>> /\ regCall' = {c} /\ up[c] /\ ~ registered[c]
    BY <1>3 DEF RegisterTest, pasVars, clientVars
  <2>2. UniqueInv'
    BY <1>0, <1>1, <2>1 DEF UniqueInv, Listed
  <2>3. ToldInv' /\ AnsweredInv'
    BY <1>0, <1>1, <2>1, SameMessages, SameAnswered DEF ToldInv
  <2> QED BY <1>2, <2>2, <2>3
<1>4. CASE RegisterInsert(c)
  <2> DEFINE e == [id |-> c, notified |-> FALSE, confirmed |-> FALSE]
  <2>1. /\ ~ Listed(c) /\ libPc # "notify" /\ regCall' = {}
        /\ registered' = [registered EXCEPT ![c] = up[c]]
    BY <1>0, <1>4 DEF RegisterInsert, UniqueInv
  <2>2. e \in Entry /\ regClients \in Seq(Entry) /\ regClients' = Append(regClients, e)
    BY <1>0, <1>4 DEF RegisterInsert, Entry, TypeOK
  <2>3. /\ Len(regClients') = Len(regClients) + 1
        /\ \A i \in 1 .. Len(regClients) : regClients'[i] = regClients[i]
        /\ regClients'[Len(regClients) + 1] = e
    BY <2>2, AppendProperties
  <2>4. e.id = c /\ ~ e.notified
    OBVIOUS
  <2> HIDE DEF e
  <2>5. \A i \in 1 .. Len(regClients') : i \in 1 .. Len(regClients) \/ i = Len(regClients) + 1
    BY <1>0, <2>3
  <2>6. UniqueInv'
    <3>1. ASSUME NEW i \in 1 .. Len(regClients'), NEW j \in 1 .. Len(regClients'),
                 regClients'[i].id = regClients'[j].id
          PROVE  i = j
      <4>1. \A k \in 1 .. Len(regClients) : regClients'[k].id # c
        BY <2>1, <2>3 DEF Listed
      <4> QED BY <1>0, <2>3, <2>4, <2>5, <3>1, <4>1 DEF UniqueInv
    <3>2. ASSUME NEW x \in Clients, Listed(x)' PROVE registered'[x] \/ ~ up[x]
      <4>1. CASE x = c
        BY <1>0, <2>1, <4>1 DEF TypeOK
      <4>2. CASE x # c
        <5>1. Listed(x)
          BY <2>3, <2>4, <2>5, <3>2, <4>2 DEF Listed
        <5> QED BY <1>0, <2>1, <4>2, <5>1 DEF UniqueInv, TypeOK
      <4> QED BY <4>1, <4>2
    <3> QED BY <1>0, <1>1, <2>1, <3>1, <3>2 DEF UniqueInv
  <2>7. ToldInv'
    BY <1>0, <1>1, <2>1, SameMessages DEF ToldInv
  <2>8. AnsweredInv'
    BY <1>0, <1>1, <2>3, <2>4, <2>5, SameMessages DEF AnsweredInv
  <2> QED BY <1>2, <2>6, <2>7, <2>8
<1> QED BY <1>3, <1>4
\* Where the entries are once one was taken out of the list.
LEMMA RemoveAtShifts ==
  ASSUME NEW S, NEW s \in Seq(S), NEW k \in 1 .. Len(s)
  PROVE  /\ Len(RemoveAt(s, k)) = Len(s) - 1
         /\ \A i \in 1 .. Len(s) - 1 :
              RemoveAt(s, k)[i] = IF i < k THEN s[i] ELSE s[i + 1]
<1>0. Len(s) \in Nat /\ \A j \in 1 .. Len(s) : s[j] \in S
  BY LenProperties, ElementOfSeq
<1> DEFINE f == SubSeq(s, 1, k - 1)
           g == SubSeq(s, k + 1, Len(s))
<1>1. f \in Seq(S) /\ Len(f) = k - 1 /\ \A i \in 1 .. k - 1 : f[i] = s[i]
  BY <1>0, SubSeqProperties
<1>2. g \in Seq(S) /\ Len(g) = Len(s) - k /\ \A i \in 1 .. Len(s) - k : g[i] = s[k + i]
  BY <1>0, SubSeqProperties
<1>3. RemoveAt(s, k) = f \o g
  BY DEF RemoveAt
<1> HIDE DEF f, g
<1>4. /\ Len(f \o g) = Len(f) + Len(g)
      /\ \A i \in 1 .. Len(f) + Len(g) :
           (f \o g)[i] = IF i <= Len(f) THEN f[i] ELSE g[i - Len(f)]
  BY <1>1, <1>2, ConcatProperties
<1>5. Len(f) + Len(g) = Len(s) - 1
  BY <1>0, <1>1, <1>2
<1>6. ASSUME NEW i \in 1 .. Len(s) - 1
      PROVE  (f \o g)[i] = IF i < k THEN s[i] ELSE s[i + 1]
  <2>1. CASE i < k
    BY <1>0, <1>1, <1>4, <1>5, <2>1
  <2>2. CASE ~ (i < k)
    <3>1. (f \o g)[i] = g[i - (k - 1)]
      BY <1>0, <1>1, <1>4, <1>5, <2>2
    <3>2. i - (k - 1) \in 1 .. Len(s) - k /\ k + (i - (k - 1)) = i + 1
      BY <1>0, <2>2
    <3> QED BY <1>2, <2>2, <3>1, <3>2
  <2> QED BY <2>1, <2>2
<1> QED BY <1>3, <1>4, <1>5, <1>6

\* Who leaves is no longer listed; nobody joins; every entry that stays is an old one.
LEMMA UnregisteredList ==
  ASSUME TypeOK, UniqueInv, NEW c \in Clients, Unregister(c)
  PROVE  /\ ~ Listed(c)'
         /\ \A i, j \in 1 .. Len(regClients') : regClients'[i].id = regClients'[j].id => i = j
         /\ \A i \in 1 .. Len(regClients') :
              \E j \in 1 .. Len(regClients) : regClients'[i] = regClients[j]
<1> DEFINE k == FindClient(c)
<1>0. Len(regClients) \in Nat
  BY EntryCount
<1>1. /\ k \in Nat
      /\ k # 0 => k \in 1 .. Len(regClients) /\ regClients[k].id = c
      /\ k = 0 => \A i \in 1 .. Len(regClients) : regClients[i].id # c
  BY FindClientFinds DEF TypeOK
<1>2. regClients' = CASE k = 0 -> regClients
                      [] k = 1 -> <<>>
                      [] OTHER -> RemoveAt(regClients, k)
  BY DEF Unregister
<1> HIDE DEF k
<1>3. CASE k = 0
  BY <1>1, <1>2, <1>3 DEF Listed, UniqueInv
<1>4. CASE k = 1
  <2>1. Len(regClients') = 0
    BY <1>2, <1>4, EmptySeq
  <2> QED BY <2>1 DEF Listed
<1>5. CASE k # 0 /\ k # 1
  <2>1. regClients \in Seq(Entry) /\ k \in 1 .. Len(regClients) /\ regClients[k].id = c
        /\ regClients' = RemoveAt(regClients, k)
    BY <1>1, <1>2, <1>5 DEF TypeOK
  <2> DEFINE old(i) == IF i < k THEN i ELSE i + 1
  <2>2. /\ Len(regClients') = Len(regClients) - 1
        /\ \A i \in 1 .. Len(regClients) - 1 :
             regClients'[i] = IF i < k THEN regClients[i] ELSE regClients[i + 1]
    BY <2>1, RemoveAtShifts
  <2>3. \A i \in 1 .. Len(regClients') :
          old(i) \in 1 .. Len(regClients) /\ old(i) # k /\ regClients'[i] = regClients[old(i)]
    BY <1>0, <2>1, <2>2
  <2>4. \A i, j \in 1 .. Len(regClients') : old(i) = old(j) => i = j
    BY <1>0, <2>1, <2>2
  <2> HIDE DEF old
  <2>5. \A i \in 1 .. Len(regClients') : regClients'[i].id # c
    BY <2>1, <2>3 DEF UniqueInv
  <2>6. ~ Listed(c)'
    BY <2>5 DEF Listed
  <2>7. \A i, j \in 1 .. Len(regClients') : regClients'[i].id = regClients'[j].id => i = j
    BY <2>3, <2>4 DEF UniqueInv
  <2> QED BY <2>3, <2>6, <2>7
<1> QED BY <1>3, <1>4, <1>5

\* A client that leaves, or dies, has no request left; the others keep theirs.
LEMMA GoneOrder ==
  ASSUME TypeOK, OrderInv, NEW c \in Clients,
         inbox' = [inbox EXCEPT ![c] = <<>>], up' = up \/ up' = [up EXCEPT ![c] = FALSE],
         UNCHANGED <<requestId, outbox, confCall>>
  PROVE  /\ OrderInv'
         /\ ~ InInbox(c)'
         /\ \A x \in Clients : InInbox(x)' => InInbox(x)
         /\ \A x \in Clients : Told(x)' => Told(x)
<1>1. inbox'[c] = <<>> /\ Len(inbox'[c]) = 0
  BY EmptySeq DEF TypeOK
<1>2. \A x \in Clients : x # c => inbox'[x] = inbox[x] /\ up'[x] = up[x]
  BY DEF TypeOK
<1>3. ~ InInbox(c)'
  BY <1>1 DEF InInbox
<1>4. \A x \in Clients : x # c => InInbox(x)' = InInbox(x)
  BY <1>2 DEF InInbox
<1>5. \A x : InTransit(x)' = InTransit(x)
  BY DEF InTransit
<1>6. OrderInv'
  BY <1>1, <1>2, <1>3, <1>4, <1>5 DEF OrderInv
<1> QED BY <1>3, <1>4, <1>5, <1>6 DEF Told

LEMMA UnregisterDelivery ==
  ASSUME DeliveryInv, NEW c \in Clients, Unregister(c)
  PROVE  UniqueInv' /\ OrderInv' /\ ToldInv' /\ AnsweredInv'
<1>0. TypeOK /\ UniqueInv /\ OrderInv /\ ToldInv /\ AnsweredInv
  BY DEF DeliveryInv, BlockInv
<1>1. /\ UNCHANGED <<requestId, outbox, regCall, confCall, up, libPc, listMtx, pos>>
      /\ inbox' = [inbox EXCEPT ![c] = <<>>] /\ regCall = {} /\ listMtx = "free"
      /\ registered' = [registered EXCEPT ![c] = FALSE]
  BY DEF Unregister, IpcIdle, libVars, ipcVars
<1>2. /\ ~ Listed(c)'
      /\ \A i, j \in 1 .. Len(regClients') : regClients'[i].id = regClients'[j].id => i = j
      /\ \A i \in 1 .. Len(regClients') :
           \E j \in 1 .. Len(regClients) : regClients'[i] = regClients[j]
  BY <1>0, UnregisteredList
<1>3. /\ OrderInv' /\ ~ InInbox(c)'
      /\ \A x \in Clients : InInbox(x)' => InInbox(x)
      /\ \A x \in Clients : Told(x)' => Told(x)
  BY <1>0, <1>1, GoneOrder
<1>4. UniqueInv'
  <2>1. ASSUME NEW x \in Clients, Listed(x)' PROVE registered'[x] \/ ~ up'[x]
    <3>1. x # c /\ Listed(x)
      BY <1>2, <2>1 DEF Listed
    <3> QED BY <1>0, <1>1, <3>1 DEF UniqueInv, TypeOK
  <2> QED BY <1>0, <1>1, <1>2, <2>1 DEF UniqueInv
<1>5. ToldInv'
  <2>1. libPc' # "notify"
    BY <1>0, <1>1 DEF UniqueInv
  <2> QED BY <1>0, <1>1, <1>3, <2>1 DEF ToldInv
<1>6. AnsweredInv'
  <2> SUFFICES ASSUME NEW i \in 1 .. Len(regClients'),
                      regClients'[i].notified, regClients'[i].confirmed
               PROVE  ~ InInbox(regClients[i].id)'
    BY DEF AnsweredInv
  <2>1. PICK j \in 1 .. Len(regClients) : regClients'[i] = regClients[j]
    BY <1>2
  <2>2. ~ InInbox(regClients[j].id) /\ regClients[j].id \in Clients
    BY <1>0, <2>1, EntryTypes DEF AnsweredInv
  <2> QED BY <1>3, <2>1, <2>2 DEF InInbox
<1> QED BY <1>3, <1>4, <1>5, <1>6

\* A confirmation that is dispatched, or dropped.
LEMMA DispatchDelivery ==
  ASSUME DeliveryInv, NEW m \in outbox, ConfirmTest(m)
  PROVE  UniqueInv' /\ OrderInv' /\ ToldInv' /\ AnsweredInv'
<1>0. TypeOK /\ UniqueInv /\ OrderInv /\ ToldInv /\ AnsweredInv
  BY DEF DeliveryInv, BlockInv
<1>1. /\ UNCHANGED <<requestId, inbox, regCall, up, registered, regClients>>
      /\ UNCHANGED <<libPc, listMtx, pos>>
      /\ outbox' \subseteq outbox
      /\ \A x \in confCall' : x = m /\ m.req = requestId
  BY DEF ConfirmTest, pasVars, libVars
<1>2. \A x \in Clients : InTransit(x)' => InTransit(x)
  BY <1>1 DEF InTransit
<1>3. \A x : InInbox(x)' = InInbox(x)
  BY <1>1 DEF InInbox
<1>4. UniqueInv'
  BY <1>0, <1>1 DEF UniqueInv, Listed
<1>5. OrderInv'
  BY <1>0, <1>1, <1>2, <1>3 DEF OrderInv
<1>6. ToldInv'
  BY <1>0, <1>1, <1>2, <1>3 DEF ToldInv, Told
<1>7. AnsweredInv'
  BY <1>0, <1>1, <1>3 DEF AnsweredInv
<1> QED BY <1>4, <1>5, <1>6, <1>7

\* A confirmation that is handled: who sent it has no such request left.
LEMMA ConfirmDelivery ==
  ASSUME DeliveryInv, NEW m \in confCall,
         \/ ConfirmUnknown(m) \/ ConfirmUnexpected(m)
         \/ ConfirmRefused(m) \/ ConfirmAccepted(m)
  PROVE  UniqueInv' /\ OrderInv' /\ ToldInv' /\ AnsweredInv'
<1>0. TypeOK /\ UniqueInv /\ OrderInv /\ ToldInv /\ AnsweredInv
  BY DEF DeliveryInv, BlockInv
<1>1. /\ UNCHANGED <<listMtx, requestId, pos, regCall, registered, up, inbox, outbox>>
      /\ confCall' = {} /\ listMtx = "free"
  BY DEF ConfirmUnknown, ConfirmUnexpected, ConfirmRefused, ConfirmAccepted,
     ConfirmLocks, clientVars
<1>2. libPc # "notify" /\ libPc' \in {libPc, "crashed"}
  BY <1>0, <1>1 DEF UniqueInv, ConfirmUnknown, ConfirmUnexpected, ConfirmRefused,
     ConfirmAccepted
<1>3. /\ Len(regClients') = Len(regClients)
      /\ \A i \in 1 .. Len(regClients) :
           /\ regClients'[i].id = regClients[i].id
           /\ regClients'[i].notified = regClients[i].notified
           /\ regClients'[i] = regClients[i] \/ regClients[i].id = m.id
  <2>1. CASE ConfirmAccepted(m)
    BY <1>0, <2>1, AcceptedList
  <2>2. CASE ~ ConfirmAccepted(m)
    BY <2>2 DEF ConfirmUnknown, ConfirmUnexpected, ConfirmRefused
  <2> QED BY <2>1, <2>2
<1>4. \A x : InInbox(x)' = InInbox(x)
  BY <1>1 DEF InInbox
<1>5. \A x \in Clients : InTransit(x)' => InTransit(x)
  BY <1>1 DEF InTransit
<1>6. ~ InInbox(m.id)
  BY <1>0 DEF OrderInv, InTransit, TypeOK, Confirmation
<1>7. UniqueInv'
  BY <1>0, <1>1, <1>2, <1>3, SameIds
<1>8. OrderInv'
  BY <1>0, <1>1, <1>4, <1>5 DEF OrderInv
<1>9. ToldInv'
  BY <1>0, <1>1, <1>2, <1>4, <1>5 DEF ToldInv, Told
<1>10. AnsweredInv'
  BY <1>0, <1>3, <1>4, <1>6 DEF AnsweredInv
<1> QED BY <1>7, <1>8, <1>9, <1>10
\* A client that answers has no second request of the same id.
LEMMA AnswerDelivery ==
  ASSUME DeliveryInv, NEW c \in Clients, NEW l \in BOOLEAN, NEW st, ClientAnswers(c, l, st)
  PROVE  UniqueInv' /\ OrderInv' /\ ToldInv' /\ AnsweredInv'
<1> DEFINE m0 == [id |-> c, req |-> Head(inbox[c]).req, status |-> st]
<1>0. TypeOK /\ UniqueInv /\ OrderInv /\ ToldInv /\ AnsweredInv /\ requestId \in Nat
  BY DEF DeliveryInv, BlockInv, TypeOK
<1>1. /\ UNCHANGED <<requestId, regClients, libPc, listMtx, pos>>
      /\ UNCHANGED <<regCall, confCall, registered, up>>
      /\ up[c] /\ outbox' = outbox \cup {m0}
  BY DEF ClientAnswers, pasVars, libVars, ipcVars
<1>2. /\ Len(inbox[c]) \in Nat \ {0} /\ Head(inbox[c]) = inbox[c][1]
      /\ Len(inbox'[c]) = Len(inbox[c]) - 1
      /\ \A k \in 1 .. Len(inbox'[c]) : /\ k + 1 \in 1 .. Len(inbox[c])
                                        /\ inbox'[c][k] = inbox[c][k + 1]
      /\ \A x \in Clients : x # c => inbox'[x] = inbox[x]
  BY <1>0, AnswerInbox
<1>3. m0.id = c /\ m0.req = inbox[c][1].req /\ 1 \in 1 .. Len(inbox[c])
  BY <1>2
<1>4. m0.req <= requestId
  BY <1>0, <1>3 DEF OrderInv
<1> HIDE DEF m0
<1>5. ASSUME NEW x \in Clients, InInbox(x)' PROVE InInbox(x)
  <2>1. PICK k \in 1 .. Len(inbox'[x]) : inbox'[x][k].req = requestId
    BY <1>1, <1>5 DEF InInbox
  <2>2. CASE x = c
    <3>1. k + 1 \in 1 .. Len(inbox[c]) /\ inbox[c][k + 1].req = requestId
      BY <1>2, <2>1, <2>2
    <3> QED BY <2>2, <3>1 DEF InInbox
  <2>3. CASE x # c
    BY <1>2, <2>1, <2>3 DEF InInbox
  <2> QED BY <2>2, <2>3
<1>6. ASSUME m0.req = requestId PROVE InInbox(c) /\ ~ InInbox(c)'
  <2>1. InInbox(c)
    BY <1>3, <1>6 DEF InInbox
  <2>2. ASSUME NEW k \in 1 .. Len(inbox'[c]) PROVE inbox'[c][k].req # requestId
    <3>1. k + 1 \in 1 .. Len(inbox[c]) /\ 1 < k + 1 /\ inbox'[c][k] = inbox[c][k + 1]
      BY <1>2
    <3>2. requestId < inbox[c][k + 1].req /\ inbox[c][k + 1].req \in Nat
      BY <1>0, <1>3, <1>6, <3>1, InboxTypes DEF OrderInv
    <3> QED BY <1>0, <3>1, <3>2
  <2> QED BY <1>1, <2>1, <2>2 DEF InInbox
<1>7. \A x \in Clients : InTransit(x)' => InTransit(x) \/ (x = c /\ m0.req = requestId)
  BY <1>1, <1>3 DEF InTransit
<1>8. UniqueInv'
  BY <1>0, <1>1 DEF UniqueInv, Listed
<1>9. OrderInv'
  <2>1. ASSUME NEW x \in Clients, InTransit(x)' PROVE ~ InInbox(x)'
    BY <1>0, <1>5, <1>6, <1>7, <2>1 DEF OrderInv
  <2>2. /\ \A k \in 1 .. Len(inbox'[c]) : inbox'[c][k].req <= requestId
        /\ \A j, k \in 1 .. Len(inbox'[c]) : j < k => inbox'[c][j].req < inbox'[c][k].req
    <3>1. \A k \in 1 .. Len(inbox'[c]) : inbox'[c][k].req <= requestId
      BY <1>0, <1>2 DEF OrderInv
    <3>2. ASSUME NEW j \in 1 .. Len(inbox'[c]), NEW k \in 1 .. Len(inbox'[c]), j < k
          PROVE  inbox'[c][j].req < inbox'[c][k].req
      <4>1. /\ j + 1 \in 1 .. Len(inbox[c]) /\ k + 1 \in 1 .. Len(inbox[c]) /\ j + 1 < k + 1
            /\ inbox'[c][j] = inbox[c][j + 1] /\ inbox'[c][k] = inbox[c][k + 1]
        BY <1>2, <3>2
      <4> QED BY <1>0, <4>1 DEF OrderInv
    <3> QED BY <3>1, <3>2
  <2>3. \A m \in outbox' : m.req <= requestId
    BY <1>0, <1>1, <1>4 DEF OrderInv
  <2>4. \A x \in Clients : x # c =>
          /\ \A k \in 1 .. Len(inbox'[x]) : inbox'[x][k].req <= requestId
          /\ \A j, k \in 1 .. Len(inbox'[x]) : j < k => inbox'[x][j].req < inbox'[x][k].req
          /\ ~ up[x] => inbox'[x] = <<>>
    BY <1>0, <1>2 DEF OrderInv
  <2> QED BY <1>0, <1>1, <2>1, <2>2, <2>3, <2>4 DEF OrderInv
<1>10. \A x \in Clients : Told(x)' => Told(x)
  BY <1>5, <1>6, <1>7 DEF Told
<1>11. ToldInv'
  BY <1>0, <1>1, <1>10 DEF ToldInv
<1>12. AnsweredInv'
  BY <1>0, <1>1, <1>5, EntryTypes DEF AnsweredInv
<1> QED BY <1>8, <1>9, <1>11, <1>12

LEMMA ClientDelivery ==
  ASSUME DeliveryInv, ClientNext
  PROVE  UniqueInv' /\ OrderInv' /\ ToldInv' /\ AnsweredInv'
<1>0. TypeOK /\ UniqueInv /\ OrderInv /\ ToldInv /\ AnsweredInv
  BY DEF DeliveryInv, BlockInv
<1>1. PICK c \in Clients : ClientHandles(c) \/ ClientFails(c) \/ ClientCrash(c)
  BY DEF ClientNext
<1>2. CASE ClientCrash(c)
  <2>1. /\ UNCHANGED <<requestId, regClients, libPc, listMtx, pos, regCall, confCall, outbox>>
        /\ inbox' = [inbox EXCEPT ![c] = <<>>] /\ up' = [up EXCEPT ![c] = FALSE]
        /\ registered' = [registered EXCEPT ![c] = FALSE]
    BY <1>2 DEF ClientCrash, pasVars, libVars, ipcVars
  <2>2. /\ OrderInv'
        /\ \A x \in Clients : InInbox(x)' => InInbox(x)
        /\ \A x \in Clients : Told(x)' => Told(x)
    BY <1>0, <2>1, GoneOrder
  <2>3. UniqueInv'
    <3>1. \A x \in Clients : Listed(x) => registered'[x] \/ ~ up'[x]
      BY <1>0, <2>1 DEF UniqueInv, TypeOK
    <3>2. \A x : Listed(x)' = Listed(x)
      BY <2>1 DEF Listed
    <3> QED BY <1>0, <2>1, <3>1, <3>2 DEF UniqueInv
  <2>4. ToldInv' /\ AnsweredInv'
    BY <1>0, <2>1, <2>2, EntryTypes DEF ToldInv, AnsweredInv
  <2> QED BY <2>2, <2>3, <2>4
<1>3. CASE ~ ClientCrash(c)
  <2>1. \E l \in BOOLEAN : \E st : ClientAnswers(c, l, st)
    <3>1. CASE ClientFails(c)
      BY <1>0, <3>1 DEF ClientFails, TypeOK
    <3>2. CASE ClientLocks(c)
      <4>1. ("LOCK" \in NotificationFlags[c]) \in BOOLEAN
        OBVIOUS
      <4> QED BY <3>2, <4>1 DEF ClientLocks
    <3>3. CASE ClientUnlocks(c)
      BY <3>3 DEF ClientUnlocks
    <3> QED BY <1>1, <1>3, <3>1, <3>2, <3>3 DEF ClientHandles
  <2> QED BY <2>1, AnswerDelivery
<1> QED BY <1>2, <1>3

LEMMA NextDeliveryInv ==
  ASSUME DeliveryInv, [Next /\ PromptConfirmation]_vars PROVE DeliveryInv'
<1> SUFFICES UniqueInv' /\ OrderInv' /\ ToldInv' /\ AnsweredInv'
  BY NextBlockInv DEF DeliveryInv
<1>p. PromptConfirmation
  BY DEF PromptConfirmation, vars, pasVars
<1>1. CASE QuietLib
  BY <1>p, <1>1, QuietDelivery
<1>2. CASE NotifySkip \/ NotifyUnavailable \/ NotifyFailed
  BY <1>2, SilentDelivery
<1>3. CASE NotifyDelivered
  BY <1>3, SentDelivery
<1>4. CASE IpcNext
  BY <1>4, RegisterDelivery, UnregisterDelivery, DispatchDelivery, ConfirmDelivery
     DEF IpcNext, IpcInsert, IpcConfirm, IpcDispatch
<1>5. CASE ClientNext
  BY <1>5, ClientDelivery
<1>6. CASE Terminating \/ UNCHANGED vars
  <2>1. UNCHANGED <<requestId, regClients, libPc, listMtx, pos, regCall, confCall>>
        /\ UNCHANGED <<registered, up, inbox, outbox>>
    BY <1>6 DEF Terminating, vars, pasVars, libVars, ipcVars, clientVars
  <2>2. UniqueInv /\ OrderInv /\ ToldInv /\ AnsweredInv
    BY DEF DeliveryInv
  <2>3. UniqueInv' /\ OrderInv'
    BY <2>1, <2>2, SameOrder DEF UniqueInv, Listed
  <2>4. ToldInv' /\ AnsweredInv'
    BY <2>1, <2>2, SameMessages, SameAnswered DEF ToldInv
  <2> QED BY <2>3, <2>4
<1> QED BY <1>1, <1>2, <1>3, <1>4, <1>5, <1>6 DEF Next, LibNext, QuietLib

\* What the service counts as confirmed is about the current request: whatever
\* messages get lost, clients refuse, leave or die, an entry is marked by the
\* answer of its client to this request, as long as no confirmation is preempted
\* between its test and the mutex until the next request.
THEOREM ConfirmedIsCurrent == PromptSpec => []CurrentConfirmation
<1>1. DeliveryInv => CurrentConfirmation
  <2> SUFFICES ASSUME DeliveryInv, NEW i \in DOMAIN regClients,
                      regClients[i].notified, regClients[i].confirmed,
                      NEW k \in DOMAIN inbox[regClients[i].id]
               PROVE  inbox[regClients[i].id][k].req # requestId
    BY DEF CurrentConfirmation
  <2>1. i \in 1 .. Len(regClients)
    BY LenProperties DEF DeliveryInv, BlockInv, TypeOK
  <2>2. ~ InInbox(regClients[i].id) /\ regClients[i].id \in Clients
    BY <2>1, EntryTypes DEF DeliveryInv, BlockInv, AnsweredInv
  <2>3. k \in 1 .. Len(inbox[regClients[i].id])
    BY <2>2, InboxTypes, LenProperties DEF DeliveryInv, BlockInv
  <2> QED BY <2>2, <2>3 DEF InInbox
<1>2. DeliveryInv /\ [Next /\ PromptConfirmation]_vars => DeliveryInv'
  BY NextDeliveryInv
<1> QED BY <1>1, <1>2, InitDeliveryInv, PTL DEF PromptSpec
-----------------------------------------------------------------------------
\* Messages are delivered, nobody leaves the list, and who wants to be told of a
\* lock wants to be told of the unlock.
UnlockReaches ==
  /\ Faults \cap {"send_fail", "unregister"} = {}
  /\ \A c \in Clients :
       NotificationFlags[c] \cap LockAndSync # {} => "UNLOCK" \in NotificationFlags[c]

\* The client is locked, or will be, and no unlock is on its way.
Owed(c) ==
  IF inbox[c] = <<>> THEN held[c] ELSE inbox[c][Len(inbox[c])].mode # Unlock

OwedInv ==
  /\ \A c \in Clients :
       Owed(c) => Listed(c) /\ NotificationFlags[c] \cap LockAndSync # {} /\ up[c]
  /\ libPc \in Waiting => phase = "lock"
  /\ libPc = "idle" \/ (libPc = "changed" /\ phase # "lock") =>
       \A c \in Clients : ~ Owed(c)
  /\ libPc = "notify" /\ phase # "lock" =>
       \A c \in Clients : Owed(c) => \E i \in 1 .. Len(regClients) :
                                       i >= pos /\ regClients[i].id = c

ReleaseInv == BlockInv /\ OwedInv
LEMMA InitReleaseInv == Init => ReleaseInv
BY InitBlockInv DEF Init, ReleaseInv, OwedInv, Owed, Waiting

\* A step that leaves the thread where it is and makes nobody wait for an unlock.
LEMMA NobodyOwed ==
  ASSUME OwedInv, \A c \in Clients : Owed(c)' => Owed(c) /\ up'[c],
         \A i \in 1 .. Len(regClients) :
           i \in 1 .. Len(regClients') /\ regClients'[i].id = regClients[i].id,
         libPc' \in {libPc, "crashed"}, UNCHANGED <<phase, pos>>
  PROVE  OwedInv'
<1>1. \A c : Listed(c) => Listed(c)'
  BY DEF Listed
<1>2. \A c \in Clients : Owed(c)' =>
        Listed(c)' /\ NotificationFlags[c] \cap LockAndSync # {} /\ up'[c]
  BY <1>1 DEF OwedInv
<1>3. /\ libPc' \in Waiting => phase' = "lock"
      /\ libPc' = "idle" \/ (libPc' = "changed" /\ phase' # "lock") =>
           \A c \in Clients : ~ Owed(c)'
  BY DEF OwedInv, Waiting
<1>4. ASSUME libPc' = "notify", phase' # "lock", NEW c \in Clients, Owed(c)'
      PROVE  \E i \in 1 .. Len(regClients') : i >= pos' /\ regClients'[i].id = c
  <2>1. PICK i \in 1 .. Len(regClients) : i >= pos /\ regClients[i].id = c
    BY <1>4 DEF OwedInv
  <2> QED BY <2>1
<1> QED BY <1>2, <1>3, <1>4 DEF OwedInv

\* An unlock ends when every client was visited.
LEMMA QuietOwed ==
  ASSUME TypeOK, OwedInv, QuietLib PROVE OwedInv'
<1>0. Len(regClients) \in Nat /\ pos \in Nat
  BY EntryCount DEF TypeOK
<1>1. UNCHANGED <<regClients, inbox, up, held>>
  BY QuietFrame
<1>2. \A c : Owed(c)' = Owed(c) /\ Listed(c)' = Listed(c)
  BY <1>1 DEF Owed, Listed
<1> USE DEF OwedInv, Waiting
<1>3. CASE LockStart \/ UnlockStart \/ ChangeMode \/ NewRequestId
  BY <1>1, <1>2, <1>3 DEF LockStart, UnlockStart, ChangeMode, NewRequestId
<1>4. CASE NotifyBegin
  <2>1. libPc' = "notify" /\ pos' = 1
    BY <1>4 DEF NotifyBegin
  <2>2. \A c \in Clients : Owed(c) => \E i \in 1 .. Len(regClients) :
                                        i >= pos' /\ regClients[i].id = c
    BY <1>0, <2>1 DEF Listed
  <2> QED BY <1>1, <1>2, <2>1, <2>2
<1>5. CASE NotifyEnd
  <2>1. /\ libPc = "notify" /\ pos > Len(regClients) /\ UNCHANGED phase
        /\ libPc' = IF phase = "lock" THEN "wait_begin" ELSE "changed"
    BY <1>5 DEF NotifyEnd
  <2>2. phase # "lock" => \A c \in Clients : ~ Owed(c)
    BY <1>0, <2>1
  <2> QED BY <1>1, <1>2, <2>1, <2>2
<1>6. CASE WaitBegin \/ WaitTest \/ WaitSleep
  BY <1>1, <1>2, <1>6 DEF WaitBegin, WaitTest, WaitSleep, pasVars
<1>7. CASE WaitAllConfirmed \/ WaitNilClient \/ WaitTimedOut \/ WaitGoesOn
  BY <1>1, <1>2, <1>7 DEF WaitScan, WaitAllConfirmed, WaitNilClient, WaitTimedOut, WaitGoesOn
<1>8. CASE LockGranted \/ LockFailed \/ Unlocked
  BY <1>1, <1>2, <1>8 DEF LockGranted, LockFailed, Unlocked
<1> QED BY <1>3, <1>4, <1>5, <1>6, <1>7, <1>8 DEF QuietLib

\* The loop passes a client over only if no unlock is owed to it, and the last
\* message of an unlock settles it.
LEMMA NotifyOwed ==
  ASSUME UnlockReaches, TypeOK, OwedInv,
         NotifySkip \/ NotifyDelivered \/ NotifyUnavailable \/ NotifyFailed
  PROVE  OwedInv'
<1>0. Len(regClients) \in Nat /\ pos \in Nat
  BY EntryCount DEF TypeOK
<1>1. PICK n \in BOOLEAN, k \in BOOLEAN : NotifySets(n, k)
  BY DEF NotifySkip, NotifyDelivered, NotifyUnavailable, NotifyFailed
<1>2. /\ Len(regClients') = Len(regClients)
      /\ \A i \in 1 .. Len(regClients) : regClients'[i].id = regClients[i].id
      /\ pos \in 1 .. Len(regClients) /\ regClients[pos].id \in Clients
  BY <1>1, NotifySetsList, NotifySetsType, EntryTypes
<1> PICK d \in Clients : d = regClients[pos].id
  BY <1>2
<1>3. /\ libPc = "notify" /\ libPc' = "notify" /\ pos' = pos + 1
      /\ UNCHANGED <<phase, up, held>>
  BY <1>1 DEF NotifySkip, NotifyDelivered, NotifyUnavailable, NotifyFailed, NotifySets,
     NotifyGoesOn, UnlockReaches, clientVars
<1>4. \A c : Listed(c)' = Listed(c)
  BY <1>2 DEF Listed
<1>5. \A c \in Clients : c # d => Owed(c)' = Owed(c)
  <2>1. CASE NotifyDelivered
    BY <1>3, <2>1, Delivered DEF Owed
  <2>2. CASE ~ NotifyDelivered
    BY <2>2 DEF NotifySkip, NotifyUnavailable, NotifyFailed, clientVars, Owed
  <2> QED BY <2>1, <2>2
<1>6. /\ Owed(d)' => NotificationFlags[d] \cap LockAndSync # {} /\ up[d]
      /\ phase # "lock" => ~ Owed(d)'
  <2>1. CASE NotifyDelivered
    <3>1. /\ up[d] /\ Len(inbox'[d]) = Len(inbox[d]) + 1 /\ Len(inbox[d]) \in Nat
          /\ inbox'[d][Len(inbox'[d])].mode = Target
      BY <2>1, Delivered
    <3>2. inbox'[d] # <<>>
      BY <3>1, EmptySeq
    <3>3. phase = "lock" => NotificationFlags[d] \cap LockAndSync # {}
      BY <2>1 DEF NotifyDelivered, Concerned, Target
    <3> QED BY <1>2, <1>3, <3>1, <3>2, <3>3 DEF Owed, Target
  <2>2. CASE ~ NotifyDelivered
    <3>1. Owed(d)' = Owed(d)
      BY <2>2 DEF NotifySkip, NotifyUnavailable, NotifyFailed, clientVars, Owed
    <3>2. CASE NotifyUnavailable
      <4>1. ~ Owed(d)
        BY <1>2, <3>2 DEF NotifyUnavailable, OwedInv
      <4> QED BY <3>1, <4>1
    <3>3. CASE NotifySkip
      <4>1. phase # "lock" => "UNLOCK" \notin NotificationFlags[d]
        BY <3>3 DEF NotifySkip, Concerned, Target, Unlock
      <4>2. phase # "lock" => ~ Owed(d)
        BY <1>2, <4>1 DEF UnlockReaches, OwedInv
      <4> QED BY <1>2, <3>1, <4>2 DEF OwedInv
    <3>4. ~ NotifyFailed
      BY DEF NotifyFailed, UnlockReaches
    <3> QED BY <2>2, <3>2, <3>3, <3>4
  <2> QED BY <2>1, <2>2
<1>7. Listed(d)
  BY <1>2 DEF Listed
<1>8. \A c \in Clients : Owed(c)' =>
        Listed(c)' /\ NotificationFlags[c] \cap LockAndSync # {} /\ up'[c]
  BY <1>3, <1>4, <1>5, <1>6, <1>7 DEF OwedInv
<1>9. ASSUME phase # "lock", NEW c \in Clients, Owed(c)'
      PROVE  \E i \in 1 .. Len(regClients') : i >= pos' /\ regClients'[i].id = c
  <2>1. c # d /\ Owed(c)
    BY <1>5, <1>6, <1>9
  <2>2. PICK i \in 1 .. Len(regClients) : i >= pos /\ regClients[i].id = c
    BY <1>3, <1>9, <2>1 DEF OwedInv
  <2>3. i # pos
    BY <2>1, <2>2
  <2>4. i >= pos'
    BY <1>0, <1>3, <2>3, <2>2
  <2> QED BY <1>2, <2>2, <2>4
<1> QED BY <1>3, <1>8, <1>9 DEF OwedInv, Waiting

\* An answered lock leaves a client locked that was owed an unlock before.
LEMMA AnswerOwed ==
  ASSUME TypeOK, OwedInv, NEW c \in Clients, NEW l \in BOOLEAN, NEW st,
         ClientAnswers(c, l, st), l => Head(inbox[c]).mode = LockAndSync
  PROVE  OwedInv'
<1>1. /\ Len(inbox[c]) \in Nat \ {0} /\ Head(inbox[c]) = inbox[c][1]
      /\ Len(inbox'[c]) = Len(inbox[c]) - 1
      /\ \A k \in 1 .. Len(inbox'[c]) : inbox'[c][k] = inbox[c][k + 1]
      /\ \A x \in Clients : x # c => inbox'[x] = inbox[x] /\ held'[x] = held[x]
      /\ held'[c] = l
  BY AnswerInbox
<1>2. UNCHANGED <<regClients, libPc, phase, pos, up>> /\ inbox[c] # <<>> /\ up[c]
  BY DEF ClientAnswers, pasVars, libVars
<1>3. LockAndSync # Unlock
  BY DEF LockAndSync, Unlock
<1>4. Owed(c)' => Owed(c)
  <2>1. CASE Len(inbox[c]) = 1
    <3>1. inbox'[c] = <<>>
      <4>1. inbox'[c] \in Seq(Request) /\ Len(inbox'[c]) = 0
        BY <1>1, <2>1, HeadTailProperties DEF ClientAnswers, TypeOK
      <4> QED BY <4>1, EmptySeq
    <3> QED BY <1>1, <1>2, <1>3, <2>1, <3>1 DEF Owed
  <2>2. CASE Len(inbox[c]) # 1
    <3>1. Len(inbox'[c]) \in 1 .. Len(inbox'[c]) /\ Len(inbox'[c]) + 1 = Len(inbox[c])
      <4>1. \A n \in Nat \ {0} : n # 1 => n - 1 \in 1 .. n - 1 /\ (n - 1) + 1 = n
        OBVIOUS
      <4> QED BY <1>1, <2>2, <4>1
    <3>2. inbox'[c][Len(inbox'[c])] = inbox[c][Len(inbox[c])]
      BY <1>1, <3>1
    <3>3. inbox'[c] # <<>>
      BY <3>1, EmptySeq
    <3> QED BY <1>2, <3>2, <3>3 DEF Owed
  <2> QED BY <2>1, <2>2
<1>5. \A x \in Clients : Owed(x)' => Owed(x)
  BY <1>1, <1>4 DEF Owed
<1>6. \A x \in Clients : Owed(x)' => Owed(x) /\ up'[x]
  BY <1>2, <1>5 DEF OwedInv
<1> QED BY <1>2, <1>6, NobodyOwed

LEMMA ClientOwed ==
  ASSUME TypeOK, OwedInv, ClientNext PROVE OwedInv'
<1>1. PICK c \in Clients : ClientHandles(c) \/ ClientFails(c) \/ ClientCrash(c)
  BY DEF ClientNext
<1>2. CASE ClientLocks(c)
  <2>1. ("LOCK" \in NotificationFlags[c]) \in BOOLEAN
    OBVIOUS
  <2> QED BY <1>2, <2>1, AnswerOwed DEF ClientLocks
<1>3. CASE ClientUnlocks(c)
  BY <1>3, AnswerOwed DEF ClientUnlocks
<1>4. CASE ClientFails(c)
  <2>1. held[c] \in BOOLEAN
    BY DEF TypeOK
  <2> QED BY <1>4, <2>1, AnswerOwed DEF ClientFails
<1>5. CASE ClientCrash(c)
  <2>1. /\ UNCHANGED <<regClients, libPc, phase, pos>>
        /\ inbox'[c] = <<>> /\ ~ held'[c]
        /\ \A x \in Clients : x # c =>
             inbox'[x] = inbox[x] /\ held'[x] = held[x] /\ up'[x] = up[x]
    BY <1>5 DEF ClientCrash, pasVars, libVars, TypeOK
  <2>2. \A x \in Clients : Owed(x)' => Owed(x) /\ up'[x]
    BY <2>1 DEF Owed, OwedInv
  <2> QED BY <2>1, <2>2, NobodyOwed
<1> QED BY <1>1, <1>2, <1>3, <1>4, <1>5 DEF ClientHandles

\* A callback moves no request and no client's hands.
LEMMA IpcOwed ==
  ASSUME UnlockReaches, TypeOK, OwedInv, IpcNext PROVE OwedInv'
<1>0. Len(regClients) \in Nat
  BY EntryCount
<1>1. UNCHANGED <<inbox, held, up, phase, pos>> /\ libPc' \in {libPc, "crashed"}
  BY DEF IpcNext, IpcInsert, IpcConfirm, IpcDispatch, RegisterTest, RegisterInsert,
     Unregister, ConfirmTest, ConfirmLocks, ConfirmUnknown, ConfirmUnexpected,
     ConfirmRefused, ConfirmAccepted, UnlockReaches, libVars, clientVars
<1>2. \A i \in 1 .. Len(regClients) :
        i \in 1 .. Len(regClients') /\ regClients'[i].id = regClients[i].id
  <2>1. CASE UNCHANGED regClients
    BY <2>1
  <2>2. CASE \E c \in Clients : RegisterInsert(c)
    <3>1. PICK c \in Clients : RegisterInsert(c)
      BY <2>2
    <3> DEFINE e == [id |-> c, notified |-> FALSE, confirmed |-> FALSE]
    <3>2. e \in Entry /\ regClients \in Seq(Entry) /\ regClients' = Append(regClients, e)
      BY <3>1 DEF RegisterInsert, Entry, TypeOK
    <3>3. /\ Len(regClients') = Len(regClients) + 1
          /\ \A i \in 1 .. Len(regClients) : regClients'[i] = regClients[i]
      BY <3>2, AppendProperties
    <3> QED BY <1>0, <3>3
  <2>3. CASE \E m \in confCall : ConfirmAccepted(m)
    BY <2>3, AcceptedList
  <2> QED BY <2>1, <2>2, <2>3 DEF IpcNext, IpcInsert, IpcConfirm, IpcDispatch,
     RegisterTest, Unregister, ConfirmTest, ConfirmUnknown, ConfirmUnexpected,
     ConfirmRefused, UnlockReaches, pasVars
<1>3. \A c \in Clients : Owed(c)' => Owed(c) /\ up'[c]
  BY <1>1 DEF Owed, OwedInv
<1> QED BY <1>1, <1>2, <1>3, NobodyOwed

LEMMA NextReleaseInv ==
  ASSUME UnlockReaches, ReleaseInv, [Next]_vars PROVE ReleaseInv'
<1>0. TypeOK /\ OwedInv
  BY DEF ReleaseInv, BlockInv
<1> SUFFICES OwedInv'
  BY NextBlockInv DEF ReleaseInv
<1>1. CASE QuietLib
  BY <1>0, <1>1, QuietOwed
<1>2. CASE NotifySkip \/ NotifyDelivered \/ NotifyUnavailable \/ NotifyFailed
  BY <1>0, <1>2, NotifyOwed
<1>3. CASE IpcNext \/ ClientNext
  BY <1>0, <1>3, IpcOwed, ClientOwed
<1>4. CASE Terminating \/ UNCHANGED vars
  BY <1>0, <1>4 DEF Terminating, vars, pasVars, libVars, clientVars, OwedInv, Owed, Listed
<1> QED BY <1>1, <1>2, <1>3, <1>4 DEF Next, LibNext, QuietLib

\* Between two operations no client is left locked out: whoever was told to lock
\* has an unlock as the last of its requests, though clients refuse or die and
\* callbacks are preempted, as long as messages are delivered and nobody leaves.
THEOREM UnlockFollowsLock == ASSUME UnlockReaches PROVE Spec => []NoClientLeftLocked
<1>1. ReleaseInv => NoClientLeftLocked
  BY DEF ReleaseInv, OwedInv, Owed, NoClientLeftLocked
<1>2. ReleaseInv /\ [Next]_vars => ReleaseInv'
  BY NextReleaseInv
<1> QED BY <1>1, <1>2, InitReleaseInv, PTL DEF Spec
-----------------------------------------------------------------------------
(* How many come in too late: the one callback that had found the          *)
(* registration open, whatever the environment does.                       *)

\* A lock concerns the client, and the client was not asked.
Missed(e) == NotificationFlags[e.id] \cap LockAndSync # {} /\ ~ e.notified

\* The loop misses nobody it passes; afterwards one registration is under way, or
\* has come in.
LateInv ==
  /\ \A a, b \in regCall : a = b
  /\ libPc = "notify" <=> listMtx = "lib"
  /\ libPc \in Waiting => phase = "lock"
  /\ phase = "lock" /\ libPc = "notify" =>
       \A i \in 1 .. Len(regClients) : i < pos => ~ Missed(regClients[i])
  /\ AllAsked =>
       \A i \in 1 .. Len(regClients) :
         Missed(regClients[i]) =>
           /\ regCall = {}
           /\ \A j \in 1 .. Len(regClients) : Missed(regClients[j]) => i = j

LateJoinInv == BlockInv /\ LateInv

LEMMA InitLateJoinInv == Init => LateJoinInv
BY InitBlockInv DEF Init, LateJoinInv, LateInv, AllAsked, Waiting

\* The loop is over when every client was visited.
LEMMA QuietLate ==
  ASSUME TypeOK, LateInv, QuietLib PROVE LateInv'
<1>0. Len(regClients) \in Nat /\ pos \in Nat
  BY EntryCount DEF TypeOK
<1>1. UNCHANGED <<regClients, regCall>>
  BY QuietFrame
<1>2. \A e : Missed(e)' = Missed(e)
  BY DEF Missed
<1> USE DEF LateInv, AllAsked, Waiting
<1>3. CASE LockStart \/ UnlockStart \/ ChangeMode \/ NewRequestId
  BY <1>1, <1>2, <1>3 DEF LockStart, UnlockStart, ChangeMode, NewRequestId
<1>4. CASE NotifyBegin
  <2>1. libPc' = "notify" /\ listMtx' = "lib" /\ pos' = 1
    BY <1>4 DEF NotifyBegin
  <2>2. \A i \in 1 .. Len(regClients) : ~ (i < pos')
    BY <1>0, <2>1
  <2> QED BY <1>1, <1>2, <2>1, <2>2
<1>5. CASE NotifyEnd
  <2>1. /\ libPc = "notify" /\ listMtx' = "free" /\ pos > Len(regClients) /\ UNCHANGED phase
        /\ libPc' = IF phase = "lock" THEN "wait_begin" ELSE "changed"
    BY <1>5 DEF NotifyEnd
  <2>2. phase = "lock" => \A i \in 1 .. Len(regClients) : ~ Missed(regClients[i])
    BY <1>0, <2>1
  <2> QED BY <1>1, <1>2, <2>1, <2>2
<1>6. CASE WaitBegin \/ WaitTest \/ WaitSleep
  BY <1>1, <1>2, <1>6 DEF WaitBegin, WaitTest, WaitSleep, pasVars
<1>7. CASE WaitAllConfirmed \/ WaitNilClient \/ WaitTimedOut \/ WaitGoesOn
  BY <1>1, <1>2, <1>7 DEF WaitScan, WaitAllConfirmed, WaitNilClient, WaitTimedOut, WaitGoesOn
<1>8. CASE LockGranted \/ LockFailed \/ Unlocked
  BY <1>1, <1>2, <1>8 DEF LockGranted, LockFailed, Unlocked
<1> QED BY <1>3, <1>4, <1>5, <1>6, <1>7, <1>8 DEF QuietLib

\* Whoever a turn of the loop passes was notified, or the lock does not concern it.
LEMMA NotifyLate ==
  ASSUME TypeOK, LateInv,
         NotifySkip \/ NotifyDelivered \/ NotifyUnavailable \/ NotifyFailed
  PROVE  LateInv'
<1>0. Len(regClients) \in Nat /\ pos \in Nat
  BY EntryCount DEF TypeOK
<1>1. PICK n \in BOOLEAN, k \in BOOLEAN :
        NotifySets(n, k) /\ (~ n => NotifySkip \/ NotifyFailed)
  BY DEF NotifySkip, NotifyDelivered, NotifyUnavailable, NotifyFailed
<1>2. /\ Len(regClients') = Len(regClients)
      /\ \A i \in 1 .. Len(regClients) : i # pos => regClients'[i] = regClients[i]
      /\ regClients'[pos].id = regClients[pos].id /\ regClients'[pos].notified = n
  BY <1>1, NotifySetsList, NotifySetsType
<1>3. /\ libPc = "notify" /\ UNCHANGED <<regCall, phase>>
      /\ \/ libPc' = "notify" /\ listMtx' = "lib" /\ pos' = pos + 1 /\ ~ NotifyFailed
         \/ libPc' = "changed" /\ listMtx' = "free" /\ retVal' = FALSE
  BY <1>0, <1>1 DEF NotifySkip, NotifyDelivered, NotifyUnavailable, NotifyFailed,
     NotifySets, NotifyGoesOn, ipcVars, LateInv
<1>4. ~ AllAsked'
  BY <1>3 DEF AllAsked
<1>5. ASSUME phase = "lock", libPc' = "notify", NEW i \in 1 .. Len(regClients), i < pos'
      PROVE  ~ Missed(regClients'[i])
  <2>1. CASE i # pos
    BY <1>0, <1>2, <1>3, <1>5, <2>1 DEF LateInv
  <2>2. CASE i = pos /\ n
    BY <1>2, <2>2 DEF Missed
  <2>3. CASE i = pos /\ NotifySkip
    BY <1>2, <1>5, <2>3 DEF NotifySkip, Concerned, Target, Missed
  <2> QED BY <1>1, <1>3, <1>5, <2>1, <2>2, <2>3
<1>6. \A e : Missed(e)' = Missed(e)
  BY DEF Missed
<1> QED BY <1>2, <1>3, <1>4, <1>5, <1>6 DEF LateInv, Waiting

\* A step that takes no entry in and unmarks none.
LEMMA NobodyLate ==
  ASSUME TypeOK, LateInv,
         \E old \in [1 .. Len(regClients') -> 1 .. Len(regClients)] :
           /\ \A i \in 1 .. Len(regClients') :
                /\ regClients'[i].id = regClients[old[i]].id
                /\ regClients'[i].notified = regClients[old[i]].notified
           /\ \A i, j \in 1 .. Len(regClients') : old[i] = old[j] => i = j,
         regCall' \subseteq regCall, libPc' \in {libPc, "crashed"}, libPc # "notify",
         UNCHANGED <<listMtx, phase, retVal>>
  PROVE  LateInv'
<1>0. PICK old \in [1 .. Len(regClients') -> 1 .. Len(regClients)] :
        /\ \A i \in 1 .. Len(regClients') :
             /\ regClients'[i].id = regClients[old[i]].id
             /\ regClients'[i].notified = regClients[old[i]].notified
        /\ \A i, j \in 1 .. Len(regClients') : old[i] = old[j] => i = j
  OBVIOUS
<1>1. \A i \in 1 .. Len(regClients') :
        /\ old[i] \in 1 .. Len(regClients)
        /\ Missed(regClients'[i]) => Missed(regClients[old[i]])
  BY <1>0 DEF Missed
<1>2. AllAsked' => AllAsked
  BY DEF AllAsked
<1>3. \A e : Missed(e)' = Missed(e)
  BY DEF Missed
<1> QED BY <1>0, <1>1, <1>2, <1>3 DEF LateInv, Waiting

\* One entry is taken in by a call that was the only one, and began before.
LEMMA InsertLate ==
  ASSUME TypeOK, LateInv, NEW c \in Clients, RegisterInsert(c) PROVE LateInv'
<1> DEFINE e == [id |-> c, notified |-> FALSE, confirmed |-> FALSE]
<1>0. Len(regClients) \in Nat
  BY EntryCount
<1>1. /\ listMtx = "free" /\ c \in regCall /\ regCall' = {}
      /\ UNCHANGED <<listMtx, libVars>>
  BY DEF RegisterInsert
<1>2. e \in Entry /\ regClients \in Seq(Entry) /\ regClients' = Append(regClients, e)
  BY DEF RegisterInsert, Entry, TypeOK
<1>3. /\ Len(regClients') = Len(regClients) + 1
      /\ \A i \in 1 .. Len(regClients) : regClients'[i] = regClients[i]
  BY <1>2, AppendProperties
<1>4. AllAsked => \A i \in 1 .. Len(regClients) : ~ Missed(regClients'[i])
  BY <1>1, <1>3 DEF LateInv
<1>5. \A i \in 1 .. Len(regClients') : i \in 1 .. Len(regClients) \/ i = Len(regClients) + 1
  BY <1>0, <1>3
<1>6. \A x : Missed(x)' = Missed(x)
  BY DEF Missed
<1>7. AllAsked' = AllAsked /\ libPc # "notify"
  BY <1>1 DEF AllAsked, libVars, LateInv
<1>8. AllAsked => \A i, j \in 1 .. Len(regClients') :
                    Missed(regClients'[i]) /\ Missed(regClients'[j]) => i = j
  BY <1>4, <1>5
<1> QED BY <1>1, <1>6, <1>7, <1>8 DEF LateInv, libVars

\* Who leaves may take everybody along, and nobody comes in.
LEMMA LeaveLate ==
  ASSUME TypeOK, LateInv, NEW c \in Clients, Unregister(c) PROVE LateInv'
<1> DEFINE k == FindClient(c)
<1>0. Len(regClients) \in Nat
  BY EntryCount
<1>1. k \in Nat /\ (k # 0 => k \in 1 .. Len(regClients))
  BY FindClientFinds DEF TypeOK
<1>2. /\ regClients' = CASE k = 0 -> regClients
                         [] k = 1 -> <<>>
                         [] OTHER -> RemoveAt(regClients, k)
      /\ UNCHANGED <<libPc, listMtx, phase, retVal, regCall>> /\ libPc # "notify"
  BY DEF Unregister, libVars, ipcVars, LateInv
<1> HIDE DEF k
<1>3. CASE k = 0
  <2> DEFINE old == [i \in 1 .. Len(regClients') |-> i]
  <2>1. regClients' = regClients
    BY <1>2, <1>3
  <2>2. old \in [1 .. Len(regClients') -> 1 .. Len(regClients)]
        /\ \A i \in 1 .. Len(regClients') : old[i] = i
    BY <2>1
  <2> HIDE DEF old
  <2>3. \E f \in [1 .. Len(regClients') -> 1 .. Len(regClients)] :
          /\ \A i \in 1 .. Len(regClients') :
               /\ regClients'[i].id = regClients[f[i]].id
               /\ regClients'[i].notified = regClients[f[i]].notified
          /\ \A i, j \in 1 .. Len(regClients') : f[i] = f[j] => i = j
    BY <2>1, <2>2
  <2> QED BY <1>2, <2>3, NobodyLate
<1>4. CASE k = 1
  <2>1. Len(regClients') = 0
    BY <1>2, <1>4, EmptySeq
  <2>2. AllAsked' = AllAsked
    BY <1>2 DEF AllAsked
  <2> QED BY <1>2, <2>1, <2>2 DEF LateInv, Waiting
<1>5. CASE k # 0 /\ k # 1
  <2>1. regClients \in Seq(Entry) /\ k \in 1 .. Len(regClients)
        /\ regClients' = RemoveAt(regClients, k)
    BY <1>1, <1>2, <1>5 DEF TypeOK
  <2> DEFINE old == [i \in 1 .. Len(regClients') |-> IF i < k THEN i ELSE i + 1]
  <2>2. /\ Len(regClients') = Len(regClients) - 1
        /\ \A i \in 1 .. Len(regClients) - 1 :
             regClients'[i] = IF i < k THEN regClients[i] ELSE regClients[i + 1]
    BY <2>1, RemoveAtShifts
  <2>3. old \in [1 .. Len(regClients') -> 1 .. Len(regClients)]
    BY <1>0, <2>1, <2>2
  <2>4. \A i \in 1 .. Len(regClients') : regClients'[i] = regClients[old[i]]
    BY <1>0, <2>1, <2>2
  <2>5. \A i, j \in 1 .. Len(regClients') : old[i] = old[j] => i = j
    BY <1>0, <2>1, <2>2
  <2> HIDE DEF old
  <2>6. \E f \in [1 .. Len(regClients') -> 1 .. Len(regClients)] :
          /\ \A i \in 1 .. Len(regClients') :
               /\ regClients'[i].id = regClients[f[i]].id
               /\ regClients'[i].notified = regClients[f[i]].notified
          /\ \A i, j \in 1 .. Len(regClients') : f[i] = f[j] => i = j
    BY <2>3, <2>4, <2>5
  <2> QED BY <1>2, <2>6, NobodyLate
<1> QED BY <1>3, <1>4, <1>5

LEMMA NextLateInv ==
  ASSUME LateJoinInv, [Next]_vars PROVE LateJoinInv'
<1>0. TypeOK /\ BlockInv /\ LateInv
  BY DEF LateJoinInv, BlockInv
<1> SUFFICES LateInv'
  BY NextBlockInv DEF LateJoinInv
<1>1. CASE QuietLib
  BY <1>0, <1>1, QuietLate
<1>2. CASE NotifySkip \/ NotifyDelivered \/ NotifyUnavailable \/ NotifyFailed
  BY <1>0, <1>2, NotifyLate
<1>3. ASSUME NEW c \in Clients, RegisterTest(c) PROVE LateInv'
  <2>1. /\ ~ AllAsked /\ regCall' = {c}
        /\ UNCHANGED <<regClients, listMtx, libPc, phase, retVal, pos>>
    BY <1>0, <1>3 DEF RegisterTest, IpcIdle, BlockInv, AllAsked, pasVars, libVars
  <2> QED BY <1>0, <2>1 DEF LateInv, AllAsked, Missed, Waiting
<1>4. CASE IpcInsert
  BY <1>0, <1>4, InsertLate DEF IpcInsert
<1>5. ASSUME NEW c \in Clients, Unregister(c) PROVE LateInv'
  BY <1>0, <1>5, LeaveLate
<1>6. CASE IpcConfirm
  <2>1. PICK m \in confCall : \/ ConfirmUnknown(m) \/ ConfirmUnexpected(m)
                            \/ ConfirmRefused(m) \/ ConfirmAccepted(m)
    BY <1>6 DEF IpcConfirm
  <2>2. /\ UNCHANGED <<listMtx, phase, retVal, regCall>> /\ libPc # "notify"
        /\ libPc' \in {libPc, "crashed"}
    BY <1>0, <2>1 DEF ConfirmUnknown, ConfirmUnexpected, ConfirmRefused, ConfirmAccepted,
       ConfirmLocks, LateInv
  <2>3. /\ Len(regClients') = Len(regClients)
        /\ \A i \in 1 .. Len(regClients) :
             /\ regClients'[i].id = regClients[i].id
             /\ regClients'[i].notified = regClients[i].notified
    BY <1>0, <2>1, AcceptedList DEF ConfirmUnknown, ConfirmUnexpected, ConfirmRefused
  <2> DEFINE old == [i \in 1 .. Len(regClients') |-> i]
  <2>4. old \in [1 .. Len(regClients') -> 1 .. Len(regClients)]
        /\ \A i \in 1 .. Len(regClients') : old[i] = i
    BY <2>3
  <2> HIDE DEF old
  <2>5. \E f \in [1 .. Len(regClients') -> 1 .. Len(regClients)] :
          /\ \A i \in 1 .. Len(regClients') :
               /\ regClients'[i].id = regClients[f[i]].id
               /\ regClients'[i].notified = regClients[f[i]].notified
          /\ \A i, j \in 1 .. Len(regClients') : f[i] = f[j] => i = j
    BY <2>3, <2>4
  <2> QED BY <1>0, <2>2, <2>5, NobodyLate
<1>7. CASE IpcDispatch \/ ClientNext \/ Terminating \/ UNCHANGED vars
  <2>1. UNCHANGED <<regClients, listMtx, libPc, phase, retVal, pos, regCall>>
    BY <1>7 DEF IpcDispatch, ConfirmTest, ClientNext, ClientHandles, ClientLocks,
       ClientUnlocks, ClientFails, ClientAnswers, ClientCrash, Terminating, vars,
       pasVars, libVars, ipcVars
  <2> QED BY <1>0, <2>1 DEF LateInv, AllAsked, Missed, Waiting
<1> QED
  BY <1>1, <1>2, <1>3, <1>4, <1>5, <1>6, <1>7 DEF Next, LibNext, IpcNext, QuietLib

\* However long a callback is preempted and whatever fails, at most one client that
\* a lock concerns is in the list without having been asked.
THEOREM OneLateJoin == Spec => []OneLateRegistration
<1>1. LateJoinInv => OneLateRegistration
  <2> SUFFICES ASSUME LateJoinInv, AllAsked, NEW i \in Unasked, NEW j \in Unasked PROVE i = j
    BY DEF OneLateRegistration
  <2>1. DOMAIN regClients = 1 .. Len(regClients)
    BY LenProperties DEF LateJoinInv, BlockInv, TypeOK
  <2> QED BY <2>1 DEF LateJoinInv, LateInv, Unasked, Missed
<1>2. LateJoinInv /\ [Next]_vars => LateJoinInv'
  BY NextLateInv
<1> QED BY <1>1, <1>2, InitLateJoinInv, PTL DEF Spec
=============================================================================
