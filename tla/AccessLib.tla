----------------------------- MODULE AccessLib -----------------------------
(***************************************************************************)
(* The path of a request from an administrative client to the service and  *)
(* back: the library ssw_pers_admin_access_lib.c in the clients, and the   *)
(* access-lib thread with its queues in ssw_pers_admin_service.c.          *)
(*                                                                         *)
(* A call takes a system-wide semaphore, opens two message queues of       *)
(* capacity one, sends its request, waits for the response, and gives the  *)
(* semaphore back.  The service creates the three objects when it starts   *)
(* and unlinks them when it stops; when it crashes they stay, and the next *)
(* instance opens them.  Objects are named by the boot that created them,  *)
(* so that a client can hold one which no longer has a name.               *)
(*                                                                         *)
(* Locking the PCL clients and the operation itself are one step here:     *)
(* modules PclLock and ShutdownGate are about them.                        *)
(***************************************************************************)
EXTENDS Naturals, Sequences, FiniteSets

CONSTANTS
  Clients,   \* threads that call the library
  MaxCalls,  \* bound on the calls each makes
  MaxBoots,  \* bound on the starts of the service
  Faults     \* what may go wrong, see FaultKinds

(***************************************************************************)
(* "interrupt": a signal interrupts a blocking call of a client.  "kill":  *)
(* a client dies in a call.  "crash": the service dies.  "stop": it is     *)
(* stopped by SIGTERM, and restarted.                                      *)
(***************************************************************************)
FaultKinds == {"interrupt", "kill", "crash", "stop"}

ASSUME ConstantsAssumption ==
  /\ MaxCalls \in Nat /\ MaxBoots \in Nat
  /\ Faults \subseteq FaultKinds

Results == {"success", "failure"}
Boots == 1 .. MaxBoots
Call == [client : Clients, n : 1 .. MaxCalls]
None == [none |-> TRUE]

VARIABLES
  \* the system: the names, 0 when there is none, and the objects
  semName, reqName, respName,
  semValue, reqQueue, respQueue,
  \* the service
  boot,       \* the number of starts so far
  daemonPc,
  ownSem,     \* g_pSyncSem # NIL
  daemonReq, daemonResp,  \* g_mqdMsgQueueRequest, g_mqdMsgQueueResponse
  current,    \* sRequest
  result,     \* sResponse.result
  \* the clients
  clientPc, calls, clientSem, clientReq, clientResp,
  answer,     \* what the call returns
  \* history
  begun, executed

names == <<semName, reqName, respName>>
objects == <<semValue, reqQueue, respQueue>>
daemonVars == <<boot, daemonPc, ownSem, daemonReq, daemonResp, current, result>>
clientVars == <<clientPc, calls, clientSem, clientReq, clientResp, answer>>
history == <<begun, executed>>
vars == <<names, objects, daemonVars, clientVars, history>>

MyCall(c) == [client |-> c, n |-> calls[c]]

Init ==
  /\ semName = 0 /\ reqName = 0 /\ respName = 0
  /\ semValue = [b \in Boots |-> 0]
  /\ reqQueue = [b \in Boots |-> <<>>]
  /\ respQueue = [b \in Boots |-> <<>>]
  /\ boot = 0 /\ daemonPc = "down" /\ ownSem = FALSE
  /\ daemonReq = 0 /\ daemonResp = 0 /\ current = None /\ result = "none"
  /\ clientPc = [c \in Clients |-> "idle"]
  /\ calls = [c \in Clients |-> 0]
  /\ clientSem = [c \in Clients |-> 0]
  /\ clientReq = [c \in Clients |-> 0]
  /\ clientResp = [c \in Clients |-> 0]
  /\ answer = [c \in Clients |-> "none"]
  /\ begun = {} /\ executed = {}
-----------------------------------------------------------------------------
(* The service.                                                            *)

\* systemd starts it, again and again ("Restart=always").
Boot ==
  /\ daemonPc = "down" /\ boot < MaxBoots
  /\ boot' = boot + 1
  /\ daemonPc' = "init_sem"
  /\ ownSem' = FALSE /\ daemonReq' = 0 /\ daemonResp' = 0
  /\ current' = None /\ result' = "none"
  /\ UNCHANGED <<names, objects, clientVars, history>>

\* Mutant: a semaphore left by a crash is created anew.
InitSemAnew ==
  /\ daemonPc = "init_sem"
  /\ semName' = boot /\ ownSem' = TRUE
  /\ semValue' = [semValue EXCEPT ![boot] = 1]
  /\ daemonPc' = "init_req"
  /\ UNCHANGED <<reqName, respName, reqQueue, respQueue, boot, daemonReq, daemonResp,
                 current, result, clientVars, history>>

\* persadmin_InitAccessLibComm.  A semaphore left by a crash is not opened: the
\* handle stays NIL.
InitSem ==
  /\ daemonPc = "init_sem"
  /\ IF semName = 0
     THEN /\ semName' = boot /\ ownSem' = TRUE
          /\ semValue' = [semValue EXCEPT ![boot] = 1]
     ELSE UNCHANGED <<semName, ownSem, semValue>>
  /\ daemonPc' = "init_req"
  /\ UNCHANGED <<reqName, respName, reqQueue, respQueue, boot, daemonReq, daemonResp,
                 current, result, clientVars, history>>

\* The queues left by a crash are opened, with what is in them.
InitReq ==
  /\ daemonPc = "init_req"
  /\ reqName' = IF reqName = 0 THEN boot ELSE reqName
  /\ daemonReq' = reqName'
  /\ daemonPc' = "init_resp"
  /\ UNCHANGED <<semName, respName, objects, boot, ownSem, daemonResp, current,
                 result, clientVars, history>>

InitResp ==
  /\ daemonPc = "init_resp"
  /\ respName' = IF respName = 0 THEN boot ELSE respName
  /\ daemonResp' = respName'
  /\ daemonPc' = "idle"
  /\ UNCHANGED <<semName, reqName, objects, boot, ownSem, daemonReq, current,
                 result, clientVars, history>>

\* persadmin_ReadMsgFromQueue: nothing within 50 ms, "timeout - repeat the call".
Poll ==
  /\ daemonPc = "idle" /\ reqQueue[daemonReq] = <<>>
  /\ UNCHANGED vars

\* Mutant: the request is looked at, and left in the queue.
TakeRequestPeek ==
  /\ daemonPc = "idle" /\ reqQueue[daemonReq] # <<>>
  /\ current' = Head(reqQueue[daemonReq])
  /\ begun' = begun \cup {Head(reqQueue[daemonReq])}
  /\ daemonPc' = "process"
  /\ UNCHANGED <<names, objects, boot, ownSem, daemonReq,
                 daemonResp, result, clientVars, executed>>

TakeRequest ==
  /\ daemonPc = "idle" /\ reqQueue[daemonReq] # <<>>
  /\ current' = Head(reqQueue[daemonReq])
  /\ reqQueue' = [reqQueue EXCEPT ![daemonReq] = Tail(@)]
  /\ begun' = begun \cup {Head(reqQueue[daemonReq])}
  /\ daemonPc' = "process"
  /\ UNCHANGED <<names, semValue, respQueue, boot, ownSem, daemonReq,
                 daemonResp, result, clientVars, executed>>

Process ==
  /\ daemonPc = "process"
  /\ result' \in Results
  /\ executed' = executed \cup {[call |-> current, res |-> result']}
  /\ daemonPc' = "respond"
  /\ UNCHANGED <<names, objects, boot, ownSem, daemonReq, daemonResp, current,
                 clientVars, begun>>

\* mq_send blocks while the queue is full.
Respond ==
  /\ daemonPc = "respond" /\ respQueue[daemonResp] = <<>>
  /\ respQueue' = [respQueue EXCEPT ![daemonResp] = <<result>>]
  /\ daemonPc' = "idle"
  /\ UNCHANGED <<names, semValue, reqQueue, boot, ownSem, daemonReq, daemonResp,
                 current, result, clientVars, history>>

\* SIGTERM: the loop ends between two requests; persadmin_CloseAccessLibComm
\* unlinks the semaphore if this instance created it, then the queues.
Stop ==
  /\ "stop" \in Faults /\ daemonPc = "idle"
  /\ semName' = IF ownSem THEN 0 ELSE semName
  /\ daemonPc' = "close_req"
  /\ UNCHANGED <<reqName, respName, objects, boot, ownSem, daemonReq, daemonResp,
                 current, result, clientVars, history>>

CloseReq ==
  /\ daemonPc = "close_req"
  /\ reqName' = 0
  /\ daemonPc' = "close_resp"
  /\ UNCHANGED <<semName, respName, objects, boot, ownSem, daemonReq, daemonResp,
                 current, result, clientVars, history>>

CloseResp ==
  /\ daemonPc = "close_resp"
  /\ respName' = 0
  /\ daemonPc' = "down"
  /\ UNCHANGED <<semName, reqName, objects, boot, ownSem, daemonReq, daemonResp,
                 current, result, clientVars, history>>

\* The process dies; its handles are gone, the named objects are not.
Crash ==
  /\ "crash" \in Faults /\ daemonPc # "down"
  /\ daemonPc' = "down"
  /\ UNCHANGED <<names, objects, boot, ownSem, daemonReq, daemonResp, current,
                 result, clientVars, history>>

\* The bound on the boots is reached: the service stays down.
NoMoreBoots == daemonPc = "down" /\ boot = MaxBoots /\ UNCHANGED vars

DaemonStep ==
  \/ Boot \/ InitSem \/ InitReq \/ InitResp \/ TakeRequest \/ Process \/ Respond
  \/ CloseReq \/ CloseResp
DaemonNext == DaemonStep \/ Poll \/ Stop \/ Crash \/ NoMoreBoots

-----------------------------------------------------------------------------
(* A call of the library.  The nine functions differ in their parameters.  *)

GoTo(c, pc) == clientPc' = [clientPc EXCEPT ![c] = pc]

CallBegin(c) ==
  /\ clientPc[c] = "idle" /\ calls[c] < MaxCalls
  /\ calls' = [calls EXCEPT ![c] = @ + 1]
  /\ answer' = [answer EXCEPT ![c] = "none"]
  /\ GoTo(c, "open_sem")
  /\ UNCHANGED <<names, objects, daemonVars, clientSem, clientReq, clientResp, history>>

\* persadmin_lockSyncSem: sem_open, then sem_wait.
OpenSem(c) ==
  /\ clientPc[c] = "open_sem"
  /\ IF semName = 0
     THEN /\ GoTo(c, "failed")
          /\ answer' = [answer EXCEPT ![c] = "refused"]
          /\ UNCHANGED clientSem
     ELSE /\ clientSem' = [clientSem EXCEPT ![c] = semName]
          /\ GoTo(c, "wait_sem")
          /\ UNCHANGED answer
  /\ UNCHANGED <<names, objects, daemonVars, calls, clientReq, clientResp, history>>

\* Mutant: the semaphore is opened and not waited for.
WaitSemNot(c) ==
  /\ clientPc[c] = "wait_sem"
  /\ GoTo(c, "open_req")
  /\ UNCHANGED <<names, objects, daemonVars, calls, clientSem,
                 clientReq, clientResp, answer, history>>

WaitSem(c) ==
  /\ clientPc[c] = "wait_sem" /\ semValue[clientSem[c]] > 0
  /\ semValue' = [semValue EXCEPT ![clientSem[c]] = @ - 1]
  /\ GoTo(c, "open_req")
  /\ UNCHANGED <<names, reqQueue, respQueue, daemonVars, calls, clientSem,
                 clientReq, clientResp, answer, history>>

\* An error after the semaphore was taken: nothing was sent.
Fails(c) ==
  /\ GoTo(c, "post")
  /\ answer' = [answer EXCEPT ![c] = "refused"]

OpenReq(c) ==
  /\ clientPc[c] = "open_req"
  /\ IF reqName = 0
     THEN Fails(c) /\ UNCHANGED clientReq
     ELSE /\ clientReq' = [clientReq EXCEPT ![c] = reqName]
          /\ GoTo(c, "open_resp") /\ UNCHANGED answer
  /\ UNCHANGED <<names, objects, daemonVars, calls, clientSem, clientResp, history>>

OpenResp(c) ==
  /\ clientPc[c] = "open_resp"
  /\ IF respName = 0
     THEN Fails(c) /\ UNCHANGED clientResp
     ELSE /\ clientResp' = [clientResp EXCEPT ![c] = respName]
          /\ GoTo(c, "send") /\ UNCHANGED answer
  /\ UNCHANGED <<names, objects, daemonVars, calls, clientSem, clientReq, history>>

\* mq_send blocks while the queue is full.
Send(c) ==
  /\ clientPc[c] = "send" /\ reqQueue[clientReq[c]] = <<>>
  /\ reqQueue' = [reqQueue EXCEPT ![clientReq[c]] = <<MyCall(c)>>]
  /\ GoTo(c, "receive")
  /\ UNCHANGED <<names, semValue, respQueue, daemonVars, calls, clientSem,
                 clientReq, clientResp, answer, history>>

\* Mutant: the response is not removed from the queue.
ReceivePeek(c) ==
  /\ clientPc[c] = "receive" /\ respQueue[clientResp[c]] # <<>>
  /\ answer' = [answer EXCEPT ![c] = Head(respQueue[clientResp[c]])]
  /\ GoTo(c, "post")
  /\ UNCHANGED <<names, objects, daemonVars, calls, clientSem,
                 clientReq, clientResp, history>>

\* Whatever is in the queue is taken for the response.
Receive(c) ==
  /\ clientPc[c] = "receive" /\ respQueue[clientResp[c]] # <<>>
  /\ answer' = [answer EXCEPT ![c] = Head(respQueue[clientResp[c]])]
  /\ respQueue' = [respQueue EXCEPT ![clientResp[c]] = Tail(@)]
  /\ GoTo(c, "post")
  /\ UNCHANGED <<names, semValue, reqQueue, daemonVars, calls, clientSem,
                 clientReq, clientResp, history>>

\* Mutant: the semaphore is closed and not posted.
PostNot(c) ==
  /\ clientPc[c] \in {"post", "failed"}
  /\ GoTo(c, "idle")
  /\ UNCHANGED <<names, objects, daemonVars, calls, clientSem,
                 clientReq, clientResp, answer, history>>

\* Mutant: the semaphore is posted although the wait for it failed.
PostAlways(c) ==
  /\ clientPc[c] \in {"post", "failed"}
  /\ semValue' = IF clientSem[c] # 0
                 THEN [semValue EXCEPT ![clientSem[c]] = @ + 1] ELSE semValue
  /\ GoTo(c, "idle")
  /\ UNCHANGED <<names, reqQueue, respQueue, daemonVars, calls, clientSem,
                 clientReq, clientResp, answer, history>>

\* persadmin_unlockSyncSem, when the semaphore was taken; the call returns.
Post(c) ==
  /\ clientPc[c] \in {"post", "failed"}
  /\ semValue' = IF clientPc[c] = "post"
                 THEN [semValue EXCEPT ![clientSem[c]] = @ + 1] ELSE semValue
  /\ GoTo(c, "idle")
  /\ UNCHANGED <<names, reqQueue, respQueue, daemonVars, calls, clientSem,
                 clientReq, clientResp, answer, history>>

\* EINTR.  A failed mq_send leaves the result at -1, a failed mq_receive ends
\* the call as an error; both give the semaphore back.
Interrupted(c) ==
  /\ "interrupt" \in Faults
  /\ \/ /\ clientPc[c] = "wait_sem"
        /\ GoTo(c, "failed")
     \/ /\ clientPc[c] \in {"send", "receive"}
        /\ GoTo(c, "post")
  /\ answer' = [answer EXCEPT ![c] = "refused"]
  /\ UNCHANGED <<names, objects, daemonVars, calls, clientSem, clientReq,
                 clientResp, history>>

\* The client process dies in the call.  POSIX semaphores have no owner: nobody
\* gives it back.
Killed(c) ==
  /\ "kill" \in Faults
  /\ clientPc[c] \notin {"idle", "dead"}
  /\ GoTo(c, "dead")
  /\ UNCHANGED <<names, objects, daemonVars, calls, clientSem, clientReq,
                 clientResp, answer, history>>

ClientStep(c) ==
  \/ OpenSem(c) \/ WaitSem(c) \/ OpenReq(c) \/ OpenResp(c) \/ Send(c)
  \/ Receive(c) \/ Post(c)
ClientNext(c) == CallBegin(c) \/ ClientStep(c) \/ Interrupted(c) \/ Killed(c)

Next == DaemonNext \/ \E c \in Clients : ClientNext(c)

Spec == Init /\ [][Next]_vars

\* The service is started and scheduled, and so is every client; a bounded
\* number of calls makes a fair semaphore unnecessary.
FairSpec == Spec /\ WF_vars(DaemonStep) /\ \A c \in Clients : WF_vars(ClientStep(c))
-----------------------------------------------------------------------------
(* Properties.                                                             *)

Names == 0 .. MaxBoots
TypeOK ==
  /\ semName \in Names /\ reqName \in Names /\ respName \in Names
  /\ semValue \in [Boots -> {0, 1}]
  /\ reqQueue \in [Boots -> {<<>>} \cup {<<m>> : m \in Call}]
  /\ respQueue \in [Boots -> {<<>>} \cup {<<res>> : res \in Results}]
  /\ boot \in Names
  /\ daemonPc \in {"down", "init_sem", "init_req", "init_resp", "idle", "process",
                   "respond", "close_req", "close_resp"}
  /\ ownSem \in BOOLEAN
  /\ daemonReq \in Names /\ daemonResp \in Names
  /\ current \in Call \cup {None}
  /\ result \in Results \cup {"none"}
  /\ clientPc \in [Clients -> {"idle", "open_sem", "wait_sem", "open_req", "open_resp",
                               "send", "receive", "post", "failed", "dead"}]
  /\ calls \in [Clients -> 0 .. MaxCalls]
  /\ clientSem \in [Clients -> Names]
  /\ clientReq \in [Clients -> Names] /\ clientResp \in [Clients -> Names]
  /\ answer \in [Clients -> Results \cup {"none", "refused"}]
  /\ begun \subseteq Call
  /\ executed \subseteq [call : Call, res : Results]

\* The service never blocks on a response nobody takes: there is room for the
\* response of the request it is working on.
ServiceNotBlocked == daemonPc \in {"process", "respond"} => respQueue[daemonResp] = <<>>

\* At most one client is between its semaphore wait and post, whichever boot's
\* objects it uses.
Inside == {c \in Clients : clientPc[c] \in {"open_req", "open_resp", "send", "receive", "post"}}
OneInside == Cardinality(Inside) <= 1

\* Per semaphore that holds whatever happens: it is free, or one client has it,
\* or had it when it died (the library posts only what it has taken).
SemaphoreExclusive ==
  \A b \in Boots :
    LET holders == {c \in Inside : clientSem[c] = b}
    IN semValue[b] + Cardinality(holders) <= 1

\* A request is executed at most once, whichever instance takes it from the
\* queue and whatever became of its sender.
AtMostOnce ==
  [][daemonPc # "process" /\ daemonPc' = "process" => current' \notin begun]_vars

\* The response a client takes out of the queue is the one to its own request:
\* the queue is "used to pass response from processing thread to the client who
\* made the request" (ssw_pers_admin_access_lib.h).
ResponseIsMine ==
  \A c \in Clients :
    clientPc[c] = "post" /\ answer[c] \in Results =>
      [call |-> MyCall(c), res |-> answer[c]] \in executed

\* The library and the service implement the promise of RequestServer.
AbstractServer == INSTANCE RequestServer WITH
  caller <- [c \in Clients |->
               CASE clientPc[c] \in {"idle", "dead"} -> clientPc[c]
                 [] clientPc[c] \in {"post", "failed"} -> "answered"
                 [] OTHER -> "asked"],
  running <- IF daemonPc = "process" THEN current ELSE None
Implements == AbstractServer!Spec

\* Every call returns, as long as the service has not crashed and no client has
\* died.
Undisturbed == /\ boot <= 1 /\ (boot = 1 => daemonPc # "down")
               /\ \A c \in Clients : clientPc[c] # "dead"
CallReturns == []Undisturbed => \A c \in Clients : clientPc[c] # "idle" ~> clientPc[c] = "idle"

\* The same when the service did crash and came back: "Open existing sync
\* objects to support a PAS restart".
CallReturnsAfterRestart ==
  <>[](daemonPc # "down") =>
    \A c \in Clients : clientPc[c] # "idle" ~> clientPc[c] = "idle"
=============================================================================
