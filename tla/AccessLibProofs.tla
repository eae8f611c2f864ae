-------------------------- MODULE AccessLibProofs --------------------------
(***************************************************************************)
(* The safety of the request path, for any set of clients, any number of   *)
(* calls and of starts of the service.                                     *)
(***************************************************************************)
EXTENDS AccessLib, FiniteSetTheorems, TLAPS

InsidePcs == {"open_req", "open_resp", "send", "receive", "post"}

\* A step that has a handle has a valid one: the semaphore is open from the
\* wait on, the request queue once it is opened, the response queue thereafter.
HandlesInv ==
  /\ semName # 0 => semName <= boot
  /\ reqName # 0 => reqName <= boot
  /\ respName # 0 => respName <= boot
  /\ daemonPc # "down" => boot # 0
  /\ daemonPc \in {"init_resp", "idle", "process", "respond"} => daemonReq # 0
  /\ daemonPc \in {"idle", "process", "respond"} => daemonResp # 0
  /\ daemonPc \in {"process", "respond"} => current # None
  /\ daemonPc = "respond" => result # "none"
  /\ \A c \in Clients :
       /\ clientPc[c] \in {"wait_sem"} \cup InsidePcs => clientSem[c] # 0
       /\ clientPc[c] \in {"open_resp", "send", "receive"} => clientReq[c] # 0
       /\ clientPc[c] \in {"send", "receive"} => clientResp[c] # 0
       /\ clientPc[c] \notin {"idle", "dead"} => calls[c] # 0

\* No object is used before the boot that creates it.
FreshInv ==
  /\ \A b \in Boots : b > boot => semValue[b] = 0
  /\ \A c \in Clients : clientSem[c] <= boot
  /\ daemonPc = "init_sem" => \A c \in Clients : clientSem[c] # boot
  /\ daemonPc = "init_sem" => semValue[boot] = 0
  /\ daemonPc = "init_sem" => semName # boot

\* SemaphoreExclusive without cardinalities: whoever is inside has found the
\* semaphore free, and is there alone.
SemInv ==
  \A c \in Clients :
    clientPc[c] \in InsidePcs =>
      /\ semValue[clientSem[c]] = 0
      /\ \A d \in Clients :
           clientPc[d] \in InsidePcs /\ clientSem[d] = clientSem[c] => d = c

IInv == TypeOK /\ HandlesInv /\ FreshInv /\ SemInv

-----------------------------------------------------------------------------
\* A call that was sent is not a later one than the client is making, and if it
\* is that one, the client is past its send.
Sent(m) == m \in begun \/ \E b \in Boots : reqQueue[b] = <<m>>
SentInv ==
  \A m \in Call :
    Sent(m) =>
      /\ m.n <= calls[m.client]
      /\ m.n = calls[m.client] =>
           clientPc[m.client] \in {"receive", "post", "idle", "dead"}

\* A call in a queue is in no other queue, and was not taken out of one before.
OnceInv ==
  \A m \in Call : \A b \in Boots :
    reqQueue[b] = <<m>> =>
      /\ m \notin begun
      /\ \A d \in Boots : reqQueue[d] = <<m>> => d = b

DeliveryInv == SentInv /\ OnceInv

-----------------------------------------------------------------------------
\* The service is never stopped, and no signal reaches a client in a call.
WellBehaved == Faults \subseteq {"kill", "crash"}

\* The names are given once, the semaphore's first: everyone uses the same three
\* objects.
SameObjects ==
  /\ daemonPc \notin {"close_req", "close_resp"}
  /\ daemonPc \notin {"down", "init_sem"} \/ reqName # 0 \/ respName # 0 => semName # 0
  /\ \A b \in Boots : semValue[b] # 0 => b = semName
  /\ \A b \in Boots : reqQueue[b] # <<>> => b = reqName
  /\ \A b \in Boots : respQueue[b] # <<>> => b = respName
  /\ daemonPc \in {"init_resp", "idle", "process", "respond"} => daemonReq = reqName
  /\ daemonPc \in {"idle", "process", "respond"} => daemonResp = respName
  /\ \A c \in Clients :
       /\ clientPc[c] \in {"wait_sem"} \cup InsidePcs => clientSem[c] = semName
       /\ clientPc[c] \in {"open_resp", "send", "receive"} => clientReq[c] = reqName
       /\ clientPc[c] \in {"send", "receive"} => clientResp[c] = respName

\* Where the request of a client can be: in the queue, in the hands of the
\* service, or answered.
Asked(c) == \E b \in Boots : reqQueue[b] = <<MyCall(c)>>
Working(c) == daemonPc \in {"process", "respond"} /\ current = MyCall(c)
Answered(c) == \E b \in Boots : \E res \in Results :
                 /\ respQueue[b] = <<res>>
                 /\ [call |-> MyCall(c), res |-> res] \in executed

RequestWaits == \E b \in Boots : reqQueue[b] # <<>>
ResponseWaits == \E b \in Boots : respQueue[b] # <<>>
DaemonWorks == daemonPc \in {"process", "respond"}

\* There is one conversation at a time, in one of those places, and its client
\* is in its call, or dead, with the semaphore.
Conversation == RequestWaits \/ DaemonWorks \/ ResponseWaits
OneConversation ==
  /\ RequestWaits => ~ DaemonWorks /\ ~ ResponseWaits
  /\ DaemonWorks => ~ ResponseWaits
  /\ Conversation =>
       \E c \in Clients :
         /\ clientPc[c] \in {"receive", "dead"}
         /\ Inside \subseteq {c}
         /\ \A b \in Boots : semValue[b] = 0
         /\ Asked(c) \/ Working(c) \/ Answered(c)

\* What the service is about to send is what came out.
ResponseMade ==
  daemonPc = "respond" => [call |-> current, res |-> result] \in executed

SessionInv == SameObjects /\ OneConversation /\ ResponseMade /\ ResponseIsMine

-----------------------------------------------------------------------------
(* Lemmas about the data.                                                  *)

ReqQueues == {<<>>} \cup {<<m>> : m \in Call}
RespQueues == {<<>>} \cup {<<res>> : res \in Results}

\* A queue of capacity one that is not empty holds one message, and none after
\* it is taken.
LEMMA OneMessage ==
  ASSUME NEW S, NEW q \in {<<>>} \cup {<<m>> : m \in S}, q # <<>>
  PROVE  Head(q) \in S /\ q = <<Head(q)>> /\ Tail(q) = <<>>
<1>1. PICK m \in S : q = <<m>>
  OBVIOUS
<1>2. Head(q) = m
  BY <1>1
<1>3. Tail(q) = <<>>
  BY <1>1
<1> QED BY <1>1, <1>2, <1>3

\* The handle of an object names a boot.
LEMMA BootNames ==
  /\ Boots \subseteq Names
  /\ \A b \in Names : b # 0 => b \in Boots
  /\ \A b \in Names : b \in Nat /\ b <= MaxBoots
  BY ConstantsAssumption DEF Boots, Names

\* A client in a call makes a call of the type.
LEMMA MyCallType ==
  ASSUME TypeOK, NEW c \in Clients, calls[c] # 0
  PROVE  MyCall(c) \in Call
<1>1. calls[c] \in 1 .. MaxCalls
  BY ConstantsAssumption DEF TypeOK
<1> QED BY <1>1 DEF MyCall, Call

-----------------------------------------------------------------------------
(* Types, handles and the semaphore.                                       *)

\* The invariant holds initially.
LEMMA InitIInv == Init => IInv
<1> SUFFICES ASSUME Init PROVE IInv
  OBVIOUS
<1>1. TypeOK
  <2>1. 0 \in Names /\ 0 \in 0 .. MaxCalls
    BY ConstantsAssumption DEF Names
  <2>2. /\ reqQueue \in [Boots -> {<<>>} \cup {<<m>> : m \in Call}]
        /\ respQueue \in [Boots -> {<<>>} \cup {<<res>> : res \in Results}]
    BY DEF Init
  <2> QED BY <2>1, <2>2 DEF Init, TypeOK
<1>2. HandlesInv /\ FreshInv
  BY ConstantsAssumption DEF Init, HandlesInv, FreshInv, InsidePcs, Boots
<1>3. SemInv
  BY DEF Init, SemInv, InsidePcs
<1> QED BY <1>1, <1>2, <1>3 DEF IInv

\* The steps of the service keep the types.
LEMMA DaemonTypeOK == IInv /\ DaemonNext => TypeOK'
<1> SUFFICES ASSUME IInv, DaemonNext PROVE TypeOK'
  OBVIOUS
<1> USE DEF TypeOK, names, objects, daemonVars, clientVars, history
<1>0. TypeOK
  BY DEF IInv
<1>1. CASE Boot
  <2>1. boot' \in Names /\ 0 \in Names
    BY <1>0, <1>1, ConstantsAssumption DEF Boot, Names
  <2> QED BY <1>0, <1>1, <2>1 DEF Boot
<1>2. CASE InitSem
  <2>1. semValue' \in [Boots -> {0, 1}]
    BY <1>0, <1>2 DEF InitSem
  <2>2. semName' \in Names /\ ownSem' \in BOOLEAN
    BY <1>0, <1>2 DEF InitSem
  <2> QED BY <1>0, <1>2, <2>1, <2>2 DEF InitSem
<1>3. CASE InitReq \/ InitResp
  BY <1>0, <1>3 DEF InitReq, InitResp
<1>4. CASE TakeRequest
  <2>1. daemonReq \in Boots
    BY <1>0, <1>4, BootNames DEF TakeRequest, IInv, HandlesInv
  <2>2. /\ Head(reqQueue[daemonReq]) \in Call
        /\ Tail(reqQueue[daemonReq]) = <<>>
    BY <1>0, <1>4, <2>1, OneMessage DEF TakeRequest
  <2>3. reqQueue' \in [Boots -> {<<>>} \cup {<<m>> : m \in Call}]
    BY <1>0, <1>4, <2>2 DEF TakeRequest
  <2> QED BY <1>0, <1>4, <2>2, <2>3 DEF TakeRequest
<1>5. CASE Process
  <2>1. current \in Call
    BY <1>0, <1>5 DEF Process, IInv, HandlesInv
  <2>2. executed' \subseteq [call : Call, res : Results]
    BY <1>0, <1>5, <2>1 DEF Process
  <2> QED BY <1>0, <1>5, <2>2 DEF Process
<1>6. CASE Respond
  <2>1. result \in Results
    BY <1>0, <1>6 DEF Respond, IInv, HandlesInv
  <2>2. respQueue' \in [Boots -> {<<>>} \cup {<<res>> : res \in Results}]
    BY <1>0, <1>6, <2>1 DEF Respond
  <2> QED BY <1>0, <1>6, <2>2 DEF Respond
<1>7. CASE Stop \/ CloseReq \/ CloseResp
  <2>1. 0 \in Names
    BY ConstantsAssumption DEF Names
  <2> QED BY <1>0, <1>7, <2>1 DEF Stop, CloseReq, CloseResp
<1>8. CASE Crash
  BY <1>0, <1>8 DEF Crash
<1>9. CASE Poll \/ NoMoreBoots
  BY <1>0, <1>9 DEF Poll, NoMoreBoots, vars
<1> QED
  BY <1>1, <1>2, <1>3, <1>4, <1>5, <1>6, <1>7, <1>8, <1>9 DEF DaemonNext, DaemonStep

\* So do the steps of a client: it posts only a semaphore it has taken.
LEMMA ClientTypeOK == ASSUME IInv, NEW c \in Clients, ClientNext(c) PROVE TypeOK'
<1> USE DEF TypeOK, names, objects, daemonVars, clientVars, history, GoTo
<1>0. TypeOK
  BY DEF IInv
<1>1. CASE CallBegin(c)
  <2>1. calls' \in [Clients -> 0 .. MaxCalls]
    BY <1>0, <1>1, ConstantsAssumption DEF CallBegin
  <2> QED BY <1>0, <1>1, <2>1 DEF CallBegin
<1>2. CASE OpenSem(c)
  BY <1>0, <1>2 DEF OpenSem
<1>3. CASE WaitSem(c)
  <2>1. semValue' \in [Boots -> {0, 1}]
    BY <1>0, <1>3, BootNames DEF WaitSem, IInv, HandlesInv
  <2> QED BY <1>0, <1>3, <2>1 DEF WaitSem
<1>4. CASE OpenReq(c)
  BY <1>0, <1>4 DEF OpenReq, Fails
<1>5. CASE OpenResp(c)
  BY <1>0, <1>5 DEF OpenResp, Fails
<1>6. CASE Send(c)
  <2>1. MyCall(c) \in Call
    BY <1>0, <1>6, MyCallType DEF Send, IInv, HandlesInv
  <2>2. reqQueue' \in [Boots -> {<<>>} \cup {<<m>> : m \in Call}]
    BY <1>0, <1>6, <2>1 DEF Send
  <2> QED BY <1>0, <1>6, <2>2 DEF Send
<1>7. CASE Receive(c)
  <2>1. clientResp[c] \in Boots
    BY <1>0, <1>7, BootNames DEF Receive, IInv, HandlesInv
  <2>2. /\ Head(respQueue[clientResp[c]]) \in Results
        /\ Tail(respQueue[clientResp[c]]) = <<>>
    BY <1>0, <1>7, <2>1, OneMessage DEF Receive
  <2>3. respQueue' \in [Boots -> {<<>>} \cup {<<res>> : res \in Results}]
    BY <1>0, <1>7, <2>2 DEF Receive
  <2> QED BY <1>0, <1>7, <2>2, <2>3 DEF Receive
<1>8. CASE Post(c)
  <2>1. semValue' \in [Boots -> {0, 1}]
    <3>1. CASE clientPc[c] = "post"
      <4>1. clientSem[c] \in Boots /\ semValue[clientSem[c]] = 0
        BY <1>0, <3>1, BootNames DEF IInv, HandlesInv, SemInv, InsidePcs
      <4> QED BY <1>0, <1>8, <3>1, <4>1 DEF Post
    <3>2. CASE clientPc[c] # "post"
      BY <1>0, <1>8, <3>2 DEF Post
    <3> QED BY <3>1, <3>2
  <2> QED BY <1>0, <1>8, <2>1 DEF Post
<1>9. CASE Interrupted(c) \/ Killed(c)
  BY <1>0, <1>9 DEF Interrupted, Killed
<1> QED
  BY <1>1, <1>2, <1>3, <1>4, <1>5, <1>6, <1>7, <1>8, <1>9 DEF ClientNext, ClientStep

\* The steps of the service keep the handles valid and the semaphores fresh: one
\* is created by the boot it is named after, before anyone can open it.
LEMMA DaemonIInv == IInv /\ DaemonNext => IInv'
<1> SUFFICES ASSUME IInv, DaemonNext PROVE IInv'
  OBVIOUS
<1>0. TypeOK /\ TypeOK'
  BY DaemonTypeOK DEF IInv
<1> USE DEF names, objects, daemonVars, clientVars, history
<1>1. CASE Boot
  <2>1. boot \in Nat /\ boot' = boot + 1
    BY <1>0, <1>1, BootNames DEF Boot, TypeOK
  <2>2. HandlesInv'
    BY <1>0, <1>1, <2>1, BootNames DEF Boot, IInv, TypeOK, HandlesInv
  <2>3. FreshInv'
    <3>1. \A b \in Boots : b > boot' => semValue'[b] = 0
      BY <1>1, <2>1 DEF Boot, IInv, FreshInv, Boots
    <3>2. \A c \in Clients : clientSem'[c] \in Nat /\ clientSem'[c] < boot'
      <4>1. \A c \in Clients : clientSem[c] \in Nat /\ clientSem[c] <= boot
        BY <1>0, BootNames DEF IInv, FreshInv, TypeOK
      <4> QED BY <1>1, <2>1, <4>1 DEF Boot
    <3>3. semValue'[boot'] = 0
      <4>1. boot' \in Boots
        BY <1>0, <2>1, BootNames DEF TypeOK
      <4> QED BY <1>1, <2>1, <4>1 DEF Boot, IInv, FreshInv
    <3>4. semName' # boot'
      BY <1>0, <1>1, <2>1 DEF Boot, IInv, HandlesInv, TypeOK
    <3> QED BY <2>1, <3>1, <3>2, <3>3, <3>4 DEF FreshInv
  <2>4. SemInv'
    BY <1>1 DEF Boot, IInv, SemInv
  <2> QED BY <1>0, <2>2, <2>3, <2>4 DEF IInv
<1>2. CASE InitSem
  <2>1. boot \in Boots /\ boot \in Nat
    BY <1>0, <1>2, BootNames DEF InitSem, IInv, HandlesInv, TypeOK
  <2>2. HandlesInv'
    BY <1>0, <1>2, <2>1, BootNames DEF InitSem, IInv, HandlesInv, TypeOK
  <2>3. \A b \in Boots : b # boot => semValue'[b] = semValue[b]
    BY <1>0, <1>2, <2>1 DEF InitSem, TypeOK
  <2>4. FreshInv'
    <3>1. \A b \in Boots : b > boot => semValue'[b] = 0
      BY <2>1, <2>3 DEF IInv, FreshInv
    <3> QED BY <1>2, <3>1 DEF InitSem, IInv, FreshInv
  <2>5. SemInv'
    <3>1. \A c \in Clients : clientPc[c] \in InsidePcs =>
             clientSem[c] \in Boots /\ clientSem[c] # boot
      BY <1>0, <1>2, BootNames DEF InitSem, IInv, HandlesInv, FreshInv, TypeOK
    <3> QED BY <1>2, <2>3, <3>1 DEF InitSem, IInv, SemInv
  <2> QED BY <1>0, <2>2, <2>4, <2>5 DEF IInv
<1>3. CASE InitReq
  <2>1. HandlesInv'
    BY <1>0, <1>3, BootNames DEF InitReq, IInv, HandlesInv, TypeOK
  <2> QED BY <1>0, <1>3, <2>1 DEF InitReq, IInv, FreshInv, SemInv
<1>4. CASE InitResp
  <2>1. HandlesInv'
    BY <1>0, <1>4, BootNames DEF InitResp, IInv, HandlesInv, TypeOK
  <2> QED BY <1>0, <1>4, <2>1 DEF InitResp, IInv, FreshInv, SemInv
<1>5. CASE TakeRequest
  <2>1. daemonReq \in Boots
    BY <1>0, <1>5, BootNames DEF TakeRequest, IInv, HandlesInv, TypeOK
  <2>2. current' \in Call
    BY <1>0, <1>5, <2>1, OneMessage DEF TakeRequest, TypeOK
  <2>3. current' # None
    BY <2>2 DEF Call, None
  <2>4. HandlesInv'
    BY <1>5, <2>3 DEF TakeRequest, IInv, HandlesInv
  <2> QED BY <1>0, <1>5, <2>4 DEF TakeRequest, IInv, FreshInv, SemInv
<1>6. CASE Process
  <2>1. HandlesInv'
    BY <1>6 DEF Process, IInv, HandlesInv, Results
  <2> QED BY <1>0, <1>6, <2>1 DEF Process, IInv, FreshInv, SemInv
<1>7. CASE Respond
  <2>1. HandlesInv'
    BY <1>7 DEF Respond, IInv, HandlesInv
  <2> QED BY <1>0, <1>7, <2>1 DEF Respond, IInv, FreshInv, SemInv
<1>8. CASE Stop \/ CloseReq \/ CloseResp
  <2>1. HandlesInv'
    BY <1>8 DEF Stop, CloseReq, CloseResp, IInv, HandlesInv
  <2> QED BY <1>0, <1>8, <2>1 DEF Stop, CloseReq, CloseResp, IInv, FreshInv, SemInv
<1>9. CASE Crash \/ Poll \/ NoMoreBoots
  <2>1. HandlesInv'
    BY <1>9 DEF Crash, Poll, NoMoreBoots, vars, IInv, HandlesInv
  <2> QED BY <1>0, <1>9, <2>1 DEF Crash, Poll, NoMoreBoots, vars, IInv, FreshInv, SemInv
<1> QED
  BY <1>1, <1>2, <1>3, <1>4, <1>5, <1>6, <1>7, <1>8, <1>9 DEF DaemonNext, DaemonStep

\* A client that takes a semaphore finds it free, hence nobody is inside with
\* it; one that posts it is the only one who was.
LEMMA ClientIInv == ASSUME IInv, NEW c \in Clients, ClientNext(c) PROVE IInv'
<1>0. TypeOK /\ TypeOK'
  BY ClientTypeOK DEF IInv
<1> USE DEF names, objects, daemonVars, clientVars, history, GoTo
<1>1. CASE CallBegin(c)
  <2>1. calls'[c] # 0
    BY <1>0, <1>1, ConstantsAssumption DEF CallBegin, TypeOK
  <2>2. HandlesInv'
    BY <1>0, <1>1, <2>1 DEF CallBegin, IInv, HandlesInv, TypeOK, InsidePcs
  <2> QED BY <1>0, <1>1, <2>2 DEF CallBegin, IInv, TypeOK, FreshInv, SemInv, InsidePcs
<1>2. CASE OpenSem(c)
  <2>1. HandlesInv'
    <3>1. CASE semName = 0
      BY <1>0, <1>2, <3>1 DEF OpenSem, IInv, HandlesInv, TypeOK, InsidePcs
    <3>2. CASE semName # 0
      <4>1. clientPc'[c] = "wait_sem" /\ clientSem'[c] # 0 /\ clientPc[c] = "open_sem"
        BY <1>0, <1>2, <3>2 DEF OpenSem, TypeOK
      <4>2. \A d \in Clients : d # c => clientPc'[d] = clientPc[d] /\ clientSem'[d] = clientSem[d]
        BY <1>0, <1>2, <3>2 DEF OpenSem, TypeOK
      <4> QED BY <1>2, <4>1, <4>2 DEF OpenSem, IInv, HandlesInv, InsidePcs
    <3> QED BY <3>1, <3>2
  <2>2. FreshInv'
    BY <1>0, <1>2 DEF OpenSem, IInv, HandlesInv, FreshInv, TypeOK
  <2>3. SemInv'
    <3>1. semValue' = semValue /\ clientPc'[c] \notin InsidePcs
      <4>1. clientPc' \in {[clientPc EXCEPT ![c] = "failed"],
                           [clientPc EXCEPT ![c] = "wait_sem"]}
        BY <1>2 DEF OpenSem
      <4> QED BY <1>0, <1>2, <4>1 DEF OpenSem, TypeOK, InsidePcs
    <3>2. \A d \in Clients : d # c => clientPc'[d] = clientPc[d] /\ clientSem'[d] = clientSem[d]
      BY <1>0, <1>2 DEF OpenSem, TypeOK
    <3> QED BY <3>1, <3>2 DEF IInv, SemInv
  <2> QED BY <1>0, <2>1, <2>2, <2>3 DEF IInv
<1>3. CASE WaitSem(c)
  <2>1. clientSem[c] \in Boots /\ semValue[clientSem[c]] = 1
    BY <1>0, <1>3, BootNames DEF WaitSem, IInv, HandlesInv, TypeOK
  <2>2. HandlesInv'
    BY <1>0, <1>3 DEF WaitSem, IInv, HandlesInv, TypeOK, InsidePcs
  <2>3. semValue' = [semValue EXCEPT ![clientSem[c]] = 0]
    BY <1>3, <2>1 DEF WaitSem
  <2>4. FreshInv'
    <3>1. \A b \in Boots : semValue[b] = 0 => semValue'[b] = 0
      BY <1>0, <2>1, <2>3 DEF TypeOK
    <3>2. daemonPc = "init_sem" => boot \in Boots
      BY <1>0, BootNames DEF IInv, HandlesInv, TypeOK
    <3> QED BY <1>3, <3>1, <3>2 DEF WaitSem, IInv, FreshInv
  <2>5. SemInv'
    <3>1. \A d \in Clients : clientPc[d] \in InsidePcs => clientSem[d] # clientSem[c]
      BY <2>1 DEF IInv, SemInv
    <3> QED BY <1>0, <1>3, <2>1, <2>3, <3>1 DEF WaitSem, IInv, SemInv, TypeOK
  <2> QED BY <1>0, <2>2, <2>4, <2>5 DEF IInv
<1>4. CASE OpenReq(c)
  <2>1. HandlesInv'
    <3>1. CASE reqName = 0
      BY <1>0, <1>4, <3>1 DEF OpenReq, Fails, IInv, HandlesInv, TypeOK, InsidePcs
    <3>2. CASE reqName # 0
      <4>1. clientPc'[c] = "open_resp" /\ clientReq'[c] # 0 /\ clientPc[c] = "open_req"
        BY <1>0, <1>4, <3>2 DEF OpenReq, TypeOK
      <4>2. \A d \in Clients : d # c => clientPc'[d] = clientPc[d] /\ clientReq'[d] = clientReq[d]
        BY <1>0, <1>4, <3>2 DEF OpenReq, TypeOK
      <4> QED BY <1>4, <4>1, <4>2 DEF OpenReq, IInv, HandlesInv, InsidePcs
    <3> QED BY <3>1, <3>2
  <2> QED BY <1>0, <1>4, <2>1
          DEF OpenReq, Fails, IInv, TypeOK, FreshInv, SemInv, InsidePcs
<1>5. CASE OpenResp(c)
  <2>1. HandlesInv'
    BY <1>0, <1>5 DEF OpenResp, Fails, IInv, HandlesInv, TypeOK, InsidePcs
  <2> QED BY <1>0, <1>5, <2>1
          DEF OpenResp, Fails, IInv, TypeOK, FreshInv, SemInv, InsidePcs
<1>6. CASE Send(c)
  <2>1. HandlesInv'
    <3>1. clientPc[c] = "send" /\ clientPc'[c] = "receive"
      BY <1>0, <1>6 DEF Send, TypeOK
    <3>2. clientResp[c] # 0
      BY <3>1 DEF IInv, HandlesInv
    <3>3. \A d \in Clients : d # c => clientPc'[d] = clientPc[d]
      BY <1>0, <1>6 DEF Send, TypeOK
    <3> QED BY <1>6, <3>1, <3>2, <3>3 DEF Send, IInv, HandlesInv, InsidePcs
  <2> QED BY <1>0, <1>6, <2>1 DEF Send, IInv, TypeOK, FreshInv, SemInv, InsidePcs
<1>7. CASE Receive(c)
  <2>1. HandlesInv'
    BY <1>0, <1>7 DEF Receive, IInv, HandlesInv, TypeOK, InsidePcs
  <2> QED BY <1>0, <1>7, <2>1 DEF Receive, IInv, TypeOK, FreshInv, SemInv, InsidePcs
<1>8. CASE Post(c)
  <2>1. HandlesInv'
    BY <1>0, <1>8 DEF Post, IInv, HandlesInv, TypeOK, InsidePcs
  <2>2. CASE clientPc[c] = "post"
    <3>1. /\ clientSem[c] \in Boots
          /\ \A d \in Clients :
               clientPc[d] \in InsidePcs /\ clientSem[d] = clientSem[c] => d = c
      BY <1>0, <2>2, BootNames DEF IInv, HandlesInv, SemInv, TypeOK, InsidePcs
    <3>2. \A b \in Boots : b # clientSem[c] => semValue'[b] = semValue[b]
      BY <1>0, <1>8, <2>2, <3>1 DEF Post, TypeOK
    <3>3. FreshInv'
      <4>1. clientSem[c] <= boot /\ (daemonPc = "init_sem" => clientSem[c] # boot)
        BY DEF IInv, FreshInv
      <4>2. clientSem[c] \in Nat /\ boot \in Nat /\ Boots \subseteq Nat
        BY <1>0, BootNames DEF TypeOK
      <4>3. \A b \in Boots : b > boot => b # clientSem[c]
        BY <4>1, <4>2
      <4>4. daemonPc = "init_sem" => boot \in Boots
        BY <1>0, BootNames DEF IInv, HandlesInv, TypeOK
      <4> QED BY <1>8, <3>2, <4>1, <4>3, <4>4 DEF Post, IInv, FreshInv
    <3>4. SemInv'
      <4>1. \A d \in Clients : clientPc'[d] \in InsidePcs =>
               d # c /\ clientPc[d] \in InsidePcs /\ clientSem[d] # clientSem[c]
        BY <1>0, <1>8, <3>1 DEF Post, TypeOK, InsidePcs
      <4>2. \A d \in Clients : clientPc[d] \in InsidePcs => clientSem[d] \in Boots
        BY <1>0, BootNames DEF IInv, HandlesInv, TypeOK
      <4> QED BY <1>8, <3>2, <4>1, <4>2 DEF Post, IInv, SemInv
    <3> QED BY <1>0, <2>1, <3>3, <3>4 DEF IInv
  <2>3. CASE clientPc[c] # "post"
    BY <1>0, <1>8, <2>1, <2>3 DEF Post, IInv, TypeOK, FreshInv, SemInv, InsidePcs
  <2> QED BY <2>2, <2>3
<1>9. CASE Interrupted(c) \/ Killed(c)
  <2>1. HandlesInv'
    BY <1>0, <1>9 DEF Interrupted, Killed, IInv, HandlesInv, TypeOK, InsidePcs
  <2> QED BY <1>0, <1>9, <2>1
          DEF Interrupted, Killed, IInv, TypeOK, FreshInv, SemInv, InsidePcs
<1> QED
  BY <1>1, <1>2, <1>3, <1>4, <1>5, <1>6, <1>7, <1>8, <1>9 DEF ClientNext, ClientStep

\* The invariant is inductive.
LEMMA NextIInv == IInv /\ [Next]_vars => IInv'
<1> SUFFICES ASSUME IInv, [Next]_vars PROVE IInv'
  OBVIOUS
<1>1. CASE DaemonNext
  BY <1>1, DaemonIInv
<1>2. CASE \E c \in Clients : ClientNext(c)
  BY <1>2, ClientIInv
<1>3. CASE UNCHANGED vars
  BY <1>3 DEF vars, names, objects, daemonVars, clientVars, history, IInv, TypeOK,
       HandlesInv, FreshInv, SemInv
<1> QED BY <1>1, <1>2, <1>3 DEF Next

LEMMA Invariance == Spec => []IInv
  BY InitIInv, NextIInv, PTL DEF Spec

\* Every variable keeps its type; in particular no semaphore is ever posted twice
\* and no queue holds more than one message, whatever goes wrong.
THEOREM TypeCorrect == Spec => []TypeOK
<1>1. IInv => TypeOK
  BY DEF IInv
<1> QED BY <1>1, Invariance, PTL

\* Whatever goes wrong, clients killed and services crashed included: a semaphore
\* is free, or one client is inside with it.
THEOREM Exclusion == Spec => []SemaphoreExclusive
<1>1. ASSUME IInv, NEW b \in Boots
      PROVE  semValue[b] + Cardinality({c \in Inside : clientSem[c] = b}) <= 1
  <2> DEFINE holders == {c \in Inside : clientSem[c] = b}
  <2>0. semValue[b] \in {0, 1}
    BY <1>1 DEF IInv, TypeOK
  <2>1. CASE holders = {}
    <3>1. Cardinality(holders) = 0
      BY <2>1, FS_EmptySet
    <3> QED BY <2>0, <3>1
  <2>2. CASE holders # {}
    <3>1. PICK c \in Inside : clientSem[c] = b
      BY <2>2
    <3>2. semValue[b] = 0 /\ holders = {c}
      BY <1>1, <3>1 DEF IInv, SemInv, Inside, InsidePcs
    <3>3. Cardinality(holders) = 1
      BY <3>2, FS_Singleton
    <3> QED BY <3>2, <3>3
  <2> QED BY <2>1, <2>2
<1>2. IInv => SemaphoreExclusive
  BY <1>1 DEF SemaphoreExclusive
<1> QED BY <1>2, Invariance, PTL

-----------------------------------------------------------------------------
(* At most one execution.                                                  *)

\* Nothing was sent initially.
LEMMA InitDelivery == Init => DeliveryInv
  BY DEF Init, DeliveryInv, SentInv, OnceInv, Sent

\* A step that sends nothing, and at most moves clients on, keeps the invariant.
LEMMA DeliveryFrame ==
  ASSUME DeliveryInv, UNCHANGED <<reqQueue, begun, calls>>,
         \A c \in Clients :
           clientPc[c] \in {"receive", "post", "idle", "dead"} =>
             clientPc'[c] \in {"receive", "post", "idle", "dead"}
  PROVE  DeliveryInv'
<1>1. \A m \in Call : m.client \in Clients
  BY DEF Call
<1>2. SentInv'
  BY <1>1 DEF DeliveryInv, SentInv, Sent
<1>3. OnceInv'
  BY DEF DeliveryInv, OnceInv
<1> QED BY <1>2, <1>3 DEF DeliveryInv

\* The service moves a request from the queue to what it has begun.
LEMMA DaemonDelivery == IInv /\ DeliveryInv /\ DaemonNext => DeliveryInv'
<1> SUFFICES ASSUME IInv, DeliveryInv, DaemonNext PROVE DeliveryInv'
  OBVIOUS
<1> USE DEF names, objects, daemonVars, clientVars, history
<1>1. CASE TakeRequest
  <2>1. daemonReq \in Boots
    BY <1>1, BootNames DEF TakeRequest, IInv, HandlesInv, TypeOK
  <2> DEFINE m == Head(reqQueue[daemonReq])
  <2>2. m \in Call /\ reqQueue[daemonReq] = <<m>> /\ Tail(reqQueue[daemonReq]) = <<>>
    BY <1>1, <2>1, OneMessage DEF TakeRequest, IInv, TypeOK
  <2>3. /\ reqQueue'[daemonReq] = <<>>
        /\ \A b \in Boots : b # daemonReq => reqQueue'[b] = reqQueue[b]
    BY <1>1, <2>1, <2>2 DEF TakeRequest, IInv, TypeOK
  <2>4. begun' = begun \cup {m}
    BY <1>1 DEF TakeRequest
  <2>5. \A n \in Call : Sent(n)' => Sent(n)
    BY <2>1, <2>2, <2>3, <2>4 DEF Sent
  <2>6. SentInv'
    BY <1>1, <2>5 DEF TakeRequest, DeliveryInv, SentInv
  <2>7. OnceInv'
    BY <2>1, <2>2, <2>3, <2>4 DEF DeliveryInv, OnceInv
  <2> QED BY <2>6, <2>7 DEF DeliveryInv
<1>2. CASE Boot \/ InitSem \/ InitReq \/ InitResp \/ Process \/ Respond
  BY <1>2, DeliveryFrame DEF Boot, InitSem, InitReq, InitResp, Process, Respond
<1>3. CASE CloseReq \/ CloseResp \/ Stop \/ Crash
  BY <1>3, DeliveryFrame DEF CloseReq, CloseResp, Stop, Crash
<1>4. CASE Poll \/ NoMoreBoots
  BY <1>4, DeliveryFrame DEF Poll, NoMoreBoots, vars
<1> QED BY <1>1, <1>2, <1>3, <1>4 DEF DaemonNext, DaemonStep

\* A client sends each of its calls once: the number is new when the call begins,
\* and no step leads back before the send.
LEMMA ClientDelivery ==
  ASSUME IInv, DeliveryInv, NEW c \in Clients, ClientNext(c) PROVE DeliveryInv'
<1> USE DEF names, objects, daemonVars, clientVars, history, GoTo
<1>0. /\ \A d \in Clients : calls[d] \in Nat
      /\ clientPc \in [Clients -> {"idle", "open_sem", "wait_sem", "open_req", "open_resp",
                               "send", "receive", "post", "failed", "dead"}]
      /\ reqQueue \in [Boots -> {<<>>} \cup {<<m>> : m \in Call}]
      /\ DOMAIN calls = Clients
  BY DEF IInv, TypeOK
<1>1. CASE CallBegin(c)
  <2>1. \A m \in Call : m.n \in Nat /\ m.client \in Clients
    BY DEF Call
  <2>2. \A m \in Call : Sent(m) /\ m.client = c => m.n < calls'[c]
    BY <1>0, <1>1, <2>1 DEF CallBegin, DeliveryInv, SentInv
  <2>3. \A d \in Clients : d # c => calls'[d] = calls[d] /\ clientPc'[d] = clientPc[d]
    BY <1>0, <1>1 DEF CallBegin
  <2>4. UNCHANGED <<reqQueue, begun>>
    BY <1>1 DEF CallBegin
  <2>5. \A m \in Call : Sent(m)' = Sent(m)
    BY <2>4 DEF Sent
  <2>6. calls'[c] \in Nat
    BY <1>0, <1>1 DEF CallBegin
  <2>7. SentInv'
    <3> SUFFICES ASSUME NEW m \in Call, Sent(m)
                 PROVE  /\ m.n <= calls'[m.client]
                        /\ m.n = calls'[m.client] =>
                             clientPc'[m.client] \in {"receive", "post", "idle", "dead"}
      BY <2>5 DEF SentInv
    <3>1. CASE m.client = c
      BY <2>1, <2>2, <2>6, <3>1
    <3>2. CASE m.client # c
      BY <2>1, <2>3, <3>2 DEF DeliveryInv, SentInv
    <3> QED BY <3>1, <3>2
  <2>8. OnceInv'
    BY <2>4 DEF DeliveryInv, OnceInv
  <2> QED BY <2>7, <2>8 DEF DeliveryInv
<1>2. CASE Send(c)
  <2> DEFINE b == clientReq[c]
  <2>1. b \in Boots /\ MyCall(c) \in Call /\ MyCall(c).client = c /\ MyCall(c).n = calls[c]
    BY <1>2, BootNames, MyCallType DEF Send, IInv, HandlesInv, TypeOK, MyCall
  <2>2. ~ Sent(MyCall(c))
    BY <1>2, <2>1 DEF Send, DeliveryInv, SentInv
  <2>3. /\ reqQueue'[b] = <<MyCall(c)>> /\ reqQueue[b] = <<>>
        /\ \A d \in Boots : d # b => reqQueue'[d] = reqQueue[d]
    BY <1>0, <1>2, <2>1 DEF Send
  <2>4. UNCHANGED <<calls, begun>>
    BY <1>2 DEF Send
  <2>5. clientPc'[c] = "receive" /\ \A d \in Clients : d # c => clientPc'[d] = clientPc[d]
    BY <1>0, <1>2 DEF Send
  <2>6. \A m \in Call : Sent(m)' => Sent(m) \/ m = MyCall(c)
    BY <2>1, <2>3, <2>4 DEF Sent
  <2>7. SentInv'
    <3> SUFFICES ASSUME NEW m \in Call, Sent(m)'
                 PROVE  /\ m.n <= calls[m.client]
                        /\ m.n = calls[m.client] =>
                             clientPc'[m.client] \in {"receive", "post", "idle", "dead"}
      BY <2>4 DEF SentInv
    <3>0. m.client \in Clients
      BY DEF Call
    <3>1. CASE m = MyCall(c)
      BY <1>0, <2>1, <2>5, <3>1
    <3>2. CASE Sent(m)
      BY <2>5, <3>0, <3>2 DEF DeliveryInv, SentInv
    <3> QED BY <2>6, <3>1, <3>2
  <2>8. OnceInv'
    <3> SUFFICES ASSUME NEW m \in Call, NEW d \in Boots, reqQueue'[d] = <<m>>
                 PROVE  /\ m \notin begun
                        /\ \A e \in Boots : reqQueue'[e] = <<m>> => e = d
      BY <2>4 DEF OnceInv
    <3>1. CASE m = MyCall(c)
      BY <2>2, <2>3, <3>1 DEF Sent
    <3>2. CASE m # MyCall(c)
      <4>1. \A e \in Boots : reqQueue'[e] = <<m>> => reqQueue[e] = <<m>>
        BY <2>3, <3>2
      <4> QED BY <4>1 DEF DeliveryInv, OnceInv
    <3> QED BY <3>1, <3>2
  <2> QED BY <2>7, <2>8 DEF DeliveryInv
<1>3. CASE OpenSem(c) \/ WaitSem(c) \/ OpenReq(c) \/ OpenResp(c)
  <2>1. clientPc[c] \notin {"receive", "post", "idle", "dead"}
    BY <1>3 DEF OpenSem, WaitSem, OpenReq, OpenResp
  <2>2. \A d \in Clients : d # c => clientPc'[d] = clientPc[d]
    BY <1>0, <1>3 DEF OpenSem, WaitSem, OpenReq, OpenResp, Fails
  <2>3. UNCHANGED <<reqQueue, begun, calls>>
    BY <1>3 DEF OpenSem, WaitSem, OpenReq, OpenResp
  <2> QED BY <2>1, <2>2, <2>3, DeliveryFrame
<1>4. CASE Receive(c) \/ Post(c) \/ Interrupted(c) \/ Killed(c)
  <2>1. clientPc'[c] \in {"receive", "post", "idle", "dead"} \/ clientPc[c] = "wait_sem"
    BY <1>0, <1>4 DEF Receive, Post, Interrupted, Killed
  <2>2. \A d \in Clients : d # c => clientPc'[d] = clientPc[d]
    BY <1>0, <1>4 DEF Receive, Post, Interrupted, Killed
  <2>3. UNCHANGED <<reqQueue, begun, calls>>
    BY <1>4 DEF Receive, Post, Interrupted, Killed
  <2> QED BY <2>1, <2>2, <2>3, DeliveryFrame
<1> QED
  BY <1>1, <1>2, <1>3, <1>4 DEF ClientNext, ClientStep

LEMMA NextDelivery == IInv /\ DeliveryInv /\ [Next]_vars => DeliveryInv'
<1> SUFFICES ASSUME IInv, DeliveryInv, [Next]_vars PROVE DeliveryInv'
  OBVIOUS
<1>1. CASE DaemonNext
  BY <1>1, DaemonDelivery
<1>2. CASE \E c \in Clients : ClientNext(c)
  BY <1>2, ClientDelivery
<1>3. CASE UNCHANGED vars
  BY <1>3, DeliveryFrame DEF vars, objects, clientVars, history
<1> QED BY <1>1, <1>2, <1>3 DEF Next

LEMMA DeliveryInvariance == Spec => []DeliveryInv
  BY Invariance, InitDelivery, NextDelivery, PTL DEF Spec

\* A request is executed at most once, whatever happens to its sender and to the
\* service that took it out of the queue.
THEOREM ExecutedOnce == Spec => AtMostOnce
<1>1. ASSUME IInv, DeliveryInv, [Next]_vars, daemonPc # "process", daemonPc' = "process"
      PROVE  current' \notin begun
  <2>1. TakeRequest
    <3>1. ~ UNCHANGED daemonPc
      BY <1>1
    <3>2. ~ \E c \in Clients : ClientNext(c)
      BY <3>1 DEF ClientNext, ClientStep, CallBegin, OpenSem, WaitSem, OpenReq, OpenResp,
           Send, Receive, Post, Interrupted, Killed, daemonVars
    <3> QED
      BY <1>1, <3>1, <3>2 DEF Next, DaemonNext, DaemonStep, Boot, InitSem, InitReq, InitResp,
         Process, Respond, Stop, CloseReq, CloseResp, Crash, Poll, NoMoreBoots, vars, daemonVars
  <2>2. daemonReq \in Boots
    BY <1>1, <2>1, BootNames DEF TakeRequest, IInv, HandlesInv, TypeOK
  <2>3. current' \in Call /\ reqQueue[daemonReq] = <<current'>>
    BY <1>1, <2>1, <2>2, OneMessage DEF TakeRequest, IInv, TypeOK
  <2> QED BY <1>1, <2>2, <2>3 DEF DeliveryInv, OnceInv
<1> QED
  BY <1>1, Invariance, DeliveryInvariance, PTL DEF Spec, AtMostOnce

-----------------------------------------------------------------------------
(* One conversation at a time, when the service is not stopped and no call   *)
(* is interrupted.                                                           *)

LEMMA InitSession == Init => SessionInv
<1> SUFFICES ASSUME Init PROVE SessionInv
  OBVIOUS
<1>1. SameObjects
  BY DEF Init, SameObjects, InsidePcs
<1>2. OneConversation /\ ResponseMade /\ ResponseIsMine
  BY DEF Init, OneConversation, Conversation, RequestWaits, DaemonWorks, ResponseWaits,
       ResponseMade, ResponseIsMine
<1> QED BY <1>1, <1>2 DEF SessionInv

\* The service gives a name only where there is none, hence where nobody has a
\* handle and nothing is in a queue.
LEMMA DaemonSameObjects ==
  ASSUME WellBehaved, IInv, SameObjects, DaemonNext PROVE SameObjects'
<1> USE DEF names, objects, daemonVars, clientVars, history
<1>0. 0 \notin Boots /\ Boots \subseteq Nat
  BY DEF Boots
<1>t. TypeOK
  BY DEF IInv
<1>1. CASE Boot
  BY <1>1 DEF Boot, SameObjects
<1>2. CASE InitSem
  <2>1. boot \in Boots
    BY <1>2, <1>t, BootNames DEF InitSem, IInv, HandlesInv, TypeOK
  <2>2. CASE semName = 0
    <3>1. \A b \in Boots : semValue[b] = 0
      BY <1>0, <2>2 DEF SameObjects
    <3>2. \A b \in Boots : semValue'[b] # 0 => b = boot
      BY <1>2, <1>t, <2>1, <2>2, <3>1 DEF InitSem, TypeOK
    <3>3. \A c \in Clients : clientPc[c] \notin {"wait_sem"} \cup InsidePcs
      BY <2>2 DEF SameObjects, IInv, HandlesInv
    <3>4. semName' = boot /\ boot # 0
      BY <1>0, <1>2, <2>1, <2>2 DEF InitSem
    <3> QED BY <1>2, <3>2, <3>3, <3>4 DEF InitSem, SameObjects
  <2>3. CASE semName # 0
    BY <1>2, <2>3 DEF InitSem, SameObjects
  <2> QED BY <2>2, <2>3
<1>3. CASE InitReq
  <2>1. CASE reqName = 0
    <3>1. \A c \in Clients : clientPc[c] \notin {"open_resp", "send", "receive"}
      BY <2>1 DEF SameObjects, IInv, HandlesInv
    <3>2. \A b \in Boots : reqQueue[b] = <<>>
      BY <1>0, <2>1 DEF SameObjects
    <3> QED BY <1>3, <3>1, <3>2 DEF InitReq, SameObjects
  <2>2. CASE reqName # 0
    BY <1>3, <2>2 DEF InitReq, SameObjects
  <2> QED BY <2>1, <2>2
<1>4. CASE InitResp
  <2>1. CASE respName = 0
    <3>1. \A c \in Clients : clientPc[c] \notin {"send", "receive"}
      BY <2>1 DEF SameObjects, IInv, HandlesInv
    <3>2. \A b \in Boots : respQueue[b] = <<>>
      BY <1>0, <2>1 DEF SameObjects
    <3> QED BY <1>4, <3>1, <3>2 DEF InitResp, SameObjects
  <2>2. CASE respName # 0
    BY <1>4, <2>2 DEF InitResp, SameObjects
  <2> QED BY <2>1, <2>2
<1>5. CASE TakeRequest
  <2>1. \A b \in Boots : reqQueue'[b] # <<>> => b = reqName
    BY <1>5, <1>t DEF TakeRequest, SameObjects, TypeOK
  <2> QED BY <1>5, <2>1 DEF TakeRequest, SameObjects
<1>6. CASE Respond
  <2>1. \A b \in Boots : respQueue'[b] # <<>> => b = respName
    BY <1>6, <1>t DEF Respond, SameObjects, TypeOK
  <2> QED BY <1>6, <2>1 DEF Respond, SameObjects
<1>7. CASE Process \/ Crash
  BY <1>7 DEF Process, Crash, SameObjects
<1>8. CASE CloseReq \/ CloseResp \/ Stop
  BY <1>8 DEF CloseReq, CloseResp, Stop, SameObjects, WellBehaved
<1>9. CASE Poll \/ NoMoreBoots
  BY <1>9 DEF Poll, NoMoreBoots, vars, SameObjects
<1> QED
  BY <1>1, <1>2, <1>3, <1>4, <1>5, <1>6, <1>7, <1>8, <1>9 DEF DaemonNext, DaemonStep

\* A client opens what has the name.
LEMMA ClientSameObjects ==
  ASSUME WellBehaved, IInv, SameObjects, NEW c \in Clients, ClientNext(c)
  PROVE  SameObjects'
<1> USE DEF names, objects, daemonVars, clientVars, history, GoTo
<1>t. TypeOK
  BY DEF IInv
<1>1. UNCHANGED <<names, daemonVars>>
  BY DEF ClientNext, ClientStep, CallBegin, OpenSem, WaitSem, OpenReq, OpenResp, Send,
       Receive, Post, Interrupted, Killed
<1>2. \A d \in Clients : d # c =>
        /\ clientPc'[d] = clientPc[d] /\ clientSem'[d] = clientSem[d]
        /\ clientReq'[d] = clientReq[d] /\ clientResp'[d] = clientResp[d]
  BY <1>t DEF ClientNext, ClientStep, CallBegin, OpenSem, WaitSem, OpenReq, OpenResp, Send,
       Receive, Post, Interrupted, Killed, Fails, TypeOK
<1> DEFINE Own ==
      /\ clientPc'[c] \in {"wait_sem"} \cup InsidePcs => clientSem'[c] = semName
      /\ clientPc'[c] \in {"open_resp", "send", "receive"} => clientReq'[c] = reqName
      /\ clientPc'[c] \in {"send", "receive"} => clientResp'[c] = respName
<1> DEFINE Objects ==
      /\ \A b \in Boots : semValue'[b] # 0 => b = semName
      /\ \A b \in Boots : reqQueue'[b] # <<>> => b = reqName
      /\ \A b \in Boots : respQueue'[b] # <<>> => b = respName
<1>3. Own
  <2>1. CASE CallBegin(c) \/ Killed(c) \/ Interrupted(c)
    BY <1>t, <2>1 DEF CallBegin, Killed, Interrupted, TypeOK, InsidePcs, WellBehaved
  <2>2. CASE OpenSem(c)
    BY <1>t, <2>2 DEF OpenSem, TypeOK, InsidePcs
  <2>3. CASE WaitSem(c) \/ Send(c) \/ Receive(c)
    BY <1>t, <2>3 DEF WaitSem, Send, Receive, TypeOK, InsidePcs, SameObjects
  <2>4. CASE OpenReq(c)
    BY <1>t, <2>4 DEF OpenReq, Fails, TypeOK, InsidePcs, SameObjects
  <2>5. CASE OpenResp(c)
    BY <1>t, <2>5 DEF OpenResp, Fails, TypeOK, InsidePcs, SameObjects
  <2>6. CASE Post(c)
    BY <1>t, <2>6 DEF Post, TypeOK, InsidePcs
  <2> QED BY <2>1, <2>2, <2>3, <2>4, <2>5, <2>6 DEF ClientNext, ClientStep
<1>4. Objects
  <2>1. CASE CallBegin(c) \/ Killed(c) \/ Interrupted(c) \/ OpenSem(c) \/ OpenReq(c) \/ OpenResp(c)
    BY <2>1 DEF CallBegin, Killed, Interrupted, OpenSem, OpenReq, OpenResp, SameObjects
  <2>2. CASE WaitSem(c)
    <3>1. \A b \in Boots : semValue'[b] # 0 => semValue[b] # 0
      BY <1>t, <2>2 DEF WaitSem, TypeOK
    <3> QED BY <2>2, <3>1 DEF WaitSem, SameObjects
  <2>3. CASE Send(c)
    <3>1. \A b \in Boots : reqQueue'[b] # <<>> => b = reqName
      BY <1>t, <2>3 DEF Send, TypeOK, SameObjects
    <3> QED BY <2>3, <3>1 DEF Send, SameObjects
  <2>4. CASE Receive(c)
    <3>1. \A b \in Boots : respQueue'[b] # <<>> => b = respName
      BY <1>t, <2>4 DEF Receive, TypeOK, SameObjects
    <3> QED BY <2>4, <3>1 DEF Receive, SameObjects
  <2>5. CASE Post(c)
    <3>1. \A b \in Boots : semValue'[b] # 0 => b = semName
      BY <1>t, <2>5 DEF Post, TypeOK, SameObjects, InsidePcs
    <3> QED BY <2>5, <3>1 DEF Post, SameObjects
  <2> QED BY <2>1, <2>2, <2>3, <2>4, <2>5 DEF ClientNext, ClientStep
<1> HIDE DEF Own, Objects
<1>5. \A d \in Clients :
       /\ clientPc'[d] \in {"wait_sem"} \cup InsidePcs => clientSem'[d] = semName
       /\ clientPc'[d] \in {"open_resp", "send", "receive"} => clientReq'[d] = reqName
       /\ clientPc'[d] \in {"send", "receive"} => clientResp'[d] = respName
  BY <1>2, <1>3 DEF Own, SameObjects
<1> QED BY <1>1, <1>4, <1>5 DEF Objects, SameObjects

\* The client a conversation is with, and where its request is.
Owner(c) ==
  /\ clientPc[c] \in {"receive", "dead"}
  /\ Inside \subseteq {c}
  /\ \A b \in Boots : semValue[b] = 0
  /\ Asked(c) \/ Working(c) \/ Answered(c)

\* What waits is somewhere.
LEMMA Evidence ==
  ASSUME NEW c \in Clients
  PROVE  /\ Asked(c) => RequestWaits
         /\ Working(c) => DaemonWorks
         /\ Answered(c) => ResponseWaits
<1>1. \A x : <<x>> # <<>>
  OBVIOUS
<1>2. Asked(c) => RequestWaits
  BY <1>1, Zenon DEF Asked, RequestWaits
<1>3. Working(c) => DaemonWorks
  BY DEF Working, DaemonWorks
<1>4. Answered(c) => ResponseWaits
  BY <1>1, Zenon DEF Answered, ResponseWaits
<1> QED BY <1>2, <1>3, <1>4

\* The steps of the service hand the request of the owner on, or lose it.
LEMMA DaemonConversation ==
  ASSUME WellBehaved, IInv, SameObjects, OneConversation, ResponseMade, DaemonNext
  PROVE  OneConversation'
<1> USE DEF names, objects, daemonVars, clientVars, history, Conversation
<1>t. TypeOK
  BY DEF IInv
<1>o. UNCHANGED <<clientPc, calls>> /\ UNCHANGED Inside
      /\ \A c \in Clients : MyCall(c)' = MyCall(c)
  BY DEF DaemonNext, DaemonStep, Boot, InitSem, InitReq, InitResp, TakeRequest, Process,
       Respond, CloseReq, CloseResp, Poll, Stop, Crash, NoMoreBoots, vars, Inside, MyCall
<1>1. CASE Boot \/ InitReq \/ InitResp \/ Crash \/ Poll \/ NoMoreBoots
  <2>1. UNCHANGED <<reqQueue, respQueue, semValue, executed>>
    BY <1>1 DEF Boot, InitReq, InitResp, Crash, Poll, NoMoreBoots, vars
  <2>2. DaemonWorks' => DaemonWorks /\ UNCHANGED <<daemonPc, current>>
    BY <1>1 DEF Boot, InitReq, InitResp, Crash, Poll, NoMoreBoots, vars, DaemonWorks
  <2>3. RequestWaits' = RequestWaits /\ ResponseWaits' = ResponseWaits
    BY <2>1 DEF RequestWaits, ResponseWaits
  <2>4. ASSUME Conversation' PROVE \E c \in Clients : Owner(c)'
    <3>1. PICK c \in Clients : Owner(c)
      BY <2>2, <2>3, <2>4 DEF OneConversation, Owner
    <3>2. Asked(c)' = Asked(c) /\ Answered(c)' = Answered(c)
      BY <1>o, <2>1 DEF Asked, Answered
    <3>3. DaemonWorks' => (Working(c) => Working(c)')
      BY <1>o, <2>2 DEF Working, DaemonWorks
    <3>4. Working(c) /\ ~ DaemonWorks' => FALSE
      BY <2>3, <2>4 DEF OneConversation, Working, DaemonWorks
    <3> QED BY <1>o, <2>1, <3>1, <3>2, <3>3, <3>4 DEF Owner
  <2> QED BY <2>2, <2>3, <2>4 DEF OneConversation, Owner
<1>2. CASE InitSem
  <2>1. ~ DaemonWorks /\ ~ DaemonWorks' /\ UNCHANGED <<reqQueue, respQueue, executed>>
    BY <1>2 DEF InitSem, DaemonWorks
  <2>2. RequestWaits' = RequestWaits /\ ResponseWaits' = ResponseWaits
    BY <2>1 DEF RequestWaits, ResponseWaits
  <2>3. Conversation => semName # 0
    BY <2>1 DEF SameObjects, RequestWaits, ResponseWaits, Boots
  <2>4. ASSUME Conversation' PROVE \E c \in Clients : Owner(c)'
    <3>1. semValue' = semValue
      BY <1>2, <2>1, <2>2, <2>3, <2>4 DEF InitSem
    <3>2. PICK c \in Clients : Owner(c)
      BY <2>1, <2>2, <2>4 DEF OneConversation, Owner
    <3>3. Asked(c)' = Asked(c) /\ Answered(c)' = Answered(c) /\ ~ Working(c)
      BY <1>o, <2>1 DEF Asked, Answered, Working, DaemonWorks
    <3> QED BY <1>o, <3>1, <3>2, <3>3 DEF Owner
  <2> QED BY <2>1, <2>2, <2>4 DEF OneConversation, Owner
<1>3. CASE TakeRequest
  <2>1. daemonReq \in Boots /\ daemonReq = reqName
    BY <1>3, <1>t, BootNames DEF TakeRequest, IInv, HandlesInv, TypeOK, SameObjects
  <2>2. RequestWaits /\ ~ ResponseWaits
    BY <1>3, <2>1 DEF TakeRequest, RequestWaits, OneConversation
  <2>3. /\ reqQueue[daemonReq] = <<current'>> /\ Tail(reqQueue[daemonReq]) = <<>>
    BY <1>3, <1>t, <2>1, OneMessage DEF TakeRequest, TypeOK
  <2>4. \A b \in Boots : reqQueue'[b] = <<>>
    BY <1>3, <1>t, <2>1, <2>3 DEF TakeRequest, TypeOK, SameObjects
  <2>5. ~ RequestWaits' /\ ~ ResponseWaits'
    BY <1>3, <2>2, <2>4 DEF TakeRequest, RequestWaits, ResponseWaits
  <2>6. PICK c \in Clients : Owner(c)
    BY <2>2 DEF OneConversation, Owner
  <2>7. Asked(c)
    <3>1. ~ Working(c)
      BY <1>3 DEF TakeRequest, Working
    <3>2. ~ Answered(c)
      BY <2>2, Evidence
    <3> QED BY <2>6, <3>1, <3>2 DEF Owner
  <2>8. current' = MyCall(c)
    <3>1. PICK b \in Boots : reqQueue[b] = <<MyCall(c)>>
      BY <2>7 DEF Asked
    <3>2. b = daemonReq
      BY <2>1, <3>1 DEF SameObjects
    <3> QED BY <2>3, <3>1, <3>2
  <2>9. Owner(c)'
    BY <1>3, <1>o, <2>6, <2>8 DEF TakeRequest, Owner, Working
  <2> QED BY <2>5, <2>9 DEF OneConversation, Owner
<1>4. CASE Process
  <2>1. DaemonWorks /\ DaemonWorks' /\ UNCHANGED <<reqQueue, respQueue, current, semValue>>
    BY <1>4 DEF Process, DaemonWorks
  <2>2. RequestWaits' = RequestWaits /\ ResponseWaits' = ResponseWaits
    BY <2>1 DEF RequestWaits, ResponseWaits
  <2>3. PICK c \in Clients : Owner(c)
    BY <2>1 DEF OneConversation, Owner
  <2>4. Working(c)
    <3>1. ~ Asked(c)
      BY <2>1, Evidence DEF OneConversation
    <3>2. ~ Answered(c)
      BY <2>1, Evidence DEF OneConversation
    <3> QED BY <2>3, <3>1, <3>2 DEF Owner
  <2>5. Owner(c)'
    BY <1>o, <2>1, <2>3, <2>4 DEF Owner, Working, DaemonWorks
  <2> QED BY <2>1, <2>2, <2>5 DEF OneConversation, Owner
<1>5. CASE Respond
  <2>1. daemonResp \in Boots /\ result \in Results
    BY <1>5, <1>t, BootNames DEF Respond, IInv, HandlesInv, TypeOK
  <2>2. DaemonWorks /\ ~ DaemonWorks' /\ UNCHANGED <<reqQueue, semValue, executed>>
    BY <1>5 DEF Respond, DaemonWorks
  <2>3. ~ RequestWaits /\ ~ RequestWaits'
    BY <2>2 DEF RequestWaits, OneConversation
  <2>4. PICK c \in Clients : Owner(c)
    BY <2>2 DEF OneConversation, Owner
  <2>5. Working(c)
    <3>1. ~ Asked(c)
      BY <2>3, Evidence
    <3>2. ~ Answered(c)
      BY <2>2, Evidence DEF OneConversation
    <3> QED BY <2>4, <3>1, <3>2 DEF Owner
  <2>6. respQueue'[daemonResp] = <<result>>
    BY <1>5, <1>t, <2>1 DEF Respond, TypeOK
  <2>7. [call |-> MyCall(c)', res |-> result] \in executed'
    BY <1>5, <1>o, <2>2, <2>5 DEF Respond, ResponseMade, Working
  <2>8. Answered(c)'
    BY <2>1, <2>6, <2>7 DEF Answered
  <2>9. Owner(c)'
    BY <1>o, <2>2, <2>4, <2>8 DEF Owner
  <2> QED BY <2>2, <2>3, <2>9 DEF OneConversation, Owner
<1>6. CASE CloseReq \/ CloseResp \/ Stop
  BY <1>6 DEF CloseReq, CloseResp, Stop, SameObjects, WellBehaved
<1> QED
  BY <1>1, <1>2, <1>3, <1>4, <1>5, <1>6 DEF DaemonNext, DaemonStep

\* Whoever is inside while a conversation goes on is its owner, waiting for the
\* response.
LEMMA InsideOwns ==
  ASSUME OneConversation, Conversation, NEW c \in Clients, clientPc[c] \in InsidePcs
  PROVE  Owner(c) /\ clientPc[c] = "receive"
<1>1. PICK d \in Clients : Owner(d)
  BY DEF OneConversation, Owner
<1>2. c = d
  BY <1>1 DEF Owner, Inside, InsidePcs
<1> QED BY <1>1, <1>2 DEF Owner, InsidePcs

\* A client that is not the owner of a conversation, and does not get inside, does
\* not disturb it.
LEMMA ConversationFrame ==
  ASSUME OneConversation, NEW c \in Clients,
         UNCHANGED <<daemonPc, current, semValue, reqQueue, respQueue, executed>>,
         \A d \in Clients : d # c => clientPc'[d] = clientPc[d] /\ calls'[d] = calls[d],
         clientPc'[c] \in InsidePcs => clientPc[c] \in InsidePcs,
         clientPc[c] \in {"receive", "dead"} =>
           clientPc'[c] \in {"receive", "dead"} /\ calls'[c] = calls[c]
  PROVE  OneConversation'
<1>1. /\ RequestWaits' = RequestWaits /\ DaemonWorks' = DaemonWorks
      /\ ResponseWaits' = ResponseWaits
  BY DEF RequestWaits, DaemonWorks, ResponseWaits
<1>2. ASSUME Conversation PROVE \E d \in Clients : Owner(d)'
  <2>1. PICK d \in Clients : Owner(d)
    BY <1>2 DEF OneConversation, Owner
  <2>2. clientPc'[d] \in {"receive", "dead"} /\ calls'[d] = calls[d]
    BY <2>1 DEF Owner
  <2>3. Inside' \subseteq {d}
    BY <2>1 DEF Owner, Inside, InsidePcs
  <2>4. MyCall(d)' = MyCall(d)
    BY <2>2 DEF MyCall
  <2>5. Asked(d)' \/ Working(d)' \/ Answered(d)'
    BY <2>1, <2>4 DEF Owner, Asked, Working, Answered
  <2> QED BY <2>1, <2>2, <2>3, <2>5 DEF Owner
<1> QED BY <1>1, <1>2 DEF OneConversation, Conversation, Owner

\* A client gets inside only when there is no conversation, starts one only when
\* it is inside, and ends its own.
LEMMA ClientConversation ==
  ASSUME WellBehaved, IInv, SameObjects, OneConversation, NEW c \in Clients, ClientNext(c)
  PROVE  OneConversation'
<1> USE DEF names, objects, daemonVars, clientVars, history, GoTo
<1>t. TypeOK
  BY DEF IInv
<1>o. /\ UNCHANGED <<daemonPc, current, executed>>
      /\ \A d \in Clients : d # c => clientPc'[d] = clientPc[d] /\ calls'[d] = calls[d]
  BY <1>t DEF ClientNext, ClientStep, CallBegin, OpenSem, WaitSem, OpenReq, OpenResp, Send,
       Receive, Post, Interrupted, Killed, Fails, TypeOK
<1>1. CASE CallBegin(c) \/ OpenSem(c) \/ Killed(c)
  <2>1. UNCHANGED <<semValue, reqQueue, respQueue>>
    BY <1>1 DEF CallBegin, OpenSem, Killed
  <2>2. clientPc'[c] \notin InsidePcs
    BY <1>1, <1>t DEF CallBegin, OpenSem, Killed, TypeOK, InsidePcs
  <2>3. clientPc[c] \in {"receive", "dead"} =>
          clientPc'[c] \in {"receive", "dead"} /\ calls'[c] = calls[c]
    BY <1>1, <1>t DEF CallBegin, OpenSem, Killed, TypeOK
  <2> QED BY <1>o, <2>1, <2>2, <2>3, ConversationFrame
<1>2. CASE WaitSem(c)
  <2>1. clientSem[c] \in Boots /\ semValue[clientSem[c]] # 0
    BY <1>2, <1>t, BootNames DEF WaitSem, IInv, HandlesInv, TypeOK
  <2>2. ~ Conversation
    BY <2>1 DEF OneConversation
  <2>3. UNCHANGED <<reqQueue, respQueue>>
    BY <1>2 DEF WaitSem
  <2> QED BY <1>o, <2>2, <2>3
          DEF OneConversation, Conversation, RequestWaits, DaemonWorks, ResponseWaits
<1>3. CASE OpenReq(c) \/ OpenResp(c)
  <2>1. ~ Conversation
    BY <1>3, InsideOwns DEF OpenReq, OpenResp, InsidePcs
  <2>2. UNCHANGED <<reqQueue, respQueue>>
    BY <1>3 DEF OpenReq, OpenResp
  <2> QED BY <1>o, <2>1, <2>2
          DEF OneConversation, Conversation, RequestWaits, DaemonWorks, ResponseWaits
<1>4. CASE Send(c)
  <2>1. clientReq[c] \in Boots
    BY <1>4, <1>t, BootNames DEF Send, IInv, HandlesInv, TypeOK
  <2>2. ~ Conversation
    BY <1>4, InsideOwns DEF Send, InsidePcs
  <2>3. ~ DaemonWorks' /\ ~ ResponseWaits'
    BY <1>4, <1>o, <2>2 DEF Send, Conversation, DaemonWorks, ResponseWaits
  <2>4. clientPc'[c] = "receive" /\ calls' = calls /\ clientPc[c] = "send"
    BY <1>4, <1>t DEF Send, TypeOK
  <2>5. Asked(c)'
    <3>1. reqQueue'[clientReq[c]] = <<MyCall(c)>> /\ MyCall(c)' = MyCall(c)
      BY <1>4, <1>t, <2>1, <2>4 DEF Send, TypeOK, MyCall
    <3> QED BY <2>1, <3>1 DEF Asked
  <2>6. \A b \in Boots : semValue'[b] = 0
    <3>1. clientSem[c] = semName /\ semValue[semName] = 0
      BY <2>4 DEF SameObjects, IInv, SemInv, InsidePcs
    <3> QED BY <1>4, <3>1 DEF Send, SameObjects
  <2>7. Inside' \subseteq {c}
    <3>1. \A d \in Clients : clientPc[d] \in InsidePcs => clientSem[d] = clientSem[c]
      BY <2>4 DEF SameObjects, InsidePcs
    <3>2. \A d \in Clients : clientPc[d] \in InsidePcs => d = c
      BY <2>4, <3>1 DEF IInv, SemInv, InsidePcs
    <3> QED BY <1>o, <3>2 DEF Inside, InsidePcs
  <2>8. Owner(c)'
    BY <2>4, <2>5, <2>6, <2>7 DEF Owner
  <2> QED BY <2>3, <2>8 DEF OneConversation, Owner
<1>5. CASE Receive(c)
  <2>1. clientResp[c] \in Boots /\ clientResp[c] = respName
    BY <1>5, <1>t, BootNames DEF Receive, IInv, HandlesInv, TypeOK, SameObjects
  <2>2. ResponseWaits
    BY <1>5, <2>1 DEF Receive, ResponseWaits
  <2>3. ~ RequestWaits' /\ ~ DaemonWorks'
    BY <1>5, <1>o, <2>2 DEF Receive, OneConversation, RequestWaits, DaemonWorks
  <2>4. Tail(respQueue[clientResp[c]]) = <<>>
    BY <1>5, <1>t, <2>1, OneMessage DEF Receive, TypeOK
  <2>5. \A b \in Boots : respQueue'[b] = <<>>
    BY <1>5, <1>t, <2>1, <2>4 DEF Receive, TypeOK, SameObjects
  <2> QED BY <2>3, <2>5 DEF OneConversation, Conversation, ResponseWaits
<1>6. CASE Post(c)
  <2>1. CASE clientPc[c] = "post"
    <3>1. ~ Conversation
      BY <2>1, InsideOwns DEF InsidePcs
    <3>2. UNCHANGED <<reqQueue, respQueue>>
      BY <1>6 DEF Post
    <3> QED BY <1>o, <3>1, <3>2
            DEF OneConversation, Conversation, RequestWaits, DaemonWorks, ResponseWaits
  <2>2. CASE clientPc[c] = "failed"
    <3>1. UNCHANGED <<semValue, reqQueue, respQueue>>
      BY <1>6, <2>2 DEF Post
    <3>2. clientPc'[c] \notin InsidePcs
      BY <1>6, <1>t DEF Post, TypeOK, InsidePcs
    <3> QED BY <1>o, <2>2, <3>1, <3>2, ConversationFrame
  <2> QED BY <1>6, <2>1, <2>2 DEF Post
<1>7. CASE Interrupted(c)
  BY <1>7 DEF Interrupted, WellBehaved
<1> QED
  BY <1>1, <1>2, <1>3, <1>4, <1>5, <1>6, <1>7 DEF ClientNext, ClientStep

\* A client that has a result has its own: the owner takes what the service made
\* of its request.
LEMMA NextMine ==
  ASSUME WellBehaved, IInv, SessionInv, [Next]_vars
  PROVE  ResponseMade' /\ ResponseIsMine'
<1> USE DEF names, objects, daemonVars, clientVars, history, GoTo
<1>t. TypeOK
  BY DEF IInv
<1>1. CASE DaemonNext
  <2>1. UNCHANGED clientVars /\ executed \subseteq executed'
    BY <1>1 DEF DaemonNext, DaemonStep, Boot, InitSem, InitReq, InitResp, TakeRequest, Process,
       Respond, CloseReq, CloseResp, Poll, Stop, Crash, NoMoreBoots, vars
  <2>2. ResponseMade'
    BY <1>1 DEF DaemonNext, DaemonStep, Boot, InitSem, InitReq, InitResp, TakeRequest, Process,
       Respond, CloseReq, CloseResp, Poll, Stop, Crash, NoMoreBoots, vars,
       SessionInv, ResponseMade
  <2> QED BY <2>1, <2>2 DEF SessionInv, ResponseIsMine, MyCall
<1>2. ASSUME NEW c \in Clients, ClientNext(c) PROVE ResponseMade' /\ ResponseIsMine'
  <2>1. /\ UNCHANGED <<daemonPc, current, result, executed>>
        /\ \A d \in Clients : d # c =>
             clientPc'[d] = clientPc[d] /\ calls'[d] = calls[d] /\ answer'[d] = answer[d]
    BY <1>2, <1>t DEF ClientNext, ClientStep, CallBegin, OpenSem, WaitSem, OpenReq, OpenResp, Send,
         Receive, Post, Interrupted, Killed, Fails, TypeOK
  <2>2. ASSUME clientPc'[c] = "post", answer'[c] \in Results
        PROVE  [call |-> MyCall(c)', res |-> answer'[c]] \in executed
    <3>1. Receive(c)
      BY <1>2, <1>t, <2>2 DEF ClientNext, ClientStep, CallBegin, OpenSem, WaitSem, OpenReq,
           OpenResp, Send, Post, Interrupted, Killed, Fails, TypeOK, Results
    <3>2. clientResp[c] \in Boots /\ clientPc[c] = "receive"
      BY <3>1, <1>t, BootNames DEF Receive, IInv, HandlesInv, TypeOK
    <3>3. ResponseWaits
      BY <3>1, <3>2 DEF Receive, ResponseWaits
    <3>4. Owner(c)
      BY <3>2, <3>3, InsideOwns DEF SessionInv, Conversation, InsidePcs
    <3>5. Answered(c)
      BY <3>3, <3>4, Evidence DEF Owner, SessionInv, OneConversation
    <3>6. PICK b \in Boots, res \in Results :
            respQueue[b] = <<res>> /\ [call |-> MyCall(c), res |-> res] \in executed
      BY <3>5 DEF Answered
    <3>7. b = clientResp[c]
      BY <3>2, <3>6 DEF SessionInv, SameObjects
    <3>8. answer'[c] = res
      BY <1>t, <3>1, <3>6, <3>7 DEF Receive, TypeOK
    <3>9. MyCall(c)' = MyCall(c)
      BY <3>1 DEF Receive, MyCall
    <3> QED BY <3>6, <3>8, <3>9
  <2>3. \A d \in Clients : d # c => MyCall(d)' = MyCall(d)
    BY <2>1 DEF MyCall
  <2> QED BY <2>1, <2>2, <2>3 DEF SessionInv, ResponseMade, ResponseIsMine
<1>3. CASE UNCHANGED vars
  BY <1>3 DEF vars, SessionInv, ResponseMade, ResponseIsMine, MyCall
<1> QED BY <1>1, <1>2, <1>3 DEF Next

\* The conversation invariant is inductive.
LEMMA NextSession == ASSUME WellBehaved PROVE IInv /\ SessionInv /\ [Next]_vars => SessionInv'
<1> SUFFICES ASSUME IInv, SessionInv, [Next]_vars PROVE SessionInv'
  OBVIOUS
<1>1. SameObjects' /\ OneConversation'
  <2>1. CASE DaemonNext
    BY <2>1, DaemonSameObjects, DaemonConversation DEF SessionInv
  <2>2. CASE \E c \in Clients : ClientNext(c)
    BY <2>2, ClientSameObjects, ClientConversation DEF SessionInv
  <2>3. CASE UNCHANGED vars
    BY <2>3 DEF vars, names, objects, daemonVars, clientVars, history, SessionInv, SameObjects,
         OneConversation, Conversation, RequestWaits, DaemonWorks, ResponseWaits,
         Inside, Asked, Working, Answered, MyCall
  <2> QED BY <2>1, <2>2, <2>3 DEF Next
<1> QED BY <1>1, NextMine DEF SessionInv

LEMMA SessionInvariance == ASSUME WellBehaved PROVE Spec => []SessionInv
  BY Invariance, InitSession, NextSession, PTL DEF Spec

\* While the service crashes and clients die, but nobody is interrupted and the
\* service is not stopped, the response a client takes is the one to its request.
THEOREM OwnResponse == ASSUME WellBehaved PROVE Spec => []ResponseIsMine
<1>1. SessionInv => ResponseIsMine
  BY DEF SessionInv
<1> QED BY <1>1, SessionInvariance, PTL

\* There is room for the response of the request the service works on.
THEOREM RoomForResponse == ASSUME WellBehaved PROVE Spec => []ServiceNotBlocked
<1>1. IInv /\ SessionInv => ServiceNotBlocked
  <2> SUFFICES ASSUME IInv, SessionInv, daemonPc \in {"process", "respond"}
               PROVE  respQueue[daemonResp] = <<>>
    BY DEF ServiceNotBlocked
  <2>1. daemonResp \in Boots
    BY BootNames DEF IInv, TypeOK, HandlesInv
  <2>2. ~ ResponseWaits
    BY DEF SessionInv, OneConversation, DaemonWorks
  <2> QED BY <2>1, <2>2 DEF ResponseWaits
<1> QED BY <1>1, Invariance, SessionInvariance, PTL

\* At most one client is between its wait and its post, over all instances of the
\* service.
THEOREM OnlyOneInside == ASSUME WellBehaved PROVE Spec => []OneInside
<1>1. ASSUME IInv, SessionInv PROVE OneInside
  <2>1. \A c, d \in Inside : d = c
    BY <1>1 DEF IInv, SemInv, SessionInv, SameObjects, Inside, InsidePcs
  <2>2. CASE Inside = {}
    BY <2>2, FS_EmptySet DEF OneInside
  <2>3. CASE Inside # {}
    <3>1. PICK c \in Inside : Inside = {c}
      BY <2>1, <2>3
    <3>2. Cardinality(Inside) = 1
      BY <3>1, FS_Singleton
    <3> QED BY <3>2 DEF OneInside
  <2> QED BY <2>2, <2>3
<1>2. IInv /\ SessionInv => OneInside
  BY <1>1
<1> QED BY <1>2, Invariance, SessionInvariance, PTL

-----------------------------------------------------------------------------
(* The library and the service keep the promise of RequestServer: every step *)
(* of theirs is a step of the abstract server or leaves it alone.            *)

\* The refinement mapping, as AbstractServer has it.
CallerOf(pc) ==
  CASE pc \in {"idle", "dead"} -> pc
    [] pc \in {"post", "failed"} -> "answered"
    [] OTHER -> "asked"
callerBar == [c \in Clients |->
               CASE clientPc[c] \in {"idle", "dead"} -> clientPc[c]
                 [] clientPc[c] \in {"post", "failed"} -> "answered"
                 [] OTHER -> "asked"]
runningBar == IF daemonPc = "process" THEN current ELSE None

\* What the mapping makes of the places in a call.
LEMMA Places ==
  /\ CallerOf("idle") = "idle" /\ CallerOf("dead") = "dead"
  /\ CallerOf("post") = "answered" /\ CallerOf("failed") = "answered"
  /\ \A pc \in {"open_sem", "wait_sem", "open_req", "open_resp", "send", "receive"} :
       CallerOf(pc) = "asked"
  BY DEF CallerOf

LEMMA CallerBar == callerBar = [c \in Clients |-> CallerOf(clientPc[c])]
  BY DEF callerBar, CallerOf

\* One client moves, the abstract one with it.
LEMMA CallerMoves ==
  ASSUME IInv, NEW c \in Clients, NEW pc, NEW bar,
         clientPc' = [clientPc EXCEPT ![c] = pc], CallerOf(pc) = bar
  PROVE  callerBar' = [callerBar EXCEPT ![c] = bar]
<1>1. \A d \in Clients : clientPc'[d] = IF d = c THEN pc ELSE clientPc[d]
  BY DEF IInv, TypeOK
<1>2. callerBar' = [d \in Clients |-> CallerOf(clientPc'[d])]
  BY DEF callerBar, CallerOf
<1>3. callerBar = [d \in Clients |-> CallerOf(clientPc[d])]
  BY CallerBar
<1>4. \A d \in Clients :
       CallerOf(clientPc'[d]) = IF d = c THEN bar ELSE CallerOf(clientPc[d])
  BY <1>1
<1>5. callerBar' = [d \in Clients |->
                     IF d = c THEN bar ELSE CallerOf(clientPc[d])]
  BY <1>2, <1>4
<1>6. [callerBar EXCEPT ![c] = bar]
        = [d \in Clients |-> IF d = c THEN bar ELSE CallerOf(clientPc[d])]
  BY <1>3
<1> QED BY <1>5, <1>6

LEMMA InitRefines == Init => AbstractServer!Init
<1> SUFFICES ASSUME Init PROVE AbstractServer!Init
  OBVIOUS
<1>1. callerBar = [c \in Clients |-> "idle"]
  BY CallerBar, Places DEF Init
<1>2. runningBar = None
  BY DEF Init, runningBar
<1> QED BY <1>1, <1>2 DEF Init, AbstractServer!Init, callerBar, runningBar, None, AbstractServer!None

\* A step that moves no client across the interface, neither begins nor ends the
\* work of the service, and keeps the history, is none of the abstract server.
LEMMA Stutters ==
  ASSUME UNCHANGED <<callerBar, calls, answer, begun, runningBar, executed>>
  PROVE  UNCHANGED AbstractServer!vars
  BY DEF callerBar, runningBar, None, AbstractServer!vars, AbstractServer!None

-----------------------------------------------------------------------------
(* The service.                                                            *)

\* The request the service takes is one that its client is waiting for, or died
\* waiting for, and that was not begun before.
LEMMA BeginRefines ==
  ASSUME IInv, DeliveryInv, SessionInv, TakeRequest
  PROVE  \E c \in Clients : AbstractServer!Begin(c)
<1> USE DEF names, objects, daemonVars, clientVars, history
<1>1. daemonReq \in Boots
  BY BootNames DEF TakeRequest, IInv, HandlesInv, TypeOK
<1>2. /\ current' \in Call /\ reqQueue[daemonReq] = <<current'>>
      /\ begun' = begun \cup {current'}
  BY <1>1, OneMessage DEF TakeRequest, IInv, TypeOK
<1>3. current' \notin begun
  BY <1>1, <1>2 DEF DeliveryInv, OnceInv
<1>4. PICK c \in Clients : Owner(c)
  BY <1>1 DEF TakeRequest, SessionInv, OneConversation, Conversation, RequestWaits, Owner
<1>5. current' = MyCall(c)
  <2>1. ~ Working(c) /\ ~ Answered(c)
    BY <1>1, Evidence
       DEF TakeRequest, SessionInv, OneConversation, RequestWaits, Working
  <2>2. PICK b \in Boots : reqQueue[b] = <<MyCall(c)>>
    BY <1>4, <2>1 DEF Owner, Asked
  <2>3. b = daemonReq
    <3>1. reqQueue[b] # <<>>
      BY <2>2
    <3> QED BY <1>1, <3>1 DEF TakeRequest, SessionInv, SameObjects
  <2> QED BY <1>2, <2>2, <2>3
<1>6. callerBar[c] \in {"asked", "dead"}
  BY <1>4, CallerBar, Places DEF Owner
<1>7. calls[c] > 0
  BY <1>2, <1>5 DEF Call, MyCall
<1>8. runningBar = None /\ runningBar' = MyCall(c)
  BY <1>5 DEF TakeRequest, runningBar
<1>9. UNCHANGED <<callerBar, calls, answer, executed>>
  BY DEF TakeRequest, callerBar
<1> QED
  BY <1>2, <1>3, <1>5, <1>6, <1>7, <1>8, <1>9
  DEF AbstractServer!Begin, AbstractServer!MyCall, AbstractServer!None,
      callerBar, runningBar, None, MyCall

LEMMA FinishRefines == ASSUME IInv, Process PROVE AbstractServer!Finish
<1> USE DEF names, objects, daemonVars, clientVars, history
<1>1. runningBar = current /\ current # None /\ runningBar' = None
  BY DEF Process, IInv, HandlesInv, runningBar
<1>2. \E res \in Results : executed' = executed \cup {[call |-> current, res |-> res]}
  BY DEF Process
<1>3. UNCHANGED <<callerBar, calls, answer, begun>>
  BY DEF Process, callerBar
<1> QED
  BY <1>1, <1>2, <1>3
  DEF AbstractServer!Finish, AbstractServer!None, callerBar, runningBar, None

\* The other steps of the service do not show, except a crash in the middle of an
\* operation.
LEMMA DaemonRefines ==
  ASSUME WellBehaved, IInv, DeliveryInv, SessionInv, DaemonNext
  PROVE  AbstractServer!Next \/ UNCHANGED AbstractServer!vars
<1> USE DEF names, objects, daemonVars, clientVars, history
<1>1. CASE TakeRequest
  BY <1>1, BeginRefines DEF AbstractServer!Next
<1>2. CASE Process
  BY <1>2, FinishRefines DEF AbstractServer!Next
<1>3. CASE Crash /\ daemonPc = "process"
  <2>1. runningBar = current /\ current # None /\ runningBar' = None
    BY <1>3 DEF Crash, IInv, HandlesInv, runningBar
  <2>2. UNCHANGED <<callerBar, calls, answer, begun, executed>>
    BY <1>3 DEF Crash, callerBar
  <2>3. AbstractServer!Abort
    BY <2>1, <2>2
    DEF AbstractServer!Abort, AbstractServer!None, callerBar, runningBar, None
  <2> QED BY <2>3 DEF AbstractServer!Next
<1>4. CASE \/ Boot \/ InitSem \/ InitReq \/ InitResp \/ Respond
           \/ CloseReq \/ CloseResp \/ Stop \/ (Crash /\ daemonPc # "process")
  <2>1. daemonPc # "process" /\ daemonPc' # "process"
    BY <1>4 DEF Boot, InitSem, InitReq, InitResp, Respond, CloseReq, CloseResp, Stop, Crash
  <2>2. UNCHANGED <<clientPc, calls, answer, begun, executed>>
    BY <1>4 DEF Boot, InitSem, InitReq, InitResp, Respond, CloseReq, CloseResp, Stop, Crash
  <2>3. UNCHANGED <<callerBar, runningBar>>
    BY <2>1, <2>2 DEF callerBar, runningBar
  <2> QED BY <2>2, <2>3, Stutters
<1>5. CASE Poll \/ NoMoreBoots
  <2>1. UNCHANGED <<callerBar, calls, answer, begun, runningBar, executed>>
    BY <1>5 DEF Poll, NoMoreBoots, vars, callerBar, runningBar
  <2> QED BY <2>1, Stutters
<1> QED BY <1>1, <1>2, <1>3, <1>4, <1>5 DEF DaemonNext, DaemonStep

-----------------------------------------------------------------------------
(* A client.                                                               *)

\* An error before the send: the request was not begun, and will not be.
LEMMA RefuseRefines ==
  ASSUME IInv, DeliveryInv, NEW c \in Clients,
         clientPc[c] \in {"open_sem", "open_req", "open_resp"},
         NEW pc \in {"post", "failed"}, clientPc' = [clientPc EXCEPT ![c] = pc],
         answer' = [answer EXCEPT ![c] = "refused"],
         UNCHANGED <<calls, daemonVars, history>>
  PROVE  AbstractServer!Refuse(c)
<1> USE DEF daemonVars, history
<1>1. MyCall(c) \notin begun
  <2>1. MyCall(c) \in Call /\ MyCall(c).client = c /\ MyCall(c).n = calls[c]
    BY MyCallType DEF IInv, HandlesInv, MyCall
  <2> QED BY <2>1 DEF DeliveryInv, SentInv, Sent
<1>2. callerBar[c] = "asked"
  BY CallerBar, Places
<1>3. callerBar' = [callerBar EXCEPT ![c] = "answered"]
  <2>1. CallerOf(pc) = "answered"
    BY Places
  <2> QED BY <2>1, CallerMoves, Zenon
<1>4. UNCHANGED runningBar
  BY DEF runningBar
<1> QED
  BY <1>1, <1>2, <1>3, <1>4
  DEF AbstractServer!Refuse, AbstractServer!MyCall, AbstractServer!None,
      callerBar, runningBar, None, MyCall

\* The owner of the conversation takes the response to its own request.
LEMMA AnswerRefines ==
  ASSUME WellBehaved, IInv, SessionInv, NEW c \in Clients, Receive(c)
  PROVE  AbstractServer!Answer(c)
<1> USE DEF names, objects, daemonVars, clientVars, history, GoTo
<1>1. [Next]_vars
  BY DEF Next, ClientNext, ClientStep
<1>2. clientPc' = [clientPc EXCEPT ![c] = "post"] /\ clientPc'[c] = "post"
  BY DEF Receive, IInv, TypeOK
<1>3. answer'[c] \in Results
  <2>1. clientResp[c] \in Boots
    BY BootNames DEF Receive, IInv, HandlesInv, TypeOK
  <2>2. Head(respQueue[clientResp[c]]) \in Results
    BY <2>1, OneMessage DEF Receive, IInv, TypeOK
  <2> QED BY <2>2 DEF Receive, IInv, TypeOK
<1>4. [call |-> MyCall(c), res |-> answer'[c]] \in executed
  <2>1. [call |-> MyCall(c)', res |-> answer'[c]] \in executed'
    BY <1>1, <1>2, <1>3, NextMine DEF ResponseIsMine
  <2> QED BY <2>1 DEF Receive, MyCall
<1>5. answer' = [answer EXCEPT ![c] = answer'[c]]
  BY DEF Receive, IInv, TypeOK
<1>6. \E e \in executed : e.call = MyCall(c) /\ answer' = [answer EXCEPT ![c] = e.res]
  BY <1>4, <1>5
<1>7. callerBar[c] = "asked"
  BY CallerBar, Places DEF Receive
<1>8. callerBar' = [callerBar EXCEPT ![c] = "answered"]
  <2>1. CallerOf("post") = "answered"
    BY Places
  <2> QED BY <1>2, <2>1, CallerMoves, Zenon
<1>9. UNCHANGED <<calls, begun, runningBar, executed>>
  BY DEF Receive, runningBar
<1> QED
  BY <1>6, <1>7, <1>8, <1>9
  DEF AbstractServer!Answer, AbstractServer!MyCall, AbstractServer!None,
      callerBar, runningBar, None, MyCall

\* A step between two places of the same meaning does not show.
LEMMA ClientStutters ==
  ASSUME IInv, NEW c \in Clients, NEW pc, clientPc' = [clientPc EXCEPT ![c] = pc],
         CallerOf(pc) = CallerOf(clientPc[c]),
         UNCHANGED <<calls, answer, daemonVars, history>>
  PROVE  UNCHANGED AbstractServer!vars
<1>1. callerBar' = callerBar
  <2>1. callerBar' = [callerBar EXCEPT ![c] = CallerOf(clientPc[c])]
    BY CallerMoves, Zenon
  <2>2. callerBar[c] = CallerOf(clientPc[c])
    BY CallerBar
  <2> QED BY <2>1, <2>2, CallerBar
<1>2. UNCHANGED <<calls, answer, begun, runningBar, executed>>
  BY DEF daemonVars, history, runningBar
<1> QED BY <1>1, <1>2, Stutters

LEMMA ClientRefines ==
  ASSUME WellBehaved, IInv, DeliveryInv, SessionInv, NEW c \in Clients, ClientNext(c)
  PROVE  AbstractServer!Next \/ UNCHANGED AbstractServer!vars
<1> USE DEF names, objects, daemonVars, clientVars, history, GoTo
<1>1. CASE CallBegin(c)
  <2>1. callerBar[c] = "idle"
    BY <1>1, CallerBar, Places DEF CallBegin
  <2>2. clientPc' = [clientPc EXCEPT ![c] = "open_sem"] /\ CallerOf("open_sem") = "asked"
    BY <1>1, Places DEF CallBegin
  <2>3. callerBar' = [callerBar EXCEPT ![c] = "asked"]
    BY <2>2, CallerMoves, Zenon
  <2>4. UNCHANGED runningBar
    BY <1>1 DEF CallBegin, runningBar
  <2>5. AbstractServer!Ask(c)
    BY <1>1, <2>1, <2>3, <2>4
    DEF CallBegin, AbstractServer!Ask, AbstractServer!None, callerBar, runningBar, None
  <2> QED BY <2>5 DEF AbstractServer!Next
<1>2. CASE OpenSem(c)
  <2>1. CASE semName = 0
    <3>1. AbstractServer!Refuse(c)
      BY <1>2, <2>1, RefuseRefines DEF OpenSem
    <3> QED BY <3>1 DEF AbstractServer!Next
  <2>2. CASE semName # 0
    BY <1>2, <2>2, ClientStutters, Places DEF OpenSem
  <2> QED BY <2>1, <2>2
<1>3. CASE OpenReq(c)
  <2>1. CASE reqName = 0
    <3>1. AbstractServer!Refuse(c)
      BY <1>3, <2>1, RefuseRefines DEF OpenReq, Fails
    <3> QED BY <3>1 DEF AbstractServer!Next
  <2>2. CASE reqName # 0
    BY <1>3, <2>2, ClientStutters, Places DEF OpenReq
  <2> QED BY <2>1, <2>2
<1>4. CASE OpenResp(c)
  <2>1. CASE respName = 0
    <3>1. AbstractServer!Refuse(c)
      BY <1>4, <2>1, RefuseRefines DEF OpenResp, Fails
    <3> QED BY <3>1 DEF AbstractServer!Next
  <2>2. CASE respName # 0
    BY <1>4, <2>2, ClientStutters, Places DEF OpenResp
  <2> QED BY <2>1, <2>2
<1>5. CASE WaitSem(c) \/ Send(c)
  BY <1>5, ClientStutters, Places DEF WaitSem, Send
<1>6. CASE Receive(c)
  BY <1>6, AnswerRefines DEF AbstractServer!Next
<1>7. CASE Post(c)
  <2>1. callerBar[c] = "answered"
    BY <1>7, CallerBar, Places DEF Post
  <2>2. clientPc' = [clientPc EXCEPT ![c] = "idle"] /\ CallerOf("idle") = "idle"
    BY <1>7, Places DEF Post
  <2>3. callerBar' = [callerBar EXCEPT ![c] = "idle"]
    BY <2>2, CallerMoves, Zenon
  <2>4. UNCHANGED <<calls, answer, begun, runningBar, executed>>
    BY <1>7 DEF Post, runningBar
  <2>5. AbstractServer!Return(c)
    BY <2>1, <2>3, <2>4
    DEF AbstractServer!Return, AbstractServer!None, callerBar, runningBar, None
  <2> QED BY <2>5 DEF AbstractServer!Next
<1>8. CASE Killed(c)
  <2>1. callerBar[c] # "dead"
    <3>1. clientPc[c] \in {"open_sem", "wait_sem", "open_req", "open_resp", "send", "receive",
                           "post", "failed"}
      BY <1>8 DEF Killed, IInv, TypeOK
    <3>2. CallerOf(clientPc[c]) \in {"asked", "answered"}
      BY <3>1, Places
    <3> QED BY <3>2, CallerBar
  <2>2. clientPc' = [clientPc EXCEPT ![c] = "dead"] /\ CallerOf("dead") = "dead"
    BY <1>8, Places DEF Killed
  <2>3. callerBar' = [callerBar EXCEPT ![c] = "dead"]
    BY <2>2, CallerMoves, Zenon
  <2>4. UNCHANGED <<calls, answer, begun, runningBar, executed>>
    BY <1>8 DEF Killed, runningBar
  <2>5. AbstractServer!Die(c)
    BY <2>1, <2>3, <2>4
    DEF AbstractServer!Die, AbstractServer!None, callerBar, runningBar, None
  <2> QED BY <2>5 DEF AbstractServer!Next
<1>9. CASE Interrupted(c)
  BY <1>9 DEF Interrupted, WellBehaved
<1> QED
  BY <1>1, <1>2, <1>3, <1>4, <1>5, <1>6, <1>7, <1>8, <1>9 DEF ClientNext, ClientStep

LEMMA StepRefines ==
  ASSUME WellBehaved
  PROVE  IInv /\ DeliveryInv /\ SessionInv /\ [Next]_vars
           => [AbstractServer!Next]_(AbstractServer!vars)
<1> SUFFICES ASSUME IInv, DeliveryInv, SessionInv, [Next]_vars
             PROVE  AbstractServer!Next \/ UNCHANGED AbstractServer!vars
  OBVIOUS
<1>1. CASE DaemonNext
  BY <1>1, DaemonRefines
<1>2. CASE \E c \in Clients : ClientNext(c)
  BY <1>2, ClientRefines
<1>3. CASE UNCHANGED vars
  <2>1. UNCHANGED <<callerBar, calls, answer, begun, runningBar, executed>>
    BY <1>3 DEF vars, daemonVars, clientVars, history, callerBar, runningBar
  <2> QED BY <2>1, Stutters
<1> QED BY <1>1, <1>2, <1>3 DEF Next

\* Requests are executed one at a time, each at most once; a caller gets the result
\* of its own request; a caller that is refused can rely on nothing having been
\* done: through crashes of the service and deaths of clients.
THEOREM Refinement == ASSUME WellBehaved PROVE Spec => Implements
  BY InitRefines, StepRefines, Invariance, DeliveryInvariance, SessionInvariance, PTL
  DEF Spec, Implements, AbstractServer!Spec
=============================================================================
