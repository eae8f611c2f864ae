------------------------ MODULE ShutdownGateProofs ------------------------
(***************************************************************************)
(* The safety of the shutdown gate, for any number of lifecycle requests   *)
(* in flight.                                                              *)
(***************************************************************************)
EXTENDS ShutdownGate, TLAPS

\* g_bOpInProgress says what it is called after, and excludes the shutdown flag.
OpFlagExact == opInProgress <=> threadPc = "op"
FlagsExclude == shutdownInProgress => ~ opInProgress

\* The handler is where its request sends it.
HandlerConsistent ==
  /\ mainPc \in {"waiting", "woken"} => lifecycle = "shutdown"
  /\ mainPc = "set" => lifecycle # "other"

\* What NSM was told, or is about to be told, is what the flag says.
ToldConsistent ==
  /\ mainPc = "complete" /\ lifecycle = "shutdown" => shutdownInProgress
  /\ nsmTold = "shutdown" /\ ~ (mainPc = "complete" /\ lifecycle = "runup")
       => shutdownInProgress

\* The clients are locked only between the two calls of the PCL protocol.
LockBracketed == pclLocked => threadPc \in {"check", "gate", "op", "unlock_pcl"}
ExitJoined == mainPc = "exited" => threadPc = "stopped"

IInv ==
  /\ TypeOK
  /\ OpFlagExact
  /\ FlagsExclude
  /\ HandlerConsistent
  /\ WaiterHasWaker
  /\ ToldConsistent
  /\ LockBracketed
  /\ ExitJoined

\* The inductive invariant holds initially.
LEMMA InitIInv == Init => IInv
<1> SUFFICES ASSUME Init PROVE IInv
  OBVIOUS
<1>1. TypeOK
  <2>1. lifecycleQueue \in Seq(LifecycleKinds)
    BY DEF Init
  <2>2. lifecycle \in LifecycleKinds
    BY DEF Init, LifecycleKinds
  <2> QED BY <2>1, <2>2 DEF Init, TypeOK
<1>2. OpFlagExact /\ FlagsExclude /\ HandlerConsistent /\ WaiterHasWaker
  BY DEF Init, OpFlagExact, FlagsExclude, HandlerConsistent, WaiterHasWaker
<1>3. ToldConsistent /\ LockBracketed /\ ExitJoined
  BY DEF Init, ToldConsistent, LockBracketed, ExitJoined
<1> QED BY <1>1, <1>2, <1>3 DEF IInv

\* The types of the variables of the clients, and of the rest.
ClientTypes ==
  requested \in BOOLEAN /\ responded \in BOOLEAN /\ clientWaits \in BOOLEAN
ServiceTypes ==
  /\ threadPc \in {"init", "idle", "lock_pcl", "check", "gate", "op", "unlock_pcl",
                   "respond", "stopped"}
  /\ pclLocked \in BOOLEAN
  /\ result \in {"none", "PAS_FAILURE", "operation"}
  /\ opInProgress \in BOOLEAN /\ shutdownInProgress \in BOOLEAN
  /\ runAccessLibThread \in BOOLEAN
  /\ mainPc \in {"loop", "set", "waiting", "woken", "complete", "joining", "exited"}
  /\ lifecycle \in LifecycleKinds
  /\ dbusConnInit \in BOOLEAN /\ registeredToNSM \in BOOLEAN /\ quit \in BOOLEAN
  /\ lifecycleQueue \in Seq(LifecycleKinds)
  /\ nsmTold \in {"shutdown", "runup", "none"}

LEMMA TypesSplit == TypeOK <=> ClientTypes /\ ServiceTypes
BY DEF TypeOK, ClientTypes, ServiceTypes

\* The clients' variables keep their types: four actions change them.
LEMMA NextClientTypes == ClientTypes /\ [Next]_vars => ClientTypes'
<1> SUFFICES ASSUME ClientTypes, [Next]_vars PROVE ClientTypes'
  OBVIOUS
<1> USE DEF ClientTypes, clientVars
<1>1. CASE Receive \/ Respond \/ ClientNext
  BY <1>1 DEF Receive, Respond, ClientNext, ClientSends, ClientReads,
              ClientInterrupted
<1>2. CASE UNCHANGED clientVars
  BY <1>2
<1>3. Receive \/ Respond \/ ClientNext \/ UNCHANGED clientVars
  BY DEF Next, vars, ThreadNext, ThreadStep, InitComm, ReceiveFails, LockPcl,
         CheckRegistration, GateAdmit, GateDeny, OpEnd, UnlockPcl, RespondFails,
         ThreadStop, MainNext, MainStep, OnNameAcquired, OnNameAppeared, OnNameLost,
         HandleTerm, SpuriousWakeUp, LifecycleBegin, SetShutdownState,
         LifecycleComplete, RunDaemonStop, RunDaemonExit, NsmSends, Terminating
<1> QED BY <1>1, <1>2, <1>3

\* The types are kept: one case per thread, the queue on its own.
LEMMA NextServiceTypes == ServiceTypes /\ [Next]_vars => ServiceTypes'
<1> SUFFICES ASSUME ServiceTypes, [Next]_vars PROVE ServiceTypes'
  OBVIOUS
<1> USE DEF ServiceTypes, threadVars, sharedVars, mainVars, clientVars, nsmVars
<1>1. CASE ThreadNext
  <2>1. CASE ReceiveFails \/ CheckRegistration
    BY <2>1 DEF ReceiveFails, CheckRegistration
  <2>8. CASE Receive
    BY <2>8 DEF Receive
  <2>9. CASE LockPcl
    BY <2>9 DEF LockPcl
  <2>2. CASE GateDeny \/ ThreadStop \/ RespondFails
    BY <2>2 DEF GateDeny, ThreadStop, RespondFails
  <2>5. CASE GateAdmit
    BY <2>5 DEF GateAdmit
  <2>7. CASE InitComm
    <3>1. threadPc' \in {"idle", "stopped"}
      BY <2>7 DEF InitComm
    <3> QED BY <2>7, <3>1 DEF InitComm
  <2>6. CASE UnlockPcl
    BY <2>6 DEF UnlockPcl
  <2>3. CASE OpEnd
    <3>1. /\ mainPc' \in {"loop", "set", "waiting", "woken", "complete", "joining",
                         "exited"}
          /\ opInProgress' = FALSE
          /\ threadPc' = "unlock_pcl"
          /\ result' \in {"operation", "PAS_FAILURE"}
      BY <2>3 DEF OpEnd
    <3> QED BY <2>3, <3>1 DEF OpEnd
  <2>4. CASE Respond
    BY <2>4 DEF Respond
  <2> QED BY <1>1, <2>1, <2>2, <2>3, <2>4, <2>5, <2>6, <2>7, <2>8, <2>9
         DEF ThreadNext, ThreadStep
<1>2. CASE LifecycleBegin
  <2>1. /\ Head(lifecycleQueue) \in LifecycleKinds
        /\ Tail(lifecycleQueue) \in Seq(LifecycleKinds)
    BY <1>2 DEF LifecycleBegin
  <2> QED BY <1>2, <2>1 DEF LifecycleBegin
<1>3. CASE \/ OnNameAcquired \/ OnNameAppeared \/ HandleTerm \/ OnNameLost
           \/ SpuriousWakeUp
  <2>1. CASE OnNameAcquired
    BY <2>1 DEF OnNameAcquired
  <2>2. CASE OnNameAppeared
    BY <2>2 DEF OnNameAppeared
  <2>3. CASE HandleTerm
    <3>1. quit' \in BOOLEAN /\ dbusConnInit' \in BOOLEAN
      BY <2>3 DEF HandleTerm
    <3>2. UNCHANGED <<threadVars, sharedVars, mainPc, lifecycle, registeredToNSM, nsmVars>>
      BY <2>3 DEF HandleTerm
    <3> QED BY <3>1, <3>2
  <2>4. CASE OnNameLost
    BY <2>4 DEF OnNameLost
  <2>5. CASE SpuriousWakeUp
    BY <2>5 DEF SpuriousWakeUp
  <2> QED BY <1>3, <2>1, <2>2, <2>3, <2>4, <2>5
<1>4. CASE SetShutdownState \/ LifecycleComplete \/ RunDaemonStop \/ RunDaemonExit
  <2>1. CASE SetShutdownState
    <3>1. shutdownInProgress' \in BOOLEAN
      BY <2>1 DEF SetShutdownState
    <3>2. mainPc' \in {"waiting", "complete"}
      BY <2>1 DEF SetShutdownState
    <3> QED BY <2>1, <3>1, <3>2 DEF SetShutdownState
  <2>2. CASE LifecycleComplete
    <3>1. lifecycle # "other" => lifecycle \in {"shutdown", "runup"}
      BY DEF LifecycleKinds
    <3> QED BY <2>2, <3>1 DEF LifecycleComplete
  <2>3. CASE RunDaemonStop \/ RunDaemonExit
    BY <2>3 DEF RunDaemonStop, RunDaemonExit
  <2> QED BY <1>4, <2>1, <2>2, <2>3
<1>7. CASE ClientNext
  BY <1>7 DEF ClientNext, ClientSends, ClientReads, ClientInterrupted
<1>5. CASE NsmSends
  <2>1. lifecycleQueue' \in Seq(LifecycleKinds)
    BY <1>5 DEF NsmSends
  <2> QED BY <1>5, <2>1 DEF NsmSends
<1>6. CASE Terminating \/ UNCHANGED vars
  BY <1>6 DEF Terminating, vars
<1> QED
  BY <1>1, <1>2, <1>3, <1>4, <1>5, <1>6, <1>7 DEF Next, MainNext, MainStep

LEMMA NextTypeOK == TypeOK /\ [Next]_vars => TypeOK'
<1> SUFFICES ASSUME TypeOK, [Next]_vars PROVE TypeOK'
  OBVIOUS
<1>1. ClientTypes' /\ ServiceTypes'
  BY TypesSplit, NextClientTypes, NextServiceTypes
<1> QED
  BY <1>1 DEF TypeOK, ClientTypes, ServiceTypes

\* Every action of the access-lib thread keeps the invariant: the thread alone
\* raises and lowers the operation flag.
LEMMA ThreadIInv == IInv /\ ThreadNext => IInv'
<1> SUFFICES ASSUME IInv, ThreadNext PROVE IInv'
  OBVIOUS
<1>0. TypeOK'
  BY NextTypeOK DEF IInv, Next
<1> USE DEF TypeOK, OpFlagExact, FlagsExclude, HandlerConsistent, WaiterHasWaker,
            ToldConsistent, LockBracketed, ExitJoined, threadVars, sharedVars,
            mainVars, clientVars, nsmVars
<1>1. CASE InitComm \/ Receive \/ ReceiveFails \/ ThreadStop
  BY <1>0, <1>1 DEF IInv, InitComm, Receive, ReceiveFails, ThreadStop
<1>2. CASE LockPcl
  BY <1>0, <1>2 DEF IInv, LockPcl
<1>3. CASE CheckRegistration
  BY <1>0, <1>3 DEF IInv, CheckRegistration
<1>4. CASE GateAdmit
  BY <1>0, <1>4 DEF IInv, GateAdmit
<1>5. CASE GateDeny
  BY <1>0, <1>5 DEF IInv, GateDeny
<1>6. CASE OpEnd
  BY <1>0, <1>6 DEF IInv, OpEnd
<1>7. CASE UnlockPcl \/ Respond \/ RespondFails
  BY <1>0, <1>7 DEF IInv, UnlockPcl, Respond, RespondFails
<1> QED
  BY <1>1, <1>2, <1>3, <1>4, <1>5, <1>6, <1>7 DEF ThreadNext, ThreadStep

\* Every action of the main thread keeps it: the handler sets the shutdown flag
\* only when it finds the operation flag down.
LEMMA MainIInv == IInv /\ MainNext => IInv'
<1> SUFFICES ASSUME IInv, MainNext PROVE IInv'
  OBVIOUS
<1>0. TypeOK'
  BY NextTypeOK DEF IInv, Next
<1> USE DEF OpFlagExact, FlagsExclude, HandlerConsistent, WaiterHasWaker,
            ToldConsistent, LockBracketed, ExitJoined, threadVars, sharedVars,
            mainVars, clientVars, nsmVars
<1>1. CASE OnNameAcquired \/ OnNameAppeared \/ HandleTerm \/ OnNameLost
  BY <1>0, <1>1 DEF IInv, OnNameAcquired, OnNameAppeared, HandleTerm, OnNameLost
<1>2. CASE LifecycleBegin
  BY <1>0, <1>2 DEF IInv, LifecycleBegin
<1>3. CASE SetShutdownState
  BY <1>0, <1>3 DEF IInv, SetShutdownState, TypeOK, LifecycleKinds
<1>4. CASE LifecycleComplete
  BY <1>0, <1>4 DEF IInv, LifecycleComplete
<1>5. CASE RunDaemonStop \/ RunDaemonExit
  BY <1>0, <1>5 DEF IInv, RunDaemonStop, RunDaemonExit
<1>6. CASE SpuriousWakeUp
  BY <1>0, <1>6 DEF IInv, SpuriousWakeUp
<1> QED
  BY <1>1, <1>2, <1>3, <1>4, <1>5, <1>6 DEF MainNext, MainStep

\* The invariant is inductive.
LEMMA NextIInv == IInv /\ [Next]_vars => IInv'
<1> SUFFICES ASSUME IInv, [Next]_vars PROVE IInv'
  OBVIOUS
<1>1. CASE ThreadNext
  BY <1>1, ThreadIInv
<1>2. CASE MainNext
  BY <1>2, MainIInv
<1>3. CASE ClientNext \/ NsmSends \/ Terminating \/ UNCHANGED vars
  <2>1. TypeOK'
    BY NextTypeOK DEF IInv
  <2>2. UNCHANGED <<threadPc, pclLocked, opInProgress, shutdownInProgress,
                    mainPc, lifecycle, nsmTold>>
    BY <1>3 DEF ClientNext, ClientSends, ClientReads, ClientInterrupted, NsmSends,
         Terminating, vars, threadVars, sharedVars, mainVars, nsmVars
  <2> QED
    BY <2>1, <2>2 DEF IInv, OpFlagExact, FlagsExclude, HandlerConsistent,
         WaiterHasWaker, ToldConsistent, LockBracketed, ExitJoined
<1> QED
  BY <1>1, <1>2, <1>3 DEF Next

LEMMA Invariance == Spec => []IInv
  BY InitIInv, NextIInv, PTL DEF Spec

\* Every variable of the two threads keeps its type.
THEOREM TypeCorrect == Spec => []TypeOK
<1>1. IInv => TypeOK
  BY DEF IInv
<1> QED BY <1>1, Invariance, PTL

\* After NSM was told that the shutdown is prepared no operation runs
\* (OnHandleLifecycleRequest: "any other PAS request is denied").
THEOREM ShutdownPromise == Spec => []PromiseKept
<1>1. IInv => PromiseKept
  BY DEF IInv, PromiseKept, ToldConsistent, FlagsExclude, OpFlagExact
<1> QED BY <1>1, Invariance, PTL

\* The handler waits only while a running operation will wake it.
THEOREM NoLostWakeUp == Spec => []WaiterHasWaker
<1>1. IInv => WaiterHasWaker
  BY DEF IInv
<1> QED BY <1>1, Invariance, PTL

\* The thread is gone before the process exits, and leaves no client locked.
THEOREM StopIsClean == Spec => []CleanStop
<1>1. IInv => CleanStop
  BY DEF IInv, CleanStop, ExitJoined, LockBracketed, OpFlagExact
<1> QED BY <1>1, Invariance, PTL
=============================================================================
