---------------------------- MODULE ShutdownGate ----------------------------
(***************************************************************************)
(* The gate between administrative operations and system shutdown:         *)
(* ssw_pers_admin_service.c (persadmin_ProcessRequest,                     *)
(* persadmin_set_shutdown_state, the access-lib thread, the end of         *)
(* persadmin_RunDaemon) and ssw_pers_admin_dbus.c (registration at the     *)
(* node state manager, NSM, and its lifecycle requests).                   *)
(*                                                                         *)
(* The access-lib thread runs one operation at a time, inside a lock of    *)
(* the PCL clients (module PclLock, here one flag).  The main thread runs  *)
(* the D-Bus main loop; a shutdown request is handled there, and the       *)
(* handler blocks the loop until no operation is running.                  *)
(*                                                                         *)
(* g_bOpInProgress and g_bShutdownInProgress are only touched under        *)
(* g_shutdownMtx, so a critical section is one action, and the mutex,      *)
(* which is free between actions, is no variable.  pthread_cond_wait gives *)
(* it up: it splits the handler into "waiting" and "woken".                *)
(*                                                                         *)
(* A request comes from a client of the access library, one at a time      *)
(* (module AccessLib), through a queue of one message, and its response    *)
(* goes back through another one.  The response to a client that was       *)
(* interrupted stays in it, and the thread blocks over its next response   *)
(* until some client comes and takes the old one.                          *)
(***************************************************************************)
EXTENDS Naturals, Sequences

CONSTANT MaxLifecycle   \* bound on the lifecycle requests NSM has in flight

ASSUME MaxLifecycleAssumption == MaxLifecycle \in Nat

VARIABLES
  \* the access-lib thread
  threadPc,            \* where it is
  pclLocked,           \* the clients are locked for its request
  result,              \* requestResult
  \* shared
  opInProgress,        \* g_bOpInProgress
  shutdownInProgress,  \* g_bShutdownInProgress
  runAccessLibThread,  \* g_bRunAccessLibThread
  \* the main thread
  mainPc,              \* where it is
  lifecycle,           \* the request being handled
  dbusConnInit,        \* g_bDBusConnInit
  registeredToNSM,     \* g_bRegisteredToNSM
  quit,                \* g_main_loop_quit was called
  \* the queues of the access library, and its client
  requested,           \* the request queue holds a request
  responded,           \* the response queue holds a response
  clientWaits,         \* a client is in mq_receive
  \* NSM
  lifecycleQueue,      \* lifecycle requests on the bus
  nsmTold              \* the last shutdown or run-up reported complete

threadVars == <<threadPc, pclLocked, result>>
sharedVars == <<opInProgress, shutdownInProgress, runAccessLibThread>>
mainVars == <<mainPc, lifecycle, dbusConnInit, registeredToNSM, quit>>
clientVars == <<requested, responded, clientWaits>>
nsmVars == <<lifecycleQueue, nsmTold>>
vars == <<threadVars, sharedVars, mainVars, clientVars, nsmVars>>

-----------------------------------------------------------------------------
\* NORMAL and FAST are treated alike; a request with none of the bits is "other".
LifecycleKinds == {"shutdown", "runup", "other"}

\* The queues are empty.  (What an instance that crashed has left in them is
\* like what clients leave that are interrupted.)
Init ==
  /\ threadPc = "init" /\ pclLocked = FALSE /\ result = "none"
  /\ opInProgress = FALSE /\ shutdownInProgress = FALSE
  /\ runAccessLibThread = TRUE
  /\ mainPc = "loop" /\ lifecycle = "other"
  /\ dbusConnInit = FALSE /\ registeredToNSM = FALSE /\ quit = FALSE
  /\ requested = FALSE /\ responded = FALSE /\ clientWaits = FALSE
  /\ lifecycleQueue = <<>> /\ nsmTold = "none"

-----------------------------------------------------------------------------
(* persadmin_AccessLibThread and persadmin_ProcessRequest.                 *)

\* persadmin_InitAccessLibComm.  When it fails the thread closes what it has
\* opened and ends; the main thread never asks.
InitComm ==
  /\ threadPc = "init"
  /\ threadPc' \in {"idle", "stopped"}
  /\ UNCHANGED <<pclLocked, result, sharedVars, mainVars, clientVars, nsmVars>>

\* A request is received.  A timeout or a message of another size changes
\* nothing.
Receive ==
  /\ threadPc = "idle" /\ runAccessLibThread /\ requested
  /\ requested' = FALSE
  /\ threadPc' = "lock_pcl" /\ result' = "none"
  /\ UNCHANGED <<pclLocked, sharedVars, mainVars, responded, clientWaits, nsmVars>>

\* Reading the queue failed, perhaps because a signal interrupted select: the
\* thread stops itself, the main loop goes on.
ReceiveFails ==
  /\ threadPc = "idle" /\ runAccessLibThread
  /\ runAccessLibThread' = FALSE
  /\ UNCHANGED <<threadVars, opInProgress, shutdownInProgress, mainVars, clientVars,
                 nsmVars>>

\* Mutant: the error code of the PCL protocol is passed on.
LockPclPassesError ==
  /\ threadPc = "lock_pcl"
  /\ \/ pclLocked' = TRUE /\ threadPc' = "check" /\ UNCHANGED result
     \/ result' = "PERS_COM_FAILURE" /\ threadPc' = "respond" /\ UNCHANGED pclLocked
  /\ UNCHANGED <<sharedVars, mainVars, clientVars, nsmVars>>

LockPcl ==
  /\ threadPc = "lock_pcl"
  /\ \/ pclLocked' = TRUE /\ threadPc' = "check" /\ UNCHANGED result
     \/ result' = "PAS_FAILURE" /\ threadPc' = "respond" /\ UNCHANGED pclLocked
  /\ UNCHANGED <<sharedVars, mainVars, clientVars, nsmVars>>

\* The registration is tested without the mutex.
CheckRegistration ==
  /\ threadPc = "check"
  /\ \/ registeredToNSM /\ threadPc' = "gate" /\ UNCHANGED result
     \/ ~ registeredToNSM /\ threadPc' = "unlock_pcl" /\ result' = "PAS_FAILURE"
  /\ UNCHANGED <<pclLocked, sharedVars, mainVars, clientVars, nsmVars>>

GateAdmit ==
  /\ threadPc = "gate" /\ ~ shutdownInProgress
  /\ opInProgress' = TRUE
  /\ threadPc' = "op"
  /\ UNCHANGED <<pclLocked, result, shutdownInProgress, runAccessLibThread,
                 mainVars, clientVars, nsmVars>>

\* Mutant: a denied request returns without the unlock.
GateDenyKeepsLock ==
  /\ threadPc = "gate" /\ shutdownInProgress
  /\ result' = "PAS_FAILURE"
  /\ threadPc' = "respond"
  /\ UNCHANGED <<pclLocked, sharedVars, mainVars, clientVars, nsmVars>>

\* The reason is stored through pResult_out, and overwritten at the end of the
\* function.
GateDeny ==
  /\ threadPc = "gate" /\ shutdownInProgress
  /\ result' = "PAS_FAILURE"
  /\ threadPc' = "unlock_pcl"
  /\ UNCHANGED <<pclLocked, sharedVars, mainVars, clientVars, nsmVars>>

\* Mutant: nobody is woken.
OpEndNoBroadcast ==
  /\ threadPc = "op"
  /\ opInProgress' = FALSE
  /\ result' \in {"operation", "PAS_FAILURE"}
  /\ threadPc' = "unlock_pcl"
  /\ UNCHANGED <<pclLocked, shutdownInProgress, runAccessLibThread, mainVars,
                 clientVars, nsmVars>>

\* The operation has run, or its code was unknown; the flag goes down and the
\* waiting handler is woken.
OpEnd ==
  /\ threadPc = "op"
  /\ opInProgress' = FALSE
  /\ mainPc' = IF mainPc = "waiting" THEN "woken" ELSE mainPc
  /\ result' \in {"operation", "PAS_FAILURE"}
  /\ threadPc' = "unlock_pcl"
  /\ UNCHANGED <<pclLocked, shutdownInProgress, runAccessLibThread, lifecycle,
                 dbusConnInit, registeredToNSM, quit, clientVars, nsmVars>>

UnlockPcl ==
  /\ threadPc = "unlock_pcl"
  /\ pclLocked' = FALSE
  /\ threadPc' = "respond"
  /\ UNCHANGED <<result, sharedVars, mainVars, clientVars, nsmVars>>

\* mq_send: it blocks while the queue is full.
Respond ==
  /\ threadPc = "respond" /\ ~ responded
  /\ responded' = TRUE
  /\ threadPc' = "idle"
  /\ UNCHANGED <<pclLocked, result, sharedVars, mainVars, requested, clientWaits,
                 nsmVars>>

\* A failing mq_send, which a signal may also interrupt while it blocks, stops
\* the thread.
RespondFails ==
  /\ threadPc = "respond"
  /\ runAccessLibThread' = FALSE
  /\ threadPc' = "idle"
  /\ UNCHANGED <<pclLocked, result, opInProgress, shutdownInProgress, mainVars,
                 clientVars, nsmVars>>

\* The loop ends, persadmin_CloseAccessLibComm runs, the thread exits.
ThreadStop ==
  /\ threadPc = "idle" /\ ~ runAccessLibThread
  /\ threadPc' = "stopped"
  /\ UNCHANGED <<pclLocked, result, sharedVars, mainVars, clientVars, nsmVars>>

\* What the thread does without a client or an error.
ThreadStep ==
  \/ InitComm \/ LockPcl \/ CheckRegistration \/ GateAdmit \/ GateDeny \/ OpEnd
  \/ UnlockPcl \/ Respond \/ ThreadStop
ThreadNext == Receive \/ ReceiveFails \/ RespondFails \/ ThreadStep

-----------------------------------------------------------------------------
(* The client that has the semaphore of the access library.                *)

\* It sends its request, which blocks while the queue is full, and waits.  The
\* queues have names between the two ends of the thread.
ClientSends ==
  /\ ~ clientWaits /\ ~ requested /\ threadPc \notin {"init", "stopped"}
  /\ requested' = TRUE /\ clientWaits' = TRUE
  /\ UNCHANGED <<threadVars, sharedVars, mainVars, responded, nsmVars>>

\* It takes what is in the response queue, perhaps the answer to another call.
ClientReads ==
  /\ clientWaits /\ responded
  /\ responded' = FALSE /\ clientWaits' = FALSE
  /\ UNCHANGED <<threadVars, sharedVars, mainVars, requested, nsmVars>>

\* A signal interrupts its mq_receive: it leaves, its request and its response
\* stay.
ClientInterrupted ==
  /\ clientWaits
  /\ clientWaits' = FALSE
  /\ UNCHANGED <<threadVars, sharedVars, mainVars, requested, responded, nsmVars>>

ClientNext == ClientSends \/ ClientReads \/ ClientInterrupted

-----------------------------------------------------------------------------
(* The main loop and its callbacks.                                        *)

\* OnNameAcquired_cb: the watchdog timer is started.  (The interface was
\* exported before, in OnBusAcquired_cb.)  Like every callback it may still run
\* after g_main_loop_quit, in what is left of the loop's iteration.
OnNameAcquired ==
  /\ mainPc = "loop" /\ ~ dbusConnInit
  /\ dbusConnInit' = TRUE
  /\ UNCHANGED <<threadVars, sharedVars, mainPc, lifecycle, registeredToNSM,
                 quit, clientVars, nsmVars>>

\* OnNameAppeared, when NSM accepts the registration; before or after
\* OnNameAcquired.
OnNameAppeared ==
  /\ mainPc = "loop" /\ ~ registeredToNSM
  /\ registeredToNSM' = TRUE
  /\ UNCHANGED <<threadVars, sharedVars, mainPc, lifecycle, dbusConnInit,
                 quit, clientVars, nsmVars>>

\* OnHandleLifecycleRequest: the answer "response pending", and the branch.
LifecycleBegin ==
  /\ mainPc = "loop" /\ lifecycleQueue # <<>>
  /\ lifecycle' = Head(lifecycleQueue)
  /\ lifecycleQueue' = Tail(lifecycleQueue)
  /\ mainPc' = IF Head(lifecycleQueue) = "other" THEN "complete" ELSE "set"
  /\ UNCHANGED <<threadVars, sharedVars, dbusConnInit, registeredToNSM, quit,
                 clientVars, nsmTold>>

\* Mutant: "if" in place of "while" around pthread_cond_wait.
SetShutdownStateIf ==
  /\ mainPc \in {"set", "woken"}
  /\ IF lifecycle = "shutdown" /\ opInProgress /\ mainPc = "set"
     THEN mainPc' = "waiting" /\ UNCHANGED shutdownInProgress
     ELSE mainPc' = "complete" /\ shutdownInProgress' = (lifecycle = "shutdown")
  /\ UNCHANGED <<threadVars, opInProgress, runAccessLibThread, lifecycle,
                 dbusConnInit, registeredToNSM, quit, clientVars, nsmVars>>

\* persadmin_set_shutdown_state: one turn of its waiting loop, or the
\* assignment.  A woken handler has to find the flag down itself: the thread
\* may have taken the mutex first, for its next request.
SetShutdownState ==
  /\ mainPc \in {"set", "woken"}
  /\ IF lifecycle = "shutdown" /\ opInProgress
     THEN mainPc' = "waiting" /\ UNCHANGED shutdownInProgress
     ELSE mainPc' = "complete" /\ shutdownInProgress' = (lifecycle = "shutdown")
  /\ UNCHANGED <<threadVars, opInProgress, runAccessLibThread, lifecycle,
                 dbusConnInit, registeredToNSM, quit, clientVars, nsmVars>>

\* pthread_cond_wait may return without a broadcast.
SpuriousWakeUp ==
  /\ mainPc = "waiting"
  /\ mainPc' = "woken"
  /\ UNCHANGED <<threadVars, sharedVars, lifecycle, dbusConnInit, registeredToNSM,
                 quit, clientVars, nsmVars>>

\* NSM is told that the request is finished.
LifecycleComplete ==
  /\ mainPc = "complete"
  /\ nsmTold' = IF lifecycle = "other" THEN nsmTold ELSE lifecycle
  /\ mainPc' = "loop"
  /\ UNCHANGED <<threadVars, sharedVars, lifecycle, dbusConnInit, registeredToNSM,
                 quit, clientVars, lifecycleQueue>>

\* The signal handler persadmin_HandleTerm, which may run at any point.  Before
\* the name is acquired it does nothing.
HandleTerm ==
  /\ mainPc \notin {"joining", "exited"} /\ dbusConnInit
  /\ quit' = TRUE /\ dbusConnInit' = FALSE
  /\ UNCHANGED <<threadVars, sharedVars, mainPc, lifecycle, registeredToNSM,
                 clientVars, nsmVars>>

\* The connection or the name is lost.
OnNameLost ==
  /\ mainPc = "loop"
  /\ quit' = TRUE /\ dbusConnInit' = FALSE
  /\ UNCHANGED <<threadVars, sharedVars, mainPc, lifecycle, registeredToNSM,
                 clientVars, nsmVars>>

\* Mutant: the thread is not told to stop.
RunDaemonStopSilent ==
  /\ mainPc = "loop" /\ quit
  /\ mainPc' = "joining"
  /\ UNCHANGED <<threadVars, sharedVars, lifecycle, dbusConnInit, registeredToNSM,
                 quit, clientVars, nsmVars>>

\* The main loop returns, the thread is told to stop.
RunDaemonStop ==
  /\ mainPc = "loop" /\ quit
  /\ runAccessLibThread' = FALSE
  /\ mainPc' = "joining"
  /\ UNCHANGED <<threadVars, opInProgress, shutdownInProgress, lifecycle,
                 dbusConnInit, registeredToNSM, quit, clientVars, nsmVars>>

\* Mutant: the thread is not joined.
RunDaemonExitNoJoin ==
  /\ mainPc = "joining"
  /\ mainPc' = "exited"
  /\ UNCHANGED <<threadVars, sharedVars, lifecycle, dbusConnInit, registeredToNSM,
                 quit, clientVars, nsmVars>>

\* The thread is joined, the mutex destroyed, the PID file removed.
RunDaemonExit ==
  /\ mainPc = "joining" /\ threadPc = "stopped"
  /\ mainPc' = "exited"
  /\ UNCHANGED <<threadVars, sharedVars, lifecycle, dbusConnInit, registeredToNSM,
                 quit, clientVars, nsmVars>>

MainStep == LifecycleBegin \/ SetShutdownState \/ LifecycleComplete
            \/ RunDaemonStop \/ RunDaemonExit
MainNext == \/ OnNameAcquired \/ OnNameAppeared \/ OnNameLost
            \/ HandleTerm \/ SpuriousWakeUp \/ MainStep

\* NSM sends lifecycle requests to registered clients.  It does not wait for
\* the completion of one before it sends the next: a shutdown it cancels, or
\* whose answer takes longer than PAS_SHUTDOWN_TIMEOUT_MS.
NsmSends ==
  /\ registeredToNSM /\ Len(lifecycleQueue) < MaxLifecycle
  /\ mainPc \notin {"joining", "exited"}
  /\ \E kind \in LifecycleKinds : lifecycleQueue' = Append(lifecycleQueue, kind)
  /\ UNCHANGED <<threadVars, sharedVars, mainVars, clientVars, nsmTold>>

Terminating == mainPc = "exited" /\ UNCHANGED vars

Next == ThreadNext \/ MainNext \/ ClientNext \/ NsmSends \/ Terminating

Spec == Init /\ [][Next]_vars

\* Both threads are scheduled.  The mutex is held for bounded stretches of code
\* only, so waiting for it needs no fairness of its own; nothing makes clients
\* or NSM send, nothing makes clients pause, and nobody has to take a response.
\* g_main_loop_run tests whether to go on after every iteration, however many
\* callbacks are pending.
FairSpec == Spec /\ WF_vars(ThreadStep) /\ WF_vars(MainStep) /\ SF_vars(RunDaemonStop)

-----------------------------------------------------------------------------
(* Properties.                                                             *)

TypeOK ==
  /\ threadPc \in {"init", "idle", "lock_pcl", "check", "gate", "op", "unlock_pcl",
                   "respond", "stopped"}
  /\ pclLocked \in BOOLEAN
  /\ result \in {"none", "PAS_FAILURE", "operation"}
  /\ opInProgress \in BOOLEAN /\ shutdownInProgress \in BOOLEAN
  /\ runAccessLibThread \in BOOLEAN
  /\ mainPc \in {"loop", "set", "waiting", "woken", "complete", "joining", "exited"}
  /\ lifecycle \in LifecycleKinds
  /\ dbusConnInit \in BOOLEAN /\ registeredToNSM \in BOOLEAN /\ quit \in BOOLEAN
  /\ requested \in BOOLEAN /\ responded \in BOOLEAN /\ clientWaits \in BOOLEAN
  /\ lifecycleQueue \in Seq(LifecycleKinds)
  /\ nsmTold \in {"shutdown", "runup", "none"}

\* Once NSM was told that the shutdown is prepared, no operation runs, until a
\* later request that cancels the shutdown is handled: "any other PAS request
\* is denied after this point".  The thread and the handler race for the mutex
\* at both ends of every operation.
PromiseKept ==
  nsmTold = "shutdown" /\ ~ (mainPc = "complete" /\ lifecycle = "runup")
    => threadPc # "op"

\* The process never exits under a running operation, and whichever way the
\* thread ends (stopped by the main thread, by a queue error, after a denied
\* request), it leaves no client locked.
CleanStop ==
  /\ mainPc = "exited" => threadPc = "stopped"
  /\ threadPc = "stopped" => ~ pclLocked /\ ~ opInProgress

\* A waiting handler can always be woken: it waits only while an operation
\* runs, whose end will see it.  (No lost wake-up.)
WaiterHasWaker == mainPc = "waiting" => threadPc = "op"

\* When operations stop coming, every shutdown request is answered.
AnsweredWhenCalm ==
  <>[](threadPc # "op") =>
    (mainPc \in {"set", "waiting", "woken"} ~> mainPc = "complete")

\* The thread is in mq_send, with a response nobody has taken before it.
Stuck == threadPc = "respond" /\ responded

\* A request to stop ends the process, whatever else happens on the way, unless
\* operations keep coming or the thread stays stuck: main waits for it
\* ("Wait for the AccessLib thread").
StopsWhenCalm ==
  <>[](threadPc # "op") /\ []<>~ Stuck => (quit ~> mainPc = "exited")

\* "Signal the AccessLib thread to stop": the thread stops when operations stop
\* coming.  The code does not keep this (see the README).
StopReachesThread ==
  <>[](threadPc # "op") => (mainPc = "joining" ~> threadPc = "stopped")

\* The clients are released again after every request.
PclReleased == pclLocked ~> ~ pclLocked

\* "Set shutdown state and wait for the current operation to finish": no other
\* operation starts while the handler waits.
NoOpWhileWaiting ==
  [][opInProgress' /\ ~ opInProgress => mainPc \notin {"waiting", "woken"}]_vars
=============================================================================
