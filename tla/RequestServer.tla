--------------------------- MODULE RequestServer ---------------------------
(***************************************************************************)
(* What the access library promises its callers, without semaphores,       *)
(* queues or restarts: administrative requests are executed one at a time, *)
(* each at most once, a caller gets the result of its own request, and a   *)
(* caller that is refused can rely on nothing having been done.  AccessLib *)
(* implements it.                                                          *)
(***************************************************************************)
EXTENDS Naturals

CONSTANTS Clients, Results, MaxCalls

Call == [client : Clients, n : 1 .. MaxCalls]
None == [none |-> TRUE]

VARIABLES
  caller,    \* what each client is doing
  calls,     \* the number of its current call
  answer,    \* what its last call returned
  begun,     \* the calls whose execution has begun
  running,   \* the call being executed
  executed   \* the calls executed to the end, with their results

vars == <<caller, calls, answer, begun, running, executed>>

MyCall(c) == [client |-> c, n |-> calls[c]]

Init ==
  /\ caller = [c \in Clients |-> "idle"]
  /\ calls = [c \in Clients |-> 0]
  /\ answer = [c \in Clients |-> "none"]
  /\ begun = {} /\ running = None /\ executed = {}

Ask(c) ==
  /\ caller[c] = "idle" /\ calls[c] < MaxCalls
  /\ caller' = [caller EXCEPT ![c] = "asked"]
  /\ calls' = [calls EXCEPT ![c] = @ + 1]
  /\ answer' = [answer EXCEPT ![c] = "none"]
  /\ UNCHANGED <<begun, running, executed>>

\* A client that died may have its call executed all the same.
Begin(c) ==
  /\ running = None
  /\ caller[c] \in {"asked", "dead"} /\ calls[c] > 0 /\ MyCall(c) \notin begun
  /\ running' = MyCall(c) /\ begun' = begun \cup {MyCall(c)}
  /\ UNCHANGED <<caller, calls, answer, executed>>

Finish ==
  /\ running # None
  /\ \E res \in Results : executed' = executed \cup {[call |-> running, res |-> res]}
  /\ running' = None
  /\ UNCHANGED <<caller, calls, answer, begun>>

\* The service dies in the middle of an operation.
Abort ==
  /\ running # None
  /\ running' = None
  /\ UNCHANGED <<caller, calls, answer, begun, executed>>

Answer(c) ==
  /\ caller[c] = "asked"
  /\ \E e \in executed : /\ e.call = MyCall(c)
                         /\ answer' = [answer EXCEPT ![c] = e.res]
  /\ caller' = [caller EXCEPT ![c] = "answered"]
  /\ UNCHANGED <<calls, begun, running, executed>>

Refuse(c) ==
  /\ caller[c] = "asked" /\ MyCall(c) \notin begun
  /\ answer' = [answer EXCEPT ![c] = "refused"]
  /\ caller' = [caller EXCEPT ![c] = "answered"]
  /\ UNCHANGED <<calls, begun, running, executed>>

Return(c) ==
  /\ caller[c] = "answered"
  /\ caller' = [caller EXCEPT ![c] = "idle"]
  /\ UNCHANGED <<calls, answer, begun, running, executed>>

Die(c) ==
  /\ caller[c] # "dead"
  /\ caller' = [caller EXCEPT ![c] = "dead"]
  /\ UNCHANGED <<calls, answer, begun, running, executed>>

Next ==
  \/ Finish \/ Abort
  \/ \E c \in Clients : \/ Ask(c) \/ Begin(c) \/ Answer(c) \/ Refuse(c)
                        \/ Return(c) \/ Die(c)

Spec == Init /\ [][Next]_vars
=============================================================================
