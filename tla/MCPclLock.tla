----------------------------- MODULE MCPclLock -----------------------------
(***************************************************************************)
(* PclLock on small instances.  Two clients are enough for the list code   *)
(* (a head, a later element) and for "one confirmed, one pending"; the     *)
(* second asks for what a run needs.  Four request ids are two complete    *)
(* lock/unlock rounds, so that messages of one round can meet the next.    *)
(***************************************************************************)
EXTENDS PclLock

CONSTANTS c1, c2

TwoClients == {c1, c2}

\* Both lock and sync: the case of ordinary PCL clients.
AllFlags == [c \in Clients |-> Modes]

\* The second has no cache to lock: it only wants to be told to sync.
LockAndSyncOnly == [c \in Clients |-> IF c = c1 THEN Modes ELSE {"SYNC"}]

\* The first gives up at once, the second has one step to answer.
OneStep == [c \in Clients |-> IF c = c1 THEN 0 ELSE 1]
NoWait == [c \in Clients |-> 0]
=============================================================================
