--------------------------- MODULE MCShutdownGate ---------------------------
(***************************************************************************)
(* ShutdownGate with two lifecycle requests in flight: a shutdown and the  *)
(* request that cancels it, while a third is being handled.  Everything    *)
(* else is finite as it stands: requests come without end.                 *)
(***************************************************************************)
EXTENDS ShutdownGate
=============================================================================
