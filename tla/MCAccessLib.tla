---------------------------- MODULE MCAccessLib ----------------------------
(***************************************************************************)
(* AccessLib with two clients, who can meet in every step of a call, two   *)
(* calls each, so that what one call leaves behind meets the next, and two *)
(* boots, a crash or stop between them.                                    *)
(***************************************************************************)
EXTENDS AccessLib, TLC

CONSTANTS c1, c2

TwoClients == {c1, c2}

\* The clients are interchangeable; used by runs without liveness only.
Symmetry == Permutations(TwoClients)
=============================================================================
