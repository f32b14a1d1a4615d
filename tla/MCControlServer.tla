-------------------------- MODULE MCControlServer --------------------------
(* Model values and small sets for checking ControlServer.                 *)
EXTENDS ControlServer

CONSTANTS c1, a1, k1, k2

MCResults == {[fetchedUnder |-> 1]}
=============================================================================
