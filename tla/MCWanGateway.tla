---------------------------- MODULE MCWanGateway ----------------------------
(***************************************************************************)
(* Instances of WanGateway for TLC.                                        *)
(***************************************************************************)
EXTENDS MCWanAdmission, WanGateway

\* A pack and a lock are named by their content; "config" is not.
ThreeNames == {"pack", "lock", "config"}
OneLock == {"lock"}
SomeContents == [n \in ThreeNames |-> IF n = "config" THEN {"old", "new"} ELSE {n}]
TwoRates == {1, 2}

ASSUME GatewayAssumption == Objects!ObjectAssumption

=============================================================================
