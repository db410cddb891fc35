-------------------------- MODULE MCHeartPeripheral --------------------------
(***************************************************************************)
(* Instances of HeartPeripheral for TLC.  Two clients share each flag; the *)
(* battery starts at an even level, as in the code, and drains to its      *)
(* floor in two steps.                                                     *)
(***************************************************************************)
EXTENDS HeartPeripheral, TLC

ASSUME TwoClients == Cardinality(Clients) > 1 /\ FullBattery % 2 = 0

=============================================================================
