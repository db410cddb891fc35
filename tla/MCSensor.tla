------------------------------- MODULE MCSensor -------------------------------
(***************************************************************************)
(* Instances of Sensor for TLC.  Three handles, so that a peer may come    *)
(* back under its old handle, another peer under it, or under a new one;   *)
(* bytes that mean off, on, and on without being the stored LED status.    *)
(***************************************************************************)
EXTENDS Sensor, TLC

ASSUME Bytes == {0, 1} \subseteq Vals /\ Vals \ {0, 1} # {}

=============================================================================
