----------------------------- MODULE MCRelayConn -----------------------------
(***************************************************************************)
(* Instances of RelayConn for TLC: without symmetry, which is not sound    *)
(* for the liveness properties checked along with the invariants.          *)
(***************************************************************************)
EXTENDS RelayConn, TLC

=============================================================================
