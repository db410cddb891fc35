----------------------------- MODULE MCRelayGatt -----------------------------
(***************************************************************************)
(* Instances of RelayGatt for TLC.  Three request objects, as on the       *)
(* board: two discovery procedures leave one for a phone.                  *)
(***************************************************************************)
EXTENDS RelayGatt, TLC

ASSUME AsOnTheBoard == ReqSlots = 3 /\ Offers = Chars

=============================================================================
