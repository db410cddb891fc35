----------------------------- MODULE MCHomeRelay -----------------------------
(***************************************************************************)
(* Instances of HomeRelay for TLC.  Connection objects are interchangeable *)
(* and nothing but safety is checked, so symmetry is sound.                *)
(***************************************************************************)
EXTENDS HomeRelay, TLC

ASSUME Bytes == Vals \ Leds # {}

Symmetry == Permutations(Conns)

=============================================================================
