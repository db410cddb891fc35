---------------------------- MODULE MCVoiceCentral ----------------------------
(***************************************************************************)
(* Instances of VoiceCentral for TLC.                                      *)
(***************************************************************************)
EXTENDS VoiceCentral, TLC

\* Devices are interchangeable; used for safety only.
Symmetry == Permutations(Devices)

=============================================================================
