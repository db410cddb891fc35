------------------------------ MODULE MCLedStrip ------------------------------
(***************************************************************************)
(* An instance of LedStrip for TLC.  One and two LEDs fill the 48 symbols  *)
(* of an RMT channel in part, exactly (2 GRB) and with a second round (2   *)
(* GRBW); a strip of no LED is the boundary.                               *)
(***************************************************************************)
EXTENDS LedStrip

\* One colour beyond a byte, as the arguments are 32 bits wide.
MCColors == {<<16, 16, 16>>, <<255, 256, 128>>}

\* In the last sector; HueNear of LedStrip_proofs is about every hue.
MCHsvs == {<<345, 64, 255>>}

\* The last hue of the documented range, half saturated.
MCHsv360 == {<<360, 128, 255>>}

=============================================================================
