--------------------------- MODULE MCLightServer ---------------------------
(***************************************************************************)
(* LightServer on readings chosen around the thresholds: 819 is 499 mV,    *)
(* dark and clear air; 1639 is 1000 mV, light and smoke.                   *)
(***************************************************************************)
EXTENDS LightServer

BothSides == {819, 1639}
Above     == {1639}
=============================================================================
