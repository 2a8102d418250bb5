---------------------- MODULE MCMediaFoundationDecoder ----------------------
(* A frame lasts 5/2 ticks, so that blocks of one or three frames do not     *)
(* last a whole number of ticks.                                             *)
EXTENDS MediaFoundationDecoder
MCSeekTargets == {-1, 2, 4, 11}
=============================================================================
