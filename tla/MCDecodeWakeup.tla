--------------------------- MODULE MCDecodeWakeup ---------------------------
(* The four usable slots of a session, so the indices wrap at five, and three
   blocks, one of which does not fit. *)
EXTENDS DecodeWakeup
CONSTANTS b1, b2, big
MCBlocks == {b1, b2, big}
MCOversized == {big}
=============================================================================
