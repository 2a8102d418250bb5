------------------------- MODULE MCPlaybackSession --------------------------
(* Small instances of the session: the configurations choose which of its    *)
(* hazards (contended lock, failing decoder, failing device) may happen.     *)
EXTENDS PlaybackSession
CONSTANTS l1, l2, d1, d2
OneLayout == {l1}
TwoLayouts == {l1, l2}
OneDevice == {d1}
MCInitialDevice == d1
TwoDevices == {d1, d2}
\* Within the source, beyond its end, and below zero.
MCTargets == {-1, 2, 5}
\* One source knows no duration, the other tells too long a one.
MCDuration == <<0, 4>>
=============================================================================
