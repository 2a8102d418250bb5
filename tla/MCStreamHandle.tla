--------------------------- MODULE MCStreamHandle ---------------------------
\* Instances of the stream handle for TLC.
EXTENDS StreamHandle
=============================================================================
