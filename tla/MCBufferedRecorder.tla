------------------------- MODULE MCBufferedRecorder -------------------------
\* The events of a small instance of BufferedRecorder.
EXTENDS BufferedRecorder

CONSTANTS e1, e2, e3, e4, e5
============================================================================
