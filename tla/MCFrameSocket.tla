---------------------------- MODULE MCFrameSocket ----------------------------
(* Constants for model checking FrameSocket.                               *)
EXTENDS FrameSocket

CONSTANTS c1, c2

\* Two frames: bodies of 4 and 1, 5 and 2, 0 and 4 bytes, to be cut in every way.
TwoFrames == {<<7, 11>>, <<8, 13>>, <<3, 10>>}
=============================================================================
