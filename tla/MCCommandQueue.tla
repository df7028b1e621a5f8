--------------------------- MODULE MCCommandQueue ---------------------------
(* TLC instance of CommandQueue: more calls than the lane and the queue    *)
(* hold together, so that one is active, the queue fills, one is refused,  *)
(* and calls also arrive after others have ended.                          *)
EXTENDS CommandQueue

CONSTANTS c1, c2, c3, c4

MCCalls == {c1, c2, c3, c4}
=============================================================================
