------------------------------ MODULE MCRuntime ------------------------------
(* TLC instance of Runtime: as many calls as a lane, a queue of one and a  *)
(* refusal need, two plugin windows and the connections of a supersession  *)
(* and a reconnect.                                                        *)
EXTENDS Runtime

CONSTANTS c1, c2, c3, p1, p2

MCCalls == {c1, c2, c3}
MCTwoCalls == {c1, c2}
MCPlugins == {p1, p2}

(* Calls are interchangeable and so are plugin windows.                    *)
MCSymmetry == Permutations(MCCalls) \cup Permutations(MCPlugins)
=============================================================================
