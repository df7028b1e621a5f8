---------------------------- MODULE PayloadTrees ----------------------------
(***************************************************************************)
(* What checkPayloadShape is checked against: the number of objects of a   *)
(* payload and their depth, defined by recursion, and all small payloads.  *)
(***************************************************************************)
EXTENDS Naturals, Sequences, SequencesExt

RECURSIVE SizeOf(_), DepthOf(_)
SizeOf(tree) == FoldLeft(LAMBDA n, t : n + SizeOf(t), 1, tree)
DepthOf(tree) ==
  FoldLeft(LAMBDA n, t : IF DepthOf(t) + 1 > n THEN DepthOf(t) + 1 ELSE n, 0, tree)

Fits(tree, maxDepth, maxNodes) == SizeOf(tree) <= maxNodes /\ DepthOf(tree) <= maxDepth

\* All trees of exactly n objects.
RECURSIVE TreesOf(_), Forests(_)
Forests(n) ==
  IF n = 0 THEN {<<>>}
  ELSE UNION {{<<t>> \o f : t \in TreesOf(k), f \in Forests(n - k)} : k \in 1..n}
TreesOf(n) == Forests(n - 1)
=============================================================================
