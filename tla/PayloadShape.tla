---------------------------- MODULE PayloadShape ----------------------------
(***************************************************************************)
(* checkPayloadShape of src/runtime/limits.js.  A payload is the tree of   *)
(* its objects and arrays: the sequence of the trees nested in it; values  *)
(* that are neither are never pushed and do not count.                     *)
(***************************************************************************)
EXTENDS Naturals, Sequences, SequencesExt

(* The loop: pop, count, test both limits, push what is nested.  walk[n]   *)
(* is the stack after n objects, or the verdict; more than maxNodes + 1    *)
(* are never popped.                                                       *)
checkPayloadShape(payload, maxDepth, maxNodes) ==
  LET walk[n \in 0..(maxNodes + 1)] ==
        IF n = 0 THEN [stack |-> <<[node |-> payload, depth |-> 0]>>, verdict |-> "ok"]
        ELSE LET before == walk[n - 1]
                 top == Last(before.stack)
                 nested == [i \in DOMAIN top.node |-> [node |-> top.node[i], depth |-> top.depth + 1]]
             IN  IF before.stack = <<>> THEN before
                 ELSE IF n > maxNodes THEN [stack |-> <<>>, verdict |-> "too many"]
                 ELSE IF top.depth > maxDepth THEN [stack |-> <<>>, verdict |-> "too deep"]
                 ELSE [before EXCEPT !.stack = Front(@) \o nested]
  IN  walk[maxNodes + 1].verdict
=============================================================================
