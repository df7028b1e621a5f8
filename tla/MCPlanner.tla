----------------------------- MODULE MCPlanner -----------------------------
(***************************************************************************)
(* Two plans of three steps, executed and resumed; and every plan of three *)
(* steps that name up to two ids each, known or not, twice or not, with at *)
(* most one capability that is not registered, up to its first call.       *)
(***************************************************************************)
EXTENDS ExecutionPlanner, TLC

CONSTANTS s1, s2, s3, k1, ghost

ThreeSteps == {s1, s2, s3}

(* A chain, given out of order; its first step to run is a checkpoint.     *)
Chain == [
  steps |-> <<s3, s1, s2>>,
  dependsOn  |-> (s1 :> <<>>) @@ (s2 :> <<s1>>) @@ (s3 :> <<s2>>),
  checkpoint |-> (s1 :> k1) @@ (s2 :> NoCheckpoint) @@ (s3 :> NoCheckpoint),
  resolved |-> ThreeSteps, dryRun |-> {}]

(* Two steps that depend on the first, one of them a dry run, and two      *)
(* steps with the same checkpoint.                                         *)
Fork == [
  steps |-> <<s1, s2, s3>>,
  dependsOn  |-> (s1 :> <<>>) @@ (s2 :> <<s1>>) @@ (s3 :> <<s1>>),
  checkpoint |-> (s1 :> k1) @@ (s2 :> k1) @@ (s3 :> NoCheckpoint),
  resolved |-> ThreeSteps, dryRun |-> {s2}]

(* Two steps, for the runs that need no more.                              *)
Pair == [
  steps |-> <<s2, s1>>,
  dependsOn  |-> (s1 :> <<>>) @@ (s2 :> <<s1>>),
  checkpoint |-> (s1 :> k1) @@ (s2 :> NoCheckpoint),
  resolved |-> {s1, s2}, dryRun |-> {}]

OnePlan == {Pair}

TwoPlans == {Chain, Fork}

UpToTwo == UNION {[1..n -> ThreeSteps \cup {ghost}] : n \in 0..2}

SmallPlans ==
  [steps : {<<s1, s2, s3>>}, dependsOn : [ThreeSteps -> UpToTwo],
   checkpoint : {[s \in ThreeSteps |-> NoCheckpoint]},
   resolved : {ThreeSteps, {s1, s3}}, dryRun : {{}}]

AllPlans == TwoPlans \cup SmallPlans

(* The small plans are called, and not followed further.                   *)
OnlyCalled == plan \in TwoPlans \/ \A r \in Runs : stage[r] = "idle"

RunSymmetry == Permutations(Runs)
=============================================================================
