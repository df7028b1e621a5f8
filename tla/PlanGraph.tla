------------------------------ MODULE PlanGraph ------------------------------
(***************************************************************************)
(* The pure half of src/planning/executionPlanner.js: the checks made      *)
(* before a plan runs, and the order its steps run in.  A plan is what     *)
(* buildPlan() returns:                                                    *)
(*                                                                         *)
(*   steps       the step ids in the order the caller gave them            *)
(*   dependsOn   for each step the ids it names, known or not, in order    *)
(*   checkpoint  for each step its checkpoint or NoCheckpoint              *)
(*   resolved    the steps whose capability is registered                  *)
(*   dryRun      the steps whose payload asks for a dry run                *)
(*                                                                         *)
(* Both walks are depth first.  Each is a function of the ids still to be  *)
(* visited and of what the JavaScript closures share, so that a `for` loop *)
(* and the calls it makes are one recursion.  Mutants of a definition      *)
(* stand before it.                                                        *)
(***************************************************************************)
EXTENDS Sequences, SequencesExt

Ids(plan) == ToSet(plan.steps)

(* Every id the plan has or names.                                         *)
Named(plan) == Ids(plan) \cup UNION {ToSet(plan.dependsOn[s]) : s \in Ids(plan)}

-----------------------------------------------------------------------------
(* preflightPlan().                                                        *)

CapabilityNotFound(plan) == ~(Ids(plan) \subseteq plan.resolved)

InvalidDependency(plan) ==
  \E s \in Ids(plan) \cap plan.resolved : ~(ToSet(plan.dependsOn[s]) \subseteq Ids(plan))

CycleIfShared(plan) ==                               \* mutant: visited read as visiting
  \E s, t \in Ids(plan) : s # t /\ ToSet(plan.dependsOn[s]) \cap ToSet(plan.dependsOn[t]) # {}

Seen(plan) == [visited : SUBSET Ids(plan), cycle : BOOLEAN]

(* visit() for one id after the other; at is the ids and `visiting`.       *)
CycleWalk(plan) ==
  LET visit[at \in Seq(Named(plan)) \X SUBSET Ids(plan)] ==
        [seen \in Seen(plan) |->
           IF at[1] = <<>> THEN seen
           ELSE LET s == Head(at[1])
                    visiting == at[2]
                    after ==
                      IF s \in seen.visited \/ s \notin Ids(plan) THEN seen
                      ELSE IF s \in visiting THEN [seen EXCEPT !.cycle = TRUE]
                      ELSE [visit[<<plan.dependsOn[s], visiting \cup {s}>>][seen]
                              EXCEPT !.visited = @ \cup {s}]
                IN  visit[<<Tail(at[1]), visiting>>][after]]
  IN  visit

DependencyCycle(plan) ==
  CycleWalk(plan)[<<plan.steps, {}>>][[visited |-> {}, cycle |-> FALSE]].cycle

preflightOk(plan) ==
  ~CapabilityNotFound(plan) /\ ~InvalidDependency(plan) /\ ~DependencyCycle(plan)

-----------------------------------------------------------------------------
(* topologicalOrder(): defined for plans that passed preflight; on a cycle *)
(* neither the code nor this function comes to an end.                     *)
DeclaredOrder(plan) == plan.steps

OrderWalk(plan) ==
  LET visit[todo \in Seq(Named(plan))] ==
        [ordered \in Seq(Ids(plan)) |->
           IF todo = <<>> THEN ordered
           ELSE LET s == Head(todo)
                    after ==
                      IF s \in ToSet(ordered) \/ s \notin Ids(plan) THEN ordered
                      ELSE Append(visit[plan.dependsOn[s]][ordered], s)
                IN  visit[Tail(todo)][after]]
  IN  visit

topologicalOrder(plan) == OrderWalk(plan)[plan.steps][<<>>]

-----------------------------------------------------------------------------
(* What the two are for, in terms that mention no walk.                    *)

(* Some set of steps has each a dependency in the set.                     *)
Cyclic(plan) ==
  \E C \in (SUBSET Ids(plan)) \ {{}} :
    \A s \in C : \E d \in C : d \in ToSet(plan.dependsOn[s])

Executable(plan) ==
  /\ Ids(plan) \subseteq plan.resolved
  /\ \A s \in Ids(plan) : ToSet(plan.dependsOn[s]) \subseteq Ids(plan)
  /\ ~Cyclic(plan)

(* Every step once, after everything it depends on.                        *)
IsRunningOrder(order, plan) ==
  /\ order \in Seq(Ids(plan))
  /\ Ids(plan) \subseteq ToSet(order)
  /\ \A i, j \in 1..Len(order) : order[i] = order[j] => i = j
  /\ \A j \in 1..Len(order) : \A d \in ToSet(plan.dependsOn[order[j]]) :
       \E i \in 1..(j - 1) : order[i] = d
=============================================================================
