-------------------------- MODULE ExecutionPlanner --------------------------
(***************************************************************************)
(* executePlan() of src/runtime/service.js and of                          *)
(* src/planning/executionPlanner.js: a plan is checked, put in order and   *)
(* run step by step through CommandRouter.execute(); it may fail, pause at *)
(* a checkpoint, be thrown out of, and be run again with the results of an *)
(* earlier run.  Runs may overlap: nothing keeps a client from calling     *)
(* unified_execute_plan again before the first call has returned.          *)
(*                                                                         *)
(* A call of execute() answers as RemoteCommand says, which is what        *)
(* Runtime implements; <<r, s>> is the call run r makes for step s.        *)
(***************************************************************************)
EXTENDS PlanGraph, Naturals

CONSTANTS
  Steps,               \* the step ids
  Runs,                \* the calls of executePlan()
  Plans,               \* the plans a client may submit
  Checkpoints,
  NoRun, NoCheckpoint, NoStep

ASSUME RunAssumption == NoRun \notin Runs

ASSUME NoStepIsNoStep == NoStep \notin Steps

ASSUME PlanAssumption ==
  \A p \in Plans :
    /\ p.steps \in Seq(Steps) /\ ToSet(p.steps) = Steps
    /\ DOMAIN p.dependsOn = Steps
    /\ \A s \in Steps : p.dependsOn[s] \in Seq(ToSet(p.dependsOn[s]))
    /\ p.dryRun \in SUBSET Steps
    /\ p.checkpoint \in [Steps -> Checkpoints \cup {NoCheckpoint}]

ASSUME NoCheckpointAssumption == NoCheckpoint \notin Checkpoints

VARIABLES
  plan,                \* the plan of this session
  stage,               \* how far executePlan() has come
  given,               \* its arguments
  todo,                \* the rest of `order`
  results,             \* the status recorded for each step, or "none"
  halted, paused,      \* the two flags of the loop
  reachedCheckpoints,
  outcome, effect      \* of the calls of execute(): see RemoteCommand

plannerVars == <<plan, stage, given, todo, results, halted, paused, reachedCheckpoints>>
vars == <<plannerVars, outcome, effect>>

Remote == INSTANCE RemoteCommand WITH Calls <- Runs \X Steps

Statuses == {"succeeded", "failed", "timed_out", "blocked", "paused"}

PlannerInit ==
  /\ plan \in Plans
  /\ stage   = [r \in Runs |-> "idle"]
  /\ given   = [r \in Runs |-> [previousRun |-> NoRun, stopOnFailure |-> TRUE,
                                pauseAtCheckpoint |-> NoCheckpoint]]
  /\ todo    = [r \in Runs |-> <<>>]
  /\ results = [r \in Runs |-> [s \in Steps |-> "none"]]
  /\ halted  = [r \in Runs |-> FALSE]
  /\ paused  = [r \in Runs |-> FALSE]
  /\ reachedCheckpoints = [r \in Runs |-> {}]

Init == PlannerInit /\ Remote!RemoteInit

-----------------------------------------------------------------------------
(* What the loop reads.                                                    *)

Prior(r) == given[r].previousRun

SucceededIn(r) == {s \in Steps : results[r][s] = "succeeded"}

PriorSucceeded(r) == IF Prior(r) = NoRun THEN {} ELSE SucceededIn(Prior(r))

DependsOn(s) == ToSet(plan.dependsOn[s])

depsNotFailed(r, s) == \A d \in DependsOn(s) : results[r][d] \notin {"none", "failed"}

depsOk(r, s) == DependsOn(s) \subseteq SucceededIn(r)

AnyCheckpointOf(s) == {plan.checkpoint[s]}

CheckpointOf(s) == {plan.checkpoint[s]} \ {NoCheckpoint}

-----------------------------------------------------------------------------
(* The service refuses a plan that fails preflight; otherwise the run      *)
(* starts from what the earlier run it is given reports.                   *)
Call(r, previousRun, stopOnFailure, pauseAtCheckpoint) ==
  /\ stage[r] = "idle"
  /\ previousRun # NoRun => stage[previousRun] = "returned"
  /\ IF preflightOk(plan)
     THEN /\ stage' = [stage EXCEPT ![r] = "running"]
          /\ given' = [given EXCEPT ![r] = [previousRun |-> previousRun,
                                            stopOnFailure |-> stopOnFailure,
                                            pauseAtCheckpoint |-> pauseAtCheckpoint]]
          /\ todo' = [todo EXCEPT ![r] = topologicalOrder(plan)]
          /\ reachedCheckpoints' =
               [reachedCheckpoints EXCEPT
                 ![r] = IF previousRun = NoRun THEN {} ELSE reachedCheckpoints[previousRun]]
     ELSE /\ stage' = [stage EXCEPT ![r] = "refused"]
          /\ UNCHANGED <<given, todo, reachedCheckpoints>>
  /\ UNCHANGED <<plan, results, halted, paused, outcome, effect>>

(* The loop is at step s; it has not sent s, or waits for its answer.      *)
At(r, s) == stage[r] = "running" /\ todo[r] # <<>> /\ Head(todo[r]) = s

Arrives(r, s) == At(r, s) /\ outcome[<<r, s>>] = "unasked"

Awaits(r, s) == At(r, s) /\ outcome[<<r, s>>] # "unasked"

Push(r, s, status) ==
  /\ results' = [results EXCEPT ![r][s] = status]
  /\ todo' = [todo EXCEPT ![r] = Tail(@)]
  /\ UNCHANGED <<plan, stage, given>>

Skip(r, s) ==
  /\ Arrives(r, s)
  /\ s \in PriorSucceeded(r)
  /\ Push(r, s, "succeeded")
  /\ reachedCheckpoints' = [reachedCheckpoints EXCEPT ![r] = @ \cup CheckpointOf(s)]
  /\ UNCHANGED <<halted, paused, outcome, effect>>

MarkPaused(r, s) ==
  /\ Arrives(r, s)
  /\ s \notin PriorSucceeded(r)
  /\ paused[r]
  /\ Push(r, s, "paused")
  /\ UNCHANGED <<halted, paused, reachedCheckpoints, outcome, effect>>

MarkBlockedThoughPaused(r, s) ==
  /\ Arrives(r, s)
  /\ s \notin PriorSucceeded(r)
  /\ ~depsOk(r, s) \/ halted[r]
  /\ Push(r, s, "blocked")
  /\ UNCHANGED <<halted, paused, reachedCheckpoints, outcome, effect>>

MarkBlocked(r, s) ==
  /\ Arrives(r, s)
  /\ s \notin PriorSucceeded(r)
  /\ ~paused[r]
  /\ ~depsOk(r, s) \/ halted[r]
  /\ Push(r, s, "blocked")
  /\ UNCHANGED <<halted, paused, reachedCheckpoints, outcome, effect>>

(* The loop comes to `await router.execute(..)`.                           *)
ExecutesAgain(r, s) ==
  /\ Arrives(r, s)
  /\ ~paused[r] /\ ~halted[r]
  /\ depsOk(r, s)

Executes(r, s) ==
  /\ Arrives(r, s)
  /\ s \notin PriorSucceeded(r)
  /\ ~paused[r] /\ ~halted[r]
  /\ depsOk(r, s)

Send(r, s) ==
  /\ Executes(r, s)
  /\ s \notin plan.dryRun
  /\ Remote!Ask(<<r, s>>)
  /\ UNCHANGED plannerVars

(* What follows the await: the result is recorded, and the two flags set.  *)
ConcludeReached(r, s, status) ==
  /\ Push(r, s, status)
  /\ reachedCheckpoints' = [reachedCheckpoints EXCEPT ![r] = @ \cup CheckpointOf(s)]
  /\ paused' = [paused EXCEPT ![r] = @ \/ given[r].pauseAtCheckpoint \in CheckpointOf(s)]
  /\ halted' = [halted EXCEPT ![r] = @ \/ (status # "succeeded" /\ given[r].stopOnFailure)]

Conclude(r, s, status) ==
  LET ok == status = "succeeded" IN
  /\ Push(r, s, status)
  /\ reachedCheckpoints' = IF ok THEN [reachedCheckpoints EXCEPT ![r] = @ \cup CheckpointOf(s)]
                                 ELSE reachedCheckpoints
  /\ paused' = [paused EXCEPT ![r] = @ \/ (ok /\ given[r].pauseAtCheckpoint \in CheckpointOf(s))]
  /\ halted' = [halted EXCEPT ![r] = @ \/ (~ok /\ given[r].stopOnFailure)]

(* An answer of the plugin says ok or not; any other outcome is a failure, *)
(* and a timeout is recorded as one.                                       *)
StatusesWithLateSuccess(o) == IF o \in {"ok", "unknown"} THEN {"succeeded", "failed"} ELSE {"failed", "timed_out"}

StatusesOf(o) == IF o = "ok" THEN {"succeeded", "failed"} ELSE {"failed", "timed_out"}

SettleUnlessRefused(r, s) ==
  /\ Awaits(r, s)
  /\ outcome[<<r, s>>] \in {"ok", "unknown"}
  /\ \E status \in StatusesOf(outcome[<<r, s>>]) : Conclude(r, s, status)
  /\ UNCHANGED <<outcome, effect>>

Settle(r, s) ==
  /\ Awaits(r, s)
  /\ outcome[<<r, s>>] \in {"ok", "refused", "unknown"}
  /\ \E status \in StatusesOf(outcome[<<r, s>>]) : Conclude(r, s, status)
  /\ UNCHANGED <<outcome, effect>>

(* execute() answers a dry run by itself.                                  *)
DryRun(r, s) ==
  /\ Executes(r, s)
  /\ s \in plan.dryRun
  /\ Conclude(r, s, "succeeded")
  /\ UNCHANGED <<outcome, effect>>

(* execute() throws, for an invalid payload or from toEnvelope(): nothing  *)
(* in executePlan() catches it, and the tool's handler answers             *)
(* executed:false.                                                         *)
Throws(r, s) ==
  /\ Executes(r, s)
  /\ stage' = [stage EXCEPT ![r] = "threw"]
  /\ UNCHANGED <<plan, given, todo, results, halted, paused, reachedCheckpoints,
                 outcome, effect>>

Return(r) ==
  /\ stage[r] = "running"
  /\ todo[r] = <<>>
  /\ stage' = [stage EXCEPT ![r] = "returned"]
  /\ UNCHANGED <<plan, given, todo, results, halted, paused, reachedCheckpoints,
                 outcome, effect>>

(* What a run reports as ok.                                               *)
ok(r) == \A s \in Steps : results[r][s] \notin {"failed", "timed_out", "blocked", "paused"}

-----------------------------------------------------------------------------
(* The rest of the world.                                                  *)

(* The coordinator's process ends and is started again: runs under way are *)
(* lost, those that returned are in their callers' hands.                  *)
Restart ==
  /\ \E r \in Runs : stage[r] = "running"
  /\ stage' = [r \in Runs |-> IF stage[r] = "running" THEN "lost" ELSE stage[r]]
  /\ UNCHANGED <<plan, given, todo, results, halted, paused, reachedCheckpoints,
                 outcome, effect>>

(* execute() answers, as long as someone awaits it.                        *)
Answered(r, s) ==
  /\ stage[r] = "running"
  /\ outcome[<<r, s>>] = "waiting"
  /\ Remote!Answer(<<r, s>>) \/ Remote!Refuse(<<r, s>>) \/ Remote!GiveUp(<<r, s>>)
  /\ UNCHANGED plannerVars

(* The plugin carries commands out, or Figma is closed.                    *)
Figma ==
  /\ Remote!Cut \/ \E c \in Runs \X Steps : Remote!Begin(c) \/ Remote!End(c)
  /\ UNCHANGED plannerVars

Loop(r) ==
  \/ \E s \in Steps :
       Skip(r, s) \/ MarkPaused(r, s) \/ MarkBlocked(r, s) \/ Send(r, s)
       \/ Settle(r, s) \/ DryRun(r, s) \/ Throws(r, s)
  \/ Return(r)

Next ==
  \/ \E r \in Runs, q \in Runs \cup {NoRun}, stop \in BOOLEAN,
        cp \in Checkpoints \cup {NoCheckpoint} : Call(r, q, stop, cp)
  \/ \E r \in Runs : Loop(r)
  \/ \E r \in Runs, s \in Steps : Answered(r, s)
  \/ Figma
  \/ Restart

Spec == Init /\ [][Next]_vars

(* The loop goes on, and every call of execute() is answered: that much    *)
(* Runtime promises (EveryCallAnswered).                                   *)
FairSpec ==
  /\ Spec
  /\ \A r \in Runs :
       /\ WF_vars(Loop(r))
       /\ \A s \in Steps : WF_vars(Answered(r, s))

-----------------------------------------------------------------------------
(* Properties.                                                             *)

Outcomes == {"unasked", "waiting", "ok", "refused", "unknown"}

(* Types of executePlan()'s locals; and no run is its own previousRun or   *)
(* resumes one that has not returned.                                      *)
PlannerTypeOK ==
  /\ plan \in Plans
  /\ stage \in [Runs -> {"idle", "running", "returned", "refused", "threw", "lost"}]
  /\ given \in [Runs -> [previousRun : Runs \cup {NoRun}, stopOnFailure : BOOLEAN,
                         pauseAtCheckpoint : Checkpoints \cup {NoCheckpoint}]]
  /\ todo \in [Runs -> Seq(Steps)]
  /\ results \in [Runs -> [Steps -> Statuses \cup {"none"}]]
  /\ halted \in [Runs -> BOOLEAN]
  /\ paused \in [Runs -> BOOLEAN]
  /\ reachedCheckpoints \in [Runs -> SUBSET Checkpoints]
  /\ outcome \in [Runs \X Steps -> Outcomes]
  /\ effect \in [Runs \X Steps -> {"no", "running", "done", "killed"}]
  /\ \A r \in Runs : Prior(r) # NoRun => Prior(r) # r /\ stage[Prior(r)] = "returned"

(* preflightPlan() is exact: a plan is refused just when it names unknown  *)
(* capabilities or steps, or its dependencies run in a circle, and then    *)
(* nothing of it runs.                                                     *)
PreflightIsExact ==
  /\ Executable(plan) => \A r \in Runs : stage[r] # "refused"
  /\ ~Executable(plan) =>
       /\ \A r \in Runs : stage[r] \in {"idle", "refused"}
       /\ outcome = [c \in Runs \X Steps |-> "unasked"]

(* topologicalOrder() of a plan that passed preflight is a running order.  *)
OrderIsSound == preflightOk(plan) => IsRunningOrder(topologicalOrder(plan), plan)

Recorded(r) == {s \in Steps : results[r][s] # "none"}

(* A run comes to every step once, after all the steps it depends on, also *)
(* to those it skips: at any time the steps recorded so far are closed     *)
(* under dependsOn, and `todo` is the rest, without repetition.            *)
DependenciesFirst ==
  \A r \in Runs : stage[r] \in {"running", "returned", "threw", "lost"} =>
    /\ \A s \in Recorded(r) : DependsOn(s) \subseteq Recorded(r)
    /\ ToSet(todo[r]) = Steps \ Recorded(r)
    /\ \A i, j \in 1..Len(todo[r]) : todo[r][i] = todo[r][j] => i = j

DoneInFigma(s) == s \in plan.dryRun \/ \E r \in Runs : effect[<<r, s>>] = "done"

(* A command is sent only when Figma has carried out the commands of all   *)
(* the steps its step depends on, in this run or in one it builds on.      *)
StepsBuildOnDone ==
  \A r \in Runs, s \in Steps :
    outcome[<<r, s>>] # "unasked" => \A d \in DependsOn(s) : DoneInFigma(d)

(* What a run records is true: "succeeded" of steps carried out, "blocked" *)
(* and "paused" of steps it did not send, "timed_out" of steps it had no   *)
(* answer to; and a run that returns ok has had every step carried out.    *)
ReportsAreTrue ==
  \A r \in Runs :
    /\ \A s \in Steps :
         CASE results[r][s] = "succeeded" -> DoneInFigma(s)
           [] results[r][s] \in {"blocked", "paused"} ->
                outcome[<<r, s>>] = "unasked" /\ effect[<<r, s>>] = "no"
           [] results[r][s] = "timed_out" -> outcome[<<r, s>>] \in {"refused", "unknown"}
           [] OTHER -> TRUE
    /\ stage[r] = "returned" /\ ok(r) => \A s \in Steps : DoneInFigma(s)

(* A step is reported blocked only in a run in which some step failed;     *)
(* pausing blocks nothing.                                                 *)
BlockedHasCause ==
  \A r \in Runs : (\E s \in Steps : results[r][s] = "blocked") =>
    \E t \in Steps : results[r][t] \in {"failed", "timed_out"}

(* A run that stopped at a checkpoint, and would have stopped at a failure,*)
(* leaves nothing of its own under way: all it sent was carried out.       *)
QuietAtPause ==
  \A r \in Runs :
    (\E s \in Steps : results[r][s] = "paused") /\ given[r].stopOnFailure =>
      /\ given[r].pauseAtCheckpoint \in reachedCheckpoints[r]
      /\ \A s \in Steps : outcome[<<r, s>>] # "unasked" => effect[<<r, s>>] = "done"

(* The checkpoints a run reports are those of the steps known to have      *)
(* succeeded, and none besides.                                            *)
CheckpointsAreEarned ==
  \A r \in Runs :
    reachedCheckpoints[r] =
      UNION {CheckpointOf(s) : s \in SucceededIn(r) \cup PriorSucceeded(r)}

(* A run implements PlanProgress: it attempts a step once, on succeeded    *)
(* dependencies, and never again one that succeeded before.                *)
dependencies == [s \in Steps |-> DependsOn(s) \cap Steps]

knownSteps == [r \in Runs |-> SucceededIn(r) \cup PriorSucceeded(r)]

triedSteps == [r \in Runs |-> {s \in Steps : outcome[<<r, s>>] # "unasked"}]

busyStep == [r \in Runs |-> IF \E s \in Steps : Awaits(r, s)
                            THEN CHOOSE s \in Steps : Awaits(r, s) ELSE NoStep]

Progress == INSTANCE PlanProgress WITH
  needs <- dependencies, known <- knownSteps, tried <- triedSteps, busy <- busyStep

ImplementsPlanProgress == Progress!ProgressSpec

(* Every run ends although its steps fail, time out or throw.              *)
EveryRunEnds == \A r \in Runs : stage[r] = "running" ~> stage[r] # "running"

(* The comment on preflightPlan(): a payload that does not pass its schema *)
(* is found before the plan has started executing.                         *)
PayloadErrorsComeFirst ==
  \A r \in Runs : stage[r] = "threw" => \A s \in Steps : outcome[<<r, s>>] = "unasked"
=============================================================================
