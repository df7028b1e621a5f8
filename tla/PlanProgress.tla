---------------------------- MODULE PlanProgress ----------------------------
(***************************************************************************)
(* What executing a plan promises, whatever fails and however often it is  *)
(* resumed: a run knows of certain steps that they succeeded, by itself or *)
(* in the runs it resumes; it attempts a step only when it knows that all  *)
(* its dependencies succeeded, never one it knows to have succeeded, and   *)
(* each step once.                                                         *)
(*                                                                         *)
(* ExecutionPlanner implements this specification.                         *)
(***************************************************************************)
CONSTANTS
  Runs, Steps,
  NoStep               \* not a step: the run is between two attempts

VARIABLES
  needs,               \* the dependencies of each step
  known,               \* the steps a run knows to have succeeded
  tried,               \* the steps a run has attempted
  busy                 \* the step a run is attempting

progressVars == <<needs, known, tried, busy>>

ProgressInit ==
  /\ needs \in [Steps -> SUBSET Steps]
  /\ known = [r \in Runs |-> {}]
  /\ tried = [r \in Runs |-> {}]
  /\ busy  = [r \in Runs |-> NoStep]

Eligible(r, s) ==
  /\ busy[r] = NoStep
  /\ s \notin known[r] \cup tried[r]
  /\ needs[s] \subseteq known[r]

(* A run takes over what an earlier one knows.                             *)
TakeOver(r, q) ==
  /\ known[r] = {} /\ tried[r] = {}
  /\ known' = [known EXCEPT ![r] = known[q]]
  /\ UNCHANGED <<needs, tried, busy>>

Attempt(r, s) ==
  /\ Eligible(r, s)
  /\ busy'  = [busy EXCEPT ![r] = s]
  /\ tried' = [tried EXCEPT ![r] = @ \cup {s}]
  /\ UNCHANGED <<needs, known>>

Succeed(r) ==
  /\ busy[r] # NoStep
  /\ known' = [known EXCEPT ![r] = @ \cup {busy[r]}]
  /\ busy'  = [busy EXCEPT ![r] = NoStep]
  /\ UNCHANGED <<needs, tried>>

(* A step that succeeds without an attempt: a dry run.                     *)
SucceedAtOnce(r, s) ==
  /\ Eligible(r, s)
  /\ known' = [known EXCEPT ![r] = @ \cup {s}]
  /\ UNCHANGED <<needs, tried, busy>>

(* One attempt fails, or the process ends and with it every attempt.       *)
Abandon ==
  /\ \E R \in SUBSET Runs : busy' = [r \in Runs |-> IF r \in R THEN NoStep ELSE busy[r]]
  /\ UNCHANGED <<needs, known, tried>>

ProgressNext ==
  \/ \E r, q \in Runs : TakeOver(r, q)
  \/ \E r \in Runs, s \in Steps : Attempt(r, s) \/ SucceedAtOnce(r, s)
  \/ \E r \in Runs : Succeed(r)
  \/ Abandon

ProgressSpec == ProgressInit /\ [][ProgressNext]_progressVars
=============================================================================
