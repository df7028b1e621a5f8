----------------------- MODULE ExecutionPlannerProofs -----------------------
(***************************************************************************)
(* Proofs about ExecutionPlanner, for every set of plans, steps, runs and  *)
(* checkpoints.                                                            *)
(***************************************************************************)
EXTENDS ExecutionPlanner, PlanGraphProofs

Started(r) == stage[r] \in {"running", "returned", "threw", "lost"}

Asked(r, s) == outcome[<<r, s>>] # "unasked"

Current(r, s) == todo[r] # <<>> /\ s = Head(todo[r])

Failed(r, s) == results[r][s] \in {"failed", "timed_out"}

(* A run that has not started left no trace.                               *)
FreshRuns ==
  \A r \in Runs : ~Started(r) =>
    /\ Prior(r) = NoRun /\ todo[r] = <<>>
    /\ ~halted[r] /\ ~paused[r] /\ reachedCheckpoints[r] = {}
    /\ \A s \in Steps : results[r][s] = "none" /\ ~Asked(r, s)

(* What is left to do is what is not recorded, once each and in order.     *)
RestOf(r) ==
  /\ \A s \in Steps : s \in Recorded(r) <=> s \notin ToSet(todo[r])
  /\ \A i, j \in 1..Len(todo[r]) : todo[r][i] = todo[r][j] => i = j
  /\ \A j \in 1..Len(todo[r]) : \A d \in DependsOn(todo[r][j]) :
       d \in Recorded(r) \/ \E i \in 1..(j - 1) : todo[r][i] = d
  /\ \A s \in Recorded(r) : DependsOn(s) \subseteq Recorded(r)

RestInOrder ==
  \A r \in Runs :
    /\ Started(r) => RestOf(r)
    /\ stage[r] = "returned" => todo[r] = <<>>

(* A step was sent on succeeded dependencies, and it is the current one    *)
(* until it is recorded.                                                   *)
SentInTurn ==
  \A r \in Runs, s \in Steps : Asked(r, s) =>
    /\ DependsOn(s) \subseteq SucceededIn(r)
    /\ s \notin Recorded(r) =>
         Current(r, s) /\ ~halted[r] /\ ~paused[r] /\ s \notin PriorSucceeded(r)

(* What a record says of the calls.                                        *)
Truthful(r, s, status) ==
  /\ status = "succeeded" =>
       /\ s \in plan.dryRun \/ \E q \in Runs : outcome[<<q, s>>] = "ok"
       /\ Asked(r, s) => outcome[<<r, s>>] = "ok"
  /\ status \in {"blocked", "paused"} => ~Asked(r, s)
  /\ status = "timed_out" => outcome[<<r, s>>] \in {"refused", "unknown"}
  /\ status # "none" /\ s \in PriorSucceeded(r) => status = "succeeded"

RecordsAreTrue == \A r \in Runs, s \in Steps : Truthful(r, s, results[r][s])

(* What the two flags say of the records.                                  *)
FlagsOf(r) ==
  /\ halted[r] => \E t \in Steps : Failed(r, t)
  /\ given[r].stopOnFailure /\ (\E t \in Steps : Failed(r, t)) => halted[r]
  /\ paused[r] => given[r].pauseAtCheckpoint \in reachedCheckpoints[r]
  /\ ~(halted[r] /\ paused[r])
  /\ \A s \in Steps : results[r][s] = "paused" => paused[r]
  /\ \A s \in Steps : results[r][s] = "blocked" => \E t \in Steps : Failed(r, t)

FlagsAreTrue == \A r \in Runs : FlagsOf(r)

(* RemoteCommand's own invariant: an answer is earned, a refusal final.    *)
AnswersAreEarned ==
  \A c \in Runs \X Steps :
    /\ outcome[c] = "ok" => effect[c] = "done"
    /\ outcome[c] \in {"unasked", "refused"} => effect[c] = "no"

PlannerInv ==
  /\ PlannerTypeOK
  /\ FreshRuns
  /\ RestInOrder
  /\ SentInTurn
  /\ RecordsAreTrue
  /\ FlagsAreTrue
  /\ CheckpointsAreEarned
  /\ AnswersAreEarned

(* The order is a running order: what OrderIsSound says of every plan.     *)
OrdersAreSound ==
  \A p \in Plans : preflightOk(p) => IsRunningOrder(topologicalOrder(p), p)

-----------------------------------------------------------------------------
LEMMA InitIsFresh == Init => PlannerInv
<1> SUFFICES ASSUME Init PROVE PlannerInv
  OBVIOUS
<1> USE DEF Init, PlannerInit, Remote!RemoteInit
<1>1. PlannerTypeOK
  BY DEF PlannerTypeOK, Outcomes, Prior
<1>2. \A r \in Runs : ~Started(r) /\ ~halted[r] /\ ~paused[r] /\ Prior(r) = NoRun
  BY DEF Started, Prior
<1>3. \A r \in Runs, s \in Steps : results[r][s] = "none" /\ ~Asked(r, s)
  BY DEF Asked
<1>4. FreshRuns
  BY <1>2, <1>3 DEF FreshRuns
<1>5. RestInOrder
  BY <1>2 DEF RestInOrder, Started
<1>6. SentInTurn
  BY <1>3 DEF SentInTurn
<1>7. RecordsAreTrue
  BY <1>3 DEF RecordsAreTrue, Truthful
<1>8. FlagsAreTrue
  BY <1>2, <1>3 DEF FlagsAreTrue, FlagsOf, Failed
<1>9. CheckpointsAreEarned
  BY <1>2, <1>3 DEF CheckpointsAreEarned, SucceededIn, PriorSucceeded
<1>10. AnswersAreEarned
  BY DEF AnswersAreEarned
<1>. QED
  BY <1>1, <1>4, <1>5, <1>6, <1>7, <1>8, <1>9, <1>10 DEF PlannerInv

(* The step the loop is at has no record, and its dependencies have one.   *)
LEMMA CurrentStep ==
  ASSUME PlannerInv, NEW r \in Runs, NEW s \in Steps, At(r, s)
  PROVE  /\ Started(r) /\ Current(r, s)
         /\ s \notin Recorded(r)
         /\ DependsOn(s) \subseteq Recorded(r)
<1>1. todo[r] \in Seq(Steps) /\ todo[r] # <<>> /\ s = Head(todo[r]) /\ stage[r] = "running"
  BY DEF PlannerInv, PlannerTypeOK, At
<1>2. s = todo[r][1] /\ 1 \in 1..Len(todo[r]) /\ DOMAIN todo[r] = 1..Len(todo[r])
  BY <1>1
<1>3. s \in ToSet(todo[r])
  BY <1>2 DEF ToSet
<1>4. Started(r)
  BY <1>1 DEF Started
<1>5. s \notin Recorded(r)
  BY <1>3, <1>4 DEF PlannerInv, RestInOrder, RestOf
<1>6. \A d \in DependsOn(s) : d \in Recorded(r) \/ \E i \in 1..(1 - 1) : todo[r][i] = d
  BY <1>2, <1>4 DEF PlannerInv, RestInOrder, RestOf
<1>7. 1..(1 - 1) = {}
  OBVIOUS
<1>. QED
  BY <1>1, <1>4, <1>5, <1>6, <1>7 DEF Current

(* What recording a status does to the run, and that it leaves the others  *)
(* alone.                                                                  *)
LEMMA PushRecords ==
  ASSUME PlannerInv, NEW r \in Runs, NEW s \in Steps, At(r, s),
         NEW status \in Statuses, Push(r, s, status)
  PROVE  /\ results' \in [Runs -> [Steps -> Statuses \cup {"none"}]]
         /\ todo' \in [Runs -> Seq(Steps)]
         /\ results'[r][s] = status /\ results[r][s] = "none"
         /\ \A t \in Steps : t # s => results'[r][t] = results[r][t]
         /\ \A q \in Runs : q # r => results'[q] = results[q] /\ todo'[q] = todo[q]
         /\ todo'[r] = Tail(todo[r])
         /\ stage' = stage /\ given' = given /\ plan' = plan
         /\ stage[r] = "running"
<1>1. results[r][s] = "none"
  BY CurrentStep DEF Recorded
<1>2. todo[r] \in Seq(Steps) /\ todo[r] # <<>> /\ stage[r] = "running"
  BY DEF PlannerInv, PlannerTypeOK, At
<1>3. Tail(todo[r]) \in Seq(Steps)
  BY <1>2
<1>. QED
  BY <1>1, <1>2, <1>3 DEF PlannerInv, PlannerTypeOK, Push

(* Only runs under way change their records, so those of a previous run    *)
(* stay as they are.                                                       *)
LEMMA PriorIsSettled ==
  ASSUME PlannerInv, NEW r \in Runs, NEW s \in Steps, At(r, s),
         NEW status \in Statuses, Push(r, s, status), NEW q \in Runs
  PROVE  /\ Prior(q)' = Prior(q)
         /\ PriorSucceeded(q)' = PriorSucceeded(q)
         /\ q # r => SucceededIn(q)' = SucceededIn(q) /\ Recorded(q)' = Recorded(q)
<1>1. Prior(q)' = Prior(q)
  BY PushRecords DEF Prior
<1>2. \A p \in Runs : p # r => SucceededIn(p)' = SucceededIn(p) /\ Recorded(p)' = Recorded(p)
  BY PushRecords DEF SucceededIn, Recorded
<1>3. Prior(q) # NoRun => Prior(q) \in Runs /\ Prior(q) # r
  BY PushRecords DEF PlannerInv, PlannerTypeOK, Prior
<1>. QED
  BY <1>1, <1>2, <1>3 DEF PriorSucceeded

LEMMA PushRestInOrder ==
  ASSUME PlannerInv, NEW r \in Runs, NEW s \in Steps, At(r, s),
         NEW status \in Statuses, Push(r, s, status)
  PROVE  RestInOrder'
<1> DEFINE rest == Tail(todo[r])
<1>1. /\ todo[r] \in Seq(Steps) /\ todo[r] # <<>> /\ s = todo[r][1]
      /\ 1 \in 1..Len(todo[r]) /\ DOMAIN todo[r] = 1..Len(todo[r])
  BY DEF PlannerInv, PlannerTypeOK, At
<1>2. /\ rest \in Seq(Steps) /\ DOMAIN rest = 1..Len(rest) /\ Len(rest) \in Nat
      /\ \A i \in 1..Len(rest) : i + 1 \in 1..Len(todo[r]) /\ rest[i] = todo[r][i + 1]
      /\ \A i \in 1..Len(todo[r]) : i # 1 => i - 1 \in 1..Len(rest) /\ rest[i - 1] = todo[r][i]
  BY <1>1
<1>3. Recorded(r)' = Recorded(r) \cup {s}
  BY PushRecords DEF Recorded, Statuses
<1>4. /\ \A t \in Steps : t \in Recorded(r) <=> t \notin ToSet(todo[r])
      /\ \A i, j \in 1..Len(todo[r]) : todo[r][i] = todo[r][j] => i = j
      /\ \A j \in 1..Len(todo[r]) : \A d \in DependsOn(todo[r][j]) :
           d \in Recorded(r) \/ \E i \in 1..(j - 1) : todo[r][i] = d
      /\ \A t \in Recorded(r) : DependsOn(t) \subseteq Recorded(r)
  BY CurrentStep DEF PlannerInv, RestInOrder, RestOf
<1>5. ToSet(rest) = ToSet(todo[r]) \ {s}
  <2>1. ASSUME NEW t \in ToSet(rest) PROVE t \in ToSet(todo[r]) \ {s}
    <3>1. PICK i \in 1..Len(rest) : t = rest[i]
      BY <1>2 DEF ToSet
    <3>2. t = todo[r][i + 1] /\ i + 1 \in 1..Len(todo[r]) /\ i + 1 # 1
      BY <1>2, <3>1
    <3>. QED
      BY <1>1, <1>4, <3>2 DEF ToSet
  <2>2. ASSUME NEW t \in ToSet(todo[r]) \ {s} PROVE t \in ToSet(rest)
    <3>1. PICK i \in 1..Len(todo[r]) : t = todo[r][i]
      BY <1>1 DEF ToSet
    <3>2. i # 1
      BY <1>1, <3>1
    <3>. QED
      BY <1>2, <3>1, <3>2 DEF ToSet
  <2>. QED
    BY <2>1, <2>2
<1>6. \A t \in Steps : t \in Recorded(r)' <=> t \notin ToSet(rest)
  BY <1>3, <1>4, <1>5
<1>7. \A i, j \in 1..Len(rest) : rest[i] = rest[j] => i = j
  <2> SUFFICES ASSUME NEW i \in 1..Len(rest), NEW j \in 1..Len(rest), rest[i] = rest[j]
               PROVE  i = j
    OBVIOUS
  <2>1. i + 1 = j + 1
    BY <1>2, <1>4
  <2>. QED
    BY <2>1, <1>2
<1>8. ASSUME NEW j \in 1..Len(rest), NEW d \in DependsOn(rest[j])
      PROVE  d \in Recorded(r)' \/ \E i \in 1..(j - 1) : rest[i] = d
  <2>1. j + 1 \in 1..Len(todo[r]) /\ rest[j] = todo[r][j + 1]
    BY <1>2
  <2>2. d \in Recorded(r) \/ \E i \in 1..((j + 1) - 1) : todo[r][i] = d
    BY <1>4, <2>1
  <2>3. ASSUME NEW i \in 1..((j + 1) - 1), todo[r][i] = d, i # 1
        PROVE  i - 1 \in 1..(j - 1) /\ rest[i - 1] = d
    <3>1. i \in 1..Len(todo[r]) /\ i - 1 \in 1..(j - 1)
      BY <1>1, <1>2, <2>1, <2>3
    <3>. QED
      BY <1>2, <2>3, <3>1
  <2>. QED
    BY <1>1, <1>3, <2>2, <2>3
<1>9. \A t \in Recorded(r)' : DependsOn(t) \subseteq Recorded(r)'
  BY <1>3, <1>4, CurrentStep
<1>10. \A t : DependsOn(t)' = DependsOn(t)
  BY PushRecords DEF DependsOn
<1>11. todo'[r] = rest /\ stage'[r] # "returned" /\ Started(r)'
  BY PushRecords DEF Started
<1>12. ASSUME NEW q \in Runs, q # r, Started(q)'
       PROVE  /\ Started(q) /\ todo'[q] = todo[q] /\ stage'[q] = stage[q]
              /\ Recorded(q)' = Recorded(q)
  BY <1>12, PushRecords, PriorIsSettled DEF Started
<1> HIDE DEF rest
<1>13. ASSUME NEW q \in Runs, Started(q)' PROVE RestOf(q)'
  <2>1. CASE q = r
    BY <2>1, <1>6, <1>7, <1>8, <1>9, <1>10, <1>11 DEF RestOf
  <2>2. CASE q # r
    <3>1. RestOf(q)
      BY <2>2, <1>13, <1>12 DEF PlannerInv, RestInOrder
    <3>. QED
      BY <2>2, <3>1, <1>13, <1>12, <1>10 DEF RestOf
  <2>. QED
    BY <2>1, <2>2
<1>14. ASSUME NEW q \in Runs, stage'[q] = "returned" PROVE todo'[q] = <<>>
  BY <1>14, <1>11, <1>12 DEF PlannerInv, RestInOrder, Started
<1>. QED
  BY <1>13, <1>14 DEF RestInOrder

(***************************************************************************)
(* The loop records a status, and may set the flags and the checkpoints of *)
(* its run: what is left to show of an action is that the record is true   *)
(* and that the flags and checkpoints agree with it.                       *)
(***************************************************************************)
Records(r, s, status) ==
  /\ At(r, s)
  /\ Push(r, s, status)
  /\ UNCHANGED <<outcome, effect>>
  /\ halted' \in [Runs -> BOOLEAN] /\ paused' \in [Runs -> BOOLEAN]
  /\ \A q \in Runs : q # r => halted'[q] = halted[q] /\ paused'[q] = paused[q]
  /\ reachedCheckpoints' =
       [reachedCheckpoints EXCEPT ![r] = IF status = "succeeded" THEN @ \cup CheckpointOf(s) ELSE @]

LEMMA CheckpointsTyped ==
  ASSUME PlannerTypeOK, NEW s \in Steps
  PROVE  CheckpointOf(s) \subseteq Checkpoints
BY PlanAssumption DEF PlannerTypeOK, CheckpointOf

LEMMA RecordingKeepsInv ==
  ASSUME PlannerInv, NEW r \in Runs, NEW s \in Steps, NEW status \in Statuses,
         Records(r, s, status), Truthful(r, s, status), FlagsOf(r)'
  PROVE  PlannerInv'
<1> USE DEF Records
<1>1. PlannerTypeOK'
  <2>1. reachedCheckpoints' \in [Runs -> SUBSET Checkpoints]
    BY CheckpointsTyped DEF PlannerInv, PlannerTypeOK
  <2>2. \A q \in Runs : Prior(q)' # NoRun => Prior(q)' # q /\ stage'[Prior(q)'] = "returned"
    BY PushRecords, PriorIsSettled DEF PlannerInv, PlannerTypeOK
  <2>. QED
    BY <2>1, <2>2, PushRecords DEF PlannerInv, PlannerTypeOK
<1>2. FreshRuns'
  <2> SUFFICES ASSUME NEW q \in Runs, ~Started(q)'
               PROVE  /\ Prior(q)' = NoRun /\ todo'[q] = <<>>
                      /\ ~halted'[q] /\ ~paused'[q] /\ reachedCheckpoints'[q] = {}
                      /\ \A t \in Steps : results'[q][t] = "none" /\ ~Asked(q, t)'
    BY DEF FreshRuns
  <2>1. q # r /\ ~Started(q)
    BY PushRecords DEF Started
  <2>2. reachedCheckpoints'[q] = reachedCheckpoints[q]
    BY <2>1 DEF PlannerInv, PlannerTypeOK
  <2>3. /\ Prior(q) = NoRun /\ todo[q] = <<>>
        /\ ~halted[q] /\ ~paused[q] /\ reachedCheckpoints[q] = {}
        /\ \A t \in Steps : results[q][t] = "none" /\ ~Asked(q, t)
    BY <2>1 DEF PlannerInv, FreshRuns
  <2>4. results'[q] = results[q] /\ todo'[q] = todo[q]
    BY <2>1, PushRecords
  <2>5. Prior(q)' = Prior(q)
    BY PriorIsSettled
  <2>. QED
    BY <2>1, <2>2, <2>3, <2>4, <2>5 DEF Asked
<1>3. RestInOrder'
  BY PushRestInOrder
<1>4. SentInTurn'
  <2> SUFFICES ASSUME NEW q \in Runs, NEW t \in Steps, Asked(q, t)'
               PROVE  /\ DependsOn(t)' \subseteq SucceededIn(q)'
                      /\ t \notin Recorded(q)' =>
                           /\ Current(q, t)' /\ ~halted'[q] /\ ~paused'[q]
                           /\ t \notin PriorSucceeded(q)'
    BY DEF SentInTurn
  <2>1. /\ Asked(q, t) /\ DependsOn(t)' = DependsOn(t) /\ DependsOn(t) \subseteq SucceededIn(q)
        /\ t \notin Recorded(q) =>
             Current(q, t) /\ ~halted[q] /\ ~paused[q] /\ t \notin PriorSucceeded(q)
    BY PushRecords DEF PlannerInv, SentInTurn, Asked, DependsOn
  <2>2. CASE q = r
    <3>1. SucceededIn(r) \subseteq SucceededIn(r)' /\ Recorded(r)' = Recorded(r) \cup {s}
      <4>1. SucceededIn(r) \subseteq SucceededIn(r)'
        <5>1. \A u \in SucceededIn(r) : u \in Steps /\ u # s /\ results[r][u] = "succeeded"
          BY PushRecords DEF SucceededIn
        <5>. QED
          BY <5>1, PushRecords DEF SucceededIn
      <4>2. Recorded(r)' = Recorded(r) \cup {s}
        BY PushRecords DEF Recorded, Statuses
      <4>. QED
        BY <4>1, <4>2
    <3>2. t \in Recorded(r)'
      BY <2>1, <2>2, <3>1, CurrentStep DEF Current
    <3>. QED
      BY <2>1, <2>2, <3>1, <3>2
  <2>3. CASE q # r
    <3>1. Current(q, t)' = Current(q, t)
      BY <2>3, PushRecords DEF Current
    <3>. QED
      BY <2>1, <2>3, <3>1, PriorIsSettled
  <2>. QED
    BY <2>2, <2>3
<1>5. RecordsAreTrue'
  <2> SUFFICES ASSUME NEW q \in Runs, NEW t \in Steps
               PROVE  Truthful(q, t, results[q][t])'
    BY DEF RecordsAreTrue
  <2>1. \A st : Truthful(q, t, st) => /\ st = "succeeded" =>
                                           /\ t \in plan.dryRun \/ \E p \in Runs : outcome[<<p, t>>] = "ok"
                                           /\ Asked(q, t) => outcome[<<q, t>>] = "ok"
                                      /\ st \in {"blocked", "paused"} => ~Asked(q, t)
                                      /\ st = "timed_out" => outcome[<<q, t>>] \in {"refused", "unknown"}
                                      /\ st # "none" /\ t \in PriorSucceeded(q) => st = "succeeded"
    BY DEF Truthful
  <2>2. plan' = plan /\ outcome' = outcome /\ PriorSucceeded(q)' = PriorSucceeded(q)
    BY PushRecords, PriorIsSettled
  <2>3. Truthful(q, t, results'[q][t])
    <3>1. CASE q = r /\ t = s
      BY <3>1, PushRecords
    <3>2. CASE ~(q = r /\ t = s)
      BY <3>2, PushRecords DEF PlannerInv, RecordsAreTrue
    <3>. QED
      BY <3>1, <3>2
  <2>. QED
    BY <2>1, <2>2, <2>3 DEF Truthful, Asked
<1>6. FlagsAreTrue'
  <2> SUFFICES ASSUME NEW q \in Runs, q # r PROVE FlagsOf(q)'
    BY DEF FlagsAreTrue
  <2>1. /\ results'[q] = results[q] /\ given' = given /\ halted'[q] = halted[q]
        /\ paused'[q] = paused[q] /\ reachedCheckpoints'[q] = reachedCheckpoints[q]
    BY PushRecords DEF PlannerInv, PlannerTypeOK
  <2>. QED
    BY <2>1 DEF PlannerInv, FlagsAreTrue, FlagsOf, Failed
<1>7. CheckpointsAreEarned'
  <2> SUFFICES ASSUME NEW q \in Runs
               PROVE  reachedCheckpoints'[q] =
                        UNION {CheckpointOf(t)' : t \in SucceededIn(q)' \cup PriorSucceeded(q)'}
    BY DEF CheckpointsAreEarned
  <2>1. \A t : CheckpointOf(t)' = CheckpointOf(t)
    BY PushRecords DEF CheckpointOf
  <2>2. reachedCheckpoints[q] = UNION {CheckpointOf(t) : t \in SucceededIn(q) \cup PriorSucceeded(q)}
    BY DEF PlannerInv, CheckpointsAreEarned
  <2>3. CASE q # r
    BY <2>1, <2>2, <2>3, PriorIsSettled DEF PlannerInv, PlannerTypeOK
  <2>4. CASE q = r
    <3>1. SucceededIn(r)' = IF status = "succeeded" THEN SucceededIn(r) \cup {s} ELSE SucceededIn(r)
      BY PushRecords DEF SucceededIn
    <3>2. reachedCheckpoints'[r] = IF status = "succeeded" THEN reachedCheckpoints[r] \cup CheckpointOf(s)
                                                           ELSE reachedCheckpoints[r]
      BY DEF PlannerInv, PlannerTypeOK
    <3>. QED
      BY <2>1, <2>2, <2>4, <3>1, <3>2, PriorIsSettled
  <2>. QED
    BY <2>3, <2>4
<1>8. AnswersAreEarned'
  BY DEF PlannerInv, AnswersAreEarned
<1>. QED
  BY <1>1, <1>2, <1>3, <1>4, <1>5, <1>6, <1>7, <1>8 DEF PlannerInv

-----------------------------------------------------------------------------
(* The actions of the loop that record a status.                           *)

LEMMA SkipKeepsInv ==
  ASSUME PlannerInv, NEW r \in Runs, NEW s \in Steps, Skip(r, s)
  PROVE  PlannerInv'
<1>1. At(r, s) /\ Push(r, s, "succeeded") /\ ~Asked(r, s) /\ UNCHANGED <<halted, paused, outcome, effect>>
  BY DEF Skip, Arrives, Asked
<1>2. Records(r, s, "succeeded")
  BY <1>1 DEF Skip, Records, PlannerInv, PlannerTypeOK
<1>3. Truthful(r, s, "succeeded")
  <2>1. Prior(r) \in Runs /\ results[Prior(r)][s] = "succeeded"
    BY DEF Skip, PriorSucceeded, SucceededIn, PlannerInv, PlannerTypeOK, Prior
  <2>. QED
    BY <1>1, <2>1 DEF PlannerInv, RecordsAreTrue, Truthful
<1>4. FlagsOf(r)'
  <2>1. "succeeded" \in Statuses
    BY DEF Statuses
  <2>2. \A t \in Steps : Failed(r, t)' <=> Failed(r, t)
    BY <1>1, <2>1, PushRecords DEF Failed
  <2>3. reachedCheckpoints[r] \subseteq reachedCheckpoints'[r] /\ given' = given
    BY <1>2 DEF Records, Push, PlannerInv, PlannerTypeOK
  <2>4. \A t \in Steps : results'[r][t] \in {"paused", "blocked"} => results'[r][t] = results[r][t]
    BY <1>1, <2>1, PushRecords
  <2>. QED
    BY <1>1, <2>2, <2>3, <2>4 DEF PlannerInv, FlagsAreTrue, FlagsOf
<1>. QED
  BY <1>2, <1>3, <1>4, RecordingKeepsInv DEF Statuses

LEMMA MarkPausedKeepsInv ==
  ASSUME PlannerInv, NEW r \in Runs, NEW s \in Steps, MarkPaused(r, s)
  PROVE  PlannerInv'
<1>1. /\ At(r, s) /\ Push(r, s, "paused") /\ ~Asked(r, s) /\ paused[r] /\ s \notin PriorSucceeded(r)
      /\ UNCHANGED <<halted, paused, reachedCheckpoints, outcome, effect>>
  BY DEF MarkPaused, Arrives, Asked
<1>2. Records(r, s, "paused")
  BY <1>1 DEF Records, PlannerInv, PlannerTypeOK
<1>3. Truthful(r, s, "paused")
  BY <1>1 DEF Truthful
<1>4. FlagsOf(r)'
  <2>1. "paused" \in Statuses
    BY DEF Statuses
  <2>2. \A t \in Steps : Failed(r, t)' <=> Failed(r, t)
    BY <1>1, <2>1, PushRecords DEF Failed
  <2>3. \A t \in Steps : results'[r][t] = "blocked" => results'[r][t] = results[r][t]
    BY <1>1, <2>1, PushRecords
  <2>4. given' = given
    BY <1>1 DEF Push
  <2>. QED
    BY <1>1, <2>2, <2>3, <2>4 DEF PlannerInv, FlagsAreTrue, FlagsOf
<1>. QED
  BY <1>2, <1>3, <1>4, RecordingKeepsInv DEF Statuses

(* A dependency that did not succeed has failed, or is blocked itself and  *)
(* so has a cause; it is not paused, for the run is not.                   *)
LEMMA MarkBlockedKeepsInv ==
  ASSUME PlannerInv, NEW r \in Runs, NEW s \in Steps, MarkBlocked(r, s)
  PROVE  PlannerInv'
<1>1. /\ At(r, s) /\ Push(r, s, "blocked") /\ ~Asked(r, s) /\ ~paused[r] /\ s \notin PriorSucceeded(r)
      /\ ~depsOk(r, s) \/ halted[r]
      /\ UNCHANGED <<halted, paused, reachedCheckpoints, outcome, effect>>
  BY DEF MarkBlocked, Arrives, Asked
<1>2. Records(r, s, "blocked")
  BY <1>1 DEF Records, PlannerInv, PlannerTypeOK
<1>3. Truthful(r, s, "blocked")
  BY <1>1 DEF Truthful
<1>4. \E t \in Steps : Failed(r, t)
  <2>1. CASE halted[r]
    BY <2>1 DEF PlannerInv, FlagsAreTrue, FlagsOf
  <2>2. CASE ~depsOk(r, s)
    <3>1. PICK d \in DependsOn(s) : d \notin SucceededIn(r)
      BY <2>2 DEF depsOk
    <3>2. d \in Steps /\ results[r][d] # "none"
      BY <1>1, CurrentStep DEF Recorded
    <3>3. results[r][d] \in {"failed", "timed_out", "blocked", "paused"}
      BY <3>1, <3>2 DEF SucceededIn, PlannerInv, PlannerTypeOK, Statuses
    <3>. QED
      BY <1>1, <3>2, <3>3 DEF PlannerInv, FlagsAreTrue, FlagsOf, Failed
  <2>. QED
    BY <1>1, <2>1, <2>2
<1>5. FlagsOf(r)'
  <2>1. "blocked" \in Statuses
    BY DEF Statuses
  <2>2. \A t \in Steps : Failed(r, t)' <=> Failed(r, t)
    BY <1>1, <2>1, PushRecords DEF Failed
  <2>3. \A t \in Steps : results'[r][t] = "paused" => results'[r][t] = results[r][t]
    BY <1>1, <2>1, PushRecords
  <2>4. given' = given
    BY <1>1 DEF Push
  <2>. QED
    BY <1>1, <1>4, <2>2, <2>3, <2>4 DEF PlannerInv, FlagsAreTrue, FlagsOf
<1>. QED
  BY <1>2, <1>3, <1>5, RecordingKeepsInv DEF Statuses

(* Both flags are down when a result is recorded: a success may pause the  *)
(* run, a failure may halt it.                                             *)
LEMMA ConcludingKeepsInv ==
  ASSUME PlannerInv, NEW r \in Runs, NEW s \in Steps, At(r, s), ~halted[r], ~paused[r],
         s \notin PriorSucceeded(r), NEW status \in {"succeeded", "failed", "timed_out"},
         Conclude(r, s, status), Truthful(r, s, status), UNCHANGED <<outcome, effect>>
  PROVE  PlannerInv'
<1> DEFINE okay == status = "succeeded"
<1>0. status \in Statuses
  BY DEF Statuses
<1>1. /\ Push(r, s, status)
      /\ reachedCheckpoints' = IF okay THEN [reachedCheckpoints EXCEPT ![r] = @ \cup CheckpointOf(s)]
                                       ELSE reachedCheckpoints
      /\ paused' = [paused EXCEPT ![r] = @ \/ (okay /\ given[r].pauseAtCheckpoint \in CheckpointOf(s))]
      /\ halted' = [halted EXCEPT ![r] = @ \/ (~okay /\ given[r].stopOnFailure)]
  BY DEF Conclude
<1>2. /\ halted \in [Runs -> BOOLEAN] /\ paused \in [Runs -> BOOLEAN]
      /\ reachedCheckpoints \in [Runs -> SUBSET Checkpoints]
      /\ given[r].stopOnFailure \in BOOLEAN
  BY DEF PlannerInv, PlannerTypeOK
<1>3. /\ halted' \in [Runs -> BOOLEAN] /\ paused' \in [Runs -> BOOLEAN]
      /\ halted'[r] <=> (~okay /\ given[r].stopOnFailure)
      /\ paused'[r] <=> (okay /\ given[r].pauseAtCheckpoint \in CheckpointOf(s))
      /\ \A q \in Runs : q # r => halted'[q] = halted[q] /\ paused'[q] = paused[q]
  BY <1>1, <1>2, Zenon
<1>4. Records(r, s, status)
  BY <1>1, <1>2, <1>3 DEF Records
<1>5. FlagsOf(r)'
  <2>1. results'[r][s] = status /\ \A t \in Steps : t # s => results'[r][t] = results[r][t]
    BY <1>0, <1>1, PushRecords
  <2>2. given' = given
    BY <1>1 DEF Push
  <2>3. Failed(r, s)' <=> ~okay
    BY <2>1 DEF Failed
  <2>4. \A t \in Steps : t # s => (Failed(r, t)' <=> Failed(r, t))
    BY <2>1 DEF Failed
  <2>5. given[r].stopOnFailure => \A t \in Steps : ~Failed(r, t)
    BY DEF PlannerInv, FlagsAreTrue, FlagsOf
  <2>6. \A t \in Steps : results'[r][t] # "paused"
    BY <2>1 DEF PlannerInv, FlagsAreTrue, FlagsOf
  <2>7. \A t \in Steps : results'[r][t] = "blocked" => \E u \in Steps : u # s /\ Failed(r, u)
    <3> SUFFICES ASSUME NEW t \in Steps, results'[r][t] = "blocked"
                 PROVE  \E u \in Steps : u # s /\ Failed(r, u)
      OBVIOUS
    <3>1. results[r][t] = "blocked"
      BY <2>1
    <3>2. PICK u \in Steps : Failed(r, u)
      BY <3>1 DEF PlannerInv, FlagsAreTrue, FlagsOf
    <3>3. u # s
      BY <3>2, <1>0, <1>1, PushRecords DEF Failed
    <3>. QED
      BY <3>2, <3>3
  <2>8. okay => CheckpointOf(s) \subseteq reachedCheckpoints'[r]
    BY <1>1, <1>2
  <2>9. /\ halted'[r] => \E t \in Steps : Failed(r, t)'
        /\ given'[r].stopOnFailure /\ (\E t \in Steps : Failed(r, t)') => halted'[r]
    BY <1>3, <2>2, <2>3, <2>4, <2>5
  <2>10. /\ paused'[r] => given'[r].pauseAtCheckpoint \in reachedCheckpoints'[r]
         /\ ~(halted'[r] /\ paused'[r])
    BY <1>3, <2>2, <2>8
  <2>. QED
    BY <2>4, <2>6, <2>7, <2>9, <2>10 DEF FlagsOf
<1>. QED
  BY <1>0, <1>4, <1>5, RecordingKeepsInv

LEMMA SettleKeepsInv ==
  ASSUME PlannerInv, NEW r \in Runs, NEW s \in Steps, Settle(r, s)
  PROVE  PlannerInv'
<1>1. PICK status \in StatusesOf(outcome[<<r, s>>]) : Conclude(r, s, status)
  BY DEF Settle
<1>2. /\ At(r, s) /\ Asked(r, s) /\ UNCHANGED <<outcome, effect>>
      /\ outcome[<<r, s>>] \in {"ok", "refused", "unknown"}
  BY DEF Settle, Awaits, Asked
<1>3. ~halted[r] /\ ~paused[r] /\ s \notin PriorSucceeded(r)
  BY <1>2, CurrentStep DEF PlannerInv, SentInTurn
<1>4. status \in {"succeeded", "failed", "timed_out"} /\ Truthful(r, s, status)
  BY <1>1, <1>2, <1>3 DEF StatusesOf, Truthful
<1>. QED
  BY <1>1, <1>2, <1>3, <1>4, ConcludingKeepsInv

LEMMA DryRunKeepsInv ==
  ASSUME PlannerInv, NEW r \in Runs, NEW s \in Steps, DryRun(r, s)
  PROVE  PlannerInv'
<1>1. /\ At(r, s) /\ ~Asked(r, s) /\ s \in plan.dryRun /\ UNCHANGED <<outcome, effect>>
      /\ ~halted[r] /\ ~paused[r] /\ s \notin PriorSucceeded(r)
      /\ Conclude(r, s, "succeeded")
  BY DEF DryRun, Executes, Arrives, Asked
<1>2. Truthful(r, s, "succeeded")
  BY <1>1 DEF Truthful
<1>. QED
  BY <1>1, <1>2, ConcludingKeepsInv

-----------------------------------------------------------------------------
(* The actions that record nothing.                                        *)

Unrecorded == UNCHANGED <<plan, given, todo, results, halted, paused, reachedCheckpoints>>

LEMMA UnrecordedFrame ==
  ASSUME Unrecorded
  PROVE  \A r \in Runs :
           /\ Prior(r)' = Prior(r) /\ SucceededIn(r)' = SucceededIn(r)
           /\ PriorSucceeded(r)' = PriorSucceeded(r) /\ Recorded(r)' = Recorded(r)
           /\ FlagsOf(r)' = FlagsOf(r) /\ RestOf(r)' = RestOf(r)
           /\ \A s \in Steps : Current(r, s)' = Current(r, s) /\ DependsOn(s)' = DependsOn(s)
<1>1. \A r \in Runs : Prior(r)' = Prior(r) /\ SucceededIn(r)' = SucceededIn(r)
  BY DEF Unrecorded, Prior, SucceededIn
<1>2. \A r \in Runs : PriorSucceeded(r)' = PriorSucceeded(r)
  BY DEF Unrecorded, PriorSucceeded, Prior, SucceededIn
<1>3. \A r \in Runs : Recorded(r)' = Recorded(r) /\ FlagsOf(r)' = FlagsOf(r)
  BY DEF Unrecorded, Recorded, FlagsOf, Failed
<1>4. \A r \in Runs, s \in Steps : Current(r, s)' = Current(r, s) /\ DependsOn(s)' = DependsOn(s)
  BY DEF Unrecorded, Current, DependsOn
<1>5. \A r \in Runs : RestOf(r)' = RestOf(r)
  BY DEF Unrecorded, RestOf, Recorded, DependsOn
<1>. QED
  BY <1>1, <1>2, <1>3, <1>4, <1>5

(* A run leaves the loop: it returns, is thrown out of, or is lost.        *)
LEMMA LeavingKeepsInv ==
  ASSUME PlannerInv, Unrecorded, UNCHANGED <<outcome, effect>>,
         stage' \in [Runs -> {"idle", "running", "returned", "refused", "threw", "lost"}],
         \A r \in Runs : \/ stage'[r] = stage[r]
                          \/ /\ stage[r] = "running"
                             /\ stage'[r] \in {"returned", "threw", "lost"}
                             /\ stage'[r] = "returned" => todo[r] = <<>>
  PROVE  PlannerInv'
<1>1. \A r \in Runs : Started(r)' <=> Started(r)
  BY DEF Started
<1>2. PlannerTypeOK'
  <2>1. \A r \in Runs : Prior(r)' # NoRun => Prior(r)' # r /\ stage'[Prior(r)'] = "returned"
    <3>1. \A r \in Runs : Prior(r) # NoRun => Prior(r) \in Runs /\ Prior(r) # r /\ stage[Prior(r)] = "returned"
      BY DEF PlannerInv, PlannerTypeOK, Prior
    <3>. QED
      BY <3>1, UnrecordedFrame
  <2>. QED
    BY <2>1 DEF PlannerInv, PlannerTypeOK, Unrecorded
<1>3. FreshRuns'
  BY <1>1, UnrecordedFrame DEF PlannerInv, FreshRuns, Unrecorded, Asked
<1>4. RestInOrder'
  BY <1>1, UnrecordedFrame DEF PlannerInv, RestInOrder, Unrecorded
<1>5. SentInTurn'
  BY UnrecordedFrame DEF PlannerInv, SentInTurn, Unrecorded, Asked
<1>6. RecordsAreTrue'
  <2> SUFFICES ASSUME NEW r \in Runs, NEW s \in Steps
               PROVE  Truthful(r, s, results[r][s])'
    BY DEF RecordsAreTrue
  <2>1. Truthful(r, s, results[r][s])
    BY DEF PlannerInv, RecordsAreTrue
  <2>2. plan' = plan /\ results' = results /\ PriorSucceeded(r)' = PriorSucceeded(r)
    BY UnrecordedFrame DEF Unrecorded
  <2>. QED
    BY <2>1, <2>2 DEF Truthful, Asked
<1>7. FlagsAreTrue'
  BY UnrecordedFrame DEF PlannerInv, FlagsAreTrue
<1>8. CheckpointsAreEarned'
  BY UnrecordedFrame DEF PlannerInv, CheckpointsAreEarned, Unrecorded, CheckpointOf
<1>9. AnswersAreEarned'
  BY DEF PlannerInv, AnswersAreEarned
<1>. QED
  BY <1>2, <1>3, <1>4, <1>5, <1>6, <1>7, <1>8, <1>9 DEF PlannerInv

(* A call is made, carried out or answered.  An answer once given stays.   *)
Settled(o) == o \in {"ok", "refused", "unknown"}

LEMMA CallsKeepInv ==
  ASSUME PlannerInv, UNCHANGED plannerVars,
         outcome' \in [Runs \X Steps -> Outcomes],
         effect' \in [Runs \X Steps -> {"no", "running", "done", "killed"}],
         AnswersAreEarned',
         \A c \in Runs \X Steps : Settled(outcome[c]) => outcome'[c] = outcome[c],
         \A r \in Runs, s \in Steps : Asked(r, s)' => Asked(r, s) \/ Executes(r, s)
  PROVE  PlannerInv'
<1>1. Unrecorded /\ stage' = stage
  BY DEF plannerVars, Unrecorded
<1>2. PlannerTypeOK'
  BY <1>1, UnrecordedFrame DEF PlannerInv, PlannerTypeOK, Unrecorded
<1>3. \A r \in Runs : Started(r)' <=> Started(r)
  BY <1>1 DEF Started
<1>4. \A r \in Runs, s \in Steps : Executes(r, s) =>
        /\ Started(r) /\ Current(r, s) /\ ~halted[r] /\ ~paused[r] /\ s \notin PriorSucceeded(r)
        /\ DependsOn(s) \subseteq SucceededIn(r) /\ s \notin Recorded(r) /\ ~Asked(r, s)
  BY CurrentStep DEF Executes, Arrives, depsOk, Asked
<1>5. FreshRuns'
  BY <1>1, <1>3, <1>4, UnrecordedFrame DEF PlannerInv, FreshRuns, Unrecorded
<1>6. RestInOrder'
  BY <1>1, <1>3, UnrecordedFrame DEF PlannerInv, RestInOrder, Unrecorded
<1>7. SentInTurn'
  <2> SUFFICES ASSUME NEW r \in Runs, NEW s \in Steps, Asked(r, s)'
               PROVE  /\ DependsOn(s)' \subseteq SucceededIn(r)'
                      /\ s \notin Recorded(r)' =>
                           /\ Current(r, s)' /\ ~halted'[r] /\ ~paused'[r]
                           /\ s \notin PriorSucceeded(r)'
    BY DEF SentInTurn
  <2>1. /\ DependsOn(s) \subseteq SucceededIn(r)
        /\ s \notin Recorded(r) =>
             Current(r, s) /\ ~halted[r] /\ ~paused[r] /\ s \notin PriorSucceeded(r)
    BY <1>4 DEF PlannerInv, SentInTurn
  <2>. QED
    BY <1>1, <2>1, UnrecordedFrame DEF Unrecorded
<1>8. RecordsAreTrue'
  <2> SUFFICES ASSUME NEW r \in Runs, NEW s \in Steps
               PROVE  Truthful(r, s, results[r][s])'
    BY DEF RecordsAreTrue
  <2>1. Truthful(r, s, results[r][s])
    BY DEF PlannerInv, RecordsAreTrue
  <2>2. plan' = plan /\ results' = results /\ PriorSucceeded(r)' = PriorSucceeded(r)
    BY <1>1, UnrecordedFrame DEF Unrecorded
  <2>3. Asked(r, s)' => Asked(r, s) \/ results[r][s] = "none"
    BY <1>4 DEF Recorded
  <2>4. \A q \in Runs : /\ outcome[<<q, s>>] = "ok" => outcome'[<<q, s>>] = "ok"
                        /\ outcome[<<q, s>>] \in {"refused", "unknown"} =>
                             outcome'[<<q, s>>] = outcome[<<q, s>>]
    BY DEF Settled
  <2>. QED
    BY <2>1, <2>2, <2>3, <2>4 DEF Truthful
<1>9. FlagsAreTrue'
  BY <1>1, UnrecordedFrame DEF PlannerInv, FlagsAreTrue
<1>10. CheckpointsAreEarned'
  BY <1>1, UnrecordedFrame DEF PlannerInv, CheckpointsAreEarned, Unrecorded, CheckpointOf
<1>. QED
  BY <1>2, <1>5, <1>6, <1>7, <1>8, <1>9, <1>10 DEF PlannerInv

LEMMA SendKeepsInv ==
  ASSUME PlannerInv, NEW r \in Runs, NEW s \in Steps, Send(r, s)
  PROVE  PlannerInv'
<1>1. /\ Executes(r, s) /\ UNCHANGED plannerVars /\ outcome[<<r, s>>] = "unasked"
      /\ outcome' = [outcome EXCEPT ![<<r, s>>] = "waiting"] /\ effect' = effect
  BY DEF Send, Remote!Ask
<1>2. outcome' \in [Runs \X Steps -> Outcomes]
  BY <1>1 DEF PlannerInv, PlannerTypeOK, Outcomes
<1>3. AnswersAreEarned'
  BY <1>1 DEF PlannerInv, PlannerTypeOK, AnswersAreEarned
<1>4. \A c \in Runs \X Steps : Settled(outcome[c]) => outcome'[c] = outcome[c]
  BY <1>1 DEF PlannerInv, PlannerTypeOK, Settled
<1>5. \A q \in Runs, t \in Steps : Asked(q, t)' => Asked(q, t) \/ Executes(q, t)
  BY <1>1 DEF PlannerInv, PlannerTypeOK, Asked
<1>. QED
  BY <1>1, <1>2, <1>3, <1>4, <1>5, CallsKeepInv DEF PlannerInv, PlannerTypeOK

LEMMA AnsweredKeepsInv ==
  ASSUME PlannerInv, NEW r \in Runs, NEW s \in Steps, Answered(r, s)
  PROVE  PlannerInv'
<1>1. PICK o \in {"ok", "refused", "unknown"} :
        /\ outcome' = [outcome EXCEPT ![<<r, s>>] = o]
        /\ o = "ok" => effect[<<r, s>>] = "done"
        /\ o = "refused" => effect[<<r, s>>] = "no"
  BY DEF Answered, Remote!Answer, Remote!Refuse, Remote!GiveUp
<1>2. UNCHANGED plannerVars /\ effect' = effect /\ outcome[<<r, s>>] = "waiting"
  BY DEF Answered, Remote!Answer, Remote!Refuse, Remote!GiveUp
<1>3. outcome' \in [Runs \X Steps -> Outcomes]
  BY <1>1 DEF PlannerInv, PlannerTypeOK, Outcomes
<1>4. AnswersAreEarned'
  BY <1>1, <1>2 DEF PlannerInv, PlannerTypeOK, AnswersAreEarned
<1>5. \A c \in Runs \X Steps : Settled(outcome[c]) => outcome'[c] = outcome[c]
  BY <1>1, <1>2 DEF PlannerInv, PlannerTypeOK, Settled
<1>6. \A q \in Runs, t \in Steps : Asked(q, t)' => Asked(q, t) \/ Executes(q, t)
  BY <1>1, <1>2 DEF PlannerInv, PlannerTypeOK, Asked
<1>. QED
  BY <1>2, <1>3, <1>4, <1>5, <1>6, CallsKeepInv DEF PlannerInv, PlannerTypeOK

LEMMA FigmaKeepsInv ==
  ASSUME PlannerInv, Figma
  PROVE  PlannerInv'
<1>1. UNCHANGED plannerVars /\ outcome' = outcome
  BY DEF Figma, Remote!Cut, Remote!Begin, Remote!End
<1>2. /\ effect' \in [Runs \X Steps -> {"no", "running", "done", "killed"}]
      /\ \A c \in Runs \X Steps : effect'[c] # effect[c] =>
           outcome[c] \in {"waiting", "unknown"} \/ effect[c] = "running"
  <2>1. CASE Remote!Cut
    BY <2>1 DEF Remote!Cut, PlannerInv, PlannerTypeOK
  <2>2. CASE \E c \in Runs \X Steps : Remote!Begin(c) \/ Remote!End(c)
    BY <2>2 DEF Remote!Begin, Remote!End, PlannerInv, PlannerTypeOK
  <2>. QED
    BY <2>1, <2>2 DEF Figma
<1>3. AnswersAreEarned'
  BY <1>1, <1>2 DEF PlannerInv, AnswersAreEarned
<1>4. \A q \in Runs, t \in Steps : Asked(q, t)' => Asked(q, t)
  BY <1>1 DEF Asked
<1>. QED
  BY <1>1, <1>2, <1>3, <1>4, CallsKeepInv DEF PlannerInv, PlannerTypeOK

LEMMA ThrowsKeepsInv ==
  ASSUME PlannerInv, NEW r \in Runs, NEW s \in Steps, Throws(r, s)
  PROVE  PlannerInv'
<1>1. stage[r] = "running" /\ stage' = [stage EXCEPT ![r] = "threw"]
      /\ Unrecorded /\ UNCHANGED <<outcome, effect>>
  BY DEF Throws, Executes, Arrives, At, Unrecorded
<1>. QED
  BY <1>1, LeavingKeepsInv DEF PlannerInv, PlannerTypeOK

LEMMA ReturnKeepsInv ==
  ASSUME PlannerInv, NEW r \in Runs, Return(r)
  PROVE  PlannerInv'
<1>1. stage[r] = "running" /\ todo[r] = <<>> /\ stage' = [stage EXCEPT ![r] = "returned"]
      /\ Unrecorded /\ UNCHANGED <<outcome, effect>>
  BY DEF Return, Unrecorded
<1>. QED
  BY <1>1, LeavingKeepsInv DEF PlannerInv, PlannerTypeOK

LEMMA RestartKeepsInv ==
  ASSUME PlannerInv, Restart
  PROVE  PlannerInv'
<1>1. stage' = [r \in Runs |-> IF stage[r] = "running" THEN "lost" ELSE stage[r]]
      /\ Unrecorded /\ UNCHANGED <<outcome, effect>>
  BY DEF Restart, Unrecorded
<1>. QED
  BY <1>1, LeavingKeepsInv DEF PlannerInv, PlannerTypeOK

-----------------------------------------------------------------------------
(* A run starts with a running order and with nothing recorded.            *)

LEMMA AReturnedRunCarriesAll ==
  ASSUME PlannerInv, NEW q \in Runs, stage[q] = "returned"
  PROVE  Recorded(q) = Steps /\ PriorSucceeded(q) \subseteq SucceededIn(q)
<1>1. todo[q] = <<>> /\ RestOf(q)
  BY DEF PlannerInv, RestInOrder, Started
<1>2. ToSet(todo[q]) = {}
  BY <1>1 DEF ToSet
<1>3. Recorded(q) = Steps
  BY <1>1, <1>2 DEF RestOf, Recorded
<1>4. PriorSucceeded(q) \subseteq Steps
  BY DEF PriorSucceeded, SucceededIn
<1>. QED
  BY <1>3, <1>4 DEF PlannerInv, RecordsAreTrue, Truthful, Recorded, SucceededIn

LEMMA CallKeepsInv ==
  ASSUME OrdersAreSound, PlannerInv, NEW r \in Runs, NEW q \in Runs \cup {NoRun},
         NEW stop \in BOOLEAN, NEW cp \in Checkpoints \cup {NoCheckpoint}, Call(r, q, stop, cp)
  PROVE  PlannerInv'
<1>1. /\ stage[r] = "idle" /\ ~Started(r)
      /\ q # NoRun => stage[q] = "returned" /\ q \in Runs /\ q # r
      /\ UNCHANGED <<plan, results, halted, paused, outcome, effect>>
  BY DEF Call, Started
<1>2. CASE ~preflightOk(plan)
  <2>1. stage' = [stage EXCEPT ![r] = "refused"] /\ Unrecorded
    BY <1>2 DEF Call, Unrecorded
  <2>2. \A p \in Runs : Started(p)' <=> Started(p)
    BY <1>1, <2>1 DEF Started, PlannerInv, PlannerTypeOK
  <2>3. PlannerTypeOK'
    <3>1. \A p \in Runs : Prior(p) # NoRun => Prior(p) \in Runs /\ Prior(p) # p /\ stage[Prior(p)] = "returned"
      BY DEF PlannerInv, PlannerTypeOK, Prior
    <3>2. \A p \in Runs : Prior(p)' # NoRun => Prior(p)' # p /\ stage'[Prior(p)'] = "returned"
      BY <1>1, <2>1, <3>1, UnrecordedFrame DEF PlannerInv, PlannerTypeOK
    <3>. QED
      BY <1>1, <2>1, <3>2 DEF PlannerInv, PlannerTypeOK, Unrecorded
  <2>4. FreshRuns'
    BY <1>1, <2>1, <2>2, UnrecordedFrame DEF PlannerInv, FreshRuns, Unrecorded, Asked
  <2>5. RestInOrder'
    BY <1>1, <2>1, <2>2, UnrecordedFrame DEF PlannerInv, PlannerTypeOK, RestInOrder, Unrecorded
  <2>6. SentInTurn'
    BY <1>1, <2>1, UnrecordedFrame DEF PlannerInv, SentInTurn, Unrecorded, Asked
  <2>7. RecordsAreTrue'
    <3> SUFFICES ASSUME NEW p \in Runs, NEW s \in Steps
                 PROVE  Truthful(p, s, results[p][s])'
      BY DEF RecordsAreTrue
    <3>1. Truthful(p, s, results[p][s])
      BY DEF PlannerInv, RecordsAreTrue
    <3>2. plan' = plan /\ results' = results /\ PriorSucceeded(p)' = PriorSucceeded(p)
      BY <2>1, UnrecordedFrame DEF Unrecorded
    <3>. QED
      BY <1>1, <3>1, <3>2 DEF Truthful, Asked
  <2>8. FlagsAreTrue'
    BY <2>1, UnrecordedFrame DEF PlannerInv, FlagsAreTrue
  <2>9. CheckpointsAreEarned'
    BY <2>1, UnrecordedFrame DEF PlannerInv, CheckpointsAreEarned, Unrecorded, CheckpointOf
  <2>10. AnswersAreEarned'
    BY <1>1 DEF PlannerInv, AnswersAreEarned
  <2>. QED
    BY <2>3, <2>4, <2>5, <2>6, <2>7, <2>8, <2>9, <2>10 DEF PlannerInv
<1>3. CASE preflightOk(plan)
  <2> DEFINE order == topologicalOrder(plan)
             args == [previousRun |-> q, stopOnFailure |-> stop, pauseAtCheckpoint |-> cp]
             before == IF q = NoRun THEN {} ELSE reachedCheckpoints[q]
  <2>1. /\ stage' = [stage EXCEPT ![r] = "running"]
        /\ given' = [given EXCEPT ![r] = args]
        /\ todo' = [todo EXCEPT ![r] = order]
        /\ reachedCheckpoints' = [reachedCheckpoints EXCEPT ![r] = before]
    BY <1>3 DEF Call
  <2>2. IsRunningOrder(order, plan) /\ Ids(plan) = Steps /\ order \in Seq(Steps)
    BY <1>3, PlanAssumption DEF OrdersAreSound, PlannerInv, PlannerTypeOK, IsRunningOrder, Ids
  <2> HIDE DEF order
  <2>3. /\ \A s \in Steps : results[r][s] = "none" /\ ~Asked(r, s)
        /\ ~halted[r] /\ ~paused[r]
    BY <1>1 DEF PlannerInv, FreshRuns
  <2>4. \A p \in Runs : p # r => /\ stage'[p] = stage[p] /\ given'[p] = given[p]
                                 /\ todo'[p] = todo[p]
                                 /\ reachedCheckpoints'[p] = reachedCheckpoints[p]
    BY <2>1 DEF PlannerInv, PlannerTypeOK
  <2>5. /\ stage'[r] = "running" /\ given'[r] = args /\ todo'[r] = order
        /\ reachedCheckpoints'[r] = before
    BY <2>1 DEF PlannerInv, PlannerTypeOK
  <2>6. Prior(r)' = q /\ \A p \in Runs : p # r => Prior(p)' = Prior(p)
    BY <2>4, <2>5 DEF Prior
  <2>7. \A p \in Runs : SucceededIn(p)' = SucceededIn(p) /\ Recorded(p)' = Recorded(p)
    BY <1>1 DEF SucceededIn, Recorded
  <2>8. \A p \in Runs : p # r => PriorSucceeded(p)' = PriorSucceeded(p)
    BY <2>6, <2>7 DEF PriorSucceeded, PlannerInv, PlannerTypeOK, Prior
  <2>9. PriorSucceeded(r)' = IF q = NoRun THEN {} ELSE SucceededIn(q)
    BY <1>1, <2>6, <2>7 DEF PriorSucceeded
  <2>10. PlannerTypeOK'
    <3>1. before \subseteq Checkpoints
      BY <1>1 DEF PlannerInv, PlannerTypeOK
    <3>2. \A p \in Runs : Prior(p) # NoRun => Prior(p) \in Runs /\ Prior(p) # p /\ stage[Prior(p)] = "returned"
      BY DEF PlannerInv, PlannerTypeOK, Prior
    <3>3. \A p \in Runs : Prior(p)' # NoRun => Prior(p)' # p /\ stage'[Prior(p)'] = "returned"
      BY <1>1, <2>4, <2>6, <3>2
    <3>4. /\ stage' \in [Runs -> {"idle", "running", "returned", "refused", "threw", "lost"}]
          /\ todo' \in [Runs -> Seq(Steps)]
          /\ reachedCheckpoints' \in [Runs -> SUBSET Checkpoints]
      BY <2>1, <2>2, <3>1 DEF PlannerInv, PlannerTypeOK
    <3>5. given' \in [Runs -> [previousRun : Runs \cup {NoRun}, stopOnFailure : BOOLEAN,
                               pauseAtCheckpoint : Checkpoints \cup {NoCheckpoint}]]
      BY <2>1 DEF PlannerInv, PlannerTypeOK
    <3>. QED
      BY <1>1, <3>3, <3>4, <3>5 DEF PlannerInv, PlannerTypeOK
  <2>11. FreshRuns'
    <3> SUFFICES ASSUME NEW p \in Runs, ~Started(p)'
                 PROVE  /\ Prior(p)' = NoRun /\ todo'[p] = <<>>
                        /\ ~halted'[p] /\ ~paused'[p] /\ reachedCheckpoints'[p] = {}
                        /\ \A s \in Steps : results'[p][s] = "none" /\ ~Asked(p, s)'
      BY DEF FreshRuns
    <3>1. p # r /\ ~Started(p)
      BY <2>4, <2>5 DEF Started
    <3>. QED
      BY <1>1, <2>4, <2>6, <3>1 DEF PlannerInv, FreshRuns, Asked
  <2>12. RestInOrder'
    <3>1. RestOf(r)'
      <4>1. DOMAIN order = 1..Len(order)
        BY <2>2
      <4>2. ToSet(order) = Steps
        BY <2>2, <4>1 DEF IsRunningOrder, ToSet
      <4>3. Recorded(r)' = {}
        BY <2>3, <2>7 DEF Recorded
      <4>4. \A d : DependsOn(d)' = ToSet(plan.dependsOn[d])
        BY <1>1 DEF DependsOn
      <4>5. /\ \A i, j \in 1..Len(order) : order[i] = order[j] => i = j
            /\ \A j \in 1..Len(order) : \A d \in ToSet(plan.dependsOn[order[j]]) :
                 \E i \in 1..(j - 1) : order[i] = d
        BY <2>2 DEF IsRunningOrder
      <4>6. \A s \in Steps : s \in Recorded(r)' <=> s \notin ToSet(todo[r])'
        BY <2>5, <4>2, <4>3
      <4>7. \A j \in 1..Len(todo'[r]) : \A d \in DependsOn(todo[r][j])' :
              d \in Recorded(r)' \/ \E i \in 1..(j - 1) : todo'[r][i] = d
        <5>1. \A j \in 1..Len(order) : DependsOn(todo[r][j])' = ToSet(plan.dependsOn[order[j]])
          BY <1>1, <2>5 DEF DependsOn
        <5>. QED
          BY <2>5, <4>5, <5>1
      <4>8. \A i, j \in 1..Len(todo'[r]) : todo'[r][i] = todo'[r][j] => i = j
        BY <2>5, <4>5
      <4>. QED
        BY <4>3, <4>6, <4>7, <4>8 DEF RestOf
    <3>2. ASSUME NEW p \in Runs, p # r
          PROVE  RestOf(p)' <=> RestOf(p)
      BY <1>1, <2>4, <2>7, <3>2 DEF RestOf, DependsOn
    <3>. QED
      BY <2>4, <2>5, <3>1, <3>2 DEF PlannerInv, RestInOrder, Started
  <2>13. SentInTurn'
    <3> SUFFICES ASSUME NEW p \in Runs, NEW s \in Steps, Asked(p, s)'
                 PROVE  /\ DependsOn(s)' \subseteq SucceededIn(p)'
                        /\ s \notin Recorded(p)' =>
                             /\ Current(p, s)' /\ ~halted'[p] /\ ~paused'[p]
                             /\ s \notin PriorSucceeded(p)'
      BY DEF SentInTurn
    <3>1. p # r /\ Asked(p, s)
      BY <1>1, <2>3 DEF Asked
    <3>2. Current(p, s)' = Current(p, s) /\ DependsOn(s)' = DependsOn(s)
      BY <1>1, <2>4, <3>1 DEF Current, DependsOn
    <3>. QED
      BY <1>1, <2>7, <2>8, <3>1, <3>2 DEF PlannerInv, SentInTurn
  <2>14. RecordsAreTrue'
    <3> SUFFICES ASSUME NEW p \in Runs, NEW s \in Steps
                 PROVE  Truthful(p, s, results[p][s])'
      BY DEF RecordsAreTrue
    <3>1. Truthful(p, s, results[p][s])
      BY DEF PlannerInv, RecordsAreTrue
    <3>2. CASE p = r
      BY <1>1, <2>3, <3>2 DEF Truthful
    <3>3. CASE p # r
      BY <1>1, <2>8, <3>1, <3>3 DEF Truthful, Asked
    <3>. QED
      BY <3>2, <3>3
  <2>15. FlagsAreTrue'
    <3> SUFFICES ASSUME NEW p \in Runs PROVE FlagsOf(p)'
      BY DEF FlagsAreTrue
    <3>1. CASE p = r
      BY <1>1, <2>3, <3>1 DEF FlagsOf, Failed
    <3>2. CASE p # r
      BY <1>1, <2>4, <3>2 DEF PlannerInv, FlagsAreTrue, FlagsOf, Failed
    <3>. QED
      BY <3>1, <3>2
  <2>16. CheckpointsAreEarned'
    <3> SUFFICES ASSUME NEW p \in Runs
                 PROVE  reachedCheckpoints'[p] =
                          UNION {CheckpointOf(s)' : s \in SucceededIn(p)' \cup PriorSucceeded(p)'}
      BY DEF CheckpointsAreEarned
    <3>1. \A s : CheckpointOf(s)' = CheckpointOf(s)
      BY <1>1 DEF CheckpointOf
    <3>2. CASE p # r
      BY <2>4, <2>7, <2>8, <3>1, <3>2 DEF PlannerInv, CheckpointsAreEarned
    <3>3. CASE p = r
      <4>1. SucceededIn(r)' = {}
        BY <2>3, <2>7 DEF SucceededIn
      <4>2. q # NoRun => reachedCheckpoints[q] = UNION {CheckpointOf(s) : s \in SucceededIn(q)}
        <5>1. q # NoRun => SucceededIn(q) \cup PriorSucceeded(q) = SucceededIn(q)
          BY <1>1, AReturnedRunCarriesAll
        <5>. QED
          BY <1>1, <5>1 DEF PlannerInv, CheckpointsAreEarned
      <4>. QED
        BY <2>5, <2>9, <3>1, <3>3, <4>1, <4>2
    <3>. QED
      BY <3>2, <3>3
  <2>17. AnswersAreEarned'
    BY <1>1 DEF PlannerInv, AnswersAreEarned
  <2>. QED
    BY <2>10, <2>11, <2>12, <2>13, <2>14, <2>15, <2>16, <2>17 DEF PlannerInv
<1>. QED
  BY <1>2, <1>3

-----------------------------------------------------------------------------
(***************************************************************************)
(* Theorems.                                                               *)
(***************************************************************************)

LEMMA PlansHaveShape ==
  ASSUME NEW p \in Plans
  PROVE  PlanShape(p) /\ Ids(p) = Steps
BY PlanAssumption DEF PlanShape, Ids

LEMMA PlansAreOrdered == OrdersAreSound
BY PlansHaveShape, PreflightExact, OrderOfAcyclicPlan DEF OrdersAreSound

LEMMA StepKeepsInv == PlannerInv /\ [Next]_vars => PlannerInv'
<1> SUFFICES ASSUME PlannerInv, [Next]_vars PROVE PlannerInv'
  OBVIOUS
<1>0. OrdersAreSound /\ PlannerInv
  BY PlansAreOrdered
<1>1. ASSUME NEW r \in Runs, NEW q \in Runs \cup {NoRun}, NEW stop \in BOOLEAN,
             NEW cp \in Checkpoints \cup {NoCheckpoint}, Call(r, q, stop, cp)
      PROVE  PlannerInv'
  BY <1>0, <1>1, CallKeepsInv
<1>2. ASSUME NEW r \in Runs, Loop(r) PROVE PlannerInv'
  <2>1. ASSUME NEW s \in Steps, Skip(r, s) PROVE PlannerInv'
    BY <1>0, <2>1, SkipKeepsInv
  <2>2. ASSUME NEW s \in Steps, MarkPaused(r, s) PROVE PlannerInv'
    BY <1>0, <2>2, MarkPausedKeepsInv
  <2>3. ASSUME NEW s \in Steps, MarkBlocked(r, s) PROVE PlannerInv'
    BY <1>0, <2>3, MarkBlockedKeepsInv
  <2>4. ASSUME NEW s \in Steps, Send(r, s) PROVE PlannerInv'
    BY <1>0, <2>4, SendKeepsInv
  <2>5. ASSUME NEW s \in Steps, Settle(r, s) PROVE PlannerInv'
    BY <1>0, <2>5, SettleKeepsInv
  <2>6. ASSUME NEW s \in Steps, DryRun(r, s) PROVE PlannerInv'
    BY <1>0, <2>6, DryRunKeepsInv
  <2>7. ASSUME NEW s \in Steps, Throws(r, s) PROVE PlannerInv'
    BY <1>0, <2>7, ThrowsKeepsInv
  <2>8. CASE Return(r)
    BY <1>0, <2>8, ReturnKeepsInv
  <2>. QED
    BY <1>2, <2>1, <2>2, <2>3, <2>4, <2>5, <2>6, <2>7, <2>8 DEF Loop
<1>3. ASSUME NEW r \in Runs, NEW s \in Steps, Answered(r, s) PROVE PlannerInv'
  BY <1>0, <1>3, AnsweredKeepsInv
<1>4. CASE Figma
  BY <1>0, <1>4, FigmaKeepsInv
<1>5. CASE Restart
  BY <1>0, <1>5, RestartKeepsInv
<1>6. CASE UNCHANGED vars
  <2>1. /\ Unrecorded /\ UNCHANGED <<outcome, effect>> /\ UNCHANGED plannerVars
    BY <1>6 DEF vars, plannerVars, Unrecorded
  <2>2. AnswersAreEarned' /\ \A r \in Runs, s \in Steps : Asked(r, s)' => Asked(r, s)
    BY <1>0, <2>1 DEF PlannerInv, AnswersAreEarned, Asked
  <2>. QED
    BY <1>0, <2>1, <2>2, CallsKeepInv DEF PlannerInv, PlannerTypeOK
<1>. QED
  BY <1>1, <1>2, <1>3, <1>4, <1>5, <1>6 DEF Next

(* executePlan() keeps its invariant: types, order, records and flags.     *)
THEOREM PlannerCorrect == Spec => [](PlannerTypeOK /\ PlannerInv)
<1>1. PlannerInv => PlannerTypeOK
  BY DEF PlannerInv
<1>. QED
  BY <1>1, InitIsFresh, StepKeepsInv, PTL DEF Spec

(* topologicalOrder() of a plan that passed preflight is a running order.  *)
THEOREM OrdersRun == Spec => []OrderIsSound
<1>1. PlannerInv => OrderIsSound
  BY PlansAreOrdered DEF PlannerInv, PlannerTypeOK, OrderIsSound, OrdersAreSound
<1>. QED
  BY <1>1, PlannerCorrect, PTL

(* A plan is refused just when it fails preflight, whoever submits it.     *)
Verdict ==
  /\ preflightOk(plan) => \A r \in Runs : stage[r] # "refused"
  /\ ~preflightOk(plan) => \A r \in Runs : stage[r] \in {"idle", "refused"}

LEMMA StepKeepsVerdict ==
  ASSUME PlannerInv, Verdict, [Next]_vars
  PROVE  Verdict'
<1>0. stage \in [Runs -> {"idle", "running", "returned", "refused", "threw", "lost"}]
  BY DEF PlannerInv, PlannerTypeOK
<1> SUFFICES
      /\ preflightOk(plan)' = preflightOk(plan)
      /\ \A r \in Runs :
           \/ stage'[r] = stage[r]
           \/ preflightOk(plan) /\ stage'[r] = "running"
           \/ ~preflightOk(plan) /\ stage'[r] = "refused"
           \/ stage[r] = "running" /\ stage'[r] # "refused"
  BY DEF Verdict
<1>1. ASSUME NEW r \in Runs, NEW q \in Runs \cup {NoRun}, NEW stop \in BOOLEAN,
             NEW cp \in Checkpoints \cup {NoCheckpoint}, Call(r, q, stop, cp)
      PROVE  /\ plan' = plan
             /\ \A p \in Runs :
                  \/ stage'[p] = stage[p]
                  \/ preflightOk(plan) /\ stage'[p] = "running"
                  \/ ~preflightOk(plan) /\ stage'[p] = "refused"
  BY <1>0, <1>1 DEF Call
<1>2. ASSUME NEW r \in Runs, Loop(r)
      PROVE  /\ plan' = plan
             /\ \A p \in Runs :
                  \/ stage'[p] = stage[p]
                  \/ stage[p] = "running" /\ stage'[p] # "refused"
  <2>1. CASE UNCHANGED <<plan, stage>>
    BY <2>1
  <2>2. CASE \E s \in Steps : Throws(r, s)
    BY <1>0, <2>2 DEF Throws, Executes, Arrives, At
  <2>3. CASE Return(r)
    BY <1>0, <2>3 DEF Return
  <2>. QED
    BY <1>2, <2>1, <2>2, <2>3
    DEF Loop, Skip, MarkPaused, MarkBlocked, Send, Settle, DryRun, Conclude, Push, plannerVars
<1>3. CASE Restart
  BY <1>3 DEF Restart
<1>4. CASE UNCHANGED <<plan, stage>>
  BY <1>4
<1>5. (\E r \in Runs, s \in Steps : Answered(r, s)) \/ Figma \/ UNCHANGED vars
        => UNCHANGED <<plan, stage>>
  BY DEF Answered, Figma, vars, plannerVars
<1>. QED
  BY <1>1, <1>2, <1>3, <1>4, <1>5 DEF Next

(* preflightPlan() is exact, and of a plan it refuses nothing runs.        *)
THEOREM OnlyExecutablePlansRun == Spec => []PreflightIsExact
<1>1. Init => Verdict
  BY DEF Init, PlannerInit, Verdict
<1>2. PlannerInv /\ Verdict => PreflightIsExact
  <2> SUFFICES ASSUME PlannerInv, Verdict PROVE PreflightIsExact
    OBVIOUS
  <2>1. preflightOk(plan) <=> Executable(plan)
    BY PlansHaveShape, PreflightExact DEF PlannerInv, PlannerTypeOK
  <2>2. ASSUME ~Executable(plan) PROVE outcome = [c \in Runs \X Steps |-> "unasked"]
    <3>1. \A r \in Runs : ~Started(r)
      BY <2>1, <2>2 DEF Verdict, Started
    <3>2. \A r \in Runs, s \in Steps : outcome[<<r, s>>] = "unasked"
      BY <3>1 DEF PlannerInv, FreshRuns, Asked
    <3>. QED
      BY <3>2 DEF PlannerInv, PlannerTypeOK
  <2>. QED
    BY <2>1, <2>2 DEF Verdict, PreflightIsExact
<1>. QED
  BY <1>1, <1>2, PlannerCorrect, StepKeepsVerdict, PTL DEF Spec

(* A run records steps in dependency order, each once.                     *)
THEOREM RecordsFollowDependencies == Spec => []DependenciesFirst
<1>1. PlannerInv => DependenciesFirst
  <2> SUFFICES ASSUME PlannerInv, NEW r \in Runs,
                      stage[r] \in {"running", "returned", "threw", "lost"}
               PROVE  /\ \A s \in Recorded(r) : DependsOn(s) \subseteq Recorded(r)
                      /\ ToSet(todo[r]) = Steps \ Recorded(r)
                      /\ \A i, j \in 1..Len(todo[r]) : todo[r][i] = todo[r][j] => i = j
    BY DEF DependenciesFirst
  <2>1. RestOf(r)
    BY DEF PlannerInv, RestInOrder, Started
  <2>2. ToSet(todo[r]) \subseteq Steps
    BY DEF PlannerInv, PlannerTypeOK, ToSet
  <2>. QED
    BY <2>1, <2>2 DEF RestOf, Recorded
<1>. QED
  BY <1>1, PlannerCorrect, PTL

LEMMA SucceededIsDone ==
  ASSUME PlannerInv, NEW r \in Runs, NEW s \in SucceededIn(r)
  PROVE  DoneInFigma(s)
BY DEF PlannerInv, RecordsAreTrue, Truthful, SucceededIn, AnswersAreEarned, DoneInFigma

(* No command is sent before Figma has carried out all it depends on.      *)
THEOREM NoStepOnUndoneWork == Spec => []StepsBuildOnDone
<1>1. PlannerInv => StepsBuildOnDone
  <2> SUFFICES ASSUME PlannerInv, NEW r \in Runs, NEW s \in Steps, Asked(r, s),
                      NEW d \in DependsOn(s)
               PROVE  DoneInFigma(d)
    BY DEF StepsBuildOnDone, Asked
  <2>1. d \in SucceededIn(r)
    BY DEF PlannerInv, SentInTurn
  <2>. QED
    BY <2>1, SucceededIsDone
<1>. QED
  BY <1>1, PlannerCorrect, PTL

(* What a run reports of its steps, and of itself, is true.                *)
THEOREM NoFalseReport == Spec => []ReportsAreTrue
<1>1. PlannerInv => ReportsAreTrue
  <2> SUFFICES ASSUME PlannerInv, NEW r \in Runs
      PROVE /\ \A s \in Steps :
                 /\ results[r][s] = "succeeded" => DoneInFigma(s)
                 /\ results[r][s] \in {"blocked", "paused"} =>
                      outcome[<<r, s>>] = "unasked" /\ effect[<<r, s>>] = "no"
                 /\ results[r][s] = "timed_out" => outcome[<<r, s>>] \in {"refused", "unknown"}
            /\ stage[r] = "returned" /\ ok(r) => \A s \in Steps : DoneInFigma(s)
    BY DEF ReportsAreTrue
  <2>1. \A s \in Steps : results[r][s] = "succeeded" => DoneInFigma(s)
    BY SucceededIsDone DEF SucceededIn
  <2>2. \A s \in Steps : Truthful(r, s, results[r][s])
    BY DEF PlannerInv, RecordsAreTrue
  <2>3. \A s \in Steps : outcome[<<r, s>>] = "unasked" => effect[<<r, s>>] = "no"
    BY DEF PlannerInv, AnswersAreEarned
  <2>4. stage[r] = "returned" /\ ok(r) => \A s \in Steps : results[r][s] = "succeeded"
    BY AReturnedRunCarriesAll DEF ok, Recorded, PlannerInv, PlannerTypeOK, Statuses
  <2>. QED
    BY <2>1, <2>2, <2>3, <2>4 DEF Truthful, Asked
<1>. QED
  BY <1>1, PlannerCorrect, PTL

(* Only failures block steps.                                              *)
THEOREM OnlyFailuresBlock == Spec => []BlockedHasCause
<1>1. PlannerInv => BlockedHasCause
  BY DEF PlannerInv, FlagsAreTrue, FlagsOf, Failed, BlockedHasCause
<1>. QED
  BY <1>1, PlannerCorrect, PTL

(* A paused run has nothing of its own under way.                          *)
THEOREM PausesAreQuiet == Spec => []QuietAtPause
<1>1. PlannerInv => QuietAtPause
  <2> SUFFICES ASSUME PlannerInv, NEW r \in Runs, NEW s \in Steps, results[r][s] = "paused",
                      given[r].stopOnFailure
               PROVE  /\ given[r].pauseAtCheckpoint \in reachedCheckpoints[r]
                      /\ \A t \in Steps : outcome[<<r, t>>] # "unasked" => effect[<<r, t>>] = "done"
    BY DEF QuietAtPause
  <2>1. paused[r] /\ ~halted[r] /\ \A t \in Steps : ~Failed(r, t)
    BY DEF PlannerInv, FlagsAreTrue, FlagsOf
  <2>2. ASSUME NEW t \in Steps, Asked(r, t) PROVE effect[<<r, t>>] = "done"
    <3>1. results[r][t] # "none"
      BY <2>1, <2>2 DEF PlannerInv, SentInTurn, Recorded
    <3>2. results[r][t] \notin {"blocked", "paused"}
      BY <2>2 DEF PlannerInv, RecordsAreTrue, Truthful
    <3>3. results[r][t] = "succeeded"
      BY <2>1, <3>1, <3>2 DEF PlannerInv, PlannerTypeOK, Statuses, Failed
    <3>4. outcome[<<r, t>>] = "ok"
      BY <2>2, <3>3 DEF PlannerInv, RecordsAreTrue, Truthful
    <3>. QED
      BY <3>4 DEF PlannerInv, AnswersAreEarned
  <2>. QED
    BY <2>1, <2>2 DEF Asked, PlannerInv, FlagsAreTrue, FlagsOf
<1>. QED
  BY <1>1, PlannerCorrect, PTL

(* The checkpoints a run reports have been reached.                        *)
THEOREM NoFalseCheckpoint == Spec => []CheckpointsAreEarned
<1>1. PlannerInv => CheckpointsAreEarned
  BY DEF PlannerInv
<1>. QED
  BY <1>1, PlannerCorrect, PTL

-----------------------------------------------------------------------------
(***************************************************************************)
(* A run implements PlanProgress.                                          *)
(***************************************************************************)
LEMMA BusyWhileAwaiting ==
  ASSUME NEW r \in Runs
  PROVE  /\ \A s \in Steps : Awaits(r, s) => busyStep[r] = s
         /\ \A s \in Steps : Arrives(r, s) => busyStep[r] = NoStep
         /\ stage[r] # "running" \/ todo[r] = <<>> => busyStep[r] = NoStep
<1>1. \A s, t \in Steps : At(r, s) /\ At(r, t) => s = t
  BY DEF At
<1>2. \A s, t \in Steps : Awaits(r, s) /\ Awaits(r, t) => s = t
  BY <1>1 DEF Awaits
<1>3. \A s, t \in Steps : ~(Arrives(r, s) /\ Awaits(r, t))
  BY <1>1 DEF Awaits, Arrives
<1>4. stage[r] # "running" \/ todo[r] = <<>> => \A s \in Steps : ~Awaits(r, s)
  BY DEF Awaits, At
<1>. QED
  BY <1>2, <1>3, <1>4 DEF busyStep

(* When a step has been recorded the run has not sent the next one yet.    *)
LEMMA NotBusyAfterPush ==
  ASSUME PlannerInv, NEW r \in Runs, NEW s \in Steps, NEW status \in Statuses,
         At(r, s), Push(r, s, status), UNCHANGED outcome
  PROVE  /\ busyStep'[r] = NoStep
         /\ \A q \in Runs : q # r => busyStep'[q] = busyStep[q]
<1>1. ASSUME NEW t \in Steps PROVE ~Awaits(r, t)'
  <2> SUFFICES ASSUME Awaits(r, t)' PROVE FALSE
    OBVIOUS
  <2>1. Tail(todo[r]) # <<>> /\ t = Head(Tail(todo[r])) /\ Asked(r, t)
    BY PushRecords DEF Awaits, At, Asked
  <2>2. todo[r] \in Seq(Steps) /\ todo[r] # <<>> /\ s = Head(todo[r])
    BY DEF PlannerInv, PlannerTypeOK, At
  <2>3. /\ t = todo[r][2] /\ s = todo[r][1] /\ DOMAIN todo[r] = 1..Len(todo[r])
        /\ 1 \in 1..Len(todo[r]) /\ 2 \in 1..Len(todo[r])
    BY <2>1, <2>2
  <2>4. RestOf(r)
    BY CurrentStep DEF PlannerInv, RestInOrder
  <2>5. t \in ToSet(todo[r])
    BY <2>3 DEF ToSet
  <2>6. t \notin Recorded(r)
    BY <2>4, <2>5 DEF RestOf
  <2>7. t = s
    BY <2>1, <2>2, <2>6 DEF PlannerInv, SentInTurn, Current
  <2>8. \A i, j \in 1..Len(todo[r]) : todo[r][i] = todo[r][j] => i = j
    BY <2>4 DEF RestOf
  <2>9. todo[r][1] = todo[r][2]
    BY <2>3, <2>7
  <2>10. 1 = 2
    BY <2>3, <2>8, <2>9, Zenon
  <2>. QED
    BY <2>10
<1>2. busyStep'[r] = NoStep
  BY <1>1 DEF busyStep
<1>3. ASSUME NEW q \in Runs, q # r PROVE busyStep'[q] = busyStep[q]
  <2>1. \A t \in Steps : Awaits(q, t)' <=> Awaits(q, t)
    BY <1>3, PushRecords DEF Awaits, At
  <2>. QED
    BY <2>1 DEF busyStep
<1>. QED
  BY <1>2, <1>3

LEMMA KnownAfterPush ==
  ASSUME PlannerInv, NEW r \in Runs, NEW s \in Steps, NEW status \in Statuses,
         At(r, s), Push(r, s, status), UNCHANGED outcome
  PROVE  /\ dependencies' = dependencies /\ triedSteps' = triedSteps
         /\ knownSteps' = [knownSteps EXCEPT ![r] = IF status = "succeeded" THEN @ \cup {s} ELSE @]
<1>1. dependencies' = dependencies /\ triedSteps' = triedSteps
  BY PushRecords DEF dependencies, triedSteps, DependsOn
<1>2. SucceededIn(r)' = IF status = "succeeded" THEN SucceededIn(r) \cup {s} ELSE SucceededIn(r)
  BY PushRecords DEF SucceededIn
<1>3. knownSteps'[r] = IF status = "succeeded" THEN knownSteps[r] \cup {s} ELSE knownSteps[r]
  BY <1>2, PriorIsSettled DEF knownSteps
<1>4. \A q \in Runs : q # r => knownSteps'[q] = knownSteps[q]
  BY PriorIsSettled DEF knownSteps
<1>5. knownSteps = [q \in Runs |-> knownSteps[q]] /\ knownSteps' = [q \in Runs |-> knownSteps'[q]]
  BY DEF knownSteps
<1>. QED
  BY <1>1, <1>3, <1>4, <1>5

LEMMA BusyIsAFunction ==
  busyStep = [r \in Runs |-> busyStep[r]] /\ busyStep' = [r \in Runs |-> busyStep'[r]]
BY DEF busyStep

(* Copying a result, pausing and blocking are no progress.                 *)
LEMMA UnsentIsStutter ==
  ASSUME PlannerInv, NEW r \in Runs, NEW s \in Steps, NEW status \in Statuses,
         Arrives(r, s), Push(r, s, status), UNCHANGED outcome,
         status = "succeeded" => s \in PriorSucceeded(r)
  PROVE  UNCHANGED Progress!progressVars
<1>1. At(r, s) /\ busyStep[r] = NoStep
  BY BusyWhileAwaiting DEF Arrives
<1>2. busyStep' = busyStep
  BY <1>1, NotBusyAfterPush, BusyIsAFunction
<1>3. status = "succeeded" => knownSteps[r] \cup {s} = knownSteps[r]
  BY DEF knownSteps
<1>4. knownSteps' = knownSteps
  <2>1. knownSteps = [knownSteps EXCEPT ![r] = knownSteps[r]]
    BY DEF knownSteps
  <2>. QED
    BY <1>1, <1>3, <2>1, KnownAfterPush
<1>. QED
  BY <1>1, <1>2, <1>4, KnownAfterPush DEF Progress!progressVars

(* A step that is about to be executed is one that PlanProgress allows.    *)
LEMMA ExecutesEligible ==
  ASSUME PlannerInv, NEW r \in Runs, NEW s \in Steps, Executes(r, s)
  PROVE  Progress!Eligible(r, s)
<1>1. At(r, s) /\ ~Asked(r, s) /\ busyStep[r] = NoStep
  BY BusyWhileAwaiting DEF Executes, Arrives, Asked
<1>2. s \notin knownSteps[r] \cup triedSteps[r]
  BY <1>1, CurrentStep DEF Executes, knownSteps, triedSteps, SucceededIn, Recorded, Asked
<1>3. dependencies[s] \subseteq knownSteps[r]
  BY DEF Executes, depsOk, dependencies, knownSteps
<1>. QED
  BY <1>1, <1>2, <1>3 DEF Progress!Eligible

LEMMA SettleProgress ==
  ASSUME PlannerInv, NEW r \in Runs, NEW s \in Steps, Settle(r, s)
  PROVE  Progress!ProgressNext
<1>1. PICK status \in StatusesOf(outcome[<<r, s>>]) : Conclude(r, s, status)
  BY DEF Settle
<1>2. /\ At(r, s) /\ UNCHANGED outcome /\ Push(r, s, status) /\ status \in Statuses
      /\ busyStep[r] = s
  BY <1>1, BusyWhileAwaiting DEF Settle, Awaits, Conclude, StatusesOf, Statuses
<1>3. /\ busyStep' = [busyStep EXCEPT ![r] = NoStep] /\ busyStep[r] # NoStep
      /\ busyStep' = [q \in Runs |-> IF q \in {r} THEN NoStep ELSE busyStep[q]]
  BY <1>2, NotBusyAfterPush, BusyIsAFunction, NoStepIsNoStep
<1>4. CASE status = "succeeded"
  <2>1. Progress!Succeed(r)
    BY <1>2, <1>3, <1>4, KnownAfterPush DEF Progress!Succeed
  <2>. QED
    BY <2>1 DEF Progress!ProgressNext
<1>5. CASE status # "succeeded"
  <2>1. knownSteps' = knownSteps
    <3>1. knownSteps = [knownSteps EXCEPT ![r] = knownSteps[r]]
      BY DEF knownSteps
    <3>. QED
      BY <1>2, <1>5, <3>1, KnownAfterPush
  <2>2. Progress!Abandon
    <3>1. {r} \in SUBSET Runs
      OBVIOUS
    <3>2. dependencies' = dependencies /\ triedSteps' = triedSteps
      BY <1>2, KnownAfterPush
    <3>. QED
      BY <1>3, <2>1, <3>1, <3>2 DEF Progress!Abandon
  <2>. QED
    BY <2>2 DEF Progress!ProgressNext
<1>. QED
  BY <1>4, <1>5

LEMMA DryRunProgress ==
  ASSUME PlannerInv, NEW r \in Runs, NEW s \in Steps, DryRun(r, s)
  PROVE  Progress!ProgressNext
<1>1. /\ Executes(r, s) /\ At(r, s) /\ Push(r, s, "succeeded") /\ UNCHANGED outcome
      /\ "succeeded" \in Statuses /\ busyStep[r] = NoStep
  BY BusyWhileAwaiting DEF DryRun, Executes, Arrives, Conclude, Statuses
<1>2. busyStep' = busyStep
  BY <1>1, NotBusyAfterPush, BusyIsAFunction
<1>3. Progress!SucceedAtOnce(r, s)
  BY <1>1, <1>2, KnownAfterPush, ExecutesEligible DEF Progress!SucceedAtOnce
<1>. QED
  BY <1>3 DEF Progress!ProgressNext

LEMMA UnrecordedProgress ==
  ASSUME Unrecorded
  PROVE  dependencies' = dependencies /\ knownSteps' = knownSteps
<1>1. dependencies' = dependencies
  BY DEF dependencies, Unrecorded, DependsOn
<1>2. knownSteps' = knownSteps
  BY UnrecordedFrame DEF knownSteps
<1>. QED
  BY <1>1, <1>2

LEMMA SendProgress ==
  ASSUME PlannerInv, NEW r \in Runs, NEW s \in Steps, Send(r, s)
  PROVE  Progress!ProgressNext
<1>1. /\ Executes(r, s) /\ At(r, s) /\ UNCHANGED plannerVars /\ outcome[<<r, s>>] = "unasked"
      /\ outcome' = [outcome EXCEPT ![<<r, s>>] = "waiting"]
  BY DEF Send, Executes, Arrives, Remote!Ask
<1>2. /\ outcome'[<<r, s>>] = "waiting"
      /\ \A q \in Runs, t \in Steps : <<q, t>> # <<r, s>> => outcome'[<<q, t>>] = outcome[<<q, t>>]
  BY <1>1 DEF PlannerInv, PlannerTypeOK
<1>3. \A q \in Runs, t \in Steps : At(q, t)' <=> At(q, t)
  BY <1>1 DEF At, plannerVars
<1>4. busyStep'[r] = s
  <2>1. \A t \in Steps : Awaits(r, t)' <=> t = s
    BY <1>1, <1>2, <1>3 DEF Awaits, At
  <2>. QED
    BY <2>1 DEF busyStep
<1>5. ASSUME NEW q \in Runs, q # r PROVE busyStep'[q] = busyStep[q]
  <2>1. \A t \in Steps : Awaits(q, t)' <=> Awaits(q, t)
    BY <1>2, <1>3, <1>5 DEF Awaits
  <2>. QED
    BY <2>1 DEF busyStep
<1>6. busyStep' = [busyStep EXCEPT ![r] = s]
  BY <1>4, <1>5, BusyIsAFunction
<1>7. triedSteps' = [triedSteps EXCEPT ![r] = @ \cup {s}]
  BY <1>2 DEF triedSteps
<1>8. dependencies' = dependencies /\ knownSteps' = knownSteps
  BY <1>1, UnrecordedProgress DEF Unrecorded, plannerVars
<1>9. Progress!Attempt(r, s)
  BY <1>1, <1>6, <1>7, <1>8, ExecutesEligible DEF Progress!Attempt
<1>. QED
  BY <1>9 DEF Progress!ProgressNext

(* What happens to a call after it was made does not concern PlanProgress. *)
LEMMA CallsAreNoProgress ==
  ASSUME UNCHANGED plannerVars, \A r \in Runs, s \in Steps : Asked(r, s)' <=> Asked(r, s)
  PROVE  UNCHANGED Progress!progressVars
<1>1. \A r \in Runs, s \in Steps : Awaits(r, s)' <=> Awaits(r, s)
  BY DEF Awaits, At, Asked, plannerVars
<1>2. busyStep' = busyStep
  BY <1>1 DEF busyStep
<1>3. triedSteps' = triedSteps
  BY DEF triedSteps, Asked
<1>4. Unrecorded
  BY DEF Unrecorded, plannerVars
<1>. QED
  BY <1>2, <1>3, <1>4, UnrecordedProgress DEF Progress!progressVars

LEMMA LeavingProgress ==
  ASSUME PlannerInv, Unrecorded, UNCHANGED outcome, NEW R \in SUBSET Runs,
         \A r \in Runs : IF r \in R THEN stage'[r] # "running" ELSE stage'[r] = stage[r]
  PROVE  Progress!ProgressNext
<1>1. ASSUME NEW r \in Runs, r \in R PROVE busyStep'[r] = NoStep
  <2>1. \A s \in Steps : ~Awaits(r, s)'
    BY <1>1 DEF Awaits, At
  <2>. QED
    BY <2>1 DEF busyStep
<1>2. ASSUME NEW r \in Runs, r \notin R PROVE busyStep'[r] = busyStep[r]
  <2>1. \A s \in Steps : Awaits(r, s)' <=> Awaits(r, s)
    BY <1>2 DEF Awaits, At, Unrecorded
  <2>. QED
    BY <2>1 DEF busyStep
<1>3. busyStep' = [r \in Runs |-> IF r \in R THEN NoStep ELSE busyStep[r]]
  BY <1>1, <1>2, BusyIsAFunction
<1>4. dependencies' = dependencies /\ knownSteps' = knownSteps /\ triedSteps' = triedSteps
  BY UnrecordedProgress DEF triedSteps
<1>5. Progress!Abandon
  BY <1>3, <1>4 DEF Progress!Abandon
<1>. QED
  BY <1>5 DEF Progress!ProgressNext

(* A run that is given an earlier one takes over what that one knows.      *)
LEMMA CallProgress ==
  ASSUME PlannerInv, PlannerInv', NEW r \in Runs, NEW q \in Runs \cup {NoRun},
         NEW stop \in BOOLEAN, NEW cp \in Checkpoints \cup {NoCheckpoint}, Call(r, q, stop, cp)
  PROVE  Progress!ProgressNext \/ UNCHANGED Progress!progressVars
<1>1. /\ stage[r] = "idle" /\ ~Started(r) /\ PlannerInv /\ PlannerInv'
      /\ q # NoRun => stage[q] = "returned" /\ q \in Runs
      /\ UNCHANGED <<plan, results, outcome>>
  BY DEF Call, Started, PlannerInv
<1>2. \A s \in Steps : results[r][s] = "none" /\ ~Asked(r, s)
  BY <1>1 DEF PlannerInv, FreshRuns
<1>3. Prior(r) = NoRun
  BY <1>1 DEF PlannerInv, FreshRuns
<1>4. \A p \in Runs : SucceededIn(p)' = SucceededIn(p)
  BY <1>1 DEF SucceededIn
<1>5. \A p \in Runs : p # r => given'[p] = given[p] /\ stage'[p] = stage[p] /\ todo'[p] = todo[p]
  BY DEF Call, PlannerInv, PlannerTypeOK
<1>6. busyStep' = busyStep
  <2>1. \A p \in Runs : p # r => \A s \in Steps : Awaits(p, s)' <=> Awaits(p, s)
    BY <1>1, <1>5 DEF Awaits, At
  <2>2. \A s \in Steps : ~Awaits(r, s) /\ ~Awaits(r, s)'
    BY <1>1, <1>2 DEF Awaits, Asked
  <2>. QED
    BY <2>1, <2>2 DEF busyStep
<1>7. dependencies' = dependencies /\ triedSteps' = triedSteps /\ triedSteps[r] = {}
  BY <1>1, <1>2 DEF dependencies, triedSteps, DependsOn, Asked
<1>8. knownSteps[r] = {}
  BY <1>2, <1>3 DEF knownSteps, PriorSucceeded, SucceededIn
<1>9. \A p \in Runs : p # r => knownSteps'[p] = knownSteps[p]
  BY <1>1, <1>4, <1>5 DEF knownSteps, PriorSucceeded, Prior, PlannerInv, PlannerTypeOK
<1>10. knownSteps = [p \in Runs |-> knownSteps[p]] /\ knownSteps' = [p \in Runs |-> knownSteps'[p]]
  BY DEF knownSteps
<1>11. CASE preflightOk(plan) /\ q # NoRun
  <2>1. Prior(r)' = q
    BY <1>11 DEF Call, Prior, PlannerInv, PlannerTypeOK
  <2>2. SucceededIn(r) = {}
    BY <1>2 DEF SucceededIn
  <2>3. knownSteps'[r] = SucceededIn(q)
    BY <1>1, <1>4, <1>11, <2>1, <2>2 DEF knownSteps, PriorSucceeded
  <2>4. knownSteps[q] = SucceededIn(q)
    BY <1>1, <1>11, AReturnedRunCarriesAll DEF knownSteps
  <2>5. knownSteps' = [knownSteps EXCEPT ![r] = knownSteps[q]]
    BY <1>9, <1>10, <2>3, <2>4
  <2>6. Progress!TakeOver(r, q)
    BY <1>6, <1>7, <1>8, <2>5 DEF Progress!TakeOver
  <2>. QED
    BY <1>1, <1>11, <2>6 DEF Progress!ProgressNext
<1>12. CASE ~preflightOk(plan) \/ q = NoRun
  <2>1. Prior(r)' = NoRun
    BY <1>3, <1>12 DEF Call, Prior, PlannerInv, PlannerTypeOK
  <2>2. knownSteps'[r] = knownSteps[r]
    BY <1>3, <1>4, <2>1 DEF knownSteps, PriorSucceeded
  <2>3. knownSteps' = knownSteps
    BY <1>9, <1>10, <2>2
  <2>. QED
    BY <1>6, <1>7, <2>3 DEF Progress!progressVars
<1>. QED
  BY <1>11, <1>12

LEMMA ProgressStep ==
  PlannerInv /\ PlannerInv' /\ [Next]_vars => [Progress!ProgressNext]_(Progress!progressVars)
<1> SUFFICES ASSUME PlannerInv, PlannerInv', [Next]_vars
             PROVE  Progress!ProgressNext \/ UNCHANGED Progress!progressVars
  OBVIOUS
<1>0. PlannerInv
  OBVIOUS
<1>1. ASSUME NEW r \in Runs, NEW q \in Runs \cup {NoRun}, NEW stop \in BOOLEAN,
             NEW cp \in Checkpoints \cup {NoCheckpoint}, Call(r, q, stop, cp)
      PROVE  Progress!ProgressNext \/ UNCHANGED Progress!progressVars
  BY <1>1, CallProgress
<1>2. ASSUME NEW r \in Runs, Loop(r)
      PROVE  Progress!ProgressNext \/ UNCHANGED Progress!progressVars
  <2>1. ASSUME NEW s \in Steps, Skip(r, s) PROVE UNCHANGED Progress!progressVars
    BY <1>0, <2>1, UnsentIsStutter DEF Skip, Statuses
  <2>2. ASSUME NEW s \in Steps, MarkPaused(r, s) PROVE UNCHANGED Progress!progressVars
    BY <1>0, <2>2, UnsentIsStutter DEF MarkPaused, Statuses
  <2>3. ASSUME NEW s \in Steps, MarkBlocked(r, s) PROVE UNCHANGED Progress!progressVars
    BY <1>0, <2>3, UnsentIsStutter DEF MarkBlocked, Statuses
  <2>4. ASSUME NEW s \in Steps, Send(r, s) PROVE Progress!ProgressNext
    BY <1>0, <2>4, SendProgress
  <2>5. ASSUME NEW s \in Steps, Settle(r, s) PROVE Progress!ProgressNext
    BY <1>0, <2>5, SettleProgress
  <2>6. ASSUME NEW s \in Steps, DryRun(r, s) PROVE Progress!ProgressNext
    BY <1>0, <2>6, DryRunProgress
  <2>7. ASSUME NEW s \in Steps, Throws(r, s) PROVE Progress!ProgressNext
    <3>1. {r} \in SUBSET Runs /\ Unrecorded /\ UNCHANGED outcome
      BY <2>7 DEF Throws, Unrecorded
    <3>2. \A p \in Runs : IF p \in {r} THEN stage'[p] # "running" ELSE stage'[p] = stage[p]
      BY <1>0, <2>7 DEF Throws, PlannerInv, PlannerTypeOK
    <3>. QED
      BY <1>0, <3>1, <3>2, LeavingProgress
  <2>8. ASSUME Return(r) PROVE Progress!ProgressNext
    <3>1. {r} \in SUBSET Runs /\ Unrecorded /\ UNCHANGED outcome
      BY <2>8 DEF Return, Unrecorded
    <3>2. \A p \in Runs : IF p \in {r} THEN stage'[p] # "running" ELSE stage'[p] = stage[p]
      BY <1>0, <2>8 DEF Return, PlannerInv, PlannerTypeOK
    <3>. QED
      BY <1>0, <3>1, <3>2, LeavingProgress
  <2>. QED
    BY <1>2, <2>1, <2>2, <2>3, <2>4, <2>5, <2>6, <2>7, <2>8 DEF Loop
<1>3. ASSUME NEW r \in Runs, NEW s \in Steps, Answered(r, s)
      PROVE  UNCHANGED Progress!progressVars
  <2>1. PICK o \in {"ok", "refused", "unknown"} : outcome' = [outcome EXCEPT ![<<r, s>>] = o]
    BY <1>3 DEF Answered, Remote!Answer, Remote!Refuse, Remote!GiveUp
  <2>2. \A p \in Runs, t \in Steps : Asked(p, t)' <=> Asked(p, t)
    BY <1>0, <1>3, <2>1 DEF Answered, Asked, PlannerInv, PlannerTypeOK
  <2>. QED
    BY <1>3, <2>2, CallsAreNoProgress DEF Answered
<1>4. CASE Figma
  <2>1. UNCHANGED plannerVars /\ outcome' = outcome
    BY <1>4 DEF Figma, Remote!Cut, Remote!Begin, Remote!End
  <2>. QED
    BY <2>1, CallsAreNoProgress DEF Asked
<1>5. CASE Restart
  <2>1. Runs \in SUBSET Runs /\ Unrecorded /\ UNCHANGED outcome
    BY <1>5 DEF Restart, Unrecorded
  <2>2. \A p \in Runs : stage'[p] # "running"
    BY <1>5 DEF Restart
  <2>. QED
    BY <1>0, <2>1, <2>2, LeavingProgress
<1>6. CASE UNCHANGED vars
  <2>1. UNCHANGED plannerVars /\ outcome' = outcome
    BY <1>6 DEF vars
  <2>. QED
    BY <2>1, CallsAreNoProgress DEF Asked
<1>. QED
  BY <1>1, <1>2, <1>3, <1>4, <1>5, <1>6 DEF Next

(* Whatever fails, pauses or is resumed, a step is attempted once in a run,*)
(* on succeeded dependencies, and never again once it succeeded.           *)
THEOREM PlannerImplementsProgress == Spec => ImplementsPlanProgress
<1>1. Init => Progress!ProgressInit
  <2> SUFFICES ASSUME Init PROVE Progress!ProgressInit
    OBVIOUS
  <2>1. PlannerInv /\ \A r \in Runs : ~Started(r)
    BY InitIsFresh DEF Init, PlannerInit, Started
  <2>2. \A r \in Runs, s \in Steps : results[r][s] = "none" /\ ~Asked(r, s) /\ Prior(r) = NoRun
    BY <2>1 DEF PlannerInv, FreshRuns
  <2>3. \A r \in Runs : stage[r] # "running"
    BY <2>1 DEF Started
  <2>4. dependencies \in [Steps -> SUBSET Steps]
    BY DEF dependencies
  <2>5. knownSteps = [r \in Runs |-> {}]
    <3>1. \A r \in Runs : SucceededIn(r) = {}
      BY <2>2 DEF SucceededIn
    <3>2. \A r \in Runs : Prior(r) = NoRun
      BY <2>1 DEF PlannerInv, FreshRuns
    <3>. QED
      BY <3>1, <3>2 DEF knownSteps, PriorSucceeded
  <2>6. triedSteps = [r \in Runs |-> {}]
    BY <2>2 DEF triedSteps, Asked
  <2>7. busyStep = [r \in Runs |-> NoStep]
    BY <2>3, BusyWhileAwaiting, BusyIsAFunction
  <2>. QED
    BY <2>4, <2>5, <2>6, <2>7 DEF Progress!ProgressInit
<1>. QED
  BY <1>1, InitIsFresh, StepKeepsInv, ProgressStep, PTL
  DEF Spec, ImplementsPlanProgress, Progress!ProgressSpec
=============================================================================
