------------------------- MODULE CommandQueueProofs -------------------------
(***************************************************************************)
(* Proofs about CommandQueue, for every set of calls and every bound on    *)
(* the queue.                                                              *)
(*                                                                         *)
(* QueueInv is inductive.  Its conjuncts need each other: that a timer     *)
(* only ever hits a waiting call (TimersMatchItems) is what keeps a        *)
(* running call from being rejected by it (PendingIsPlaced); that the      *)
(* timer that fires belongs to the head of the queue follows from the      *)
(* order of acceptance (ServedInOrder); and NoIdleLane is what makes       *)
(* starting the newly accepted call on a free lane fair to the others.     *)
(***************************************************************************)
EXTENDS CommandQueue, TLAPS

USE NoCallAssumption, MaxQueueLengthAssumption

(* The initial state satisfies the invariant.                              *)
LEMMA QueueInvInit == QueueInit => QueueInv
BY DEF QueueInit, QueueInv, QueueTypeOK, QueueBounded, PendingIsPlaced, NoIdleLane,
       TimersMatchItems, ServedInOrder, InQueue, Outcomes

(* The queue without its head: how it is indexed, and that the head, which *)
(* occurs once, is all that it loses.                                      *)
LEMMA DropHead ==
  ASSUME QueueInv, items # <<>>, items' = Tail(items)
  PROVE  /\ items' \in Seq(Calls)
         /\ Len(items) \in Nat \ {0}
         /\ Len(items') = Len(items) - 1
         /\ Head(items) = items[1]
         /\ items[1] \in Calls
         /\ \A i \in 1..Len(items') : items'[i] = items[i + 1] /\ i + 1 \in 2..Len(items)
         /\ \A d : InQueue(d)' <=> (InQueue(d) /\ d # items[1])
         /\ InQueue(items[1])
<1> USE DEF QueueInv, QueueTypeOK
<1>1. /\ items' \in Seq(Calls)
      /\ Len(items) \in Nat \ {0}
      /\ Len(items') = Len(items) - 1
      /\ Head(items) = items[1]
      /\ items[1] \in Calls
      /\ \A i \in 1..Len(items') : items'[i] = items[i + 1] /\ i + 1 \in 2..Len(items)
  OBVIOUS
<1>2. \A i \in 1..Len(items) : items[i] = items[1] => i = 1
  BY <1>1 DEF ServedInOrder
<1>3. ASSUME NEW d, InQueue(d)'
      PROVE  InQueue(d) /\ d # items[1]
  BY <1>1, <1>2, <1>3 DEF InQueue
<1>4. ASSUME NEW d, InQueue(d), d # items[1]
      PROVE  InQueue(d)'
  <2>1. PICK j \in 1..Len(items) : items[j] = d
    BY <1>4 DEF InQueue
  <2>2. j - 1 \in 1..Len(items') /\ items'[j - 1] = d
    BY <1>1, <1>4, <2>1
  <2>. QED
    BY <2>2 DEF InQueue
<1>5. InQueue(items[1])
  BY <1>1 DEF InQueue
<1>. QED
  BY <1>1, <1>3, <1>4, <1>5

(* A refused call leaves the lane and the queue alone.                     *)
LEMMA EnqueueFullKeepsInv ==
  ASSUME QueueInv, NEW c \in Calls, EnqueueFull(c)
  PROVE  QueueInv'
<1> USE DEF QueueInv, QueueTypeOK, Outcomes
<1>1. QueueTypeOK'
  BY DEF EnqueueFull
<1>2. PendingIsPlaced'
  BY DEF EnqueueFull, PendingIsPlaced, InQueue
<1>3. QueueBounded' /\ NoIdleLane' /\ TimersMatchItems' /\ ServedInOrder'
  BY DEF EnqueueFull, QueueBounded, NoIdleLane, TimersMatchItems, ServedInOrder, InQueue
<1>. QED
  BY <1>1, <1>2, <1>3 DEF EnqueueFull

(* The oldest timer belongs to the head of the queue, so the callback      *)
(* always finds its call and splices it off the front.                     *)
LEMMA WaitTimerDropsHead ==
  ASSUME QueueInv, NEW c \in Calls, WaitTimer(c)
  PROVE  /\ items # <<>>
         /\ c = items[1]
         /\ items' = Tail(items)
         /\ armed' = armed \ {c}
         /\ promise' = [promise EXCEPT ![c] = "QUEUE_WAIT_TIMEOUT"]
         /\ UNCHANGED <<active, queuedAt, now, served>>
<1> USE DEF QueueInv, QueueTypeOK
<1>1. c \in armed /\ \A d \in armed : queuedAt[c] <= queuedAt[d]
  BY DEF WaitTimer, OldestTimer
<1>2. PICK k \in 1..Len(items) : items[k] = c
  BY <1>1 DEF TimersMatchItems, InQueue
<1>3. items # <<>> /\ items[1] \in armed
  BY <1>2 DEF TimersMatchItems, InQueue
<1>4. \A i \in 1..Len(items) : items[i] = c => i = 1
  BY <1>1, <1>3 DEF ServedInOrder
<1>5. c = items[1]
  BY <1>2, <1>4
<1>6. (CHOOSE i \in 1..Len(items) : items[i] = c) = 1
  BY <1>2, <1>4
<1>7. RemoveAt(items, 1) = Tail(items)
  BY <1>3 DEF RemoveAt
<1>8. /\ items' = RemoveAt(items, CHOOSE i \in 1..Len(items) : items[i] = c)
      /\ armed' = armed \ {c}
      /\ promise' = [promise EXCEPT ![c] = "QUEUE_WAIT_TIMEOUT"]
      /\ UNCHANGED <<active, queuedAt, now, served>>
  <2>1. \E i \in 1..Len(items) : items[i] = c
    BY <1>2
  <2>. QED
    BY <2>1, Zenon DEF WaitTimer
<1>9. items' = Tail(items)
  BY <1>6, <1>7, <1>8, Zenon
<1>. QED
  BY <1>3, <1>5, <1>8, <1>9

(* A wait timeout removes the head and answers its caller.                 *)
LEMMA WaitTimerKeepsInv ==
  ASSUME QueueInv, NEW c \in Calls, WaitTimer(c)
  PROVE  QueueInv'
<1>1. /\ items # <<>>
      /\ c = items[1]
      /\ items' = Tail(items)
      /\ armed' = armed \ {c}
      /\ promise' = [promise EXCEPT ![c] = "QUEUE_WAIT_TIMEOUT"]
      /\ UNCHANGED <<active, queuedAt, now, served>>
  BY WaitTimerDropsHead
<1>2. /\ items' \in Seq(Calls)
      /\ Len(items) \in Nat \ {0}
      /\ Len(items') = Len(items) - 1
      /\ \A i \in 1..Len(items') : items'[i] = items[i + 1] /\ i + 1 \in 2..Len(items)
      /\ \A d : InQueue(d)' <=> (InQueue(d) /\ d # c)
      /\ InQueue(c)
  BY <1>1, DropHead
<1> USE DEF QueueInv, QueueTypeOK, Outcomes
<1>3. QueueTypeOK' /\ QueueBounded' /\ NoIdleLane'
  BY <1>1, <1>2 DEF QueueBounded, NoIdleLane
<1>4. c # active
  BY <1>2 DEF PendingIsPlaced
<1>5. PendingIsPlaced'
  BY <1>1, <1>2, <1>4 DEF PendingIsPlaced
<1>6. TimersMatchItems'
  BY <1>1, <1>2 DEF TimersMatchItems
<1>7. ServedInOrder'
  BY <1>1, <1>2 DEF ServedInOrder
<1>. QED
  BY <1>1, <1>3, <1>5, <1>6, <1>7

(* A call accepted onto a free lane starts at once.                        *)
LEMMA EnqueueFreeKeepsInv ==
  ASSUME QueueInv, NEW c \in Calls, Enqueue(c), active = NoCall
  PROVE  QueueInv'
<1> USE DEF QueueInv, QueueTypeOK, Outcomes
<1>1. items = <<>>
  BY DEF NoIdleLane
<1>2. /\ Append(items, c) = <<c>>
      /\ <<c>> # <<>>
      /\ Tail(<<c>>) = <<>>
      /\ Head(<<c>>) = c
  BY <1>1
<1>3. /\ promise[c] = "uncalled"
      /\ promise' = [promise EXCEPT ![c] = "pending"]
      /\ now' = now + 1
      /\ queuedAt' = [queuedAt EXCEPT ![c] = now + 1]
      /\ items' = <<>>
      /\ active' = c
      /\ armed' = (armed \cup {c}) \ {c}
      /\ served' = now + 1
  BY <1>2 DEF Enqueue, Drain
<1>4. \A d : ~ InQueue(d) /\ ~ InQueue(d)'
  BY <1>1, <1>3 DEF InQueue
<1>5. armed' = {}
  BY <1>3, <1>4 DEF TimersMatchItems
<1>6. QueueTypeOK' /\ QueueBounded' /\ NoIdleLane' /\ TimersMatchItems' /\ ServedInOrder'
  BY <1>3, <1>4, <1>5 DEF QueueBounded, NoIdleLane, TimersMatchItems, ServedInOrder
<1>7. PendingIsPlaced'
  BY <1>3, <1>4 DEF PendingIsPlaced
<1>. QED
  BY <1>3, <1>6, <1>7

(* A call accepted behind an active one waits at the end of the queue.     *)
LEMMA EnqueueBusyKeepsInv ==
  ASSUME QueueInv, NEW c \in Calls, Enqueue(c), active # NoCall
  PROVE  QueueInv'
<1> USE DEF QueueInv, QueueTypeOK, Outcomes
<1>1. /\ promise[c] = "uncalled"
      /\ Len(items) < maxQueueLength
      /\ promise' = [promise EXCEPT ![c] = "pending"]
      /\ now' = now + 1
      /\ queuedAt' = [queuedAt EXCEPT ![c] = now + 1]
      /\ items' = Append(items, c)
      /\ armed' = armed \cup {c}
      /\ UNCHANGED <<active, served>>
  BY DEF Enqueue
<1>2. /\ items' \in Seq(Calls)
      /\ Len(items') = Len(items) + 1
      /\ \A i \in 1..Len(items) : items'[i] = items[i] /\ i \in 1..Len(items')
      /\ items'[Len(items) + 1] = c
      /\ Len(items) \in Nat
  BY <1>1
<1>3. ~ InQueue(c) /\ c # active
  BY <1>1 DEF PendingIsPlaced
<1>4. \A i \in 1..Len(items) : items[i] # c /\ queuedAt'[items[i]] = queuedAt[items[i]]
  BY <1>1, <1>3 DEF InQueue
<1>5. ASSUME NEW d
      PROVE  InQueue(d)' <=> (InQueue(d) \/ d = c)
  <2>1. ASSUME InQueue(d)'
        PROVE  InQueue(d) \/ d = c
    <3>1. PICK i \in 1..Len(items') : items'[i] = d
      BY <2>1 DEF InQueue
    <3>2. i \in 1..Len(items) \/ i = Len(items) + 1
      BY <1>2
    <3>. QED
      BY <1>2, <3>1, <3>2 DEF InQueue
  <2>2. ASSUME InQueue(d) \/ d = c
        PROVE  InQueue(d)'
    BY <1>2, <2>2 DEF InQueue
  <2>. QED
    BY <2>1, <2>2
<1>6. QueueTypeOK' /\ QueueBounded' /\ NoIdleLane'
  BY <1>1, <1>2 DEF QueueBounded, NoIdleLane
<1>7. TimersMatchItems'
  BY <1>1, <1>5 DEF TimersMatchItems
<1>8. PendingIsPlaced'
  BY <1>1, <1>3, <1>5 DEF PendingIsPlaced
<1>9. ServedInOrder'
  <2>1. \A i \in 1..Len(items) : queuedAt'[items'[i]] = queuedAt[items[i]]
    BY <1>2, <1>4
  <2>2. queuedAt'[items'[Len(items) + 1]] = now + 1
    BY <1>1, <1>2
  <2>3. \A i \in 1..Len(items) : queuedAt[items[i]] < now + 1
    BY <1>2
  <2>. QED
    BY <1>1, <1>2, <2>1, <2>2, <2>3 DEF ServedInOrder
<1>10. (\A d \in Calls : queuedAt'[d] <= now') /\ served' <= now'
  BY <1>1
<1>11. active' # NoCall => queuedAt'[active'] = served'
  BY <1>1, <1>3
<1>. QED
  BY <1>6, <1>7, <1>8, <1>9, <1>10, <1>11

(* The end of a job, by whether a call waits to take the lane over.        *)
LEMMA FinishCases ==
  ASSUME QueueInv, NEW c \in Calls, NEW outcome, Finish(c, outcome)
  PROVE  /\ active = c
         /\ promise' = [promise EXCEPT ![c] = outcome]
         /\ UNCHANGED <<queuedAt, now>>
         /\ items = <<>> =>
              items' = <<>> /\ active' = NoCall /\ armed' = armed /\ served' = served
         /\ items # <<>> =>
              /\ items' = Tail(items)
              /\ active' = items[1]
              /\ armed' = armed \ {items[1]}
              /\ served' = queuedAt[items[1]]
<1>1. items # <<>> => Head(items) = items[1]
  BY DEF QueueInv, QueueTypeOK
<1>. QED
  BY <1>1 DEF Finish, Drain

(* The end of a job answers its caller and releases the lane.              *)
LEMMA FinishKeepsInv ==
  ASSUME QueueInv, NEW c \in Calls, NEW outcome \in {"resolved", "rejected"},
         Finish(c, outcome)
  PROVE  QueueInv'
<1>1. /\ active = c
      /\ promise' = [promise EXCEPT ![c] = outcome]
      /\ UNCHANGED <<queuedAt, now>>
  BY FinishCases
<1>2. CASE items = <<>>
  <2>1. items' = <<>> /\ active' = NoCall /\ armed' = armed /\ served' = served
    BY <1>2, FinishCases
  <2> USE DEF QueueInv, QueueTypeOK, Outcomes
  <2>2. \A d : ~ InQueue(d) /\ ~ InQueue(d)'
    BY <1>2, <2>1 DEF InQueue
  <2>3. PendingIsPlaced'
    BY <1>1, <2>1, <2>2 DEF PendingIsPlaced
  <2>4. QueueTypeOK'
    BY <1>1, <2>1
  <2>5. QueueBounded' /\ NoIdleLane' /\ ServedInOrder'
    BY <2>1 DEF QueueBounded, NoIdleLane, ServedInOrder
  <2>6. TimersMatchItems'
    BY <2>1, <2>2 DEF TimersMatchItems
  <2>. QED
    BY <1>1, <2>1, <2>3, <2>4, <2>5, <2>6
<1>3. CASE items # <<>>
  <2>1. /\ items' = Tail(items)
        /\ active' = items[1]
        /\ armed' = armed \ {items[1]}
        /\ served' = queuedAt[items[1]]
    BY <1>3, FinishCases
  <2>2. /\ items' \in Seq(Calls)
        /\ Len(items) \in Nat \ {0}
        /\ Len(items') = Len(items) - 1
        /\ items[1] \in Calls
        /\ \A i \in 1..Len(items') : items'[i] = items[i + 1] /\ i + 1 \in 2..Len(items)
        /\ \A d : InQueue(d)' <=> (InQueue(d) /\ d # items[1])
        /\ InQueue(items[1])
    BY <1>3, <2>1, DropHead
  <2> USE DEF QueueInv, QueueTypeOK, Outcomes
  <2>3. QueueTypeOK' /\ QueueBounded' /\ NoIdleLane'
    BY <1>1, <2>1, <2>2 DEF QueueBounded, NoIdleLane
  <2>4. TimersMatchItems'
    BY <2>1, <2>2 DEF TimersMatchItems
  <2>5. PendingIsPlaced'
    <3>1. c # items[1] /\ ~ InQueue(c)
      BY <1>1, <2>2 DEF PendingIsPlaced
    <3>. QED
      BY <1>1, <2>1, <2>2, <3>1 DEF PendingIsPlaced
  <2>6. ServedInOrder'
    <3>1. ASSUME NEW i \in 1..Len(items'), NEW j \in 1..Len(items'), i < j
          PROVE  queuedAt[items'[i]] < queuedAt[items'[j]]
      <4>1. i + 1 \in 1..Len(items) /\ j + 1 \in 1..Len(items) /\ i + 1 < j + 1
        BY <2>2, <3>1
      <4>. QED
        BY <2>2, <4>1 DEF ServedInOrder
    <3>2. ASSUME NEW i \in 1..Len(items')
          PROVE  queuedAt[items[1]] < queuedAt[items'[i]]
      <4>1. i + 1 \in 1..Len(items) /\ 1 \in 1..Len(items) /\ 1 < i + 1
        BY <2>2
      <4>. QED
        BY <2>2, <4>1 DEF ServedInOrder
    <3>. QED
      BY <1>1, <2>1, <3>1, <3>2 DEF ServedInOrder
  <2>. QED
    BY <1>1, <2>1, <2>2, <2>3, <2>4, <2>5, <2>6
<1>. QED
  BY <1>2, <1>3

(* Every step of the queue preserves the invariant.                        *)
LEMMA QueueInvStep == QueueInv /\ [QueueNext]_queueVars => QueueInv'
<1> SUFFICES ASSUME QueueInv, [QueueNext]_queueVars
             PROVE  QueueInv'
  OBVIOUS
<1>1. ASSUME NEW c \in Calls, EnqueueFull(c)
      PROVE  QueueInv'
  BY <1>1, EnqueueFullKeepsInv
<1>2. ASSUME NEW c \in Calls, Enqueue(c)
      PROVE  QueueInv'
  BY <1>2, EnqueueFreeKeepsInv, EnqueueBusyKeepsInv
<1>3. ASSUME NEW c \in Calls, WaitTimer(c)
      PROVE  QueueInv'
  BY <1>3, WaitTimerKeepsInv
<1>4. ASSUME NEW c \in Calls, NEW outcome \in {"resolved", "rejected"}, Finish(c, outcome)
      PROVE  QueueInv'
  BY <1>4, FinishKeepsInv
<1>5. CASE UNCHANGED queueVars
  BY <1>5 DEF queueVars, QueueInv, QueueTypeOK, QueueBounded, PendingIsPlaced, NoIdleLane,
              TimersMatchItems, ServedInOrder, InQueue
<1>. QED
  BY <1>1, <1>2, <1>3, <1>4, <1>5 DEF QueueNext

(* The invariant holds of every behaviour of the queue.                    *)
THEOREM QueueCorrect == QueueSpec => []QueueInv
BY QueueInvInit, QueueInvStep, PTL DEF QueueSpec

(* The queue's variables keep their types.                                 *)
THEOREM QueueTypes == QueueSpec => []QueueTypeOK
<1>1. QueueInv => QueueTypeOK
  BY DEF QueueInv
<1>. QED
  BY <1>1, QueueCorrect, PTL

(* A wait timer is set for exactly the calls that wait: none outlives the  *)
(* wait it bounds, and no call waits without one.                          *)
THEOREM TimersBoundWaits == QueueSpec => []TimersMatchItems
<1>1. QueueInv => TimersMatchItems
  BY DEF QueueInv
<1>. QED
  BY <1>1, QueueCorrect, PTL

(* The lane never stands free while calls wait, so the queue cannot go to  *)
(* sleep with work in it.                                                  *)
THEOREM LaneNeverIdles == QueueSpec => []NoIdleLane
<1>1. QueueInv => NoIdleLane
  BY DEF QueueInv
<1>. QED
  BY <1>1, QueueCorrect, PTL

(* No call is lost, none is on the lane and in the queue at once, and a    *)
(* call that was answered never starts.                                    *)
THEOREM NoCallIsLost == QueueSpec => []PendingIsPlaced
<1>1. QueueInv => PendingIsPlaced
  BY DEF QueueInv
<1>. QED
  BY <1>1, QueueCorrect, PTL

(* Calls start in the order in which they were accepted.                   *)
THEOREM FirstComeFirstServed == QueueSpec => []ServedInOrder
<1>1. QueueInv => ServedInOrder
  BY DEF QueueInv
<1>. QED
  BY <1>1, QueueCorrect, PTL

(* The queue respects its bound, and the lane is never free while calls    *)
(* wait.                                                                   *)
THEOREM BoundedAndWorkConserving == QueueSpec => [](QueueBounded /\ NoIdleLane)
<1>1. QueueInv => QueueBounded /\ NoIdleLane
  BY DEF QueueInv
<1>. QED
  BY <1>1, QueueCorrect, PTL

(* No caller is answered twice: whatever settles a promise finds it        *)
(* pending, so JavaScript's silent discarding of a second settlement is    *)
(* never called upon.                                                      *)
THEOREM OneAnswerPerCall == QueueSpec => AnsweredOnce
<1> USE DEF QueueInv, QueueTypeOK, Outcomes
<1>1. ASSUME QueueInv, [QueueNext]_queueVars, NEW d \in Calls, promise[d] \in Outcomes
      PROVE  promise'[d] = promise[d]
  <2>1. ASSUME NEW c \in Calls, EnqueueFull(c) \/ Enqueue(c)
        PROVE  promise'[d] = promise[d]
    BY <1>1, <2>1 DEF EnqueueFull, Enqueue
  <2>2. ASSUME NEW c \in Calls, WaitTimer(c)
        PROVE  promise'[d] = promise[d]
    <3>1. c = items[1] /\ promise' = [promise EXCEPT ![c] = "QUEUE_WAIT_TIMEOUT"] /\ items # <<>>
      BY <1>1, <2>2, WaitTimerDropsHead
    <3>2. promise[c] = "pending"
      BY <1>1, <3>1 DEF PendingIsPlaced, InQueue
    <3>. QED
      BY <1>1, <3>1, <3>2
  <2>3. ASSUME NEW c \in Calls, NEW outcome \in {"resolved", "rejected"}, Finish(c, outcome)
        PROVE  promise'[d] = promise[d]
    BY <1>1, <2>3 DEF Finish, PendingIsPlaced
  <2>4. CASE UNCHANGED queueVars
    BY <2>4 DEF queueVars
  <2>. QED
    BY <1>1, <2>1, <2>2, <2>3, <2>4 DEF QueueNext
<1>2. QueueInv /\ [QueueNext]_queueVars
        => [\A c \in Calls : promise[c] \in Outcomes => promise'[c] = promise[c]]_queueVars
  BY <1>1
<1>. QED
  BY <1>2, QueueCorrect, PTL DEF QueueSpec, AnsweredOnce

-----------------------------------------------------------------------------
(***************************************************************************)
(* The queue implements SerialLane.                                        *)
(***************************************************************************)

(* Under the invariant the abstract phase of a call is its place.          *)
LEMMA PhaseIsPlace ==
  ASSUME QueueInv
  PROVE  /\ phaseBar \in [Calls -> {"idle", "waiting", "running", "done"}]
         /\ \A c \in Calls :
              /\ phaseBar[c] = "idle" <=> promise[c] = "uncalled"
              /\ phaseBar[c] = "running" <=> c = active
              /\ phaseBar[c] = "waiting" <=> InQueue(c)
              /\ phaseBar[c] = "done" <=> promise[c] \in Outcomes
BY DEF QueueInv, QueueTypeOK, PendingIsPlaced, phaseBar, Outcomes

(* A step that moves only `c`, as seen by the abstract lane.               *)
LEMMA OneMoves ==
  ASSUME QueueInv, QueueInv', NEW c \in Calls, NEW p,
         phaseBar'[c] = p,
         \A d \in Calls : d # c => phaseBar'[d] = phaseBar[d]
  PROVE  phaseBar' = [phaseBar EXCEPT ![c] = p]
<1>1. phaseBar' \in [Calls -> {"idle", "waiting", "running", "done"}]
  BY PhaseIsPlace DEF phaseBar, QueueInv, QueueTypeOK, PendingIsPlaced, Outcomes
<1>. QED
  BY <1>1, PhaseIsPlace

(* A refused call is refused by the lane.                                  *)
LEMMA EnqueueFullRefuses ==
  ASSUME QueueInv, QueueInv', NEW c \in Calls, EnqueueFull(c)
  PROVE  Lane!Refuse(c)
<1>1. phaseBar[c] = "idle"
  BY PhaseIsPlace DEF EnqueueFull
<1>2. phaseBar'[c] = "done" /\ \A d \in Calls : d # c => phaseBar'[d] = phaseBar[d]
  BY DEF EnqueueFull, phaseBar, QueueInv, QueueTypeOK, PendingIsPlaced, Outcomes
<1>3. UNCHANGED queuedAt
  BY DEF EnqueueFull
<1>. QED
  BY <1>1, <1>2, <1>3, OneMoves DEF Lane!Refuse

(* An accepted call is admitted behind all others, and runs at once        *)
(* exactly when the lane was free.                                         *)
LEMMA EnqueueAdmits ==
  ASSUME QueueInv, QueueInv', NEW c \in Calls, Enqueue(c)
  PROVE  Lane!Admit(c)
<1>1. /\ promise[c] = "uncalled"
      /\ promise' = [promise EXCEPT ![c] = "pending"]
      /\ queuedAt' = [queuedAt EXCEPT ![c] = now + 1]
  BY DEF Enqueue
<1>2. phaseBar[c] = "idle"
  BY <1>1, PhaseIsPlace
<1>3. Lane!Running = {} <=> active = NoCall
  BY PhaseIsPlace DEF Lane!Running, QueueInv, QueueTypeOK
<1>4. active' = IF active = NoCall THEN c ELSE active
  <2>1. CASE active = NoCall
    <3>1. items = <<>>
      BY <2>1 DEF QueueInv, NoIdleLane
    <3>2. Append(items, c) = <<c>> /\ <<c>> # <<>> /\ Head(<<c>>) = c
      BY <3>1
    <3>. QED
      BY <2>1, <3>2 DEF Enqueue, Drain
  <2>2. CASE active # NoCall
    BY <2>2 DEF Enqueue
  <2>. QED
    BY <2>1, <2>2
<1>5. c # active /\ \A d \in Calls : d # c => promise'[d] = promise[d]
  BY <1>1 DEF QueueInv, QueueTypeOK, PendingIsPlaced
<1>6. \A d \in Calls : d # c => phaseBar'[d] = phaseBar[d]
  BY <1>1, <1>4, <1>5 DEF phaseBar, QueueInv, QueueTypeOK
<1>7. phaseBar'[c] = IF Lane!Running = {} THEN "running" ELSE "waiting"
  <2>1. promise'[c] = "pending"
    BY <1>1 DEF QueueInv, QueueTypeOK
  <2>. QED
    BY <2>1, <1>3, <1>4, <1>5 DEF phaseBar
<1>8. phaseBar' = [phaseBar EXCEPT ![c] = IF Lane!Running = {} THEN "running" ELSE "waiting"]
  BY <1>6, <1>7, OneMoves
<1>9. /\ queuedAt'[c] = now + 1
      /\ now + 1 \in Nat
      /\ \A d \in Calls : queuedAt[d] < now + 1
  BY <1>1 DEF QueueInv, QueueTypeOK
<1>10. /\ queuedAt'[c] \in Nat
       /\ \A d \in Calls : queuedAt[d] < queuedAt'[c]
       /\ queuedAt' = [queuedAt EXCEPT ![c] = queuedAt'[c]]
  BY <1>1, <1>9
<1>. QED
  BY <1>2, <1>8, <1>10 DEF Lane!Admit

(* A wait timeout gives the call up.                                       *)
LEMMA WaitTimerGivesUp ==
  ASSUME QueueInv, QueueInv', NEW c \in Calls, WaitTimer(c)
  PROVE  Lane!GiveUp(c)
<1>1. /\ items # <<>>
      /\ c = items[1]
      /\ promise' = [promise EXCEPT ![c] = "QUEUE_WAIT_TIMEOUT"]
      /\ UNCHANGED <<active, queuedAt>>
  BY WaitTimerDropsHead
<1>2. InQueue(c) /\ c # active
  BY <1>1 DEF InQueue, QueueInv, QueueTypeOK, PendingIsPlaced
<1>3. phaseBar[c] = "waiting"
  BY <1>2, PhaseIsPlace
<1>4. phaseBar'[c] = "done" /\ \A d \in Calls : d # c => phaseBar'[d] = phaseBar[d]
  BY <1>1, <1>2 DEF phaseBar, QueueInv, QueueTypeOK
<1>. QED
  BY <1>1, <1>3, <1>4, OneMoves DEF Lane!GiveUp

(* The end of a job frees the lane or hands it to the call that has waited *)
(* longest.                                                                *)
LEMMA FinishConcludes ==
  ASSUME QueueInv, QueueInv', NEW c \in Calls, NEW outcome \in {"resolved", "rejected"},
         Finish(c, outcome)
  PROVE  Lane!Conclude(c)
<1>1. /\ active = c
      /\ promise' = [promise EXCEPT ![c] = outcome]
      /\ UNCHANGED <<queuedAt, now>>
  BY FinishCases
<1>2. phaseBar[c] = "running"
  BY <1>1, PhaseIsPlace
<1>3. promise'[c] = outcome /\ \A d \in Calls : d # c => promise'[d] = promise[d]
  BY <1>1 DEF QueueInv, QueueTypeOK
<1>4. CASE items = <<>>
  <2>1. active' = NoCall
    BY <1>4, FinishCases
  <2>2. Lane!Waiting = {}
    BY <1>4, PhaseIsPlace DEF Lane!Waiting, InQueue
  <2>3. phaseBar'[c] = "done"
    BY <1>3, <2>1 DEF phaseBar
  <2>4. \A d \in Calls : d # c => phaseBar'[d] = phaseBar[d]
    BY <1>1, <1>3, <2>1 DEF phaseBar
  <2>. QED
    BY <1>1, <1>2, <2>2, <2>3, <2>4, OneMoves DEF Lane!Conclude
<1>5. CASE items # <<>>
  <2>1. active' = items[1] /\ items[1] \in Calls /\ InQueue(items[1])
    BY <1>5, FinishCases DEF QueueInv, QueueTypeOK, InQueue
  <2>2. items[1] # c /\ promise[items[1]] = "pending"
    BY <1>1, <2>1 DEF QueueInv, PendingIsPlaced
  <2>3. items[1] \in Lane!Waiting
    BY <2>1, PhaseIsPlace DEF Lane!Waiting
  <2>4. \A e \in Lane!Waiting : queuedAt[items[1]] <= queuedAt[e]
    <3>1. ASSUME NEW e \in Calls, InQueue(e)
          PROVE  queuedAt[items[1]] <= queuedAt[e]
      <4>1. PICK i \in 1..Len(items) : items[i] = e
        BY <3>1 DEF InQueue
      <4>2. i = 1 \/ 1 < i
        BY <4>1
      <4>3. queuedAt[items[1]] \in Nat /\ 1 \in 1..Len(items)
        BY <4>1, <2>1 DEF QueueInv, QueueTypeOK
      <4>4. 1 < i => queuedAt[items[1]] < queuedAt[items[i]]
        BY <4>1, <4>3 DEF QueueInv, QueueTypeOK, ServedInOrder
      <4>. QED
        BY <3>1, <4>1, <4>2, <4>3, <4>4 DEF QueueInv, QueueTypeOK
    <3>. QED
      BY <3>1, PhaseIsPlace DEF Lane!Waiting
  <2>5. phaseBar'[c] = "done" /\ phaseBar'[items[1]] = "running"
    BY <1>3, <2>1, <2>2 DEF phaseBar
  <2>6. \A d \in Calls : d # c /\ d # items[1] => phaseBar'[d] = phaseBar[d]
    BY <1>1, <1>3, <2>1 DEF phaseBar
  <2>7. phaseBar' = [phaseBar EXCEPT ![c] = "done", ![items[1]] = "running"]
    <3>1. phaseBar' \in [Calls -> {"idle", "waiting", "running", "done"}]
      BY DEF phaseBar, QueueInv, QueueTypeOK
    <3>. QED
      BY <2>1, <2>2, <2>5, <2>6, <3>1, PhaseIsPlace
  <2>. QED
    BY <1>1, <1>2, <2>3, <2>4, <2>7 DEF Lane!Conclude
<1>. QED
  BY <1>4, <1>5

(* Initially nothing was submitted.                                        *)
LEMMA LaneInitially == QueueInit => Lane!LaneInit
BY DEF QueueInit, Lane!LaneInit, phaseBar

(* Every step of the queue is a step of the lane, or changes nothing the   *)
(* lane shows.                                                             *)
LEMMA LaneStep ==
  QueueInv /\ QueueInv' /\ [QueueNext]_queueVars => [Lane!LaneNext]_(Lane!laneVars)
<1> SUFFICES ASSUME QueueInv, QueueInv', [QueueNext]_queueVars
             PROVE  [Lane!LaneNext]_(Lane!laneVars)
  OBVIOUS
<1>1. ASSUME NEW c \in Calls, EnqueueFull(c)
      PROVE  Lane!LaneNext
  BY <1>1, EnqueueFullRefuses DEF Lane!LaneNext
<1>2. ASSUME NEW c \in Calls, Enqueue(c)
      PROVE  Lane!LaneNext
  BY <1>2, EnqueueAdmits DEF Lane!LaneNext
<1>3. ASSUME NEW c \in Calls, WaitTimer(c)
      PROVE  Lane!LaneNext
  BY <1>3, WaitTimerGivesUp DEF Lane!LaneNext
<1>4. ASSUME NEW c \in Calls, NEW outcome \in {"resolved", "rejected"}, Finish(c, outcome)
      PROVE  Lane!LaneNext
  BY <1>4, FinishConcludes DEF Lane!LaneNext
<1>5. CASE UNCHANGED queueVars
  BY <1>5 DEF queueVars, Lane!laneVars, phaseBar
<1>. QED
  BY <1>1, <1>2, <1>3, <1>4, <1>5 DEF QueueNext

(* The command queue implements the serial lane: one command at a time, in *)
(* order of admission, never idle with work, each ended at most once.      *)
THEOREM QueueImplementsLane == QueueSpec => ImplementsLane
BY LaneInitially, LaneStep, QueueCorrect, PTL DEF QueueSpec, ImplementsLane, Lane!LaneSpec

=============================================================================
