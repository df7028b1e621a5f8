---------------------------- MODULE CommandQueue ----------------------------
(***************************************************************************)
(* src/runtime/commandQueue.js: the bounded FIFO that puts every           *)
(* Figma-bound command on one lane.                                        *)
(*                                                                         *)
(* The class runs on one event loop.  enqueue(), the wait timer's callback *)
(* and the continuation of #drain() after `await item.job(...)` each run   *)
(* to completion, so each is one action, the nested call of #drain()       *)
(* included.  A job is any promise: it may settle either way, or never.    *)
(*                                                                         *)
(* A call stands for one enqueue() and the promise it returned.  Settling  *)
(* a promise is modelled as an assignment, where JavaScript would ignore   *)
(* the second of two: the code is expected never to settle one twice.      *)
(***************************************************************************)
EXTENDS Naturals, Sequences, SequencesExt, Requests

CONSTANTS
  NoCall,              \* `this.active === null`
  maxQueueLength       \* config.runtime.maxQueueLength

ASSUME NoCallAssumption == NoCall \notin Calls
ASSUME MaxQueueLengthAssumption == maxQueueLength \in Nat

VARIABLES
  items,               \* this.items: the calls accepted and not started
  active,              \* this.active: the call whose job runs
  armed,               \* the items whose waitTimer is set and not cleared
  promise,             \* what enqueue() returned, per call
  queuedAt,            \* trace.queuedAt: when it was accepted (0: never)
  now,                 \* the clock behind queuedAt: calls accepted so far
  served               \* history: queuedAt of the call started last

queueVars == <<items, active, armed, promise, queuedAt, now, served>>

Outcomes == {"resolved", "rejected", "QUEUE_FULL", "QUEUE_WAIT_TIMEOUT"}

QueueTypeOK ==
  /\ items \in Seq(Calls)
  /\ active \in Calls \cup {NoCall}
  /\ armed \subseteq Calls
  /\ promise \in [Calls -> {"uncalled", "pending"} \cup Outcomes]
  /\ queuedAt \in [Calls -> Nat]
  /\ now \in Nat
  /\ served \in Nat

QueueInit ==
  /\ items = <<>>
  /\ active = NoCall
  /\ armed = {}
  /\ promise = [c \in Calls |-> "uncalled"]
  /\ queuedAt = [c \in Calls |-> 0]
  /\ now = 0
  /\ served = 0

-----------------------------------------------------------------------------
(***************************************************************************)
(* #drain() on a free lane that holds `its`, with the timers `tms` set:    *)
(* the oldest item starts and its wait timer is cleared.  Mutants of the   *)
(* line stand before it.                                                   *)
(***************************************************************************)
DrainNewestFirst(its, tms) ==
  IF its = <<>>
  THEN items' = its /\ active' = NoCall /\ armed' = tms /\ UNCHANGED served
  ELSE /\ items' = Front(its)
       /\ active' = Last(its)
       /\ armed' = tms \ {Last(its)}
       /\ served' = queuedAt'[Last(its)]

DrainForgetsTimer(its, tms) ==
  IF its = <<>>
  THEN items' = its /\ active' = NoCall /\ armed' = tms /\ UNCHANGED served
  ELSE /\ items' = Tail(its)
       /\ active' = Head(its)
       /\ armed' = tms
       /\ served' = queuedAt'[Head(its)]

Drain(its, tms) ==
  IF its = <<>>
  THEN items' = its /\ active' = NoCall /\ armed' = tms /\ UNCHANGED served
  ELSE /\ items' = Tail(its)
       /\ active' = Head(its)
       /\ armed' = tms \ {Head(its)}
       /\ served' = queuedAt'[Head(its)]

(***************************************************************************)
(* enqueue(): refuse a call that finds the queue at capacity.              *)
(***************************************************************************)
EnqueueFullAsTimeout(c) ==
  /\ promise[c] = "uncalled"
  /\ Len(items) >= maxQueueLength
  /\ promise' = [promise EXCEPT ![c] = "COMMAND_TIMEOUT"]
  /\ UNCHANGED <<items, active, armed, queuedAt, now, served>>

EnqueueFull(c) ==
  /\ promise[c] = "uncalled"
  /\ Len(items) >= maxQueueLength
  /\ promise' = [promise EXCEPT ![c] = "QUEUE_FULL"]
  /\ UNCHANGED <<items, active, armed, queuedAt, now, served>>

EnqueueOffByOne(c) ==
  /\ promise[c] = "uncalled"
  /\ Len(items) <= maxQueueLength
  /\ promise' = [promise EXCEPT ![c] = "pending"]
  /\ now' = now + 1
  /\ queuedAt' = [queuedAt EXCEPT ![c] = now']
  /\ IF active = NoCall
     THEN Drain(Append(items, c), armed \cup {c})
     ELSE /\ items' = Append(items, c)
          /\ armed' = armed \cup {c}
          /\ UNCHANGED <<active, served>>

(***************************************************************************)
(* enqueue(): accept the call, set its wait timer, push it and drain.      *)
(* #drain() returns at once while a job is active.                         *)
(***************************************************************************)
Enqueue(c) ==
  /\ promise[c] = "uncalled"
  /\ Len(items) < maxQueueLength
  /\ promise' = [promise EXCEPT ![c] = "pending"]
  /\ now' = now + 1
  /\ queuedAt' = [queuedAt EXCEPT ![c] = now']
  /\ IF active = NoCall
     THEN Drain(Append(items, c), armed \cup {c})
     ELSE /\ items' = Append(items, c)
          /\ armed' = armed \cup {c}
          /\ UNCHANGED <<active, served>>

(***************************************************************************)
(* The wait timer of `c` fires.  All wait timers have one duration, and    *)
(* Node fires those of one duration in the order they were set, so the     *)
(* timer that fires is the oldest.  A call no longer in the queue is left  *)
(* alone; otherwise it is spliced out and rejected.                        *)
(***************************************************************************)
OldestTimer(c) == c \in armed /\ \A d \in armed : queuedAt[c] <= queuedAt[d]

WaitTimerKeepsItem(c) ==
  /\ OldestTimer(c)
  /\ armed' = armed \ {c}
  /\ promise' = [promise EXCEPT ![c] = "QUEUE_WAIT_TIMEOUT"]
  /\ UNCHANGED <<items, active, queuedAt, now, served>>

WaitTimer(c) ==
  /\ OldestTimer(c)
  /\ armed' = armed \ {c}
  /\ IF \E i \in 1..Len(items) : items[i] = c
     THEN /\ items' = RemoveAt(items, CHOOSE i \in 1..Len(items) : items[i] = c)
          /\ promise' = [promise EXCEPT ![c] = "QUEUE_WAIT_TIMEOUT"]
     ELSE UNCHANGED <<items, promise>>
  /\ UNCHANGED <<active, queuedAt, now, served>>

(***************************************************************************)
(* The active job settles: the call's promise follows it, the lane is      *)
(* released and the next item starts, all before any other callback.       *)
(***************************************************************************)
FinishKeepsLaneIdle(c, outcome) ==
  /\ active = c
  /\ promise' = [promise EXCEPT ![c] = outcome]
  /\ active' = NoCall
  /\ UNCHANGED <<items, armed, queuedAt, now, served>>

FinishKeepsActive(c, outcome) ==
  /\ active = c
  /\ promise' = [promise EXCEPT ![c] = outcome]
  /\ UNCHANGED <<items, active, armed, queuedAt, now, served>>

Finish(c, outcome) ==
  /\ active = c
  /\ promise' = [promise EXCEPT ![c] = outcome]
  /\ UNCHANGED <<queuedAt, now>>
  /\ Drain(items, armed)

-----------------------------------------------------------------------------
QueueNext ==
  \E c \in Calls :
    \/ EnqueueFull(c)
    \/ Enqueue(c)
    \/ WaitTimer(c)
    \/ \E outcome \in {"resolved", "rejected"} : Finish(c, outcome)

QueueSpec == QueueInit /\ [][QueueNext]_queueVars

(***************************************************************************)
(* Timers do fire; nothing is assumed of callers or of jobs.               *)
(***************************************************************************)
QueueFairSpec == QueueSpec /\ \A c \in Calls : WF_queueVars(WaitTimer(c))

-----------------------------------------------------------------------------
(***************************************************************************)
(* Properties.                                                             *)
(***************************************************************************)
InQueue(c) == \E i \in 1..Len(items) : items[i] = c

(* The queue never holds more than maxQueueLength calls, however enqueue(),
   the wait timers and the jobs interleave: what H7 added the bound for.   *)
QueueBounded == Len(items) <= maxQueueLength

(* No call is lost and none is in two places: a promise is pending exactly
   while its call is on the lane or in the queue, and never in both; a call
   whose caller was already answered can therefore never start.            *)
PendingIsPlaced ==
  /\ \A c \in Calls : (promise[c] = "pending") <=> (c = active \/ InQueue(c))
  /\ ~ InQueue(active)

(* The lane is work conserving: it never stands free while calls wait, so
   the queue cannot go to sleep with work in it.                           *)
NoIdleLane == active = NoCall => items = <<>>

(* A timer is set for exactly the calls that wait: no timer outlives the
   wait it bounds (and could reject a call that already runs), and no
   waiting call is without one.                                            *)
TimersMatchItems == \A c \in Calls : c \in armed <=> InQueue(c)

(* First come, first served, with calls that gave up skipped: every waiting
   call was accepted after the one started last.                           *)
ServedInOrder ==
  /\ \A i, j \in 1..Len(items) : i < j => queuedAt[items[i]] < queuedAt[items[j]]
  /\ \A i \in 1..Len(items) : served < queuedAt[items[i]]

(* A caller is answered once: an outcome, once given, is never replaced by
   the job's end, by the wait timer or by a later refusal.                 *)
AnsweredOnce ==
  [][\A c \in Calls : promise[c] \in Outcomes => promise'[c] = promise[c]]_queueVars

(* The conjunction the proofs carry from step to step.                     *)
QueueInv ==
  /\ QueueTypeOK
  /\ QueueBounded
  /\ PendingIsPlaced
  /\ NoIdleLane
  /\ TimersMatchItems
  /\ ServedInOrder
  /\ \A c \in Calls : queuedAt[c] <= now
  /\ active # NoCall => queuedAt[active] = served
  /\ served <= now

(* No call waits in the queue for ever, even behind a job that never
   settles: the wait timeout alone sees to it.                             *)
WaitIsBounded == \A c \in Calls : InQueue(c) ~> ~ InQueue(c)

-----------------------------------------------------------------------------
(***************************************************************************)
(* The queue is a serial lane.                                             *)
(***************************************************************************)
phaseBar ==
  [c \in Calls |->
     IF promise[c] = "uncalled" THEN "idle"
     ELSE IF c = active THEN "running"
     ELSE IF promise[c] = "pending" THEN "waiting"
     ELSE "done"]

Lane == INSTANCE SerialLane WITH phase <- phaseBar, ticket <- queuedAt

(* The queue implements SerialLane.                                        *)
ImplementsLane == Lane!LaneSpec
=============================================================================
