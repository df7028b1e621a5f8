---------------------------- MODULE RuntimeProofs ----------------------------
(***************************************************************************)
(* Proofs about Runtime, for every set of calls and of plugin windows and  *)
(* for every bound.  CoordinatorInv, the inductive invariant of the        *)
(* coordinator's own state, is carried from step to step; DeliveryInv      *)
(* relates what the coordinator knows of a command to what became of it in *)
(* Figma, through the messages in flight, so that an answer means what     *)
(* RemoteCommand says.                                                     *)
(***************************************************************************)
EXTENDS Runtime, CommandQueueProofs

-----------------------------------------------------------------------------
(***************************************************************************)
(* The queue inside Runtime: each of its steps is a step of QueueNext.     *)
(***************************************************************************)
LEMMA QueueInvKept ==
  ASSUME QueueInv, [Next]_vars
  PROVE  QueueInv'
<1>1. ASSUME NEW c \in Calls, Submit(c)
      PROVE  QueueNext
  BY <1>1 DEF Submit, QueueNext
<1>2. ASSUME NEW c \in Calls, JobSettles(c)
      PROVE  QueueNext
  BY <1>2 DEF JobSettles, QueueNext
<1>3. ASSUME NEW c \in Calls, WaitExpires(c)
      PROVE  QueueNext
  BY <1>3 DEF WaitExpires, QueueNext
<1>4. ASSUME NEW c \in Calls, Resume(c)
      PROVE  UNCHANGED queueVars
  BY <1>4 DEF Resume
<1>5. ASSUME StartSettles \/ CommandExpires \/ BridgeEvent
      PROVE  UNCHANGED queueVars
  BY <1>5 DEF StartSettles, CommandExpires, BridgeEvent
<1>6. ASSUME NEW p \in Plugins, PluginConnects(p) \/ PluginEvent(p)
      PROVE  UNCHANGED queueVars
  BY <1>6 DEF PluginConnects, PluginEvent
<1>7. ASSUME UNCHANGED vars
      PROVE  UNCHANGED queueVars
  BY <1>7 DEF vars
<1>8. [QueueNext]_queueVars
  BY <1>1, <1>2, <1>3, <1>4, <1>5, <1>6, <1>7 DEF Next
<1>. QED
  BY <1>8, QueueInvStep

(* What accepting, ending and giving up a call mean for the lane.          *)
LEMMA EnqueueMoves ==
  ASSUME QueueInv, NEW c \in Calls, Enqueue(c)
  PROVE  /\ promise[c] = "uncalled"
         /\ promise' = [promise EXCEPT ![c] = "pending"]
         /\ active' = IF active = NoCall THEN c ELSE active
<1>1. active = NoCall => items = <<>>
  BY DEF QueueInv, NoIdleLane
<1>2. /\ Append(<<>>, c) = <<c>>
      /\ <<c>> # <<>>
      /\ Head(<<c>>) = c
  OBVIOUS
<1>. QED
  BY <1>1, <1>2 DEF Enqueue, Drain

LEMMA FinishMoves ==
  ASSUME QueueInv, NEW c \in Calls, NEW outcome, Finish(c, outcome)
  PROVE  /\ active = c
         /\ promise[c] = "pending"
         /\ promise' = [promise EXCEPT ![c] = outcome]
         /\ \/ active' = NoCall
            \/ active' \in Calls /\ active' # c /\ promise[active'] = "pending"
<1>1. /\ active = c
      /\ promise' = [promise EXCEPT ![c] = outcome]
      /\ items = <<>> => active' = NoCall
      /\ items # <<>> => active' = items[1]
  BY FinishCases
<1>2. promise[c] = "pending"
  BY <1>1 DEF QueueInv, PendingIsPlaced
<1>3. ASSUME items # <<>>
      PROVE  items[1] \in Calls /\ InQueue(items[1])
  BY <1>3 DEF QueueInv, QueueTypeOK, InQueue
<1>4. ASSUME items # <<>>
      PROVE  active' \in Calls /\ active' # c /\ promise[active'] = "pending"
  BY <1>1, <1>3, <1>4 DEF QueueInv, PendingIsPlaced
<1>. QED
  BY <1>1, <1>2, <1>4

LEMMA WaitTimerMoves ==
  ASSUME QueueInv, NEW c \in Calls, WaitTimer(c)
  PROVE  /\ c # active
         /\ promise[c] = "pending"
         /\ promise' = [promise EXCEPT ![c] = "QUEUE_WAIT_TIMEOUT"]
         /\ active' = active
<1>1. /\ items # <<>>
      /\ c = items[1]
      /\ promise' = [promise EXCEPT ![c] = "QUEUE_WAIT_TIMEOUT"]
      /\ active' = active
  BY WaitTimerDropsHead
<1>2. InQueue(c)
  BY <1>1 DEF QueueInv, QueueTypeOK, InQueue
<1>. QED
  BY <1>1, <1>2 DEF QueueInv, PendingIsPlaced

-----------------------------------------------------------------------------
(***************************************************************************)
(* Steps of the queue that may put a call on the lane.                     *)
(***************************************************************************)
(* The part of the invariant that is about connections and timers.         *)
BridgeInv ==
  /\ BridgeTypeOK
  /\ server \in [Conns -> {"none", "open", "closing", "closed"}]
  /\ TimerIffPending
  /\ PairingConsistent
  /\ ServerStates

LEMMA RunJobKeeps ==
  ASSUME BridgeInv, RunJob, active' \in Calls \cup {NoCall}
  PROVE  /\ BridgeInv'
         /\ UNCHANGED <<pending, reply, sentGeneration, recentTimeouts, orphans>>
         /\ launching' = IF active' \in {NoCall, active} THEN launching
                                                         ELSE launching \cup {active'}
<1>1. CASE active' \in {NoCall, active}
  <2>1. UNCHANGED <<bridgeVars, wireVars>>
    BY <1>1 DEF RunJob
  <2>. QED
    BY <1>1, <2>1 DEF BridgeInv, bridgeVars, wireVars, BridgeTypeOK, TimerIffPending,
                      PairingConsistent, ServerStates, Paired
<1>2. CASE active' \notin {NoCall, active}
  <2>1. /\ wss' = IF wss = "stopped" THEN "starting" ELSE wss
        /\ launching' = launching \cup {active'}
        /\ UNCHANGED <<socket, connectionGeneration, pending, cmdTimers, sentGeneration,
                       recentTimeouts, orphans, reply, server>>
    BY <1>2 DEF RunJob, Execute, CallStart, wireVars
  <2>2. BridgeTypeOK'
    BY <1>2, <2>1 DEF BridgeInv, BridgeTypeOK
  <2>3. (TimerIffPending /\ PairingConsistent /\ ServerStates)'
    BY <2>1 DEF BridgeInv, BridgeTypeOK, TimerIffPending, PairingConsistent, ServerStates, Paired
  <2>. QED
    BY <1>2, <2>1, <2>2, <2>3 DEF BridgeInv
<1>. QED
  BY <1>1, <1>2

LEMMA SubmitKeeps ==
  ASSUME CoordinatorInv, QueueInv', NEW c \in Calls, Submit(c)
  PROVE  CoordinatorInv'
<1>1. active' \in Calls \cup {NoCall}
  BY DEF QueueInv, QueueTypeOK
<1>2. BridgeInv
  BY DEF CoordinatorInv, BridgeInv
<1>3. /\ BridgeInv'
      /\ UNCHANGED <<pending, reply, sentGeneration, recentTimeouts, orphans>>
      /\ launching' = IF active' \in {NoCall, active} THEN launching
                                                      ELSE launching \cup {active'}
  BY <1>1, <1>2, RunJobKeeps DEF Submit
<1>4. \/ /\ active' = active
         /\ promise' = [promise EXCEPT ![c] = "QUEUE_FULL"]
         /\ promise[c] = "uncalled"
      \/ /\ active' = IF active = NoCall THEN c ELSE active
         /\ promise' = [promise EXCEPT ![c] = "pending"]
         /\ promise[c] = "uncalled"
  BY EnqueueMoves DEF Submit, EnqueueFull, CoordinatorInv
<1> USE DEF CoordinatorInv, QueueInv, QueueTypeOK, BridgeTypeOK
<1>5. c # NoCall /\ NoCall \notin Calls
  BY NoCallAssumption
<1>6. Untouched(c)
  BY <1>4 DEF FreshCalls
<1>7. LaneServed'
  BY <1>3, <1>4, <1>5, <1>6 DEF LaneServed, PendingIsActive, Untouched
<1>8. FreshCalls'
  BY <1>3, <1>4, <1>5, <1>6 DEF FreshCalls, Untouched
<1>. QED
  BY <1>3, <1>7, <1>8 DEF BridgeInv, TimeoutsRemembered

LEMMA JobSettlesKeeps ==
  ASSUME CoordinatorInv, QueueInv', NEW c \in Calls, JobSettles(c)
  PROVE  CoordinatorInv'
<1>1. active' \in Calls \cup {NoCall}
  BY DEF QueueInv, QueueTypeOK
<1>2. BridgeInv
  BY DEF CoordinatorInv, BridgeInv
<1>3. /\ BridgeInv'
      /\ UNCHANGED <<pending, reply, sentGeneration, recentTimeouts, orphans>>
      /\ launching' = IF active' \in {NoCall, active} THEN launching
                                                      ELSE launching \cup {active'}
  BY <1>1, <1>2, RunJobKeeps DEF JobSettles
<1>4. PICK outcome \in {"resolved", "rejected"} : Finish(c, outcome)
  BY DEF JobSettles
<1>5. /\ active = c
      /\ reply[c] # "none"
      /\ promise[c] = "pending"
      /\ promise' = [promise EXCEPT ![c] = outcome]
      /\ \/ active' = NoCall
         \/ active' \in Calls /\ active' # c /\ promise[active'] = "pending"
  BY <1>4, FinishMoves DEF JobSettles, CoordinatorInv
<1> USE DEF CoordinatorInv, QueueInv, QueueTypeOK, BridgeTypeOK
<1>6. c # NoCall /\ NoCall \notin Calls
  BY NoCallAssumption
<1>7. pending = {} /\ launching = {}
  BY <1>5, <1>6 DEF LaneServed, PendingIsActive
<1>8. active' # NoCall => active' \in Calls /\ active' # active /\ Untouched(active')
  BY <1>5 DEF FreshCalls
<1>9. LaneServed'
  BY <1>3, <1>7, <1>8 DEF LaneServed, PendingIsActive, Untouched
<1>10. FreshCalls'
  BY <1>3, <1>4, <1>5, <1>7, <1>8 DEF FreshCalls, Untouched
<1>. QED
  BY <1>3, <1>9, <1>10 DEF BridgeInv, TimeoutsRemembered

LEMMA WaitExpiresKeeps ==
  ASSUME CoordinatorInv, QueueInv', NEW c \in Calls, WaitExpires(c)
  PROVE  CoordinatorInv'
<1>1. /\ c # active
      /\ promise[c] = "pending"
      /\ promise' = [promise EXCEPT ![c] = "QUEUE_WAIT_TIMEOUT"]
      /\ active' = active
  BY WaitTimerMoves DEF WaitExpires, CoordinatorInv
<1>2. UNCHANGED <<bridgeVars, server>>
  BY DEF WaitExpires, wireVars
<1> USE DEF CoordinatorInv, QueueInv, QueueTypeOK, bridgeVars
<1>3. LaneServed'
  BY <1>1, <1>2 DEF LaneServed, PendingIsActive
<1>4. FreshCalls'
  BY <1>1, <1>2 DEF FreshCalls, Untouched
<1>5. (BridgeTypeOK /\ TimerIffPending /\ PairingConsistent /\ ServerStates
         /\ TimeoutsRemembered)'
  BY <1>2 DEF BridgeTypeOK, TimerIffPending, PairingConsistent, ServerStates, Paired,
              TimeoutsRemembered
<1>. QED
  BY <1>2, <1>3, <1>4, <1>5

-----------------------------------------------------------------------------
(***************************************************************************)
(* Steps of the bridge.                                                    *)
(***************************************************************************)
(* A reply, once given, stays: then what is remembered of timeouts does.   *)
LEMMA RememberedStays ==
  ASSUME BridgeTypeOK, TimeoutsRemembered, UNCHANGED <<recentTimeouts, orphans>>,
         \A c \in Calls : reply[c] # "none" => reply'[c] = reply[c]
  PROVE  TimeoutsRemembered'
<1>1. \A i \in 1..Len(recentTimeouts) : recentTimeouts[i] \in Calls
  BY DEF BridgeTypeOK
<1>. QED
  BY <1>1 DEF TimeoutsRemembered

LEMMA ResumeFailsKeeps ==
  ASSUME CoordinatorInv, QueueInv', NEW c \in Calls, ResumeFails(c), UNCHANGED queueVars
  PROVE  CoordinatorInv'
<1> USE DEF CoordinatorInv, QueueInv, QueueTypeOK, BridgeTypeOK, BridgeErrors, queueVars
<1>1. /\ c \in launching
      /\ launching' = launching \ {c}
      /\ \/ reply' = [reply EXCEPT ![c] = "COMMAND_EXECUTION_FAILED"]
         \/ reply' = [reply EXCEPT ![c] = "PLUGIN_DISCONNECTED"]
      /\ UNCHANGED <<wss, socket, connectionGeneration, pending, cmdTimers, sentGeneration,
                     recentTimeouts, orphans, server>>
  BY DEF ResumeFails, pairingVars, wireVars
<1>2. c = active /\ pending = {} /\ launching = {c} /\ promise[c] = "pending"
  BY <1>1 DEF LaneServed, PendingIsActive, PendingIsPlaced
<1>3. BridgeTypeOK'
  BY <1>1
<1>4. LaneServed'
  BY <1>1, <1>2 DEF LaneServed, PendingIsActive
<1>5. FreshCalls'
  BY <1>1, <1>2 DEF FreshCalls, Untouched
<1>6. (TimerIffPending /\ PairingConsistent /\ ServerStates)'
  BY <1>1 DEF TimerIffPending, PairingConsistent, ServerStates, Paired
<1>7. reply[c] = "none"
  BY <1>1, <1>2, NoCallAssumption DEF LaneServed
<1>8. TimeoutsRemembered'
  <2>1. \A d \in Calls : reply[d] # "none" => reply'[d] = reply[d]
    BY <1>1, <1>7
  <2>. QED
    BY <1>1, <2>1, RememberedStays
<1>. QED
  BY <1>1, <1>3, <1>4, <1>5, <1>6, <1>8

LEMMA ResumeSendsKeeps ==
  ASSUME CoordinatorInv, QueueInv', NEW c \in Calls, ResumeSends(c), UNCHANGED queueVars
  PROVE  CoordinatorInv'
<1> USE DEF CoordinatorInv, QueueInv, QueueTypeOK, BridgeTypeOK, BridgeErrors, queueVars
<1>1. /\ c \in launching
      /\ wss \in {"ready", "closing"}
      /\ Paired
      /\ launching' = launching \ {c}
      /\ pending' = pending \cup {c}
      /\ cmdTimers' = cmdTimers \cup {c}
      /\ sentGeneration' = [sentGeneration EXCEPT ![c] = connectionGeneration]
      /\ UNCHANGED <<wss, socket, connectionGeneration, reply, recentTimeouts, orphans, server>>
  BY DEF ResumeSends, pairingVars
<1>2. c = active /\ pending = {} /\ launching = {c} /\ promise[c] = "pending"
  BY <1>1 DEF LaneServed, PendingIsActive, PendingIsPlaced
<1>3. BridgeTypeOK'
  BY <1>1
<1>4. LaneServed'
  BY <1>1, <1>2 DEF LaneServed, PendingIsActive
<1>5. FreshCalls'
  BY <1>1, <1>2 DEF FreshCalls, Untouched
<1>6. (TimerIffPending /\ PairingConsistent /\ ServerStates)'
  BY <1>1 DEF TimerIffPending, PairingConsistent, ServerStates, Paired
<1>7. reply[c] = "none"
  BY <1>1, <1>2, NoCallAssumption DEF LaneServed
<1>8. TimeoutsRemembered'
  <2>1. \A d \in Calls : reply[d] # "none" => reply'[d] = reply[d]
    BY <1>1, <1>7
  <2>. QED
    BY <1>1, <2>1, RememberedStays
<1>. QED
  BY <1>1, <1>3, <1>4, <1>5, <1>6, <1>8

LEMMA StartSettlesKeeps ==
  ASSUME CoordinatorInv, QueueInv', StartReady \/ StartFails \/ Status, UNCHANGED queueVars
  PROVE  CoordinatorInv'
<1> USE DEF CoordinatorInv, queueVars
<1>1. /\ wss \in {"starting", "stopped"}
      /\ wss' \in {"ready", "failed", "starting"}
      /\ UNCHANGED <<socket, connectionGeneration, requestVars, server>>
  BY DEF StartReady, StartFails, Status, CallStart, wireVars
<1>2. socket = 0 /\ ~ Paired
  BY <1>1 DEF ServerStates, Paired
<1>3. (BridgeTypeOK /\ TimerIffPending /\ PairingConsistent)'
  BY <1>1 DEF BridgeTypeOK, TimerIffPending, PairingConsistent, requestVars
<1>4. ServerStates'
  BY <1>1, <1>2 DEF ServerStates, Paired
<1>5. LaneServed' /\ FreshCalls' /\ TimeoutsRemembered'
  BY <1>1 DEF LaneServed, PendingIsActive, FreshCalls, Untouched, TimeoutsRemembered, requestVars
<1>. QED
  BY <1>1, <1>3, <1>4, <1>5

LEMMA CommandTimerKeeps ==
  ASSUME CoordinatorInv, QueueInv', NEW c \in Calls, CommandTimer(c), UNCHANGED queueVars
  PROVE  CoordinatorInv'
<1> USE DEF CoordinatorInv, QueueInv, QueueTypeOK, queueVars
<1>1. /\ c \in cmdTimers
      /\ cmdTimers' = cmdTimers \ {c}
      /\ pending' = pending \ {c}
      /\ reply' = [reply EXCEPT ![c] = "COMMAND_TIMEOUT"]
      /\ UNCHANGED <<wss, socket, connectionGeneration, launching, sentGeneration, orphans,
                     server>>
  BY DEF CommandTimer, pairingVars, wireVars
<1>2. /\ recentTimeouts' \in Seq(Calls)
      /\ \A i \in 1..Len(recentTimeouts') :
           \/ recentTimeouts'[i] = c
           \/ \E j \in 1..Len(recentTimeouts) : recentTimeouts'[i] = recentTimeouts[j]
  <2> DEFINE recorded == Append(recentTimeouts, c)
  <2>1. recentTimeouts' = IF Len(recorded) > RecentCap THEN Tail(recorded) ELSE recorded
    BY DEF CommandTimer
  <2>2. /\ recorded \in Seq(Calls)
        /\ Len(recorded) = Len(recentTimeouts) + 1
        /\ \A i \in 1..Len(recorded) :
             IF i = Len(recorded) THEN recorded[i] = c
             ELSE i \in 1..Len(recentTimeouts) /\ recorded[i] = recentTimeouts[i]
    BY DEF BridgeTypeOK
  <2> HIDE DEF recorded
  <2>3. recorded # <<>> /\ Len(recorded) \in Nat \ {0}
    BY <2>2 DEF BridgeTypeOK
  <2>4. /\ Tail(recorded) \in Seq(Calls)
        /\ Len(Tail(recorded)) = Len(recorded) - 1
        /\ \A i \in 1..Len(Tail(recorded)) :
             i + 1 \in 1..Len(recorded) /\ Tail(recorded)[i] = recorded[i + 1]
    BY <2>2, <2>3
  <2>. QED
    BY <2>1, <2>2, <2>4
<1>3. c \in pending /\ c = active /\ pending = {c} /\ launching = {} /\ promise[c] = "pending"
  BY <1>1 DEF TimerIffPending, LaneServed, PendingIsActive, PendingIsPlaced
<1>4. BridgeTypeOK'
  BY <1>1, <1>2 DEF BridgeTypeOK, BridgeErrors
<1>5. LaneServed'
  BY <1>1, <1>3 DEF LaneServed, PendingIsActive, BridgeTypeOK
<1>6. FreshCalls'
  BY <1>1, <1>3 DEF FreshCalls, Untouched, BridgeTypeOK
<1>7. (TimerIffPending /\ PairingConsistent /\ ServerStates)'
  BY <1>1, <1>3 DEF TimerIffPending, PairingConsistent, ServerStates, Paired
<1>8. TimeoutsRemembered'
  <2>1. \A i \in 1..Len(recentTimeouts) : recentTimeouts[i] \in Calls
    BY DEF BridgeTypeOK
  <2>2. reply \in [Calls -> {"none", "response"} \cup BridgeErrors]
    BY DEF BridgeTypeOK
  <2>3. \A i \in 1..Len(recentTimeouts') : reply'[recentTimeouts'[i]] = "COMMAND_TIMEOUT"
    <3>1. reply'[c] = "COMMAND_TIMEOUT" /\ reply[c] = "none"
      BY <1>1, <1>3, <2>2, NoCallAssumption DEF LaneServed
    <3>2. \A j \in 1..Len(recentTimeouts) : reply'[recentTimeouts[j]] = "COMMAND_TIMEOUT"
      BY <1>1, <2>1, <2>2, <3>1 DEF TimeoutsRemembered
    <3>. QED
      BY <1>2, <3>1, <3>2
  <2>. QED
    BY <1>1, <2>2, <2>3 DEF TimeoutsRemembered
<1>. QED
  BY <1>1, <1>4, <1>5, <1>6, <1>7, <1>8

LEMMA OnMessageKeeps ==
  ASSUME CoordinatorInv, WireTypeOK, QueueInv', NEW k \in Conns, OnMessage(k), UNCHANGED queueVars
  PROVE  CoordinatorInv'
<1> USE DEF CoordinatorInv, QueueInv, QueueTypeOK, queueVars
<1> DEFINE c == Head(up[k]).call
<1>1. Head(up[k]) \in UpMessages /\ Head(up[k]).type = "response"
  BY DEF OnMessage, WireTypeOK
<1>2. c \in Calls
  BY <1>1 DEF UpMessages, Response, CloseFrame
<1>3. HandleResponse(c) \/ HandleOrphan(c)
  BY DEF OnMessage
<1>4. UNCHANGED server
  BY DEF OnMessage
<1> HIDE DEF c
<1>5. CASE HandleResponse(c)
  <2>1. /\ c \in pending
        /\ pending' = pending \ {c}
        /\ recentTimeouts' = RemoveFirst(recentTimeouts, c)
        /\ cmdTimers' = cmdTimers \ {c}
        /\ reply' = [reply EXCEPT ![c] = "response"]
        /\ UNCHANGED <<wss, socket, connectionGeneration, launching, sentGeneration, orphans>>
    BY <1>5 DEF HandleResponse, pairingVars
  <2>2. /\ c = active /\ pending = {c} /\ launching = {}
        /\ promise[c] = "pending"
        /\ reply[c] = "none"
    BY <1>2, <2>1, NoCallAssumption DEF LaneServed, PendingIsActive, PendingIsPlaced
  <2>3. recentTimeouts' = recentTimeouts
    BY <2>1, <2>2 DEF TimeoutsRemembered, RemoveFirst
  <2>4. BridgeTypeOK'
    BY <1>2, <2>1, <2>3 DEF BridgeTypeOK
  <2>5. LaneServed'
    BY <1>2, <2>1, <2>2 DEF LaneServed, PendingIsActive, BridgeTypeOK
  <2>6. FreshCalls'
    BY <1>2, <2>1, <2>2 DEF FreshCalls, Untouched, BridgeTypeOK
  <2>7. (TimerIffPending /\ PairingConsistent /\ ServerStates)'
    BY <1>4, <2>1, <2>2 DEF TimerIffPending, PairingConsistent, ServerStates, Paired
  <2>8. TimeoutsRemembered'
    <3>1. \A d \in Calls : reply[d] # "none" => reply'[d] = reply[d]
      BY <2>1, <2>2 DEF BridgeTypeOK
    <3>. QED
      BY <2>1, <2>3, <3>1, RememberedStays
  <2>. QED
    BY <1>4, <2>4, <2>5, <2>6, <2>7, <2>8
<1>6. CASE HandleOrphan(c)
  <2>1. /\ orphans' \in [Calls -> Nat]
        /\ UNCHANGED <<wss, socket, connectionGeneration, launching, pending, cmdTimers,
                       sentGeneration, recentTimeouts, reply>>
    BY <1>2, <1>6 DEF HandleOrphan, pairingVars, BridgeTypeOK
  <2>2. TimeoutsRemembered'
    BY <1>2, <1>6, <2>1 DEF HandleOrphan, TimeoutsRemembered, BridgeTypeOK, Contains
  <2>. QED
    BY <1>4, <2>1, <2>2 DEF BridgeTypeOK, LaneServed, PendingIsActive, FreshCalls, Untouched,
                      TimerIffPending, PairingConsistent, ServerStates, Paired
<1>. QED
  BY <1>3, <1>5, <1>6

(* Every pending request is rejected: with its timer, it is gone.          *)
LEMMA RejectPendingClears ==
  ASSUME CoordinatorInv, NEW code \in BridgeErrors, RejectPending(code)
  PROVE  /\ pending' = {}
         /\ cmdTimers' = {}
         /\ reply' \in [Calls -> {"none", "response"} \cup BridgeErrors]
         /\ \A c \in Calls : c \in pending => reply'[c] = code /\ reply'[c] # "none"
         /\ \A c \in Calls : c \notin pending => reply'[c] = reply[c]
BY DEF CoordinatorInv, BridgeTypeOK, RejectPending, TimerIffPending, BridgeErrors

LEMMA RejectionKeepsLane ==
  ASSUME CoordinatorInv, NEW code \in BridgeErrors, RejectPending(code),
         UNCHANGED <<queueVars, launching, sentGeneration, recentTimeouts, orphans>>
  PROVE  LaneServed' /\ FreshCalls' /\ TimeoutsRemembered'
<1>1. /\ pending' = {}
      /\ \A c \in Calls : c \in pending => reply'[c] # "none"
      /\ \A c \in Calls : c \notin pending => reply'[c] = reply[c]
  BY RejectPendingClears
<1> USE DEF CoordinatorInv, QueueInv, QueueTypeOK, queueVars
<1>2. \A c \in pending :
        c = active /\ c \notin launching /\ promise[c] = "pending" /\ reply[c] = "none"
  BY NoCallAssumption DEF LaneServed, PendingIsActive, BridgeTypeOK, PendingIsPlaced
<1>3. LaneServed'
  BY <1>1, <1>2 DEF LaneServed, PendingIsActive, BridgeTypeOK
<1>4. FreshCalls'
  BY <1>1, <1>2 DEF FreshCalls, Untouched, BridgeTypeOK
<1>5. TimeoutsRemembered'
  BY <1>1, <1>2, RememberedStays
<1>. QED
  BY <1>3, <1>4, <1>5

LEMMA OnCloseKeeps ==
  ASSUME CoordinatorInv, QueueInv', NEW k \in Conns, OnClose(k), UNCHANGED queueVars
  PROVE  CoordinatorInv'
<1>1. /\ server' = [server EXCEPT ![k] = "closed"]
      /\ UNCHANGED <<wss, connectionGeneration, launching, sentGeneration, recentTimeouts, orphans>>
      /\ \/ socket = k /\ socket' = 0 /\ RejectPending("PLUGIN_DISCONNECTED")
         \/ socket # k /\ UNCHANGED <<socket, pending, cmdTimers, reply>>
  BY DEF OnClose
<1>2. k # 0 /\ k \in Nat
  BY MaxConnsAssumption DEF Conns
<1>3. CASE socket = k /\ socket' = 0 /\ RejectPending("PLUGIN_DISCONNECTED")
  <2>1. "PLUGIN_DISCONNECTED" \in BridgeErrors
    BY DEF BridgeErrors
  <2>2. /\ pending' = {}
        /\ cmdTimers' = {}
        /\ reply' \in [Calls -> {"none", "response"} \cup BridgeErrors]
    BY <1>3, <2>1, RejectPendingClears
  <2>3. LaneServed' /\ FreshCalls' /\ TimeoutsRemembered'
    BY <1>1, <1>3, <2>1, RejectionKeepsLane
  <2> USE DEF CoordinatorInv
  <2>4. BridgeTypeOK'
    BY <1>1, <1>3, <2>2, MaxConnsAssumption DEF BridgeTypeOK
  <2>5. (TimerIffPending /\ PairingConsistent /\ ServerStates)'
    BY <1>1, <1>2, <1>3, <2>2 DEF TimerIffPending, PairingConsistent, ServerStates, Paired
  <2>. QED
    BY <1>1, <2>3, <2>4, <2>5
<1>4. CASE socket # k /\ UNCHANGED <<socket, pending, cmdTimers, reply>>
  <2> USE DEF CoordinatorInv, queueVars
  <2>1. LaneServed' /\ FreshCalls' /\ TimeoutsRemembered'
    BY <1>1, <1>4 DEF LaneServed, PendingIsActive, FreshCalls, Untouched, TimeoutsRemembered
  <2>2. BridgeTypeOK' /\ TimerIffPending' /\ PairingConsistent'
    BY <1>1, <1>4 DEF BridgeTypeOK, TimerIffPending, PairingConsistent
  <2>3. ServerStates'
    BY <1>1, <1>4 DEF ServerStates, Paired
  <2>. QED
    BY <1>1, <2>1, <2>2, <2>3
<1>. QED
  BY <1>1, <1>3, <1>4

LEMMA CloseKeeps ==
  ASSUME CoordinatorInv, QueueInv', Close, UNCHANGED queueVars
  PROVE  CoordinatorInv'
<1>1. /\ wss = "ready"
      /\ wss' = "closing"
      /\ RejectPending("RUNTIME_UNAVAILABLE")
      /\ \/ Paired /\ server' = [server EXCEPT ![socket] = "closing"]
         \/ ~ Paired /\ server' = server
      /\ UNCHANGED <<socket, connectionGeneration, launching, sentGeneration, recentTimeouts,
                     orphans>>
  BY DEF Close
<1>2. "RUNTIME_UNAVAILABLE" \in BridgeErrors
  BY DEF BridgeErrors
<1>3. /\ pending' = {}
      /\ cmdTimers' = {}
      /\ reply' \in [Calls -> {"none", "response"} \cup BridgeErrors]
  BY <1>1, <1>2, RejectPendingClears
<1>4. LaneServed' /\ FreshCalls' /\ TimeoutsRemembered'
  BY <1>1, <1>2, RejectionKeepsLane
<1> USE DEF CoordinatorInv
<1>5. BridgeTypeOK'
  BY <1>1, <1>3 DEF BridgeTypeOK
<1>6. /\ server' \in [Conns -> {"none", "open", "closing", "closed"}]
      /\ \A k \in Conns : server'[k] # "open"
  <2>1. CASE ~ Paired
    <3>1. \A k \in Conns : server[k] # "open"
      BY <2>1, MaxConnsAssumption DEF PairingConsistent, Paired, Conns
    <3>. QED
      BY <1>1, <2>1, <3>1
  <2>2. CASE Paired
    <3>1. \A k \in Conns : k # socket => server[k] # "open"
      BY DEF PairingConsistent
    <3>. QED
      BY <1>1, <2>2, <3>1
  <2>. QED
    BY <2>1, <2>2
<1>7. (TimerIffPending /\ PairingConsistent)'
  BY <1>1, <1>3, <1>6 DEF TimerIffPending, PairingConsistent
<1>8. ServerStates'
  BY <1>1, <1>3, <1>6, MaxConnsAssumption DEF ServerStates, Paired, BridgeTypeOK, Conns
<1>. QED
  BY <1>4, <1>5, <1>6, <1>7, <1>8

LEMMA CloseEndsKeeps ==
  ASSUME CoordinatorInv, QueueInv', CloseEnds, UNCHANGED queueVars
  PROVE  CoordinatorInv'
<1> USE DEF CoordinatorInv, queueVars
<1>1. /\ wss = "closing"
      /\ wss' = "stopped"
      /\ socket' = 0
      /\ \A k \in Conns : server[k] \in {"none", "closed"}
      /\ UNCHANGED <<connectionGeneration, requestVars, server>>
  BY DEF CloseEnds, wireVars
<1>2. pending = {}
  BY <1>1 DEF ServerStates
<1>3. BridgeTypeOK'
  BY <1>1, MaxConnsAssumption DEF BridgeTypeOK, requestVars
<1>4. (TimerIffPending /\ PairingConsistent /\ ServerStates)'
  BY <1>1, <1>2 DEF TimerIffPending, PairingConsistent, ServerStates, Paired, requestVars
<1>5. LaneServed' /\ FreshCalls' /\ TimeoutsRemembered'
  BY <1>1 DEF LaneServed, PendingIsActive, FreshCalls, Untouched, TimeoutsRemembered, requestVars
<1>. QED
  BY <1>1, <1>3, <1>4, <1>5

(* A new connection supersedes the paired one, so that it is the only open *)
(* connection and the one the generation names.                            *)
LEMMA AcceptKeeps ==
  ASSUME CoordinatorInv, QueueInv', NEW k \in Conns, Accept(k), UNCHANGED queueVars
  PROVE  CoordinatorInv'
<1> USE DEF CoordinatorInv, queueVars
<1>1. /\ wss = "ready"
      /\ socket' = k
      /\ connectionGeneration' = k
      /\ \/ Paired /\ server' = [server EXCEPT ![k] = "open", ![socket] = "closing"]
         \/ ~ Paired /\ server' = [server EXCEPT ![k] = "open"]
      /\ k = connectionGeneration + 1
      /\ UNCHANGED <<wss, requestVars>>
  BY DEF Accept
<1>2. k \in Nat /\ k # 0 /\ k \in 0..MaxConns
  BY MaxConnsAssumption DEF Conns
<1>3. BridgeTypeOK'
  BY <1>1, <1>2 DEF BridgeTypeOK, requestVars
<1>4. /\ server' \in [Conns -> {"none", "open", "closing", "closed"}]
      /\ {l \in Conns : server'[l] = "open"} \subseteq {k}
  <2>1. CASE ~ Paired
    <3>1. \A l \in Conns : server[l] # "open"
      BY <2>1, <1>2 DEF PairingConsistent, Paired, Conns
    <3>. QED
      BY <1>1, <2>1, <3>1
  <2>2. CASE Paired
    <3>1. \A l \in Conns : l # socket => server[l] # "open"
      BY DEF PairingConsistent
    <3>. QED
      BY <1>1, <2>2, <3>1
  <2>. QED
    BY <2>1, <2>2
<1>5. (TimerIffPending /\ PairingConsistent)'
  BY <1>1, <1>2, <1>4 DEF TimerIffPending, PairingConsistent, requestVars
<1>6. ServerStates'
  BY <1>1 DEF ServerStates
<1>7. LaneServed' /\ FreshCalls' /\ TimeoutsRemembered'
  BY <1>1 DEF LaneServed, PendingIsActive, FreshCalls, Untouched, TimeoutsRemembered, requestVars
<1>. QED
  BY <1>3, <1>4, <1>5, <1>6, <1>7

(* What the plugin does is no business of the coordinator's own state.     *)
LEMMA NothingChangesKeeps ==
  ASSUME CoordinatorInv, UNCHANGED <<queueVars, bridgeVars, server>>
  PROVE  CoordinatorInv'
<1>1. QueueInv'
  BY QueueInvStep DEF CoordinatorInv
<1> USE DEF CoordinatorInv, queueVars, bridgeVars
<1>2. LaneServed' /\ FreshCalls' /\ TimeoutsRemembered'
  BY DEF LaneServed, PendingIsActive, FreshCalls, Untouched, TimeoutsRemembered
<1>3. (BridgeTypeOK /\ TimerIffPending /\ PairingConsistent /\ ServerStates)'
  BY DEF BridgeTypeOK, TimerIffPending, PairingConsistent, ServerStates, Paired
<1>. QED
  BY <1>1, <1>2, <1>3

-----------------------------------------------------------------------------
(***************************************************************************)
(* Types of the connections and of the plugin.                             *)
(***************************************************************************)
LEMMA MessageTypes ==
  /\ \A c \in Calls : Command(c) \in DownMessages /\ Response(c) \in UpMessages
  /\ CloseFrame \in DownMessages /\ CloseFrame \in UpMessages
  /\ \A m \in DownMessages : m.type = "command" => m.call \in Calls /\ m = Command(m.call)
  /\ \A m \in UpMessages : m.type = "response" => m.call \in Calls /\ m = Response(m.call)
  /\ \A c \in Calls : Command(c) # CloseFrame /\ Response(c) # CloseFrame
  /\ \A c, d \in Calls : (Command(c) = Command(d) => c = d) /\ (Response(c) = Response(d) => c = d)
BY DEF DownMessages, UpMessages, Command, Response, CloseFrame

LEMMA TailTyped ==
  ASSUME NEW S, NEW s \in Seq(S), s # <<>>
  PROVE  Tail(s) \in Seq(S) /\ Head(s) \in S
OBVIOUS

(* Paired connections and those of the plugin windows are connections.     *)
LEMMA PairedIsConnection ==
  ASSUME BridgeTypeOK, Paired
  PROVE  socket \in Conns
BY MaxConnsAssumption DEF BridgeTypeOK, Paired, Conns

LEMMA LinkIsConnection ==
  ASSUME PluginTypeOK, NEW p \in Plugins, ws[p] # 0
  PROVE  ws[p] \in Conns
BY MaxConnsAssumption DEF PluginTypeOK, Conns

WiresTyped ==
  /\ client \in [Conns -> {"none", "connecting", "open", "closed"}]
  /\ down \in [Conns -> Seq(DownMessages)]
  /\ up \in [Conns -> Seq(UpMessages)]

(* Closing the paired connection sends a close frame down it.              *)
LEMMA CloseFrameSent ==
  ASSUME WiresTyped, BridgeTypeOK, Paired
  PROVE  [down EXCEPT ![socket] = Append(down[socket], CloseFrame)] \in [Conns -> Seq(DownMessages)]
<1>1. socket \in Conns
  BY PairedIsConnection
<1>2. down[socket] \in Seq(DownMessages) /\ CloseFrame \in DownMessages
  BY <1>1, MessageTypes DEF WiresTyped
<1>3. Append(down[socket], CloseFrame) \in Seq(DownMessages)
  BY <1>2
<1>. QED
  BY <1>3 DEF WiresTyped

LEMMA BridgeKeepsWires ==
  ASSUME WiresTyped, PluginTypeOK, BridgeTypeOK, UNCHANGED pluginVars,
         \/ \E c \in Calls : Submit(c) \/ JobSettles(c) \/ Resume(c) \/ WaitExpires(c)
         \/ StartSettles \/ CommandExpires \/ BridgeEvent
  PROVE  WiresTyped' /\ PluginTypeOK'
<1>1. PluginTypeOK'
  BY DEF PluginTypeOK, pluginVars
<1> USE DEF WiresTyped
<1>2. ASSUME NEW c \in Calls, Submit(c) \/ JobSettles(c) \/ WaitExpires(c)
      PROVE  UNCHANGED wireVars
  BY <1>2 DEF Submit, JobSettles, WaitExpires, RunJob, Execute
<1>3. ASSUME NEW c \in Calls, ResumeSends(c)
      PROVE  WiresTyped'
  <2>1. socket \in Conns
    BY <1>3, PairedIsConnection DEF ResumeSends
  <2>. QED
    BY <1>3, <2>1, MessageTypes DEF ResumeSends
<1>4. ASSUME NEW c \in Calls, ResumeFails(c)
      PROVE  UNCHANGED wireVars
  BY <1>4 DEF ResumeFails
<1>5. ASSUME StartSettles \/ CommandExpires \/ Status \/ CloseEnds
      PROVE  UNCHANGED wireVars
  BY <1>5 DEF StartSettles, StartReady, StartFails, CommandExpires, CommandTimer, Status, CloseEnds
<1>6. ASSUME NEW k \in Conns, OnMessage(k)
      PROVE  WiresTyped'
  BY <1>6, TailTyped DEF OnMessage
<1>7. ASSUME NEW k \in Conns, OnClose(k)
      PROVE  WiresTyped'
  <2>1. <<>> \in Seq(UpMessages)
    OBVIOUS
  <2>. QED
    BY <1>7, <2>1 DEF OnClose
<1>8. ASSUME Close
      PROVE  WiresTyped'
  <2>1. CASE Paired
    BY <1>8, <2>1, CloseFrameSent DEF Close
  <2>2. CASE ~ Paired
    BY <1>8, <2>2 DEF Close
  <2>. QED
    BY <2>1, <2>2
<1>9. UNCHANGED wireVars => WiresTyped'
  BY DEF wireVars
<1>. QED
  BY <1>1, <1>2, <1>3, <1>4, <1>5, <1>6, <1>7, <1>8, <1>9 DEF Resume, BridgeEvent

(* What is left of a connection that breaks.                               *)
LEMMA BreakTyped ==
  ASSUME WiresTyped, PluginTypeOK, NEW p \in Plugins, Linked(p), Break(p)
  PROVE  WiresTyped'
<1>1. ws[p] \in Conns
  BY LinkIsConnection DEF Linked
<1>2. PICK n \in 0..Len(up[ws[p]]) :
        up' = [up EXCEPT ![ws[p]] = Append(SubSeq(up[ws[p]], 1, n), CloseFrame)]
  BY DEF Break
<1>3. up[ws[p]] \in Seq(UpMessages)
  BY <1>1 DEF WiresTyped
<1>4. SubSeq(up[ws[p]], 1, n) \in Seq(UpMessages)
  BY <1>3
<1>5. Append(SubSeq(up[ws[p]], 1, n), CloseFrame) \in Seq(UpMessages)
  BY <1>4, MessageTypes
<1>6. <<>> \in Seq(DownMessages)
  OBVIOUS
<1>. QED
  BY <1>1, <1>2, <1>5, <1>6 DEF WiresTyped, Break

LEMMA PluginKeepsWires ==
  ASSUME WiresTyped, PluginTypeOK, BridgeTypeOK, NEW p \in Plugins,
         PluginConnects(p) \/ PluginEvent(p)
  PROVE  WiresTyped' /\ PluginTypeOK'
<1>1. CASE PluginConnects(p)
  <2>1. PICK k \in Conns : Connect(p, k) /\ Accept(k)
    BY <1>1 DEF PluginConnects
  <2>2. PluginTypeOK'
    BY <2>1, MaxConnsAssumption DEF Connect, PluginTypeOK, Conns
  <2>3. down' \in [Conns -> Seq(DownMessages)]
    BY <2>1, CloseFrameSent DEF Accept, WiresTyped
  <2>. QED
    BY <2>1, <2>2, <2>3 DEF Connect, Accept, WiresTyped
<1>2. CASE UiOpen(p)
  BY <1>2, LinkIsConnection DEF UiOpen, WiresTyped, PluginTypeOK, pluginVars
<1>3. CASE UiCommand(p)
  <2>1. ws[p] \in Conns /\ down[ws[p]] \in Seq(DownMessages) /\ down[ws[p]] # <<>>
    BY <1>3, LinkIsConnection DEF UiCommand, WiresTyped
  <2>2. Head(down[ws[p]]).call \in Calls /\ Tail(down[ws[p]]) \in Seq(DownMessages)
    BY <1>3, <2>1, TailTyped, MessageTypes DEF UiCommand
  <2>. QED
    BY <1>3, <2>1, <2>2 DEF UiCommand, WiresTyped, PluginTypeOK
<1>4. CASE UiClosed(p)
  <2>1. ws[p] \in Conns
    BY <1>4, LinkIsConnection DEF UiClosed
  <2>2. <<>> \in Seq(DownMessages)
    OBVIOUS
  <2>. QED
    BY <1>4, <2>1, <2>2, MessageTypes DEF UiClosed, WiresTyped, PluginTypeOK, pluginVars
<1>5. ASSUME NEW c \in Calls, HandlerEnds(p, c)
      PROVE  WiresTyped' /\ PluginTypeOK'
  <2>1. PluginTypeOK'
    BY <1>5 DEF HandlerEnds, PluginTypeOK
  <2>2. up' \in [Conns -> Seq(UpMessages)]
    BY <1>5, LinkIsConnection, MessageTypes DEF HandlerEnds, WiresTyped
  <2>. QED
    BY <1>5, <2>1, <2>2 DEF HandlerEnds, WiresTyped
<1>6. CASE ConnectionLost(p)
  BY <1>6, BreakTyped DEF ConnectionLost, PluginTypeOK, pluginVars
<1>7. CASE PluginQuits(p)
  <2>1. PluginTypeOK'
    BY <1>7 DEF PluginQuits, PluginTypeOK
  <2>2. WiresTyped'
    BY <1>7, BreakTyped DEF PluginQuits, WiresTyped, wireVars
  <2>. QED
    BY <2>1, <2>2
<1>. QED
  BY <1>1, <1>2, <1>3, <1>4, <1>5, <1>6, <1>7 DEF PluginEvent

-----------------------------------------------------------------------------
(***************************************************************************)
(* The coordinator's invariant, with the types of what it shares.          *)
(***************************************************************************)
SharedInv ==
  /\ CoordinatorInv
  /\ WiresTyped
  /\ PluginTypeOK

LEMMA SharedInvInit == Init => SharedInv
<1> SUFFICES ASSUME Init
             PROVE  SharedInv
  OBVIOUS
<1> USE DEF Init, QueueInit, BridgeInit, WireInit, PluginInit
<1>1. QueueInv
  BY QueueInvInit
<1>2. BridgeTypeOK
  BY MaxConnsAssumption DEF BridgeTypeOK
<1>3. /\ server \in [Conns -> {"none", "open", "closing", "closed"}]
      /\ WiresTyped
      /\ PluginTypeOK
  BY MaxConnsAssumption DEF WiresTyped, PluginTypeOK
<1>4. LaneServed /\ FreshCalls /\ TimeoutsRemembered
  BY DEF LaneServed, PendingIsActive, FreshCalls, Untouched, TimeoutsRemembered
<1>5. TimerIffPending /\ PairingConsistent /\ ServerStates
  BY DEF TimerIffPending, PairingConsistent, ServerStates
<1>. QED
  BY <1>1, <1>2, <1>3, <1>4, <1>5 DEF SharedInv, CoordinatorInv

LEMMA SharedInvStep == SharedInv /\ [Next]_vars => SharedInv'
<1> SUFFICES ASSUME SharedInv, [Next]_vars
             PROVE  SharedInv'
  OBVIOUS
<1>1. /\ CoordinatorInv
      /\ WiresTyped
      /\ PluginTypeOK
      /\ BridgeTypeOK
      /\ WireTypeOK
  BY DEF SharedInv, CoordinatorInv, WiresTyped, WireTypeOK
<1>2. QueueInv'
  BY <1>1, QueueInvKept DEF CoordinatorInv
<1>3. ASSUME NEW c \in Calls, Submit(c) \/ JobSettles(c) \/ WaitExpires(c)
      PROVE  SharedInv'
  <2>1. CoordinatorInv'
    BY <1>1, <1>2, <1>3, SubmitKeeps, JobSettlesKeeps, WaitExpiresKeeps
  <2>2. UNCHANGED pluginVars
    BY <1>3 DEF Submit, JobSettles, WaitExpires
  <2>. QED
    BY <1>1, <1>3, <2>1, <2>2, BridgeKeepsWires DEF SharedInv
<1>4. ASSUME NEW c \in Calls, Resume(c)
      PROVE  SharedInv'
  <2>1. CoordinatorInv'
    BY <1>1, <1>2, <1>4, ResumeFailsKeeps, ResumeSendsKeeps DEF Resume
  <2>2. UNCHANGED pluginVars
    BY <1>4 DEF Resume
  <2>. QED
    BY <1>1, <1>4, <2>1, <2>2, BridgeKeepsWires DEF SharedInv
<1>5. ASSUME StartSettles \/ CommandExpires \/ BridgeEvent
      PROVE  SharedInv'
  <2>1. UNCHANGED queueVars /\ UNCHANGED pluginVars
    BY <1>5 DEF StartSettles, CommandExpires, BridgeEvent
  <2>2. \/ StartReady \/ StartFails \/ Status \/ Close \/ CloseEnds
        \/ \E c \in Calls : CommandTimer(c)
        \/ \E k \in Conns : OnMessage(k) \/ OnClose(k)
    BY <1>5 DEF StartSettles, CommandExpires, BridgeEvent
  <2>3. CoordinatorInv'
    BY <1>1, <1>2, <2>1, <2>2, StartSettlesKeeps, CloseKeeps, CloseEndsKeeps, CommandTimerKeeps,
       OnMessageKeeps, OnCloseKeeps
  <2>. QED
    BY <1>1, <1>5, <2>1, <2>3, BridgeKeepsWires DEF SharedInv
<1>6. ASSUME NEW p \in Plugins, PluginConnects(p) \/ PluginEvent(p)
      PROVE  SharedInv'
  <2>1. UNCHANGED queueVars
    BY <1>6 DEF PluginConnects, PluginEvent
  <2>2. CASE PluginConnects(p)
    BY <1>1, <1>2, <2>1, <2>2, AcceptKeeps, PluginKeepsWires DEF PluginConnects, SharedInv
  <2>3. CASE PluginEvent(p)
    <3>1. UNCHANGED <<bridgeVars, server>>
      BY <2>3 DEF PluginEvent, UiOpen, UiCommand, UiClosed, HandlerEnds, ConnectionLost,
                  PluginQuits, Break, wireVars
    <3>. QED
      BY <1>1, <2>1, <2>3, <3>1, NothingChangesKeeps, PluginKeepsWires DEF SharedInv
  <2>. QED
    BY <1>6, <2>2, <2>3
<1>7. CASE UNCHANGED vars
  <2>1. UNCHANGED <<queueVars, bridgeVars, wireVars, pluginVars>>
    BY <1>7 DEF vars
  <2>2. CoordinatorInv'
    BY <1>1, <2>1, NothingChangesKeeps DEF wireVars
  <2>. QED
    BY <1>1, <2>1, <2>2 DEF SharedInv, WiresTyped, PluginTypeOK, wireVars, pluginVars
<1>. QED
  BY <1>3, <1>4, <1>5, <1>6, <1>7 DEF Next

THEOREM SharedCorrect == Spec => []SharedInv
BY SharedInvInit, SharedInvStep, PTL DEF Spec

(***************************************************************************)
(* The theorems.                                                           *)
(***************************************************************************)
(* Every variable of the runtime keeps its type, the messages on the       *)
(* connections included.                                                   *)
THEOREM RuntimeTypes == Spec => []RuntimeTypeOK
<1>1. SharedInv => RuntimeTypeOK
  BY DEF SharedInv, CoordinatorInv, WiresTyped, RuntimeTypeOK, WireTypeOK, QueueInv
<1>. QED
  BY <1>1, SharedCorrect, PTL

(* The bridge serves one request at a time, that of the call on the lane:  *)
(* none outlives the answer its caller was given.                          *)
THEOREM OneRequestAtATime == Spec => []PendingIsActive
<1>1. SharedInv => PendingIsActive
  BY DEF SharedInv, CoordinatorInv, LaneServed
<1>. QED
  BY <1>1, SharedCorrect, PTL

(* No command timer outlives its request, and no request waits without     *)
(* one, through responses, disconnections and shutdowns alike.             *)
THEOREM TimersAreExact == Spec => []TimerIffPending
<1>1. SharedInv => TimerIffPending
  BY DEF SharedInv, CoordinatorInv
<1>. QED
  BY <1>1, SharedCorrect, PTL

(* One connection at most is open, it is the paired one, and its           *)
(* generation is the one requests are stamped with.                        *)
THEOREM PairingIsConsistent == Spec => []PairingConsistent
<1>1. SharedInv => PairingConsistent
  BY DEF SharedInv, CoordinatorInv
<1>. QED
  BY <1>1, SharedCorrect, PTL

(* The queue keeps its promises inside the runtime.                        *)
THEOREM QueueCorrectInRuntime == Spec => []QueueInv
<1>1. SharedInv => QueueInv
  BY DEF SharedInv, CoordinatorInv
<1>. QED
  BY <1>1, SharedCorrect, PTL

-----------------------------------------------------------------------------
(***************************************************************************)
(* Messages in flight.  No step but the sending of one adds a command to a *)
(* connection, and no step but the end of a handler adds a response: all   *)
(* others leave a connection with fewer messages, from the n-th on, or     *)
(* with a close frame at the end.                                          *)
(***************************************************************************)
FewerCommands(k, n) ==
  \A l \in Conns : \A i \in 1..Len(down'[l]) : \A c \in Calls :
    down'[l][i] = Command(c) =>
      /\ (IF l = k THEN i + n ELSE i) \in 1..Len(down[l])
      /\ down[l][IF l = k THEN i + n ELSE i] = Command(c)

FewerResponses(k, n) ==
  \A l \in Conns : \A i \in 1..Len(up'[l]) : \A c \in Calls :
    up'[l][i] = Response(c) =>
      /\ (IF l = k THEN i + n ELSE i) \in 1..Len(up[l])
      /\ up[l][IF l = k THEN i + n ELSE i] = Response(c)

LEMMA AppendFrame ==
  ASSUME NEW S, NEW s \in Seq(S), NEW m \in S
  PROVE  /\ Append(s, m) \in Seq(S)
         /\ Len(Append(s, m)) = Len(s) + 1
         /\ \A i \in 1..Len(Append(s, m)) :
              IF i = Len(s) + 1 THEN Append(s, m)[i] = m
              ELSE i \in 1..Len(s) /\ Append(s, m)[i] = s[i]
OBVIOUS

LEMMA TailShift ==
  ASSUME NEW S, NEW s \in Seq(S), s # <<>>
  PROVE  /\ Tail(s) \in Seq(S)
         /\ Head(s) = s[1] /\ 1 \in 1..Len(s)
         /\ \A i \in 1..Len(Tail(s)) : i + 1 \in 1..Len(s) /\ Tail(s)[i] = s[i + 1]
OBVIOUS

(* The five ways in which a connection's messages to the plugin change.    *)
LEMMA SameDown ==
  ASSUME WiresTyped, UNCHANGED down, NEW k
  PROVE  FewerCommands(k, 0)
<1>1. \A l \in Conns : Len(down[l]) \in Nat
  BY DEF WiresTyped
<1>. QED
  BY <1>1 DEF FewerCommands

LEMMA ClearDown ==
  ASSUME WiresTyped, NEW k \in Conns, down' = [down EXCEPT ![k] = <<>>]
  PROVE  FewerCommands(k, 0)
<1>1. \A l \in Conns : Len(down[l]) \in Nat
  BY DEF WiresTyped
<1>2. down'[k] = <<>> /\ Len(<<>>) = 0 /\ \A l \in Conns : l # k => down'[l] = down[l]
  BY DEF WiresTyped
<1>. QED
  BY <1>1, <1>2 DEF FewerCommands

LEMMA FrameDown ==
  ASSUME WiresTyped, NEW k \in Conns, down' = [down EXCEPT ![k] = Append(down[k], CloseFrame)]
  PROVE  FewerCommands(k, 0)
<1>1. \A l \in Conns : down[l] \in Seq(DownMessages) /\ Len(down[l]) \in Nat
  BY DEF WiresTyped
<1>2. /\ down'[k] = Append(down[k], CloseFrame)
      /\ \A l \in Conns : l # k => down'[l] = down[l]
  BY DEF WiresTyped
<1>3. \A i \in 1..Len(down'[k]) :
        IF i = Len(down[k]) + 1 THEN down'[k][i] = CloseFrame
        ELSE i \in 1..Len(down[k]) /\ down'[k][i] = down[k][i]
  BY <1>1, <1>2, AppendFrame, MessageTypes
<1>. QED
  BY <1>1, <1>2, <1>3, MessageTypes DEF FewerCommands

LEMMA TailDown ==
  ASSUME WiresTyped, NEW k \in Conns, down[k] # <<>>, down' = [down EXCEPT ![k] = Tail(down[k])]
  PROVE  FewerCommands(k, 1)
<1>1. \A l \in Conns : down[l] \in Seq(DownMessages) /\ Len(down[l]) \in Nat
  BY DEF WiresTyped
<1>2. /\ down'[k] = Tail(down[k])
      /\ \A l \in Conns : l # k => down'[l] = down[l]
  BY DEF WiresTyped
<1>3. \A i \in 1..Len(down'[k]) : i + 1 \in 1..Len(down[k]) /\ down'[k][i] = down[k][i + 1]
  <2>1. \A i \in 1..Len(Tail(down[k])) :
          i + 1 \in 1..Len(down[k]) /\ Tail(down[k])[i] = down[k][i + 1]
    BY <1>1, TailShift
  <2>. QED
    BY <1>2, <2>1
<1>. QED
  BY <1>1, <1>2, <1>3 DEF FewerCommands

(* The same for the messages to the bridge.                                *)
LEMMA SameUp ==
  ASSUME WiresTyped, UNCHANGED up, NEW k
  PROVE  FewerResponses(k, 0)
<1>1. \A l \in Conns : Len(up[l]) \in Nat
  BY DEF WiresTyped
<1>. QED
  BY <1>1 DEF FewerResponses

LEMMA ClearUp ==
  ASSUME WiresTyped, NEW k \in Conns, up' = [up EXCEPT ![k] = <<>>]
  PROVE  FewerResponses(k, 0)
<1>1. \A l \in Conns : Len(up[l]) \in Nat
  BY DEF WiresTyped
<1>2. up'[k] = <<>> /\ Len(<<>>) = 0 /\ \A l \in Conns : l # k => up'[l] = up[l]
  BY DEF WiresTyped
<1>. QED
  BY <1>1, <1>2 DEF FewerResponses

LEMMA TailUp ==
  ASSUME WiresTyped, NEW k \in Conns, up[k] # <<>>, up' = [up EXCEPT ![k] = Tail(up[k])]
  PROVE  FewerResponses(k, 1)
<1>1. \A l \in Conns : up[l] \in Seq(UpMessages) /\ Len(up[l]) \in Nat
  BY DEF WiresTyped
<1>2. /\ up'[k] = Tail(up[k])
      /\ \A l \in Conns : l # k => up'[l] = up[l]
  BY DEF WiresTyped
<1>3. \A i \in 1..Len(up'[k]) : i + 1 \in 1..Len(up[k]) /\ up'[k][i] = up[k][i + 1]
  <2>1. \A i \in 1..Len(Tail(up[k])) :
          i + 1 \in 1..Len(up[k]) /\ Tail(up[k])[i] = up[k][i + 1]
    BY <1>1, TailShift
  <2>. QED
    BY <1>2, <2>1
<1>. QED
  BY <1>1, <1>2, <1>3 DEF FewerResponses

(* A prefix and a close frame: an orderly close keeps all, a break some.   *)
LEMMA PrefixUp ==
  ASSUME WiresTyped, NEW k \in Conns, NEW n \in 0..Len(up[k]),
         up' = [up EXCEPT ![k] = Append(SubSeq(up[k], 1, n), CloseFrame)]
  PROVE  FewerResponses(k, 0)
<1>1. \A l \in Conns : up[l] \in Seq(UpMessages) /\ Len(up[l]) \in Nat
  BY DEF WiresTyped
<1>2. /\ up'[k] = Append(SubSeq(up[k], 1, n), CloseFrame)
      /\ \A l \in Conns : l # k => up'[l] = up[l]
  BY DEF WiresTyped
<1>3. /\ SubSeq(up[k], 1, n) \in Seq(UpMessages)
      /\ Len(SubSeq(up[k], 1, n)) = n
      /\ \A i \in 1..n : i \in 1..Len(up[k]) /\ SubSeq(up[k], 1, n)[i] = up[k][i]
  BY <1>1
<1>4. \A i \in 1..Len(up'[k]) :
        IF i = n + 1 THEN up'[k][i] = CloseFrame
        ELSE i \in 1..Len(up[k]) /\ up'[k][i] = up[k][i]
  BY <1>2, <1>3, AppendFrame, MessageTypes
<1>. QED
  BY <1>1, <1>2, <1>4, MessageTypes DEF FewerResponses

LEMMA FrameUp ==
  ASSUME WiresTyped, NEW k \in Conns, up' = [up EXCEPT ![k] = Append(up[k], CloseFrame)]
  PROVE  FewerResponses(k, 0)
<1>1. up[k] \in Seq(UpMessages) /\ Len(up[k]) \in Nat /\ Len(up[k]) \in 0..Len(up[k])
  BY DEF WiresTyped
<1>2. SubSeq(up[k], 1, Len(up[k])) = up[k]
  BY <1>1
<1>. QED
  BY <1>1, <1>2, PrefixUp

-----------------------------------------------------------------------------
(***************************************************************************)
(* Steps that send nothing, run nothing and count nothing.                 *)
(***************************************************************************)
LEMMA CommandsShrink ==
  ASSUME WiresTyped, CommandsInFlight, NEW k \in Conns, NEW n \in Nat, FewerCommands(k, n),
         UNCHANGED sentGeneration, \A c \in Calls : ran[c] = "no" => ran'[c] = "no"
  PROVE  CommandsInFlight'
<1> SUFFICES ASSUME NEW l \in Conns, NEW i \in 1..Len(down'[l]), NEW c \in Calls,
                    down'[l][i] = Command(c)
             PROVE  /\ sentGeneration'[c] = l
                    /\ ran'[c] = "no"
                    /\ \A j \in 1..Len(down'[l]) : down'[l][j] = Command(c) => i = j
  BY DEF CommandsInFlight
<1> DEFINE old(j) == IF l = k THEN j + n ELSE j
<1>1. \A j \in 1..Len(down'[l]) :
        down'[l][j] = Command(c) => old(j) \in 1..Len(down[l]) /\ down[l][old(j)] = Command(c)
  BY DEF FewerCommands
<1>2. \A j \in 1..Len(down'[l]) : old(i) = old(j) => i = j
  OBVIOUS
<1> HIDE DEF old
<1>3. old(i) \in 1..Len(down[l]) /\ down[l][old(i)] = Command(c)
  BY <1>1
<1>4. /\ sentGeneration[c] = l
      /\ ran[c] = "no"
      /\ \A j \in 1..Len(down[l]) : down[l][j] = Command(c) => old(i) = j
  BY <1>3 DEF CommandsInFlight
<1>5. \A j \in 1..Len(down'[l]) : down'[l][j] = Command(c) => old(i) = old(j)
  BY <1>1, <1>4
<1>. QED
  BY <1>2, <1>4, <1>5

LEMMA ResponsesShrink ==
  ASSUME WiresTyped, ResponsesInFlight, NEW k \in Conns, NEW n \in Nat, FewerResponses(k, n),
         UNCHANGED orphans, \A c \in Calls : ran[c] = "done" => ran'[c] = "done"
  PROVE  ResponsesInFlight'
<1> DEFINE old(l, j) == IF l = k THEN j + n ELSE j
<1> SUFFICES ASSUME NEW l \in Conns, NEW i \in 1..Len(up'[l]), NEW c \in Calls,
                    up'[l][i] = Response(c)
             PROVE  /\ ran'[c] = "done"
                    /\ orphans'[c] = 0
                    /\ \A m \in Conns : \A j \in 1..Len(up'[m]) :
                         up'[m][j] = Response(c) => l = m /\ i = j
  BY DEF ResponsesInFlight
<1>1. \A m \in Conns : \A j \in 1..Len(up'[m]) :
        up'[m][j] = Response(c) =>
          old(m, j) \in 1..Len(up[m]) /\ up[m][old(m, j)] = Response(c)
  BY DEF FewerResponses
<1>2. \A j \in 1..Len(up'[l]) : old(l, i) = old(l, j) => i = j
  OBVIOUS
<1> HIDE DEF old
<1>3. old(l, i) \in 1..Len(up[l]) /\ up[l][old(l, i)] = Response(c)
  BY <1>1
<1>4. /\ ran[c] = "done"
      /\ orphans[c] = 0
      /\ \A m \in Conns : \A j \in 1..Len(up[m]) :
           up[m][j] = Response(c) => l = m /\ old(l, i) = j
  BY <1>3 DEF ResponsesInFlight
<1>5. \A m \in Conns : \A j \in 1..Len(up'[m]) :
        up'[m][j] = Response(c) => l = m /\ old(l, i) = old(m, j)
  BY <1>1, <1>4
<1>. QED
  BY <1>2, <1>4, <1>5

(* What a request that waits, or is about to be sent, has not yet had.     *)
LEMMA WaitingUnanswered ==
  ASSUME CoordinatorInv, NEW c, c \in pending \/ c \in launching
  PROVE  /\ c \in Calls
         /\ c = active
         /\ promise[c] = "pending"
         /\ reply[c] = "none"
<1>1. c \in Calls /\ c = active
  BY DEF CoordinatorInv, BridgeTypeOK, LaneServed, PendingIsActive
<1>. QED
  BY <1>1, NoCallAssumption DEF CoordinatorInv, LaneServed, QueueInv, PendingIsPlaced

(* Replies given stay, and none is a response that was not one before.     *)
RepliesKept ==
  \A c \in Calls :
    /\ reply[c] # "none" => reply'[c] = reply[c]
    /\ reply'[c] = "response" => reply[c] = "response"

(* A promise that a step resolves is that of a call with a response.       *)
ResolvedByResponse ==
  \A c \in Calls : promise'[c] = "resolved" => promise[c] = "resolved" \/ reply[c] = "response"

LEMMA QuietStep ==
  ASSUME SharedInv, SharedInv', DeliveryInv,
         UNCHANGED <<sentGeneration, ran, executing, orphans>>,
         RepliesKept, ResolvedByResponse,
         NEW k \in Conns, NEW n \in Nat, FewerCommands(k, n),
         NEW l \in Conns, NEW m \in Nat, FewerResponses(l, m)
  PROVE  DeliveryInv'
<1>1. WiresTyped /\ FreshCalls' /\ TimeoutsRemembered'
  BY DEF SharedInv, CoordinatorInv
<1> USE DEF DeliveryInv
<1>2. CommandsInFlight'
  BY <1>1, CommandsShrink
<1>3. ResponsesInFlight'
  BY <1>1, ResponsesShrink
<1>4. HandlersRun'
  BY DEF HandlersRun
<1>5. UnsentIsUntouched'
  BY <1>1 DEF UnsentIsUntouched, FreshCalls
<1>6. AnswersAreEarned'
  BY DEF AnswersAreEarned, RepliesKept, ResolvedByResponse
<1>7. OrphansAreLateAnswers'
  BY <1>1 DEF OrphansAreLateAnswers, TimeoutsRemembered
<1>. QED
  BY <1>2, <1>3, <1>4, <1>5, <1>6, <1>7

(* The same for a step that leaves the connections alone.                  *)
LEMMA StillStep ==
  ASSUME SharedInv, SharedInv', DeliveryInv,
         UNCHANGED <<sentGeneration, ran, executing, orphans, down, up>>,
         RepliesKept, ResolvedByResponse
  PROVE  DeliveryInv'
<1>1. CommandsInFlight' /\ ResponsesInFlight'
  BY DEF DeliveryInv, CommandsInFlight, ResponsesInFlight
<1>2. FreshCalls' /\ TimeoutsRemembered'
  BY DEF SharedInv, CoordinatorInv
<1> USE DEF DeliveryInv
<1>3. HandlersRun' /\ AnswersAreEarned'
  BY DEF HandlersRun, AnswersAreEarned, RepliesKept, ResolvedByResponse
<1>4. UnsentIsUntouched' /\ OrphansAreLateAnswers'
  BY <1>2 DEF UnsentIsUntouched, FreshCalls, OrphansAreLateAnswers, TimeoutsRemembered
<1>. QED
  BY <1>1, <1>3, <1>4

LEMMA QueueStepsDeliver ==
  ASSUME SharedInv, SharedInv', DeliveryInv, NEW c \in Calls,
         Submit(c) \/ JobSettles(c) \/ WaitExpires(c)
  PROVE  DeliveryInv'
<1>1. UNCHANGED <<sentGeneration, reply, orphans, down, up, pluginVars>>
  BY DEF Submit, JobSettles, WaitExpires, RunJob, Execute, bridgeVars, wireVars
<1>2. promise \in [Calls -> {"uncalled", "pending"} \cup Outcomes]
  BY DEF SharedInv, CoordinatorInv, QueueInv, QueueTypeOK
<1>3. ResolvedByResponse
  <2>1. CASE Submit(c)
    BY <1>2, <2>1 DEF Submit, Enqueue, EnqueueFull, ResolvedByResponse
  <2>2. CASE JobSettles(c)
    <3>1. promise' = [promise EXCEPT ![c] = IF reply[c] = "response" THEN "resolved"
                                                                     ELSE "rejected"]
      BY <2>2 DEF JobSettles, Finish
    <3>. QED
      BY <1>2, <3>1 DEF ResolvedByResponse
  <2>3. CASE WaitExpires(c)
    BY <1>2, <2>3, WaitTimerMoves DEF WaitExpires, SharedInv, CoordinatorInv, ResolvedByResponse
  <2>. QED
    BY <2>1, <2>2, <2>3
<1>4. RepliesKept
  BY <1>1 DEF RepliesKept
<1>. QED
  BY <1>1, <1>3, <1>4, StillStep DEF pluginVars

(* The bridge gives an answer that is not a response.                      *)
LEMMA RejectionsDeliver ==
  ASSUME SharedInv, SharedInv', DeliveryInv, NEW c \in Calls,
         ResumeFails(c) \/ CommandTimer(c), UNCHANGED <<queueVars, pluginVars>>
  PROVE  DeliveryInv'
<1>1. CoordinatorInv
  BY DEF SharedInv
<1>2. UNCHANGED <<promise, sentGeneration, orphans, down, up, ran, executing>>
  BY DEF ResumeFails, CommandTimer, wireVars, pluginVars, queueVars
<1>3. c \in pending \/ c \in launching
  BY <1>1 DEF ResumeFails, CommandTimer, CoordinatorInv, TimerIffPending
<1>4. reply[c] = "none"
  BY <1>1, <1>3, WaitingUnanswered
<1>5. PICK code \in BridgeErrors : reply' = [reply EXCEPT ![c] = code]
  BY DEF ResumeFails, CommandTimer, BridgeErrors
<1>6. reply \in [Calls -> {"none", "response"} \cup BridgeErrors]
  BY <1>1 DEF CoordinatorInv, BridgeTypeOK
<1>7. RepliesKept
  BY <1>4, <1>5, <1>6 DEF RepliesKept, BridgeErrors
<1>8. ResolvedByResponse
  BY <1>2 DEF ResolvedByResponse
<1>. QED
  BY <1>2, <1>7, <1>8, StillStep

(* The server comes up, fails to, or is gone.                              *)
LEMMA ServerStepsDeliver ==
  ASSUME SharedInv, SharedInv', DeliveryInv,
         StartReady \/ StartFails \/ Status \/ CloseEnds, UNCHANGED <<queueVars, pluginVars>>
  PROVE  DeliveryInv'
<1>1. UNCHANGED <<promise, reply, sentGeneration, orphans, down, up, ran, executing>>
  BY DEF StartReady, StartFails, Status, CloseEnds, requestVars, wireVars, pluginVars, queueVars
<1>2. RepliesKept /\ ResolvedByResponse
  BY <1>1 DEF RepliesKept, ResolvedByResponse
<1>. QED
  BY <1>1, <1>2, StillStep

(* The bridge sends a command: the first and only copy of it.              *)
LEMMA ResumeSendsDelivers ==
  ASSUME SharedInv, SharedInv', DeliveryInv, NEW c \in Calls, ResumeSends(c),
         UNCHANGED <<queueVars, pluginVars>>
  PROVE  DeliveryInv'
<1>1. /\ CoordinatorInv /\ WiresTyped
      /\ FreshCalls' /\ TimeoutsRemembered'
  BY DEF SharedInv, CoordinatorInv
<1>2. socket \in Conns /\ connectionGeneration = socket
  <2>1. socket \in Conns
    BY <1>1, PairedIsConnection DEF ResumeSends, CoordinatorInv
  <2>. QED
    BY <1>1, <2>1, MaxConnsAssumption DEF CoordinatorInv, PairingConsistent, Conns
<1>3. c = active /\ promise[c] = "pending" /\ sentGeneration[c] = 0 /\ ran[c] = "no"
  <2>1. c = active /\ promise[c] = "pending"
    BY <1>1, WaitingUnanswered DEF ResumeSends
  <2>2. sentGeneration[c] = 0
    BY <1>1 DEF ResumeSends, CoordinatorInv, FreshCalls
  <2>. QED
    BY <2>1, <2>2 DEF DeliveryInv, UnsentIsUntouched
<1>4. /\ sentGeneration' = [sentGeneration EXCEPT ![c] = socket]
      /\ down' = [down EXCEPT ![socket] = Append(down[socket], Command(c))]
      /\ UNCHANGED <<promise, reply, orphans, up, ran, executing>>
  BY <1>2 DEF ResumeSends, pluginVars, queueVars
<1>5. sentGeneration \in [Calls -> 0..MaxConns]
  BY <1>1 DEF CoordinatorInv, BridgeTypeOK
<1>6. /\ \A l \in Conns : down[l] \in Seq(DownMessages) /\ Len(down[l]) \in Nat
      /\ down'[socket] = Append(down[socket], Command(c))
      /\ \A l \in Conns : l # socket => down'[l] = down[l]
  BY <1>1, <1>2, <1>4 DEF WiresTyped
<1>7. \A i \in 1..Len(down'[socket]) :
        IF i = Len(down[socket]) + 1 THEN down'[socket][i] = Command(c)
        ELSE i \in 1..Len(down[socket]) /\ down'[socket][i] = down[socket][i]
  <2>1. Command(c) \in DownMessages /\ down[socket] \in Seq(DownMessages)
    BY <1>2, <1>6, MessageTypes
  <2>. QED
    BY <1>6, <2>1, AppendFrame
<1>8. \A l \in Conns : \A i \in 1..Len(down[l]) : down[l][i] # Command(c)
  BY <1>3, MaxConnsAssumption DEF DeliveryInv, CommandsInFlight, Conns
<1>9. CommandsInFlight'
  <2> SUFFICES ASSUME NEW l \in Conns, NEW i \in 1..Len(down'[l]), NEW d \in Calls,
                      down'[l][i] = Command(d)
               PROVE  /\ sentGeneration'[d] = l
                      /\ ran'[d] = "no"
                      /\ \A j \in 1..Len(down'[l]) : down'[l][j] = Command(d) => i = j
    BY DEF CommandsInFlight
  <2>1. CASE d = c
    <3>1. l = socket /\ i = Len(down[socket]) + 1
      BY <1>6, <1>7, <1>8, <2>1
    <3>2. \A j \in 1..Len(down'[l]) : down'[l][j] = Command(d) => j = Len(down[socket]) + 1
      BY <1>7, <1>8, <2>1, <3>1
    <3>. QED
      BY <1>3, <1>4, <1>5, <2>1, <3>1, <3>2
  <2>2. CASE d # c
    <3>1. Command(d) # Command(c)
      BY <2>2 DEF Command
    <3>2. \A j \in 1..Len(down'[l]) :
            down'[l][j] = Command(d) => j \in 1..Len(down[l]) /\ down[l][j] = Command(d)
      BY <1>6, <1>7, <3>1
    <3>3. i \in 1..Len(down[l]) /\ down[l][i] = Command(d)
      BY <3>2
    <3>4. /\ sentGeneration[d] = l
          /\ ran[d] = "no"
          /\ \A j \in 1..Len(down[l]) : down[l][j] = Command(d) => i = j
      BY <3>3 DEF DeliveryInv, CommandsInFlight
    <3>5. sentGeneration'[d] = l /\ ran'[d] = "no"
      BY <1>4, <1>5, <2>2, <3>4
    <3>. QED
      BY <3>2, <3>4, <3>5
  <2>. QED
    BY <2>1, <2>2
<1>10. ResponsesInFlight' /\ HandlersRun' /\ AnswersAreEarned'
  BY <1>4 DEF DeliveryInv, ResponsesInFlight, HandlersRun, AnswersAreEarned
<1>11. UnsentIsUntouched'
  BY <1>1, <1>2, <1>4, <1>5, MaxConnsAssumption
  DEF DeliveryInv, UnsentIsUntouched, FreshCalls, Conns
<1>12. OrphansAreLateAnswers'
  BY <1>4 DEF DeliveryInv, OrphansAreLateAnswers
<1>. QED
  BY <1>9, <1>10, <1>11, <1>12 DEF DeliveryInv

(* The bridge takes a response off a connection: it was the only one.      *)
LEMMA ResponseTaken ==
  ASSUME WiresTyped, ResponsesInFlight, NEW k \in Conns, OnMessage(k)
  PROVE  \E c \in Calls :
           /\ HandleResponse(c) \/ HandleOrphan(c)
           /\ ran[c] = "done" /\ orphans[c] = 0
           /\ FewerResponses(k, 1)
           /\ \A l \in Conns : \A j \in 1..Len(up'[l]) : up'[l][j] # Response(c)
<1>1. /\ up[k] \in Seq(UpMessages) /\ up[k] # <<>>
      /\ up' = [up EXCEPT ![k] = Tail(up[k])]
  BY DEF OnMessage, WiresTyped
<1>2. Head(up[k]) = up[k][1] /\ 1 \in 1..Len(up[k]) /\ Head(up[k]) \in UpMessages
  BY <1>1, TailShift, TailTyped
<1>3. PICK c \in Calls : /\ Head(up[k]) = Response(c)
                         /\ HandleResponse(c) \/ HandleOrphan(c)
  BY <1>2, MessageTypes DEF OnMessage
<1>4. /\ ran[c] = "done" /\ orphans[c] = 0
      /\ \A l \in Conns : \A j \in 1..Len(up[l]) : up[l][j] = Response(c) => k = l /\ 1 = j
  BY <1>2, <1>3 DEF ResponsesInFlight
<1>5. FewerResponses(k, 1)
  BY <1>1, TailUp
<1>6. \A l \in Conns : \A j \in 1..Len(up'[l]) : up'[l][j] # Response(c)
  BY <1>4, <1>5 DEF FewerResponses
<1>. QED
  BY <1>3, <1>4, <1>5, <1>6

LEMMA OnMessageDelivers ==
  ASSUME SharedInv, SharedInv', DeliveryInv, NEW k \in Conns, OnMessage(k),
         UNCHANGED <<queueVars, pluginVars>>
  PROVE  DeliveryInv'
<1>1. CoordinatorInv /\ WiresTyped /\ FreshCalls' /\ TimeoutsRemembered'
  BY DEF SharedInv, CoordinatorInv
<1>2. PICK c \in Calls :
        /\ HandleResponse(c) \/ HandleOrphan(c)
        /\ ran[c] = "done" /\ orphans[c] = 0
        /\ FewerResponses(k, 1)
        /\ \A l \in Conns : \A j \in 1..Len(up'[l]) : up'[l][j] # Response(c)
  BY <1>1, ResponseTaken DEF DeliveryInv
<1>3. UNCHANGED <<promise, sentGeneration, down, ran, executing>>
  BY <1>2 DEF OnMessage, HandleResponse, HandleOrphan, pluginVars, queueVars
<1>4. /\ reply \in [Calls -> {"none", "response"} \cup BridgeErrors]
      /\ orphans \in [Calls -> Nat]
  BY <1>1 DEF CoordinatorInv, BridgeTypeOK
<1>5. CommandsInFlight' /\ HandlersRun' /\ UnsentIsUntouched'
  BY <1>1, <1>3 DEF DeliveryInv, CommandsInFlight, HandlersRun, UnsentIsUntouched
<1>6. CASE HandleResponse(c)
  <2>1. reply[c] = "none"
    BY <1>1, <1>6, WaitingUnanswered DEF HandleResponse
  <2>2. reply' = [reply EXCEPT ![c] = "response"] /\ UNCHANGED orphans
    BY <1>6 DEF HandleResponse
  <2>3. ResponsesInFlight'
    BY <1>1, <1>2, <1>3, <2>2, ResponsesShrink DEF DeliveryInv
  <2>4. AnswersAreEarned'
    BY <1>2, <1>3, <1>4, <2>2 DEF DeliveryInv, AnswersAreEarned
  <2>5. OrphansAreLateAnswers'
    BY <1>2, <1>3, <1>4, <2>2 DEF DeliveryInv, OrphansAreLateAnswers
  <2>. QED
    BY <1>5, <2>3, <2>4, <2>5 DEF DeliveryInv
<1>7. CASE HandleOrphan(c)
  <2>1. UNCHANGED reply
    BY <1>7 DEF HandleOrphan
  <2>2. /\ orphans'[c] \in {0, 1}
        /\ \A d \in Calls : d # c => orphans'[d] = orphans[d]
    BY <1>2, <1>4, <1>7 DEF HandleOrphan
  <2>3. ResponsesInFlight'
    <3> SUFFICES ASSUME NEW l \in Conns, NEW i \in 1..Len(up'[l]), NEW d \in Calls,
                        up'[l][i] = Response(d)
                 PROVE  /\ ran'[d] = "done"
                        /\ orphans'[d] = 0
                        /\ \A m \in Conns : \A j \in 1..Len(up'[m]) :
                             up'[m][j] = Response(d) => l = m /\ i = j
      BY DEF ResponsesInFlight
    <3> DEFINE old(m, j) == IF m = k THEN j + 1 ELSE j
    <3>1. d # c
      BY <1>2
    <3>2. \A m \in Conns : \A j \in 1..Len(up'[m]) :
            up'[m][j] = Response(d) =>
              old(m, j) \in 1..Len(up[m]) /\ up[m][old(m, j)] = Response(d)
      BY <1>2 DEF FewerResponses
    <3>3. \A j \in 1..Len(up'[l]) : old(l, i) = old(l, j) => i = j
      OBVIOUS
    <3> HIDE DEF old
    <3>4. old(l, i) \in 1..Len(up[l]) /\ up[l][old(l, i)] = Response(d)
      BY <3>2
    <3>5. /\ ran[d] = "done"
          /\ orphans[d] = 0
          /\ \A m \in Conns : \A j \in 1..Len(up[m]) :
               up[m][j] = Response(d) => l = m /\ old(l, i) = j
      BY <3>4 DEF DeliveryInv, ResponsesInFlight
    <3>6. \A m \in Conns : \A j \in 1..Len(up'[m]) :
            up'[m][j] = Response(d) => l = m /\ old(l, i) = old(m, j)
      BY <3>2, <3>5
    <3>. QED
      BY <1>3, <2>2, <3>1, <3>3, <3>5, <3>6
  <2>4. AnswersAreEarned'
    BY <1>3, <2>1 DEF DeliveryInv, AnswersAreEarned
  <2>5. OrphansAreLateAnswers'
    BY <1>1, <1>2, <1>3, <2>2 DEF DeliveryInv, OrphansAreLateAnswers, TimeoutsRemembered
  <2>. QED
    BY <1>5, <2>3, <2>4, <2>5 DEF DeliveryInv
<1>. QED
  BY <1>2, <1>6, <1>7

(* Connections open and close.  What is pending may be rejected.           *)
LEMMA RejectPendingReplies ==
  ASSUME CoordinatorInv, NEW code \in BridgeErrors, RejectPending(code)
  PROVE  RepliesKept
<1>1. \A c \in pending : reply[c] = "none"
  BY WaitingUnanswered
<1>. QED
  BY <1>1 DEF RejectPending, RepliesKept, BridgeErrors

LEMMA OnCloseDelivers ==
  ASSUME SharedInv, SharedInv', DeliveryInv, NEW k \in Conns, OnClose(k),
         UNCHANGED <<queueVars, pluginVars>>
  PROVE  DeliveryInv'
<1>1. CoordinatorInv /\ WiresTyped
  BY DEF SharedInv
<1>2. /\ UNCHANGED <<promise, sentGeneration, orphans, down, ran, executing>>
      /\ up' = [up EXCEPT ![k] = <<>>]
  BY DEF OnClose, pluginVars, queueVars
<1>3. FewerResponses(k, 0) /\ FewerCommands(k, 0)
  BY <1>1, <1>2, ClearUp, SameDown
<1>4. RepliesKept
  <2>1. CASE socket = k
    BY <1>1, <2>1, RejectPendingReplies DEF OnClose, BridgeErrors
  <2>2. CASE socket # k
    BY <2>2 DEF OnClose, RepliesKept
  <2>. QED
    BY <2>1, <2>2
<1>5. ResolvedByResponse
  BY <1>2 DEF ResolvedByResponse
<1>. QED
  BY <1>2, <1>3, <1>4, <1>5, QuietStep

LEMMA CloseDelivers ==
  ASSUME SharedInv, SharedInv', DeliveryInv, Close, UNCHANGED <<queueVars, pluginVars>>
  PROVE  DeliveryInv'
<1>1. CoordinatorInv /\ WiresTyped /\ BridgeTypeOK
  BY DEF SharedInv, CoordinatorInv
<1>2. UNCHANGED <<promise, sentGeneration, orphans, up, ran, executing>>
  BY DEF Close, pluginVars, queueVars
<1>3. RepliesKept
  BY <1>1, RejectPendingReplies DEF Close, BridgeErrors
<1>4. ResolvedByResponse
  BY <1>2 DEF ResolvedByResponse
<1>5. CASE Paired
  <2>1. socket \in Conns
    BY <1>1, <1>5, PairedIsConnection
  <2>2. down' = [down EXCEPT ![socket] = Append(down[socket], CloseFrame)]
    BY <1>5 DEF Close
  <2>3. FewerCommands(socket, 0) /\ FewerResponses(socket, 0)
    BY <1>1, <1>2, <2>1, <2>2, FrameDown, SameUp
  <2>. QED
    BY <1>2, <1>3, <1>4, <2>1, <2>3, QuietStep
<1>6. CASE ~ Paired
  BY <1>2, <1>3, <1>4, <1>6, StillStep DEF Close
<1>. QED
  BY <1>5, <1>6

LEMMA ConnectDelivers ==
  ASSUME SharedInv, SharedInv', DeliveryInv, NEW p \in Plugins, PluginConnects(p)
  PROVE  DeliveryInv'
<1>1. CoordinatorInv /\ WiresTyped /\ BridgeTypeOK
  BY DEF SharedInv, CoordinatorInv
<1>2. UNCHANGED <<promise, reply, sentGeneration, orphans, up, ran, executing>>
  BY DEF PluginConnects, Connect, Accept, requestVars, queueVars
<1>3. RepliesKept /\ ResolvedByResponse
  BY <1>2 DEF RepliesKept, ResolvedByResponse
<1>4. CASE Paired
  <2>1. socket \in Conns
    BY <1>1, <1>4, PairedIsConnection
  <2>2. down' = [down EXCEPT ![socket] = Append(down[socket], CloseFrame)]
    BY <1>4 DEF PluginConnects, Accept
  <2>3. FewerCommands(socket, 0) /\ FewerResponses(socket, 0)
    BY <1>1, <1>2, <2>1, <2>2, FrameDown, SameUp
  <2>. QED
    BY <1>2, <1>3, <2>1, <2>3, QuietStep
<1>5. CASE ~ Paired
  BY <1>2, <1>3, <1>5, StillStep DEF PluginConnects, Accept
<1>. QED
  BY <1>4, <1>5

-----------------------------------------------------------------------------
(***************************************************************************)
(* The plugin's steps.                                                     *)
(***************************************************************************)
(* A link breaks: messages are lost, in both directions.                   *)
LEMMA BreakLoses ==
  ASSUME WiresTyped, PluginTypeOK, NEW p \in Plugins, Linked(p), Break(p)
  PROVE  ws[p] \in Conns /\ FewerCommands(ws[p], 0) /\ FewerResponses(ws[p], 0)
<1>1. ws[p] \in Conns
  BY LinkIsConnection DEF Linked
<1>2. PICK n \in 0..Len(up[ws[p]]) :
        up' = [up EXCEPT ![ws[p]] = Append(SubSeq(up[ws[p]], 1, n), CloseFrame)]
  BY DEF Break
<1>3. FewerResponses(ws[p], 0)
  BY <1>1, <1>2, PrefixUp
<1>4. FewerCommands(ws[p], 0)
  BY <1>1, ClearDown DEF Break
<1>. QED
  BY <1>1, <1>3, <1>4

LEMMA LinkStepsDeliver ==
  ASSUME SharedInv, SharedInv', DeliveryInv, NEW p \in Plugins,
         UiOpen(p) \/ UiClosed(p) \/ ConnectionLost(p), UNCHANGED <<queueVars, bridgeVars>>
  PROVE  DeliveryInv'
<1>1. WiresTyped /\ PluginTypeOK
  BY DEF SharedInv
<1>2. UNCHANGED <<promise, reply, sentGeneration, orphans, ran, executing>>
  BY DEF UiOpen, UiClosed, ConnectionLost, pluginVars, bridgeVars, queueVars
<1>3. RepliesKept /\ ResolvedByResponse
  BY <1>2 DEF RepliesKept, ResolvedByResponse
<1>4. CASE UiOpen(p)
  BY <1>2, <1>3, <1>4, StillStep DEF UiOpen
<1>5. CASE UiClosed(p)
  <2>1. ws[p] \in Conns
    BY <1>1, <1>5, LinkIsConnection DEF UiClosed
  <2>2. FewerCommands(ws[p], 0) /\ FewerResponses(ws[p], 0)
    BY <1>1, <1>5, <2>1, ClearDown, FrameUp DEF UiClosed
  <2>. QED
    BY <1>2, <1>3, <2>1, <2>2, QuietStep
<1>6. CASE ConnectionLost(p)
  BY <1>1, <1>2, <1>3, <1>6, BreakLoses, QuietStep DEF ConnectionLost
<1>. QED
  BY <1>4, <1>5, <1>6

(* A handler starts: its command was the only copy.                        *)
LEMMA UiCommandDelivers ==
  ASSUME SharedInv, SharedInv', DeliveryInv, NEW p \in Plugins, UiCommand(p),
         UNCHANGED <<queueVars, bridgeVars>>
  PROVE  DeliveryInv'
<1>1. WiresTyped /\ PluginTypeOK
  BY DEF SharedInv
<1> DEFINE k == ws[p]
<1>2. k \in Conns
  BY <1>1, LinkIsConnection DEF UiCommand
<1>3. /\ down[k] \in Seq(DownMessages) /\ down[k] # <<>>
      /\ down' = [down EXCEPT ![k] = Tail(down[k])]
      /\ UNCHANGED <<promise, reply, sentGeneration, orphans, up>>
  BY <1>1, <1>2 DEF UiCommand, WiresTyped, bridgeVars, queueVars
<1>4. Head(down[k]) = down[k][1] /\ 1 \in 1..Len(down[k]) /\ Head(down[k]) \in DownMessages
  BY <1>3, TailShift, TailTyped
<1>5. PICK c \in Calls :
        /\ Head(down[k]) = Command(c)
        /\ executing' = [executing EXCEPT ![p] = executing[p] \cup {c}]
        /\ ran' = [ran EXCEPT ![c] = "running"]
  <2>1. Head(down[k]).type = "command"
    BY DEF UiCommand
  <2>2. /\ Head(down[k]).call \in Calls
        /\ Head(down[k]) = Command(Head(down[k]).call)
    BY <1>4, <2>1, MessageTypes
  <2>. QED
    BY <2>2 DEF UiCommand
<1>6. /\ sentGeneration[c] = k
      /\ ran[c] = "no"
      /\ \A j \in 1..Len(down[k]) : down[k][j] = Command(c) => 1 = j
  BY <1>2, <1>4, <1>5 DEF DeliveryInv, CommandsInFlight
<1>7. ran \in [Calls -> {"no", "running", "done", "killed"}]
  BY <1>1 DEF PluginTypeOK
<1>8. FewerCommands(k, 1)
  BY <1>1, <1>2, <1>3, TailDown
<1>9. \A l \in Conns : \A j \in 1..Len(down'[l]) : down'[l][j] # Command(c)
  <2> SUFFICES ASSUME NEW l \in Conns, NEW j \in 1..Len(down'[l]), down'[l][j] = Command(c)
               PROVE  FALSE
    OBVIOUS
  <2>1. CASE l = k
    BY <1>6, <1>8, <2>1 DEF FewerCommands
  <2>2. CASE l # k
    <3>1. j \in 1..Len(down[l]) /\ down[l][j] = Command(c)
      BY <1>8, <2>2 DEF FewerCommands
    <3>. QED
      BY <1>6, <2>2, <3>1 DEF DeliveryInv, CommandsInFlight
  <2>. QED
    BY <2>1, <2>2
<1> HIDE DEF k
<1>10. CommandsInFlight'
  <2> SUFFICES ASSUME NEW l \in Conns, NEW i \in 1..Len(down'[l]), NEW d \in Calls,
                      down'[l][i] = Command(d)
               PROVE  /\ sentGeneration'[d] = l
                      /\ ran'[d] = "no"
                      /\ \A j \in 1..Len(down'[l]) : down'[l][j] = Command(d) => i = j
    BY DEF CommandsInFlight
  <2> DEFINE old(j) == IF l = k THEN j + 1 ELSE j
  <2>1. d # c
    BY <1>9
  <2>2. \A j \in 1..Len(down'[l]) :
          down'[l][j] = Command(d) => old(j) \in 1..Len(down[l]) /\ down[l][old(j)] = Command(d)
    BY <1>8 DEF FewerCommands
  <2>3. \A j \in 1..Len(down'[l]) : old(i) = old(j) => i = j
    OBVIOUS
  <2> HIDE DEF old
  <2>4. old(i) \in 1..Len(down[l]) /\ down[l][old(i)] = Command(d)
    BY <2>2
  <2>5. /\ sentGeneration[d] = l
        /\ ran[d] = "no"
        /\ \A j \in 1..Len(down[l]) : down[l][j] = Command(d) => old(i) = j
    BY <2>4 DEF DeliveryInv, CommandsInFlight
  <2>6. \A j \in 1..Len(down'[l]) : down'[l][j] = Command(d) => old(i) = old(j)
    BY <2>2, <2>5
  <2>. QED
    BY <1>3, <1>5, <1>7, <2>1, <2>3, <2>5, <2>6
<1>11. ResponsesInFlight'
  BY <1>3, <1>5, <1>6, <1>7 DEF DeliveryInv, ResponsesInFlight
<1>12. HandlersRun'
  BY <1>1, <1>5, <1>6, <1>7 DEF DeliveryInv, HandlersRun, PluginTypeOK
<1>13. UnsentIsUntouched' /\ AnswersAreEarned' /\ OrphansAreLateAnswers'
  <2>1. sentGeneration[c] # 0
    BY <1>2, <1>6, MaxConnsAssumption DEF Conns
  <2>. QED
    BY <1>3, <1>5, <1>6, <1>7, <2>1
    DEF DeliveryInv, UnsentIsUntouched, AnswersAreEarned, OrphansAreLateAnswers
<1>. QED
  BY <1>10, <1>11, <1>12, <1>13 DEF DeliveryInv

(* A handler ends: its response is the only one.                           *)
LEMMA HandlerEndsDelivers ==
  ASSUME SharedInv, SharedInv', DeliveryInv, NEW p \in Plugins, NEW c \in Calls,
         HandlerEnds(p, c), UNCHANGED <<queueVars, bridgeVars>>
  PROVE  DeliveryInv'
<1>1. WiresTyped /\ PluginTypeOK
  BY DEF SharedInv
<1>2. /\ c \in executing[p]
      /\ executing' = [executing EXCEPT ![p] = executing[p] \ {c}]
      /\ ran' = [ran EXCEPT ![c] = "done"]
      /\ UNCHANGED <<promise, reply, sentGeneration, orphans, down>>
  BY DEF HandlerEnds, bridgeVars, queueVars
<1>3. ran[c] = "running" /\ ran \in [Calls -> {"no", "running", "done", "killed"}]
  BY <1>1, <1>2 DEF DeliveryInv, HandlersRun, PluginTypeOK
<1>4. orphans[c] = 0
  <2>1. orphans[c] \in Nat /\ orphans[c] <= 1 /\ orphans[c] # 1
    BY <1>3 DEF SharedInv, CoordinatorInv, BridgeTypeOK, DeliveryInv, OrphansAreLateAnswers
  <2>. QED
    BY <2>1
<1>5. \A l \in Conns : \A j \in 1..Len(up[l]) : up[l][j] # Response(c)
  BY <1>3 DEF DeliveryInv, ResponsesInFlight
<1>6. CommandsInFlight'
  BY <1>2, <1>3 DEF DeliveryInv, CommandsInFlight
<1>7. HandlersRun'
  BY <1>1, <1>2, <1>3 DEF DeliveryInv, HandlersRun, PluginTypeOK
<1>8. UnsentIsUntouched' /\ AnswersAreEarned' /\ OrphansAreLateAnswers'
  BY <1>2, <1>3 DEF DeliveryInv, UnsentIsUntouched, AnswersAreEarned, OrphansAreLateAnswers
<1>9. ResponsesInFlight'
  <2>1. CASE up' = up
    BY <1>2, <1>3, <2>1 DEF DeliveryInv, ResponsesInFlight
  <2>2. CASE up' # up
    <3> DEFINE k == ws[p]
    <3>1. k \in Conns /\ up' = [up EXCEPT ![k] = Append(up[k], Response(c))]
      BY <1>1, <2>2, LinkIsConnection DEF HandlerEnds
    <3>2. /\ \A l \in Conns : up[l] \in Seq(UpMessages) /\ Len(up[l]) \in Nat
          /\ up'[k] = Append(up[k], Response(c))
          /\ \A l \in Conns : l # k => up'[l] = up[l]
      BY <1>1, <3>1 DEF WiresTyped
    <3>3. \A i \in 1..Len(up'[k]) :
            IF i = Len(up[k]) + 1 THEN up'[k][i] = Response(c)
            ELSE i \in 1..Len(up[k]) /\ up'[k][i] = up[k][i]
      <4>1. Response(c) \in UpMessages /\ up[k] \in Seq(UpMessages)
        BY <3>1, <3>2, MessageTypes
      <4>. QED
        BY <3>2, <4>1, AppendFrame
    <3> HIDE DEF k
    <3> SUFFICES ASSUME NEW l \in Conns, NEW i \in 1..Len(up'[l]), NEW d \in Calls,
                        up'[l][i] = Response(d)
                 PROVE  /\ ran'[d] = "done"
                        /\ orphans'[d] = 0
                        /\ \A m \in Conns : \A j \in 1..Len(up'[m]) :
                             up'[m][j] = Response(d) => l = m /\ i = j
      BY DEF ResponsesInFlight
    <3>4. CASE d = c
      <4>1. \A m \in Conns : \A j \in 1..Len(up'[m]) :
              up'[m][j] = Response(d) => m = k /\ j = Len(up[k]) + 1
        BY <1>5, <3>2, <3>3, <3>4
      <4>. QED
        BY <1>2, <1>3, <1>4, <3>4, <4>1
    <3>5. CASE d # c
      <4>1. Response(d) # Response(c)
        BY <3>5 DEF Response
      <4>2. \A m \in Conns : \A j \in 1..Len(up'[m]) :
              up'[m][j] = Response(d) => j \in 1..Len(up[m]) /\ up[m][j] = Response(d)
        BY <3>2, <3>3, <4>1
      <4>3. i \in 1..Len(up[l]) /\ up[l][i] = Response(d)
        BY <4>2
      <4>4. /\ ran[d] = "done"
            /\ orphans[d] = 0
            /\ \A m \in Conns : \A j \in 1..Len(up[m]) :
                 up[m][j] = Response(d) => l = m /\ i = j
        BY <4>3 DEF DeliveryInv, ResponsesInFlight
      <4>. QED
        BY <1>2, <1>3, <3>5, <4>2, <4>4
    <3>. QED
      BY <3>4, <3>5
  <2>. QED
    BY <2>1, <2>2
<1>. QED
  BY <1>6, <1>7, <1>8, <1>9 DEF DeliveryInv

(* A plugin goes and takes its handlers with it.                           *)
LEMMA PluginQuitsDelivers ==
  ASSUME SharedInv, SharedInv', DeliveryInv, NEW p \in Plugins, PluginQuits(p),
         UNCHANGED <<queueVars, bridgeVars>>
  PROVE  DeliveryInv'
<1>1. WiresTyped /\ PluginTypeOK
  BY DEF SharedInv
<1>2. /\ executing' = [executing EXCEPT ![p] = {}]
      /\ \A c \in Calls : ran'[c] = IF c \in executing[p] THEN "killed" ELSE ran[c]
      /\ UNCHANGED <<promise, reply, sentGeneration, orphans>>
  BY DEF PluginQuits, bridgeVars, queueVars
<1>3. \A c \in executing[p] : ran[c] = "running"
  BY DEF DeliveryInv, HandlersRun
<1>4. /\ \A c \in Calls : ran[c] = "no" => ran'[c] = "no"
      /\ \A c \in Calls : ran[c] = "done" => ran'[c] = "done"
  BY <1>2, <1>3
<1>5. HandlersRun'
  BY <1>1, <1>2 DEF DeliveryInv, HandlersRun, PluginTypeOK
<1>6. UnsentIsUntouched' /\ AnswersAreEarned' /\ OrphansAreLateAnswers'
  BY <1>2, <1>4 DEF DeliveryInv, UnsentIsUntouched, AnswersAreEarned, OrphansAreLateAnswers
<1>7. CommandsInFlight' /\ ResponsesInFlight'
  <2>1. CASE Linked(p)
    <3>1. ws[p] \in Conns /\ FewerCommands(ws[p], 0) /\ FewerResponses(ws[p], 0)
      BY <1>1, <2>1, BreakLoses DEF PluginQuits
    <3>. QED
      BY <1>1, <1>2, <1>4, <3>1, CommandsShrink, ResponsesShrink DEF DeliveryInv
  <2>2. CASE ~ Linked(p)
    <3>1. UNCHANGED <<down, up>>
      BY <2>2 DEF PluginQuits, wireVars
    <3>. QED
      BY <1>2, <1>4, <3>1 DEF DeliveryInv, CommandsInFlight, ResponsesInFlight
  <2>. QED
    BY <2>1, <2>2
<1>. QED
  BY <1>5, <1>6, <1>7 DEF DeliveryInv

-----------------------------------------------------------------------------
(***************************************************************************)
(* The invariant, and the theorems it gives.                               *)
(***************************************************************************)
LEMMA DeliveryInvInit == Init => DeliveryInv
BY DEF Init, QueueInit, BridgeInit, WireInit, PluginInit, DeliveryInv, UnsentIsUntouched,
       CommandsInFlight, HandlersRun, ResponsesInFlight, AnswersAreEarned, OrphansAreLateAnswers

LEMMA DeliveryInvStep == SharedInv /\ SharedInv' /\ DeliveryInv /\ [Next]_vars => DeliveryInv'
<1> SUFFICES ASSUME SharedInv, SharedInv', DeliveryInv, [Next]_vars
             PROVE  DeliveryInv'
  OBVIOUS
<1>1. ASSUME NEW c \in Calls, Submit(c) \/ JobSettles(c) \/ WaitExpires(c)
      PROVE  DeliveryInv'
  BY <1>1, QueueStepsDeliver
<1>2. ASSUME NEW c \in Calls, Resume(c)
      PROVE  DeliveryInv'
  BY <1>2, RejectionsDeliver, ResumeSendsDelivers DEF Resume
<1>3. ASSUME StartSettles \/ CommandExpires \/ BridgeEvent
      PROVE  DeliveryInv'
  <2>1. UNCHANGED <<queueVars, pluginVars>>
    BY <1>3 DEF StartSettles, CommandExpires, BridgeEvent
  <2>2. \/ StartReady \/ StartFails \/ Status \/ Close \/ CloseEnds
        \/ \E c \in Calls : CommandTimer(c)
        \/ \E k \in Conns : OnMessage(k) \/ OnClose(k)
    BY <1>3 DEF StartSettles, CommandExpires, BridgeEvent
  <2>. QED
    BY <2>1, <2>2, ServerStepsDeliver, CloseDelivers, RejectionsDeliver, OnMessageDelivers,
       OnCloseDelivers
<1>4. ASSUME NEW p \in Plugins, PluginConnects(p)
      PROVE  DeliveryInv'
  BY <1>4, ConnectDelivers
<1>5. ASSUME NEW p \in Plugins, PluginEvent(p)
      PROVE  DeliveryInv'
  BY <1>5, LinkStepsDeliver, UiCommandDelivers, HandlerEndsDelivers, PluginQuitsDelivers
  DEF PluginEvent
<1>6. CASE UNCHANGED vars
  <2>1. UNCHANGED <<promise, reply, sentGeneration, orphans, down, up, ran, executing>>
    BY <1>6 DEF vars, queueVars, bridgeVars, wireVars, pluginVars
  <2>2. RepliesKept /\ ResolvedByResponse
    BY <2>1 DEF RepliesKept, ResolvedByResponse
  <2>. QED
    BY <2>1, <2>2, StillStep
<1>. QED
  BY <1>1, <1>2, <1>3, <1>4, <1>5, <1>6 DEF Next

(***************************************************************************)
(* What the coordinator records of a command agrees with the messages in   *)
(* flight and with what the plugin does.                                   *)
(***************************************************************************)
THEOREM DeliveryCorrect == Spec => []DeliveryInv
BY SharedCorrect, DeliveryInvInit, DeliveryInvStep, PTL DEF Spec

(* A command that was never sent never runs, and one the queue turned away *)
(* was never sent.                                                         *)
THEOREM UnsentNeverRuns == Spec => []UnsentIsUntouched
<1>1. DeliveryInv => UnsentIsUntouched
  BY DEF DeliveryInv
<1>. QED
  BY <1>1, DeliveryCorrect, PTL

(* The orphan counter counts a command's late answer once, if it timed out *)
(* and was carried out.                                                    *)
THEOREM OrphansAreCountedOnce == Spec => []OrphansAreLateAnswers
<1>1. DeliveryInv => OrphansAreLateAnswers
  BY DEF DeliveryInv
<1>. QED
  BY <1>1, DeliveryCorrect, PTL

(* PLUGIN_DISCONNECTED is the answer only when no plugin is paired.        *)
THEOREM DisconnectsAreReal == Spec => DisconnectIsReal
<1>1. ASSUME SharedInv, [Next]_vars, NEW c \in Calls,
             reply[c] = "none", reply'[c] = "PLUGIN_DISCONNECTED"
      PROVE  ~ Paired'
  <2>1. CoordinatorInv /\ reply \in [Calls -> {"none", "response"} \cup BridgeErrors]
    BY <1>1 DEF SharedInv, CoordinatorInv, BridgeTypeOK
  <2>2. CASE UNCHANGED reply
    BY <1>1, <2>2
  <2>3. ASSUME NEW d \in Calls, Resume(d)
        PROVE  ~ Paired'
    BY <1>1, <2>1, <2>3 DEF Resume, ResumeFails, ResumeSends, Paired, pairingVars, wireVars
  <2>4. ASSUME NEW d \in Calls, CommandTimer(d)
        PROVE  ~ Paired'
    BY <1>1, <2>1, <2>4 DEF CommandTimer
  <2>5. ASSUME NEW k \in Conns, OnMessage(k)
        PROVE  ~ Paired'
    BY <1>1, <2>1, <2>5 DEF OnMessage, HandleResponse, HandleOrphan
  <2>6. ASSUME NEW k \in Conns, OnClose(k)
        PROVE  ~ Paired'
    BY <1>1, <2>6 DEF OnClose, Paired
  <2>7. CASE Close
    BY <1>1, <2>7 DEF Close, RejectPending
  <2>8. \/ UNCHANGED reply \/ Close
        \/ \E d \in Calls : Resume(d) \/ CommandTimer(d)
        \/ \E k \in Conns : OnMessage(k) \/ OnClose(k)
    BY <1>1 DEF Next, vars, Submit, JobSettles, WaitExpires, RunJob, Execute, StartSettles,
       StartReady, StartFails, CommandExpires, BridgeEvent, Status, CloseEnds, PluginConnects,
       Accept, PluginEvent, bridgeVars, requestVars
  <2>. QED
    BY <2>2, <2>3, <2>4, <2>5, <2>6, <2>7, <2>8
<1>2. SharedInv /\ [Next]_vars =>
        [\A c \in Calls :
           reply[c] = "none" /\ reply'[c] = "PLUGIN_DISCONNECTED" => ~ Paired']_vars
  BY <1>1
<1>. QED
  BY <1>2, SharedCorrect, PTL DEF Spec, DisconnectIsReal

-----------------------------------------------------------------------------
(***************************************************************************)
(* Runtime implements RemoteCommand.                                       *)
(***************************************************************************)
(* A step that changes the outcome of `c` alone.                           *)
LEMMA OutcomeMoves ==
  ASSUME NEW c \in Calls, NEW o, outcomeBar'[c] = o,
         \A d \in Calls : d # c => outcomeBar'[d] = outcomeBar[d]
  PROVE  outcomeBar' = [outcomeBar EXCEPT ![c] = o]
BY DEF outcomeBar

(* A call is submitted.                                                    *)
LEMMA SubmitRefines ==
  ASSUME SharedInv, DeliveryInv, NEW c \in Calls, Submit(c)
  PROVE  Remote!Ask(c) \/ Remote!Refuse(c)
<1>1. UNCHANGED <<sentGeneration, ran>>
  BY DEF Submit, RunJob, Execute, bridgeVars, pluginVars
<1>2. promise[c] = "uncalled" /\ sentGeneration[c] = 0 /\ ran[c] = "no"
  <2>1. promise[c] = "uncalled"
    BY DEF Submit, Enqueue, EnqueueFull
  <2>. QED
    BY <2>1 DEF SharedInv, CoordinatorInv, FreshCalls, Untouched, DeliveryInv, UnsentIsUntouched
<1>3. promise \in [Calls -> {"uncalled", "pending"} \cup Outcomes]
  BY DEF SharedInv, CoordinatorInv, QueueInv, QueueTypeOK
<1>4. outcomeBar[c] = "unasked"
  BY <1>2 DEF outcomeBar
<1>5. CASE Enqueue(c)
  <2>1. outcomeBar'[c] = "waiting" /\ \A d \in Calls : d # c => outcomeBar'[d] = outcomeBar[d]
    BY <1>1, <1>3, <1>5 DEF Enqueue, outcomeBar
  <2>. QED
    BY <1>1, <1>4, <2>1, OutcomeMoves DEF Remote!Ask
<1>6. CASE EnqueueFull(c)
  <2>1. outcomeBar'[c] = "refused" /\ \A d \in Calls : d # c => outcomeBar'[d] = outcomeBar[d]
    BY <1>1, <1>2, <1>3, <1>6 DEF EnqueueFull, outcomeBar
  <2>. QED
    BY <1>1, <1>2, <1>4, <2>1, OutcomeMoves DEF Remote!Refuse
<1>. QED
  BY <1>5, <1>6 DEF Submit

(* A call is answered: with the response, or with an error of the bridge.  *)
LEMMA JobSettlesRefines ==
  ASSUME SharedInv, DeliveryInv, NEW c \in Calls, JobSettles(c)
  PROVE  Remote!Answer(c) \/ Remote!Refuse(c) \/ Remote!GiveUp(c)
<1>1. UNCHANGED <<sentGeneration, ran>>
  BY DEF JobSettles, RunJob, Execute, bridgeVars, pluginVars
<1>2. /\ promise[c] = "pending"
      /\ promise' = [promise EXCEPT ![c] = IF reply[c] = "response" THEN "resolved"
                                                                    ELSE "rejected"]
  BY FinishMoves DEF SharedInv, CoordinatorInv, JobSettles
<1>3. promise \in [Calls -> {"uncalled", "pending"} \cup Outcomes]
  BY DEF SharedInv, CoordinatorInv, QueueInv, QueueTypeOK
<1>4. outcomeBar[c] = "waiting" /\ \A d \in Calls : d # c => outcomeBar'[d] = outcomeBar[d]
  BY <1>1, <1>2, <1>3 DEF outcomeBar
<1>5. CASE reply[c] = "response"
  <2>1. ran[c] = "done"
    BY <1>5 DEF DeliveryInv, AnswersAreEarned
  <2>2. outcomeBar'[c] = "ok"
    BY <1>2, <1>3, <1>5 DEF outcomeBar
  <2>. QED
    BY <1>1, <1>4, <2>1, <2>2, OutcomeMoves DEF Remote!Answer
<1>6. CASE reply[c] # "response" /\ sentGeneration[c] = 0
  <2>1. ran[c] = "no"
    BY <1>6 DEF DeliveryInv, UnsentIsUntouched
  <2>2. outcomeBar'[c] = "refused"
    BY <1>1, <1>2, <1>3, <1>6 DEF outcomeBar
  <2>. QED
    BY <1>1, <1>4, <2>1, <2>2, OutcomeMoves DEF Remote!Refuse
<1>7. CASE reply[c] # "response" /\ sentGeneration[c] # 0
  <2>1. outcomeBar'[c] = "unknown"
    BY <1>1, <1>2, <1>3, <1>7 DEF outcomeBar
  <2>. QED
    BY <1>1, <1>4, <2>1, OutcomeMoves DEF Remote!GiveUp
<1>. QED
  BY <1>5, <1>6, <1>7

(* A call gives up waiting in the queue.                                   *)
LEMMA WaitExpiresRefines ==
  ASSUME SharedInv, DeliveryInv, NEW c \in Calls, WaitExpires(c)
  PROVE  Remote!Refuse(c)
<1>1. UNCHANGED <<sentGeneration, ran>>
  BY DEF WaitExpires, bridgeVars, pluginVars
<1>2. /\ c # active /\ promise[c] = "pending"
      /\ promise' = [promise EXCEPT ![c] = "QUEUE_WAIT_TIMEOUT"]
  BY WaitTimerMoves DEF SharedInv, CoordinatorInv, WaitExpires
<1>3. sentGeneration[c] = 0 /\ ran[c] = "no"
  BY <1>2 DEF SharedInv, CoordinatorInv, FreshCalls, Untouched, DeliveryInv, UnsentIsUntouched
<1>4. promise \in [Calls -> {"uncalled", "pending"} \cup Outcomes]
  BY DEF SharedInv, CoordinatorInv, QueueInv, QueueTypeOK
<1>5. /\ outcomeBar[c] = "waiting" /\ outcomeBar'[c] = "refused"
      /\ \A d \in Calls : d # c => outcomeBar'[d] = outcomeBar[d]
  BY <1>1, <1>2, <1>3, <1>4 DEF outcomeBar
<1>. QED
  BY <1>1, <1>3, <1>5, OutcomeMoves DEF Remote!Refuse

(* A request is sent: its caller waits, as before.                         *)
LEMMA ResumeRefines ==
  ASSUME SharedInv, NEW c \in Calls, Resume(c)
  PROVE  UNCHANGED <<outcomeBar, ran>>
<1>1. UNCHANGED <<promise, ran>>
  BY DEF Resume, queueVars, pluginVars
<1>2. CASE ResumeFails(c)
  BY <1>1, <1>2 DEF ResumeFails, outcomeBar
<1>3. CASE ResumeSends(c)
  <2>1. promise[c] = "pending"
    BY <1>3, WaitingUnanswered DEF SharedInv, ResumeSends
  <2>2. \A d \in Calls : d # c => sentGeneration'[d] = sentGeneration[d]
    BY <1>3 DEF ResumeSends, SharedInv, CoordinatorInv, BridgeTypeOK
  <2>. QED
    BY <1>1, <2>1, <2>2 DEF outcomeBar
<1>. QED
  BY <1>2, <1>3 DEF Resume

(* The plugin starts, ends or cuts short a handler.                        *)
LEMMA PluginEventRefines ==
  ASSUME SharedInv, DeliveryInv, NEW p \in Plugins, PluginEvent(p)
  PROVE  Remote!RemoteNext \/ UNCHANGED <<outcomeBar, ran>>
<1>1. UNCHANGED outcomeBar
  <2>1. UNCHANGED <<promise, sentGeneration>>
    BY DEF PluginEvent, queueVars, bridgeVars
  <2>. QED
    BY <2>1 DEF outcomeBar
<1>2. CASE UiOpen(p) \/ UiClosed(p) \/ ConnectionLost(p)
  BY <1>1, <1>2 DEF UiOpen, UiClosed, ConnectionLost, pluginVars
<1>3. CASE UiCommand(p)
  <2>1. WiresTyped /\ PluginTypeOK /\ ws[p] \in Conns
    BY <1>3, LinkIsConnection DEF SharedInv, UiCommand
  <2>2. down[ws[p]] \in Seq(DownMessages) /\ down[ws[p]] # <<>>
    BY <1>3, <2>1 DEF UiCommand, WiresTyped
  <2>3. /\ Head(down[ws[p]]) = down[ws[p]][1] /\ 1 \in 1..Len(down[ws[p]])
        /\ Head(down[ws[p]]) \in DownMessages
    BY <2>2, TailShift, TailTyped
  <2>4. PICK c \in Calls : /\ Head(down[ws[p]]) = Command(c)
                           /\ ran' = [ran EXCEPT ![c] = "running"]
    <3>1. Head(down[ws[p]]).type = "command"
      BY <1>3 DEF UiCommand
    <3>2. /\ Head(down[ws[p]]).call \in Calls
          /\ Head(down[ws[p]]) = Command(Head(down[ws[p]]).call)
      BY <2>3, <3>1, MessageTypes
    <3>. QED
      BY <1>3, <3>2 DEF UiCommand
  <2>5. sentGeneration[c] # 0 /\ ran[c] = "no"
    BY <2>1, <2>3, <2>4, MaxConnsAssumption DEF DeliveryInv, CommandsInFlight, Conns
  <2>6. promise[c] \notin {"uncalled", "resolved"}
    BY <2>5 DEF SharedInv, CoordinatorInv, FreshCalls, Untouched, DeliveryInv, AnswersAreEarned
  <2>7. outcomeBar[c] \in {"waiting", "unknown"}
    BY <2>5, <2>6 DEF outcomeBar
  <2>8. Remote!Begin(c)
    BY <1>1, <2>4, <2>5, <2>7 DEF Remote!Begin
  <2>. QED
    BY <2>8 DEF Remote!RemoteNext
<1>4. ASSUME NEW c \in Calls, HandlerEnds(p, c)
      PROVE  Remote!RemoteNext
  <2>1. ran[c] = "running"
    BY <1>4 DEF HandlerEnds, DeliveryInv, HandlersRun
  <2>2. Remote!End(c)
    BY <1>1, <1>4, <2>1 DEF HandlerEnds, Remote!End
  <2>. QED
    BY <2>2 DEF Remote!RemoteNext
<1>5. CASE PluginQuits(p)
  <2>1. executing[p] \subseteq {c \in Calls : ran[c] = "running"}
    BY DEF DeliveryInv, HandlersRun, SharedInv, PluginTypeOK
  <2>2. ran' = [c \in Calls |-> IF c \in executing[p] THEN "killed" ELSE ran[c]]
    BY <1>5 DEF PluginQuits
  <2>3. Remote!Cut
    BY <1>1, <2>1, <2>2 DEF Remote!Cut
  <2>. QED
    BY <2>3 DEF Remote!RemoteNext
<1>. QED
  BY <1>2, <1>3, <1>4, <1>5 DEF PluginEvent

(* Every step of the runtime is one of the abstract specification, or one  *)
(* that it does not see.                                                   *)
LEMMA RemoteStep ==
  SharedInv /\ DeliveryInv /\ [Next]_vars => [Remote!RemoteNext]_(Remote!remoteVars)
<1> SUFFICES ASSUME SharedInv, DeliveryInv, [Next]_vars
             PROVE  Remote!RemoteNext \/ UNCHANGED <<outcomeBar, ran>>
  BY DEF Remote!remoteVars
<1>1. ASSUME NEW c \in Calls, Submit(c)
      PROVE  Remote!RemoteNext
  BY <1>1, SubmitRefines DEF Remote!RemoteNext
<1>2. ASSUME NEW c \in Calls, JobSettles(c)
      PROVE  Remote!RemoteNext
  BY <1>2, JobSettlesRefines DEF Remote!RemoteNext
<1>3. ASSUME NEW c \in Calls, WaitExpires(c)
      PROVE  Remote!RemoteNext
  BY <1>3, WaitExpiresRefines DEF Remote!RemoteNext
<1>4. ASSUME NEW p \in Plugins, PluginEvent(p)
      PROVE  Remote!RemoteNext \/ UNCHANGED <<outcomeBar, ran>>
  BY <1>4, PluginEventRefines
<1>5. ASSUME NEW c \in Calls, Resume(c)
      PROVE  UNCHANGED <<outcomeBar, ran>>
  BY <1>5, ResumeRefines
<1>6. ASSUME \/ StartSettles \/ CommandExpires \/ BridgeEvent \/ UNCHANGED vars
             \/ \E p \in Plugins : PluginConnects(p)
      PROVE  UNCHANGED <<outcomeBar, ran>>
  <2>1. UNCHANGED <<promise, ran, sentGeneration>>
    BY <1>6 DEF vars, StartSettles, StartReady, StartFails, CommandExpires, CommandTimer,
       BridgeEvent, OnMessage, HandleResponse, HandleOrphan, OnClose, Status, Close, CloseEnds,
       PluginConnects, Connect, Accept, queueVars, bridgeVars, requestVars, pluginVars
  <2>. QED
    BY <2>1 DEF outcomeBar
<1>. QED
  BY <1>1, <1>2, <1>3, <1>4, <1>5, <1>6 DEF Next

(* The answer a caller gets tells it what became of its command: "ok" that *)
(* it was carried out, once; a rejection of an unsent command that it was  *)
(* not and will not be.                                                    *)
THEOREM RuntimeImplementsRemoteCommand == Spec => ImplementsRemoteCommand
<1>1. Init => Remote!RemoteInit
  BY DEF Init, QueueInit, PluginInit, Remote!RemoteInit, outcomeBar
<1>. QED
  BY <1>1, RemoteStep, SharedCorrect, DeliveryCorrect, PTL
  DEF Spec, ImplementsRemoteCommand, Remote!RemoteSpec
=============================================================================
