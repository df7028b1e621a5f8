------------------------------- MODULE Runtime -------------------------------
(***************************************************************************)
(* The path of a command from CommandRouter.execute() to the Figma plugin  *)
(* and back: router, queue, bridge, connections and plugin together.       *)
(*                                                                         *)
(* The coordinator is one Node process.  A settled promise is followed up  *)
(* before the next timer or socket event is looked at: those wait until no *)
(* such follow-up is due (FollowUpDue).  The plugin and the network are    *)
(* other processes and keep their own pace.                                *)
(***************************************************************************)
EXTENDS CommandQueue, UnifiedBridge, PluginUi

vars == <<queueVars, bridgeVars, wireVars, pluginVars>>

Init == QueueInit /\ BridgeInit /\ WireInit /\ PluginInit

(* A promise has settled and what awaits it has not run yet.               *)
FollowUpDue ==
  \/ Started /\ launching # {}
  \/ active # NoCall /\ reply[active] # "none"

-----------------------------------------------------------------------------
(***************************************************************************)
(* The job the router queues is `() => bridge.execute(envelope)`: the call *)
(* that #drain() puts on the lane enters execute() at once.                *)
(***************************************************************************)
RunJob ==
  IF active' \notin {NoCall, active}
  THEN Execute(active')
  ELSE UNCHANGED <<bridgeVars, wireVars>>

(* execute() reaches the queue.                                            *)
Submit(c) ==
  /\ Enqueue(c) \/ EnqueueFull(c)
  /\ RunJob
  /\ UNCHANGED pluginVars

(* The active job's promise has settled: #drain() continues.               *)
JobSettles(c) ==
  /\ active = c
  /\ reply[c] # "none"
  /\ Finish(c, IF reply[c] = "response" THEN "resolved" ELSE "rejected")
  /\ RunJob
  /\ UNCHANGED pluginVars

Resume(c) ==
  /\ ResumeFails(c) \/ ResumeSends(c)
  /\ UNCHANGED <<queueVars, pluginVars>>

(* Macrotasks of the coordinator.                                          *)
WaitExpires(c) ==
  /\ ~ FollowUpDue
  /\ WaitTimer(c)
  /\ UNCHANGED <<bridgeVars, wireVars, pluginVars>>

StartSettles ==
  /\ ~ FollowUpDue
  /\ StartReady \/ StartFails
  /\ UNCHANGED <<queueVars, pluginVars>>

CommandExpires ==
  /\ ~ FollowUpDue
  /\ \E c \in Calls : CommandTimer(c)
  /\ UNCHANGED <<queueVars, pluginVars>>

BridgeEvent ==
  /\ ~ FollowUpDue
  /\ \/ \E k \in Conns : OnMessage(k) \/ OnClose(k)
     \/ Status
     \/ Close
     \/ CloseEnds
  /\ UNCHANGED <<queueVars, pluginVars>>

PluginConnects(p) ==
  /\ ~ FollowUpDue
  /\ \E k \in Conns : Connect(p, k) /\ Accept(k)
  /\ UNCHANGED queueVars

PluginEvent(p) ==
  /\ \/ UiOpen(p)
     \/ UiCommand(p)
     \/ UiClosed(p)
     \/ \E c \in Calls : HandlerEnds(p, c)
     \/ ConnectionLost(p)
     \/ PluginQuits(p)
  /\ UNCHANGED <<queueVars, bridgeVars>>

Next ==
  \/ \E c \in Calls : Submit(c) \/ JobSettles(c) \/ Resume(c) \/ WaitExpires(c)
  \/ StartSettles
  \/ CommandExpires
  \/ BridgeEvent
  \/ \E p \in Plugins : PluginConnects(p) \/ PluginEvent(p)

Spec == Init /\ [][Next]_vars

(***************************************************************************)
(* The coordinator's own steps are taken: follow-ups run, timers fire, the *)
(* import of the ws package ends.  Nothing is assumed of callers, of the   *)
(* network or of the plugin, which may hang, vanish or never connect.      *)
(***************************************************************************)
Fairness ==
  /\ \A c \in Calls : WF_vars(JobSettles(c)) /\ WF_vars(Resume(c)) /\ WF_vars(WaitExpires(c))
  /\ WF_vars(CommandExpires)
  /\ WF_vars(StartSettles)

FairSpec == Spec /\ Fairness

-----------------------------------------------------------------------------
(***************************************************************************)
(* What CommandRouter.execute() reports of a call that has ended.          *)
(***************************************************************************)
Ended(c) == promise[c] \in Outcomes

errorCode(c) ==
  CASE promise[c] \in {"QUEUE_FULL", "QUEUE_WAIT_TIMEOUT"} -> promise[c]
    [] promise[c] = "rejected" -> reply[c]
    [] OTHER -> "none"

(* operationRecord.neverReachedBridge: true whenever enqueue() rejected.   *)
neverReachedBridge(c) == Ended(c) /\ promise[c] # "resolved"

(* recommendReconciliation()'s first decision.                             *)
AMBIGUOUS_ERROR_CODES == {"COMMAND_TIMEOUT", "QUEUE_WAIT_TIMEOUT"}

isAmbiguous(c) == errorCode(c) \in AMBIGUOUS_ERROR_CODES

-----------------------------------------------------------------------------
(***************************************************************************)
(* Properties.                                                             *)
(***************************************************************************)
RuntimeTypeOK ==
  /\ QueueTypeOK
  /\ BridgeTypeOK
  /\ WireTypeOK
  /\ PluginTypeOK

(* The bridge serves only the call on the queue's lane: no request is in
   the pending table, or about to be sent, on behalf of a call whose caller
   was already answered, and never two at once.                            *)
PendingIsActive == pending \cup launching \subseteq {active}

(* A command timer is set for exactly the requests that wait: none outlives
   its request, and no request waits without one.                          *)
TimerIffPending == cmdTimers = pending

(* At most one connection is open at the bridge, the one it is paired with
   and whose generation it stamps on requests; a request waits only while
   some connection is paired.                                              *)
PairingConsistent ==
  /\ {k \in Conns : server[k] = "open"} \subseteq {socket}
  /\ socket \in {0, connectionGeneration}
  /\ pending # {} => socket # 0

(* A command that was never sent never reaches Figma; one that was turned
   away by the queue was never sent, even if its timer fires in the instant
   in which the lane becomes free.                                         *)
UnsentIsUntouched ==
  \A c \in Calls :
    /\ sentGeneration[c] = 0 => ran[c] = "no"
    /\ promise[c] \in {"QUEUE_FULL", "QUEUE_WAIT_TIMEOUT"} => sentGeneration[c] = 0

(* The orphan counter counts late answers: each at most once, and only of
   commands that timed out and that Figma did carry out.                   *)
OrphansAreLateAnswers ==
  \A c \in Calls :
    /\ orphans[c] <= 1
    /\ orphans[c] = 1 => reply[c] = "COMMAND_TIMEOUT" /\ ran[c] = "done"

(* A caller hears PLUGIN_DISCONNECTED only when no plugin is paired: the
   end of a superseded connection does not fail a request of its successor. *)
DisconnectIsReal ==
  [][\A c \in Calls :
       reply[c] = "none" /\ reply'[c] = "PLUGIN_DISCONNECTED" => ~ Paired']_vars

(* Every call that was accepted is answered, whatever the plugin and the
   network do.                                                             *)
EveryCallAnswered == \A c \in Calls : promise[c] = "pending" ~> Ended(c)

(* Runtime keeps RemoteCommand's promise: `refused` stands for a rejection
   of a command that was not sent, `unknown` for one of a command that was. *)
outcomeBar ==
  [c \in Calls |->
     CASE promise[c] = "uncalled" -> "unasked"
       [] promise[c] = "pending"  -> "waiting"
       [] promise[c] = "resolved" -> "ok"
       [] OTHER -> IF sentGeneration[c] = 0 THEN "refused" ELSE "unknown"]

Remote == INSTANCE RemoteCommand WITH outcome <- outcomeBar, effect <- ran

ImplementsRemoteCommand == Remote!RemoteSpec

-----------------------------------------------------------------------------
(***************************************************************************)
(* The inductive invariants of the proofs (RuntimeProofs).  The first is   *)
(* about the coordinator alone, the second about what it shares with the   *)
(* plugin.                                                                 *)
(***************************************************************************)
(* The request of the call on the lane is exactly as far as its reply says. *)
LaneServed ==
  /\ PendingIsActive
  /\ pending \cap launching = {}
  /\ active # NoCall => (reply[active] = "none" <=> active \in pending \cup launching)

(* A call that has not started has left no trace in the bridge, and one    *)
(* that is about to be sent has not been sent.                             *)
Untouched(c) == reply[c] = "none" /\ sentGeneration[c] = 0

FreshCalls ==
  /\ \A c \in Calls : promise[c] = "uncalled" => Untouched(c)
  /\ \A c \in Calls : promise[c] = "pending" /\ c # active => Untouched(c)
  /\ \A c \in Calls :
       promise[c] \in {"QUEUE_FULL", "QUEUE_WAIT_TIMEOUT"} => sentGeneration[c] = 0
  /\ \A c \in launching : sentGeneration[c] = 0

(* A connection is paired only while the server runs, and a closing server *)
(* neither has an open one nor keeps a request.                            *)
ServerStates ==
  /\ wss \notin {"ready", "closing"} => socket = 0
  /\ wss = "closing" => ~ Paired /\ pending = {}

(* Only calls that timed out are remembered as such, and counted as        *)
(* orphans.                                                                *)
TimeoutsRemembered ==
  /\ \A i \in 1..Len(recentTimeouts) : reply[recentTimeouts[i]] = "COMMAND_TIMEOUT"
  /\ \A c \in Calls : orphans[c] > 0 => reply[c] = "COMMAND_TIMEOUT"

CoordinatorInv ==
  /\ QueueInv
  /\ BridgeTypeOK
  /\ server \in [Conns -> {"none", "open", "closing", "closed"}]
  /\ LaneServed
  /\ TimerIffPending
  /\ FreshCalls
  /\ TimeoutsRemembered
  /\ PairingConsistent
  /\ ServerStates

(* A command in flight is on the connection it was sent on, once, and has  *)
(* not run.                                                                *)
CommandsInFlight ==
  \A k \in Conns : \A i \in 1..Len(down[k]) : \A c \in Calls :
    down[k][i] = Command(c) =>
      /\ sentGeneration[c] = k
      /\ ran[c] = "no"
      /\ \A j \in 1..Len(down[k]) : down[k][j] = Command(c) => i = j

(* A handler runs in one plugin, for a command that has not ended.         *)
HandlersRun ==
  /\ \A p \in Plugins : \A c \in executing[p] : ran[c] = "running"
  /\ \A p, q \in Plugins : p # q => executing[p] \cap executing[q] = {}

(* A response in flight is the only one there will be, and was earned.     *)
ResponsesInFlight ==
  \A k \in Conns : \A i \in 1..Len(up[k]) : \A c \in Calls :
    up[k][i] = Response(c) =>
      /\ ran[c] = "done"
      /\ orphans[c] = 0
      /\ \A l \in Conns : \A j \in 1..Len(up[l]) : up[l][j] = Response(c) => k = l /\ i = j

AnswersAreEarned ==
  /\ \A c \in Calls : reply[c] = "response" => ran[c] = "done"
  /\ \A c \in Calls : promise[c] = "resolved" => reply[c] = "response"

DeliveryInv ==
  /\ UnsentIsUntouched
  /\ CommandsInFlight
  /\ HandlersRun
  /\ ResponsesInFlight
  /\ AnswersAreEarned
  /\ OrphansAreLateAnswers

-----------------------------------------------------------------------------
(***************************************************************************)
(* Claims of the repository that the code does not keep.                   *)
(***************************************************************************)
(* operationRecord.neverReachedBridge "distinguishes `we know Figma's state
   didn't change`": it is set only for commands that were not sent.        *)
NeverReachedMeansUnsent ==
  \A c \in Calls : neverReachedBridge(c) => sentGeneration[c] = 0

(* An outcome that recommendReconciliation() calls unambiguous leaves Figma
   in a known state: a command that failed for want of a plugin has not run
   and is not running.                                                     *)
UnambiguousMeansKnown ==
  \A c \in Calls :
    Ended(c) /\ errorCode(c) = "PLUGIN_DISCONNECTED" /\ ~ isAmbiguous(c) => ran[c] = "no"

(* A request in flight when its own connection drops is rejected at once:
   none waits for an answer on a connection that has ended.                *)
PendingOnLiveConnection ==
  \A c \in pending : server[sentGeneration[c]] # "closed"
=============================================================================
