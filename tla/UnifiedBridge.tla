---------------------------- MODULE UnifiedBridge ---------------------------
(***************************************************************************)
(* src/runtime/unifiedBridge.js: the WebSocket server the Figma plugin     *)
(* pairs with, and the table that matches responses to requests.           *)
(*                                                                         *)
(* execute() is two steps around `await this.start()`.  Every other        *)
(* handler, timer or socket event, runs to completion and is one action.   *)
(* A connection's number is the connectionGeneration it was given, so      *)
(* sentGeneration names the connection a request was sent on.              *)
(***************************************************************************)
EXTENDS Wire, SequencesExt

CONSTANT RecentCap     \* how many timed-out requests are remembered (50)

ASSUME RecentCapAssumption == RecentCap \in Nat

VARIABLES
  wss,                 \* stopped, starting, ready, failed or closing
  socket,              \* this.socket: the paired connection, 0 for null
  connectionGeneration,
  launching,           \* executes suspended in `await this.start()`
  pending,             \* keys of this.pending
  cmdTimers,           \* requests whose command timer is set
  sentGeneration,      \* the generation a request was sent in (0: unsent)
  recentTimeouts,      \* keys of this.recentTimeouts, oldest first
  orphans,             \* orphanResponseCount, per request it counted
  reply                \* how execute()'s promise settled, per request

bridgeVars == <<wss, socket, connectionGeneration, launching, pending,
                cmdTimers, sentGeneration, recentTimeouts, orphans, reply>>

(* The bridge's variables that only requests change, and only connections. *)
requestVars == <<launching, pending, cmdTimers, sentGeneration, recentTimeouts, orphans, reply>>
pairingVars == <<wss, socket, connectionGeneration>>

BridgeErrors ==
  {"PLUGIN_DISCONNECTED", "COMMAND_TIMEOUT", "RUNTIME_UNAVAILABLE", "COMMAND_EXECUTION_FAILED"}

BridgeTypeOK ==
  /\ wss \in {"stopped", "starting", "ready", "failed", "closing"}
  /\ socket \in 0..MaxConns
  /\ connectionGeneration \in 0..MaxConns
  /\ launching \subseteq Calls
  /\ pending \subseteq Calls
  /\ cmdTimers \subseteq Calls
  /\ sentGeneration \in [Calls -> 0..MaxConns]
  /\ recentTimeouts \in Seq(Calls)
  /\ orphans \in [Calls -> Nat]
  /\ reply \in [Calls -> {"none", "response"} \cup BridgeErrors]

BridgeInit ==
  /\ wss = "stopped"
  /\ socket = 0
  /\ connectionGeneration = 0
  /\ launching = {}
  /\ pending = {}
  /\ cmdTimers = {}
  /\ sentGeneration = [c \in Calls |-> 0]
  /\ recentTimeouts = <<>>
  /\ orphans = [c \in Calls |-> 0]
  /\ reply = [c \in Calls |-> "none"]

-----------------------------------------------------------------------------
(***************************************************************************)
(* start(), called by execute() and by status(): the first call imports    *)
(* the ws package, later calls wait for the same promise.  Once the import *)
(* has failed, startPromise stays rejected for good.                       *)
(***************************************************************************)
CallStart == wss' = IF wss = "stopped" THEN "starting" ELSE wss

StartReady ==
  /\ wss = "starting"
  /\ wss' = "ready"
  /\ UNCHANGED <<socket, connectionGeneration, requestVars, wireVars>>

StartFails ==
  /\ wss = "starting"
  /\ wss' = "failed"
  /\ UNCHANGED <<socket, connectionGeneration, requestVars, wireVars>>

(* status() starts the bridge too.                                         *)
Status ==
  /\ wss = "stopped"
  /\ CallStart
  /\ UNCHANGED <<socket, connectionGeneration, requestVars, wireVars>>

(***************************************************************************)
(* execute() up to its first await.                                        *)
(***************************************************************************)
Execute(c) ==
  /\ CallStart
  /\ launching' = launching \cup {c}
  /\ UNCHANGED <<socket, connectionGeneration, pending, cmdTimers,
                 sentGeneration, recentTimeouts, orphans, reply, wireVars>>

(* `await this.start()` is over: start() returned at once or has settled.  *)
Started == wss \in {"ready", "failed", "closing"}

Paired == socket # 0 /\ server[socket] = "open"

(***************************************************************************)
(* execute() after the await: reject, or register the request, set its     *)
(* command timer and send it on the paired connection.                     *)
(***************************************************************************)
ResumeFails(c) ==
  /\ c \in launching
  /\ \/ wss = "failed" /\ reply' = [reply EXCEPT ![c] = "COMMAND_EXECUTION_FAILED"]
     \/ /\ wss \in {"ready", "closing"}
        /\ ~ Paired
        /\ reply' = [reply EXCEPT ![c] = "PLUGIN_DISCONNECTED"]
  /\ launching' = launching \ {c}
  /\ UNCHANGED <<pairingVars, pending, cmdTimers, sentGeneration, recentTimeouts, orphans,
                 wireVars>>

ResumeWithoutTimer(c) ==
  /\ c \in launching
  /\ wss \in {"ready", "closing"}
  /\ Paired
  /\ launching' = launching \ {c}
  /\ pending' = pending \cup {c}
  /\ sentGeneration' = [sentGeneration EXCEPT ![c] = connectionGeneration]
  /\ down' = [down EXCEPT ![socket] = Append(@, Command(c))]
  /\ UNCHANGED <<pairingVars, cmdTimers, recentTimeouts, orphans, reply, server, client, up>>

ResumeSends(c) ==
  /\ c \in launching
  /\ wss \in {"ready", "closing"}
  /\ Paired
  /\ launching' = launching \ {c}
  /\ pending' = pending \cup {c}
  /\ cmdTimers' = cmdTimers \cup {c}
  /\ sentGeneration' = [sentGeneration EXCEPT ![c] = connectionGeneration]
  /\ down' = [down EXCEPT ![socket] = Append(@, Command(c))]
  /\ UNCHANGED <<pairingVars, recentTimeouts, orphans, reply, server, client, up>>

(***************************************************************************)
(* The command timer: give the request up, remember it for a late answer   *)
(* (dropping the oldest such memory beyond the cap) and reject.            *)
(***************************************************************************)
CommandTimer(c) ==
  /\ c \in cmdTimers
  /\ cmdTimers' = cmdTimers \ {c}
  /\ pending' = pending \ {c}
  /\ LET recorded == Append(recentTimeouts, c)
     IN  recentTimeouts' = IF Len(recorded) > RecentCap THEN Tail(recorded) ELSE recorded
  /\ reply' = [reply EXCEPT ![c] = "COMMAND_TIMEOUT"]
  /\ UNCHANGED <<pairingVars, launching, sentGeneration, orphans, wireVars>>

(***************************************************************************)
(* #rejectPending(error)                                                   *)
(***************************************************************************)
RejectPendingKeepsEntries(code) ==
  /\ reply' = [c \in Calls |-> IF c \in pending THEN code ELSE reply[c]]
  /\ cmdTimers' = cmdTimers \ pending
  /\ UNCHANGED pending

RejectPending(code) ==
  /\ reply' = [c \in Calls |-> IF c \in pending THEN code ELSE reply[c]]
  /\ pending' = {}
  /\ cmdTimers' = cmdTimers \ pending

(***************************************************************************)
(* The "connection" event for connection k: supersede the connection that  *)
(* is paired, if it is open, and pair the new one.                         *)
(***************************************************************************)
AcceptKeepsOld(k) ==
  /\ wss = "ready"
  /\ k = connectionGeneration + 1
  /\ server' = [server EXCEPT ![k] = "open"]
  /\ socket' = k
  /\ connectionGeneration' = k
  /\ UNCHANGED <<wss, requestVars, down, up>>

Accept(k) ==
  /\ wss = "ready"
  /\ k = connectionGeneration + 1
  /\ IF Paired
     THEN /\ server' = [server EXCEPT ![k] = "open", ![socket] = "closing"]
          /\ down' = [down EXCEPT ![socket] = Append(@, CloseFrame)]
     ELSE /\ server' = [server EXCEPT ![k] = "open"]
          /\ UNCHANGED down
  /\ socket' = k
  /\ connectionGeneration' = k
  /\ UNCHANGED <<wss, requestVars, up>>

(***************************************************************************)
(* #handleMessage: the response to a pending request, or a response nobody *)
(* waits for, which is counted if its request timed out.  The ws package   *)
(* delivers messages on a closing connection too.  A hello sets            *)
(* pluginVersion and pluginProtocolVersion, which only status() reads, and *)
(* is left out.                                                            *)
(***************************************************************************)
HandleResponseUncorrelated(c) ==
  /\ pending # {}
  /\ pending' = {}
  /\ cmdTimers' = {}
  /\ reply' = [d \in Calls |-> IF d \in pending THEN "response" ELSE reply[d]]
  /\ UNCHANGED <<pairingVars, launching, sentGeneration, orphans, recentTimeouts>>

HandleResponseKeepsTimer(c) ==
  /\ c \in pending
  /\ pending' = pending \ {c}
  /\ recentTimeouts' = RemoveFirst(recentTimeouts, c)
  /\ reply' = [reply EXCEPT ![c] = "response"]
  /\ UNCHANGED <<pairingVars, launching, sentGeneration, orphans, cmdTimers>>

HandleResponse(c) ==
  /\ c \in pending
  /\ pending' = pending \ {c}
  /\ recentTimeouts' = RemoveFirst(recentTimeouts, c)
  /\ cmdTimers' = cmdTimers \ {c}
  /\ reply' = [reply EXCEPT ![c] = "response"]
  /\ UNCHANGED <<pairingVars, launching, sentGeneration, orphans>>

AnyResponseOrphaned(c) ==
  /\ c \notin pending
  /\ orphans' = [orphans EXCEPT ![c] = @ + 1]
  /\ UNCHANGED <<pairingVars, launching, pending, cmdTimers, sentGeneration, recentTimeouts, reply>>

HandleOrphan(c) ==
  /\ c \notin pending
  /\ orphans' = IF Contains(recentTimeouts, c) THEN [orphans EXCEPT ![c] = @ + 1] ELSE orphans
  /\ UNCHANGED <<pairingVars, launching, pending, cmdTimers, sentGeneration, recentTimeouts, reply>>

OnMessage(k) ==
  /\ server[k] \in {"open", "closing"}
  /\ up[k] # <<>>
  /\ LET m == Head(up[k])
     IN  m.type = "response" /\ (HandleResponse(m.call) \/ HandleOrphan(m.call))
  /\ up' = [up EXCEPT ![k] = Tail(@)]
  /\ UNCHANGED <<server, client, down>>

(***************************************************************************)
(* The "close" event of connection k.  Only the paired connection's close  *)
(* unpairs and rejects what is pending; that of a superseded one is        *)
(* ignored.                                                                *)
(***************************************************************************)
OnCloseCountsGeneration(k) ==
  /\ server[k] \in {"open", "closing"}
  /\ up[k] # <<>> /\ Head(up[k]) = CloseFrame
  /\ server' = [server EXCEPT ![k] = "closed"]
  /\ up' = [up EXCEPT ![k] = <<>>]
  /\ connectionGeneration' = connectionGeneration + 1
  /\ IF socket = k
     THEN socket' = 0 /\ RejectPending("PLUGIN_DISCONNECTED")
     ELSE UNCHANGED <<socket, pending, cmdTimers, reply>>
  /\ UNCHANGED <<wss, launching, sentGeneration, recentTimeouts, orphans, client, down>>

OnCloseRejectsAlways(k) ==
  /\ server[k] \in {"open", "closing"}
  /\ up[k] # <<>> /\ Head(up[k]) = CloseFrame
  /\ server' = [server EXCEPT ![k] = "closed"]
  /\ up' = [up EXCEPT ![k] = <<>>]
  /\ IF socket = k
     THEN socket' = 0
     ELSE UNCHANGED socket
  /\ RejectPending("PLUGIN_DISCONNECTED")
  /\ UNCHANGED <<wss, connectionGeneration, launching, sentGeneration, recentTimeouts, orphans,
                 client, down>>

OnClose(k) ==
  /\ server[k] \in {"open", "closing"}
  /\ up[k] # <<>> /\ Head(up[k]) = CloseFrame
  /\ server' = [server EXCEPT ![k] = "closed"]
  /\ up' = [up EXCEPT ![k] = <<>>]
  /\ IF socket = k
     THEN socket' = 0 /\ RejectPending("PLUGIN_DISCONNECTED")
     ELSE UNCHANGED <<socket, pending, cmdTimers, reply>>
  /\ UNCHANGED <<wss, connectionGeneration, launching, sentGeneration, recentTimeouts, orphans,
                 client, down>>

(***************************************************************************)
(* close(): reject what is pending and start closing; the rest of it runs  *)
(* when every connection has ended.                                        *)
(***************************************************************************)
Close ==
  /\ wss = "ready"
  /\ wss' = "closing"
  /\ RejectPending("RUNTIME_UNAVAILABLE")
  /\ IF Paired
     THEN /\ server' = [server EXCEPT ![socket] = "closing"]
          /\ down' = [down EXCEPT ![socket] = Append(@, CloseFrame)]
     ELSE UNCHANGED <<server, down>>
  /\ UNCHANGED <<socket, connectionGeneration, launching, sentGeneration,
                 recentTimeouts, orphans, client, up>>

CloseEnds ==
  /\ wss = "closing"
  /\ \A k \in Conns : server[k] \in {"none", "closed"}
  /\ wss' = "stopped"
  /\ socket' = 0
  /\ UNCHANGED <<connectionGeneration, requestVars, wireVars>>
=============================================================================
