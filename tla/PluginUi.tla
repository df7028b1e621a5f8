------------------------------ MODULE PluginUi ------------------------------
(***************************************************************************)
(* The plugin: ui.html relays between its WebSocket and code.js, and       *)
(* code.js runs one handler per command.  figma.ui.onmessage is async and  *)
(* nothing serialises it, so handlers of several commands may be under way *)
(* at once.  The message hop between ui.html and code.js keeps order and   *)
(* dies with the plugin, so it is part of the neighbouring step.           *)
(***************************************************************************)
EXTENDS Wire

CONSTANT Plugins       \* the plugin windows that may be open

VARIABLES
  ws,                  \* ui.html's `ws`: the connection last opened, 0 for null
  executing,           \* the commands whose handler is under way, per plugin
  ran                  \* history: what became of each command in Figma

pluginVars == <<ws, executing, ran>>

PluginTypeOK ==
  /\ ws \in [Plugins -> 0..MaxConns]
  /\ executing \in [Plugins -> SUBSET Calls]
  /\ ran \in [Calls -> {"no", "running", "done", "killed"}]

PluginInit ==
  /\ ws = [p \in Plugins |-> 0]
  /\ executing = [p \in Plugins |-> {}]
  /\ ran = [c \in Calls |-> "no"]

-----------------------------------------------------------------------------
(* connect(): on load, and a second after the previous connection closed.  *)
Connect(p, k) ==
  /\ ws[p] # 0 => client[ws[p]] = "closed"
  /\ client' = [client EXCEPT ![k] = "connecting"]
  /\ ws' = [ws EXCEPT ![p] = k]
  /\ UNCHANGED <<executing, ran>>

(* ws.onopen; the hello it sends is left out (see UnifiedBridge).          *)
UiOpen(p) ==
  /\ ws[p] # 0 /\ client[ws[p]] = "connecting"
  /\ client' = [client EXCEPT ![ws[p]] = "open"]
  /\ UNCHANGED <<server, down, up, pluginVars>>

(* ws.onmessage: hand the command to code.js, which starts its handler.    *)
UiCommand(p) ==
  /\ ws[p] # 0 /\ client[ws[p]] = "open"
  /\ down[ws[p]] # <<>>
  /\ LET m == Head(down[ws[p]])
     IN  /\ m.type = "command"
         /\ executing' = [executing EXCEPT ![p] = @ \cup {m.call}]
         /\ ran' = [ran EXCEPT ![m.call] = "running"]
  /\ down' = [down EXCEPT ![ws[p]] = Tail(@)]
  /\ UNCHANGED <<server, client, up, ws>>

(* ws.onclose after the server's close frame.                              *)
UiClosed(p) ==
  /\ ws[p] # 0 /\ client[ws[p]] = "open"
  /\ down[ws[p]] # <<>> /\ Head(down[ws[p]]) = CloseFrame
  /\ client' = [client EXCEPT ![ws[p]] = "closed"]
  /\ down' = [down EXCEPT ![ws[p]] = <<>>]
  /\ up' = [up EXCEPT ![ws[p]] = Append(@, CloseFrame)]
  /\ UNCHANGED <<server, pluginVars>>

(* A handler ends and ui.html sends its response on whatever connection it *)
(* has by then, if that one is open; otherwise the response is dropped.    *)
HandlerEnds(p, c) ==
  /\ c \in executing[p]
  /\ executing' = [executing EXCEPT ![p] = @ \ {c}]
  /\ ran' = [ran EXCEPT ![c] = "done"]
  /\ up' = IF ws[p] # 0 /\ client[ws[p]] = "open"
           THEN [up EXCEPT ![ws[p]] = Append(@, Response(c))]
           ELSE up
  /\ UNCHANGED <<server, client, down, ws>>

(* The connection breaks: what had not arrived is lost, in either          *)
(* direction, and the bridge learns of it behind what did arrive.          *)
Linked(p) == ws[p] # 0 /\ client[ws[p]] \in {"connecting", "open"}

Break(p) ==
  /\ client' = [client EXCEPT ![ws[p]] = "closed"]
  /\ down' = [down EXCEPT ![ws[p]] = <<>>]
  /\ \E n \in 0..Len(up[ws[p]]) :
       up' = [up EXCEPT ![ws[p]] = Append(SubSeq(@, 1, n), CloseFrame)]
  /\ UNCHANGED server

ConnectionLost(p) ==
  /\ Linked(p)
  /\ Break(p)
  /\ UNCHANGED pluginVars

(* The plugin's window is closed and takes its handlers with it, and its   *)
(* connection if it has one.                                               *)
PluginQuits(p) ==
  /\ executing[p] # {}
  /\ executing' = [executing EXCEPT ![p] = {}]
  /\ ran' = [c \in Calls |-> IF c \in executing[p] THEN "killed" ELSE ran[c]]
  /\ IF Linked(p) THEN Break(p) ELSE UNCHANGED wireVars
  /\ UNCHANGED ws
=============================================================================
