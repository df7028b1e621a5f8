-------------------------------- MODULE Wire --------------------------------
(***************************************************************************)
(* The WebSocket connections between the bridge and the plugin's UI, as    *)
(* both ends use them: ordered and reliable in each direction while they   *)
(* last, cut at any moment, closed by a handshake that travels behind the  *)
(* messages already sent.  The ws package and the browser are not part of  *)
(* the repository; this is what unifiedBridge.js and ui.html rely on.      *)
(*                                                                         *)
(* Connections are numbered in the order in which the server accepts them. *)
(***************************************************************************)
EXTENDS Naturals, Sequences, Requests

CONSTANT MaxConns      \* bound on the connections of one run

ASSUME MaxConnsAssumption == MaxConns \in Nat

Conns == 1..MaxConns

VARIABLES
  server,              \* readyState of the bridge's end, per connection
  client,              \* readyState of the UI's end, per connection
  down,                \* in flight to the UI, per connection
  up                   \* in flight to the bridge, per connection

wireVars == <<server, client, down, up>>

Command(c)  == [type |-> "command", call |-> c]
Response(c) == [type |-> "response", call |-> c]
CloseFrame  == [type |-> "close"]

DownMessages == {Command(c) : c \in Calls} \cup {CloseFrame}
UpMessages   == {Response(c) : c \in Calls} \cup {CloseFrame}

WireTypeOK ==
  /\ server \in [Conns -> {"none", "open", "closing", "closed"}]
  /\ client \in [Conns -> {"none", "connecting", "open", "closed"}]
  /\ down \in [Conns -> Seq(DownMessages)]
  /\ up \in [Conns -> Seq(UpMessages)]

WireInit ==
  /\ server = [k \in Conns |-> "none"]
  /\ client = [k \in Conns |-> "none"]
  /\ down = [k \in Conns |-> <<>>]
  /\ up = [k \in Conns |-> <<>>]
=============================================================================
