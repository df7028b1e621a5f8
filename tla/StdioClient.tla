---------------------------- MODULE StdioClient ----------------------------
(***************************************************************************)
(* StdioMcpClient (src/mcp/stdioClient.js): one object per child process   *)
(* it spawns, with the requests that wait for the child's replies.  The    *)
(* child is EXTERNAL: it may answer in any order, late, wrongly or never,  *)
(* and it may end at any moment.  A request is known by its id; who waits  *)
(* for it is a job of the module that uses the client, or Connecting for   *)
(* the initialize request of connect().                                    *)
(***************************************************************************)
EXTENDS Naturals, FiniteSets, ToolCalls

CONSTANTS
  Clients,             \* bound: the client objects that may be made
  Connecting

ASSUME ClientAssumption == None \notin Clients

VARIABLES
  clients,             \* the client objects
  down                 \* the coordinator's process has ended

(* of: whose client (clientName); child: this.child is set; closed: the    *)
(* close event was handled; proc, killed: the process; conn: what became   *)
(* of connect(); pending: id and waiter of each request; asked: ids the    *)
(* child has not answered.                                                 *)
NoClient == [of |-> None, child |-> FALSE, closed |-> FALSE, proc |-> "none", killed |-> FALSE,
             conn |-> "no", nextId |-> 1, pending |-> {}, asked |-> {}]
ClientsInit == clients = [k \in Clients |-> NoClient] /\ down = FALSE

Unused == {k \in Clients : clients[k].conn = "no"}
CanSend(k) == clients[k].child /\ ~clients[k].closed
Waiters(k) == {p.who : p \in clients[k].pending}

\* request(): the client after it; the caller checks CanSend.
Requesting(cl, who) ==
  [cl EXCEPT !.nextId = @ + 1, !.asked = @ \cup {cl.nextId},
             !.pending = @ \cup {[id |-> cl.nextId, who |-> who]}]

\* connect(): spawn, and ask for initialize.
Spawned(name) ==
  Requesting([NoClient EXCEPT !.of = name, !.child = TRUE, !.proc = "up",
                              !.conn = "connecting"], Connecting)

ClosingOnlyForgets(cl) == [cl EXCEPT !.child = FALSE]    \* mutant
\* close(): the process is told to end; its close event comes later.
Closing(cl) ==
  IF cl.child THEN [cl EXCEPT !.killed = @ \/ ~cl.closed, !.child = FALSE] ELSE cl

\* A write to a child that has ended raises an error on stdin nobody listens to,
\* unless the end was noticed before.
MayBreak(k) == clients[k].proc = "ended"

(* #handleMessage: only a request that still waits is settled, by its id.  *)
(* Each of these gives the client after the event and the waiters settled. *)
AfterReply(k, id) ==
  [clients[k] EXCEPT !.asked = @ \ {id}, !.pending = {p \in @ : p.id # id}]
AfterTimer(k, id) == [clients[k] EXCEPT !.pending = {p \in @ : p.id # id}]
AfterClose(k) == [clients[k] EXCEPT !.closed = TRUE, !.pending = {}, !.asked = {}]
SettledBy(k, id) == {p.who : p \in {q \in clients[k].pending : q.id = id}}

ChildEnds(k) ==
  /\ clients[k].proc = "up"
  /\ clients' = [clients EXCEPT ![k].proc = "ended"]
  /\ UNCHANGED down

(* The coordinator ends with an uncaught error: the command to spawn is    *)
(* not there ('error' of the child has no listener), or the child prints a *)
(* line that is not JSON.                                                  *)
Crash(k) ==
  /\ clients[k].proc = "up" /\ ~clients[k].closed
  /\ down' = TRUE
  /\ UNCHANGED clients
=============================================================================
