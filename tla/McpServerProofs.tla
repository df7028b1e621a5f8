--------------------------- MODULE McpServerProofs ---------------------------
(***************************************************************************)
(* Proofs about McpServer, for any number of requests, backends and        *)
(* clients, any capabilities and any session: no backend process is        *)
(* forgotten, and what the tool unified_execute answers is so.             *)
(***************************************************************************)
EXTENDS McpServer, RecursiveFunctions, SequenceTheorems, TLAPS

(***************************************************************************)
(* The backends.                                                           *)
(***************************************************************************)
IsClient(cl) == DOMAIN cl = DOMAIN NoClient

ClientInv(k) ==
  LET cl == clients[k]
  IN  /\ IsClient(cl) /\ cl.killed \in BOOLEAN /\ cl.closed \in BOOLEAN
      /\ cl.conn \in {"no", "connecting", "connected", "failed"}
      /\ cl.conn = "no" => cl.proc = "none" /\ cl.pending = {} /\ ~cl.child
      /\ cl.conn # "no" => cl.of \in Backends
      /\ cl.closed => cl.proc = "ended"
      /\ cl.conn # "no" /\ ~cl.child => cl.killed \/ cl.proc # "up"
      /\ \A p \in cl.pending : p.who = Connecting => p.id = 1 /\ cl.conn = "connecting"

(* What an adapter holds: a client that is connected, the promise of one   *)
(* that is not (yet), and unless it was closed early none besides.         *)
Promised(b) ==
  clientPromise[b] # None =>
    /\ clientPromise[b] \in Clients /\ clients[clientPromise[b]].of = b
    /\ clients[clientPromise[b]].conn \in {"connecting", "failed"}
Held(b) ==
  client[b] # None =>
    /\ client[b] \in Clients /\ clients[client[b]].of = b
    /\ clients[client[b]].conn = "connected"
OneConnects(b) ==
  b \notin closedEarly =>
    \A k \in Clients : clients[k].of = b /\ clients[k].conn = "connecting" =>
      /\ clientPromise[b] = k
      /\ client[b] = None \/ clients[client[b]].closed
BackendInv(b) == Promised(b) /\ Held(b) /\ OneConnects(b)

Owned(k) ==
  clients[k].proc = "up" /\ ~clients[k].killed =>
    \/ client[clients[k].of] = k
    \/ clientPromise[clients[k].of] = k
    \/ clients[k].conn = "failed"
    \/ clients[k].of \in closedEarly

Shape ==
  /\ clients = [k \in Clients |-> clients[k]]
  /\ client = [b \in Backends |-> client[b]]
  /\ clientPromise = [b \in Backends |-> clientPromise[b]]

LegacyInv ==
  /\ Shape
  /\ \A k \in Clients : ClientInv(k) /\ Owned(k)
  /\ \A b \in Backends : BackendInv(b)

LEMMA InitLegacy == Init => LegacyInv
<1> SUFFICES ASSUME Init PROVE LegacyInv
  OBVIOUS
<1>1. /\ clients = [k \in Clients |-> NoClient] /\ closedEarly = {}
      /\ client = [b \in Backends |-> None] /\ clientPromise = [b \in Backends |-> None]
  BY DEF Init, LegacyInit, ClientsInit
<1>2. ASSUME NEW k \in Clients PROVE ClientInv(k) /\ Owned(k)
  BY <1>1 DEF ClientInv, IsClient, NoClient, Owned
<1>3. ASSUME NEW b \in Backends PROVE BackendInv(b)
  BY <1>1 DEF BackendInv, Promised, Held, OneConnects, NoClient
<1>. QED
  BY <1>1, <1>2, <1>3 DEF LegacyInv, Shape

-----------------------------------------------------------------------------
(* Most events change a client only where it does not matter whose it is.  *)
SameOwner(x, y) ==
  /\ IsClient(y)
  /\ y.of = x.of /\ y.conn = x.conn
  /\ y.proc = x.proc \/ (x.proc = "up" /\ y.proc = "ended")
  /\ x.closed => y.closed
  /\ y.closed => x.closed \/ y.proc = "ended"
  /\ y.killed \in BOOLEAN /\ y.closed \in BOOLEAN /\ (x.killed => y.killed)
  /\ ~y.child => ~x.child \/ y.killed \/ y.proc # "up"
  /\ y.child => x.child
  /\ \A p \in y.pending : p \in x.pending \/ (p.who # Connecting /\ x.child)

LEMMA OwnersStay ==
  ASSUME LegacyInv, Shape', \A k \in Clients : SameOwner(clients[k], clients'[k]),
         UNCHANGED <<client, clientPromise, closedEarly>>
  PROVE  LegacyInv'
<1>1. ASSUME NEW k \in Clients PROVE ClientInv(k)' /\ Owned(k)'
  <2>1. ClientInv(k) /\ Owned(k) /\ SameOwner(clients[k], clients'[k])
    BY DEF LegacyInv
  <2>2. ClientInv(k)'
    BY <2>1 DEF ClientInv, SameOwner
  <2>3. Owned(k)'
    BY <2>1 DEF ClientInv, SameOwner, Owned
  <2>. QED
    BY <2>2, <2>3
<1>2. ASSUME NEW b \in Backends PROVE BackendInv(b)'
  <2>1. BackendInv(b) /\ client'[b] = client[b] /\ clientPromise'[b] = clientPromise[b]
        /\ closedEarly' = closedEarly
    BY DEF LegacyInv
  <2>2. \A k \in Clients : /\ clients'[k].of = clients[k].of /\ clients'[k].conn = clients[k].conn
                           /\ clients[k].closed => clients'[k].closed
    BY DEF SameOwner
  <2>3. Promised(b)' /\ Held(b)'
    BY <2>1, <2>2 DEF BackendInv, Promised, Held
  <2>4. OneConnects(b)'
    BY <2>1, <2>2 DEF BackendInv, Held, OneConnects
  <2>. QED
    BY <2>3, <2>4 DEF BackendInv
<1>. QED
  BY <1>1, <1>2 DEF LegacyInv

LEMMA SameClient ==
  ASSUME LegacyInv, NEW k \in Clients
  PROVE  SameOwner(clients[k], clients[k])
BY DEF LegacyInv, ClientInv, SameOwner

LEMMA ClosingOwner ==
  ASSUME LegacyInv, NEW k \in Clients
  PROVE  /\ SameOwner(clients[k], Closing(clients[k]))
         /\ clients[k].conn # "no" =>
              Closing(clients[k]).killed \/ Closing(clients[k]).proc # "up"
<1>1. ClientInv(k)
  BY DEF LegacyInv
<1>2. CASE ~clients[k].child
  BY <1>1, <1>2 DEF ClientInv, SameOwner, Closing
<1>3. CASE clients[k].child
  <2> DEFINE killed == clients[k].killed \/ ~clients[k].closed
             y == [clients[k] EXCEPT !.killed = killed, !.child = FALSE]
  <2>1. Closing(clients[k]) = y
    BY <1>3 DEF Closing
  <2>2. /\ y.of = clients[k].of /\ y.conn = clients[k].conn /\ y.proc = clients[k].proc
        /\ y.closed = clients[k].closed /\ y.killed = killed /\ y.child = FALSE
        /\ y.pending = clients[k].pending /\ IsClient(y)
    BY <1>1 DEF ClientInv, IsClient, NoClient
  <2> HIDE DEF y
  <2>. QED
    BY <1>1, <1>3, <2>1, <2>2 DEF ClientInv, SameOwner
<1>. QED
  BY <1>2, <1>3

LEMMA ClosingKeepsOwners ==
  ASSUME LegacyInv, NEW j \in Requests \X Backends, CloseAdapter(j),
         UNCHANGED <<client, clientPromise, closedEarly>>
  PROVE  LegacyInv'
<1>1. \A l \in Clients :
        clients'[l] = IF l = client[j[2]] /\ client[j[2]] # None THEN Closing(clients[l]) ELSE clients[l]
  BY DEF CloseAdapter, LegacyInv, Shape
<1>2. Shape' /\ \A l \in Clients : SameOwner(clients[l], clients'[l])
  BY <1>1, SameClient, ClosingOwner DEF CloseAdapter, LegacyInv, Shape
<1>. QED
  BY <1>2, OwnersStay

(* The client an adapter has when it forgets it was told to end.           *)
Harmless(b) == client[b] # None => clients[client[b]].killed \/ clients[client[b]].proc # "up"

LEMMA ForgettingKeepsOwners ==
  ASSUME LegacyInv, NEW j \in Requests \X Backends, Closed(j), Harmless(j[2])
  PROVE  LegacyInv'
<1> DEFINE b == j[2]
<1>1. /\ Shape' /\ clients' = clients /\ b \in Backends
      /\ client'[b] = None /\ clientPromise'[b] = None
      /\ \A a \in Backends : a # b => client'[a] = client[a] /\ clientPromise'[a] = clientPromise[a]
  BY DEF Closed, LegacyInv, Shape
<1>2. /\ closedEarly \subseteq closedEarly'
      /\ \A a \in Backends : a # b => (a \in closedEarly' => a \in closedEarly)
      /\ clientPromise[b] # None /\ clients[clientPromise[b]].conn = "connecting" => b \in closedEarly'
  BY DEF Closed
<1> HIDE DEF b
<1>3. ASSUME NEW k \in Clients PROVE ClientInv(k)' /\ Owned(k)'
  <2>1. ClientInv(k) /\ Owned(k) /\ BackendInv(b)
    BY <1>1 DEF LegacyInv
  <2>2. ClientInv(k)'
    BY <1>1, <2>1 DEF ClientInv
  <2>3. ASSUME clients[k].proc = "up", ~clients[k].killed
        PROVE  Owned(k)'
    <3>1. client[b] # k /\ clients[k].of \in Backends
      BY <2>1, <2>3, ClientAssumption DEF Harmless, ClientInv, b
    <3>2. CASE clientPromise[b] = k
      <4>1. clients[k].of = b /\ clients[k].conn \in {"connecting", "failed"} /\ clientPromise[b] # None
        BY <2>1, <3>2, ClientAssumption DEF BackendInv, Promised
      <4>. QED
        BY <1>1, <1>2, <3>2, <4>1 DEF Owned
    <3>3. CASE clientPromise[b] # k
      BY <1>1, <1>2, <2>1, <2>3, <3>1, <3>3 DEF Owned
    <3>. QED
      BY <3>2, <3>3
  <2>. QED
    BY <1>1, <2>2, <2>3 DEF Owned
<1>4. ASSUME NEW a \in Backends PROVE BackendInv(a)'
  <2>1. BackendInv(a)
    BY DEF LegacyInv
  <2>2. CASE a = b
    BY <1>1, <1>2, <2>1, <2>2, ClientAssumption DEF BackendInv, Promised, Held, OneConnects
  <2>3. CASE a # b
    BY <1>1, <1>2, <2>1, <2>3 DEF BackendInv, Promised, Held, OneConnects
  <2>. QED
    BY <2>2, <2>3
<1>. QED
  BY <1>1, <1>3, <1>4 DEF LegacyInv

LEMMA SpawningKeepsOwners ==
  ASSUME LegacyInv, NEW b \in Backends, NEW k \in Unused,
         ~Usable(client[b]), clientPromise[b] = None,
         clients' = [clients EXCEPT ![k] = Spawned(b)],
         clientPromise' = [clientPromise EXCEPT ![b] = k],
         UNCHANGED <<client, closedEarly>>
  PROVE  LegacyInv'
<1>1. Shape' /\ clientPromise'[b] = k
      /\ \A a \in Backends : a # b => clientPromise'[a] = clientPromise[a]
  BY DEF LegacyInv, Shape
<1>2. k \in Clients /\ clients[k].conn = "no" /\ k # None /\ clients'[k] = Spawned(b)
      /\ \A l \in Clients : l # k => clients'[l] = clients[l]
  BY ClientAssumption DEF Unused, LegacyInv, Shape
<1>3. LET cl == Spawned(b)
      IN  /\ IsClient(cl) /\ cl.killed = FALSE /\ cl.closed = FALSE /\ cl.conn = "connecting"
          /\ cl.of = b /\ cl.child = TRUE
          /\ \A p \in cl.pending : p.id = 1
  <2> DEFINE new == [NoClient EXCEPT !.of = b, !.child = TRUE, !.proc = "up", !.conn = "connecting"]
             pending == new.pending \cup {[id |-> new.nextId, who |-> Connecting]}
  <2>1. /\ IsClient(new) /\ new.killed = FALSE /\ new.closed = FALSE /\ new.conn = "connecting"
        /\ new.of = b /\ new.child = TRUE /\ new.nextId = 1 /\ new.pending = {}
    BY DEF NoClient, IsClient
  <2>2. \A p \in pending : p.id = 1
    BY <2>1
  <2>3. Spawned(b) = [new EXCEPT !.nextId = @ + 1, !.asked = @ \cup {new.nextId},
                                 !.pending = pending]
    BY <2>1 DEF Spawned, Requesting, NoClient
  <2> HIDE DEF new, pending
  <2>. QED
    BY <2>1, <2>2, <2>3 DEF IsClient, NoClient
<1>4. ASSUME NEW l \in Clients PROVE ClientInv(l)' /\ Owned(l)'
  <2>1. ClientInv(l) /\ Owned(l)
    BY DEF LegacyInv
  <2>2. CASE l = k
    <3>1. clients'[l] = Spawned(b)
      BY <1>2, <2>2
    <3>2. ClientInv(l)'
      BY <1>3, <3>1 DEF ClientInv
    <3>3. Owned(l)'
      BY <1>1, <1>3, <2>2, <3>1 DEF Owned
    <3>. QED
      BY <3>2, <3>3
  <2>3. CASE l # k
    <3>1. ClientInv(l)'
      BY <1>2, <2>1, <2>3 DEF ClientInv
    <3>2. clients[l].of = b => clientPromise[b] # l
      BY ClientAssumption
    <3>. QED
      BY <1>1, <1>2, <2>1, <2>3, <3>1, <3>2 DEF Owned, ClientInv
  <2>. QED
    BY <2>2, <2>3
<1>5. ASSUME NEW a \in Backends PROVE BackendInv(a)'
  <2>1. BackendInv(a)
    BY DEF LegacyInv
  <2>2. /\ clientPromise[a] # k /\ client[a] # k
    BY <1>2, <2>1 DEF BackendInv, Promised, Held
  <2>3. Held(a)'
    BY <1>2, <2>1, <2>2 DEF BackendInv, Held
  <2>4. Promised(a)'
    BY <1>1, <1>2, <1>3, <2>1, <2>2 DEF BackendInv, Promised
  <2>5. CASE a = b
    <3>1. client[b] = None \/ clients'[client[b]].closed
      BY <1>2, <2>1, <2>2, <2>5 DEF Usable, BackendInv, Held
    <3>2. b \notin closedEarly =>
            \A l \in Clients : clients'[l].of = b /\ clients'[l].conn = "connecting" => l = k
      BY <1>2, <2>1, <2>5, ClientAssumption DEF BackendInv, OneConnects
    <3>3. OneConnects(a)'
      BY <1>1, <2>5, <3>1, <3>2 DEF OneConnects
    <3>. QED
      BY <2>3, <2>4, <3>3 DEF BackendInv
  <2>6. CASE a # b
    <3>1. OneConnects(a)'
      BY <1>1, <1>2, <1>3, <2>1, <2>2, <2>6 DEF BackendInv, Held, OneConnects
    <3>. QED
      BY <2>3, <2>4, <3>1 DEF BackendInv
  <2>. QED
    BY <2>5, <2>6
<1>. QED
  BY <1>1, <1>4, <1>5 DEF LegacyInv

(* What a settled request leaves of its client.                            *)
LEMMA SettlingKeepsOwners ==
  ASSUME LegacyInv, NEW k \in Clients, NEW after, SameOwner(clients[k], after),
         NEW who, NEW with, Settle(k, after, who, with),
         Connecting \in who =>
           /\ clients[k].conn = "connecting"
           /\ \A p \in after.pending : p.who # Connecting
  PROVE  LegacyInv'
<1>1. CASE Connecting \notin who
  <2>1. /\ clients' = [clients EXCEPT ![k] = after]
        /\ client' = [b \in Backends |-> client[b]]
        /\ clientPromise' = [b \in Backends |-> clientPromise[b]]
        /\ closedEarly' = closedEarly
    BY <1>1 DEF Settle
  <2>2. Shape' /\ client' = client /\ clientPromise' = clientPromise
    BY <2>1 DEF LegacyInv, Shape
  <2>3. \A l \in Clients : SameOwner(clients[l], clients'[l])
    BY <2>1, SameClient DEF LegacyInv, Shape
  <2>. QED
    BY <2>1, <2>2, <2>3, OwnersStay
<1>2. CASE Connecting \in who
  <2> DEFINE b == clients[k].of
             installs == with # "error"
             conn == IF installs THEN "connected" ELSE "failed"
             y == [after EXCEPT !.conn = conn]
  <2>1. /\ clients' = [clients EXCEPT ![k] = y]
        /\ client' = [a \in Backends |-> IF installs /\ a = b THEN k ELSE client[a]]
        /\ clientPromise' = [a \in Backends |-> IF installs /\ a = b THEN None ELSE clientPromise[a]]
        /\ closedEarly' = closedEarly
    BY <1>2 DEF Settle
  <2>2. /\ ClientInv(k) /\ b \in Backends /\ BackendInv(b) /\ clients[k].conn = "connecting"
    BY <1>2 DEF LegacyInv, ClientInv
  <2>3. /\ IsClient(y) /\ y.conn = conn /\ y.of = b /\ y.proc = after.proc
        /\ y.closed = after.closed /\ y.killed = after.killed /\ y.child = after.child
        /\ y.pending = after.pending
    BY DEF SameOwner, IsClient, NoClient
  <2> HIDE DEF y
  <2>4. /\ Shape' /\ clients'[k] = y
        /\ \A l \in Clients : l # k => clients'[l] = clients[l]
    BY <2>1 DEF LegacyInv, Shape
  <2>5. ClientInv(k)'
    BY <1>2, <2>2, <2>3, <2>4 DEF ClientInv, SameOwner
  <2>6. b \notin closedEarly => /\ clientPromise[b] = k
                                /\ client[b] = None \/ clients[client[b]].proc # "up"
    BY <2>2 DEF BackendInv, OneConnects, Held, LegacyInv, ClientInv
  <2>7. ASSUME NEW l \in Clients PROVE ClientInv(l)' /\ Owned(l)'
    <3>1. ClientInv(l) /\ Owned(l)
      BY DEF LegacyInv
    <3>2. CASE l = k
      BY <2>1, <2>2, <2>3, <2>4, <2>5, <3>2 DEF Owned
    <3>3. CASE l # k
      <4>1. ClientInv(l)'
        BY <2>4, <3>1, <3>3 DEF ClientInv
      <4>2. ASSUME clients[l].proc = "up" PROVE clients[l].of \in Backends
        BY <3>1, <4>2 DEF ClientInv
      <4>3. Owned(l)'
        <5> SUFFICES ASSUME clients[l].proc = "up", ~clients[l].killed
                     PROVE  Owned(l)'
          BY <2>4, <3>3 DEF Owned
        <5>1. CASE clients[l].of = b /\ installs
          <6>1. b \notin closedEarly => client[b] # l
            BY <2>6, ClientAssumption
          <6>. QED
            BY <2>1, <2>4, <2>6, <3>1, <3>3, <5>1, <6>1 DEF Owned
        <5>2. CASE ~(clients[l].of = b /\ installs)
          BY <2>1, <2>4, <3>1, <3>3, <4>2, <5>2 DEF Owned
        <5>. QED
          BY <5>1, <5>2
      <4>. QED
        BY <4>1, <4>3
    <3>. QED
      BY <3>2, <3>3
  <2>8. ASSUME NEW a \in Backends PROVE BackendInv(a)'
    <3>1. BackendInv(a)
      BY DEF LegacyInv
    <3>2. \A l \in Clients : /\ clients'[l].of = clients[l].of
                             /\ clients[l].closed => clients'[l].closed
                             /\ clients'[l].conn = IF l = k THEN conn ELSE clients[l].conn
      BY <2>3, <2>4 DEF SameOwner
    <3>3. CASE installs /\ a = b
      BY <2>1, <2>2, <3>1, <3>2, <3>3, ClientAssumption DEF BackendInv, Promised, Held, OneConnects
    <3>4. CASE ~(installs /\ a = b)
      <4>1. client'[a] = client[a] /\ clientPromise'[a] = clientPromise[a]
        BY <2>1, <3>4
      <4>2. Held(a)'
        BY <2>2, <3>1, <3>2, <4>1 DEF BackendInv, Held
      <4>3. Promised(a)'
        BY <2>2, <3>1, <3>2, <3>4, <4>1 DEF BackendInv, Promised
      <4>4. OneConnects(a)'
        BY <2>1, <3>1, <3>2, <4>1 DEF BackendInv, Held, OneConnects
      <4>. QED
        BY <4>2, <4>3, <4>4 DEF BackendInv
    <3>. QED
      BY <3>3, <3>4
  <2>. QED
    BY <2>4, <2>7, <2>8 DEF LegacyInv
<1>. QED
  BY <1>1, <1>2

-----------------------------------------------------------------------------
LEMMA FailingKeepsOwners ==
  ASSUME LegacyInv, NEW j \in Requests \X Backends, Fail(j)
  PROVE  LegacyInv'
<1>1. CASE CloseAdapter(j)
  BY <1>1, ClosingKeepsOwners DEF Fail
<1>2. CASE UNCHANGED clients
  BY <1>2, SameClient, OwnersStay DEF Fail, LegacyInv, Shape
<1>. QED
  BY <1>1, <1>2 DEF Fail

LEMMA AskingKeepsOwners ==
  ASSUME LegacyInv, NEW j \in Requests \X Backends, NEW k, NEW pc, Ask(j, k, pc)
  PROVE  LegacyInv'
<1>1. CASE Fail(j)
  BY <1>1, FailingKeepsOwners
<1>2. CASE /\ CanSend(k)
           /\ clients' = [clients EXCEPT ![k] = Requesting(@, j)]
           /\ UNCHANGED <<client, clientPromise, closedEarly>>
  <2>1. ASSUME k \in Clients PROVE SameOwner(clients[k], Requesting(clients[k], j))
    <3> DEFINE x == clients[k]
               y == Requesting(x, j)
    <3>1. ClientInv(k) /\ x.child /\ j # Connecting
      BY <1>2, <2>1, ConnectingAssumption DEF CanSend, LegacyInv
    <3>2. /\ IsClient(y) /\ y.of = x.of /\ y.conn = x.conn /\ y.proc = x.proc /\ y.closed = x.closed
          /\ y.killed = x.killed /\ y.child = x.child
          /\ y.pending = x.pending \cup {[id |-> x.nextId, who |-> j]}
      BY <3>1 DEF ClientInv, IsClient, NoClient, Requesting
    <3> HIDE DEF y
    <3>3. \A p \in y.pending : p \in x.pending \/ (p.who # Connecting /\ x.child)
      BY <3>1, <3>2
    <3>4. x.killed \in BOOLEAN /\ x.closed \in BOOLEAN
      BY <3>1 DEF ClientInv
    <3> HIDE DEF x
    <3>5. SameOwner(x, y)
      BY <3>1, <3>2, <3>3, <3>4 DEF SameOwner
    <3>. QED
      BY <3>5 DEF x, y
  <2>2. Shape' /\ \A l \in Clients : SameOwner(clients[l], clients'[l])
    BY <1>2, <2>1, SameClient DEF LegacyInv, Shape
  <2>. QED
    BY <1>2, <2>2, OwnersStay
<1>. QED
  BY <1>1, <1>2 DEF Ask

LEMMA JobsKeepOwners ==
  ASSUME LegacyInv, NEW j \in Requests \X Backends, JobStep(j),
         jobs[j].pc = "closing" => Harmless(j[2])
  PROVE  LegacyInv'
<1>1. j[2] \in Backends
  OBVIOUS
<1>2. CASE Fail(j)
  BY <1>2, FailingKeepsOwners
<1>3. CASE UNCHANGED <<clients, client, clientPromise, closedEarly>>
  BY <1>3, SameClient, OwnersStay DEF LegacyInv, Shape
<1>4. ASSUME NEW k, NEW pc, Ask(j, k, pc) PROVE LegacyInv'
  BY <1>4, AskingKeepsOwners
<1>5. CASE /\ ~Usable(client[j[2]]) /\ clientPromise[j[2]] = None
           /\ \E k \in Unused : /\ clients' = [clients EXCEPT ![k] = Spawned(j[2])]
                                /\ clientPromise' = [clientPromise EXCEPT ![j[2]] = k]
           /\ UNCHANGED <<client, closedEarly>>
  BY <1>1, <1>5, SpawningKeepsOwners
<1>6. CASE GetClient(j)
  BY <1>2, <1>3, <1>4, <1>5, <1>6 DEF GetClient
<1>7. CASE Connected(j) \/ Polled(j) \/ Slept(j) \/ ReadDone(j)
  BY <1>2, <1>3, <1>4, <1>7 DEF Connected, Polled, Slept, ReadDone
<1>8. CASE Closed(j)
  BY <1>8, ForgettingKeepsOwners DEF Closed
<1>. QED
  BY <1>6, <1>7, <1>8 DEF JobStep

LEMMA EventsKeepOwners ==
  ASSUME LegacyInv, LegacyEvent
  PROVE  LegacyInv'
<1>1. ASSUME NEW k \in Clients, NEW id, Reply(k, id) \/ RequestTimer(k, id) PROVE LegacyInv'
  <2> DEFINE x == clients[k]
             y == AfterReply(k, id)
             z == AfterTimer(k, id)
             rest == {p \in x.pending : p.id # id}
  <2>1. ClientInv(k)
    BY DEF LegacyInv
  <2>2. /\ IsClient(y) /\ y.of = x.of /\ y.conn = x.conn /\ y.proc = x.proc /\ y.closed = x.closed
        /\ y.killed = x.killed /\ y.child = x.child /\ y.pending = rest
    BY <2>1 DEF ClientInv, IsClient, NoClient, AfterReply
  <2>3. /\ IsClient(z) /\ z.of = x.of /\ z.conn = x.conn /\ z.proc = x.proc /\ z.closed = x.closed
        /\ z.killed = x.killed /\ z.child = x.child /\ z.pending = rest
    BY <2>1 DEF ClientInv, IsClient, NoClient, AfterTimer
  <2>4. Connecting \in SettledBy(k, id) =>
          x.conn = "connecting" /\ \A p \in rest : p.who # Connecting
    BY <2>1 DEF ClientInv, SettledBy
  <2> HIDE DEF x, y, z, rest
  <2>5. SameOwner(x, y) /\ SameOwner(x, z)
    BY <2>1, <2>2, <2>3 DEF SameOwner, ClientInv, x, rest
  <2>6. \/ \E with : Settle(k, y, SettledBy(k, id), with)
        \/ \E with : Settle(k, z, SettledBy(k, id), with)
    BY <1>1 DEF Reply, RequestTimer, y, z
  <2>. QED
    BY <2>2, <2>3, <2>4, <2>5, <2>6, SettlingKeepsOwners DEF x
<1>2. ASSUME NEW k \in Clients, ChildClosed(k) PROVE LegacyInv'
  <2> DEFINE x == clients[k]
             y == AfterClose(k)
  <2>1. ClientInv(k) /\ x.proc = "ended"
    BY <1>2 DEF LegacyInv, ChildClosed
  <2>2. /\ IsClient(y) /\ y.of = x.of /\ y.conn = x.conn /\ y.proc = x.proc /\ y.closed = TRUE
        /\ y.killed = x.killed /\ y.child = x.child /\ y.pending = {}
    BY <2>1 DEF ClientInv, IsClient, NoClient, AfterClose
  <2>3. Connecting \in Waiters(k) => x.conn = "connecting"
    BY <2>1 DEF ClientInv, Waiters
  <2> HIDE DEF x, y
  <2>4. SameOwner(x, y)
    BY <2>1, <2>2 DEF SameOwner, ClientInv, x
  <2>5. Settle(k, y, Waiters(k), "error")
    BY <1>2 DEF ChildClosed, y
  <2>. QED
    BY <2>2, <2>3, <2>4, <2>5, SettlingKeepsOwners DEF x
<1>3. ASSUME NEW k \in Clients, ChildEnds(k), UNCHANGED <<client, clientPromise, closedEarly>>
      PROVE  LegacyInv'
  <2> DEFINE x == clients[k]
             y == [x EXCEPT !.proc = "ended"]
  <2>1. ClientInv(k) /\ x.proc = "up" /\ clients' = [clients EXCEPT ![k] = y]
    BY <1>3 DEF LegacyInv, ChildEnds, Shape
  <2>2. /\ IsClient(y) /\ y.of = x.of /\ y.conn = x.conn /\ y.proc = "ended" /\ y.closed = x.closed
        /\ y.killed = x.killed /\ y.child = x.child /\ y.pending = x.pending
    BY <2>1 DEF ClientInv, IsClient, NoClient
  <2> HIDE DEF y
  <2>3. SameOwner(x, y)
    BY <2>1, <2>2 DEF SameOwner, ClientInv
  <2>4. Shape' /\ \A l \in Clients : SameOwner(clients[l], clients'[l])
    BY <1>3, <2>1, <2>3, SameClient DEF LegacyInv, Shape
  <2>. QED
    BY <1>3, <2>4, OwnersStay
<1>4. CASE UNCHANGED <<clients, client, clientPromise, closedEarly>>
  BY <1>4, SameClient, OwnersStay DEF LegacyInv, Shape
<1>. QED
  BY <1>1, <1>2, <1>3, <1>4 DEF LegacyEvent, Crash, SleepOver

(* A job that closes its adapter goes on before any event, and so finds    *)
(* the client it has told to end, or none.                                 *)
JobsInv ==
  /\ jobs = [j \in Requests \X Backends |-> jobs[j]]
  /\ \A j \in Requests \X Backends :
       /\ DOMAIN jobs[j] = DOMAIN NoJob
       /\ jobs[j].pc = "closing" => jobs[j].due # None /\ Harmless(j[2])

LEMMA NextKeepsOwners ==
  ASSUME LegacyInv, JobsInv, [Next]_vars
  PROVE  LegacyInv'
<1>1. CASE UNCHANGED <<clients, client, clientPromise, closedEarly>>
  BY <1>1, SameClient, OwnersStay DEF LegacyInv, Shape
<1>2. ASSUME NEW j \in Due, JobStep(j) PROVE LegacyInv'
  <2>1. j \in Requests \X Backends
    BY DEF Due, JobsInv
  <2>. QED
    BY <1>2, <2>1, JobsKeepOwners DEF JobsInv
<1>3. CASE LegacyEvent
  BY <1>3, EventsKeepOwners
<1>. QED
  BY <1>1, <1>2, <1>3 DEF Next, Reacts, ReadChunk, ExecuteEvent, Send, Rest, vars, legacyVars

(* A step of one job leaves the others as they are, and what is harmless.  *)
LEMMA StepsKeepHarmless ==
  ASSUME LegacyInv, NEW j \in Requests \X Backends, JobStep(j), NEW b \in Backends, Harmless(b)
  PROVE  Harmless(b)'
<1>1. CASE client' = client /\ \A k \in Clients : SameOwner(clients[k], clients'[k])
  BY <1>1 DEF Harmless, LegacyInv, BackendInv, Held, SameOwner
<1>2. ASSUME CloseAdapter(j), client' = client PROVE Harmless(b)'
  BY <1>1, <1>2, SameClient, ClosingOwner DEF CloseAdapter, LegacyInv, Shape
<1>3. CASE Fail(j)
  BY <1>1, <1>2, <1>3, SameClient DEF Fail
<1>4. ASSUME NEW k \in Unused, clients' = [clients EXCEPT ![k] = Spawned(j[2])], client' = client
      PROVE  Harmless(b)'
  <2>1. client[b] # None => client[b] \in Clients /\ client[b] # k
    BY DEF LegacyInv, BackendInv, Held, Unused
  <2>2. \A l \in Clients : l # k => clients'[l] = clients[l]
    BY <1>4 DEF LegacyInv, Shape
  <2>. QED
    BY <1>4, <2>1, <2>2 DEF Harmless
<1>5. ASSUME NEW k, NEW pc, Ask(j, k, pc) PROVE Harmless(b)'
  <2>1. CASE Fail(j)
    BY <1>3, <2>1
  <2>2. CASE clients' = [clients EXCEPT ![k] = Requesting(@, j)] /\ client' = client
    <3>1. client[b] # None => client[b] \in Clients /\ IsClient(clients[client[b]])
      BY DEF LegacyInv, BackendInv, Held, ClientInv
    <3>2. \A cl : IsClient(cl) => Requesting(cl, j).killed = cl.killed /\ Requesting(cl, j).proc = cl.proc
      BY DEF Requesting, IsClient, NoClient
    <3>3. client[b] # None =>
            clients'[client[b]] = IF client[b] = k THEN Requesting(clients[k], j) ELSE clients[client[b]]
      BY <2>2, <3>1 DEF LegacyInv, Shape
    <3>. QED
      BY <2>2, <3>1, <3>2, <3>3 DEF Harmless
  <2>. QED
    BY <1>5, <2>1, <2>2 DEF Ask
<1>6. CASE UNCHANGED <<clients, client>>
  BY <1>6 DEF Harmless
<1>7. CASE Closed(j)
  BY <1>7 DEF Closed, Harmless, LegacyInv, Shape
<1>8. CASE GetClient(j)
  BY <1>3, <1>4, <1>5, <1>6, <1>8 DEF GetClient
<1>9. CASE Connected(j) \/ Polled(j) \/ Slept(j) \/ ReadDone(j)
  BY <1>3, <1>5, <1>6, <1>9 DEF Connected, Polled, Slept, ReadDone
<1>. QED
  BY <1>7, <1>8, <1>9 DEF JobStep

LEMMA StepsKeepJobs ==
  ASSUME LegacyInv, JobsInv, NEW j \in Requests \X Backends, JobStep(j)
  PROVE  JobsInv'
<1> DEFINE Good(y) == DOMAIN y = DOMAIN NoJob
<1>1. ASSUME NEW y, Good(y), jobs' = [jobs EXCEPT ![j] = y],
             y.pc = "closing" => y.due # None /\ Harmless(j[2])'
      PROVE  JobsInv'
  <2>1. ASSUME NEW i \in Requests \X Backends
        PROVE  /\ DOMAIN jobs'[i] = DOMAIN NoJob
               /\ jobs'[i].pc = "closing" => jobs'[i].due # None /\ Harmless(i[2])'
    <3>1. jobs'[i] = IF i = j THEN y ELSE jobs[i]
      BY <1>1 DEF JobsInv
    <3>2. i[2] \in Backends
      OBVIOUS
    <3>. QED
      BY <1>1, <3>1, <3>2, StepsKeepHarmless DEF JobsInv
  <2>2. jobs' = [i \in Requests \X Backends |-> jobs'[i]]
    BY <1>1 DEF JobsInv
  <2>. QED
    BY <2>1, <2>2 DEF JobsInv
<1>2. ASSUME NEW out, Answer(j, out) PROVE JobsInv'
  <2> DEFINE y == [NoJob EXCEPT !.pc = "done", !.out = out]
  <2>1. Good(y) /\ y.pc = "done" /\ jobs' = [jobs EXCEPT ![j] = y]
    BY <1>2 DEF Answer, NoJob
  <2> HIDE DEF y
  <2>. QED
    BY <1>1, <2>1
<1>3. ASSUME NEW pc, NEW k, pc # "closing", WaitsAt(j, pc, k) PROVE JobsInv'
  <2> DEFINE y == [jobs[j] EXCEPT !.pc = pc, !.k = k, !.due = None]
  <2>1. Good(y) /\ y.pc = pc /\ jobs' = [jobs EXCEPT ![j] = y]
    BY <1>3 DEF WaitsAt, JobsInv, NoJob
  <2> HIDE DEF y
  <2>. QED
    BY <1>1, <1>3, <2>1
<1>4. ASSUME CloseAdapter(j), client' = client PROVE JobsInv'
  <2> DEFINE y == [jobs[j] EXCEPT !.pc = "closing", !.due = "ok"]
  <2>1. Good(y) /\ y.due = "ok" /\ jobs' = [jobs EXCEPT ![j] = y]
    BY <1>4 DEF CloseAdapter, JobsInv, NoJob
  <2> HIDE DEF y
  <2>2. j[2] \in Backends
    OBVIOUS
  <2>3. ASSUME client[j[2]] # None
        PROVE  clients'[client[j[2]]].killed \/ clients'[client[j[2]]].proc # "up"
    <3> DEFINE k == client[j[2]]
    <3>1. k \in Clients /\ clients[k].conn = "connected"
      BY <2>2, <2>3 DEF LegacyInv, BackendInv, Held
    <3>2. clients'[k] = Closing(clients[k])
      BY <1>4, <2>3, <3>1 DEF CloseAdapter, LegacyInv, Shape
    <3>. QED
      BY <3>1, <3>2, ClosingOwner
  <2>4. Harmless(j[2])' /\ y.due # None
    BY <1>4, <2>1, <2>3, DueAssumption DEF Harmless
  <2>. QED
    BY <1>1, <2>1, <2>4
<1>5. CASE Fail(j)
  BY <1>2, <1>4, <1>5 DEF Fail
<1>6. ASSUME NEW k, NEW pc, pc # "closing", Ask(j, k, pc) PROVE JobsInv'
  BY <1>3, <1>5, <1>6 DEF Ask
<1>7. ASSUME jobs' = [jobs EXCEPT ![j].pc = "sleeping", ![j].polls = @ + 1, ![j].due = None]
      PROVE  JobsInv'
  <2> DEFINE y == [jobs[j] EXCEPT !.pc = "sleeping", !.polls = @ + 1, !.due = None]
  <2>1. Good(y) /\ y.pc = "sleeping" /\ jobs' = [jobs EXCEPT ![j] = y]
    BY <1>7 DEF JobsInv, NoJob
  <2> HIDE DEF y
  <2>. QED
    BY <1>1, <2>1
<1>8. CASE GetClient(j)
  BY <1>3, <1>5, <1>6, <1>8 DEF GetClient
<1>9. CASE Connected(j) \/ Polled(j) \/ Slept(j) \/ ReadDone(j) \/ Closed(j)
  BY <1>2, <1>5, <1>6, <1>7, <1>9 DEF Connected, Polled, Slept, ReadDone, Closed
<1>. QED
  BY <1>8, <1>9 DEF JobStep

\* Before an event nothing is due, so nobody is closing.
LEMMA EventsKeepJobs ==
  ASSUME JobsInv, LegacyEvent, Due = {}
  PROVE  JobsInv'
<1> DEFINE J == Requests \X Backends
<1>1. DOMAIN jobs = J /\ \A j \in J : DOMAIN jobs[j] = DOMAIN NoJob /\ jobs[j].pc # "closing"
  BY DEF JobsInv, Due
<1>2. ASSUME jobs' = [j \in J |-> jobs'[j]],
             \A j \in J : DOMAIN jobs'[j] = DOMAIN NoJob /\ jobs'[j].pc = jobs[j].pc
      PROVE  JobsInv'
  BY <1>1, <1>2 DEF JobsInv
<1>3. ASSUME NEW k, NEW after, NEW who, NEW with, Settle(k, after, who, with) PROVE JobsInv'
  <2>1. /\ jobs' = [j \in J |-> jobs'[j]]
        /\ \A j \in J : jobs'[j] = jobs[j] \/ jobs'[j] = [jobs[j] EXCEPT !.due = with]
    BY <1>1, <1>3 DEF Settle
  <2>. QED
    BY <1>1, <1>2, <2>1 DEF NoJob
<1>4. ASSUME NEW j, SleepOver(j) PROVE JobsInv'
  <2>1. /\ jobs' = [i \in J |-> jobs'[i]]
        /\ \A i \in J : jobs'[i] = jobs[i] \/ jobs'[i] = [jobs[i] EXCEPT !.due = "ok"]
    BY <1>1, <1>4 DEF SleepOver
  <2>. QED
    BY <1>1, <1>2, <2>1 DEF NoJob
<1>5. CASE UNCHANGED jobs
  BY <1>1, <1>2, <1>5 DEF JobsInv
<1>. QED
  BY <1>3, <1>4, <1>5 DEF LegacyEvent, Reply, RequestTimer, ChildClosed

LEMMA NextKeepsJobs ==
  ASSUME LegacyInv, JobsInv, [Next]_vars
  PROVE  JobsInv'
<1>1. ASSUME NEW j \in Due, JobStep(j) PROVE JobsInv'
  BY <1>1, StepsKeepJobs DEF Due, JobsInv
<1>2. CASE LegacyEvent /\ ~Reacting
  BY <1>2, EventsKeepJobs DEF Reacting
<1>3. CASE UNCHANGED <<jobs, clients, client>>
  BY <1>3 DEF JobsInv, Harmless
<1>4. CASE ReadChunk
  <2>1. ASSUME NEW kind PROVE DOMAIN NewJob(kind) = DOMAIN NoJob /\ NewJob(kind).pc = "start"
    BY DEF NewJob, NoJob
  <2>2. /\ UNCHANGED <<clients, client>> /\ jobs' = [j \in Requests \X Backends |-> jobs'[j]]
        /\ \A j \in Requests \X Backends : jobs'[j] = jobs[j] \/ \E kind : jobs'[j] = NewJob(kind)
    BY <1>4 DEF ReadChunk, JobsInv
  <2>. QED
    BY <2>1, <2>2 DEF JobsInv, Harmless
<1>. QED
  BY <1>1, <1>2, <1>3, <1>4 DEF Next, Reacts, ExecuteEvent, Send, Rest, vars, legacyVars

(* Every backend process is in somebody's hands: one that runs and was not *)
(* told to end is the client its adapter uses or waits for, but for those  *)
(* whose connect() failed and those of an adapter closed while one of its  *)
(* clients was connecting.                                                 *)
THEOREM NoProcessForgotten == Spec => []ProcessesAreOwned
<1> DEFINE Inv == LegacyInv /\ JobsInv
<1>1. Init => Inv
  BY InitLegacy DEF Init, LegacyInit, JobsInv, NoJob
<1>2. Inv /\ [Next]_vars => Inv'
  BY NextKeepsOwners, NextKeepsJobs
<1>3. Inv => ProcessesAreOwned
  BY DEF LegacyInv, Owned, ProcessesAreOwned
<1>. QED
  BY <1>1, <1>2, <1>3, PTL DEF Spec

-----------------------------------------------------------------------------
(***************************************************************************)
(* unified_execute.  What is known of a call, given the file as it is and  *)
(* how often it has changed: while it reads, each node asked for is still  *)
(* to be read, or was read as it is, or was missed and is not there, or    *)
(* its read was lost.                                                      *)
(***************************************************************************)
IsRun(run) == DOMAIN run = DOMAIN NoRun /\ run.since \in Nat
Undisturbed(run, now) == run.since = now

Gathered(run, file) ==
  /\ ToSet(Reads(run.args)) = ToSet(run.todo) \cup DOMAIN run.read \cup run.missed
  /\ run.read = [n \in DOMAIN run.read |-> file[n]]
  /\ \A n \in DOMAIN run.read : file[n] # Gone
  /\ \A n \in run.missed :
       \/ file[n] = Gone \/ (file[n] = Boxless /\ Capability(run.args).operation = "measure")
       \/ n \in run.lost \cup DOMAIN run.read
  /\ run.lost \subseteq run.missed
  /\ Capability(run.args).operation = "verify" => run.lost \cap DOMAIN run.read = {}
  /\ Capability(run.args).operation = "diff" => run.missed = {}

There(run, file) == {n \in ToSet(Reads(run.args)) : file[n] # Gone /\ n \notin run.lost}
Told(run, file) ==
  /\ run.out = "ok" => run.result = [n \in There(run, file) |-> file[n]]
  /\ There(run, file) # ToSet(Reads(run.args)) =>
       (run.out = "ok") = (Capability(run.args).operation = "verify")

RunOK(run, file, now) ==
  /\ IsRun(run) /\ run.since <= now
  /\ run.pc = "thrown" => run.sent = 0
  /\ run.pc = "queued" => ~Capability(run.args).compound
  /\ run.pc = "reading" =>
       /\ Capability(run.args).compound
       /\ Capability(run.args).operation \in {"diff", "verify", "measure"}
       /\ run.todo \in Seq(DOMAIN FirstFile) /\ run.todo # <<>>
       /\ Capability(run.args).operation = "verify" => Head(run.todo) \notin DOMAIN run.read
       /\ Undisturbed(run, now) => Gathered(run, file)
  /\ run.pc = "done" /\ Capability(run.args).compound /\ Undisturbed(run, now) => Told(run, file)

(* What Ends and the EXCEPTs of the calls leave of a record.               *)
LEMMA EndOfRun ==
  ASSUME NEW run, IsRun(run), NEW out, NEW result
  PROVE  /\ IsRun(Ends(run, out, result))
         /\ Ends(run, out, result).pc = "done" /\ Ends(run, out, result).out = out
         /\ Ends(run, out, result).result = result /\ Ends(run, out, result).args = run.args
         /\ Ends(run, out, result).since = run.since /\ Ends(run, out, result).lost = run.lost
         /\ Ends(run, out, result).sent = run.sent
BY DEF IsRun, NoRun, Ends

(* An undisturbed call that has read all tells the truth.                  *)
LEMMA ComparisonTells ==
  ASSUME NEW run, IsRun(run), NEW file, NEW now \in Nat, run.since <= now,
         Capability(run.args).operation \in {"diff", "verify", "measure"}, Ahead(run) = {},
         run.todo \in Seq(DOMAIN FirstFile),
         Undisturbed(run, now) => Gathered(run, file)
  PROVE  RunOK(NextRead(run), file, now)
<1> DEFINE y == NextRead(run)
<1>1. ASSUME Undisturbed(run, now)
      PROVE  /\ ToSet(Reads(run.args)) = DOMAIN run.read \cup run.missed
             /\ Gathered(run, file)
  <2>1. ToSet(run.todo) \subseteq DOMAIN run.read
    <3>1. DOMAIN run.todo = {} \/ \A n \in DOMAIN run.todo : run.todo[n] \in DOMAIN run.read
      BY DEF Ahead
    <3>. QED
      BY <3>1 DEF ToSet
  <2>. QED
    BY <1>1, <2>1 DEF Gathered
<1>2. CASE y = Ends(run, "ok", run.read) /\ (run.missed = {} \/ Capability(run.args).operation # "measure")
  <2>1. ASSUME Undisturbed(run, now) PROVE Told(y, file)
    <3>1. \A n \in run.missed : file[n] = Gone \/ n \in run.lost \cup DOMAIN run.read
      BY <1>1, <1>2, <2>1 DEF Gathered
    <3>2. run.lost \cap DOMAIN run.read = {}
      BY <1>1, <1>2, <2>1 DEF Gathered
    <3>3. DOMAIN run.read = There(run, file)
      BY <1>1, <2>1, <3>1, <3>2 DEF Gathered, There
    <3>4. run.read = [n \in There(run, file) |-> file[n]]
      BY <1>1, <2>1, <3>3 DEF Gathered
    <3>5. y.out = "ok" /\ y.result = run.read /\ y.args = run.args /\ y.lost = run.lost
      BY <1>2, EndOfRun
    <3>6. There(run, file) # ToSet(Reads(run.args)) => Capability(run.args).operation = "verify"
      BY <1>1, <1>2, <2>1, <3>3 DEF Gathered
    <3>7. There(y, file) = There(run, file)
      BY <3>5 DEF There
    <3> HIDE DEF y
    <3>. QED
      BY <3>4, <3>5, <3>6, <3>7 DEF Told
  <2>2. /\ IsRun(y) /\ y.pc = "done" /\ y.since = run.since /\ y.lost = run.lost
    BY <1>2, EndOfRun
  <2> HIDE DEF y
  <2>3. RunOK(y, file, now)
    BY <2>1, <2>2 DEF RunOK, Undisturbed
  <2>. QED
    BY <2>3 DEF y
<1>3. CASE \E out : out # "ok" /\ y = Ends(run, out, None) /\ Capability(run.args).operation = "measure"
  <2>0. PICK out : out # "ok" /\ y = Ends(run, out, None) /\ Capability(run.args).operation = "measure"
    BY <1>3
  <2>1. /\ IsRun(y) /\ y.pc = "done" /\ y.since = run.since /\ y.lost = run.lost /\ y.out = out
        /\ y.args = run.args
    BY <2>0, EndOfRun
  <2>2. Told(y, file)
    <3> HIDE DEF y
    <3>. QED
      BY <2>0, <2>1 DEF Told
  <2> HIDE DEF y
  <2>3. RunOK(y, file, now)
    BY <2>1, <2>2 DEF RunOK
  <2>. QED
    BY <2>3 DEF y
<1>4. \/ y = Ends(run, "ok", run.read) /\ (run.missed = {} \/ Capability(run.args).operation # "measure")
      \/ \E out : out # "ok" /\ y = Ends(run, out, None) /\ Capability(run.args).operation = "measure"
  <2>1. y = IF Capability(run.args).operation = "measure" THEN measured(run) ELSE verified(run)
    BY DEF NextRead
  <2>2. CASE Capability(run.args).operation # "measure"
    BY <2>1, <2>2 DEF verified
  <2>3. CASE Capability(run.args).operation = "measure" /\ run.missed # {}
    BY <2>1, <2>3 DEF measured
  <2>4. CASE Capability(run.args).operation = "measure" /\ run.missed = {}
    <3>1. \/ y = Ends(run, "ok", run.read)
          \/ y = Ends(run, "INVALID_PAYLOAD", None)
      BY <2>1, <2>4 DEF measured
    <3>. QED
      BY <2>4, <3>1
  <2>. QED
    BY <2>2, <2>3, <2>4
<1>. QED
  BY <1>2, <1>3, <1>4

LEMMA HeadAndRest ==
  ASSUME NEW S, NEW s \in Seq(S), s # <<>>
  PROVE  /\ Tail(s) \in Seq(S) /\ Head(s) \in S
         /\ ToSet(s) = ToSet(Tail(s)) \cup {Head(s)}
<1>1. /\ Tail(s) \in Seq(S) /\ Head(s) \in S /\ Head(s) = s[1] /\ Len(s) \in Nat \ {0}
      /\ DOMAIN s = 1..Len(s) /\ DOMAIN Tail(s) = 1..(Len(s) - 1)
      /\ \A m \in 1..(Len(s) - 1) : Tail(s)[m] = s[m + 1]
  OBVIOUS
<1>2. ASSUME NEW m \in DOMAIN s PROVE s[m] \in ToSet(Tail(s)) \cup {Head(s)}
  <2>1. CASE m = 1
    BY <1>1, <2>1
  <2>2. CASE m # 1
    <3>1. m - 1 \in 1..(Len(s) - 1) /\ Tail(s)[m - 1] = s[m]
      BY <1>1, <2>2
    <3>. QED
      BY <1>1, <3>1 DEF ToSet
  <2>. QED
    BY <2>1, <2>2
<1>3. ASSUME NEW m \in DOMAIN Tail(s) PROVE Tail(s)[m] \in ToSet(s)
  BY <1>1 DEF ToSet
<1>4. Head(s) \in ToSet(s)
  BY <1>1 DEF ToSet
<1>5. ToSet(s) \subseteq ToSet(Tail(s)) \cup {Head(s)}
  BY <1>2 DEF ToSet
<1>6. ToSet(Tail(s)) \subseteq ToSet(s)
  BY <1>3 DEF ToSet
<1>. QED
  BY <1>1, <1>4, <1>5, <1>6

(* The next read: what the loop passes over has been read.                 *)
LEMMA NextReadFound ==
  ASSUME NEW run, run.todo \in Seq(DOMAIN FirstFile), Ahead(run) # {}
  PROVE  \E k \in 1..Len(run.todo) :
           /\ NextRead(run) = [run EXCEPT !.todo = SubSeq(@, k, Len(@)), !.pc = "reading",
                                          !.sent = @ + 1]
           /\ \A m \in 1..Len(run.todo) : m < k => run.todo[m] \in DOMAIN run.read
           /\ Capability(run.args).operation = "verify" => run.todo[k] \notin DOMAIN run.read
<1>1. Ahead(run) \subseteq 1..Len(run.todo)
  BY DEF Ahead
<1> DEFINE Least(n) == \A m \in Ahead(run) : n <= m
           next == CHOOSE n \in Ahead(run) : Least(n)
<1>2. \E n \in Ahead(run) : Least(n)
  BY <1>1, LeastNumber
<1>3. next \in Ahead(run) /\ Least(next)
  BY <1>2, Zenon
<1>4. NextRead(run) = [run EXCEPT !.todo = SubSeq(@, next, Len(@)), !.pc = "reading",
                                  !.sent = @ + 1]
  BY DEF NextRead
<1>5. \A m \in 1..Len(run.todo) : m < next => m \notin Ahead(run)
  BY <1>1, <1>3
<1>6. \A m \in 1..Len(run.todo) : m < next => run.todo[m] \in DOMAIN run.read
  BY <1>5 DEF Ahead
<1>7. Capability(run.args).operation = "verify" => run.todo[next] \notin DOMAIN run.read
  BY <1>3 DEF Ahead
<1> HIDE DEF next
<1>. QED
  BY <1>1, <1>3, <1>4, <1>6, <1>7

LEMMA NextReadIsSound ==
  ASSUME NEW run, IsRun(run), NEW file, NEW now \in Nat, run.since <= now,
         Capability(run.args).compound,
         Capability(run.args).operation \in {"diff", "verify", "measure"},
         run.todo \in Seq(DOMAIN FirstFile),
         Undisturbed(run, now) => Gathered(run, file)
  PROVE  RunOK(NextRead(run), file, now)
<1>1. CASE Ahead(run) = {}
  BY <1>1, ComparisonTells
<1>2. CASE Ahead(run) # {}
  <2>1. PICK k \in 1..Len(run.todo) :
           /\ NextRead(run) = [run EXCEPT !.todo = SubSeq(@, k, Len(@)), !.pc = "reading",
                                          !.sent = @ + 1]
           /\ \A m \in 1..Len(run.todo) : m < k => run.todo[m] \in DOMAIN run.read
           /\ Capability(run.args).operation = "verify" => run.todo[k] \notin DOMAIN run.read
    BY <1>2, NextReadFound
  <2> DEFINE y == NextRead(run)
             rest == SubSeq(run.todo, k, Len(run.todo))
  <2>2. /\ IsRun(y) /\ y.pc = "reading" /\ y.since = run.since /\ y.lost = run.lost
        /\ y.args = run.args /\ y.read = run.read /\ y.missed = run.missed /\ y.todo = rest
    BY <2>1 DEF IsRun, NoRun
  <2>3. /\ rest \in Seq(DOMAIN FirstFile) /\ rest # <<>> /\ Head(rest) = run.todo[k]
        /\ \A m \in 1..(Len(run.todo) - k + 1) : rest[m] = run.todo[k + m - 1]
        /\ Len(rest) = Len(run.todo) - k + 1
    <3>1. /\ rest \in Seq(DOMAIN FirstFile)
          /\ Len(rest) = IF k <= Len(run.todo) THEN Len(run.todo) - k + 1 ELSE 0
          /\ \A m \in 1..(Len(run.todo) - k + 1) : rest[m] = run.todo[k + m - 1]
      BY SubSeqProperties
    <3> HIDE DEF rest
    <3>2. Len(rest) = Len(run.todo) - k + 1 /\ Len(rest) > 0 /\ rest[1] = run.todo[k]
      BY <3>1
    <3>3. Head(rest) = rest[1] /\ rest # <<>>
      BY <3>1, <3>2
    <3>. QED
      BY <3>1, <3>2, <3>3
  <2>4. ToSet(run.todo) = ToSet(rest) \cup {run.todo[m] : m \in 1..(k - 1)}
    <3>1. DOMAIN run.todo = 1..Len(run.todo) /\ DOMAIN rest = 1..(Len(run.todo) - k + 1)
      BY <2>3
    <3>2. ASSUME NEW m \in 1..Len(run.todo)
          PROVE  run.todo[m] \in ToSet(rest) \/ m \in 1..(k - 1)
      <4>1. CASE m >= k
        <5>1. m - k + 1 \in 1..(Len(run.todo) - k + 1) /\ k + (m - k + 1) - 1 = m
          BY <4>1
        <5>2. rest[m - k + 1] = run.todo[m]
          BY <2>3, <5>1
        <5>. QED
          BY <3>1, <5>1, <5>2 DEF ToSet
      <4>. QED
        BY <4>1
    <3>3. ASSUME NEW m \in 1..(Len(run.todo) - k + 1) PROVE rest[m] \in ToSet(run.todo)
      <4>1. k + m - 1 \in 1..Len(run.todo)
        OBVIOUS
      <4>. QED
        BY <2>3, <3>1, <4>1 DEF ToSet
    <3> HIDE DEF rest
    <3>4. ToSet(run.todo) \subseteq ToSet(rest) \cup {run.todo[m] : m \in 1..(k - 1)}
      BY <3>1, <3>2 DEF ToSet
    <3>5. ToSet(rest) \subseteq ToSet(run.todo)
      BY <3>1, <3>3 DEF ToSet
    <3>6. {run.todo[m] : m \in 1..(k - 1)} \subseteq ToSet(run.todo)
      BY <3>1 DEF ToSet
    <3>. QED
      BY <3>4, <3>5, <3>6
  <2>5. ASSUME Undisturbed(run, now) PROVE Gathered(y, file)
    <3>1. Gathered(run, file)
      BY <2>5
    <3>2. {run.todo[m] : m \in 1..(k - 1)} \subseteq DOMAIN run.read
      BY <2>1
    <3> HIDE DEF y, rest
    <3>3. ToSet(Reads(y.args)) = ToSet(y.todo) \cup DOMAIN y.read \cup y.missed
      BY <2>2, <2>4, <3>1, <3>2 DEF Gathered
    <3>. QED
      BY <2>2, <3>1, <3>3 DEF Gathered
  <2> HIDE DEF y, rest
  <2>6. RunOK(y, file, now)
    BY <2>1, <2>2, <2>3, <2>5 DEF RunOK, Undisturbed
  <2>. QED
    BY <2>6 DEF y
<1>. QED
  BY <1>1, <1>2

(* The begin of a call.                                                    *)
LEMMA CallBegins ==
  ASSUME NEW a, a.nodes \in Seq(DOMAIN FirstFile), refusal(a) = None,
         Capability(a).compound, NEW now \in Nat, NEW file
  PROVE  RunOK(NextRead([NoRun EXCEPT !.args = a, !.since = now, !.todo = Reads(a)]), file, now)
<1> DEFINE x == [NoRun EXCEPT !.args = a, !.since = now, !.todo = Reads(a)]
<1>1. /\ DOMAIN x = DOMAIN NoRun /\ x.since = now /\ x.lost = {} /\ x.args = a
      /\ x.todo = Reads(a) /\ x.read = <<>> /\ x.missed = {}
  BY DEF NoRun
<1>2. Capability(a).operation \in {"diff", "verify", "measure"}
  <2>1. lookup(a.capability) = "found"
    <3>1. lookup(a.capability) \in {"found", "CAPABILITY_NOT_FOUND", "CAPABILITY_DISABLED"}
      BY DEF lookup
    <3>. QED
      BY <3>1, CapabilitiesAssumption DEF refusal
  <2>. QED
    BY <2>1, CapabilitiesAssumption DEF lookup, Capability
<1>3. Reads(a) \in Seq(DOMAIN FirstFile)
  <2>1. <<>> \in Seq(DOMAIN FirstFile)
    BY EmptySeq
  <2>2. Reads(a) = <<>> \/ Reads(a) = a.nodes
    BY DEF Reads
  <2>. QED
    BY <2>1, <2>2
<1> HIDE DEF x
<1>4. IsRun(x) /\ Gathered(x, file)
  <2>1. DOMAIN x.read = {} /\ x.read = [n \in DOMAIN x.read |-> file[n]]
    BY <1>1
  <2>2. ToSet(x.todo) = ToSet(Reads(x.args))
    BY <1>1
  <2>. QED
    BY <1>1, <2>1, <2>2 DEF IsRun, Gathered
<1>5. RunOK(NextRead(x), file, now)
  BY <1>1, <1>2, <1>3, <1>4, NextReadIsSound
<1>. QED
  BY <1>5 DEF x

-----------------------------------------------------------------------------
(* What a session is made of, and the invariant of the calls.              *)
Pieces(s) == [msg : DOMAIN s, part : {"text", "\n"}]
SessionOK ==
  /\ session \in Sessions
  /\ stdin \in Seq(Pieces(session)) /\ buffer \in Seq(Pieces(session))
  /\ handled \subseteq DOMAIN session
RunsOK ==
  /\ DOMAIN figma = DOMAIN FirstFile /\ changes \in Nat
  /\ runs = [i \in Requests |-> runs[i]]
  /\ \A i \in Requests : RunOK(runs[i], figma, changes)

LEMMA OneRunMoves ==
  ASSUME RunsOK, NEW i \in Requests, NEW x, RunOK(x, figma, changes),
         runs' = [runs EXCEPT ![i] = x], UNCHANGED <<figma, changes>>
  PROVE  RunsOK'
<1>1. ASSUME NEW k \in Requests PROVE RunOK(runs'[k], figma', changes')
  <2>1. runs'[k] = x \/ runs'[k] = runs[k]
    BY DEF RunsOK
  <2>2. RunOK(runs'[k], figma, changes)
    BY <2>1 DEF RunsOK
  <2>. QED
    BY <2>2
<1>. QED
  BY <1>1 DEF RunsOK

(* A read that finds the node.                                             *)
LEMMA FoundIsSound ==
  ASSUME NEW run, NEW now \in Nat, RunOK(run, figma, now), run.pc = "reading",
         figma[Head(run.todo)] # Gone
  PROVE  RunOK(ReadFound(run), figma, now)
<1> DEFINE n == Head(run.todo)
           got == [m \in DOMAIN run.read \cup {n} |-> IF m = n THEN figma[n] ELSE run.read[m]]
           x == [run EXCEPT !.todo = Tail(@), !.lost = @ \ {n},
                   !.read = [m \in DOMAIN @ \cup {n} |-> IF m = n THEN figma[n] ELSE @[m]]]
<1>1. /\ IsRun(x) /\ x.since = run.since /\ x.lost = run.lost \ {n} /\ x.args = run.args
      /\ x.todo = Tail(run.todo) /\ x.missed = run.missed /\ x.read = got
  BY DEF RunOK, IsRun, NoRun
<1>2. /\ run.todo \in Seq(DOMAIN FirstFile) /\ run.todo # <<>>
      /\ Capability(run.args).compound
      /\ Capability(run.args).operation \in {"diff", "verify", "measure"}
      /\ run.since <= now /\ (Undisturbed(run, now) => Gathered(run, figma))
  BY DEF RunOK
<1>3. Tail(run.todo) \in Seq(DOMAIN FirstFile) /\ ToSet(run.todo) = ToSet(Tail(run.todo)) \cup {n}
  BY <1>2, HeadAndRest
<1>4. DOMAIN got = DOMAIN run.read \cup {n}
  OBVIOUS
<1>5. ASSUME Undisturbed(run, now) PROVE got = [m \in DOMAIN got |-> figma[m]]
  <2>1. run.read = [m \in DOMAIN run.read |-> figma[m]]
    BY <1>2, <1>5 DEF Gathered
  <2>2. \A m \in DOMAIN got : got[m] = figma[m]
    BY <2>1
  <2>. QED
    BY <2>2
<1>6. ReadFound(run) = NextRead(x)
  BY DEF ReadFound
<1> HIDE DEF n, got, x
<1>7. ASSUME Undisturbed(run, now) PROVE Gathered(x, figma)
  <2>1. figma[n] # Gone /\ Gathered(run, figma)
    BY <1>2, <1>7 DEF n
  <2>2. ToSet(Reads(x.args)) = ToSet(x.todo) \cup DOMAIN x.read \cup x.missed
    BY <1>1, <1>3, <1>4, <2>1 DEF Gathered
  <2>3. \A m \in x.missed :
          \/ figma[m] = Gone \/ (figma[m] = Boxless /\ Capability(x.args).operation = "measure")
          \/ m \in x.lost \cup DOMAIN x.read
    BY <1>1, <1>4, <2>1 DEF Gathered
  <2>4. /\ x.lost \subseteq x.missed
        /\ Capability(x.args).operation = "verify" => x.lost \cap DOMAIN x.read = {}
        /\ Capability(x.args).operation = "diff" => x.missed = {}
    BY <1>1, <1>4, <2>1 DEF Gathered
  <2>5. x.read = [m \in DOMAIN x.read |-> figma[m]] /\ \A m \in DOMAIN x.read : figma[m] # Gone
    BY <1>1, <1>4, <1>5, <1>7, <2>1 DEF Gathered
  <2>. QED
    BY <2>2, <2>3, <2>4, <2>5 DEF Gathered
<1>8. RunOK(NextRead(x), figma, now)
  BY <1>1, <1>2, <1>3, <1>7, NextReadIsSound DEF Undisturbed
<1>. QED
  BY <1>6, <1>8

(* A read that does not, or whose answer is lost.                          *)
LEMMA MissIsSound ==
  ASSUME NEW run, NEW now \in Nat, RunOK(run, figma, now), run.pc = "reading",
         NEW lost \in SUBSET {Head(run.todo)},
         \/ lost # {}
         \/ figma[Head(run.todo)] = Gone
         \/ figma[Head(run.todo)] = Boxless /\ Capability(run.args).operation = "measure"
  PROVE  RunOK(ReadMissed(run, lost), figma, now)
<1> DEFINE n == Head(run.todo)
           y == [run EXCEPT !.todo = Tail(@), !.missed = @ \cup {Head(run.todo)},
                            !.lost = @ \cup lost]
<1>1. /\ run.todo \in Seq(DOMAIN FirstFile) /\ run.todo # <<>> /\ run.since <= now
      /\ Capability(run.args).compound
      /\ Capability(run.args).operation \in {"diff", "verify", "measure"}
      /\ Capability(run.args).operation = "verify" => n \notin DOMAIN run.read
      /\ (Undisturbed(run, now) => Gathered(run, figma))
  BY DEF RunOK
<1>2. Tail(run.todo) \in Seq(DOMAIN FirstFile) /\ ToSet(run.todo) = ToSet(Tail(run.todo)) \cup {n}
  BY <1>1, HeadAndRest
<1>3. /\ IsRun(y) /\ y.since = run.since /\ y.lost = run.lost \cup lost /\ y.args = run.args
      /\ y.todo = Tail(run.todo) /\ y.missed = run.missed \cup {n} /\ y.read = run.read
  BY DEF RunOK, IsRun, NoRun
<1>4. ReadMissed(run, lost) = IF Capability(run.args).operation = "diff"
                              THEN Ends(y, "NODE_NOT_FOUND", None) ELSE NextRead(y)
  BY DEF ReadMissed
<1> HIDE DEF n, y
<1>5. CASE Capability(run.args).operation = "diff"
  <2> DEFINE z == Ends(y, "NODE_NOT_FOUND", None)
  <2>1. /\ IsRun(z) /\ z.pc = "done" /\ z.since = run.since
        /\ z.args = run.args /\ z.out = "NODE_NOT_FOUND"
    BY <1>3, EndOfRun
  <2> HIDE DEF z
  <2>2. Told(z, figma)
    BY <1>5, <2>1 DEF Told
  <2>3. RunOK(z, figma, now)
    BY <1>1, <2>1, <2>2 DEF RunOK
  <2>. QED
    BY <1>4, <1>5, <2>3 DEF z
<1>6. CASE Capability(run.args).operation # "diff"
  <2>1. ASSUME Undisturbed(run, now) PROVE Gathered(y, figma)
    <3>1. Gathered(run, figma)
      BY <1>1, <2>1
    <3>2. \/ figma[n] = Gone \/ n \in y.lost
          \/ figma[n] = Boxless /\ Capability(run.args).operation = "measure"
      BY <1>3 DEF n
    <3>3. lost \subseteq {n}
      BY DEF n
    <3>. QED
      BY <1>1, <1>2, <1>3, <1>6, <3>1, <3>2, <3>3 DEF Gathered
  <2>2. RunOK(NextRead(y), figma, now)
    BY <1>1, <1>2, <1>3, <2>1, NextReadIsSound DEF Undisturbed
  <2>. QED
    BY <1>4, <1>6, <2>2
<1>. QED
  BY <1>5, <1>6

LEMMA AnswersKeepRuns ==
  ASSUME RunsOK, NEW i \in Requests, CommandAnswered(i) \/ ReadAnswered(i)
  PROVE  RunsOK'
<1>0. RunOK(runs[i], figma, changes) /\ changes \in Nat
  BY DEF RunsOK
<1>1. CASE CommandAnswered(i)
  <2>1. PICK out : Sets(i, Ends(runs[i], out, None)) /\ runs[i].pc = "queued"
    BY <1>1 DEF CommandAnswered
  <2> DEFINE y == Ends(runs[i], out, None)
  <2>2. /\ IsRun(y) /\ y.pc = "done" /\ y.since = runs[i].since /\ y.args = runs[i].args
        /\ ~Capability(runs[i].args).compound
    BY <1>0, <2>1, EndOfRun DEF RunOK
  <2> HIDE DEF y
  <2>3. RunOK(y, figma, changes)
    BY <1>0, <2>2 DEF RunOK
  <2>. QED
    BY <2>1, <2>3, OneRunMoves DEF Sets, y
<1>2. CASE ReadAnswered(i)
  <2> DEFINE n == Head(runs[i].todo)
  <2>1. \/ figma[n] # Gone /\ Sets(i, ReadFound(runs[i]))
        \/ /\ \/ figma[n] = Gone
              \/ figma[n] = Boxless /\ Capability(runs[i].args).operation = "measure"
           /\ Sets(i, ReadMissed(runs[i], {}))
        \/ Sets(i, ReadMissed(runs[i], {n}))
    BY <1>2 DEF ReadAnswered
  <2>2. \E x : Sets(i, x) /\ RunOK(x, figma, changes)
    BY <1>0, <1>2, <2>1, FoundIsSound, MissIsSound DEF ReadAnswered
  <2>. QED
    BY <2>2, OneRunMoves DEF Sets
<1>. QED
  BY <1>1, <1>2

LEMMA ExecuteKeepsRuns ==
  ASSUME RunsOK, SessionOK, NEW i \in Fresh, Execute(i, session[i].args)
  PROVE  RunsOK'
<1> DEFINE a == session[i].args
           run == [NoRun EXCEPT !.args = a, !.since = changes]
           x == IF refusal(a) # None
                THEN [Ends(run, refusal(a), None) EXCEPT !.pc = "thrown"]
                ELSE IF Capability(a).compound THEN NextRead([run EXCEPT !.todo = Reads(a)])
                ELSE IF Capability(a).operation = "design.apply" /\ a.dryRun THEN Ends(run, "ok", None)
                ELSE [run EXCEPT !.pc = "queued", !.sent = 1]
<1>1. i \in Requests /\ a.nodes \in Seq(DOMAIN FirstFile) /\ changes \in Nat
  BY SessionsAssumption DEF Fresh, Is, SessionOK, RunsOK
<1>2. Sets(i, x)
  BY DEF Execute
<1>3. IsRun(run) /\ run.since = changes /\ run.args = a /\ run.sent = 0
  BY <1>1 DEF IsRun, NoRun
<1> HIDE DEF run
<1>4. CASE refusal(a) # None
  <2> DEFINE y == Ends(run, refusal(a), None)
             z == [y EXCEPT !.pc = "thrown"]
  <2>1. IsRun(y) /\ y.since = changes /\ y.sent = 0
    BY <1>3, EndOfRun
  <2>2. x = z
    BY <1>4
  <2> HIDE DEF y
  <2>3. IsRun(z) /\ z.pc = "thrown" /\ z.since = changes /\ z.sent = 0
    BY <2>1 DEF IsRun, NoRun
  <2> HIDE DEF z, x
  <2>4. RunOK(x, figma, changes)
    BY <1>1, <2>2, <2>3 DEF RunOK
  <2>. QED
    BY <1>1, <1>2, <2>4, OneRunMoves DEF Sets
<1>5. CASE refusal(a) = None /\ Capability(a).compound
  <2>1. [run EXCEPT !.todo = Reads(a)]
          = [NoRun EXCEPT !.args = a, !.since = changes, !.todo = Reads(a)]
    BY DEF run
  <2>2. x = NextRead([NoRun EXCEPT !.args = a, !.since = changes, !.todo = Reads(a)])
    BY <1>5, <2>1
  <2> HIDE DEF x, a
  <2>3. RunOK(x, figma, changes)
    BY <1>1, <1>5, <2>2, CallBegins
  <2>. QED
    BY <1>1, <1>2, <2>3, OneRunMoves DEF Sets
<1>6. CASE refusal(a) = None /\ ~Capability(a).compound
           /\ Capability(a).operation = "design.apply" /\ a.dryRun
  <2> DEFINE y == Ends(run, "ok", None)
  <2>1. IsRun(y) /\ y.since = changes /\ y.pc = "done" /\ y.args = a
    BY <1>3, EndOfRun
  <2>2. x = y
    BY <1>6
  <2> HIDE DEF y, x
  <2>3. RunOK(x, figma, changes)
    BY <1>1, <1>6, <2>1, <2>2 DEF RunOK
  <2>. QED
    BY <1>1, <1>2, <2>3, OneRunMoves DEF Sets
<1>7. CASE refusal(a) = None /\ ~Capability(a).compound
           /\ ~(Capability(a).operation = "design.apply" /\ a.dryRun)
  <2> DEFINE y == [run EXCEPT !.pc = "queued", !.sent = 1]
  <2>1. IsRun(y) /\ y.since = changes /\ y.pc = "queued" /\ y.args = a
    BY <1>3 DEF IsRun, NoRun
  <2>2. x = y
    BY <1>7
  <2> HIDE DEF y, x
  <2>3. RunOK(x, figma, changes)
    BY <1>1, <1>7, <2>1, <2>2 DEF RunOK
  <2>. QED
    BY <1>1, <1>2, <2>3, OneRunMoves DEF Sets
<1>. QED
  BY <1>4, <1>5, <1>6, <1>7

LEMMA ChangesKeepRuns ==
  ASSUME RunsOK, FileChanges
  PROVE  RunsOK'
<1>1. changes \in Nat /\ changes' = changes + 1 /\ runs' = runs /\ DOMAIN figma' = DOMAIN figma
  BY DEF FileChanges, RunsOK
<1>2. ASSUME NEW i \in Requests PROVE RunOK(runs'[i], figma', changes')
  <2>1. RunOK(runs[i], figma, changes)
    BY DEF RunsOK
  <2>2. RunOK(runs[i], figma', changes')
    BY <1>1, <2>1 DEF RunOK, Undisturbed, IsRun
  <2>. QED
    BY <1>1, <2>2
<1>. QED
  BY <1>1, <1>2 DEF RunsOK

-----------------------------------------------------------------------------
(* The text of a session is of its messages, however it is cut.            *)

(* The text of a session is of its messages.                               *)
LEMMA TextOfMessages ==
  ASSUME NEW s \in Sessions
  PROVE  Text(s) \in Seq(Pieces(s))
<1> DEFINE part == [i \in DOMAIN s |-> IF s[i].method = "blank" THEN <<Piece(i, "\n")>>
                                       ELSE <<Piece(i, "text"), Piece(i, "\n")>>]
<1>1. \A i \in DOMAIN s : part[i] \in Seq(Pieces(s))
  <2> TAKE i \in DOMAIN s
  <2>1. Piece(i, "\n") \in Pieces(s) /\ Piece(i, "text") \in Pieces(s)
    BY DEF Piece, Pieces
  <2>2. part[i] = <<Piece(i, "\n")>> \/ part[i] = <<Piece(i, "text"), Piece(i, "\n")>>
    OBVIOUS
  <2> HIDE DEF part
  <2>3. \A P, x, y : x \in P /\ y \in P => <<y>> \in Seq(P) /\ <<x, y>> \in Seq(P)
    OBVIOUS
  <2>4. /\ <<Piece(i, "\n")>> \in Seq(Pieces(s))
        /\ <<Piece(i, "text"), Piece(i, "\n")>> \in Seq(Pieces(s))
    BY <2>1, <2>3, Zenon
  <2>. QED
    BY <2>2, <2>4, Zenon
<1>2. DOMAIN s = 1..Len(s) /\ Len(s) \in Nat
  BY SessionsAssumption
<1>3. part \in [1..Len(s) -> Seq(Pieces(s))]
  BY <1>1, <1>2
<1> HIDE DEF part
<1>4. part \in Seq(Seq(Pieces(s)))
  BY <1>2, <1>3
<1>5. Text(s) = FlattenSeq(part)
  BY DEF Text, part
<1>. QED
  BY <1>4, <1>5, FlatteningKeepsElements

(* Every line of a text is of its pieces, and so is what is left.          *)
LEMMA LinesOfPieces ==
  ASSUME NEW S, NEW text \in Seq(S)
  PROVE  /\ \A line \in Lines(text).lines : line \in Seq(S)
         /\ Lines(text).rest \in Seq(S)
<1> DEFINE Before(n) == Max({0} \cup {m \in LineEnds(text) : m < n})
           From(m, n) == SubSeq(text, m + 1, n)
<1>1. LineEnds(text) \subseteq 1..Len(text)
  BY DEF LineEnds
<1>2. ASSUME NEW n \in Nat PROVE Before(n) \in Nat
  <2> DEFINE T == {0} \cup {m \in LineEnds(text) : m < n}
             U == {Len(text) - m : m \in T}
  <2>1. T \in SUBSET (0..Len(text)) /\ 0 \in T
    BY <1>1
  <2>2. U \in SUBSET Nat /\ U # {}
    BY <2>1
  <2>3. PICK u \in U : \A v \in U : u <= v
    BY <2>2, LeastNumber
  <2>4. \E x \in T : \A y \in T : x >= y
    <3>1. PICK x \in T : u = Len(text) - x
      BY <2>3
    <3>2. \A y \in T : Len(text) - y \in U
      OBVIOUS
    <3> HIDE DEF T, U
    <3>. QED
      BY <2>1, <2>3, <3>1, <3>2
  <2>5. Max(T) \in T
    <3> HIDE DEF T
    <3> DEFINE Most(x) == \A y \in T : x >= y
    <3>1. \E x \in T : Most(x)
      BY <2>4
    <3>2. Max(T) = CHOOSE x \in T : Most(x)
      BY DEF Max
    <3> HIDE DEF Most
    <3>. QED
      BY <3>1, <3>2, Zenon
  <2>. QED
    BY <2>1, <2>5
<1>3. ASSUME NEW m \in Nat, NEW n \in Int, n <= Len(text) PROVE From(m, n) \in Seq(S)
  <2>1. \A i \in (m + 1)..n : text[i] \in S
    BY <1>3
  <2>. QED
    BY <2>1, SubSeqProperties
<1>4. ASSUME NEW e \in LineEnds(text) PROVE From(Before(e), e - 1) \in Seq(S)
  BY <1>1, <1>2, <1>3
<1>5. From(Before(Len(text) + 1), Len(text)) \in Seq(S)
  BY <1>2, <1>3
<1>. QED
  BY <1>4, <1>5 DEF Lines

LEMMA ReadingKeepsSession ==
  ASSUME SessionOK, ReadChunk
  PROVE  SessionOK'
<1>1. PICK n \in 1..Len(stdin) :
        LET pumped == Lines(buffer \o SubSeq(stdin, 1, n))
            begun  == {Message(line) : line \in pumped.lines} \ {0}
        IN  /\ stdin' = SubSeq(stdin, n + 1, Len(stdin))
            /\ buffer' = pumped.rest
            /\ handled' = handled \cup {i \in begun : session[i].id}
            /\ session' = session
  BY DEF ReadChunk
<1> DEFINE text == buffer \o SubSeq(stdin, 1, n)
           S == Pieces(session)
<1>2. stdin \in Seq(S) /\ buffer \in Seq(S) /\ session \in Sessions /\ handled \subseteq DOMAIN session
  BY DEF SessionOK
<1> HIDE DEF S
<1>3. SubSeq(stdin, 1, n) \in Seq(S) /\ stdin' \in Seq(S)
  BY <1>1, <1>2
<1>4. text \in Seq(S)
  BY <1>2, <1>3, ConcatProperties
<1> HIDE DEF text
<1>5. (\A line \in Lines(text).lines : line \in Seq(S)) /\ Lines(text).rest \in Seq(S)
  BY <1>4, LinesOfPieces
<1>6. \A line \in Lines(text).lines : Message(line) \in DOMAIN session \cup {0}
  <2> TAKE line \in Lines(text).lines
  <2>1. line = <<>> \/ line[1] \in S
    BY <1>5
  <2>2. \A p \in S : p.msg \in DOMAIN session
    BY DEF S, Pieces
  <2>. QED
    BY <2>1, <2>2 DEF Message
<1>7. handled' \subseteq DOMAIN session
  BY <1>1, <1>2, <1>6 DEF text
<1>. QED
  BY <1>1, <1>2, <1>3, <1>5, <1>7 DEF SessionOK, S, text

LEMMA NextKeepsRuns ==
  ASSUME SessionOK, RunsOK, [Next]_vars
  PROVE  SessionOK' /\ RunsOK'
<1>1. CASE UNCHANGED <<figma, changes, runs, session, stdin, buffer, handled>>
  BY <1>1 DEF SessionOK, RunsOK
<1>2. CASE ReadChunk
  <2>1. UNCHANGED <<figma, changes, runs>>
    BY <1>2 DEF ReadChunk, executeVars
  <2>2. RunsOK'
    BY <2>1 DEF RunsOK
  <2>. QED
    BY <1>2, <2>2, ReadingKeepsSession
<1>3. ASSUME NEW i \in Fresh, Execute(i, session[i].args), UNCHANGED serverVars
      PROVE  SessionOK' /\ RunsOK'
  BY <1>3, ExecuteKeepsRuns DEF SessionOK, serverVars
<1>4. ASSUME NEW i \in handled, Send(i) PROVE SessionOK' /\ RunsOK'
  BY <1>4 DEF Send, SessionOK, RunsOK, executeVars
<1>5. CASE ExecuteEvent
  <2>1. SessionOK'
    BY <1>5 DEF ExecuteEvent, serverVars, SessionOK
  <2>2. RunsOK'
    BY <1>5, AnswersKeepRuns, ChangesKeepRuns DEF ExecuteEvent
  <2>. QED
    BY <2>1, <2>2
<1>6. CASE UNCHANGED <<executeVars, serverVars>>
  BY <1>1, <1>6 DEF executeVars, serverVars
<1>. QED
  BY <1>1, <1>2, <1>3, <1>4, <1>5, <1>6 DEF Next, Reacts, LegacyEvent, Rest, vars, executeVars, serverVars

LEMMA InitRuns == Init => SessionOK /\ RunsOK
<1> SUFFICES ASSUME Init PROVE SessionOK /\ RunsOK
  OBVIOUS
<1>1. SessionOK
  BY TextOfMessages, EmptySeq DEF Init, SessionOK
<1>2. ASSUME NEW i \in Requests PROVE RunOK(runs[i], figma, changes)
  <2>1. runs[i] = NoRun /\ changes = 0
    BY DEF Init, ExecuteInit
  <2>. QED
    BY <2>1 DEF RunOK, IsRun, NoRun
<1>3. RunsOK
  BY <1>2 DEF Init, ExecuteInit, RunsOK
<1>. QED
  BY <1>1, <1>3

(* unified_execute tells the truth: a call that throws has put nothing on  *)
(* the queue, and a compound answer matches the file whenever nobody has   *)
(* changed it meanwhile, but for the nodes whose read was lost.            *)
THEOREM ExecutionTellsTruth == Spec => []ExecuteTellsTruth
<1>1. SessionOK /\ RunsOK => ExecuteTellsTruth
  <2> SUFFICES ASSUME RunsOK, NEW i \in Requests
               PROVE  /\ runs[i].pc = "thrown" => runs[i].sent = 0
                      /\ /\ runs[i].pc = "done" /\ Capability(runs[i].args).compound
                         /\ runs[i].since = changes
                         => Told(runs[i], figma)
    BY DEF ExecuteTellsTruth, ThrownMeansUnsent, CompoundsMatchFile, Told, There
  <2>. QED
    BY DEF RunsOK, RunOK, Undisturbed
<1>2. Init => SessionOK /\ RunsOK
  BY InitRuns
<1>3. SessionOK /\ RunsOK /\ [Next]_vars => (SessionOK /\ RunsOK)'
  BY NextKeepsRuns
<1>. QED
  BY <1>1, <1>2, <1>3, PTL DEF Spec
=============================================================================
