--------------------------- MODULE LegacyBackend ---------------------------
(***************************************************************************)
(* The legacy diagnostics: the adapters (src/adapters/custom.js, plumb.js) *)
(* with their shared client, and the jobs of tool calls on them.  A status *)
(* call (registry.js statuses()) is a job on every backend at once, a      *)
(* probe a job on one.  due is what the promise a job awaits was settled   *)
(* with; the job then runs on before the process takes its next event.     *)
(***************************************************************************)
EXTENDS StdioClient

CONSTANTS
  Backends,            \* the adapters' ids
  MaxPolls             \* bound: status polls within pairWaitMs

ASSUME DueAssumption == None # "ok"
ASSUME ConnectingAssumption == Connecting \notin Requests \X Backends

VARIABLES
  client,              \* this.client of each adapter
  clientPromise,       \* this.clientPromise: the client being connected, or None
  jobs,                \* jobs on <<request, backend>>
  closedEarly          \* history: backends closed while a client was connecting

legacyVars == <<clients, client, clientPromise, jobs, closedEarly>>

NoJob == [kind |-> None, pc |-> "none", k |-> None, polls |-> 0, due |-> None, out |-> None]
LegacyInit ==
  /\ ClientsInit
  /\ client = [b \in Backends |-> None]
  /\ clientPromise = [b \in Backends |-> None]
  /\ jobs = [j \in Requests \X Backends |-> NoJob]
  /\ closedEarly = {}

Due == {j \in DOMAIN jobs : jobs[j].due # None}
NewJob(kind) == [NoJob EXCEPT !.kind = kind, !.pc = "start", !.due = "ok"]

(* ---- the steps of a job ---------------------------------------------------- *)

Answer(j, out) == jobs' = [jobs EXCEPT ![j] = [NoJob EXCEPT !.pc = "done", !.out = out]]
WaitsAt(j, pc, k) == jobs' = [jobs EXCEPT ![j].pc = pc, ![j].k = k, ![j].due = None]

(* close(): whichever client is current, not the one the job has used.  It *)
(* is told to end at once; what the adapter holds is forgotten behind an   *)
(* await, when other jobs may have gone on (Closed).                       *)
CloseAdapter(j) ==
  /\ LET k == client[j[2]]
     IN  clients' = IF k = None THEN clients ELSE [clients EXCEPT ![k] = Closing(@)]
  /\ jobs' = [jobs EXCEPT ![j].pc = "closing", ![j].due = "ok"]
\* The catch of getStatus closes the adapter, that of executeDiagnostic does not.
Fail(j) ==
  /\ IF jobs[j].kind = "status" THEN CloseAdapter(j) ELSE Answer(j, "error") /\ UNCHANGED clients
  /\ UNCHANGED <<client, clientPromise, closedEarly, down>>
\* A connect() under way cannot be reached and goes on.
Closed(j) ==
  /\ jobs[j].pc = "closing"
  /\ LET b == j[2]
     IN  /\ client' = [client EXCEPT ![b] = None]
         /\ clientPromise' = [clientPromise EXCEPT ![b] = None]
         /\ closedEarly' = IF clientPromise[b] # None /\ clients[clientPromise[b]].conn = "connecting"
                           THEN closedEarly \cup {b} ELSE closedEarly
  /\ Answer(j, "error")
  /\ UNCHANGED <<clients, down>>

\* callTool: throws at once on a client that cannot send.
Ask(j, k, pc) ==
  \/ ~CanSend(k) /\ Fail(j)
  \/ /\ CanSend(k)
     /\ clients' = [clients EXCEPT ![k] = Requesting(@, j)]
     /\ WaitsAt(j, pc, k)
     /\ down' \in {FALSE, MayBreak(k)}
     /\ UNCHANGED <<client, clientPromise, closedEarly>>

Usable(k) == k # None /\ ~clients[k].closed
GetClient(j) ==
  /\ jobs[j].pc = "start"
  /\ LET b == j[2]
         current == client[b]
         shared  == clientPromise[b]
     IN  \/ /\ Usable(current)
            /\ Ask(j, current, "polling")
         \/ /\ ~Usable(current) /\ shared # None
            /\ IF clients[shared].conn = "failed" THEN Fail(j)
               ELSE /\ WaitsAt(j, "connecting", shared)
                    /\ UNCHANGED <<clients, client, clientPromise, closedEarly, down>>
         \/ /\ ~Usable(current) /\ shared = None
            /\ \E k \in Unused :
                 /\ \A v \in Unused : k <= v
                 /\ clients' = [clients EXCEPT ![k] = Spawned(b)]
                 /\ clientPromise' = [clientPromise EXCEPT ![b] = k]
                 /\ WaitsAt(j, "connecting", k)
            /\ UNCHANGED <<client, closedEarly, down>>

Connected(j) ==
  /\ jobs[j].pc = "connecting"
  /\ IF jobs[j].due = "error" THEN Fail(j) ELSE Ask(j, jobs[j].k, "polling")

\* #statusWithPairWait: an unpaired plugin is asked again until the deadline.
Polled(j) ==
  /\ jobs[j].pc = "polling"
  /\ LET rest == UNCHANGED <<clients, client, clientPromise, closedEarly, down>>
     IN  \/ jobs[j].due = "error" /\ Fail(j)
         \/ /\ jobs[j].due = "paired"
            /\ IF jobs[j].kind = "status" THEN Answer(j, "paired") /\ rest
               ELSE Ask(j, jobs[j].k, "reading")
         \/ /\ jobs[j].due = "unpaired" /\ jobs[j].polls < MaxPolls
            /\ jobs' = [jobs EXCEPT ![j].pc = "sleeping", ![j].polls = @ + 1, ![j].due = None]
            /\ rest
         \/ /\ jobs[j].due = "unpaired" /\ jobs[j].kind = "status"
            /\ Answer(j, "unpaired") /\ rest
         \/ /\ jobs[j].due = "unpaired" /\ jobs[j].kind = "probe"
            /\ Fail(j)                       \* requirePaired

Slept(j) == jobs[j].pc = "sleeping" /\ Ask(j, jobs[j].k, "polling")

ReadDone(j) ==
  /\ jobs[j].pc = "reading"
  /\ IF jobs[j].due = "error" THEN Fail(j)
     ELSE Answer(j, "ok") /\ UNCHANGED <<clients, client, clientPromise, closedEarly, down>>

JobStep(j) ==
  /\ jobs[j].due # None
  /\ GetClient(j) \/ Connected(j) \/ Polled(j) \/ Slept(j) \/ ReadDone(j) \/ Closed(j)

(* ---- events ------------------------------------------------------------------ *)

\* The waiters of client k are settled; connect()'s own continuation runs first,
\* and writes the notification that the client is initialized.
Settle(k, after, who, with) ==
  LET connects == Connecting \in who
      awaiting == {j \in DOMAIN jobs : jobs[j].pc = "connecting" /\ jobs[j].k = k}
      woken    == (who \ {Connecting}) \cup (IF connects THEN awaiting ELSE {})
      installs == connects /\ with # "error"
  IN  /\ jobs' = [j \in DOMAIN jobs |-> IF j \in woken THEN [jobs[j] EXCEPT !.due = with] ELSE jobs[j]]
      /\ clients' = [clients EXCEPT ![k] =
           IF ~connects THEN after
           ELSE [after EXCEPT !.conn = IF installs THEN "connected" ELSE "failed"]]
      /\ client' = [b \in Backends |-> IF installs /\ b = clients[k].of THEN k ELSE client[b]]
      /\ clientPromise' = [b \in Backends |->
           IF installs /\ b = clients[k].of THEN None ELSE clientPromise[b]]
      /\ down' \in {FALSE, installs /\ MayBreak(k)}
      /\ UNCHANGED closedEarly

Reply(k, id) ==
  /\ id \in clients[k].asked /\ ~clients[k].closed
  /\ \E with \in {"paired", "unpaired", "error"} :
       Settle(k, AfterReply(k, id), SettledBy(k, id), with)
RequestTimer(k, id) ==
  /\ SettledBy(k, id) # {}
  /\ Settle(k, AfterTimer(k, id), SettledBy(k, id), "error")
ChildClosed(k) ==
  /\ clients[k].proc = "ended" /\ ~clients[k].closed
  /\ Settle(k, AfterClose(k), Waiters(k), "error")
SleepOver(j) ==
  /\ jobs[j].pc = "sleeping" /\ jobs[j].due = None
  /\ jobs' = [jobs EXCEPT ![j].due = "ok"]
  /\ UNCHANGED <<clients, client, clientPromise, closedEarly, down>>
=============================================================================
