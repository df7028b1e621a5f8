----------------------------- MODULE McpServer -----------------------------
(***************************************************************************)
(* The coordinator as its MCP client sees it (src/mcp/server.js): requests *)
(* come in as lines on stdin, cut into chunks anywhere; each is handled at *)
(* once, beside the others; replies go out in the order they are ready.    *)
(***************************************************************************)
EXTENDS LegacyBackend, UnifiedExecute

CONSTANT Sessions      \* what a client may send: sequences of messages

ASSUME SessionsAssumption ==
  \A s \in Sessions :
    /\ s \in Seq(ToSet(s)) /\ DOMAIN s \subseteq Requests
    /\ \A i \in DOMAIN s :
         s[i].method = "execute" => s[i].args.nodes \in Seq(DOMAIN FirstFile)

VARIABLES
  session,             \* the messages of this run
  stdin,               \* pieces of text not yet read
  buffer,              \* this.buffer
  handled,             \* messages given to #handle that have no reply yet
  replies              \* what was written to stdout: the ids, in order

serverVars == <<session, stdin, buffer, handled, replies>>
vars == <<legacyVars, down, executeVars, serverVars>>

(* A message is a piece of text and a line end; a blank line is but its    *)
(* end.  A message is [id, method, args]; id is FALSE for a notification.  *)
Piece(i, part) == [msg |-> i, part |-> part]
Text(s) ==
  FlattenSeq([i \in DOMAIN s |->
    IF s[i].method = "blank" THEN <<Piece(i, "\n")>>
    ELSE <<Piece(i, "text"), Piece(i, "\n")>>])

Init ==
  /\ LegacyInit /\ ExecuteInit
  /\ session \in Sessions
  /\ stdin = Text(session) /\ buffer = <<>>
  /\ handled = {} /\ replies = <<>>

(* ---- #pump -------------------------------------------------------------------- *)

LineEnds(text) == {n \in DOMAIN text : text[n].part = "\n"}
LinesKeepNothing(text) ==                            \* mutant
  [lines |-> IF LineEnds(text) = {} THEN {} ELSE {SubSeq(text, 1, Min(LineEnds(text)) - 1)},
   rest  |-> IF LineEnds(text) = {} THEN text ELSE <<>>]
\* The whole lines of a text, and what is left behind the last.
Lines(text) ==
  LET Before(n) == Max({0} \cup {m \in LineEnds(text) : m < n})
      From(m, n) == SubSeq(text, m + 1, n)
  IN  [lines |-> {From(Before(e), e - 1) : e \in LineEnds(text)},
       rest  |-> From(Before(Len(text) + 1), Len(text))]
Message(line) == IF line = <<>> THEN 0 ELSE line[1].msg

(* #dispatch: a tool call starts its work at once.  started: the jobs that *)
(* the messages of one chunk start.  At a line that is not JSON the parser *)
(* throws, and nobody catches it: the process ends.                        *)
Is(i, method) == session[i].method = method
JobsOf(i) ==
  CASE Is(i, "status") -> {<<i, b>> : b \in Backends}
    [] Is(i, "probe") /\ session[i].args \in Backends -> {<<i, session[i].args>>}
    [] OTHER -> {}
ReadChunk ==
  \E n \in 1..Len(stdin) :
    LET pumped  == Lines(buffer \o SubSeq(stdin, 1, n))
        begun   == {Message(line) : line \in pumped.lines} \ {0}
        started == UNION {JobsOf(i) : i \in begun}
    IN  /\ stdin' = SubSeq(stdin, n + 1, Len(stdin))
        /\ buffer' = pumped.rest
        /\ handled' = handled \cup {i \in begun : session[i].id}
        /\ jobs' = [j \in DOMAIN jobs |->
                      IF j \in started THEN NewJob(session[j[1]].method) ELSE jobs[j]]
        /\ down' = \E i \in begun : Is(i, "garbled")
        /\ UNCHANGED <<session, replies, clients, client, clientPromise, closedEarly,
                       executeVars>>

(* The handler returns or throws; either way there is a reply.             *)
Finished(i) ==
  CASE Is(i, "execute")  -> runs[i].pc \in {"done", "thrown"}
    [] JobsOf(i) # {}    -> \A j \in JobsOf(i) : jobs[j].pc = "done"
    [] OTHER             -> TRUE    \* initialize, tools/list, unknown tool, backend or method
Send(i) ==
  /\ i \in handled /\ Finished(i)
  /\ handled' = handled \ {i}
  /\ replies' = Append(replies, i)
  /\ UNCHANGED <<session, stdin, buffer, legacyVars, down, executeVars>>

(* ---- the process --------------------------------------------------------------- *)

\* What promise reactions do before the next event: a new call begins, a job
\* goes on, a reply is written.
Fresh == {i \in handled : Is(i, "execute") /\ runs[i].pc = "none"}
Reacts ==
  \/ \E j \in Due : JobStep(j) /\ UNCHANGED <<executeVars, serverVars>>
  \/ \E i \in Fresh : Execute(i, session[i].args) /\ UNCHANGED <<legacyVars, down, serverVars>>
  \/ \E i \in handled : Send(i)
Reacting == Due # {} \/ Fresh # {} \/ \E i \in handled : Finished(i)

LegacyEvent ==
  /\ \E k \in Clients :
       \/ \E id \in 1..clients[k].nextId : Reply(k, id) \/ RequestTimer(k, id)
       \/ ChildClosed(k)
       \/ (ChildEnds(k) \/ Crash(k)) /\ UNCHANGED <<client, clientPromise, jobs, closedEarly>>
     \/ \E j \in DOMAIN jobs : SleepOver(j)
  /\ UNCHANGED <<executeVars, serverVars>>
\* Changes of the file matter to sessions that read it.
ExecuteEvent ==
  /\ \/ FileChanges /\ \E i \in DOMAIN session : Is(i, "execute")
     \/ \E i \in Requests : CommandAnswered(i) \/ ReadAnswered(i)
  /\ UNCHANGED <<legacyVars, down, serverVars>>

\* The only states without a step: everything is replied to, or the process is gone.
Rest == (down \/ (stdin = <<>> /\ handled = {})) /\ UNCHANGED vars
Next ==
  \/ ~down /\ Reacts
  \/ ~down /\ ~Reacting /\ (ReadChunk \/ LegacyEvent \/ ExecuteEvent)
  \/ Rest

(* Node reads what is there, runs promise reactions, and fires its timers; *)
(* an enqueued command is answered (EveryCallAnswered of Runtime).  Of the *)
(* backends nothing is assumed: they may never answer and never end.       *)
Timers == \E k \in Clients : \E id \in 1..clients[k].nextId : RequestTimer(k, id)
Fairness ==
  /\ WF_vars(~down /\ Reacts)
  /\ WF_vars(~down /\ ~Reacting /\ ReadChunk)
  /\ WF_vars(~down /\ ~Reacting /\ Timers /\ UNCHANGED <<executeVars, serverVars>>)
  /\ WF_vars(~down /\ ~Reacting /\ (\E j \in DOMAIN jobs : SleepOver(j))
               /\ UNCHANGED <<executeVars, serverVars>>)
  /\ WF_vars(~down /\ ~Reacting /\ (\E i \in Requests : CommandAnswered(i) \/ ReadAnswered(i))
               /\ UNCHANGED <<legacyVars, down, serverVars>>)
Spec == Init /\ [][Next]_vars /\ Fairness

(* ---- properties ------------------------------------------------------------------ *)

(* However the text is cut, and whatever the backends do short of taking   *)
(* the process down, in the end every request has exactly one reply, and a *)
(* notification none.                                                      *)
RepliedTo(i) == Cardinality({n \in DOMAIN replies : replies[n] = i})
EveryRequestReplied ==
  <>[](down \/ \A i \in DOMAIN session :
                 RepliedTo(i) = IF session[i].id THEN 1 ELSE 0)

(* No backend process is forgotten: one that runs and was not told to end  *)
(* belongs to the client its adapter uses or is connecting.  There are two *)
(* ways to lose one: its connect() failed, or its adapter was closed while *)
(* a connect() was under way.                                              *)
ProcessesAreOwned ==
  \A k \in Clients :
    clients[k].proc = "up" /\ ~clients[k].killed =>
      \/ client[clients[k].of] = k
      \/ clientPromise[clients[k].of] = k
      \/ clients[k].conn = "failed"
      \/ clients[k].of \in closedEarly
=============================================================================
