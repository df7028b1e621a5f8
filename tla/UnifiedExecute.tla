--------------------------- MODULE UnifiedExecute ---------------------------
(***************************************************************************)
(* The tool unified_execute: CommandRouter.execute() from the lookup of    *)
(* the capability to the answer, with the compound capabilities            *)
(* (src/runtime/compoundCapabilities.js) as sequences of reads.  What      *)
(* happens between enqueue() and its answer is modelled in Runtime; here   *)
(* an enqueued command comes back from Figma or fails on the way.          *)
(***************************************************************************)
EXTENDS PayloadShape, FiniteSets, ToolCalls, CapabilityTable

CONSTANTS
  Capabilities,        \* what the registry holds, as STAGE4_CAPABILITIES does
  MAX_PAYLOAD_DEPTH, MAX_PAYLOAD_NODES,
  FirstFile,           \* the nodes Figma has: id -> a value, or Gone
  Gone, Boxless,       \* not there; there, but without absoluteBoundingBox
  MaxChanges           \* bound: how often somebody changes the file

ASSUME CapabilitiesAssumption ==
  /\ \A id \in DOMAIN Capabilities :
       Capabilities[id].compound => Capabilities[id].operation \in {"diff", "verify", "measure"}
  /\ None \notin {"CAPABILITY_NOT_FOUND", "CAPABILITY_DISABLED"}

VARIABLES
  figma,               \* the nodes, as a read returns them
  changes,             \* how often the file has changed
  runs                 \* the calls of execute()

executeVars == <<figma, changes, runs>>

(* args: what was asked; todo: reads still to make; read: the results by   *)
(* node; missed: nodes whose read failed; sent: commands enqueued.         *)
(* History: lost, the nodes whose last read failed on the way; since:      *)
(* changes at the start.                                                   *)
NoRun == [args |-> None, pc |-> "none", todo |-> <<>>, read |-> <<>>, missed |-> {},
          sent |-> 0, out |-> None, result |-> None, lost |-> {}, since |-> 0]
ExecuteInit ==
  /\ figma = FirstFile /\ changes = 0
  /\ runs = [i \in Requests |-> NoRun]

Capability(a) == Capabilities[a.capability]
Sets(i, run) == runs' = [runs EXCEPT ![i] = run] /\ UNCHANGED <<figma, changes>>

(* ---- what execute() throws, in the order it finds it ------------------------- *)

\* PlumbProtocolAdapter, CustomProtocolAdapter: the operations each can translate.
plumbOperations == {"status", "outline", "selection.read", "components"}
customOperations == {"status", "node.read", "selection.read", "design.apply", "node.patch",
  "node.delete", "node.reorder", "node.move", "boolean.op", "group.create", "group.ungroup",
  "component_set.create", "paint_style.create", "styles.list", "styles.manage", "text_range.set",
  "component_property.manage", "instance.override", "instance.swap", "instance.create",
  "variables.manage", "mask.set"}
toEnvelope(a) ==
  LET c == Capability(a)
  IN  IF \/ c.family = "plumb" /\ c.operation \notin plumbOperations
         \/ c.family = "custom" /\ c.operation \notin customOperations THEN "INVALID_COMMAND"
      ELSE IF c.operation = "design.apply" /\ ~a.compiles THEN "DESIGN_COMPILE_ERROR"
      ELSE "envelope"

\* CapabilityRegistry.get
lookup(id) ==
  IF id \notin DOMAIN Capabilities THEN "CAPABILITY_NOT_FOUND"
  ELSE IF ~Capabilities[id].enabled THEN "CAPABILITY_DISABLED"
  ELSE "found"

refusal(a) ==
  IF lookup(a.capability) # "found" THEN lookup(a.capability)
  ELSE IF checkPayloadShape(a.shape, MAX_PAYLOAD_DEPTH, MAX_PAYLOAD_NODES) # "ok"
  THEN "INVALID_PAYLOAD"
  ELSE IF ~Capability(a).compound /\ Capability(a).family \notin {"plumb", "custom"}
  THEN "INVALID_COMMAND"
  ELSE IF ~a.valid THEN "INVALID_PAYLOAD"        \* the capability's schema
  ELSE IF ~Capability(a).compound /\ toEnvelope(a) # "envelope" THEN toEnvelope(a)
  ELSE None

(* ---- the call ---------------------------------------------------------------- *)

Ends(run, out, result) ==
  [run EXCEPT !.pc = "done", !.todo = <<>>, !.out = out, !.result = result]
Reads(a) ==
  IF Capability(a).operation = "diff" /\ a.actual THEN <<>> ELSE a.nodes

\* The modes of custom.measure on two nodes are refused after the reads.
measured(run) ==
  IF run.missed # {} THEN Ends(run, "NODE_NOT_FOUND", None)
  ELSE IF run.args.mode = "pair" /\ Len(run.args.nodes) # 2 THEN Ends(run, "INVALID_PAYLOAD", None)
  ELSE Ends(run, "ok", run.read)
verified(run) == Ends(run, "ok", run.read)

\* Where the loop over the nodes stands: runVerify passes over what it has read.
Ahead(run) ==
  {n \in DOMAIN run.todo : Capability(run.args).operation = "verify" =>
                             run.todo[n] \notin DOMAIN run.read}
\* The next read, or the comparison.
NextRead(run) ==
  IF Ahead(run) = {}
  THEN IF Capability(run.args).operation = "measure" THEN measured(run) ELSE verified(run)
  ELSE LET next == CHOOSE n \in Ahead(run) : \A m \in Ahead(run) : n <= m
       IN  [run EXCEPT !.todo = SubSeq(@, next, Len(@)), !.pc = "reading", !.sent = @ + 1]

Execute(i, a) ==
  LET run == [NoRun EXCEPT !.args = a, !.since = changes]
  IN  Sets(i, IF refusal(a) # None
              THEN [Ends(run, refusal(a), None) EXCEPT !.pc = "thrown"]
              ELSE IF Capability(a).compound THEN NextRead([run EXCEPT !.todo = Reads(a)])
              ELSE IF Capability(a).operation = "design.apply" /\ a.dryRun THEN Ends(run, "ok", None)
              ELSE [run EXCEPT !.pc = "queued", !.sent = 1])

\* enqueue() of a single command answers.
CommandAnswered(i) ==
  /\ runs[i].pc = "queued"
  /\ \E out \in {"ok", "FIGMA_API_ERROR", "COMMAND_TIMEOUT"} : Sets(i, Ends(runs[i], out, None))

(* readNode answers: with the node as it is, or not at all; the handlers   *)
(* of verify and measure swallow what went wrong, that of diff throws it.  *)
ReadMissedKept(run, lost) ==                         \* mutant
  NextRead([run EXCEPT !.todo = Tail(@), !.lost = @ \cup lost])
ReadMissed(run, lost) ==
  LET on == [run EXCEPT !.todo = Tail(@), !.missed = @ \cup {Head(run.todo)},
                        !.lost = @ \cup lost]
  IN  IF Capability(run.args).operation = "diff" THEN Ends(on, "NODE_NOT_FOUND", None)
      ELSE NextRead(on)
ReadFound(run) ==
  LET n == Head(run.todo)
  IN  NextRead([run EXCEPT !.todo = Tail(@), !.lost = @ \ {n},
                  !.read = [m \in DOMAIN @ \cup {n} |-> IF m = n THEN figma[n] ELSE @[m]]])
ReadAnswered(i) ==
  /\ runs[i].pc = "reading"
  /\ LET run == runs[i]
         n   == Head(run.todo)
         missing == \/ figma[n] = Gone
                    \/ figma[n] = Boxless /\ Capability(run.args).operation = "measure"
     IN  \/ ~missing /\ Sets(i, ReadFound(run))
         \/ missing /\ Sets(i, ReadMissed(run, {}))
         \/ Sets(i, ReadMissed(run, {n}))    \* QUEUE_FULL, a timeout, a lost connection

FileChanges ==
  /\ changes < MaxChanges
  /\ changes' = changes + 1
  /\ \E n \in DOMAIN figma : \E v \in {Gone, changes'} : figma' = [figma EXCEPT ![n] = v]
  /\ UNCHANGED runs

(* ---- what the answers say ---------------------------------------------------- *)

(* A call that throws instead of answering with an operation record has    *)
(* put nothing on the queue.                                               *)
ThrownMeansUnsent == \A i \in Requests : runs[i].pc = "thrown" => runs[i].sent = 0

(* Compound answers: if nobody has changed the file meanwhile, an ok       *)
(* answer has every node that exists as it is, but for those whose read    *)
(* was lost on the way, and has no others; and only verify is ever ok with *)
(* a node that does not exist or whose read was lost.                      *)
CompoundsMatchFile ==
  \A i \in Requests :
    LET run == runs[i]
        nodes == ToSet(Reads(run.args))
        there == {n \in nodes : figma[n] # Gone /\ n \notin run.lost}
    IN  /\ run.pc = "done" /\ Capability(run.args).compound /\ run.since = changes
        => /\ run.out = "ok" => run.result = [n \in there |-> figma[n]]
           /\ there # nodes => (run.out = "ok") = (Capability(run.args).operation = "verify")
ExecuteTellsTruth == ThrownMeansUnsent /\ CompoundsMatchFile
=============================================================================
