---------------------------- MODULE MCMcpServer ----------------------------
(***************************************************************************)
(* Short sessions of an MCP client, and the payload check against its      *)
(* reference on all payloads of up to seven objects.                       *)
(***************************************************************************)
EXTENDS McpServer, PayloadTrees, TLC

\* The table, and entries it does not have: faults of registration.
Odd(family, operation, enabled) ==
  [family |-> family, operation |-> operation, mutation |-> FALSE, enabled |-> enabled,
   compound |-> FALSE, retrySafety |-> "natural"]
MCCapabilities == STAGE4_CAPABILITIES @@ [
  odd |-> Odd("custom", "export", TRUE), oddp |-> Odd("plumb", "export", TRUE),
  foreign |-> Odd("other", "status", TRUE), off |-> Odd("custom", "status", FALSE) ]
MCFile == [n \in 1..3 |-> IF n = 3 THEN Boxless ELSE 0]

Args == [capability |-> "plumb.outline", shape |-> <<>>, valid |-> TRUE, compiles |-> TRUE,
         dryRun |-> FALSE, nodes |-> <<>>, actual |-> FALSE, mode |-> "bounds"]
Ask0(capability) == [Args EXCEPT !.capability = capability]
On(capability, nodes) == [Ask0(capability) EXCEPT !.nodes = nodes]
Executes == {
  Args, Ask0("unknown"), Ask0("off"), Ask0("foreign"), Ask0("odd"), Ask0("oddp"),
  [Args EXCEPT !.valid = FALSE], [Args EXCEPT !.shape = << << << <<>> >> >> >>],
  [Args EXCEPT !.shape = << <<>>, <<>>, <<>>, <<>> >>],
  Ask0("custom.design"), [Ask0("custom.design") EXCEPT !.compiles = FALSE],
  [Ask0("custom.design") EXCEPT !.dryRun = TRUE],
  On("custom.diff", <<1>>), [On("custom.diff", <<>>) EXCEPT !.actual = TRUE],
  On("custom.verify", <<1, 2, 1>>), On("custom.measure", <<1, 2>>), On("custom.measure", <<1, 3>>),
  [On("custom.measure", <<1>>) EXCEPT !.mode = "pair"] }

M(method, args) == [id |-> TRUE, method |-> method, args |-> args]
Unanswered(method) == [id |-> FALSE, method |-> method, args |-> None]
Status == M("status", None)
Probe(b) == M("probe", b)
MCSessions ==
  {<<Unanswered("blank"), Unanswered("notification"), M("execute", a)>> : a \in Executes}
  \cup {<<M("initialize", None), M("execute", On("custom.verify", <<1, 2, 1>>)), M("execute", Args)>>}
  \cup {<<Status, Probe("custom")>>, <<Probe("none"), M("unknown tool", None), Status>>,
        <<Status, Probe("custom"), Status>>,
        <<Probe("custom"), Unanswered("garbled"), Status>> }

\* Every capability of the table can be sent or is compound, and every one that
\* mutates has been given a class.
ASSUME TableIsComplete ==
  \A id \in DOMAIN STAGE4_CAPABILITIES :
    LET row == STAGE4_CAPABILITIES[id]
    IN  /\ row.operation \in IF row.compound THEN {"diff", "verify", "measure"}
                             ELSE IF row.family = "plumb" THEN plumbOperations ELSE customOperations
        /\ row.retrySafety # "unclassified"
ASSUME ShapeIsExact ==
  \A n \in 1..7 : \A tree \in TreesOf(n) :
    (checkPayloadShape(tree, 2, 4) = "ok") = Fits(tree, 2, 4)
=============================================================================
