--------------------------- MODULE Reconciliation ---------------------------
(***************************************************************************)
(* Retry advice (src/runtime/reconciliation.js) over the retry-safety      *)
(* classes of the capabilities, stated for commands as the plugin gets     *)
(* them.                                                                   *)
(***************************************************************************)
EXTENDS CapabilityTable

CONSTANT Nobody        \* no error, no key

AMBIGUOUS_ERROR_CODES == {"COMMAND_TIMEOUT", "QUEUE_WAIT_TIMEOUT"}

\* The plugin's modules have one operation per action of the two that manage.
Managed == [op \in {"styles.create", "styles.delete", "styles.apply", "variables.bind"} |->
              IF op = "variables.bind" THEN "variables.manage" ELSE "styles.manage"]
OperationOf(op) == IF op \in DOMAIN Managed THEN Managed[op] ELSE op
ClassOf ==
  [operation \in {STAGE4_CAPABILITIES[id].operation : id \in DOMAIN STAGE4_CAPABILITIES} |->
     STAGE4_CAPABILITIES[CHOOSE id \in DOMAIN STAGE4_CAPABILITIES :
                           STAGE4_CAPABILITIES[id].operation = operation].retrySafety]
retrySafety(op) ==
  IF OperationOf(op) \in DOMAIN ClassOf THEN ClassOf[OperationOf(op)] ELSE "unclassified"

Advice(action, safe, cmd) == [action |-> action, safe |-> safe, cmd |-> cmd]

(* error is a code or Nobody; cmd the attempted command.                   *)
recommendReconciliation(cmd, error) ==
  LET class == retrySafety(cmd.op)
  IN  CASE error # Nobody /\ error \notin AMBIGUOUS_ERROR_CODES ->
             Advice("fix_and_retry_or_give_up", TRUE, Nobody)
        [] OTHER ->
             CASE class = "natural" -> Advice("retry_as_is", TRUE, cmd)
               [] class = "operationKey" ->
                    IF cmd.key # Nobody THEN Advice("retry_as_is", TRUE, cmd)
                    ELSE Advice("add_operation_key_before_retry", FALSE, Nobody)
               [] class = "reconciliation" ->
                    IF cmd.arg.mode = "sync" THEN Advice("retry_as_is", TRUE, cmd)
                    ELSE Advice("retry_with_modified_payload", TRUE,
                                [cmd EXCEPT !.arg.mode = "sync"])
               [] OTHER -> Advice("inspect_before_retry", FALSE, Nobody)
=============================================================================
