-------------------------- MODULE CapabilityTable --------------------------
(***************************************************************************)
(* The capabilities the coordinator offers (src/runtime/capabilities.js,   *)
(* compoundCapabilities.js): for each id its family, the operation it is   *)
(* sent as, and whether it mutates; and how safe it is to send again.      *)
(***************************************************************************)
EXTENDS Naturals

\* Rows <<id, family, operation, mutation>>.
READ_CAPABILITIES == {
  <<"plumb.status", "plumb", "status", FALSE>>,
  <<"plumb.outline", "plumb", "outline", FALSE>>,
  <<"plumb.selection.read", "plumb", "selection.read", FALSE>>,
  <<"plumb.components", "plumb", "components", FALSE>>,
  <<"custom.status", "custom", "status", FALSE>>,
  <<"custom.node.read", "custom", "node.read", FALSE>>,
  <<"custom.selection.read", "custom", "selection.read", FALSE>> }
NODE_CAPABILITIES == {
  <<"custom.design", "custom", "design.apply", TRUE>>,
  <<"custom.patch_node", "custom", "node.patch", TRUE>>,
  <<"custom.delete_node", "custom", "node.delete", TRUE>>,
  <<"custom.reorder_node", "custom", "node.reorder", TRUE>>,
  <<"custom.move_node", "custom", "node.move", TRUE>>,
  <<"custom.boolean", "custom", "boolean.op", TRUE>>,
  <<"custom.group", "custom", "group.create", TRUE>>,
  <<"custom.ungroup", "custom", "group.ungroup", TRUE>>,
  <<"custom.create_component_set", "custom", "component_set.create", TRUE>> }
LIBRARY_CAPABILITIES == {
  <<"custom.create_paint_style", "custom", "paint_style.create", TRUE>>,
  <<"custom.list_styles", "custom", "styles.list", FALSE>>,
  <<"custom.styles", "custom", "styles.manage", TRUE>>,
  <<"custom.text_range", "custom", "text_range.set", TRUE>>,
  <<"custom.component_property", "custom", "component_property.manage", TRUE>>,
  <<"custom.instance_override", "custom", "instance.override", TRUE>>,
  <<"custom.instance_swap", "custom", "instance.swap", TRUE>>,
  <<"custom.create_instance", "custom", "instance.create", TRUE>>,
  <<"custom.variables", "custom", "variables.manage", TRUE>>,
  <<"custom.set_mask", "custom", "mask.set", TRUE>> }
COMPOUND_CAPABILITIES == {
  <<"custom.diff", "custom", "diff", FALSE>>,
  <<"custom.verify", "custom", "verify", FALSE>>,
  <<"custom.measure", "custom", "measure", FALSE>> }
RAW_CAPABILITIES ==
  READ_CAPABILITIES \cup NODE_CAPABILITIES \cup LIBRARY_CAPABILITIES \cup COMPOUND_CAPABILITIES

(* RETRY_SAFETY by class, for the capabilities it names.                   *)
operationKey == {"custom.group", "custom.create_component_set"}
reconciliation == {"custom.design"}
unsafe == {"custom.boolean", "custom.component_property", "custom.create_instance",
           "custom.variables"}
natural == {"custom.patch_node", "custom.delete_node", "custom.reorder_node", "custom.move_node",
            "custom.ungroup", "custom.create_paint_style", "custom.styles", "custom.text_range",
            "custom.instance_override", "custom.instance_swap", "custom.set_mask"}
RETRY_SAFETY(id, mutation) ==
  CASE id \in operationKey   -> "operationKey"
    [] id \in reconciliation -> "reconciliation"
    [] id \in unsafe         -> "unsafe"
    [] id \in natural        -> "natural"
    [] OTHER -> IF mutation THEN "unclassified" ELSE "natural"

STAGE4_CAPABILITIES ==
  [id \in {row[1] : row \in RAW_CAPABILITIES} |->
     LET row == CHOOSE r \in RAW_CAPABILITIES : r[1] = id
     IN  [family |-> row[2], operation |-> row[3], mutation |-> row[4], enabled |-> TRUE,
          compound |-> row \in COMPOUND_CAPABILITIES,
          retrySafety |-> RETRY_SAFETY(id, row[4])]]
=============================================================================
