------------------------------ MODULE MCPlugin ------------------------------
(***************************************************************************)
(* A small file and the commands sent into it.  Page 1 is on show; frame 3 *)
(* is what an earlier plan left, under the keys kA, kB and kE.             *)
(***************************************************************************)
EXTENDS Plugin, TLC

CONSTANTS c1, c2, kA, kB, kC, kD, kE, kG, n2, n3, blue

N0(type, parent, kids) == [NewNode(type, parent, None) EXCEPT !.kids = kids]
Keyed0(type, parent, kids, key) == [N0(type, parent, kids) EXCEPT !.key = key]
MCFirstDoc == <<
  N0("PAGE", None, <<3, 6, 9, 12, 10>>),
  Keyed0("PAGE", None, <<>>, n2),
  Keyed0("FRAME", 1, <<4, 5>>, kA),
  Keyed0("RECTANGLE", 3, <<>>, kB),
  Keyed0("RECTANGLE", 3, <<>>, kE),
  N0("GROUP", 1, <<7, 8>>),
  N0("RECTANGLE", 6, <<>>),
  N0("TEXT", 6, <<>>),
  N0("COMPONENT", 1, <<>>),
  N0("INSTANCE", 1, <<11>>),
  N0("TEXT", 10, <<>>),
  N0("COMPONENT", 1, <<>>) >>
MCFirstStyles == <<[kind |-> "paint", name |-> blue, by |-> None, gone |-> None]>>
MCFirstCollections == <<[modes |-> 2, live |-> TRUE]>>

Do(op, ids, key, arg) ==
  [op |-> op, ids |-> ids, key |-> key, arg |-> arg, version |-> "1.0", requestId |-> 1]
What(w) == [what |-> w]
Range0(start, end, w) == [start |-> start, end |-> end, len |-> 3, what |-> w]
Kind(kind) == [kind |-> kind, unapply |-> FALSE]
Manage(action, i) == [action |-> action, collection |-> i]

O(key, type, parent, ref) == [key |-> key, type |-> type, parent |-> parent, ref |-> ref]
P(ops, mode, prune, target) == [ops |-> ops, mode |-> mode, prune |-> prune, target |-> target]
Design(plan) == Do("design.apply", <<>>, None, plan)
Whole == << O(kA, "FRAME", None, None), O(kC, "BOOLEAN_OPERATION", kA, None),
            O(kB, "RECTANGLE", kC, None), O(kD, "RECTANGLE", kC, None) >>
Booleans == << O(kA, "FRAME", None, None), O(kC, "BOOLEAN_OPERATION", kA, None),
               O(kG, "BOOLEAN_OPERATION", kC, None), O(kB, "RECTANGLE", kC, None),
               O(kD, "RECTANGLE", kG, None) >>
WithText == << O(kA, "FRAME", None, blue), O(kD, "TEXT", kA, "font") >>

Plans == {
  P(Whole, "build", FALSE, None), P(Whole, "sync", FALSE, None),
  P(SubSeq(Whole, 1, 3), "sync", FALSE, None), P(Booleans, "sync", FALSE, None),
  P(WithText, "sync", TRUE, None),
  P(<< O(kB, "FRAME", None, None), O(kD, "TEXT", kB, None) >>, "sync", FALSE, None),
  P(<< O(kC, "BOOLEAN_OPERATION", None, None) >>, "sync", FALSE, n2),
  P(<< O(kD, "FRAME", None, kG) >>, "sync", TRUE, n3) }

Hierarchy == {
  Do("node.delete", <<3>>, None, None),
  Do("node.reorder", <<3>>, None, [to |-> "front", index |-> 0]),
  Do("node.reorder", <<3>>, None, [to |-> "index", index |-> 1]),
  Do("node.move", <<7, 3>>, None, [index |-> 5, preserve |-> TRUE]),
  Do("node.move", <<5, 1>>, None, [index |-> None, preserve |-> TRUE]),
  Do("node.move", <<3, 4>>, None, [index |-> None, preserve |-> FALSE]),
  Do("node.move", <<6, 6>>, None, [index |-> 0, preserve |-> FALSE]),
  Do("node.move", <<1, 6>>, None, [index |-> 0, preserve |-> FALSE]),
  Do("boolean.op", <<4, 5>>, kG, None),
  Do("group.create", <<4, 5>>, kG, None),
  Do("group.ungroup", <<6>>, None, None),
  Do("component_set.create", <<9, 12>>, kG, None) }
Instances == {
  Do("instance.create", <<9>>, None, [parent |-> None]),
  Do("instance.create", <<9>>, None, [parent |-> 3]),
  Do("instance.swap", <<10, 9>>, None, None),
  Do("instance.override", <<10>>, None, What("reset")),
  Do("instance.override", <<10, 11>>, None, What("visible")),
  Do("instance.override", <<10, 11>>, None, What("characters")),
  Do("component_property.manage", <<9>>, None, None) }
Content0 == {
  Do("node.patch", <<8>>, None, What("plain")), Do("node.patch", <<8>>, None, What("font")),
  Do("node.patch", <<8>>, None, What("characters")),
  Do("node.patch", <<3>>, blue, What("fillStyleRef")),
  Do("text_range.set", <<8>>, None, Range0(0, 2, "font")),
  Do("text_range.set", <<8>>, blue, Range0(0, 3, "styleRef")),
  Do("text_range.set", <<8>>, None, Range0(2, 4, "plain")),
  Do("mask.set", <<7>>, None, None),
  Do("node.read", <<>>, None, [depth |-> 2]),
  Do("node.read", <<>>, None, [depth |-> 21]),
  Do("selection.read", <<>>, None, [depth |-> 1]), Do("components", <<>>, None, None) }
Library == {
  Do("paint_style.create", <<>>, blue, None), Do("paint_style.create", <<>>, kG, None),
  Do("styles.create", <<>>, blue, Kind("text")), Do("styles.delete", <<>>, blue, Kind("paint")),
  Do("styles.apply", <<4>>, blue, Kind("paint")),
  Do("styles.apply", <<8>>, blue, Kind("text")), Do("styles.apply", <<6>>, blue, Kind("paint")),
  Do("styles.apply", <<4>>, None, [kind |-> "paint", unapply |-> TRUE]),
  Do("styles.apply", <<6>>, None, [kind |-> "paint", unapply |-> TRUE]),
  Do("styles.list", <<>>, None, Kind("paint")),
  Do("variables.bind", <<3>>, None, What("bind")), Do("variables.bind", <<3>>, None, What("unbind")) }
Variables0 ==
  {Do("variables.manage", <<>>, None, Manage(a, 1)) :
     a \in {"add_mode", "remove_mode", "delete_collection"}}
  \cup {Do("variables.manage", <<>>, None, Manage(a, None)) : a \in {"create_collection", "list"}}
Envelopes == {
  Do("status", <<>>, None, None), Do("export", <<>>, None, None),
  [Do("status", <<>>, None, None) EXCEPT !.version = "2.0"],
  [Do("status", <<>>, None, None) EXCEPT !.requestId = None] }

MCCommands == {Design(p) : p \in Plans} \cup Hierarchy \cup Instances \cup Content0
                \cup Library \cup Variables0 \cup Envelopes

\* Every capability of the table that is sent to the plugin has a handler there.
ASSUME HandlersMatchTable ==
  {Advised!OperationOf(op) : op \in handlers} =
    {row[3] : row \in Advised!RAW_CAPABILITIES \ Advised!COMPOUND_CAPABILITIES}
Symmetry == Permutations(Calls)
=============================================================================
