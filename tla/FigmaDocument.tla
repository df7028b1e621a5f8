--------------------------- MODULE FigmaDocument ---------------------------
(***************************************************************************)
(* Figma's document, as the handlers of figma-plugin/code.js use it.       *)
(* Everything here is EXTERNAL: it is the part of the plugin API the code  *)
(* calls, stated by the effect the code relies on.  A document d is a      *)
(* function from node ids to nodes.  Ids are never used twice; a removed   *)
(* node stays in d as Removed, because handlers keep handles across their  *)
(* awaits and a handle of a removed node throws when it is touched.        *)
(***************************************************************************)
EXTENDS Naturals, Sequences, FiniteSets, SequencesExt

CONSTANT None
ASSUME NoneAssumption == None \notin Nat

Containers == {"PAGE", "FRAME", "GROUP", "COMPONENT", "COMPONENT_SET",
               "BOOLEAN_OPERATION", "INSTANCE"}
NodeTypes == Containers \cup {"RECTANGLE", "TEXT", "REMOVED"}

(* key is the plan key (PLUGIN_KEY), op the operation key (OPERATION_KEY), *)
(* style the fill style; by is history: the call that created the node.    *)
NewNode(type, parent, by) ==
    [type |-> type, parent |-> parent, kids |-> <<>>, key |-> None,
     op |-> None, style |-> None, by |-> by]
Removed == NewNode("REMOVED", None, None)

Live(d, n) == n \in DOMAIN d /\ d[n].type # "REMOVED"
LiveNodes(d) == {n \in DOMAIN d : d[n].type # "REMOVED"}
HasChildren(d, n) == Live(d, n) /\ d[n].type \in Containers

Ancestors(d, n) ==
    LET up[m \in DOMAIN d] ==
            IF d[m].parent = None THEN {} ELSE {d[m].parent} \cup up[d[m].parent]
    IN  up[n]
Below(d, n) == {m \in DOMAIN d : n \in Ancestors(d, m)}

\* n and what is below it in the order of the tree, instances left out.
Walk(d, n) ==
    LET walk[m \in DOMAIN d] ==
            IF d[m].type = "INSTANCE" THEN <<>>
            ELSE <<m>> \o FlattenSeq([i \in DOMAIN d[m].kids |-> walk[d[m].kids[i]]])
    IN  walk[n]

\* The sublayers of an instance cannot be moved, removed or added to.
Frozen(d, n) == \E m \in Ancestors(d, n) : d[m].type = "INSTANCE"

(* ---- what the API refuses by throwing --------------------------------- *)

Removable(d, n) == Live(d, n) /\ d[n].type # "PAGE" /\ ~Frozen(d, n)

Accepts(d, p, n) ==
    /\ Removable(d, n)
    /\ HasChildren(d, p)
    /\ d[p].type # "INSTANCE" /\ ~Frozen(d, p)
    /\ n # p /\ n \notin Ancestors(d, p)
    /\ d[p].type = "COMPONENT_SET" => d[n].type = "COMPONENT"

CanWrap(d, S, p) ==
    S # {} /\ d[p].type # "COMPONENT_SET" /\ \A n \in S : Accepts(d, p, n)

(* ---- what the calls do ------------------------------------------------- *)

Without(kids, gone) ==
    LET left[i \in 0..Len(kids)] ==
            IF i = 0 THEN <<>>
            ELSE IF kids[i] \in gone THEN left[i - 1] ELSE Append(left[i - 1], kids[i])
    IN  left[Len(kids)]

Drop(d, gone) ==
    [m \in DOMAIN d |->
        IF m \in gone THEN Removed ELSE [d[m] EXCEPT !.kids = Without(@, gone)]]

\* A group that is left without content disappears with its last child.
Hollow(d) == {g \in LiveNodes(d) : d[g].type = "GROUP"
                                  /\ \A m \in Below(d, g) : d[m].type = "GROUP"}
Sweep(d) == Drop(d, Hollow(d))

RemoveNodeOnly(d, n) == Sweep(Drop(d, {n}))          \* mutant
RemoveNode(d, n) == Sweep(Drop(d, {n} \cup Below(d, n)))

\* insertChild(i, n): n leaves its parent first; an index past the end is the end.
InsertChild(d, p, i, n) ==
    LET out == [m \in DOMAIN d |-> [d[m] EXCEPT !.kids = Without(@, {n})]]
        at  == IF i > Len(out[p].kids) THEN Len(out[p].kids) ELSE i
    IN  Sweep([out EXCEPT ![n].parent = p, ![p].kids = InsertAt(@, at + 1, n)])
AppendChild(d, p, n) == InsertChild(d, p, Len(d[p].kids), n)

NewId(d) == Cardinality(DOMAIN d) + 1

Add(d, node) ==
    [m \in DOMAIN d \cup {NewId(d)} |->
        IF m = NewId(d) THEN node
        ELSE IF m = node.parent THEN [d[m] EXCEPT !.kids = Append(@, NewId(d))]
        ELSE d[m]]

(* figma.group, figma.union and its kind, figma.combineAsVariants: a new   *)
(* node with the nodes S in it, in an order left open; a node that was     *)
(* named twice is in it once.                                              *)
Wrap(d, type, S, p, by) ==
    LET n == NewId(d)
        e == Add(d, NewNode(type, p, by))
    IN  Sweep([m \in DOMAIN e |->
            IF m = n THEN [e[m] EXCEPT !.kids = SetToSeq(S)]
            ELSE [e[m] EXCEPT !.kids = Without(@, S),
                              !.parent = IF m \in S THEN n ELSE @]])

\* Every node hangs where its parent lists it, exactly once, under some page.
IsForest(d) ==
    \A n \in LiveNodes(d) :
        /\ IsInjective(d[n].kids)
        /\ \A i \in DOMAIN d[n].kids : d[d[n].kids[i]].parent = n
        /\ d[n].type # "PAGE" => /\ n \in ToSet(d[d[n].parent].kids)
                                 /\ \E p \in Ancestors(d, n) : d[p].type = "PAGE"

(* The same from node to node, without Ancestors, with what else there is  *)
(* to say of a document: no node is above itself, and no group is empty.   *)
IsNode(d, n) ==
    /\ DOMAIN d[n] = DOMAIN Removed /\ d[n].type \in NodeTypes
    /\ d[n].kids \in Seq(LiveNodes(d)) /\ IsInjective(d[n].kids)
    /\ \A m \in ToSet(d[n].kids) : d[m].parent = n
    /\ IF d[n].type \in {"PAGE", "REMOVED"} THEN d[n].parent = None
       ELSE d[n].parent \in LiveNodes(d) /\ n \in ToSet(d[d[n].parent].kids)
IsTree(d) ==
    /\ IsFiniteSet(DOMAIN d) /\ DOMAIN d = 1..Cardinality(DOMAIN d)
    /\ \A n \in DOMAIN d : IsNode(d, n)
    /\ \A S \in SUBSET DOMAIN d : S # {} => \E n \in S : d[n].parent \notin S
IsDocument(d) == IsTree(d) /\ Hollow(d) = {}
=============================================================================
