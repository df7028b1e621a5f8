--------------------------- MODULE PluginHandlers ---------------------------
(***************************************************************************)
(* The handlers of figma-plugin/code.js that read or change single nodes:  *)
(* one action per handler for what it does once the nodes it names are     *)
(* looked up, and one for each await after that.  A command carries the    *)
(* ids it names in the order they are looked up (ids), an operation key    *)
(* (key), and one further argument (arg).  Values of geometry, paint, text *)
(* and component properties are left out: no handler decides on them       *)
(* except for the checks kept here.                                        *)
(***************************************************************************)
EXTENDS PluginCalls

N(c, i) == calls[c].got[i]
Type(c, i) == doc[N(c, i)].type
Handles(c) == calls[c].got
Chosen(c) == ToSet(Handles(c))
Handling(c, op) == At(c, "run") /\ Cmd(c).op = op
Other == <<page, library, collections>>   \* what these handlers leave alone

TagResult(d, key) ==                      \* setPluginData(OPERATION_KEY, key || id)
  LET n == NewId(doc) IN [d EXCEPT ![n].op = IF key = None THEN n ELSE key]

DeleteNode(c) ==
  /\ Handling(c, "node.delete")
  /\ Does(c, Removable(doc, N(c, 1)), RemoveNode(doc, N(c, 1)))
  /\ UNCHANGED Other

Clamp(i, lo, hi) == IF i < lo THEN lo ELSE IF i > hi THEN hi ELSE i

ReorderNode(c) ==
  /\ Handling(c, "node.reorder")
  /\ LET n == N(c, 1)
         parent == doc[n].parent
         count  == Len(doc[parent].kids)
         index  == CASE Cmd(c).arg.to = "front" -> count - 1
                     [] Cmd(c).arg.to = "back"  -> 0
                     [] OTHER -> Clamp(Cmd(c).arg.index, 0, count - 1)
     IN  Does(c, parent # None /\ Accepts(doc, parent, n), InsertChild(doc, parent, index, n))
  /\ UNCHANGED Other

isDescendantOf(n, ancestor) == ancestor \in Ancestors(doc, n)

(* arg: index (None appends) and preserve.  With preserve the position is  *)
(* put right after the move, from the new parent's absoluteTransform; a    *)
(* page has none, so there the handler throws with the node already moved. *)
MoveNode(c) ==
  /\ Handling(c, "node.move")
  /\ LET n == N(c, 1)
         newParent == N(c, 2)
         moved == IF Cmd(c).arg.index = None THEN AppendChild(doc, newParent, n)
                  ELSE InsertChild(doc, newParent,
                         Clamp(Cmd(c).arg.index, 0, Len(doc[newParent].kids)), n)
     IN  \/ /\ ~HasChildren(doc, newParent)
            /\ Throws(c)
         \/ /\ HasChildren(doc, newParent)
            /\ newParent = n \/ isDescendantOf(newParent, n)
            /\ Answers(c, "INVALID_HIERARCHY")
            /\ UNCHANGED doc
         \/ /\ HasChildren(doc, newParent)
            /\ ~(newParent = n \/ isDescendantOf(newParent, n))
            /\ IF ~Accepts(doc, newParent, n) THEN Throws(c)
               ELSE /\ doc' = moved
                    /\ IF Cmd(c).arg.preserve /\ doc[newParent].type = "PAGE"
                       THEN Answers(c, "FIGMA_API_ERROR") ELSE Answers(c, "ok")
  /\ UNCHANGED Other

BOOLEAN_COMPATIBLE_TYPES == {"RECTANGLE", "BOOLEAN_OPERATION"}

BooleanOp(c) ==
  /\ Handling(c, "boolean.op")
  /\ LET parent == doc[N(c, 1)].parent
     IN  IF \/ Stale(c)
            \/ \E n \in Chosen(c) : doc[n].type \notin BOOLEAN_COMPATIBLE_TYPES
         THEN Throws(c)
         ELSE Does(c, CanWrap(doc, Chosen(c), parent),
                TagResult(Wrap(doc, "BOOLEAN_OPERATION", Chosen(c), parent, c), Cmd(c).key))
  /\ UNCHANGED Other

GroupNodes(c) ==
  /\ Handling(c, "group.create")
  /\ LET parent == doc[N(c, 1)].parent
     IN  IF Stale(c) \/ \E n \in Chosen(c) : doc[n].parent # parent
         THEN Throws(c)
         ELSE Does(c, CanWrap(doc, Chosen(c), parent),
                TagResult(Wrap(doc, "GROUP", Chosen(c), parent, c), Cmd(c).key))
  /\ UNCHANGED Other

\* The children take the group's place one after the other; with the last the group goes.
UngroupNode(c) ==
  /\ Handling(c, "group.ungroup")
  /\ LET g == N(c, 1)
         parent == doc[g].parent
         groupIndex == (CHOOSE i \in DOMAIN doc[parent].kids : doc[parent].kids[i] = g) - 1
         children == doc[g].kids
         put[i \in 0..Len(children)] ==
           IF i = 0 THEN doc ELSE InsertChild(put[i - 1], parent, groupIndex + i - 1, children[i])
     IN  Does(c, Type(c, 1) = "GROUP" /\ Removable(doc, g),
              put[Len(children)])
  /\ UNCHANGED Other

CreateSetUnchecked(c) ==                             \* mutant
  /\ Handling(c, "component_set.create")
  /\ IF CanWrap(doc, Chosen(c), doc[N(c, 1)].parent)
     THEN /\ doc' = Wrap(doc, "COMPONENT_SET", Chosen(c), doc[N(c, 1)].parent, c)
          /\ Answers(c, "ok") \/ Answers(c, "FIGMA_API_ERROR")
     ELSE Throws(c)
  /\ UNCHANGED Other
\* Figma may also refuse the components' names as variant names.
CreateComponentSet(c) ==
  /\ Handling(c, "component_set.create")
  /\ LET parent == doc[N(c, 1)].parent
     IN  \/ Throws(c)
         \/ /\ ~Stale(c)
            /\ \A n \in Chosen(c) : doc[n].type = "COMPONENT"
            /\ IsInjective(Handles(c))    \* a repeated component repeats its name
            /\ Does(c, CanWrap(doc, Chosen(c), parent),
                 TagResult(Wrap(doc, "COMPONENT_SET", Chosen(c), parent, c), Cmd(c).key))
  /\ UNCHANGED Other

(* The instance is made, on the current page, before its parent is looked  *)
(* up; it stays there when the parent is not found.  arg: the parent's id. *)
CreateInstance(c) ==
  /\ Handling(c, "instance.create")
  /\ IF Type(c, 1) # "COMPONENT" THEN Throws(c)
     ELSE /\ doc' = Add(doc, NewNode("INSTANCE", page, c))
          /\ IF Cmd(c).arg.parent = None THEN Answers(c, "ok")
             ELSE /\ calls' = [calls EXCEPT ![c].pc = "parent", ![c].got = <<NewId(doc)>>]
                  /\ turn' = None
  /\ UNCHANGED Other

InstanceParentAnswered(c) ==
  /\ Answered(c, "parent")
  /\ LET parent == Cmd(c).arg.parent
     IN  \/ ~Live(doc, parent) /\ Answers(c, "NODE_NOT_FOUND") /\ UNCHANGED doc
         \/ /\ Live(doc, parent)
            /\ Does(c, ~Stale(c) /\ Accepts(doc, parent, N(c, 1)),
                    AppendChild(doc, parent, N(c, 1)))
  /\ UNCHANGED Other

\* A swapped instance is no longer one a plan may reuse or prune.
InstanceSwap(c) ==
  /\ Handling(c, "instance.swap")
  /\ Does(c, ~Stale(c) /\ Type(c, 2) = "COMPONENT" /\ ~Frozen(doc, N(c, 1)),
          [doc EXCEPT ![N(c, 1)].key = None])
  /\ UNCHANGED Other

(* set_node writes to a sublayer; only the characters need a font.  set    *)
(* and reset name the instance alone.                                      *)
InstanceOverride(c) ==
  /\ Handling(c, "instance.override")
  /\ UNCHANGED <<doc, Other>>
  /\ IF Len(Handles(c)) = 1 THEN Answers(c, "ok")
     ELSE LET instance == N(c, 1)
              target   == N(c, 2)
              foreign  == target # instance /\ ~isDescendantOf(target, instance)
          IN  \/ foreign /\ Answers(c, "FIGMA_API_ERROR")
              \/ ~foreign /\ Cmd(c).arg.what # "characters" /\ Answers(c, "ok")
              \/ /\ ~foreign /\ Cmd(c).arg.what = "characters"
                 /\ IF Type(c, 2) # "TEXT" THEN Answers(c, "FIGMA_API_ERROR")
                    ELSE Awaits(c, "load") \/ Answers(c, "FONT_ERROR")  \* mixed fonts

(* component_property.manage and mask.set act at once or throw.            *)
ComponentProperty(c) ==
  /\ Handling(c, "component_property.manage")
  /\ \/ Type(c, 1) \in {"COMPONENT", "COMPONENT_SET"} /\ Answers(c, "ok")
     \/ Answers(c, "FIGMA_API_ERROR")      \* wrong type, unknown property, variant
  /\ UNCHANGED <<doc, Other>>

SetMask(c) ==
  /\ Handling(c, "mask.set")
  /\ Does(c, Type(c, 1) # "PAGE", doc)
  /\ UNCHANGED Other

(* patch: geometry is written before, everything else after the style; arg *)
(* is what the patch is about: "plain", "fillStyleRef", "font" or          *)
(* "characters".                                                           *)
PatchNode(c) ==
  /\ Handling(c, "node.patch")
  /\ UNCHANGED <<doc, Other>>
  /\ CASE Cmd(c).arg.what = "fillStyleRef" ->
            IF Type(c, 1) \in Unpainted THEN Answers(c, "FIGMA_API_ERROR") ELSE RunsOn(c, "find")
       [] Cmd(c).arg.what = "font" ->
            IF Type(c, 1) # "TEXT" THEN Answers(c, "FIGMA_API_ERROR") ELSE NeedsFont(c)
       [] Cmd(c).arg.what = "characters" ->
            IF Type(c, 1) # "TEXT" THEN Answers(c, "FIGMA_API_ERROR")
            ELSE Awaits(c, "load") \/ Answers(c, "FONT_ERROR")
       [] OTHER -> Answers(c, "ok")

(* text_range.set: arg is [start, end, len, what]; what is the field set:  *)
(* "font", "styleRef", "plain" for those written at once, or None.         *)
TextRange(c) ==
  /\ Handling(c, "text_range.set")
  /\ UNCHANGED <<doc, Other>>
  /\ LET a == Cmd(c).arg
     IN  IF Type(c, 1) # "TEXT" \/ a.end > a.len \/ a.start >= a.end \/ a.what = None
         THEN Answers(c, "FIGMA_API_ERROR")
         ELSE CASE a.what = "styleRef" -> RunsOn(c, "find")
                [] a.what = "font"     -> NeedsFont(c)
                [] OTHER               -> Answers(c, "ok")

\* A handler that only waited for its font writes to its (last) node and answers;
\* text_range.set loads the face it resolved once more.
FontReady(c) ==
  /\ \/ /\ At(c, "fonted") /\ Cmd(c).op = "node.patch"
        /\ Does(c, ~Stale(c), doc)
     \/ /\ At(c, "fonted") /\ Cmd(c).op = "text_range.set"
        /\ Awaits(c, "load")
        /\ UNCHANGED doc
     \/ /\ At(c, "loaded")
        /\ Cmd(c).op \in {"node.patch", "text_range.set", "instance.override"}
        /\ Does(c, ~Stale(c), doc)
  /\ UNCHANGED Other

(* ---- reads -------------------------------------------------------------- *)

\* serializeNode down to a depth.
depthOf(n, root) == Cardinality(Ancestors(doc, n) \ Ancestors(doc, root))
serialized(root, depth) ==
  {n \in {root} \cup Below(doc, root) : depthOf(n, root) <= depth}
\* Only an instance costs an await of its own.
Serializes(c, nodes) ==
  LET instances == {n \in nodes : doc[n].type = "INSTANCE"}
  IN  IF instances = {} THEN Answers(c, "ok")
      ELSE /\ calls' = [calls EXCEPT ![c].got = SetToSeq(instances), ![c].pc = "mains"]
           /\ turn' = None
\* customNode, and customSelection on whatever is selected; arg has the depth.
ReadNode(c) ==
  /\ Handling(c, "node.read")
  /\ Serializes(c, serialized(IF Handles(c) = <<>> THEN page ELSE N(c, 1), Cmd(c).arg.depth))
  /\ UNCHANGED <<doc, Other>>
ReadSelection(c) ==
  /\ Handling(c, "selection.read")
  /\ \E selected \in {<<>>} \cup {<<n>> : n \in ToSet(doc[page].kids)} :
       Serializes(c, UNION {serialized(n, Cmd(c).arg.depth) : n \in ToSet(selected)})
  /\ UNCHANGED <<doc, Other>>

\* plumbComponents: every instance of the file that is not inside another one.
ReadComponents(c) ==
  /\ Handling(c, "components")
  /\ Serializes(c, {n \in LiveNodes(doc) : ~Frozen(doc, n)})
  /\ UNCHANGED <<doc, Other>>

(* getMainComponentAsync of every instance.  serializeNode reports its own *)
(* failure as readError, but `children` of a removed instance throws past  *)
(* that; plumbComponents passes over an instance whose call failed, and    *)
(* throws on one that was removed after its call.                          *)
MainsAnswered(c) ==
  /\ Answered(c, "mains")
  /\ \/ (~Stale(c) \/ Cmd(c).op = "components") /\ Answers(c, "ok")
     \/ Stale(c) /\ Answers(c, "FIGMA_API_ERROR")
  /\ UNCHANGED <<doc, Other>>

\* runtimeStatus, plumbOutline: nothing to go wrong once the pages are loaded.
ReadStatus(c) ==
  /\ At(c, "run") /\ Cmd(c).op \in {"status", "outline"}
  /\ Answers(c, "ok")
  /\ UNCHANGED <<doc, Other>>

HandlerStep(c) ==
  \/ DeleteNode(c) \/ ReorderNode(c) \/ MoveNode(c)
  \/ BooleanOp(c) \/ GroupNodes(c) \/ UngroupNode(c) \/ CreateComponentSet(c)
  \/ CreateInstance(c) \/ InstanceParentAnswered(c) \/ InstanceSwap(c) \/ InstanceOverride(c)
  \/ ComponentProperty(c) \/ SetMask(c) \/ PatchNode(c) \/ TextRange(c) \/ FontReady(c)
  \/ ReadNode(c) \/ ReadSelection(c) \/ ReadComponents(c) \/ MainsAnswered(c) \/ ReadStatus(c)
=============================================================================
