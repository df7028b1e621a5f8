---------------------------- MODULE DesignApply ----------------------------
(***************************************************************************)
(* handleApplyPlan of figma-plugin/code.js: build a compiled plan, or in   *)
(* mode "sync" bring what an earlier build left into line with it.  The    *)
(* passes over plan.ops are loops here (step); they run without an await   *)
(* except where an op needs a font or a style (ref).                       *)
(*                                                                         *)
(* A plan is [ops, mode, prune, target]; an op [key, type, parent, ref]    *)
(* with parent None for the root; target is None or the name of a page     *)
(* (kept in the page's key).  Boolean ops carry no ref here.               *)
(***************************************************************************)
EXTENDS PluginStyles

Plan(c)  == Cmd(c).arg
Ops(c)   == Plan(c).ops
Op(c)    == Ops(c)[calls[c].step]
Built(c) == calls[c].built                 \* nodesByKey
Target(c) == calls[c].got[1]
IsPlan(c) == Cmd(c) # None /\ Cmd(c).op = "design.apply"
absorbed(c, op) ==
  \E i \in DOMAIN Ops(c) : Ops(c)[i].type = "BOOLEAN_OPERATION" /\ Ops(c)[i].key = op.parent

NextOpShort(c, after) ==                             \* mutant
  IF calls[c].step + 1 < Len(Ops(c)) THEN [calls EXCEPT ![c].step = @ + 1]
  ELSE [calls EXCEPT ![c].step = 1, ![c].pc = after]
\* Next op of a pass, or the pass that comes after.
NextOp(c, after) ==
  IF calls[c].step < Len(Ops(c)) THEN [calls EXCEPT ![c].step = @ + 1]
  ELSE [calls EXCEPT ![c].step = 1, ![c].pc = after]

IndexTopLevel(container) ==                          \* mutant
  LET found == SelectSeq(doc[container].kids, LAMBDA n : doc[n].key # None)
  IN  [k \in {doc[n].key : n \in ToSet(found)} |->
         CHOOSE n \in ToSet(found) : doc[n].key = k]
\* Of several nodes with one key the last in the order of the tree is kept.
indexExistingByKey(container) ==
  LET walk  == Walk(doc, container)
      found == {i \in 2..Len(walk) : doc[walk[i]].key # None}
  IN  [k \in {doc[walk[i]].key : i \in found} |-> walk[Max({i \in found : doc[walk[i]].key = k})]]

BeginsBuild(c, target) ==
  /\ calls' = [calls EXCEPT
       ![c].pc = "build", ![c].step = 1, ![c].got = <<target>>, ![c].built = <<>>,
       ![c].index = IF Plan(c).mode = "sync" THEN indexExistingByKey(target) ELSE <<>>]
  /\ turn' = c

(* resolveTargetContainer: a named page is made if there is none, loaded   *)
(* and shown; without a name the page on show is taken as it is.           *)
ApplyPlan(c) ==
  /\ At(c, "run") /\ IsPlan(c)
  /\ LET pages == {p \in LiveNodes(doc) : doc[p].type = "PAGE" /\ doc[p].key = Plan(c).target}
     IN  \/ Plan(c).target = None /\ BeginsBuild(c, page) /\ UNCHANGED doc
         \/ /\ Plan(c).target # None
            /\ doc' = IF pages # {} THEN doc
                      ELSE Add(doc, [NewNode("PAGE", None, c) EXCEPT !.key = Plan(c).target])
            /\ Awaits(c, "page")
  /\ UNCHANGED <<page, library, collections>>

PageShown(c) ==
  /\ Answered(c, "page")
  /\ \E p \in LiveNodes(doc) :
       /\ doc[p].type = "PAGE" /\ doc[p].key = Plan(c).target
       /\ page' = p
       /\ BeginsBuild(c, p)
  /\ UNCHANGED <<doc, library, collections>>

(* Reuse the node of that key or create one, on the page on show; tag it;  *)
(* then applyIntrinsic, which waits for the op's font or style.            *)
BuildNode(c) ==
  /\ At(c, "build") /\ IsPlan(c)
  /\ LET op    == Op(c)
         reuse == op.key \in DOMAIN calls[c].index /\ Live(doc, calls[c].index[op.key])
         node  == IF reuse THEN calls[c].index[op.key] ELSE NewId(doc)
         with  == [calls EXCEPT ![c].built = [k \in DOMAIN @ \cup {op.key} |->
                                               IF k = op.key THEN node ELSE @[k]]]
     IN  IF op.type = "BOOLEAN_OPERATION"
         THEN calls' = NextOp(c, "bool") /\ UNCHANGED <<doc, turn>>
         ELSE /\ doc' = IF reuse THEN doc
                        ELSE Add(doc, [NewNode(op.type, page, c) EXCEPT !.key = op.key])
              /\ \/ /\ op.ref # None /\ (op.ref = "font" => "wanted" \notin fonts)
                    /\ calls' = [with EXCEPT ![c].pc = IF op.ref = "font" THEN "font" ELSE "find"]
                    /\ turn' = IF op.ref = "font" THEN None ELSE c
                 \/ /\ op.ref = None \/ (op.ref = "font" /\ "wanted" \in fonts)
                    /\ calls' = [with EXCEPT ![c].pc = "fonted"]
                    /\ UNCHANGED turn
  /\ UNCHANGED <<page, library, collections>>

(* applyIntrinsic ends, well or with a warning: a font or style that is    *)
(* not there, or a node that is gone by now, does not stop the build.      *)
IntrinsicDone(c) ==
  /\ IsPlan(c)
  /\ \/ At(c, "fonted")
     \/ At(c, "styled") /\ calls[c].style = None
  /\ calls' = [NextOp(c, "bool") EXCEPT ![c].pc = IF @ = "bool" THEN "bool" ELSE "build"]
  /\ UNCHANGED <<doc, page, library, collections, turn>>

PlanSetsStyle(c) ==
  /\ IsPlan(c) /\ At(c, "styled") /\ calls[c].style # None
  /\ Awaits(c, "set")
  /\ UNCHANGED <<doc, page, library, collections>>
PlanStyleSet(c) ==
  /\ IsPlan(c) /\ Answered(c, "set")
  /\ LET n == Built(c)[Op(c).key]
         s == calls[c].style
     IN  doc' = IF Live(doc, n) /\ StyleLive(s) THEN [doc EXCEPT ![n].style = s] ELSE doc
  /\ RunsOn(c, "fonted")
  /\ UNCHANGED <<page, library, collections>>

RemovesStale(d, stale) ==                            \* mutant
  IF stale # None /\ HasChildren(d, stale) /\ Removable(d, stale) THEN RemoveNode(d, stale) ELSE d
Tidied(d, stale) ==
  IF stale # None /\ HasChildren(d, stale) /\ d[stale].kids = <<>> /\ Removable(d, stale)
  THEN RemoveNode(d, stale) ELSE d

(* A boolean is always made anew from its children; the one of the last    *)
(* build goes if that leaves it empty.  Without children, or if Figma      *)
(* refuses, it is skipped with a warning and has no node.                  *)
BuildBoolean(c) ==
  /\ At(c, "bool") /\ IsPlan(c)
  /\ LET op    == Op(c)
         keys  == {o \in ToSet(Ops(c)) : o.parent = op.key /\ o.key \in DOMAIN Built(c)}
         nodes == {Built(c)[o.key] : o \in keys}
         home  == IF op.parent \in DOMAIN Built(c) THEN Built(c)[op.parent] ELSE Target(c)
         made  == Wrap(doc, "BOOLEAN_OPERATION", nodes, home, c)
         stale == IF op.key \in DOMAIN calls[c].index THEN calls[c].index[op.key] ELSE None
         skip  == calls' = NextOp(c, "place") /\ UNCHANGED <<doc, turn>>
     IN  \/ op.type # "BOOLEAN_OPERATION" /\ skip
         \/ /\ op.type = "BOOLEAN_OPERATION"
            /\ \/ nodes = {} /\ skip
               \/ nodes # {} /\ (\E n \in nodes : ~Live(doc, n)) /\ Throws(c)
               \/ nodes # {} /\ (\A n \in nodes : Live(doc, n)) /\ skip
               \/ /\ nodes # {} /\ CanWrap(doc, nodes, home)
                  /\ doc' = [Tidied(made, stale) EXCEPT ![NewId(doc)].key = op.key]
                  /\ calls' = [NextOp(c, "place") EXCEPT ![c].built =
                                 [k \in DOMAIN @ \cup {op.key} |->
                                    IF k = op.key THEN NewId(doc) ELSE @[k]]]
                  /\ UNCHANGED turn
  /\ UNCHANGED <<page, library, collections>>

(* Parenting, then sizing and positions, which change no structure.  A     *)
(* node or parent that is gone, or was skipped, ends the command here,     *)
(* with everything built so far in the file; a parent that holds no        *)
(* children leaves the node where it is.                                   *)
PlaceNode(c) ==
  /\ At(c, "place") /\ IsPlan(c)
  /\ LET op     == Op(c)
         next   == calls' = NextOp(c, "prune") /\ UNCHANGED turn
         parent == IF op.parent = None THEN Target(c)
                   ELSE IF op.parent \in DOMAIN Built(c) THEN Built(c)[op.parent] ELSE None
         childless == parent # None /\ doc[parent].type \in {"RECTANGLE", "TEXT"}
     IN  \/ /\ absorbed(c, op) \/ parent = None \/ childless
            /\ next /\ UNCHANGED doc
         \/ /\ ~absorbed(c, op) /\ parent # None /\ ~childless
            /\ IF op.key \in DOMAIN Built(c) /\ Accepts(doc, parent, Built(c)[op.key])
               THEN doc' = AppendChild(doc, parent, Built(c)[op.key]) /\ next
               ELSE Throws(c)
  /\ UNCHANGED <<page, library, collections>>

(* Prune what the plan no longer names.  The root is selected at the end,  *)
(* which Figma allows only on the page on show.                            *)
FinishPlan(c) ==
  /\ At(c, "prune") /\ IsPlan(c)
  /\ LET index  == calls[c].index
         unused == {n \in {index[k] : k \in DOMAIN index \ DOMAIN Built(c)} : Removable(doc, n)}
     IN  doc' = IF Plan(c).mode = "sync" /\ Plan(c).prune
                THEN Sweep(Drop(doc, unused \cup UNION {Below(doc, n) : n \in unused}))
                ELSE doc
  /\ Answers(c, IF Target(c) = page THEN "ok" ELSE "FIGMA_API_ERROR")
  /\ UNCHANGED <<page, library, collections>>

DesignStep(c) ==
  \/ ApplyPlan(c) \/ PageShown(c) \/ BuildNode(c) \/ IntrinsicDone(c)
  \/ PlanSetsStyle(c) \/ PlanStyleSet(c) \/ BuildBoolean(c) \/ PlaceNode(c) \/ FinishPlan(c)
=============================================================================
