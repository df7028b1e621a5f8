---------------------------- MODULE PluginCalls ----------------------------
(***************************************************************************)
(* Commands inside the plugin (figma-plugin/code.js).  The sandbox is      *)
(* single threaded, but a handler is asynchronous: at every await on the   *)
(* Figma API another command, or the user, may run.  The coordinator sends *)
(* one command at a time, and yet two can overlap here, because it gives   *)
(* up on a command after its timeout while the plugin is still working.    *)
(*                                                                         *)
(* A call is in the hands of Figma while its pc is an await; once the      *)
(* awaited answer is there the call takes the turn and keeps it up to its  *)
(* next await, so that what the code does between two awaits is atomic     *)
(* although it may be several steps here.  This module has the calls, the  *)
(* dispatch and the awaits that all handlers share; the handlers are in    *)
(* the modules that extend it.                                             *)
(***************************************************************************)
EXTENDS FigmaDocument

CONSTANTS
  Calls,               \* commands delivered to the plugin
  User,                \* who works in the same file
  Commands,            \* what a command may ask for
  FirstDoc, FirstPage, \* the file as the plugin finds it
  FirstStyles,         \* its local styles: id -> [kind, name, by, gone]
  FirstCollections     \* its variable collections: id -> [modes, live]

Kinds == {"paint", "text"}

ASSUME ActorAssumption == None \notin Calls /\ User \notin Calls
ASSUME AnswerAssumption == None # "ok"

\* Plan keys are written on what createFigmaNode and the booleans make: never a group.
NoKeyedGroups(d) == \A n \in LiveNodes(d) : d[n].type = "GROUP" => d[n].key = None
ASSUME FileAssumption ==
  /\ IsDocument(FirstDoc) /\ NoKeyedGroups(FirstDoc)
  /\ Live(FirstDoc, FirstPage) /\ FirstDoc[FirstPage].type = "PAGE"

(* What the schemas of the commands and the compiler of plans make sure    *)
(* of: a style is of one of the kinds, an index is a number from 0 on, a   *)
(* swap names an instance and a component, a plan has a root and makes     *)
(* nodes only of the types createFigmaNode knows.                          *)
(* Its ops are the nodes of a tree, under the ids the author gave them, of *)
(* which the compiler takes no id twice.                                   *)
PlanTypes == {"FRAME", "COMPONENT", "RECTANGLE", "TEXT", "BOOLEAN_OPERATION"}
KeysOf(ops) == {ops[i].key : i \in 1..Len(ops)}
IsPlanTree(ops) ==
  /\ \A i, j \in 1..Len(ops) : ops[i].key = ops[j].key => i = j
  /\ None \notin KeysOf(ops)
  /\ \A i \in 1..Len(ops) : ops[i].parent \in (KeysOf(ops) \ {ops[i].key}) \cup {None}
ASSUME CommandAssumption ==
  /\ None \notin Commands
  /\ \A k \in Commands : k.op = "node.reorder" => k.arg.index \in Nat
  /\ \A k \in Commands : k.op = "node.move" => k.arg.index \in Nat \cup {None}
  /\ \A k \in Commands : k.op = "instance.swap" => Len(k.ids) = 2
  /\ \A k \in Commands : k.op = "design.apply" =>
       /\ Len(k.arg.ops) \in Nat \ {0} /\ DOMAIN k.arg.ops = 1..Len(k.arg.ops)
       /\ \A i \in 1..Len(k.arg.ops) : k.arg.ops[i].type \in PlanTypes
       /\ IsPlanTree(k.arg.ops)
  /\ \A k \in Commands :
       k.op \in {"styles.create", "styles.delete", "styles.apply", "styles.list"} =>
         k.arg.kind \in Kinds

ASSUME StyleAssumption ==
  /\ IsFiniteSet(DOMAIN FirstStyles) /\ None \notin DOMAIN FirstStyles
  /\ FirstStyles = [s \in DOMAIN FirstStyles |-> FirstStyles[s]]
  /\ \A s \in DOMAIN FirstStyles :
       /\ DOMAIN FirstStyles[s] = {"kind", "name", "by", "gone"}
       /\ FirstStyles[s].gone = None

NoList == [kind \in Kinds |-> None]

VARIABLES
  doc,                 \* the node tree
  page,                \* figma.currentPage
  styles,              \* local styles
  cache,               \* paintStyleCache, textStyleCache: None or the handles loaded
  fonts,               \* loadedFontKeys
  collections,         \* variable collections: id -> [modes, live]
  calls,               \* the calls' progress
  turn,                \* the call whose code is running, or None
  moves                \* how often the user has stepped in

library == <<styles, cache, fonts>>
pluginVars == <<doc, page, styles, cache, fonts, collections, calls, turn, moves>>

(* got: handles looked up; style: the style found; list: the styles there  *)
(* were when a list was asked for; index, built, step: design.apply's      *)
(* `existing`, `nodesByKey` and loop position; out: the answer.  History,  *)
(* set by Start: after, here, before.                                      *)
Idle == [cmd |-> None, pc |-> "idle", got |-> <<>>, style |-> None, list |-> {},
         index |-> <<>>, built |-> <<>>, step |-> 0, out |-> None,
         after |-> {}, here |-> FALSE, before |-> None]

CallsInit ==
  /\ doc = FirstDoc /\ page = FirstPage
  /\ styles = FirstStyles /\ cache = NoList /\ fonts = {}
  /\ collections = FirstCollections
  /\ calls = [c \in Calls |-> Idle]
  /\ turn = None
  /\ moves = 0

Cmd(c) == calls[c].cmd
Running(c) == calls[c].pc \notin {"idle", "done"}
At(c, pc) == turn = c /\ calls[c].pc = pc           \* the code runs on
Answered(c, pc) == turn = None /\ calls[c].pc = pc  \* Figma has answered

(* What a handler does next: wait for Figma, run on, answer, throw.        *)
Awaits(c, pc) == calls' = [calls EXCEPT ![c].pc = pc] /\ turn' = None
RunsOn(c, pc) == calls' = [calls EXCEPT ![c].pc = pc] /\ turn' = c
Answers(c, out) ==
  /\ calls' = [calls EXCEPT ![c] =
        [Idle EXCEPT !.cmd = Cmd(c), !.pc = "done", !.out = out,
                     !.after = calls[c].after, !.here = calls[c].here]]
  /\ turn' = None
Throws(c) == Answers(c, "FIGMA_API_ERROR") /\ UNCHANGED doc
\* One call into Figma: it changes the document or throws and changes nothing.
Does(c, possible, after) ==
  IF possible THEN doc' = after /\ Answers(c, "ok") ELSE Throws(c)

(* ---- dispatch ----------------------------------------------------------- *)

LookupFirst == {"node.read", "node.patch", "node.delete", "node.reorder", "node.move",
  "boolean.op", "group.create", "group.ungroup", "component_set.create", "text_range.set",
  "component_property.manage", "instance.override", "instance.swap", "instance.create",
  "mask.set", "styles.apply", "variables.bind"}
StyleFirst == {"paint_style.create", "styles.create", "styles.delete"}
handlers == LookupFirst \cup StyleFirst
              \cup {"design.apply", "styles.list", "variables.manage",
                    "status", "outline", "components", "selection.read"}

validateEnvelope(k) ==
  IF k.version # "1.0" THEN "UNSUPPORTED_PROTOCOL_VERSION"
  ELSE IF k.requestId = None \/ k.op \notin handlers THEN "INVALID_COMMAND"
  ELSE "valid"

\* What a handler refuses before its first await.
MAX_READ_DEPTH == 20
refusal(k) ==
  IF k.op \in {"node.read", "selection.read"} /\ validateEnvelope(k) = "valid" /\ k.arg.depth > MAX_READ_DEPTH
  THEN "FIGMA_API_ERROR" ELSE validateEnvelope(k)

FindOnTopLevel(key) ==                               \* mutant
  LET found == SelectSeq(doc[page].kids, LAMBDA n : doc[n].op = key)
  IN  IF found = <<>> THEN None ELSE found[1]
\* The first node on the current page that carries the operation key, or None.
findByPluginKey(key) ==
  LET found == SelectSeq(Walk(doc, page), LAMBDA n : doc[n].op = key)
  IN  IF found = <<>> THEN None ELSE found[1]
Keyed == [op \in {"group.create", "component_set.create"} |->
            IF op = "group.create" THEN "GROUP" ELSE "COMPONENT_SET"]
Reused(k) ==
  /\ k.op \in DOMAIN Keyed /\ k.key # None
  /\ findByPluginKey(k.key) # None
  /\ doc[findByPluginKey(k.key)].type = Keyed[k.op]

firstPc(k) ==
  CASE k.op \in LookupFirst  -> IF k.ids = <<>> THEN "run" ELSE "node"
    [] k.op \in StyleFirst   -> "find"
    [] OTHER                 -> "run"

\* The pages a command looks at: those its plan names, or the one on show.
LooksAt(k) ==
  IF k.op = "design.apply" /\ k.arg.target # None
  THEN {p \in LiveNodes(doc) : doc[p].type = "PAGE" /\ doc[p].key = k.arg.target}
  ELSE {page}

(* handleCommand up to the handler's first await.  after: the commands     *)
(* that are over by now; here: what the others made is or lies on the one  *)
(* page this one looks at; before: the file, until someone else steps in.  *)
file == <<doc, styles>>
Disturbed == [c \in Calls |-> [calls[c] EXCEPT !.before = None]]
Start(c) ==
  /\ turn = None /\ calls[c].pc = "idle"
  /\ \E k \in Commands :
       LET others == Calls \ {c}
           over   == {o \in others : calls[o].pc = "done"}
           here   == \E p \in LooksAt(k) :
                       /\ LooksAt(k) = {p}
                       /\ \A n \in LiveNodes(doc) :
                            doc[n].by \in others => n = p \/ p \in Ancestors(doc, n)
           call   == [Idle EXCEPT !.cmd = k, !.after = over, !.here = here,
                                  !.before = IF \E o \in others : Running(o) THEN None ELSE file]
           ends(out) == /\ calls' = [calls EXCEPT ![c] =
                                [call EXCEPT !.pc = "done", !.out = out, !.before = None]]
                        /\ UNCHANGED turn
       IN  \/ refusal(k) # "valid" /\ ends(refusal(k))
           \/ refusal(k) = "valid" /\ Reused(k) /\ ends("ok")
           \/ /\ refusal(k) = "valid" /\ ~Reused(k)
              /\ calls' = [Disturbed EXCEPT ![c] = [call EXCEPT !.pc = firstPc(k)]]
              /\ turn' = IF firstPc(k) = "node" THEN None ELSE c
  /\ UNCHANGED <<doc, page, library, collections>>

(* ---- awaits ------------------------------------------------------------- *)

(* resolveNodesOrThrow throws a plain Error, every other handler the code. *)
notFound(k) ==
  IF k.op \in {"boolean.op", "group.create", "component_set.create"}
  THEN "FIGMA_API_ERROR" ELSE "NODE_NOT_FOUND"

\* Type tests some handlers make on a node before they look up the next one.
Unfit(k, i, n) ==
  \/ k.op \in {"instance.override", "instance.swap"} /\ i = 1 /\ doc[n].type # "INSTANCE"
  \/ k.op = "node.move" /\ i = 1 /\ doc[n].type = "PAGE"

\* await figma.getNodeByIdAsync(ids[i]) comes back.
NodeAnswered(c) ==
  /\ Answered(c, "node")
  /\ LET k == Cmd(c)
         i == Len(calls[c].got) + 1
         n == k.ids[i]
     IN  \/ ~Live(doc, n) /\ Answers(c, notFound(k))
         \/ Live(doc, n) /\ Unfit(k, i, n) /\ Answers(c, "FIGMA_API_ERROR")
         \/ /\ Live(doc, n) /\ ~Unfit(k, i, n)
            /\ calls' = [calls EXCEPT ![c].got = Append(@, n),
                                      ![c].pc = IF i = Len(k.ids) THEN "run" ELSE "node"]
            /\ turn' = IF i = Len(k.ids) THEN c ELSE None
  /\ UNCHANGED <<doc, page, library, collections>>

Unpainted == {"PAGE", "GROUP"}             \* types without fillStyleId

\* Touching a node that is gone throws; handles grow old across awaits.
Stale(c) == \E i \in DOMAIN calls[c].got : ~Live(doc, calls[c].got[i])

(* resolveFont: a face already loaded costs no await; one that cannot be   *)
(* loaded is replaced by a fallback; without one the call ends, except     *)
(* that applyIntrinsic's caller turns every error into a warning.          *)
NeedsFont(c) ==
  IF "wanted" \in fonts THEN RunsOn(c, "fonted") ELSE Awaits(c, "font")
FontAnswered(c) ==
  /\ Answered(c, "font")
  /\ \/ /\ fonts' = fonts \cup {"wanted"}
        /\ RunsOn(c, "fonted")
     \/ /\ fonts' = fonts \cup {"fallback"}
        /\ RunsOn(c, "fonted")
     \/ /\ "fallback" \notin fonts
        /\ IF Cmd(c).op = "design.apply" THEN RunsOn(c, "fonted")
           ELSE Answers(c, "FONT_ERROR")
        /\ UNCHANGED fonts
  /\ UNCHANGED <<doc, page, styles, cache, collections>>
\* loadFontAsync of a given face: always an await, and no fallback.
LoadAnswered(c) ==
  /\ Answered(c, "load")
  /\ RunsOn(c, "loaded") \/ Answers(c, "FIGMA_API_ERROR")
  /\ UNCHANGED <<doc, page, library, collections>>
=============================================================================
