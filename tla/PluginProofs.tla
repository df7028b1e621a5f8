---------------------------- MODULE PluginProofs ----------------------------
(***************************************************************************)
(* Proofs about Plugin, for any number of overlapping calls, any commands  *)
(* and any file: what the style caches hold, what a lookup by name misses, *)
(* what a failing command leaves behind, what the handlers do to the node  *)
(* tree, and that a design command that answers ok has its plan in it.     *)
(***************************************************************************)
EXTENDS Plugin, DocumentProofs

IsCall(x) == DOMAIN x = DOMAIN Idle

(* A command that may fail after it has changed something.                 *)
Slow(c) ==
  \/ IsPlan(c) \/ Cmd(c).op = "instance.create"
  \/ Cmd(c).op = "styles.create" /\ KindOf(Cmd(c)) = "text"

(* A plan that has got to one of its ops stays within them.                *)
OpAt(c, i) == IsPlan(c) /\ Len(Ops(c)) \in Nat /\ i \in 1..Len(Ops(c))
Steps(c, x) == OpAt(c, calls[c].step) => OpAt(c, x.step)

(* A step of a call concerns this call alone, and it runs on or is over.   *)
Advances(c) ==
  /\ Running(c)
  /\ calls' = [calls EXCEPT ![c] = calls'[c]]
  /\ IsCall(calls'[c])
  /\ calls'[c].cmd = Cmd(c) /\ calls'[c].after = calls[c].after
  /\ \/ calls'[c].pc = "done" /\ calls'[c].before = None /\ turn' = None
     \/ /\ calls'[c].pc \notin {"idle", "done"} /\ Steps(c, calls'[c])
        /\ calls'[c].before = calls[c].before /\ calls'[c].out = calls[c].out
        /\ turn' \in {None, c}

(* It changes the file only to succeed.                                    *)
Careful(c) ==
  \/ Slow(c) \/ file' = file
  \/ calls'[c].pc = "done" /\ (calls'[c].out = "ok" \/ FailsLate(c))

(* It does not concern the search for a style.                             *)
Plain(c) ==
  /\ Advances(c)
  /\ Careful(c)
  /\ UNCHANGED <<styles, cache>>
  /\ calls[c].pc \notin {"list", "relist"}
  /\ calls'[c].pc \notin {"list", "relist", "styled"}
  /\ calls'[c].list \in {calls[c].list, {}}
  /\ calls'[c].pc = "find" => KindOf(Cmd(c)) \in Kinds

CallShape ==
  /\ calls = [c \in Calls |-> calls[c]]
  /\ \A c \in Calls : IsCall(calls[c])

-----------------------------------------------------------------------------
(* What a handler does next, seen from outside.                            *)
LEMMA AnswersEnds ==
  ASSUME CallShape, NEW c \in Calls, Running(c), NEW out, Answers(c, out)
  PROVE  /\ Advances(c)
         /\ calls'[c].pc = "done" /\ calls'[c].out = out /\ calls'[c].list = {}
<1> DEFINE x == [Idle EXCEPT !.cmd = Cmd(c), !.pc = "done", !.out = out,
                             !.after = calls[c].after, !.here = calls[c].here]
<1>1. calls' = [calls EXCEPT ![c] = x] /\ turn' = None
  BY DEF Answers
<1>2. /\ IsCall(x) /\ x.cmd = Cmd(c) /\ x.after = calls[c].after /\ x.before = None
      /\ x.pc = "done" /\ x.out = out /\ x.list = {}
  BY DEF Idle, IsCall
<1> HIDE DEF x
<1>3. calls'[c] = x
  BY <1>1 DEF CallShape
<1>. QED
  BY <1>1, <1>2, <1>3 DEF Advances

(* The fields a step may change without ending the call.                   *)
GoesOn(c, x) ==
  /\ IsCall(x) /\ x.cmd = Cmd(c) /\ x.after = calls[c].after
  /\ x.pc \notin {"idle", "done"} /\ x.before = calls[c].before /\ x.out = calls[c].out
  /\ Steps(c, x)

LEMMA GoingOn ==
  ASSUME CallShape, NEW c \in Calls, Running(c), NEW x, GoesOn(c, x),
         calls' = [calls EXCEPT ![c] = x], turn' \in {None, c}
  PROVE  Advances(c) /\ calls'[c] = x
<1>1. calls'[c] = x
  BY DEF CallShape
<1>. QED
  BY <1>1 DEF Advances, GoesOn

LEMMA PcGoesOn ==
  ASSUME CallShape, NEW c \in Calls, Running(c), NEW pc, pc \notin {"idle", "done"},
         calls' = [calls EXCEPT ![c].pc = pc], turn' \in {None, c}
  PROVE  /\ Advances(c) /\ calls'[c].pc = pc
         /\ calls'[c].list = calls[c].list /\ calls'[c].style = calls[c].style
<1> DEFINE x == [calls[c] EXCEPT !.pc = pc]
<1>1. IsCall(calls[c])
  BY DEF CallShape
<1>2. GoesOn(c, x) /\ x.pc = pc /\ x.list = calls[c].list /\ x.style = calls[c].style
  BY <1>1 DEF IsCall, GoesOn, Steps, Cmd, Idle, CallShape, Running
<1>3. calls' = [calls EXCEPT ![c] = x]
  OBVIOUS
<1> HIDE DEF x
<1>. QED
  BY <1>2, <1>3, GoingOn

LEMMA GotGoesOn ==
  ASSUME CallShape, NEW c \in Calls, Running(c), NEW pc, pc \notin {"idle", "done"}, NEW got,
         calls' = [calls EXCEPT ![c].got = got, ![c].pc = pc], turn' \in {None, c}
  PROVE  /\ Advances(c) /\ calls'[c].pc = pc
         /\ calls'[c].list = calls[c].list /\ calls'[c].style = calls[c].style
<1> DEFINE x == [calls[c] EXCEPT !.got = got, !.pc = pc]
<1>1. IsCall(calls[c])
  BY DEF CallShape
<1>2. GoesOn(c, x) /\ x.pc = pc /\ x.list = calls[c].list /\ x.style = calls[c].style
  BY <1>1 DEF IsCall, GoesOn, Steps, Cmd, Idle, CallShape, Running
<1>3. calls' = [calls EXCEPT ![c] = x]
  BY DEF CallShape
<1> HIDE DEF x
<1>. QED
  BY <1>2, <1>3, GoingOn

(* What most steps come to.                                                *)
Untouched == UNCHANGED <<styles, cache>>

LEMMA AnsweringIsPlain ==
  ASSUME CallShape, NEW c \in Calls, Running(c), calls[c].pc \notin {"list", "relist"},
         Untouched, NEW out, Answers(c, out),
         Slow(c) \/ UNCHANGED doc \/ out = "ok" \/ FailsLate(c)
  PROVE  Plain(c)
BY AnswersEnds DEF Untouched, Plain, Careful, file

LEMMA ActingIsPlain ==
  ASSUME CallShape, NEW c \in Calls, Running(c), calls[c].pc \notin {"list", "relist"},
         Untouched, Answers(c, "ok") \/ Throws(c)
  PROVE  Plain(c)
BY AnsweringIsPlain DEF Throws

LEMMA RunningOnIsPlain ==
  ASSUME CallShape, NEW c \in Calls, Running(c), calls[c].pc \notin {"list", "relist"},
         Untouched, NEW pc, pc \notin {"idle", "done", "list", "relist", "styled"},
         pc = "find" => KindOf(Cmd(c)) \in Kinds,
         Awaits(c, pc) \/ RunsOn(c, pc), Slow(c) \/ UNCHANGED doc
  PROVE  Plain(c)
BY PcGoesOn DEF Awaits, RunsOn, Untouched, Plain, Careful, file

(* The handlers that act on nodes.                                         *)
LEMMA NodesPlain ==
  ASSUME CallShape, NEW c \in Calls,
         \/ DeleteNode(c) \/ ReorderNode(c) \/ MoveNode(c) \/ BooleanOp(c) \/ GroupNodes(c)
         \/ UngroupNode(c) \/ CreateComponentSet(c) \/ InstanceSwap(c) \/ SetMask(c)
         \/ InstanceParentAnswered(c)
  PROVE  Plain(c)
<1>1. Untouched /\ Running(c) /\ calls[c].pc \notin {"list", "relist"}
  BY DEF DeleteNode, ReorderNode, MoveNode, BooleanOp, GroupNodes, UngroupNode,
     CreateComponentSet, InstanceSwap, SetMask, InstanceParentAnswered, Handling, At, Answered,
     Running, Other, library, Untouched
<1>2. ASSUME ~MoveNode(c), ~InstanceParentAnswered(c) PROVE Answers(c, "ok") \/ Throws(c)
  BY <1>2, Zenon DEF DeleteNode, ReorderNode, BooleanOp, GroupNodes, UngroupNode,
     CreateComponentSet, InstanceSwap, SetMask, Does
<1>3. CASE InstanceParentAnswered(c)
  <2>1. Answers(c, "ok") \/ Throws(c) \/ (Answers(c, "NODE_NOT_FOUND") /\ UNCHANGED doc)
    BY <1>3 DEF InstanceParentAnswered, Does
  <2>. QED
    BY <1>1, <2>1, ActingIsPlain, AnsweringIsPlain
<1>4. CASE MoveNode(c)
  <2>1. \/ Answers(c, "ok") \/ Throws(c) \/ (Answers(c, "INVALID_HIERARCHY") /\ UNCHANGED doc)
        \/ Answers(c, "FIGMA_API_ERROR") /\ FailsLate(c)
    BY <1>4 DEF MoveNode, FailsLate, Type, N
  <2>. QED
    BY <1>1, <2>1, ActingIsPlain, AnsweringIsPlain
<1>. QED
  BY <1>1, <1>2, <1>3, <1>4, ActingIsPlain

LEMMA CreateInstancePlain ==
  ASSUME CallShape, NEW c \in Calls, CreateInstance(c)
  PROVE  Plain(c)
<1>1. Untouched /\ Running(c) /\ calls[c].pc \notin {"list", "relist"} /\ Slow(c)
  BY DEF CreateInstance, Handling, At, Running, Other, library, Untouched, Slow
<1>2. \/ Throws(c) \/ Answers(c, "ok")
      \/ /\ calls' = [calls EXCEPT ![c].pc = "parent", ![c].got = <<NewId(doc)>>]
         /\ turn' = None
  BY DEF CreateInstance
<1>3. ASSUME calls' = [calls EXCEPT ![c].pc = "parent", ![c].got = <<NewId(doc)>>], turn' = None
      PROVE  Plain(c)
  <2>1. calls' = [calls EXCEPT ![c].got = <<NewId(doc)>>, ![c].pc = "parent"]
    BY <1>3
  <2>2. /\ "parent" \notin {"idle", "done"} /\ turn' \in {None, c}
        /\ "parent" \notin {"list", "relist", "styled", "find"}
    BY <1>3
  <2>3. Advances(c) /\ calls'[c].pc = "parent" /\ calls'[c].list = calls[c].list
    BY <1>1, <2>1, <2>2, GotGoesOn, Zenon
  <2>. QED
    BY <1>1, <2>2, <2>3 DEF Plain, Careful, Untouched
<1>. QED
  BY <1>1, <1>2, <1>3, ActingIsPlain

(* The handlers that change no node and may wait for Figma.                *)
LEMMA WaitingPlain ==
  ASSUME CallShape, NEW c \in Calls,
         \/ InstanceOverride(c) \/ ComponentProperty(c) \/ PatchNode(c) \/ TextRange(c)
         \/ FontReady(c) \/ MainsAnswered(c) \/ ReadStatus(c)
  PROVE  Plain(c)
<1>1. /\ Untouched /\ UNCHANGED doc /\ Running(c)
      /\ calls[c].pc \notin {"list", "relist"}
  BY DEF InstanceOverride, ComponentProperty, PatchNode, TextRange, FontReady, MainsAnswered,
     ReadStatus, Handling, At, Answered, Running, Other, library, Untouched, Does, Throws
<1>2. \/ \E out : Answers(c, out)
      \/ \E pc \in {"load", "font", "fonted"} : Awaits(c, pc) \/ RunsOn(c, pc)
      \/ RunsOn(c, "find") /\ Cmd(c).op \in {"node.patch", "text_range.set"}
  BY DEF InstanceOverride, ComponentProperty, PatchNode, TextRange, FontReady, MainsAnswered,
     ReadStatus, Handling, At, Does, Throws, NeedsFont
<1>3. Cmd(c).op \in {"node.patch", "text_range.set"} => KindOf(Cmd(c)) \in Kinds
  BY DEF KindOf, Kinds
<1>. QED
  BY <1>1, <1>2, <1>3, AnsweringIsPlain, RunningOnIsPlain

LEMMA SerializesPlain ==
  ASSUME CallShape, NEW c \in Calls, Running(c), calls[c].pc \notin {"list", "relist"},
         Untouched, UNCHANGED doc, NEW nodes, Serializes(c, nodes)
  PROVE  Plain(c)
<1>1. CASE Answers(c, "ok")
  BY <1>1, AnsweringIsPlain
<1>2. ASSUME NEW got, calls' = [calls EXCEPT ![c].got = got, ![c].pc = "mains"], turn' = None
      PROVE  Plain(c)
  <2>1. /\ "mains" \notin {"idle", "done"} /\ turn' \in {None, c}
        /\ "mains" \notin {"list", "relist", "styled", "find"}
    BY <1>2
  <2>2. Advances(c) /\ calls'[c].pc = "mains" /\ calls'[c].list = calls[c].list
    BY <1>2, <2>1, GotGoesOn, Zenon
  <2>. QED
    BY <2>1, <2>2 DEF Plain, Careful, Untouched, file
<1>. QED
  BY <1>1, <1>2 DEF Serializes

LEMMA ReadsPlain ==
  ASSUME CallShape, NEW c \in Calls, ReadNode(c) \/ ReadSelection(c) \/ ReadComponents(c)
  PROVE  Plain(c)
<1>1. /\ Untouched /\ UNCHANGED doc /\ Running(c)
      /\ calls[c].pc \notin {"list", "relist"}
  BY DEF ReadNode, ReadSelection, ReadComponents, Handling, At, Running, Other, library, Untouched
<1>2. \E nodes : Serializes(c, nodes)
  BY Zenon DEF ReadNode, ReadSelection, ReadComponents
<1>. QED
  BY <1>1, <1>2, SerializesPlain

LEMMA HandlersPlain ==
  ASSUME CallShape, NEW c \in Calls, HandlerStep(c)
  PROVE  Plain(c)
BY NodesPlain, CreateInstancePlain, WaitingPlain, ReadsPlain DEF HandlerStep

LEMMA VariablesPlain ==
  ASSUME CallShape, NEW c \in Calls, VariableStep(c)
  PROVE  Plain(c)
<1>1. /\ Untouched /\ UNCHANGED doc /\ Running(c)
      /\ calls[c].pc \notin {"list", "relist"}
  BY DEF VariableStep, ManageVariables, CollectionAnswered, BindVariable, VariableAnswered,
     At, Answered, Running, library, Untouched
<1>2. (\E out : Answers(c, out)) \/ \E pc \in {"collections", "variable"} : Awaits(c, pc)
  BY DEF VariableStep, ManageVariables, CollectionAnswered, BindVariable, VariableAnswered
<1>. QED
  BY <1>1, <1>2, AnsweringIsPlain, RunningOnIsPlain

LEMMA AwaitsPlain ==
  ASSUME CallShape, NEW c \in Calls, NodeAnswered(c) \/ FontAnswered(c) \/ LoadAnswered(c)
  PROVE  Plain(c)
<1>1. /\ Untouched /\ UNCHANGED doc /\ Running(c)
      /\ calls[c].pc \notin {"list", "relist"}
  BY DEF NodeAnswered, FontAnswered, LoadAnswered, Answered, Running, library, Untouched
<1>2. \/ \E out : Answers(c, out)
      \/ \E pc \in {"fonted", "loaded"} : RunsOn(c, pc)
      \/ /\ \E got : \E pc \in {"run", "node"} :
              calls' = [calls EXCEPT ![c].got = got, ![c].pc = pc]
         /\ turn' \in {None, c}
  BY DEF NodeAnswered, FontAnswered, LoadAnswered
<1>3. ASSUME NEW got, NEW pc \in {"run", "node"}, turn' \in {None, c},
             calls' = [calls EXCEPT ![c].got = got, ![c].pc = pc]
      PROVE  Plain(c)
  BY <1>1, <1>3, GotGoesOn DEF Plain, Careful, Untouched, file
<1>. QED
  BY <1>1, <1>2, <1>3, AnsweringIsPlain, RunningOnIsPlain

-----------------------------------------------------------------------------
(* design.apply.                                                           *)
Continues(c, x) ==
  /\ GoesOn(c, x)
  /\ x.list = calls[c].list
  /\ x.pc \notin {"list", "relist", "styled"}
  /\ x.pc = "find" => KindOf(Cmd(c)) \in Kinds

LEMMA ContinuingIsPlain ==
  ASSUME CallShape, NEW c \in Calls, Running(c), calls[c].pc \notin {"list", "relist"},
         Untouched, Slow(c) \/ UNCHANGED doc, turn' \in {None, c},
         NEW x, Continues(c, x), calls' = [calls EXCEPT ![c] = x]
  PROVE  Plain(c)
BY GoingOn DEF Continues, Plain, Careful, Untouched, file

LEMMA NextOpContinues ==
  ASSUME CallShape, NEW c \in Calls, Running(c), NEW after,
         after \notin {"idle", "done", "list", "relist", "styled", "find"},
         calls[c].pc \notin {"list", "relist", "styled", "find"}
  PROVE  \E x : NextOp(c, after) = [calls EXCEPT ![c] = x] /\ Continues(c, x)
<1> DEFINE y == [calls[c] EXCEPT !.step = @ + 1]
           z == [calls[c] EXCEPT !.step = 1, !.pc = after]
<1>1. IsCall(calls[c])
  BY DEF CallShape
<1>2. ASSUME calls[c].step < Len(Ops(c)) PROVE Continues(c, y)
  <2>1. Steps(c, y)
    <3>1. y.step = calls[c].step + 1
      BY <1>1 DEF IsCall, Idle
    <3> HIDE DEF y
    <3>. QED
      BY <1>2, <3>1 DEF Steps, OpAt
  <2>. QED
    BY <1>1, <2>1 DEF Continues, GoesOn, IsCall, Idle, Cmd, Running
<1>3. Continues(c, z)
  <2>1. Steps(c, z)
    <3>1. z.step = 1
      BY <1>1 DEF IsCall, Idle
    <3> HIDE DEF z
    <3>. QED
      BY <3>1 DEF Steps, OpAt
  <2>. QED
    BY <1>1, <2>1 DEF Continues, GoesOn, IsCall, Idle, Cmd, Running
<1>4. NextOp(c, after) = IF calls[c].step < Len(Ops(c)) THEN [calls EXCEPT ![c] = y]
                         ELSE [calls EXCEPT ![c] = z]
  BY DEF NextOp, CallShape
<1>. QED
  BY <1>2, <1>3, <1>4

(* A field that the proofs do not look at.                                 *)
LEMMA BuiltContinues ==
  ASSUME NEW c \in Calls, NEW x, Continues(c, x), NEW built
  PROVE  Continues(c, [x EXCEPT !.built = built])
BY DEF Continues, GoesOn, Steps, IsCall, Idle

LEMMA BeginsBuildPlain ==
  ASSUME CallShape, NEW c \in Calls, Running(c), calls[c].pc \notin {"list", "relist"},
         Untouched, UNCHANGED doc, NEW target, BeginsBuild(c, target)
  PROVE  Plain(c)
<1> DEFINE index == IF Plan(c).mode = "sync" THEN indexExistingByKey(target) ELSE <<>>
           x == [calls[c] EXCEPT !.pc = "build", !.step = 1, !.got = <<target>>, !.built = <<>>,
                                 !.index = index]
<1>1. IsCall(calls[c])
  BY DEF CallShape
<1>2. Continues(c, x)
  <2> HIDE DEF index
  <2>1. Steps(c, x)
    <3>1. x.step = 1
      BY <1>1 DEF IsCall, Idle
    <3> HIDE DEF x
    <3>. QED
      BY <3>1 DEF Steps, OpAt
  <2>. QED
    BY <1>1, <2>1 DEF Continues, GoesOn, IsCall, Idle, Cmd, Running
<1>3. calls' = [calls EXCEPT ![c] = x] /\ turn' = c
  BY DEF BeginsBuild, CallShape
<1> HIDE DEF x
<1>. QED
  BY <1>2, <1>3, ContinuingIsPlain

LEMMA ApplyPlanPlain ==
  ASSUME CallShape, NEW c \in Calls, ApplyPlan(c) \/ PageShown(c)
  PROVE  Plain(c)
<1>1. /\ Untouched /\ Running(c) /\ calls[c].pc \notin {"list", "relist"}
      /\ Slow(c) \/ UNCHANGED doc
  BY DEF ApplyPlan, PageShown, At, Answered, Running, library, Untouched, Slow
<1>2. (\E target : BeginsBuild(c, target) /\ UNCHANGED doc) \/ Awaits(c, "page")
  BY DEF ApplyPlan, PageShown
<1>. QED
  BY <1>1, <1>2, BeginsBuildPlain, RunningOnIsPlain

LEMMA BuildNodePlain ==
  ASSUME CallShape, NEW c \in Calls, BuildNode(c)
  PROVE  Plain(c)
<1>1. /\ Untouched /\ Running(c) /\ calls[c].pc = "build" /\ turn = c /\ Slow(c)
  BY DEF BuildNode, At, Running, library, Untouched, Slow
<1>2. KindOf(Cmd(c)) \in Kinds
  BY DEF BuildNode, IsPlan, KindOf, Kinds
<1>3. IsCall(calls[c])
  BY DEF CallShape
<1>4. \/ calls' = NextOp(c, "bool") /\ UNCHANGED turn
      \/ \E built : \E pc \in {"font", "find", "fonted"} :
           /\ calls' = [[calls EXCEPT ![c].built = built] EXCEPT ![c].pc = pc]
           /\ turn' \in {None, c}
  <2>1. CASE Op(c).type = "BOOLEAN_OPERATION"
    BY <2>1 DEF BuildNode
  <2>2. CASE Op(c).type # "BOOLEAN_OPERATION"
    <3> DEFINE op == Op(c)
               reuse == op.key \in DOMAIN calls[c].index /\ Live(doc, calls[c].index[op.key])
               node == IF reuse THEN calls[c].index[op.key] ELSE NewId(doc)
               built == [k \in DOMAIN calls[c].built \cup {op.key} |->
                           IF k = op.key THEN node ELSE calls[c].built[k]]
    <3>1. \E pc \in {"font", "find", "fonted"} :
            /\ calls' = [[calls EXCEPT ![c].built = built] EXCEPT ![c].pc = pc]
            /\ turn' \in {None, c}
      BY <1>1, <2>2 DEF BuildNode
    <3>. QED
      BY <3>1
  <2>. QED
    BY <2>1, <2>2
<1>5. ASSUME NEW built, NEW pc \in {"font", "find", "fonted"}, turn' \in {None, c},
             calls' = [[calls EXCEPT ![c].built = built] EXCEPT ![c].pc = pc]
      PROVE  Plain(c)
  <2> DEFINE x == [calls[c] EXCEPT !.built = built, !.pc = pc]
  <2>1. calls' = [calls EXCEPT ![c] = x]
    BY <1>5 DEF CallShape
  <2>2. Continues(c, x)
    BY <1>1, <1>2, <1>3 DEF Continues, GoesOn, Steps, IsCall, Idle, Cmd
  <2> HIDE DEF x
  <2>. QED
    BY <1>1, <1>5, <2>1, <2>2, ContinuingIsPlain
<1>6. ASSUME calls' = NextOp(c, "bool"), UNCHANGED turn PROVE Plain(c)
  <2>1. PICK x : NextOp(c, "bool") = [calls EXCEPT ![c] = x] /\ Continues(c, x)
    BY <1>1, NextOpContinues
  <2>. QED
    BY <1>1, <1>6, <2>1, ContinuingIsPlain
<1>. QED
  BY <1>4, <1>5, <1>6

LEMMA IntrinsicDonePlain ==
  ASSUME CallShape, NEW c \in Calls, IntrinsicDone(c)
  PROVE  Plain(c)
<1>1. /\ Untouched /\ UNCHANGED doc /\ Running(c) /\ calls[c].pc \notin {"list", "relist"}
      /\ turn = c /\ turn' = c
  BY DEF IntrinsicDone, At, Running, library, Untouched
<1>2. IsCall(calls[c])
  BY DEF CallShape
<1>3. \E step, pc : /\ pc \in {"bool", "build"}
                    /\ OpAt(c, calls[c].step) => OpAt(c, step)
                    /\ calls' = [calls EXCEPT ![c].step = step, ![c].pc = pc]
  <2>1. CASE calls[c].step < Len(Ops(c))
    <3>1. NextOp(c, "bool") = [calls EXCEPT ![c].step = @ + 1]
      BY <2>1 DEF NextOp
    <3>2. NextOp(c, "bool")[c].pc = calls[c].pc
      BY <1>2, <3>1 DEF CallShape, IsCall, Idle
    <3>3. calls' = [calls EXCEPT ![c].step = calls[c].step + 1, ![c].pc = "build"]
      BY <1>1, <3>1, <3>2 DEF IntrinsicDone, At, CallShape
    <3>4. OpAt(c, calls[c].step) => OpAt(c, calls[c].step + 1)
      BY <2>1 DEF OpAt
    <3>. QED
      BY <3>3, <3>4
  <2>2. CASE ~(calls[c].step < Len(Ops(c)))
    <3>1. NextOp(c, "bool") = [calls EXCEPT ![c].step = 1, ![c].pc = "bool"]
      BY <2>2 DEF NextOp
    <3>2. NextOp(c, "bool")[c].pc = "bool"
      BY <1>2, <3>1 DEF CallShape, IsCall, Idle
    <3>3. calls' = [calls EXCEPT ![c].step = 1, ![c].pc = "bool"]
      BY <3>1, <3>2 DEF IntrinsicDone, CallShape
    <3>4. OpAt(c, calls[c].step) => OpAt(c, 1)
      BY DEF OpAt
    <3>. QED
      BY <3>3, <3>4
  <2>. QED
    BY <2>1, <2>2
<1>4. PICK step, pc : /\ pc \in {"bool", "build"}
                      /\ OpAt(c, calls[c].step) => OpAt(c, step)
                      /\ calls' = [calls EXCEPT ![c].step = step, ![c].pc = pc]
  BY <1>3
<1> DEFINE x == [calls[c] EXCEPT !.step = step, !.pc = pc]
<1>5. Continues(c, x)
  BY <1>1, <1>2, <1>4 DEF Continues, GoesOn, Steps, IsCall, Idle, Cmd, Running
<1>6. calls' = [calls EXCEPT ![c] = x]
  BY <1>4 DEF CallShape
<1> HIDE DEF x
<1>. QED
  BY <1>1, <1>5, <1>6, ContinuingIsPlain

LEMMA BuildBooleanPlain ==
  ASSUME CallShape, NEW c \in Calls, BuildBoolean(c)
  PROVE  Plain(c)
<1>1. /\ Untouched /\ Running(c) /\ calls[c].pc = "bool" /\ turn = c /\ Slow(c)
  BY DEF BuildBoolean, At, Running, library, Untouched, Slow
<1>2. PICK x : NextOp(c, "place") = [calls EXCEPT ![c] = x] /\ Continues(c, x)
  BY <1>1, NextOpContinues
<1>3. \/ Throws(c)
      \/ calls' = NextOp(c, "place") /\ UNCHANGED turn
      \/ /\ calls' = [NextOp(c, "place") EXCEPT ![c].built =
                        [k \in DOMAIN @ \cup {Op(c).key} |->
                           IF k = Op(c).key THEN NewId(doc) ELSE @[k]]]
         /\ UNCHANGED turn
  BY Zenon DEF BuildBoolean
<1>4. CASE Throws(c)
  BY <1>1, <1>4, AnsweringIsPlain DEF Throws
<1>5. CASE calls' = NextOp(c, "place") /\ UNCHANGED turn
  BY <1>1, <1>2, <1>5, ContinuingIsPlain
<1>6. CASE /\ calls' = [NextOp(c, "place") EXCEPT ![c].built =
                          [k \in DOMAIN @ \cup {Op(c).key} |->
                             IF k = Op(c).key THEN NewId(doc) ELSE @[k]]]
           /\ UNCHANGED turn
  <2> DEFINE built == [k \in DOMAIN x.built \cup {Op(c).key} |->
                         IF k = Op(c).key THEN NewId(doc) ELSE x.built[k]]
  <2>1. NextOp(c, "place")[c] = x
    BY <1>2 DEF CallShape
  <2>2. calls' = [[calls EXCEPT ![c] = x] EXCEPT ![c].built = built]
    BY <1>2, <1>6, <2>1
  <2> HIDE DEF built
  <2>3. calls' = [calls EXCEPT ![c] = [x EXCEPT !.built = built]]
    BY <2>2 DEF CallShape
  <2>4. Continues(c, [x EXCEPT !.built = built])
    BY <1>2, BuiltContinues
  <2>. QED
    BY <1>1, <1>6, <2>3, <2>4, ContinuingIsPlain
<1>. QED
  BY <1>3, <1>4, <1>5, <1>6

LEMMA DesignPlain ==
  ASSUME CallShape, NEW c \in Calls, DesignStep(c)
  PROVE  Plain(c)
<1>1. CASE PlanSetsStyle(c) \/ PlanStyleSet(c)
  <2>1. /\ Untouched /\ Running(c) /\ calls[c].pc \notin {"list", "relist"} /\ Slow(c)
    BY <1>1 DEF PlanSetsStyle, PlanStyleSet, At, Answered, Running, library, Untouched, Slow
  <2>2. Awaits(c, "set") \/ RunsOn(c, "fonted")
    BY <1>1 DEF PlanSetsStyle, PlanStyleSet
  <2>. QED
    BY <2>1, <2>2, RunningOnIsPlain
<1>2. CASE PlaceNode(c)
  <2>1. /\ Untouched /\ Running(c) /\ calls[c].pc = "place" /\ turn = c /\ Slow(c)
    BY <1>2 DEF PlaceNode, At, Running, library, Untouched, Slow
  <2>2. Throws(c) \/ (calls' = NextOp(c, "prune") /\ UNCHANGED turn)
    BY <1>2 DEF PlaceNode
  <2>3. PICK x : NextOp(c, "prune") = [calls EXCEPT ![c] = x] /\ Continues(c, x)
    BY <2>1, NextOpContinues
  <2>. QED
    BY <2>1, <2>2, <2>3, AnsweringIsPlain, ContinuingIsPlain DEF Throws
<1>3. CASE FinishPlan(c)
  <2>1. /\ Untouched /\ Running(c) /\ calls[c].pc = "prune" /\ Slow(c)
    BY <1>3 DEF FinishPlan, At, Running, library, Untouched, Slow
  <2>2. \E out : Answers(c, out)
    BY <1>3 DEF FinishPlan
  <2>. QED
    BY <2>1, <2>2, AnsweringIsPlain
<1>. QED
  BY <1>1, <1>2, <1>3, ApplyPlanPlain, BuildNodePlain, IntrinsicDonePlain, BuildBooleanPlain
  DEF DesignStep
-----------------------------------------------------------------------------
(***************************************************************************)
(* The calls: who is over, who overlaps, and what a lone call has changed. *)
(***************************************************************************)
CallInv(c) ==
  /\ calls[c].pc = "idle" => Cmd(c) = None /\ calls[c].list = {}
  /\ calls[c].pc # "idle" => Cmd(c) \in Commands
  /\ \A o \in calls[c].after : o \in Calls /\ calls[o].pc = "done"
  /\ Running(c) => calls[c].out = None
  /\ calls[c].before # None =>
       /\ Running(c)
       /\ \A o \in Calls : o # c => ~Running(o)
       /\ Slow(c) \/ file = calls[c].before

CallsInv ==
  /\ CallShape
  /\ turn \in Calls \cup {None}
  /\ \A c \in Calls : Running(c) \/ turn # c
  /\ \A c \in Calls : CallInv(c)

LEMMA InitCalls == Init => CallsInv
BY ActorAssumption DEF Init, CallsInit, CallsInv, CallShape, CallInv, IsCall, Idle, Cmd, Running

(* Two calls under way overlap.                                            *)
LEMMA RunningOverlap ==
  ASSUME CallsInv, NEW c \in Calls, NEW o \in Calls, c # o, Running(c), Running(o)
  PROVE  Overlap(c, o)
BY CommandAssumption DEF CallsInv, CallInv, Running, Overlap

(* A step leaves the others alone.                                         *)
LEMMA AdvancingLeavesOthers ==
  ASSUME CallShape, NEW c \in Calls, Advances(c)
  PROVE  /\ CallShape'
         /\ \A o \in Calls : o # c => calls'[o] = calls[o]
         /\ \A o \in Calls : calls'[o].cmd = calls[o].cmd /\ calls'[o].after = calls[o].after
BY DEF CallShape, Advances, Cmd

LEMMA AdvancingKeepsCalls ==
  ASSUME CallsInv, NEW c \in Calls, Advances(c), Careful(c)
  PROVE  CallsInv'
<1>1. /\ CallShape'
      /\ \A o \in Calls : o # c => calls'[o] = calls[o]
      /\ \A o \in Calls : calls'[o].cmd = calls[o].cmd /\ calls'[o].after = calls[o].after
  BY AdvancingLeavesOthers DEF CallsInv
<1>2. turn' \in Calls \cup {None} /\ \A o \in Calls : Running(o)' \/ turn' # o
  BY ActorAssumption DEF CallsInv, Advances, Running
<1>3. ASSUME NEW o \in Calls, o # c PROVE CallInv(o)'
  <2>1. CallInv(o) /\ calls'[o] = calls[o] /\ Running(c)
    BY <1>1, <1>3 DEF CallsInv, Advances
  <2>2. calls[o].before = None
    BY <1>3, <2>1 DEF CallInv
  <2>3. \A q \in calls[o].after : q \in Calls /\ calls'[q].pc = "done"
    <3> SUFFICES ASSUME NEW q \in calls[o].after
                 PROVE  q \in Calls /\ calls'[q].pc = "done"
      OBVIOUS
    <3>1. q \in Calls /\ q # c /\ calls[q].pc = "done"
      BY <2>1 DEF CallInv, Running
    <3>. QED
      BY <1>1, <3>1
  <2>. QED
    BY <2>1, <2>2, <2>3 DEF CallInv, Cmd, Running
<1>4. CallInv(c)'
  <2>1. CallInv(c) /\ Running(c)
    BY DEF CallsInv, Advances
  <2>2. /\ Cmd(c)' = Cmd(c) /\ Cmd(c) \in Commands /\ calls'[c].pc # "idle"
        /\ calls'[c].after = calls[c].after
    BY <2>1 DEF CallInv, Running, Advances, Cmd
  <2>3. \A q \in calls[c].after : q \in Calls /\ calls'[q].pc = "done"
    <3> SUFFICES ASSUME NEW q \in calls[c].after
                 PROVE  q \in Calls /\ calls'[q].pc = "done"
      OBVIOUS
    <3>1. q \in Calls /\ q # c /\ calls[q].pc = "done"
      BY <2>1 DEF CallInv, Running
    <3>. QED
      BY <1>1, <3>1
  <2>4. CASE calls'[c].pc = "done"
    BY <2>2, <2>3, <2>4 DEF Advances, CallInv, Running
  <2>5. CASE calls'[c].pc # "done"
    <3>1. calls'[c].before = calls[c].before /\ calls'[c].out = calls[c].out
      BY <2>5 DEF Advances
    <3>2. Slow(c)' = Slow(c)
      BY <2>2 DEF Slow, IsPlan
    <3>3. Slow(c) \/ file' = file
      BY <2>5 DEF Careful
    <3>4. Running(c)' /\ \A o \in Calls : o # c => Running(o)' = Running(o)
      BY <1>1, <2>2, <2>5 DEF Running
    <3>. QED
      BY <2>1, <2>2, <2>3, <3>1, <3>2, <3>3, <3>4 DEF CallInv
  <2>. QED
    BY <2>4, <2>5
<1>. QED
  BY <1>1, <1>2, <1>3, <1>4 DEF CallsInv

(* What Start makes of an idle call.                                       *)
Started(c, k, x) ==
  /\ IsCall(x) /\ x.cmd = k /\ x.list = {}
  /\ x.after = {o \in Calls \ {c} : calls[o].pc = "done"}
  /\ \/ /\ x.pc = "done" /\ x.before = None
        /\ calls' = [calls EXCEPT ![c] = x] /\ turn' = turn
     \/ /\ x.pc \in {"node", "run", "find"} /\ x.out = None
        /\ x.pc = firstPc(k) /\ x.got = <<>>
        /\ x.pc = "find" => KindOf(k) \in Kinds
        /\ k.op = "design.apply" => x.pc = "run"
        /\ x.before # None => x.before = file /\ \A o \in Calls \ {c} : ~Running(o)
        /\ calls' = [Disturbed EXCEPT ![c] = x] /\ turn' \in {None, c}

LEMMA FirstFind ==
  ASSUME NEW k \in Commands
  PROVE  /\ firstPc(k) \in {"node", "run", "find"}
         /\ firstPc(k) = "find" => KindOf(k) \in Kinds
         /\ k.op = "design.apply" => firstPc(k) = "run"
<1>1. firstPc(k) \in {"node", "run", "find"}
  BY DEF firstPc
<1>2. firstPc(k) = "find" => k.op \in StyleFirst
  BY DEF firstPc
<1>3. k.op \in StyleFirst => KindOf(k) \in Kinds
  BY CommandAssumption DEF StyleFirst, KindOf, Kinds
<1>4. k.op = "design.apply" => firstPc(k) = "run"
  BY DEF firstPc, LookupFirst, StyleFirst
<1>. QED
  BY <1>1, <1>2, <1>3, <1>4

LEMMA StartEffect ==
  ASSUME CallShape, NEW c \in Calls, Start(c)
  PROVE  /\ turn = None /\ calls[c].pc = "idle"
         /\ \E k \in Commands : \E x : Started(c, k, x)
<1>1. turn = None /\ calls[c].pc = "idle"
  BY DEF Start
<1> DEFINE over == {o \in Calls \ {c} : calls[o].pc = "done"}
           here(k) == \E p \in LooksAt(k) :
                        /\ LooksAt(k) = {p}
                        /\ \A n \in LiveNodes(doc) :
                             doc[n].by \in Calls \ {c} => n = p \/ p \in Ancestors(doc, n)
           before == IF \E o \in Calls \ {c} : Running(o) THEN None ELSE file
           call(k) == [Idle EXCEPT !.cmd = k, !.after = over, !.here = here(k), !.before = before]
           ended(k, out) == [call(k) EXCEPT !.pc = "done", !.out = out, !.before = None]
           going(k) == [call(k) EXCEPT !.pc = firstPc(k)]
<1>2. PICK k \in Commands :
        \/ \E out : calls' = [calls EXCEPT ![c] = ended(k, out)] /\ turn' = turn
        \/ calls' = [Disturbed EXCEPT ![c] = going(k)] /\ turn' \in {None, c}
  <2>1. PICK k \in Commands :
          \/ calls' = [calls EXCEPT ![c] = ended(k, refusal(k))] /\ turn' = turn
          \/ calls' = [calls EXCEPT ![c] = ended(k, "ok")] /\ turn' = turn
          \/ /\ calls' = [Disturbed EXCEPT ![c] = going(k)]
             /\ turn' = IF firstPc(k) = "node" THEN None ELSE c
    BY Zenon DEF Start
  <2> HIDE DEF ended, going
  <2>. QED
    BY <2>1
<1> HIDE DEF over, here, before
<1>3. ASSUME NEW out, calls' = [calls EXCEPT ![c] = ended(k, out)], turn' = turn
      PROVE  Started(c, k, ended(k, out))
  <2> DEFINE x == ended(k, out)
  <2>1. IsCall(x) /\ x.cmd = k /\ x.list = {} /\ x.after = over /\ x.pc = "done" /\ x.before = None
    BY DEF IsCall, Idle
  <2> HIDE DEF x, ended
  <2>. QED
    BY <1>3, <2>1 DEF Started, x, over
<1>4. ASSUME calls' = [Disturbed EXCEPT ![c] = going(k)], turn' \in {None, c}
      PROVE  Started(c, k, going(k))
  <2> DEFINE x == going(k)
  <2>1. /\ IsCall(x) /\ x.cmd = k /\ x.list = {} /\ x.after = over /\ x.pc = firstPc(k)
        /\ x.out = None /\ x.before = before /\ x.got = <<>>
    BY DEF IsCall, Idle
  <2> HIDE DEF x, going
  <2>2. x.before # None => x.before = file /\ \A o \in Calls \ {c} : ~Running(o)
    BY <2>1 DEF before
  <2>. QED
    BY <1>4, <2>1, <2>2, FirstFind DEF Started, x, over
<1>. QED
  BY <1>1, <1>2, <1>3, <1>4

(* The fields Disturbed leaves alone.                                      *)
SameCall(x, y) ==
  /\ x.cmd = y.cmd /\ x.pc = y.pc /\ x.style = y.style /\ x.list = y.list
  /\ x.out = y.out /\ x.after = y.after /\ x.step = y.step
  /\ x.got = y.got /\ x.index = y.index /\ x.built = y.built

LEMMA DisturbedCalls ==
  ASSUME CallShape
  PROVE  /\ Disturbed = [o \in Calls |-> Disturbed[o]]
         /\ \A o \in Calls : /\ IsCall(Disturbed[o]) /\ SameCall(Disturbed[o], calls[o])
                             /\ Disturbed[o].before = None
<1>1. Disturbed = [o \in Calls |-> [calls[o] EXCEPT !.before = None]]
  BY DEF Disturbed
<1>2. ASSUME NEW o \in Calls
      PROVE  LET x == [calls[o] EXCEPT !.before = None]
             IN  IsCall(x) /\ SameCall(x, calls[o]) /\ x.before = None
  BY DEF CallShape, IsCall, Idle, SameCall
<1>. QED
  BY <1>1, <1>2

LEMMA StartKeepsCalls ==
  ASSUME CallsInv, NEW c \in Calls, Start(c), UNCHANGED file
  PROVE  CallsInv'
<1>1. PICK k, x : k \in Commands /\ Started(c, k, x)
  BY StartEffect DEF CallsInv
<1>2. turn = None /\ calls[c].pc = "idle" /\ CallShape
  BY StartEffect DEF CallsInv
<1>3. /\ CallShape'
      /\ calls'[c] = x
      /\ \A o \in Calls : o # c =>
           /\ SameCall(calls'[o], calls[o])
           /\ calls'[o].before \in {calls[o].before, None}
           /\ x.pc # "done" => calls'[o].before = None
  BY <1>1, <1>2, DisturbedCalls DEF Started, CallShape, SameCall
<1>4. /\ turn' \in Calls \cup {None} /\ \A o \in Calls : Running(o)' \/ turn' # o
      /\ x.pc # "idle"
  BY <1>1, <1>2, <1>3, ActorAssumption DEF Started, Running
<1>5. ASSUME NEW o \in Calls, calls[o].pc = "done" PROVE calls'[o].pc = "done"
  BY <1>2, <1>3, <1>5 DEF SameCall
<1>6. ASSUME NEW o \in Calls, o # c PROVE CallInv(o)'
  <2>1. CallInv(o) /\ SameCall(calls'[o], calls[o])
    BY <1>3, <1>6 DEF CallsInv
  <2>2. ASSUME calls'[o].before # None
        PROVE  /\ Running(o)' /\ \A q \in Calls : q # o => ~Running(q)'
               /\ Slow(o)' \/ file' = calls'[o].before
    <3>1. x.pc = "done" /\ calls'[o].before = calls[o].before /\ calls[o].before # None
      BY <1>3, <1>6, <2>2
    <3>2. \A q \in Calls : q # c => Running(q)' = Running(q)
      BY <1>3 DEF Running, SameCall
    <3>3. ~Running(c)'
      BY <1>3, <3>1 DEF Running
    <3>4. Slow(o)' = Slow(o)
      BY <2>1 DEF Slow, IsPlan, Cmd, SameCall
    <3>. QED
      BY <1>6, <2>1, <3>1, <3>2, <3>3, <3>4 DEF CallInv
  <2>. QED
    BY <1>5, <2>1, <2>2 DEF CallInv, SameCall, Cmd, Running
<1>7. CallInv(c)'
  <2>1. \A o \in x.after : o \in Calls /\ calls'[o].pc = "done"
    BY <1>1, <1>5 DEF Started
  <2>2. ASSUME x.before # None
        PROVE  Running(c)' /\ (\A q \in Calls : q # c => ~Running(q)') /\ file' = x.before
    <3>1. x.pc \in {"node", "run", "find"} /\ x.before = file /\ \A o \in Calls \ {c} : ~Running(o)
      BY <1>1, <2>2 DEF Started
    <3>2. \A q \in Calls : q # c => Running(q)' = Running(q)
      BY <1>3 DEF Running, SameCall
    <3>. QED
      BY <1>3, <3>1, <3>2 DEF Running
  <2>3. Running(c)' => x.out = None
    BY <1>1, <1>3 DEF Started, Running
  <2>4. x.cmd = k /\ k \in Commands
    BY <1>1 DEF Started
  <2>5. calls'[c] = x /\ x.pc # "idle"
    BY <1>3, <1>4
  <2>6. calls'[c].pc # "idle" /\ Cmd(c)' \in Commands
    BY <2>4, <2>5 DEF Cmd
  <2>7. \A o \in calls'[c].after : o \in Calls /\ calls'[o].pc = "done"
    BY <2>1, <2>5
  <2>8. calls'[c].before # None =>
          /\ Running(c)' /\ (\A q \in Calls : q # c => ~Running(q)')
          /\ file' = calls'[c].before
    BY <2>2, <2>5
  <2>9. Running(c)' => calls'[c].out = None
    BY <2>3, <2>5
  <2>. QED
    BY <2>6, <2>7, <2>8, <2>9 DEF CallInv
<1>. QED
  BY <1>3, <1>4, <1>6, <1>7 DEF CallsInv

LEMMA DisturbingKeepsCalls ==
  ASSUME CallsInv, calls' = Disturbed, UNCHANGED turn
  PROVE  CallsInv'
<1>1. /\ CallShape'
      /\ \A o \in Calls : SameCall(calls'[o], calls[o]) /\ calls'[o].before = None
  BY DisturbedCalls DEF CallsInv, CallShape
<1>2. \A o \in Calls : Running(o)' = Running(o)
  BY <1>1 DEF Running, SameCall
<1>3. ASSUME NEW o \in Calls PROVE CallInv(o)'
  <2>1. CallInv(o)
    BY DEF CallsInv
  <2>. QED
    BY <1>1, <1>2, <2>1 DEF CallInv, SameCall, Cmd
<1>. QED
  BY <1>1, <1>2, <1>3 DEF CallsInv
-----------------------------------------------------------------------------
(***************************************************************************)
(* Styles: what the caches and the lists on their way hold.                *)
(***************************************************************************)
Searching(c) == calls[c].pc \in {"list", "relist"}

Others(c) == {o \in Calls : Overlap(c, o)} \cup {User}

KnownStyles(kind) == {s \in DOMAIN styles : styles[s].kind = kind}

(* Styles that a command has deleted are in it only if it overlapped.      *)
TrueList(list, kind) ==
  /\ list \subseteq KnownStyles(kind)
  /\ \A s \in list : styles[s].gone \in Calls => ~Alone(styles[s].gone)

(* A style that is there and not in the list was made by others meanwhile. *)
MissesOthersOnly(c, list) ==
  \A s \in LocalStyles(KindOf(Cmd(c))) \ list : styles[s].by \in Others(c)

NamesMissed(c) ==
  \A s \in LocalStyles(KindOf(Cmd(c))) : styles[s].name = NameFor(c) => styles[s].by \in Others(c)

SearchInv(c) ==
  /\ calls[c].pc \in {"find", "list", "relist", "styled"} => KindOf(Cmd(c)) \in Kinds
  /\ calls[c].list # {} => Searching(c)
  /\ TrueList(calls[c].list, KindOf(Cmd(c)))
  /\ Searching(c) => MissesOthersOnly(c, calls[c].list)
  /\ calls[c].pc = "styled" /\ calls[c].style # None => calls[c].style \in KnownStyles(KindOf(Cmd(c)))
  /\ turn = c /\ calls[c].pc = "styled" /\ calls[c].style = None => NamesMissed(c)

StylesShape ==
  /\ styles = [s \in DOMAIN styles |-> styles[s]]
  /\ IsFiniteSet(DOMAIN styles) /\ None \notin DOMAIN styles
  /\ \A s \in DOMAIN styles : DOMAIN styles[s] = {"kind", "name", "by", "gone"}

StylesInv ==
  /\ StylesShape
  /\ cache = [kind \in Kinds |-> cache[kind]]
  /\ \A kind \in Kinds : cache[kind] = None \/ TrueList(cache[kind], kind)
  /\ \A c \in Calls : SearchInv(c)

LEMMA InitStyles == Init => StylesInv
<1> SUFFICES ASSUME Init PROVE StylesInv
  OBVIOUS
<1>1. StylesShape
  BY StyleAssumption DEF Init, CallsInit, StylesShape
<1>2. cache = [kind \in Kinds |-> None]
  BY DEF Init, CallsInit, NoList
<1>3. ASSUME NEW c \in Calls PROVE SearchInv(c)
  <2>1. calls[c].pc = "idle" /\ calls[c].list = {}
    BY DEF Init, CallsInit, Idle
  <2>. QED
    BY <2>1 DEF SearchInv, Searching, TrueList
<1>. QED
  BY <1>1, <1>2, <1>3 DEF StylesInv

(* What w, a call or the user, may do to the styles.                       *)
StylesMove(w) ==
  /\ StylesShape'
  /\ DOMAIN styles \subseteq DOMAIN styles'
  /\ \A s \in DOMAIN styles :
       /\ styles'[s].kind = styles[s].kind /\ styles'[s].name = styles[s].name
       /\ styles'[s].by = styles[s].by
       /\ styles'[s].gone \in {styles[s].gone, w}
       /\ styles'[s].gone = None => styles[s].gone = None
  /\ \A s \in DOMAIN styles' : s \notin DOMAIN styles => styles'[s].by = w /\ styles'[s].gone = None

OverlapsStay == \A c, o \in Calls : Overlap(c, o) => Overlap(c, o)'

LEMMA TrueListStays ==
  ASSUME NEW list, NEW kind, TrueList(list, kind), NEW w, StylesMove(w), OverlapsStay,
         \/ w = User \/ ~Alone(w)'
         \/ \A s \in list : styles'[s].gone = styles[s].gone
  PROVE  TrueList(list, kind)'
<1>1. list \subseteq DOMAIN styles'
  BY DEF TrueList, KnownStyles, StylesMove
<1>2. ASSUME NEW s \in list, styles'[s].gone \in Calls PROVE ~Alone(styles[s].gone)'
  <2>1. s \in DOMAIN styles /\ styles'[s].gone \in {styles[s].gone, w}
    BY DEF TrueList, KnownStyles, StylesMove
  <2>2. CASE styles'[s].gone = w /\ (w = User \/ ~Alone(w)')
    BY <1>2, <2>2, ActorAssumption DEF Alone
  <2>3. CASE styles'[s].gone = styles[s].gone
    <3>1. PICK c \in Calls : c = styles[s].gone /\ ~Alone(c)
      BY <1>2, <2>3 DEF TrueList
    <3>2. ~Alone(c)'
      BY <3>1 DEF Alone, OverlapsStay
    <3>. QED
      BY <2>3, <3>1, <3>2 DEF Alone
  <2>. QED
    BY <1>2, <2>1, <2>2, <2>3
<1>3. \A s \in list : styles'[s].kind = kind
  BY DEF TrueList, KnownStyles, StylesMove
<1>. QED
  BY <1>1, <1>2, <1>3 DEF TrueList, KnownStyles

LEMMA LocalStylesGrow ==
  ASSUME NEW w, StylesMove(w), NEW kind, NEW s \in LocalStyles(kind)'
  PROVE  (s \in LocalStyles(kind) /\ styles'[s].by = styles[s].by) \/ styles'[s].by = w
BY DEF StylesMove, LocalStyles

LEMMA SameStyles ==
  ASSUME StylesShape, styles' = styles, NEW w
  PROVE  StylesMove(w)
BY DEF StylesMove, StylesShape

LEMMA OthersStay ==
  ASSUME NEW o \in Calls, OverlapsStay
  PROVE  Others(o) \subseteq Others(o)'
BY DEF Others, OverlapsStay

(* The search of a call that is not taking the step.                       *)
LEMMA SearchStays ==
  ASSUME NEW o \in Calls, SearchInv(o), SameCall(calls'[o], calls[o]), NEW w, StylesMove(w),
         OverlapsStay, Searching(o) => w \in Others(o)', turn' # o
  PROVE  SearchInv(o)'
<1>1. /\ calls'[o].pc = calls[o].pc /\ calls'[o].list = calls[o].list
      /\ calls'[o].style = calls[o].style /\ Cmd(o)' = Cmd(o)
  BY DEF SameCall, Cmd
<1>2. TrueList(calls[o].list, KindOf(Cmd(o)))'
  <2>1. TrueList(calls[o].list, KindOf(Cmd(o)))
    BY DEF SearchInv
  <2>2. CASE calls[o].list = {}
    BY <1>1, <2>2 DEF TrueList
  <2>3. CASE calls[o].list # {}
    <3>1. Searching(o) /\ w \in Others(o)'
      BY <2>3 DEF SearchInv
    <3>2. w = User \/ ~Alone(w)'
      BY <3>1 DEF Others, Alone, Overlap
    <3>3. PICK list, kind : list = calls[o].list /\ kind = KindOf(Cmd(o))
      OBVIOUS
    <3>4. TrueList(list, kind)'
      BY <2>1, <3>2, <3>3, TrueListStays
    <3>5. calls'[o].list = list /\ KindOf(Cmd(o))' = kind
      BY <1>1, <3>3 DEF KindOf
    <3>. QED
      BY <3>4, <3>5 DEF TrueList
  <2>. QED
    BY <2>2, <2>3
<1>3. ASSUME Searching(o), NEW s \in LocalStyles(KindOf(Cmd(o)))', s \notin calls[o].list
      PROVE  styles'[s].by \in Others(o)'
  <2>1. (s \in LocalStyles(KindOf(Cmd(o))) /\ styles'[s].by = styles[s].by) \/ styles'[s].by = w
    BY <1>1, <1>3, LocalStylesGrow DEF KindOf, LocalStyles
  <2>2. s \in LocalStyles(KindOf(Cmd(o))) => styles[s].by \in Others(o)
    BY <1>3 DEF SearchInv, MissesOthersOnly
  <2>. QED
    BY <1>3, <2>1, <2>2, OthersStay
<1>4. calls[o].style \in KnownStyles(KindOf(Cmd(o))) =>
        calls[o].style \in KnownStyles(KindOf(Cmd(o)))'
  BY <1>1 DEF KnownStyles, StylesMove, KindOf
<1>5. KindOf(Cmd(o))' = KindOf(Cmd(o))
  BY <1>1 DEF KindOf
<1>. QED
  BY <1>1, <1>2, <1>3, <1>4, <1>5 DEF SearchInv, Searching, MissesOthersOnly

-----------------------------------------------------------------------------
(* What a step of the search leaves: a true cache, and its own search in   *)
(* order.                                                                  *)
CacheHolds ==
  /\ cache = [kind \in Kinds |-> cache[kind]]
  /\ \A kind \in Kinds : cache[kind] = None \/ TrueList(cache[kind], kind)

StylesStep(c) ==
  Advances(c) /\ Careful(c) /\ StylesMove(c) /\ CacheHolds' /\ SearchInv(c)'

LEMMA AdvancingKeepsOverlaps ==
  ASSUME CallShape, NEW c \in Calls, Advances(c)
  PROVE  OverlapsStay
BY AdvancingLeavesOthers DEF OverlapsStay, Overlap, Cmd

LEMMA TrueListsStay ==
  ASSUME StylesShape, styles' = styles, OverlapsStay, NEW list, NEW kind, TrueList(list, kind)
  PROVE  TrueList(list, kind)'
<1>1. StylesMove(None) /\ \A s \in list : styles'[s].gone = styles[s].gone
  BY SameStyles
<1>. QED
  BY <1>1, TrueListStays

LEMMA CacheHoldsOn ==
  ASSUME StylesInv, styles' = styles, OverlapsStay, UNCHANGED cache
  PROVE  CacheHolds'
<1>1. ASSUME NEW kind \in Kinds, cache[kind] # None
      PROVE  TrueList(cache[kind], kind)'
  <2>1. PICK list : list = cache[kind]
    OBVIOUS
  <2>2. TrueList(list, kind)
    BY <1>1, <2>1 DEF StylesInv
  <2>3. TrueList(list, kind)'
    BY <2>2, TrueListsStay DEF StylesInv
  <2>. QED
    BY <2>1, <2>3 DEF TrueList
<1>. QED
  BY <1>1 DEF StylesInv, CacheHolds

(* A list becomes the cache of its kind, or the cache is forgotten.        *)
LEMMA CacheRenewed ==
  ASSUME StylesInv, styles' = styles, OverlapsStay, NEW kind \in Kinds, NEW list,
         list = None \/ TrueList(list, kind), cache' = [cache EXCEPT ![kind] = list]
  PROVE  CacheHolds'
<1>1. ASSUME NEW k \in Kinds, k # kind, cache[k] # None
      PROVE  TrueList(cache[k], k)'
  <2>1. PICK l : l = cache[k]
    OBVIOUS
  <2>2. TrueList(l, k)
    BY <1>1, <2>1 DEF StylesInv
  <2>3. TrueList(l, k)'
    BY <2>2, TrueListsStay DEF StylesInv
  <2>4. cache'[k] = l
    BY <1>1, <2>1 DEF StylesInv
  <2>. QED
    BY <2>3, <2>4 DEF TrueList
<1>2. list # None => TrueList(list, kind)'
  BY TrueListsStay DEF StylesInv
<1>3. cache'[kind] = list
  BY DEF StylesInv
<1>4. \A k \in Kinds : k # kind => cache'[k] = cache[k]
  BY DEF StylesInv
<1>5. ASSUME NEW k \in Kinds PROVE cache'[k] = None \/ TrueList(cache[k], k)'
  <2>1. CASE k = kind
    BY <1>2, <1>3, <2>1 DEF TrueList
  <2>2. CASE k # kind
    BY <1>1, <1>4, <2>2 DEF TrueList
  <2>. QED
    BY <2>1, <2>2
<1>6. cache' = [k \in Kinds |-> cache'[k]]
  BY DEF StylesInv
<1>. QED
  BY <1>5, <1>6 DEF CacheHolds

(* A call that searches no more.                                           *)
LEMMA SearchOver ==
  ASSUME NEW c \in Calls, calls'[c].pc \notin {"find", "list", "relist", "styled"},
         calls'[c].list = {}
  PROVE  SearchInv(c)'
BY DEF SearchInv, Searching, TrueList

LEMMA PlainIsStylesStep ==
  ASSUME CallsInv, StylesInv, NEW c \in Calls, Plain(c)
  PROVE  StylesStep(c)
<1>1. OverlapsStay /\ StylesMove(c) /\ CacheHolds'
  BY AdvancingKeepsOverlaps, SameStyles, CacheHoldsOn DEF Plain, CallsInv, StylesInv
<1>2. calls[c].list = {}
  BY DEF StylesInv, SearchInv, Plain, Searching
<1>3. Cmd(c)' = Cmd(c) /\ KindOf(Cmd(c))' = KindOf(Cmd(c))
  BY DEF Plain, Advances, Cmd, KindOf
<1>4. SearchInv(c)'
  BY <1>2, <1>3 DEF SearchInv, Plain, Searching, TrueList
<1>. QED
  BY <1>1, <1>4 DEF StylesStep, Plain

LEMMA AsksListStep ==
  ASSUME CallsInv, StylesInv, NEW c \in Calls, Running(c), KindOf(Cmd(c)) \in Kinds,
         NEW pc \in {"list", "relist"}, AsksList(c, pc), styles' = styles, UNCHANGED doc,
         OverlapsStay => CacheHolds'
  PROVE  StylesStep(c)
<1> DEFINE list == LocalStyles(KindOf(Cmd(c)))
           x == [calls[c] EXCEPT !.pc = pc, !.list = list]
<1>1. IsCall(calls[c]) /\ CallShape
  BY DEF CallShape, CallsInv
<1>2. GoesOn(c, x) /\ x.pc = pc /\ x.list = list
  <2> HIDE DEF list
  <2>. QED
    BY <1>1 DEF IsCall, GoesOn, Steps, Cmd, Idle, Running
<1>3. calls' = [calls EXCEPT ![c] = x] /\ turn' = None
  BY <1>1 DEF AsksList, CallShape
<1> HIDE DEF x
<1>4. Advances(c) /\ calls'[c] = x
  BY <1>1, <1>2, <1>3, GoingOn
<1>5. OverlapsStay /\ StylesMove(c) /\ Careful(c)
  BY <1>1, <1>4, AdvancingKeepsOverlaps, SameStyles DEF StylesInv, Careful, file
<1>6. KindOf(Cmd(c))' = KindOf(Cmd(c)) /\ list' = list
  BY <1>4 DEF Advances, Cmd, KindOf, LocalStyles
<1>7. TrueList(calls[c].list, KindOf(Cmd(c)))'
  <2>1. calls'[c].list = list
    BY <1>2, <1>4
  <2>2. ActorAssumption
    BY ActorAssumption
  <2>. QED
    BY <1>6, <2>1, ActorAssumption DEF TrueList, KnownStyles, LocalStyles
<1>8. MissesOthersOnly(c, calls[c].list)'
  BY <1>2, <1>4, <1>6 DEF MissesOthersOnly
<1>9. SearchInv(c)'
  BY <1>2, <1>4, <1>6, <1>7, <1>8 DEF SearchInv, Searching
<1>. QED
  BY <1>4, <1>5, <1>9 DEF StylesStep

LEMMA FindsStep ==
  ASSUME CallsInv, StylesInv, NEW c \in Calls, Running(c), KindOf(Cmd(c)) \in Kinds,
         NEW s, Finds(c, s), styles' = styles, UNCHANGED doc,
         OverlapsStay => CacheHolds',
         s # None => s \in KnownStyles(KindOf(Cmd(c))), s = None => NamesMissed(c)
  PROVE  StylesStep(c)
<1> DEFINE x == [calls[c] EXCEPT !.pc = "styled", !.style = s, !.list = {}]
<1>1. IsCall(calls[c]) /\ CallShape
  BY DEF CallShape, CallsInv
<1>2. /\ GoesOn(c, x) /\ x.pc = "styled" /\ x.list = {} /\ x.style = s
      /\ x.step = calls[c].step
  BY <1>1 DEF IsCall, GoesOn, Steps, Cmd, Idle, Running
<1>3. calls' = [calls EXCEPT ![c] = x] /\ turn' = c
  BY <1>1 DEF Finds, CallShape
<1> HIDE DEF x
<1>4. Advances(c) /\ calls'[c] = x
  BY <1>1, <1>2, <1>3, GoingOn
<1>5. OverlapsStay /\ StylesMove(c) /\ Careful(c)
  BY <1>1, <1>4, AdvancingKeepsOverlaps, SameStyles DEF StylesInv, Careful, file
<1>6. /\ KindOf(Cmd(c))' = KindOf(Cmd(c)) /\ NameFor(c)' = NameFor(c)
      /\ Others(c) \subseteq Others(c)'
  BY <1>2, <1>4, <1>5, OthersStay DEF Advances, Cmd, KindOf, NameFor
<1>7. s = None => NamesMissed(c)'
  BY <1>6 DEF NamesMissed, LocalStyles
<1>8. s # None => s \in KnownStyles(KindOf(Cmd(c)))'
  BY <1>6 DEF KnownStyles
<1>9. SearchInv(c)'
  BY <1>2, <1>4, <1>6, <1>7, <1>8 DEF SearchInv, Searching, TrueList
<1>. QED
  BY <1>4, <1>5, <1>9 DEF StylesStep

LEMMA FindStyleStep ==
  ASSUME CallsInv, StylesInv, NEW c \in Calls, FindStyle(c)
  PROVE  StylesStep(c)
<1> DEFINE kind == KindOf(Cmd(c))
<1>1. /\ styles' = styles /\ UNCHANGED <<doc, cache>> /\ Running(c) /\ calls[c].pc = "find"
  BY DEF FindStyle, At, Running, library
<1>2. kind \in Kinds
  BY <1>1 DEF StylesInv, SearchInv
<1>3. OverlapsStay => CacheHolds'
  BY <1>1, CacheHoldsOn
<1>4. CASE cache[kind] = None
  <2>1. AsksList(c, "list")
    BY <1>4 DEF FindStyle
  <2>. QED
    BY <1>1, <1>2, <1>3, <2>1, AsksListStep
<1>5. CASE cache[kind] # None
  <2>1. AsksList(c, "relist") \/ \E s \in Named(c, cache[kind]) : Finds(c, s)
    BY <1>5 DEF FindStyle
  <2>2. ASSUME NEW s \in Named(c, cache[kind]), Finds(c, s) PROVE StylesStep(c)
    <3>1. s \in KnownStyles(kind) /\ s # None
      BY <1>2, <1>5, <2>2 DEF Named, StylesInv, TrueList, KnownStyles, StylesShape
    <3>. QED
      BY <1>1, <1>2, <1>3, <2>2, <3>1, FindsStep
  <2>. QED
    BY <1>1, <1>2, <1>3, <2>1, <2>2, AsksListStep
<1>. QED
  BY <1>4, <1>5

LEMMA ListAnsweredStep ==
  ASSUME CallsInv, StylesInv, NEW c \in Calls, ListAnswered(c)
  PROVE  StylesStep(c)
<1> DEFINE kind == KindOf(Cmd(c))
<1>1. /\ styles' = styles /\ UNCHANGED doc /\ Running(c) /\ Searching(c)
  BY DEF ListAnswered, Answered, Running, Searching
<1>2. kind \in Kinds
  BY <1>1 DEF StylesInv, SearchInv, Searching
<1>3. PICK list \in {calls[c].list, LocalStyles(kind)} :
        /\ cache' = [cache EXCEPT ![kind] = list]
        /\ \/ Answers(c, "ok")
           \/ \E s \in Named(c, list) : Finds(c, s)
           \/ AsksList(c, "relist")
           \/ Named(c, list) = {} /\ Finds(c, None)
  BY DEF ListAnswered
<1>4. TrueList(list, kind) /\ MissesOthersOnly(c, list)
  <2>1. TrueList(LocalStyles(kind), kind) /\ MissesOthersOnly(c, LocalStyles(kind))
    BY ActorAssumption DEF TrueList, KnownStyles, LocalStyles, MissesOthersOnly
  <2>2. TrueList(calls[c].list, kind) /\ MissesOthersOnly(c, calls[c].list)
    BY <1>1 DEF StylesInv, SearchInv
  <2>. QED
    BY <1>3, <2>1, <2>2
<1>5. OverlapsStay => CacheHolds'
  <2>1. PICK l, k : l = list /\ k = kind
    OBVIOUS
  <2>. QED
    BY <1>1, <1>2, <1>3, <1>4, <2>1, CacheRenewed
<1>6. CASE Answers(c, "ok")
  <2>1. Advances(c) /\ calls'[c].pc = "done" /\ calls'[c].list = {} /\ CallShape
    BY <1>1, <1>6, AnswersEnds DEF CallsInv
  <2>2. SearchInv(c)'
    BY <2>1, SearchOver
  <2>3. OverlapsStay /\ StylesMove(c) /\ Careful(c)
    BY <1>1, <2>1, AdvancingKeepsOverlaps, SameStyles DEF StylesInv, Careful, file
  <2>. QED
    BY <1>5, <2>1, <2>2, <2>3 DEF StylesStep
<1>7. ASSUME NEW s \in Named(c, list), Finds(c, s) PROVE StylesStep(c)
  <2>1. s \in KnownStyles(kind) /\ s # None
    BY <1>4, <1>7 DEF Named, StylesInv, TrueList, KnownStyles, StylesShape
  <2>. QED
    BY <1>1, <1>2, <1>5, <1>7, <2>1, FindsStep
<1>8. CASE AsksList(c, "relist")
  BY <1>1, <1>2, <1>5, <1>8, AsksListStep
<1>9. CASE Named(c, list) = {} /\ Finds(c, None)
  <2>1. NamesMissed(c)
    <3> SUFFICES ASSUME NEW s \in LocalStyles(kind), styles[s].name = NameFor(c)
                 PROVE  styles[s].by \in Others(c)
      BY DEF NamesMissed
    <3>1. s \notin list
      BY <1>9 DEF Named
    <3>. QED
      BY <1>4, <3>1 DEF MissesOthersOnly
  <2>. QED
    BY <1>1, <1>2, <1>5, <1>9, <2>1, FindsStep
<1>. QED
  BY <1>3, <1>6, <1>7, <1>8, <1>9

LEMMA ListStylesStep ==
  ASSUME CallsInv, StylesInv, NEW c \in Calls, ListStyles(c)
  PROVE  StylesStep(c)
<1>1. /\ styles' = styles /\ UNCHANGED <<doc, cache>> /\ Running(c) /\ Cmd(c).op = "styles.list"
      /\ AsksList(c, "relist")
  BY DEF ListStyles, At, Running, library
<1>2. Cmd(c) \in Commands
  BY <1>1 DEF CallsInv, CallInv, Running
<1>3. KindOf(Cmd(c)) \in Kinds
  BY <1>1, <1>2, CommandAssumption DEF KindOf
<1>. QED
  BY <1>1, <1>3, CacheHoldsOn, AsksListStep

LEMMA AddedStyle ==
  ASSUME StylesShape, NEW kind, NEW name, NEW w, styles' = AddStyle(kind, name, w)
  PROVE  /\ StylesMove(w)
         /\ \A s \in DOMAIN styles : styles'[s].gone = styles[s].gone
<1> DEFINE new == Cardinality(DOMAIN styles) + 1
<1>1. new \in Nat
  BY FS_CardinalityType DEF StylesShape
<1>2. new # None
  BY <1>1, NoneAssumption
<1>3. /\ DOMAIN styles' = DOMAIN styles \cup {new}
      /\ \A s \in DOMAIN styles : styles'[s] = styles[s]
      /\ new \notin DOMAIN styles =>
           styles'[new] = [kind |-> kind, name |-> name, by |-> w, gone |-> None]
      /\ styles' = [s \in DOMAIN styles' |-> styles'[s]]
  BY DEF AddStyle
<1> HIDE DEF new
<1>4. IsFiniteSet(DOMAIN styles')
  BY <1>3, FS_AddElement DEF StylesShape
<1>5. StylesShape'
  <2>1. \A s \in DOMAIN styles' : DOMAIN styles'[s] = {"kind", "name", "by", "gone"}
    BY <1>3 DEF StylesShape
  <2>. QED
    BY <1>2, <1>3, <1>4, <2>1 DEF StylesShape
<1>. QED
  BY <1>3, <1>5 DEF StylesMove

(* The caches, when the styles that are there stay as they were.           *)
LEMMA CachesOutgrown ==
  ASSUME StylesInv, OverlapsStay, NEW w, StylesMove(w),
         \A s \in DOMAIN styles : styles'[s].gone = styles[s].gone,
         NEW kind \in Kinds, cache' = [cache EXCEPT ![kind] = None] \/ UNCHANGED cache
  PROVE  CacheHolds'
<1>1. ASSUME NEW k \in Kinds, cache[k] # None
      PROVE  TrueList(cache[k], k)'  \/ cache'[k] = None
  <2>1. PICK l : l = cache[k]
    OBVIOUS
  <2>2. TrueList(l, k)
    BY <1>1, <2>1 DEF StylesInv
  <2>3. TrueList(l, k)'
    <3>1. \A s \in l : styles'[s].gone = styles[s].gone
      BY <2>2 DEF TrueList, KnownStyles
    <3>. QED
      BY <2>2, <3>1, TrueListStays
  <2>4. cache'[k] \in {l, None}
    BY <1>1, <2>1 DEF StylesInv
  <2>. QED
    BY <2>3, <2>4 DEF TrueList
<1>2. \A k \in Kinds : cache[k] = None => cache'[k] = None
  BY DEF StylesInv
<1>3. cache' = [k \in Kinds |-> cache'[k]]
  BY DEF StylesInv
<1>. QED
  BY <1>1, <1>2, <1>3 DEF CacheHolds

LEMMA CreateStyleStep ==
  ASSUME CallsInv, StylesInv, NEW c \in Calls, CreateStyle(c)
  PROVE  StylesStep(c)
<1> DEFINE kind == KindOf(Cmd(c))
           found == calls[c].style
<1>1. /\ UNCHANGED doc /\ Running(c) /\ calls[c].pc = "styled" /\ turn = c /\ CallShape
      /\ Cmd(c).op \in {"paint_style.create", "styles.create"}
  BY DEF CreateStyle, At, Running, CallsInv
<1>2. kind \in Kinds /\ calls[c].list = {}
  BY <1>1 DEF StylesInv, SearchInv, Searching
<1>3. \/ Answers(c, "FIGMA_API_ERROR") /\ UNCHANGED <<styles, cache>>
      \/ /\ styles' = styles \/ styles' = AddStyle(kind, Cmd(c).key, c)
         /\ \/ cache' = [cache EXCEPT ![kind] = None] /\ Answers(c, "ok")
            \/ /\ kind = "text" /\ UNCHANGED cache
               /\ turn' \in {None, c}
               /\ \E style : \E pc \in {"font", "fonted"} :
                    calls' = [calls EXCEPT ![c].style = style, ![c].pc = pc]
  BY DEF CreateStyle, Forget
<1>4. ASSUME Answers(c, "FIGMA_API_ERROR"), UNCHANGED <<styles, cache>>
      PROVE  StylesStep(c)
  BY <1>1, <1>4, AnsweringIsPlain, PlainIsStylesStep DEF Untouched
<1>5. ASSUME styles' = styles \/ styles' = AddStyle(kind, Cmd(c).key, c)
      PROVE  StylesMove(c) /\ \A s \in DOMAIN styles : styles'[s].gone = styles[s].gone
  <2>1. PICK k, name : k = kind /\ name = Cmd(c).key
    OBVIOUS
  <2>. QED
    BY <1>5, <2>1, SameStyles, AddedStyle DEF StylesInv
<1>6. ASSUME styles' = styles \/ styles' = AddStyle(kind, Cmd(c).key, c),
             cache' = [cache EXCEPT ![kind] = None], Answers(c, "ok")
      PROVE  StylesStep(c)
  <2>1. Advances(c) /\ calls'[c].pc = "done" /\ calls'[c].out = "ok" /\ calls'[c].list = {}
    BY <1>1, <1>6, AnswersEnds
  <2>2. SearchInv(c)' /\ Careful(c) /\ OverlapsStay
    BY <1>1, <2>1, SearchOver, AdvancingKeepsOverlaps DEF Careful
  <2>3. CacheHolds'
    <3>1. PICK k : k = kind
      OBVIOUS
    <3>. QED
      BY <1>2, <1>5, <1>6, <2>2, <3>1, CachesOutgrown
  <2>. QED
    BY <1>5, <1>6, <2>1, <2>2, <2>3 DEF StylesStep
<1>7. ASSUME styles' = styles \/ styles' = AddStyle(kind, Cmd(c).key, c),
             kind = "text", UNCHANGED cache, turn' \in {None, c},
             NEW style, NEW pc \in {"font", "fonted"},
             calls' = [calls EXCEPT ![c].style = style, ![c].pc = pc]
      PROVE  StylesStep(c)
  <2> DEFINE x == [calls[c] EXCEPT !.style = style, !.pc = pc]
  <2>1. IsCall(calls[c])
    BY <1>1 DEF CallShape
  <2>2. GoesOn(c, x) /\ x.pc = pc /\ x.list = {}
    BY <1>1, <1>2, <2>1 DEF IsCall, GoesOn, Steps, Cmd, Idle
  <2>3. calls' = [calls EXCEPT ![c] = x]
    BY <1>1, <1>7 DEF CallShape
  <2> HIDE DEF x
  <2>4. Advances(c) /\ calls'[c] = x
    BY <1>1, <1>7, <2>2, <2>3, GoingOn
  <2>5. SearchInv(c)' /\ OverlapsStay
    BY <1>1, <2>2, <2>4, SearchOver, AdvancingKeepsOverlaps
  <2>6. Careful(c)
    BY <1>1, <1>7 DEF Careful, Slow, KindOf
  <2>7. CacheHolds'
    BY <1>5, <1>7, <2>5, CachesOutgrown DEF Kinds
  <2>. QED
    BY <1>5, <1>7, <2>4, <2>5, <2>6, <2>7 DEF StylesStep
<1>. QED
  BY <1>3, <1>4, <1>6, <1>7

LEMMA FinishTextStyleStep ==
  ASSUME CallsInv, StylesInv, NEW c \in Calls, FinishTextStyle(c)
  PROVE  StylesStep(c)
<1>1. /\ UNCHANGED <<doc, styles>> /\ Running(c) /\ CallShape
      /\ calls[c].pc \in {"fonted", "loaded"} /\ calls[c].list = {}
  BY DEF FinishTextStyle, At, Running, CallsInv, StylesInv, SearchInv, Searching
<1>2. \/ Awaits(c, "load") /\ UNCHANGED cache
      \/ Answers(c, "FIGMA_API_ERROR") /\ UNCHANGED cache
      \/ Answers(c, "ok") /\ Forget("text")
  BY DEF FinishTextStyle
<1>3. CASE UNCHANGED cache /\ (Awaits(c, "load") \/ Answers(c, "FIGMA_API_ERROR"))
  BY <1>1, <1>3, RunningOnIsPlain, AnsweringIsPlain, PlainIsStylesStep DEF Untouched
<1>4. CASE Answers(c, "ok") /\ Forget("text")
  <2>1. Advances(c) /\ calls'[c].pc = "done" /\ calls'[c].list = {}
    BY <1>1, <1>4, AnswersEnds
  <2>2. SearchInv(c)' /\ Careful(c) /\ OverlapsStay /\ StylesMove(c)
    BY <1>1, <2>1, SearchOver, AdvancingKeepsOverlaps, SameStyles DEF Careful, file, StylesInv
  <2>3. CacheHolds'
    BY <1>1, <1>4, <2>2, CachesOutgrown DEF Forget, Kinds
  <2>. QED
    BY <2>1, <2>2, <2>3 DEF StylesStep
<1>. QED
  BY <1>2, <1>3, <1>4

LEMMA DeletedStyle ==
  ASSUME StylesShape, NEW s, StyleLive(s), NEW w, styles' = [styles EXCEPT ![s].gone = w]
  PROVE  /\ StylesMove(w)
         /\ \A t \in DOMAIN styles : t # s => styles'[t].gone = styles[t].gone
BY DEF StylesShape, StylesMove, StyleLive

LEMMA DeleteStyleStep ==
  ASSUME CallsInv, StylesInv, NEW c \in Calls, DeleteStyle(c)
  PROVE  StylesStep(c)
<1>1. /\ Running(c) /\ CallShape /\ calls[c].pc = "styled" /\ KindOf(Cmd(c)) \in Kinds
      /\ calls[c].list = {}
  BY DEF DeleteStyle, At, Running, CallsInv, StylesInv, SearchInv, Searching
<1>2. PICK s, kind : s = calls[c].style /\ kind = KindOf(Cmd(c))
  OBVIOUS
<1>3. CASE ~StyleLive(s)
  <2>1. Throws(c) /\ Untouched
    BY <1>2, <1>3 DEF DeleteStyle, Untouched
  <2>. QED
    BY <1>1, <2>1, ActingIsPlain, PlainIsStylesStep
<1>4. CASE StyleLive(s)
  <2>1. /\ styles' = [styles EXCEPT ![s].gone = c] /\ Answers(c, "ok")
        /\ cache' = [cache EXCEPT ![kind] = None]
    BY <1>2, <1>4 DEF DeleteStyle, Forget
  <2>2. /\ StylesMove(c)
        /\ \A t \in DOMAIN styles : t # s => styles'[t].gone = styles[t].gone
    BY <1>4, <2>1, DeletedStyle DEF StylesInv
  <2>3. styles[s].kind = kind
    BY <1>1, <1>2, <1>4 DEF StyleLive, StylesInv, StylesShape, SearchInv, KnownStyles
  <2>4. Advances(c) /\ calls'[c].pc = "done" /\ calls'[c].out = "ok" /\ calls'[c].list = {}
    BY <1>1, <2>1, AnswersEnds
  <2>5. SearchInv(c)' /\ Careful(c) /\ OverlapsStay
    BY <1>1, <2>4, SearchOver, AdvancingKeepsOverlaps DEF Careful
  <2>6. ASSUME NEW k \in Kinds, cache'[k] # None PROVE TrueList(cache[k], k)' /\ cache'[k] = cache[k]
    <3>1. k # kind /\ cache'[k] = cache[k] /\ cache[k] # None
      BY <1>1, <1>2, <2>1, <2>6 DEF StylesInv
    <3>2. PICK l : l = cache[k]
      OBVIOUS
    <3>3. TrueList(l, k)
      BY <3>1, <3>2 DEF StylesInv
    <3>4. \A t \in l : styles'[t].gone = styles[t].gone
      BY <2>2, <2>3, <3>1, <3>3 DEF TrueList, KnownStyles
    <3>5. TrueList(l, k)'
      BY <2>2, <2>5, <3>3, <3>4, TrueListStays
    <3>. QED
      BY <3>1, <3>2, <3>5 DEF TrueList
  <2>7. cache' = [k \in Kinds |-> cache'[k]]
    BY <2>1 DEF StylesInv
  <2>. QED
    BY <2>2, <2>4, <2>5, <2>6, <2>7 DEF StylesStep, CacheHolds
<1>. QED
  BY <1>3, <1>4

LEMMA StylesApplied ==
  ASSUME CallsInv, StylesInv, NEW c \in Calls, ApplyStyle(c) \/ SetsStyle(c) \/ StyleSet(c)
  PROVE  StylesStep(c)
<1>1. Running(c) /\ CallShape /\ Untouched /\ calls[c].pc \notin {"list", "relist"}
  BY DEF ApplyStyle, SetsStyle, StyleSet, At, Answered, Running, CallsInv, Untouched, library
<1>2. Cmd(c) \in Commands
  BY <1>1 DEF CallsInv, CallInv, Running
<1>3. \/ UNCHANGED doc /\ RunsOn(c, "find") /\ Cmd(c).op = "styles.apply"
      \/ UNCHANGED doc /\ Awaits(c, "set")
      \/ UNCHANGED doc /\ Answers(c, "FIGMA_API_ERROR")
      \/ Answers(c, "ok") \/ Throws(c)
  BY DEF ApplyStyle, SetsStyle, StyleSet, Does
<1>4. Cmd(c).op = "styles.apply" => KindOf(Cmd(c)) \in Kinds
  BY <1>2, CommandAssumption DEF KindOf
<1>. QED
  BY <1>1, <1>3, <1>4, RunningOnIsPlain, AnsweringIsPlain, ActingIsPlain, PlainIsStylesStep

LEMMA StyleStepHolds ==
  ASSUME CallsInv, StylesInv, NEW c \in Calls, StyleStep(c)
  PROVE  StylesStep(c)
BY FindStyleStep, ListAnsweredStep, ListStylesStep, CreateStyleStep, FinishTextStyleStep,
   DeleteStyleStep, StylesApplied DEF StyleStep

(* Every step of a running call.                                           *)
Works(c) ==
  \/ NodeAnswered(c) \/ FontAnswered(c) \/ LoadAnswered(c)
  \/ HandlerStep(c) \/ StyleStep(c) \/ DesignStep(c) \/ VariableStep(c)

LEMMA WorkHolds ==
  ASSUME CallsInv, StylesInv, NEW c \in Calls, Works(c)
  PROVE  StylesStep(c)
<1>1. CallShape
  BY DEF CallsInv
<1>2. CASE StyleStep(c)
  BY <1>2, StyleStepHolds
<1>3. CASE ~StyleStep(c)
  BY <1>1, <1>3, AwaitsPlain, HandlersPlain, DesignPlain, VariablesPlain, PlainIsStylesStep
  DEF Works
<1>. QED
  BY <1>2, <1>3

-----------------------------------------------------------------------------
(***************************************************************************)
(* The invariant.                                                          *)
(***************************************************************************)
PluginInv == CallsInv /\ StylesInv

LEMMA WorkKeepsStyles ==
  ASSUME PluginInv, NEW c \in Calls, StylesStep(c)
  PROVE  StylesInv'
<1>1. /\ CallsInv /\ CallShape /\ Advances(c) /\ OverlapsStay /\ StylesMove(c)
      /\ \A o \in Calls : o # c => calls'[o] = calls[o]
  BY AdvancingKeepsOverlaps, AdvancingLeavesOthers DEF PluginInv, CallsInv, StylesStep
<1>2. ASSUME NEW o \in Calls, o # c PROVE SearchInv(o)'
  <2>1. SameCall(calls'[o], calls[o]) /\ turn' # o
    BY <1>1, <1>2, ActorAssumption DEF SameCall, Advances
  <2>2. Searching(o) => c \in Others(o)'
    <3>1. Searching(o) => Overlap(o, c)
      BY <1>1, <1>2, RunningOverlap DEF Searching, Running, Advances
    <3>. QED
      BY <1>1, <3>1 DEF OverlapsStay, Others
  <2>. QED
    BY <1>1, <2>1, <2>2, SearchStays DEF PluginInv, StylesInv
<1>. QED
  BY <1>2 DEF StylesStep, CacheHolds, StylesInv, StylesMove

(* A step that ends no search: by the user, or a command that begins.      *)
LEMMA SearchesGoOn ==
  ASSUME StylesInv, OverlapsStay, NEW w, StylesMove(w), NEW S \in SUBSET Calls,
         \A o \in S : /\ SameCall(calls'[o], calls[o]) /\ turn' # o
                      /\ Searching(o) => w \in Others(o)'
  PROVE  \A o \in S : SearchInv(o)'
BY SearchStays DEF StylesInv

LEMMA StartKeepsStyles ==
  ASSUME PluginInv, NEW c \in Calls, Start(c)
  PROVE  StylesInv'
<1>1. PICK k, x : k \in Commands /\ Started(c, k, x)
  BY StartEffect DEF PluginInv, CallsInv
<1>2. /\ turn = None /\ calls[c].pc = "idle" /\ CallShape /\ StylesInv
      /\ UNCHANGED <<styles, cache>>
  BY StartEffect DEF PluginInv, CallsInv, Start, library
<1>3. /\ calls'[c] = x
      /\ \A o \in Calls : o # c => SameCall(calls'[o], calls[o])
  BY <1>1, <1>2, DisturbedCalls DEF Started, CallShape, SameCall
<1>4. OverlapsStay
  <2>1. Cmd(c) = None
    BY <1>2 DEF PluginInv, CallsInv, CallInv
  <2>. QED
    BY <1>3, <2>1 DEF OverlapsStay, Overlap, SameCall, Cmd
<1>5. StylesMove(User) /\ CacheHolds'
  BY <1>2, <1>4, SameStyles, CacheHoldsOn DEF StylesInv
<1>6. \A o \in Calls \ {c} : SearchInv(o)'
  <2>1. \A o \in Calls \ {c} : turn' # o
    BY <1>1, <1>2, ActorAssumption DEF Started
  <2>2. \A o \in Calls \ {c} : User \in Others(o)'
    BY DEF Others
  <2>. QED
    BY <1>2, <1>3, <1>4, <1>5, <2>1, <2>2, SearchesGoOn
<1>7. SearchInv(c)'
  <2>1. /\ x.list = {} /\ x.pc \in {"done", "node", "run", "find"} /\ x.cmd = k
        /\ x.pc = "find" => KindOf(k) \in Kinds
    BY <1>1 DEF Started
  <2>. QED
    BY <1>3, <2>1 DEF SearchInv, Searching, TrueList, Cmd
<1>. QED
  BY <1>5, <1>6, <1>7 DEF StylesInv, CacheHolds, StylesMove

LEMMA UserKeepsStyles ==
  ASSUME PluginInv, UserDeletesNode \/ UserShowsPage \/ UserDeletesStyle \/ UserCreatesStyle
  PROVE  StylesInv'
<1>1. /\ calls' = Disturbed /\ turn = None /\ turn' = None /\ UNCHANGED cache
      /\ CallShape /\ StylesInv
  BY DEF UserDeletesNode, UserShowsPage, UserDeletesStyle, UserCreatesStyle, UserActs, PluginInv,
     CallsInv, library
<1>2. \A o \in Calls : SameCall(calls'[o], calls[o]) /\ turn' # o
  BY <1>1, DisturbedCalls, ActorAssumption
<1>3. OverlapsStay
  BY <1>2 DEF OverlapsStay, Overlap, SameCall, Cmd
<1>4. StylesMove(User)
  <2>1. CASE UserDeletesNode \/ UserShowsPage
    BY <1>1, <2>1, SameStyles DEF UserDeletesNode, UserShowsPage, library, StylesInv
  <2>2. CASE UserDeletesStyle
    <3>1. PICK s \in DOMAIN styles : StyleLive(s) /\ styles' = [styles EXCEPT ![s].gone = User]
      BY <2>2 DEF UserDeletesStyle
    <3>. QED
      BY <1>1, <3>1, DeletedStyle DEF StylesInv
  <2>3. CASE UserCreatesStyle
    <3>1. PICK kind, name : styles' = AddStyle(kind, name, User)
      BY <2>3 DEF UserCreatesStyle
    <3>. QED
      BY <1>1, <3>1, AddedStyle DEF StylesInv
  <2>. QED
    BY <2>1, <2>2, <2>3
<1>5. \A o \in Calls : SearchInv(o)'
  <2>1. \A o \in Calls : User \in Others(o)'
    BY DEF Others
  <2>2. Calls \in SUBSET Calls
    OBVIOUS
  <2>. QED
    BY <1>1, <1>2, <1>3, <1>4, <2>1, <2>2, SearchesGoOn
<1>6. ASSUME NEW kind \in Kinds, cache[kind] # None PROVE TrueList(cache[kind], kind)'
  <2>1. PICK l : l = cache[kind]
    OBVIOUS
  <2>2. TrueList(l, kind)
    BY <1>1, <1>6, <2>1 DEF StylesInv
  <2>3. TrueList(l, kind)'
    BY <1>3, <1>4, <2>2, TrueListStays
  <2>. QED
    BY <1>1, <2>1, <2>3 DEF TrueList
<1>. QED
  BY <1>1, <1>4, <1>5, <1>6 DEF StylesInv, StylesMove

LEMMA InitPlugin == Init => PluginInv
BY InitCalls, InitStyles DEF PluginInv

LEMMA StutterKeepsPlugin ==
  ASSUME PluginInv, UNCHANGED pluginVars
  PROVE  PluginInv'
<1>1. /\ calls' = calls /\ turn' = turn /\ styles' = styles /\ cache' = cache /\ doc' = doc
  BY DEF pluginVars
<1>2. CallsInv'
  BY <1>1 DEF PluginInv, CallsInv, CallShape, CallInv, Cmd, Running, Slow, IsPlan, KindOf, file
<1>3. StylesInv'
  BY <1>1 DEF PluginInv, StylesInv, StylesShape, SearchInv, TrueList, KnownStyles, Searching,
     MissesOthersOnly, NamesMissed, Others, Overlap, Alone, LocalStyles, NameFor, Cmd, KindOf
<1>. QED
  BY <1>2, <1>3 DEF PluginInv

LEMMA NextKeepsPlugin ==
  ASSUME PluginInv, [Next]_pluginVars
  PROVE  PluginInv'
<1>1. ASSUME NEW c \in Calls, Start(c) PROVE PluginInv'
  <2>1. UNCHANGED file
    BY <1>1 DEF Start, file, library
  <2>. QED
    BY <1>1, <2>1, StartKeepsCalls, StartKeepsStyles DEF PluginInv
<1>2. ASSUME NEW c \in Calls, Works(c) PROVE PluginInv'
  <2>1. StylesStep(c)
    BY <1>2, WorkHolds DEF PluginInv
  <2>. QED
    BY <2>1, AdvancingKeepsCalls, WorkKeepsStyles DEF PluginInv, StylesStep
<1>3. CASE UserDeletesNode \/ UserShowsPage \/ UserDeletesStyle \/ UserCreatesStyle
  <2>1. calls' = Disturbed /\ UNCHANGED turn
    BY <1>3 DEF UserDeletesNode, UserShowsPage, UserDeletesStyle, UserCreatesStyle, UserActs
  <2>. QED
    BY <1>3, <2>1, DisturbingKeepsCalls, UserKeepsStyles DEF PluginInv
<1>4. CASE UNCHANGED pluginVars
  BY <1>4, StutterKeepsPlugin
<1>. QED
  BY <1>1, <1>2, <1>3, <1>4 DEF Next, CallStep, Works, Rest

LEMMA PluginInvariant == Spec => []PluginInv
<1>1. Init => PluginInv
  BY InitPlugin
<1>2. PluginInv /\ [Next]_pluginVars => PluginInv'
  BY NextKeepsPlugin
<1>. QED
  BY <1>1, <1>2, PTL DEF Spec

-----------------------------------------------------------------------------
(* Whatever the commands, the user and their interleaving: a handle in a   *)
(* style cache belongs to a style that is there, unless the user removed   *)
(* it or commands overlapped.  DeleteStyle forgets the cache of its kind.  *)
THEOREM CachesTrue == Spec => []CacheIsTrue
<1>1. PluginInv => CacheIsTrue
  BY DEF PluginInv, StylesInv, CacheIsTrue, TrueList
<1>. QED
  BY <1>1, PluginInvariant, PTL

(* A lookup by name that comes back empty has missed only what the user or *)
(* an overlapping command made: findStyleOfKindByName lists again before   *)
(* it gives up.                                                            *)
THEOREM LookupsComplete == Spec => []LookupsMissNothing
<1>1. PluginInv => LookupsMissNothing
  BY DEF PluginInv, StylesInv, SearchInv, NamesMissed, Others, LookupsMissNothing
<1>. QED
  BY <1>1, PluginInvariant, PTL

(* A command that answers with an error, with nobody else at work since it *)
(* began, leaves the tree and the styles as it found them, but for the     *)
(* handlers FailsLate names.                                               *)
THEOREM ErrorsLeaveNoTrace == Spec => ErrorsChangeNothing
<1> DEFINE Clean(c) == /\ Running(c) /\ calls'[c].out \notin {None, "ok"}
                       /\ calls[c].before # None /\ ~FailsLate(c)
                       => file' = calls[c].before
<1>1. ASSUME PluginInv, [Next]_pluginVars, NEW c \in Calls PROVE Clean(c)
  <2> SUFFICES ASSUME Running(c), calls'[c].out \notin {None, "ok"},
                      calls[c].before # None, ~FailsLate(c)
               PROVE  file' = calls[c].before
    OBVIOUS
  <2>1. /\ calls[c].out = None /\ ~Slow(c) /\ file = calls[c].before /\ CallsInv /\ CallShape
        /\ StylesInv
    <3>1. CallInv(c) /\ CallsInv /\ StylesInv
      BY <1>1 DEF PluginInv, CallsInv
    <3>. QED
      BY <3>1 DEF CallInv, CallsInv, Slow, FailsLate
  <2>2. Works(c)
    <3>1. ASSUME NEW o \in Calls, o # c, Works(o) PROVE FALSE
      <4>1. calls'[c] = calls[c]
        BY <2>1, <3>1, WorkHolds, AdvancingLeavesOthers DEF StylesStep
      <4>. QED
        BY <2>1, <4>1
    <3>2. ASSUME NEW o \in Calls, Start(o) PROVE FALSE
      <4>1. o # c
        BY <3>2 DEF Start, Running
      <4>2. SameCall(calls'[c], calls[c])
        <5>1. PICK k, x : Started(o, k, x)
          BY <2>1, <3>2, StartEffect
        <5>. QED
          BY <2>1, <4>1, <5>1, DisturbedCalls DEF Started, CallShape, SameCall
      <4>. QED
        BY <2>1, <4>2 DEF SameCall
    <3>3. ASSUME calls' = Disturbed \/ calls' = calls PROVE FALSE
      BY <2>1, <3>3, DisturbedCalls DEF SameCall
    <3>. QED
      BY <1>1, <3>1, <3>2, <3>3 DEF Next, CallStep, Works, Rest, UserDeletesNode, UserShowsPage,
         UserDeletesStyle, UserCreatesStyle, UserActs, pluginVars
  <2>3. Careful(c)
    BY <2>1, <2>2, WorkHolds DEF StylesStep
  <2>. QED
    BY <2>1, <2>3 DEF Careful
<1>2. PluginInv /\ [Next]_pluginVars => \A c \in Calls : Clean(c)
  BY <1>1
<1>3. PluginInv /\ [Next]_pluginVars => [\A c \in Calls : Clean(c)]_pluginVars
  BY <1>2
<1> HIDE DEF Clean
<1>4. Spec => [][\A c \in Calls : Clean(c)]_pluginVars
  BY <1>3, PluginInvariant, PTL DEF Spec
<1>. QED
  BY <1>4 DEF ErrorsChangeNothing, Clean

-----------------------------------------------------------------------------
(***************************************************************************)
(* The document: what each handler does to it.                             *)
(***************************************************************************)
Sparing == Spares(doc, doc', {})

LEMMA StandingSpares ==
  ASSUME IsDocument(doc), UNCHANGED doc
  PROVE  Sparing
<1>1. Tags(doc, doc')
  BY UnchangedTags
<1>. QED
  BY <1>1 DEF Sparing, Spares

LEMMA ReorderSpares ==
  ASSUME CallsInv, IsDocument(doc), NEW c \in Calls, ReorderNode(c)
  PROVE  Sparing
<1> DEFINE n == N(c, 1)
           parent == doc[n].parent
           count == Len(doc[parent].kids)
           index == CASE Cmd(c).arg.to = "front" -> count - 1
                      [] Cmd(c).arg.to = "back"  -> 0
                      [] OTHER -> Clamp(Cmd(c).arg.index, 0, count - 1)
<1>1. \/ UNCHANGED doc
      \/ Accepts(doc, parent, n) /\ doc' = InsertChild(doc, parent, index, n)
  BY DEF ReorderNode, Does, Throws
<1>2. Cmd(c).arg.index \in Nat
  <2>1. Cmd(c) \in Commands /\ Cmd(c).op = "node.reorder"
    BY DEF ReorderNode, Handling, At, CallsInv, CallInv
  <2>. QED
    BY <2>1, CommandAssumption
<1>3. ASSUME Accepts(doc, parent, n) PROVE index \in Nat
  <2>1. n \in LiveNodes(doc) /\ doc[n].type \notin {"PAGE", "REMOVED"} /\ n \in DOMAIN doc
    BY <1>3 DEF Accepts, Removable, Live, LiveNodes
  <2>2. IsNode(doc, n) /\ parent \in LiveNodes(doc) /\ n \in ToSet(doc[parent].kids)
    BY <2>1 DEF IsDocument, IsTree, IsNode
  <2>3. doc[parent].kids \in Seq(LiveNodes(doc))
    BY <2>2 DEF IsDocument, IsTree, IsNode, LiveNodes
  <2>4. count \in Nat /\ count # 0
    BY <2>2, <2>3 DEF ToSet
  <2> HIDE DEF count
  <2>5. Clamp(Cmd(c).arg.index, 0, count - 1) \in Nat
    BY <1>2, <2>4 DEF Clamp
  <2>. QED
    BY <2>4, <2>5
<1> HIDE DEF n, parent, index
<1>. QED
  BY <1>1, <1>3, StandingSpares, AcceptedSpares DEF Sparing

LEMMA MoveSpares ==
  ASSUME CallsInv, IsDocument(doc), NEW c \in Calls, MoveNode(c)
  PROVE  Sparing
<1> DEFINE n == N(c, 1)
           newParent == N(c, 2)
           count == Len(doc[newParent].kids)
           index == Clamp(Cmd(c).arg.index, 0, count)
<1>1. \/ UNCHANGED doc
      \/ /\ Accepts(doc, newParent, n)
         /\ doc' = IF Cmd(c).arg.index = None THEN AppendChild(doc, newParent, n)
                   ELSE InsertChild(doc, newParent, index, n)
  BY DEF MoveNode, Throws
<1>2. Cmd(c).arg.index \in Nat \cup {None}
  <2>1. Cmd(c) \in Commands /\ Cmd(c).op = "node.move"
    BY DEF MoveNode, Handling, At, CallsInv, CallInv
  <2>. QED
    BY <2>1, CommandAssumption
<1>3. Accepts(doc, newParent, n) => count \in Nat
  BY AppendSpares
<1>4. Accepts(doc, newParent, n) /\ Cmd(c).arg.index # None => index \in Nat
  BY <1>2, <1>3 DEF Clamp
<1> HIDE DEF n, newParent, index
<1>. QED
  BY <1>1, <1>4, StandingSpares, AcceptedSpares, AppendSpares DEF Sparing

LEMMA TaggedWrapSpares ==
  ASSUME IsDocument(doc), NEW S, NEW p, CanWrap(doc, S, p), NEW type, NEW by, NEW key,
         type \in NodeTypes \ {"REMOVED", "PAGE"}
  PROVE  Spares(doc, TagResult(Wrap(doc, type, S, p, by), key), {})
<1> DEFINE e == Wrap(doc, type, S, p, by)
           v == IF key = None THEN NewId(doc) ELSE key
<1>1. Spares(doc, e, {})
  BY AcceptedWrapSpares
<1>2. TagResult(e, key) = [e EXCEPT ![NewId(doc)].op = v]
  BY DEF TagResult
<1> HIDE DEF e, v
<1>3. Written(e, NewId(doc), v, TagResult(e, key))
  BY <1>2 DEF Written
<1>4. IsDocument(e)
  BY <1>1 DEF Spares
<1>5. Spares(e, TagResult(e, key), {})
  BY <1>3, <1>4, WritingSpares
<1>6. Spares(doc, TagResult(e, key), {} \cup {})
  BY <1>1, <1>5, SparesOneAfterTheOther
<1>7. {} \cup {} = {}
  OBVIOUS
<1>. QED
  BY <1>6, <1>7 DEF e

LEMMA WrappingSpares ==
  ASSUME IsDocument(doc), NEW c \in Calls, BooleanOp(c) \/ GroupNodes(c) \/ CreateComponentSet(c)
  PROVE  Sparing
<1> DEFINE S == Chosen(c)
           p == doc[N(c, 1)].parent
<1>1. \/ UNCHANGED doc
      \/ \E type \in {"BOOLEAN_OPERATION", "GROUP", "COMPONENT_SET"} :
           CanWrap(doc, S, p) /\ doc' = TagResult(Wrap(doc, type, S, p, c), Cmd(c).key)
  BY DEF BooleanOp, GroupNodes, CreateComponentSet, Does, Throws
<1> HIDE DEF S, p
<1>2. \A type \in {"BOOLEAN_OPERATION", "GROUP", "COMPONENT_SET"} :
        type \in NodeTypes \ {"REMOVED", "PAGE"}
  BY DEF NodeTypes, Containers
<1>. QED
  BY <1>1, <1>2, StandingSpares, TaggedWrapSpares DEF Sparing

LEMMA UngroupSpares ==
  ASSUME IsDocument(doc), NEW c \in Calls, UngroupNode(c)
  PROVE  Sparing
<1> DEFINE g == N(c, 1)
           parent == doc[g].parent
           at == (CHOOSE i \in DOMAIN doc[parent].kids : doc[parent].kids[i] = g) - 1
           kids == doc[g].kids
           put == CHOOSE f : Emptying(f, doc, parent, at, kids, Len(kids))
<1>1. \/ UNCHANGED doc
      \/ Removable(doc, g) /\ doc' = put[Len(kids)]
  BY DEF UngroupNode, Does, Throws, Emptying
<1>2. ASSUME Removable(doc, g), doc' = put[Len(kids)] PROVE Sparing
  <2>1. g \in LiveNodes(doc) /\ doc[g].type \notin {"PAGE", "REMOVED"} /\ g \in DOMAIN doc
    BY <1>2 DEF Removable, Live, LiveNodes
  <2>2. IsNode(doc, g) /\ parent \in LiveNodes(doc) /\ g \in ToSet(doc[parent].kids)
        /\ kids \in Seq(LiveNodes(doc))
    BY <2>1 DEF IsDocument, IsTree, IsNode
  <2>3. doc[parent].kids \in Seq(LiveNodes(doc))
    BY <2>2 DEF IsDocument, IsTree, IsNode, LiveNodes
  <2>4. at \in Nat
    <3> DEFINE list == doc[parent].kids
    <3>1. \E i \in DOMAIN list : list[i] = g
      BY <2>2 DEF ToSet
    <3>2. DOMAIN list = 1..Len(list) /\ Len(list) \in Nat
      BY <2>3
    <3> DEFINE j == CHOOSE i \in DOMAIN list : list[i] = g
    <3>3. j \in DOMAIN list
      BY <3>1, Zenon
    <3> HIDE DEF j, list
    <3>4. j - 1 \in Nat
      BY <3>2, <3>3
    <3>. QED
      BY <3>4 DEF j, list
  <2>5. Len(kids) \in Nat
    BY <2>2
  <2> HIDE DEF at
  <2>6. Emptying(put, doc, parent, at, kids, Len(kids))
    <3>1. \E f : Emptying(f, doc, parent, at, kids, Len(kids))
      BY <2>5, EmptyingDefined
    <3>. QED
      BY <3>1, Zenon
  <2> HIDE DEF put
  <2>7. Spares(doc, put[Len(doc[g].kids)], {})
    BY <2>1, <2>4, <2>6, EmptyingSpares
  <2>. QED
    BY <1>2, <2>7 DEF Sparing
<1>. QED
  BY <1>1, <1>2, StandingSpares

(* What a swap has looked up first was an instance, and is one if it is    *)
(* still there.                                                            *)
SwapInv(c) ==
  Running(c) /\ Cmd(c).op = "instance.swap" =>
    /\ calls[c].pc \in {"node", "run"} /\ calls[c].got \in Seq(DOMAIN doc)
    /\ calls[c].pc = "run" => calls[c].got # <<>>
    /\ calls[c].got # <<>> /\ Live(doc, calls[c].got[1]) => doc[calls[c].got[1]].type = "INSTANCE"

LEMMA InstancesSpare ==
  ASSUME IsDocument(doc), page \in LiveNodes(doc), NEW c \in Calls, SwapInv(c),
         CreateInstance(c) \/ InstanceParentAnswered(c) \/ InstanceSwap(c) \/ SetMask(c)
  PROVE  Sparing
<1>1. CASE CreateInstance(c)
  <2> DEFINE node == NewNode("INSTANCE", page, c)
  <2>1. UNCHANGED doc \/ doc' = Add(doc, node)
    BY <1>1 DEF CreateInstance, Throws
  <2>2. IsNew(doc, node) /\ node.type # "GROUP"
    BY NodeFields DEF IsNew, NewNode, NodeTypes, Containers
  <2> HIDE DEF node
  <2>. QED
    BY <2>1, <2>2, StandingSpares, AddSpares DEF Sparing
<1>2. CASE InstanceParentAnswered(c)
  <2> DEFINE p == Cmd(c).arg.parent
             n == N(c, 1)
  <2>1. UNCHANGED doc \/ (Accepts(doc, p, n) /\ doc' = AppendChild(doc, p, n))
    BY <1>2 DEF InstanceParentAnswered, Does, Throws
  <2> HIDE DEF p, n
  <2>. QED
    BY <2>1, StandingSpares, AppendSpares DEF Sparing
<1>3. CASE InstanceSwap(c)
  <2> DEFINE n == N(c, 1)
  <2>1. UNCHANGED doc \/ (~Stale(c) /\ doc' = [doc EXCEPT ![n].key = None])
    BY <1>3 DEF InstanceSwap, Does, Throws
  <2>2. ASSUME ~Stale(c) PROVE n \in LiveNodes(doc) /\ doc[n].type = "INSTANCE"
    <3>1. calls[c].got \in Seq(DOMAIN doc) /\ calls[c].got # <<>>
      BY <1>3 DEF SwapInv, InstanceSwap, Handling, At, Running
    <3>2. 1 \in DOMAIN calls[c].got
      BY <3>1
    <3>3. Live(doc, n)
      BY <2>2, <3>2 DEF Stale, N
    <3>. QED
      BY <1>3, <3>1, <3>3 DEF SwapInv, InstanceSwap, Handling, At, Running, N, Live, LiveNodes
  <2> HIDE DEF n
  <2>3. UNCHANGED doc \/ Written(doc, n, None, doc')
    BY <2>1, <2>2 DEF Written
  <2>. QED
    BY <2>3, StandingSpares, WritingSpares DEF Sparing
<1>4. CASE SetMask(c)
  BY <1>4, StandingSpares DEF SetMask, Does, Throws
<1>. QED
  BY <1>1, <1>2, <1>3, <1>4

LEMMA UnlinkedSpares ==
  ASSUME IsDocument(doc), NEW s
  PROVE  Spares(doc, Unlinked(s), {})
<1> DEFINE e == Unlinked(s)
<1>1. \A m \in DOMAIN doc : DOMAIN doc[m] = {"type", "parent", "kids", "key", "op", "style", "by"}
  BY NodeFields DEF IsDocument, IsTree, IsNode
<1>2. SamePlaces(doc, e) /\ \A m \in DOMAIN doc : e[m].key = doc[m].key
  BY <1>1 DEF SamePlaces, Unlinked
<1>3. \A m \in LiveNodes(doc) : doc[m].type # "INSTANCE" => e[m].key = doc[m].key
  BY <1>2 DEF LiveNodes
<1>. QED
  BY <1>2, <1>3, SamePlacesSpares

(* A style that is set on a node or taken from all of them.                *)
LEMMA StylingSpares ==
  ASSUME IsDocument(doc), NEW c \in Calls, StyleStep(c)
  PROVE  Sparing
<1>1. CASE StyleSet(c)
  <2> DEFINE n == calls[c].got[1]
             s == calls[c].style
  <2>1. UNCHANGED doc \/ Written(doc, n, s, doc')
    BY <1>1 DEF StyleSet, Does, Throws, Written
  <2> HIDE DEF n, s
  <2>. QED
    BY <2>1, StandingSpares, WritingSpares DEF Sparing
<1>2. CASE DeleteStyle(c)
  BY <1>2, StandingSpares, UnlinkedSpares DEF DeleteStyle, Throws, Sparing
<1>3. CASE ~StyleSet(c) /\ ~DeleteStyle(c)
  BY <1>3, StandingSpares DEF StyleStep, FindStyle, ListAnswered, ListStyles, CreateStyle,
     FinishTextStyle, ApplyStyle, SetsStyle
<1>. QED
  BY <1>1, <1>2, <1>3

-----------------------------------------------------------------------------
(* Every step of a call keeps the file a document and keeps its pages, and *)
(* it spares the content unless the command deletes.                       *)
PagesStay ==
  \A p \in LiveNodes(doc) :
    doc[p].type = "PAGE" => p \in LiveNodes(doc') /\ doc'[p].type = "PAGE"
Tends(c) ==
  /\ IsDocument(doc') /\ PagesStay /\ Tags(doc, doc')
  /\ Deleting(c) \/ Spares(doc, doc', Replaced(c))

LEMMA SparingTends ==
  ASSUME NEW c, Sparing
  PROVE  Tends(c)
BY DEF Sparing, Spares, Tends, PagesStay

LEMMA LosingKeepsPages ==
  ASSUME NEW gone, Spares(doc, doc', gone), \A m \in gone : doc[m].type # "PAGE"
  PROVE  IsDocument(doc') /\ PagesStay /\ Tags(doc, doc')
BY DEF Spares, PagesStay

LEMMA NodesTend ==
  ASSUME CallsInv, IsDocument(doc), page \in LiveNodes(doc), NEW c \in Calls, SwapInv(c),
         HandlerStep(c)
  PROVE  Tends(c)
<1>1. CASE DeleteNode(c)
  <2> DEFINE n == N(c, 1)
             gone == {n} \cup Below(doc, n)
  <2>1. Deleting(c)
    BY <1>1 DEF DeleteNode, Deleting
  <2>2. UNCHANGED doc \/ (Removable(doc, n) /\ doc' = RemoveNode(doc, n))
    BY <1>1 DEF DeleteNode, Does, Throws
  <2>3. IsTree(doc)
    BY DEF IsDocument
  <2> HIDE DEF n
  <2>4. ASSUME Removable(doc, n), doc' = RemoveNode(doc, n) PROVE Tends(c)
    <3>1. Spares(doc, doc', gone) /\ \A m \in gone : doc[m].type # "PAGE"
      BY <2>3, <2>4, RemoveNodeSpares
    <3> HIDE DEF gone
    <3>. QED
      BY <2>1, <3>1, LosingKeepsPages DEF Tends
  <2>. QED
    BY <2>2, <2>4, StandingSpares, SparingTends
<1>2. CASE ReorderNode(c) \/ MoveNode(c)
  BY <1>2, ReorderSpares, MoveSpares, SparingTends
<1>3. CASE BooleanOp(c) \/ GroupNodes(c) \/ CreateComponentSet(c) \/ UngroupNode(c)
  BY <1>3, WrappingSpares, UngroupSpares, SparingTends
<1>4. CASE CreateInstance(c) \/ InstanceParentAnswered(c) \/ InstanceSwap(c) \/ SetMask(c)
  BY <1>4, InstancesSpare, SparingTends
<1>5. CASE \/ InstanceOverride(c) \/ ComponentProperty(c) \/ PatchNode(c) \/ TextRange(c)
           \/ FontReady(c) \/ ReadNode(c) \/ ReadSelection(c) \/ ReadComponents(c)
           \/ MainsAnswered(c) \/ ReadStatus(c)
  <2>1. UNCHANGED doc
    BY <1>5 DEF InstanceOverride, ComponentProperty, PatchNode, TextRange, FontReady, ReadNode,
       ReadSelection, ReadComponents, MainsAnswered, ReadStatus, Does, Throws
  <2>. QED
    BY <2>1, StandingSpares, SparingTends
<1>. QED
  BY <1>1, <1>2, <1>3, <1>4, <1>5 DEF HandlerStep

LEMMA PlanOpType ==
  ASSUME CallsInv, NEW c \in Calls, Running(c), OpAt(c, calls[c].step)
  PROVE  Op(c).type \in PlanTypes
<1>1. Cmd(c) \in Commands /\ Cmd(c).op = "design.apply"
  BY DEF CallsInv, CallInv, Running, OpAt, IsPlan
<1>2. calls[c].step \in 1..Len(Cmd(c).arg.ops)
  BY DEF OpAt, Ops, Plan
<1>. QED
  BY <1>1, <1>2, CommandAssumption DEF Op, Ops, Plan

LEMMA BuildNodeSpares ==
  ASSUME CallsInv, IsDocument(doc), page \in LiveNodes(doc), NEW c \in Calls, BuildNode(c),
         OpAt(c, calls[c].step)
  PROVE  Sparing
<1> DEFINE op == Op(c)
           plain == NewNode(op.type, page, c)
           node == [plain EXCEPT !.key = op.key]
<1>1. UNCHANGED doc \/ doc' = Add(doc, node)
  BY DEF BuildNode
<1>2. op.type \in PlanTypes
  BY PlanOpType DEF BuildNode, At, Running
<1>3. /\ DOMAIN node = DOMAIN Removed /\ node.type = op.type /\ node.parent = page
      /\ node.kids = <<>>
  BY DEF NewNode, Removed
<1>4. op.type \in NodeTypes \ {"REMOVED", "PAGE", "GROUP"}
  BY <1>2 DEF PlanTypes, NodeTypes, Containers
<1> HIDE DEF node, op
<1>5. IsNew(doc, node) /\ node.type # "GROUP"
  BY <1>3, <1>4 DEF IsNew
<1>. QED
  BY <1>1, <1>5, StandingSpares, AddSpares DEF Sparing

LEMMA ApplyPlanSpares ==
  ASSUME IsDocument(doc), NEW c \in Calls, ApplyPlan(c)
  PROVE  Sparing
<1> DEFINE plain == NewNode("PAGE", None, c)
           node == [plain EXCEPT !.key = Plan(c).target]
<1>1. UNCHANGED doc \/ doc' = Add(doc, node)
  BY DEF ApplyPlan
<1>2. /\ DOMAIN node = DOMAIN Removed /\ node.type = "PAGE" /\ node.parent = None
      /\ node.kids = <<>>
  BY DEF NewNode, Removed
<1> HIDE DEF node
<1>3. IsNew(doc, node) /\ node.type # "GROUP"
  BY <1>2 DEF IsNew, NodeTypes, Containers
<1>. QED
  BY <1>1, <1>3, StandingSpares, AddSpares DEF Sparing

(* Taking the boolean of the last build away takes just that node.         *)
LEMMA TidyingLoses ==
  ASSUME NEW d, IsDocument(d), NEW stale
  PROVE  \E gone \in SUBSET {stale} :
           Loses(d, Tidied(d, stale), gone) /\ \A m \in gone : d[m].type # "PAGE"
<1>1. CASE Tidied(d, stale) = d
  <2>1. Loses(d, Tidied(d, stale), {})
    BY <1>1 DEF Loses, SameNode
  <2>. QED
    BY <2>1
<1>2. CASE Tidied(d, stale) # d
  <2>1. /\ HasChildren(d, stale) /\ d[stale].kids = <<>> /\ Removable(d, stale)
        /\ Tidied(d, stale) = RemoveNode(d, stale)
    BY <1>2 DEF Tidied
  <2>2. IsTree(d) /\ stale \in DOMAIN d
    BY <2>1 DEF IsDocument, Removable, Live
  <2>3. Below(d, stale) = {}
    BY <2>1, <2>2, ChildlessIsLeaf
  <2>4. /\ Loses(d, RemoveNode(d, stale), {stale} \cup Below(d, stale))
        /\ \A m \in {stale} \cup Below(d, stale) : d[m].type # "PAGE"
    BY <2>1, <2>2, RemoveNodeLoses
  <2>5. {stale} \cup Below(d, stale) = {stale}
    BY <2>3
  <2>6. Loses(d, Tidied(d, stale), {stale}) /\ \A m \in {stale} : d[m].type # "PAGE"
    BY <2>1, <2>4, <2>5
  <2>. QED
    BY <2>6
<1>. QED
  BY <1>1, <1>2

(* A boolean made of nodes: they hang in it, the others where they were.   *)
Makes(gone, nodes, home, key) ==
  /\ IsDocument(doc') /\ DOMAIN doc' = DOMAIN doc \cup {NewId(doc)}
  /\ \A m \in LiveNodes(doc) \ gone : doc[m].type # "GROUP" => m \in LiveNodes(doc')
  /\ \A m \in LiveNodes(doc) \cap gone : doc[m].type # "PAGE"
  /\ NewId(doc) \notin gone => NewId(doc) \in LiveNodes(doc')
  /\ \A m \in LiveNodes(doc') :
       IF m = NewId(doc)
       THEN doc'[m].type = "BOOLEAN_OPERATION" /\ doc'[m].parent = home /\ doc'[m].key = key
       ELSE /\ m \in LiveNodes(doc) /\ doc'[m].type = doc[m].type /\ doc'[m].key = doc[m].key
            /\ doc'[m].parent = IF m \in nodes THEN NewId(doc) ELSE doc[m].parent

LEMMA BooleanMakes ==
  ASSUME IsDocument(doc), NEW c, NEW nodes, NEW home, CanWrap(doc, nodes, home), NEW stale, NEW key,
         NEW made, made = Wrap(doc, "BOOLEAN_OPERATION", nodes, home, c),
         doc' = [Tidied(made, stale) EXCEPT ![NewId(doc)].key = key]
  PROVE  \E gone \in SUBSET {stale} : Makes(gone, nodes, home, key)
<1> DEFINE tidy == Tidied(made, stale)
           n == NewId(doc)
<1>1. "BOOLEAN_OPERATION" \in NodeTypes \ {"REMOVED", "PAGE"}
  BY DEF NodeTypes, Containers
<1>2. Fits(doc, nodes, home)
  BY AcceptedWrapFits DEF IsDocument
<1>3. Wraps(doc, made, "BOOLEAN_OPERATION", nodes, home)
  BY <1>1, <1>2, WrapWraps
<1>4. IsDocument(made) /\ DOMAIN made = DOMAIN doc \cup {n}
  BY <1>3 DEF Wraps
<1>5. PICK gone \in SUBSET {stale} :
        Loses(made, tidy, gone) /\ \A m \in gone : made[m].type # "PAGE"
  BY <1>4, TidyingLoses
<1>6. n \notin DOMAIN doc
  BY NewIds DEF IsDocument
<1> HIDE DEF tidy, n
<1>7. /\ IsDocument(tidy) /\ DOMAIN tidy = DOMAIN doc \cup {n}
      /\ \A m \in LiveNodes(made) \ gone : made[m].type # "GROUP" => m \in LiveNodes(tidy)
      /\ \A m \in LiveNodes(tidy) : m \in LiveNodes(made) /\ SameNode(tidy[m], made[m])
  BY <1>4, <1>5 DEF Loses
<1>8. \A m \in DOMAIN tidy :
        DOMAIN tidy[m] = {"type", "parent", "kids", "key", "op", "style", "by"}
  BY <1>7, NodeFields DEF IsDocument, IsTree, IsNode
<1>9. doc' = [tidy EXCEPT ![n].key = key]
  BY DEF tidy, n
<1>10. /\ DOMAIN doc' = DOMAIN tidy
       /\ \A m \in DOMAIN tidy :
            /\ DOMAIN doc'[m] = DOMAIN tidy[m] /\ doc'[m].type = tidy[m].type
            /\ doc'[m].parent = tidy[m].parent /\ doc'[m].kids = tidy[m].kids
            /\ doc'[m].key = IF m = n THEN key ELSE tidy[m].key
  BY <1>8, <1>9
<1>11. SamePlaces(tidy, doc')
  BY <1>10 DEF SamePlaces
<1>12. IsDocument(doc') /\ LiveNodes(doc') = LiveNodes(tidy)
  BY <1>7, <1>11, SamePlacesIsDocument
<1>13. \A m \in LiveNodes(doc) \ gone : doc[m].type # "GROUP" => m \in LiveNodes(doc')
  <2> SUFFICES ASSUME NEW m \in LiveNodes(doc) \ gone, doc[m].type # "GROUP"
               PROVE  m \in LiveNodes(tidy)
    BY <1>12
  <2>1. m \in LiveNodes(made) /\ m # n
    BY <1>3, <1>6 DEF Wraps, LiveNodes
  <2>2. made[m].type = doc[m].type
    BY <1>3, <2>1 DEF Wraps, n
  <2>. QED
    BY <1>7, <2>1, <2>2
<1>14. \A m \in LiveNodes(doc) \cap gone : doc[m].type # "PAGE"
  <2> SUFFICES ASSUME NEW m \in LiveNodes(doc), m \in gone, doc[m].type = "PAGE" PROVE FALSE
    OBVIOUS
  <2>1. m \in LiveNodes(made) /\ m # n
    BY <1>3, <1>6 DEF Wraps, LiveNodes
  <2>2. made[m].type = doc[m].type
    BY <1>3, <2>1 DEF Wraps, n
  <2>. QED
    BY <1>5, <2>2
<1>15. n \notin gone => n \in LiveNodes(doc')
  <2>1. n \in LiveNodes(made) /\ made[n].type = "BOOLEAN_OPERATION"
    BY <1>3 DEF Wraps, n
  <2>. QED
    BY <1>7, <1>12, <2>1
<1>16. ASSUME NEW m \in LiveNodes(doc'), m # n
       PROVE  /\ m \in LiveNodes(doc) /\ doc'[m].type = doc[m].type /\ doc'[m].key = doc[m].key
              /\ doc'[m].parent = IF m \in nodes THEN n ELSE doc[m].parent
  <2>1. m \in LiveNodes(made) /\ SameNode(tidy[m], made[m]) /\ m \in DOMAIN tidy
    BY <1>7, <1>12 DEF LiveNodes
  <2>2. /\ m \in LiveNodes(doc) /\ made[m].type = doc[m].type /\ made[m].key = doc[m].key
        /\ made[m].parent = IF m \in nodes THEN n ELSE doc[m].parent
    BY <1>3, <1>16, <2>1 DEF Wraps, n
  <2>. QED
    BY <1>10, <1>16, <2>1, <2>2 DEF SameNode
<1>17. ASSUME n \in LiveNodes(doc')
       PROVE  doc'[n].type = "BOOLEAN_OPERATION" /\ doc'[n].parent = home /\ doc'[n].key = key
  <2>1. n \in LiveNodes(made) /\ SameNode(tidy[n], made[n]) /\ n \in DOMAIN tidy
    BY <1>7, <1>12, <1>17 DEF LiveNodes
  <2>2. made[n].type = "BOOLEAN_OPERATION" /\ made[n].parent = home
    BY <1>3, <2>1 DEF Wraps, n
  <2>. QED
    BY <1>10, <2>1, <2>2 DEF SameNode
<1>18. Makes(gone, nodes, home, key)
  BY <1>7, <1>10, <1>12, <1>13, <1>14, <1>15, <1>16, <1>17 DEF Makes, n
<1>. QED
  BY <1>18

LEMMA MakesTends ==
  ASSUME IsDocument(doc), NEW gone, NEW nodes, NEW home, NEW key, Makes(gone, nodes, home, key)
  PROVE  PagesStay /\ Spares(doc, doc', gone)
<1> DEFINE n == NewId(doc)
<1>1. n \notin DOMAIN doc /\ n \notin LiveNodes(doc)
  BY NewIds DEF IsDocument, LiveNodes
<1>2. \A m \in LiveNodes(doc') : m # n =>
        m \in LiveNodes(doc) /\ doc'[m].type = doc[m].type /\ doc'[m].key = doc[m].key
  BY DEF Makes
<1>3. \A m \in LiveNodes(doc') : m = n => doc'[m].type = "BOOLEAN_OPERATION"
  BY DEF Makes
<1>4. IsDocument(doc') /\ DOMAIN doc' = DOMAIN doc \cup {n}
  BY DEF Makes
<1>5. \A m \in LiveNodes(doc') : m \in DOMAIN doc \/ m = n
  BY <1>4 DEF LiveNodes
<1>6. \A m \in LiveNodes(doc) \ gone : doc[m].type # "GROUP" => m \in LiveNodes(doc')
  BY DEF Makes
<1>7. \A m \in LiveNodes(doc) \cap gone : doc[m].type # "PAGE"
  BY DEF Makes
<1> HIDE DEF n
<1>8. Tags(doc, doc')
  BY <1>1, <1>2, <1>3, <1>4, <1>5 DEF Tags
<1>9. \A m \in LiveNodes(doc) \ gone :
        doc[m].type # "GROUP" => m \in LiveNodes(doc') /\ doc'[m].type = doc[m].type
  BY <1>1, <1>2, <1>6
<1>. QED
  BY <1>4, <1>7, <1>8, <1>9 DEF Spares, PagesStay

LEMMA BooleanTends ==
  ASSUME IsDocument(doc), NEW c \in Calls, BuildBoolean(c)
  PROVE  Tends(c)
<1> DEFINE op == Op(c)
           keys == {o \in ToSet(Ops(c)) : o.parent = op.key /\ o.key \in DOMAIN Built(c)}
           nodes == {Built(c)[o.key] : o \in keys}
           home == IF op.parent \in DOMAIN Built(c) THEN Built(c)[op.parent] ELSE Target(c)
           made == Wrap(doc, "BOOLEAN_OPERATION", nodes, home, c)
           stale == IF op.key \in DOMAIN calls[c].index THEN calls[c].index[op.key] ELSE None
           tidy == Tidied(made, stale)
<1>1. UNCHANGED doc \/ (CanWrap(doc, nodes, home) /\ doc' = [tidy EXCEPT ![NewId(doc)].key = op.key])
  BY DEF BuildBoolean, Throws
<1>2. stale = None \/ stale \in Replaced(c)
  BY DEF Replaced, BuildBoolean
<1> HIDE DEF nodes, home, stale
<1>3. ASSUME CanWrap(doc, nodes, home), doc' = [tidy EXCEPT ![NewId(doc)].key = op.key]
      PROVE  Tends(c)
  <2> DEFINE key == op.key
  <2>0. /\ made = Wrap(doc, "BOOLEAN_OPERATION", nodes, home, c)
        /\ doc' = [Tidied(made, stale) EXCEPT ![NewId(doc)].key = key]
    BY <1>3
  <2> HIDE DEF made, key
  <2>1. PICK gone \in SUBSET {stale} : Makes(gone, nodes, home, key)
    BY <1>3, <2>0, BooleanMakes
  <2>2. PagesStay /\ Spares(doc, doc', gone)
    BY <2>1, MakesTends
  <2>3. None \notin LiveNodes(doc)
    BY NoneIsNoNode DEF LiveNodes, IsDocument
  <2>4. Spares(doc, doc', Replaced(c))
    BY <1>2, <2>2, <2>3 DEF Spares
  <2>. QED
    BY <2>2, <2>4 DEF Tends, Spares
<1>. QED
  BY <1>1, <1>3, StandingSpares, SparingTends

LEMMA PlacingSpares ==
  ASSUME IsDocument(doc), NEW c \in Calls, PlaceNode(c) \/ PlanStyleSet(c)
  PROVE  Sparing
<1>1. CASE PlaceNode(c)
  <2>1. UNCHANGED doc \/ \E p, n : Accepts(doc, p, n) /\ doc' = AppendChild(doc, p, n)
    BY <1>1 DEF PlaceNode, Throws
  <2>. QED
    BY <2>1, StandingSpares, AppendSpares DEF Sparing
<1>2. CASE PlanStyleSet(c)
  <2> DEFINE n == Built(c)[Op(c).key]
             s == calls[c].style
  <2>1. UNCHANGED doc \/ Written(doc, n, s, doc')
    BY <1>2 DEF PlanStyleSet, Written
  <2> HIDE DEF n, s
  <2>. QED
    BY <2>1, StandingSpares, WritingSpares DEF Sparing
<1>. QED
  BY <1>1, <1>2

LEMMA FinishTends ==
  ASSUME IsDocument(doc), NEW c \in Calls, FinishPlan(c)
  PROVE  Tends(c)
<1> DEFINE index == calls[c].index
           unused == {n \in {index[k] : k \in DOMAIN index \ DOMAIN Built(c)} : Removable(doc, n)}
           gone == unused \cup UNION {Below(doc, n) : n \in unused}
<1>1. UNCHANGED doc \/ (Deleting(c) /\ doc' = Sweep(Drop(doc, gone)))
  BY DEF FinishPlan, Deleting
<1>2. \A n \in unused : Removable(doc, n)
  OBVIOUS
<1> HIDE DEF unused
<1>3. ASSUME Deleting(c), doc' = Sweep(Drop(doc, gone)) PROVE Tends(c)
  <2>1. gone = unused \cup UNION {Below(doc, n) : n \in unused} /\ IsTree(doc)
    BY DEF IsDocument
  <2> HIDE DEF gone
  <2>2. Spares(doc, doc', gone) /\ \A m \in gone : doc[m].type # "PAGE"
    BY <1>2, <1>3, <2>1, RemovalLoses, LosesSpares
  <2>. QED
    BY <1>3, <2>2, LosingKeepsPages DEF Tends
<1>. QED
  BY <1>1, <1>3, StandingSpares, SparingTends

LEMMA DesignTends ==
  ASSUME CallsInv, IsDocument(doc), page \in LiveNodes(doc), NEW c \in Calls, DesignStep(c),
         calls[c].pc = "build" => OpAt(c, calls[c].step)
  PROVE  Tends(c)
<1>1. CASE PageShown(c) \/ IntrinsicDone(c) \/ PlanSetsStyle(c)
  <2>1. UNCHANGED doc
    BY <1>1 DEF PageShown, IntrinsicDone, PlanSetsStyle
  <2>. QED
    BY <2>1, StandingSpares, SparingTends
<1>2. CASE BuildNode(c)
  <2>1. IsPlan(c) /\ calls[c].pc = "build"
    BY <1>2 DEF BuildNode, At
  <2>. QED
    BY <1>2, <2>1, BuildNodeSpares, SparingTends
<1>. QED
  BY <1>1, <1>2, ApplyPlanSpares, PlacingSpares, BooleanTends, FinishTends, SparingTends
  DEF DesignStep

LEMMA WorkTends ==
  ASSUME CallsInv, IsDocument(doc), page \in LiveNodes(doc), NEW c \in Calls, SwapInv(c), Works(c),
         IsPlan(c) /\ calls[c].pc = "build" => OpAt(c, calls[c].step)
  PROVE  Tends(c)
<1>1. CASE HandlerStep(c)
  BY <1>1, NodesTend
<1>2. CASE StyleStep(c)
  BY <1>2, StylingSpares, SparingTends
<1>3. CASE DesignStep(c)
  <2>1. calls[c].pc = "build" => IsPlan(c)
    BY <1>3 DEF DesignStep, ApplyPlan, PageShown, BuildNode, IntrinsicDone, PlanSetsStyle,
       PlanStyleSet, BuildBoolean, PlaceNode, FinishPlan, At, Answered
  <2>. QED
    BY <1>3, <2>1, DesignTends
<1>4. CASE NodeAnswered(c) \/ FontAnswered(c) \/ LoadAnswered(c) \/ VariableStep(c)
  <2>1. UNCHANGED doc
    BY <1>4 DEF NodeAnswered, FontAnswered, LoadAnswered, VariableStep, ManageVariables,
       CollectionAnswered, BindVariable, VariableAnswered
  <2>. QED
    BY <2>1, StandingSpares, SparingTends
<1>. QED
  BY <1>1, <1>2, <1>3, <1>4 DEF Works

(* The page on show changes only to another page.                          *)
PageStands == page \in LiveNodes(doc) /\ doc[page].type = "PAGE"

LEMMA WorkShowsPages ==
  ASSUME NEW c \in Calls, Works(c), PageStands, PagesStay
  PROVE  PageStands'
<1>1. CASE PageShown(c)
  BY <1>1 DEF PageShown, PageStands
<1>2. CASE ~PageShown(c)
  <2>1. UNCHANGED page
    BY <1>2 DEF Works, NodeAnswered, FontAnswered, LoadAnswered, HandlerStep, DeleteNode,
       ReorderNode, MoveNode, BooleanOp, GroupNodes, UngroupNode, CreateComponentSet,
       CreateInstance, InstanceParentAnswered, InstanceSwap, SetMask, InstanceOverride,
       ComponentProperty, PatchNode, TextRange, FontReady, ReadNode, ReadSelection,
       ReadComponents, MainsAnswered, ReadStatus, Other, StyleStep, FindStyle, ListAnswered,
       ListStyles, CreateStyle, FinishTextStyle, DeleteStyle, ApplyStyle, SetsStyle, StyleSet,
       DesignStep, ApplyPlan, BuildNode, IntrinsicDone, PlanSetsStyle, PlanStyleSet,
       BuildBoolean, PlaceNode, FinishPlan, VariableStep, ManageVariables, CollectionAnswered,
       BindVariable, VariableAnswered
  <2>. QED
    BY <2>1 DEF PageStands, PagesStay
<1>. QED
  BY <1>1, <1>2

LEMMA UserTends ==
  ASSUME IsDocument(doc), PageStands,
         UserDeletesNode \/ UserShowsPage \/ UserDeletesStyle \/ UserCreatesStyle
  PROVE  IsDocument(doc') /\ PageStands' /\ PagesStay /\ Tags(doc, doc')
<1>1. CASE UserDeletesNode
  <2>1. PICK n : Removable(doc, n) /\ doc' = RemoveNode(doc, n)
    BY <1>1 DEF UserDeletesNode
  <2> DEFINE gone == {n} \cup Below(doc, n)
  <2>2. IsTree(doc)
    BY DEF IsDocument
  <2>3. Spares(doc, doc', gone) /\ \A m \in gone : doc[m].type # "PAGE"
    BY <2>1, <2>2, RemoveNodeSpares
  <2> HIDE DEF gone
  <2>4. IsDocument(doc') /\ PagesStay /\ Tags(doc, doc')
    BY <2>3, LosingKeepsPages
  <2>. QED
    BY <1>1, <2>4 DEF PagesStay, PageStands, UserDeletesNode
<1>2. CASE UserShowsPage
  <2>1. UNCHANGED doc /\ PageStands'
    BY <1>2, Zenon DEF UserShowsPage, PageStands
  <2>. QED
    BY <2>1, UnchangedTags DEF PagesStay
<1>3. CASE UserDeletesStyle
  <2>1. Sparing
    BY <1>3, UnlinkedSpares DEF UserDeletesStyle, Sparing
  <2>. QED
    BY <1>3, <2>1 DEF Sparing, Spares, PagesStay, PageStands, UserDeletesStyle
<1>4. CASE UserCreatesStyle
  BY <1>4, UnchangedTags DEF UserCreatesStyle, PageStands, PagesStay
<1>. QED
  BY <1>1, <1>2, <1>3, <1>4

-----------------------------------------------------------------------------
(* A plan that is at its ops stays within them.                            *)
PlanInv(c) ==
  IsPlan(c) /\ calls[c].pc \notin {"idle", "run", "page", "done"} => OpAt(c, calls[c].step)

LEMMA OpStays ==
  ASSUME NEW c, NEW i, OpAt(c, i), Cmd(c)' = Cmd(c)
  PROVE  \A j : j = i => OpAt(c, j)'
BY DEF OpAt, IsPlan, Ops, Plan

LEMMA PlanEnters ==
  ASSUME NEW c \in Calls, Works(c), IsPlan(c), calls[c].pc \in {"run", "page"}
  PROVE  ApplyPlan(c) \/ PageShown(c)
<1>1. Cmd(c).op = "design.apply"
  BY DEF IsPlan
<1>2. /\ ~NodeAnswered(c) /\ ~FontAnswered(c) /\ ~LoadAnswered(c)
  BY DEF NodeAnswered, FontAnswered, LoadAnswered, Answered
<1>3. ~HandlerStep(c)
  BY <1>1 DEF HandlerStep, DeleteNode, ReorderNode, MoveNode, BooleanOp, GroupNodes,
     UngroupNode, CreateComponentSet, CreateInstance, InstanceParentAnswered, InstanceSwap,
     SetMask, InstanceOverride, ComponentProperty, PatchNode, TextRange, FontReady, ReadNode,
     ReadSelection, ReadComponents, MainsAnswered, ReadStatus, Handling, At, Answered
<1>4. ~StyleStep(c)
  BY <1>1 DEF StyleStep, FindStyle, ListAnswered, ListStyles, CreateStyle, FinishTextStyle,
     DeleteStyle, ApplyStyle, SetsStyle, StyleSet, At, Answered
<1>5. ~VariableStep(c)
  BY <1>1 DEF VariableStep, ManageVariables, Manages, CollectionAnswered, BindVariable,
     VariableAnswered, At, Answered
<1>6. DesignStep(c)
  BY <1>2, <1>3, <1>4, <1>5 DEF Works
<1>. QED
  BY <1>6 DEF DesignStep, BuildNode, IntrinsicDone, PlanSetsStyle, PlanStyleSet, BuildBoolean,
     PlaceNode, FinishPlan, At, Answered

(* A plan begins with its first op.                                        *)
LEMMA PlansBegin ==
  ASSUME CallsInv, NEW c \in Calls, Works(c), IsPlan(c), calls[c].pc \in {"run", "page"}
  PROVE  calls'[c].pc = "page" \/ OpAt(c, calls'[c].step)
<1>1. Cmd(c).op = "design.apply" /\ Cmd(c) \in Commands /\ CallShape
  BY DEF IsPlan, CallsInv, CallInv
<1>2. ApplyPlan(c) \/ PageShown(c)
  BY PlanEnters
<1>3. Awaits(c, "page") \/ \E target : BeginsBuild(c, target)
  BY <1>2 DEF ApplyPlan, PageShown
<1>4. IsCall(calls[c]) /\ calls = [o \in Calls |-> calls[o]]
  BY <1>1 DEF CallShape
<1>5. OpAt(c, 1)
  <2>1. Len(Ops(c)) \in Nat \ {0}
    BY <1>1, CommandAssumption DEF Ops, Plan
  <2>. QED
    BY <2>1 DEF OpAt
<1>6. ASSUME Awaits(c, "page") PROVE calls'[c].pc = "page"
  BY <1>4, <1>6 DEF Awaits, IsCall, Idle
<1>7. ASSUME NEW target, BeginsBuild(c, target) PROVE calls'[c].step = 1
  BY <1>4, <1>7 DEF BeginsBuild, IsCall, Idle
<1>. QED
  BY <1>3, <1>5, <1>6, <1>7

LEMMA WorkKeepsPlans ==
  ASSUME PluginInv, \A o \in Calls : PlanInv(o), NEW c \in Calls, Works(c)
  PROVE  \A o \in Calls : PlanInv(o)'
<1>1. /\ CallsInv /\ Advances(c)
      /\ \A o \in Calls : o # c => calls'[o] = calls[o]
      /\ \A o \in Calls : calls'[o].cmd = calls[o].cmd
  BY WorkHolds, AdvancingLeavesOthers DEF PluginInv, CallsInv, StylesStep
<1>2. ASSUME NEW o \in Calls, o # c PROVE PlanInv(o)'
  BY <1>1, <1>2 DEF PlanInv, OpAt, IsPlan, Ops, Plan, Cmd
<1>3. PlanInv(c)'
  <2> SUFFICES ASSUME IsPlan(c)', calls'[c].pc \notin {"idle", "run", "page", "done"}
               PROVE  OpAt(c, calls[c].step)'
    BY DEF PlanInv
  <2>1. Cmd(c)' = Cmd(c) /\ IsPlan(c)
    BY <1>1 DEF Cmd, IsPlan
  <2>2. OpAt(c, calls'[c].step)
    <3>1. CASE calls[c].pc \in {"run", "page"}
      BY <1>1, <2>1, <3>1, PlansBegin
    <3>2. CASE calls[c].pc \notin {"run", "page"}
      <4>1. OpAt(c, calls[c].step)
        BY <1>1, <2>1, <3>2 DEF PlanInv, Advances, Running
      <4>. QED
        BY <1>1, <4>1 DEF Advances, Steps
    <3>. QED
      BY <3>1, <3>2
  <2>3. PICK i : i = calls'[c].step
    OBVIOUS
  <2>. QED
    BY <2>1, <2>2, <2>3, OpStays
<1>. QED
  BY <1>2, <1>3

LEMMA StartKeepsPlans ==
  ASSUME CallShape, \A o \in Calls : PlanInv(o), NEW c \in Calls, Start(c)
  PROVE  \A o \in Calls : PlanInv(o)'
<1>1. PICK k, x : Started(c, k, x)
  BY StartEffect
<1>2. calls'[c] = x /\ \A o \in Calls : o # c => SameCall(calls'[o], calls[o])
  BY <1>1, DisturbedCalls DEF Started, CallShape, SameCall
<1>3. ASSUME NEW o \in Calls, o # c PROVE PlanInv(o)'
  BY <1>2, <1>3 DEF PlanInv, SameCall, OpAt, IsPlan, Ops, Plan, Cmd
<1>4. PlanInv(c)'
  BY <1>1, <1>2 DEF Started, PlanInv, IsPlan, Cmd
<1>. QED
  BY <1>3, <1>4

LEMMA DisturbingKeepsPlans ==
  ASSUME CallShape, \A o \in Calls : PlanInv(o), calls' = Disturbed
  PROVE  \A o \in Calls : PlanInv(o)'
<1>1. ASSUME NEW o \in Calls PROVE PlanInv(o)'
  <2>1. SameCall(calls'[o], calls[o])
    BY DisturbedCalls
  <2>. QED
    BY <2>1 DEF PlanInv, SameCall, OpAt, IsPlan, Ops, Plan, Cmd
<1>. QED
  BY <1>1

-----------------------------------------------------------------------------
(* A swap goes on from its first lookup to its second and then swaps.      *)
LEMMA SwapStays ==
  ASSUME NEW o, SwapInv(o), Tags(doc, doc'), SameCall(calls'[o], calls[o])
  PROVE  SwapInv(o)'
<1> SUFFICES ASSUME Running(o)', Cmd(o)'.op = "instance.swap"
             PROVE  /\ calls'[o].pc \in {"node", "run"} /\ calls'[o].got \in Seq(DOMAIN doc')
                    /\ calls'[o].pc = "run" => calls'[o].got # <<>>
                    /\ calls'[o].got # <<>> /\ Live(doc', calls'[o].got[1]) =>
                         doc'[calls'[o].got[1]].type = "INSTANCE"
  BY DEF SwapInv
<1>1. /\ calls[o].pc \in {"node", "run"} /\ calls[o].got \in Seq(DOMAIN doc)
      /\ calls[o].pc = "run" => calls[o].got # <<>>
      /\ calls[o].got # <<>> /\ Live(doc, calls[o].got[1]) => doc[calls[o].got[1]].type = "INSTANCE"
  BY DEF SwapInv, SameCall, Running, Cmd
<1>2. calls'[o].pc = calls[o].pc /\ calls'[o].got = calls[o].got
  BY DEF SameCall
<1>3. calls[o].got \in Seq(DOMAIN doc')
  BY <1>1 DEF Tags
<1>4. ASSUME calls[o].got # <<>>, Live(doc', calls[o].got[1])
      PROVE  doc'[calls[o].got[1]].type = "INSTANCE"
  <2>1. calls[o].got[1] \in DOMAIN doc
    BY <1>1, <1>4
  <2>. QED
    BY <1>1, <1>4, <2>1 DEF Tags, Live, LiveNodes
<1>. QED
  BY <1>1, <1>2, <1>3, <1>4

LEMMA AppendFirst ==
  ASSUME NEW S, NEW s \in Seq(S), NEW e \in S
  PROVE  /\ Append(s, e) \in Seq(S) /\ Append(s, e) # <<>>
         /\ s = <<>> => Append(s, e)[1] = e
         /\ s # <<>> => Append(s, e)[1] = s[1]
<1>1. Append(s, e) \in Seq(S) /\ Len(Append(s, e)) = Len(s) + 1 /\ Len(s) \in Nat
  OBVIOUS
<1>2. s # <<>> => Len(s) > 0
  OBVIOUS
<1>3. Append(s, e) # <<>>
  BY <1>1
<1>4. s # <<>> => Append(s, e)[1] = s[1]
  BY <1>1, <1>2
<1>5. s = <<>> => Append(s, e)[1] = e
  OBVIOUS
<1>. QED
  BY <1>1, <1>3, <1>4, <1>5

LEMMA SwapGoesOn ==
  ASSUME CallsInv, NEW c \in Calls, Running(c), SwapInv(c), Works(c), Cmd(c).op = "instance.swap"
  PROVE  SwapInv(c)'
<1>1. calls[c].pc \in {"node", "run"}
  BY DEF SwapInv
<1>0. /\ calls[c].got \in Seq(DOMAIN doc)
      /\ calls[c].got # <<>> /\ Live(doc, calls[c].got[1]) => doc[calls[c].got[1]].type = "INSTANCE"
  BY DEF SwapInv
<1>2. NodeAnswered(c) \/ InstanceSwap(c)
  <2>1. ~FontAnswered(c) /\ ~LoadAnswered(c)
    BY <1>1 DEF FontAnswered, LoadAnswered, Answered
  <2>2. HandlerStep(c) => InstanceSwap(c)
    BY <1>1 DEF HandlerStep, DeleteNode, ReorderNode, MoveNode, BooleanOp, GroupNodes,
       UngroupNode, CreateComponentSet, CreateInstance, InstanceParentAnswered, InstanceOverride,
       ComponentProperty, SetMask, PatchNode, TextRange, FontReady, ReadNode, ReadSelection,
       ReadComponents, MainsAnswered, ReadStatus, Handling, At, Answered
  <2>3. ~StyleStep(c)
    BY <1>1 DEF StyleStep, FindStyle, ListAnswered, ListStyles, CreateStyle, FinishTextStyle,
       DeleteStyle, ApplyStyle, SetsStyle, StyleSet, At, Answered
  <2>4. ~VariableStep(c)
    BY <1>1 DEF VariableStep, ManageVariables, Manages, CollectionAnswered, BindVariable,
       VariableAnswered, At, Answered
  <2>5. ~DesignStep(c)
    BY <1>1 DEF DesignStep, ApplyPlan, PageShown, BuildNode, IntrinsicDone, PlanSetsStyle,
       PlanStyleSet, BuildBoolean, PlaceNode, FinishPlan, IsPlan, At, Answered
  <2>. QED
    BY <2>1, <2>2, <2>3, <2>4, <2>5 DEF Works
<1>3. Cmd(c) \in Commands /\ Len(Cmd(c).ids) = 2
  <2>1. Cmd(c) \in Commands
    BY DEF CallsInv, CallInv, Running
  <2>. QED
    BY <2>1, CommandAssumption
<1>4. CallShape
  BY DEF CallsInv
<1>5. ASSUME NEW out, Answers(c, out) PROVE SwapInv(c)'
  BY <1>4, <1>5, AnswersEnds DEF SwapInv, Running
<1>6. CASE InstanceSwap(c)
  BY <1>5, <1>6 DEF InstanceSwap, Does, Throws
<1>7. CASE NodeAnswered(c)
  <2> DEFINE i == Len(calls[c].got) + 1
             n == Cmd(c).ids[i]
             got == Append(calls[c].got, n)
             pc == IF i = Len(Cmd(c).ids) THEN "run" ELSE "node"
  <2>1. \/ \E out : Answers(c, out)
        \/ /\ Live(doc, n) /\ ~Unfit(Cmd(c), i, n)
           /\ calls' = [calls EXCEPT ![c].got = Append(@, n), ![c].pc = pc]
    BY <1>7 DEF NodeAnswered
  <2>2. UNCHANGED doc
    BY <1>7 DEF NodeAnswered
  <2>3. ASSUME Live(doc, n), ~Unfit(Cmd(c), i, n),
               calls' = [calls EXCEPT ![c].got = Append(@, n), ![c].pc = pc]
        PROVE  SwapInv(c)'
    <3>1. calls'[c].got = got /\ calls'[c].pc = pc /\ calls'[c].cmd = Cmd(c)
      BY <1>4, <2>3 DEF CallShape, IsCall, Idle, Cmd
    <3>2. n \in DOMAIN doc
      BY <2>3 DEF Live
    <3>4. got \in Seq(DOMAIN doc) /\ got # <<>> /\ (calls[c].got # <<>> => got[1] = calls[c].got[1])
          /\ (calls[c].got = <<>> => got[1] = n)
      <4> HIDE DEF n
      <4>. QED
        BY <1>0, <3>2, AppendFirst
    <3>3. Live(doc, got[1]) => doc[got[1]].type = "INSTANCE"
      <4>1. CASE calls[c].got = <<>>
        BY <2>3, <3>4, <4>1 DEF Unfit
      <4>2. CASE calls[c].got # <<>>
        BY <1>0, <3>4, <4>2
      <4>. QED
        BY <4>1, <4>2
    <3> HIDE DEF got
    <3>. QED
      BY <2>2, <3>1, <3>3, <3>4 DEF SwapInv, Live
  <2>. QED
    BY <1>5, <2>1, <2>3
<1>. QED
  BY <1>2, <1>6, <1>7

LEMMA WorkKeepsSwaps ==
  ASSUME PluginInv, \A o \in Calls : SwapInv(o), NEW c \in Calls, Works(c), Tags(doc, doc')
  PROVE  \A o \in Calls : SwapInv(o)'
<1>1. CallsInv /\ Advances(c) /\ \A o \in Calls : o # c => calls'[o] = calls[o]
  BY WorkHolds, AdvancingLeavesOthers DEF PluginInv, CallsInv, StylesStep
<1>2. ASSUME NEW o \in Calls, o # c PROVE SwapInv(o)'
  BY <1>1, <1>2, SwapStays DEF SameCall
<1>3. CASE Cmd(c).op = "instance.swap"
  <2>1. Running(c)
    BY <1>1 DEF Advances
  <2>. QED
    BY <1>1, <1>2, <1>3, <2>1, SwapGoesOn
<1>4. CASE Cmd(c).op # "instance.swap"
  <2>1. SwapInv(c)'
    BY <1>1, <1>4 DEF SwapInv, Advances, Cmd
  <2>. QED
    BY <1>2, <2>1
<1>. QED
  BY <1>3, <1>4

LEMMA StartKeepsSwaps ==
  ASSUME CallShape, \A o \in Calls : SwapInv(o), NEW c \in Calls, Start(c)
  PROVE  \A o \in Calls : SwapInv(o)'
<1>0. PICK k \in Commands : \E x : Started(c, k, x)
  BY StartEffect
<1>1. PICK x : Started(c, k, x)
  BY <1>0
<1>2. calls'[c] = x /\ \A o \in Calls : o # c => SameCall(calls'[o], calls[o])
  BY <1>1, DisturbedCalls DEF Started, CallShape, SameCall
<1>3. UNCHANGED doc /\ Tags(doc, doc')
  BY UnchangedTags DEF Start
<1>4. ASSUME NEW o \in Calls, o # c PROVE SwapInv(o)'
  BY <1>2, <1>3, <1>4, SwapStays
<1>5. SwapInv(c)'
  <2> SUFFICES ASSUME x.pc # "done", k.op = "instance.swap" PROVE SwapInv(c)'
    BY <1>1, <1>2 DEF SwapInv, Started, Running, Cmd
  <2>1. x.got = <<>> /\ x.pc = firstPc(k)
    BY <1>1 DEF Started
  <2>2. Len(k.ids) = 2
    BY CommandAssumption
  <2>3. k.ids # <<>>
    BY <2>2
  <2>4. x.pc = "node"
    BY <2>1, <2>3 DEF firstPc, LookupFirst, StyleFirst
  <2>. QED
    BY <1>2, <2>1, <2>4 DEF SwapInv
<1>. QED
  BY <1>4, <1>5

LEMMA DisturbingKeepsSwaps ==
  ASSUME CallShape, \A o \in Calls : SwapInv(o), calls' = Disturbed, Tags(doc, doc')
  PROVE  \A o \in Calls : SwapInv(o)'
<1>1. ASSUME NEW o \in Calls PROVE SwapInv(o)'
  BY DisturbedCalls, SwapStays
<1>. QED
  BY <1>1

LEMMA GroupsStayUnkeyed ==
  ASSUME NoKeyedGroups(doc), Tags(doc, doc')
  PROVE  NoKeyedGroups(doc')
<1>1. \A n \in LiveNodes(doc') : n \in DOMAIN doc \/ n \notin DOMAIN doc
  OBVIOUS
<1>. QED
  BY <1>1 DEF Tags, NoKeyedGroups

-----------------------------------------------------------------------------
DocInv ==
  /\ IsDocument(doc) /\ NoKeyedGroups(doc) /\ PageStands /\ moves \in Nat
  /\ \A c \in Calls : PlanInv(c) /\ SwapInv(c)

LEMMA InitDocument == Init => DocInv
BY FileAssumption DEF Init, CallsInit, DocInv, PageStands, PlanInv, SwapInv, Running, IsPlan, Cmd,
   Idle, Live, LiveNodes

LEMMA NextKeepsDocument ==
  ASSUME PluginInv, DocInv, [Next]_pluginVars
  PROVE  DocInv'
<1> USE DEF DocInv
<1>1. CallsInv /\ CallShape
  BY DEF PluginInv, CallsInv
<1>2. ASSUME NEW c \in Calls, Start(c), UNCHANGED moves PROVE DocInv'
  <2>1. UNCHANGED <<doc, page>>
    BY <1>2 DEF Start
  <2>2. IsDocument(doc)' /\ PageStands' /\ NoKeyedGroups(doc)'
    BY <2>1 DEF PageStands, NoKeyedGroups
  <2>. QED
    BY <1>1, <1>2, <2>2, StartKeepsPlans, StartKeepsSwaps
<1>3. ASSUME NEW c \in Calls, Works(c), UNCHANGED moves PROVE DocInv'
  <2>1. Tends(c)
    <3>1. IsPlan(c) /\ calls[c].pc = "build" => OpAt(c, calls[c].step)
      BY DEF PlanInv
    <3>. QED
      BY <1>1, <1>3, <3>1, WorkTends DEF PageStands
  <2>2. IsDocument(doc)' /\ PageStands' /\ Tags(doc, doc')
    BY <1>3, <2>1, WorkShowsPages DEF Tends
  <2>. QED
    BY <1>3, <2>2, WorkKeepsPlans, WorkKeepsSwaps, GroupsStayUnkeyed
<1>4. CASE UserDeletesNode \/ UserShowsPage \/ UserDeletesStyle \/ UserCreatesStyle
  <2>1. calls' = Disturbed /\ moves' \in Nat
    BY <1>4 DEF UserDeletesNode, UserShowsPage, UserDeletesStyle, UserCreatesStyle, UserActs
  <2>. QED
    BY <1>1, <1>4, <2>1, UserTends, DisturbingKeepsPlans, DisturbingKeepsSwaps, GroupsStayUnkeyed
<1>5. CASE UNCHANGED pluginVars
  <2>1. UNCHANGED <<doc, page, moves, calls>>
    BY <1>5 DEF pluginVars
  <2>2. \A c \in Calls : SwapInv(c)'
    BY <2>1, SwapStays, UnchangedTags DEF SameCall
  <2>. QED
    BY <2>1, <2>2 DEF PageStands, PlanInv, OpAt, IsPlan, Ops, Plan, Cmd, NoKeyedGroups
<1>. QED
  BY <1>2, <1>3, <1>4, <1>5 DEF Next, CallStep, Works, Rest

LEMMA DocumentInvariant == Spec => [](PluginInv /\ DocInv)
<1>1. Init => PluginInv /\ DocInv
  BY InitPlugin, InitDocument
<1>2. PluginInv /\ DocInv /\ [Next]_pluginVars => (PluginInv /\ DocInv)'
  BY NextKeepsPlugin, NextKeepsDocument
<1>. QED
  BY <1>1, <1>2, PTL DEF Spec

(* Whatever the commands do to the file, also while they overlap and the   *)
(* user steps in: it stays a forest of nodes, each listed once, by its     *)
(* parent, under a page; the page on show is there; only a command under   *)
(* way has the turn; a style cache names styles that have existed.         *)
THEOREM PluginTyped == Spec => []PluginTypeOK
<1>1. ASSUME PluginInv, DocInv PROVE PluginTypeOK
  <2>1. CallsInv /\ StylesInv /\ IsDocument(doc) /\ PageStands
    BY <1>1 DEF PluginInv, DocInv
  <2>2. \A n \in DOMAIN doc : doc[n].type \in NodeTypes
    BY <2>1 DEF IsDocument, IsTree, IsNode
  <2>3. IsForest(doc)
    BY <2>1, TreeIsForest DEF IsDocument
  <2>4. Live(doc, page) /\ doc[page].type = "PAGE"
    BY <2>1 DEF PageStands, LiveNodes, Live
  <2>5. \A kind \in Kinds : cache[kind] = None \/ cache[kind] \subseteq DOMAIN styles
    BY <2>1 DEF StylesInv, TrueList, KnownStyles
  <2>. QED
    BY <2>1, <2>2, <2>3, <2>4, <2>5 DEF PluginTypeOK, CallsInv
<1>2. PluginInv /\ DocInv => PluginTypeOK
  BY <1>1
<1>. QED
  BY <1>2, DocumentInvariant, PTL

(* Moving, reordering, grouping, ungrouping, combining, instantiating,     *)
(* styling and building lose no content: a node that is not a group goes   *)
(* only when a command that deletes, or the user, takes it away, and the   *)
(* boolean that a sync makes anew goes only as the leaf it has become.     *)
THEOREM ContentStays == Spec => ContentSurvives
<1> DEFINE Kept == moves' = moves /\ (\A c \in Calls : ~Deleting(c)) =>
                     Content(doc) \ UNION {Replaced(c) : c \in Calls} \subseteq Content(doc')
<1>1. ASSUME PluginInv, DocInv, [Next]_pluginVars, moves' = moves, \A c \in Calls : ~Deleting(c)
      PROVE  Content(doc) \ UNION {Replaced(c) : c \in Calls} \subseteq Content(doc')
  <2>1. IsDocument(doc) /\ PageStands /\ CallsInv
    BY <1>1 DEF DocInv, PluginInv
  <2>2. ASSUME NEW c \in Calls, Works(c)
        PROVE  Content(doc) \ UNION {Replaced(o) : o \in Calls} \subseteq Content(doc')
    <3>1. IsPlan(c) /\ calls[c].pc = "build" => OpAt(c, calls[c].step)
      BY <1>1 DEF DocInv, PlanInv
    <3>2. Tends(c)
      BY <1>1, <2>1, <2>2, <3>1, WorkTends DEF PageStands, DocInv
    <3>3. Spares(doc, doc', Replaced(c))
      BY <1>1, <3>2 DEF Tends
    <3>4. Content(doc) \ Replaced(c) \subseteq Content(doc')
      BY <3>3 DEF Spares, Content
    <3>. QED
      BY <3>4
  <2>3. CASE UNCHANGED doc
    BY <2>3 DEF Content
  <2>4. ASSUME NEW c \in Calls, Start(c) PROVE UNCHANGED doc
    BY <2>4 DEF Start
  <2>5. ~UserActs
    <3>1. moves # moves + 1
      BY <1>1 DEF DocInv
    <3>. QED
      BY <1>1, <3>1 DEF UserActs
  <2>. QED
    BY <1>1, <2>2, <2>3, <2>4, <2>5 DEF Next, CallStep, Works, Rest, UserDeletesNode,
       UserShowsPage, UserDeletesStyle, UserCreatesStyle, pluginVars
<1>2. PluginInv /\ DocInv /\ [Next]_pluginVars => [Kept]_pluginVars
  BY <1>1
<1> HIDE DEF Kept
<1>3. Spec => [][Kept]_pluginVars
  BY <1>2, DocumentInvariant, PTL DEF Spec
<1>. QED
  BY <1>3, PTL DEF ContentSurvives, Kept

-----------------------------------------------------------------------------
(***************************************************************************)
(* A plan under way: what its records say of the file.                     *)
(***************************************************************************)
LEMMA GreatestNumber ==
  ASSUME NEW n \in Nat, NEW S, S \subseteq 1..n, S # {}
  PROVE  Max(S) \in S
<1> DEFINE T == {n - i : i \in S}
<1>1. T \subseteq Nat /\ T # {}
  <2>1. \A i \in S : n - i \in Nat
    OBVIOUS
  <2>. QED
    BY <2>1
<1> HIDE DEF T
<1>2. PICK t \in T : \A u \in T : t <= u
  BY <1>1, LeastNumber
<1>3. PICK m \in S : t = n - m
  BY DEF T
<1>4. ASSUME NEW i \in S PROVE m >= i
  <2>1. n - i \in T
    BY DEF T
  <2>2. t <= n - i /\ i \in Nat /\ m \in Nat
    BY <1>2, <2>1
  <2>. QED
    BY <1>3, <2>2
<1>5. \E x \in S : \A y \in S : x >= y
  BY <1>4
<1>. QED
  BY <1>5, Zenon DEF Max

(* A handle of a node with this plan key, as long as it is there.          *)
HasTag(d, n, k) ==
  n \in DOMAIN d /\ (Live(d, n) => d[n].type # "INSTANCE" /\ d[n].key = k)

LEMMA IndexTags ==
  ASSUME IsDocument(doc), NEW container \in DOMAIN doc
  PROVE  LET index == indexExistingByKey(container)
         IN  \A k \in DOMAIN index : k # None /\ HasTag(doc, index[k], k)
<1> DEFINE walk == Walk(doc, container)
           found == {i \in 2..Len(walk) : doc[walk[i]].key # None}
           at(k) == {i \in found : doc[walk[i]].key = k}
           keys == {doc[walk[i]].key : i \in found}
<1>1. walk \in Seq({m \in DOMAIN doc : doc[m].type # "INSTANCE"})
  BY WalkRange DEF IsDocument
<1>2. indexExistingByKey(container) = [k \in keys |-> walk[Max(at(k))]]
  BY DEF indexExistingByKey
<1> HIDE DEF walk
<1>3. ASSUME NEW k \in keys
      PROVE  k # None /\ HasTag(doc, walk[Max(at(k))], k)
  <2>1. k # None /\ at(k) # {}
    OBVIOUS
  <2>2. Len(walk) \in Nat /\ at(k) \subseteq 1..Len(walk)
    BY <1>1
  <2> HIDE DEF keys
  <2>3. PICK m : m = Max(at(k))
    OBVIOUS
  <2>4. m \in at(k)
    <3> HIDE DEF at
    <3>. QED
      BY <2>1, <2>2, <2>3, GreatestNumber
  <2>5. m \in 1..Len(walk) /\ doc[walk[m]].key = k
    BY <1>1, <2>4
  <2>6. walk[m] \in DOMAIN doc /\ doc[walk[m]].type # "INSTANCE"
    BY <1>1, <2>5
  <2>. QED
    BY <2>1, <2>3, <2>5, <2>6 DEF HasTag
<1>. QED
  BY <1>2, <1>3

LEMMA TagStays ==
  ASSUME NEW d, NEW e, Tags(d, e), NEW n, NEW k, HasTag(d, n, k)
  PROVE  HasTag(e, n, k)
BY DEF Tags, HasTag, Live, LiveNodes

(* The ops of a plan, and what the record x of a call that works on them   *)
(* says: it has built every node up to its place in the passes, and no     *)
(* boolean before its turn.                                                *)
PlanOps(p) ==
  /\ Len(p) \in Nat \ {0} /\ DOMAIN p = 1..Len(p) /\ IsPlanTree(p)
  /\ \A i \in 1..Len(p) : p[i].type \in PlanTypes
IsBoolean(o) == o.type = "BOOLEAN_OPERATION"
Early == {"build", "font", "fonted", "find", "list", "relist", "styled", "set"}
Late == {"bool", "place", "prune"}
Progress(p, x) ==
  /\ x.pc \in Early \cup Late /\ x.step \in 1..Len(p)
  /\ DOMAIN x.built \subseteq KeysOf(p)
  /\ \A i \in 1..Len(p) :
       /\ ~IsBoolean(p[i]) /\ (i < x.step \/ (i = x.step /\ x.pc # "build") \/ x.pc \in Late)
            => p[i].key \in DOMAIN x.built
       /\ IsBoolean(p[i]) /\ (x.pc \in Early \/ (x.pc = "bool" /\ i >= x.step))
            => p[i].key \notin DOMAIN x.built

(* The handles it keeps are those of nodes with these keys.                *)
Tagged(p, x, d) ==
  /\ x.got[1] \in LiveNodes(d) /\ d[x.got[1]].type = "PAGE"
  /\ \A k \in DOMAIN x.index : k # None /\ HasTag(d, x.index[k], k)
  /\ \A k \in DOMAIN x.built : HasTag(d, x.built[k], k)
  /\ \A i \in 1..Len(p) : p[i].key \in DOMAIN x.built =>
       \/ p[i].key \in DOMAIN x.index /\ x.built[p[i].key] = x.index[p[i].key]
       \/ Live(d, x.built[p[i].key]) => d[x.built[p[i].key]].type = p[i].type

(* How a record goes on: with the next op, or with one more node built.    *)
SamePlan(x, y) == y.got = x.got /\ y.index = x.index
NextInPass(p, x, y, pc, after) ==
  /\ SamePlan(x, y)
  /\ IF x.step < Len(p) THEN y.step = x.step + 1 /\ y.pc = pc ELSE y.step = 1 /\ y.pc = after
Gains(x, y, k, n) ==
  y.built = [j \in DOMAIN x.built \cup {k} |-> IF j = k THEN n ELSE x.built[j]]

LEMMA ProgressOfWait ==
  ASSUME NEW p, NEW x, Progress(p, x), NEW y, y.step = x.step, y.built = x.built,
         x.pc \in Early \ {"build"}, y.pc \in Early \ {"build"}
  PROVE  Progress(p, y)
BY DEF Progress, Early, Late

LEMMA ProgressOfBuilding ==
  ASSUME NEW p, PlanOps(p), NEW x, Progress(p, x), x.pc = "build", ~IsBoolean(p[x.step]),
         NEW y, y.step = x.step, y.pc \in Early \ {"build"}, NEW n, Gains(x, y, p[x.step].key, n)
  PROVE  Progress(p, y)
<1> DEFINE k == p[x.step].key
<1>1. DOMAIN y.built = DOMAIN x.built \cup {k}
  BY DEF Gains
<1>2. k \in KeysOf(p)
  BY DEF Progress, KeysOf
<1>3. \A i \in 1..Len(p) : p[i].key = k => i = x.step
  BY DEF PlanOps, IsPlanTree, Progress
<1>4. \A i \in 1..Len(p) : IsBoolean(p[i]) => p[i].key \notin DOMAIN x.built /\ p[i].key # k
  BY <1>3 DEF Progress, Early
<1>5. \A i \in 1..Len(p) : ~IsBoolean(p[i]) /\ (i < x.step \/ i = x.step) => p[i].key \in DOMAIN y.built
  BY <1>1 DEF Progress
<1> HIDE DEF k
<1>. QED
  BY <1>1, <1>2, <1>4, <1>5 DEF Progress, Early, Late

LEMMA ProgressOfNext ==
  ASSUME NEW p, PlanOps(p), NEW x, Progress(p, x), x.pc \in Early,
         x.pc = "build" => IsBoolean(p[x.step]),
         NEW y, y.built = x.built, NextInPass(p, x, y, "build", "bool")
  PROVE  Progress(p, y)
<1>1. \A i \in 1..Len(p) : IsBoolean(p[i]) => p[i].key \notin DOMAIN x.built
  BY DEF Progress, Early
<1>2. \A i \in 1..Len(p) : ~IsBoolean(p[i]) /\ (i < x.step \/ i = x.step) => p[i].key \in DOMAIN x.built
  BY DEF Progress
<1>3. Len(p) \in Nat \ {0} /\ x.step \in 1..Len(p) /\ DOMAIN x.built \subseteq KeysOf(p)
  BY DEF Progress, PlanOps
<1>4. CASE x.step < Len(p)
  <2>1. y.step = x.step + 1 /\ y.pc = "build"
    BY <1>4 DEF NextInPass
  <2>2. \A i \in 1..Len(p) : i < y.step => i < x.step \/ i = x.step
    BY <1>3, <2>1
  <2>. QED
    BY <1>1, <1>2, <1>3, <1>4, <2>1, <2>2 DEF Progress, Early, Late
<1>5. CASE ~(x.step < Len(p))
  <2>1. y.step = 1 /\ y.pc = "bool"
    BY <1>5 DEF NextInPass
  <2>2. \A i \in 1..Len(p) : i < x.step \/ i = x.step
    BY <1>3, <1>5
  <2>. QED
    BY <1>1, <1>2, <1>3, <2>1, <2>2 DEF Progress, Early, Late
<1>. QED
  BY <1>4, <1>5

(* The boolean pass: this op is skipped, or a boolean made and recorded.   *)
LEMMA ProgressOfBoolean ==
  ASSUME NEW p, PlanOps(p), NEW x, Progress(p, x), x.pc = "bool",
         NEW y, NextInPass(p, x, y, "bool", "place"),
         y.built = x.built \/ \E n : Gains(x, y, p[x.step].key, n)
  PROVE  Progress(p, y)
<1>1. Len(p) \in Nat \ {0} /\ x.step \in 1..Len(p) /\ DOMAIN x.built \subseteq KeysOf(p)
  BY DEF Progress, PlanOps
<1>2. DOMAIN x.built \subseteq DOMAIN y.built /\ DOMAIN y.built \subseteq DOMAIN x.built \cup {p[x.step].key}
  BY DEF Gains
<1>3. DOMAIN y.built \subseteq KeysOf(p)
  BY <1>1, <1>2 DEF KeysOf
<1>4. \A i \in 1..Len(p) : ~IsBoolean(p[i]) => p[i].key \in DOMAIN y.built
  BY <1>2 DEF Progress, Late
<1>5. ASSUME NEW i \in 1..Len(p), IsBoolean(p[i]), i > x.step PROVE p[i].key \notin DOMAIN y.built
  <2>1. p[i].key \notin DOMAIN x.built
    BY <1>1, <1>5 DEF Progress
  <2>2. p[i].key # p[x.step].key
    BY <1>1, <1>5 DEF PlanOps, IsPlanTree
  <2>. QED
    BY <1>2, <2>1, <2>2
<1>6. CASE x.step < Len(p)
  <2>1. y.step = x.step + 1 /\ y.pc = "bool"
    BY <1>6 DEF NextInPass
  <2>2. \A i \in 1..Len(p) : i >= y.step => i > x.step
    BY <1>1, <2>1
  <2>. QED
    BY <1>1, <1>3, <1>4, <1>5, <1>6, <2>1, <2>2 DEF Progress, Early, Late
<1>7. CASE ~(x.step < Len(p))
  <2>1. y.step = 1 /\ y.pc = "place"
    BY <1>7 DEF NextInPass
  <2>. QED
    BY <1>1, <1>3, <1>4, <2>1 DEF Progress, Early, Late
<1>. QED
  BY <1>6, <1>7

LEMMA ProgressOfPlacing ==
  ASSUME NEW p, PlanOps(p), NEW x, Progress(p, x), x.pc = "place",
         NEW y, NextInPass(p, x, y, "place", "prune"), y.built = x.built
  PROVE  Progress(p, y)
<1>1. Len(p) \in Nat \ {0} /\ x.step \in 1..Len(p) /\ DOMAIN x.built \subseteq KeysOf(p)
  BY DEF Progress, PlanOps
<1>2. \A i \in 1..Len(p) : ~IsBoolean(p[i]) => p[i].key \in DOMAIN x.built
  BY DEF Progress, Late
<1>3. y.step \in 1..Len(p) /\ y.pc \in {"place", "prune"}
  BY <1>1 DEF NextInPass
<1>. QED
  BY <1>1, <1>2, <1>3 DEF Progress, Early, Late

LEMMA TaggedStays ==
  ASSUME NEW p, NEW x, NEW d, Tagged(p, x, d), NEW y, SamePlan(x, y), y.built = x.built,
         NEW e, Tags(d, e), \A n \in LiveNodes(d) :
                              d[n].type = "PAGE" => n \in LiveNodes(e) /\ e[n].type = "PAGE"
  PROVE  Tagged(p, y, e)
<1>1. y.got[1] \in LiveNodes(e) /\ e[y.got[1]].type = "PAGE"
  BY DEF Tagged, SamePlan
<1>2. \A k \in DOMAIN y.index : k # None /\ HasTag(e, y.index[k], k)
  BY TagStays DEF Tagged, SamePlan
<1>3. \A k \in DOMAIN y.built : HasTag(e, y.built[k], k)
  BY TagStays DEF Tagged
<1>4. ASSUME NEW i \in 1..Len(p), p[i].key \in DOMAIN y.built,
             ~(p[i].key \in DOMAIN y.index /\ y.built[p[i].key] = y.index[p[i].key]),
             Live(e, y.built[p[i].key])
      PROVE  e[y.built[p[i].key]].type = p[i].type
  <2>1. PICK n : n = y.built[p[i].key]
    OBVIOUS
  <2>2. HasTag(d, n, p[i].key) /\ (Live(d, n) => d[n].type = p[i].type)
    BY <1>4, <2>1 DEF Tagged, SamePlan
  <2>. QED
    BY <1>4, <2>1, <2>2 DEF Tags, HasTag, Live, LiveNodes
<1>. QED
  BY <1>1, <1>2, <1>3, <1>4 DEF Tagged

LEMMA TaggedGains ==
  ASSUME NEW p, PlanOps(p), NEW x, NEW d, Tagged(p, x, d), NEW y, SamePlan(x, y),
         NEW i \in 1..Len(p), NEW n, Gains(x, y, p[i].key, n), HasTag(d, n, p[i].key),
         \/ p[i].key \in DOMAIN x.index /\ n = x.index[p[i].key]
         \/ d[n].type = p[i].type
  PROVE  Tagged(p, y, d)
<1> DEFINE k == p[i].key
<1>1. DOMAIN y.built = DOMAIN x.built \cup {k} /\ y.built[k] = n
      /\ \A j \in DOMAIN x.built : j # k => y.built[j] = x.built[j]
  BY DEF Gains
<1>2. \A j \in 1..Len(p) : p[j].key = k => j = i
  BY DEF PlanOps, IsPlanTree
<1>3. \A j \in DOMAIN y.built : HasTag(d, y.built[j], j)
  BY <1>1 DEF Tagged
<1>4. ASSUME NEW j \in 1..Len(p), p[j].key \in DOMAIN y.built
      PROVE  \/ p[j].key \in DOMAIN y.index /\ y.built[p[j].key] = y.index[p[j].key]
             \/ Live(d, y.built[p[j].key]) => d[y.built[p[j].key]].type = p[j].type
  <2>1. CASE j = i
    BY <1>1, <2>1 DEF SamePlan
  <2>2. CASE j # i
    <3>1. p[j].key # k /\ p[j].key \in DOMAIN x.built /\ y.built[p[j].key] = x.built[p[j].key]
      BY <1>1, <1>2, <1>4, <2>2
    <3>. QED
      BY <3>1 DEF Tagged, SamePlan
  <2>. QED
    BY <2>1, <2>2
<1> HIDE DEF k
<1>. QED
  BY <1>3, <1>4 DEF Tagged, SamePlan

-----------------------------------------------------------------------------
(* What the passes over booleans and parents have done by now: the boolean *)
(* ops handled hold the nodes under them, and a node placed hangs under    *)
(* the node of its parent op, unless that holds no children.               *)
Absorbed(p, o) == \E i \in 1..Len(p) : IsBoolean(p[i]) /\ p[i].key = o.parent
Holds(p, x, d, i) ==
  /\ p[i].key \in DOMAIN x.built => Live(d, x.built[p[i].key])
  /\ \A j \in 1..Len(p) : p[j].parent = p[i].key /\ p[j].key \in DOMAIN x.built =>
       /\ Live(d, x.built[p[j].key])
       /\ p[i].key \in DOMAIN x.built => d[x.built[p[j].key]].parent = x.built[p[i].key]
UnderLeaf(x, d, o) ==
  /\ o.parent \in DOMAIN x.built /\ Live(d, x.built[o.parent])
  /\ d[x.built[o.parent]].type \in {"RECTANGLE", "TEXT"}
InPlace(x, d, o) ==
  /\ o.key \in DOMAIN x.built /\ Live(d, x.built[o.key])
  /\ IF o.parent = None THEN d[x.built[o.key]].parent = x.got[1]
     ELSE o.parent \in DOMAIN x.built /\ d[x.built[o.key]].parent = x.built[o.parent]
Combined(x, i) == x.pc = "bool" => i < x.step
Placed(x, i) == x.pc = "prune" \/ (x.pc = "place" /\ i < x.step)
Applied(p, x, d) ==
  \A i \in 1..Len(p) :
    /\ IsBoolean(p[i]) /\ Combined(x, i) => Holds(p, x, d, i)
    /\ ~Absorbed(p, p[i]) /\ Placed(x, i) => UnderLeaf(x, d, p[i]) \/ InPlace(x, d, p[i])

LEMMA AppliedAtFirst ==
  ASSUME NEW p, NEW x, x.pc = "bool", x.step = 1, NEW d
  PROVE  Applied(p, x, d)
<1>1. \A i \in 1..Len(p) : ~(i < 1)
  OBVIOUS
<1>. QED
  BY <1>1 DEF Applied, Combined, Placed

(* Nodes of two ops are two.                                               *)
LEMMA OpsApart ==
  ASSUME NEW p, PlanOps(p), NEW x, NEW d, Tagged(p, x, d),
         NEW i \in 1..Len(p), NEW j \in 1..Len(p), i # j,
         p[i].key \in DOMAIN x.built, p[j].key \in DOMAIN x.built, Live(d, x.built[p[i].key])
  PROVE  x.built[p[i].key] # x.built[p[j].key]
<1>1. p[i].key # p[j].key
  BY DEF PlanOps, IsPlanTree
<1>. QED
  BY <1>1 DEF Tagged, HasTag

(* They are no groups.                                                     *)
LEMMA OpsAreNoGroups ==
  ASSUME NEW p, PlanOps(p), NEW x, Progress(p, x), NEW d, Tagged(p, x, d), NoKeyedGroups(d),
         NEW k \in DOMAIN x.built, Live(d, x.built[k])
  PROVE  d[x.built[k]].type # "GROUP" /\ x.built[k] \in LiveNodes(d) /\ d[x.built[k]].key = k
<1>1. k # None
  BY DEF Progress, PlanOps, IsPlanTree
<1>2. x.built[k] \in LiveNodes(d) /\ d[x.built[k]].key = k
  BY DEF Tagged, HasTag, Live, LiveNodes
<1>. QED
  BY <1>1, <1>2 DEF NoKeyedGroups

LEMMA CombinedNext ==
  ASSUME NEW p, PlanOps(p), NEW x, Progress(p, x), x.pc = "bool",
         NEW y, NextInPass(p, x, y, "bool", "place")
  PROVE  /\ \A i \in 1..Len(p) : Combined(y, i) => Combined(x, i) \/ i = x.step
         /\ \A i \in 1..Len(p) : ~Placed(y, i)
<1>1. Len(p) \in Nat \ {0} /\ x.step \in 1..Len(p)
  BY DEF Progress, PlanOps
<1>2. CASE x.step < Len(p)
  <2>1. y.step = x.step + 1 /\ y.pc = "bool"
    BY <1>2 DEF NextInPass
  <2>. QED
    BY <1>1, <2>1 DEF Combined, Placed
<1>3. CASE ~(x.step < Len(p))
  <2>1. y.step = 1 /\ y.pc = "place"
    BY <1>3 DEF NextInPass
  <2>2. \A i \in 1..Len(p) : i < x.step \/ i = x.step
    BY <1>1, <1>3
  <2>3. \A i \in 1..Len(p) : ~(i < 1)
    OBVIOUS
  <2>. QED
    BY <2>1, <2>2, <2>3 DEF Combined, Placed
<1>. QED
  BY <1>2, <1>3

LEMMA PlacedNext ==
  ASSUME NEW p, PlanOps(p), NEW x, Progress(p, x), x.pc = "place",
         NEW y, NextInPass(p, x, y, "place", "prune")
  PROVE  /\ \A i \in 1..Len(p) : Combined(x, i)
         /\ \A i \in 1..Len(p) : Placed(y, i) => Placed(x, i) \/ i = x.step
<1>1. Len(p) \in Nat \ {0} /\ x.step \in 1..Len(p)
  BY DEF Progress, PlanOps
<1>2. \A i \in 1..Len(p) : Combined(x, i)
  BY DEF Combined
<1>3. CASE x.step < Len(p)
  <2>1. y.step = x.step + 1 /\ y.pc = "place"
    BY <1>3 DEF NextInPass
  <2>. QED
    BY <1>1, <1>2, <2>1 DEF Placed
<1>4. CASE ~(x.step < Len(p))
  <2>1. \A i \in 1..Len(p) : i < x.step \/ i = x.step
    BY <1>1, <1>4
  <2>. QED
    BY <1>2, <2>1 DEF Placed
<1>. QED
  BY <1>3, <1>4

LEMMA AppliedWhenSkipped ==
  ASSUME NEW p, PlanOps(p), NEW x, Progress(p, x), x.pc = "bool", NEW d, Applied(p, x, d),
         NEW y, NextInPass(p, x, y, "bool", "place"), y.built = x.built,
         IsBoolean(p[x.step]) =>
           \A j \in 1..Len(p) : p[j].parent = p[x.step].key /\ p[j].key \in DOMAIN x.built =>
                                  Live(d, x.built[p[j].key])
  PROVE  Applied(p, y, d)
<1>1. IsBoolean(p[x.step]) => p[x.step].key \notin DOMAIN x.built /\ x.step \in 1..Len(p)
  BY DEF Progress, PlanOps
<1>2. IsBoolean(p[x.step]) => Holds(p, x, d, x.step)
  BY <1>1 DEF Holds
<1>3. \A i \in 1..Len(p) : IsBoolean(p[i]) /\ Combined(y, i) => Holds(p, x, d, i)
  BY <1>2, CombinedNext DEF Applied
<1>. QED
  BY <1>3, CombinedNext DEF Applied, Holds

LEMMA AppliedWhenMade ==
  ASSUME IsDocument(doc), NoKeyedGroups(doc),
         NEW p, PlanOps(p), NEW x, Progress(p, x), x.pc = "bool", Tagged(p, x, doc),
         Applied(p, x, doc), IsBoolean(p[x.step]),
         NEW nodes, NEW home, NEW stale, NEW gone \in SUBSET {stale},
         \A n \in nodes : Live(doc, n),
         \A n : n \in nodes <=>
                  \E j \in 1..Len(p) : /\ p[j].parent = p[x.step].key /\ p[j].key \in DOMAIN x.built
                                       /\ n = x.built[p[j].key],
         p[x.step].parent \in DOMAIN x.built => home = x.built[p[x.step].parent],
         stale = None \/ HasTag(doc, stale, p[x.step].key),
         Makes(gone, nodes, home, p[x.step].key),
         NEW y, NextInPass(p, x, y, "bool", "place"), Gains(x, y, p[x.step].key, NewId(doc))
  PROVE  Applied(p, y, doc') /\ NewId(doc) \in LiveNodes(doc')
<1> DEFINE s == x.step
           key == p[s].key
           n == NewId(doc)
<1>1. n \in Nat /\ n \notin DOMAIN doc /\ None \notin DOMAIN doc
  BY NewIds, NoneIsNoNode DEF IsDocument
<1>2. stale # n /\ n \notin gone
  BY <1>1, NoneAssumption DEF HasTag
<1>3. n \in LiveNodes(doc')
  BY <1>2 DEF Makes
<1>4. s \in 1..Len(p) /\ key \notin DOMAIN x.built
  BY DEF Progress, PlanOps
<1>5. \A i \in 1..Len(p) : p[i].key = key => i = s
  BY <1>4 DEF PlanOps, IsPlanTree
<1>6. p[s].parent # key
  <2>1. key # None
    BY <1>4 DEF PlanOps, IsPlanTree, KeysOf
  <2>2. p[s].parent \in (KeysOf(p) \ {key}) \cup {None}
    BY <1>4 DEF PlanOps, IsPlanTree
  <2>. QED
    BY <2>1, <2>2
<1>7. ASSUME NEW k \in DOMAIN x.built, Live(doc, x.built[k])
      PROVE  /\ x.built[k] \in LiveNodes(doc') /\ x.built[k] # n
             /\ doc'[x.built[k]].parent = IF x.built[k] \in nodes THEN n ELSE doc[x.built[k]].parent
  <2>1. PICK m : m = x.built[k]
    OBVIOUS
  <2>2. m \in LiveNodes(doc) /\ doc[m].type # "GROUP" /\ doc[m].key = k
    BY <1>7, <2>1, OpsAreNoGroups
  <2>3. m \in DOMAIN doc /\ m # n
    BY <1>1, <2>2 DEF LiveNodes
  <2>4. m \notin gone
    <3>1. k # key
      BY <1>4, <1>7
    <3>2. m # stale
      BY <1>1, <1>7, <2>1, <2>2, <2>3, <3>1 DEF HasTag
    <3>. QED
      BY <3>2
  <2>5. m \in LiveNodes(doc')
    BY <2>2, <2>4 DEF Makes
  <2>6. doc'[m].parent = IF m \in nodes THEN n ELSE doc[m].parent
    BY <2>3, <2>5 DEF Makes
  <2>. QED
    BY <2>1, <2>3, <2>5, <2>6
<1>8. /\ DOMAIN y.built = DOMAIN x.built \cup {key} /\ y.built[key] = n
      /\ \A k \in DOMAIN x.built : k # key /\ y.built[k] = x.built[k]
  BY <1>4 DEF Gains
<1>9. doc'[n].parent = home
  BY <1>3 DEF Makes
<1> HIDE DEF n
<1>10. Holds(p, y, doc', s)
  <2>1. Live(doc', y.built[key])
    BY <1>3, <1>8 DEF Live, LiveNodes
  <2>2. ASSUME NEW j \in 1..Len(p), p[j].parent = key, p[j].key \in DOMAIN y.built
        PROVE  Live(doc', y.built[p[j].key]) /\ doc'[y.built[p[j].key]].parent = n
    <3>1. j # s
      BY <1>6, <2>2
    <3>2. p[j].key # key /\ p[j].key \in DOMAIN x.built /\ y.built[p[j].key] = x.built[p[j].key]
      BY <1>5, <1>8, <2>2, <3>1
    <3>3. x.built[p[j].key] \in nodes
      BY <2>2, <3>2
    <3>4. Live(doc, x.built[p[j].key])
      BY <3>3
    <3>5. x.built[p[j].key] \in LiveNodes(doc') /\ doc'[x.built[p[j].key]].parent = n
      BY <1>7, <3>2, <3>3, <3>4
    <3>. QED
      BY <3>2, <3>5 DEF Live, LiveNodes
  <2>. QED
    BY <1>8, <2>1, <2>2 DEF Holds
<1>11. ASSUME NEW i \in 1..Len(p), i # s, IsBoolean(p[i]), Holds(p, x, doc, i)
       PROVE  Holds(p, y, doc', i)
  <2>1. p[i].key # key
    BY <1>5, <1>11
  <2>2. p[i].key \in DOMAIN y.built =>
          /\ p[i].key \in DOMAIN x.built /\ y.built[p[i].key] = x.built[p[i].key]
          /\ Live(doc', y.built[p[i].key])
    <3>1. ASSUME p[i].key \in DOMAIN y.built
          PROVE  /\ p[i].key \in DOMAIN x.built /\ y.built[p[i].key] = x.built[p[i].key]
                 /\ Live(doc, x.built[p[i].key])
      BY <1>8, <1>11, <2>1, <3>1 DEF Holds
    <3>2. ASSUME p[i].key \in DOMAIN y.built PROVE x.built[p[i].key] \in LiveNodes(doc')
      BY <1>7, <3>1, <3>2
    <3>. QED
      BY <3>1, <3>2 DEF Live, LiveNodes
  <2>3. ASSUME NEW j \in 1..Len(p), p[j].parent = p[i].key, p[j].key \in DOMAIN y.built, j = s
        PROVE  /\ Live(doc', y.built[p[j].key])
               /\ p[i].key \in DOMAIN y.built => doc'[y.built[p[j].key]].parent = y.built[p[i].key]
    <3>1. y.built[p[j].key] = n
      BY <1>8, <2>3
    <3>2. p[i].key \in DOMAIN x.built => home = x.built[p[i].key]
      BY <2>3
    <3>. QED
      BY <1>3, <1>9, <2>2, <3>1, <3>2 DEF Live, LiveNodes
  <2>4. ASSUME NEW j \in 1..Len(p), p[j].parent = p[i].key, p[j].key \in DOMAIN y.built, j # s
        PROVE  /\ Live(doc', y.built[p[j].key])
               /\ p[i].key \in DOMAIN y.built => doc'[y.built[p[j].key]].parent = y.built[p[i].key]
    <3>1. p[j].key # key /\ p[j].key \in DOMAIN x.built /\ y.built[p[j].key] = x.built[p[j].key]
      BY <1>5, <1>8, <2>4
    <3>2. /\ Live(doc, x.built[p[j].key])
          /\ p[i].key \in DOMAIN x.built => doc[x.built[p[j].key]].parent = x.built[p[i].key]
      BY <1>11, <2>4, <3>1 DEF Holds
    <3>3. x.built[p[j].key] \notin nodes
      <4> SUFFICES ASSUME x.built[p[j].key] \in nodes PROVE FALSE
        OBVIOUS
      <4>1. PICK m \in 1..Len(p) : /\ p[m].parent = key /\ p[m].key \in DOMAIN x.built
                                   /\ x.built[p[j].key] = x.built[p[m].key]
        OBVIOUS
      <4>2. j # m
        BY <2>1, <2>4, <4>1
      <4>. QED
        BY <3>1, <3>2, <4>1, <4>2, OpsApart
    <3>4. /\ x.built[p[j].key] \in LiveNodes(doc')
          /\ doc'[x.built[p[j].key]].parent = doc[x.built[p[j].key]].parent
      BY <1>7, <3>1, <3>2, <3>3
    <3>. QED
      BY <2>2, <3>1, <3>2, <3>4 DEF Live, LiveNodes
  <2>. QED
    BY <2>2, <2>3, <2>4 DEF Holds
<1>12. ASSUME NEW i \in 1..Len(p), IsBoolean(p[i]), Combined(y, i) PROVE Holds(p, y, doc', i)
  <2>1. Combined(x, i) \/ i = s
    BY <1>12, CombinedNext
  <2>2. CASE i = s
    BY <1>10, <2>2
  <2>3. CASE i # s
    <3>1. Holds(p, x, doc, i)
      BY <1>12, <2>1, <2>3 DEF Applied
    <3>. QED
      BY <1>11, <1>12, <2>3, <3>1
  <2>. QED
    BY <2>2, <2>3
<1>. QED
  BY <1>3, <1>12, CombinedNext DEF Applied, n

LEMMA AppliedWhenLeft ==
  ASSUME NEW p, PlanOps(p), NEW x, Progress(p, x), x.pc = "place", NEW d, Applied(p, x, d),
         NEW y, NextInPass(p, x, y, "place", "prune"), y.built = x.built,
         Absorbed(p, p[x.step]) \/ UnderLeaf(x, d, p[x.step])
  PROVE  Applied(p, y, d)
<1>1. \A i \in 1..Len(p) : IsBoolean(p[i]) => Holds(p, y, d, i)
  BY PlacedNext DEF Applied, Holds
<1>2. ASSUME NEW i \in 1..Len(p), ~Absorbed(p, p[i]), Placed(y, i)
      PROVE  UnderLeaf(y, d, p[i]) \/ InPlace(y, d, p[i])
  <2>1. UnderLeaf(x, d, p[i]) \/ InPlace(x, d, p[i])
    BY <1>2, PlacedNext DEF Applied
  <2>. QED
    BY <2>1 DEF UnderLeaf, InPlace, NextInPass, SamePlan
<1>. QED
  BY <1>1, <1>2 DEF Applied

LEMMA AppliedWhenPlaced ==
  ASSUME IsDocument(doc), NoKeyedGroups(doc),
         NEW p, PlanOps(p), NEW x, Progress(p, x), x.pc = "place", Tagged(p, x, doc),
         Applied(p, x, doc), ~Absorbed(p, p[x.step]), p[x.step].key \in DOMAIN x.built,
         NEW node, node = x.built[p[x.step].key], NEW parent,
         IF p[x.step].parent = None THEN parent = x.got[1]
         ELSE p[x.step].parent \in DOMAIN x.built /\ parent = x.built[p[x.step].parent],
         Live(doc, node), Moves(doc, doc', parent, node),
         NEW y, NextInPass(p, x, y, "place", "prune"), y.built = x.built
  PROVE  Applied(p, y, doc')
<1> DEFINE s == x.step
<1>1. s \in 1..Len(p)
  BY DEF Progress
<1>2. ASSUME NEW k \in DOMAIN x.built, Live(doc, x.built[k])
      PROVE  /\ x.built[k] \in LiveNodes(doc') /\ doc'[x.built[k]].type = doc[x.built[k]].type
             /\ x.built[k] # node => doc'[x.built[k]].parent = doc[x.built[k]].parent
  <2>1. PICK m : m = x.built[k]
    OBVIOUS
  <2>2. m \in LiveNodes(doc) /\ doc[m].type # "GROUP"
    BY <1>2, <2>1, OpsAreNoGroups
  <2>3. m \in LiveNodes(doc')
    BY <2>2 DEF Moves
  <2>4. m # node => SameNode(doc'[m], doc[m])
    BY <2>3 DEF Moves
  <2>5. SameNode(doc'[node], [doc[node] EXCEPT !.parent = parent]) /\ node \in LiveNodes(doc)
    BY DEF Moves, Live, LiveNodes
  <2>6. IsNode(doc, node)
    BY <2>5 DEF IsDocument, IsTree, LiveNodes
  <2>7. DOMAIN doc[node] = {"type", "parent", "kids", "key", "op", "style", "by"}
    BY <2>6, NodeFields DEF IsNode
  <2>8. doc'[node].type = doc[node].type
    BY <2>5, <2>7 DEF SameNode
  <2>. QED
    BY <2>1, <2>3, <2>4, <2>8 DEF SameNode
<1>3. node \in LiveNodes(doc') /\ doc'[node].parent = parent
  <2>1. SameNode(doc'[node], [doc[node] EXCEPT !.parent = parent]) /\ node \in LiveNodes(doc')
    BY DEF Moves
  <2>2. node \in DOMAIN doc
    BY DEF Live
  <2>3. IsNode(doc, node)
    BY <2>2 DEF IsDocument, IsTree
  <2>4. DOMAIN doc[node] = {"type", "parent", "kids", "key", "op", "style", "by"}
    BY <2>3, NodeFields DEF IsNode
  <2>. QED
    BY <2>1, <2>4 DEF SameNode
<1>4. ASSUME NEW j \in 1..Len(p), p[j].key \in DOMAIN x.built, Live(doc, x.built[p[j].key]), j # s
      PROVE  /\ Live(doc', x.built[p[j].key])
             /\ doc'[x.built[p[j].key]].parent = doc[x.built[p[j].key]].parent
  <2>1. x.built[p[j].key] # node
    BY <1>1, <1>4, OpsApart
  <2>2. x.built[p[j].key] \in LiveNodes(doc')
    BY <1>2, <1>4
  <2>. QED
    BY <1>2, <1>4, <2>1, <2>2 DEF Live, LiveNodes
<1>5. ASSUME NEW i \in 1..Len(p), IsBoolean(p[i]) PROVE Holds(p, y, doc', i)
  <2>1. Holds(p, x, doc, i)
    BY <1>5, PlacedNext DEF Applied
  <2>2. p[i].key \in DOMAIN x.built => Live(doc', x.built[p[i].key])
    <3>1. ASSUME p[i].key \in DOMAIN x.built PROVE x.built[p[i].key] \in LiveNodes(doc')
      BY <1>2, <2>1, <3>1 DEF Holds
    <3>. QED
      BY <3>1 DEF Live, LiveNodes
  <2>3. ASSUME NEW j \in 1..Len(p), p[j].parent = p[i].key, p[j].key \in DOMAIN x.built
        PROVE  /\ Live(doc', x.built[p[j].key])
               /\ p[i].key \in DOMAIN x.built => doc'[x.built[p[j].key]].parent = x.built[p[i].key]
    <3>1. j # s
      BY <1>5, <2>3 DEF Absorbed
    <3>2. /\ Live(doc, x.built[p[j].key])
          /\ p[i].key \in DOMAIN x.built => doc[x.built[p[j].key]].parent = x.built[p[i].key]
      BY <2>1, <2>3 DEF Holds
    <3>. QED
      BY <1>4, <2>3, <3>1, <3>2
  <2>. QED
    BY <2>2, <2>3 DEF Holds
<1>6. y.got = x.got
  BY DEF NextInPass, SamePlan
<1>7. InPlace(y, doc', p[s])
  BY <1>3, <1>6 DEF InPlace, Live, LiveNodes
<1>8. ASSUME NEW i \in 1..Len(p), i # s, UnderLeaf(x, doc, p[i]) PROVE UnderLeaf(y, doc', p[i])
  <2>1. p[i].parent \in DOMAIN x.built /\ Live(doc, x.built[p[i].parent])
        /\ doc[x.built[p[i].parent]].type \in {"RECTANGLE", "TEXT"}
    BY <1>8 DEF UnderLeaf
  <2>2. /\ x.built[p[i].parent] \in LiveNodes(doc')
        /\ doc'[x.built[p[i].parent]].type = doc[x.built[p[i].parent]].type
    BY <1>2, <2>1
  <2>. QED
    BY <2>1, <2>2 DEF UnderLeaf, Live, LiveNodes
<1>9. ASSUME NEW i \in 1..Len(p), i # s, InPlace(x, doc, p[i]) PROVE InPlace(y, doc', p[i])
  <2>1. p[i].key \in DOMAIN x.built /\ Live(doc, x.built[p[i].key])
    BY <1>9 DEF InPlace
  <2>2. /\ Live(doc', x.built[p[i].key])
        /\ doc'[x.built[p[i].key]].parent = doc[x.built[p[i].key]].parent
    BY <1>4, <1>9, <2>1
  <2>. QED
    BY <1>6, <1>9, <2>1, <2>2 DEF InPlace
<1>10. ASSUME NEW i \in 1..Len(p), ~Absorbed(p, p[i]), Placed(y, i)
       PROVE  UnderLeaf(y, doc', p[i]) \/ InPlace(y, doc', p[i])
  <2>1. Placed(x, i) \/ i = s
    BY <1>10, PlacedNext
  <2>2. CASE i = s
    BY <1>7, <2>2
  <2>3. CASE i # s
    <3>1. UnderLeaf(x, doc, p[i]) \/ InPlace(x, doc, p[i])
      BY <1>10, <2>1, <2>3 DEF Applied
    <3>. QED
      BY <1>8, <1>9, <2>3, <3>1
  <2>. QED
    BY <2>2, <2>3
<1>. QED
  BY <1>5, <1>10 DEF Applied

-----------------------------------------------------------------------------
(* The end: every op has its node where it belongs, or was skipped.        *)
Skipped(p, x, i) == IsBoolean(p[i]) /\ Absorbed(p, p[i]) /\ p[i].key \notin DOMAIN x.built
There(p, x, d, i) ==
  \/ Skipped(p, x, i)
  \/ /\ p[i].key \in DOMAIN x.built /\ Live(d, x.built[p[i].key])
     /\ d[x.built[p[i].key]].key = p[i].key
     /\ \/ p[i].parent = None /\ d[x.built[p[i].key]].parent = x.got[1]
        \/ \E j \in 1..Len(p) :
             /\ p[j].key = p[i].parent
             /\ \/ Skipped(p, x, j)
                \/ /\ p[i].parent \in DOMAIN x.built
                   /\ d[x.built[p[i].key]].parent = x.built[p[i].parent]

LEMMA PlanIsThere ==
  ASSUME NEW p, PlanOps(p), NEW x, Progress(p, x), x.pc = "prune", NEW d, Tagged(p, x, d),
         Applied(p, x, d), \A i \in 1..Len(p) : ~UnderLeaf(x, d, p[i])
  PROVE  \A i \in 1..Len(p) : There(p, x, d, i)
<1>1. \A i \in 1..Len(p) : ~Absorbed(p, p[i]) => InPlace(x, d, p[i])
  BY DEF Applied, Placed
<1>2. \A i \in 1..Len(p) : IsBoolean(p[i]) => Holds(p, x, d, i)
  BY DEF Applied, Combined
<1>3. \A k \in DOMAIN x.built : Live(d, x.built[k]) => d[x.built[k]].key = k
  BY DEF Tagged, HasTag
<1>4. ASSUME NEW i \in 1..Len(p), ~Absorbed(p, p[i]) PROVE There(p, x, d, i)
  <2>1. InPlace(x, d, p[i])
    BY <1>1, <1>4
  <2>2. p[i].parent # None => \E j \in 1..Len(p) : p[j].key = p[i].parent
    BY DEF PlanOps, IsPlanTree, KeysOf
  <2>. QED
    BY <1>3, <2>1, <2>2 DEF There, InPlace
<1>5. ASSUME NEW i \in 1..Len(p), Absorbed(p, p[i]) PROVE There(p, x, d, i)
  <2>1. PICK b \in 1..Len(p) : IsBoolean(p[b]) /\ p[b].key = p[i].parent
    BY <1>5 DEF Absorbed
  <2>2. CASE p[i].key \notin DOMAIN x.built
    <3>1. IsBoolean(p[i])
      BY <2>2 DEF Progress, Late
    <3>. QED
      BY <1>5, <2>2, <3>1 DEF There, Skipped
  <2>3. CASE p[i].key \in DOMAIN x.built
    <3>1. /\ Live(d, x.built[p[i].key])
          /\ p[b].key \in DOMAIN x.built => d[x.built[p[i].key]].parent = x.built[p[b].key]
      BY <1>2, <2>1, <2>3 DEF Holds
    <3>2. p[b].key \notin DOMAIN x.built => Skipped(p, x, b)
      BY <1>1, <2>1 DEF InPlace, Skipped
    <3>. QED
      BY <1>3, <2>1, <2>3, <3>1, <3>2 DEF There
  <2>. QED
    BY <2>2, <2>3
<1>. QED
  BY <1>4, <1>5

(* Pruning removes no node of the plan, and none above one.                *)
LEMMA PruningSparesPlan ==
  ASSUME IsDocument(doc), NoKeyedGroups(doc),
         NEW p, PlanOps(p), NEW x, Progress(p, x), Tagged(p, x, doc),
         \A i \in 1..Len(p) : There(p, x, doc, i) /\ ~Skipped(p, x, i),
         NEW unused,
         \A n \in unused : Removable(doc, n)
                           /\ \E k \in DOMAIN x.index \ DOMAIN x.built : n = x.index[k],
         NEW gone, gone = unused \cup UNION {Below(doc, n) : n \in unused},
         doc' = Sweep(Drop(doc, gone))
  PROVE  \A i \in 1..Len(p) : There(p, x, doc', i)
<1> DEFINE Lost == {n \in gone : \E k \in DOMAIN x.built : n = x.built[k]}
<1>1. IsTree(doc) /\ None \notin DOMAIN doc
  BY NoneIsNoNode DEF IsDocument
<1>2. Loses(doc, doc', gone)
  BY <1>1, RemovalLoses
<1>3. \A i \in 1..Len(p) : /\ p[i].key \in DOMAIN x.built /\ Live(doc, x.built[p[i].key])
                           /\ doc[x.built[p[i].key]].key = p[i].key
  BY DEF There
<1>4. \A k \in DOMAIN x.built : \E i \in 1..Len(p) : p[i].key = k
  BY DEF Progress, KeysOf
<1>5. ASSUME NEW k \in DOMAIN x.built PROVE x.built[k] \notin unused
  <2> SUFFICES ASSUME x.built[k] \in unused PROVE FALSE
    OBVIOUS
  <2>1. PICK l \in DOMAIN x.index \ DOMAIN x.built : x.built[k] = x.index[l]
    OBVIOUS
  <2>2. HasTag(doc, x.index[l], l) /\ HasTag(doc, x.built[k], k) /\ Live(doc, x.built[k])
    BY <1>3, <1>4 DEF Tagged
  <2>. QED
    BY <2>1, <2>2 DEF HasTag
<1>6. x.got[1] \in DOMAIN doc /\ doc[x.got[1]].parent = None /\ x.got[1] \notin unused
  <2>1. x.got[1] \in DOMAIN doc /\ doc[x.got[1]].type = "PAGE"
    BY DEF Tagged, LiveNodes
  <2>2. doc[x.got[1]].parent = None
    BY <1>1, <2>1, Parents
  <2>. QED
    BY <2>1, <2>2 DEF Removable
<1>7. Lost = {}
  <2> SUFFICES ASSUME Lost # {} PROVE FALSE
    OBVIOUS
  <2>1. Lost \subseteq DOMAIN doc
    <3>1. \A k \in DOMAIN x.built : x.built[k] \in DOMAIN doc
      BY <1>3, <1>4 DEF Live
    <3>. QED
      BY <3>1
  <2>2. PICK n \in Lost : doc[n].parent \notin Lost
    <3> HIDE DEF Lost
    <3>. QED
      BY <1>1, <2>1, LowestFirst
  <2>3. PICK k \in DOMAIN x.built : n = x.built[k]
    OBVIOUS
  <2>4. PICK i \in 1..Len(p) : p[i].key = k
    BY <1>4
  <2>5. n \in DOMAIN doc
    BY <2>1
  <2>6. PICK u \in unused : n \in Below(doc, u)
    BY <1>5, <2>3
  <2>7. u \in Ancestors(doc, n)
    BY <2>6 DEF Below
  <2>8. doc[n].parent # None /\ (u = doc[n].parent \/ u \in Ancestors(doc, doc[n].parent))
    BY <1>1, <2>5, <2>7, AncestorsUnfold
  <2>9. doc[n].parent = x.got[1] \/ \E l \in DOMAIN x.built : doc[n].parent = x.built[l]
    <3>1. There(p, x, doc, i) /\ \A j \in 1..Len(p) : ~Skipped(p, x, j)
      OBVIOUS
    <3> HIDE DEF Lost
    <3>. QED
      BY <2>3, <2>4, <3>1 DEF There
  <2>10. CASE doc[n].parent = x.got[1]
    <3>1. Ancestors(doc, x.got[1]) = {}
      BY <1>1, <1>6, AncestorsUnfold
    <3>. QED
      BY <1>6, <2>8, <2>10, <3>1
  <2>11. ASSUME NEW l \in DOMAIN x.built, doc[n].parent = x.built[l] PROVE FALSE
    <3>1. u \in Ancestors(doc, x.built[l])
      BY <1>5, <2>8, <2>11
    <3>2. x.built[l] \in DOMAIN doc
      BY <1>3, <1>4 DEF Live
    <3>3. x.built[l] \in gone
      BY <3>1, <3>2 DEF Below
    <3>. QED
      BY <2>2, <2>11, <3>3
  <2>. QED
    BY <2>9, <2>10, <2>11
<1>8. ASSUME NEW i \in 1..Len(p)
      PROVE  /\ Live(doc', x.built[p[i].key])
             /\ SameNode(doc'[x.built[p[i].key]], doc[x.built[p[i].key]])
  <2>1. PICK n : n = x.built[p[i].key]
    OBVIOUS
  <2>2. p[i].key \in DOMAIN x.built /\ Live(doc, n) /\ n \notin gone
    BY <1>3, <1>7, <2>1
  <2>3. n \in LiveNodes(doc) /\ doc[n].type # "GROUP"
    BY <2>1, <2>2, OpsAreNoGroups
  <2>4. n \in LiveNodes(doc') /\ SameNode(doc'[n], doc[n])
    BY <1>2, <2>2, <2>3 DEF Loses
  <2>. QED
    BY <2>1, <2>4 DEF Live, LiveNodes
<1>. QED
  BY <1>8 DEF There, SameNode

-----------------------------------------------------------------------------
(***************************************************************************)
(* The steps of a plan that is at its ops.                                 *)
(***************************************************************************)
OnOps(c) == IsPlan(c) /\ calls[c].pc \notin {"idle", "run", "page", "done"}
BuildInv(c) ==
  OnOps(c) =>
    /\ Progress(Ops(c), calls[c]) /\ Tagged(Ops(c), calls[c], doc)
    /\ calls[c].pc \in Late => turn = c /\ Applied(Ops(c), calls[c], doc)

Ready(c) ==
  /\ CallShape /\ IsDocument(doc) /\ NoKeyedGroups(doc) /\ page \in LiveNodes(doc)
  /\ Running(c) /\ OnOps(c) /\ PlanOps(Ops(c)) /\ BuildInv(c)
  /\ Tags(doc, doc') /\ PagesStay
Onward(c) ==
  \/ calls'[c].pc = "done" /\ (calls'[c].out = "ok" => FinishPlan(c))
  \/ /\ Progress(Ops(c), calls'[c]) /\ Tagged(Ops(c), calls'[c], doc')
     /\ calls'[c].pc \in Late => turn' = c /\ Applied(Ops(c), calls'[c], doc')

LEMMA AnsweredOnward ==
  ASSUME NEW c \in Calls, Ready(c), NEW out, Answers(c, out), out = "ok" => FinishPlan(c)
  PROVE  Onward(c)
BY AnswersEnds DEF Ready, Onward

LEMMA NextOpFields ==
  ASSUME CallShape, NEW c \in Calls, NEW after
  PROVE  LET x == calls[c]
             y == NextOp(c, after)[c]
         IN  /\ DOMAIN NextOp(c, after) = Calls /\ IsCall(y)
             /\ y.built = x.built /\ NextInPass(Ops(c), x, y, x.pc, after)
<1> DEFINE x == calls[c]
           up == [x EXCEPT !.step = @ + 1]
           over == [x EXCEPT !.step = 1, !.pc = after]
<1>1. IsCall(x) /\ calls = [o \in Calls |-> calls[o]]
  BY DEF CallShape
<1>2. NextOp(c, after) = IF x.step < Len(Ops(c)) THEN [calls EXCEPT ![c] = up]
                         ELSE [calls EXCEPT ![c] = over]
  BY DEF NextOp, CallShape
<1>3. /\ IsCall(up) /\ up.built = x.built /\ up.got = x.got /\ up.index = x.index
      /\ up.step = x.step + 1 /\ up.pc = x.pc
  BY <1>1 DEF IsCall, Idle
<1>4. /\ IsCall(over) /\ over.built = x.built /\ over.got = x.got /\ over.index = x.index
      /\ over.step = 1 /\ over.pc = after
  BY <1>1 DEF IsCall, Idle
<1> HIDE DEF up, over
<1>. QED
  BY <1>1, <1>2, <1>3, <1>4 DEF NextInPass, SamePlan

(* Waiting for a font, a style or a list of them.                          *)
LEMMA WaitOnward ==
  ASSUME NEW c \in Calls, Ready(c), calls[c].pc \in Early \ {"build"},
         SamePlan(calls[c], calls'[c]), calls'[c].built = calls[c].built,
         calls'[c].step = calls[c].step, calls'[c].pc \in Early \ {"build"}
  PROVE  Onward(c)
<1>1. PICK p, x, y : p = Ops(c) /\ x = calls[c] /\ y = calls'[c]
  OBVIOUS
<1>2. Progress(p, x) /\ Tagged(p, x, doc)
  BY <1>1 DEF Ready, BuildInv
<1>3. Progress(p, y)
  BY <1>1, <1>2, ProgressOfWait
<1>4. Tagged(p, y, doc')
  BY <1>1, <1>2, TaggedStays DEF Ready, PagesStay
<1>5. y.pc \notin Late
  BY <1>1 DEF Early, Late
<1>. QED
  BY <1>1, <1>3, <1>4, <1>5 DEF Onward

LEMMA WaitingFields ==
  ASSUME CallShape, NEW c \in Calls, NEW pc,
         \/ Awaits(c, pc) \/ RunsOn(c, pc) \/ AsksList(c, pc)
         \/ pc = "styled" /\ \E s : Finds(c, s)
  PROVE  /\ SamePlan(calls[c], calls'[c]) /\ calls'[c].built = calls[c].built
         /\ calls'[c].step = calls[c].step /\ calls'[c].pc = pc
<1>1. IsCall(calls[c]) /\ calls = [o \in Calls |-> calls[o]]
  BY DEF CallShape
<1>2. CASE Awaits(c, pc) \/ RunsOn(c, pc)
  <2>1. calls'[c] = [calls[c] EXCEPT !.pc = pc]
    BY <1>1, <1>2 DEF Awaits, RunsOn
  <2>. QED
    BY <1>1, <2>1 DEF IsCall, Idle, SamePlan
<1>3. CASE AsksList(c, pc)
  <2>1. PICK list : calls'[c] = [calls[c] EXCEPT !.pc = pc, !.list = list]
    BY <1>1, <1>3 DEF AsksList
  <2>. QED
    BY <1>1, <2>1 DEF IsCall, Idle, SamePlan
<1>4. ASSUME pc = "styled", NEW s, Finds(c, s)
      PROVE  /\ SamePlan(calls[c], calls'[c]) /\ calls'[c].built = calls[c].built
             /\ calls'[c].step = calls[c].step /\ calls'[c].pc = pc
  <2>1. calls'[c] = [calls[c] EXCEPT !.pc = "styled", !.style = s, !.list = {}]
    BY <1>1, <1>4 DEF Finds
  <2>. QED
    BY <1>1, <1>4, <2>1 DEF IsCall, Idle, SamePlan
<1>. QED
  BY <1>2, <1>3, <1>4

LEMMA WaitingOnward ==
  ASSUME NEW c \in Calls, Ready(c),
         \/ FontAnswered(c) \/ FindStyle(c) \/ ListAnswered(c) \/ PlanSetsStyle(c) \/ PlanStyleSet(c)
  PROVE  Onward(c)
<1>1. CallShape /\ Cmd(c).op = "design.apply"
  BY DEF Ready, OnOps, IsPlan
<1>2. calls[c].pc \in Early \ {"build"}
  BY DEF FontAnswered, FindStyle, ListAnswered, PlanSetsStyle, PlanStyleSet, At, Answered, Early
<1>3. \E pc \in Early \ {"build"} :
        \/ Awaits(c, pc) \/ RunsOn(c, pc) \/ AsksList(c, pc)
        \/ pc = "styled" /\ \E s : Finds(c, s)
  <2>1. {"font", "fonted", "find", "list", "relist", "styled", "set"} = Early \ {"build"}
    BY DEF Early
  <2>2. CASE FontAnswered(c)
    <3>1. RunsOn(c, "fonted")
      BY <1>1, <2>2 DEF FontAnswered
    <3>. QED
      BY <2>1, <3>1
  <2>3. CASE FindStyle(c)
    <3>1. AsksList(c, "list") \/ AsksList(c, "relist") \/ \E s : Finds(c, s)
      BY <2>3 DEF FindStyle
    <3>. QED
      BY <2>1, <3>1
  <2>4. CASE ListAnswered(c)
    <3>1. AsksList(c, "relist") \/ \E s : Finds(c, s)
      BY <1>1, <2>4 DEF ListAnswered
    <3>. QED
      BY <2>1, <3>1
  <2>5. CASE PlanSetsStyle(c)
    BY <2>1, <2>5 DEF PlanSetsStyle
  <2>6. CASE PlanStyleSet(c)
    BY <2>1, <2>6 DEF PlanStyleSet
  <2>. QED
    BY <2>2, <2>3, <2>4, <2>5, <2>6
<1>. QED
  BY <1>1, <1>2, <1>3, WaitingFields, WaitOnward

(* The build goes on to the next op, or to the booleans.                   *)
LEMMA BuildNextOnward ==
  ASSUME NEW c \in Calls, Ready(c), calls[c].pc \in Early, turn = c, turn' = c,
         calls[c].pc = "build" => IsBoolean(Op(c)),
         calls'[c].built = calls[c].built,
         NextInPass(Ops(c), calls[c], calls'[c], "build", "bool")
  PROVE  Onward(c)
<1>1. PICK p, x, y : p = Ops(c) /\ x = calls[c] /\ y = calls'[c]
  OBVIOUS
<1>2. Progress(p, x) /\ Tagged(p, x, doc) /\ PlanOps(p) /\ NextInPass(p, x, y, "build", "bool")
  BY <1>1 DEF Ready, BuildInv
<1>3. x.pc = "build" => IsBoolean(p[x.step])
  BY <1>1 DEF Op
<1>4. Progress(p, y)
  BY <1>1, <1>2, <1>3, ProgressOfNext
<1>5. SamePlan(x, y)
  BY <1>2 DEF NextInPass
<1>6. Tagged(p, y, doc')
  BY <1>1, <1>2, <1>5, TaggedStays DEF Ready, PagesStay
<1>7. y.pc = "build" \/ Applied(p, y, doc')
  BY <1>2, AppliedAtFirst DEF NextInPass
<1>8. "build" \notin Late
  BY DEF Late
<1>. QED
  BY <1>1, <1>4, <1>6, <1>7, <1>8 DEF Onward

LEMMA IntrinsicOnward ==
  ASSUME NEW c \in Calls, Ready(c), IntrinsicDone(c)
  PROVE  Onward(c)
<1> DEFINE next == NextOp(c, "bool")
           z == next[c]
           y == [z EXCEPT !.pc = IF @ = "bool" THEN "bool" ELSE "build"]
<1>1. /\ DOMAIN next = Calls /\ IsCall(z) /\ z.built = calls[c].built
      /\ NextInPass(Ops(c), calls[c], z, calls[c].pc, "bool")
  BY NextOpFields DEF Ready
<1>2. calls' = [next EXCEPT ![c].pc = IF @ = "bool" THEN "bool" ELSE "build"]
  BY DEF IntrinsicDone
<1>3. turn = c /\ turn' = c /\ calls[c].pc \in {"fonted", "styled"}
  BY DEF IntrinsicDone, At
<1> HIDE DEF next
<1>4. calls'[c] = y
  BY <1>1, <1>2
<1>5. /\ y.built = z.built /\ y.got = z.got /\ y.index = z.index /\ y.step = z.step
      /\ y.pc = IF z.pc = "bool" THEN "bool" ELSE "build"
  BY <1>1 DEF IsCall, Idle
<1> HIDE DEF y, z
<1>6. NextInPass(Ops(c), calls[c], y, "build", "bool") /\ y.built = calls[c].built
  BY <1>1, <1>3, <1>5 DEF NextInPass, SamePlan
<1>. QED
  BY <1>3, <1>4, <1>6, BuildNextOnward DEF Early

(* A node more in the records, of the file as it is after the step.        *)
LEMMA TaggedGrows ==
  ASSUME NEW p, PlanOps(p), NEW x, NEW d, Tagged(p, x, d), NEW y, SamePlan(x, y),
         NEW e, Tags(d, e), \A n \in LiveNodes(d) :
                              d[n].type = "PAGE" => n \in LiveNodes(e) /\ e[n].type = "PAGE",
         NEW i \in 1..Len(p), NEW n, Gains(x, y, p[i].key, n), HasTag(e, n, p[i].key),
         \/ p[i].key \in DOMAIN x.index /\ n = x.index[p[i].key]
         \/ e[n].type = p[i].type
  PROVE  Tagged(p, y, e)
<1>1. Tagged(p, x, e)
  BY TaggedStays DEF SamePlan
<1>. QED
  BY <1>1, TaggedGains

LEMMA NodeTagged ==
  ASSUME IsDocument(doc), page \in LiveNodes(doc), NEW c, NEW type \in PlanTypes, NEW key,
         doc' = Add(doc, [NewNode(type, page, c) EXCEPT !.key = key])
  PROVE  HasTag(doc', NewId(doc), key) /\ doc'[NewId(doc)].type = type
<1> DEFINE plain == NewNode(type, page, c)
           node == [plain EXCEPT !.key = key]
<1>1. /\ DOMAIN node = DOMAIN Removed /\ node.type = type /\ node.parent = page
      /\ node.kids = <<>> /\ node.key = key
  BY DEF NewNode, Removed
<1>2. type \in NodeTypes \ {"REMOVED", "PAGE", "INSTANCE"}
  BY DEF PlanTypes, NodeTypes, Containers
<1>3. doc' = Add(doc, node)
  OBVIOUS
<1> HIDE DEF node
<1>4. IsNew(doc, node)
  BY <1>1, <1>2 DEF IsNew
<1>5. NewId(doc) \in DOMAIN doc' /\ doc'[NewId(doc)] = node
  <2>1. IsTree(doc)
    BY DEF IsDocument
  <2>2. /\ DOMAIN Add(doc, node) = DOMAIN doc \cup {NewId(doc)}
        /\ Add(doc, node)[NewId(doc)] = node
    BY <1>4, <2>1, AddFields
  <2>. QED
    BY <1>3, <2>2
<1>. QED
  BY <1>1, <1>2, <1>5 DEF HasTag

LEMMA BuildOnward ==
  ASSUME NEW c \in Calls, Ready(c), BuildNode(c)
  PROVE  Onward(c)
<1> DEFINE op == Op(c)
           reuse == op.key \in DOMAIN calls[c].index /\ Live(doc, calls[c].index[op.key])
           node == IF reuse THEN calls[c].index[op.key] ELSE NewId(doc)
           built == [k \in DOMAIN calls[c].built \cup {op.key} |->
                       IF k = op.key THEN node ELSE calls[c].built[k]]
<1>1. turn = c /\ calls[c].pc = "build" /\ CallShape
  BY DEF BuildNode, At, Ready
<1>2. CASE IsBoolean(op)
  <2>1. calls' = NextOp(c, "bool") /\ turn' = c
    BY <1>1, <1>2 DEF BuildNode, IsBoolean
  <2>2. NextInPass(Ops(c), calls[c], calls'[c], "build", "bool") /\ calls'[c].built = calls[c].built
    BY <1>1, <2>1, NextOpFields
  <2>. QED
    BY <1>1, <1>2, <2>1, <2>2, BuildNextOnward DEF Early
<1>3. CASE ~IsBoolean(op)
  <2>1. /\ doc' = IF reuse THEN doc ELSE Add(doc, [NewNode(op.type, page, c) EXCEPT !.key = op.key])
        /\ \E pc \in {"font", "find", "fonted"} :
             calls' = [[calls EXCEPT ![c].built = built] EXCEPT ![c].pc = pc]
    BY <1>3 DEF BuildNode, IsBoolean
  <2>2. PICK pc \in {"font", "find", "fonted"} :
          calls' = [[calls EXCEPT ![c].built = built] EXCEPT ![c].pc = pc]
    BY <2>1
  <2>3. PICK p, x, y : p = Ops(c) /\ x = calls[c] /\ y = calls'[c]
    OBVIOUS
  <2>4. /\ Progress(p, x) /\ Tagged(p, x, doc) /\ PlanOps(p) /\ x.pc = "build"
        /\ op = p[x.step] /\ x.step \in 1..Len(p)
    BY <1>1, <2>3 DEF Ready, BuildInv, Op, Progress
  <2>5. op.type \in PlanTypes
    BY <2>4 DEF PlanOps
  <2>6. /\ HasTag(doc', node, op.key)
        /\ \/ op.key \in DOMAIN x.index /\ node = x.index[op.key]
           \/ doc'[node].type = op.type
    <3>1. CASE reuse
      <4>1. HasTag(doc, x.index[op.key], op.key)
        BY <2>3, <2>4, <3>1 DEF Tagged
      <4>. QED
        BY <2>1, <2>3, <3>1, <4>1
    <3>2. CASE ~reuse
      <4>1. doc' = Add(doc, [NewNode(op.type, page, c) EXCEPT !.key = op.key]) /\ node = NewId(doc)
        BY <2>1, <3>2
      <4> HIDE DEF op
      <4>2. HasTag(doc', NewId(doc), op.key) /\ doc'[NewId(doc)].type = op.type
        BY <2>5, <4>1, NodeTagged DEF Ready
      <4>. QED
        BY <4>1, <4>2
    <3>. QED
      BY <3>1, <3>2
  <2>7. SamePlan(x, y) /\ Gains(x, y, op.key, node) /\ y.step = x.step /\ y.pc = pc
    <3>1. SamePlan(x, y) /\ y.built = built /\ y.step = x.step /\ y.pc = pc
      <4>1. PICK b : b = built
        OBVIOUS
      <4>2. calls' = [[calls EXCEPT ![c].built = b] EXCEPT ![c].pc = pc]
        BY <2>2, <4>1
      <4>3. /\ SamePlan(calls[c], calls'[c]) /\ calls'[c].built = b
            /\ calls'[c].step = calls[c].step /\ calls'[c].pc = pc
        <5> DEFINE z == [calls[c] EXCEPT !.built = b, !.pc = pc]
        <5>1. IsCall(calls[c]) /\ calls = [o \in Calls |-> calls[o]]
          BY <1>1 DEF CallShape
        <5>2. calls'[c] = z
          BY <4>2, <5>1
        <5>3. z.got = calls[c].got /\ z.index = calls[c].index /\ z.built = b
              /\ z.step = calls[c].step /\ z.pc = pc
          BY <5>1 DEF IsCall, Idle
        <5>. QED
          BY <5>2, <5>3 DEF SamePlan
      <4>. QED
        BY <2>3, <4>1, <4>3
    <3>. QED
      BY <2>3, <3>1 DEF Gains
  <2> HIDE DEF op, node
  <2>8. y.pc \in Early \ {"build"} /\ y.pc \notin Late
    BY <2>7 DEF Early, Late
  <2>9. Progress(p, y)
    BY <1>3, <2>4, <2>7, <2>8, ProgressOfBuilding
  <2>10. Tagged(p, y, doc')
    BY <2>4, <2>6, <2>7, TaggedGrows DEF Ready, PagesStay
  <2>. QED
    BY <2>3, <2>8, <2>9, <2>10 DEF Onward
<1>. QED
  BY <1>2, <1>3

LEMMA PlanSkips ==
  ASSUME NEW c \in Calls, Ready(c), calls[c].pc = "bool", turn = c, turn' = c,
         calls' = NextOp(c, "place"),
         IsBoolean(Op(c)) =>
           \A j \in 1..Len(Ops(c)) :
             Ops(c)[j].parent = Op(c).key /\ Ops(c)[j].key \in DOMAIN Built(c) =>
               Live(doc, Built(c)[Ops(c)[j].key]),
         UNCHANGED doc
  PROVE  Onward(c)
<1>1. PICK p, x, y : p = Ops(c) /\ x = calls[c] /\ y = calls'[c]
  OBVIOUS
<1>2. /\ Progress(p, x) /\ Tagged(p, x, doc) /\ PlanOps(p) /\ x.pc = "bool" /\ Applied(p, x, doc)
  BY <1>1 DEF Ready, BuildInv, Late
<1>3. NextInPass(p, x, y, "bool", "place") /\ y.built = x.built
  BY <1>1, <1>2, NextOpFields DEF Ready
<1>4. IsBoolean(p[x.step]) =>
        \A j \in 1..Len(p) : p[j].parent = p[x.step].key /\ p[j].key \in DOMAIN x.built =>
                               Live(doc, x.built[p[j].key])
  BY <1>1 DEF Op, Built
<1>5. Progress(p, y)
  BY <1>2, <1>3, ProgressOfBoolean
<1>6. Tagged(p, y, doc')
  BY <1>2, <1>3, TaggedStays DEF Ready, PagesStay, NextInPass
<1>7. Applied(p, y, doc)
  BY <1>2, <1>3, <1>4, AppliedWhenSkipped
<1>8. Applied(p, y, doc')
  BY <1>7
<1>. QED
  BY <1>1, <1>5, <1>6, <1>8 DEF Onward

LEMMA PlanCombines ==
  ASSUME NEW c \in Calls, Ready(c), calls[c].pc = "bool", turn = c, turn' = c,
         IsBoolean(Op(c)), NEW nodes, NEW home, NEW stale, NEW made,
         \A n : n \in nodes <=>
           \E j \in 1..Len(Ops(c)) : /\ Ops(c)[j].parent = Op(c).key
                                     /\ Ops(c)[j].key \in DOMAIN Built(c)
                                     /\ n = Built(c)[Ops(c)[j].key],
         Op(c).parent \in DOMAIN Built(c) => home = Built(c)[Op(c).parent],
         stale = None \/ HasTag(doc, stale, Op(c).key),
         CanWrap(doc, nodes, home), made = Wrap(doc, "BOOLEAN_OPERATION", nodes, home, c),
         doc' = [Tidied(made, stale) EXCEPT ![NewId(doc)].key = Op(c).key],
         NextInPass(Ops(c), calls[c], calls'[c], "bool", "place"),
         Gains(calls[c], calls'[c], Op(c).key, NewId(doc))
  PROVE  Onward(c)
<1>1. PICK p, x, y, i : p = Ops(c) /\ x = calls[c] /\ y = calls'[c] /\ i = calls[c].step
  OBVIOUS
<1>2. /\ Progress(p, x) /\ Tagged(p, x, doc) /\ PlanOps(p) /\ x.pc = "bool" /\ Applied(p, x, doc)
      /\ IsDocument(doc) /\ NoKeyedGroups(doc) /\ Tags(doc, doc') /\ PagesStay
  BY <1>1 DEF Ready, BuildInv, Late
<1>3. Op(c) = p[i] /\ i = x.step /\ i \in 1..Len(p) /\ IsBoolean(p[i])
  BY <1>1, <1>2 DEF Op, Progress
<1>4. NextInPass(p, x, y, "bool", "place") /\ Gains(x, y, p[i].key, NewId(doc))
  BY <1>1, <1>3
<1>5. \A n : n \in nodes <=>
        \E j \in 1..Len(p) : /\ p[j].parent = p[i].key /\ p[j].key \in DOMAIN x.built
                             /\ n = x.built[p[j].key]
  BY <1>1, <1>3 DEF Built
<1>6. /\ p[i].parent \in DOMAIN x.built => home = x.built[p[i].parent]
      /\ stale = None \/ HasTag(doc, stale, p[i].key)
  BY <1>1, <1>3 DEF Built
<1>7. \A n \in nodes : Live(doc, n)
  BY DEF CanWrap, Accepts, Removable
<1>8. PICK key : key = p[i].key
  OBVIOUS
<1>9. \E gone \in SUBSET {stale} : Makes(gone, nodes, home, key)
  <2>1. doc' = [Tidied(made, stale) EXCEPT ![NewId(doc)].key = key]
    BY <1>3, <1>8
  <2>2. IsDocument(doc) /\ CanWrap(doc, nodes, home)
        /\ made = Wrap(doc, "BOOLEAN_OPERATION", nodes, home, c)
    BY <1>2
  <2>. QED
    BY ONLY <2>1, <2>2, BooleanMakes
<1>10. PICK gone \in SUBSET {stale} : Makes(gone, nodes, home, p[i].key)
  BY <1>8, <1>9
<1>11. Applied(p, y, doc') /\ NewId(doc) \in LiveNodes(doc')
  <2>1. /\ IsBoolean(p[x.step]) /\ Makes(gone, nodes, home, p[x.step].key)
        /\ p[x.step].parent \in DOMAIN x.built => home = x.built[p[x.step].parent]
        /\ stale = None \/ HasTag(doc, stale, p[x.step].key)
        /\ Gains(x, y, p[x.step].key, NewId(doc)) /\ gone \in SUBSET {stale}
    BY <1>3, <1>4, <1>6, <1>10
  <2>2. \A n : n \in nodes <=>
          \E j \in 1..Len(p) : /\ p[j].parent = p[x.step].key /\ p[j].key \in DOMAIN x.built
                               /\ n = x.built[p[j].key]
    BY <1>3, <1>5
  <2>. QED
    BY ONLY <1>2, <1>4, <1>7, <2>1, <2>2, AppliedWhenMade
<1>12. HasTag(doc', NewId(doc), p[i].key) /\ doc'[NewId(doc)].type = p[i].type
  <2>1. doc'[NewId(doc)].type = "BOOLEAN_OPERATION" /\ doc'[NewId(doc)].key = p[i].key
    BY <1>10, <1>11 DEF Makes
  <2>. QED
    BY <1>3, <1>11, <2>1 DEF HasTag, LiveNodes, IsBoolean
<1>13. SamePlan(x, y)
  BY <1>4 DEF NextInPass
<1>14. Tagged(p, y, doc')
  <2>1. \A n \in LiveNodes(doc) : doc[n].type = "PAGE" => n \in LiveNodes(doc') /\ doc'[n].type = "PAGE"
    BY <1>2 DEF PagesStay
  <2>. QED
    BY ONLY <1>2, <1>3, <1>4, <1>12, <1>13, <2>1, TaggedGrows
<1>15. Progress(p, y)
  BY <1>2, <1>3, <1>4, ProgressOfBoolean
<1>. QED
  BY <1>1, <1>11, <1>14, <1>15 DEF Onward

LEMMA BooleanOnward ==
  ASSUME NEW c \in Calls, Ready(c), BuildBoolean(c)
  PROVE  Onward(c)
<1> DEFINE op == Op(c)
           keys == {o \in ToSet(Ops(c)) : o.parent = op.key /\ o.key \in DOMAIN Built(c)}
           nodes == {Built(c)[o.key] : o \in keys}
           home == IF op.parent \in DOMAIN Built(c) THEN Built(c)[op.parent] ELSE Target(c)
           made == Wrap(doc, "BOOLEAN_OPERATION", nodes, home, c)
           stale == IF op.key \in DOMAIN calls[c].index THEN calls[c].index[op.key] ELSE None
           skip == calls' = NextOp(c, "place") /\ UNCHANGED <<doc, turn>>
           grown == [NextOp(c, "place") EXCEPT ![c].built =
                       [k \in DOMAIN @ \cup {op.key} |-> IF k = op.key THEN NewId(doc) ELSE @[k]]]
<1>1. turn = c /\ calls[c].pc = "bool" /\ CallShape
  BY DEF BuildBoolean, At, Ready
<1>2. \A n : n \in nodes <=>
        \E j \in 1..Len(Ops(c)) : /\ Ops(c)[j].parent = op.key
                                  /\ Ops(c)[j].key \in DOMAIN Built(c)
                                  /\ n = Built(c)[Ops(c)[j].key]
  <2>1. DOMAIN Ops(c) = 1..Len(Ops(c))
    BY DEF Ready, PlanOps
  <2>2. \A o : o \in ToSet(Ops(c)) <=> \E j \in 1..Len(Ops(c)) : o = Ops(c)[j]
    BY <2>1 DEF ToSet
  <2>. QED
    BY <2>2
<1>3. \/ ~IsBoolean(op) /\ skip
      \/ nodes = {} /\ skip
      \/ Throws(c)
      \/ (\A n \in nodes : Live(doc, n)) /\ skip
      \/ /\ IsBoolean(op) /\ CanWrap(doc, nodes, home)
         /\ doc' = [Tidied(made, stale) EXCEPT ![NewId(doc)].key = op.key]
         /\ calls' = grown /\ UNCHANGED turn
  BY DEF BuildBoolean, IsBoolean
<1>4. stale = None \/ HasTag(doc, stale, op.key)
  <2>1. PICK p, x : p = Ops(c) /\ x = calls[c]
    OBVIOUS
  <2>2. Tagged(p, x, doc)
    BY <1>1, <2>1 DEF Ready, BuildInv
  <2>. QED
    BY <2>1, <2>2 DEF Tagged
<1> HIDE DEF nodes, home, stale
<1>5. ASSUME skip, ~IsBoolean(op) \/ \A n \in nodes : Live(doc, n)
      PROVE  Onward(c)
  BY <1>1, <1>2, <1>5, PlanSkips
<1>6. ASSUME IsBoolean(op), CanWrap(doc, nodes, home),
             doc' = [Tidied(made, stale) EXCEPT ![NewId(doc)].key = op.key],
             calls' = grown, UNCHANGED turn
      PROVE  Onward(c)
  <2>1. PICK next, z, x, key, n :
          next = NextOp(c, "place") /\ z = next[c] /\ x = calls[c] /\ key = op.key /\ n = NewId(doc)
    OBVIOUS
  <2>2. DOMAIN next = Calls /\ IsCall(z) /\ z.built = x.built
        /\ NextInPass(Ops(c), x, z, "bool", "place")
    BY <1>1, <2>1, NextOpFields
  <2> DEFINE built == [k \in DOMAIN z.built \cup {key} |-> IF k = key THEN n ELSE z.built[k]]
             y == [z EXCEPT !.built = built]
  <2>3. calls'[c] = y
    BY <1>6, <2>1, <2>2
  <2>4. y.built = built /\ y.got = z.got /\ y.index = z.index /\ y.step = z.step /\ y.pc = z.pc
    <3> HIDE DEF built
    <3>. QED
      BY <2>2 DEF IsCall, Idle
  <2>5. Gains(x, y, key, n)
    BY <2>2, <2>4 DEF Gains
  <2> HIDE DEF y, built
  <2>6. NextInPass(Ops(c), x, y, "bool", "place")
    BY <2>2, <2>4 DEF NextInPass, SamePlan
  <2>7. /\ NextInPass(Ops(c), calls[c], calls'[c], "bool", "place")
        /\ Gains(calls[c], calls'[c], Op(c).key, NewId(doc)) /\ turn' = c
    BY <1>1, <1>6, <2>1, <2>3, <2>5, <2>6
  <2>8. Op(c).parent \in DOMAIN Built(c) => home = Built(c)[Op(c).parent]
    BY DEF home
  <2>9. PICK w : w = made
    OBVIOUS
  <2>10. /\ w = Wrap(doc, "BOOLEAN_OPERATION", nodes, home, c)
         /\ doc' = [Tidied(w, stale) EXCEPT ![NewId(doc)].key = Op(c).key]
    BY <1>6, <2>9
  <2>. QED
    BY <1>1, <1>2, <1>4, <1>6, <2>7, <2>8, <2>10, PlanCombines
<1>7. ASSUME Throws(c) PROVE Onward(c)
  BY <1>7, AnsweredOnward DEF Throws
<1>. QED
  BY <1>3, <1>5, <1>6, <1>7

LEMMA AppendMoves ==
  ASSUME NEW d, IsDocument(d), NEW p, NEW n, Accepts(d, p, n)
  PROVE  Live(d, n) /\ Moves(d, AppendChild(d, p, n), p, n)
<1>1. Len(d[p].kids) \in Nat
  BY AppendSpares
<1>2. Fits(d, {n}, p)
  <2> DEFINE S == {n}
  <2>1. S # {} /\ \A m \in S : Accepts(d, p, m)
    OBVIOUS
  <2> HIDE DEF S
  <2>2. Fits(d, S, p)
    BY <2>1, AcceptedFits DEF IsDocument
  <2>. QED
    BY <2>2 DEF S
<1>3. Moves(d, InsertChild(d, p, Len(d[p].kids), n), p, n)
  BY <1>1, <1>2, InsertIsDocument
<1>. QED
  BY <1>3 DEF AppendChild, Accepts, Removable

(* The parent an op's node is put under, if it is put anywhere.            *)
LEMMA PlacesUnder ==
  ASSUME IsDocument(doc), NEW p, PlanOps(p), NEW x, Progress(p, x), x.pc \in Late,
         Tagged(p, x, doc), NEW i \in 1..Len(p), ~Absorbed(p, p[i]), NEW parent,
         parent = IF p[i].parent = None THEN x.got[1]
                  ELSE IF p[i].parent \in DOMAIN x.built THEN x.built[p[i].parent] ELSE None
  PROVE  /\ parent # None
         /\ p[i].parent # None => p[i].parent \in DOMAIN x.built /\ parent = x.built[p[i].parent]
         /\ doc[parent].type \in {"RECTANGLE", "TEXT"} => UnderLeaf(x, doc, p[i])
<1>1. None \notin DOMAIN doc
  BY NoneIsNoNode DEF IsDocument
<1>2. p[i].parent # None => p[i].parent \in DOMAIN x.built
  <2> SUFFICES ASSUME p[i].parent # None PROVE p[i].parent \in DOMAIN x.built
    OBVIOUS
  <2>1. PICK j \in 1..Len(p) : p[j].key = p[i].parent
    BY DEF PlanOps, IsPlanTree, KeysOf
  <2>2. ~IsBoolean(p[j])
    BY <2>1 DEF Absorbed
  <2>. QED
    BY <2>1, <2>2 DEF Progress
<1>3. x.got[1] \in DOMAIN doc /\ doc[x.got[1]].type = "PAGE"
  BY DEF Tagged, LiveNodes
<1>4. p[i].parent # None => parent = x.built[p[i].parent] /\ parent \in DOMAIN doc
  BY <1>2 DEF Tagged, HasTag
<1>. QED
  BY <1>1, <1>2, <1>3, <1>4 DEF UnderLeaf, Live

LEMMA PlaceOnward ==
  ASSUME NEW c \in Calls, Ready(c), PlaceNode(c)
  PROVE  Onward(c)
<1>1. PICK p, x, y, i, parent :
        /\ p = Ops(c) /\ x = calls[c] /\ y = calls'[c] /\ i = calls[c].step
        /\ parent = IF Op(c).parent = None THEN Target(c)
                    ELSE IF Op(c).parent \in DOMAIN Built(c) THEN Built(c)[Op(c).parent] ELSE None
  OBVIOUS
<1>2. turn = c /\ calls[c].pc = "place" /\ CallShape
  BY DEF PlaceNode, At, Ready
<1>3. /\ Progress(p, x) /\ Tagged(p, x, doc) /\ PlanOps(p) /\ x.pc = "place" /\ Applied(p, x, doc)
      /\ IsDocument(doc) /\ NoKeyedGroups(doc) /\ Tags(doc, doc') /\ PagesStay
  BY <1>1, <1>2 DEF Ready, BuildInv, Late
<1>4. Op(c) = p[i] /\ i = x.step /\ i \in 1..Len(p)
  BY <1>1, <1>3 DEF Op, Progress
<1>5. absorbed(c, Op(c)) <=> Absorbed(p, p[i])
  <2>1. DOMAIN Ops(c) = 1..Len(Ops(c))
    BY DEF Ready, PlanOps
  <2>. QED
    BY <1>1, <1>4, <2>1 DEF absorbed, Absorbed, IsBoolean
<1>6. parent = IF p[i].parent = None THEN x.got[1]
               ELSE IF p[i].parent \in DOMAIN x.built THEN x.built[p[i].parent] ELSE None
  BY <1>1, <1>4 DEF Target, Built
<1> DEFINE next == calls' = NextOp(c, "prune") /\ UNCHANGED turn
           childless == parent # None /\ doc[parent].type \in {"RECTANGLE", "TEXT"}
<1>7. \/ (Absorbed(p, p[i]) \/ parent = None \/ childless) /\ next /\ UNCHANGED doc
      \/ Throws(c)
      \/ /\ ~Absorbed(p, p[i]) /\ p[i].key \in DOMAIN x.built
         /\ Accepts(doc, parent, x.built[p[i].key])
         /\ doc' = AppendChild(doc, parent, x.built[p[i].key]) /\ next
  BY <1>1, <1>4, <1>5 DEF PlaceNode, Built
<1>8. ~Absorbed(p, p[i]) =>
        /\ parent # None
        /\ p[i].parent # None => p[i].parent \in DOMAIN x.built /\ parent = x.built[p[i].parent]
        /\ doc[parent].type \in {"RECTANGLE", "TEXT"} => UnderLeaf(x, doc, p[i])
  BY <1>3, <1>4, <1>6, PlacesUnder DEF Late
<1>9. ASSUME next, Applied(p, y, doc') PROVE Onward(c)
  <2>1. NextInPass(p, x, y, "place", "prune") /\ y.built = x.built /\ turn' = c
    BY <1>1, <1>2, <1>9, NextOpFields
  <2>2. Progress(p, y)
    BY <1>3, <2>1, ProgressOfPlacing
  <2>3. Tagged(p, y, doc')
    BY <1>3, <2>1, TaggedStays DEF PagesStay, NextInPass
  <2>. QED
    BY <1>1, <1>9, <2>1, <2>2, <2>3 DEF Onward
<1>10. next => NextInPass(p, x, y, "place", "prune") /\ y.built = x.built
  BY <1>1, <1>2, NextOpFields
<1>11. CASE (Absorbed(p, p[i]) \/ parent = None \/ childless) /\ next /\ UNCHANGED doc
  <2>1. Absorbed(p, p[x.step]) \/ UnderLeaf(x, doc, p[x.step])
    BY <1>4, <1>8, <1>11
  <2>2. Applied(p, y, doc)
    BY <1>3, <1>10, <1>11, <2>1, AppliedWhenLeft
  <2>3. Applied(p, y, doc')
    BY <1>11, <2>2
  <2>. QED
    BY <1>9, <1>11, <2>3
<1>12. CASE /\ ~Absorbed(p, p[i]) /\ p[i].key \in DOMAIN x.built
            /\ Accepts(doc, parent, x.built[p[i].key])
            /\ doc' = AppendChild(doc, parent, x.built[p[i].key]) /\ next
  <2>1. PICK node : node = x.built[p[x.step].key]
    OBVIOUS
  <2>2. Live(doc, node) /\ Moves(doc, doc', parent, node)
    BY <1>3, <1>4, <1>12, <2>1, AppendMoves
  <2>3. IF p[x.step].parent = None THEN parent = x.got[1]
        ELSE p[x.step].parent \in DOMAIN x.built /\ parent = x.built[p[x.step].parent]
    BY <1>4, <1>6, <1>8, <1>12
  <2>4. ~Absorbed(p, p[x.step]) /\ p[x.step].key \in DOMAIN x.built
    BY <1>4, <1>12
  <2>5. NextInPass(p, x, y, "place", "prune") /\ y.built = x.built
    BY <1>10, <1>12
  <2>6. Applied(p, y, doc')
    BY ONLY <1>3, <2>1, <2>2, <2>3, <2>4, <2>5, AppliedWhenPlaced
  <2>. QED
    BY <1>9, <1>12, <2>6
<1>. QED
  BY <1>7, <1>11, <1>12, AnsweredOnward DEF Throws

LEMMA PlanSteps ==
  ASSUME NEW c \in Calls, Works(c), IsPlan(c), calls[c].pc \in Early \cup Late
  PROVE  \/ FontAnswered(c) \/ FindStyle(c) \/ ListAnswered(c) \/ PlanSetsStyle(c) \/ PlanStyleSet(c)
         \/ BuildNode(c) \/ IntrinsicDone(c) \/ BuildBoolean(c) \/ PlaceNode(c) \/ FinishPlan(c)
<1>1. Cmd(c).op = "design.apply" /\ calls[c].pc \notin {"run", "page", "node", "load", "loaded"}
  BY DEF IsPlan, Early, Late
<1>2. ~NodeAnswered(c) /\ ~LoadAnswered(c)
  BY <1>1 DEF NodeAnswered, LoadAnswered, Answered
<1>3. ~HandlerStep(c)
  BY <1>1 DEF HandlerStep, DeleteNode, ReorderNode, MoveNode, BooleanOp, GroupNodes,
     UngroupNode, CreateComponentSet, CreateInstance, InstanceParentAnswered, InstanceSwap,
     SetMask, InstanceOverride, ComponentProperty, PatchNode, TextRange, FontReady, ReadNode,
     ReadSelection, ReadComponents, MainsAnswered, ReadStatus, Handling, At, Answered, Early, Late
<1>4. StyleStep(c) => FindStyle(c) \/ ListAnswered(c)
  BY <1>1 DEF StyleStep, ListStyles, CreateStyle, FinishTextStyle, DeleteStyle, ApplyStyle,
     SetsStyle, StyleSet, At, Answered
<1>5. ~VariableStep(c)
  BY <1>1 DEF VariableStep, ManageVariables, Manages, CollectionAnswered, BindVariable,
     VariableAnswered, At, Answered, Early, Late
<1>6. ~ApplyPlan(c) /\ ~PageShown(c)
  BY <1>1 DEF ApplyPlan, PageShown, At, Answered
<1>. QED
  BY <1>2, <1>3, <1>4, <1>5, <1>6 DEF Works, DesignStep

LEMMA PlanOnward ==
  ASSUME NEW c \in Calls, Ready(c), Works(c)
  PROVE  Onward(c)
<1>1. IsPlan(c) /\ calls[c].pc \in Early \cup Late
  BY DEF Ready, OnOps, BuildInv, Progress
<1>2. FinishPlan(c) => Onward(c)
  BY AnsweredOnward DEF FinishPlan
<1>. QED
  BY <1>1, <1>2, PlanSteps, WaitingOnward, BuildOnward, IntrinsicOnward, BooleanOnward, PlaceOnward

LEMMA PlanOpsOf ==
  ASSUME CallsInv, NEW c \in Calls, IsPlan(c), Running(c)
  PROVE  PlanOps(Ops(c))
<1>1. Cmd(c) \in Commands /\ Cmd(c).op = "design.apply"
  BY DEF CallsInv, CallInv, Running, IsPlan
<1>. QED
  BY <1>1, CommandAssumption DEF PlanOps, Ops, Plan

(* A plan comes to its ops with nothing built and an index of the page.    *)
LEMMA PlanBegun ==
  ASSUME CallShape, IsDocument(doc), NEW c \in Calls, PlanOps(Ops(c)),
         NEW target \in LiveNodes(doc), doc[target].type = "PAGE", BeginsBuild(c, target)
  PROVE  /\ Progress(Ops(c), calls'[c]) /\ Tagged(Ops(c), calls'[c], doc)
         /\ calls'[c].pc = "build"
<1> DEFINE index == IF Plan(c).mode = "sync" THEN indexExistingByKey(target) ELSE <<>>
           y == [calls[c] EXCEPT !.pc = "build", !.step = 1, !.got = <<target>>, !.built = <<>>,
                                 !.index = index]
<1>1. IsCall(calls[c]) /\ calls = [o \in Calls |-> calls[o]]
  BY DEF CallShape
<1>2. \A k \in DOMAIN index : k # None /\ HasTag(doc, index[k], k)
  <2>1. target \in DOMAIN doc
    BY DEF LiveNodes
  <2>2. CASE Plan(c).mode = "sync"
    BY <2>1, <2>2, IndexTags
  <2>3. CASE Plan(c).mode # "sync"
    BY <2>3
  <2>. QED
    BY <2>2, <2>3
<1> HIDE DEF index
<1>3. calls' = [calls EXCEPT ![c].pc = "build", ![c].step = 1, ![c].got = <<target>>,
                             ![c].built = <<>>, ![c].index = index]
  BY DEF BeginsBuild, index
<1>4. calls'[c] = y
  BY <1>1, <1>3
<1>5. y.pc = "build" /\ y.step = 1 /\ y.got = <<target>> /\ y.built = <<>> /\ y.index = index
  BY <1>1 DEF IsCall, Idle
<1> HIDE DEF y
<1>6. PICK p : p = Ops(c)
  OBVIOUS
<1>7. DOMAIN y.built = {} /\ y.got[1] = target
  BY <1>5
<1>8. Progress(p, y)
  <2>1. Len(p) \in Nat \ {0} /\ \A i \in 1..Len(p) : ~(i < 1)
    BY <1>6 DEF PlanOps
  <2>. QED
    BY <1>5, <1>7, <2>1 DEF Progress, Early, Late
<1>9. Tagged(p, y, doc)
  BY <1>2, <1>5, <1>7 DEF Tagged
<1>. QED
  BY <1>4, <1>5, <1>6, <1>8, <1>9

LEMMA PlanEntry ==
  ASSUME CallsInv, IsDocument(doc), PageStands, NEW c \in Calls, Works(c), IsPlan(c), Running(c),
         calls[c].pc \in {"run", "page"}
  PROVE  \/ calls'[c].pc = "page"
         \/ /\ Progress(Ops(c), calls'[c]) /\ Tagged(Ops(c), calls'[c], doc')
            /\ calls'[c].pc = "build"
<1>1. CallShape /\ PlanOps(Ops(c))
  BY PlanOpsOf DEF CallsInv
<1>2. \/ Awaits(c, "page")
      \/ /\ UNCHANGED doc
         /\ \E target \in LiveNodes(doc) : doc[target].type = "PAGE" /\ BeginsBuild(c, target)
  BY PlanEnters DEF ApplyPlan, PageShown, PageStands
<1>3. ASSUME Awaits(c, "page") PROVE calls'[c].pc = "page"
  BY <1>1, <1>3 DEF Awaits, CallShape, IsCall, Idle
<1>4. ASSUME UNCHANGED doc, NEW target \in LiveNodes(doc), doc[target].type = "PAGE",
             BeginsBuild(c, target)
      PROVE  /\ Progress(Ops(c), calls'[c]) /\ Tagged(Ops(c), calls'[c], doc')
             /\ calls'[c].pc = "build"
  <2>1. /\ Progress(Ops(c), calls'[c]) /\ Tagged(Ops(c), calls'[c], doc)
        /\ calls'[c].pc = "build"
    BY <1>1, <1>4, PlanBegun
  <2>. QED
    BY <1>4, <2>1
<1>. QED
  BY <1>2, <1>3, <1>4

LEMMA WorksInTurn ==
  ASSUME NEW c, Works(c)
  PROVE  turn = c \/ turn = None
<1>1. HandlerStep(c) => turn = c \/ turn = None
  BY DEF HandlerStep, DeleteNode, ReorderNode, MoveNode, BooleanOp, GroupNodes,
     UngroupNode, CreateComponentSet, CreateInstance, InstanceParentAnswered, InstanceSwap,
     SetMask, InstanceOverride, ComponentProperty, PatchNode, TextRange, FontReady, ReadNode,
     ReadSelection, ReadComponents, MainsAnswered, ReadStatus, Handling, At, Answered
<1>2. StyleStep(c) => turn = c \/ turn = None
  BY DEF StyleStep, FindStyle, ListAnswered, ListStyles, CreateStyle, FinishTextStyle, DeleteStyle,
     ApplyStyle, SetsStyle, StyleSet, At, Answered
<1>3. DesignStep(c) \/ VariableStep(c) => turn = c \/ turn = None
  BY DEF DesignStep, ApplyPlan, PageShown, BuildNode, IntrinsicDone, PlanSetsStyle, PlanStyleSet,
     BuildBoolean, PlaceNode, FinishPlan, VariableStep, ManageVariables, CollectionAnswered,
     BindVariable, VariableAnswered, At, Answered
<1>. QED
  BY <1>1, <1>2, <1>3 DEF Works, NodeAnswered, FontAnswered, LoadAnswered, Answered

(* What others do to the file leaves a plan that waits as it is.           *)
LEMMA BuildStays ==
  ASSUME NEW c, BuildInv(c), OnOps(c) => calls[c].pc \notin Late, SameCall(calls'[c], calls[c]),
         Tags(doc, doc'), PagesStay
  PROVE  BuildInv(c)'
<1>1. IsPlan(c)' = IsPlan(c) /\ Ops(c)' = Ops(c)
  BY DEF SameCall, IsPlan, Ops, Plan, Cmd
<1>2. ASSUME OnOps(c)'
      PROVE  /\ Progress(Ops(c), calls'[c]) /\ Tagged(Ops(c), calls'[c], doc')
             /\ calls'[c].pc \notin Late
  <2>1. OnOps(c)
    BY <1>1, <1>2 DEF OnOps, SameCall
  <2>2. PICK p, x, y : p = Ops(c) /\ x = calls[c] /\ y = calls'[c]
    OBVIOUS
  <2>3. Progress(p, x) /\ Tagged(p, x, doc) /\ x.pc \notin Late
    BY <2>1, <2>2 DEF BuildInv
  <2>4. y.pc = x.pc /\ y.step = x.step /\ y.built = x.built /\ SamePlan(x, y)
    BY <2>2 DEF SameCall, SamePlan
  <2>5. Progress(p, y)
    BY <2>3, <2>4 DEF Progress
  <2>6. Tagged(p, y, doc')
    BY <2>3, <2>4, TaggedStays DEF PagesStay
  <2>. QED
    BY <2>2, <2>3, <2>4, <2>5, <2>6
<1>3. BuildInv(c)' <=>
       (OnOps(c)' =>
          /\ Progress(Ops(c)', calls'[c]) /\ Tagged(Ops(c)', calls'[c], doc')
          /\ calls'[c].pc \in Late => turn' = c /\ Applied(Ops(c)', calls'[c], doc'))
  BY DEF BuildInv
<1>. QED
  BY <1>1, <1>2, <1>3

LEMMA WorkKeepsBuilds ==
  ASSUME PluginInv, DocInv, \A o \in Calls : BuildInv(o), NEW c \in Calls, Works(c),
         Tags(doc, doc'), PagesStay
  PROVE  \A o \in Calls : BuildInv(o)'
<1>1. /\ CallsInv /\ CallShape /\ Advances(c) /\ Running(c)
      /\ \A o \in Calls : o # c => calls'[o] = calls[o]
      /\ \A o \in Calls : calls'[o].cmd = calls[o].cmd
  BY WorkHolds, AdvancingLeavesOthers DEF PluginInv, CallsInv, StylesStep, Advances
<1>2. ASSUME NEW o \in Calls, o # c PROVE BuildInv(o)'
  <2>1. SameCall(calls'[o], calls[o])
    BY <1>1, <1>2 DEF SameCall
  <2>2. turn # o
    BY <1>2, WorksInTurn, ActorAssumption
  <2>3. OnOps(o) => calls[o].pc \notin Late
    BY <2>2 DEF BuildInv
  <2>. QED
    BY <2>1, <2>3, BuildStays
<1>3. BuildInv(c)'
  <2> SUFFICES ASSUME OnOps(c)' PROVE BuildInv(c)'
    BY DEF BuildInv
  <2>1. Cmd(c)' = Cmd(c) /\ IsPlan(c) /\ Ops(c)' = Ops(c)
    BY <1>1 DEF Cmd, IsPlan, OnOps, Ops, Plan
  <2>2. calls'[c].pc \notin {"idle", "run", "page", "done"}
    BY DEF OnOps
  <2>3. /\ Progress(Ops(c), calls'[c]) /\ Tagged(Ops(c), calls'[c], doc')
        /\ calls'[c].pc \in Late => turn' = c /\ Applied(Ops(c), calls'[c], doc')
    <3>1. CASE calls[c].pc \in {"run", "page"}
      <4>1. "build" \notin Late
        BY DEF Late
      <4>. QED
        BY <1>1, <2>1, <2>2, <3>1, <4>1, PlanEntry DEF DocInv
    <3>2. CASE calls[c].pc \notin {"run", "page"}
      <4>1. Ready(c)
        BY <1>1, <2>1, <3>2, PlanOpsOf DEF Ready, OnOps, Running, DocInv, PageStands
      <4>2. Onward(c)
        BY <4>1, PlanOnward
      <4>. QED
        BY <2>2, <4>2 DEF Onward
    <3>. QED
      BY <3>1, <3>2
  <2>4. BuildInv(c)' <=>
         (OnOps(c)' =>
            /\ Progress(Ops(c)', calls'[c]) /\ Tagged(Ops(c)', calls'[c], doc')
            /\ calls'[c].pc \in Late => turn' = c /\ Applied(Ops(c)', calls'[c], doc'))
    BY DEF BuildInv
  <2>. QED
    BY <2>1, <2>3, <2>4
<1>. QED
  BY <1>2, <1>3

LEMMA RestingKeepsBuilds ==
  ASSUME CallShape, \A o \in Calls : BuildInv(o), turn = None, NEW c \in Calls,
         SameCall(calls'[c], calls[c]), Tags(doc, doc'), PagesStay
  PROVE  BuildInv(c)'
<1>1. OnOps(c) => calls[c].pc \notin Late
  BY ActorAssumption DEF BuildInv
<1>. QED
  BY <1>1, BuildStays

LEMMA NextKeepsBuilds ==
  ASSUME PluginInv, DocInv, \A c \in Calls : BuildInv(c), [Next]_pluginVars
  PROVE  \A c \in Calls : BuildInv(c)'
<1>1. CallsInv /\ CallShape
  BY DEF PluginInv, CallsInv
<1>2. ASSUME NEW c \in Calls, Start(c) PROVE \A o \in Calls : BuildInv(o)'
  <2>1. PICK k, x : Started(c, k, x)
    BY <1>1, <1>2, StartEffect
  <2>2. calls'[c] = x /\ \A o \in Calls : o # c => SameCall(calls'[o], calls[o])
    BY <1>1, <1>2, <2>1, StartEffect, DisturbedCalls DEF Started, CallShape, SameCall
  <2>3. turn = None /\ Tags(doc, doc') /\ PagesStay
    BY <1>2, UnchangedTags DEF Start, PagesStay
  <2>4. ASSUME NEW o \in Calls, o # c PROVE BuildInv(o)'
    BY <1>1, <2>2, <2>3, <2>4, RestingKeepsBuilds
  <2>5. BuildInv(c)'
    BY <2>1, <2>2 DEF Started, BuildInv, OnOps, IsPlan, Cmd
  <2>. QED
    BY <2>4, <2>5
<1>3. ASSUME NEW c \in Calls, Works(c) PROVE \A o \in Calls : BuildInv(o)'
  <2>1. IsPlan(c) /\ calls[c].pc = "build" => OpAt(c, calls[c].step)
    BY DEF PlanInv, DocInv
  <2>2. Tends(c)
    BY <1>1, <1>3, <2>1, WorkTends DEF PageStands, DocInv
  <2>. QED
    BY <1>3, <2>2, WorkKeepsBuilds DEF Tends
<1>4. CASE UserDeletesNode \/ UserShowsPage \/ UserDeletesStyle \/ UserCreatesStyle
  <2>1. calls' = Disturbed /\ turn = None
    BY <1>4 DEF UserDeletesNode, UserShowsPage, UserDeletesStyle, UserCreatesStyle, UserActs
  <2>2. PagesStay /\ Tags(doc, doc')
    BY <1>4, UserTends DEF DocInv
  <2>. QED
    BY <1>1, <2>1, <2>2, DisturbedCalls, RestingKeepsBuilds
<1>5. CASE UNCHANGED pluginVars
  <2>1. UNCHANGED <<doc, calls, turn>>
    BY <1>5 DEF pluginVars
  <2>. QED
    BY <2>1 DEF BuildInv, OnOps, IsPlan, Ops, Plan, Cmd
<1>. QED
  BY <1>2, <1>3, <1>4, <1>5 DEF Next, CallStep, Works, Rest

LEMMA BuildInvariant == Spec => [](PluginInv /\ DocInv /\ \A c \in Calls : BuildInv(c))
<1>1. Init => PluginInv /\ DocInv /\ \A c \in Calls : BuildInv(c)
  <2>1. Init => \A c \in Calls : BuildInv(c)
    BY DEF Init, CallsInit, BuildInv, OnOps, Idle
  <2>. QED
    BY <2>1, InitPlugin, InitDocument
<1>2. /\ PluginInv /\ DocInv /\ (\A c \in Calls : BuildInv(c)) /\ [Next]_pluginVars
      => (PluginInv /\ DocInv /\ \A c \in Calls : BuildInv(c))'
  BY NextKeepsPlugin, NextKeepsDocument, NextKeepsBuilds
<1>. QED
  BY <1>1, <1>2, PTL DEF Spec

-----------------------------------------------------------------------------
LEMMA PlanStands ==
  ASSUME NEW c \in Calls, Ready(c), Applies(c), FinishPlan(c)
  PROVE  \A i \in 1..Len(Ops(c)) : There(Ops(c), calls[c], doc', i)
<1>1. PICK p, x : p = Ops(c) /\ x = calls[c]
  OBVIOUS
<1>2. calls[c].pc = "prune"
  BY DEF FinishPlan, At
<1>3. /\ Progress(p, x) /\ Tagged(p, x, doc) /\ PlanOps(p) /\ x.pc = "prune" /\ Applied(p, x, doc)
      /\ IsDocument(doc) /\ NoKeyedGroups(doc)
  BY <1>1, <1>2 DEF Ready, BuildInv, Late
<1>4. DOMAIN p = 1..Len(p) /\ \A o : o \in ToSet(p) <=> \E i \in 1..Len(p) : o = p[i]
  BY <1>3 DEF PlanOps, ToSet
<1>5. ASSUME NEW i \in 1..Len(p), UnderLeaf(x, doc, p[i]) PROVE FALSE
  <2>1. p[i].parent \in DOMAIN x.built /\ Live(doc, x.built[p[i].parent])
        /\ doc[x.built[p[i].parent]].type \in {"RECTANGLE", "TEXT"}
    BY <1>5 DEF UnderLeaf
  <2>2. PICK j \in 1..Len(p) : p[j].key = p[i].parent
    BY <1>3, <2>1 DEF Progress, KeysOf
  <2>3. doc[x.built[p[i].parent]].type = p[j].type
    <3>1. CASE p[j].key \in DOMAIN x.index /\ x.built[p[j].key] = x.index[p[j].key]
      <4>1. Live(doc, x.index[p[j].key])
        BY <2>1, <2>2, <3>1
      <4>2. doc[calls[c].index[Ops(c)[j].key]].type = Ops(c)[j].type
        BY <1>1, <1>4, <3>1, <4>1 DEF Applies, KeepsType
      <4>. QED
        BY <1>1, <2>2, <3>1, <4>2
    <3>2. CASE Live(doc, x.built[p[j].key]) => doc[x.built[p[j].key]].type = p[j].type
      BY <2>1, <2>2, <3>2
    <3>. QED
      BY <1>3, <2>1, <2>2, <3>1, <3>2 DEF Tagged
  <2>4. p[i] \in ToSet(p) /\ p[j] \in ToSet(p)
    BY <1>4
  <2>5. UnderShape(c, p[i])
    BY <1>1, <2>1, <2>2, <2>3, <2>4 DEF UnderShape
  <2>. QED
    BY <1>1, <2>4, <2>5 DEF Applies
<1>6. \A i \in 1..Len(p) : There(p, x, doc, i)
  BY <1>3, <1>5, PlanIsThere
<1>7. CASE UNCHANGED doc
  BY <1>1, <1>6, <1>7
<1>8. CASE ~UNCHANGED doc
  <2> DEFINE index == calls[c].index
             unused == {n \in {index[k] : k \in DOMAIN index \ DOMAIN Built(c)} : Removable(doc, n)}
             gone == unused \cup UNION {Below(doc, n) : n \in unused}
  <2>1. Plan(c).mode = "sync" /\ Plan(c).prune /\ doc' = Sweep(Drop(doc, gone))
    BY <1>8 DEF FinishPlan
  <2>2. \A n \in unused : Removable(doc, n) /\ \E k \in DOMAIN x.index \ DOMAIN x.built : n = x.index[k]
    BY <1>1 DEF Built
  <2>3. ASSUME NEW i \in 1..Len(p), Skipped(p, x, i) PROVE FALSE
    <3>1. SkippedBoolean(c, p[i])
      BY <1>1, <1>4, <2>3 DEF Skipped, SkippedBoolean, Nested, absorbed, Absorbed, IsBoolean, Built
    <3>2. p[i] \in ToSet(p)
      BY <1>4
    <3>. QED
      BY <1>1, <2>1, <3>1, <3>2 DEF Applies
  <2> HIDE DEF unused
  <2>4. PICK lost : lost = gone
    OBVIOUS
  <2>5. lost = unused \cup UNION {Below(doc, n) : n \in unused} /\ doc' = Sweep(Drop(doc, lost))
    BY <2>1, <2>4
  <2>6. \A i \in 1..Len(p) : There(p, x, doc, i) /\ ~Skipped(p, x, i)
    BY <1>6, <2>3
  <2>7. \A i \in 1..Len(p) : There(p, x, doc', i)
    BY ONLY <1>3, <2>2, <2>5, <2>6, PruningSparesPlan
  <2>. QED
    BY <1>1, <2>7
<1>. QED
  BY <1>7, <1>8

(* A design command that answers ok has its plan in the file, whatever ran *)
(* in between: every op's node is there under the node of its parent op,   *)
(* but for a boolean in a boolean that Figma refused (handleApplyPlan,     *)
(* which warns of it and goes on); pruning takes none of them away.        *)
THEOREM OkIsApplied == Spec => OkMeansApplied
<1> DEFINE Stands(c, i) ==
             LET op   == Ops(c)[i]
                 node == Built(c)[op.key]
                 over == {j \in DOMAIN Ops(c) : Ops(c)[j].key = op.parent}
             IN  \/ SkippedBoolean(c, op)
                 \/ /\ op.key \in DOMAIN Built(c)
                    /\ Live(doc', node)
                    /\ doc'[node].key = op.key
                    /\ \/ op.parent = None /\ doc'[node].parent = Target(c)
                       \/ \E j \in over : \/ SkippedBoolean(c, Ops(c)[j])
                                          \/ /\ op.parent \in DOMAIN Built(c)
                                             /\ doc'[node].parent = Built(c)[op.parent]
           Holding == \A c \in Calls : Running(c) /\ calls'[c].out = "ok" /\ Applies(c) =>
                                       \A i \in DOMAIN Ops(c) : Stands(c, i)
           Inv == PluginInv /\ DocInv /\ \A c \in Calls : BuildInv(c)
<1>1. ASSUME Inv, [Next]_pluginVars, NEW c \in Calls, Applies(c), Running(c), calls'[c].out = "ok"
      PROVE  \A i \in DOMAIN Ops(c) : Stands(c, i)
  <2>1. calls[c].out = None /\ CallsInv /\ CallShape /\ StylesInv /\ PluginInv /\ DocInv /\ IsPlan(c)
    BY <1>1 DEF PluginInv, CallsInv, CallInv, Applies
  <2>2. calls'[c].out # calls[c].out
    BY <1>1, <2>1, AnswerAssumption
  <2>3. Works(c)
    <3>1. ASSUME NEW o \in Calls, o # c, Works(o) PROVE FALSE
      <4>1. calls'[c] = calls[c]
        BY <2>1, <3>1, WorkHolds, AdvancingLeavesOthers DEF StylesStep
      <4>. QED
        BY <2>2, <4>1
    <3>2. ASSUME NEW o \in Calls, Start(o) PROVE FALSE
      <4>1. o # c
        BY <1>1, <3>2 DEF Start, Running
      <4>2. SameCall(calls'[c], calls[c])
        <5>1. PICK k, x : Started(o, k, x)
          BY <2>1, <3>2, StartEffect
        <5>. QED
          BY <2>1, <4>1, <5>1, DisturbedCalls DEF Started, CallShape, SameCall
      <4>. QED
        BY <2>2, <4>2 DEF SameCall
    <3>3. ASSUME calls' = Disturbed \/ calls' = calls PROVE FALSE
      BY <2>1, <2>2, <3>3, DisturbedCalls DEF SameCall
    <3>. QED
      BY <1>1, <3>1, <3>2, <3>3 DEF Next, CallStep, Works, Rest, UserDeletesNode, UserShowsPage,
         UserDeletesStyle, UserCreatesStyle, UserActs, pluginVars
  <2>4. calls'[c].pc = "done"
    <3>1. Advances(c)
      BY <2>1, <2>3, WorkHolds DEF StylesStep
    <3>. QED
      BY <2>2, <3>1 DEF Advances
  <2>5. calls[c].pc \notin {"run", "page"}
    BY <1>1, <2>1, <2>3, <2>4, PlanEntry DEF DocInv
  <2>6. Ready(c)
    <3>1. Tends(c)
      <4>1. IsPlan(c) /\ calls[c].pc = "build" => OpAt(c, calls[c].step)
        BY <2>1 DEF DocInv, PlanInv
      <4>. QED
        BY <2>1, <2>3, <4>1, WorkTends DEF PageStands, DocInv
    <3>2. BuildInv(c) /\ PlanOps(Ops(c))
      BY <1>1, <2>1, PlanOpsOf
    <3>. QED
      BY <1>1, <2>1, <2>5, <3>1, <3>2 DEF Ready, OnOps, Running, DocInv, PageStands, Tends
  <2>7. FinishPlan(c)
    <3>1. Onward(c)
      BY <2>3, <2>6, PlanOnward
    <3>. QED
      BY <1>1, <2>4, <3>1 DEF Onward, Progress, Early, Late
  <2>8. \A i \in 1..Len(Ops(c)) : There(Ops(c), calls[c], doc', i)
    BY <1>1, <2>6, <2>7, PlanStands
  <2>9. DOMAIN Ops(c) = 1..Len(Ops(c))
    BY <2>6 DEF Ready, PlanOps
  <2>10. ASSUME NEW i \in 1..Len(Ops(c)), Skipped(Ops(c), calls[c], i)
         PROVE  SkippedBoolean(c, Ops(c)[i])
    BY <2>9, <2>10 DEF Skipped, SkippedBoolean, Nested, absorbed, Absorbed, IsBoolean, Built
  <2>. QED
    BY <2>8, <2>9, <2>10 DEF There, Built, Target
<1>2. Inv /\ [Next]_pluginVars => Holding
  BY <1>1
<1>3. Inv /\ [Next]_pluginVars => [Holding]_pluginVars
  BY <1>2
<1>4. Spec => []Inv
  BY BuildInvariant
<1> HIDE DEF Holding, Inv
<1>5. Spec => [][Holding]_pluginVars
  BY <1>3, <1>4, PTL DEF Spec
<1>. QED
  BY <1>5, PTL DEF OkMeansApplied, Holding
=============================================================================
