------------------------------- MODULE Plugin -------------------------------
(***************************************************************************)
(* The plugin at work: overlapping commands and a user in the same file.   *)
(* Properties of what the handlers leave behind, alone and together, and   *)
(* of the coordinator's advice to send a command again.                    *)
(***************************************************************************)
EXTENDS PluginHandlers, DesignApply, PluginVariables

CONSTANTS
  MaxMoves,            \* bound: how often the user steps in
  Fragile              \* bound: the nodes the user may delete

Advised == INSTANCE Reconciliation WITH Nobody <- None

(* ---- the user ------------------------------------------------------------ *)

UserActs ==
  /\ turn = None /\ moves < MaxMoves
  /\ moves' = moves + 1 /\ calls' = Disturbed
UserDeletesNode ==
  /\ UserActs
  /\ \E n \in LiveNodes(doc) \cap Fragile : Removable(doc, n) /\ doc' = RemoveNode(doc, n)
  /\ UNCHANGED <<page, library, collections, turn>>
UserShowsPage ==
  /\ UserActs
  /\ \E p \in LiveNodes(doc) \ {page} : doc[p].type = "PAGE" /\ page' = p
  /\ UNCHANGED <<doc, library, collections, turn>>
UserDeletesStyle ==
  /\ UserActs
  /\ \E s \in DOMAIN styles : /\ StyleLive(s)
                              /\ styles' = [styles EXCEPT ![s].gone = User]
                              /\ doc' = Unlinked(s)
  /\ UNCHANGED <<page, cache, fonts, collections, turn>>
UserCreatesStyle ==
  /\ UserActs
  /\ \E k \in {k \in Commands : k.op \in StyleFirst} :
       styles' = AddStyle(KindOf(k), k.key, User)
  /\ UNCHANGED <<doc, page, cache, fonts, collections, turn>>

Init == CallsInit
CallStep(c) ==
  /\ Start(c) \/ NodeAnswered(c) \/ FontAnswered(c) \/ LoadAnswered(c)
       \/ HandlerStep(c) \/ StyleStep(c) \/ DesignStep(c) \/ VariableStep(c)
  /\ UNCHANGED moves
\* The only state without a step: every command is answered.
Rest == (\A c \in Calls : calls[c].pc = "done") /\ UNCHANGED pluginVars
Next ==
  \/ \E c \in Calls : CallStep(c)
  \/ UserDeletesNode \/ UserShowsPage \/ UserDeletesStyle \/ UserCreatesStyle
  \/ Rest
Spec == Init /\ [][Next]_pluginVars

(* ---- properties ------------------------------------------------------------ *)

PluginTypeOK ==
  /\ \A n \in DOMAIN doc : doc[n].type \in NodeTypes
  /\ IsForest(doc)
  /\ Live(doc, page) /\ doc[page].type = "PAGE"
  /\ turn \in Calls \cup {None}
  /\ \A c \in Calls : Running(c) \/ turn # c
  /\ \A kind \in Kinds : cache[kind] = None \/ cache[kind] \subseteq DOMAIN styles

Done(c) == calls[c].pc = "done"
Overlap(c, o) ==
  c # o /\ Cmd(c) # None /\ Cmd(o) # None /\ c \notin calls[o].after /\ o \notin calls[c].after
Alone(c) == \A o \in Calls : ~Overlap(c, o)
\* What r asks for is what the coordinator advises after c's answer was lost.
IsAdvisedRetry(r, c) ==
  LET advice == Advised!recommendReconciliation(Cmd(c), "COMMAND_TIMEOUT")
  IN  r # c /\ Cmd(c) # None /\ Cmd(r) # None /\ advice.safe /\ Cmd(r) = advice.cmd

\* Two results where one was asked for, made by these two commands.
Duplicated(c, r) ==
  \/ \E m, n \in LiveNodes(doc) :
       /\ m # n /\ doc[m].by \in {c, r} /\ doc[n].by \in {c, r}
       /\ \/ doc[m].key # None /\ doc[m].key = doc[n].key
          \/ doc[m].op # None /\ doc[m].op = doc[n].op
  \/ \E s, t \in DOMAIN styles :
       /\ s # t /\ styles[s].by \in {c, r} /\ styles[t].by \in {c, r}
       /\ StyleLive(s) /\ StyleLive(t)
       /\ styles[s].kind = styles[t].kind /\ styles[s].name = styles[t].name

\* A boolean op of a plan whose parent is a boolean op.
Nested(c, op) == op.type = "BOOLEAN_OPERATION" /\ absorbed(c, op)

(* A retry the coordinator calls safe leaves one result, whatever became   *)
(* of the first attempt, if that is over when the retry begins and what it *)
(* made is on the page the retry looks at: its plan's, or the one on show, *)
(* also when another page was shown in between.  A plan with a boolean in  *)
(* a boolean is left out: the outer one of the first attempt still holds   *)
(* the inner one when the sync looks whether it is empty, and stays.       *)
AdvisedRetryAddsNothing ==
  \A c, r \in Calls :
    /\ Done(r) /\ c \in calls[r].after /\ Alone(r) /\ calls[r].here
    /\ IsAdvisedRetry(r, c)
    /\ ~(IsPlan(r) /\ \E op \in ToSet(Ops(r)) : Nested(r, op))
    => ~Duplicated(c, r)

(* The same without those two conditions: what the advice says.            *)
SafeRetryNeverDuplicates ==
  \A c, r \in Calls : Done(c) /\ Done(r) /\ IsAdvisedRetry(r, c) => ~Duplicated(c, r)

(* A command classified as safe to send again, sent again after it has     *)
(* succeeded, changes nothing or fails.                                    *)
Again(r) == \E c \in calls[r].after : Cmd(c) = Cmd(r) /\ calls[c].out = "ok"
RepeatChangesNothing ==
  [][\A r \in Calls :
       /\ Running(r) /\ calls'[r].pc = "done"
       /\ calls[r].before # None /\ Again(r) /\ calls[r].here /\ moves = 0
       /\ Cmd(r).op # "design.apply"
       /\ Advised!recommendReconciliation(Cmd(r), "COMMAND_TIMEOUT").action = "retry_as_is"
       => file' = calls[r].before]_pluginVars

(* A command that answers with an error has left the tree and the styles   *)
(* as they were, but for four that fail after their first change: a design *)
(* command, an instance whose parent is not there, a text style without a  *)
(* font, and a node moved onto a page, which has no absoluteTransform.     *)
FailsLate(c) ==
  \/ IsPlan(c) \/ Cmd(c).op = "instance.create"
  \/ Cmd(c).op = "styles.create" /\ KindOf(Cmd(c)) = "text"
  \/ Handling(c, "node.move") /\ Type(c, 2) = "PAGE" /\ Cmd(c).arg.preserve
ErrorsChangeNothing ==
  [][\A c \in Calls :
       /\ Running(c) /\ calls'[c].out \notin {None, "ok"}
       /\ calls[c].before # None /\ ~FailsLate(c)
       => file' = calls[c].before]_pluginVars

\* A sync has taken over a node of another type than the plan's.
KeepsType(c) ==
  \E i \in DOMAIN Ops(c) : /\ Ops(c)[i].key \in DOMAIN calls[c].index
                           /\ Live(doc, calls[c].index[Ops(c)[i].key])
                           /\ doc[calls[c].index[Ops(c)[i].key]].type # Ops(c)[i].type

\* A boolean within a boolean that Figma refused: the code warns and goes on.
SkippedBoolean(c, op) == Nested(c, op) /\ op.key \notin DOMAIN Built(c)

\* An op under a shape or a text, which hold no children: its node stays where it is.
UnderShape(c, op) ==
  \E o \in ToSet(Ops(c)) : o.key = op.parent /\ o.type \in {"RECTANGLE", "TEXT"}

(* A design command that answers ok has the plan in the file, whatever ran *)
(* in between and whatever was pruned: every op's node is there, under the *)
(* node of its parent op; only a refused boolean within a boolean has none *)
(* and leaves its shapes where they are.  Left out are a plan with an op   *)
(* under a shape, a sync that reuses a node of another type than the       *)
(* plan's, which the code ignores, and one that prunes after a boolean was *)
(* refused: it may prune the place where that boolean's shapes have stayed.*)
Applies(c) ==
  /\ IsPlan(c) /\ ~KeepsType(c)
  /\ \A op \in ToSet(Ops(c)) :
       ~UnderShape(c, op) /\ ~(SkippedBoolean(c, op) /\ Plan(c).mode = "sync" /\ Plan(c).prune)
OkMeansApplied ==
  [][\A c \in Calls :
       Running(c) /\ calls'[c].out = "ok" /\ Applies(c) =>
         \A i \in DOMAIN Ops(c) :
           LET op   == Ops(c)[i]
               node == Built(c)[op.key]
               over == {j \in DOMAIN Ops(c) : Ops(c)[j].key = op.parent}
           IN  \/ SkippedBoolean(c, op)
               \/ /\ op.key \in DOMAIN Built(c)
                  /\ Live(doc', node)
                  /\ doc'[node].key = op.key
                  /\ \/ op.parent = None /\ doc'[node].parent = Target(c)
                     \/ \E j \in over : \/ SkippedBoolean(c, Ops(c)[j])
                                        \/ /\ op.parent \in DOMAIN Built(c)
                                           /\ doc'[node].parent = Built(c)[op.parent]]_pluginVars

(* A lookup by name that comes back empty is right: no style of that name  *)
(* is there but one that the user or an overlapping command has made.      *)
LookupsMissNothing ==
  \A c \in Calls :
    turn = c /\ calls[c].pc = "styled" /\ calls[c].style = None =>
      \A s \in LocalStyles(KindOf(Cmd(c))) :
        styles[s].name = NameFor(c) => styles[s].by \in {o \in Calls : Overlap(c, o)} \cup {User}

(* A cached handle is that of a style that is there, unless the user took  *)
(* it away, or a command that overlapped another did.                      *)
CacheIsTrue ==
  \A kind \in Kinds : cache[kind] # None =>
    \A s \in cache[kind] :
      styles[s].gone \in Calls => ~Alone(styles[s].gone)

(* Rearranging loses nothing: content goes only when a command that        *)
(* deletes (node.delete, a sync that prunes) or the user takes it away.    *)
(* What else a step of the plugin removes is groups left empty and, in a   *)
(* sync, the one node it makes a boolean anew for, with nothing below it.  *)
Content(d) == {n \in LiveNodes(d) : d[n].type # "GROUP"}
Replaced(c) ==
  {calls[c].index[k] : k \in {k \in DOMAIN calls[c].index :
                               At(c, "bool") /\ IsPlan(c) /\ k = Op(c).key}}
Deleting(c) ==
  \/ Handling(c, "node.delete")
  \/ At(c, "prune") /\ Plan(c).mode = "sync" /\ Plan(c).prune
ContentSurvives ==
  [][moves' = moves /\ (\A c \in Calls : ~Deleting(c)) =>
       Content(doc) \ UNION {Replaced(c) : c \in Calls} \subseteq Content(doc')]_pluginVars
=============================================================================
