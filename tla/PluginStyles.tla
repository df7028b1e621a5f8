---------------------------- MODULE PluginStyles ----------------------------
(***************************************************************************)
(* Local styles in figma-plugin/code.js: the lookup by name through a      *)
(* cache per kind, and the handlers that create, update, delete, apply and *)
(* list styles.  A style is named by the command's key; kind is its arg,   *)
(* except where the handler knows it.  The kinds effect and grid are       *)
(* treated by the code as paint is, without the font of a text style.      *)
(***************************************************************************)
EXTENDS PluginCalls

KindOf(k) ==
  CASE k.op \in {"text_range.set"} -> "text"
    [] k.op \in {"node.patch", "design.apply", "paint_style.create"} -> "paint"
    [] OTHER -> k.arg.kind
\* The name looked for: a plan's current op may refer to one of its own.
NameFor(c) == IF Cmd(c).op = "design.apply" THEN Cmd(c).arg.ops[calls[c].step].ref
              ELSE Cmd(c).key
LocalStyles(kind) == {s \in DOMAIN styles : styles[s].gone = None /\ styles[s].kind = kind}
StyleLive(s) == s \in DOMAIN styles /\ styles[s].gone = None
ForgetText(kind) ==                                  \* mutant
  IF kind = "text" THEN cache' = [cache EXCEPT ![kind] = None] ELSE UNCHANGED cache
Forget(kind) == cache' = [cache EXCEPT ![kind] = None]

(* ---- findPaintStyleByName, findStyleOfKindByName ------------------------ *)

Named(c, list) == {s \in list : styles[s].name = NameFor(c)}
AsksList(c, pc) ==
  /\ calls' = [calls EXCEPT ![c].pc = pc, ![c].list = LocalStyles(KindOf(Cmd(c)))]
  /\ turn' = None
Finds(c, s) ==
  /\ calls' = [calls EXCEPT ![c].pc = "styled", ![c].style = s, ![c].list = {}]
  /\ turn' = c

FindCached(c) ==                                     \* mutant
  /\ At(c, "find")
  /\ LET kind == KindOf(Cmd(c))
     IN  IF cache[kind] = None THEN AsksList(c, "list")
         ELSE IF Named(c, cache[kind]) = {} THEN Finds(c, None)
         ELSE \E s \in Named(c, cache[kind]) : Finds(c, s)
  /\ UNCHANGED <<doc, page, library, collections>>
FindStyle(c) ==
  /\ At(c, "find")
  /\ LET kind == KindOf(Cmd(c))
     IN  IF cache[kind] = None THEN AsksList(c, "list")
         ELSE IF Named(c, cache[kind]) = {} THEN AsksList(c, "relist")
         ELSE \E s \in Named(c, cache[kind]) : Finds(c, s)
  /\ UNCHANGED <<doc, page, library, collections>>

(* The list is that of the moment it was asked for or of the moment it     *)
(* arrives.  It becomes the cache, and a name missing from the first list  *)
(* is looked for in a second.                                              *)
ListAnswered(c) ==
  /\ \/ Answered(c, "list") \/ Answered(c, "relist")
  /\ LET kind == KindOf(Cmd(c))
     IN  \E list \in {calls[c].list, LocalStyles(kind)} :
           /\ cache' = [cache EXCEPT ![kind] = list]
           /\ IF Cmd(c).op = "styles.list" THEN Answers(c, "ok")
              ELSE IF Named(c, list) # {} THEN \E s \in Named(c, list) : Finds(c, s)
              ELSE IF calls[c].pc = "list" THEN AsksList(c, "relist")
              ELSE Finds(c, None)
  /\ UNCHANGED <<doc, page, styles, fonts, collections>>

(* ---- handlers ------------------------------------------------------------ *)

ListStyles(c) ==
  /\ At(c, "run") /\ Cmd(c).op = "styles.list"
  /\ AsksList(c, "relist")
  /\ UNCHANGED <<doc, page, library, collections>>

AddStyle(kind, name, by) ==
  [s \in DOMAIN styles \cup {Cardinality(DOMAIN styles) + 1} |->
     IF s \in DOMAIN styles THEN styles[s]
     ELSE [kind |-> kind, name |-> name, by |-> by, gone |-> None]]

\* Create or update by name.  A text style exists, unfinished, while its font loads.
CreateStyle(c) ==
  /\ At(c, "styled") /\ Cmd(c).op \in {"paint_style.create", "styles.create"}
  /\ LET found == calls[c].style
         kind  == KindOf(Cmd(c))
         new   == Cardinality(DOMAIN styles) + 1
     IN  IF found # None /\ ~StyleLive(found)
         THEN Answers(c, "FIGMA_API_ERROR") /\ UNCHANGED <<styles, cache>>
         ELSE /\ styles' = IF found # None THEN styles ELSE AddStyle(kind, Cmd(c).key, c)
              /\ \/ kind = "paint" /\ Forget(kind) /\ Answers(c, "ok")
                 \/ /\ kind = "text"
                    /\ calls' = [calls EXCEPT
                         ![c].style = IF found # None THEN found ELSE new,
                         ![c].pc = IF "wanted" \in fonts THEN "fonted" ELSE "font"]
                    /\ turn' = IF "wanted" \in fonts THEN c ELSE None
                    /\ UNCHANGED cache
  /\ UNCHANGED <<doc, page, fonts, collections>>

FinishTextStyle(c) ==
  /\ \/ /\ At(c, "fonted") /\ Cmd(c).op = "styles.create"
        /\ Awaits(c, "load")
        /\ UNCHANGED cache
     \/ /\ At(c, "loaded") /\ Cmd(c).op = "styles.create"
        /\ IF StyleLive(calls[c].style) THEN Forget("text") /\ Answers(c, "ok")
           ELSE Answers(c, "FIGMA_API_ERROR") /\ UNCHANGED cache
  /\ UNCHANGED <<doc, page, styles, fonts, collections>>

Unlinked(s) == [n \in DOMAIN doc |-> IF doc[n].style = s THEN [doc[n] EXCEPT !.style = None]
                                     ELSE doc[n]]
DeleteStyle(c) ==
  /\ At(c, "styled") /\ Cmd(c).op = "styles.delete"
  /\ LET s == calls[c].style
     IN  IF StyleLive(s)
         THEN /\ styles' = [styles EXCEPT ![s].gone = c]
              /\ doc' = Unlinked(s)
              /\ Forget(KindOf(Cmd(c)))
              /\ Answers(c, "ok")
         ELSE Throws(c) /\ UNCHANGED <<styles, cache>>
  /\ UNCHANGED <<page, fonts, collections>>

\* What handleStyles asks of a node before it sets a style.
Takes(c) == LET type == doc[calls[c].got[1]].type
            IN  IF KindOf(Cmd(c)) = "text" THEN type = "TEXT" ELSE type \notin Unpainted

\* arg.unapply sets no style at all; apply looks the style up first.
ApplyStyle(c) ==
  /\ At(c, "run") /\ Cmd(c).op = "styles.apply"
  /\ \/ ~Cmd(c).arg.unapply /\ RunsOn(c, "find")
     \/ Cmd(c).arg.unapply /\ Takes(c) /\ Awaits(c, "set")
     \/ Cmd(c).arg.unapply /\ ~Takes(c) /\ Answers(c, "FIGMA_API_ERROR")
  /\ UNCHANGED <<doc, page, library, collections>>

\* The style is found, or not: set it (set...StyleIdAsync), or end.
SetsStyle(c) ==
  /\ At(c, "styled")
  /\ Cmd(c).op \in {"styles.apply", "node.patch", "text_range.set"}
  /\ IF calls[c].style = None \/ (Cmd(c).op = "styles.apply" /\ ~Takes(c))
     THEN Answers(c, "FIGMA_API_ERROR") ELSE Awaits(c, "set")
  /\ UNCHANGED <<doc, page, library, collections>>

StyleSet(c) ==
  /\ Answered(c, "set") /\ Cmd(c).op # "design.apply"
  /\ Does(c, ~Stale(c) /\ (calls[c].style = None \/ StyleLive(calls[c].style)),
          [doc EXCEPT ![calls[c].got[1]].style = calls[c].style])
  /\ UNCHANGED <<page, library, collections>>

StyleStep(c) ==
  \/ FindStyle(c) \/ ListAnswered(c) \/ ListStyles(c)
  \/ CreateStyle(c) \/ FinishTextStyle(c) \/ DeleteStyle(c)
  \/ ApplyStyle(c) \/ SetsStyle(c) \/ StyleSet(c)
=============================================================================
