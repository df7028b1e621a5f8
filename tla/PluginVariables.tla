-------------------------- MODULE PluginVariables --------------------------
(***************************************************************************)
(* Variables in figma-plugin/code.js: handleVariables and                  *)
(* handleVariableBind.  A collection is its number of modes; variables and *)
(* their values are left out, so that an action on a variable shows only   *)
(* when it waits and when it throws.  arg: the action, and the collection  *)
(* it names (None for the actions that name none); variables.bind stands   *)
(* for the actions bind and unbind, which look a node up first.            *)
(***************************************************************************)
EXTENDS PluginCalls

Collection(c) == Cmd(c).arg.collection
CollectionLive(i) == i \in DOMAIN collections /\ collections[i].live
Manages(c) == Cmd(c) # None /\ Cmd(c).op = "variables.manage"

\* createVariableCollection acts at once; everything else looks something up first.
ManageVariables(c) ==
  /\ At(c, "run") /\ Manages(c)
  /\ LET new == Cardinality(DOMAIN collections) + 1
     IN  IF Cmd(c).arg.action = "create_collection"
         THEN /\ collections' = [i \in DOMAIN collections \cup {new} |->
                                   IF i = new THEN [modes |-> 1, live |-> TRUE]
                                   ELSE collections[i]]
              /\ Answers(c, "ok")
         ELSE Awaits(c, "collections") /\ UNCHANGED collections
  /\ UNCHANGED <<doc, page, library>>

\* The collection or variable is there, or not; then the action, at once.  The second
\* lookup of list, and that of an alias, change nothing and are one with the first.
CollectionAnswered(c) ==
  /\ Answered(c, "collections")
  /\ LET i == Collection(c)
         act == Cmd(c).arg.action
         becomes(v) == collections' = [collections EXCEPT ![i] = v] /\ Answers(c, "ok")
         same == UNCHANGED collections
     IN  \/ i # None /\ ~CollectionLive(i) /\ Answers(c, "FIGMA_API_ERROR") /\ same
         \/ /\ i # None /\ CollectionLive(i)
            /\ \/ act = "add_mode" /\ becomes([collections[i] EXCEPT !.modes = @ + 1])
               \/ act = "delete_collection" /\ becomes([collections[i] EXCEPT !.live = FALSE])
               \/ /\ act = "remove_mode"
                  /\ collections[i].modes > 1
                  /\ becomes([collections[i] EXCEPT !.modes = @ - 1])
               \/ \* the last mode, an unknown one, a missing name, a plan's limit
                  act # "delete_collection" /\ Answers(c, "FIGMA_API_ERROR") /\ same
               \/ act \in {"rename_mode", "create_variable"} /\ Answers(c, "ok") /\ same
         \/ \* set_value, delete_variable, list: getVariableByIdAsync or the lists
            /\ i = None
            /\ Answers(c, "ok") \/ Answers(c, "FIGMA_API_ERROR")
            /\ same
  /\ UNCHANGED <<doc, page, library>>

\* bind, unbind: the node is looked up before the variable and may be gone by then.
BindVariable(c) ==
  /\ At(c, "run") /\ Cmd(c).op = "variables.bind"
  /\ IF Cmd(c).arg.what = "unbind"
     THEN Answers(c, "ok") \/ Answers(c, "FIGMA_API_ERROR")   \* field, paint or effect unfit
     ELSE Awaits(c, "variable")
  /\ UNCHANGED <<doc, page, library, collections>>
VariableAnswered(c) ==
  /\ Answered(c, "variable")
  /\ \/ ~Stale(c) /\ Answers(c, "ok")
     \/ Answers(c, "FIGMA_API_ERROR")
  /\ UNCHANGED <<doc, page, library, collections>>

VariableStep(c) ==
  ManageVariables(c) \/ CollectionAnswered(c) \/ BindVariable(c) \/ VariableAnswered(c)
=============================================================================
