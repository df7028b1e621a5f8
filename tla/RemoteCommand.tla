---------------------------- MODULE RemoteCommand ----------------------------
(***************************************************************************)
(* What a caller may conclude from the answer to a command it asked Figma  *)
(* to carry out, without saying how the command travels.  A command has an *)
(* effect at most once; an answer "ok" means it was carried out; "refused" *)
(* means it was not and never will be; only "unknown" says nothing, and    *)
(* the command may still be carried out after it.                          *)
(*                                                                         *)
(* Runtime implements this specification.                                  *)
(***************************************************************************)
CONSTANT Calls         \* the commands, each asked for once

VARIABLES
  outcome,             \* what the caller was told
  effect               \* what became of the command in Figma

remoteVars == <<outcome, effect>>

RemoteInit ==
  /\ outcome = [c \in Calls |-> "unasked"]
  /\ effect  = [c \in Calls |-> "no"]

Ask(c) ==
  /\ outcome[c] = "unasked"
  /\ outcome' = [outcome EXCEPT ![c] = "waiting"]
  /\ UNCHANGED effect

Answer(c) ==
  /\ outcome[c] = "waiting"
  /\ effect[c] = "done"
  /\ outcome' = [outcome EXCEPT ![c] = "ok"]
  /\ UNCHANGED effect

Refuse(c) ==
  /\ outcome[c] \in {"unasked", "waiting"}
  /\ effect[c] = "no"
  /\ outcome' = [outcome EXCEPT ![c] = "refused"]
  /\ UNCHANGED effect

GiveUp(c) ==
  /\ outcome[c] = "waiting"
  /\ outcome' = [outcome EXCEPT ![c] = "unknown"]
  /\ UNCHANGED effect

(* The command begins to change the document, and it ends.                 *)
Begin(c) ==
  /\ outcome[c] \in {"waiting", "unknown"}
  /\ effect[c] = "no"
  /\ effect' = [effect EXCEPT ![c] = "running"]
  /\ UNCHANGED outcome

End(c) ==
  /\ effect[c] = "running"
  /\ effect' = [effect EXCEPT ![c] = "done"]
  /\ UNCHANGED outcome

(* Figma stops: some of the commands under way are cut short.              *)
Cut ==
  /\ \E cut \in SUBSET {c \in Calls : effect[c] = "running"} :
       effect' = [c \in Calls |-> IF c \in cut THEN "killed" ELSE effect[c]]
  /\ UNCHANGED outcome

RemoteNext ==
  \/ \E c \in Calls : Ask(c) \/ Answer(c) \/ Refuse(c) \/ GiveUp(c) \/ Begin(c) \/ End(c)
  \/ Cut

RemoteSpec == RemoteInit /\ [][RemoteNext]_remoteVars
=============================================================================
