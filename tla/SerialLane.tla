----------------------------- MODULE SerialLane -----------------------------
(***************************************************************************)
(* What a caller of the runtime may rely on when it hands a command to the *)
(* lane in front of the one paired Figma plugin, without saying how the    *)
(* lane is built: commands run one at a time, in the order in which they   *)
(* were admitted; an idle lane never keeps an admitted command waiting;    *)
(* and every command ends at most once, whether it ran, was refused, or    *)
(* was given up while it waited.                                           *)
(*                                                                         *)
(* CommandQueue implements this specification (CommandQueueProofs).        *)
(***************************************************************************)
EXTENDS Naturals

CONSTANT Calls         \* the commands callers may submit, each once

VARIABLES
  phase,               \* where each command is
  ticket               \* its place in the order of admission; 0 before

laneVars == <<phase, ticket>>

Phases == {"idle", "waiting", "running", "done"}

Waiting == {c \in Calls : phase[c] = "waiting"}
Running == {c \in Calls : phase[c] = "running"}

LaneInit ==
  /\ phase  = [c \in Calls |-> "idle"]
  /\ ticket = [c \in Calls |-> 0]

(***************************************************************************)
(* A command is turned away without entering the lane.                     *)
(***************************************************************************)
Refuse(c) ==
  /\ phase[c] = "idle"
  /\ phase' = [phase EXCEPT ![c] = "done"]
  /\ UNCHANGED ticket

(***************************************************************************)
(* A command is admitted behind every command admitted before it; it runs  *)
(* at once if the lane is free.                                            *)
(***************************************************************************)
Admit(c) ==
  /\ phase[c] = "idle"
  /\ phase' = [phase EXCEPT ![c] = IF Running = {} THEN "running" ELSE "waiting"]
  /\ ticket'[c] \in Nat
  /\ \A d \in Calls : ticket[d] < ticket'[c]
  /\ ticket' = [ticket EXCEPT ![c] = ticket'[c]]

(***************************************************************************)
(* The running command ends, and the command that has waited longest, if   *)
(* there is one, runs from the same instant.                               *)
(***************************************************************************)
Conclude(c) ==
  /\ phase[c] = "running"
  /\ \/ /\ Waiting = {}
        /\ phase' = [phase EXCEPT ![c] = "done"]
     \/ \E d \in Waiting :
          /\ \A e \in Waiting : ticket[d] <= ticket[e]
          /\ phase' = [phase EXCEPT ![c] = "done", ![d] = "running"]
  /\ UNCHANGED ticket

(***************************************************************************)
(* A waiting command is given up; it never runs.                           *)
(***************************************************************************)
GiveUp(c) ==
  /\ phase[c] = "waiting"
  /\ phase' = [phase EXCEPT ![c] = "done"]
  /\ UNCHANGED ticket

LaneNext == \E c \in Calls : Refuse(c) \/ Admit(c) \/ Conclude(c) \/ GiveUp(c)

LaneSpec == LaneInit /\ [][LaneNext]_laneVars

=============================================================================
