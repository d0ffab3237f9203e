--------------------------- MODULE DurablePolicy ---------------------------
(***************************************************************************)
(* What the node agent promises about the policy the data plane enforces,  *)
(* without slots, tables, files or failures: one version is served, one    *)
(* version is saved, the entries enforced are always exactly those of the  *)
(* version served, and a change of version is a single step that is later  *)
(* committed to disk or taken back.                                        *)
(*                                                                         *)
(* "damaged" covers what no agent can prevent (the kernel maps or the file *)
(* are gone, or no longer belong together): nothing is promised until the  *)
(* next policy is committed.                                               *)
(***************************************************************************)
EXTENDS Naturals

CONSTANTS Version,         \* the versions Control has handed out
          DefaultVersion,  \* the version of the agent's built-in empty policy
          Content          \* the entries of every version

VARIABLES serving, saved, live, damaged

vars == <<serving, saved, live, damaged>>

Init ==
  /\ serving = 0
  /\ saved = 0
  /\ live = Content[0]
  /\ damaged = FALSE

\* First start: the built-in policy is saved before it is served.
Create ==
  /\ saved = 0
  /\ saved' = DefaultVersion
  /\ ~damaged /\ ~damaged'
  /\ UNCHANGED <<serving, live>>

\* A newer policy replaces the saved one in a single step.
Switch(v) ==
  /\ serving = saved
  /\ v > serving
  /\ serving' = v
  /\ live' = Content[v]
  /\ ~damaged /\ ~damaged'
  /\ UNCHANGED saved

Commit ==
  /\ saved' = serving
  /\ ~damaged /\ ~damaged'
  /\ UNCHANGED <<serving, live>>

\* A failed commit, or a restart: back to the version that was saved.
Resume ==
  /\ serving' = saved
  /\ live' = Content[saved]
  /\ ~damaged /\ ~damaged'
  /\ UNCHANGED saved

Damage == damaged'

Repair(v) ==
  /\ damaged /\ ~damaged'
  /\ serving' = v
  /\ saved' = v
  /\ live' = Content[v]

Next ==
  \/ Create \/ Commit \/ Resume \/ Damage
  \/ \E v \in Version : Switch(v) \/ Repair(v)

Spec == Init /\ [][Next]_vars
=============================================================================
