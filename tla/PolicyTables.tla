---------------------------- MODULE PolicyTables ----------------------------
(***************************************************************************)
(* The policy maps that the agent writes and the XDP program reads: eight  *)
(* A/B pairs (bpf/xdp_data_plane.bpf.c), here five logical tables, the     *)
(* first three of them with global and service-scoped rows.                *)
(***************************************************************************)
EXTENDS Integers, FiniteSets

CONSTANTS
  Entry,       \* policy entries: rows of the A/B policy maps
  TableOf      \* [Entry -> Table], the logical map an entry lives in

\* The order in which clearInactivePolicySlot empties the tables and
\* ApplyPolicySnapshot fills them.
Whitelist == 1
Blacklist == 2
UDPBlocks == 3
Services  == 4
Rules     == 5
Table == Whitelist..Rules

Slot == {0, 1}   \* runtime_config.active_slot
NoIf == 0        \* no ifindex: an empty slot of tx_devmap

ASSUME TableAssumption == TableOf \in [Entry -> Table]
=============================================================================
