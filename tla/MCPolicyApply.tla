--------------------------- MODULE MCPolicyApply ---------------------------
(***************************************************************************)
(* A small instance of PolicyApply: two or three snapshots, the last one   *)
(* sharing entries and a devmap key with the first.                        *)
(***************************************************************************)
EXTENDS PolicyApply, TLC

CONSTANTS w1, b1, s1, s2, r1

MCEntry == {w1, b1, s1, s2, r1}

MCTableOf ==
  (w1 :> Whitelist) @@ (b1 :> Blacklist) @@ (s1 :> Services)
    @@ (s2 :> Services) @@ (r1 :> Rules)

MCPolicy ==
  [v \in Version |->
     CASE v = 1 -> {s1} [] v = 2 -> {w1, b1, s1} [] v = 3 -> {b1, s1, r1}
       [] OTHER -> {b1, s2}]

MCKeysOf ==
  [v \in Version |->
     CASE v \in {1, 2} -> {10} [] v = 3 -> {10, 20} [] OTHER -> {20}]
=============================================================================
