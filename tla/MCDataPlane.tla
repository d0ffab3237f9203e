---------------------------- MODULE MCDataPlane ----------------------------
(***************************************************************************)
(* A small instance of DataPlane. Version 2 blocks a source and a UDP port *)
(* for every service and drops the rest by rule; version 3 blocks them for *)
(* the one service only, has whitelists, enforces a rate limit and moves   *)
(* the service to another devmap key. Each version meets every packet.     *)
(***************************************************************************)
EXTENDS DataPlane, TLC

CONSTANTS w1, w2, b1, b2, u1, u2, s1, s2, r1, r2,
          guest, bot, vip, friend, reflector, stray, arp, broken, fragment

MCEntry == {w1, w2, b1, b2, u1, u2, s1, s2, r1, r2}

MCTableOf ==
  [e \in MCEntry |->
     CASE e \in {w1, w2} -> Whitelist [] e \in {b1, b2} -> Blacklist
       [] e \in {u1, u2} -> UDPBlocks [] e \in {s1, s2} -> Services
       [] OTHER -> Rules]

MCPacket == {guest, bot, vip, friend, reflector, stray, arp, broken, fragment}

MCParse ==
  [p \in MCPacket |->
     CASE p = arp -> "non_ipv4" [] p = broken -> "malformed"
       [] p = fragment -> "fragment" [] OTHER -> "ok"]

MCUDP == {reflector, friend}

Cell(match, service, rule, action, enforce, key) ==
  [match |-> match, service |-> service, rule |-> rule, action |-> action,
   enforce |-> enforce, resolved |-> TRUE, key |-> key]

Attackers == {bot, vip, friend}

MCRow ==
  (w1 :> Cell({vip}, 0, 0, "observe", FALSE, 0))
    @@ (w2 :> Cell({friend}, 1, 0, "observe", FALSE, 0))
    @@ (b1 :> Cell(Attackers, 0, 0, "drop", FALSE, 0))
    @@ (b2 :> Cell(Attackers, 1, 0, "drop", FALSE, 0))
    @@ (u1 :> Cell({reflector}, 0, 0, "drop", FALSE, 0))
    @@ (u2 :> Cell({reflector}, 1, 0, "drop", FALSE, 0))
    @@ (s1 :> Cell(Attackers \cup {guest, reflector}, 1, 7, "redirect", FALSE, 10))
    @@ (s2 :> Cell(Attackers \cup {guest, reflector}, 1, 7, "redirect", FALSE, 20))
    @@ (r1 :> Cell({}, 0, 7, "drop", TRUE, 0))
    @@ (r2 :> Cell({}, 0, 7, "rate_limit", TRUE, 0))

MCPolicy ==
  [v \in Version |->
     IF v = 2 THEN {b1, u1, s1, r1} ELSE {w1, w2, b2, u2, s2, r2}]

MCKeysOf == [v \in Version |-> IF v = 2 THEN {10} ELSE {20}]
=============================================================================
