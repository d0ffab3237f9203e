------------------------------ MODULE XdpEntry ------------------------------
(***************************************************************************)
(* xdp_entry of bpf/xdp_data_plane.bpf.c: one packet on its way through    *)
(* the program. The program reads cfg->active_slot again before every map  *)
(* lookup, and nothing joins that read to the lookup, so both are steps.   *)
(*                                                                         *)
(* rc, tbl, dev and attached are the maps and the link the agent writes.   *)
(* Packets only meet in the rate state, whose verdict is left open here.   *)
(* Which of several matching rows an LPM lookup returns only shows in the  *)
(* rule_id of counters: every row of the same table has the same effect.   *)
(***************************************************************************)
EXTENDS PolicyTables

CONSTANTS
  Packet,   \* kinds of packets
  Parse,    \* [Packet -> ParseResult]
  UDP,      \* the packets whose L4 protocol is UDP
  Row,      \* [Entry -> record], the fields of a row that the program reads
  NoEntry   \* a null pointer

Global == 0   \* "service_id" of a row that applies to every service
NoSlot == 2   \* active_slot has not been read for the next lookup

\* What parse_packet makes of a frame.
ParseResult == {"ok", "non_ipv4", "malformed", "fragment"}

\* What the fields of a row say: the packets whose key it matches, the service
\* it belongs to, the rule (a rule's own id, a service's default_rule_id), the
\* action, whether a rule enforces, the neighbor status, the devmap key.
RowType ==
  [match : SUBSET Packet, service : Nat, rule : Nat,
   action : {"drop", "redirect", "rate_limit", "sample", "observe"},
   enforce : BOOLEAN, resolved : BOOLEAN, key : Nat]

VARIABLES rc, tbl, dev, attached, pkt

-----------------------------------------------------------------------------

Lookups == {"service", "wl_global", "wl_service", "bl_service", "bl_global",
            "udp_service", "udp_global", "rule"}

\* The locals of xdp_entry: where it is, the packet, the slot it has read,
\* "service", "whitelist_applies", the return value and meta.reason.
Meta(at, p, svc, wl) ==
  [at |-> at, p |-> p, slot |-> NoSlot, svc |-> svc, wl |-> wl,
   ret |-> "none", reason |-> "none"]
Finished(p, ret, reason) ==
  [at |-> "done", p |-> p, slot |-> NoSlot, svc |-> NoEntry, wl |-> FALSE,
   ret |-> ret, reason |-> reason]

Idle == Meta("idle", NoEntry, NoEntry, FALSE)

GoTo(at) == pkt' = Meta(at, pkt.p, pkt.svc, pkt.wl)

\* count_packet and maybe_sample, then return.
Return(ret, reason) == pkt' = Finished(pkt.p, ret, reason)
Drop(reason) == Return("XDP_DROP", reason)

\* The rows of a table that match packet p for a service, among rows S.
Matching(S, table, service, p) ==
  {e \in S : TableOf[e] = table /\ Row[e].service = service /\ p \in Row[e].match}

\* One lookup_active_* call: the slot has been read, the map is read now.
Lookup(at, table, service, hit, miss) ==
  /\ pkt.at = at
  /\ pkt.slot # NoSlot
  /\ IF Matching(tbl[pkt.slot], table, service, pkt.p) # {} THEN hit ELSE miss

ServiceId == Row[pkt.svc].service

-----------------------------------------------------------------------------

\* Entry of the program: runtime_config, then parse_packet.
Receive(p) ==
  /\ attached
  /\ pkt.at \in {"idle", "done"}
  /\ pkt' = IF rc.version = 0 \/ rc.slot \notin Slot
              THEN Finished(p, "XDP_DROP", "MAP_ERROR")
            ELSE IF Parse[p] = "non_ipv4"
              THEN Finished(p, "XDP_PASS", "NONE")
            ELSE IF Parse[p] = "malformed"
              THEN Finished(p, "XDP_DROP", "MALFORMED")
            ELSE IF Parse[p] = "fragment"
              THEN Finished(p, "XDP_DROP", "FRAGMENT")
            ELSE Meta("service", p, NoEntry, FALSE)

\* cfg->active_slot as the argument of the next lookup.
ReadActiveSlot ==
  /\ pkt.at \in Lookups
  /\ pkt.slot = NoSlot
  /\ pkt' = [pkt EXCEPT !.slot = rc.slot]

\* service_allowlist: the key is the destination, not a service id.
LookupService ==
  /\ pkt.at = "service"
  /\ pkt.slot # NoSlot
  /\ LET found == {e \in tbl[pkt.slot] :
                     TableOf[e] = Services /\ pkt.p \in Row[e].match}
     IN  \/ found = {} /\ Drop("NOT_ALLOWED_SERVICE")
         \/ \E e \in found : pkt' = Meta("wl_global", pkt.p, e, FALSE)

LookupWhitelist ==
  Lookup("wl_global", Whitelist, Global,
         pkt' = Meta("bl_service", pkt.p, pkt.svc, TRUE), GoTo("wl_service"))

LookupServiceWhitelist ==
  Lookup("wl_service", Whitelist, ServiceId,
         pkt' = Meta("bl_service", pkt.p, pkt.svc, TRUE), GoTo("bl_service"))

\* Behind the blacklist: the UDP source-port blocks, unless whitelisted.
PassBlacklist == GoTo(IF ~pkt.wl /\ pkt.p \in UDP THEN "udp_service" ELSE "neighbor")

\* Control publishes every blacklist entry with ACTION_DROP, so that the test of
\* the entry's action always passes and is left out.
BlacklistHit == IF pkt.wl THEN PassBlacklist ELSE Drop("BLACKLIST")

\* Faulty variant: the global blacklist is not consulted.
LookupServiceBlacklistOnly ==
  Lookup("bl_service", Blacklist, ServiceId, BlacklistHit, PassBlacklist)

LookupServiceBlacklist ==
  Lookup("bl_service", Blacklist, ServiceId, BlacklistHit, GoTo("bl_global"))

LookupBlacklist ==
  Lookup("bl_global", Blacklist, Global, BlacklistHit, PassBlacklist)

LookupServiceUDPBlock ==
  Lookup("udp_service", UDPBlocks, ServiceId,
         Drop("UDP_AMP_SOURCE_PORT"), GoTo("udp_global"))

LookupUDPBlock ==
  Lookup("udp_global", UDPBlocks, Global,
         Drop("UDP_AMP_SOURCE_PORT"), GoTo("neighbor"))

CheckNeighbor ==
  /\ pkt.at = "neighbor"
  /\ IF Row[pkt.svc].resolved
       THEN GoTo(IF pkt.wl THEN "redirect" ELSE "rule")
       ELSE Drop("NEIGHBOR_UNRESOLVED")

\* apply_rule on the service's default rule: an enforcing rule may drop, every
\* other rule only counts. apply_token_bucket says over limit or not.
ApplyRule ==
  /\ pkt.at = "rule"
  /\ pkt.slot # NoSlot
  /\ LET rules == {e \in tbl[pkt.slot] :
                     /\ TableOf[e] = Rules
                     /\ Row[e].rule # 0
                     /\ Row[e].rule = Row[pkt.svc].rule}
         enforced(action) ==
           \E e \in rules : Row[e].enforce /\ Row[e].action = action
     IN  \/ enforced("drop") /\ Drop("RULE_DROP")
         \/ enforced("rate_limit") /\ Drop("RATE_LIMIT")
         \/ ~enforced("drop") /\ GoTo("redirect")

\* rewrite_eth_addrs and bpf_redirect_map, whose fallback is XDP_DROP.
Redirect ==
  /\ pkt.at = "redirect"
  /\ IF Row[pkt.svc].action = "redirect" /\ dev[Row[pkt.svc].key] # NoIf
       THEN Return("XDP_REDIRECT", "NONE")
       ELSE Drop("REDIRECT_ERROR")

Step ==
  \/ ReadActiveSlot
  \/ LookupService
  \/ LookupWhitelist \/ LookupServiceWhitelist
  \/ LookupServiceBlacklist \/ LookupBlacklist
  \/ LookupServiceUDPBlock \/ LookupUDPBlock
  \/ CheckNeighbor \/ ApplyRule \/ Redirect
=============================================================================
