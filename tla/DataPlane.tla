----------------------------- MODULE DataPlane -----------------------------
(***************************************************************************)
(* The XDP program of XdpEntry running on the maps that the agent of       *)
(* PolicyApply rewrites: every step of an apply, a rollback or a restart   *)
(* may fall between two reads of the packet being processed.               *)
(***************************************************************************)
EXTENDS PolicyApply

CONSTANTS Packet, Parse, UDP, Row, NoEntry

VARIABLES
  pkt,   \* the packet being processed
  seen   \* history: the policies that were live since it arrived

Xdp == INSTANCE XdpEntry

ASSUME PacketAssumption ==
  /\ Parse \in [Packet -> Xdp!ParseResult]
  /\ UDP \subseteq Packet
  /\ DOMAIN Row = Entry
  /\ \A e \in Entry : Row[e] \in Xdp!RowType

\* A snapshot passes verification with one rule per rule_id only.
ASSUME RowsAssumption ==
  \A v \in Version :
    /\ KeysOf[v] = {Row[e].key : e \in {f \in Policy[v] : TableOf[f] = Services}}
    /\ \A e, f \in Policy[v] :
         TableOf[e] = Rules /\ TableOf[f] = Rules /\ Row[e].rule = Row[f].rule => e = f

dpVars == <<vars, pkt, seen>>

LivePolicy == [slot |-> rc.slot, version |-> rc.version, rows |-> tbl[rc.slot]]

DPInit == Init /\ pkt = Xdp!Idle /\ seen = {}

AgentStep ==
  /\ Next
  /\ seen' = IF pkt.at \in {"idle", "done"} THEN seen ELSE seen \cup {LivePolicy'}
  /\ UNCHANGED pkt

PacketArrives ==
  /\ \E p \in Packet : Xdp!Receive(p)
  /\ seen' = {LivePolicy}
  /\ UNCHANGED vars

PacketStep == Xdp!Step /\ UNCHANGED <<vars, seen>>

DPNext == AgentStep \/ PacketArrives \/ PacketStep

DPSpec == DPInit /\ [][DPNext]_dpVars

-----------------------------------------------------------------------------
(* What one policy says about a packet, independent of any order of maps.  *)

\* Packet p is on a list of policy S, for every service or for service s.
Listed(S, table, s, p) ==
  \E e \in S : /\ TableOf[e] = table
               /\ Row[e].service \in {0, Row[s].service}
               /\ p \in Row[e].match

Threat(S, s, p) ==
  IF Listed(S, Whitelist, s, p) THEN "none"
  ELSE IF Listed(S, Blacklist, s, p) THEN "BLACKLIST"
  ELSE IF p \in UDP /\ Listed(S, UDPBlocks, s, p) THEN "UDP_AMP_SOURCE_PORT"
  ELSE "none"

Enforced(S, s, p) ==
  {Row[e].action : e \in {f \in S : /\ TableOf[f] = Rules
                                    /\ Row[s].rule # 0
                                    /\ Row[f].rule = Row[s].rule
                                    /\ Row[f].enforce
                                    /\ ~Listed(S, Whitelist, s, p)}}

Forwarded == [ret |-> "XDP_REDIRECT", reason |-> "NONE"]
Dropped(reason) == [ret |-> "XDP_DROP", reason |-> reason]

\* The verdicts that policy S allows for an IPv4 packet to service s.
ServiceVerdicts(S, s, p) ==
  IF Threat(S, s, p) # "none" THEN {Dropped(Threat(S, s, p))}
  ELSE IF ~Row[s].resolved THEN {Dropped("NEIGHBOR_UNRESOLVED")}
  ELSE IF "drop" \in Enforced(S, s, p) THEN {Dropped("RULE_DROP")}
  ELSE {IF Row[s].action = "redirect" THEN Forwarded ELSE Dropped("REDIRECT_ERROR")}
         \cup {Dropped("RATE_LIMIT") : a \in Enforced(S, s, p) \cap {"rate_limit"}}

Verdicts(live, p) ==
  LET S == live.rows
      services == {s \in S : TableOf[s] = Services /\ p \in Row[s].match}
  IN  IF live.version = 0 THEN {Dropped("MAP_ERROR")}
      ELSE IF Parse[p] = "non_ipv4" THEN {[ret |-> "XDP_PASS", reason |-> "NONE"]}
      ELSE IF Parse[p] = "malformed" THEN {Dropped("MALFORMED")}
      ELSE IF Parse[p] = "fragment" THEN {Dropped("FRAGMENT")}
      ELSE IF services = {} THEN {Dropped("NOT_ALLOWED_SERVICE")}
      ELSE UNION {ServiceVerdicts(S, s, p) : s \in services}

Verdict == [ret |-> pkt.ret, reason |-> pkt.reason]

-----------------------------------------------------------------------------
(* Properties *)

\* A packet during whose flight the live policy does not change gets the
\* verdict and the reason of that policy, whatever the agent is doing to the
\* other slot and to tx_devmap meanwhile (xdp_data_plane.bpf.c:846-1000,
\* policy_apply.go:109-188). In particular it is never lost to a redirect
\* error because of an apply that fails and is rolled back.
SinglePolicyVerdict ==
  [][pkt'.at = "done" /\ <<pkt, seen>>' # <<pkt, seen>> /\ ~suspect =>
       \A live \in seen' : seen' = {live} => Verdict' \in Verdicts(live, pkt'.p)]_dpVars

-----------------------------------------------------------------------------
(* What a packet in flight knows of the one policy that it has met.        *)

\* No row of a table of S matches packet p for a service id.
Missed(S, table, service, p) == Xdp!Matching(S, table, service, p) = {}

\* The service it has found, and what the lookups since have come to.
FoundInv(S) ==
  LET p == pkt.p
      s == pkt.svc
      id == Row[s].service IN
  /\ s \in S /\ TableOf[s] = Services /\ p \in Row[s].match
  /\ pkt.at \in {"wl_global", "wl_service"} => ~pkt.wl
  /\ pkt.at = "wl_service" => Missed(S, Whitelist, 0, p)
  /\ pkt.at \notin {"wl_global", "wl_service"} => (pkt.wl <=> Listed(S, Whitelist, s, p))
  /\ pkt.at = "bl_global" /\ ~pkt.wl => Missed(S, Blacklist, id, p)
  /\ pkt.at \in {"udp_service", "udp_global"} =>
       ~pkt.wl /\ p \in UDP /\ ~Listed(S, Blacklist, s, p)
  /\ pkt.at = "udp_global" => Missed(S, UDPBlocks, id, p)
  /\ pkt.at \in {"neighbor", "rule", "redirect"} => Threat(S, s, p) = "none"
  /\ pkt.at \in {"rule", "redirect"} => Row[s].resolved
  /\ pkt.at = "rule" => ~pkt.wl
  /\ pkt.at = "redirect" => "drop" \notin Enforced(S, s, p)

Returned == {"none", "XDP_PASS", "XDP_DROP", "XDP_REDIRECT"}
Reason == {"none", "NONE", "MAP_ERROR", "MALFORMED", "FRAGMENT", "NOT_ALLOWED_SERVICE",
           "BLACKLIST", "UDP_AMP_SOURCE_PORT", "NEIGHBOR_UNRESOLVED", "RULE_DROP",
           "RATE_LIMIT", "REDIRECT_ERROR"}
PacketRecord ==
  [at : Xdp!Lookups \cup {"idle", "neighbor", "redirect", "done"}, p : Packet \cup {NoEntry},
   slot : Slot \cup {Xdp!NoSlot}, svc : Entry \cup {NoEntry}, wl : BOOLEAN,
   ret : Returned, reason : Reason]

PacketInv ==
  /\ pkt \in PacketRecord
  /\ pkt.at \notin {"idle", "done"} =>
       /\ pkt.p \in Packet /\ Parse[pkt.p] = "ok" /\ (pkt.at # "service" => pkt.svc \in Entry)
       /\ LivePolicy \in seen
       /\ seen = {LivePolicy} =>
            /\ rc.version # 0
            /\ pkt.slot \in {Xdp!NoSlot, rc.slot}
            /\ pkt.at # "service" => FoundInv(tbl[rc.slot])
=============================================================================
