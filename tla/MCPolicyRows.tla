---------------------------- MODULE MCPolicyRows ----------------------------
(* Two users, one of them an admin in the past, an admin, a feed row, and the *)
(* inputs that make rows compete, overflow a map and contradict each other.   *)
EXTENDS PolicyRows

CONSTANTS u1, u2

MCOwners == <<u1, u2>>

Entry(scope, service, key, pref, rule, exp) ==
  [scope |-> scope, service |-> service, key |-> key, pref |-> pref, rule |-> rule,
   enabled |-> TRUE, exp |-> exp]

MCInputs ==
  {Entry("user_global", 0, 0, 1, 0, "ahead"), Entry("admin_global", 0, 0, 0, 0, "ahead"),
   Entry("service", 1, 0, 0, 0, "never"),
   Entry("user_global", 1, 1, 0, 0, "ahead"), Entry("admin_global", 0, 1, 0, 0, "never"),
   Entry("admin_global", 0, 2, 0, 0, "never"), Entry("service", 1, 1, 1, 2, "never")}

Service(target, mac, ifindex) ==
  [target |-> target, ports |-> {80}, mac |-> mac, ifindex |-> ifindex, enabled |-> TRUE]

MCServiceInputs ==
  {Service("h1", TRUE, 1), Service("h2", TRUE, 2), Service(Network, FALSE, 0)}

\* A row of a feed, and a rule shared by u1 when it was an admin.
MCInitRows ==
  {[kind |-> "blacklist", id |-> 1, owner |-> Admin, scope |-> "admin_global", service |-> 0,
    key |-> 1, pref |-> 0, rule |-> 0, manual |-> FALSE, enabled |-> TRUE, exp |-> "never"],
   [kind |-> "rule", id |-> 1, owner |-> u1, scope |-> "admin_global", service |-> 0,
    key |-> 0, pref |-> 0, rule |-> 0, manual |-> TRUE, enabled |-> TRUE, exp |-> "ahead"]}

MCInitSeq == [t \in Tables |-> IF t = "rule" THEN 1 ELSE 0]

MCCapacity ==
  [m \in {"whitelist_v4", "whitelist_service_v4", "blacklist_v4", "blacklist_service_v4",
          "udp_src_port_blocks", "udp_src_port_service_blocks", "service_allowlist",
          "rule_config"} |-> IF m = "rule_config" THEN 3 ELSE IF m = "whitelist_v4" THEN 1 ELSE 2]
=============================================================================
