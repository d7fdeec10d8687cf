--------------------------- MODULE MCFirewallSync ---------------------------
(* Instance of FirewallSync for TLC: two services, with or without         *)
(* Endpoints that name a pod of this node.                                 *)
EXTENDS FirewallSync

CONSTANTS g1, g2

Specs == [web |-> [type |-> "ClusterIP", ip |-> "web-ip",
                   ports |-> <<[name |-> "http", proto |-> "TCP", port |-> 80]>>],
          dns |-> [type |-> "ClusterIP", ip |-> "dns-ip",
                   ports |-> <<[name |-> "udp", proto |-> "UDP", port |-> 53]>>]]
Pod == <<[addrs |-> <<[ip |-> "pod", node |-> "pet"]>>,
          ports |-> <<[name |-> "http", port |-> 8080], [name |-> "udp", port |-> 5353]>>]>>
OnePod == {Pod}
Places == [web |-> 2, dns |-> 1, pod |-> 1]
OneNet == <<{"pod"}>>

\* A hash without collisions among the tables of this instance: which services have
\* a chain, with how many rules, and which are dispatched.
ShortHash(c) ==
  <<[s \in DOMAIN c \intersect Services |-> DOMAIN c[s]], DOMAIN c["cluster-ips-dnat"]>>
=============================================================================
