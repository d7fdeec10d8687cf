---------------------------- MODULE FirewallRules ----------------------------
(***************************************************************************)
(* The nftables table of the firewall controller: what BuildConfig makes   *)
(* of the Services and Endpoints, and what the kernel does with it.        *)
(*                                                                         *)
(* A table is a function from chain names to chains; svc-<UID>-dnat goes   *)
(* by the name of its service.  A chain is a function from positions,      *)
(* which need not be without gaps, to rules; a rule has tests of a packet  *)
(* ("if") and a verdict ("do").  Counters, comments and the text that is   *)
(* hashed are left out.                                                    *)
(***************************************************************************)
EXTENDS Naturals, SequencesExt

CONSTANTS
  Services, \* services, by namespace and name
  SpecOf,   \* their type, ip and ports: a sequence of [name, proto, port]
  Backends, \* what Endpoints objects say: sequences of subsets, each with
            \* addrs (healthy ones, [ip, node]) and ports ([name, port])
  Place,    \* where sort.Sort and sort.Strings put a service, an address
  NodeName, \* this node,
  NodeIP,   \* its address on the VPN
  VpnIface,
  PodNets,  \* and its pod networks: a sequence of sets of addresses
  None      \* no Endpoints object

Endpoints == [Services -> Backends \union {None}]

\* The conversion of a port number to uint16.
U16(n) == n % 65536

\* The services the table is about.
HasClusterIP(s) == SpecOf[s].type # "ExternalName" /\ SpecOf[s].ip \notin {"", "None"}

-----------------------------------------------------------------------------
(* RuleBuilder *)

Rule(tests, verdict) == [if |-> tests, do |-> verdict]

\* Tests, of which a rule has a sequence.
Always == <<>>

IsL4Proto(proto) == [field |-> "l4proto", in |-> {proto}]

IsDestPort(port) == [field |-> "dport", in |-> {port}]

IsICMP == [field |-> "l4proto", in |-> {"ICMP"}]

IsIpDestAddress(ip) == [field |-> "daddr", in |-> {ip}]

IsIpSrcAddress(ip) == [field |-> "saddr", in |-> {ip}]

IsIpSrcNetwork(net) == [field |-> "saddr", in |-> net]

OutIfaceName(iface) == [field |-> "oifname", in |-> {iface}]

\* Verdicts.
TranslateIPv4Destination(ip, port) == [kind |-> "dnat", daddr |-> ip, dport |-> port]

TranslateIPv4Address(ip) == [kind |-> "dnat", daddr |-> ip]

Masquerade == [kind |-> "masquerade"]

Reject == [kind |-> "reject"]

Return == [kind |-> "return"]

JumpToChain(chain) == [kind |-> "jump", chain |-> chain]

GoToChain(chain) == [kind |-> "goto", chain |-> chain]

\* What a rule's expressions compare: a rule without tests always applies.
Applies(rule, packet) ==
  \A i \in DOMAIN rule.if : packet[rule.if[i].field] \in rule.if[i].in

-----------------------------------------------------------------------------
(* BuildConfig *)

\* The ports of a subset that bear the name of the service's port.
SamePort(subset, port) == {i \in DOMAIN subset.ports : subset.ports[i].name = port.name}

\* Subsets with a healthy address, and those of them with the port.
Staffed(ep) == {k \in DOMAIN ep : ep[k].addrs # <<>>}

Serving(ep, port) == {k \in Staffed(ep) : SamePort(ep[k], port) # {}}

\* Mutant of Target: the first address of the Endpoints is taken for the port.
Target_AnySubset(ep, port) ==
  TranslateIPv4Destination(ep[Min(Staffed(ep))].addrs[1].ip, U16(port.port))

\* A port goes to the first address that serves it; of ports with the same name in
\* one subset the last counts.
Target(ep, port) ==
  LET subset == ep[Min(Serving(ep, port))]
  IN TranslateIPv4Destination(subset.addrs[1].ip,
                              U16(subset.ports[Max(SamePort(subset, port))].port))

PortRule(ep, port) ==
  Rule(<<IsL4Proto(port.proto), IsDestPort(U16(port.port))>>, Target(ep, port))

\* ICMP goes to the first address that is at all healthy.
IcmpRule(ep) ==
  Rule(<<IsICMP>>, TranslateIPv4Address(ep[Min(Staffed(ep))].addrs[1].ip))

\* The ports that are served, then ICMP.
ServiceRules(s, ep) ==
  LET ports  == SpecOf[s].ports
      served == {q \in DOMAIN ports : Serving(ep, ports[q]) # {}}
      icmp   == {Len(ports) + k : k \in IF Staffed(ep) = {} THEN {} ELSE {1}}
  IN [q \in served \union icmp |-> IF q \in served THEN PortRule(ep, ports[q])
                                                   ELSE IcmpRule(ep)]

\* A set at its places.
Sorted(set) == [p \in {Place[x] : x \in set} |-> CHOOSE x \in set : Place[x] = p]

\* Services with a chain of their own; pods of this node that serve one.
Chained(E, S) == {s \in S : HasClusterIP(s) /\ E[s] # None}

Addresses(ep) == UNION {ToSet(ep[k].addrs) : k \in DOMAIN ep}

LocalPods(E, S) ==
  UNION {{a.ip : a \in {b \in Addresses(E[s]) : b.node = NodeName}} : s \in Chained(E, S)}

\* The shared chains.  Dispatch and filter have a rule for EVERY ClusterIP, with
\* or without Endpoints.
DispatchRules(S) ==
  LET order == Sorted({s \in S : HasClusterIP(s)})
  IN [p \in DOMAIN order |->
        Rule(<<IsIpDestAddress(SpecOf[order[p]].ip)>>, GoToChain(order[p]))]

FilterRules(S) ==
  LET order == Sorted({s \in S : HasClusterIP(s)})
  IN [p \in DOMAIN order |-> Rule(<<IsIpDestAddress(SpecOf[order[p]].ip)>>, Reject)]

BackingPodRules(E, S) ==
  LET order == Sorted(LocalPods(E, S))
  IN [p \in DOMAIN order |->
        Rule(<<IsIpSrcAddress(order[p]), IsIpDestAddress(order[p])>>, Masquerade)]

\* Mutant of OutboundRules: the node's own address is forgotten.
OutboundRules_NoReturns ==
  <<Rule(Always, Masquerade)>>

OutboundRules ==
  <<Rule(<<IsIpSrcAddress(NodeIP)>>, Return)>>
    \o [i \in DOMAIN PodNets |-> Rule(<<IsIpSrcNetwork(PodNets[i])>>, Return)]
    \o <<Rule(Always, Masquerade)>>

\* Mutant of PostroutingRules: pods leave for the internet as they are.
PostroutingRules_NoPods ==
  <<Rule(Always, JumpToChain("cluster-ip-backing-pods-masq")),
    Rule(<<OutIfaceName("lo")>>, Return),
    Rule(<<OutIfaceName(VpnIface)>>, GoToChain("cluster-outbound-masq"))>>

\* What goes neither to the host itself nor into the VPN is taken for a pod on its
\* way to the internet, traffic between two pods of this node included.
PostroutingRules ==
  <<Rule(Always, JumpToChain("cluster-ip-backing-pods-masq")),
    Rule(<<OutIfaceName("lo")>>, Return),
    Rule(<<OutIfaceName(VpnIface)>>, GoToChain("cluster-outbound-masq"))>>
    \o [i \in DOMAIN PodNets |-> Rule(<<IsIpSrcNetwork(PodNets[i])>>, Masquerade)]

\* The chains the kernel calls, with the type and the hook they are called for.
BaseChains ==
  [c \in {"hook-filter-forward", "hook-filter-local-out", "hook-nat-fwd-in",
          "hook-nat-local-out", "hook-nat-postrouting"} |->
     CASE c = "hook-filter-forward"   -> <<"filter", "forward">>
       [] c = "hook-filter-local-out" -> <<"filter", "output">>
       [] c = "hook-nat-fwd-in"       -> <<"nat", "prerouting">>
       [] c = "hook-nat-local-out"    -> <<"nat", "output">>
       [] c = "hook-nat-postrouting"  -> <<"nat", "postrouting">>]

SharedChains ==
  {"cluster-ips-dnat", "cluster-ips-filter", "cluster-ip-backing-pods-masq",
   "cluster-outbound-masq"} \union DOMAIN BaseChains

HookRules(c) ==
  CASE BaseChains[c][1] = "filter" -> <<Rule(Always, JumpToChain("cluster-ips-filter"))>>
    [] c = "hook-nat-postrouting"  -> PostroutingRules
    [] OTHER -> <<Rule(Always, JumpToChain("cluster-ips-dnat"))>>

BuildConfig(E, S) ==
  [c \in Chained(E, S) \union SharedChains |->
     CASE c \in Services -> ServiceRules(c, E[c])
       [] c = "cluster-ips-dnat" -> DispatchRules(S)
       [] c = "cluster-ips-filter" -> FilterRules(S)
       [] c = "cluster-ip-backing-pods-masq" -> BackingPodRules(E, S)
       [] c = "cluster-outbound-masq" -> OutboundRules
       [] c \in DOMAIN BaseChains -> HookRules(c)]

\* All of them.
Configs == {BuildConfig(E, S) : E \in Endpoints, S \in SUBSET Services}

-----------------------------------------------------------------------------
(* What the API server lets through, as far as the table relies on it *)

IsList(s) == s \in Seq(ToSet(s))

IsPort(n) == n \in Nat /\ 0 < n /\ n < 65536

\* A ClusterIP is of one service; ports are numbers of a protocol.  No service is
\* called like a shared chain: the name of its own begins with svc-.
ASSUME ServicesAssumption ==
  /\ \A s, t \in Services :
       HasClusterIP(s) /\ HasClusterIP(t) /\ SpecOf[s].ip = SpecOf[t].ip => s = t
  /\ \A s \in Services :
       /\ IsList(SpecOf[s].ports)
       /\ \A q \in ToSet(SpecOf[s].ports) :
            q.proto \in {"TCP", "UDP", "SCTP"} /\ IsPort(q.port)
  /\ Services \intersect SharedChains = {}

\* Addresses of Endpoints are no ClusterIPs.
ASSUME BackendsAssumption ==
  /\ None \notin Backends
  /\ \A ep \in Backends :
       /\ IsList(ep)
       /\ \A subset \in ToSet(ep) :
            /\ IsList(subset.addrs) /\ IsList(subset.ports)
            /\ \A x \in ToSet(subset.ports) : IsPort(x.port)
       /\ \A a \in Addresses(ep), s \in Services : HasClusterIP(s) => a.ip # SpecOf[s].ip

ASSUME PodNetsAssumption == IsList(PodNets)

\* Sorting puts different names at different places.
ASSUME PlaceAssumption ==
  \A names \in {Services, {a.ip : a \in UNION {Addresses(ep) : ep \in Backends}}} :
    \A x, y \in names : Place[x] \in Nat /\ (Place[x] = Place[y] => x = y)

-----------------------------------------------------------------------------
(* The kernel *)

\* The kernel accepts a batch only if every chain it refers to exists.
Accepted(table) ==
  \A c \in DOMAIN table : \A i \in DOMAIN table[c] :
    table[c][i].do.kind \in {"jump", "goto"} => table[c][i].do.chain \in DOMAIN table

\* The chain called for a type and a hook.
StartedAt(type, hook) == CHOOSE c \in DOMAIN BaseChains : BaseChains[c] = <<type, hook>>

\* What a chain comes to for a packet, if it is known what other chains come to: its
\* first rule that applies decides, unless it jumps to a chain that decides nothing.
Undecided == [kind |-> "continue"]

Decides(rule, packet, called) ==
  /\ Applies(rule, packet)
  /\ rule.do.kind = "jump" => called[rule.do.chain] # Undecided

Outcome(do, called) ==
  CASE do.kind \in {"jump", "goto"} -> called[do.chain]
    [] do.kind = "return" -> Undecided
    [] OTHER -> do

Walk(chain, packet, called) ==
  LET deciding == {i \in DOMAIN chain : Decides(chain[i], packet, called)}
  IN IF deciding = {} THEN Undecided ELSE Outcome(chain[Min(deciding)].do, called)

WalkAll(table, packet, called) == [c \in DOMAIN table |-> Walk(table[c], packet, called)]

\* A base chain calls a shared chain, which calls the chain of a service, which calls
\* none.
Verdict(table, packet) ==
  WalkAll(table, packet,
    WalkAll(table, packet,
      WalkAll(table, packet, [c \in DOMAIN table |-> Undecided])))
=============================================================================
