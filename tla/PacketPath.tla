----------------------------- MODULE PacketPath -----------------------------
(***************************************************************************)
(* The first packet of a connection on its way through this host, with the *)
(* table FirewallSync comes to install: destination NAT, the filter hooks, *)
(* routing and source NAT, for a packet of the host itself or one it       *)
(* forwards.  The kernel is modelled from the hooks the table uses.        *)
(***************************************************************************)
EXTENDS FirewallSync

CONSTANTS
  Packets, \* [saddr, daddr, l4proto, dport, oifname, local] entering the host
  Route,   \* address to the interface that leads there
  AddrOn,  \* interface to the address the kernel masquerades with
  Answered \* interface to the sources its other side has a way back to

\* Addresses of this node's pods, and where a packet may be on its way to.
PodIP(ip) == \E i \in DOMAIN PodNets : ip \in PodNets[i]

Destinations(p) == {p.daddr} \union {a.ip : a \in UNION {Addresses(ep) : ep \in Backends}}

\* The network around the table.  ClusterIPs are on no interface of the host.  The host
\* sends from addresses of its own and forwards for its pods and from the VPN; it
\* reaches what is its own without the VPN, whose other side has a way back to it.
\* What the kernel masquerades with is the host's, and answered.  On other interfaces
\* the host is, as is who it forwards for, its pods excepted.
ASSUME NetworkAssumption ==
  /\ VpnIface # "lo"
  /\ \A s \in Services : HasClusterIP(s) => Route[SpecOf[s].ip] # "lo"
  /\ \A p \in Packets :
       /\ DOMAIN p = {"saddr", "daddr", "l4proto", "dport", "oifname", "local"}
       /\ p.local = (Route[p.saddr] = "lo")
       /\ ~p.local => PodIP(p.saddr) \/ Route[p.saddr] = VpnIface
       /\ PodIP(p.saddr) \/ p.saddr = NodeIP =>
            Route[p.saddr] # VpnIface /\ p.saddr \in Answered[VpnIface]
       /\ \A iface \in {Route[d] : d \in Destinations(p)} :
            /\ AddrOn[iface] \in Answered[iface] /\ Route[AddrOn[iface]] = "lo"
            /\ iface # VpnIface /\ (iface = "lo" \/ ~PodIP(p.saddr)) =>
                 p.saddr \in Answered[iface]

VARIABLES
  sent,  \* the packet as it was sent
  pkt,   \* and as it is now
  hook   \* where it is

pathVars == <<vars, sent, pkt, hook>>

\* The kernel has the table of the current services and the controller is at rest.
Settled ==
  /\ eps \in Endpoints
  /\ svcs \in SUBSET Services
  /\ kernel = BuildConfig(eps, svcs)
  /\ Accepted(kernel)
  /\ latest = Hash(kernel)
  /\ timer = FALSE
  /\ sync = [i \in Syncs |-> Unstarted]
  /\ doubt = {}
  /\ changes = 0

\* Nobody replaces the table under way.
PathInit ==
  /\ Settled
  /\ sent \in Packets
  /\ pkt = sent
  /\ hook = "nat"

Decided(type, at) == Verdict(kernel, pkt)[StartedAt(type, at)]

\* Prerouting, or the output hook at the priority of mangle.
DestinationNat ==
  /\ hook = "nat"
  /\ LET do == Decided("nat", IF sent.local THEN "output" ELSE "prerouting")
     IN pkt' = [f \in DOMAIN pkt |-> IF f \in {"daddr", "dport"} \intersect DOMAIN do
                                       THEN do[f] ELSE pkt[f]]
  /\ hook' = "filter"
  /\ UNCHANGED <<vars, sent>>

\* Output or forward; what is for the host itself is not forwarded.
Filter ==
  /\ hook = "filter"
  /\ hook' = IF ~sent.local /\ Route[pkt.daddr] = "lo" THEN "delivered"
             ELSE IF Decided("filter", IF sent.local THEN "output" ELSE "forward") = Reject
                  THEN "rejected" ELSE "postrouting"
  /\ pkt' = [pkt EXCEPT !.oifname = Route[pkt.daddr]]
  /\ UNCHANGED <<vars, sent>>

\* Postrouting.
SourceNat ==
  /\ hook = "postrouting"
  /\ hook' = "left"
  /\ pkt' = IF Decided("nat", "postrouting") = Masquerade
              THEN [pkt EXCEPT !.saddr = AddrOn[pkt.oifname]] ELSE pkt
  /\ UNCHANGED <<vars, sent>>

PathNext == DestinationNat \/ Filter \/ SourceNat

PathSpec == PathInit /\ [][PathNext]_pathVars

-----------------------------------------------------------------------------
(* Properties *)

\* What the cluster asks for: the port of the service a packet is for, and the
\* healthy addresses of that port, each with its own number.
PortOf(s) == {q \in ToSet(SpecOf[s].ports) : q.proto = sent.l4proto /\ q.port = sent.dport}
Ready(subset, q) == [ip : {a.ip : a \in ToSet(subset.addrs)},
                     port : {x.port : x \in {y \in ToSet(subset.ports) : y.name = q.name}}]
ReadyBackends(s) ==
  UNION {UNION {Ready(subset, q) : subset \in ToSet(eps[s])} : q \in PortOf(s)}
Healthy(s) == UNION {{a.ip : a \in ToSet(subset.addrs)} : subset \in ToSet(eps[s])}

ServiceOf(ip) == {s \in svcs : HasClusterIP(s) /\ SpecOf[s].ip = ip}

\* A packet for the ClusterIP and a port of a service reaches an address that is
\* healthy for this port, at the port it has there; ICMP reaches an address that
\* is healthy for any; every other packet for a ClusterIP is answered with a
\* reject and never leaves for an address nobody has; and no other packet is
\* touched.
ServicesServed ==
  hook \in {"delivered", "rejected", "left"} =>
    /\ ServiceOf(sent.daddr) = {} =>
         hook # "rejected" /\ pkt.daddr = sent.daddr /\ pkt.dport = sent.dport
    /\ \A s \in ServiceOf(sent.daddr) :
         CASE sent.l4proto = "ICMP" /\ Healthy(s) # {} ->
                hook # "rejected" /\ pkt.daddr \in Healthy(s)
           [] ReadyBackends(s) # {} ->
                hook # "rejected" /\ [ip |-> pkt.daddr, port |-> pkt.dport] \in ReadyBackends(s)
           [] OTHER -> hook = "rejected"

\* What leaves the host can be answered: its source is one the other side has a
\* way back to, and a pod that reaches itself through a service does not see its
\* own address, which it would answer past the translation.
AnswersComeBack ==
  hook = "left" =>
    /\ pkt.saddr \in Answered[pkt.oifname]
    /\ pkt.daddr # sent.daddr /\ pkt.daddr = sent.saddr /\ pkt.oifname # "lo" =>
         pkt.saddr # sent.saddr

\* The cluster sees the pods of this node, and the node, under their own
\* addresses.
ClusterSeesPods ==
  hook = "left" /\ pkt.oifname = VpnIface
    /\ (sent.saddr = NodeIP \/ PodIP(sent.saddr))
    => pkt.saddr = sent.saddr

-----------------------------------------------------------------------------
(* The inductive invariant behind them *)

\* What destination NAT made of the packet.
Translated ==
  /\ \A f \in DOMAIN sent \ {"daddr", "dport", "oifname", "saddr"} : pkt[f] = sent[f]
  /\ ServiceOf(sent.daddr) = {} => pkt.daddr = sent.daddr /\ pkt.dport = sent.dport
  /\ \A s \in ServiceOf(sent.daddr) :
       IF sent.l4proto = "ICMP" /\ Healthy(s) # {} THEN pkt.daddr \in Healthy(s)
       ELSE IF ReadyBackends(s) # {}
         THEN [ip |-> pkt.daddr, port |-> pkt.dport] \in ReadyBackends(s)
       ELSE pkt.daddr = sent.daddr
  /\ pkt.daddr # sent.daddr => ServiceOf(pkt.daddr) = {}
  /\ pkt.daddr \in Destinations(sent)

PathInv ==
  /\ Settled
  /\ sent \in Packets
  /\ hook \in {"nat", "filter", "postrouting", "delivered", "rejected", "left"}
  /\ DOMAIN pkt = DOMAIN sent
  /\ hook = "nat" => pkt = sent
  /\ hook # "nat" => Translated
  /\ hook # "left" => pkt.saddr = sent.saddr
  /\ hook \in {"postrouting", "left"} => pkt.oifname = Route[pkt.daddr]
  /\ hook \in {"delivered", "postrouting", "left"} => ServiceOf(pkt.daddr) = {}
  /\ hook = "rejected" => ServiceOf(pkt.daddr) # {}
  /\ AnswersComeBack
  /\ ClusterSeesPods
=============================================================================
