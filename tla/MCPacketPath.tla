---------------------------- MODULE MCPacketPath ----------------------------
(* Instance of PacketPath for TLC: a node with two pods, on a VPN with one *)
(* remote pod, and a service of each kind BuildConfig tells apart.         *)
EXTENDS PacketPath

Port(name, proto, port) == [name |-> name, proto |-> proto, port |-> port]
Specs ==
  [web   |-> [type |-> "ClusterIP", ip |-> "web-ip",
              ports |-> <<Port("http", "TCP", 80), Port("admin", "TCP", 8080)>>],
   dns   |-> [type |-> "ClusterIP", ip |-> "dns-ip",
              ports |-> <<Port("udp", "UDP", 53), Port("http", "TCP", 53)>>],
   headless |-> [type |-> "ClusterIP", ip |-> "None", ports |-> <<Port("http", "TCP", 80)>>]]

At(ip, node) == [ip |-> ip, node |-> node]
Subset(addrs, ports) == [addrs |-> addrs, ports |-> ports]
On(name, port) == [name |-> name, port |-> port]

\* Nothing; one pod for all ports; the ports in different subsets and at different
\* numbers, the first subset without a healthy address, a remote pod first; the
\* host's own network, with one port of each service missing.
AllBackends ==
  {<<>>,
   <<Subset(<<At("pod1", "pet")>>, <<On("http", 8080), On("admin", 9090), On("udp", 5353)>>)>>,
   <<Subset(<<>>, <<On("http", 8080)>>),
     Subset(<<At("remote", "other"), At("pod2", "pet")>>, <<On("http", 8082), On("udp", 53)>>),
     Subset(<<At("pod1", "pet")>>, <<On("admin", 8081)>>)>>,
   <<Subset(<<At("node", "pet")>>, <<On("http", 80)>>)>>}

Places == [web |-> 2, dns |-> 1, headless |-> 3, node |-> 1, pod1 |-> 2, pod2 |-> 3, remote |-> 4]
InjectiveHash(c) == <<c>>

OneNet == <<{"pod1", "pod2", "bridge"}>>
Routes == [pod1 |-> "cni", pod2 |-> "cni", bridge |-> "lo", node |-> "lo", lan |-> "lo",
           remote |-> "vpn", inet |-> "eth"]
           @@ ("web-ip" :> "eth") @@ ("dns-ip" :> "vpn")
Masquerades == [cni |-> "bridge", lo |-> "node", vpn |-> "node", eth |-> "lan"]
Answers == [cni |-> {"pod1", "pod2", "bridge", "node", "lan", "remote"},
            lo  |-> {"pod1", "pod2", "bridge", "node", "lan", "remote"},
            vpn |-> {"pod1", "pod2", "bridge", "node"},
            eth |-> {"lan"}]
Protocols == {<<"TCP", 80>>, <<"TCP", 8080>>, <<"TCP", 53>>, <<"UDP", 53>>, <<"ICMP", 0>>}
Packet(from, to, proto, port) ==
  [saddr |-> from, daddr |-> to, l4proto |-> proto, dport |-> port, oifname |-> "none",
   local |-> Routes[from] = "lo"]

\* Pods and the host call services and others (the host with the address of the
\* interface its route names), the cluster calls the pods and the host.
AllPackets ==
  {Packet(from, to, m[1], m[2]) : from \in {"pod1", "pod2"}, to \in {"web-ip", "dns-ip"},
     m \in Protocols}
  \union {Packet(Masquerades[Routes[to]], to, m[1], m[2]) : to \in {"web-ip", "dns-ip"},
     m \in Protocols}
  \union {Packet(from, to, "TCP", 80) : from \in {"pod1", "pod2"},
                                         to \in {"pod1", "remote", "node", "inet"}}
  \union {Packet(Masquerades[Routes[to]], to, "TCP", 80) :
                                         to \in {"pod1", "remote", "node", "inet"}}
  \union {Packet("remote", to, "TCP", 80) : to \in {"pod1", "node"}}
=============================================================================
