--------------------------- MODULE FirewallProofs ---------------------------
(* Theorems about FirewallSync, for any number of goroutines and changes,  *)
(* and about the packets of PacketPath, for any services, pods and network *)
(* of the assumptions.                                                     *)
EXTENDS PacketPath, SequenceTheorems, WellFoundedInduction, TLAPS

-----------------------------------------------------------------------------
(* Sync *)

LEMMA BuildConfigType ==
  ASSUME NEW E \in Endpoints, NEW S \in SUBSET Services
  PROVE  BuildConfig(E, S) \in Configs
  BY DEF Configs

LEMMA InitSyncInv == Init => SyncInv
  <1> SUFFICES ASSUME Init PROVE SyncInv
    OBVIOUS
  <1>1. TypeOK
    BY SyncAssumption
    DEF Init, TypeOK, Unstarted, SyncStates, Endpoints, Doubts
  <1>2. HashOfKernel
    BY DEF Init, HashOfKernel, Unrecorded, Unstarted
  <1> QED
    BY <1>1, <1>2 DEF SyncInv

LEMMA BuiltType ==
  ASSUME TypeOK, NEW i \in Syncs, sync[i].pc \in {"compare", "flush", "store"}
  PROVE  Built(i) \in Configs
  BY DEF TypeOK

LEMMA NextTypeOK == TypeOK /\ [Next]_vars => TypeOK'
  <1> SUFFICES ASSUME TypeOK, [Next]_vars PROVE TypeOK'
    OBVIOUS
  <1>1. Unstarted \in SyncStates
    BY DEF Unstarted, SyncStates, Endpoints
  <1> USE SyncAssumption DEF TypeOK, Built, vars, caches
  <1>2. ASSUME NEW s \in Services, ServiceChanges(s) PROVE TypeOK'
    BY <1>2 DEF ServiceChanges
  <1>3. ASSUME NEW s \in Services, EndpointsChange(s) PROVE TypeOK'
    BY <1>3 DEF EndpointsChange, Endpoints
  <1>4. CASE Resync
    BY <1>4 DEF Resync
  <1>5. ASSUME NEW i \in Syncs, TimerFires(i) PROVE TypeOK'
    <2>1. /\ [Unstarted EXCEPT !.pc = "endpoints"] \in SyncStates
          /\ [Unstarted EXCEPT !.pc = "endpoints"].pc = "endpoints"
      BY <1>1 DEF SyncStates
    <2> QED
      BY <1>5, <2>1 DEF TimerFires
  <1>6. ASSUME NEW i \in Syncs, ListEndpoints(i) PROVE TypeOK'
    <2>1. [sync[i] EXCEPT !.pc = "services", !.eps = eps] \in SyncStates
      BY DEF SyncStates
    <2> QED
      BY <1>6, <2>1 DEF ListEndpoints, Built
  <1>7. ASSUME NEW i \in Syncs, ListServices(i) PROVE TypeOK'
    <2> DEFINE config == BuildConfig(sync[i].eps, svcs)
    <2>1. config \in Configs
      BY BuildConfigType DEF SyncStates
    <2> HIDE DEF config
    <2>2. [Unstarted EXCEPT !.pc = "compare", !.built = config] \in SyncStates
      BY <1>1, <2>1 DEF SyncStates
    <2> QED
      BY <1>7, <2>1, <2>2 DEF ListServices, Built, config, Unstarted
  <1>8. ASSUME NEW i \in Syncs,
               \/ CompareHash(i) \/ Flush(i) \/ FlushRejected(i)
               \/ FlushNoBufs(i) \/ FlushFails(i) \/ StoreHash(i)
        PROVE  TypeOK'
    <2>1. /\ [sync[i] EXCEPT !.pc = "flush"] \in SyncStates
          /\ [sync[i] EXCEPT !.pc = "store"] \in SyncStates
      BY DEF SyncStates
    <2>2. sync' \in [Syncs -> SyncStates]
      BY <1>1, <1>8, <2>1 DEF CompareHash, Flush, FlushRejected, FlushNoBufs, FlushFails,
                              StoreHash, Finish
    <2>3. Built(i) \in Configs
      BY <1>8, BuiltType DEF CompareHash, Flush, FlushRejected, FlushNoBufs, FlushFails, StoreHash
    <2>4. \/ sync'[i].pc = "idle"
          \/ sync'[i].built = Built(i)
      <3>1. Unstarted.pc = "idle"
        BY DEF Unstarted
      <3> QED
        BY <1>8, <3>1 DEF CompareHash, Flush, FlushRejected, FlushNoBufs, FlushFails, StoreHash,
           Finish, SyncStates
    <2>5. \A j \in Syncs \ {i} : sync'[j] = sync[j]
      BY <1>8 DEF CompareHash, Flush, FlushRejected, FlushNoBufs, FlushFails, StoreHash, Finish
    <2>6. \A j \in Syncs :
            sync'[j].pc \in {"compare", "flush", "store"} => sync'[j].built \in Configs
      BY <2>3, <2>4, <2>5
    <2>7. doubt' \in SUBSET Doubts
      BY <1>8 DEF CompareHash, Flush, FlushRejected, FlushNoBufs, FlushFails, StoreHash,
         Doubts
    <2>8. changes' \in 0..MaxChanges
      BY <1>8 DEF CompareHash, Flush, FlushRejected, FlushNoBufs, FlushFails, StoreHash
    <2> QED
      BY <1>8, <2>2, <2>3, <2>6, <2>7, <2>8
      DEF CompareHash, Flush, FlushRejected, FlushNoBufs, FlushFails, StoreHash
  <1>9. CASE Restart
    BY <1>1, <1>9 DEF Restart, Unstarted
  <1> QED
    BY <1>2, <1>3, <1>4, <1>5, <1>6, <1>7, <1>8, <1>9 DEF Next, SyncSteps

LEMMA NextSyncInv == SyncInv /\ [Next]_vars => SyncInv'
  <1> SUFFICES ASSUME SyncInv, [Next]_vars, doubt' = {}
               PROVE  HashOfKernel'
    BY NextTypeOK DEF SyncInv
  <1> USE DEF SyncInv, TypeOK, vars, caches
  <1>1. ASSUME UNCHANGED <<sync, latest, kernel, doubt>> PROVE HashOfKernel'
    BY <1>1 DEF HashOfKernel, Unrecorded, Built
  \* A step of a Sync that is not on its way from the kernel to the hash.
  <1>2. ASSUME NEW i \in Syncs, sync[i].pc # "store", sync'[i].pc # "store",
               \A j \in Syncs \ {i} : sync'[j] = sync[j],
               UNCHANGED <<latest, kernel, doubt>>
        PROVE  HashOfKernel'
    <2>1. /\ Unrecorded' = Unrecorded
          /\ \A j \in Unrecorded : Built(j)' = Built(j)
      BY <1>2 DEF Unrecorded, Built
    <2> QED
      BY <1>2, <2>1 DEF HashOfKernel
  <1>3. ASSUME NEW i \in Syncs, TimerFires(i) PROVE HashOfKernel'
    <2>1. sync[i].pc # "store" /\ sync'[i].pc # "store"
      BY <1>3 DEF TimerFires, Unstarted
    <2> QED
      BY <1>2, <1>3, <2>1 DEF TimerFires
  <1>4. ASSUME NEW i \in Syncs, SyncSteps(i) \/ FlushNoBufs(i) \/ FlushFails(i)
        PROVE  HashOfKernel'
    <2>1. Unstarted.pc = "idle"
      BY DEF Unstarted
    <2>2. \A j \in Syncs \ {i} : sync'[j] = sync[j]
      BY <1>4 DEF SyncSteps, ListEndpoints, ListServices, CompareHash, Flush,
                  FlushRejected, FlushNoBufs, FlushFails, StoreHash, Finish
    <2>3. CASE ListServices(i)
      <3>1. ASSUME NEW b
            PROVE  [Unstarted EXCEPT !.pc = "compare", !.built = b].pc = "compare"
        BY DEF Unstarted
      <3>2. sync[i].pc # "store" /\ sync'[i].pc # "store"
        BY <2>3, <3>1 DEF ListServices
      <3> QED
        BY <1>2, <2>2, <2>3, <3>2 DEF ListServices
    <2>4. CASE ListEndpoints(i) \/ CompareHash(i) \/ FlushRejected(i)
      <3>1. sync[i].pc # "store" /\ sync'[i].pc # "store"
        BY <2>1, <2>4 DEF ListEndpoints, CompareHash, FlushRejected, Finish, SyncStates
      <3>2. UNCHANGED <<latest, kernel, doubt>>
        BY <2>4 DEF ListEndpoints, CompareHash, FlushRejected
      <3> QED
        BY <1>2, <2>2, <3>1, <3>2
    \* Doubt is over only if every hash was recorded.
    <2>5. CASE Flush(i)
      <3>1. Unrecorded = {}
        BY <2>5 DEF Flush
      <3>2. kernel' = Built(i) /\ sync'[i] = [sync[i] EXCEPT !.pc = "store"]
        BY <2>5 DEF Flush
      <3>3. sync'[i].pc = "store" /\ Built(i)' = Built(i)
        BY <3>2 DEF Built, SyncStates
      <3>4. Unrecorded' = {i}
        BY <2>2, <3>1, <3>3 DEF Unrecorded
      <3> QED
        BY <3>2, <3>3, <3>4 DEF HashOfKernel
    \* An ENOBUFS that is not to be trusted raises a doubt.
    <2>6. CASE FlushNoBufs(i)
      BY <2>6 DEF FlushNoBufs
    <2>7. CASE FlushFails(i)
      <3>1. UNCHANGED <<latest, kernel, doubt>>
        BY <2>7 DEF FlushFails
      <3>2. sync[i].pc # "store" /\ sync'[i].pc # "store"
        BY <2>1, <2>7 DEF FlushFails, Finish
      <3> QED
        BY <1>2, <2>2, <3>1, <3>2
    <2>8. CASE StoreHash(i)
      <3>1. doubt = {} /\ i \in Unrecorded
        BY <2>8 DEF StoreHash, Unrecorded
      <3>2. Unrecorded = {i} /\ kernel = Built(i) /\ kernel \in Configs
        BY <2>8, <3>1, BuiltType DEF StoreHash, HashOfKernel
      <3>3. kernel' = kernel /\ latest' = Hash(kernel)
        BY <2>8, <3>2 DEF StoreHash
      <3>4. sync'[i].pc = "idle"
        BY <2>1, <2>8 DEF StoreHash, Finish
      <3>5. Unrecorded' = {}
        BY <2>2, <3>2, <3>4 DEF Unrecorded
      <3> QED
        BY <3>2, <3>3, <3>5 DEF HashOfKernel
    <2> QED
      BY <1>4, <2>3, <2>4, <2>5, <2>6, <2>7, <2>8 DEF SyncSteps
  <1>5. CASE Restart
    BY <1>5 DEF Restart, Unstarted, HashOfKernel, Unrecorded
  <1>6. ASSUME NEW s \in Services, ServiceChanges(s) \/ EndpointsChange(s)
        PROVE  HashOfKernel'
    BY <1>1, <1>6 DEF ServiceChanges, EndpointsChange
  <1>7. CASE Resync \/ UNCHANGED vars
    BY <1>1, <1>7 DEF Resync
  <1> QED
    BY <1>3, <1>4, <1>5, <1>6, <1>7 DEF Next

\* Type correctness of the controller's state and of the kernel's table.
THEOREM SyncTypeCorrect == Spec => []TypeOK
  BY InitSyncInv, NextSyncInv, PTL DEF Spec, SyncInv

\* "Up to date" is true, whatever Syncs overlap: Sync skips the kernel only when the
\* kernel has the very table Sync built, once every hash is recorded and unless an
\* answer did not tell what became of a batch, or two Syncs crossed between Flush and
\* hash, since the last batch that was taken while every hash was recorded.
THEOREM SkipIsSafeThm == Spec => []SkipIsSafe
  <1>1. SyncInv => SkipIsSafe
    <2> SUFFICES ASSUME SyncInv, doubt = {}, Unrecorded = {}, NEW i \in Syncs,
                        sync[i].pc = "compare", latest = Hash(Built(i))
                 PROVE  kernel = Built(i)
      BY DEF SkipIsSafe
    <2>1. Built(i) \in Configs
      BY BuiltType DEF SyncInv
    <2>2. kernel \in Configs /\ latest = Hash(kernel)
      BY <2>1, HashAssumption DEF SyncInv, HashOfKernel
    <2> QED
      BY <2>1, <2>2, HashAssumption
  <1> QED
    BY <1>1, InitSyncInv, NextSyncInv, PTL DEF Spec

-----------------------------------------------------------------------------
(* The kernel's walk through a chain *)

\* Numbers have a least one, and up to a bound a greatest.
LEMMA LeastNumber ==
  ASSUME NEW S \in SUBSET Nat, S # {}
  PROVE  Min(S) \in S /\ \A j \in S : Min(S) <= j
  <1>1. IsWellFoundedOn(OpToRel(<, Nat), Nat)
    BY NatLessThanWellFounded
  <1>2. PICK i \in S : \A j \in S : <<j, i>> \notin OpToRel(<, Nat)
    BY <1>1, WFMin
  <1>3. \A j \in S : i <= j
    <2> SUFFICES ASSUME NEW j \in S PROVE i <= j
      OBVIOUS
    <2>1. ~(j < i)
      BY <1>2 DEF OpToRel
    <2> QED
      BY <2>1
  <1> QED
    BY <1>3 DEF Min

LEMMA GreatestNumber ==
  ASSUME NEW n \in Nat, NEW S \in SUBSET (1..n), S # {}
  PROVE  Max(S) \in S
  <1> DEFINE T == {n - x : x \in S}
  <1>1. T \in SUBSET Nat /\ T # {}
    <2>1. \A x \in S : n - x \in Nat
      OBVIOUS
    <2> QED
      BY <2>1
  <1>2. Min(T) \in T /\ \A t \in T : Min(T) <= t
    <2> HIDE DEF T
    <2> QED
      BY <1>1, LeastNumber
  <1>3. PICK x \in S : Min(T) = n - x
    BY <1>2
  <1>4. ASSUME NEW y \in S PROVE y <= x
    <2>1. n - y \in T /\ n - x <= n - y
      BY <1>2, <1>3
    <2> QED
      BY <2>1
  <1> HIDE DEF T
  <1> QED
    BY <1>4 DEF Max

LEMMA WalkUndecided ==
  ASSUME NEW chain, NEW p, NEW called,
         \A i \in DOMAIN chain : ~Decides(chain[i], p, called)
  PROVE  Walk(chain, p, called) = Undecided
  BY DEF Walk

LEMMA WalkDecided ==
  ASSUME NEW chain, DOMAIN chain \subseteq Nat, NEW p, NEW called,
         NEW i \in DOMAIN chain, Decides(chain[i], p, called)
  PROVE  \E j \in DOMAIN chain :
           /\ Decides(chain[j], p, called)
           /\ \A k \in DOMAIN chain : Decides(chain[k], p, called) => j <= k
           /\ Walk(chain, p, called) = Outcome(chain[j].do, called)
  <1> DEFINE deciding == {k \in DOMAIN chain : Decides(chain[k], p, called)}
  <1>1. deciding \in SUBSET Nat /\ i \in deciding
    OBVIOUS
  <1>2. Min(deciding) \in deciding /\ \A k \in deciding : Min(deciding) <= k
    <2> HIDE DEF deciding
    <2> QED
      BY <1>1, LeastNumber
  <1>3. Walk(chain, p, called) = Outcome(chain[Min(deciding)].do, called)
    BY <1>1 DEF Walk
  <1> QED
    BY <1>2, <1>3

\* The first rule of a chain that decides.
LEMMA WalkFirst ==
  ASSUME NEW chain, DOMAIN chain \subseteq Nat, NEW p, NEW called,
         NEW i \in DOMAIN chain, Decides(chain[i], p, called),
         \A j \in DOMAIN chain : j < i => ~Decides(chain[j], p, called)
  PROVE  Walk(chain, p, called) = Outcome(chain[i].do, called)
  BY WalkDecided

\* Only the chains a chain calls matter.
LEMMA WalkCalls ==
  ASSUME NEW chain, DOMAIN chain \subseteq Nat, NEW p, NEW this, NEW that,
         \A i \in DOMAIN chain :
           chain[i].do.kind \in {"jump", "goto"} => this[chain[i].do.chain] = that[chain[i].do.chain]
  PROVE  Walk(chain, p, this) = Walk(chain, p, that)
  <1>1. \A i \in DOMAIN chain : Decides(chain[i], p, this) <=> Decides(chain[i], p, that)
    BY DEF Decides
  <1>2. \A i \in DOMAIN chain : Outcome(chain[i].do, this) = Outcome(chain[i].do, that)
    BY DEF Outcome
  <1> DEFINE deciding == {i \in DOMAIN chain : Decides(chain[i], p, this)}
  <1>3. deciding = {i \in DOMAIN chain : Decides(chain[i], p, that)}
    BY <1>1
  <1>4. CASE deciding = {}
    BY <1>3, <1>4 DEF Walk
  <1>5. CASE deciding # {}
    <2>1. Walk(chain, p, this) = Outcome(chain[Min(deciding)].do, this)
      BY <1>5 DEF Walk
    <2>2. Walk(chain, p, that) = Outcome(chain[Min(deciding)].do, that)
      BY <1>3, <1>5 DEF Walk
    <2>3. deciding \in SUBSET Nat
      OBVIOUS
    <2>4. Min(deciding) \in deciding
      <3> HIDE DEF deciding
      <3> QED
        BY <1>5, <2>3, LeastNumber
    <2> QED
      BY <1>2, <2>1, <2>2, <2>4
  <1> QED
    BY <1>4, <1>5

-----------------------------------------------------------------------------
(* The chains BuildConfig makes *)

\* Every element has a position, and no other position is taken.
LEMMA SortedAt ==
  ASSUME NEW set, \A x, y \in set : Place[x] \in Nat /\ (Place[x] = Place[y] => x = y)
  PROVE  /\ DOMAIN Sorted(set) \subseteq Nat
         /\ \A i \in DOMAIN Sorted(set) : Sorted(set)[i] \in set
         /\ \A x \in set : Place[x] \in DOMAIN Sorted(set) /\ Sorted(set)[Place[x]] = x
  BY DEF Sorted

\* Services and the addresses of Endpoints can be sorted.
LEMMA CanBeSorted ==
  /\ \A x, y \in Services : Place[x] \in Nat /\ (Place[x] = Place[y] => x = y)
  /\ \A E \in Endpoints, S \in SUBSET Services : \A x, y \in LocalPods(E, S) :
       Place[x] \in Nat /\ (Place[x] = Place[y] => x = y)
  <1> DEFINE ips == {a.ip : a \in UNION {Addresses(ep) : ep \in Backends}}
  <1>1. \A names \in {Services, ips} : \A x, y \in names :
          Place[x] \in Nat /\ (Place[x] = Place[y] => x = y)
    BY PlaceAssumption
  <1>2. \A E \in Endpoints, S \in SUBSET Services : LocalPods(E, S) \subseteq ips
    <2> SUFFICES ASSUME NEW E \in Endpoints, NEW S \in SUBSET Services,
                        NEW ip \in LocalPods(E, S)
                 PROVE  ip \in ips
      OBVIOUS
    <2>1. PICK s \in Chained(E, S) : \E a \in Addresses(E[s]) : ip = a.ip
      BY DEF LocalPods
    <2>2. E[s] \in Backends
      BY DEF Chained, Endpoints
    <2> QED
      BY <2>1, <2>2
  <1> QED
    BY <1>1, <1>2

LEMMA DispatchIs ==
  ASSUME NEW S \in SUBSET Services
  PROVE  /\ DOMAIN DispatchRules(S) \subseteq Nat
         /\ \A i \in DOMAIN DispatchRules(S) : \E s \in S :
              /\ HasClusterIP(s)
              /\ DispatchRules(S)[i] = Rule(<<IsIpDestAddress(SpecOf[s].ip)>>, GoToChain(s))
         /\ \A s \in S : HasClusterIP(s) => \E i \in DOMAIN DispatchRules(S) :
              DispatchRules(S)[i] = Rule(<<IsIpDestAddress(SpecOf[s].ip)>>, GoToChain(s))
  <1> DEFINE set == {s \in S : HasClusterIP(s)}
  <1>1. /\ DOMAIN Sorted(set) \subseteq Nat
        /\ \A i \in DOMAIN Sorted(set) : Sorted(set)[i] \in set
        /\ \A x \in set : Place[x] \in DOMAIN Sorted(set) /\ Sorted(set)[Place[x]] = x
    BY CanBeSorted, SortedAt
  <1>2. DispatchRules(S) = [i \in DOMAIN Sorted(set) |->
          Rule(<<IsIpDestAddress(SpecOf[Sorted(set)[i]].ip)>>, GoToChain(Sorted(set)[i]))]
    BY DEF DispatchRules
  <1>3. \A x : x \in set <=> x \in S /\ HasClusterIP(x)
    OBVIOUS
  <1>4. DOMAIN DispatchRules(S) = DOMAIN Sorted(set)
    BY <1>2
  <1> HIDE DEF set
  <1>5. \A i \in DOMAIN DispatchRules(S) : \E s \in S :
          /\ HasClusterIP(s)
          /\ DispatchRules(S)[i] = Rule(<<IsIpDestAddress(SpecOf[s].ip)>>, GoToChain(s))
    BY <1>1, <1>2, <1>3
  <1>6. ASSUME NEW s \in S, HasClusterIP(s)
        PROVE  \E i \in DOMAIN DispatchRules(S) :
                 DispatchRules(S)[i] = Rule(<<IsIpDestAddress(SpecOf[s].ip)>>, GoToChain(s))
    <2>1. Place[s] \in DOMAIN Sorted(set) /\ Sorted(set)[Place[s]] = s
      BY <1>1, <1>3, <1>6
    <2>2. Place[s] \in DOMAIN DispatchRules(S)
      BY <1>4, <2>1
    <2> QED
      BY <1>2, <2>1, <2>2
  <1> QED
    BY <1>1, <1>4, <1>5, <1>6

LEMMA FilterIs ==
  ASSUME NEW S \in SUBSET Services
  PROVE  /\ DOMAIN FilterRules(S) \subseteq Nat
         /\ \A i \in DOMAIN FilterRules(S) : \E s \in S :
              /\ HasClusterIP(s)
              /\ FilterRules(S)[i] = Rule(<<IsIpDestAddress(SpecOf[s].ip)>>, Reject)
         /\ \A s \in S : HasClusterIP(s) => \E i \in DOMAIN FilterRules(S) :
              FilterRules(S)[i] = Rule(<<IsIpDestAddress(SpecOf[s].ip)>>, Reject)
  <1> DEFINE set == {s \in S : HasClusterIP(s)}
  <1>1. /\ DOMAIN Sorted(set) \subseteq Nat
        /\ \A i \in DOMAIN Sorted(set) : Sorted(set)[i] \in set
        /\ \A x \in set : Place[x] \in DOMAIN Sorted(set) /\ Sorted(set)[Place[x]] = x
    BY CanBeSorted, SortedAt
  <1>2. FilterRules(S) = [i \in DOMAIN Sorted(set) |->
          Rule(<<IsIpDestAddress(SpecOf[Sorted(set)[i]].ip)>>, Reject)]
    BY DEF FilterRules
  <1>3. \A x : x \in set <=> x \in S /\ HasClusterIP(x)
    OBVIOUS
  <1>4. DOMAIN FilterRules(S) = DOMAIN Sorted(set)
    BY <1>2
  <1> HIDE DEF set
  <1>5. \A i \in DOMAIN FilterRules(S) : \E s \in S :
          /\ HasClusterIP(s)
          /\ FilterRules(S)[i] = Rule(<<IsIpDestAddress(SpecOf[s].ip)>>, Reject)
    BY <1>1, <1>2, <1>3
  <1>6. ASSUME NEW s \in S, HasClusterIP(s)
        PROVE  \E i \in DOMAIN FilterRules(S) :
                 FilterRules(S)[i] = Rule(<<IsIpDestAddress(SpecOf[s].ip)>>, Reject)
    <2>1. Place[s] \in DOMAIN Sorted(set) /\ Sorted(set)[Place[s]] = s
      BY <1>1, <1>3, <1>6
    <2>2. Place[s] \in DOMAIN FilterRules(S)
      BY <1>4, <2>1
    <2> QED
      BY <1>2, <2>1, <2>2
  <1> QED
    BY <1>1, <1>4, <1>5, <1>6

LEMMA BackingPodsAre ==
  ASSUME NEW E \in Endpoints, NEW S \in SUBSET Services
  PROVE  /\ DOMAIN BackingPodRules(E, S) \subseteq Nat
         /\ \A i \in DOMAIN BackingPodRules(E, S) : \E ip : BackingPodRules(E, S)[i] =
              Rule(<<IsIpSrcAddress(ip), IsIpDestAddress(ip)>>, Masquerade)
  <1> DEFINE set == LocalPods(E, S)
  <1>1. DOMAIN Sorted(set) \subseteq Nat
    BY CanBeSorted, SortedAt
  <1>2. BackingPodRules(E, S) = [i \in DOMAIN Sorted(set) |->
          Rule(<<IsIpSrcAddress(Sorted(set)[i]), IsIpDestAddress(Sorted(set)[i])>>, Masquerade)]
    BY DEF BackingPodRules
  <1> QED
    BY <1>1, <1>2

\* A service's chain has a rule for each port that is served, and for ICMP.
LEMMA ServiceIs ==
  ASSUME NEW s \in Services, NEW ep
  PROVE  /\ DOMAIN ServiceRules(s, ep) \subseteq Nat
         /\ \A i \in DOMAIN ServiceRules(s, ep) :
              \/ \E q \in DOMAIN SpecOf[s].ports :
                   /\ Serving(ep, SpecOf[s].ports[q]) # {}
                   /\ ServiceRules(s, ep)[i] = PortRule(ep, SpecOf[s].ports[q])
              \/ Staffed(ep) # {} /\ ServiceRules(s, ep)[i] = IcmpRule(ep)
         /\ \A q \in DOMAIN SpecOf[s].ports : Serving(ep, SpecOf[s].ports[q]) # {} =>
              /\ q \in DOMAIN ServiceRules(s, ep)
              /\ ServiceRules(s, ep)[q] = PortRule(ep, SpecOf[s].ports[q])
         /\ Staffed(ep) # {} =>
              \E i \in DOMAIN ServiceRules(s, ep) : ServiceRules(s, ep)[i] = IcmpRule(ep)
  <1> DEFINE ports  == SpecOf[s].ports
             served == {q \in DOMAIN ports : Serving(ep, ports[q]) # {}}
             icmp   == {Len(ports) + k : k \in IF Staffed(ep) = {} THEN {} ELSE {1}}
  <1>1. Len(ports) \in Nat /\ DOMAIN ports = 1..Len(ports)
    <2>1. IsList(ports)
      BY ServicesAssumption
    <2> HIDE DEF ports
    <2> QED
      BY <2>1 DEF IsList
  <1>2. served \subseteq Nat /\ icmp \subseteq Nat
    BY <1>1
  <1>3. Staffed(ep) # {} => Len(ports) + 1 \in icmp /\ Len(ports) + 1 \notin served
    BY <1>1
  <1>4. icmp # {} => Staffed(ep) # {}
    OBVIOUS
  <1>5. ServiceRules(s, ep) = [q \in served \union icmp |->
          IF q \in served THEN PortRule(ep, ports[q]) ELSE IcmpRule(ep)]
    BY DEF ServiceRules
  <1>6. \A q \in served : q \in DOMAIN ports /\ Serving(ep, ports[q]) # {}
    OBVIOUS
  <1> HIDE DEF served, icmp
  <1>7. DOMAIN ServiceRules(s, ep) = served \union icmp
    BY <1>5
  <1>8. \A q \in served : ServiceRules(s, ep)[q] = PortRule(ep, ports[q])
    BY <1>5
  <1>9. \A q \in icmp \ served : ServiceRules(s, ep)[q] = IcmpRule(ep)
    BY <1>5
  <1>10. \A q \in DOMAIN ports : Serving(ep, ports[q]) # {} => q \in served
    BY DEF served
  <1> QED
    BY <1>2, <1>3, <1>4, <1>6, <1>7, <1>8, <1>9, <1>10

-----------------------------------------------------------------------------
(* Shared chains and hooks *)

LEMMA AppliesAlways ==
  ASSUME NEW p, NEW v
  PROVE  Applies(Rule(Always, v), p)
  BY DEF Applies, Rule, Always

LEMMA AppliesOne ==
  ASSUME NEW p, NEW v, NEW t
  PROVE  Applies(Rule(<<t>>, v), p) <=> p[t.field] \in t.in
  BY DEF Applies, Rule

LEMMA AppliesTwo ==
  ASSUME NEW p, NEW v, NEW t, NEW u
  PROVE  Applies(Rule(<<t, u>>, v), p) <=> p[t.field] \in t.in /\ p[u.field] \in u.in
  BY DEF Applies, Rule

LEMMA RuleDo ==
  ASSUME NEW tests, NEW v
  PROVE  Rule(tests, v).do = v
  BY DEF Rule

\* A rule for each of the pod networks, between others.
LEMMA Between ==
  ASSUME NEW X, NEW pre \in Seq(X), NEW nets \in Seq(X), NEW post \in Seq(X)
  PROVE  LET whole == pre \o nets \o post
         IN /\ DOMAIN whole = 1..(Len(pre) + Len(nets) + Len(post))
            /\ \A i \in 1..Len(pre) : whole[i] = pre[i]
            /\ \A i \in 1..Len(nets) : whole[Len(pre) + i] = nets[i]
            /\ \A i \in 1..Len(post) : whole[Len(pre) + Len(nets) + i] = post[i]
  BY SMT

LEMMA NetRules ==
  ASSUME NEW X, NEW nets \in [DOMAIN PodNets -> X]
  PROVE  /\ Len(PodNets) \in Nat /\ DOMAIN PodNets = 1..Len(PodNets)
         /\ nets \in Seq(X) /\ Len(nets) = Len(PodNets)
  <1>1. Len(PodNets) \in Nat /\ DOMAIN PodNets = 1..Len(PodNets)
    BY PodNetsAssumption DEF IsList
  <1>2. nets \in [1..Len(PodNets) -> X]
    BY <1>1
  <1> QED
    BY <1>1, <1>2

LEMMA OutboundIs ==
  LET n == Len(PodNets)
  IN /\ n \in Nat /\ DOMAIN PodNets = 1..n
     /\ DOMAIN OutboundRules = 1..(n + 2)
     /\ OutboundRules[1] = Rule(<<IsIpSrcAddress(NodeIP)>>, Return)
     /\ \A i \in 1..n : OutboundRules[1 + i] = Rule(<<IsIpSrcNetwork(PodNets[i])>>, Return)
     /\ OutboundRules[n + 2] = Rule(Always, Masquerade)
  <1> DEFINE nets == [i \in DOMAIN PodNets |-> Rule(<<IsIpSrcNetwork(PodNets[i])>>, Return)]
             first == Rule(<<IsIpSrcAddress(NodeIP)>>, Return)
             last  == Rule(Always, Masquerade)
             all   == {first, last} \union {nets[i] : i \in DOMAIN PodNets}
             n     == Len(PodNets)
  <1>1. nets \in [DOMAIN PodNets -> all]
    OBVIOUS
  <1>2. OutboundRules = <<first>> \o nets \o <<last>>
    BY DEF OutboundRules
  <1>3. \A i \in DOMAIN PodNets : nets[i] = Rule(<<IsIpSrcNetwork(PodNets[i])>>, Return)
    OBVIOUS
  <1>4. first \in all /\ last \in all
    OBVIOUS
  <1> HIDE DEF nets, first, last, all
  <1>5. n \in Nat /\ DOMAIN PodNets = 1..n /\ nets \in Seq(all) /\ Len(nets) = n
    BY <1>1, NetRules
  <1>6. <<first>> \in Seq(all) /\ <<last>> \in Seq(all)
    BY <1>4
  <1> HIDE DEF n
  <1>7. /\ DOMAIN OutboundRules = 1..(1 + n + 1)
        /\ \A i \in 1..1 : OutboundRules[i] = <<first>>[i]
        /\ \A i \in 1..n : OutboundRules[1 + i] = nets[i]
        /\ \A i \in 1..1 : OutboundRules[1 + n + i] = <<last>>[i]
    <2>1. Len(<<first>>) = 1 /\ Len(<<last>>) = 1
      OBVIOUS
    <2> QED
      BY <1>2, <1>5, <1>6, <2>1, Between
  <1>8. OutboundRules[1] = first /\ OutboundRules[n + 2] = last
    <2>1. OutboundRules[1] = <<first>>[1] /\ OutboundRules[1 + n + 1] = <<last>>[1]
      BY <1>7
    <2>2. 1 + n + 1 = n + 2
      BY <1>5
    <2> QED
      BY <2>1, <2>2
  <1>9. 1..(1 + n + 1) = 1..(n + 2)
    BY <1>5
  <1> QED
    BY <1>3, <1>5, <1>7, <1>8, <1>9 DEF first, last, n

LEMMA PostroutingIs ==
  LET n == Len(PodNets)
  IN /\ n \in Nat /\ DOMAIN PodNets = 1..n
     /\ DOMAIN PostroutingRules = 1..(n + 3)
     /\ PostroutingRules[1] = Rule(Always, JumpToChain("cluster-ip-backing-pods-masq"))
     /\ PostroutingRules[2] = Rule(<<OutIfaceName("lo")>>, Return)
     /\ PostroutingRules[3] = Rule(<<OutIfaceName(VpnIface)>>, GoToChain("cluster-outbound-masq"))
     /\ \A i \in 1..n :
          PostroutingRules[3 + i] = Rule(<<IsIpSrcNetwork(PodNets[i])>>, Masquerade)
  <1> DEFINE nets == [i \in DOMAIN PodNets |-> Rule(<<IsIpSrcNetwork(PodNets[i])>>, Masquerade)]
             jump == Rule(Always, JumpToChain("cluster-ip-backing-pods-masq"))
             back == Rule(<<OutIfaceName("lo")>>, Return)
             goto == Rule(<<OutIfaceName(VpnIface)>>, GoToChain("cluster-outbound-masq"))
             all  == {jump, back, goto} \union {nets[i] : i \in DOMAIN PodNets}
             n    == Len(PodNets)
  <1>1. nets \in [DOMAIN PodNets -> all]
    OBVIOUS
  <1>2. PostroutingRules = <<jump, back, goto>> \o nets
    BY DEF PostroutingRules
  <1>3. \A i \in DOMAIN PodNets : nets[i] = Rule(<<IsIpSrcNetwork(PodNets[i])>>, Masquerade)
    OBVIOUS
  <1>4. jump \in all /\ back \in all /\ goto \in all
    OBVIOUS
  <1> HIDE DEF nets, jump, back, goto, all
  <1>5. n \in Nat /\ DOMAIN PodNets = 1..n /\ nets \in Seq(all) /\ Len(nets) = n
    BY <1>1, NetRules
  <1>6. <<jump, back, goto>> \in Seq(all)
    BY <1>4
  <1> HIDE DEF n
  <1>7. /\ DOMAIN PostroutingRules = 1..(3 + n)
        /\ \A i \in 1..3 : PostroutingRules[i] = <<jump, back, goto>>[i]
        /\ \A i \in 1..n : PostroutingRules[3 + i] = nets[i]
    <2>1. Len(<<jump, back, goto>>) = 3
      OBVIOUS
    <2> DEFINE pre == <<jump, back, goto>>
    <2> HIDE DEF pre
    <2>2. /\ DOMAIN (pre \o nets) = 1..(3 + n)
          /\ \A i \in 1..3 : (pre \o nets)[i] = pre[i]
          /\ \A i \in 1..n : (pre \o nets)[3 + i] = nets[i]
      BY <1>5, <1>6, <2>1 DEF pre
    <2> QED
      BY <1>2, <2>2 DEF pre
  <1>8. PostroutingRules[1] = jump /\ PostroutingRules[2] = back /\ PostroutingRules[3] = goto
    BY <1>7
  <1>9. 1..(3 + n) = 1..(n + 3)
    BY <1>5
  <1> QED
    BY <1>3, <1>5, <1>7, <1>8, <1>9 DEF jump, back, goto, n

\* The verdicts of these rules.
LEMMA OutboundDo ==
  LET n == Len(PodNets)
  IN /\ OutboundRules[1].do = Return /\ OutboundRules[n + 2].do = Masquerade
     /\ \A i \in 1..n : OutboundRules[1 + i].do = Return
  <1> DEFINE n == Len(PodNets)
  <1>1. /\ OutboundRules[1] = Rule(<<IsIpSrcAddress(NodeIP)>>, Return)
        /\ OutboundRules[n + 2] = Rule(Always, Masquerade)
        /\ \A i \in 1..n : OutboundRules[1 + i] = Rule(<<IsIpSrcNetwork(PodNets[i])>>, Return)
    BY OutboundIs
  <1> HIDE DEF n
  <1>2. OutboundRules[1].do = Return /\ OutboundRules[n + 2].do = Masquerade
    BY <1>1, RuleDo
  <1>3. ASSUME NEW i \in 1..n PROVE OutboundRules[1 + i].do = Return
    <2>1. OutboundRules[1 + i] = Rule(<<IsIpSrcNetwork(PodNets[i])>>, Return)
      BY <1>1, <1>3
    <2> QED
      BY <2>1, RuleDo
  <1> QED
    BY <1>2, <1>3 DEF n

LEMMA PostroutingDo ==
  LET n == Len(PodNets)
  IN /\ PostroutingRules[1].do = JumpToChain("cluster-ip-backing-pods-masq")
     /\ PostroutingRules[2].do = Return
     /\ PostroutingRules[3].do = GoToChain("cluster-outbound-masq")
     /\ \A i \in 1..n : PostroutingRules[3 + i].do = Masquerade
  <1> DEFINE n == Len(PodNets)
  <1>1. /\ PostroutingRules[1] = Rule(Always, JumpToChain("cluster-ip-backing-pods-masq"))
        /\ PostroutingRules[2] = Rule(<<OutIfaceName("lo")>>, Return)
        /\ PostroutingRules[3] =
             Rule(<<OutIfaceName(VpnIface)>>, GoToChain("cluster-outbound-masq"))
        /\ \A i \in 1..n :
             PostroutingRules[3 + i] = Rule(<<IsIpSrcNetwork(PodNets[i])>>, Masquerade)
    BY PostroutingIs
  <1> HIDE DEF n
  <1>2. /\ PostroutingRules[1].do = JumpToChain("cluster-ip-backing-pods-masq")
        /\ PostroutingRules[2].do = Return
        /\ PostroutingRules[3].do = GoToChain("cluster-outbound-masq")
    BY <1>1, RuleDo
  <1>3. ASSUME NEW i \in 1..n PROVE PostroutingRules[3 + i].do = Masquerade
    <2>1. PostroutingRules[3 + i] = Rule(<<IsIpSrcNetwork(PodNets[i])>>, Masquerade)
      BY <1>1, <1>3
    <2> QED
      BY <2>1, RuleDo
  <1> QED
    BY <1>2, <1>3 DEF n

LEMMA HookChains ==
  /\ DOMAIN BaseChains = {"hook-filter-forward", "hook-filter-local-out", "hook-nat-fwd-in",
                          "hook-nat-local-out", "hook-nat-postrouting"}
  /\ StartedAt("filter", "forward") = "hook-filter-forward"
  /\ StartedAt("filter", "output") = "hook-filter-local-out"
  /\ StartedAt("nat", "prerouting") = "hook-nat-fwd-in"
  /\ StartedAt("nat", "output") = "hook-nat-local-out"
  /\ StartedAt("nat", "postrouting") = "hook-nat-postrouting"
  <1>1. /\ DOMAIN BaseChains = {"hook-filter-forward", "hook-filter-local-out",
                                "hook-nat-fwd-in", "hook-nat-local-out",
                                "hook-nat-postrouting"}
        /\ BaseChains["hook-filter-forward"] = <<"filter", "forward">>
        /\ BaseChains["hook-filter-local-out"] = <<"filter", "output">>
        /\ BaseChains["hook-nat-fwd-in"] = <<"nat", "prerouting">>
        /\ BaseChains["hook-nat-local-out"] = <<"nat", "output">>
        /\ BaseChains["hook-nat-postrouting"] = <<"nat", "postrouting">>
    BY DEF BaseChains
  <1>2. /\ <<"filter", "forward">> # <<"filter", "output">>
        /\ \A a, b : <<"filter", a>> # <<"nat", b>>
        /\ <<"nat", "prerouting">> # <<"nat", "output">>
        /\ <<"nat", "prerouting">> # <<"nat", "postrouting">>
        /\ <<"nat", "output">> # <<"nat", "postrouting">>
    OBVIOUS
  <1>3. /\ StartedAt("filter", "forward") = "hook-filter-forward"
        /\ StartedAt("filter", "output") = "hook-filter-local-out"
        /\ StartedAt("nat", "prerouting") = "hook-nat-fwd-in"
        /\ StartedAt("nat", "output") = "hook-nat-local-out"
        /\ StartedAt("nat", "postrouting") = "hook-nat-postrouting"
    BY <1>1, <1>2 DEF StartedAt
  <1> QED
    BY <1>1, <1>3

LEMMA TableIs ==
  ASSUME NEW E, NEW S
  PROVE  LET table == BuildConfig(E, S)
         IN /\ DOMAIN table = Chained(E, S) \union SharedChains
            /\ \A s \in Chained(E, S) : s \in Services => table[s] = ServiceRules(s, E[s])
            /\ table["cluster-ips-dnat"] = DispatchRules(S)
            /\ table["cluster-ips-filter"] = FilterRules(S)
            /\ table["cluster-ip-backing-pods-masq"] = BackingPodRules(E, S)
            /\ table["cluster-outbound-masq"] = OutboundRules
            /\ table["hook-nat-postrouting"] = PostroutingRules
            /\ \A c \in {"hook-filter-forward", "hook-filter-local-out"} :
                 table[c] = <<Rule(Always, JumpToChain("cluster-ips-filter"))>>
            /\ \A c \in {"hook-nat-fwd-in", "hook-nat-local-out"} :
                 table[c] = <<Rule(Always, JumpToChain("cluster-ips-dnat"))>>
  <1> DEFINE table == BuildConfig(E, S)
             chains == Chained(E, S) \union SharedChains
             chain(c) == CASE c \in Services -> ServiceRules(c, E[c])
                           [] c = "cluster-ips-dnat" -> DispatchRules(S)
                           [] c = "cluster-ips-filter" -> FilterRules(S)
                           [] c = "cluster-ip-backing-pods-masq" -> BackingPodRules(E, S)
                           [] c = "cluster-outbound-masq" -> OutboundRules
                           [] c \in DOMAIN BaseChains -> HookRules(c)
  <1>1. table = [c \in chains |-> chain(c)]
    BY DEF BuildConfig
  <1>2. \A c \in SharedChains : c \in chains /\ c \notin Services
    BY ServicesAssumption
  <1>3. \A c \in chains : table[c] = chain(c)
    BY <1>1
  <1>4. DOMAIN table = chains
    BY <1>1
  <1>5. \A s \in Chained(E, S) : s \in Services => chain(s) = ServiceRules(s, E[s])
    <2>1. \A c \in SharedChains : c \notin Services
      BY <1>2
    <2>2. \A s \in Services : s \notin SharedChains
      BY <1>2
    <2> SUFFICES ASSUME NEW s \in Services PROVE chain(s) = ServiceRules(s, E[s])
      OBVIOUS
    <2>3. s \notin {"cluster-ips-dnat", "cluster-ips-filter", "cluster-ip-backing-pods-masq",
                    "cluster-outbound-masq"} /\ s \notin DOMAIN BaseChains
      BY <2>2 DEF SharedChains
    <2> QED
      BY <2>3
  <1>6. \A s \in Chained(E, S) : s \in Services => table[s] = ServiceRules(s, E[s])
    <2> HIDE DEF table, chain
    <2> QED
      BY <1>3, <1>5
  <1>7. DOMAIN BaseChains = {"hook-filter-forward", "hook-filter-local-out",
                             "hook-nat-fwd-in", "hook-nat-local-out", "hook-nat-postrouting"}
    BY HookChains
  <1>8. /\ chain("cluster-ips-dnat") = DispatchRules(S)
        /\ chain("cluster-ips-filter") = FilterRules(S)
        /\ chain("cluster-ip-backing-pods-masq") = BackingPodRules(E, S)
        /\ chain("cluster-outbound-masq") = OutboundRules
    BY <1>2, <1>7 DEF SharedChains
  <1>9. \A c \in DOMAIN BaseChains : chain(c) = HookRules(c)
    BY <1>2, <1>7 DEF SharedChains
  <1>10. /\ HookRules("hook-nat-postrouting") = PostroutingRules
         /\ \A c \in {"hook-filter-forward", "hook-filter-local-out"} :
              HookRules(c) = <<Rule(Always, JumpToChain("cluster-ips-filter"))>>
         /\ \A c \in {"hook-nat-fwd-in", "hook-nat-local-out"} :
              HookRules(c) = <<Rule(Always, JumpToChain("cluster-ips-dnat"))>>
    <2>1. /\ BaseChains["hook-filter-forward"][1] = "filter"
          /\ BaseChains["hook-filter-local-out"][1] = "filter"
          /\ BaseChains["hook-nat-fwd-in"][1] = "nat"
          /\ BaseChains["hook-nat-local-out"][1] = "nat"
          /\ BaseChains["hook-nat-postrouting"][1] = "nat"
      BY DEF BaseChains
    <2> QED
      BY <2>1 DEF HookRules
  <1>11. {"cluster-ips-dnat", "cluster-ips-filter", "cluster-ip-backing-pods-masq",
          "cluster-outbound-masq"} \subseteq chains /\ DOMAIN BaseChains \subseteq chains
    BY DEF SharedChains
  <1> HIDE DEF table, chain, chains
  <1>12. /\ table["cluster-ips-dnat"] = DispatchRules(S)
         /\ table["cluster-ips-filter"] = FilterRules(S)
         /\ table["cluster-ip-backing-pods-masq"] = BackingPodRules(E, S)
         /\ table["cluster-outbound-masq"] = OutboundRules
    BY <1>3, <1>8, <1>11
  <1>13. \A c \in DOMAIN BaseChains : table[c] = HookRules(c)
    BY <1>3, <1>9, <1>11
  <1> QED
    BY <1>4, <1>6, <1>7, <1>10, <1>12, <1>13 DEF table, chains

-----------------------------------------------------------------------------
(* What the table comes to *)

\* The kernel takes a table only if every ClusterIP it has rules for has Endpoints.
LEMMA AllChained ==
  ASSUME NEW E \in Endpoints, NEW S \in SUBSET Services, Accepted(BuildConfig(E, S)),
         NEW s \in S, HasClusterIP(s)
  PROVE  s \in Chained(E, S)
  <1> DEFINE table == BuildConfig(E, S)
  <1>1. /\ DOMAIN table = Chained(E, S) \union SharedChains
        /\ table["cluster-ips-dnat"] = DispatchRules(S)
    BY TableIs
  <1>2. PICK i \in DOMAIN DispatchRules(S) :
          DispatchRules(S)[i] = Rule(<<IsIpDestAddress(SpecOf[s].ip)>>, GoToChain(s))
    BY DispatchIs
  <1>3. "cluster-ips-dnat" \in DOMAIN table
    BY <1>1 DEF SharedChains
  <1> HIDE DEF table
  <1>4. \A j \in DOMAIN DispatchRules(S) :
          DispatchRules(S)[j].do.kind \in {"jump", "goto"} =>
            DispatchRules(S)[j].do.chain \in DOMAIN table
    BY <1>1, <1>3 DEF Accepted, table
  <1>5. DispatchRules(S)[i].do = GoToChain(s)
    BY <1>2, RuleDo
  <1>6. s \in DOMAIN table
    BY <1>4, <1>5 DEF GoToChain
  <1> QED
    BY <1>1, <1>6, ServicesAssumption

LEMMA CallsNone ==
  ASSUME NEW E \in Endpoints, NEW S \in SUBSET Services,
         NEW c \in Chained(E, S) \union {"cluster-ips-filter", "cluster-ip-backing-pods-masq",
                                         "cluster-outbound-masq"}
  PROVE  LET table == BuildConfig(E, S)
         IN /\ DOMAIN table[c] \subseteq Nat
            /\ \A i \in DOMAIN table[c] : table[c][i].do.kind \notin {"jump", "goto"}
  <1> DEFINE table == BuildConfig(E, S)
  <1> SUFFICES /\ DOMAIN table[c] \subseteq Nat
               /\ \A i \in DOMAIN table[c] : table[c][i].do.kind \notin {"jump", "goto"}
    OBVIOUS
  <1>1. /\ \A s \in Chained(E, S) : s \in Services => table[s] = ServiceRules(s, E[s])
        /\ table["cluster-ips-filter"] = FilterRules(S)
        /\ table["cluster-ip-backing-pods-masq"] = BackingPodRules(E, S)
        /\ table["cluster-outbound-masq"] = OutboundRules
    BY TableIs
  <1> HIDE DEF table
  <1>2. CASE c \in Chained(E, S)
    <2>1. c \in Services
      BY <1>2 DEF Chained
    <2>2. table[c] = ServiceRules(c, E[c])
      BY <1>1, <1>2, <2>1
    <2>3. /\ DOMAIN ServiceRules(c, E[c]) \subseteq Nat
          /\ \A i \in DOMAIN ServiceRules(c, E[c]) :
               \/ \E q \in DOMAIN SpecOf[c].ports :
                    ServiceRules(c, E[c])[i] = PortRule(E[c], SpecOf[c].ports[q])
               \/ ServiceRules(c, E[c])[i] = IcmpRule(E[c])
      BY <2>1, ServiceIs
    <2>4. \A port : PortRule(E[c], port).do.kind = "dnat"
      BY RuleDo DEF PortRule, Target, TranslateIPv4Destination
    <2>5. IcmpRule(E[c]).do.kind = "dnat"
      BY RuleDo DEF IcmpRule, TranslateIPv4Address
    <2> QED
      BY <2>2, <2>3, <2>4, <2>5
  <1>3. CASE c = "cluster-ips-filter"
    <2>1. ASSUME NEW i \in DOMAIN FilterRules(S) PROVE FilterRules(S)[i].do = Reject
      <3>1. PICK s \in S :
              FilterRules(S)[i] = Rule(<<IsIpDestAddress(SpecOf[s].ip)>>, Reject)
        BY FilterIs
      <3> QED
        BY <3>1, RuleDo
    <2> QED
      BY <1>1, <1>3, <2>1, FilterIs DEF Reject
  <1>4. CASE c = "cluster-ip-backing-pods-masq"
    <2>1. ASSUME NEW i \in DOMAIN BackingPodRules(E, S)
          PROVE  BackingPodRules(E, S)[i].do = Masquerade
      <3>1. PICK ip : BackingPodRules(E, S)[i] =
                        Rule(<<IsIpSrcAddress(ip), IsIpDestAddress(ip)>>, Masquerade)
        BY BackingPodsAre
      <3> QED
        BY <3>1, RuleDo
    <2> QED
      BY <1>1, <1>4, <2>1, BackingPodsAre DEF Masquerade
  <1>5. CASE c = "cluster-outbound-masq"
    <2> DEFINE n == Len(PodNets)
    <2>1. /\ n \in Nat /\ DOMAIN OutboundRules = 1..(n + 2)
          /\ OutboundRules[1].do = Return /\ OutboundRules[n + 2].do = Masquerade
          /\ \A i \in 1..n : OutboundRules[1 + i].do = Return
      BY OutboundIs, OutboundDo
    <2> HIDE DEF n
    <2>2. ASSUME NEW i \in 1..(n + 2)
          PROVE  OutboundRules[i].do = Return \/ OutboundRules[i].do = Masquerade
      <3>1. i = 1 \/ i = n + 2 \/ (i - 1 \in 1..n /\ i = 1 + (i - 1))
        BY <2>1, <2>2
      <3> QED
        BY <2>1, <3>1
    <2> QED
      BY <1>1, <1>5, <2>1, <2>2 DEF Return, Masquerade
  <1> QED
    BY <1>2, <1>3, <1>4, <1>5

LEMMA DispatchCalls ==
  ASSUME NEW E \in Endpoints, NEW S \in SUBSET Services, Accepted(BuildConfig(E, S))
  PROVE  /\ DOMAIN DispatchRules(S) \subseteq Nat
         /\ \A i \in DOMAIN DispatchRules(S) :
              DispatchRules(S)[i].do.kind \in {"jump", "goto"} =>
                DispatchRules(S)[i].do.chain \in Chained(E, S)
  <1> SUFFICES ASSUME NEW i \in DOMAIN DispatchRules(S)
               PROVE  DispatchRules(S)[i].do.chain \in Chained(E, S)
    BY DispatchIs
  <1>1. PICK s \in S : HasClusterIP(s) /\
          DispatchRules(S)[i] = Rule(<<IsIpDestAddress(SpecOf[s].ip)>>, GoToChain(s))
    BY DispatchIs
  <1>2. DispatchRules(S)[i].do.chain = s
    BY <1>1, RuleDo DEF GoToChain
  <1> QED
    BY <1>1, <1>2, AllChained

LEMMA HookCalls ==
  ASSUME NEW E, NEW S, NEW c \in DOMAIN BaseChains
  PROVE  LET table == BuildConfig(E, S)
         IN /\ DOMAIN table[c] \subseteq Nat
            /\ \A i \in DOMAIN table[c] : table[c][i].do.kind \in {"jump", "goto"} =>
                 table[c][i].do.chain \in {"cluster-ips-dnat", "cluster-ips-filter",
                   "cluster-ip-backing-pods-masq", "cluster-outbound-masq"}
  <1> DEFINE table == BuildConfig(E, S)
  <1> SUFFICES /\ DOMAIN table[c] \subseteq Nat
               /\ \A i \in DOMAIN table[c] : table[c][i].do.kind \in {"jump", "goto"} =>
                    table[c][i].do.chain \in {"cluster-ips-dnat", "cluster-ips-filter",
                      "cluster-ip-backing-pods-masq", "cluster-outbound-masq"}
    OBVIOUS
  <1>1. /\ table["hook-nat-postrouting"] = PostroutingRules
        /\ \A h \in {"hook-filter-forward", "hook-filter-local-out"} :
             table[h] = <<Rule(Always, JumpToChain("cluster-ips-filter"))>>
        /\ \A h \in {"hook-nat-fwd-in", "hook-nat-local-out"} :
             table[h] = <<Rule(Always, JumpToChain("cluster-ips-dnat"))>>
    BY TableIs
  <1> HIDE DEF table
  <1>2. CASE c \in {"hook-filter-forward", "hook-filter-local-out"}
    <2>1. table[c] = <<Rule(Always, JumpToChain("cluster-ips-filter"))>>
      BY <1>1, <1>2
    <2> QED
      BY <2>1, RuleDo DEF JumpToChain
  <1>3. CASE c \in {"hook-nat-fwd-in", "hook-nat-local-out"}
    <2>1. table[c] = <<Rule(Always, JumpToChain("cluster-ips-dnat"))>>
      BY <1>1, <1>3
    <2> QED
      BY <2>1, RuleDo DEF JumpToChain
  <1>4. CASE c = "hook-nat-postrouting"
    <2> DEFINE n == Len(PodNets)
    <2>1. /\ n \in Nat /\ DOMAIN PostroutingRules = 1..(n + 3)
          /\ PostroutingRules[1].do = JumpToChain("cluster-ip-backing-pods-masq")
          /\ PostroutingRules[2].do = Return
          /\ PostroutingRules[3].do = GoToChain("cluster-outbound-masq")
          /\ \A i \in 1..n : PostroutingRules[3 + i].do = Masquerade
      BY PostroutingIs, PostroutingDo
    <2> HIDE DEF n
    <2>2. ASSUME NEW i \in 1..(n + 3)
          PROVE  \/ PostroutingRules[i].do = JumpToChain("cluster-ip-backing-pods-masq")
                 \/ PostroutingRules[i].do = Return
                 \/ PostroutingRules[i].do = GoToChain("cluster-outbound-masq")
                 \/ PostroutingRules[i].do = Masquerade
      <3>1. i = 1 \/ i = 2 \/ i = 3 \/ (i - 3 \in 1..n /\ i = 3 + (i - 3))
        BY <2>1, <2>2
      <3> QED
        BY <2>1, <3>1
    <2> QED
      BY <1>1, <1>4, <2>1, <2>2 DEF JumpToChain, GoToChain, Return, Masquerade
  <1> QED
    BY <1>2, <1>3, <1>4, HookChains

\* Three rounds are the whole walk: once more through any chain of a table the kernel
\* accepts makes no difference, for no chain calls another through more than one chain
\* between them.
THEOREM VerdictIsWhole ==
  ASSUME NEW E \in Endpoints, NEW S \in SUBSET Services, NEW p,
         Accepted(BuildConfig(E, S)), NEW c \in DOMAIN BuildConfig(E, S)
  PROVE  LET table == BuildConfig(E, S)
         IN Verdict(table, p)[c] = Walk(table[c], p, Verdict(table, p))
  <1> DEFINE table == BuildConfig(E, S)
             called0 == [d \in DOMAIN table |-> Undecided]
             called1 == WalkAll(table, p, called0)
             called2 == WalkAll(table, p, called1)
             called3 == WalkAll(table, p, called2)
             leaves == Chained(E, S) \union {"cluster-ips-filter",
                         "cluster-ip-backing-pods-masq", "cluster-outbound-masq"}
  <1>1. Verdict(table, p) = called3
    BY DEF Verdict
  <1>2. /\ \A d \in DOMAIN table : called1[d] = Walk(table[d], p, called0)
        /\ \A d \in DOMAIN table : called2[d] = Walk(table[d], p, called1)
        /\ \A d \in DOMAIN table : called3[d] = Walk(table[d], p, called2)
    BY DEF WalkAll
  <1>3. /\ DOMAIN table = leaves \union {"cluster-ips-dnat"} \union DOMAIN BaseChains
        /\ table["cluster-ips-dnat"] = DispatchRules(S)
    <2>1. /\ DOMAIN table = Chained(E, S) \union SharedChains
          /\ table["cluster-ips-dnat"] = DispatchRules(S)
      BY TableIs
    <2>2. SharedChains = {"cluster-ips-dnat", "cluster-ips-filter",
            "cluster-ip-backing-pods-masq", "cluster-outbound-masq"} \union DOMAIN BaseChains
      BY DEF SharedChains
    <2> HIDE DEF table
    <2> QED
      BY <2>1, <2>2
  <1>4. \A d \in leaves : /\ DOMAIN table[d] \subseteq Nat
                          /\ \A i \in DOMAIN table[d] : table[d][i].do.kind \notin {"jump", "goto"}
    BY CallsNone
  <1>5. /\ DOMAIN DispatchRules(S) \subseteq Nat
        /\ \A i \in DOMAIN DispatchRules(S) :
             DispatchRules(S)[i].do.kind \in {"jump", "goto"} =>
               DispatchRules(S)[i].do.chain \in leaves
    BY DispatchCalls
  <1>6. \A d \in DOMAIN BaseChains :
          /\ DOMAIN table[d] \subseteq Nat
          /\ \A i \in DOMAIN table[d] : table[d][i].do.kind \in {"jump", "goto"} =>
               table[d][i].do.chain \in leaves \union {"cluster-ips-dnat"}
    BY HookCalls
  <1> SUFFICES called3[c] = Walk(table[c], p, called3)
    BY <1>1
  <1>7. c \in DOMAIN table
    OBVIOUS
  <1> HIDE DEF table, called0, called1, called2, called3, leaves
  <1>8. ASSUME NEW d \in leaves, NEW this, NEW that
        PROVE  Walk(table[d], p, this) = Walk(table[d], p, that)
    <2>1. /\ DOMAIN table[d] \subseteq Nat
          /\ \A i \in DOMAIN table[d] : table[d][i].do.kind \notin {"jump", "goto"}
      BY <1>4
    <2> QED
      BY <2>1, WalkCalls
  <1>9. \A d \in leaves : called1[d] = called2[d] /\ called2[d] = called3[d]
    BY <1>2, <1>3, <1>8
  <1>10. called2["cluster-ips-dnat"] = called3["cluster-ips-dnat"]
    <2>1. Walk(DispatchRules(S), p, called1) = Walk(DispatchRules(S), p, called2)
      BY <1>5, <1>9, WalkCalls
    <2> QED
      BY <1>2, <1>3, <2>1
  <1>11. \A d \in leaves \union {"cluster-ips-dnat"} : called2[d] = called3[d]
    BY <1>9, <1>10
  <1>12. CASE c \in leaves
    BY <1>2, <1>7, <1>8, <1>12
  <1>13. CASE c = "cluster-ips-dnat"
    <2>1. Walk(DispatchRules(S), p, called2) = Walk(DispatchRules(S), p, called3)
      BY <1>5, <1>11, WalkCalls
    <2> QED
      BY <1>2, <1>3, <1>7, <1>13, <2>1
  <1>14. CASE c \in DOMAIN BaseChains
    <2>1. Walk(table[c], p, called2) = Walk(table[c], p, called3)
      BY <1>6, <1>11, <1>14, WalkCalls
    <2> QED
      BY <1>2, <1>7, <2>1
  <1> QED
    BY <1>3, <1>7, <1>12, <1>13, <1>14

Walked(E, S, p) == Verdict(BuildConfig(E, S), p)

LEMMA Chains ==
  ASSUME NEW E \in Endpoints, NEW S \in SUBSET Services, NEW p, Accepted(BuildConfig(E, S))
  PROVE  LET V == Walked(E, S, p)
         IN /\ \A s \in Chained(E, S) : V[s] = Walk(ServiceRules(s, E[s]), p, V)
            /\ V["cluster-ips-dnat"] = Walk(DispatchRules(S), p, V)
            /\ V["cluster-ips-filter"] = Walk(FilterRules(S), p, V)
            /\ V["cluster-ip-backing-pods-masq"] = Walk(BackingPodRules(E, S), p, V)
            /\ V["cluster-outbound-masq"] = Walk(OutboundRules, p, V)
            /\ V["hook-nat-postrouting"] = Walk(PostroutingRules, p, V)
            /\ \A c \in {"hook-filter-forward", "hook-filter-local-out"} :
                 V[c] = Walk(<<Rule(Always, JumpToChain("cluster-ips-filter"))>>, p, V)
            /\ \A c \in {"hook-nat-fwd-in", "hook-nat-local-out"} :
                 V[c] = Walk(<<Rule(Always, JumpToChain("cluster-ips-dnat"))>>, p, V)
  <1> DEFINE table == BuildConfig(E, S)
             V == Walked(E, S, p)
  <1>1. \A c \in DOMAIN table : V[c] = Walk(table[c], p, V)
    BY VerdictIsWhole DEF Walked
  <1>2. /\ DOMAIN table = Chained(E, S) \union SharedChains
        /\ \A s \in Chained(E, S) : s \in Services => table[s] = ServiceRules(s, E[s])
        /\ table["cluster-ips-dnat"] = DispatchRules(S)
        /\ table["cluster-ips-filter"] = FilterRules(S)
        /\ table["cluster-ip-backing-pods-masq"] = BackingPodRules(E, S)
        /\ table["cluster-outbound-masq"] = OutboundRules
        /\ table["hook-nat-postrouting"] = PostroutingRules
        /\ \A c \in {"hook-filter-forward", "hook-filter-local-out"} :
             table[c] = <<Rule(Always, JumpToChain("cluster-ips-filter"))>>
        /\ \A c \in {"hook-nat-fwd-in", "hook-nat-local-out"} :
             table[c] = <<Rule(Always, JumpToChain("cluster-ips-dnat"))>>
    BY TableIs
  <1>3. \A s \in Chained(E, S) : s \in Services
    BY DEF Chained
  <1>4. /\ {"cluster-ips-dnat", "cluster-ips-filter", "cluster-ip-backing-pods-masq",
            "cluster-outbound-masq"} \subseteq DOMAIN table
        /\ {"hook-filter-forward", "hook-filter-local-out", "hook-nat-fwd-in",
            "hook-nat-local-out", "hook-nat-postrouting"} \subseteq DOMAIN table
    <2> HIDE DEF table
    <2> QED
      BY <1>2, HookChains DEF SharedChains
  <1> HIDE DEF table, V
  <1>5. /\ V["cluster-ips-dnat"] = Walk(DispatchRules(S), p, V)
        /\ V["cluster-ips-filter"] = Walk(FilterRules(S), p, V)
        /\ V["cluster-ip-backing-pods-masq"] = Walk(BackingPodRules(E, S), p, V)
        /\ V["cluster-outbound-masq"] = Walk(OutboundRules, p, V)
    BY <1>1, <1>2, <1>4
  <1>6. V["hook-nat-postrouting"] = Walk(PostroutingRules, p, V)
    BY <1>1, <1>2, <1>4
  <1>7. \A c \in {"hook-filter-forward", "hook-filter-local-out"} :
          V[c] = Walk(<<Rule(Always, JumpToChain("cluster-ips-filter"))>>, p, V)
    BY <1>1, <1>2, <1>4
  <1>8. \A c \in {"hook-nat-fwd-in", "hook-nat-local-out"} :
          V[c] = Walk(<<Rule(Always, JumpToChain("cluster-ips-dnat"))>>, p, V)
    BY <1>1, <1>2, <1>4
  <1>9. \A s \in Chained(E, S) : V[s] = Walk(ServiceRules(s, E[s]), p, V)
    BY <1>1, <1>2, <1>3
  <1> QED
    BY <1>5, <1>6, <1>7, <1>8, <1>9 DEF V

\* A hook with a jump comes to what the chain comes to.
LEMMA WalkJump ==
  ASSUME NEW c, NEW p, NEW called
  PROVE  Walk(<<Rule(Always, JumpToChain(c))>>, p, called) = called[c]
  <1> DEFINE chain == <<Rule(Always, JumpToChain(c))>>
  <1>1. /\ DOMAIN chain = {1} /\ chain[1].do = JumpToChain(c)
        /\ Applies(chain[1], p)
    BY RuleDo, AppliesAlways
  <1>2. JumpToChain(c).kind = "jump" /\ JumpToChain(c).chain = c
    BY DEF JumpToChain
  <1> HIDE DEF chain
  <1>3. CASE called[c] = Undecided
    <2>1. \A i \in DOMAIN chain : ~Decides(chain[i], p, called)
      BY <1>1, <1>2, <1>3 DEF Decides
    <2> QED
      BY <1>3, <2>1, WalkUndecided DEF chain
  <1>4. CASE called[c] # Undecided
    <2>1. 1 \in DOMAIN chain /\ Decides(chain[1], p, called)
      BY <1>1, <1>2, <1>4 DEF Decides
    <2>2. Walk(chain, p, called) = Outcome(chain[1].do, called)
      BY <1>1, <2>1, WalkFirst
    <2> QED
      BY <1>1, <1>2, <2>2 DEF Outcome, chain
  <1> QED
    BY <1>3, <1>4

\* The filter hooks reject what is for a ClusterIP, and nothing else.
LEMMA FilterVerdict ==
  ASSUME NEW E \in Endpoints, NEW S \in SUBSET Services, NEW p, Accepted(BuildConfig(E, S)),
         NEW h \in {"hook-filter-forward", "hook-filter-local-out"}
  PROVE  LET V == Walked(E, S, p)
         IN /\ (\E s \in S : HasClusterIP(s) /\ SpecOf[s].ip = p.daddr) => V[h] = Reject
            /\ (\A s \in S : HasClusterIP(s) => SpecOf[s].ip # p.daddr) => V[h] # Reject
  <1> DEFINE V == Walked(E, S, p)
             chain == FilterRules(S)
  <1>1. V[h] = Walk(chain, p, V)
    BY Chains, WalkJump
  <1>2. ASSUME NEW i \in DOMAIN chain
        PROVE  /\ chain[i].do = Reject
               /\ \E s \in S : HasClusterIP(s) /\ (Applies(chain[i], p) <=> p.daddr = SpecOf[s].ip)
    <2>1. PICK s \in S :
            HasClusterIP(s) /\ chain[i] = Rule(<<IsIpDestAddress(SpecOf[s].ip)>>, Reject)
      BY FilterIs
    <2>2. Applies(chain[i], p) <=> p.daddr = SpecOf[s].ip
      BY <2>1, AppliesOne DEF IsIpDestAddress
    <2> QED
      BY <2>1, <2>2, RuleDo
  <1>3. DOMAIN chain \subseteq Nat
    BY FilterIs
  <1>4. ASSUME NEW s \in S, HasClusterIP(s), SpecOf[s].ip = p.daddr
        PROVE  \E i \in DOMAIN chain : Applies(chain[i], p)
    <2>1. PICK i \in DOMAIN chain : chain[i] = Rule(<<IsIpDestAddress(SpecOf[s].ip)>>, Reject)
      BY <1>4, FilterIs
    <2> QED
      BY <1>4, <2>1, AppliesOne DEF IsIpDestAddress
  <1> HIDE DEF V, chain
  <1>5. Reject.kind = "reject" /\ Reject # Undecided /\ Outcome(Reject, V) = Reject
    BY DEF Reject, Undecided, Outcome
  <1>6. \A i \in DOMAIN chain : Decides(chain[i], p, V) <=> Applies(chain[i], p)
    BY <1>2, <1>5 DEF Decides
  <1>7. CASE \E s \in S : HasClusterIP(s) /\ SpecOf[s].ip = p.daddr
    <2>1. PICK i \in DOMAIN chain : Decides(chain[i], p, V)
      BY <1>4, <1>6, <1>7
    <2>2. Walk(chain, p, V) = Reject
      BY <1>2, <1>3, <1>5, <2>1, WalkDecided
    <2> QED
      BY <1>1, <1>7, <2>2 DEF V
  <1>8. CASE \A s \in S : HasClusterIP(s) => SpecOf[s].ip # p.daddr
    <2>1. \A i \in DOMAIN chain : ~Decides(chain[i], p, V)
      BY <1>2, <1>6, <1>8
    <2> QED
      BY <1>1, <1>5, <1>8, <2>1, WalkUndecided DEF V
  <1> QED
    BY <1>7, <1>8 DEF V

\* The destination NAT hooks come to what the chain of the service comes to.
LEMMA DispatchVerdict ==
  ASSUME NEW E \in Endpoints, NEW S \in SUBSET Services, NEW p, Accepted(BuildConfig(E, S)),
         NEW h \in {"hook-nat-fwd-in", "hook-nat-local-out"}
  PROVE  LET V == Walked(E, S, p)
         IN /\ \A s \in S : HasClusterIP(s) /\ SpecOf[s].ip = p.daddr => V[h] = V[s]
            /\ (\A s \in S : HasClusterIP(s) => SpecOf[s].ip # p.daddr) => V[h] = Undecided
  <1> DEFINE V == Walked(E, S, p)
             chain == DispatchRules(S)
  <1>1. V[h] = Walk(chain, p, V)
    BY Chains, WalkJump
  <1>2. ASSUME NEW i \in DOMAIN chain
        PROVE  \E s \in S : /\ HasClusterIP(s)
                            /\ chain[i].do = GoToChain(s)
                            /\ Applies(chain[i], p) <=> p.daddr = SpecOf[s].ip
    <2>1. PICK s \in S :
            HasClusterIP(s) /\ chain[i] = Rule(<<IsIpDestAddress(SpecOf[s].ip)>>, GoToChain(s))
      BY DispatchIs
    <2>2. Applies(chain[i], p) <=> p.daddr = SpecOf[s].ip
      BY <2>1, AppliesOne DEF IsIpDestAddress
    <2> QED
      BY <2>1, <2>2, RuleDo
  <1>3. DOMAIN chain \subseteq Nat
    BY DispatchIs
  <1>4. ASSUME NEW s \in S, HasClusterIP(s), SpecOf[s].ip = p.daddr
        PROVE  \E i \in DOMAIN chain : Applies(chain[i], p)
    <2>1. PICK i \in DOMAIN chain :
            chain[i] = Rule(<<IsIpDestAddress(SpecOf[s].ip)>>, GoToChain(s))
      BY <1>4, DispatchIs
    <2> QED
      BY <1>4, <2>1, AppliesOne DEF IsIpDestAddress
  <1> HIDE DEF V, chain
  <1>5. \A s : GoToChain(s).kind = "goto" /\ Outcome(GoToChain(s), V) = V[s]
    BY DEF GoToChain, Outcome
  <1>6. \A i \in DOMAIN chain : Decides(chain[i], p, V) <=> Applies(chain[i], p)
    BY <1>2, <1>5 DEF Decides
  <1>7. ASSUME NEW s \in S, HasClusterIP(s), SpecOf[s].ip = p.daddr
        PROVE  V[h] = V[s]
    <2>1. PICK i \in DOMAIN chain : Decides(chain[i], p, V)
      BY <1>4, <1>6, <1>7
    <2>2. PICK j \in DOMAIN chain :
            Decides(chain[j], p, V) /\ Walk(chain, p, V) = Outcome(chain[j].do, V)
      BY <1>3, <2>1, WalkDecided
    <2>3. PICK t \in S : HasClusterIP(t) /\ chain[j].do = GoToChain(t) /\ p.daddr = SpecOf[t].ip
      BY <1>2, <1>6, <2>2
    <2>4. t = s
      BY <1>7, <2>3, ServicesAssumption
    <2> QED
      BY <1>1, <1>5, <2>2, <2>3, <2>4
  <1>8. ASSUME \A s \in S : HasClusterIP(s) => SpecOf[s].ip # p.daddr
        PROVE  V[h] = Undecided
    <2>1. \A i \in DOMAIN chain : ~Decides(chain[i], p, V)
      BY <1>2, <1>6, <1>8
    <2> QED
      BY <1>1, <2>1, WalkUndecided
  <1> QED
    BY <1>7, <1>8 DEF V

\* Nobody but a pod on its way back to itself through a service is masqueraded by the
\* chain of the backing pods; outbound traffic keeps its address if it is known.
LEMMA BackingPodsVerdict ==
  ASSUME NEW E \in Endpoints, NEW S \in SUBSET Services, NEW p, Accepted(BuildConfig(E, S))
  PROVE  LET do == Walked(E, S, p)["cluster-ip-backing-pods-masq"]
         IN /\ do \in {Undecided, Masquerade}
            /\ p.saddr # p.daddr => do = Undecided
  <1> DEFINE V == Walked(E, S, p)
             chain == BackingPodRules(E, S)
  <1>1. V["cluster-ip-backing-pods-masq"] = Walk(chain, p, V)
    BY Chains
  <1>2. ASSUME NEW i \in DOMAIN chain
        PROVE  /\ chain[i].do = Masquerade
               /\ Applies(chain[i], p) => p.saddr = p.daddr
    <2>1. PICK ip : chain[i] = Rule(<<IsIpSrcAddress(ip), IsIpDestAddress(ip)>>, Masquerade)
      BY BackingPodsAre
    <2>2. Applies(chain[i], p) <=> p.saddr = ip /\ p.daddr = ip
      BY <2>1, AppliesTwo DEF IsIpSrcAddress, IsIpDestAddress
    <2> QED
      BY <2>1, <2>2, RuleDo
  <1>3. DOMAIN chain \subseteq Nat
    BY BackingPodsAre
  <1> HIDE DEF V, chain
  <1>4. Outcome(Masquerade, V) = Masquerade
    BY DEF Masquerade, Outcome
  <1>5. CASE \A i \in DOMAIN chain : ~Decides(chain[i], p, V)
    BY <1>1, <1>5, WalkUndecided DEF V
  <1>6. CASE \E i \in DOMAIN chain : Decides(chain[i], p, V)
    <2>1. PICK i \in DOMAIN chain : Decides(chain[i], p, V)
      BY <1>6
    <2>2. p.saddr = p.daddr
      BY <1>2, <2>1 DEF Decides
    <2>3. Walk(chain, p, V) = Masquerade
      BY <1>2, <1>3, <1>4, <2>1, WalkDecided
    <2> QED
      BY <1>1, <2>2, <2>3 DEF V
  <1> QED
    BY <1>5, <1>6

LEMMA OutboundVerdict ==
  ASSUME NEW E \in Endpoints, NEW S \in SUBSET Services, NEW p, Accepted(BuildConfig(E, S))
  PROVE  Walked(E, S, p)["cluster-outbound-masq"] =
           IF p.saddr = NodeIP \/ PodIP(p.saddr) THEN Undecided ELSE Masquerade
  <1> DEFINE V == Walked(E, S, p)
             n == Len(PodNets)
  <1>1. V["cluster-outbound-masq"] = Walk(OutboundRules, p, V)
    BY Chains
  <1>2. /\ n \in Nat /\ DOMAIN PodNets = 1..n /\ DOMAIN OutboundRules = 1..(n + 2)
        /\ OutboundRules[1].do = Return /\ OutboundRules[n + 2].do = Masquerade
        /\ \A i \in 1..n : OutboundRules[1 + i].do = Return
    BY OutboundIs, OutboundDo
  <1>3. /\ Applies(OutboundRules[1], p) <=> p.saddr = NodeIP
        /\ Applies(OutboundRules[n + 2], p)
        /\ \A i \in 1..n : Applies(OutboundRules[1 + i], p) <=> p.saddr \in PodNets[i]
    <2>1. /\ OutboundRules[1] = Rule(<<IsIpSrcAddress(NodeIP)>>, Return)
          /\ OutboundRules[n + 2] = Rule(Always, Masquerade)
          /\ \A i \in 1..n : OutboundRules[1 + i] = Rule(<<IsIpSrcNetwork(PodNets[i])>>, Return)
      BY OutboundIs
    <2>2. Applies(OutboundRules[1], p) <=> p.saddr = NodeIP
      BY <2>1, AppliesOne DEF IsIpSrcAddress
    <2>3. Applies(OutboundRules[n + 2], p)
      BY <2>1, AppliesAlways
    <2>4. ASSUME NEW i \in 1..n PROVE Applies(OutboundRules[1 + i], p) <=> p.saddr \in PodNets[i]
      <3>1. OutboundRules[1 + i] = Rule(<<IsIpSrcNetwork(PodNets[i])>>, Return)
        BY <2>1, <2>4
      <3> QED
        BY <3>1, AppliesOne DEF IsIpSrcNetwork
    <2> QED
      BY <2>2, <2>3, <2>4
  <1>4. /\ Return.kind # "jump" /\ Masquerade.kind # "jump"
        /\ Outcome(Return, V) = Undecided /\ Outcome(Masquerade, V) = Masquerade
    BY DEF Return, Masquerade, Outcome
  <1> HIDE DEF n, V
  <1>5. \A i \in 1..(n + 2) : i = 1 \/ i = n + 2 \/ (i - 1 \in 1..n /\ i = 1 + (i - 1))
    BY <1>2
  <1>6. \A i \in 1..(n + 2) :
          Decides(OutboundRules[i], p, V) <=> Applies(OutboundRules[i], p)
    BY <1>2, <1>4, <1>5 DEF Decides
  <1>7. n + 2 \in DOMAIN OutboundRules /\ Decides(OutboundRules[n + 2], p, V)
    BY <1>2, <1>3, <1>6
  <1>8. PICK j \in 1..(n + 2) :
          /\ Decides(OutboundRules[j], p, V)
          /\ \A k \in 1..(n + 2) : Decides(OutboundRules[k], p, V) => j <= k
          /\ Walk(OutboundRules, p, V) = Outcome(OutboundRules[j].do, V)
    <2>1. DOMAIN OutboundRules \subseteq Nat
      BY <1>2
    <2> QED
      BY <1>2, <1>7, <2>1, WalkDecided
  <1>9. CASE p.saddr = NodeIP \/ PodIP(p.saddr)
    <2>1. PICK k \in 1..(n + 1) : Applies(OutboundRules[k], p)
      <3>1. CASE p.saddr = NodeIP
        BY <1>2, <1>3, <3>1
      <3>2. CASE PodIP(p.saddr)
        <4>1. PICK i \in 1..n : p.saddr \in PodNets[i]
          BY <1>2, <3>2 DEF PodIP
        <4>2. 1 + i \in 1..(n + 1) /\ Applies(OutboundRules[1 + i], p)
          BY <1>2, <1>3, <4>1
        <4> QED
          BY <4>2
      <3> QED
        BY <1>9, <3>1, <3>2
    <2>2. k \in 1..(n + 2) /\ j <= k
      BY <1>2, <1>6, <1>8, <2>1
    <2>3. j # n + 2
      BY <1>2, <2>2
    <2>4. OutboundRules[j].do = Return
      BY <1>2, <1>5, <2>3
    <2> QED
      BY <1>1, <1>4, <1>8, <1>9, <2>4 DEF V
  <1>10. CASE ~(p.saddr = NodeIP \/ PodIP(p.saddr))
    <2>1. \A i \in 1..n : p.saddr \notin PodNets[i]
      BY <1>2, <1>10 DEF PodIP
    <2>2. Applies(OutboundRules[j], p)
      BY <1>6, <1>8
    <2>3. j = n + 2
      BY <1>3, <1>5, <1>10, <2>1, <2>2
    <2> QED
      BY <1>1, <1>2, <1>4, <1>8, <1>10, <2>3 DEF V
  <1> QED
    BY <1>9, <1>10

\* Source NAT: what enters the VPN keeps its address if the cluster knows it and gets
\* another if not; a pod's packet to other networks gets another.
LEMMA PostroutingVerdict ==
  ASSUME NEW E \in Endpoints, NEW S \in SUBSET Services, NEW p, Accepted(BuildConfig(E, S))
  PROVE  LET do == Walked(E, S, p)["hook-nat-postrouting"]
         IN /\ p.oifname = VpnIface /\ (p.saddr = NodeIP \/ PodIP(p.saddr)) /\ p.saddr # p.daddr
                 => do = Undecided
            /\ p.oifname = VpnIface /\ p.saddr # NodeIP /\ ~PodIP(p.saddr)
                 => do = Masquerade
            /\ p.oifname \notin {"lo", VpnIface} /\ PodIP(p.saddr)
                 => do = Masquerade
  <1> DEFINE V == Walked(E, S, p)
             n == Len(PodNets)
             back == V["cluster-ip-backing-pods-masq"]
             out == V["cluster-outbound-masq"]
             R == PostroutingRules
  <1>1. V["hook-nat-postrouting"] = Walk(R, p, V)
    BY Chains
  <1>2. /\ n \in Nat /\ DOMAIN PodNets = 1..n /\ DOMAIN R = 1..(n + 3)
        /\ R[1].do = JumpToChain("cluster-ip-backing-pods-masq")
        /\ R[2].do = Return
        /\ R[3].do = GoToChain("cluster-outbound-masq")
        /\ \A i \in 1..n : R[3 + i].do = Masquerade
    BY PostroutingIs, PostroutingDo
  <1>3. /\ Applies(R[1], p)
        /\ Applies(R[2], p) <=> p.oifname = "lo"
        /\ Applies(R[3], p) <=> p.oifname = VpnIface
        /\ \A i \in 1..n : Applies(R[3 + i], p) <=> p.saddr \in PodNets[i]
    <2>1. /\ R[1] = Rule(Always, JumpToChain("cluster-ip-backing-pods-masq"))
          /\ R[2] = Rule(<<OutIfaceName("lo")>>, Return)
          /\ R[3] = Rule(<<OutIfaceName(VpnIface)>>, GoToChain("cluster-outbound-masq"))
          /\ \A i \in 1..n : R[3 + i] = Rule(<<IsIpSrcNetwork(PodNets[i])>>, Masquerade)
      BY PostroutingIs
    <2> HIDE DEF R
    <2>2. Applies(R[1], p)
      BY <2>1, AppliesAlways
    <2>3. Applies(R[2], p) <=> p.oifname = "lo"
      BY <2>1, AppliesOne DEF OutIfaceName
    <2>4. Applies(R[3], p) <=> p.oifname = VpnIface
      BY <2>1, AppliesOne DEF OutIfaceName
    <2>5. ASSUME NEW i \in 1..n PROVE Applies(R[3 + i], p) <=> p.saddr \in PodNets[i]
      <3>1. R[3 + i] = Rule(<<IsIpSrcNetwork(PodNets[i])>>, Masquerade)
        BY <2>1, <2>5
      <3> QED
        BY <3>1, AppliesOne DEF IsIpSrcNetwork
    <2> QED
      BY <2>2, <2>3, <2>4, <2>5
  <1>4. back \in {Undecided, Masquerade} /\ (p.saddr # p.daddr => back = Undecided)
    BY BackingPodsVerdict
  <1>5. out = IF p.saddr = NodeIP \/ PodIP(p.saddr) THEN Undecided ELSE Masquerade
    BY OutboundVerdict
  <1> HIDE DEF n, V, R, back, out
  <1>6. /\ Decides(R[1], p, V) <=> back # Undecided
        /\ Decides(R[2], p, V) <=> p.oifname = "lo"
        /\ Decides(R[3], p, V) <=> p.oifname = VpnIface
        /\ \A i \in 1..n : Decides(R[3 + i], p, V) <=> p.saddr \in PodNets[i]
    BY <1>2, <1>3 DEF Decides, JumpToChain, GoToChain, Return, Masquerade, back
  <1>7. /\ Outcome(R[1].do, V) = back
        /\ Outcome(R[3].do, V) = out
        /\ \A i \in 1..n : Outcome(R[3 + i].do, V) = Masquerade
    BY <1>2 DEF Outcome, JumpToChain, GoToChain, Masquerade, back, out
  <1>8. DOMAIN R \subseteq Nat /\ 1 \in DOMAIN R /\ 2 \in DOMAIN R /\ 3 \in DOMAIN R
    BY <1>2
  <1>9. \A i \in 1..(n + 3) : i = 1 \/ i = 2 \/ i = 3 \/ (i - 3 \in 1..n /\ i = 3 + (i - 3))
    BY <1>2
  <1>10. CASE p.oifname = VpnIface
    <2>1. PICK j \in DOMAIN R :
            /\ Decides(R[j], p, V)
            /\ \A k \in DOMAIN R : Decides(R[k], p, V) => j <= k
            /\ Walk(R, p, V) = Outcome(R[j].do, V)
      BY <1>6, <1>8, <1>10, WalkDecided
    <2>2. j \in Nat /\ j <= 3 /\ j >= 1
      BY <1>2, <1>6, <1>8, <1>10, <2>1
    <2>3. j # 2
      BY <1>6, <1>10, <2>1, NetworkAssumption
    <2>4. j = 1 \/ j = 3
      BY <2>2, <2>3
    <2>5. CASE back = Undecided
      <3>1. j = 3
        BY <1>6, <2>1, <2>4, <2>5
      <3> QED
        BY <1>1, <1>5, <1>7, <1>10, <2>1, <3>1 DEF V
    <2>6. CASE back # Undecided
      <3>1. j = 1
        BY <1>6, <1>8, <2>1, <2>4, <2>6
      <3>2. Walk(R, p, V) = Masquerade /\ p.saddr = p.daddr
        BY <1>4, <1>7, <2>1, <2>6, <3>1
      <3> QED
        BY <1>1, <1>10, <3>2 DEF V
    <2> QED
      BY <2>5, <2>6
  <1>11. ASSUME p.oifname \notin {"lo", VpnIface}, PodIP(p.saddr)
         PROVE  V["hook-nat-postrouting"] = Masquerade
    <2>1. PICK i \in 1..n : p.saddr \in PodNets[i]
      BY <1>2, <1>11 DEF PodIP
    <2>2. 3 + i \in DOMAIN R /\ Decides(R[3 + i], p, V)
      BY <1>2, <1>6, <2>1
    <2>3. PICK j \in DOMAIN R :
            Decides(R[j], p, V) /\ Walk(R, p, V) = Outcome(R[j].do, V)
      BY <1>8, <2>2, WalkDecided
    <2>4. j # 2 /\ j # 3
      BY <1>6, <1>11, <2>3
    <2>5. CASE j = 1
      BY <1>1, <1>4, <1>6, <1>7, <2>3, <2>5
    <2>6. CASE j # 1
      <3>1. j - 3 \in 1..n /\ j = 3 + (j - 3)
        BY <1>2, <1>9, <2>4, <2>6
      <3> QED
        BY <1>1, <1>7, <2>3, <3>1
    <2> QED
      BY <2>5, <2>6
  <1> QED
    BY <1>10, <1>11 DEF V

LEMMA BackendIs ==
  ASSUME NEW ep \in Backends, NEW k \in Staffed(ep)
  PROVE  /\ k \in Nat /\ k \in DOMAIN ep
         /\ 1 \in DOMAIN ep[k].addrs
         /\ IsList(ep[k].ports)
         /\ \A i \in DOMAIN ep[k].ports : IsPort(ep[k].ports[i].port)
  <1>1. IsList(ep) /\ k \in DOMAIN ep /\ ep[k].addrs # <<>>
    BY BackendsAssumption DEF Staffed
  <1>2. k \in Nat
    BY <1>1 DEF IsList
  <1>3. ep[k] \in ToSet(ep)
    BY <1>1 DEF ToSet
  <1>4. /\ IsList(ep[k].addrs) /\ IsList(ep[k].ports)
        /\ \A x \in ToSet(ep[k].ports) : IsPort(x.port)
    BY <1>3, BackendsAssumption
  <1>5. 1 \in DOMAIN ep[k].addrs
    BY <1>1, <1>4 DEF IsList
  <1>6. \A i \in DOMAIN ep[k].ports : IsPort(ep[k].ports[i].port)
    BY <1>4 DEF ToSet
  <1> QED
    BY <1>1, <1>2, <1>4, <1>5, <1>6

\* The target of a port is a healthy address that has a port of that name, at the
\* number the port has there.
LEMMA TargetServes ==
  ASSUME NEW ep \in Backends, NEW port, Serving(ep, port) # {}
  PROVE  \E k \in Staffed(ep) : \E i \in DOMAIN ep[k].ports :
           /\ ep[k].ports[i].name = port.name
           /\ Target(ep, port) =
                TranslateIPv4Destination(ep[k].addrs[1].ip, ep[k].ports[i].port)
  <1> DEFINE k == Min(Serving(ep, port))
             i == Max(SamePort(ep[k], port))
  <1>1. Serving(ep, port) \in SUBSET Nat
    BY BackendIs DEF Serving
  <1>2. k \in Serving(ep, port)
    BY <1>1, LeastNumber
  <1>3. k \in Staffed(ep) /\ SamePort(ep[k], port) # {}
    BY <1>2 DEF Serving
  <1> HIDE DEF k
  <1>4. IsList(ep[k].ports) /\ \A j \in DOMAIN ep[k].ports : IsPort(ep[k].ports[j].port)
    BY <1>3, BackendIs
  <1>5. Len(ep[k].ports) \in Nat /\ SamePort(ep[k], port) \in SUBSET (1..Len(ep[k].ports))
    BY <1>4 DEF IsList, SamePort
  <1>6. i \in SamePort(ep[k], port)
    BY <1>3, <1>5, GreatestNumber
  <1>7. i \in DOMAIN ep[k].ports /\ ep[k].ports[i].name = port.name
    BY <1>6 DEF SamePort
  <1>8. Target(ep, port) =
          TranslateIPv4Destination(ep[k].addrs[1].ip, U16(ep[k].ports[i].port))
    BY DEF Target, k
  <1> HIDE DEF i
  <1>9. U16(ep[k].ports[i].port) = ep[k].ports[i].port
    BY <1>4, <1>7 DEF U16, IsPort
  <1> QED
    BY <1>3, <1>7, <1>8, <1>9

LEMMA IcmpServes ==
  ASSUME NEW ep \in Backends, Staffed(ep) # {}
  PROVE  \E k \in Staffed(ep) : IcmpRule(ep).do = TranslateIPv4Address(ep[k].addrs[1].ip)
  <1>1. Staffed(ep) \in SUBSET Nat
    BY BackendIs
  <1>2. Min(Staffed(ep)) \in Staffed(ep)
    BY <1>1, LeastNumber
  <1> QED
    BY <1>2, RuleDo DEF IcmpRule

\* The ports of a service that a packet may be for and a backend serves.
Served(ep, s, p) ==
  {q \in DOMAIN SpecOf[s].ports : /\ Serving(ep, SpecOf[s].ports[q]) # {}
                                  /\ SpecOf[s].ports[q].proto = p.l4proto
                                  /\ SpecOf[s].ports[q].port = p.dport}

\* What the chain of a service comes to.
LEMMA ServiceVerdict ==
  ASSUME NEW E \in Endpoints, NEW S \in SUBSET Services, NEW p, Accepted(BuildConfig(E, S)),
         NEW s \in Chained(E, S)
  PROVE  LET do == Walked(E, S, p)[s]
             served == Served(E[s], s, p)
         IN /\ p.l4proto = "ICMP" /\ Staffed(E[s]) # {} =>
                 \E k \in Staffed(E[s]) : do = TranslateIPv4Address(E[s][k].addrs[1].ip)
            /\ p.l4proto # "ICMP" /\ served # {} =>
                 \E q \in served : do = Target(E[s], SpecOf[s].ports[q])
            /\ (p.l4proto = "ICMP" => Staffed(E[s]) = {}) /\ served = {} => do = Undecided
  <1> DEFINE V == Walked(E, S, p)
             ports == SpecOf[s].ports
             chain == ServiceRules(s, E[s])
             served == Served(E[s], s, p)
  <1>1. V[s] = Walk(chain, p, V)
    BY Chains
  <1>2. s \in Services /\ E[s] \in Backends
    BY DEF Chained, Endpoints
  <1>3. \A q \in DOMAIN ports :
          ports[q].proto \in {"TCP", "UDP", "SCTP"} /\ U16(ports[q].port) = ports[q].port
    <2>1. ASSUME NEW q \in DOMAIN ports
          PROVE  ports[q].proto \in {"TCP", "UDP", "SCTP"} /\ IsPort(ports[q].port)
      <3>1. ports[q] \in ToSet(ports)
        BY DEF ToSet
      <3> QED
        BY <1>2, <3>1, ServicesAssumption
    <2>2. \A m : IsPort(m) => U16(m) = m
      BY DEF IsPort, U16
    <2> QED
      BY <2>1, <2>2
  <1>4. ASSUME NEW q \in DOMAIN ports
        PROVE  /\ PortRule(E[s], ports[q]).do = Target(E[s], ports[q])
               /\ Applies(PortRule(E[s], ports[q]), p) <=>
                    ports[q].proto = p.l4proto /\ ports[q].port = p.dport
    <2>1. Applies(PortRule(E[s], ports[q]), p) <=>
            p.l4proto = ports[q].proto /\ p.dport = U16(ports[q].port)
      BY AppliesTwo DEF PortRule, IsL4Proto, IsDestPort
    <2>2. PortRule(E[s], ports[q]).do = Target(E[s], ports[q])
      BY RuleDo DEF PortRule
    <2> QED
      BY <1>3, <2>1, <2>2
  <1>5. Applies(IcmpRule(E[s]), p) <=> p.l4proto = "ICMP"
    BY AppliesOne DEF IcmpRule, IsICMP
  <1>6. /\ DOMAIN chain \subseteq Nat
        /\ \A i \in DOMAIN chain :
             \/ \E q \in DOMAIN ports :
                  Serving(E[s], ports[q]) # {} /\ chain[i] = PortRule(E[s], ports[q])
             \/ Staffed(E[s]) # {} /\ chain[i] = IcmpRule(E[s])
        /\ \A q \in DOMAIN ports : Serving(E[s], ports[q]) # {} =>
             q \in DOMAIN chain /\ chain[q] = PortRule(E[s], ports[q])
        /\ Staffed(E[s]) # {} => \E i \in DOMAIN chain : chain[i] = IcmpRule(E[s])
    BY <1>2, ServiceIs
  <1>7. \A q : q \in served <=> /\ q \in DOMAIN ports /\ Serving(E[s], ports[q]) # {}
                                /\ ports[q].proto = p.l4proto /\ ports[q].port = p.dport
    BY DEF Served
  <1> HIDE DEF V, chain, served, ports
  \* A rule that applies decides, and it is one of a served port or of ICMP.
  <1>8. /\ \A port : Target(E[s], port).kind = "dnat"
        /\ \A ip : TranslateIPv4Address(ip).kind = "dnat"
        /\ \A do : do.kind = "dnat" => Outcome(do, V) = do
    BY DEF Target, TranslateIPv4Destination, TranslateIPv4Address, Outcome
  <1>9. IcmpRule(E[s]).do.kind = "dnat"
    BY RuleDo DEF IcmpRule, TranslateIPv4Address
  <1>10. ASSUME NEW i \in DOMAIN chain
         PROVE  /\ Decides(chain[i], p, V) <=> Applies(chain[i], p)
                /\ Outcome(chain[i].do, V) = chain[i].do
                /\ Applies(chain[i], p) =>
                     \/ \E q \in served : chain[i].do = Target(E[s], ports[q])
                     \/ p.l4proto = "ICMP" /\ Staffed(E[s]) # {} /\ chain[i] = IcmpRule(E[s])
    <2>1. CASE \E q \in DOMAIN ports :
                 Serving(E[s], ports[q]) # {} /\ chain[i] = PortRule(E[s], ports[q])
      <3>1. PICK q \in DOMAIN ports :
              Serving(E[s], ports[q]) # {} /\ chain[i] = PortRule(E[s], ports[q])
        BY <2>1
      <3>2. chain[i].do = Target(E[s], ports[q])
        BY <1>4, <3>1
      <3>3. Applies(chain[i], p) => q \in served
        BY <1>4, <1>7, <3>1
      <3> QED
        BY <1>8, <3>2, <3>3 DEF Decides
    <2>2. CASE Staffed(E[s]) # {} /\ chain[i] = IcmpRule(E[s])
      BY <1>5, <1>8, <1>9, <2>2 DEF Decides
    <2> QED
      BY <1>6, <2>1, <2>2
  <1>11. ASSUME NEW i \in DOMAIN chain, Applies(chain[i], p)
         PROVE  \E j \in DOMAIN chain : Applies(chain[j], p) /\ V[s] = chain[j].do
    BY <1>1, <1>6, <1>10, <1>11, WalkDecided
  <1>12. ASSUME p.l4proto = "ICMP", Staffed(E[s]) # {}
         PROVE  \E k \in Staffed(E[s]) : V[s] = TranslateIPv4Address(E[s][k].addrs[1].ip)
    <2>1. PICK i \in DOMAIN chain : Applies(chain[i], p)
      BY <1>5, <1>6, <1>12
    <2>2. PICK j \in DOMAIN chain : Applies(chain[j], p) /\ V[s] = chain[j].do
      BY <1>11, <2>1
    <2>3. served = {}
      BY <1>3, <1>7, <1>12
    <2>4. chain[j] = IcmpRule(E[s])
      BY <1>10, <2>2, <2>3
    <2> QED
      BY <1>2, <1>12, <2>2, <2>4, IcmpServes
  <1>13. ASSUME p.l4proto # "ICMP", served # {}
         PROVE  \E q \in served : V[s] = Target(E[s], ports[q])
    <2>1. PICK q \in served : TRUE
      BY <1>13
    <2>2. q \in DOMAIN chain /\ Applies(chain[q], p)
      BY <1>4, <1>6, <1>7
    <2>3. PICK j \in DOMAIN chain : Applies(chain[j], p) /\ V[s] = chain[j].do
      BY <1>11, <2>2
    <2> QED
      BY <1>10, <1>13, <2>3
  <1>14. ASSUME p.l4proto = "ICMP" => Staffed(E[s]) = {}, served = {}
         PROVE  V[s] = Undecided
    <2>1. \A i \in DOMAIN chain : ~Decides(chain[i], p, V)
      BY <1>10, <1>14
    <2> QED
      BY <1>1, <2>1, WalkUndecided
  <1> QED
    BY <1>12, <1>13, <1>14 DEF V, ports, served

-----------------------------------------------------------------------------
(* A packet on its way *)

\* A service with a ClusterIP has Endpoints, what they say decides whether its chain
\* has anything to translate to, and their addresses are of no service.
LEMMA BackendsOf ==
  ASSUME Settled, NEW s \in svcs, HasClusterIP(s)
  PROVE  /\ s \in Chained(eps, svcs) /\ s \in Services /\ eps[s] \in Backends
         /\ Healthy(s) # {} <=> Staffed(eps[s]) # {}
         /\ \A k \in Staffed(eps[s]) : eps[s][k].addrs[1].ip \in Healthy(s)
         /\ \A ip \in Healthy(s) :
              /\ ServiceOf(ip) = {}
              /\ ip \in {a.ip : a \in UNION {Addresses(ep) : ep \in Backends}}
  <1> DEFINE ep == eps[s]
  <1>1. s \in Chained(eps, svcs)
    BY AllChained DEF Settled
  <1>2. s \in Services /\ ep \in Backends
    BY <1>1 DEF Settled, Chained, Endpoints
  <1>3. \A k \in Staffed(ep) : ep[k].addrs[1].ip \in Healthy(s)
    <2> SUFFICES ASSUME NEW k \in Staffed(ep) PROVE ep[k].addrs[1].ip \in Healthy(s)
      OBVIOUS
    <2>1. k \in DOMAIN ep /\ 1 \in DOMAIN ep[k].addrs
      BY <1>2, BackendIs
    <2>2. ep[k] \in ToSet(ep) /\ ep[k].addrs[1] \in ToSet(ep[k].addrs)
      BY <2>1 DEF ToSet
    <2> QED
      BY <2>2 DEF Healthy
  <1>4. ASSUME NEW ip \in Healthy(s)
        PROVE  /\ Staffed(ep) # {}
               /\ \E a \in Addresses(ep) : a.ip = ip
    <2>1. PICK subset \in ToSet(ep) : \E a \in ToSet(subset.addrs) : ip = a.ip
      BY DEF Healthy
    <2>2. PICK k \in DOMAIN ep : subset = ep[k]
      BY DEF ToSet
    <2>3. PICK a \in ToSet(ep[k].addrs) : ip = a.ip
      BY <2>1, <2>2
    <2>4. a \in Addresses(ep)
      BY <2>3 DEF Addresses
    <2>5. ep[k].addrs # <<>>
      BY <2>3 DEF ToSet
    <2> QED
      BY <2>2, <2>3, <2>4, <2>5 DEF Staffed
  <1>5. ASSUME NEW ip \in Healthy(s)
        PROVE  /\ ServiceOf(ip) = {}
               /\ ip \in {a.ip : a \in UNION {Addresses(b) : b \in Backends}}
    <2>1. PICK a \in Addresses(ep) : a.ip = ip
      BY <1>4
    <2>2. \A t \in Services : HasClusterIP(t) => a.ip # SpecOf[t].ip
      BY <1>2, BackendsAssumption
    <2>3. ServiceOf(ip) = {}
      BY <2>1, <2>2 DEF ServiceOf, Settled
    <2> QED
      BY <1>2, <2>1, <2>3
  <1> QED
    BY <1>1, <1>2, <1>3, <1>4, <1>5

\* The ports a chain translates are those with a ready backend.
LEMMA ReadyIsServed ==
  ASSUME Settled, sent \in Packets, NEW s \in svcs, HasClusterIP(s)
  PROVE  LET served == Served(eps[s], s, sent)
         IN /\ ReadyBackends(s) # {} => served # {} /\ sent.l4proto # "ICMP"
            /\ \A q \in served : \E ip, port :
                 /\ Target(eps[s], SpecOf[s].ports[q]) = TranslateIPv4Destination(ip, port)
                 /\ [ip |-> ip, port |-> port] \in ReadyBackends(s)
            /\ \A ip, port : [ip |-> ip, port |-> port] \in ReadyBackends(s) =>
                 ip \in Healthy(s)
  <1> DEFINE ep == eps[s]
             ports == SpecOf[s].ports
             served == Served(ep, s, sent)
  <1>1. s \in Services /\ ep \in Backends
    BY BackendsOf
  <1>2. ASSUME NEW b \in ReadyBackends(s)
        PROVE  \E q \in PortOf(s), subset \in ToSet(ep) :
                 b \in [ip : {a.ip : a \in ToSet(subset.addrs)},
                        port : {x.port : x \in {y \in ToSet(subset.ports) : y.name = q.name}}]
    BY DEF ReadyBackends, Ready
  <1>3. ASSUME ReadyBackends(s) # {} PROVE served # {} /\ sent.l4proto # "ICMP"
    <2>1. PICK q \in PortOf(s), subset \in ToSet(ep) :
            {a.ip : a \in ToSet(subset.addrs)} # {} /\
            {x.port : x \in {y \in ToSet(subset.ports) : y.name = q.name}} # {}
      <3>1. PICK b \in ReadyBackends(s) : TRUE
        BY <1>3
      <3>2. PICK q \in PortOf(s), subset \in ToSet(ep) :
              b \in [ip : {a.ip : a \in ToSet(subset.addrs)},
                     port : {x.port : x \in {y \in ToSet(subset.ports) : y.name = q.name}}]
        BY <1>2
      <3>3. /\ b.ip \in {a.ip : a \in ToSet(subset.addrs)}
            /\ b.port \in {x.port : x \in {y \in ToSet(subset.ports) : y.name = q.name}}
        BY <3>2
      <3>4. /\ {a.ip : a \in ToSet(subset.addrs)} # {}
            /\ {x.port : x \in {y \in ToSet(subset.ports) : y.name = q.name}} # {}
        BY <3>3
      <3> QED
        BY <3>4
    <2>2. PICK k \in DOMAIN ep : subset = ep[k]
      BY DEF ToSet
    <2>3. PICK a \in ToSet(ep[k].addrs) : TRUE
      BY <2>1, <2>2
    <2>4. PICK x \in ToSet(ep[k].ports) : x.name = q.name
      BY <2>1, <2>2
    <2>5. PICK i \in DOMAIN ep[k].ports : x = ep[k].ports[i]
      BY <2>4 DEF ToSet
    <2>6. ep[k].addrs # <<>>
      BY <2>3 DEF ToSet
    <2>7. k \in Staffed(ep) /\ i \in SamePort(ep[k], q)
      BY <2>4, <2>5, <2>6 DEF Staffed, SamePort
    <2>8. Serving(ep, q) # {}
      BY <2>7 DEF Serving
    <2>9. q \in ToSet(ports) /\ q.proto = sent.l4proto /\ q.port = sent.dport
      BY DEF PortOf
    <2>10. PICK j \in DOMAIN ports : q = ports[j]
      BY <2>9 DEF ToSet
    <2>11. q.proto \in {"TCP", "UDP", "SCTP"}
      BY <1>1, <2>9, ServicesAssumption
    <2>12. j \in served
      BY <2>8, <2>9, <2>10 DEF Served
    <2> QED
      BY <2>9, <2>11, <2>12
  <1>4. ASSUME NEW j \in served
        PROVE  \E ip, port :
                 /\ Target(ep, ports[j]) = TranslateIPv4Destination(ip, port)
                 /\ [ip |-> ip, port |-> port] \in ReadyBackends(s)
    <2> DEFINE q == ports[j]
    <2>1. j \in DOMAIN ports /\ Serving(ep, q) # {} /\ q.proto = sent.l4proto
            /\ q.port = sent.dport
      BY DEF Served
    <2>2. q \in PortOf(s)
      BY <2>1 DEF PortOf, ToSet
    <2>3. PICK k \in Staffed(ep) : \E i \in DOMAIN ep[k].ports :
            /\ ep[k].ports[i].name = q.name
            /\ Target(ep, q) = TranslateIPv4Destination(ep[k].addrs[1].ip, ep[k].ports[i].port)
      BY <1>1, <2>1, TargetServes
    <2>4. PICK i \in DOMAIN ep[k].ports :
            /\ ep[k].ports[i].name = q.name
            /\ Target(ep, q) = TranslateIPv4Destination(ep[k].addrs[1].ip, ep[k].ports[i].port)
      BY <2>3
    <2>5. k \in DOMAIN ep /\ 1 \in DOMAIN ep[k].addrs
      BY <1>1, BackendIs
    <2>6. ep[k] \in ToSet(ep) /\ ep[k].addrs[1] \in ToSet(ep[k].addrs)
            /\ ep[k].ports[i] \in ToSet(ep[k].ports)
      BY <2>5 DEF ToSet
    <2> HIDE DEF q, ep
    <2>7. [ip |-> ep[k].addrs[1].ip, port |-> ep[k].ports[i].port] \in Ready(ep[k], q)
      <3>1. ep[k].addrs[1].ip \in {a.ip : a \in ToSet(ep[k].addrs)}
        BY <2>6
      <3>2. ep[k].ports[i].port \in
              {x.port : x \in {y \in ToSet(ep[k].ports) : y.name = q.name}}
        BY <2>4, <2>6
      <3> QED
        BY <3>1, <3>2 DEF Ready
    <2>8. [ip |-> ep[k].addrs[1].ip, port |-> ep[k].ports[i].port] \in ReadyBackends(s)
      BY <2>2, <2>6, <2>7 DEF ReadyBackends, ep
    <2> QED
      BY <2>4, <2>8 DEF q
  <1>5. ASSUME NEW ip, NEW port, [ip |-> ip, port |-> port] \in ReadyBackends(s)
        PROVE  ip \in Healthy(s)
    <2>1. PICK q \in PortOf(s), subset \in ToSet(ep) :
            [ip |-> ip, port |-> port] \in
              [ip : {a.ip : a \in ToSet(subset.addrs)},
               port : {x.port : x \in {y \in ToSet(subset.ports) : y.name = q.name}}]
      BY <1>2, <1>5
    <2>2. ip \in {a.ip : a \in ToSet(subset.addrs)}
      BY <2>1
    <2> QED
      BY <2>2 DEF Healthy
  <1> QED
    BY <1>3, <1>4, <1>5

LEMMA InitPathInv == PathInit => PathInv
  BY DEF PathInit, PathInv, AnswersComeBack, ClusterSeesPods

\* What Translated says once the packet is no longer as it was sent.
LEMMA DestinationNatPathInv == PathInv /\ DestinationNat => PathInv'
  <1> SUFFICES ASSUME PathInv, DestinationNat PROVE PathInv'
    OBVIOUS
  <1> DEFINE h == StartedAt("nat", IF sent.local THEN "output" ELSE "prerouting")
             do == Verdict(kernel, pkt)[h]
  <1>1. /\ Settled /\ sent \in Packets /\ pkt = sent /\ hook' = "filter"
        /\ UNCHANGED <<vars, sent>>
        /\ pkt' = [f \in DOMAIN sent |-> IF f \in {"daddr", "dport"} \intersect DOMAIN do
                                           THEN do[f] ELSE sent[f]]
    BY DEF PathInv, DestinationNat, Decided
  <1>2. h \in {"hook-nat-fwd-in", "hook-nat-local-out"}
    BY HookChains
  <1>3. eps \in Endpoints /\ svcs \in SUBSET Services /\ Accepted(BuildConfig(eps, svcs))
          /\ do = Walked(eps, svcs, sent)[h]
    BY <1>1 DEF Settled, Walked
  <1>4. DOMAIN sent = {"saddr", "daddr", "l4proto", "dport", "oifname", "local"}
    BY <1>1, NetworkAssumption
  <1> HIDE DEF h, do
  <1>5. /\ DOMAIN pkt' = DOMAIN sent
        /\ \A f \in DOMAIN sent \ {"daddr", "dport"} : pkt'[f] = sent[f]
        /\ "daddr" \notin DOMAIN do => pkt'.daddr = sent.daddr
        /\ "dport" \notin DOMAIN do => pkt'.dport = sent.dport
        /\ "daddr" \in DOMAIN do => pkt'.daddr = do.daddr
        /\ "dport" \in DOMAIN do => pkt'.dport = do.dport
    BY <1>1, <1>4
  \* Not for a service: as it was.
  <1>6. ASSUME do = Undecided
        PROVE  pkt'.daddr = sent.daddr /\ pkt'.dport = sent.dport
    <2>1. DOMAIN do = {"kind"}
      BY <1>6 DEF Undecided
    <2> QED
      BY <1>5, <2>1
  <1>7. ServiceOf(sent.daddr) = {} => do = Undecided
    <2> SUFFICES ASSUME ServiceOf(sent.daddr) = {} PROVE do = Undecided
      OBVIOUS
    <2>1. \A s \in svcs : HasClusterIP(s) => SpecOf[s].ip # sent.daddr
      BY DEF ServiceOf
    <2> QED
      BY <1>2, <1>3, <2>1, DispatchVerdict
  \* For a service: what its chain says.
  <1>8. ASSUME NEW s \in ServiceOf(sent.daddr)
        PROVE  /\ IF sent.l4proto = "ICMP" /\ Healthy(s) # {} THEN pkt'.daddr \in Healthy(s)
                  ELSE IF ReadyBackends(s) # {}
                    THEN [ip |-> pkt'.daddr, port |-> pkt'.dport] \in ReadyBackends(s)
                  ELSE pkt'.daddr = sent.daddr
               /\ pkt'.daddr = sent.daddr \/ pkt'.daddr \in Healthy(s)
    <2>1. s \in svcs /\ HasClusterIP(s) /\ SpecOf[s].ip = sent.daddr
      BY DEF ServiceOf
    <2>2. s \in Chained(eps, svcs) /\ (Healthy(s) # {} <=> Staffed(eps[s]) # {})
            /\ \A k \in Staffed(eps[s]) : eps[s][k].addrs[1].ip \in Healthy(s)
      BY <1>1, <2>1, BackendsOf
    <2>3. do = Walked(eps, svcs, sent)[s]
      BY <1>2, <1>3, <2>1, DispatchVerdict
    <2> DEFINE ports == SpecOf[s].ports
               served == Served(eps[s], s, sent)
    <2>4. /\ sent.l4proto = "ICMP" /\ Staffed(eps[s]) # {} =>
               \E k \in Staffed(eps[s]) : do = TranslateIPv4Address(eps[s][k].addrs[1].ip)
          /\ sent.l4proto # "ICMP" /\ served # {} =>
               \E q \in served : do = Target(eps[s], ports[q])
          /\ (sent.l4proto = "ICMP" => Staffed(eps[s]) = {}) /\ served = {} => do = Undecided
      <3> DEFINE w == Walked(eps, svcs, sent)[s]
      <3>1. /\ sent.l4proto = "ICMP" /\ Staffed(eps[s]) # {} =>
                 \E k \in Staffed(eps[s]) : w = TranslateIPv4Address(eps[s][k].addrs[1].ip)
            /\ sent.l4proto # "ICMP" /\ served # {} =>
                 \E q \in served : w = Target(eps[s], ports[q])
            /\ (sent.l4proto = "ICMP" => Staffed(eps[s]) = {}) /\ served = {} => w = Undecided
        BY <1>3, <2>2, ServiceVerdict
      <3> HIDE DEF w, served, ports
      <3>2. do = w
        BY <2>3 DEF w
      <3> QED
        BY <3>1, <3>2
    <2>5. /\ ReadyBackends(s) # {} => served # {} /\ sent.l4proto # "ICMP"
          /\ \A q \in served : \E ip, port :
               /\ Target(eps[s], ports[q]) = TranslateIPv4Destination(ip, port)
               /\ [ip |-> ip, port |-> port] \in ReadyBackends(s)
          /\ \A ip, port : [ip |-> ip, port |-> port] \in ReadyBackends(s) => ip \in Healthy(s)
      BY <1>1, <2>1, ReadyIsServed
    <2>6. served # {} => sent.l4proto # "ICMP"
      BY <2>5
    <2> HIDE DEF served, ports
    <2>7. CASE sent.l4proto = "ICMP" /\ Healthy(s) # {}
      <3>1. PICK k \in Staffed(eps[s]) : do = TranslateIPv4Address(eps[s][k].addrs[1].ip)
        BY <2>2, <2>4, <2>7
      <3>2. "daddr" \in DOMAIN do /\ do.daddr = eps[s][k].addrs[1].ip
        BY <3>1 DEF TranslateIPv4Address
      <3> QED
        BY <1>5, <2>2, <2>7, <3>2
    <2>8. CASE ~(sent.l4proto = "ICMP" /\ Healthy(s) # {}) /\ served # {}
      <3>1. PICK q \in served : do = Target(eps[s], ports[q])
        BY <2>4, <2>6, <2>8
      <3>2. PICK ip, port : /\ do = TranslateIPv4Destination(ip, port)
                            /\ [ip |-> ip, port |-> port] \in ReadyBackends(s)
        BY <2>5, <3>1
      <3>3. {"daddr", "dport"} \subseteq DOMAIN do /\ do.daddr = ip /\ do.dport = port
        BY <3>2 DEF TranslateIPv4Destination
      <3>4. pkt'.daddr = ip /\ pkt'.dport = port
        BY <1>5, <3>3
      <3> QED
        BY <2>5, <2>8, <3>2, <3>4
    <2>9. CASE ~(sent.l4proto = "ICMP" /\ Healthy(s) # {}) /\ served = {}
      <3>1. do = Undecided
        BY <2>2, <2>4, <2>9
      <3>2. ReadyBackends(s) = {}
        BY <2>5, <2>9
      <3> QED
        BY <1>6, <2>9, <3>1, <3>2
    <2> QED
      BY <2>7, <2>8, <2>9
  <1>9. ASSUME pkt'.daddr # sent.daddr
        PROVE  /\ ServiceOf(pkt'.daddr) = {}
               /\ pkt'.daddr \in {a.ip : a \in UNION {Addresses(ep) : ep \in Backends}}
    <2>1. PICK s \in ServiceOf(sent.daddr) : TRUE
      BY <1>6, <1>7, <1>9
    <2>2. s \in svcs /\ HasClusterIP(s)
      BY DEF ServiceOf
    <2>3. pkt'.daddr \in Healthy(s)
      BY <1>8, <1>9
    <2> QED
      BY <1>1, <2>2, <2>3, BackendsOf
  <1>10. /\ Settled' /\ sent' = sent /\ svcs' = svcs /\ eps' = eps
    BY <1>1 DEF vars, Settled
  <1>11. Translated'
    <2>1. \A f \in DOMAIN sent \ {"daddr", "dport", "oifname", "saddr"} : pkt'[f] = sent[f]
      BY <1>5
    <2>2. ServiceOf(sent.daddr) = {} => pkt'.daddr = sent.daddr /\ pkt'.dport = sent.dport
      BY <1>6, <1>7
    <2>3. pkt'.daddr # sent.daddr => ServiceOf(pkt'.daddr) = {}
      BY <1>9
    <2>4. pkt'.daddr \in Destinations(sent)
      BY <1>9 DEF Destinations
    <2>5. /\ ServiceOf(sent.daddr)' = ServiceOf(sent.daddr)
          /\ ServiceOf(pkt.daddr)' = ServiceOf(pkt'.daddr)
          /\ \A s : Healthy(s)' = Healthy(s) /\ ReadyBackends(s)' = ReadyBackends(s)
      BY <1>10 DEF ServiceOf, Healthy, ReadyBackends, PortOf
    <2>6. Destinations(sent)' = Destinations(sent)
      BY <1>10
    <2> QED
      BY <1>8, <1>10, <2>1, <2>2, <2>3, <2>4, <2>5, <2>6 DEF Translated
  <1>12. pkt'.saddr = sent.saddr
    BY <1>4, <1>5
  <1> QED
    BY <1>1, <1>5, <1>10, <1>11, <1>12 DEF PathInv, AnswersComeBack, ClusterSeesPods

LEMMA FilterPathInv == PathInv /\ Filter => PathInv'
  <1> SUFFICES ASSUME PathInv, Filter PROVE PathInv'
    OBVIOUS
  <1> DEFINE h == StartedAt("filter", IF sent.local THEN "output" ELSE "forward")
             do == Verdict(kernel, pkt)[h]
  <1>1. /\ Settled /\ sent \in Packets /\ DOMAIN pkt = DOMAIN sent
        /\ Translated /\ pkt.saddr = sent.saddr
        /\ UNCHANGED <<vars, sent>>
        /\ pkt' = [pkt EXCEPT !.oifname = Route[pkt.daddr]]
    BY DEF PathInv, Filter
  <1>2. hook' = IF ~sent.local /\ Route[pkt.daddr] = "lo" THEN "delivered"
                ELSE IF do = Reject THEN "rejected" ELSE "postrouting"
    BY DEF Filter, Decided
  <1>3. h \in {"hook-filter-forward", "hook-filter-local-out"}
    BY HookChains
  <1>4. eps \in Endpoints /\ svcs \in SUBSET Services /\ Accepted(BuildConfig(eps, svcs))
          /\ do = Walked(eps, svcs, pkt)[h]
    BY <1>1 DEF Settled, Walked
  <1>5. DOMAIN sent = {"saddr", "daddr", "l4proto", "dport", "oifname", "local"}
    BY <1>1, NetworkAssumption
  <1> HIDE DEF h, do
  <1>6. /\ DOMAIN pkt' = DOMAIN sent
        /\ \A f \in DOMAIN sent \ {"oifname"} : pkt'[f] = pkt[f]
        /\ pkt'.oifname = Route[pkt'.daddr]
        /\ pkt'.daddr = pkt.daddr /\ pkt'.dport = pkt.dport /\ pkt'.saddr = pkt.saddr
    BY <1>1, <1>5
  \* Rejected exactly what is still for a service.
  <1>7. ServiceOf(pkt.daddr) # {} <=> do = Reject
    <2>1. (\E s \in svcs : HasClusterIP(s) /\ SpecOf[s].ip = pkt.daddr) => do = Reject
      BY <1>3, <1>4, FilterVerdict
    <2>2. (\A s \in svcs : HasClusterIP(s) => SpecOf[s].ip # pkt.daddr) => do # Reject
      BY <1>3, <1>4, FilterVerdict
    <2> QED
      BY <2>1, <2>2 DEF ServiceOf
  <1>8. Route[pkt.daddr] = "lo" => ServiceOf(pkt.daddr) = {}
    BY <1>4, NetworkAssumption DEF ServiceOf
  <1>9. /\ Settled' /\ sent' = sent /\ svcs' = svcs /\ eps' = eps
    BY <1>1 DEF vars, Settled
  <1>10. /\ \A x : ServiceOf(x)' = ServiceOf(x)
         /\ \A s : Healthy(s)' = Healthy(s) /\ ReadyBackends(s)' = ReadyBackends(s)
         /\ Destinations(sent)' = Destinations(sent)
         /\ ServiceOf(pkt.daddr)' = ServiceOf(pkt.daddr)
         /\ ServiceOf(sent.daddr)' = ServiceOf(sent.daddr)
    BY <1>6, <1>9 DEF ServiceOf, Healthy, ReadyBackends, PortOf
  <1>11. Translated'
    BY <1>1, <1>5, <1>6, <1>9, <1>10 DEF Translated
  <1>12. /\ hook' \in {"delivered", "rejected", "postrouting"}
         /\ hook' \in {"delivered", "postrouting"} => ServiceOf(pkt.daddr)' = {}
         /\ hook' = "rejected" => ServiceOf(pkt.daddr)' # {}
    BY <1>2, <1>7, <1>8, <1>10
  <1> QED
    BY <1>1, <1>6, <1>9, <1>11, <1>12 DEF PathInv, AnswersComeBack, ClusterSeesPods

\* What the source NAT of the table and the routes around it make of the answer.
LEMMA SourceNatPathInv == PathInv /\ SourceNat => PathInv'
  <1> SUFFICES ASSUME PathInv, SourceNat PROVE PathInv'
    OBVIOUS
  <1> DEFINE do == Verdict(kernel, pkt)["hook-nat-postrouting"]
             iface == Route[pkt.daddr]
  <1>1. /\ Settled /\ sent \in Packets /\ DOMAIN pkt = DOMAIN sent
        /\ Translated /\ pkt.saddr = sent.saddr /\ pkt.oifname = iface
        /\ ServiceOf(pkt.daddr) = {}
        /\ UNCHANGED <<vars, sent>> /\ hook' = "left"
        /\ pkt' = IF do = Masquerade THEN [pkt EXCEPT !.saddr = AddrOn[iface]] ELSE pkt
    BY HookChains DEF PathInv, SourceNat, Decided
  <1>2. eps \in Endpoints /\ svcs \in SUBSET Services /\ Accepted(BuildConfig(eps, svcs))
          /\ do = Walked(eps, svcs, pkt)["hook-nat-postrouting"]
    BY <1>1 DEF Settled, Walked
  <1>3. DOMAIN sent = {"saddr", "daddr", "l4proto", "dport", "oifname", "local"}
    BY <1>1, NetworkAssumption
  <1>4. /\ iface = VpnIface /\ (sent.saddr = NodeIP \/ PodIP(sent.saddr))
             /\ sent.saddr # pkt.daddr => do # Masquerade
        /\ iface = VpnIface /\ sent.saddr # NodeIP /\ ~PodIP(sent.saddr) => do = Masquerade
        /\ iface \notin {"lo", VpnIface} /\ PodIP(sent.saddr) => do = Masquerade
    <2>1. Undecided # Masquerade
      BY DEF Undecided, Masquerade
    <2> QED
      BY <1>1, <1>2, <2>1, PostroutingVerdict
  \* The network around the table.
  <1>5. /\ sent.local = (Route[sent.saddr] = "lo")
        /\ ~sent.local => PodIP(sent.saddr) \/ Route[sent.saddr] = VpnIface
        /\ PodIP(sent.saddr) \/ sent.saddr = NodeIP =>
             Route[sent.saddr] # VpnIface /\ sent.saddr \in Answered[VpnIface]
        /\ AddrOn[iface] \in Answered[iface] /\ Route[AddrOn[iface]] = "lo"
        /\ iface # VpnIface /\ (iface = "lo" \/ ~PodIP(sent.saddr)) =>
             sent.saddr \in Answered[iface]
    <2>1. iface \in {Route[d] : d \in Destinations(sent)}
      BY <1>1 DEF Translated
    <2> HIDE DEF iface
    <2> QED
      BY <1>1, <2>1, NetworkAssumption
  <1> HIDE DEF do, iface
  <1>6. /\ DOMAIN pkt' = DOMAIN sent
        /\ \A f \in DOMAIN sent \ {"saddr"} : pkt'[f] = pkt[f]
        /\ pkt'.daddr = pkt.daddr /\ pkt'.dport = pkt.dport /\ pkt'.oifname = iface
        /\ do = Masquerade => pkt'.saddr = AddrOn[iface]
        /\ do # Masquerade => pkt'.saddr = sent.saddr
    BY <1>1, <1>3
  <1>7. /\ pkt'.saddr \in Answered[iface]
        /\ pkt.daddr = sent.saddr /\ iface # "lo" => pkt'.saddr # sent.saddr
        /\ iface = VpnIface /\ (sent.saddr = NodeIP \/ PodIP(sent.saddr)) =>
             pkt'.saddr = sent.saddr
    <2>1. pkt.daddr = sent.saddr => iface = Route[sent.saddr]
      BY DEF iface
    <2>2. CASE do = Masquerade
      <3>1. iface = VpnIface /\ (sent.saddr = NodeIP \/ PodIP(sent.saddr)) => FALSE
        BY <1>4, <1>5, <2>1, <2>2
      <3>2. pkt.daddr = sent.saddr /\ iface # "lo" => AddrOn[iface] # sent.saddr
        BY <1>5, <2>1
      <3> QED
        BY <1>5, <1>6, <2>2, <3>1, <3>2
    <2>3. CASE do # Masquerade
      <3>1. pkt'.saddr \in Answered[iface]
        BY <1>4, <1>5, <1>6, <2>3
      <3>2. pkt.daddr = sent.saddr /\ iface # "lo" => FALSE
        BY <1>4, <1>5, <2>1, <2>3
      <3> QED
        BY <1>6, <2>3, <3>1, <3>2
    <2> QED
      BY <2>2, <2>3
  <1>8. /\ Settled' /\ sent' = sent /\ svcs' = svcs /\ eps' = eps
    BY <1>1 DEF vars, Settled
  <1>9. /\ \A s : Healthy(s)' = Healthy(s) /\ ReadyBackends(s)' = ReadyBackends(s)
        /\ Destinations(sent)' = Destinations(sent)
        /\ ServiceOf(pkt.daddr)' = ServiceOf(pkt.daddr)
        /\ ServiceOf(sent.daddr)' = ServiceOf(sent.daddr)
    BY <1>6, <1>8 DEF ServiceOf, Healthy, ReadyBackends, PortOf
  <1>10. Translated'
    BY <1>1, <1>3, <1>6, <1>8, <1>9 DEF Translated
  <1>11. AnswersComeBack' /\ ClusterSeesPods'
    BY <1>6, <1>7, <1>8 DEF AnswersComeBack, ClusterSeesPods
  <1> QED
    BY <1>1, <1>6, <1>8, <1>9, <1>10, <1>11 DEF PathInv, iface

LEMMA NextPathInv == PathInv /\ [PathNext]_pathVars => PathInv'
  <1> SUFFICES ASSUME PathInv, [PathNext]_pathVars PROVE PathInv'
    OBVIOUS
  <1>1. CASE UNCHANGED pathVars
    <2>1. /\ UNCHANGED <<svcs, eps, timer, sync, latest, kernel, doubt, changes>>
          /\ sent' = sent /\ pkt' = pkt /\ hook' = hook
      BY <1>1 DEF pathVars, vars
    <2>2. /\ \A s : Healthy(s)' = Healthy(s) /\ ReadyBackends(s)' = ReadyBackends(s)
          /\ ServiceOf(pkt.daddr)' = ServiceOf(pkt.daddr)
          /\ ServiceOf(sent.daddr)' = ServiceOf(sent.daddr)
          /\ Destinations(sent)' = Destinations(sent)
      BY <2>1 DEF ServiceOf, Healthy, ReadyBackends, PortOf
    <2>3. Settled => Settled'
      BY <2>1 DEF Settled
    <2>4. Translated => Translated'
      BY <2>1, <2>2 DEF Translated
    <2>5. (AnswersComeBack => AnswersComeBack') /\ (ClusterSeesPods => ClusterSeesPods')
      BY <2>1 DEF AnswersComeBack, ClusterSeesPods
    <2> QED
      BY <2>1, <2>2, <2>3, <2>4, <2>5 DEF PathInv
  <1> QED
    BY <1>1, DestinationNatPathInv, FilterPathInv, SourceNatPathInv DEF PathNext

\* Services are served, whatever the Services, the Endpoints and the packet: a packet
\* for a port of a ClusterIP that has a ready backend reaches one, at the port it has
\* there; ICMP reaches a healthy address; every other packet for a ClusterIP is
\* rejected and never leaves, and no packet for another address is touched.
THEOREM ServicesServedThm == PathSpec => []ServicesServed
  <1>1. PathInv => ServicesServed
    <2> SUFFICES ASSUME PathInv, hook \in {"delivered", "rejected", "left"}
                 PROVE  /\ ServiceOf(sent.daddr) = {} =>
                             hook # "rejected" /\ pkt.daddr = sent.daddr /\ pkt.dport = sent.dport
                        /\ \A s \in ServiceOf(sent.daddr) :
                             CASE sent.l4proto = "ICMP" /\ Healthy(s) # {} ->
                                    hook # "rejected" /\ pkt.daddr \in Healthy(s)
                               [] ReadyBackends(s) # {} ->
                                    hook # "rejected" /\
                                    [ip |-> pkt.daddr, port |-> pkt.dport] \in ReadyBackends(s)
                               [] OTHER -> hook = "rejected"
      BY DEF ServicesServed
    <2>1. /\ Settled /\ sent \in Packets /\ Translated
          /\ hook # "rejected" => ServiceOf(pkt.daddr) = {}
          /\ hook = "rejected" => ServiceOf(pkt.daddr) # {}
      BY DEF PathInv
    <2>2. ServiceOf(sent.daddr) = {} =>
            hook # "rejected" /\ pkt.daddr = sent.daddr /\ pkt.dport = sent.dport
      BY <2>1 DEF Translated
    <2>3. ASSUME NEW s \in ServiceOf(sent.daddr)
          PROVE  CASE sent.l4proto = "ICMP" /\ Healthy(s) # {} ->
                        hook # "rejected" /\ pkt.daddr \in Healthy(s)
                   [] ReadyBackends(s) # {} ->
                        hook # "rejected" /\
                        [ip |-> pkt.daddr, port |-> pkt.dport] \in ReadyBackends(s)
                   [] OTHER -> hook = "rejected"
      <3>1. s \in svcs /\ HasClusterIP(s)
        BY DEF ServiceOf
      <3>2. pkt.daddr \in Healthy(s) => hook # "rejected"
        BY <2>1, <3>1, BackendsOf
      <3>3. /\ [ip |-> pkt.daddr, port |-> pkt.dport] \in ReadyBackends(s) =>
                 pkt.daddr \in Healthy(s)
            /\ ReadyBackends(s) # {} => sent.l4proto # "ICMP"
        BY <2>1, <3>1, ReadyIsServed
      <3>4. IF sent.l4proto = "ICMP" /\ Healthy(s) # {} THEN pkt.daddr \in Healthy(s)
            ELSE IF ReadyBackends(s) # {}
              THEN [ip |-> pkt.daddr, port |-> pkt.dport] \in ReadyBackends(s)
            ELSE pkt.daddr = sent.daddr
        BY <2>1 DEF Translated
      <3>5. CASE sent.l4proto = "ICMP" /\ Healthy(s) # {}
        BY <3>2, <3>3, <3>4, <3>5
      <3>6. CASE ~(sent.l4proto = "ICMP" /\ Healthy(s) # {}) /\ ReadyBackends(s) # {}
        BY <3>2, <3>3, <3>4, <3>6
      <3>7. CASE ~(sent.l4proto = "ICMP" /\ Healthy(s) # {}) /\ ReadyBackends(s) = {}
        BY <2>1, <3>4, <3>7
      <3> QED
        BY <3>5, <3>6, <3>7
    <2> QED
      BY <2>2, <2>3
  <1> QED
    BY <1>1, InitPathInv, NextPathInv, PTL DEF PathSpec

\* What leaves can be answered: masquerading gives a packet a source its other side has
\* a way back to wherever its own is none, and a pod never sees its own address.
THEOREM AnswersComeBackThm == PathSpec => []AnswersComeBack
  BY InitPathInv, NextPathInv, PTL DEF PathSpec, PathInv

\* And not where it has one: no pod of this node, nor the node, is masqueraded on its way
\* into the VPN.
THEOREM ClusterSeesPodsThm == PathSpec => []ClusterSeesPods
  BY InitPathInv, NextPathInv, PTL DEF PathSpec, PathInv

=============================================================================
