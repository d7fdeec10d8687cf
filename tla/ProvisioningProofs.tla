------------------------- MODULE ProvisioningProofs -------------------------
(***************************************************************************)
(* Proofs about Provisioning, for any set of nodes, keys and routers,      *)
(* whatever their address pools, and for any number of stale reads,        *)
(* conflicts, crashes and deleted Node objects: the type invariant, that   *)
(* no two interfaces share addresses, that the router can tell whose they  *)
(* are, and that the allocation table is an AddressBook.                   *)
(***************************************************************************)
EXTENDS Provisioning, TLAPS

-----------------------------------------------------------------------------
(* Rows and addresses *)

\* The row NewAllocation puts together is a row: the walks give addresses and
\* networks of their pools.
LEMMA NewRowIsRow ==
  ASSUME NEW t, NEW r \in Routers, NEW i \in FreeIps(t, r), NEW p \in FreeNets(t, r),
         NEW k \in Keys, NEW n \in Nodes
  PROVE  [key |-> k, name |-> n, router |-> r, ip |-> i, net |-> p] \in Rows
<1>1. i \in UNION {NodeIPs[q] : q \in Routers}
  BY DEF FreeIps
<1>2. p \in UNION {PodNets[q] : q \in Routers}
  BY DEF FreeNets
<1> QED
  BY <1>1, <1>2 DEF Rows

\* Of the fields of a row the rest of the proof needs only these.
LEMMA RowFields == \A a \in Rows : a.key \in Keys /\ a.name \in Nodes
BY DEF Rows

\* Two subnets overlap in either order.
LEMMA OverlapSymmetric == \A x, y : Overlap(x, y) <=> Overlap(y, x)
BY DEF Overlap

\* Clashing, in terms of this specification's own subnets.
LEMMA ClashMeans ==
  \A a, b : Book!Clash(a, b) <=>
              a.key = b.key \/ Overlap(a.ip, b.ip) \/ Overlap(a.net, b.net)
BY DEF Book!Clash, Book!Overlap, Book!InSubnet, Book!Masked, Book!Size,
       Overlap, InSubnet, Masked, Size

LEMMA ClashSymmetric == \A a, b : Book!Clash(a, b) <=> Book!Clash(b, a)
BY ClashMeans, OverlapSymmetric

\* The new row clashes with none of the rows it was chosen against.
LEMMA NewRowIsFree ==
  ASSUME NEW t, NEW r, NEW i \in FreeIps(t, r), NEW p \in FreeNets(t, r),
         NEW k, NEW n, ~\E a \in t : a.key = k
  PROVE  \A a \in t :
           ~Book!Clash(a, [key |-> k, name |-> n, router |-> r, ip |-> i, net |-> p])
BY ClashMeans DEF FreeIps, FreeNets

-----------------------------------------------------------------------------
(* Types *)

\* An update by name of a Node object, or by row of a table, is one.
LEMMA NodeUpdate ==
  ASSUME NEW o \in NodeObjects, NEW k \in Keys \union {None}, NEW b \in BOOLEAN,
         NEW c \in BOOLEAN
  PROVE  /\ [o EXCEPT !.key = k] \in NodeObjects
         /\ [o EXCEPT !.cluster = b, !.cfg = c] \in NodeObjects
BY DEF NodeObjects

LEMMA InitType == Init => TypeOK
<1> SUFFICES ASSUME Init PROVE TypeOK
  OBVIOUS
<1>1. NoTable \in Tables /\ NoConf \in Confs /\ 0 \in 0 .. MaxUid
  BY PoolsAssumption DEF NoTable, Tables, NoConf, Confs
<1>2. /\ node \in [Nodes -> NodeObjects \union {None}]
      /\ cfgs \in [Nodes -> Cfgs \union {None}]
      /\ issued \in [Keys -> Nodes \union {None}]
      /\ conf \in [Nodes -> Confs]
      /\ iface \in [Nodes -> Confs \union {None}]
      /\ rekeyed \in [Nodes -> BOOLEAN]
  BY <1>1 DEF Init
<1>3. /\ dpc \in [Nodes -> {"down", "watch", "key", "keywrite", "publish", "getcfg",
                           "read", "confwrite", "start", "joined"}]
      /\ dview \in [Nodes -> NodeObjects \union {None}]
      /\ dcl \in [Nodes -> BOOLEAN]
      /\ dpub \in [Nodes -> Keys \union {None}]
      /\ drow \in [Nodes -> Rows \union {None}]
  BY DEF Init
<1>4. /\ cnodes \in [Nodes -> NodeObjects \union {None}]
      /\ ccfgs \in [Nodes -> Cfgs \union {None}]
  BY DEF Init
<1> QED
  BY <1>1, <1>2, <1>3, <1>4 DEF Init, TypeOK

\* Exit and Die reset what they reset to values of the right types.
LEMMA ExitType ==
  ASSUME TypeOK, NEW n \in Nodes, Exit(n)
  PROVE  /\ dpc' \in [Nodes -> {"down", "watch", "key", "keywrite", "publish",
                                "getcfg", "read", "confwrite", "start", "joined"}]
         /\ dview' \in [Nodes -> NodeObjects \union {None}]
         /\ dcl' \in [Nodes -> BOOLEAN]
         /\ dpub' \in [Nodes -> Keys \union {None}]
         /\ drow' \in [Nodes -> Rows \union {None}]
BY DEF TypeOK, Exit, Go

LEMMA DieType ==
  ASSUME Die
  PROVE  /\ cpc' \in {"down", "idle", "bootstrap", "loop", "config", "annotate"}
         /\ cnodes' \in [Nodes -> NodeObjects \union {None}]
         /\ ccfgs' \in [Nodes -> Cfgs \union {None}]
         /\ ctable' \in Tables
         /\ fresh' \in BOOLEAN
         /\ todo' \subseteq Nodes
         /\ cur' \in Nodes \union {None}
         /\ known' \in Tables
         /\ crow' \in Rows \union {None}
BY DEF Die, NoTable, Tables

\* Every step of a daemon keeps the types.
LEMMA DaemonType ==
  ASSUME TypeOK, NEW n \in Nodes, DaemonSteps(n) \/ DaemonCrash(n)
  PROVE  TypeOK'
<1> USE DEF api, disk, daemon, caches, work, Go
<1>1. CASE DaemonStart(n)
  BY <1>1 DEF TypeOK, DaemonStart
<1>2. CASE RegisterNode(n)
  BY <1>2, PoolsAssumption DEF TypeOK, RegisterNode, NodeObjects
<1>3. CASE ObserveNode(n)
  BY <1>3 DEF TypeOK, ObserveNode, Step3
<1>4. CASE EnsureKeyMaterial(n)
  <2>1. conf[n] \in Confs
    BY DEF TypeOK
  <2>2. dpub' \in [Nodes -> Keys \union {None}]
    BY <1>4, <2>1 DEF TypeOK, EnsureKeyMaterial, Confs
  <2>3. conf' \in [Nodes -> Confs]
    BY <1>4 DEF TypeOK, EnsureKeyMaterial, Confs, NoConf
  <2>4. dpc' = [dpc EXCEPT ![n] = "publish"] \/ dpc' = [dpc EXCEPT ![n] = "keywrite"]
    BY <1>4 DEF EnsureKeyMaterial
  <2> QED
    BY <1>4, <2>2, <2>3, <2>4 DEF TypeOK, EnsureKeyMaterial
<1>5. CASE WriteKey(n)
  BY <1>5 DEF TypeOK, WriteKey, Confs
<1>6. CASE PublishKey(n)
  <2>1. node' \in [Nodes -> NodeObjects \union {None}]
    <3>1. CASE UNCHANGED node
      BY <3>1 DEF TypeOK
    <3>2. CASE node[n] # None /\ node' = [node EXCEPT ![n].key = dpub[n]]
      <4>1. [node[n] EXCEPT !.key = dpub[n]] \in NodeObjects
        <5>1. node[n] \in NodeObjects /\ dpub[n] \in Keys \union {None}
          BY <3>2 DEF TypeOK
        <5> QED
          BY <5>1, NodeUpdate
      <4> QED
        BY <3>2, <4>1 DEF TypeOK
    <3> QED
      BY <1>6, <3>1, <3>2 DEF PublishKey
  <2>2. CASE Exit(n)
    BY <1>6, <2>1, <2>2, ExitType DEF TypeOK, PublishKey
  <2>3. CASE dpc' = [dpc EXCEPT ![n] = Step3(dview[n])]
               /\ UNCHANGED <<dview, dcl, dpub, drow>>
    BY <1>6, <2>1, <2>3 DEF TypeOK, PublishKey, Step3
  <2> QED
    BY <1>6, <2>2, <2>3 DEF PublishKey
<1>7. CASE GetNodeConfigMap(n)
  BY <1>7, ExitType DEF TypeOK, GetNodeConfigMap, Cfgs
<1>8. CASE ReadConf(n)
  BY <1>8 DEF TypeOK, ReadConf, Confs, NoConf
<1>9. CASE WriteConf(n)
  BY <1>9 DEF TypeOK, WriteConf, Confs
<1>10. CASE StartInterface(n)
  BY <1>10, ExitType DEF TypeOK, StartInterface
<1>11. CASE NodeDisappeared(n)
  BY <1>11, ExitType DEF TypeOK, NodeDisappeared
<1>12. CASE DaemonCrash(n)
  BY <1>12, ExitType DEF TypeOK, DaemonCrash
<1> QED
  BY <1>1, <1>2, <1>3, <1>4, <1>5, <1>6, <1>7, <1>8, <1>9, <1>10, <1>11, <1>12
  DEF DaemonSteps

\* So does every step of the controller.
LEMMA ControllerType ==
  ASSUME TypeOK, LoopConsistent, LoopSteps \/ SeeNodes \/ SeeConfigMaps \/ ControllerCrash
  PROVE  TypeOK'
<1> USE DEF api, disk, daemon, caches, work
<1>1. CASE ControllerStart
  BY <1>1 DEF TypeOK, ControllerStart
<1>2. CASE BeginLoop
  BY <1>2 DEF TypeOK, BeginLoop
<1>3. CASE BootstrapTable
  BY <1>3, DieType DEF TypeOK, BootstrapTable, Tables
<1>4. CASE EndLoop
  BY <1>4 DEF TypeOK, EndLoop, NoTable, Tables
<1>5. ASSUME NEW n \in Nodes, PatchNode(n)
      PROVE  TypeOK'
  <2>1. ASSUME node[n] # None
        PROVE  node' \in [Nodes -> NodeObjects \union {None}]
    <3>1. node[n] \in NodeObjects
      BY <2>1 DEF TypeOK
    <3>2. (node[n].cfg \/ ccfgs[n] # None) \in BOOLEAN
      BY <3>1 DEF NodeObjects
    <3>3. [node[n] EXCEPT !.cluster = TRUE, !.cfg = @ \/ ccfgs[n] # None]
             \in NodeObjects
      BY <3>1, <3>2, NodeUpdate
    <3> QED
      BY <1>5, <2>1, <3>3 DEF TypeOK, PatchNode
  <2> QED
    BY <1>5, <2>1, DieType DEF TypeOK, PatchNode
<1>6. ASSUME NEW n \in Nodes, FoundAllocation(n)
      PROVE  TypeOK'
  BY <1>6 DEF TypeOK, FoundAllocation, Tables
<1>7. ASSUME NEW n \in Nodes, NewAllocation(n)
      PROVE  TypeOK'
  <2>1. cnodes[n].key \in Keys
    BY <1>7 DEF TypeOK, LoopConsistent, NewAllocation, NeedsConfig, NodeObjects
  <2>2. PICK a \in Rows :
          /\ ReplaceTable(known.rows \union {a})
          /\ known' = table'
          /\ UNCHANGED ctable \/ ctable' = [ctable EXCEPT !.rows = @ \union {a}]
          /\ crow' = a
    BY <1>7, <2>1, NewRowIsRow DEF NewAllocation, Lowest, First, Open
  <2>3. table' \in Tables /\ ctable' \in Tables
    BY <2>2 DEF TypeOK, ReplaceTable, Tables
  <2> QED
    BY <1>7, <2>2, <2>3 DEF TypeOK, NewAllocation
<1>8. ASSUME NEW n \in Nodes, AllocationFails(n)
      PROVE  TypeOK'
  BY <1>8, DieType DEF TypeOK, AllocationFails
<1>9. CASE CreateNodeConfig
  <2>1. ASSUME cfgs[cur] = None
        PROVE  cfgs' \in [Nodes -> Cfgs \union {None}]
    <3>1. /\ cnodes[cur] \in NodeObjects
          /\ crow \in Rows
      BY <1>9 DEF TypeOK, LoopConsistent, CreateNodeConfig, RowOf, Tables
    <3>2. [owner |-> cnodes[cur].uid, row |-> crow] \in Cfgs
      BY <3>1 DEF NodeObjects, Cfgs
    <3> QED
      BY <1>9, <2>1, <3>2 DEF TypeOK, CreateNodeConfig
  <2> QED
    BY <1>9, <2>1, DieType DEF TypeOK, CreateNodeConfig
<1>10. CASE AnnotateNode
  <2>1. ASSUME node[cur] # None
        PROVE  node' \in [Nodes -> NodeObjects \union {None}]
    <3>1. cur \in Nodes
      BY <1>10 DEF TypeOK, LoopConsistent, AnnotateNode
    <3>2. [node[cur] EXCEPT !.cluster = TRUE, !.cfg = TRUE] \in NodeObjects
      BY <2>1, <3>1, NodeUpdate DEF TypeOK
    <3> QED
      BY <1>10, <2>1, <3>1, <3>2 DEF TypeOK, AnnotateNode
  <2> QED
    BY <1>10, <2>1, DieType DEF TypeOK, AnnotateNode
<1>11. CASE SeeNodes
  BY <1>11 DEF TypeOK, SeeNodes
<1>12. CASE SeeConfigMaps
  BY <1>12 DEF TypeOK, SeeConfigMaps
<1>13. CASE ControllerCrash
  BY <1>13, DieType DEF TypeOK, ControllerCrash
<1> QED
  BY <1>1, <1>2, <1>3, <1>4, <1>5, <1>6, <1>7, <1>8, <1>9, <1>10, <1>11, <1>12,
     <1>13
  DEF LoopSteps

\* And what happens around them.
LEMMA AroundType ==
  ASSUME TypeOK, NEW n \in Nodes, DeleteNode(n) \/ CollectConfigMap(n)
  PROVE  TypeOK'
BY DEF TypeOK, DeleteNode, CollectConfigMap, api, disk, daemon, caches, work

-----------------------------------------------------------------------------
(* The parts of the invariant, one by one *)

\* The controller passes keys on too: it never changes one, of Node objects it knows
\* what it was shown, and rows come to the table in NewAllocation alone.
LEMMA ControllerKeys ==
  ASSUME ProvInv, LoopSteps \/ SeeNodes \/ SeeConfigMaps \/ ControllerCrash
  PROVE  /\ UNCHANGED <<disk, daemon>>
         /\ \A m \in Nodes : node'[m] # None =>
                               node[m] # None /\ node'[m].key = node[m].key
         /\ \A m \in Nodes : cnodes'[m] \in {cnodes[m], node[m], None}
         /\ UNCHANGED table.rows \/ \E n \in Nodes : NewAllocation(n)
         /\ UNCHANGED table \/ BootstrapTable \/ \E n \in Nodes : NewAllocation(n)
<1> USE DEF api, disk, daemon, caches, work
<1>1. CASE ControllerStart
  BY <1>1 DEF ControllerStart
<1>2. CASE BeginLoop
  BY <1>2 DEF BeginLoop
<1>3. CASE BootstrapTable
  BY <1>3 DEF BootstrapTable, Die, ProvInv, TableRight
<1>4. CASE EndLoop
  BY <1>4 DEF EndLoop
<1>5. ASSUME NEW n \in Nodes, PatchNode(n)
      PROVE  /\ UNCHANGED <<table, disk, daemon>>
             /\ \A m \in Nodes : cnodes'[m] \in {cnodes[m], None}
             /\ \A m \in Nodes : node'[m] # None =>
                                   node[m] # None /\ node'[m].key = node[m].key
  BY <1>5 DEF PatchNode, Die, ProvInv, TypeOK, NodeObjects
<1>6. ASSUME NEW n \in Nodes, FoundAllocation(n)
      PROVE  UNCHANGED <<node, cnodes, table, disk, daemon>>
  BY <1>6 DEF FoundAllocation
<1>7. ASSUME NEW n \in Nodes, NewAllocation(n)
      PROVE  UNCHANGED <<node, cnodes, disk, daemon>>
  BY <1>7 DEF NewAllocation
<1>8. ASSUME NEW n \in Nodes, AllocationFails(n)
      PROVE  /\ UNCHANGED <<node, table, disk, daemon>>
             /\ \A m \in Nodes : cnodes'[m] = None
  BY <1>8 DEF AllocationFails, Die
<1>9. CASE CreateNodeConfig
  BY <1>9 DEF CreateNodeConfig, Die
<1>10. CASE AnnotateNode
  <2>1. /\ UNCHANGED <<table, disk, daemon>>
        /\ \A m \in Nodes : cnodes'[m] \in {cnodes[m], None}
    BY <1>10 DEF AnnotateNode, Die
  <2>2. \A m \in Nodes : node'[m] # None =>
                           node[m] # None /\ node'[m].key = node[m].key
    BY <1>10 DEF AnnotateNode, ProvInv, TypeOK, NodeObjects
  <2> QED
    BY <2>1, <2>2
<1>11. CASE SeeNodes
  BY <1>11 DEF SeeNodes
<1>12. CASE SeeConfigMaps
  BY <1>12 DEF SeeConfigMaps
<1>13. CASE ControllerCrash
  BY <1>13 DEF ControllerCrash, Die
<1> QED
  BY <1>1, <1>2, <1>3, <1>4, <1>5, <1>6, <1>7, <1>8, <1>9, <1>10, <1>11, <1>12,
     <1>13
  DEF LoopSteps

\* What PublishKey puts into the Node object is the key in the file and in memory.
LEMMA PublishedKey ==
  ASSUME ProvInv, NEW n \in Nodes, PublishKey(n)
  PROVE  /\ UNCHANGED <<conf, iface, cnodes, issued, table, rekeyed>>
         /\ \A m \in Nodes : dview'[m] \in {dview[m], None}
                             /\ dpub'[m] \in {dpub[m], None}
         /\ \A m \in Nodes : node'[m] # None =>
                               node[m] # None /\ node'[m].key \in {node[m].key, dpub[m]}
         /\ dpc[n] = "publish" /\ dpub[n] = conf[n].key /\ dpc'[n] # "confwrite"
         /\ \A m \in Nodes : m # n => dpc'[m] = dpc[m] /\ dpub'[m] = dpub[m]
<1> USE DEF Exit, Go, disk, caches
<1>1. /\ UNCHANGED <<conf, iface, cnodes, issued, table, rekeyed>>
      /\ \A m \in Nodes : dview'[m] \in {dview[m], None} /\ dpub'[m] \in {dpub[m], None}
      /\ \A m \in Nodes : m # n => dpc'[m] = dpc[m] /\ dpub'[m] = dpub[m]
  BY DEF PublishKey, ProvInv, TypeOK
<1>2. \A m \in Nodes : node'[m] # None =>
                         node[m] # None /\ node'[m].key \in {node[m].key, dpub[m]}
  BY DEF PublishKey, ProvInv, TypeOK, NodeObjects
<1>3. dpc[n] = "publish" /\ dpub[n] = conf[n].key
  BY DEF PublishKey, ProvInv, DaemonConsistent
<1>4. dpc'[n] # "confwrite"
  BY DEF PublishKey, ProvInv, TypeOK, Step3
<1> QED
  BY <1>1, <1>2, <1>3, <1>4

\* WriteKey takes a key made nowhere before, and every other step passes keys on
\* within a node; a new row is for the key and the name of one node.
LEMMA KeysOwnedStep ==
  ASSUME ProvInv, Next
  PROVE  KeysOwned'
<1> USE DEF api, disk, daemon, caches, work, Go, KeysOwned, KeysAmong, Made
<1>1. ASSUME NEW n \in Nodes, DaemonStart(n)
      PROVE  KeysOwned'
  BY <1>1 DEF ProvInv, TypeOK, DaemonStart
<1>2. ASSUME NEW n \in Nodes, RegisterNode(n)
      PROVE  KeysOwned'
  BY <1>2 DEF ProvInv, TypeOK, RegisterNode
<1>3. ASSUME NEW n \in Nodes, ObserveNode(n)
      PROVE  KeysOwned'
  BY <1>3 DEF ProvInv, TypeOK, ObserveNode
<1>4. ASSUME NEW n \in Nodes, EnsureKeyMaterial(n)
      PROVE  KeysOwned'
  BY <1>4 DEF ProvInv, TypeOK, EnsureKeyMaterial, NoConf
<1>5. ASSUME NEW n \in Nodes, WriteKey(n)
      PROVE  KeysOwned'
  <2>1. PICK k \in Keys :
          /\ issued[k] = None
          /\ issued' = [issued EXCEPT ![k] = n]
          /\ conf' = [conf EXCEPT ![n] = [key |-> k, row |-> None]]
          /\ dpub' = [dpub EXCEPT ![n] = k]
    BY <1>5 DEF WriteKey
  <2>2. issued'[k] = n /\ \A j \in Keys : issued[j] # None => issued'[j] = issued[j]
    BY <2>1 DEF ProvInv, TypeOK
  <2>3. \A m \in Nodes : Made(m) \subseteq Made(m)' /\ k \in Made(n)'
    BY <2>1, <2>2, PoolsAssumption
  <2>4. \A m \in Nodes : KeysAmong(m, Made(m))'
    BY <1>5, <2>1, <2>3 DEF ProvInv, TypeOK, WriteKey
  <2>5. \A a \in table.rows : a.key \in Keys /\ a.name \in Nodes
    BY RowFields DEF ProvInv, TypeOK, Tables
  <2> QED
    BY <1>5, <2>2, <2>4, <2>5, PoolsAssumption DEF ProvInv, WriteKey
<1>6. ASSUME NEW n \in Nodes, PublishKey(n)
      PROVE  KeysOwned'
  BY <1>6, PublishedKey DEF ProvInv
<1>7. ASSUME NEW n \in Nodes, GetNodeConfigMap(n)
      PROVE  KeysOwned'
  BY <1>7 DEF ProvInv, TypeOK, GetNodeConfigMap, Exit
<1>8. ASSUME NEW n \in Nodes, ReadConf(n)
      PROVE  KeysOwned'
  BY <1>8 DEF ProvInv, TypeOK, ReadConf, NoConf
<1>9. ASSUME NEW n \in Nodes, WriteConf(n)
      PROVE  KeysOwned'
  BY <1>9 DEF ProvInv, TypeOK, WriteConf
<1>10. ASSUME NEW n \in Nodes, StartInterface(n)
       PROVE  KeysOwned'
  BY <1>10 DEF ProvInv, TypeOK, StartInterface, Exit
<1>11. ASSUME NEW n \in Nodes, NodeDisappeared(n)
       PROVE  KeysOwned'
  BY <1>11 DEF ProvInv, TypeOK, NodeDisappeared, Exit
<1>12. ASSUME NEW n \in Nodes, DaemonCrash(n)
       PROVE  KeysOwned'
  BY <1>12 DEF ProvInv, TypeOK, DaemonCrash, Exit
<1>13. ASSUME NEW n \in Nodes, NewAllocation(n)
       PROVE  KeysOwned'
  <2>1. cnodes[n] # None /\ cnodes[n].key # None
    BY <1>13 DEF ProvInv, LoopConsistent, NewAllocation, NeedsConfig
  <2>2. issued[cnodes[n].key] = n
    BY <2>1 DEF ProvInv
  <2>3. PICK a :
          a.key = cnodes[n].key /\ a.name = n /\ table'.rows = known.rows \union {a}
    BY <1>13 DEF NewAllocation, ReplaceTable
  <2>4. \A b \in table'.rows : issued[b.key] = b.name
    BY <2>2, <2>3 DEF ProvInv, LoopConsistent, Behind
  <2> QED
    BY <1>13, <2>4 DEF ProvInv, NewAllocation
<1>14. ASSUME LoopSteps \/ SeeNodes \/ SeeConfigMaps \/ ControllerCrash,
              ~\E n \in Nodes : NewAllocation(n)
       PROVE  KeysOwned'
  BY <1>14, ControllerKeys DEF ProvInv
<1>15. ASSUME NEW n \in Nodes, DeleteNode(n)
       PROVE  KeysOwned'
  BY <1>15 DEF ProvInv, TypeOK, DeleteNode
<1>16. ASSUME NEW n \in Nodes, CollectConfigMap(n)
       PROVE  KeysOwned'
  BY <1>16 DEF ProvInv, TypeOK, CollectConfigMap
<1> QED
  BY <1>1, <1>2, <1>3, <1>4, <1>5, <1>6, <1>7, <1>8, <1>9, <1>10, <1>11, <1>12,
     <1>13, <1>14, <1>15, <1>16
  DEF Next, DaemonSteps, Disturbances

\* A node whose key is not lost has that one key only: a new one is made only when
\* there was none, and a new row is for the key the node published.
LEMMA OneKeyStep ==
  ASSUME ProvInv, Next
  PROVE  OneKey'
<1> USE DEF api, disk, daemon, caches, work, Go, OneKey, KeysAmong, TheKey
<1>1. ASSUME NEW n \in Nodes, DaemonStart(n)
      PROVE  OneKey'
  BY <1>1 DEF ProvInv, TypeOK, DaemonStart
<1>2. ASSUME NEW n \in Nodes, RegisterNode(n)
      PROVE  OneKey'
  BY <1>2 DEF ProvInv, TypeOK, RegisterNode
<1>3. ASSUME NEW n \in Nodes, ObserveNode(n)
      PROVE  OneKey'
  BY <1>3 DEF ProvInv, TypeOK, ObserveNode, Step3
<1>4. ASSUME NEW n \in Nodes, EnsureKeyMaterial(n)
      PROVE  OneKey'
  BY <1>4 DEF ProvInv, TypeOK, EnsureKeyMaterial, NoConf
<1>5. ASSUME NEW n \in Nodes, WriteKey(n)
      PROVE  OneKey'
  <2>1. PICK k \in Keys :
          /\ conf' = [conf EXCEPT ![n] = [key |-> k, row |-> None]]
          /\ dpub' = [dpub EXCEPT ![n] = k]
    BY <1>5 DEF WriteKey
  <2>2. dpc[n] = "keywrite" /\ conf[n].key = None /\ dpc' = [dpc EXCEPT ![n] = "publish"]
    BY <1>5 DEF WriteKey, ProvInv, DaemonConsistent
  <2>3. \A a \in table.rows : a.key # None
    BY RowFields, PoolsAssumption DEF ProvInv, TypeOK, Tables
  <2>4. \A m \in Nodes : m # n => /\ conf'[m] = conf[m] /\ dpub'[m] = dpub[m]
                                  /\ dpc'[m] = dpc[m]
    BY <2>1, <2>2 DEF ProvInv, TypeOK
  <2>5. conf'[n].key = k /\ dpub'[n] = k /\ dpc'[n] = "publish"
    BY <2>1, <2>2 DEF ProvInv, TypeOK
  <2> QED
    BY <1>5, <2>2, <2>3, <2>4, <2>5 DEF ProvInv, WriteKey
<1>6. ASSUME NEW n \in Nodes, PublishKey(n)
      PROVE  OneKey'
  BY <1>6, PublishedKey DEF ProvInv
<1>7. ASSUME NEW n \in Nodes, GetNodeConfigMap(n)
      PROVE  OneKey'
  BY <1>7 DEF ProvInv, TypeOK, GetNodeConfigMap, Exit
<1>8. ASSUME NEW n \in Nodes, ReadConf(n)
      PROVE  OneKey'
  BY <1>8 DEF ProvInv, TypeOK, ReadConf, NoConf
<1>9. ASSUME NEW n \in Nodes, WriteConf(n)
      PROVE  OneKey'
  BY <1>9 DEF ProvInv, TypeOK, WriteConf
<1>10. ASSUME NEW n \in Nodes, StartInterface(n)
       PROVE  OneKey'
  BY <1>10 DEF ProvInv, TypeOK, StartInterface, Exit
<1>11. ASSUME NEW n \in Nodes, NodeDisappeared(n)
       PROVE  OneKey'
  BY <1>11 DEF ProvInv, TypeOK, NodeDisappeared, Exit
<1>12. ASSUME NEW n \in Nodes, DaemonCrash(n)
       PROVE  OneKey'
  BY <1>12 DEF ProvInv, TypeOK, DaemonCrash, Exit
<1>13. ASSUME NEW n \in Nodes, NewAllocation(n)
       PROVE  OneKey'
  <2>1. cnodes[n] # None /\ cnodes[n].key # None
    BY <1>13 DEF ProvInv, LoopConsistent, NewAllocation, NeedsConfig
  <2>2. PICK a :
          a.key = cnodes[n].key /\ a.name = n /\ table'.rows = known.rows \union {a}
    BY <1>13 DEF NewAllocation, ReplaceTable
  <2>3. UNCHANGED <<node, cnodes, disk, daemon>>
    BY <1>13 DEF NewAllocation
  <2> QED
    BY <2>1, <2>2, <2>3 DEF ProvInv, LoopConsistent, Behind
<1>14. ASSUME LoopSteps \/ SeeNodes \/ SeeConfigMaps \/ ControllerCrash,
              ~\E n \in Nodes : NewAllocation(n)
       PROVE  OneKey'
  BY <1>14, ControllerKeys DEF ProvInv
<1>15. ASSUME NEW n \in Nodes, DeleteNode(n)
       PROVE  OneKey'
  BY <1>15 DEF ProvInv, TypeOK, DeleteNode
<1>16. ASSUME NEW n \in Nodes, CollectConfigMap(n)
       PROVE  OneKey'
  BY <1>16 DEF ProvInv, CollectConfigMap
<1> QED
  BY <1>1, <1>2, <1>3, <1>4, <1>5, <1>6, <1>7, <1>8, <1>9, <1>10, <1>11, <1>12,
     <1>13, <1>14, <1>15, <1>16
  DEF Next, DaemonSteps, Disturbances

\* A new row joins all the rows there are: the table the loop adds it to is the one
\* it replaces.
LEMMA NewAllocationRow ==
  ASSUME ProvInv, NEW n \in Nodes, NewAllocation(n)
  PROVE  \E a \in Rows :
           /\ a.key = cnodes[n].key /\ a.name = n
           /\ table' = [version |-> table.version + 1, rows |-> table.rows \union {a}]
           /\ \A b \in table.rows : ~Book!Clash(b, a)
           /\ crow' = a
           /\ known' = table'
           /\ UNCHANGED ctable \/ ctable' = [ctable EXCEPT !.rows = @ \union {a}]
<1>1. cnodes[n].key \in Keys
  BY DEF ProvInv, TypeOK, LoopConsistent, NewAllocation, NeedsConfig, NodeObjects
<1> DEFINE Row(r, i, p) == [key |-> cnodes[n].key, name |-> n, router |-> r, ip |-> i,
                            net |-> p]
<1>2. PICK r \in Lowest(Open(known.rows)) :
        \E i \in First(FreeIps(known.rows, r)), p \in First(FreeNets(known.rows, r)) :
          /\ ReplaceTable(known.rows \union {Row(r, i, p)})
          /\ known' = table'
          /\ UNCHANGED ctable \/ ctable' = [ctable EXCEPT !.rows = @ \union {Row(r, i, p)}]
          /\ crow' = Row(r, i, p)
  BY DEF NewAllocation
<1>3. PICK i \in First(FreeIps(known.rows, r)), p \in First(FreeNets(known.rows, r)) :
        /\ ReplaceTable(known.rows \union {Row(r, i, p)})
        /\ known' = table'
        /\ UNCHANGED ctable \/ ctable' = [ctable EXCEPT !.rows = @ \union {Row(r, i, p)}]
        /\ crow' = Row(r, i, p)
  BY <1>2
<1> DEFINE a == Row(r, i, p)
<1>4. r \in Routers /\ i \in FreeIps(known.rows, r) /\ p \in FreeNets(known.rows, r)
  BY DEF Lowest, Open, First
<1>5. a \in Rows
  BY <1>1, <1>4, NewRowIsRow
<1>6. known.rows = table.rows
  BY <1>3 DEF ReplaceTable, ProvInv, LoopConsistent, Behind
<1>7. ~\E b \in known.rows : b.key = cnodes[n].key
  BY DEF NewAllocation
<1>8. \A b \in known.rows : ~Book!Clash(b, a)
  BY <1>4, <1>7, NewRowIsFree
<1>9. a.key = cnodes[n].key /\ a.name = n
  OBVIOUS
<1> HIDE DEF a
<1>10. /\ table' = [version |-> table.version + 1, rows |-> table.rows \union {a}]
       /\ known' = table'
       /\ UNCHANGED ctable \/ ctable' = [ctable EXCEPT !.rows = @ \union {a}]
       /\ crow' = a
  BY <1>3, <1>6 DEF ReplaceTable, a
<1> QED
  BY <1>5, <1>6, <1>8, <1>9, <1>10

\* What happens on the nodes, or around them, leaves the controller and the table alone.
LEMMA DaemonFrame ==
  ASSUME NEW n \in Nodes,
         DaemonSteps(n) \/ DaemonCrash(n) \/ DeleteNode(n) \/ CollectConfigMap(n)
  PROVE  UNCHANGED <<table, cpc, caches, work>>
<1> USE DEF api
<1>1. CASE DaemonSteps(n) \/ DaemonCrash(n)
  BY <1>1 DEF DaemonSteps, DaemonStart, RegisterNode, ObserveNode, EnsureKeyMaterial,
              WriteKey, PublishKey, GetNodeConfigMap, ReadConf, WriteConf,
              StartInterface, NodeDisappeared, DaemonCrash
<1>2. CASE DeleteNode(n) \/ CollectConfigMap(n)
  BY <1>2 DEF DeleteNode, CollectConfigMap
<1> QED
  BY <1>1, <1>2

\* Rows are only ever added, one in NewAllocation and none in any other step.
LEMMA RowsStay ==
  ASSUME ProvInv, Next, ~\E n \in Nodes : NewAllocation(n)
  PROVE  UNCHANGED table.rows /\ (UNCHANGED table \/ BootstrapTable)
<1> USE DEF api
<1>1. ASSUME NEW n \in Nodes, \/ DaemonSteps(n) \/ DaemonCrash(n)
                              \/ DeleteNode(n) \/ CollectConfigMap(n)
      PROVE  UNCHANGED table
  BY <1>1, DaemonFrame
<1> QED
  BY <1>1, ControllerKeys DEF Next, Disturbances

LEMMA RowsGrow ==
  ASSUME ProvInv, Next
  PROVE  table.rows \subseteq table'.rows
BY RowsStay, NewAllocationRow

\* The row a ConfigMap hands over was allocated to its node, and the daemon writes,
\* and brings its interface up with, what it was handed.
LEMMA RowsOwnedStep ==
  ASSUME ProvInv, Next
  PROVE  RowsOwned'
<1> USE DEF api, disk, daemon, caches, work, Go, RowsOwned
<1>0. \A m \in Nodes : RowOf(m) \subseteq RowOf(m)'
  BY RowsGrow DEF RowOf
<1>1. ASSUME NEW n \in Nodes, DaemonStart(n)
      PROVE  RowsOwned'
  BY <1>1, <1>0 DEF ProvInv, TypeOK, DaemonStart
<1>2. ASSUME NEW n \in Nodes, RegisterNode(n)
      PROVE  RowsOwned'
  BY <1>2, <1>0 DEF ProvInv, TypeOK, RegisterNode
<1>3. ASSUME NEW n \in Nodes, ObserveNode(n)
      PROVE  RowsOwned'
  BY <1>3, <1>0 DEF ProvInv, TypeOK, ObserveNode, Step3
<1>4. ASSUME NEW n \in Nodes, EnsureKeyMaterial(n)
      PROVE  RowsOwned'
  BY <1>4, <1>0 DEF ProvInv, TypeOK, EnsureKeyMaterial, NoConf
<1>5. ASSUME NEW n \in Nodes, WriteKey(n)
      PROVE  RowsOwned'
  BY <1>5, <1>0 DEF ProvInv, TypeOK, WriteKey
<1>6. ASSUME NEW n \in Nodes, PublishKey(n)
      PROVE  RowsOwned'
  BY <1>6, <1>0 DEF ProvInv, TypeOK, PublishKey, Step3, Exit
<1>7. ASSUME NEW n \in Nodes, GetNodeConfigMap(n)
      PROVE  RowsOwned'
  BY <1>7, <1>0 DEF ProvInv, TypeOK, GetNodeConfigMap, Exit
<1>8. ASSUME NEW n \in Nodes, ReadConf(n)
      PROVE  RowsOwned'
  BY <1>8, <1>0 DEF ProvInv, TypeOK, ReadConf, NoConf
<1>9. ASSUME NEW n \in Nodes, WriteConf(n)
      PROVE  RowsOwned'
  BY <1>9, <1>0 DEF ProvInv, TypeOK, WriteConf
<1>10. ASSUME NEW n \in Nodes, StartInterface(n)
       PROVE  RowsOwned'
  <2>1. conf[n].row \in RowOf(n) /\ conf[n].key \in Keys
    BY <1>10 DEF ProvInv, TypeOK, Confs, DaemonConsistent, StartInterface
  <2>2. \A m \in Nodes : iface'[m] = IF m = n THEN conf[n] ELSE iface[m]
    BY <1>10 DEF ProvInv, TypeOK, StartInterface
  <2>3. /\ UNCHANGED <<cfgs, conf>>
        /\ \A m \in Nodes : \/ dpc'[m] = "down"
                            \/ dpc'[m] = dpc[m] /\ drow'[m] = drow[m]
    BY <1>10 DEF ProvInv, TypeOK, StartInterface, Exit
  <2> QED
    BY <1>0, <2>1, <2>2, <2>3 DEF ProvInv
<1>11. ASSUME NEW n \in Nodes, NodeDisappeared(n)
       PROVE  RowsOwned'
  BY <1>11, <1>0 DEF ProvInv, TypeOK, NodeDisappeared, Exit
<1>12. ASSUME NEW n \in Nodes, DaemonCrash(n)
       PROVE  RowsOwned'
  BY <1>12, <1>0 DEF ProvInv, TypeOK, DaemonCrash, Exit
<1>13. CASE CreateNodeConfig
  <2>1. CASE cfgs[cur] = None
    <3>1. crow \in RowOf(cur)
      BY <1>13 DEF CreateNodeConfig, ProvInv, LoopConsistent
    <3>2. \A m \in Nodes : cfgs'[m] = cfgs[m] \/ (m = cur /\ cfgs'[m].row = crow)
      <4>1. cfgs' = [cfgs EXCEPT ![cur] = [owner |-> cnodes[cur].uid, row |-> crow]]
        BY <1>13, <2>1 DEF CreateNodeConfig
      <4> QED
        BY <4>1 DEF ProvInv, TypeOK
    <3> QED
      BY <1>0, <1>13, <2>1, <3>1, <3>2 DEF CreateNodeConfig, ProvInv
  <2>2. CASE UNCHANGED cfgs
    BY <1>0, <1>13, <2>2 DEF CreateNodeConfig, ProvInv
  <2> QED
    BY <1>13, <2>1, <2>2 DEF CreateNodeConfig
<1>14. ASSUME LoopSteps \/ SeeNodes \/ SeeConfigMaps \/ ControllerCrash,
              ~CreateNodeConfig
       PROVE  RowsOwned'
  <2>1. UNCHANGED cfgs
    BY <1>14 DEF LoopSteps, SeeNodes, SeeConfigMaps, ControllerCrash, ControllerStart,
       BeginLoop, BootstrapTable, EndLoop, PatchNode, FoundAllocation, NewAllocation,
       AllocationFails, AnnotateNode
  <2> QED
    BY <1>0, <1>14, <2>1, ControllerKeys DEF ProvInv
<1>15. ASSUME NEW n \in Nodes, DeleteNode(n)
       PROVE  RowsOwned'
  BY <1>0, <1>15 DEF ProvInv, DeleteNode
<1>16. ASSUME NEW n \in Nodes, CollectConfigMap(n)
       PROVE  RowsOwned'
  BY <1>0, <1>16 DEF ProvInv, TypeOK, CollectConfigMap
<1> QED
  BY <1>1, <1>2, <1>3, <1>4, <1>5, <1>6, <1>7, <1>8, <1>9, <1>10, <1>11, <1>12,
     <1>13, <1>14, <1>15, <1>16
  DEF Next, DaemonSteps, Disturbances

\* Nobody but the daemon itself touches its memory and its file.
LEMMA DaemonConsistentStep ==
  ASSUME ProvInv, Next
  PROVE  DaemonConsistent'
<1> USE DEF api, disk, daemon, caches, work, Go, DaemonConsistent
<1>1. ASSUME NEW n \in Nodes, DaemonStart(n)
      PROVE  DaemonConsistent'
  BY <1>1 DEF ProvInv, TypeOK, DaemonStart
<1>2. ASSUME NEW n \in Nodes, RegisterNode(n)
      PROVE  DaemonConsistent'
  BY <1>2 DEF ProvInv, TypeOK, RegisterNode
<1>3. ASSUME NEW n \in Nodes, ObserveNode(n)
      PROVE  DaemonConsistent'
  BY <1>3 DEF ProvInv, TypeOK, ObserveNode, Step3
<1>4. ASSUME NEW n \in Nodes, EnsureKeyMaterial(n)
      PROVE  DaemonConsistent'
  BY <1>4 DEF ProvInv, TypeOK, EnsureKeyMaterial, NoConf
<1>5. ASSUME NEW n \in Nodes, WriteKey(n)
      PROVE  DaemonConsistent'
  <2>1. PICK k \in Keys :
          /\ conf' = [conf EXCEPT ![n] = [key |-> k, row |-> None]]
          /\ dpub' = [dpub EXCEPT ![n] = k]
    BY <1>5 DEF WriteKey
  <2> QED
    BY <1>5, <2>1, PoolsAssumption DEF ProvInv, TypeOK, WriteKey
<1>6. ASSUME NEW n \in Nodes, PublishKey(n)
      PROVE  DaemonConsistent'
  BY <1>6 DEF ProvInv, TypeOK, PublishKey, Step3, Exit
<1>7. ASSUME NEW n \in Nodes, GetNodeConfigMap(n)
      PROVE  DaemonConsistent'
  BY <1>7 DEF ProvInv, TypeOK, GetNodeConfigMap, Exit
<1>8. ASSUME NEW n \in Nodes, ReadConf(n)
      PROVE  DaemonConsistent'
  BY <1>8 DEF ProvInv, TypeOK, ReadConf, NoConf
<1>9. ASSUME NEW n \in Nodes, WriteConf(n)
      PROVE  DaemonConsistent'
  BY <1>9 DEF ProvInv, TypeOK, WriteConf
<1>10. ASSUME NEW n \in Nodes, StartInterface(n)
       PROVE  DaemonConsistent'
  BY <1>10 DEF ProvInv, TypeOK, StartInterface, Exit
<1>11. ASSUME NEW n \in Nodes, NodeDisappeared(n)
       PROVE  DaemonConsistent'
  BY <1>11 DEF ProvInv, TypeOK, NodeDisappeared, Exit
<1>12. ASSUME NEW n \in Nodes, DaemonCrash(n)
       PROVE  DaemonConsistent'
  BY <1>12 DEF ProvInv, TypeOK, DaemonCrash, Exit
<1>13. ASSUME LoopSteps \/ SeeNodes \/ SeeConfigMaps \/ ControllerCrash
       PROVE  DaemonConsistent'
  BY <1>13, ControllerKeys DEF ProvInv
<1>14. ASSUME NEW n \in Nodes, DeleteNode(n) \/ CollectConfigMap(n)
       PROVE  DaemonConsistent'
  BY <1>14 DEF ProvInv, DeleteNode, CollectConfigMap
<1> QED
  BY <1>1, <1>2, <1>3, <1>4, <1>5, <1>6, <1>7, <1>8, <1>9, <1>10, <1>11, <1>12,
     <1>13, <1>14
  DEF Next, DaemonSteps, Disturbances

\* The new row clashes with none, and no other step adds one.
LEMMA TableRightStep ==
  ASSUME ProvInv, Next
  PROVE  TableRight'
<1>1. ASSUME NEW n \in Nodes, NewAllocation(n)
      PROVE  TableRight'
  BY <1>1, NewAllocationRow, ClashSymmetric DEF TableRight, ProvInv, TypeOK, Tables
<1>2. CASE UNCHANGED table.rows /\ (UNCHANGED table \/ BootstrapTable)
  BY <1>2 DEF TableRight, ProvInv, BootstrapTable
<1> QED
  BY <1>1, <1>2, RowsStay

\* A controller that starts over has everything to find out.
LEMMA DieConsistent ==
  ASSUME ProvInv, Die, UNCHANGED table
  PROVE  LoopConsistent'
BY DEF ProvInv, TypeOK, Tables, TableRight, Die, LoopConsistent, Behind, NoTable

\* What the controller works on it has seen, the row it hands over is the node's, and
\* no table of its is ahead of the API's, or differs from it at the same version.
LEMMA LoopConsistentStep ==
  ASSUME ProvInv, Next
  PROVE  LoopConsistent'
<1> USE DEF api, disk, daemon, caches, work
<1>1. CASE ControllerStart
  BY <1>1 DEF ProvInv, TypeOK, Tables, LoopConsistent, Behind, ControllerStart
<1>2. CASE BeginLoop
  BY <1>2 DEF ProvInv, TypeOK, Tables, LoopConsistent, Behind, BeginLoop
<1>3. CASE BootstrapTable
  BY <1>3, DieConsistent
  DEF ProvInv, TypeOK, Tables, TableRight, LoopConsistent, Behind, BootstrapTable
<1>4. CASE EndLoop
  BY <1>4
  DEF ProvInv, TypeOK, Tables, TableRight, LoopConsistent, Behind, NoTable, EndLoop
<1>5. ASSUME NEW n \in Nodes, PatchNode(n)
      PROVE  LoopConsistent'
  BY <1>5, DieConsistent DEF ProvInv, LoopConsistent, Behind, RowOf, PatchNode
<1>6. ASSUME NEW n \in Nodes, FoundAllocation(n)
      PROVE  LoopConsistent'
  <2>1. cnodes[n] # None /\ cnodes[n].key # None
    BY <1>6 DEF FoundAllocation, NeedsConfig, ProvInv, LoopConsistent
  <2>2. issued[cnodes[n].key] = n
    BY <2>1 DEF ProvInv, KeysOwned, KeysAmong, Made
  <2>3. crow' \in RowOf(n)
    BY <1>6, <2>2
    DEF ProvInv, KeysOwned, LoopConsistent, Behind, RowOf, FoundAllocation
  <2> QED
    BY <1>6, <2>3 DEF ProvInv, LoopConsistent, Behind, RowOf, FoundAllocation
<1>7. ASSUME NEW n \in Nodes, NewAllocation(n)
      PROVE  LoopConsistent'
  <2>1. PICK a \in Rows :
          /\ a.name = n
          /\ table' = [version |-> table.version + 1, rows |-> table.rows \union {a}]
          /\ crow' = a
          /\ known' = table'
          /\ UNCHANGED ctable \/ ctable' = [ctable EXCEPT !.rows = @ \union {a}]
    BY <1>7, NewAllocationRow
  <2>2. Behind(known)'
    BY <2>1 DEF ProvInv, TypeOK, Tables, Behind
  <2>3. Behind(ctable)'
    BY <2>1 DEF ProvInv, TypeOK, Tables, LoopConsistent, Behind
  <2> QED
    BY <1>7, <2>1, <2>2, <2>3 DEF ProvInv, LoopConsistent, RowOf, NewAllocation
<1>8. ASSUME NEW n \in Nodes, AllocationFails(n)
      PROVE  LoopConsistent'
  BY <1>8, DieConsistent DEF AllocationFails
<1>9. CASE CreateNodeConfig
  BY <1>9, DieConsistent DEF ProvInv, LoopConsistent, Behind, RowOf, CreateNodeConfig
<1>10. CASE AnnotateNode
  BY <1>10, DieConsistent DEF ProvInv, LoopConsistent, Behind, RowOf, AnnotateNode
<1>11. CASE SeeNodes
  BY <1>11 DEF ProvInv, LoopConsistent, Behind, SeeNodes
<1>12. CASE SeeConfigMaps
  BY <1>12 DEF ProvInv, TypeOK, Tables, LoopConsistent, Behind, SeeConfigMaps
<1>13. CASE ControllerCrash
  BY <1>13, DieConsistent DEF ControllerCrash
<1>14. ASSUME NEW n \in Nodes, \/ DaemonSteps(n) \/ DaemonCrash(n)
                               \/ DeleteNode(n) \/ CollectConfigMap(n)
       PROVE  LoopConsistent'
  BY <1>14, DaemonFrame DEF ProvInv, LoopConsistent, Behind, RowOf
<1> QED
  BY <1>1, <1>2, <1>3, <1>4, <1>5, <1>6, <1>7, <1>8, <1>9, <1>10, <1>11, <1>12,
     <1>13, <1>14
  DEF Next, LoopSteps, Disturbances

-----------------------------------------------------------------------------
(* The invariant *)

LEMMA InitInv == Init => ProvInv
<1> SUFFICES ASSUME Init PROVE ProvInv
  OBVIOUS
<1>1. TypeOK
  BY InitType
<1>2. KeysOwned /\ OneKey
  <2>1. \A n \in Nodes : /\ conf[n].key = None /\ dpub[n] = None
                         /\ node[n] = None /\ dview[n] = None
                         /\ cnodes[n] = None /\ iface[n] = None
    BY DEF Init, NoConf
  <2>2. table.rows = {}
    BY DEF Init, NoTable
  <2> QED
    BY <2>1, <2>2 DEF KeysOwned, OneKey, KeysAmong, Made
<1>3. RowsOwned /\ DaemonConsistent
  BY DEF Init, RowsOwned, DaemonConsistent, NoTable, NoConf
<1>4. LoopConsistent /\ TableRight
  BY DEF Init, LoopConsistent, Behind, TableRight, NoTable
<1> QED
  BY <1>1, <1>2, <1>3, <1>4 DEF ProvInv

LEMMA NextInv == ProvInv /\ [Next]_vars => ProvInv'
<1> SUFFICES ASSUME ProvInv, [Next]_vars PROVE ProvInv'
  OBVIOUS
<1>1. CASE Next
  <2>1. TypeOK'
    BY <1>1, DaemonType, ControllerType, AroundType DEF ProvInv, Next, Disturbances
  <2> QED
    BY <1>1, <2>1, KeysOwnedStep, OneKeyStep, RowsOwnedStep, DaemonConsistentStep,
       LoopConsistentStep, TableRightStep
    DEF ProvInv
<1>2. CASE UNCHANGED vars
  BY <1>2
  DEF vars, api, disk, daemon, caches, work, ProvInv, TypeOK, KeysOwned, KeysAmong, Made,
      OneKey, TheKey, RowsOwned, RowOf, DaemonConsistent, LoopConsistent, Behind,
      TableRight
<1> QED
  BY <1>1, <1>2

LEMMA InvHolds == Spec => []ProvInv
BY InitInv, NextInv, PTL DEF Spec

-----------------------------------------------------------------------------
(* The theorems *)

\* Every variable keeps to its type.
THEOREM ProvisioningTypeCorrect == Spec => []TypeOK
<1>1. ProvInv => TypeOK
  BY DEF ProvInv
<1> QED
  BY <1>1, InvHolds, PTL

\* No two interfaces have the same address or overlapping pod networks.
THEOREM AddressesAreNotShared == Spec => []NoSharedAddress
<1>1. ProvInv => NoSharedAddress
  <2> SUFFICES ASSUME ProvInv, NEW m \in Nodes, NEW n \in Nodes, m # n,
                      iface[m] # None, iface[n] # None
               PROVE  /\ ~Overlap(iface[m].row.ip, iface[n].row.ip)
                      /\ ~Overlap(iface[m].row.net, iface[n].row.net)
    BY DEF NoSharedAddress
  <2>1. /\ iface[m].row \in table.rows /\ iface[m].row.name = m
        /\ iface[n].row \in table.rows /\ iface[n].row.name = n
    BY DEF ProvInv, RowsOwned, RowOf
  <2> QED
    BY <2>1, ClashMeans DEF ProvInv, TableRight
<1> QED
  BY <1>1, InvHolds, PTL

\* An interface is up under the key of its row of the table, unless its node lost it.
THEOREM RouterCanTell == Spec => []RouterKnowsNode
<1>1. ProvInv => RouterKnowsNode
  <2> SUFFICES ASSUME ProvInv, NEW n \in Nodes, iface[n] # None, ~rekeyed[n]
               PROVE  iface[n].row \in table.rows /\ iface[n].row.key = iface[n].key
    BY DEF RouterKnowsNode
  <2>1. /\ iface[n].row \in table.rows /\ iface[n].row.name = n
        /\ iface[n].key \in Keys
    BY DEF ProvInv, RowsOwned, RowOf
  <2>2. iface[n].key = TheKey(n)
    BY <2>1, PoolsAssumption DEF ProvInv, OneKey, KeysAmong
  <2> QED
    BY <2>1, <2>2 DEF ProvInv, OneKey
<1> QED
  BY <1>1, InvHolds, PTL

\* The allocation table is an address book: NewAllocation adds a row to it,
\* StartInterface takes one of them into use, and nothing else shows.
THEOREM TableIsBook == Spec => ImplementsBook
<1>1. Init => Book!Init
  BY DEF Init, NoTable, Book!Init
<1>2. ProvInv /\ [Next]_vars => [Book!Next]_Book!vars
  <2> SUFFICES ASSUME ProvInv, [Next]_vars
               PROVE  Book!Next \/ UNCHANGED Book!vars
    OBVIOUS
  <2> USE DEF Book!vars
  <2>1. ASSUME NEW n \in Nodes, NewAllocation(n)
        PROVE  Book!Next
    <3>1. PICK a \in Rows :
            /\ table' = [version |-> table.version + 1, rows |-> table.rows \union {a}]
            /\ \A b \in table.rows : ~Book!Clash(b, a)
            /\ a.key = cnodes[n].key
      BY <2>1, NewAllocationRow
    <3>2. UNCHANGED iface
      BY <2>1 DEF NewAllocation, disk
    <3>3. Book!Allocate(a)
      BY <3>1, <3>2 DEF Book!Allocate
    <3>4. a \notin table.rows
      BY <3>1, ClashMeans
    <3> QED
      BY <3>1, <3>3, <3>4 DEF Book!Next
  <2>2. ASSUME NEW n \in Nodes, StartInterface(n)
        PROVE  Book!Next
    <3>1. PICK row \in table.rows : row = conf[n].row /\ row.name = n
      BY <2>2 DEF ProvInv, RowsOwned, RowOf, StartInterface
    <3>2. UNCHANGED table /\ iface' = [iface EXCEPT ![n] = conf[n]]
      BY <2>2 DEF StartInterface, api
    <3>3. conf[n] # None
      BY NoneAssumption DEF ProvInv, TypeOK
    <3>4. Book!Use(n, row)
      BY <3>1, <3>2, <3>3 DEF Book!Use, ProvInv, TypeOK
    <3> QED
      BY <3>1, <3>4 DEF Book!Next
  <2>3. ASSUME Next, ~\E n \in Nodes : NewAllocation(n) \/ StartInterface(n)
        PROVE  UNCHANGED <<table.rows, iface>>
    <3>1. UNCHANGED table.rows
      BY <2>3, RowsStay
    <3>2. UNCHANGED iface
      BY <2>3, ControllerKeys
      DEF Next, DaemonSteps, Disturbances, DaemonStart, RegisterNode, ObserveNode,
          EnsureKeyMaterial, WriteKey, PublishKey, GetNodeConfigMap, ReadConf, WriteConf,
          NodeDisappeared, DaemonCrash, DeleteNode, CollectConfigMap, disk
    <3> QED
      BY <3>1, <3>2
  <2> QED
    BY <2>1, <2>2, <2>3 DEF vars, api, disk
<1> QED
  BY <1>1, <1>2, InvHolds, PTL DEF Spec, Book!Spec, ImplementsBook
=============================================================================
