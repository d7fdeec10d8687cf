---------------------------- MODULE Provisioning ----------------------------
(***************************************************************************)
(* How a new node gets its addresses: the cluster's node-controller and    *)
(* the node's selfprovision.Perform work on the same Node object and       *)
(* ConfigMaps through the API.  The node publishes a WireGuard public key, *)
(* the controller adds a row to the allocation table, writes the node's    *)
(* ConfigMap and points the node to it, and the node writes its WireGuard  *)
(* configuration, starts the interface and exits.                          *)
(*                                                                         *)
(* The controller acts on what its reflectors last delivered: Nodes and    *)
(* ConfigMaps arrive separately, and each may be older than the            *)
(* controller's own writes.  The table carries a resourceVersion, counted  *)
(* here from the writes to it, and is only replaced at the version it was  *)
(* read.  The loop adds a row to the object its reflector gave it before   *)
(* it sends that to the API; whether this object is the reflector's own or *)
(* a copy is the library's affair, and both are modelled.  An uncaught     *)
(* error ends the controller or the daemon, and either is started again.   *)
(*                                                                         *)
(* Node addresses and pod networks are subnets, as the walk of IpWalker    *)
(* visits them.  A truncated wg-quick file reads as one without a private  *)
(* key.                                                                    *)
(***************************************************************************)
EXTENDS IpWalker, FiniteSets

CONSTANTS
  Nodes,    \* node names
  Keys,     \* WireGuard keys that may be generated, never the same one twice
  Routers,  \* the routers of the cluster configuration, in order
  NodePool, \* the pool of node addresses of each
  PodPool,  \* the pool of pod networks of each
  PodPrefixLen, \* the prefix length of a pod network of each
  MaxUid,   \* bound on the Node objects ever created
  None      \* no object, no key, nothing being worked on

ASSUME PoolsAssumption ==
  /\ Routers \subseteq Nat
  /\ NodePool \in [Routers -> Nets]
  /\ PodPool \in [Routers -> Nets]
  /\ PodPrefixLen \in [Routers -> PrefixLens]
  /\ MaxUid \in Nat
  /\ None \notin Keys \union Nodes

VARIABLES
  node,    \* the Node objects: UID and the three annotations
  table,   \* the allocation table: its rows, its version, 0 before it is made
  cfgs,    \* each node's ConfigMap: the UID of its owner and the row in it
  uid,     \* UIDs used so far
  issued,  \* the node each key was made on, None before
  conf,    \* /etc/wireguard/<iface>.conf: private key and row
  iface,   \* the interface that is up
  rekeyed, \* history: the node lost the key it had published
  dpc,     \* where the daemon is
  dview,   \* the Node object observeNode is looking at
  dcl,     \* clusterCfg is set
  dpub,    \* wgPubKey
  drow,    \* the row read from the node's ConfigMap
  cpc,     \* where the controller is
  cnodes,  \* the Nodes as its reflector delivered them
  ccfgs,   \* the nodes' ConfigMaps, likewise
  ctable,  \* the allocation table, likewise
  fresh,   \* something was delivered since the last loop began
  todo,    \* nodes the loop has still to work on
  cur,     \* the node it is working on
  known,   \* allocationCfgMap, the table as the loop knows it
  crow     \* allocation

api == <<node, table, cfgs, uid>>
disk == <<issued, conf, iface, rekeyed>>
daemon == <<dpc, dview, dcl, dpub, drow>>
caches == <<cnodes, ccfgs, ctable, fresh>>
work == <<todo, cur, known, crow>>
vars == <<api, disk, daemon, cpc, caches, work>>

NodeObjects == [uid : 1 .. MaxUid, cluster : BOOLEAN, cfg : BOOLEAN,
                key : Keys \union {None}]

\* What the walks of the routers' pools visit.
NodeIPs == [r \in Routers |-> Walk(NodePool[r], Bits)]
PodNets == [r \in Routers |-> Walk(PodPool[r], PodPrefixLen[r])]

Rows == [key : Keys, name : Nodes, router : Routers,
         ip : UNION {NodeIPs[r] : r \in Routers},
         net : UNION {PodNets[r] : r \in Routers}]
Cfgs == [owner : 1 .. MaxUid, row : Rows]
Confs == [key : Keys \union {None}, row : Rows \union {None}]

Tables == [version : Nat, rows : SUBSET Rows]

ASSUME NoneAssumption == None \notin Confs

NoTable == [version |-> 0, rows |-> {}]
NoConf == [key |-> None, row |-> None]

TypeOK ==
  /\ node \in [Nodes -> NodeObjects \union {None}]
  /\ table \in Tables
  /\ cfgs \in [Nodes -> Cfgs \union {None}]
  /\ uid \in 0 .. MaxUid
  /\ issued \in [Keys -> Nodes \union {None}]
  /\ conf \in [Nodes -> Confs]
  /\ iface \in [Nodes -> Confs \union {None}]
  /\ rekeyed \in [Nodes -> BOOLEAN]
  /\ dpc \in [Nodes -> {"down", "watch", "key", "keywrite", "publish", "getcfg",
                        "read", "confwrite", "start", "joined"}]
  /\ dview \in [Nodes -> NodeObjects \union {None}]
  /\ dcl \in [Nodes -> BOOLEAN]
  /\ dpub \in [Nodes -> Keys \union {None}]
  /\ drow \in [Nodes -> Rows \union {None}]
  /\ cpc \in {"down", "idle", "bootstrap", "loop", "config", "annotate"}
  /\ cnodes \in [Nodes -> NodeObjects \union {None}]
  /\ ccfgs \in [Nodes -> Cfgs \union {None}]
  /\ ctable \in Tables
  /\ fresh \in BOOLEAN
  /\ todo \subseteq Nodes
  /\ cur \in Nodes \union {None}
  /\ known \in Tables
  /\ crow \in Rows \union {None}

\* A cluster with its configuration and no pet in it.
Init ==
  /\ node = [n \in Nodes |-> None]
  /\ table = NoTable
  /\ cfgs = [n \in Nodes |-> None]
  /\ uid = 0
  /\ issued = [k \in Keys |-> None]
  /\ conf = [n \in Nodes |-> NoConf]
  /\ iface = [n \in Nodes |-> None]
  /\ rekeyed = [n \in Nodes |-> FALSE]
  /\ dpc = [n \in Nodes |-> "down"]
  /\ dview = [n \in Nodes |-> None]
  /\ dcl = [n \in Nodes |-> FALSE]
  /\ dpub = [n \in Nodes |-> None]
  /\ drow = [n \in Nodes |-> None]
  /\ cpc = "down"
  /\ cnodes = [n \in Nodes |-> None]
  /\ ccfgs = [n \in Nodes |-> None]
  /\ ctable = NoTable
  /\ fresh = FALSE
  /\ todo = {}
  /\ cur = None
  /\ known = NoTable
  /\ crow = None

-----------------------------------------------------------------------------
(* The allocation table and findNextAllocation *)

Lowest(S) == {x \in S : \A y \in S : x <= y}
First(nets) == {x \in nets : \A y \in nets : x.base <= y.base}

FreeIps(t, r) == {x \in NodeIPs[r] : \A a \in t : ~Overlap(a.ip, x)}

\* Mutant of FreeNets: only the networks inside one given away are passed over.
FreeNets_Inside(t, r) == {x \in PodNets[r] : \A a \in t : ~InSubnet(a.net, x)}

FreeNets(t, r) == {x \in PodNets[r] : \A a \in t : ~Overlap(a.net, x)}

Open(t) == {r \in Routers : FreeIps(t, r) # {} /\ FreeNets(t, r) # {}}

-----------------------------------------------------------------------------
(* The daemon *)

Go(n, pc) == dpc' = [dpc EXCEPT ![n] = pc]

\* The process ends, and with it what Perform had in its variables.
Exit(n) ==
  /\ Go(n, "down")
  /\ dview' = [dview EXCEPT ![n] = None]
  /\ dcl' = [dcl EXCEPT ![n] = FALSE]
  /\ dpub' = [dpub EXCEPT ![n] = None]
  /\ drow' = [drow EXCEPT ![n] = None]

\* main: an interface with an address starts a full node, otherwise Perform.
\* Either way the node runner has made sure there is a Node object.
DaemonStart(n) ==
  /\ dpc[n] = "down"
  /\ node[n] # None
  /\ Go(n, IF iface[n] # None THEN "joined" ELSE "watch")
  /\ UNCHANGED <<api, disk, dview, dcl, dpub, drow, cpc, caches, work>>

\* The node runner creates a missing Node object, without annotations.
RegisterNode(n) ==
  /\ node[n] = None
  /\ uid < MaxUid
  /\ uid' = uid + 1
  /\ node' = [node EXCEPT ![n] = [uid |-> uid + 1, cluster |-> FALSE,
                                  cfg |-> FALSE, key |-> None]]
  /\ UNCHANGED <<table, cfgs, disk, daemon, cpc, caches, work>>

\* Step 3 has something to do only if the event showed the annotation.
Step3(view) == IF view.cfg THEN "getcfg" ELSE "watch"

\* observeNode, step 1: an Add or Update event, and the cluster's configuration
\* if the annotation is there.
ObserveNode(n) ==
  /\ dpc[n] = "watch"
  /\ node[n] # None
  /\ node[n] # dview[n]
  /\ dview' = [dview EXCEPT ![n] = node[n]]
  /\ dcl' = [dcl EXCEPT ![n] = dcl[n] \/ node[n].cluster]
  /\ Go(n, IF dcl[n] \/ node[n].cluster
             THEN IF dpub[n] = None THEN "key" ELSE "publish"
             ELSE Step3(node[n]))
  /\ UNCHANGED <<api, disk, dpub, drow, cpc, caches, work>>

\* Mutant of EnsureKeyMaterial: every run of Perform makes a key.
EnsureKeyMaterial_Always(n) ==
  /\ dpc[n] = "key"
  /\ conf' = [conf EXCEPT ![n] = NoConf]
  /\ Go(n, "keywrite")
  /\ UNCHANGED <<api, issued, iface, rekeyed, dview, dcl, dpub, drow, cpc,
                 caches, work>>

\* Step 2: the private key in the file is used; a file without one is truncated
\* to be written with a new one.
EnsureKeyMaterial(n) ==
  /\ dpc[n] = "key"
  /\ \/ /\ conf[n].key # None
        /\ dpub' = [dpub EXCEPT ![n] = conf[n].key]
        /\ Go(n, "publish")
        /\ UNCHANGED conf
     \/ /\ conf[n].key = None
        /\ conf' = [conf EXCEPT ![n] = NoConf]
        /\ Go(n, "keywrite")
        /\ UNCHANGED dpub
  /\ UNCHANGED <<api, issued, iface, rekeyed, dview, dcl, drow, cpc, caches, work>>

WriteKey(n) ==
  /\ dpc[n] = "keywrite"
  /\ \E k \in Keys :
       /\ issued[k] = None
       /\ issued' = [issued EXCEPT ![k] = n]
       /\ conf' = [conf EXCEPT ![n] = [key |-> k, row |-> None]]
       /\ dpub' = [dpub EXCEPT ![n] = k]
  /\ Go(n, "publish")
  /\ UNCHANGED <<api, iface, rekeyed, dview, dcl, drow, cpc, caches, work>>

\* The annotation is patched unless the event already showed it.
PublishKey(n) ==
  /\ dpc[n] = "publish"
  /\ \/ /\ dview[n].key = dpub[n]
        /\ Go(n, Step3(dview[n]))
        /\ UNCHANGED <<node, dview, dcl, dpub, drow>>
     \/ /\ dview[n].key # dpub[n] /\ node[n] # None
        /\ node' = [node EXCEPT ![n].key = dpub[n]]
        /\ Go(n, Step3(dview[n]))
        /\ UNCHANGED <<dview, dcl, dpub, drow>>
     \/ /\ dview[n].key # dpub[n] /\ node[n] = None
        /\ Exit(n)
        /\ UNCHANGED node
  /\ UNCHANGED <<table, cfgs, uid, disk, cpc, caches, work>>

\* Step 3: the node's ConfigMap is read and the CNI file written.  A ConfigMap
\* that is gone is an error, and without a cluster configuration clusterCfg is
\* nil: both panic.
GetNodeConfigMap(n) ==
  /\ dpc[n] = "getcfg"
  /\ \/ /\ cfgs[n] # None /\ dcl[n]
        /\ drow' = [drow EXCEPT ![n] = cfgs[n].row]
        /\ Go(n, "read")
        /\ UNCHANGED <<dview, dcl, dpub>>
     \/ /\ cfgs[n] = None \/ ~dcl[n]
        /\ Exit(n)
  /\ UNCHANGED <<api, disk, cpc, caches, work>>

\* ReadPersistentConfig, and WritePersistentConfig up to the truncation; the
\* private key is in memory only.
ReadConf(n) ==
  /\ dpc[n] = "read"
  /\ dpub' = [dpub EXCEPT ![n] = conf[n].key]
  /\ conf' = [conf EXCEPT ![n] = NoConf]
  /\ Go(n, "confwrite")
  /\ UNCHANGED <<api, issued, iface, rekeyed, dview, dcl, drow, cpc, caches, work>>

WriteConf(n) ==
  /\ dpc[n] = "confwrite"
  /\ conf' = [conf EXCEPT ![n] = [key |-> dpub[n], row |-> drow[n]]]
  /\ Go(n, "start")
  /\ UNCHANGED <<api, issued, iface, rekeyed, dview, dcl, dpub, drow, cpc, caches,
                 work>>

\* wg-quick is enabled and started; Perform returns and the process exits.
StartInterface(n) ==
  /\ dpc[n] = "start"
  /\ iface' = [iface EXCEPT ![n] = conf[n]]
  /\ Exit(n)
  /\ UNCHANGED <<api, issued, conf, rekeyed, cpc, caches, work>>

\* The process crashes or a call fails (Perform panics on every error): between
\* truncation and write the key is lost.
DaemonCrash(n) ==
  /\ dpc[n] # "down"
  /\ rekeyed' = [rekeyed EXCEPT ![n] = rekeyed[n] \/ dpc[n] = "confwrite"]
  /\ Exit(n)
  /\ UNCHANGED <<api, issued, conf, iface, cpc, caches, work>>

-----------------------------------------------------------------------------
(* node-controller *)

\* An uncaught error ends the process; nothing of it survives.
Die ==
  /\ cpc' = "down"
  /\ cnodes' = [n \in Nodes |-> None]
  /\ ccfgs' = [n \in Nodes |-> None]
  /\ ctable' = NoTable
  /\ fresh' = FALSE
  /\ todo' = {}
  /\ cur' = None
  /\ known' = NoTable
  /\ crow' = None

\* The reflectors list everything before the first loop.
ControllerStart ==
  /\ cpc = "down"
  /\ cpc' = "idle"
  /\ cnodes' = node
  /\ ccfgs' = cfgs
  /\ ctable' = table
  /\ fresh' = TRUE
  /\ UNCHANGED <<api, disk, daemon, work>>

SeeNodes ==
  /\ cpc = "idle"
  /\ cnodes # node
  /\ cnodes' = node
  /\ fresh' = TRUE
  /\ UNCHANGED <<api, disk, daemon, cpc, ccfgs, ctable, work>>

SeeConfigMaps ==
  /\ cpc = "idle"
  /\ <<ccfgs, ctable>> # <<cfgs, table>>
  /\ ccfgs' = cfgs
  /\ ctable' = table
  /\ fresh' = TRUE
  /\ UNCHANGED <<api, disk, daemon, cpc, cnodes, work>>

\* Mutant of NeedsAnnotations: a ConfigMap made by an earlier loop is not handed
\* over.
NeedsAnnotations_ClusterOnly(n) == ~cnodes[n].cluster

\* A node that just showed up, or lacks the annotation of its ConfigMap.
NeedsAnnotations(n) ==
  \/ ~cnodes[n].cluster
  \/ ccfgs[n] # None /\ ~cnodes[n].cfg

\* Mutant of NeedsConfig: the key is not waited for.
NeedsConfig_NoKey(n) == ~NeedsAnnotations(n) /\ ccfgs[n] = None

\* A node that published its key and has no ConfigMap.
NeedsConfig(n) ==
  ~NeedsAnnotations(n) /\ ccfgs[n] = None /\ cnodes[n].key # None

\* loop is called with the latest of both.  Other nodes need nothing of it.
BeginLoop ==
  /\ cpc = "idle"
  /\ fresh
  /\ fresh' = FALSE
  /\ cpc' = IF ctable.version = 0 THEN "bootstrap" ELSE "loop"
  /\ todo' = {n \in Nodes : cnodes[n] # None /\ (NeedsAnnotations(n) \/ NeedsConfig(n))}
  /\ known' = ctable
  /\ UNCHANGED <<api, disk, daemon, cnodes, ccfgs, ctable, cur, crow>>

\* The loop saw no table and makes an empty one; an existing one is an error.
BootstrapTable ==
  /\ cpc = "bootstrap"
  /\ IF table.version = 0
       THEN /\ table' = [version |-> 1, rows |-> {}]
            /\ known' = table'
            /\ cpc' = "loop"
            /\ UNCHANGED <<caches, todo, cur, crow>>
       ELSE Die /\ UNCHANGED table
  /\ UNCHANGED <<node, cfgs, uid, disk, daemon>>

EndLoop ==
  /\ cpc = "loop"
  /\ todo = {}
  /\ cpc' = "idle"
  /\ known' = NoTable
  /\ UNCHANGED <<api, disk, daemon, caches, todo, cur, crow>>

\* patchNode with the launch annotations; a Node that is gone is an error.
PatchNode(n) ==
  /\ cpc = "loop"
  /\ n \in todo
  /\ NeedsAnnotations(n)
  /\ IF node[n] # None
       THEN /\ node' = [node EXCEPT ![n].cluster = TRUE,
                                    ![n].cfg = @ \/ ccfgs[n] # None]
            /\ todo' = todo \ {n}
            /\ UNCHANGED <<cpc, caches, cur, known, crow>>
       ELSE Die /\ UNCHANGED node
  /\ UNCHANGED <<table, cfgs, uid, disk, daemon>>

\* The key has a row already.
FoundAllocation(n) ==
  /\ cpc = "loop"
  /\ n \in todo
  /\ NeedsConfig(n)
  /\ \E a \in known.rows :
       /\ a.key = cnodes[n].key
       /\ crow' = a
  /\ cur' = n
  /\ cpc' = "config"
  /\ UNCHANGED <<api, disk, daemon, caches, todo, known>>

\* Mutant of ReplaceTable: the table is replaced without its resourceVersion.
ReplaceTable_Unconditional(rows) ==
  table' = [version |-> table.version + 1, rows |-> rows]

\* replaceConfigMap: the API server refuses a body of another resourceVersion.
ReplaceTable(rows) ==
  /\ known.version = table.version
  /\ table' = [version |-> table.version + 1, rows |-> rows]

\* A new row at the first free address of the first router with room for both.
NewAllocation(n) ==
  /\ cpc = "loop"
  /\ n \in todo
  /\ NeedsConfig(n)
  /\ ~\E a \in known.rows : a.key = cnodes[n].key
  /\ \E r \in Lowest(Open(known.rows)) :
     \E i \in First(FreeIps(known.rows, r)), p \in First(FreeNets(known.rows, r)) :
       LET a == [key |-> cnodes[n].key, name |-> n, router |-> r, ip |-> i,
                 net |-> p]
       IN  /\ ReplaceTable(known.rows \union {a})
           /\ known' = table'
           /\ \/ UNCHANGED ctable
              \/ known = ctable /\ ctable' = [ctable EXCEPT !.rows = @ \union {a}]
           /\ crow' = a
  /\ cur' = n
  /\ cpc' = "config"
  /\ UNCHANGED <<node, cfgs, uid, disk, daemon, cnodes, ccfgs, fresh, todo>>

\* No room, or the table changed since it was delivered: the loop throws.
AllocationFails(n) ==
  /\ cpc = "loop"
  /\ n \in todo
  /\ NeedsConfig(n)
  /\ ~\E a \in known.rows : a.key = cnodes[n].key
  /\ Open(known.rows) = {} \/ known.version # table.version
  /\ Die
  /\ UNCHANGED <<api, disk, daemon>>

\* createConfigMap, owned by the Node the loop saw; an existing one is an error.
CreateNodeConfig ==
  /\ cpc = "config"
  /\ IF cfgs[cur] = None
       THEN /\ cfgs' = [cfgs EXCEPT ![cur] = [owner |-> cnodes[cur].uid,
                                              row |-> crow]]
            /\ cpc' = "annotate"
            /\ UNCHANGED <<caches, work>>
       ELSE Die /\ UNCHANGED cfgs
  /\ UNCHANGED <<node, table, uid, disk, daemon>>

AnnotateNode ==
  /\ cpc = "annotate"
  /\ IF node[cur] # None
       THEN /\ node' = [node EXCEPT ![cur].cluster = TRUE, ![cur].cfg = TRUE]
            /\ cpc' = "loop"
            /\ todo' = todo \ {cur}
            /\ cur' = None
            /\ crow' = None
            /\ UNCHANGED <<caches, known>>
       ELSE Die /\ UNCHANGED node
  /\ UNCHANGED <<table, cfgs, uid, disk, daemon>>

\* The controller crashes, or a call of it fails.
ControllerCrash ==
  /\ cpc # "down"
  /\ Die
  /\ UNCHANGED <<api, disk, daemon>>

-----------------------------------------------------------------------------
(* Around them *)

\* An administrator deletes the Node object.  (Bounded: every node without one
\* must find a UID left.)
DeleteNode(n) ==
  /\ node[n] # None
  /\ uid + Cardinality({m \in Nodes : node[m] = None}) < MaxUid
  /\ node' = [node EXCEPT ![n] = None]
  /\ UNCHANGED <<table, cfgs, uid, disk, daemon, cpc, caches, work>>

\* Perform panics when its node disappears.
NodeDisappeared(n) ==
  /\ dpc[n] = "watch"
  /\ node[n] = None
  /\ Exit(n)
  /\ UNCHANGED <<api, disk, cpc, caches, work>>

Owned(n) == node[n] # None /\ node[n].uid = cfgs[n].owner

\* Garbage collection of a ConfigMap whose owner is gone.
CollectConfigMap(n) ==
  /\ cfgs[n] # None
  /\ ~Owned(n)
  /\ cfgs' = [cfgs EXCEPT ![n] = None]
  /\ UNCHANGED <<node, table, uid, disk, daemon, cpc, caches, work>>

DaemonSteps(n) ==
  \/ DaemonStart(n)
  \/ RegisterNode(n)
  \/ ObserveNode(n)
  \/ EnsureKeyMaterial(n)
  \/ WriteKey(n)
  \/ PublishKey(n)
  \/ GetNodeConfigMap(n)
  \/ ReadConf(n)
  \/ WriteConf(n)
  \/ StartInterface(n)
  \/ NodeDisappeared(n)

LoopSteps ==
  \/ ControllerStart
  \/ BeginLoop
  \/ BootstrapTable
  \/ EndLoop
  \/ \E n \in Nodes :
       PatchNode(n) \/ FoundAllocation(n) \/ NewAllocation(n) \/ AllocationFails(n)
  \/ CreateNodeConfig
  \/ AnnotateNode

Disturbances ==
  ControllerCrash \/ \E n \in Nodes : DaemonCrash(n) \/ DeleteNode(n)

Next ==
  \/ \E n \in Nodes : DaemonSteps(n) \/ CollectConfigMap(n)
  \/ SeeNodes
  \/ SeeConfigMaps
  \/ LoopSteps
  \/ Disturbances

Spec == Init /\ [][Next]_vars

\* Daemons and controller are restarted and go on, the garbage collector works,
\* and the reflectors keep delivering (strong: only between two loops).
FairSpec ==
  /\ Spec
  /\ \A n \in Nodes : WF_vars(DaemonSteps(n)) /\ WF_vars(CollectConfigMap(n))
  /\ WF_vars(LoopSteps)
  /\ SF_vars(SeeNodes)
  /\ SF_vars(SeeConfigMaps)

-----------------------------------------------------------------------------
(* Properties *)

\* No two nodes ever have interfaces with the same address or overlapping pod
\* networks, whatever pools of the routers overlap, whatever the controller's caches
\* had not seen when it chose them, and however often it died between writing the
\* table and the node's ConfigMap.
NoSharedAddress ==
  \A m, n \in Nodes :
    m # n /\ iface[m] # None /\ iface[n] # None =>
      /\ ~Overlap(iface[m].row.ip, iface[n].row.ip)
      /\ ~Overlap(iface[m].row.net, iface[n].row.net)

\* The allocation table, with stale caches, conflicts and crashes behind it, is an
\* address book: rows are only ever added, one by one, each with a key, an address
\* and a network of its own, and an interface comes up with a row of its own node.
Book == INSTANCE AddressBook WITH
  book  <- table.rows,
  inUse <- [n \in Nodes |-> IF iface[n] = None THEN None ELSE iface[n].row]
ImplementsBook == Book!Spec

\* An interface is up under the key its row in the allocation table names, which
\* is what the router makes its peers from, unless a crash in the middle of
\* WritePersistentConfig cost the node the key it had published: the ConfigMap
\* made for the old key is then applied under the new one.
RouterKnowsNode ==
  \A n \in Nodes :
    iface[n] # None /\ ~rekeyed[n] =>
      iface[n].row \in table.rows /\ iface[n].row.key = iface[n].key

NoRoom == table.version > 0 /\ Open(table.rows) = {}
OutOfKeys(n) == conf[n].key = None /\ \A k \in Keys : issued[k] # None

\* Once crashes and deletions stop, every node comes to have its interface up,
\* unless the address pools are used up.  (Keys are a bound of the model.)
NodeJoins ==
  \A n \in Nodes :
    \/ []<><<Disturbances>>_vars
    \/ <>[](iface[n] # None \/ NoRoom \/ OutOfKeys(n))

-----------------------------------------------------------------------------
(* The inductive invariant behind the safety properties *)

\* The keys in the files and the memory of a node and in its Node object, also as
\* others have seen it, are among keys.
KeysAmong(n, keys) ==
  /\ {conf[n].key, dpub[n]} \subseteq keys
  /\ \A o \in {node[n], dview[n], cnodes[n], iface[n]} \ {None} : o.key \in keys

\* Keys are used by the node they were made on, also in the rows of the table.
Made(n) == {k \in Keys : issued[k] = n} \union {None}

KeysOwned ==
  /\ \A n \in Nodes : KeysAmong(n, Made(n))
  /\ \A a \in table.rows : issued[a.key] = a.name

\* Until it loses it a node has one key, in memory only while it writes its file.
TheKey(n) == IF dpc[n] = "confwrite" THEN dpub[n] ELSE conf[n].key

OneKey ==
  \A n \in Nodes :
    ~rekeyed[n] =>
      /\ KeysAmong(n, {TheKey(n), None})
      /\ \A a \in table.rows : a.name = n => a.key = TheKey(n)

\* Rows that are on their way to the interface, or in it, are of the node's own.
RowOf(n) == {a \in table.rows : a.name = n}

RowsOwned ==
  \A n \in Nodes :
    /\ cfgs[n] # None => cfgs[n].row \in RowOf(n)
    /\ dpc[n] \in {"read", "confwrite", "start"} => drow[n] \in RowOf(n)
    /\ dpc[n] = "start" => conf[n].row \in RowOf(n)
    /\ iface[n] # None => iface[n].row \in RowOf(n) /\ iface[n].key \in Keys

\* Perform has a key when it needs one, and makes one only when there is none.
DaemonConsistent ==
  \A n \in Nodes :
    /\ dpub[n] # None /\ dpc[n] # "confwrite" => conf[n].key = dpub[n]
    /\ \/ dpc[n] \in {"publish", "read", "confwrite", "start"}
       \/ dpc[n] = "getcfg" /\ dcl[n]
       => dpub[n] # None
    /\ dpc[n] = "keywrite" => conf[n].key = None

\* A table of an earlier version has no rows the API's does not have, and one of the
\* same version has them all.
Behind(t) ==
  /\ t.version <= table.version
  /\ t.rows \subseteq table.rows
  /\ t.version = table.version => t.rows = table.rows

LoopConsistent ==
  /\ cpc \in {"down", "idle"} => todo = {}
  /\ \A n \in todo : cnodes[n] # None
  /\ cpc \in {"config", "annotate"} => cur \in todo /\ crow \in RowOf(cur)
  /\ Behind(known)
  /\ Behind(ctable)

\* No two rows have a key, an address or a network in common, and a table not made
\* has none.
TableRight ==
  /\ \A a, b \in table.rows : a # b => ~Book!Clash(a, b)
  /\ table.version = 0 => table.rows = {}

ProvInv ==
  /\ TypeOK
  /\ KeysOwned
  /\ OneKey
  /\ RowsOwned
  /\ DaemonConsistent
  /\ LoopConsistent
  /\ TableRight
=============================================================================
