# kube-pet-node in TLA+

kube-pet-node joins a single Linux machine ("pet") to a Kubernetes cluster
without installing Kubernetes on it: a Go daemon built on virtual-kubelet runs
the pods bound to the node through the machine's podman service, programs
nftables for cluster services, serves the kubelet API and keeps itself up to
date.  Two small controllers (Deno) run in the cluster and on the VPN router.

This directory holds a model of its core, the TLC runs that check it on small
instances and the TLAPS proofs that establish the main properties for every
instance.

## 1. Inventory

| Component | State | Operations | Talks to |
|---|---|---|---|
| Pod manager, spec storage (`controllers/pods/{manager,storage,coord}.go`) | `KnownPods` (in memory), `pod-specs/*.json` (on disk) | `NewPodManager` (startup reconciliation), `RegisterPod`, `SetContainerIDs`, `UnregisterPod`, `GetAllStats` | podman, disk, main (panic) |
| Pod provider (`controllers/pods/provider.go`) | the Pod object it is called with | `CreatePod`, `UpdatePod`, `DeletePod`, `GetPod(s)` | virtual-kubelet (caller), manager, volumes, podman |
| Image pulling (`image-pull.go`) | none | `PullImage`, `GrabPullSecrets` | podman, API |
| Converter (`converter.go`) | none | pod spec to podman JSON | - |
| Volumes (`controllers/volumes`, `pkg/fsinject`) | podman volumes labelled with a pod UID | `CreatePodVolumes`, `CleanupVolumes` | podman, API, `tar` |
| Firewall (`controllers/firewall`) | `LatestConfigHash`, the kernel's `kube-pet` table | `Run`, event handlers, `Sync`, `BuildConfig` | informers, netlink |
| Autoupgrade (`controllers/autoupgrade`) | timer, target release | `Run`, `enqueueConfigMap`, install | informer, dpkg/dnf, systemd |
| Node identity (`controllers/nodeidentity`) | node object, external IP | periodic status refresh | virtual-kubelet, HTTP |
| Kubelet API (`controllers/kubeapi`) | key, CSR, certificate on disk; previous CPU samples | `Run`, `PerformCertificateFlow`, exec, logs, stats | API server, openssl, manager |
| Self provisioning (`controllers/selfprovision`, `pkg/wireguard`) | configmap keys seen, WireGuard key and config, CNI file | `Perform`, `observeNode` | API server, systemd |
| Node assembly (`main.go`, `controller/*.go`) | wiring, informers | start, static pods | all of the above |
| node-controller (`cluster-infra/node-controller`, `lib`) | allocation table ConfigMap | `loop`, `findNextAllocation` | API server |
| router-controller (`cluster-infra/router-controller`) | `/etc/wireguard` config | rebuild and restart | API server, systemd |
| Caching, podman client, packaging | none of their own | reads, HTTP calls, build | - |

What is hard in this system:

* **Crashes.** systemd restarts the process (`Restart=always`, 60 s).  The only
  durable state are spec files rewritten in place, podman's own state and the
  kernel's table.  Every sequence of calls in `CreatePod` and `DeletePod` can be
  cut anywhere, and the next start decides from files and podman's listing
  which pods to keep and which to remove *by force*.  A reboot of the host stops
  podman's pods besides.
* **Partial failure.** Every error returns at once; nothing is undone; some
  errors are ignored.
* **Names reused under new UIDs.** The provider works by name; Kubernetes replaces
  objects under one name with new UIDs at any time.
* **Goroutines.** The firewall's `Sync` runs on timer goroutines that can overlap;
  the kubelet HTTP server reads `KnownPods` while the worker writes it, and its
  requests share the last CPU readings without a lock.
* **Stale reads.** node-controller decides from what its reflectors last
  delivered, which may be older than its own last write.
* **A state compared in place of another.** The firewall compares a hash instead
  of the kernel's table, the router-controller a file instead of the interface,
  the address watcher what it sent last instead of what was reported.
* **Rules that meet.** What a packet is answered depends on the order of rules in five
  hook chains, on jumps that come back and gotos that do not.
* **Unreliable answers** from podman (a failed call may have had its effect) and
  from netlink (a batch carried out, its acknowledgement lost; ENOBUFS, which the code
  takes for success whatever became of the batch).

What makes each component correct: the registry, the files and podman agree, and
wanted pods are never removed, and a pod reported as Ready runs until the host goes
down (pods); a container
finds in its volumes what the API held, and a pull says what it did (volumes,
images); the kernel ends up with the table of the
current services, a skipped update is really unnecessary, and a service is answered by a ready
pod of it or refused (firewall); only an
eligible newer release is installed (autoupgrade); certificate and key on disk
belong together, the API comes up and what it reports is real (kubelet API); no address is given to two
nodes (node-controller); a node that follows its annotations ends up configured
(self provisioning); the interface on the router comes to have the table and never
an older one (router-controller); the address the Node reports comes to be the
node's (node identity).

## 2. Modules

| Module | Role |
|---|---|
| `PodLifecycle` | pod manager, spec storage, provider, with volumes, image pulls and podman calls as the provider uses them; implements `PodLedger` |
| `PodLedger` | abstract: what a node promises about its records of pods and podman's pods |
| `MCPodLifecycle`, `PodLifecycle_*.cfg` | instances for TLC |
| `PodLifecycleProofs` | theorems about `PodLifecycle`, the refinement among them |
| `ContainerConfig` | pod specification converter, as operators |
| `PodBuild`, `MCPodBuild`, `PodBuild_pulls.cfg` | what a pod is built of: volumes, image pulls and containers over the calls of `CreatePod` |
| `PodBuildProofs` | theorems about `PodBuild` and the converter |
| `FirewallRules` | `BuildConfig`, the whole table, and the kernel's evaluation of it, as operators |
| `FirewallSync` | firewall controller: debounce, `Sync`, hash, kernel; extends `FirewallRules` |
| `MCFirewallSync`, `FirewallSync_overlap.cfg` | instance for TLC |
| `PacketPath`, `MCPacketPath`, `PacketPath_services.cfg` | a packet on its way through the hooks with such a table installed; extends `FirewallSync` |
| `FirewallProofs` | theorems about `FirewallRules`, `FirewallSync` and `PacketPath` |
| `CertFlow` | serving certificate of the kubelet API: node, approval and signer |
| `KubeApi`, `MCKubeApi`, `KubeApi_restarts.cfg` | `CertFlow` and the requests for statistics its server answers, in one process |
| `KubeApiProofs` | theorems about `CertFlow` and `KubeApi` |
| `AutoUpgrade`, `MCAutoUpgrade`, `AutoUpgrade_races.cfg` | informer, `AutoUpgrade.Run`, systemd-run and dpkg |
| `AutoUpgradeProofs` | theorems about `AutoUpgrade` |
| `IpWalker` | subnets and node-controller's walk through a pool, as operators |
| `AddressBook` | abstract: what the cluster promises its nodes about addresses |
| `Provisioning`, `MCProvisioning`, `Provisioning_*.cfg` | `selfprovision.Perform` on each node composed with node-controller's `loop` through the API; implements `AddressBook` |
| `ProvisioningProofs` | theorems about `Provisioning`, the refinement among them |
| `RouterController`, `MCRouterController`, `RouterController_follows.cfg` | allocation table, stream, file, interface |
| `RouterControllerProofs` | theorems about `RouterController` |
| `NodeIdentity`, `MCNodeIdentity`, `NodeIdentity_reports.cfg` | the watcher of the Internet address and the status reports |
| `NodeIdentityProofs` | theorems about `NodeIdentity` |

A module that composes components does so through the state they share: in
`Provisioning` the API objects, in `CertFlow` the signing request, in
`AutoUpgrade` the package database, in `KubeApi` the process (its end takes the
remembered readings with it).  `PodBuild` and `PodLifecycle` look at the same calls of
`CreatePod`: `PodLifecycle` at registration, files, crashes and start, with the volumes
of a pod as one thing; `PodBuild` inside the steps for volumes, images and containers.
`FirewallSync` installs the very tables `FirewallRules` builds, and `PacketPath` sends a
packet through the one `FirewallSync` has in the kernel when it is at rest.

### PodLifecycle

State: `known` and `ids` are `KnownPods` (UID of the spec, containers with a
recorded ID); `files` the spec files (a UID, `Torn`, `None`); `pods`, `running`,
`halted` (stopped by a reboot), `cons`, `loose`, `vols`, `images` podman's state; `api`, `deleting`, `used` the
Pod objects; `notified` the status last passed to `podNotifier`; `worker` the
provider call in progress and its program counter; `mode`, `scan`, `dangling`
the progress of a start.

Steps.  One action is one podman or disk call with the memory updates after it;
its failing twin (`...Fails`, `...Fault`) returns the error, with or without the
call's effect.  `StorePod` takes two actions (`RegisterOpen` truncates,
`RegisterEncode` writes), because a crash in between is what tears a file.
`CreatePod` is `BeginCreate`, then `Register*` (stage *creating*),
`CreatePodVolumes`, `PodCreate`, `PodInspect`, one `ContainerCreate` or
`ContainerRetry` per container, `SetContainerIDs`, `Register*` (*initialized*),
`PodStart`, `Register*` (*running*), `Register*` (*ready*).  `DeletePod` is
`BeginDelete*`, `PodStop` (or `PodStopGone` on a 404), `UnregisterPod`, `PodRm`,
`CleanupVolumes`.  A start is `ListPods`, then per stored pod `CorrelatePod`,
`DropStoredPod` or `RejectTornSpec`, then `RemoveDanglingPod`, then
`PodManagerReady`.  `mode` is *panicked* when a start ended the process by itself.

Atomicity.  virtual-kubelet is started with ONE sync worker
(`controller/node.go:175`), so provider calls never overlap; the clean-up of
dangling pods precedes the worker.  Interleaved with each step are users, the API,
crashes of the process and reboots of the host.  virtual-kubelet is not in the repository: which call it makes is
modelled from the interface the provider implements (GetPod nil: `CreatePod`;
known: `UpdatePod`, which does nothing; terminating: `DeletePod`).

Abstractions.  A specification is its UID.  All pods have the containers
`Containers` in any order (the code goes in spec order; nothing depends on it).
The volumes of a UID are there or not as a whole.  What is on disk survives a reboot as
written.  `RunningPod.PodId` is written
and never read.  Containers in podman do not exit by themselves: no code of the
provider watches them.  `PodPs` and its kin return `out, f(&out)`; the Go
specification leaves the order open, and the Go compiler loads `out` after the call.

`PodLedger` is the module without its program counters, registry and startup: what is
asked for, what is on record, what there is, and in which order they may change.  The
refinement mapping takes the objects not being deleted for what is asked for, the spec
files for the record and podman's pods for what there is (`ImplementsLedger`).  Rewriting
a record tears it first: `StorePod` opens the file truncated.

### PodBuild and ContainerConfig

`ContainerConfig` translates `ConvertContainerConfig`: the podman container a container
of a Pod becomes, with the kubelet's CPU and OOM arithmetic in integers, the sources of
each mount and the inheritance of the security context.  (`ConvertPodConfig`, names and
network of the pod, is not modelled.)  `IsSpecGenerator` is podman's
type.  `PodBuild` has one Pod, its secrets in the API, podman's volumes, images and
containers, and the call of `CreatePod` in progress.  `CleanupVolumes`, then per
volume `SkipVolume`, `CreateEmptyDir`, `CreateSecretVolume` with `InjectSecret` (or
`SecretUnanswered`, the API's answer is another error, which for an optional secret is
ignored all the same; or `InjectFails`, none or part of the archive unpacked) or
`CreateProjectedVolume`;
`VolumesDone`, also after the first secret or projected volume, where the code
returns; `PodCreate`, `GrabPullSecrets`, then per container `StartPull`, one `Pull`
per request (public, then each secret), `ContainerCreate`.  A volume's files are paths,
links as the code lays them out (`..data`, the version, one link per item); a pull's
answer is a stream of reports, and `processPullStream` reads it as the code does.
`offered` and `unanswered` are history: what the API held of each secret from the
clean-up to the last volume, noted when the secret changes and not when the code reads
it, and for which volumes it gave no answer.  A container that mounts a volume is to
find in it what the API held (`Served`): an injection that did not happen is no excuse.

Nothing here is recursive or enumerates: the last of equal environment names is the one
at the greatest index, the first volume of a mount's name the one at the least, and lists
the order of which podman does not tell apart are sets.  `PodsAssumption`,
`SecretsAssumption` and `BoundsAssumption` say what the API server's validation lets
through, as far as the code relies on it: names of volumes and containers are unique,
items of one volume have different paths and none lies at `..data`, keys of secrets do
not begin with two dots, quantities are not negative.

### FirewallRules and PacketPath

A table is a function from chain names to chains, a chain a function from positions to
rules.  `RuleBuilder`'s methods are tests and verdicts; `BuildConfig` puts the chains
together in the order of the code, where `Place` stands for what `sort.Sort` and
`sort.Strings` compare.  Only the first target of a port is ever used
(`firewall-rules.go:110`), so `Target` is that one.  `Accepted` is the kernel's rule that
a batch may only refer to existing chains; `BuildConfig` can break it (a service without
Endpoints has a `goto` and no chain, `firewall-rules.go:217`).  `Walk` is what a chain
comes to, given what the chains it calls come to: a jump comes back, a goto does not, a
base chain ends in accept.  `Verdict` walks all chains three times, which is as deep as
`BuildConfig`'s chains call each other (`VerdictIsWhole` in section 4).

`PacketPath` takes a packet through destination NAT, routing, the filter hook and source
NAT, for a packet of the host and one it forwards.  `Settled` says that the kernel
has the table of the current Services and Endpoints and has accepted it; the
controller's own variables do not change under way.  Interfaces, the address the kernel
masquerades with and the way answers come back are constants of the node's network.

The assumptions are what the API server and the node's network guarantee:
`ServicesAssumption` (a ClusterIP is of one service, ports are in 1..65535 and of TCP, UDP
or SCTP), `BackendsAssumption` (an address in an Endpoints object is no ClusterIP),
`PlaceAssumption` (sorting tells different names apart), `NetworkAssumption` (no
interface has a ClusterIP, the host forwards for its pods and from the VPN, what it
masquerades with is its own and can be answered, and so can its own addresses and, on the
VPN, its pods').

### FirewallSync

State: the informer caches (`svcs`, `eps`), the debounce timer, the `Sync`s in
progress with what each has listed and built, `LatestConfigHash`, the kernel's table.
A Flush is taken and answered with nil or ENOBUFS (`Flush`), refused (`FlushRejected`),
or something else: `FlushNoBufs`, ENOBUFS for a batch that was not taken or was refused,
after which the code records the hash all the same (`controller.go:78`); `FlushFails`,
another error for a batch that was taken or not.  `doubt` is history: why the hash may
not stand for the kernel's table.  A batch taken while no other Sync has a hash to
record ends it, and so does a restart, which forgets the hash.

### CertFlow

State: `kubelet-server.key` and `.crt` (a key, `Torn`, none), the request in the
API and the copy the flow works on, the keys made.  `pc` follows `KubeApi.Run`
into `PerformCertificateFlow` and back to the second `ServeTLS`.  A key and what
is made for it are told apart by identity alone.  `ApproveCsr` is node-controller's
approval, `IssueCertificate` the cluster's signer, `CsrCleaned` its cleaner;
`Wipe` an administrator removing both files (history `wiped`).  Failing calls are
`FlowFault` and `CreateCsrLost` (carried out, answer lost).  Denied requests and
the expiry of certificates are not modelled.

### KubeApi

`CertFlow` and, once it serves, requests that run `GetStatsSummary` at the same time.
State: clock and CPU counters of the machine, one container and the ID podman gave it,
`prevStats`, `prevNodeStat`, and per request where it is and what it has in hand.
`GetAllStats` is podman's report (which may lack the container), `MeasureContainer` and
`StorePrevStats` the loop and the assignment after it, `ReadStat` and `ReadClock` the
node's two readings, `LoadPrevCpu` and `MeasureNode` the two loads of
`ka.prevNodeStat`: Go orders nothing between the goroutines, and between any two of
these another request may take its steps.  Differences are taken modulo `Word`.
The end of the process is `Forget`.

### AutoUpgrade

State: the ConfigMaps, the events queued in front of the handler, `AutoUpgrade`'s
`targetRelease` and timer, the package's version and dpkg state, the installs
handed to systemd-run.  A version is its place in semver's order, or one semver
does not parse.  `DpkgConfigures` is postinst, which restarts the service while
the package is half-configured; the rpm scripts take the same steps and are not
told apart.  `Resync` and `DeleteMissed` are the informer's.  `mishap`: an install
overlapped another or was broken off with its files in place.

### Provisioning

State: Node objects (UID and three annotations), the nodes' ConfigMaps with owner
and row, the allocation table (its rows and its version); per node the wg-quick file, the interface and
Perform's variables; the controller's caches and its loop.  Nodes and ConfigMaps
are delivered by separate reflectors (`SeeNodes`, `SeeConfigMaps`) between two
loops.  `loop` is `BeginLoop`, then per node `PatchNode`, `FoundAllocation`,
`NewAllocation`, `CreateNodeConfig`, `AnnotateNode`; a write of the table is
refused on another resourceVersion.  Addresses and pod networks are the subnets
`IpWalker` walks through: base, prefix length, the step, the check against what is
given away (either inside the other).  `issued` (on which node a key was made) and
`rekeyed` are history.  `loop.ts` adds the row to the object in the
reflector's cache before it sends it; whether the library hands out its own object
or a copy is not in the repository, and both are modelled.  `Perform` is
`ObserveNode`, `EnsureKeyMaterial`, `WriteKey`, `PublishKey`, `GetNodeConfigMap`,
`ReadConf`, `WriteConf`, `StartInterface`, and `Exit`.

`AddressBook` is what this amounts to: rows are added, whole, each with a new key and
addresses that overlap with none given away, and never changed; a node uses a row of
its own.  `Book` reads the book from the table and the rows in use from the
interfaces; `ImplementsBook` is its specification.

### RouterController

State: the table (what it has for this router, by equality) with its version, the
stream of snapshots, the file, the interface.  `Deliver` is reflector,
`buildWgConfig`, `distinct` and the filter; the loop is `Skip`, or `Take`,
`WriteOpen`, `WriteFill`, `RestartUnit` or `RestartFails`, `CreateEvent`.  A
process can only start from a whole file (it reads its private key there).
`missed`: the unit was not restarted for what the file says.

### NodeIdentity

State: the node's real address, the watcher goroutine with what it knows, the
channel of one place, the list of external addresses, the Node's.  `Report` is also
virtual-kubelet's patch of the Node: with two addresses of the type in the list or in the
Node it may leave anything (`Corrupted`), as `provider.go:23` says it does.  The select
cases `readyC` and timeout are one action: either may be taken with an address
already in the channel.  An answer is an address or a page; the code looks only
for a dot.  The empty text is both a possible answer and the initial `knownAddr`.
`NewNodeIdentity` and `NewPetNodeProvider` are steps of their own; what else they
put into the Node never changes and is left out.

## 3. Runs

All runs are exhaustive for their constants.

| Run | Instance | Shows |
|---|---|---|
| `pods_faults` | 2 names, 2 UIDs, 2 containers (IfNotPresent, Never), all faults; UID symmetry | `WantedPodKeepsSpec`, `RegistryMatchesStore`, `ContainerIDsReal`, `WantedPodNeverRemoved`, `ImplementsLedger` |
| `pods_crash` | the same size (IfNotPresent, Always), crashes and reboots only, fairness | `PodsAccounted`, `ReadyPodRuns`, `RestartComesBack`, `DeletedPodLeaves`, `WantedPodRuns` |
| `pods_retry` | violation | `ContainersInTheirPod` |
| `pod_build` | 4 pods (volumes of each kind, in an order the walk gets through and one it does not), 2 secrets in 5 states, 3 calls, 1 change, 2 faults | `TypeOK`, `VolumesServed`, `NoVolumeRefused`, `ResourcesInOrder`, `PullTellsTruth`, `PullFindsCredentials` |
| `firewall_overlap` | 2 services (one a leader election) with or without Endpoints, 2 Syncs, 4 changes, restarts and failing answers, fairness | `SkipIsSafe`, `KernelConverges` |
| `firewall_packets` | 3 services (one headless), every combination of 4 Endpoints objects or none, packets of pods, host and cluster in 3 protocols | `ServicesServed`, `AnswersComeBack`, `ClusterSeesPods` |
| `kube_api` | 3 keys, faults and crashes unlimited; 2 requests at once, 2 ticks of the clock, 2 containers; fairness of the certificate flow | `CertMatchesKey`, `GivesUpForCause`, `ComesToServe`, `UsageWithinCores`, `LoneUsageIsReal` |
| `upgrade_races` | 3 versions, 5 releases that may be offered, 2 ConfigMaps, 4 changes, crashes or reboots, fairness | `InstallsEligible`, `VersionNeverFalls`, `UpgradeHappens` |
| `provision_stale` | 2 nodes, 3 keys, 2 UIDs, 2 routers with overlapping pools; symmetry of nodes and keys | `TypeOK`, `NoSharedAddress`, `RouterKnowsNode`, `ImplementsBook` |
| `provision_recreate` | 1 node, 2 keys, 2 UIDs, fairness | `NodeJoins` |
| `router_follows` | 3 tables, 4 changes, crashes, reboots and failing restarts unlimited, fairness | `SkipIsSafe`, `NeverGoesBack`, `InterfaceFollows` |
| `identity_reports` | 2 addresses, 2 moves, 3 pages answered (empty, without and with a dot), crashes unlimited, fairness | `KnownIsPassedOn`, `OneDottedAddress`, `AddressComesThrough` |

Where a module's `TypeOK` is in no run it is proved for every instance (section 4).

Bounds.  Two names are enough for one pod to be worked on while another is
created, deleted or replaced; two UIDs let a name be replaced.  `StaticPods` is
empty in every run and arbitrary in the proofs: the provider returns at once.  Crashes,
reboots and faults are not counted: any number may happen.  In the firewall two Syncs
overlap in every order, and four changes bring a service with its Endpoints, an answer
that leaves a doubt, and a change or restart after it; a pair of Syncs with a change
between any two of their steps takes no more.  Three keys are the key in
use, one lost and one more.  Four changes let a release be published, replaced,
withdrawn and a crash happen around one install; the offers differ in version,
switch and package.  Two nodes are enough for two rows to collide; in
`provision_stale` both UIDs are used by the two Nodes, so that Node deletions
happen only in `provision_recreate` (with a third UID TLC does not finish) and in the
proofs, which are for any number.  The
first router has a node address more than pod networks, so that the choice crosses
from one router to the next.  Four table versions let a table return to what it
was before, twice.  Three pages let the list be spoilt and used again.  In
`pod_build` three calls are one that fails, one that fails elsewhere and one that
runs into what both left; the five states of a secret are of the wrong type, without
and with the key asked for, and of the right type with no, wrong and right
credentials.  In `firewall_packets` the Endpoints have ports in different subsets at
different numbers, a subset without a healthy address, a remote pod and the host's
own network; one packet at a time is enough, as rules keep no state.  In `kube_api` two
ticks let each of two readings be the later one in clock and counter; requests are
made only in a process that came up on the files of an earlier one (`Settled`), which
leaves out nothing a handler reads, and `Word` is 1000 in hundredths of a core, large
against what two ticks add up to, as 2^64 is.

The deadlock check is off where the system really stops: `pods_retry` (the UIDs are
used up and every pod has settled), `firewall_overlap` and `upgrade_races` (the changes
are used up and nothing is queued), `pod_build` (the calls are used up),
`firewall_packets` (the packet has arrived, left or been refused).  Everywhere else a restart, a retry or a timer is always
possible.

Fairness.  `PodLifecycle!FairSpec`: a start and a call in progress go on (weak),
as systemd and the goroutine do; the worker takes up each pod that keeps having
work (strong), because virtual-kubelet's rate-limited queue re-adds a failed key
and serves it in turn.  Nothing is assumed of users, of the API, of crashes or of
faults; a property that needs crashes to stop says so itself.
`FirewallSync!FairSpec`: the informer resyncs, a set timer fires, a goroutine
runs on.  `CertFlow!FairSpec`: the process is restarted and runs on, the cluster
approves and signs; `KubeApi!KubeFairSpec` is the same, and nothing is assumed of
requests.  `AutoUpgrade!FairSpec`: likewise for process and dpkg; the
timer is strongly fair, because a resync, which cancels it, comes every 15 minutes
and the timer takes five seconds.  `Provisioning!FairSpec`: daemons, controller
and garbage collector go on (weak); deliveries, which happen only between two
loops, are strongly fair.  `RouterController!FairSpec`: the process is started
again and runs on, the reflector delivers.  `NodeIdentity!FairSpec`: both
goroutines run on; fetch and report succeed if tried for ever (strong), and a
select does not pass over a ready case for ever, as Go chooses among them at random.

### Disagreement with the code's own comment

* `pods_retry`: after an image pulled on demand the container is created with the
  ID of the *failed* container report as its pod (`provider.go:147`; the variable
  `creation` is shadowed at line 133), that is outside the pod.

### Known limits the model shows

No run is about these; they are exceptions of properties above, or follow at once
from the code modelled.

* A restart of the router's unit that failed, or was cut off by a crash after the
  file was written, is never made up for, because the file already equals the
  table (`router-controller/mod.ts:65`).  `SkipIsSafe` and `InterfaceFollows`
  except it (`missed`).
* Any HTTP answer is taken for the address (`external-ip.go:28`); one without a dot
  stays an ExternalIP beside the address until the process restarts, and two of a type
  are what virtual-kubelet corrupts (`nodeidentity/provider.go:23`).
  `AddressComesThrough` promises nothing of the Node then.
* An optional secret whose request fails for any reason leaves an empty volume, though
  the API has the secret (`vol-secret.go:26`).  `Served` allows it.
* A container left over from an earlier `CreatePod` keeps its volumes in use; the
  clean-up of each later call then fails, and the pod with it.  `NoVolumeRefused` is
  about what comes after the clean-up.
* `hack/configmap.yaml` puts the TargetRelease into `kube-pets/kube-pet-config`; the
  code reads `kube-system/kube-pet-node` only (`autoupgrade/controller.go:53`).
* A pod whose `CreatePod` was cut off is known again after the restart and never
  started, as `UpdatePod` does nothing.  Nor is a pod a reboot stopped: it stays
  registered, reported as Ready, and down (starting pods at boot is an open item of the
  repository's README, line 74).  `ReadyPodRuns` excepts it (`halted`).
* On ENOBUFS `Sync` logs "Kernel table updated" and records the hash without knowing what
  became of the batch (`firewall/controller.go:78`); an error whose batch was taken, and
  two Syncs that cross between Flush and hash, part hash and table as well.  Sync then
  passes over the kernel as long as it builds the table of the recorded hash, with every
  resync: until the services change or the process restarts.  `SkipIsSafe` and
  `KernelConverges` are about everything else (`doubt`).
* `DeletePod` sets the terminal states on copies of the container statuses
  (`provider.go:316`), so the notification its comment promises (line 272) still has
  them running; its 404 path (line 293) unregisters the pod and leaves its volumes.
* After the first secret or projected volume no volume is made
  (`volumes/controller.go:82`).  Podman then makes an empty one in place of each that
  is mounted, without the label `CleanupVolumes` looks for.  `VolumesServed` excepts them.
* `PullImage` returns success without an image when the registry refuses every
  request in its stream, or when a stream ends early (`image-pull.go:44`, `:104`).
  `PullTellsTruth` excepts both.
* `provider.go:54` resets the status before `converter.go:337` reads the QoS class:
  Guaranteed and BestEffort are never recognised.  A guaranteed pod does not get the -998
  of line 339, and one without requests not the 1000 of line 341 but 999, which the
  comment at line 351 means for burstable pods, to survive better.  `ResourcesInOrder` is
  about the order of requests and says nothing of the classes.
* A key a secret lacks becomes a dangling link; `subPath` is ignored for named volumes;
  a memory directory is not shared between containers; the pod's security context is
  only looked at for containers that have one of their own.
* Traffic between two pods of the node through a ClusterIP is masqueraded by the last
  rule of the postrouting chain already (`firewall-rules.go:331`).  A service without
  Endpoints makes the kernel refuse every table (`KernelConverges` excepts it,
  `PacketPath` starts from accepted tables).
* Readings of overlapping requests wrap: a container is then reported at about one
  core, and the node, whose counter and clock are read apart, at any value.  The guard
  `cpuDelta > 0.0` (`api-stats.go:278`) is after the unsigned subtraction and stops
  neither.  `LoneUsageIsReal` is about requests that do not overlap.
* The prefix lengths 0 and 1 make the step of the walk through a pool negative or 1
  (`allocations.ts:39`); `PrefixLens` leaves them out.
* `kubectl exec -i` of a command that reads its input to the end does not return: the
  copy to the session (`api-exec.go:54`) never closes it.  (Read from the code; exec
  is not modelled.)

### What the liveness properties had to except

`RestartComesBack` excepts `Blocked`, a truncated spec file of a live pod: no
code path repairs it.  `WantedPodRuns` is about runs of the process without a
crash and excepts `Stuck`: an earlier pod of the same
name still known, a container name occupied by a container outside its pod, a
missing image under Never.  `KernelConverges` excepts a table the kernel refuses,
a cluster whose only Endpoints are leader elections, and a hash in doubt.  `ComesToServe` excepts
`Unrepairable`: a truncated key or certificate, and files removed by hand while the
old request stands.  `UpgradeHappens` excepts an install that failed (Run tries
once in its life) or was broken off.  `AddressComesThrough` excepts a second address in
the list.  `NodeJoins` excepts used up pools, and used
up keys, which are a bound of the model.  `InterfaceFollows` excepts a deleted
table, a truncated file and a missed restart.  Where interruptions are unlimited,
the property holds as soon as they stop.

## 4. Proofs

`PodLifecycleProofs` proves, for every set of names, UIDs and containers, every
pull policy and every set of faults:

* `TypeCorrect`, `WantedPodKeepsSpecThm`, `RegistryMatchesStoreThm`,
  `WantedPodNeverRemovedThm`, from the inductive invariant `IInv`;
* `PodsAccountedThm`, from `IInv` and `AccountConsistent`;
* `ReadyPodRunsThm`, from `IInv`, `AccountConsistent` and `RunConsistent`;
* `ContainerIDsRealThm`, from `IInv` and `IdsConsistent`;
* `PodsKeepLedger` (`Spec => Ledger!Spec`), from `IInv` and `FileInHand`.

From `ConstantsAssumption` only (`None` and `Torn` are no UIDs and no
coordinates, policies are policies).  The properties are not inductive.
`WantedPodKeepsSpec` needs to know that a `DeletePod` in progress is never at a
wanted pod (`WorkerConsistent`), which holds because a new object has an unused
UID (`UidsIssued`) and the podman pod of that name was made for an older one;
that `PodCreate` is only reached with the file written; and that what startup
still has to visit is as it was listed (`ScanConsistent`): a stored pod not found
has no podman pod, a found pod not stored has no file.  `PodsAccounted` needs the
file of a live pod to hold that pod's UID and `CreatePod` to be at a name without
a podman pod until it registered (`AccountConsistent`).  `ReadyPodRuns` needs what is
started, or was before a reboot, to have a file, so that startup does not remove it, and `DeletePod` to be past
the stop when it unregisters.  `ContainerIDsReal` needs there to be no IDs while
`CreatePod` makes containers.  TLC checked these invariants before they were proved.

A step of `PodLifecycle` maps to `Tear` and `Write` in `StorePod`, `Make` at
`PodCreate`, `Strike` where a file is removed, `Remove` where podman's pod is, the users'
steps to `Ask` and `Withdraw`, and any other to a stutter; a failing call that had its
effect maps as the call does.  `FileInHand` says that the file under the worker's name is
torn while it is being written, holds the UID in hand when podman is asked for the pod,
and is gone when podman is asked to remove it.  `LedgerKeepsPromise` then is about the
ledger alone: a pod the cluster wants and podman has is on record, for any
implementation of the ledger.

`FirewallProofs` proves `SyncTypeCorrect` and `SkipIsSafeThm` for any number
of services, goroutines and changes, from `SyncAssumption` and `HashAssumption`
(FNV-1a tells the configurations of one node apart; a 32-bit hash cannot really,
and a collision would leave the old table in place).  The invariant `SyncInv`:
unless there is doubt at most one Sync is between its Flush and the recording of its
hash, the kernel has what that Sync built, and when there is none the hash stands for
the kernel's table.

The same module proves `ServicesServedThm`, `AnswersComeBackThm` and `ClusterSeesPodsThm`
of `PacketPath`, for any Services, Endpoints, pod networks and packets, from the
assumptions of `FirewallRules` and `NetworkAssumption`.  The argument goes in four steps.
First each chain is described by its rules (`DispatchIs`, `ServiceIs`, `PostroutingIs`
and so on), as sets, functions and concatenations stay opaque to the provers otherwise.
`VerdictIsWhole` then says that `Verdict` is a fixed point of walking the table: service,
filter and masquerading chains call nothing (`CallsNone`), the dispatch chain only
services' chains, which exist because the kernel took the table (`AllChained`), and hooks
only shared chains.  With the fixed point each chain's verdict follows from its own rules
alone: `FilterVerdict`, `DispatchVerdict`, `ServiceVerdict`, `OutboundVerdict`,
`PostroutingVerdict`; that a rule which decides has a first one before it is
`LeastNumber`, from the well-foundedness of the numbers.  Last, `PathInv` is inductive:
after destination NAT the packet is what `Translated` says, for a ready backend of its
service or as it was; what is delivered or leaves is for no ClusterIP, and what is
rejected is.  TLC checked `PathInv` first, which showed that an instance forwarded
packets of an address of the host itself; `NetworkAssumption` now says `local` of a packet.

`KubeApiProofs` proves `CertTypeCorrect`, `CertMatchesKeyThm` and
`GivesUpForCauseThm` of `CertFlow` for any number of keys, from `KeysAssumption`.  `CertInv` adds
to `CertMatchesKey` that the request, and the copy the flow works on, are for the
key on disk, and that there is neither request nor certificate before there is a
key.

Of `KubeApi` it proves `LoneUsageIsRealThm` for any handlers, cores, containers, unit
and word, from `StatsAssumption` (the counters of one life of the process fit into a
word), and `KubeApiRunsCertFlow`: the process with its requests implements `CertFlow`'s
`Spec`, so that the theorems above hold of it.  `StatsInv`: every reading is of the past
of the counter it was taken from; two requests under way know of each other; and what a
lone request will compare its reading with was read before it.

`UsageWithinCoresThm` is about requests that do overlap.  `RatesInv`: any two readings of
one container, in the hands of requests or remembered, are in step, the later one with no
less CPU and with no more than the cores could spend in between, and so is each with the
counter as it stands.  Then either no difference wraps, or both do (or the counter stood
still), and the quotient of two wrapped differences is a little above one core.  How
little depends on the word: it rounds down to one core while `(Unit + 1)` times the lag
stays below `Word`, and two cores cover it always.  `CoveredUsageWithinCores` says so for
every value of the constants; `UsageWithinCoresThm` has the hypothesis that the machine
has two cores or the whole life of the process is below that bound.  With nanoseconds in
64 bits the bound is a lag of 18 seconds between two requests on a machine of one core.
The bound is sharp but for one `Unit`.  TLC checked `StatsInv` and `RatesInv` before.

`PodBuildProofs` proves every property of `PodBuild`, for any pods, secrets, credentials
and bounds, from the three assumptions named above: `BuildTypes`, `MountsServe`,
`NothingInTheWay`, `ResourcesAsAsked`, `PullsTellTruth`, `PullsFindCredentials`, all from
the invariant `BuildInv` (`Built`).  `VolumesServed` is not inductive.  It needs what the
call has filled so far to be right up to the volume it is at (`FilledSoFar`); that what a
container has mounted is not touched again (`MountedServed`), which holds because a call
that gets past `CleanupVolumes` found no labelled volume in use (`VolumesKept`), podman
having refused otherwise; and that a link of an item leads, over `..data/current`, to the
file of the version and not to the file of another item, which takes the paths of the
items to differ and none to begin with `..data`.  A volume podman made in place of one the
code did not get to has no label and is never taken for one.  That the API's states
since the clean-up are all noted (`OffersNoted`) makes what `InjectSecret` reads one of
them.  `NoVolumeRefused` needs the volumes still to be made to be absent (`NoneLeft`):
past the clean-up none has the pod's label, each call makes a volume of a name once, and
what podman made without a label is only of volumes the code never gets to.
`PullFindsCredentials` needs that what was tried so far did not open
the image (`PullTried`).  `ResourcesInOrder` follows from each container being the
conversion of one of the pod's (`ConsConverted`) by lemmas about the integer division in
shares, quota and score.

`AutoUpgradeProofs` proves `UpgradeTypeCorrect`, `InstallsEligibleThm` and
`VersionNeverFallsThm` for any versions, offers and number of changes, from
`UpgradeAssumption`.  `UpgradeInv`: a set timer is for an eligible target; without
a mishap one install is under way, above the installed version; and a process that
may still install knows the installed version, except while dpkg is about to
restart it.

`RouterControllerProofs` proves `RouterTypeCorrect`, `SkipIsSafeThm` and
`NeverGoesBackThm` for any tables and number of changes, from `RouterAssumption`.
`RouterInv`: without a missed restart the interface is what the file says unless
the loop is about to restart it, and versions are in order from the interface over
the file and the snapshot in hand to the stream and the table.

`NodeIdentityProofs` proves `IdentityTypeCorrect`, `KnownIsPassedOnThm` and
`OneDottedAddressThm` for any addresses and pages, from `IdentityAssumption`.
`KnownIsPassedOn` is not inductive: a value taken from the channel may replace the
known one in the list, so the channel must hold the known one (`ChannelHasKnown`).

`ProvisioningProofs` proves `ProvisioningTypeCorrect`, `AddressesAreNotShared`,
`RouterCanTell` and `TableIsBook` (`Spec => Book!Spec`) for any nodes, keys, UIDs,
routers, pools and prefix lengths, from `PoolsAssumption`, `NoneAssumption` and
`BitsAssumption`.  This brings in the Node deletions TLC's bound leaves out.
`NoSharedAddress` follows from the table, whose rows never clash (`TableRight`), if
what an interface has is a row of the table with this node's name (`RowsOwned`).
That the table stays right although the loop decides from a stale copy takes the
resourceVersion: a copy at the current version is the current table, or that and the
row of the allocation in progress; one at an older version is refused (`LoopConsistent`,
`Behind`).  That a row's key is one only its node has takes the way of a key
from the node through its annotation, the controller's cache and the row
(`KeysOwned`, `OneKey`).  A step of `Provisioning` maps to `Allocate` when the table is
written, to `Use` when an interface comes up, and to a stutter otherwise.

Model-checked only: the liveness properties (fairness is beyond the prover) and the
violation.  Every safety property a passing run checks is proved; where a theorem needs a
hypothesis on the constants it is stated there and above.

## 5. Not modelled, and the plan

Worth doing next:

1. An abstract installed configuration implemented by both `FirewallSync` and
   `RouterController`, with refinement theorems.
2. `CertFlow` and `Provisioning` share node-controller's loop, whose order (approvals
   last) can delay either.
3. Node assembly: `<-nodeRunner.Ready()` (`controller/node.go`) waits for ever when
   `nodeRunner.Run` has returned an error.

Hazards without a property, and why: a half-made pod after an error past `PodCreate`
(`provider.go:109`) is what the code does, and `WantedPodRuns` excepts failures;
concurrent use of the plain map `KnownPods` (`manager.go:162`) ends the process in
Go, which is a crash like any other here; nothing renews a certificate
(`kubeapi/controller.go:105`), so there is no behaviour to check; after `Run` returned
the handler blocks at its channel (`autoupgrade/controller.go:141`), which only wastes
memory until the install restarts the process; a deletion the watch missed
(`autoupgrade/controller.go:87`) does not stop the install of a withdrawn release, which
`InstallsEligible`, being about the last event received, does not hold against it.

Not to be modelled: exec and log streaming (bytes between connections, and the
behaviour of virtual-kubelet's streams, which is not in the repository), the JSON
types of the podman client, the text of rules and ini files, static pod mirror
objects (published once, ignored by the provider), packaging and bootstrap
scripts, the caching controller (two reads, no cache), flag parsing and wiring.
