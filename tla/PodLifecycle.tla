---------------------------- MODULE PodLifecycle ----------------------------
(***************************************************************************)
(* The life of a pod on one kube-pet-node: the PodManager's registry of    *)
(* known pods, the spec files that survive a restart, the provider calls   *)
(* CreatePod and DeletePod with every podman and disk call they make, and  *)
(* the reconciliation NewPodManager performs when the process starts.      *)
(*                                                                         *)
(* The process may crash, and the host be rebooted, between any two steps: *)
(* podman's pods keep running in the one case and are stopped in the other.*)
(* A step is one call to the podman service or to the file system together *)
(* with the memory updates that follow it: the virtual-kubelet pod         *)
(* controller is started with ONE sync worker (controller/node.go:175), so *)
(* provider calls never overlap, and what interleaves with them is the     *)
(* cluster (pods created, deleted, removed from the API, recreated under   *)
(* the same name) and the crash.                                           *)
(*                                                                         *)
(* Abstractions.  A pod specification is its UID; a spec file holds a UID, *)
(* or is Torn (truncated by os.Create and not yet, or not completely,      *)
(* rewritten).  Every pod has the containers Containers, which mount its   *)
(* volumes, and at least one podman volume; the volumes of one UID are     *)
(* present or absent as a whole, and a pull succeeds or fails (which       *)
(* volumes are made, and how a pull goes, is in module PodBuild).          *)
(* RunningPod.PodId is written and never read, and is left out.  Failure of*)
(* a podman call may or may not have had its effect.                       *)
(***************************************************************************)
EXTENDS Naturals, FiniteSets

CONSTANTS
  Coords,      \* pod coordinates, namespace and name
  StaticPods,  \* coordinates of pods annotated kubernetes.io/config.source=file
  Uids,        \* the UIDs the API server may issue
  Containers,  \* the container names of a pod
  Policy,      \* ImagePullPolicy of each container
  Faults,      \* the faults the environment shows, of FaultKinds
  None,        \* no pod, no file, no API object
  Torn         \* content of a truncated spec file

\* The process dies; the host goes down and comes up again; a call to podman fails; a
\* write or a removal of a spec file does.
FaultKinds == {"crash", "reboot", "podman", "disk"}

ASSUME ConstantsAssumption ==
  /\ StaticPods \subseteq Coords
  /\ None \notin Coords
  /\ None \notin Uids
  /\ Torn \notin Uids \union {None}
  /\ Policy \in [Containers -> {"Always", "IfNotPresent", "Never"}]
  /\ Faults \subseteq FaultKinds

VARIABLES
  \* memory of the process
  mode,      \* "down", "panicked", "starting" (in NewPodManager) or "up"
  known,     \* KnownPods: the UID of the spec known for a coordinate
  ids,       \* RunningPod.ContainerIDs: the containers with a recorded ID
  worker,    \* the provider call in progress
  scan,      \* NewPodManager's storedPodList and foundPodMap still to visit
  dangling,  \* known pods missing from the API, to be deleted at startup
  \* the host
  files,     \* pod-specs/<coord>.json: a UID, Torn or None
  pods,      \* podman's pods by name: the UID they were created for
  running,   \* the podman pods that are started
  halted,    \* the podman pods a reboot stopped, not started or stopped since
  cons,      \* the containers inside each podman pod
  loose,     \* containers podman created outside any pod, <<coord, con, uid>>
  vols,      \* UIDs with podman volumes labelled poduid
  images,    \* images in podman's local store
  \* the cluster
  api,       \* the Pod object bound to this node: its UID
  deleting,  \* the Pod objects with a deletionTimestamp
  used,      \* UIDs issued so far
  notified   \* the status last passed to podNotifier

boot    == <<mode, scan, dangling>>
memory  == <<boot, known, ids, worker>>
podman  == <<pods, running, halted, cons, loose, vols, images>>
cluster == <<api, deleting, used>>
vars    == <<memory, files, podman, cluster, notified>>

-----------------------------------------------------------------------------
(* The worker and the status it reports *)

CreateSteps == {"register", "encode", "volumes", "podcreate", "inspect",
                "containers", "start"}
DeleteSteps == {"stop", "unregister", "rm", "cleanup"}
Stages      == {"creating", "initialized", "running", "ready"}

Idle == [step  |-> "idle", coord |-> None, uid |-> None,
         stage |-> "creating", todo |-> {}]

Workers == [step  : CreateSteps \union DeleteSteps \union {"idle"},
            coord : Coords \union {None}, uid : Uids \union {None},
            stage : Stages, todo : SUBSET Containers]

\* The pod status: phase, state of the container statuses and Ready condition.
NoStatus == [phase |-> "none", con |-> "none", ready |-> FALSE]
StatusAt(stage) ==
  CASE stage = "creating"    ->
         [phase |-> "ContainerCreating", con |-> "none", ready |-> FALSE]
    [] stage = "initialized" ->
         [phase |-> "ContainerCreating", con |-> "waiting", ready |-> FALSE]
    [] stage = "running"     ->
         [phase |-> "Running", con |-> "waiting", ready |-> FALSE]
    [] OTHER                 ->
         [phase |-> "Running", con |-> "running", ready |-> TRUE]

Statuses == [phase : {"none", "ContainerCreating", "Running", "Failed"},
             con   : {"none", "waiting", "running", "terminated"},
             ready : BOOLEAN]

At(s)      == mode = "up" /\ worker.step = s
Goto(s)    == worker' = [worker EXCEPT !.step = s]
Return     == worker' = Idle

\* The process does not run: it crashed, or main panicked.
Stopped    == mode \in {"down", "panicked"}

EmptyScan  == [stored |-> {}, found |-> {}]

TypeOK ==
  /\ mode \in {"down", "panicked", "starting", "up"}
  /\ known \in [Coords -> Uids \union {None}]
  /\ ids \in [Coords -> SUBSET Containers]
  /\ worker \in Workers
  /\ worker.step # "idle" => worker.coord \in Coords /\ worker.uid \in Uids
  /\ scan \in [stored : SUBSET Coords, found : SUBSET Coords]
  /\ dangling \in SUBSET Coords
  /\ files \in [Coords -> Uids \union {None, Torn}]
  /\ pods \in [Coords -> Uids \union {None}]
  /\ running \in SUBSET Coords
  /\ halted \in SUBSET Coords
  /\ cons \in [Coords -> SUBSET Containers]
  /\ loose \in SUBSET (Coords \X Containers \X Uids)
  /\ vols \in SUBSET Uids
  /\ images \in SUBSET Containers
  /\ api \in [Coords -> Uids \union {None}]
  /\ deleting \in SUBSET Coords
  /\ used \in SUBSET Uids
  /\ notified \in [Coords -> Statuses]

Init ==
  /\ mode = "down"
  /\ known = [c \in Coords |-> None]
  /\ ids = [c \in Coords |-> {}]
  /\ worker = Idle
  /\ scan = EmptyScan
  /\ dangling = {}
  /\ files = [c \in Coords |-> None]
  /\ pods = [c \in Coords |-> None]
  /\ running = {}
  /\ halted = {}
  /\ cons = [c \in Coords |-> {}]
  /\ loose = {}
  /\ vols = {}
  /\ images \in SUBSET Containers
  /\ api = [c \in Coords |-> None]
  /\ deleting = {}
  /\ used = {}
  /\ notified = [c \in Coords |-> NoStatus]

-----------------------------------------------------------------------------
(* The cluster: pods scheduled here, deleted, and removed from the API *)

UserCreates(c, u) ==
  /\ api[c] = None
  /\ u \in Uids \ used
  /\ api' = [api EXCEPT ![c] = u]
  /\ used' = used \union {u}
  /\ notified' = [notified EXCEPT ![c] = NoStatus]
  /\ UNCHANGED <<memory, files, podman, deleting>>

UserDeletes(c) ==
  /\ api[c] # None
  /\ c \notin deleting
  /\ deleting' = deleting \union {c}
  /\ UNCHANGED <<memory, files, podman, api, used, notified>>

\* virtual-kubelet removes a terminating object once the provider deleted the
\* pod, and at once when no container status is Running; a user may force it.
ApiRemoves(c) ==
  /\ c \in deleting
  /\ api' = [api EXCEPT ![c] = None]
  /\ deleting' = deleting \ {c}
  /\ UNCHANGED <<memory, files, podman, used, notified>>

-----------------------------------------------------------------------------
(* Process start: NewPodManager, then the pod controller's own clean-up *)

Forget ==
  /\ known' = [c \in Coords |-> None]
  /\ ids' = [c \in Coords |-> {}]
  /\ worker' = Idle
  /\ scan' = EmptyScan
  /\ dangling' = {}

Crash ==
  /\ "crash" \in Faults
  /\ ~Stopped
  /\ mode' = "down"
  /\ Forget
  /\ UNCHANGED <<files, podman, cluster, notified>>

\* The host goes down, whatever the process was at, and comes up again: podman keeps
\* its pods and has none of them started.  Nothing in this code starts them again.
Reboot ==
  /\ "reboot" \in Faults
  /\ mode' = "down"
  /\ Forget
  /\ running' = {}
  /\ halted' = halted \union running
  /\ UNCHANGED <<files, pods, cons, loose, vols, images, cluster, notified>>

\* ListAllPods goes by the file names, PodPs by the pods labelled as ours.
StoredPods == {c \in Coords : files[c] # None}
FoundPods  == {c \in Coords : pods[c] # None}

\* Nothing but NewPodManager changes either listing before they are used.
ListPods ==
  /\ Stopped
  /\ mode' = "starting"
  /\ scan' = [stored |-> StoredPods, found |-> FoundPods]
  /\ UNCHANGED <<known, ids, worker, dangling, files, podman, cluster, notified>>

\* Mutant of CorrelatePod: the `delete(foundPodMap, storedPod)` is missing.
CorrelatePod_KeepsFound(c) ==
  /\ mode = "starting"
  /\ c \in scan.stored \intersect scan.found
  /\ files[c] # Torn
  /\ known' = [known EXCEPT ![c] = files[c]]
  /\ ids' = [ids EXCEPT ![c] = cons[c]]
  /\ scan' = [scan EXCEPT !.stored = @ \ {c}]
  /\ UNCHANGED <<mode, worker, dangling, files, podman, cluster, notified>>

\* A stored pod that podman has: its spec is read back into KnownPods, with
\* the IDs of the containers podman lists inside the pod.
CorrelatePod(c) ==
  /\ mode = "starting"
  /\ c \in scan.stored \intersect scan.found
  /\ files[c] # Torn
  /\ known' = [known EXCEPT ![c] = files[c]]
  /\ ids' = [ids EXCEPT ![c] = cons[c]]
  /\ scan' = [stored |-> scan.stored \ {c}, found |-> scan.found \ {c}]
  /\ UNCHANGED <<mode, worker, dangling, files, podman, cluster, notified>>

\* Mutant of RejectTornSpec: the spec is read before podman's listing is consulted.
RejectTornSpec_ReadFirst(c) ==
  /\ mode = "starting"
  /\ c \in scan.stored
  /\ files[c] = Torn
  /\ mode' = "panicked"
  /\ Forget
  /\ UNCHANGED <<files, podman, cluster, notified>>

\* ReadPod cannot decode the file of a live pod: NewPodManager returns the
\* error and main panics.  systemd starts the process again.
RejectTornSpec(c) ==
  /\ mode = "starting"
  /\ c \in scan.stored \intersect scan.found
  /\ files[c] = Torn
  /\ mode' = "panicked"
  /\ Forget
  /\ UNCHANGED <<files, podman, cluster, notified>>

\* Mutant of DropStoredPod: the lookup in foundPodMap is not checked.
DropStoredPod_Unchecked(c) ==
  /\ mode = "starting"
  /\ c \in scan.stored
  /\ files' = [files EXCEPT ![c] = None]
  /\ scan' = [scan EXCEPT !.stored = @ \ {c}]
  /\ UNCHANGED <<mode, known, ids, worker, dangling, podman, cluster, notified>>

\* A stored pod that podman does not have is deleted from the store.
DropStoredPod(c) ==
  /\ mode = "starting"
  /\ c \in scan.stored \ scan.found
  /\ files' = [files EXCEPT ![c] = None]
  /\ scan' = [scan EXCEPT !.stored = @ \ {c}]
  /\ UNCHANGED <<mode, known, ids, worker, dangling, podman, cluster, notified>>

Start(c) == running' = running \union {c} /\ halted' = halted \ {c}
Stop(c)  == running' = running \ {c} /\ halted' = halted \ {c}

\* A podman pod that is not stored is removed with force.
RemoveDanglingPod(c) ==
  /\ mode = "starting"
  /\ scan.stored = {}
  /\ c \in scan.found
  /\ pods' = [pods EXCEPT ![c] = None]
  /\ Stop(c)
  /\ cons' = [cons EXCEPT ![c] = {}]
  /\ scan' = [scan EXCEPT !.found = @ \ {c}]
  /\ UNCHANGED <<mode, known, ids, worker, dangling, files, loose, vols, images,
                 cluster, notified>>

\* Any other error of NewPodManager (PodPs, os.Remove, PodRm): main panics.
StartupFault ==
  /\ mode = "starting"
  /\ Faults \intersect {"podman", "disk"} # {}
  /\ mode' = "panicked"
  /\ Forget
  /\ UNCHANGED <<files, podman, cluster, notified>>

\* NewPodManager returns; the pod controller lists the provider's pods that the
\* API no longer has (deleteDanglingPods of virtual-kubelet).
PodManagerReady ==
  /\ mode = "starting"
  /\ scan = EmptyScan
  /\ mode' = "up"
  /\ dangling' = {c \in Coords : known[c] # None /\ api[c] = None}
  /\ UNCHANGED <<known, ids, worker, scan, files, podman, cluster, notified>>

-----------------------------------------------------------------------------
(* virtual-kubelet's single worker choosing the next provider call *)

Begin(s, c, u) ==
  worker' = [step |-> s, coord |-> c, uid |-> u,
             stage |-> "creating", todo |-> Containers]

\* The provider does not know the pod (GetPod is nil): CreatePod.  When it does
\* know it, virtual-kubelet calls UpdatePod, which does nothing.
BeginCreate(c) ==
  /\ At("idle")
  /\ dangling = {}
  /\ c \notin StaticPods
  /\ api[c] # None
  /\ c \notin deleting
  /\ known[c] = None
  /\ Begin("register", c, api[c])
  /\ UNCHANGED <<boot, known, ids, files, podman, cluster, notified>>

\* The object is terminating: DeletePod with the object, as often as it takes.
BeginDelete(c) ==
  /\ At("idle")
  /\ dangling = {}
  /\ c \notin StaticPods
  /\ c \in deleting
  /\ Begin("stop", c, api[c])
  /\ UNCHANGED <<boot, known, ids, files, podman, cluster, notified>>

\* The object is gone from the API but the provider still has the pod.
BeginDeleteGone(c) ==
  /\ At("idle")
  /\ dangling = {}
  /\ api[c] = None
  /\ known[c] # None
  /\ Begin("stop", c, known[c])
  /\ UNCHANGED <<boot, known, ids, files, podman, cluster, notified>>

\* The same for the pods found dangling at startup, each tried once.
BeginDeleteDangling(c) ==
  /\ At("idle")
  /\ c \in dangling
  /\ Begin("stop", c, known[c])
  /\ dangling' = dangling \ {c}
  /\ UNCHANGED <<mode, known, ids, scan, files, podman, cluster, notified>>

-----------------------------------------------------------------------------
(* RegisterPod, called at four points of CreatePod *)

\* podNotifier, then StorePod truncates the file.
RegisterOpen ==
  /\ At("register")
  /\ files' = [files EXCEPT ![worker.coord] = Torn]
  /\ notified' = [notified EXCEPT ![worker.coord] = StatusAt(worker.stage)]
  /\ Goto("encode")
  /\ UNCHANGED <<boot, known, ids, podman, cluster>>

\* What CreatePod does once a RegisterPod call has returned.
AfterRegister ==
  CASE worker.stage = "creating"    -> Goto("volumes")
    [] worker.stage = "initialized" -> Goto("start")
    [] worker.stage = "running"     ->
         worker' = [worker EXCEPT !.step = "register", !.stage = "ready"]
    [] OTHER                        -> Return

\* The file is written and the pod enters (or stays in) KnownPods; the recorded
\* container IDs of a pod already known are kept.
RegisterEncode ==
  /\ At("encode")
  /\ files' = [files EXCEPT ![worker.coord] = worker.uid]
  /\ known' = [known EXCEPT ![worker.coord] = worker.uid]
  /\ ids' = IF known[worker.coord] = None
            THEN [ids EXCEPT ![worker.coord] = {}] ELSE ids
  /\ AfterRegister
  /\ UNCHANGED <<boot, podman, cluster, notified>>

\* Mutant of RegisterFault: StorePod does not look at the error of Encode.
RegisterFault_Unchecked ==
  /\ "disk" \in Faults
  /\ \/ /\ At("register")
        /\ notified' = [notified EXCEPT ![worker.coord] = StatusAt(worker.stage)]
        /\ IF worker.stage = "creating" THEN Return ELSE AfterRegister
        /\ UNCHANGED <<known, ids>>
     \/ /\ At("encode")
        /\ known' = [known EXCEPT ![worker.coord] = worker.uid]
        /\ AfterRegister
        /\ UNCHANGED <<ids, notified>>
  /\ UNCHANGED <<boot, files, podman, cluster>>

\* os.Create or Encode fails.  Only the first call's error is looked at.
RegisterFault ==
  /\ "disk" \in Faults
  /\ \/ /\ At("register")
        /\ notified' = [notified EXCEPT ![worker.coord] = StatusAt(worker.stage)]
     \/ /\ At("encode")
        /\ UNCHANGED notified
  /\ IF worker.stage = "creating" THEN Return ELSE AfterRegister
  /\ UNCHANGED <<boot, known, ids, files, podman, cluster>>

-----------------------------------------------------------------------------
(* The rest of CreatePod; every error returns at once, nothing is undone *)

\* A container, in a pod or loose, that mounts the volumes of u.
InUse(u) == \/ \E c \in Coords : pods[c] = u /\ cons[c] # {}
            \/ \E l \in loose : l[3] = u

\* Where an error in the middle of making or removing volumes may leave them.
VolumesAfterError == {vols, vols \union {worker.uid}, vols \ {worker.uid}}

\* CreatePodVolumes: volumes left under this UID are removed first.
CreatePodVolumes ==
  /\ At("volumes")
  /\ ~(worker.uid \in vols /\ InUse(worker.uid))
  /\ vols' = vols \union {worker.uid}
  /\ Goto("podcreate")
  /\ UNCHANGED <<boot, known, ids, files, pods, running, halted, cons,
                 loose, images, cluster, notified>>

CreatePodVolumesFails ==
  /\ At("volumes")
  /\ \/ "podman" \in Faults /\ vols' \in VolumesAfterError
     \/ worker.uid \in vols /\ InUse(worker.uid) /\ UNCHANGED vols
  /\ Return
  /\ UNCHANGED <<boot, known, ids, files, pods, running, halted, cons,
                 loose, images, cluster, notified>>

AddPod == pods' = [pods EXCEPT ![worker.coord] = worker.uid]

PodCreate ==
  /\ At("podcreate")
  /\ pods[worker.coord] = None
  /\ AddPod
  /\ Goto("inspect")
  /\ UNCHANGED <<boot, known, ids, files, running, halted, cons, loose,
                 vols, images, cluster, notified>>

\* The name is taken, or podman fails before or after it made the pod.
PodCreateFails ==
  /\ At("podcreate")
  /\ \/ pods[worker.coord] # None /\ UNCHANGED pods
     \/ "podman" \in Faults /\ UNCHANGED pods
     \/ "podman" \in Faults /\ pods[worker.coord] = None /\ AddPod
  /\ Return
  /\ UNCHANGED <<boot, known, ids, files, running, halted, cons, loose,
                 vols, images, cluster, notified>>

\* PodInspect and GrabPullSecrets only read.
PodInspect ==
  /\ At("inspect")
  /\ Goto("containers")
  /\ UNCHANGED <<boot, known, ids, files, podman, cluster, notified>>

PodInspectFails ==
  /\ At("inspect")
  /\ "podman" \in Faults
  /\ Return
  /\ UNCHANGED <<boot, known, ids, files, podman, cluster, notified>>

\* A container named <coord>_<con> exists outside the pod.
NameTaken(con) == \E l \in loose : l[1] = worker.coord /\ l[2] = con

Done(con) == worker' = [worker EXCEPT !.todo = @ \ {con}]

\* PullImage first when the policy is Always, then ContainerCreate in the pod.
ContainerCreate(con) ==
  /\ At("containers")
  /\ con \in worker.todo
  /\ ~NameTaken(con)
  /\ \/ Policy[con] = "Always" /\ images' = images \union {con}
     \/ Policy[con] # "Always" /\ con \in images /\ UNCHANGED images
  /\ cons' = [cons EXCEPT ![worker.coord] = @ \union {con}]
  /\ Done(con)
  /\ UNCHANGED <<boot, known, ids, files, pods, running, halted, loose,
                 vols, cluster, notified>>

\* "no such image" under IfNotPresent: pull, then retry ContainerCreate.  The
\* retry passes the Id of the FAILED container report (the shadowed `creation`),
\* an empty string, as the pod: podman makes the container outside any pod.
ContainerRetry(con) ==
  /\ At("containers")
  /\ con \in worker.todo
  /\ ~NameTaken(con)
  /\ Policy[con] = "IfNotPresent"
  /\ con \notin images
  /\ images' = images \union {con}
  /\ loose' = loose \union {<<worker.coord, con, worker.uid>>}
  /\ Done(con)
  /\ UNCHANGED <<boot, known, ids, files, pods, running, halted, cons,
                 vols, cluster, notified>>

\* What a PullImage made for the container may leave in the store.
Pulled(con) == IF Policy[con] = "Never" THEN images ELSE images \union {con}

\* The name is taken (found out after any pull), or the image is missing under
\* Never.
ContainerRefused(con) ==
  /\ At("containers")
  /\ con \in worker.todo
  /\ \/ NameTaken(con)
     \/ Policy[con] = "Never" /\ con \notin images
  /\ images' = Pulled(con)
  /\ Return
  /\ UNCHANGED <<boot, known, ids, files, pods, running, halted, cons, loose,
                 vols, cluster, notified>>

\* A pull or a ContainerCreate fails, and may have had its effect all the same.
ContainerCreateFails(con) ==
  /\ At("containers")
  /\ con \in worker.todo
  /\ "podman" \in Faults
  /\ images' \in {images, Pulled(con)}
  /\ \/ UNCHANGED <<cons, loose>>
     \/ /\ ~NameTaken(con)
        /\ con \in (IF Policy[con] = "Always" THEN images' ELSE images)
        /\ cons' = [cons EXCEPT ![worker.coord] = @ \union {con}]
        /\ UNCHANGED loose
     \/ /\ ~NameTaken(con)
        /\ Policy[con] = "IfNotPresent" /\ con \in images' \ images
        /\ loose' = loose \union {<<worker.coord, con, worker.uid>>}
        /\ UNCHANGED cons
  /\ Return
  /\ UNCHANGED <<boot, known, ids, files, pods, running, halted,
                 vols, cluster, notified>>

\* Mutant of SetContainerIDs: the IDs are recorded before the containers exist.
SetContainerIDs_Early ==
  /\ At("containers")
  /\ ids' = IF known[worker.coord] # None
            THEN [ids EXCEPT ![worker.coord] = Containers] ELSE ids
  /\ worker' = [worker EXCEPT !.step = "register", !.stage = "initialized"]
  /\ UNCHANGED <<boot, known, files, podman, cluster, notified>>

\* SetContainerIDs, if the pod is (still) known.
SetContainerIDs ==
  /\ At("containers")
  /\ worker.todo = {}
  /\ ids' = IF known[worker.coord] # None
            THEN [ids EXCEPT ![worker.coord] = Containers] ELSE ids
  /\ worker' = [worker EXCEPT !.step = "register", !.stage = "initialized"]
  /\ UNCHANGED <<boot, known, files, podman, cluster, notified>>

\* Mutant of PodStart: the pod's containers are never started.
PodStart_NotCalled ==
  /\ At("start")
  /\ worker' = [worker EXCEPT !.step = "register", !.stage = "running"]
  /\ UNCHANGED <<boot, known, ids, files, podman, cluster, notified>>

PodStart ==
  /\ At("start")
  /\ Start(worker.coord)
  /\ worker' = [worker EXCEPT !.step = "register", !.stage = "running"]
  /\ UNCHANGED <<boot, known, ids, files, pods, cons, loose,
                 vols, images, cluster, notified>>

PodStartFails ==
  /\ At("start")
  /\ "podman" \in Faults
  /\ Start(worker.coord) \/ UNCHANGED <<running, halted>>
  /\ Return
  /\ UNCHANGED <<boot, known, ids, files, pods, cons, loose,
                 vols, images, cluster, notified>>

-----------------------------------------------------------------------------
(* DeletePod: stop, notify, unregister, remove, clean up the volumes *)

\* Stopped (or already stopped, HTTP 304).  The status loop of DeletePod writes
\* to a copy of each container status, so the notified containers keep their
\* state and the phase is left alone; only the conditions change.
PodStop ==
  /\ At("stop")
  /\ pods[worker.coord] # None
  /\ Stop(worker.coord)
  /\ notified' = [notified EXCEPT ![worker.coord].ready = FALSE]
  /\ Goto("unregister")
  /\ UNCHANGED <<boot, known, ids, files, pods, cons, loose,
                 vols, images, cluster>>

\* Mutant of ForgetPod: the file goes, the map entry stays.
ForgetPod_Skipped == UNCHANGED <<known, ids>>

\* UnregisterPod: out of KnownPods first, then os.Remove, which may fail.
ForgetPod ==
  /\ known' = [known EXCEPT ![worker.coord] = None]
  /\ ids' = [ids EXCEPT ![worker.coord] = {}]

RemoveFile ==
  \/ files' = [files EXCEPT ![worker.coord] = None]
  \/ "disk" \in Faults /\ files[worker.coord] # None /\ UNCHANGED files

\* Mutant of PodStopGone: every PodStop error is taken for a 404.
PodStopGone_AnyError ==
  /\ At("stop")
  /\ ForgetPod
  /\ RemoveFile
  /\ Return
  /\ UNCHANGED <<boot, podman, cluster, notified>>

\* HTTP 404: unregister and report UnregisterPod's result, nothing else.
PodStopGone ==
  /\ At("stop")
  /\ pods[worker.coord] = None
  /\ ForgetPod
  /\ RemoveFile
  /\ Return
  /\ UNCHANGED <<boot, podman, cluster, notified>>

PodStopFails ==
  /\ At("stop")
  /\ "podman" \in Faults
  /\ Stop(worker.coord) \/ UNCHANGED <<running, halted>>
  /\ Return
  /\ UNCHANGED <<boot, known, ids, files, pods, cons, loose,
                 vols, images, cluster, notified>>

\* Mutant of UnregisterPod: DeletePod returns once the pod is unregistered.
UnregisterPod_ThenReturn ==
  /\ At("unregister")
  /\ ForgetPod
  /\ RemoveFile
  /\ Return
  /\ UNCHANGED <<boot, podman, cluster, notified>>

UnregisterPod ==
  /\ At("unregister")
  /\ ForgetPod
  /\ RemoveFile
  /\ IF files'[worker.coord] = None THEN Goto("rm") ELSE Return
  /\ UNCHANGED <<boot, podman, cluster, notified>>

RemovePod ==
  /\ pods' = [pods EXCEPT ![worker.coord] = None]
  /\ cons' = [cons EXCEPT ![worker.coord] = {}]

PodRm ==
  /\ At("rm")
  /\ worker.coord \notin running
  /\ RemovePod
  /\ Goto("cleanup")
  /\ UNCHANGED <<boot, known, ids, files, running, halted, loose, vols,
                 images, cluster, notified>>

PodRmFails ==
  /\ At("rm")
  /\ "podman" \in Faults
  /\ RemovePod \/ UNCHANGED <<pods, cons>>
  /\ Return
  /\ UNCHANGED <<boot, known, ids, files, running, halted, loose, vols,
                 images, cluster, notified>>

\* CleanupVolumes removes the volumes labelled with the UID of the Pod object
\* DeletePod was called with.
CleanupVolumes ==
  /\ At("cleanup")
  /\ ~(worker.uid \in vols /\ InUse(worker.uid))
  /\ vols' = vols \ {worker.uid}
  /\ Return
  /\ UNCHANGED <<boot, known, ids, files, pods, running, halted, cons,
                 loose, images, cluster, notified>>

\* podman fails, or refuses to remove a volume a container still mounts.
CleanupVolumesFails ==
  /\ At("cleanup")
  /\ \/ "podman" \in Faults /\ vols' \in {vols, vols \ {worker.uid}}
     \/ worker.uid \in vols /\ InUse(worker.uid) /\ UNCHANGED vols
  /\ Return
  /\ UNCHANGED <<boot, known, ids, files, pods, running, halted, cons,
                 loose, images, cluster, notified>>

-----------------------------------------------------------------------------
(* The specification *)

User == \E c \in Coords :
  \/ \E u \in Uids : UserCreates(c, u)
  \/ UserDeletes(c)

Startup ==
  \/ ListPods
  \/ PodManagerReady
  \/ \E c \in Coords : \/ CorrelatePod(c)
                       \/ RejectTornSpec(c)
                       \/ DropStoredPod(c)
                       \/ RemoveDanglingPod(c)

Dispatch(c) ==
  \/ BeginCreate(c)
  \/ BeginDelete(c)
  \/ BeginDeleteGone(c)
  \/ BeginDeleteDangling(c)

\* A call in progress goes on, without a fault of the environment.
Progress ==
  \/ RegisterOpen
  \/ RegisterEncode
  \/ CreatePodVolumes
  \/ PodCreate
  \/ PodInspect
  \/ \E con \in Containers : ContainerCreate(con) \/ ContainerRetry(con)
  \/ SetContainerIDs
  \/ PodStart
  \/ PodStop
  \/ PodStopGone
  \/ UnregisterPod
  \/ PodRm
  \/ CleanupVolumes

\* A call returns an error.
Failure ==
  \/ RegisterFault
  \/ CreatePodVolumesFails
  \/ PodCreateFails
  \/ PodInspectFails
  \/ \E con \in Containers : ContainerRefused(con) \/ ContainerCreateFails(con)
  \/ PodStartFails
  \/ PodStopFails
  \/ PodRmFails
  \/ CleanupVolumesFails

Next ==
  \/ User
  \/ \E c \in Coords : ApiRemoves(c)
  \/ Crash
  \/ Reboot
  \/ Startup
  \/ StartupFault
  \/ \E c \in Coords : Dispatch(c)
  \/ Progress
  \/ Failure

Spec == Init /\ [][Next]_vars

\* The scheduling the code provides: virtual-kubelet's queue keeps offering the
\* work that is left (a pod controller key is requeued, with back-off, until its
\* call succeeds), a call in progress goes on, and systemd restarts the process
\* (Restart=always).  Nothing is assumed of users, of the API, of crashes and of
\* faults.
FairSpec ==
  /\ Spec
  /\ WF_vars(Startup)
  /\ WF_vars(Progress \/ Failure)
  /\ \A c \in Coords : SF_vars(Dispatch(c))

-----------------------------------------------------------------------------
(* Properties *)

\* The cluster still wants the podman pod of this coordinate: its object is
\* live, and the pod was made for that very object.
Wanted(c) == api[c] # None /\ c \notin deleting /\ pods[c] = api[c]

\* A pod the cluster still wants has a spec file on disk, at every moment of
\* CreatePod, DeletePod and startup and whatever calls fail or crash: RegisterPod
\* stores before PodCreate, and only a deletion unregisters.  A restart would
\* otherwise take the pod for a dangling one and remove it by force.
WantedPodKeepsSpec == \A c \in Coords : Wanted(c) => files[c] # None

\* No step removes a podman pod the cluster still wants: not the forced removal
\* of dangling pods at startup, and not a DeletePod that was meant for an
\* earlier pod of the same name and is still under way.
WantedPodNeverRemoved ==
  [][\A c \in Coords : Wanted(c) => pods'[c] = pods[c]]_vars

\* Spec files and podman's pods are kept as PodLedger says, under every fault: a
\* podman pod is made from the very UID its file holds, the file goes only for a pod
\* the cluster does not want, and the pod, in DeletePod and at startup, after it.
Live == [c \in Coords |-> IF c \in deleting THEN None ELSE api[c]]
Ledger == INSTANCE PodLedger WITH
  Names  <- Coords,
  object <- Live,
  issued <- used,
  record <- files,
  pod    <- pods
ImplementsLedger == Ledger!Spec

\* KnownPods and the spec files agree: every known pod has its spec stored under
\* its UID (or a file a RegisterPod was cut short in), and, if the disk does not
\* fail, every complete spec file is known again once NewPodManager returned.
RegistryMatchesStore ==
  mode = "up" =>
    \A c \in Coords :
      /\ known[c] # None => files[c] \in {known[c], Torn}
      /\ "disk" \notin Faults /\ files[c] \in Uids => known[c] = files[c]

\* Without podman and disk failures, crashes and reboots at any step included, no podman
\* pod escapes the node: it is known under the UID it was made for, or DeletePod is
\* about to remove it.
PodsAccounted ==
  Faults \subseteq {"crash", "reboot"} /\ mode = "up" =>
    \A c \in Coords :
      pods[c] # None => \/ known[c] = pods[c]
                        \/ worker.step = "rm" /\ worker.coord = c

\* Without podman failures, a pod last reported to the API as Ready is started in
\* podman, crashes at any step included: DeletePod reports before it forgets, and
\* nothing startup removes by force was left reported as Ready.  The exception is a pod
\* a reboot of the host stopped: the restarted process knows it and takes it for
\* running, and UpdatePod does nothing (bringing pods up at boot is an open item of the
\* README, line 74), so that it is there, registered, Ready, and down.
ReadyPodRuns ==
  "podman" \notin Faults =>
    \A c \in Coords : notified[c].ready => c \in running \union halted

\* The containers of a coordinate that podman has, in its pod or loose.
ConsOf(c) ==
  cons[c] \union {con \in Containers : \E l \in loose : l[1] = c /\ l[2] = con}

\* The container IDs kept for the stats and status of a pod are of containers
\* podman still has, as long as the pod itself is there and not being deleted.
ContainerIDsReal ==
  \A c \in Coords : known[c] # None /\ pods[c] # None => ids[c] \subseteq ConsOf(c)

\* A spec file of a live pod was cut short: NewPodManager fails on it for ever.
Blocked == \E c \in Coords : files[c] = Torn /\ pods[c] # None

\* If crashes and reboots stop, a node that is down comes back up, unless a crash cut
\* short the spec file of a live pod: only that makes every later start fail.
RestartComesBack ==
  \/ []<><<Crash \/ Reboot>>_vars
  \/ Stopped ~> (mode = "up" \/ Blocked)

\* If nothing ever crashes or reboots, a pod the API holds comes to run in podman unless it is
\* deleted first.  What can prevent it is exactly: the provider still knows an earlier
\* pod of that name (UpdatePod does nothing), a container name is occupied by a
\* container left outside its pod, or an image is missing under policy Never.
Stuck(c) ==
  \/ known[c] \notin {None, api[c]}
  \/ \E con \in Containers : \/ \E u \in Uids : <<c, con, u>> \in loose
                             \/ Policy[con] = "Never" /\ con \notin images
WantedPodRuns ==
  \/ <>(mode # "down" /\ <>(mode = "down"))
  \/ \A c \in Coords \ StaticPods :
       (api[c] # None) ~> \/ api[c] = None
                          \/ c \in deleting
                          \/ pods[c] = api[c] /\ c \in running
                          \/ Stuck(c)

\* If crashes and reboots stop, a pod removed from the API leaves podman, unless its name
\* is used again or startup is blocked: what a crash interrupted is taken up by
\* startup, by the clean-up of dangling pods or by a retried DeletePod.
DeletedPodLeaves ==
  \/ []<><<Crash \/ Reboot>>_vars
  \/ \A c \in Coords :
       (api[c] = None /\ pods[c] # None)
         ~> (pods[c] = None \/ api[c] # None \/ Blocked)

-----------------------------------------------------------------------------
(* The inductive invariant behind the safety properties *)

\* Only UIDs the API issued are in use, so a new object never matches an old pod.
UidsIssued ==
  /\ \A c \in deleting : api[c] # None
  /\ \A c \in Coords : {api[c], pods[c]} \subseteq used \union {None}

\* A call in progress: CreatePod has its spec stored before it asks for the pod;
\* DeletePod, also one begun long ago, is never at a pod the cluster wants.
WorkerConsistent ==
  /\ mode # "up" => worker = Idle /\ dangling = {}
  /\ worker.step \in CreateSteps => dangling = {} /\ worker.uid \in used
  /\ worker.step \in DeleteSteps => ~Wanted(worker.coord)
  /\ worker.step \in {"volumes", "podcreate"} => files[worker.coord] # None
  /\ worker.step # "idle" => worker.coord \notin dangling

DanglingConsistent == \A c \in dangling : known[c] # None /\ ~Wanted(c)

\* What NewPodManager still has to visit is as it was listed.
ScanConsistent ==
  /\ mode # "starting" => scan = EmptyScan
  /\ \A c \in scan.stored : known[c] = None /\ files[c] # None
  /\ \A c \in scan.stored \ scan.found : pods[c] = None
  /\ \A c \in scan.found \ scan.stored : files[c] = None

RegistryConsistent ==
  \A c \in Coords :
    /\ known[c] # None => ~Stopped /\ files[c] \in {known[c], Torn}
    /\ "disk" \notin Faults /\ ~Stopped /\ files[c] \in Uids =>
         known[c] = files[c] \/ c \in scan.stored

IInv ==
  /\ TypeOK
  /\ UidsIssued
  /\ WorkerConsistent
  /\ DanglingConsistent
  /\ ScanConsistent
  /\ WantedPodKeepsSpec
  /\ RegistryConsistent

\* Without podman and disk failures: a live pod's file holds its UID, if
\* anything, and the pod is known, listed for NewPodManager, or being removed.
AccountConsistent ==
  Faults \subseteq {"crash", "reboot"} =>
    /\ \A c \in Coords :
         pods[c] # None =>
           /\ files[c] \in {pods[c], Torn, None}
           /\ mode = "starting" => c \in scan.found \/ known[c] = pods[c]
           /\ mode = "up" => \/ known[c] = pods[c]
                             \/ worker.step = "rm" /\ worker.coord = c
    /\ worker.step \in CreateSteps =>
         IF worker.step \in {"register", "encode"} /\ worker.stage = "creating"
         THEN pods[worker.coord] = None
         ELSE known[worker.coord] = worker.uid

\* CreatePod has made its podman pod.
PodMade ==
  \/ worker.step \in {"inspect", "containers", "start"}
  \/ worker.step \in {"register", "encode"} /\ worker.stage # "creating"

\* Without podman failures: what is reported as Ready is started, what is started is
\* there with a spec file, and DeletePod is past the stop when it unregisters.
RunConsistent ==
  "podman" \notin Faults =>
    /\ ReadyPodRuns
    /\ \A c \in running \union halted : pods[c] # None /\ files[c] # None
    /\ PodMade => pods[worker.coord] # None /\ files[worker.coord] # None
    /\ worker.step \in {"register", "encode"} /\ worker.stage \in {"running", "ready"}
         => worker.coord \in running
    /\ worker.step \in {"unregister", "rm", "cleanup"}
         => worker.coord \notin running \union halted

\* Recorded IDs are of containers podman has: there are none before CreatePod made
\* all of them, and none when DeletePod removes the pod.
IdsConsistent ==
  /\ \A c \in Coords : ids[c] \subseteq ConsOf(c)
  /\ \A c \in Coords : known[c] = None => ids[c] = {}
  /\ worker.step \in {"register", "encode"} /\ worker.stage = "creating"
       => known[worker.coord] = None
  /\ worker.step \in CreateSteps \ {"start"} /\ worker.stage = "creating"
       => ids[worker.coord] = {}
  /\ worker.step \in CreateSteps \ {"containers", "start"} /\ worker.stage = "creating"
       => worker.todo = Containers
  /\ worker.step \in {"volumes", "podcreate", "inspect", "containers"}
       => worker.stage = "creating"
  /\ worker.step = "containers" => Containers \ worker.todo \subseteq ConsOf(worker.coord)
  /\ worker.step = "rm" => known[worker.coord] = None

\* The file as the call in progress left it: torn while StorePod writes it, whole
\* when podman is asked for the pod, gone when podman is asked to remove it.
FileInHand ==
  /\ worker.step = "encode" => files[worker.coord] = Torn
  /\ worker.step \in {"volumes", "podcreate"} => files[worker.coord] = worker.uid
  /\ worker.step = "rm" => files[worker.coord] = None

-----------------------------------------------------------------------------
(* What the comments of the code say, and the code does not do *)

\* provider.go:146 "... and retry creation": a container of a pod whose image had
\* to be pulled is created where the first attempt would have created it, in
\* the pod.
ContainersInTheirPod == loose = {}

=============================================================================
