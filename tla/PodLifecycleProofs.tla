------------------------- MODULE PodLifecycleProofs -------------------------
(***************************************************************************)
(* Theorems about PodLifecycle, for every set of coordinates, UIDs and     *)
(* containers and every combination of faults.                             *)
(***************************************************************************)
EXTENDS PodLifecycle, TLAPS

USE DEF Stopped

-----------------------------------------------------------------------------
(* Type correctness *)

LEMMA InitTypeOK == Init => TypeOK
  BY ConstantsAssumption
  DEF Init, TypeOK, Idle, Workers, EmptyScan, NoStatus, Statuses, Stages

\* Every status CreatePod reports is a status.
LEMMA StatusAtType ==
  ASSUME NEW stage \in Stages PROVE StatusAt(stage) \in Statuses
  BY DEF StatusAt, Statuses, Stages

LEMMA NotReadyType ==
  ASSUME NEW s \in Statuses PROVE [s EXCEPT !.ready = FALSE] \in Statuses
  BY DEF Statuses

LEMMA ClusterTypeOK ==
  ASSUME TypeOK, NEW c \in Coords,
         \/ \E u \in Uids : UserCreates(c, u)
         \/ UserDeletes(c)
         \/ ApiRemoves(c)
  PROVE  TypeOK'
  <1>1. ASSUME NEW u \in Uids, UserCreates(c, u) PROVE TypeOK'
    <2>1. NoStatus \in Statuses
      BY DEF NoStatus, Statuses
    <2> QED
      BY <1>1, <2>1 DEF TypeOK, UserCreates, memory, boot, podman
  <1>2. CASE UserDeletes(c)
    BY <1>2 DEF TypeOK, UserDeletes, memory, boot, podman
  <1>3. CASE ApiRemoves(c)
    BY <1>3 DEF TypeOK, ApiRemoves, memory, boot, podman
  <1> QED
    BY <1>1, <1>2, <1>3

LEMMA ForgetTypeOK ==
  ASSUME TypeOK, Forget, mode' \in {"down", "panicked"},
         running' \in SUBSET Coords, halted' \in SUBSET Coords,
         UNCHANGED <<files, pods, cons, loose, vols, images, cluster, notified>>
  PROVE  TypeOK'
  BY ConstantsAssumption
  DEF TypeOK, Forget, podman, cluster, Idle, Workers, EmptyScan, Stages

LEMMA StartupTypeOK == TypeOK /\ Startup => TypeOK'
  <1> SUFFICES ASSUME TypeOK, Startup PROVE TypeOK'
    OBVIOUS
  <1> USE ConstantsAssumption
  <1>1. CASE ListPods
    BY <1>1 DEF TypeOK, ListPods, StoredPods, FoundPods, podman, cluster
  <1>2. CASE PodManagerReady
    BY <1>2 DEF TypeOK, PodManagerReady, podman, cluster
  <1>3. ASSUME NEW c \in Coords, CorrelatePod(c) PROVE TypeOK'
    BY <1>3 DEF TypeOK, CorrelatePod, podman, cluster
  <1>4. ASSUME NEW c \in Coords, RejectTornSpec(c) PROVE TypeOK'
    BY <1>4, ForgetTypeOK DEF RejectTornSpec, podman, TypeOK
  <1>5. ASSUME NEW c \in Coords, DropStoredPod(c) PROVE TypeOK'
    BY <1>5 DEF TypeOK, DropStoredPod, podman, cluster
  <1>6. ASSUME NEW c \in Coords, RemoveDanglingPod(c) PROVE TypeOK'
    BY <1>6 DEF TypeOK, RemoveDanglingPod, Stop, cluster
  <1> QED
    BY <1>1, <1>2, <1>3, <1>4, <1>5, <1>6 DEF Startup

LEMMA DispatchTypeOK ==
  ASSUME TypeOK, NEW c \in Coords, Dispatch(c), c \in deleting => api[c] # None,
         c \in dangling => known[c] # None
  PROVE  TypeOK'
  BY ConstantsAssumption
  DEF TypeOK, Dispatch, BeginCreate, BeginDelete, BeginDeleteGone,
      BeginDeleteDangling, Begin, boot, podman, cluster, Workers, Stages,
      CreateSteps, DeleteSteps

\* Every way a step leaves the worker keeps it a worker.
LEMMA WorkerType ==
  ASSUME TypeOK, worker.step # "idle",
         \/ Return
         \/ \E s \in CreateSteps \union DeleteSteps : Goto(s)
         \/ AfterRegister
         \/ \E con \in Containers : Done(con)
         \/ \E stage \in Stages :
              worker' = [worker EXCEPT !.step = "register", !.stage = stage]
  PROVE  /\ worker' \in Workers
         /\ worker'.step # "idle" => worker'.coord \in Coords /\ worker'.uid \in Uids
  <1> DEFINE IsWorker(w) ==
        /\ w \in Workers
        /\ w.step # "idle" => w.coord \in Coords /\ w.uid \in Uids
  <1> USE DEF TypeOK, Workers, CreateSteps, DeleteSteps, Stages
  <1>1. CASE Return
    BY <1>1 DEF Return, Idle
  <1>2. ASSUME NEW s \in CreateSteps \union DeleteSteps, Goto(s)
        PROVE  IsWorker(worker')
    BY <1>2 DEF Goto
  <1>3. ASSUME NEW con \in Containers, Done(con) PROVE IsWorker(worker')
    BY <1>3 DEF Done
  <1>4. ASSUME NEW stage \in Stages,
               worker' = [worker EXCEPT !.step = "register", !.stage = stage]
        PROVE  IsWorker(worker')
    BY <1>4
  <1>5. CASE AfterRegister
    <2>1. \/ \E s \in CreateSteps \union DeleteSteps : Goto(s)
          \/ worker' = [worker EXCEPT !.step = "register", !.stage = "ready"]
          \/ Return
      BY <1>5 DEF AfterRegister
    <2> QED
      BY <2>1, <1>1, <1>2, <1>4
  <1> QED
    BY <1>1, <1>2, <1>3, <1>4, <1>5

LEMMA ProgressTypeOK == TypeOK /\ Progress => TypeOK'
  <1> SUFFICES ASSUME TypeOK, Progress PROVE TypeOK'
    OBVIOUS
  <1> USE ConstantsAssumption DEF TypeOK, At, boot, podman, cluster
  <1>1. CASE RegisterOpen
    <2>1. StatusAt(worker.stage) \in Statuses
      BY StatusAtType DEF Workers
    <2> QED
      BY <1>1, <2>1, WorkerType DEF RegisterOpen, CreateSteps
  <1>2. CASE RegisterEncode
    BY <1>2, WorkerType DEF RegisterEncode
  <1>3. CASE CreatePodVolumes
    BY <1>3, WorkerType DEF CreatePodVolumes, CreateSteps
  <1>4. CASE PodCreate
    BY <1>4, WorkerType DEF PodCreate, AddPod, CreateSteps
  <1>5. CASE PodInspect
    BY <1>5, WorkerType DEF PodInspect, CreateSteps
  <1>6. ASSUME NEW con \in Containers, ContainerCreate(con) PROVE TypeOK'
    BY <1>6, WorkerType DEF ContainerCreate
  <1>7. ASSUME NEW con \in Containers, ContainerRetry(con) PROVE TypeOK'
    <2>1. <<worker.coord, con, worker.uid>> \in Coords \X Containers \X Uids
      BY <1>7 DEF ContainerRetry
    <2> QED
      BY <1>7, <2>1, WorkerType DEF ContainerRetry
  <1>8. CASE SetContainerIDs
    BY <1>8, WorkerType DEF SetContainerIDs, Stages
  <1>9. CASE PodStart
    BY <1>9, WorkerType DEF PodStart, Start, Stages
  <1>10. CASE PodStop
    <2>1. [notified[worker.coord] EXCEPT !.ready = FALSE] \in Statuses
      <3>1. notified[worker.coord] \in Statuses
        BY <1>10 DEF PodStop, Stop
      <3> QED
        BY <3>1, NotReadyType
    <2>2. notified' = [notified EXCEPT ![worker.coord] =
                         [notified[worker.coord] EXCEPT !.ready = FALSE]]
      BY <1>10 DEF PodStop, Stop
    <2>3. notified' \in [Coords -> Statuses]
      BY <2>1, <2>2
    <2> QED
      BY <1>10, <2>3, WorkerType DEF PodStop, Stop, DeleteSteps
  <1>11. CASE PodStopGone
    BY <1>11, WorkerType DEF PodStopGone, ForgetPod, RemoveFile
  <1>12. CASE UnregisterPod
    <2>1. /\ worker' \in Workers
          /\ worker'.step # "idle" => worker'.coord \in Coords /\ worker'.uid \in Uids
      <3>1. Return \/ Goto("rm")
        BY <1>12 DEF UnregisterPod
      <3>2. worker.step # "idle" /\ "rm" \in DeleteSteps
        BY <1>12 DEF UnregisterPod, DeleteSteps
      <3> QED
        BY <3>1, <3>2, WorkerType
    <2>2. files' \in [Coords -> Uids \union {None, Torn}]
      BY <1>12 DEF UnregisterPod, RemoveFile
    <2>3. /\ known' \in [Coords -> Uids \union {None}]
          /\ ids' \in [Coords -> SUBSET Containers]
      BY <1>12 DEF UnregisterPod, ForgetPod
    <2> QED
      BY <1>12, <2>1, <2>2, <2>3 DEF UnregisterPod
  <1>13. CASE PodRm
    BY <1>13, WorkerType DEF PodRm, RemovePod, DeleteSteps
  <1>14. CASE CleanupVolumes
    BY <1>14, WorkerType DEF CleanupVolumes
  <1> QED
    BY <1>1, <1>2, <1>3, <1>4, <1>5, <1>6, <1>7, <1>8, <1>9, <1>10, <1>11,
       <1>12, <1>13, <1>14 DEF Progress

LEMMA FailureTypeOK == TypeOK /\ Failure => TypeOK'
  <1> SUFFICES ASSUME TypeOK, Failure PROVE TypeOK'
    OBVIOUS
  <1> USE ConstantsAssumption DEF TypeOK, At, boot, podman, cluster
  <1>1. CASE RegisterFault
    <2>1. StatusAt(worker.stage) \in Statuses
      BY StatusAtType DEF Workers
    <2>2. worker.step # "idle" /\ (Return \/ AfterRegister)
      BY <1>1 DEF RegisterFault
    <2>3. notified' \in [Coords -> Statuses]
      BY <1>1, <2>1 DEF RegisterFault
    <2> QED
      BY <1>1, <2>2, <2>3, WorkerType DEF RegisterFault
  <1>2. CASE CreatePodVolumesFails
    BY <1>2, WorkerType DEF CreatePodVolumesFails, VolumesAfterError
  <1>3. CASE PodCreateFails
    BY <1>3, WorkerType DEF PodCreateFails, AddPod
  <1>4. CASE PodInspectFails
    BY <1>4, WorkerType DEF PodInspectFails
  <1>5. ASSUME NEW con \in Containers, ContainerRefused(con) \/ ContainerCreateFails(con)
        PROVE  TypeOK'
    <2>1. At("containers") => worker.coord \in Coords /\ worker.uid \in Uids
      BY DEF At
    <2>2. Pulled(con) \in SUBSET Containers
      BY DEF Pulled
    <2>3. /\ images' \in SUBSET Containers
          /\ loose' \in SUBSET (Coords \X Containers \X Uids)
      BY <1>5, <2>1, <2>2 DEF ContainerRefused, ContainerCreateFails
    <2>4. cons' \in [Coords -> SUBSET Containers]
      BY <1>5, <2>1 DEF ContainerRefused, ContainerCreateFails
    <2> QED
      BY <1>5, <2>3, <2>4, WorkerType DEF ContainerRefused, ContainerCreateFails
  <1>6. CASE PodStartFails
    BY <1>6, WorkerType DEF PodStartFails, Start
  <1>7. CASE PodStopFails
    BY <1>7, WorkerType DEF PodStopFails, Stop
  <1>8. CASE PodRmFails
    BY <1>8, WorkerType DEF PodRmFails, RemovePod
  <1>9. CASE CleanupVolumesFails
    BY <1>9, WorkerType DEF CleanupVolumesFails
  <1> QED
    BY <1>1, <1>2, <1>3, <1>4, <1>5, <1>6, <1>7, <1>8, <1>9 DEF Failure

-----------------------------------------------------------------------------
(* The inductive invariant *)

LEMMA InitIInv == Init => IInv
  <1> SUFFICES ASSUME Init PROVE IInv
    OBVIOUS
  <1>1. TypeOK
    BY InitTypeOK
  <1>2. UidsIssued /\ DanglingConsistent /\ ScanConsistent /\ WantedPodKeepsSpec
    BY DEF Init, UidsIssued, DanglingConsistent, ScanConsistent, EmptyScan,
           WantedPodKeepsSpec, Wanted
  <1>3. WorkerConsistent
    BY DEF Init, WorkerConsistent, Idle, CreateSteps, DeleteSteps
  <1>4. RegistryConsistent
    BY ConstantsAssumption DEF Init, RegistryConsistent
  <1> QED
    BY <1>1, <1>2, <1>3, <1>4 DEF IInv

LEMMA UserCreatesIInv ==
  ASSUME IInv, NEW c \in Coords, NEW u \in Uids, UserCreates(c, u)
  PROVE  IInv'
  <1>1. TypeOK'
    BY ClusterTypeOK DEF IInv
  <1> USE DEF IInv, UserCreates, memory, boot, podman
  \* The new object's UID is fresh, so the object does not match a podman pod.
  <1>2. \A d \in Coords : Wanted(d)' => Wanted(d)
    BY ConstantsAssumption DEF TypeOK, UidsIssued, Wanted
  <1>3. UidsIssued'
    BY ConstantsAssumption DEF TypeOK, UidsIssued
  <1>4. WorkerConsistent'
    BY <1>2 DEF TypeOK, WorkerConsistent, CreateSteps, DeleteSteps
  <1>5. DanglingConsistent' /\ WantedPodKeepsSpec'
    BY <1>2 DEF TypeOK, DanglingConsistent, WantedPodKeepsSpec
  <1>6. ScanConsistent' /\ RegistryConsistent'
    BY DEF ScanConsistent, RegistryConsistent
  <1> QED
    BY <1>1, <1>3, <1>4, <1>5, <1>6

LEMMA DeletionIInv ==
  ASSUME IInv, NEW c \in Coords, UserDeletes(c) \/ ApiRemoves(c)
  PROVE  IInv'
  <1>1. TypeOK'
    BY ClusterTypeOK DEF IInv
  <1> USE DEF IInv, UserDeletes, ApiRemoves, memory, boot, podman
  <1>2. \A d \in Coords : Wanted(d)' => Wanted(d)
    BY ConstantsAssumption DEF TypeOK, Wanted
  <1>3. UidsIssued'
    BY ConstantsAssumption DEF TypeOK, UidsIssued
  <1>4. WorkerConsistent'
    BY <1>2 DEF TypeOK, WorkerConsistent, CreateSteps, DeleteSteps
  <1>5. DanglingConsistent' /\ WantedPodKeepsSpec'
    BY <1>2 DEF TypeOK, DanglingConsistent, WantedPodKeepsSpec
  <1>6. ScanConsistent' /\ RegistryConsistent'
    BY DEF ScanConsistent, RegistryConsistent
  <1> QED
    BY <1>1, <1>3, <1>4, <1>5, <1>6

\* A crash, a panic or a failed start loses the memory, a reboot stops the pods besides.
LEMMA ForgetIInv ==
  ASSUME IInv, Forget, mode' \in {"down", "panicked"},
         running' \in SUBSET Coords, halted' \in SUBSET Coords,
         UNCHANGED <<files, pods, cons, loose, vols, images, cluster, notified>>
  PROVE  IInv'
  <1>1. TypeOK'
    BY ForgetTypeOK DEF IInv
  <1> USE DEF IInv, Forget, podman, cluster
  <1>2. UidsIssued' /\ WantedPodKeepsSpec'
    BY DEF UidsIssued, WantedPodKeepsSpec, Wanted
  <1>3. WorkerConsistent' /\ DanglingConsistent'
    BY DEF WorkerConsistent, DanglingConsistent, Idle, CreateSteps, DeleteSteps
  <1>4. ScanConsistent' /\ RegistryConsistent'
    BY DEF ScanConsistent, EmptyScan, RegistryConsistent
  <1> QED
    BY <1>1, <1>2, <1>3, <1>4

LEMMA StartupIInv == IInv /\ Startup => IInv'
  <1> SUFFICES ASSUME IInv, Startup PROVE IInv'
    OBVIOUS
  <1>1. TypeOK'
    BY StartupTypeOK DEF IInv
  <1> USE ConstantsAssumption DEF IInv, TypeOK, podman, cluster
  <1>2. CASE ListPods
    <2> USE <1>2 DEF ListPods, StoredPods, FoundPods
    <2>1. UidsIssued' /\ WantedPodKeepsSpec' /\ DanglingConsistent'
      BY DEF UidsIssued, WantedPodKeepsSpec, DanglingConsistent, Wanted
    <2>2. WorkerConsistent'
      BY DEF WorkerConsistent, Idle, CreateSteps, DeleteSteps
    <2>3. ScanConsistent' /\ RegistryConsistent'
      BY DEF ScanConsistent, RegistryConsistent
    <2> QED
      BY <1>1, <2>1, <2>2, <2>3
  <1>3. CASE PodManagerReady
    <2> USE <1>3 DEF PodManagerReady
    <2>1. UidsIssued' /\ WantedPodKeepsSpec' /\ DanglingConsistent'
      BY DEF UidsIssued, WantedPodKeepsSpec, DanglingConsistent, Wanted
    <2>2. WorkerConsistent'
      BY DEF WorkerConsistent, Idle, CreateSteps, DeleteSteps
    <2>3. ScanConsistent' /\ RegistryConsistent'
      BY DEF ScanConsistent, RegistryConsistent, EmptyScan
    <2> QED
      BY <1>1, <2>1, <2>2, <2>3
  <1>4. ASSUME NEW c \in Coords, CorrelatePod(c) PROVE IInv'
    <2> USE <1>4 DEF CorrelatePod
    <2>1. UidsIssued' /\ WantedPodKeepsSpec' /\ DanglingConsistent'
      BY DEF UidsIssued, WantedPodKeepsSpec, DanglingConsistent, Wanted,
             WorkerConsistent
    <2>2. WorkerConsistent'
      BY DEF WorkerConsistent, Idle, CreateSteps, DeleteSteps
    <2>3. ScanConsistent' /\ RegistryConsistent'
      BY DEF ScanConsistent, RegistryConsistent
    <2> QED
      BY <1>1, <2>1, <2>2, <2>3
  <1>5. ASSUME NEW c \in Coords, RejectTornSpec(c) PROVE IInv'
    BY <1>5, ForgetIInv DEF RejectTornSpec
  <1>6. ASSUME NEW c \in Coords, DropStoredPod(c) PROVE IInv'
    <2> USE <1>6 DEF DropStoredPod
    <2>1. UidsIssued' /\ DanglingConsistent'
      BY DEF UidsIssued, DanglingConsistent, Wanted
    <2>2. WantedPodKeepsSpec'
      BY DEF WantedPodKeepsSpec, Wanted, ScanConsistent
    <2>3. WorkerConsistent'
      BY DEF WorkerConsistent, Idle, CreateSteps, DeleteSteps
    <2>4. ScanConsistent' /\ RegistryConsistent'
      BY DEF ScanConsistent, RegistryConsistent
    <2> QED
      BY <1>1, <2>1, <2>2, <2>3, <2>4
  <1>7. ASSUME NEW c \in Coords, RemoveDanglingPod(c) PROVE IInv'
    <2> USE <1>7 DEF RemoveDanglingPod, Stop
    <2>1. UidsIssued' /\ WantedPodKeepsSpec'
      BY DEF UidsIssued, WantedPodKeepsSpec, Wanted
    <2>2. WorkerConsistent' /\ DanglingConsistent'
      BY DEF WorkerConsistent, DanglingConsistent, Idle, CreateSteps, DeleteSteps
    <2>3. ScanConsistent' /\ RegistryConsistent'
      BY DEF ScanConsistent, RegistryConsistent
    <2> QED
      BY <1>1, <2>1, <2>2, <2>3
  <1> QED
    BY <1>2, <1>3, <1>4, <1>5, <1>6, <1>7 DEF Startup

LEMMA DispatchIInv ==
  ASSUME IInv, NEW c \in Coords, Dispatch(c)
  PROVE  IInv'
  <1>1. TypeOK'
    BY DispatchTypeOK DEF IInv, UidsIssued, DanglingConsistent
  <1> USE DEF IInv, Dispatch, BeginCreate, BeginDelete, BeginDeleteGone,
              BeginDeleteDangling, boot, podman, cluster
  <1>2. UidsIssued' /\ WantedPodKeepsSpec' /\ DanglingConsistent'
    BY DEF UidsIssued, WantedPodKeepsSpec, DanglingConsistent, Wanted
  <1>3. ScanConsistent' /\ RegistryConsistent'
    BY DEF ScanConsistent, RegistryConsistent
  <1>4. CASE BeginCreate(c)
    <2>1. WorkerConsistent'
      BY <1>4, ConstantsAssumption
      DEF TypeOK, WorkerConsistent, UidsIssued, Begin, At, CreateSteps,
          DeleteSteps
    <2> QED
      BY <1>1, <1>2, <1>3, <2>1
  <1>5. CASE BeginDelete(c) \/ BeginDeleteGone(c) \/ BeginDeleteDangling(c)
    \* The object is terminating, or gone, or not the one the pod was made for.
    <2>1. ~Wanted(c)
      BY <1>5 DEF Wanted, DanglingConsistent
    <2>2. WorkerConsistent'
      BY <1>5, <2>1
      DEF TypeOK, WorkerConsistent, Wanted, Begin, At, CreateSteps, DeleteSteps
    <2> QED
      BY <1>1, <1>2, <1>3, <2>2
  <1> QED
    BY <1>4, <1>5

\* A step of a call that leaves the registry, the files, podman's list of pods
\* and the cluster alone, and goes on within its call or returns.
LEMMA QuietStepIInv ==
  ASSUME IInv, TypeOK', mode = "up", worker.step # "idle",
         UNCHANGED <<mode, scan, dangling, known, files, pods, api, deleting, used>>,
         \/ worker' = Idle
         \/ /\ worker'.coord = worker.coord
            /\ worker'.uid = worker.uid
            /\ \/ /\ worker.step \in CreateSteps
                  /\ worker'.step \in CreateSteps
                  /\ worker'.step \in {"volumes", "podcreate"} =>
                       worker.step \in {"volumes", "podcreate"}
               \/ worker.step \in DeleteSteps /\ worker'.step \in DeleteSteps
  PROVE  IInv'
  <1> USE DEF IInv
  <1>1. UidsIssued' /\ WantedPodKeepsSpec' /\ DanglingConsistent'
    BY DEF UidsIssued, WantedPodKeepsSpec, DanglingConsistent, Wanted
  <1>2. ScanConsistent' /\ RegistryConsistent'
    BY DEF ScanConsistent, RegistryConsistent
  <1>3. WorkerConsistent'
    BY DEF WorkerConsistent, Wanted, Idle, CreateSteps, DeleteSteps
  <1> QED
    BY <1>1, <1>2, <1>3

LEMMA RegisterOpenIInv == IInv /\ RegisterOpen => IInv'
  <1> SUFFICES ASSUME IInv, RegisterOpen PROVE IInv'
    OBVIOUS
  <1>1. TypeOK'
    BY ProgressTypeOK DEF IInv, Progress
  <1> USE ConstantsAssumption
      DEF IInv, TypeOK, RegisterOpen, At, Goto, boot, podman, cluster
  <1>2. UidsIssued' /\ WantedPodKeepsSpec' /\ DanglingConsistent'
    BY DEF UidsIssued, WantedPodKeepsSpec, DanglingConsistent, Wanted
  <1>3. ScanConsistent' /\ RegistryConsistent'
    BY DEF ScanConsistent, RegistryConsistent, EmptyScan
  <1>4. WorkerConsistent'
    BY DEF WorkerConsistent, Workers, CreateSteps, DeleteSteps
  <1> QED
    BY <1>1, <1>2, <1>3, <1>4

\* Where the worker goes after a RegisterPod call.
LEMMA AfterRegisterStep ==
  ASSUME TypeOK, AfterRegister, worker.step # "idle"
  PROVE  \/ worker' = Idle
         \/ /\ worker'.coord = worker.coord
            /\ worker'.uid = worker.uid
            /\ \/ worker'.step \in {"start", "register"}
               \/ worker.stage = "creating" /\ worker'.step = "volumes"
  BY DEF TypeOK, Workers, AfterRegister, Goto, Return

LEMMA RegisterEncodeIInv == IInv /\ RegisterEncode => IInv'
  <1> SUFFICES ASSUME IInv, RegisterEncode PROVE IInv'
    OBVIOUS
  <1>1. TypeOK'
    BY ProgressTypeOK DEF IInv, Progress
  <1> USE ConstantsAssumption
      DEF IInv, TypeOK, RegisterEncode, At, boot, podman, cluster
  <1>2. UidsIssued' /\ WantedPodKeepsSpec'
    BY DEF UidsIssued, WantedPodKeepsSpec, Wanted
  <1>3. DanglingConsistent'
    BY DEF DanglingConsistent, Wanted
  <1>4. ScanConsistent' /\ RegistryConsistent'
    BY DEF ScanConsistent, RegistryConsistent, EmptyScan
  <1>5. WorkerConsistent'
    BY AfterRegisterStep DEF WorkerConsistent, Idle, CreateSteps, DeleteSteps
  <1> QED
    BY <1>1, <1>2, <1>3, <1>4, <1>5

\* podman makes the pod, whether or not CreatePod hears of it.
LEMMA AddPodIInv ==
  ASSUME IInv, TypeOK', At("podcreate"), AddPod,
         UNCHANGED <<mode, scan, dangling, known, files, api, deleting, used>>,
         worker' = Idle \/ Goto("inspect")
  PROVE  IInv'
  <1> USE ConstantsAssumption DEF IInv, TypeOK, AddPod, At, CreateSteps
  <1>1. UidsIssued' /\ WantedPodKeepsSpec'
    BY DEF UidsIssued, WantedPodKeepsSpec, Wanted, WorkerConsistent
  <1>2. DanglingConsistent'
    BY DEF DanglingConsistent, WorkerConsistent
  <1>3. ScanConsistent' /\ RegistryConsistent'
    BY DEF ScanConsistent, RegistryConsistent, EmptyScan
  <1>4. WorkerConsistent'
    BY DEF WorkerConsistent, Workers, Goto, Idle, DeleteSteps
  <1> QED
    BY <1>1, <1>2, <1>3, <1>4

\* DeletePod unregisters: the pod it is at is not one the cluster wants.
LEMMA UnregisterIInv ==
  ASSUME IInv, TypeOK', At("stop") \/ At("unregister"), ForgetPod, RemoveFile,
         UNCHANGED <<boot, podman, cluster>>,
         worker' = Idle \/ Goto("rm")
  PROVE  IInv'
  <1> USE ConstantsAssumption
      DEF IInv, TypeOK, ForgetPod, RemoveFile, At, boot, podman, cluster,
          DeleteSteps
  <1>1. WantedPodKeepsSpec'
    BY DEF WantedPodKeepsSpec, Wanted, WorkerConsistent
  <1>2. UidsIssued' /\ DanglingConsistent'
    BY DEF UidsIssued, DanglingConsistent, Wanted, WorkerConsistent
  <1>3. ScanConsistent' /\ RegistryConsistent'
    BY DEF ScanConsistent, RegistryConsistent, EmptyScan
  <1>4. WorkerConsistent'
    BY DEF WorkerConsistent, Workers, Wanted, Goto, Idle, CreateSteps
  <1> QED
    BY <1>1, <1>2, <1>3, <1>4

LEMMA RemovePodIInv ==
  ASSUME IInv, TypeOK', At("rm"), RemovePod,
         UNCHANGED <<boot, known, files, cluster>>,
         worker' = Idle \/ Goto("cleanup")
  PROVE  IInv'
  <1> USE ConstantsAssumption
      DEF IInv, TypeOK, RemovePod, At, boot, cluster, DeleteSteps
  <1>1. UidsIssued' /\ WantedPodKeepsSpec' /\ DanglingConsistent'
    BY DEF UidsIssued, WantedPodKeepsSpec, DanglingConsistent, Wanted
  <1>2. ScanConsistent' /\ RegistryConsistent'
    BY DEF ScanConsistent, RegistryConsistent, EmptyScan
  <1>3. WorkerConsistent'
    BY DEF WorkerConsistent, Workers, Wanted, Goto, Idle, CreateSteps
  <1> QED
    BY <1>1, <1>2, <1>3

LEMMA ProgressIInv == IInv /\ Progress => IInv'
  <1> SUFFICES ASSUME IInv, Progress PROVE IInv'
    OBVIOUS
  <1>1. TypeOK'
    BY ProgressTypeOK DEF IInv
  <1>2. worker \in Workers /\ (mode = "up" => scan = EmptyScan)
    BY DEF IInv, TypeOK, ScanConsistent
  <1> USE <1>1, <1>2 DEF At, Goto, Return, boot, podman, cluster, Workers,
                         CreateSteps, DeleteSteps
  <1>3. CASE RegisterOpen
    BY <1>3, RegisterOpenIInv
  <1>4. CASE RegisterEncode
    BY <1>4, RegisterEncodeIInv
  <1>5. CASE CreatePodVolumes
    BY <1>5, QuietStepIInv DEF CreatePodVolumes
  <1>6. CASE PodCreate
    BY <1>6, AddPodIInv DEF PodCreate
  <1>7. CASE PodInspect
    BY <1>7, QuietStepIInv DEF PodInspect
  <1>8. ASSUME NEW con \in Containers, ContainerCreate(con) PROVE IInv'
    BY <1>8, QuietStepIInv DEF ContainerCreate, Done
  <1>9. ASSUME NEW con \in Containers, ContainerRetry(con) PROVE IInv'
    BY <1>9, QuietStepIInv DEF ContainerRetry, Done
  <1>10. CASE SetContainerIDs
    BY <1>10, QuietStepIInv DEF SetContainerIDs
  <1>11. CASE PodStart
    BY <1>11, QuietStepIInv DEF PodStart, Start
  <1>12. CASE PodStop
    BY <1>12, QuietStepIInv DEF PodStop, Stop
  <1>13. CASE PodStopGone
    BY <1>13, UnregisterIInv DEF PodStopGone
  <1>14. CASE UnregisterPod
    BY <1>14, UnregisterIInv DEF UnregisterPod
  <1>15. CASE PodRm
    BY <1>15, RemovePodIInv DEF PodRm
  <1>16. CASE CleanupVolumes
    BY <1>16, QuietStepIInv DEF CleanupVolumes
  <1> QED
    BY <1>3, <1>4, <1>5, <1>6, <1>7, <1>8, <1>9, <1>10, <1>11, <1>12, <1>13,
       <1>14, <1>15, <1>16 DEF Progress

LEMMA FailureIInv == IInv /\ Failure => IInv'
  <1> SUFFICES ASSUME IInv, Failure PROVE IInv'
    OBVIOUS
  <1>1. TypeOK'
    BY FailureTypeOK DEF IInv
  <1> USE <1>1 DEF At, Return, boot, podman, cluster
  <1>2. CASE RegisterFault
    <2>1. worker.step \in {"register", "encode"} /\ (Return \/ AfterRegister)
      BY <1>2 DEF RegisterFault
    <2>2. worker.stage = "creating" => worker' = Idle
      BY <1>2 DEF RegisterFault
    <2> QED
      BY <1>2, <2>1, <2>2, AfterRegisterStep, QuietStepIInv
      DEF RegisterFault, CreateSteps, IInv
  <1>3. CASE CreatePodVolumesFails
    BY <1>3, QuietStepIInv DEF CreatePodVolumesFails
  <1>4. CASE PodCreateFails
    BY <1>4, QuietStepIInv, AddPodIInv DEF PodCreateFails
  <1>5. CASE PodInspectFails
    BY <1>5, QuietStepIInv DEF PodInspectFails
  <1>6. ASSUME NEW con \in Containers, ContainerRefused(con) \/ ContainerCreateFails(con)
        PROVE  IInv'
    BY <1>6, QuietStepIInv DEF ContainerRefused, ContainerCreateFails
  <1>7. CASE PodStartFails
    BY <1>7, QuietStepIInv DEF PodStartFails, Start
  <1>8. CASE PodStopFails
    BY <1>8, QuietStepIInv DEF PodStopFails, Stop
  <1>9. CASE PodRmFails
    BY <1>9, QuietStepIInv, RemovePodIInv DEF PodRmFails
  <1>10. CASE CleanupVolumesFails
    BY <1>10, QuietStepIInv DEF CleanupVolumesFails
  <1> QED
    BY <1>2, <1>3, <1>4, <1>5, <1>6, <1>7, <1>8, <1>9, <1>10 DEF Failure

LEMMA StutterIInv == IInv /\ UNCHANGED vars => IInv'
  BY DEF IInv, TypeOK, UidsIssued, WorkerConsistent, DanglingConsistent,
         ScanConsistent, WantedPodKeepsSpec, RegistryConsistent, Wanted, vars,
         memory, boot, podman, cluster

LEMMA NextIInv == IInv /\ [Next]_vars => IInv'
  <1> SUFFICES ASSUME IInv, [Next]_vars PROVE IInv'
    OBVIOUS
  <1>1. ASSUME NEW c \in Coords, NEW u \in Uids, UserCreates(c, u) PROVE IInv'
    BY <1>1, UserCreatesIInv
  <1>2. ASSUME NEW c \in Coords, UserDeletes(c) \/ ApiRemoves(c) PROVE IInv'
    BY <1>2, DeletionIInv
  <1>3. CASE Crash \/ Reboot \/ StartupFault
    BY <1>3, ForgetIInv DEF Crash, Reboot, StartupFault, podman, IInv, TypeOK
  <1>4. CASE Startup
    BY <1>4, StartupIInv
  <1>5. ASSUME NEW c \in Coords, Dispatch(c) PROVE IInv'
    BY <1>5, DispatchIInv
  <1>6. CASE Progress
    BY <1>6, ProgressIInv
  <1>7. CASE Failure
    BY <1>7, FailureIInv
  <1>8. CASE UNCHANGED vars
    BY <1>8, StutterIInv
  <1> QED
    BY <1>1, <1>2, <1>3, <1>4, <1>5, <1>6, <1>7, <1>8 DEF Next, User

\* The inductive invariant holds in every state the node can reach, whatever
\* calls fail and wherever the process crashes or the host is rebooted.
THEOREM InductiveInvariant == Spec => []IInv
  BY InitIInv, NextIInv, PTL DEF Spec

\* Type correctness of the registry, the worker, the host and the cluster state.
THEOREM TypeCorrect == Spec => []TypeOK
  BY InductiveInvariant, PTL DEF IInv

\* A pod the cluster still wants always has a spec file, so a restart never
\* takes it for a dangling pod (RegisterPod before PodCreate in CreatePod,
\* UnregisterPod only in DeletePod, RemovePod in NewPodManager).
THEOREM WantedPodKeepsSpecThm == Spec => []WantedPodKeepsSpec
  BY InductiveInvariant, PTL DEF IInv

\* KnownPods and the spec files agree while the node is up.
THEOREM RegistryMatchesStoreThm == Spec => []RegistryMatchesStore
  <1>1. IInv => RegistryMatchesStore
    BY DEF IInv, ScanConsistent, RegistryConsistent, RegistryMatchesStore,
           EmptyScan
  <1> QED
    BY <1>1, InductiveInvariant, PTL

-----------------------------------------------------------------------------
(* No step takes a wanted pod away *)

LEMMA StepKeepsWanted ==
  ASSUME IInv, [Next]_vars, NEW d \in Coords, Wanted(d)
  PROVE  pods'[d] = pods[d]
  <1> USE DEF vars, podman, Wanted
  <1>1. ASSUME NEW c \in Coords, RemoveDanglingPod(c) PROVE pods'[d] = pods[d]
    \* A pod in foundPodMap whose file was not listed has no file.
    <2>1. files[c] = None
      BY <1>1 DEF RemoveDanglingPod, Stop, IInv, ScanConsistent
    <2> QED
      BY <1>1, <2>1 DEF RemoveDanglingPod, Stop, IInv, TypeOK, WantedPodKeepsSpec
  <1>2. CASE PodCreate \/ PodCreateFails
    BY <1>2, ConstantsAssumption DEF PodCreate, PodCreateFails, AddPod, IInv, TypeOK
  <1>3. CASE PodRm \/ PodRmFails
    \* DeletePod is at a pod that is not wanted.
    <2>1. ~Wanted(worker.coord)
      BY <1>3 DEF PodRm, PodRmFails, At, IInv, WorkerConsistent, DeleteSteps
    <2> QED
      BY <1>3, <2>1 DEF PodRm, PodRmFails, RemovePod, IInv, TypeOK
  <1>4. ASSUME NEW c \in Coords,
               \/ \E u \in Uids : UserCreates(c, u)
               \/ UserDeletes(c) \/ ApiRemoves(c) \/ Dispatch(c)
               \/ CorrelatePod(c) \/ RejectTornSpec(c) \/ DropStoredPod(c)
        PROVE  pods'[d] = pods[d]
    BY <1>4 DEF UserCreates, UserDeletes, ApiRemoves, Dispatch, BeginCreate,
                BeginDelete, BeginDeleteGone, BeginDeleteDangling, CorrelatePod,
                RejectTornSpec, DropStoredPod
  <1>5. CASE Crash \/ Reboot \/ StartupFault \/ ListPods \/ PodManagerReady
    BY <1>5 DEF Crash, Reboot, StartupFault, ListPods, StoredPods, FoundPods, PodManagerReady
  <1>6. ASSUME NEW con \in Containers,
               \/ ContainerCreate(con) \/ ContainerRetry(con)
               \/ ContainerRefused(con) \/ ContainerCreateFails(con)
        PROVE  pods'[d] = pods[d]
    BY <1>6 DEF ContainerCreate, ContainerRetry, ContainerRefused, ContainerCreateFails
  <1>7. CASE \/ RegisterOpen \/ RegisterEncode \/ RegisterFault
             \/ CreatePodVolumes \/ CreatePodVolumesFails
             \/ PodInspect \/ PodInspectFails \/ SetContainerIDs
             \/ PodStart \/ PodStartFails \/ PodStop \/ PodStopGone
             \/ PodStopFails \/ UnregisterPod
             \/ CleanupVolumes \/ CleanupVolumesFails
    BY <1>7 DEF RegisterOpen, RegisterEncode, RegisterFault, CreatePodVolumes,
                CreatePodVolumesFails, PodInspect, PodInspectFails,
                SetContainerIDs, PodStart, PodStartFails, PodStop, PodStopGone,
                PodStopFails, Start, Stop, UnregisterPod, CleanupVolumes, CleanupVolumesFails
  <1> QED
    BY <1>1, <1>2, <1>3, <1>4, <1>5, <1>6, <1>7
    DEF Next, User, Startup, Progress, Failure

\* No step of the node removes a podman pod the cluster still wants.
THEOREM WantedPodNeverRemovedThm == Spec => WantedPodNeverRemoved
  <1>1. IInv /\ [Next]_vars => [\A c \in Coords : Wanted(c) => pods'[c] = pods[c]]_vars
    BY StepKeepsWanted
  <1> QED
    BY <1>1, InductiveInvariant, PTL DEF Spec, WantedPodNeverRemoved

-----------------------------------------------------------------------------
(* Without podman and disk failures no pod escapes the node *)

\* A step that leaves the registry, the files and podman's list of pods alone and
\* goes on within CreatePod after its first RegisterPod, or within DeletePod
\* before it unregisters, or ends a call.
LEMMA QuietStepAccount ==
  ASSUME IInv, AccountConsistent, mode = "up",
         UNCHANGED <<mode, scan, known, files, pods>>,
         worker.step \notin {"idle", "rm"},
         \/ worker' = Idle
         \/ /\ worker'.coord = worker.coord
            /\ worker'.uid = worker.uid
            /\ \/ /\ worker.step \in CreateSteps
                  /\ worker.step \in {"register", "encode"} => worker.stage # "creating"
                  /\ worker'.step \in CreateSteps
                  /\ worker'.step \in {"register", "encode"} => worker'.stage # "creating"
               \/ worker'.step \in DeleteSteps
  PROVE  AccountConsistent'
  BY DEF AccountConsistent, IInv, TypeOK, Idle, CreateSteps, DeleteSteps

LEMMA ProgressAccount ==
  IInv /\ AccountConsistent /\ Progress => AccountConsistent'
  <1> SUFFICES ASSUME IInv, AccountConsistent, Progress, Faults \subseteq {"crash", "reboot"}
               PROVE  AccountConsistent'
    BY DEF AccountConsistent
  <1>1. worker \in Workers
    BY DEF IInv, TypeOK
  <1> USE <1>1, ConstantsAssumption
      DEF At, Goto, Return, boot, podman, cluster, Workers, CreateSteps, DeleteSteps
  <1>2. CASE RegisterOpen
    BY <1>2 DEF RegisterOpen, AccountConsistent, IInv, TypeOK
  <1>3. CASE RegisterEncode
    <2>1. pods[worker.coord] \in {None, worker.uid}
      BY <1>3 DEF RegisterEncode, AccountConsistent, IInv, TypeOK
    <2>2. \/ worker' = Idle
          \/ /\ worker'.coord = worker.coord
             /\ worker'.uid = worker.uid
             /\ \/ worker'.step = "register" /\ worker'.stage = "ready"
                \/ worker'.step \in {"volumes", "start"}
      BY <1>3 DEF RegisterEncode, AfterRegister
    <2> QED
      BY <1>3, <2>1, <2>2 DEF RegisterEncode, AccountConsistent, IInv, TypeOK, Idle
  <1>4. CASE CreatePodVolumes
    BY <1>4, QuietStepAccount DEF CreatePodVolumes
  <1>5. CASE PodCreate
    BY <1>5 DEF PodCreate, AddPod, AccountConsistent, IInv, TypeOK,
                RegistryConsistent
  <1>6. CASE PodInspect
    BY <1>6, QuietStepAccount DEF PodInspect
  <1>7. ASSUME NEW con \in Containers, ContainerCreate(con) PROVE AccountConsistent'
    BY <1>7, QuietStepAccount DEF ContainerCreate, Done
  <1>8. ASSUME NEW con \in Containers, ContainerRetry(con) PROVE AccountConsistent'
    BY <1>8, QuietStepAccount DEF ContainerRetry, Done
  <1>9. CASE SetContainerIDs
    BY <1>9, QuietStepAccount DEF SetContainerIDs
  <1>10. CASE PodStart
    BY <1>10, QuietStepAccount DEF PodStart, Start
  <1>11. CASE PodStop
    BY <1>11, QuietStepAccount DEF PodStop, Stop
  <1>12. CASE PodStopGone
    BY <1>12 DEF PodStopGone, ForgetPod, RemoveFile, AccountConsistent, IInv,
                 TypeOK, Idle
  <1>13. CASE UnregisterPod
    \* Without disk failures the file goes, and DeletePod goes on to PodRm.
    <2>1. Goto("rm") /\ files' = [files EXCEPT ![worker.coord] = None]
      BY <1>13 DEF UnregisterPod, RemoveFile, IInv, TypeOK
    <2> QED
      BY <1>13, <2>1 DEF UnregisterPod, ForgetPod, AccountConsistent, IInv, TypeOK
  <1>14. CASE PodRm
    BY <1>14 DEF PodRm, RemovePod, AccountConsistent, IInv, TypeOK
  <1>15. CASE CleanupVolumes
    BY <1>15, QuietStepAccount DEF CleanupVolumes
  <1> QED
    BY <1>2, <1>3, <1>4, <1>5, <1>6, <1>7, <1>8, <1>9, <1>10, <1>11, <1>12,
       <1>13, <1>14, <1>15 DEF Progress

LEMMA FailureAccount ==
  IInv /\ AccountConsistent /\ Failure => AccountConsistent'
  <1> SUFFICES ASSUME IInv, AccountConsistent, Failure, Faults \subseteq {"crash", "reboot"}
               PROVE  AccountConsistent'
    BY DEF AccountConsistent
  <1>1. "podman" \notin Faults /\ "disk" \notin Faults
    OBVIOUS
  <1> USE <1>1, QuietStepAccount DEF At, Return, boot, podman, cluster
  \* What is left of the failures are podman's refusals: nothing has changed.
  <1>2. CASE RegisterFault \/ PodInspectFails \/ PodStartFails \/ PodStopFails
             \/ PodRmFails
    BY <1>2 DEF RegisterFault, PodInspectFails, PodStartFails, PodStopFails, Start, Stop, PodRmFails
  <1>3. CASE CreatePodVolumesFails \/ CleanupVolumesFails
    BY <1>3 DEF CreatePodVolumesFails, CleanupVolumesFails
  <1>4. CASE PodCreateFails
    BY <1>4 DEF PodCreateFails
  <1>5. ASSUME NEW con \in Containers, ContainerRefused(con) \/ ContainerCreateFails(con)
        PROVE  AccountConsistent'
    BY <1>5 DEF ContainerRefused, ContainerCreateFails
  <1> QED
    BY <1>2, <1>3, <1>4, <1>5 DEF Failure

LEMMA NextAccount ==
  IInv /\ AccountConsistent /\ [Next]_vars => AccountConsistent'
  <1> SUFFICES ASSUME IInv, AccountConsistent, [Next]_vars PROVE AccountConsistent'
    OBVIOUS
  <1> USE DEF boot, memory, podman, cluster
  <1>1. ASSUME NEW c \in Coords,
               (\E u \in Uids : UserCreates(c, u)) \/ UserDeletes(c) \/ ApiRemoves(c)
        PROVE  AccountConsistent'
    BY <1>1 DEF UserCreates, UserDeletes, ApiRemoves, AccountConsistent
  <1>2. CASE Crash \/ Reboot \/ StartupFault \/ (\E c \in Coords : RejectTornSpec(c))
    BY <1>2 DEF Crash, Reboot, StartupFault, RejectTornSpec, Forget, AccountConsistent,
                Idle, CreateSteps
  <1>3. CASE ListPods
    BY <1>3 DEF ListPods, StoredPods, FoundPods, AccountConsistent, IInv, TypeOK
  <1>4. CASE PodManagerReady
    BY <1>4 DEF PodManagerReady, EmptyScan, AccountConsistent, IInv, TypeOK
  <1>5. ASSUME NEW c \in Coords, CorrelatePod(c) PROVE AccountConsistent'
    <2>1. files[c] # None
      BY <1>5 DEF CorrelatePod, IInv, ScanConsistent
    <2> QED
      BY <1>5, <2>1
      DEF CorrelatePod, AccountConsistent, IInv, TypeOK, WorkerConsistent, Idle,
          CreateSteps
  <1>6. ASSUME NEW c \in Coords, DropStoredPod(c) PROVE AccountConsistent'
    BY <1>6 DEF DropStoredPod, AccountConsistent, IInv, TypeOK
  <1>7. ASSUME NEW c \in Coords, RemoveDanglingPod(c) PROVE AccountConsistent'
    BY <1>7 DEF RemoveDanglingPod, Stop, AccountConsistent, IInv, TypeOK,
                WorkerConsistent, Idle, CreateSteps
  <1>8. ASSUME NEW c \in Coords, Dispatch(c) PROVE AccountConsistent'
    BY <1>8 DEF Dispatch, BeginCreate, BeginDelete, BeginDeleteGone,
                BeginDeleteDangling, Begin, At, AccountConsistent, IInv, TypeOK,
                CreateSteps
  <1>9. CASE Progress \/ Failure
    BY <1>9, ProgressAccount, FailureAccount
  <1>10. CASE UNCHANGED vars
    BY <1>10 DEF vars, AccountConsistent
  <1> QED
    BY <1>1, <1>2, <1>3, <1>4, <1>5, <1>6, <1>7, <1>8, <1>9, <1>10
    DEF Next, User, Startup

\* Whatever the crashes and reboots, as long as podman and the disk do not fail,
\* every podman pod of an up node is known under the UID it was made for, or
\* DeletePod is about to remove it.
THEOREM PodsAccountedThm == Spec => []PodsAccounted
  <1>1. Init => AccountConsistent
    BY DEF Init, AccountConsistent, Idle, CreateSteps
  <1>2. AccountConsistent => PodsAccounted
    BY DEF AccountConsistent, PodsAccounted
  <1> QED
    BY <1>1, <1>2, NextAccount, InductiveInvariant, PTL DEF Spec


-----------------------------------------------------------------------------
(* What is reported as Ready runs *)

\* The stages between which AfterRegister goes.
LEMMA AfterRegisterMoves ==
  ASSUME TypeOK, worker.step \in {"register", "encode"}, AfterRegister
  PROVE  \/ worker' = Idle
         \/ /\ worker'.coord = worker.coord /\ worker'.todo = worker.todo
            /\ \/ /\ worker.stage = "creating"
                  /\ worker'.step = "volumes" /\ worker'.stage = "creating"
               \/ /\ worker.stage = "initialized"
                  /\ worker'.step = "start" /\ worker'.stage = "initialized"
               \/ /\ worker.stage = "running"
                  /\ worker'.step = "register" /\ worker'.stage = "ready"
  BY DEF AfterRegister, Goto, Return, TypeOK, Workers, Stages, Idle

LEMMA ProgressRun ==
  ASSUME IInv, RunConsistent, Progress, "podman" \notin Faults
  PROVE  RunConsistent'
  <1>1. worker \in Workers /\ (worker.step # "idle" => worker.coord \in Coords)
    BY DEF IInv, TypeOK
  <1> USE <1>1, ConstantsAssumption
      DEF At, Goto, Return, boot, podman, cluster, Workers, CreateSteps, DeleteSteps,
          ReadyPodRuns, PodMade
  <1>2. CASE RegisterOpen
    <2>1. StatusAt(worker.stage).ready => worker.stage = "ready"
      BY DEF StatusAt, Stages
    <2>2. \A c \in Coords :
            notified'[c] = IF c = worker.coord THEN StatusAt(worker.stage) ELSE notified[c]
      BY <1>2 DEF RegisterOpen, IInv, TypeOK
    <2>3. \A c \in Coords : files'[c] = IF c = worker.coord THEN Torn ELSE files[c]
      BY <1>2 DEF RegisterOpen, IInv, TypeOK
    <2> QED
      BY <1>2, <2>1, <2>2, <2>3 DEF RegisterOpen, RunConsistent, IInv, TypeOK
  <1>3. CASE RegisterEncode
    BY <1>3, AfterRegisterMoves DEF RegisterEncode, RunConsistent, IInv, TypeOK, Idle
  <1>4. CASE CreatePodVolumes
    BY <1>4 DEF CreatePodVolumes, RunConsistent
  <1>5. CASE PodCreate
    BY <1>5 DEF PodCreate, AddPod, RunConsistent, IInv, TypeOK, WorkerConsistent
  <1>6. CASE PodInspect
    BY <1>6 DEF PodInspect, RunConsistent
  <1>7. ASSUME NEW con \in Containers, ContainerCreate(con) PROVE RunConsistent'
    BY <1>7 DEF ContainerCreate, Done, RunConsistent
  <1>8. ASSUME NEW con \in Containers, ContainerRetry(con) PROVE RunConsistent'
    BY <1>8 DEF ContainerRetry, Done, RunConsistent
  <1>9. CASE SetContainerIDs
    BY <1>9 DEF SetContainerIDs, RunConsistent
  <1>10. CASE PodStart
    BY <1>10 DEF PodStart, Start, RunConsistent
  <1>11. CASE PodStop
    BY <1>11 DEF PodStop, Stop, RunConsistent, IInv, TypeOK, Statuses
  <1>12. CASE PodStopGone
    BY <1>12 DEF PodStopGone, RemoveFile, RunConsistent, IInv, TypeOK, Idle
  <1>13. CASE UnregisterPod
    BY <1>13 DEF UnregisterPod, RemoveFile, RunConsistent, IInv, TypeOK, Idle
  <1>14. CASE PodRm
    BY <1>14 DEF PodRm, RemovePod, RunConsistent, IInv, TypeOK
  <1>15. CASE CleanupVolumes
    BY <1>15 DEF CleanupVolumes, RunConsistent, Idle
  <1> QED
    BY <1>2, <1>3, <1>4, <1>5, <1>6, <1>7, <1>8, <1>9, <1>10, <1>11, <1>12,
       <1>13, <1>14, <1>15 DEF Progress

LEMMA FailureRun ==
  ASSUME IInv, RunConsistent, Failure, "podman" \notin Faults
  PROVE  RunConsistent'
  <1>1. worker \in Workers /\ (worker.step # "idle" => worker.coord \in Coords)
    BY DEF IInv, TypeOK
  <1> USE <1>1, ConstantsAssumption
      DEF At, Return, boot, podman, cluster, CreateSteps, DeleteSteps, ReadyPodRuns,
          PodMade
  <1>2. CASE RegisterFault
    <2>1. worker.step \in {"register", "encode"} /\ (Return \/ AfterRegister)
      BY <1>2 DEF RegisterFault
    <2>2. StatusAt(worker.stage).ready => worker.stage = "ready"
      BY DEF StatusAt, Stages, Workers
    <2>3. \A c \in Coords :
            notified'[c] = notified[c] \/ (/\ c = worker.coord
                                           /\ notified'[c] = StatusAt(worker.stage))
      BY <1>2 DEF RegisterFault, IInv, TypeOK
    <2>4. worker.stage = "creating" => worker' = Idle
      BY <1>2 DEF RegisterFault
    <2> QED
      BY <1>2, <2>1, <2>2, <2>3, <2>4, AfterRegisterMoves
      DEF RegisterFault, RunConsistent, IInv, Idle
  <1>3. CASE CreatePodVolumesFails \/ CleanupVolumesFails
    BY <1>3 DEF CreatePodVolumesFails, CleanupVolumesFails, RunConsistent, Idle
  <1>4. CASE PodCreateFails
    BY <1>4 DEF PodCreateFails, RunConsistent, Idle
  <1>5. ASSUME NEW con \in Containers, ContainerRefused(con) \/ ContainerCreateFails(con)
        PROVE  RunConsistent'
    BY <1>5 DEF ContainerRefused, ContainerCreateFails, RunConsistent, Idle
  <1> QED
    BY <1>2, <1>3, <1>4, <1>5
    DEF Failure, PodInspectFails, PodStartFails, PodStopFails, Start, Stop, PodRmFails

LEMMA NextRun == IInv /\ RunConsistent /\ [Next]_vars => RunConsistent'
  <1> SUFFICES ASSUME IInv, RunConsistent, [Next]_vars, "podman" \notin Faults
               PROVE  RunConsistent'
    BY DEF RunConsistent
  <1> USE ConstantsAssumption
      DEF memory, boot, podman, cluster, ReadyPodRuns, PodMade
  <1>1. ASSUME NEW c \in Coords, NEW u \in Uids, UserCreates(c, u) PROVE RunConsistent'
    BY <1>1 DEF UserCreates, NoStatus, RunConsistent, IInv, TypeOK
  <1>2. ASSUME NEW c \in Coords, UserDeletes(c) \/ ApiRemoves(c) PROVE RunConsistent'
    BY <1>2 DEF UserDeletes, ApiRemoves, RunConsistent
  <1>3. CASE Crash \/ Reboot \/ StartupFault
    BY <1>3 DEF Crash, Reboot, StartupFault, Forget, Idle, RunConsistent
  <1>4. CASE ListPods \/ PodManagerReady
    BY <1>4 DEF ListPods, PodManagerReady, RunConsistent
  <1>5. ASSUME NEW c \in Coords, CorrelatePod(c) \/ RejectTornSpec(c)
        PROVE  RunConsistent'
    BY <1>5 DEF CorrelatePod, RejectTornSpec, Forget, Idle, RunConsistent
  <1>6. ASSUME NEW c \in Coords, DropStoredPod(c) PROVE RunConsistent'
    \* The stored pod is dropped because podman has no pod of that name.
    <2>1. worker = Idle /\ pods[c] = None
      BY <1>6 DEF DropStoredPod, IInv, WorkerConsistent, ScanConsistent
    <2> QED
      BY <1>6, <2>1 DEF DropStoredPod, IInv, TypeOK, Idle, RunConsistent
  <1>7. ASSUME NEW c \in Coords, RemoveDanglingPod(c) PROVE RunConsistent'
    \* The dangling pod has no spec file, and so was not left reported as Ready.
    <2>1. worker = Idle /\ files[c] = None
      BY <1>7 DEF RemoveDanglingPod, Stop, IInv, WorkerConsistent, ScanConsistent
    <2> QED
      BY <1>7, <2>1 DEF RemoveDanglingPod, Stop, IInv, TypeOK, Idle, RunConsistent
  <1>8. ASSUME NEW c \in Coords, Dispatch(c) PROVE RunConsistent'
    BY <1>8 DEF Dispatch, BeginCreate, BeginDelete, BeginDeleteGone,
                BeginDeleteDangling, Begin, RunConsistent
  <1>9. CASE Progress \/ Failure
    BY <1>9, ProgressRun, FailureRun
  <1>10. CASE UNCHANGED vars
    BY <1>10 DEF vars, RunConsistent
  <1> QED
    BY <1>1, <1>2, <1>3, <1>4, <1>5, <1>6, <1>7, <1>8, <1>9, <1>10
    DEF Next, User, Startup

\* Without podman failures, a pod last reported as Ready is started in podman, or was
\* until the host was rebooted (CreatePod, DeletePod, NewPodManager).
THEOREM ReadyPodRunsThm == Spec => []ReadyPodRuns
  <1>1. Init => RunConsistent
    BY DEF Init, RunConsistent, ReadyPodRuns, PodMade, Idle, NoStatus
  <1>2. RunConsistent => ReadyPodRuns
    BY DEF RunConsistent, ReadyPodRuns
  <1>3. Spec => []RunConsistent
    BY <1>1, NextRun, InductiveInvariant, PTL DEF Spec
  <1> QED
    BY <1>2, <1>3, PTL

-----------------------------------------------------------------------------
(* Recorded container IDs are of containers podman has *)

LEMMA ProgressIds ==
  ASSUME IInv, IdsConsistent, Progress
  PROVE  IdsConsistent'
  <1>1. worker \in Workers /\ (worker.step # "idle" => worker.coord \in Coords)
    BY DEF IInv, TypeOK
  <1> USE <1>1, ConstantsAssumption
      DEF At, Goto, Return, boot, podman, cluster, Workers, CreateSteps, DeleteSteps,
          ConsOf
  <1>2. CASE RegisterOpen
    BY <1>2 DEF RegisterOpen, IdsConsistent
  <1>3. CASE RegisterEncode
    <2>1. \A c \in Coords :
            /\ known'[c] = IF c = worker.coord THEN worker.uid ELSE known[c]
            /\ ids'[c] = IF c = worker.coord /\ known[c] = None THEN {} ELSE ids[c]
      BY <1>3 DEF RegisterEncode, IInv, TypeOK
    <2>2. worker.uid # None /\ UNCHANGED <<cons, loose>>
      BY <1>3 DEF RegisterEncode, IInv, TypeOK
    <2> HIDE DEF ConsOf
    <2>3. UNCHANGED <<cons, loose>> => \A c \in Coords : ConsOf(c)' = ConsOf(c)
      BY DEF ConsOf
    <2> QED
      BY <1>3, <2>1, <2>2, <2>3, AfterRegisterMoves
      DEF RegisterEncode, IdsConsistent, IInv, Idle
  <1>4. CASE CreatePodVolumes
    BY <1>4 DEF CreatePodVolumes, IdsConsistent
  <1>5. CASE PodCreate
    BY <1>5 DEF PodCreate, IdsConsistent
  <1>6. CASE PodInspect
    BY <1>6 DEF PodInspect, IdsConsistent
  <1>7. ASSUME NEW con \in Containers, ContainerCreate(con) PROVE IdsConsistent'
    <2>1. \A c \in Coords : ConsOf(c) \subseteq ConsOf(c)'
      BY <1>7 DEF ContainerCreate, IInv, TypeOK
    <2>2. con \in ConsOf(worker.coord)'
      BY <1>7 DEF ContainerCreate, Done, IInv, TypeOK
    <2> HIDE DEF ConsOf
    <2> QED
      BY <1>7, <2>1, <2>2 DEF ContainerCreate, Done, IdsConsistent
  <1>8. ASSUME NEW con \in Containers, ContainerRetry(con) PROVE IdsConsistent'
    <2>1. \A c \in Coords : ConsOf(c) \subseteq ConsOf(c)'
      BY <1>8 DEF ContainerRetry
    <2>2. con \in ConsOf(worker.coord)'
      <3>1. <<worker'.coord, con, worker.uid>> \in loose'
        BY <1>8 DEF ContainerRetry, Done
      <3> QED
        BY <3>1
    <2> HIDE DEF ConsOf
    <2> QED
      BY <1>8, <2>1, <2>2 DEF ContainerRetry, Done, IdsConsistent
  <1>9. CASE SetContainerIDs
    BY <1>9 DEF SetContainerIDs, IdsConsistent, IInv, TypeOK
  <1>10. CASE PodStart
    BY <1>10 DEF PodStart, Start, IdsConsistent
  <1>11. CASE PodStop
    BY <1>11 DEF PodStop, Stop, IdsConsistent
  <1>12. CASE PodStopGone
    BY <1>12 DEF PodStopGone, ForgetPod, IdsConsistent, IInv, TypeOK, Idle
  <1>13. CASE UnregisterPod
    BY <1>13 DEF UnregisterPod, ForgetPod, IdsConsistent, IInv, TypeOK, Idle
  <1>14. CASE PodRm
    BY <1>14 DEF PodRm, RemovePod, IdsConsistent, IInv, TypeOK
  <1>15. CASE CleanupVolumes
    BY <1>15 DEF CleanupVolumes, IdsConsistent, Idle
  <1> QED
    BY <1>2, <1>3, <1>4, <1>5, <1>6, <1>7, <1>8, <1>9, <1>10, <1>11, <1>12,
       <1>13, <1>14, <1>15 DEF Progress

LEMMA FailureIds ==
  ASSUME IInv, IdsConsistent, Failure
  PROVE  IdsConsistent'
  <1>1. worker \in Workers /\ (worker.step # "idle" => worker.coord \in Coords)
    BY DEF IInv, TypeOK
  <1> USE <1>1, ConstantsAssumption
      DEF At, Return, boot, podman, cluster, CreateSteps, DeleteSteps, ConsOf
  <1>2. CASE RegisterFault
    <2>1. worker.step \in {"register", "encode"} /\ (Return \/ AfterRegister)
      BY <1>2 DEF RegisterFault
    <2>2. worker.stage = "creating" => worker' = Idle
      BY <1>2 DEF RegisterFault
    <2> QED
      BY <1>2, <2>1, <2>2, AfterRegisterMoves DEF RegisterFault, IdsConsistent, IInv, Idle
  <1>3. CASE \/ CreatePodVolumesFails \/ CleanupVolumesFails \/ PodCreateFails
             \/ PodInspectFails \/ PodStartFails \/ PodStopFails
    BY <1>3 DEF CreatePodVolumesFails, CleanupVolumesFails, PodCreateFails,
       PodInspectFails, PodStartFails, PodStopFails, Start, Stop, IdsConsistent, Idle
  <1>4. ASSUME NEW con \in Containers, ContainerRefused(con) \/ ContainerCreateFails(con)
        PROVE  IdsConsistent'
    <2>1. \A c \in Coords : ConsOf(c) \subseteq ConsOf(c)'
      BY <1>4 DEF ContainerRefused, ContainerCreateFails, IInv, TypeOK
    <2> HIDE DEF ConsOf
    <2> QED
      BY <1>4, <2>1 DEF ContainerRefused, ContainerCreateFails, IdsConsistent, Idle
  <1>5. CASE PodRmFails
    BY <1>5 DEF PodRmFails, RemovePod, IdsConsistent, IInv, TypeOK, Idle
  <1> QED
    BY <1>2, <1>3, <1>4, <1>5 DEF Failure

LEMMA NextIds == IInv /\ IdsConsistent /\ [Next]_vars => IdsConsistent'
  <1> SUFFICES ASSUME IInv, IdsConsistent, [Next]_vars PROVE IdsConsistent'
    OBVIOUS
  <1> USE ConstantsAssumption
      DEF memory, boot, podman, cluster, CreateSteps, DeleteSteps, ConsOf
  <1>1. ASSUME NEW c \in Coords,
               \/ \E u \in Uids : UserCreates(c, u)
               \/ UserDeletes(c) \/ ApiRemoves(c)
        PROVE  IdsConsistent'
    BY <1>1 DEF UserCreates, UserDeletes, ApiRemoves, IdsConsistent
  <1>2. CASE Crash \/ Reboot \/ StartupFault
    BY <1>2 DEF Crash, Reboot, StartupFault, Forget, Idle, IdsConsistent
  <1>3. CASE ListPods \/ PodManagerReady
    BY <1>3 DEF ListPods, PodManagerReady, IdsConsistent
  <1>4. ASSUME NEW c \in Coords, CorrelatePod(c) PROVE IdsConsistent'
    <2>1. worker = Idle
      BY <1>4 DEF CorrelatePod, IInv, WorkerConsistent
    <2> QED
      BY <1>4, <2>1 DEF CorrelatePod, IInv, TypeOK, Idle, IdsConsistent, ScanConsistent
  <1>5. ASSUME NEW c \in Coords, RejectTornSpec(c) PROVE IdsConsistent'
    BY <1>5 DEF RejectTornSpec, Forget, Idle, IdsConsistent
  <1>6. ASSUME NEW c \in Coords, DropStoredPod(c) PROVE IdsConsistent'
    BY <1>6 DEF DropStoredPod, IdsConsistent
  <1>7. ASSUME NEW c \in Coords, RemoveDanglingPod(c) PROVE IdsConsistent'
    \* A pod without a spec file is not known, and has no IDs.
    <2>1. worker = Idle /\ known[c] = None
      BY <1>7 DEF RemoveDanglingPod, Stop, IInv, WorkerConsistent, ScanConsistent,
         RegistryConsistent, TypeOK
    <2> QED
      BY <1>7, <2>1 DEF RemoveDanglingPod, Stop, IInv, TypeOK, Idle, IdsConsistent
  <1>8. ASSUME NEW c \in Coords, Dispatch(c) PROVE IdsConsistent'
    BY <1>8 DEF Dispatch, BeginCreate, BeginDelete, BeginDeleteGone,
                BeginDeleteDangling, Begin, IdsConsistent
  <1>9. CASE Progress \/ Failure
    BY <1>9, ProgressIds, FailureIds
  <1>10. CASE UNCHANGED vars
    BY <1>10 DEF vars, IdsConsistent
  <1> QED
    BY <1>1, <1>2, <1>3, <1>4, <1>5, <1>6, <1>7, <1>8, <1>9, <1>10
    DEF Next, User, Startup

\* The container IDs kept for a pod are of containers podman still has.
THEOREM ContainerIDsRealThm == Spec => []ContainerIDsReal
  <1>1. Init => IdsConsistent
    BY DEF Init, IdsConsistent, Idle, CreateSteps
  <1>2. IdsConsistent => ContainerIDsReal
    BY DEF IdsConsistent, ContainerIDsReal
  <1>3. Spec => []IdsConsistent
    BY <1>1, NextIds, InductiveInvariant, PTL DEF Spec
  <1> QED
    BY <1>2, <1>3, PTL

-----------------------------------------------------------------------------
(* Files and pods are kept as a ledger *)

\* A step that leaves the files alone.
LEMMA FilesLeft ==
  ASSUME FileInHand, files' = files,
         \/ worker'.step \notin {"encode", "volumes", "podcreate", "rm"}
         \/ /\ worker'.coord = worker.coord
            /\ worker'.uid = worker.uid
            /\ \/ worker'.step = worker.step
               \/ worker.step = "volumes" /\ worker'.step = "podcreate"
  PROVE  FileInHand'
  BY DEF FileInHand

LEMMA ProgressFile ==
  ASSUME IInv, FileInHand, Progress
  PROVE  FileInHand'
  <1> USE ConstantsAssumption DEF At, Goto, Return, boot, Idle
  <1>0. worker \in Workers /\ (worker.step # "idle" => worker.coord \in Coords)
        /\ files \in [Coords -> Uids \union {None, Torn}]
    BY DEF IInv, TypeOK
  <1>1. CASE RegisterOpen
    BY <1>1, <1>0 DEF RegisterOpen, FileInHand, Workers
  <1>2. CASE RegisterEncode
    <2>1. worker.coord \in Coords /\ files' = [files EXCEPT ![worker.coord] = worker.uid]
      BY <1>2, <1>0 DEF RegisterEncode
    <2>2. \/ worker' = Idle
          \/ /\ worker'.coord = worker.coord
             /\ worker'.uid = worker.uid
             /\ worker'.step \in {"start", "register", "volumes"}
      BY <1>2, AfterRegisterStep DEF RegisterEncode, IInv
    <2> QED
      BY <1>0, <2>1, <2>2 DEF FileInHand
  <1>3. CASE PodStopGone
    BY <1>3 DEF PodStopGone, FileInHand
  <1>4. CASE UnregisterPod
    BY <1>4, <1>0 DEF UnregisterPod, FileInHand, Workers
  <1>5. CASE CreatePodVolumes \/ PodCreate \/ PodInspect \/ SetContainerIDs \/ PodStart
    BY <1>5, <1>0, FilesLeft DEF CreatePodVolumes, PodCreate, PodInspect,
       SetContainerIDs, PodStart, Start, Workers
  <1>6. CASE PodStop \/ PodRm \/ CleanupVolumes
    BY <1>6, <1>0, FilesLeft DEF PodStop, Stop, PodRm, CleanupVolumes, Workers
  <1>7. ASSUME NEW con \in Containers, ContainerCreate(con) \/ ContainerRetry(con)
        PROVE  FileInHand'
    BY <1>7, <1>0, FilesLeft DEF ContainerCreate, ContainerRetry, Done, Workers
  <1> QED
    BY <1>1, <1>2, <1>3, <1>4, <1>5, <1>6, <1>7 DEF Progress

LEMMA FailureFile ==
  ASSUME IInv, FileInHand, Failure
  PROVE  FileInHand'
  <1> USE DEF At, Return, boot, Idle
  <1>1. CASE RegisterFault
    <2>1. \/ worker' = Idle
          \/ worker'.step \in {"start", "register"}
      BY <1>1, AfterRegisterStep DEF RegisterFault, IInv
    <2> QED
      BY <1>1, <2>1, FilesLeft DEF RegisterFault
  <1>2. CASE \/ CreatePodVolumesFails \/ PodCreateFails \/ PodInspectFails
             \/ PodStartFails \/ PodStopFails \/ PodRmFails \/ CleanupVolumesFails
    BY <1>2, FilesLeft DEF CreatePodVolumesFails, PodCreateFails, PodInspectFails,
       PodStartFails, PodStopFails, Start, Stop, PodRmFails, CleanupVolumesFails
  <1>3. ASSUME NEW con \in Containers, ContainerRefused(con) \/ ContainerCreateFails(con)
        PROVE  FileInHand'
    BY <1>3, FilesLeft DEF ContainerRefused, ContainerCreateFails
  <1> QED
    BY <1>1, <1>2, <1>3 DEF Failure

LEMMA NextFile == IInv /\ FileInHand /\ [Next]_vars => FileInHand'
  <1> SUFFICES ASSUME IInv, FileInHand, [Next]_vars PROVE FileInHand'
    OBVIOUS
  <1> USE DEF memory, boot, Idle
  <1>1. CASE Progress \/ Failure
    BY <1>1, ProgressFile, FailureFile
  <1>2. ASSUME NEW c \in Coords, \/ \E u \in Uids : UserCreates(c, u)
                                 \/ UserDeletes(c) \/ ApiRemoves(c)
        PROVE  FileInHand'
    BY <1>2 DEF UserCreates, UserDeletes, ApiRemoves, FileInHand
  <1>3. CASE Crash \/ Reboot \/ StartupFault
    BY <1>3 DEF Crash, Reboot, StartupFault, Forget, FileInHand
  <1>4. CASE Startup
    <2>1. worker' = worker \/ worker' = Idle
      BY <1>4 DEF Startup, ListPods, PodManagerReady, CorrelatePod, RejectTornSpec,
                  DropStoredPod, RemoveDanglingPod, Stop, Forget
    <2>2. worker = Idle
      BY <1>4 DEF Startup, ListPods, PodManagerReady, CorrelatePod, RejectTornSpec,
                  DropStoredPod, RemoveDanglingPod, Stop, IInv, WorkerConsistent
    <2> QED
      BY <2>1, <2>2 DEF FileInHand
  <1>5. ASSUME NEW c \in Coords, Dispatch(c) PROVE FileInHand'
    BY <1>5 DEF Dispatch, BeginCreate, BeginDelete, BeginDeleteGone,
                BeginDeleteDangling, Begin, FileInHand
  <1>6. CASE UNCHANGED vars
    BY <1>6 DEF vars, FileInHand
  <1> QED
    BY <1>1, <1>2, <1>3, <1>4, <1>5, <1>6 DEF Next, User

LEMMA NeededIsWanted == \A c \in Coords : Ledger!Needed(c) => Wanted(c)
  BY DEF Ledger!Needed, Live, Wanted

\* What becomes of files and pods becomes of records and pods.
LEMMA LedgerStutter ==
  ASSUME UNCHANGED <<files, pods, api, deleting, used>>
  PROVE  UNCHANGED Ledger!vars
  BY DEF Ledger!vars, Ledger!cluster, Live

LEMMA LedgerTear ==
  ASSUME NEW c \in Coords, files' = [files EXCEPT ![c] = Torn],
         UNCHANGED <<pods, api, deleting, used>>
  PROVE  Ledger!Next
  BY DEF Ledger!Next, Ledger!Tear, Ledger!cluster, Live

LEMMA LedgerStrike ==
  ASSUME NEW c \in Coords, files' = [files EXCEPT ![c] = None], ~Wanted(c),
         UNCHANGED <<pods, api, deleting, used>>
  PROVE  Ledger!Next
  BY NeededIsWanted DEF Ledger!Next, Ledger!Strike, Ledger!cluster, Live

LEMMA LedgerRemove ==
  ASSUME NEW c \in Coords, pods' = [pods EXCEPT ![c] = None], files[c] = None,
         UNCHANGED <<files, api, deleting, used>>
  PROVE  Ledger!Next
  BY DEF Ledger!Next, Ledger!Remove, Ledger!cluster, Live

LEMMA LedgerMake ==
  ASSUME IInv, FileInHand, At("podcreate"), pods[worker.coord] = None, AddPod,
         UNCHANGED <<files, api, deleting, used>>
  PROVE  Ledger!Next
  <1>1. worker.coord \in Coords /\ worker.uid \in Uids /\ files[worker.coord] = worker.uid
    BY DEF At, FileInHand, IInv, TypeOK
  <1>2. Ledger!Make(worker.coord)
    BY <1>1, ConstantsAssumption DEF AddPod, Ledger!Make, Ledger!cluster, Live
  <1> QED
    BY <1>1, <1>2 DEF Ledger!Next

\* Every action of the node, of the cluster and of the environment.
LEMMA ClusterLedger ==
  ASSUME IInv, NEW c \in Coords,
         \/ \E u \in Uids : UserCreates(c, u)
         \/ UserDeletes(c) \/ ApiRemoves(c)
  PROVE  Ledger!Next \/ UNCHANGED Ledger!vars
  <1>0. /\ api \in [Coords -> Uids \union {None}]
        /\ \A d \in deleting : api[d] # None
    BY DEF IInv, TypeOK, UidsIssued
  <1>1. ASSUME NEW u \in Uids, UserCreates(c, u) PROVE Ledger!Next
    <2>1. c \notin deleting /\ api[c] = None /\ api' = [api EXCEPT ![c] = u]
      BY <1>0, <1>1 DEF UserCreates
    <2>2. Live[c] = None /\ Live' = [Live EXCEPT ![c] = u]
      BY <1>0, <1>1, <2>1 DEF UserCreates, Live
    <2>3. Ledger!Ask(c, u)
      BY <1>1, <2>2 DEF UserCreates, Ledger!Ask, podman
    <2> QED
      BY <2>3 DEF Ledger!Next
  <1>2. CASE UserDeletes(c)
    <2>1. Live' = [Live EXCEPT ![c] = None]
      BY <1>0, <1>2 DEF UserDeletes, Live
    <2>2. Ledger!Withdraw(c)
      BY <1>2, <2>1 DEF UserDeletes, Ledger!Withdraw, podman
    <2> QED
      BY <2>2 DEF Ledger!Next
  <1>3. CASE ApiRemoves(c)
    <2>1. Live' = Live
      BY <1>0, <1>3 DEF ApiRemoves, Live
    <2> QED
      BY <1>3, <2>1 DEF ApiRemoves, Ledger!vars, Ledger!cluster, podman
  <1> QED
    BY <1>1, <1>2, <1>3

LEMMA StartupLedger ==
  ASSUME IInv, Startup
  PROVE  Ledger!Next \/ UNCHANGED Ledger!vars
  <1> USE DEF podman, cluster
  <1>1. CASE ListPods \/ PodManagerReady
    BY <1>1, LedgerStutter DEF ListPods, PodManagerReady
  <1>2. ASSUME NEW c \in Coords, CorrelatePod(c) \/ RejectTornSpec(c)
        PROVE  UNCHANGED Ledger!vars
    BY <1>2, LedgerStutter DEF CorrelatePod, RejectTornSpec
  <1>3. ASSUME NEW c \in Coords, DropStoredPod(c) PROVE Ledger!Next
    <2>1. ~Wanted(c)
      BY <1>3 DEF DropStoredPod, IInv, ScanConsistent, Wanted
    <2> QED
      BY <1>3, <2>1, LedgerStrike DEF DropStoredPod
  <1>4. ASSUME NEW c \in Coords, RemoveDanglingPod(c) PROVE Ledger!Next
    <2>1. files[c] = None
      BY <1>4 DEF RemoveDanglingPod, Stop, IInv, ScanConsistent
    <2> QED
      BY <1>4, <2>1, LedgerRemove DEF RemoveDanglingPod, Stop
  <1> QED
    BY <1>1, <1>2, <1>3, <1>4 DEF Startup

LEMMA ProgressLedger ==
  ASSUME IInv, FileInHand, Progress
  PROVE  Ledger!Next \/ UNCHANGED Ledger!vars
  <1> USE DEF podman, cluster, At
  <1>0. /\ worker.step # "idle" => worker.coord \in Coords /\ worker.uid \in Uids
        /\ worker.step \in DeleteSteps => ~Wanted(worker.coord)
    BY DEF IInv, TypeOK, WorkerConsistent
  <1>1. CASE RegisterOpen
    BY <1>0, <1>1, LedgerTear DEF RegisterOpen
  <1>2. CASE RegisterEncode
    <2>1. /\ files[worker.coord] = Torn
          /\ worker.coord \in Coords /\ worker.uid \in Uids /\ worker.uid \in used
      BY <1>0, <1>2 DEF RegisterEncode, FileInHand, IInv, WorkerConsistent, CreateSteps
    <2>2. Ledger!Write(worker.coord, worker.uid)
      BY <1>2, <2>1 DEF RegisterEncode, Ledger!Write, Ledger!cluster, Live
    <2> QED
      BY <2>1, <2>2 DEF Ledger!Next
  <1>3. CASE PodCreate
    BY <1>3, LedgerMake DEF PodCreate
  <1>4. CASE PodStopGone \/ UnregisterPod
    <2>1. worker.coord \in Coords /\ ~Wanted(worker.coord)
      BY <1>0, <1>4 DEF PodStopGone, UnregisterPod, DeleteSteps
    <2>2. files' = [files EXCEPT ![worker.coord] = None] \/ files' = files
      BY <1>4 DEF PodStopGone, UnregisterPod, RemoveFile
    <2> QED
      BY <1>4, <2>1, <2>2, LedgerStrike, LedgerStutter DEF PodStopGone, UnregisterPod
  <1>5. CASE PodRm
    BY <1>0, <1>5, LedgerRemove DEF PodRm, RemovePod, FileInHand
  <1>6. CASE \/ CreatePodVolumes \/ PodInspect \/ SetContainerIDs \/ PodStart
             \/ PodStop \/ CleanupVolumes
    BY <1>6, LedgerStutter DEF CreatePodVolumes, PodInspect, SetContainerIDs, PodStart, Start,
       PodStop, Stop, CleanupVolumes
  <1>7. ASSUME NEW con \in Containers, ContainerCreate(con) \/ ContainerRetry(con)
        PROVE  UNCHANGED Ledger!vars
    BY <1>7, LedgerStutter DEF ContainerCreate, ContainerRetry
  <1> QED
    BY <1>1, <1>2, <1>3, <1>4, <1>5, <1>6, <1>7 DEF Progress

LEMMA FailureLedger ==
  ASSUME IInv, FileInHand, Failure
  PROVE  Ledger!Next \/ UNCHANGED Ledger!vars
  <1> USE DEF podman, cluster, At
  <1>1. CASE PodCreateFails
    BY <1>1, LedgerMake, LedgerStutter DEF PodCreateFails
  <1>2. CASE PodRmFails
    <2>1. worker.coord \in Coords /\ files[worker.coord] = None
      BY <1>2 DEF PodRmFails, FileInHand, IInv, TypeOK
    <2> QED
      BY <1>2, <2>1, LedgerRemove, LedgerStutter DEF PodRmFails, RemovePod
  <1>3. CASE \/ RegisterFault \/ CreatePodVolumesFails \/ PodInspectFails
             \/ PodStartFails \/ PodStopFails \/ CleanupVolumesFails
    BY <1>3, LedgerStutter DEF RegisterFault, CreatePodVolumesFails, PodInspectFails,
       PodStartFails, PodStopFails, Start, Stop, CleanupVolumesFails
  <1>4. ASSUME NEW con \in Containers, ContainerRefused(con) \/ ContainerCreateFails(con)
        PROVE  UNCHANGED Ledger!vars
    BY <1>4, LedgerStutter DEF ContainerRefused, ContainerCreateFails
  <1> QED
    BY <1>1, <1>2, <1>3, <1>4 DEF Failure

LEMMA NextLedger == IInv /\ FileInHand /\ [Next]_vars => [Ledger!Next]_Ledger!vars
  <1> SUFFICES ASSUME IInv, FileInHand, [Next]_vars
               PROVE  Ledger!Next \/ UNCHANGED Ledger!vars
    OBVIOUS
  <1>1. ASSUME NEW c \in Coords, \/ \E u \in Uids : UserCreates(c, u)
                                 \/ UserDeletes(c) \/ ApiRemoves(c)
        PROVE  Ledger!Next \/ UNCHANGED Ledger!vars
    BY <1>1, ClusterLedger
  <1>2. CASE Crash \/ Reboot \/ StartupFault
    BY <1>2, LedgerStutter DEF Crash, Reboot, StartupFault, podman, cluster
  <1>3. ASSUME NEW c \in Coords, Dispatch(c) PROVE UNCHANGED Ledger!vars
    BY <1>3, LedgerStutter DEF Dispatch, BeginCreate, BeginDelete, BeginDeleteGone,
       BeginDeleteDangling, podman, cluster
  <1>4. CASE UNCHANGED vars
    BY <1>4, LedgerStutter DEF vars, podman, cluster
  <1> QED
    BY <1>1, <1>2, <1>3, <1>4, StartupLedger, ProgressLedger, FailureLedger DEF Next, User

\* Spec files (StorePod, RemovePod), podman's pods (PodCreate, PodRm) and startup
\* implement the ledger, under every fault.
THEOREM PodsKeepLedger == Spec => ImplementsLedger
  <1>1. Init => Ledger!Init
    BY DEF Init, Ledger!Init, Live
  <1>2. Init => FileInHand
    BY DEF Init, FileInHand, Idle
  <1> QED
    BY <1>1, <1>2, NextFile, NextLedger, InductiveInvariant, PTL
       DEF Spec, Ledger!Spec, ImplementsLedger

\* What the cluster needs is on record: this follows from the ledger alone,
\* whatever else keeps it.
THEOREM LedgerKeepsPromise == Ledger!Spec => []Ledger!NeededIsRecorded
  <1> DEFINE Kept == /\ DOMAIN Live = Coords /\ DOMAIN files = Coords /\ DOMAIN pods = Coords
                     /\ None \notin used
                     /\ \A c \in Coords : /\ {Live[c], pods[c]} \subseteq used \union {None}
                                          /\ files[c] \in used \union {None, Torn}
                     /\ Ledger!NeededIsRecorded
  <1>1. Ledger!Init => Kept
    BY DEF Ledger!Init, Ledger!NeededIsRecorded, Ledger!Needed
  <1>2. Kept /\ [Ledger!Next]_Ledger!vars => Kept'
    <2> SUFFICES ASSUME Kept, [Ledger!Next]_Ledger!vars PROVE Kept'
      OBVIOUS
    <2> USE DEF Ledger!NeededIsRecorded, Ledger!Needed, Ledger!cluster
    <2>1. ASSUME NEW c \in Coords, NEW u \in Uids, Ledger!Ask(c, u) PROVE Kept'
      BY <2>1, ConstantsAssumption DEF Ledger!Ask
    <2>2. ASSUME NEW c \in Coords, NEW u \in Uids, Ledger!Write(c, u) PROVE Kept'
      BY <2>2, ConstantsAssumption DEF Ledger!Write
    <2>3. ASSUME NEW c \in Coords, Ledger!Withdraw(c) PROVE Kept'
      BY <2>3 DEF Ledger!Withdraw
    <2>4. ASSUME NEW c \in Coords, Ledger!Tear(c) PROVE Kept'
      BY <2>4, ConstantsAssumption DEF Ledger!Tear
    <2>5. ASSUME NEW c \in Coords, Ledger!Make(c) PROVE Kept'
      BY <2>5 DEF Ledger!Make
    <2>6. ASSUME NEW c \in Coords, Ledger!Strike(c) PROVE Kept'
      BY <2>6 DEF Ledger!Strike
    <2>7. ASSUME NEW c \in Coords, Ledger!Remove(c) PROVE Kept'
      BY <2>7 DEF Ledger!Remove
    <2>8. CASE UNCHANGED Ledger!vars
      BY <2>8 DEF Ledger!vars
    <2> QED
      BY <2>1, <2>2, <2>3, <2>4, <2>5, <2>6, <2>7, <2>8 DEF Ledger!Next
  <1>3. Kept => Ledger!NeededIsRecorded
    OBVIOUS
  <1> QED
    BY <1>1, <1>2, <1>3, PTL DEF Ledger!Spec
=============================================================================
