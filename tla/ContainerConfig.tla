--------------------------- MODULE ContainerConfig ---------------------------
(***************************************************************************)
(* What the pod provider asks podman for: ConvertContainerConfig, with the *)
(* resource arithmetic of the kubelet.  ConvertPodConfig, which names the  *)
(* pod and its network, decides nothing about the containers.              *)
(*                                                                         *)
(* A Pod is a record of the fields the conversion reads; a field that may  *)
(* be absent holds None, an absent quantity is 0.  Of a container spec for *)
(* podman there are the fields the conversion fills in from the Pod: fixed *)
(* ones (labels, log driver, cgroups, health check) are left out, and      *)
(* lists the order of which says nothing are sets.                         *)
(***************************************************************************)
EXTENDS Integers, SequencesExt

CONSTANTS
  TotalMemory, \* of the host, in the unit of memory requests
  None

ASSUME TotalMemoryPositive == TotalMemory \in Nat \ {0}

-----------------------------------------------------------------------------
(* Resources *)

\* Mutant of milliCPUToShares: the kernel's minimum is forgotten.
milliCPUToShares_NoMinimum(milliCPU) == (milliCPU * 1024) \div 1000

\* Go's integer division truncates; quantities are not negative, so it is \div.
milliCPUToShares(milliCPU) == Max({2, (milliCPU * 1024) \div 1000})

CpuPeriod == 100000

milliCPUToQuota(milliCPU) ==
  IF milliCPU = 0 THEN 0 ELSE Max({1000, (milliCPU * CpuPeriod) \div 1000})

\* Memory is None if it is not limited; so are CPU period and quota.
LinuxResources(con) ==
  [Shares |-> milliCPUToShares(con.cpuRequest),
   Quota  |-> IF con.cpuLimit = 0 THEN None ELSE milliCPUToQuota(con.cpuLimit),
   Limit  |-> IF con.memoryLimit = 0 THEN None ELSE con.memoryLimit]

\* The QoS class of a Pod whose status was overwritten.
NoQOSClass == "none"

guaranteedOOMScoreAdj == -998
besteffortOOMScoreAdj == 1000

\* Mutant of GetContainerOOMScoreAdjust: a score below the bound becomes the greatest.
GetContainerOOMScoreAdjust_Wraps(pod, con) ==
  IF pod.priority >= 2000000000 \/ pod.qosClass = "Guaranteed" THEN guaranteedOOMScoreAdj
  ELSE IF pod.qosClass = "BestEffort" THEN besteffortOOMScoreAdj
  ELSE LET score == 1000 - (1000 * con.memoryRequest) \div TotalMemory
       IN IF score \in (1000 + guaranteedOOMScoreAdj)..(besteffortOOMScoreAdj - 1) THEN score
          ELSE besteffortOOMScoreAdj - 1

\* A request may exceed the host's memory.
GetContainerOOMScoreAdjust(pod, con) ==
  IF pod.priority >= 2000000000 \/ pod.qosClass = "Guaranteed" THEN guaranteedOOMScoreAdj
  ELSE IF pod.qosClass = "BestEffort" THEN besteffortOOMScoreAdj
  ELSE LET score == 1000 - (1000 * con.memoryRequest) \div TotalMemory
       IN Max({1000 + guaranteedOOMScoreAdj, Min({score, besteffortOOMScoreAdj - 1})})

-----------------------------------------------------------------------------
(* Environment and storage *)

\* The last of equal names counts; what is taken from elsewhere is not looked up.
EnvNamed(con, name) == {i \in DOMAIN con.env : con.env[i].name = name}
ConEnv(con) ==
  [name \in {v.name : v \in ToSet(con.env)} |->
     LET v == con.env[Max(EnvNamed(con, name))] IN IF v.valueFrom THEN "TODO" ELSE v.value]

\* A mount goes to the first volume of its name; without one it is left out.
Named(pod, mount) == {i \in DOMAIN pod.volumes : pod.volumes[i].name = mount.name}
VolSource(pod, mount) == pod.volumes[Min(Named(pod, mount))]
Mounted(pod, con) == {mount \in ToSet(con.volumeMounts) : Named(pod, mount) # {}}
OfKind(pod, con, kind) == {mount \in Mounted(pod, con) : VolSource(pod, mount).kind = kind}

\* A bind mount of a host path, below its sub-path.  (What an annotation says of its
\* SELinux label is copied.)
Bind(pod, mount) ==
  [Type        |-> "bind",
   Source      |-> <<VolSource(pod, mount).path, mount.subPath>>,
   Destination |-> mount.mountPath,
   Options     |-> IF mount.readOnly THEN {"ro"} ELSE {"rw"}]

\* A file system in memory, of this container alone.
Tmpfs(mount) ==
  [Type |-> "tmpfs", Source |-> <<"tmpfs">>, Destination |-> mount.mountPath, Options |-> {}]

Mounts(pod, con) ==
  {Bind(pod, mount) : mount \in OfKind(pod, con, "hostPath")}
    \union {Tmpfs(mount) : mount \in OfKind(pod, con, "memoryDir")}

\* Every other kind is assumed to have been set up as a volume of podman, which is
\* mounted whole, whatever the sub-path.
NamedVolumes(pod, con) ==
  {[Name |-> <<pod.uid, mount.name>>, Dest |-> mount.mountPath] :
     mount \in Mounted(pod, con) \ (OfKind(pod, con, "hostPath") \union OfKind(pod, con, "memoryDir"))}

-----------------------------------------------------------------------------
(* Security *)

\* The container's setting, or else the pod's; without a security context of the
\* container the pod's is not looked at.
Inherited(con, own, podwide) ==
  CASE con.securityContext = None -> None
    [] own # None -> own
    [] OTHER -> podwide

\* Capabilities and SELinux labels, which are copied, are left out.
SecurityConfig(pod, con) ==
  LET sc == con.securityContext
      given == sc # None
  IN [Privileged         |-> given /\ sc.privileged,
      User               |-> Inherited(con, IF given THEN sc.runAsUser ELSE None, pod.runAsUser),
      Groups             |-> Inherited(con, IF given THEN sc.runAsGroup ELSE None, pod.runAsGroup),
      NoNewPrivileges    |-> given /\ sc.allowPrivilegeEscalation = FALSE,
      ReadOnlyFilesystem |-> given /\ sc.readOnlyRootFilesystem]

ConvertContainerConfig(pod, con, podId) ==
  [Name           |-> <<pod.namespace, pod.name, con.name>>,
   Pod            |-> podId,
   Image          |-> con.image,
   Env            |-> ConEnv(con),
   Mounts         |-> Mounts(pod, con),
   Volumes        |-> NamedVolumes(pod, con),
   ResourceLimits |-> LinuxResources(con),
   OOMScoreAdj    |-> GetContainerOOMScoreAdjust(pod, con),
   Security       |-> SecurityConfig(pod, con)]

-----------------------------------------------------------------------------
(* The Pods the API server lets through, as far as the conversion relies on it *)

IsList(s) == s \in Seq(ToSet(s))
UniqueNames(s) == \A i, j \in DOMAIN s : s[i].name = s[j].name => i = j

IsEnvVar(v) == v.valueFrom \in BOOLEAN /\ v.value \in STRING

IsSecurityContext(sc) == {sc.privileged, sc.readOnlyRootFilesystem} \subseteq BOOLEAN

IsContainer(k) ==
  /\ IsList(k.volumeMounts)
  /\ IsList(k.env)
  /\ \A v \in ToSet(k.env) : IsEnvVar(v)
  /\ {k.cpuRequest, k.cpuLimit, k.memoryRequest, k.memoryLimit} \subseteq Nat
  /\ k.securityContext = None \/ IsSecurityContext(k.securityContext)

IsPodSpec(p) ==
  /\ {"uid", "volumes", "containers", "imagePullSecrets", "priority", "qosClass"} \subseteq DOMAIN p
  /\ IsList(p.containers) /\ UniqueNames(p.containers)
  /\ \A k \in ToSet(p.containers) : IsContainer(k)
  /\ IsList(p.volumes) /\ UniqueNames(p.volumes)
  /\ IsList(p.imagePullSecrets)
  /\ p.priority \in Int

-----------------------------------------------------------------------------
(* The types of podman's API, as far as they are filled in *)

IsMount(m) ==
  /\ DOMAIN m = {"Type", "Source", "Destination", "Options"}
  /\ m.Type \in {"bind", "tmpfs"}
  /\ m.Options \subseteq {"ro", "rw"}

IsNamedVolume(v) == DOMAIN v = {"Name", "Dest"} /\ Len(v.Name) = 2

IsLinuxCPU(r) ==
  /\ r.Shares \in Nat \ {0, 1}
  /\ r.Quota \in {None} \union Nat

IsLinuxMemory(r) == r.Limit \in {None} \union (Nat \ {0})

IsContainerResourceConfig(c) ==
  /\ DOMAIN c.ResourceLimits = {"Shares", "Quota", "Limit"}
  /\ IsLinuxCPU(c.ResourceLimits)
  /\ IsLinuxMemory(c.ResourceLimits)
  /\ c.OOMScoreAdj \in -1000..1000

IsContainerStorageConfig(c) ==
  /\ \A m \in c.Mounts : IsMount(m)
  /\ \A v \in c.Volumes : IsNamedVolume(v)

IsContainerSecurityConfig(c) ==
  {c.Security.Privileged, c.Security.NoNewPrivileges, c.Security.ReadOnlyFilesystem} \subseteq BOOLEAN

IsContainerBasicConfig(c) == Len(c.Name) = 3 /\ c.Env \in [DOMAIN c.Env -> STRING \union {"TODO"}]

IsSpecGenerator(c) ==
  /\ IsContainerBasicConfig(c)
  /\ IsContainerStorageConfig(c)
  /\ IsContainerSecurityConfig(c)
  /\ IsContainerResourceConfig(c)
=============================================================================
