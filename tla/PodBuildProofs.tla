--------------------------- MODULE PodBuildProofs ---------------------------
(***************************************************************************)
(* Theorems about PodBuild, for any pods the API server lets through, any  *)
(* secrets, credentials and bounds.                                        *)
(***************************************************************************)
EXTENDS PodBuild, SequenceTheorems, WellFoundedInduction, TLAPS

-----------------------------------------------------------------------------
(* Files of a volume *)

\* A path below a version: where it begins, and the path again.
LEMMA VersionedPath ==
  ASSUME NEW version, NEW path, IsPath(path)
  PROVE  /\ Len(path) \in Nat /\ Len(path) > 0
         /\ Len(Versioned(version, path)) = Len(path) + 2
         /\ Versioned(version, path)[1] = "..data"
         /\ SubSeq(Versioned(version, path), 1, 2) = <<"..data", version>>
         /\ SubSeq(Versioned(version, path), 3, Len(path) + 2) = path
         /\ <<>> \o Versioned(version, path) = Versioned(version, path)
<1> DEFINE S == ToSet(path) \union {"..data", version}
           up == <<"..data", version>>
           full == Versioned(version, path)
<1>1. path \in Seq(S) /\ path # <<>>
  <2>1. path \in Seq(ToSet(path)) /\ path # <<>>
    BY DEF IsPath, IsList
  <2> QED
    BY <2>1, SeqMonotonic
<1>2. up \in Seq(S) /\ Len(up) = 2 /\ up[1] = "..data" /\ up[2] = version
  OBVIOUS
<1> HIDE DEF S, up
<1>3. /\ full \in Seq(S)
      /\ Len(full) = Len(path) + 2
      /\ \A i \in 1 .. Len(path) + 2 : full[i] = IF i <= 2 THEN up[i] ELSE path[i - 2]
  BY <1>1, <1>2, ConcatProperties DEF Versioned, up
<1>4. Len(path) \in Nat /\ Len(path) > 0
  BY <1>1, EmptySeq, LenProperties
<1>5. full[1] = "..data"
  BY <1>2, <1>3, <1>4
<1>6. SubSeq(full, 3, Len(path) + 2) = path
  <2>1. /\ 3 \in Len(up) + 1 .. Len(up) + Len(path)
        /\ Len(path) + 2 \in Len(up) + 1 .. Len(up) + Len(path)
        /\ 3 - Len(up) = 1
        /\ Len(path) + 2 - Len(up) = Len(path)
    BY <1>2, <1>4
  <2> DEFINE m == 3
             n == Len(path) + 2
  <2> HIDE DEF m, n
  <2>2. SubSeq(up \o path, m, n) = SubSeq(path, m - Len(up), n - Len(up))
    BY <1>1, <1>2, <2>1, SubSeqOfConcat2 DEF m, n
  <2>3. SubSeq(full, m, n) = SubSeq(path, 1, Len(path))
    BY <2>1, <2>2 DEF m, n, Versioned, up
  <2> QED
    BY <1>1, <2>3, SubSeqFull DEF m, n
<1>7. SubSeq(full, 1, 2) = up
  <2>1. 1 \in 1 .. Len(up) /\ 2 \in 1 .. Len(up)
    BY <1>2
  <2>2. SubSeq(up \o path, 1, 2) = SubSeq(up, 1, 2)
    BY <1>1, <1>2, <2>1, SubSeqOfConcat1
  <2> QED
    BY <1>2, <2>2, SubSeqFull DEF Versioned, up
<1>8. <<>> \o full = full
  BY <1>3, ConcatEmptySeq
<1> QED
  BY <1>3, <1>4, <1>5, <1>6, <1>7, <1>8 DEF up

\* The link of an item leads to its file below the version.
LEMMA ReadLink ==
  ASSUME NEW version, NEW path, IsPath(path), NEW files,
         files[path] = Link(Len(path) - 1, Current \o path), path \in DOMAIN files,
         files[Current] = Link(0, <<version>>), Current \in DOMAIN files
  PROVE  Read(files, path) =
           IF Versioned(version, path) \in DOMAIN files
             THEN files[Versioned(version, path)].data ELSE None
<1> DEFINE to == SubSeq(path, 1, Len(path) - 1 - files[path].up) \o files[path].to
<1>1. Len(path) \in Nat
  BY VersionedPath
<1>2. to = Versioned("current", path)
  <2>1. files[path].up = Len(path) - 1 /\ files[path].to = Versioned("current", path)
    BY DEF Link, Versioned, Current
  <2>2. Len(path) - 1 - files[path].up = 0
    BY <1>1, <2>1
  <2>3. SubSeq(path, 1, 0) = <<>>
    BY SubSeqEmpty
  <2> QED
    BY <2>1, <2>2, <2>3, VersionedPath
<1> HIDE DEF to
<1>3. IsPrefix(Current, to)
  <2>1. Current \in Seq({"..data", "current"}) /\ Len(Current) = 2
    BY DEF Current
  <2>2. Len(to) = Len(path) + 2 /\ Len(path) > 0
    BY <1>2, VersionedPath
  <2>3. SubSeq(to, 1, 2) = Current
    BY <1>2, VersionedPath DEF Current
  <2>4. SubSeq(Current, 1, 2) = Current
    BY <2>1, SubSeqFull
  <2> QED
    BY <1>1, <2>1, <2>2, <2>3, <2>4 DEF IsPrefix
<1>4. SubSeq(to, 3, Len(to)) = path
  BY <1>2, VersionedPath
<1>5. files[Current].to[1] = version
  BY DEF Link
<1> QED
  BY <1>3, <1>4, <1>5 DEF Read, to

\* Different items have different files, which are none of the links.
LEMMA VersionedApart ==
  ASSUME NEW version, NEW path, NEW other, IsPath(path), IsPath(other)
  PROVE  /\ Versioned(version, path) = Versioned(version, other) => path = other
         /\ Versioned(version, path) # Current
         /\ Versioned(version, path) # other
         /\ path # Current
<1>1. Versioned(version, path) = Versioned(version, other) => path = other
  <2> SUFFICES ASSUME Versioned(version, path) = Versioned(version, other)
               PROVE  path = other
    OBVIOUS
  <2>1. Len(Versioned(version, path)) = Len(path) + 2 /\ Len(path) \in Nat
    BY VersionedPath
  <2>2. Len(Versioned(version, other)) = Len(other) + 2 /\ Len(other) \in Nat
    BY VersionedPath
  <2>3. Len(path) = Len(other)
    BY <2>1, <2>2
  <2>4. SubSeq(Versioned(version, path), 3, Len(path) + 2) = path
    BY VersionedPath
  <2>5. SubSeq(Versioned(version, other), 3, Len(other) + 2) = other
    BY VersionedPath
  <2> QED
    BY <2>3, <2>4, <2>5
<1>2. Versioned(version, path) # Current
  <2>1. Len(Current) = 2
    BY DEF Current
  <2>2. Len(Versioned(version, path)) = Len(path) + 2 /\ Len(path) \in Nat /\ Len(path) > 0
    BY VersionedPath
  <2>3. Len(Versioned(version, path)) # 2
    BY <2>2
  <2> QED
    BY <2>1, <2>3
<1>3. Versioned(version, path) # other
  <2>1. Versioned(version, path)[1] = "..data" /\ other[1] # "..data"
    BY VersionedPath DEF IsPath
  <2> QED
    BY <2>1
<1>4. path # Current
  <2>1. Current[1] = "..data" /\ path[1] # "..data"
    BY DEF IsPath, Current
  <2> QED
    BY <2>1
<1> QED
  BY <1>1, <1>2, <1>3, <1>4

\* A reader finds at the path of each item what the data has for its key.
LEMMA ReadExtracted ==
  ASSUME NEW version, NEW items, AreItems(items), NEW data, NEW item \in items
  PROVE  Read(Extracted(version, items, data), item.path) =
           IF item.key \in DOMAIN data THEN data[item.key] ELSE None
<1> DEFINE held == Held(items, data)
           below == {Versioned(version, path) : path \in Paths(held)}
           files == Extracted(version, items, data)
           path == item.path
           full == Versioned(version, path)
<1>1. IsPath(path) /\ \A i \in items : IsPath(i.path)
  BY DEF AreItems
<1>2. DOMAIN files = below \union {Current} \union Paths(items)
  BY DEF Extracted
<1>3. \A i \in items : Versioned(version, i.path) = full => i = item
  BY <1>1, VersionedApart DEF AreItems
<1>4. path \notin below /\ path # Current /\ path \in Paths(items) /\ Current \notin below
  BY <1>1, VersionedApart DEF Paths, Held
<1>5. files[path] = Link(Len(path) - 1, Current \o path) /\ files[Current] = Link(0, <<version>>)
  BY <1>4 DEF Extracted
<1>6. Read(files, path) = IF full \in DOMAIN files THEN files[full].data ELSE None
  BY <1>1, <1>2, <1>4, <1>5, ReadLink
<1>7. CASE item.key \in DOMAIN data
  <2>1. item \in held /\ path \in Paths(held) /\ full \in below
    BY <1>7 DEF Held, Paths
  <2>2. (CHOOSE i \in held : Versioned(version, i.path) = full) = item
    BY <1>3, <2>1 DEF Held
  <2>3. files[full] = File(data[item.key])
    BY <2>1, <2>2 DEF Extracted
  <2> QED
    BY <1>2, <1>6, <1>7, <2>1, <2>3 DEF File
<1>8. CASE item.key \notin DOMAIN data
  <2>1. full \notin below
    BY <1>3, <1>8 DEF Held, Paths
  <2>2. full # Current /\ full \notin Paths(items)
    BY <1>1, VersionedApart DEF Paths
  <2> QED
    BY <1>2, <1>6, <1>8, <2>1, <2>2
<1> QED
  BY <1>7, <1>8

-----------------------------------------------------------------------------
(* What a container is asked for *)

\* The greater and the lesser of two numbers.
LEMMA MaxOfTwo ==
  ASSUME NEW a \in Int, NEW b \in Int
  PROVE  Max({a, b}) = IF a >= b THEN a ELSE b
<1>1. \E x \in {a, b} : \A y \in {a, b} : x >= y
  <2>1. CASE a >= b
    BY <2>1
  <2>2. CASE b >= a
    BY <2>2
  <2> QED
    BY <2>1, <2>2
<1> QED
  BY <1>1 DEF Max

LEMMA MinOfTwo ==
  ASSUME NEW a \in Int, NEW b \in Int
  PROVE  Min({a, b}) = IF a <= b THEN a ELSE b
<1>1. \E x \in {a, b} : \A y \in {a, b} : x =< y
  <2>1. CASE a <= b
    BY <2>1
  <2>2. CASE b <= a
    BY <2>2
  <2> QED
    BY <2>1, <2>2
<1> QED
  BY <1>1 DEF Min

\* Division by the host's memory keeps the order of requests.
LEMMA QuotientInOrder ==
  ASSUME NEW a \in Nat, NEW b \in Nat, a <= b, NEW n \in Nat \ {0}
  PROVE  a \div n \in Nat /\ b \div n \in Nat /\ a \div n <= b \div n
<1>1. a \div n \in Nat /\ b \div n \in Nat
  OBVIOUS
<1> DEFINE q == a \div n
           r == b \div n
<1>2. q * n <= a /\ b < r * n + n
  OBVIOUS
<1> HIDE DEF q, r
<1>3. ASSUME r < q PROVE FALSE
  <2>1. q - r - 1 \in Nat /\ q \in Nat /\ r \in Nat
    BY <1>1, <1>3 DEF q, r
  <2>2. (q - r - 1) * n >= 0
    BY <2>1
  <2>3. (q - r - 1) * n = q * n - r * n - n
    BY <2>1
  <2> QED
    BY <1>2, <2>1, <2>2, <2>3
<1> QED
  BY <1>1, <1>3 DEF q, r

\* The score of a container that is not critical, its Pod being without a class.
LEMMA ScoreOf ==
  ASSUME NEW p, p.qosClass = NoQOSClass, p.priority \in Int, p.priority < 2000000000,
         NEW k, k.memoryRequest \in Nat,
         NEW quotient, quotient = (1000 * k.memoryRequest) \div TotalMemory
  PROVE  /\ quotient \in Nat
         /\ GetContainerOOMScoreAdjust(p, k) =
              IF quotient >= 998 THEN 2 ELSE IF quotient >= 1 THEN 1000 - quotient ELSE 999
<1>1. quotient \in Nat
  BY TotalMemoryPositive
<1>2. GetContainerOOMScoreAdjust(p, k) = Max({2, Min({1000 - quotient, 999})})
  BY SMT DEF GetContainerOOMScoreAdjust, guaranteedOOMScoreAdj, besteffortOOMScoreAdj, NoQOSClass
<1>3. Min({1000 - quotient, 999}) = IF 1000 - quotient <= 999 THEN 1000 - quotient ELSE 999
  BY <1>1, MinOfTwo
<1>4. \A m \in Int : Max({2, m}) = IF 2 >= m THEN 2 ELSE m
  BY MaxOfTwo
<1> QED
  BY <1>1, <1>2, <1>3, <1>4

\* The greater request is the safer.
LEMMA ScoresInOrder ==
  ASSUME NEW p, p.qosClass = NoQOSClass, p.priority \in Int, p.priority < 2000000000,
         NEW k, k.memoryRequest \in Nat, NEW l, l.memoryRequest \in Nat
  PROVE  k.memoryRequest > l.memoryRequest =>
           GetContainerOOMScoreAdjust(p, k) <= GetContainerOOMScoreAdjust(p, l)
<1> DEFINE more == (1000 * k.memoryRequest) \div TotalMemory
           less == (1000 * l.memoryRequest) \div TotalMemory
<1>1. k.memoryRequest > l.memoryRequest => less <= more
  BY TotalMemoryPositive, QuotientInOrder
<1> HIDE DEF more, less
<1>2. /\ more \in Nat
      /\ GetContainerOOMScoreAdjust(p, k) =
           IF more >= 998 THEN 2 ELSE IF more >= 1 THEN 1000 - more ELSE 999
  BY ScoreOf DEF more
<1>3. /\ less \in Nat
      /\ GetContainerOOMScoreAdjust(p, l) =
           IF less >= 998 THEN 2 ELSE IF less >= 1 THEN 1000 - less ELSE 999
  BY ScoreOf DEF less
<1> QED
  BY <1>1, <1>2, <1>3

\* CPU time is what was asked for, to the unit, and not below the minimum.
LEMMA CpuAsAsked ==
  ASSUME NEW milli \in Nat
  PROVE  /\ milliCPUToShares(milli) \in Nat \ {0, 1}
         /\ milliCPUToShares(milli) = 2 \/ 1000 * milliCPUToShares(milli) <= 1024 * milli
         /\ 1000 * (milliCPUToShares(milli) + 1) > 1024 * milli
         /\ milliCPUToQuota(milli) \in Nat
         /\ milli >= 10 => milliCPUToQuota(milli) * 1000 = milli * CpuPeriod
         /\ milli \in 1..9 => milliCPUToQuota(milli) = 1000
<1> DEFINE s == (milli * 1024) \div 1000
           t == (milli * 100000) \div 1000
<1>1. s \in Nat /\ 1000 * s <= 1024 * milli /\ 1024 * milli < 1000 * s + 1000
  OBVIOUS
<1>2. t = 100 * milli
  OBVIOUS
<1>3. milliCPUToShares(milli) = IF 2 >= s THEN 2 ELSE s
  <2> HIDE DEF s
  <2> QED
    BY <1>1, MaxOfTwo DEF milliCPUToShares, s
<1>4. milliCPUToQuota(milli) = IF milli = 0 THEN 0 ELSE IF 1000 >= t THEN 1000 ELSE t
  BY <1>2, MaxOfTwo DEF milliCPUToQuota, CpuPeriod
<1> HIDE DEF s, t
<1> QED
  BY <1>1, <1>2, <1>3, <1>4 DEF CpuPeriod

\* A set of positive numbers up to a bound has a greatest.
LEMMA MaxOfNumbers ==
  ASSUME NEW n \in Nat, NEW S \in SUBSET (1..n), S # {}
  PROVE  Max(S) \in S
<1> DEFINE T == {n - x : x \in S}
<1>1. T \subseteq Nat /\ T # {}
  <2>1. \A x \in S : n - x \in Nat
    OBVIOUS
  <2> QED
    BY <2>1
<1>2. IsWellFoundedOn(OpToRel(<, Nat), Nat)
  BY NatLessThanWellFounded
<1>3. PICK t \in T : \A u \in T : <<u, t>> \notin OpToRel(<, Nat)
  BY <1>1, <1>2, WFMin
<1>4. PICK x \in S : t = n - x
  BY <1>3
<1>5. ASSUME NEW y \in S PROVE x >= y
  <2>1. n - y \in T /\ n - y \in Nat /\ n - x \in Nat
    BY <1>1
  <2>2. ~(n - y < n - x)
    BY <1>1, <1>3, <1>4, <2>1 DEF OpToRel
  <2> QED
    BY <2>2
<1> HIDE DEF T
<1> QED
  BY <1>5 DEF Max

\* A mount of a volume the node implements becomes a volume of podman by its name.
LEMMA MountedByName ==
  ASSUME NEW p, IsPodSpec(p), NEW k, NEW m \in ToSet(k.volumeMounts),
         NEW i \in DOMAIN p.volumes, m.name = p.volumes[i].name,
         p.volumes[i].kind \notin {"hostPath", "memoryDir"}
  PROVE  [Name |-> <<p.uid, m.name>>, Dest |-> m.mountPath] \in NamedVolumes(p, k)
<1>1. Named(p, m) = {i}
  BY DEF Named, IsPodSpec, UniqueNames
<1>2. i \in Int
  BY DEF IsPodSpec, IsList
<1>3. Min({i}) = i
  BY <1>2, MinOfTwo
<1>4. m \in Mounted(p, k) /\ VolSource(p, m) = p.volumes[i]
  BY <1>1, <1>3 DEF Mounted, VolSource
<1>5. m \notin OfKind(p, k, "hostPath") \union OfKind(p, k, "memoryDir")
  BY <1>4 DEF OfKind
<1> QED
  BY <1>4, <1>5 DEF NamedVolumes

\* The environment is of texts.
LEMMA EnvOfTexts ==
  ASSUME NEW k, IsContainer(k)
  PROVE  ConEnv(k) \in [DOMAIN ConEnv(k) -> STRING \union {"TODO"}]
<1> DEFINE names == {v.name : v \in ToSet(k.env)}
<1> SUFFICES ASSUME NEW name \in names
             PROVE  k.env[Max(EnvNamed(k, name))] \in ToSet(k.env)
  BY DEF ConEnv, IsContainer, IsEnvVar
<1> DEFINE S == EnvNamed(k, name)
<1>1. k.env \in Seq(ToSet(k.env))
  BY DEF IsContainer, IsList
<1>2. S # {} /\ S \subseteq 1..Len(k.env) /\ Len(k.env) \in Nat
  BY <1>1 DEF EnvNamed, ToSet
<1>3. Max(S) \in S
  BY <1>2, MaxOfNumbers
<1> QED
  BY <1>1, <1>2, <1>3 DEF ToSet

\* Whatever the pod, the score is one the kernel takes.
LEMMA ScoreBounded ==
  ASSUME NEW p, p.priority \in Int, NEW k, k.memoryRequest \in Nat
  PROVE  GetContainerOOMScoreAdjust(p, k) \in -1000..1000
<1> DEFINE quotient == (1000 * k.memoryRequest) \div TotalMemory
<1>1. quotient \in Nat
  BY TotalMemoryPositive
<1> HIDE DEF quotient
<1>2. Min({1000 - quotient, 999}) = IF 1000 - quotient <= 999 THEN 1000 - quotient ELSE 999
  BY <1>1, MinOfTwo
<1>3. \A m \in Int : Max({2, m}) = IF 2 >= m THEN 2 ELSE m
  BY MaxOfTwo
<1>4. Max({2, Min({1000 - quotient, 999})}) \in 2..999
  <2> DEFINE m == Min({1000 - quotient, 999})
  <2>1. m \in Int /\ m <= 999
    BY <1>1, <1>2
  <2> HIDE DEF m
  <2>2. Max({2, m}) = IF 2 >= m THEN 2 ELSE m
    BY <1>3, <2>1
  <2>3. Max({2, m}) \in 2..999
    BY <2>1, <2>2
  <2> QED
    BY <2>3 DEF m
<1>5. \/ GetContainerOOMScoreAdjust(p, k) \in {-998, 1000}
      \/ GetContainerOOMScoreAdjust(p, k) = Max({2, Min({1000 - quotient, 999})})
  BY SMT DEF GetContainerOOMScoreAdjust, guaranteedOOMScoreAdj, besteffortOOMScoreAdj, quotient
<1> QED
  BY <1>4, <1>5

\* What is asked for is of the types of podman's API.
LEMMA SpecGenerated ==
  ASSUME NEW p, IsPodSpec(p), NEW k \in ToSet(p.containers), NEW id
  PROVE  IsSpecGenerator(ConvertContainerConfig(p, k, id))
<1> DEFINE c == ConvertContainerConfig(p, k, id)
<1>1. IsContainer(k)
  BY DEF IsPodSpec
<1>2. IsContainerBasicConfig(c)
  BY <1>1, EnvOfTexts DEF IsContainerBasicConfig, ConvertContainerConfig
<1>3. IsContainerStorageConfig(c)
  <2>1. \A m \in Mounts(p, k) : IsMount(m)
    BY DEF Mounts, Bind, Tmpfs, IsMount
  <2>2. \A v \in NamedVolumes(p, k) : IsNamedVolume(v)
    BY DEF NamedVolumes, IsNamedVolume
  <2> QED
    BY <2>1, <2>2 DEF IsContainerStorageConfig, ConvertContainerConfig
<1>4. IsContainerSecurityConfig(c)
  <2> DEFINE s == SecurityConfig(p, k)
  <2>1. s.Privileged \in BOOLEAN
    BY <1>1 DEF SecurityConfig, IsContainer, IsSecurityContext
  <2>2. s.NoNewPrivileges \in BOOLEAN
    BY <1>1 DEF SecurityConfig
  <2>3. s.ReadOnlyFilesystem \in BOOLEAN
    BY <1>1 DEF SecurityConfig, IsContainer, IsSecurityContext
  <2>4. c.Security = s
    BY DEF ConvertContainerConfig
  <2> QED
    BY <2>1, <2>2, <2>3, <2>4 DEF IsContainerSecurityConfig
<1>5. IsContainerResourceConfig(c)
  <2>1. /\ k.cpuRequest \in Nat /\ k.cpuLimit \in Nat
        /\ k.memoryRequest \in Nat /\ k.memoryLimit \in Nat
    BY <1>1 DEF IsContainer
  <2>2. GetContainerOOMScoreAdjust(p, k) \in -1000..1000
    BY <2>1, ScoreBounded DEF IsPodSpec
  <2>3. c.ResourceLimits = LinuxResources(k) /\ c.OOMScoreAdj = GetContainerOOMScoreAdjust(p, k)
    BY DEF ConvertContainerConfig
  <2>4. /\ LinuxResources(k).Shares \in Nat \ {0, 1}
        /\ LinuxResources(k).Quota \in {None} \union Nat
        /\ LinuxResources(k).Limit \in {None} \union (Nat \ {0})
        /\ DOMAIN LinuxResources(k) = {"Shares", "Quota", "Limit"}
    <3>1. milliCPUToShares(k.cpuRequest) \in Nat \ {0, 1} /\ milliCPUToQuota(k.cpuLimit) \in Nat
      BY <2>1, CpuAsAsked
    <3> QED
      BY <2>1, <3>1 DEF LinuxResources
  <2> QED
    BY <2>2, <2>3, <2>4 DEF IsContainerResourceConfig, IsLinuxCPU, IsLinuxMemory
<1> QED
  BY <1>2, <1>3, <1>4, <1>5 DEF IsSpecGenerator

-----------------------------------------------------------------------------
(* The Pod *)

\* Overwriting the status leaves everything else, and once is enough.
LEMMA StatusOverwritten ==
  ASSUME NEW p, IsPodSpec(p)
  PROVE  /\ IsPodSpec(Overwritten(p))
         /\ Overwritten(p).qosClass = NoQOSClass
         /\ Overwritten(Overwritten(p)) = Overwritten(p)
         /\ Overwritten(p).uid = p.uid
         /\ Overwritten(p).volumes = p.volumes
         /\ Overwritten(p).containers = p.containers
         /\ Overwritten(p).imagePullSecrets = p.imagePullSecrets
         /\ Overwritten(p).priority = p.priority
<1> DEFINE q == Overwritten(p)
<1>1. /\ DOMAIN q = DOMAIN p
      /\ q.qosClass = NoQOSClass
      /\ \A f \in DOMAIN p : f # "qosClass" => q[f] = p[f]
  BY DEF Overwritten, IsPodSpec
<1>2. /\ q.uid = p.uid /\ q.volumes = p.volumes /\ q.containers = p.containers
      /\ q.imagePullSecrets = p.imagePullSecrets /\ q.priority = p.priority
  BY <1>1 DEF IsPodSpec
<1>3. Overwritten(q) = q
  BY <1>1 DEF Overwritten, IsPodSpec
<1>4. IsPodSpec(q)
  <2> HIDE DEF q
  <2> QED
    BY <1>1, <1>2 DEF IsPodSpec
<1> HIDE DEF q
<1> QED
  BY <1>1, <1>2, <1>3, <1>4 DEF q

\* The Pod is one the API server lets through.
LEMMA PodLetThrough ==
  ASSUME PodKept
  PROVE  /\ IsPodSpec(pod)
         /\ \A i \in DOMAIN pod.volumes : IsVolume(pod.volumes[i])
         /\ pod.imagePullSecrets \in Seq(Secrets)
         /\ DOMAIN pod.volumes = 1..Len(pod.volumes) /\ Len(pod.volumes) \in Nat
         /\ DOMAIN pod.containers = 1..Len(pod.containers) /\ Len(pod.containers) \in Nat
<1>1. PICK p \in Pods : pod \in {p, Overwritten(p)}
  BY DEF PodKept
<1>2. /\ IsPodSpec(p)
      /\ \A v \in ToSet(p.volumes) : IsVolume(v)
      /\ ToSet(p.imagePullSecrets) \subseteq Secrets
  BY PodsAssumption
<1>3. /\ IsPodSpec(pod) /\ pod.volumes = p.volumes /\ pod.imagePullSecrets = p.imagePullSecrets
  BY <1>1, <1>2, StatusOverwritten
<1>4. pod.imagePullSecrets \in Seq(Secrets)
  <2>1. pod.imagePullSecrets \in Seq(ToSet(pod.imagePullSecrets))
    BY <1>3 DEF IsPodSpec, IsList
  <2> QED
    BY <1>2, <1>3, <2>1, SeqMonotonic
<1>5. /\ pod.volumes \in Seq(ToSet(pod.volumes))
      /\ pod.containers \in Seq(ToSet(pod.containers))
  BY <1>3 DEF IsPodSpec, IsList
<1>6. \A i \in DOMAIN pod.volumes : IsVolume(pod.volumes[i])
  BY <1>2, <1>3 DEF ToSet
<1> QED
  BY <1>3, <1>4, <1>5, <1>6, LenProperties

\* Volumes of one pod have different names.
LEMMA VolumesApart ==
  ASSUME PodKept, NEW i \in DOMAIN pod.volumes, NEW j \in DOMAIN pod.volumes
  PROVE  Volume(pod.volumes[i].name) = Volume(pod.volumes[j].name) => i = j
BY PodLetThrough DEF IsPodSpec, UniqueNames, Volume

-----------------------------------------------------------------------------
(* The call in progress *)

\* A call that is somewhere is not idle.
LEMMA CallTyped ==
  ASSUME work \in {Idle} \union Calls, work.step # "idle"
  PROVE  /\ work \in Calls
         /\ work.next \in Nat \ {0}
         /\ work.tries \in Nat
         /\ work.pull \in Seq(SecretStates)
         /\ work.pulled \in BOOLEAN
BY DEF Calls, Idle

\* What the actions make of a call is a call.
LEMMA StepChanged ==
  ASSUME NEW w \in Calls,
         NEW step \in {"cleanup", "volumes", "inject", "podcreate", "secrets", "containers", "pull"}
  PROVE  /\ [w EXCEPT !.step = step] \in Calls
         /\ [w EXCEPT !.step = step].step = step
         /\ [w EXCEPT !.step = step].next = w.next
BY DEF Calls

LEMMA NextVolume ==
  ASSUME NEW w \in Calls
  PROVE  /\ [w EXCEPT !.next = @ + 1] \in Calls
         /\ [w EXCEPT !.next = @ + 1].step = w.step
         /\ [w EXCEPT !.next = @ + 1].next = w.next + 1
BY DEF Calls

LEMMA SecretsGrabbed ==
  ASSUME NEW w \in Calls, NEW refs \in Seq(SecretStates)
  PROVE  /\ [w EXCEPT !.step = "containers", !.next = 1, !.pull = refs] \in Calls
         /\ [w EXCEPT !.step = "containers", !.next = 1, !.pull = refs].step = "containers"
<1> DEFINE u == [w EXCEPT !.step = "containers"]
           v == [u EXCEPT !.next = 1]
<1>1. u \in Calls /\ u.step = "containers"
  BY StepChanged
<1> HIDE DEF u
<1>2. v \in Calls /\ v.step = "containers"
  <2>1. 1 \in Nat \ {0}
    OBVIOUS
  <2>2. v \in Calls
    BY <1>1, <2>1 DEF Calls
  <2>3. v.step = u.step
    BY <1>1 DEF Calls
  <2> QED
    BY <1>1, <2>2, <2>3
<1> HIDE DEF v
<1>3. [v EXCEPT !.pull = refs] \in Calls /\ [v EXCEPT !.pull = refs].step = "containers"
  BY <1>2 DEF Calls
<1> QED
  BY <1>3 DEF u, v

LEMMA PullGoesOn ==
  ASSUME NEW w \in Calls
  PROVE  /\ [w EXCEPT !.step = "pull", !.tries = 0] \in Calls
         /\ [w EXCEPT !.step = "pull", !.tries = 0].step = "pull"
         /\ [w EXCEPT !.step = "pull", !.tries = 0].next = w.next
         /\ [w EXCEPT !.step = "pull", !.tries = 0].tries = 0
         /\ [w EXCEPT !.step = "pull", !.tries = 0].pull = w.pull
         /\ [w EXCEPT !.tries = @ + 1] \in Calls
         /\ [w EXCEPT !.tries = @ + 1].step = w.step
         /\ [w EXCEPT !.tries = @ + 1].next = w.next
         /\ [w EXCEPT !.tries = @ + 1].tries = w.tries + 1
         /\ [w EXCEPT !.tries = @ + 1].pull = w.pull
<1>1. /\ [w EXCEPT !.step = "pull", !.tries = 0] \in Calls
      /\ [w EXCEPT !.step = "pull", !.tries = 0].step = "pull"
      /\ [w EXCEPT !.step = "pull", !.tries = 0].next = w.next
      /\ [w EXCEPT !.step = "pull", !.tries = 0].tries = 0
      /\ [w EXCEPT !.step = "pull", !.tries = 0].pull = w.pull
  BY DEF Calls
<1>2. /\ [w EXCEPT !.tries = @ + 1] \in Calls
      /\ [w EXCEPT !.tries = @ + 1].step = w.step
      /\ [w EXCEPT !.tries = @ + 1].next = w.next
      /\ [w EXCEPT !.tries = @ + 1].tries = w.tries + 1
      /\ [w EXCEPT !.tries = @ + 1].pull = w.pull
  BY DEF Calls
<1> QED
  BY <1>1, <1>2

LEMMA ContainerDone ==
  ASSUME NEW w \in Calls
  PROVE  /\ [w EXCEPT !.step = "containers", !.pulled = TRUE] \in Calls
         /\ [w EXCEPT !.step = "containers", !.pulled = TRUE].step = "containers"
         /\ [w EXCEPT !.next = @ + 1, !.pulled = FALSE] \in Calls
         /\ [w EXCEPT !.next = @ + 1, !.pulled = FALSE].step = w.step
<1>1. /\ [w EXCEPT !.step = "containers", !.pulled = TRUE] \in Calls
      /\ [w EXCEPT !.step = "containers", !.pulled = TRUE].step = "containers"
  BY DEF Calls
<1>2. /\ [w EXCEPT !.next = @ + 1, !.pulled = FALSE] \in Calls
      /\ [w EXCEPT !.next = @ + 1, !.pulled = FALSE].step = w.step
  <2> DEFINE v == [w EXCEPT !.next = @ + 1]
  <2>1. v \in Calls /\ v.step = w.step
    BY NextVolume
  <2> HIDE DEF v
  <2>2. [v EXCEPT !.pulled = FALSE] \in Calls /\ [v EXCEPT !.pulled = FALSE].step = v.step
    BY <2>1 DEF Calls
  <2> QED
    BY <2>1, <2>2 DEF v
<1> QED
  BY <1>1, <1>2

LEMMA SpendKeeps ==
  ASSUME BudgetOK, NEW what \in {"attempts", "changes", "faults"}, Spend(what)
  PROVE  BudgetOK' /\ budget' # budget
BY DEF BudgetOK, Spend

LEMMA BudgetKept ==
  ASSUME BudgetOK, [Next]_vars
  PROVE  BudgetOK'
<1>1. CASE UNCHANGED budget
  BY <1>1 DEF BudgetOK
<1>2. CASE \E what \in {"attempts", "changes", "faults"} : Spend(what)
  BY <1>2, SpendKeeps
<1>3. UNCHANGED budget \/ \E what \in {"attempts", "changes", "faults"} : Spend(what)
  BY DEF Next, vars, SecretChanges, CreatePod, BuildVolumes, BuildContainers, Fails,
     CleanupVolumes, CleanupFails, SkipVolume, CreateEmptyDir, CreateSecretVolume, InjectSecret,
     SecretUnanswered, WithoutSecret, InjectFails, CreateProjectedVolume, ProjectionFails,
     VolumesDone, PodCreate, GrabPullSecrets, StartPull,
     Pull, PullGivesUp, ContainerCreate, NoSuchImage, Created
<1> QED
  BY <1>1, <1>2, <1>3

\* A call gets past a step only in order, and to a volume only past those before it.
LEMMA OrderKept ==
  ASSUME BuildInv, [Next]_vars
  PROVE  WorkInOrder'
<1> USE DEF At, Goto, Return
<1>0. /\ WorkInOrder /\ PodKept
      /\ work \in {Idle} \union Calls
      /\ secrets \in [Secrets -> SecretStates \union {None}]
  BY DEF BuildInv, WorkInOrder
<1>1. Idle.step = "idle"
  BY DEF Idle
<1>2. ASSUME Return PROVE WorkInOrder'
  BY <1>1, <1>2 DEF WorkInOrder
<1>3. ASSUME UNCHANGED <<pod, work>> PROVE WorkInOrder'
  BY <1>0, <1>3 DEF WorkInOrder, This, Reached
<1>4. ASSUME work.step # "idle",
             NEW step \in {"podcreate", "secrets", "containers"}, Goto(step)
      PROVE  WorkInOrder'
  <2>1. work \in Calls
    BY <1>0, <1>4, CallTyped
  <2>2. work' \in Calls /\ work'.step = step
    <3>1. [work EXCEPT !.step = step] \in Calls /\ [work EXCEPT !.step = step].step = step
      <4>1. step \in {"cleanup", "volumes", "inject", "podcreate", "secrets", "containers", "pull"}
        BY <1>4
      <4>2. [work EXCEPT !.step = step] \in Calls
        BY <2>1, <4>1, StepChanged
      <4>3. [work EXCEPT !.step = step].step = step
        BY <2>1, <4>1, StepChanged
      <4> QED
        BY <4>2, <4>3
    <3>2. work' = [work EXCEPT !.step = step]
      BY <1>4
    <3> QED
      BY <3>1, <3>2
  <2> QED
    BY <2>2 DEF WorkInOrder
<1>5. ASSUME At("volumes"), work.next \in DOMAIN pod.volumes,
             This.kind \notin {"secret", "projected"},
             work' = [work EXCEPT !.next = @ + 1], UNCHANGED pod
      PROVE  WorkInOrder'
  <2>1. /\ work' \in Calls /\ work'.step = "volumes" /\ work'.next = work.next + 1
        /\ work.next \in Nat
    BY <1>0, <1>5, CallTyped, StepChanged, NextVolume, PullGoesOn, ContainerDone
  <2>2. work.next + 1 <= Len(pod.volumes) + 1
    BY <1>0, <1>5, <2>1, PodLetThrough
  <2>3. Reached(work.next + 1)
    BY <1>0, <1>5, <2>1 DEF WorkInOrder, Reached, This
  <2> QED
    BY <1>5, <2>1, <2>2, <2>3 DEF WorkInOrder, Reached
<1>6. CASE CreatePod
  <2>1. work' \in Calls /\ work'.step = "cleanup" /\ work'.next = 1
    BY <1>6, EmptySeq DEF CreatePod, Calls
  <2> QED
    BY <2>1 DEF WorkInOrder
<1>7. CASE CleanupVolumes
  <2>1. CASE Goto("volumes")
    <3>1. work' \in Calls /\ work'.step = "volumes" /\ work'.next = 1
      BY <1>0, <1>7, <2>1, CallTyped, StepChanged, NextVolume, PullGoesOn, ContainerDone DEF CleanupVolumes, WorkInOrder
    <3>2. 1 <= Len(pod.volumes) + 1 /\ pod' = pod
      BY <1>0, <1>7, PodLetThrough DEF CleanupVolumes
    <3> QED
      BY <3>1, <3>2 DEF WorkInOrder, Reached
  <2> QED
    BY <1>2, <1>7, <2>1 DEF CleanupVolumes
<1>8. CASE SkipVolume
  BY <1>5, <1>8 DEF SkipVolume, AtVolume, This
<1>9. CASE CreateEmptyDir
  BY <1>2, <1>5, <1>9 DEF CreateEmptyDir, CreateRuntimeVolume, AtVolume, This
<1>10. CASE CreateSecretVolume
  <2>1. CASE Goto("inject")
    <3>1. work' \in Calls /\ work'.step = "inject" /\ work'.next = work.next
      BY <1>0, <1>10, <2>1, CallTyped, StepChanged, NextVolume, PullGoesOn, ContainerDone DEF CreateSecretVolume, AtVolume
    <3> QED
      BY <1>0, <1>10, <3>1 DEF WorkInOrder, CreateSecretVolume, AtVolume, This, Reached
  <2> QED
    BY <1>2, <1>10, <2>1 DEF CreateSecretVolume, CreateRuntimeVolume
<1>11. CASE InjectSecret \/ SecretUnanswered
  BY <1>2, <1>4, <1>11 DEF InjectSecret, SecretUnanswered, WithoutSecret
<1>12. CASE CreateProjectedVolume
  BY <1>2, <1>4, <1>12 DEF CreateProjectedVolume, CreateRuntimeVolume, AtVolume
<1>13. CASE \/ CleanupFails \/ ProjectionFails \/ InjectFails \/ Fails \/ NoSuchImage \/ Created
  BY <1>2, <1>13 DEF CleanupFails, ProjectionFails, InjectFails, Fails, NoSuchImage, Created,
     CreateRuntimeVolume
<1>14. CASE VolumesDone
  BY <1>4, <1>14 DEF VolumesDone
<1>15. CASE PodCreate
  BY <1>2, <1>4, <1>15 DEF PodCreate
<1>16. CASE GrabPullSecrets
  <2> DEFINE refs == [i \in DOMAIN pod.imagePullSecrets |-> secrets[pod.imagePullSecrets[i]]]
  <2>1. CASE None \in ToSet(refs)
    BY <1>2, <1>16, <2>1 DEF GrabPullSecrets
  <2>2. CASE None \notin ToSet(refs)
    <3>1. refs \in Seq(SecretStates)
      <4>1. /\ pod.imagePullSecrets \in Seq(Secrets)
            /\ DOMAIN pod.imagePullSecrets = 1..Len(pod.imagePullSecrets)
            /\ Len(pod.imagePullSecrets) \in Nat
        BY <1>0, PodLetThrough, LenProperties
      <4>2. \A i \in 1..Len(pod.imagePullSecrets) : refs[i] \in SecretStates
        BY <1>0, <2>2, <4>1, ElementOfSeq DEF ToSet
      <4>3. refs \in [1..Len(pod.imagePullSecrets) -> SecretStates]
        BY <4>1, <4>2
      <4> HIDE DEF refs
      <4> QED
        BY <4>1, <4>3, SeqDef
    <3>2. work' = [work EXCEPT !.step = "containers", !.next = 1, !.pull = refs]
      BY <1>16, <2>2 DEF GrabPullSecrets
    <3> HIDE DEF refs
    <3>3. work \in Calls
      BY <1>0, <1>16, CallTyped DEF GrabPullSecrets
    <3>4. work' \in Calls /\ work'.step = "containers"
      BY <3>1, <3>2, <3>3, SecretsGrabbed
    <3> QED
      BY <3>4 DEF WorkInOrder
  <2> QED
    BY <2>1, <2>2
<1>17. CASE StartPull
  <2>1. work' \in Calls /\ work'.step = "pull" /\ work'.next = work.next /\ work'.tries = 0
        /\ work'.pull = work.pull
    BY <1>0, <1>17, CallTyped, StepChanged, NextVolume, PullGoesOn, ContainerDone DEF StartPull, AtCon
  <2> QED
    BY <1>17, <2>1 DEF WorkInOrder, StartPull, AtCon
<1>18. CASE Pull
  <2>1. CASE PullDone
    <3>1. work' \in Calls /\ work'.step = "containers"
      BY <1>0, <1>18, <2>1, CallTyped, StepChanged, NextVolume, PullGoesOn, ContainerDone DEF Pull, PullDone
    <3> QED
      BY <3>1 DEF WorkInOrder
  <2>2. CASE NextPull
    <3>1. /\ work' \in Calls /\ work'.step = "pull" /\ work'.next = work.next
          /\ work'.pull = work.pull /\ work'.tries = work.tries + 1
      BY <1>0, <1>18, <2>2, CallTyped, StepChanged, NextVolume, PullGoesOn, ContainerDone DEF Pull, NextPull
    <3>2. DOMAIN work.pull = 1..Len(work.pull) /\ Len(work.pull) \in Nat
      BY <1>0, <1>18, CallTyped, LenProperties DEF Pull
    <3>3. work.tries + 1 <= Len(work.pull) + 1
      BY <1>18, <3>2 DEF Pull
    <3> QED
      BY <1>0, <1>18, <3>1, <3>3 DEF WorkInOrder, Pull
  <2> QED
    BY <1>2, <1>18, <2>1, <2>2 DEF Pull
<1>19. CASE PullGivesUp
  <2>1. CASE PullDone
    <3>1. work' \in Calls /\ work'.step = "containers"
      BY <1>0, <1>19, <2>1, CallTyped, StepChanged, NextVolume, PullGoesOn, ContainerDone DEF PullGivesUp, PullDone
    <3> QED
      BY <3>1 DEF WorkInOrder
  <2> QED
    BY <1>2, <1>19, <2>1 DEF PullGivesUp
<1>20. CASE ContainerCreate
  <2>1. CASE work' = [work EXCEPT !.next = @ + 1, !.pulled = FALSE]
    <3>1. work' \in Calls /\ work'.step = "containers"
      BY <1>0, <1>20, <2>1, CallTyped, StepChanged, NextVolume, PullGoesOn, ContainerDone DEF ContainerCreate, AtCon
    <3> QED
      BY <3>1 DEF WorkInOrder
  <2>2. Return \/ work' = [work EXCEPT !.next = @ + 1, !.pulled = FALSE]
    BY <1>20 DEF ContainerCreate
  <2> QED
    BY <1>2, <2>1, <2>2
<1>21. CASE SecretChanges \/ UNCHANGED vars
  BY <1>3, <1>21 DEF SecretChanges, vars
<1> QED
  BY <1>6, <1>7, <1>8, <1>9, <1>10, <1>11, <1>12, <1>13, <1>14, <1>15, <1>16, <1>17, <1>18, <1>19,
     <1>20, <1>21 DEF Next, BuildVolumes, BuildContainers

\* Where each action leaves the call.
LEMMA StepsTaken ==
  ASSUME BuildInv
  PROVE  /\ CreatePod => work'.step = "cleanup"
         /\ CleanupVolumes \/ SkipVolume \/ CreateEmptyDir => work'.step \in {"idle", "volumes"}
         /\ CreateSecretVolume => work'.step \in {"idle", "inject"}
         /\ InjectSecret \/ SecretUnanswered => work'.step \in {"idle", "podcreate"}
         /\ CreateProjectedVolume \/ VolumesDone => work'.step \in {"idle", "podcreate"}
         /\ CleanupFails \/ InjectFails \/ ProjectionFails => work'.step = "idle"
         /\ Fails \/ NoSuchImage \/ Created => work'.step = "idle"
         /\ PodCreate => work'.step \in {"idle", "secrets"}
         /\ GrabPullSecrets \/ PullGivesUp \/ ContainerCreate => work'.step \in {"idle", "containers"}
         /\ StartPull => work'.step = "pull"
         /\ Pull => work'.step \in {"idle", "containers", "pull"}
<1> USE DEF At, Goto, Return
<1>1. work.step # "idle" => "step" \in DOMAIN work
  BY CallTyped DEF BuildInv, WorkInOrder, Calls
<1>2. Idle.step = "idle"
  BY DEF Idle
<1>3. CreatePod => work'.step = "cleanup"
  BY DEF CreatePod
<1>4. CleanupVolumes \/ SkipVolume \/ CreateEmptyDir => work'.step \in {"idle", "volumes"}
  BY <1>1, <1>2 DEF CleanupVolumes, SkipVolume, CreateEmptyDir, CreateRuntimeVolume, AtVolume
<1>5. CreateSecretVolume => work'.step \in {"idle", "inject"}
  BY <1>1, <1>2 DEF CreateSecretVolume, CreateRuntimeVolume, AtVolume
<1>6. /\ InjectSecret \/ SecretUnanswered => work'.step \in {"idle", "podcreate"}
      /\ CreateProjectedVolume \/ VolumesDone => work'.step \in {"idle", "podcreate"}
  BY <1>1, <1>2 DEF InjectSecret, SecretUnanswered, WithoutSecret, CreateProjectedVolume,
     CreateRuntimeVolume, AtVolume, VolumesDone
<1>7. /\ CleanupFails \/ InjectFails \/ ProjectionFails => work'.step = "idle"
      /\ Fails \/ NoSuchImage \/ Created => work'.step = "idle"
  BY <1>2 DEF CleanupFails, InjectFails, ProjectionFails, CreateRuntimeVolume, Fails, NoSuchImage,
     Created
<1>8. PodCreate => work'.step \in {"idle", "secrets"}
  BY <1>1, <1>2 DEF PodCreate
<1>9. GrabPullSecrets => work'.step \in {"idle", "containers"}
  BY <1>1, <1>2 DEF GrabPullSecrets
<1>10. PullGivesUp \/ ContainerCreate => work'.step \in {"idle", "containers"}
  BY <1>1, <1>2 DEF PullGivesUp, PullDone, ContainerCreate, AtCon
<1>11. StartPull => work'.step = "pull"
  BY <1>1, <1>2 DEF StartPull, AtCon
<1>12. Pull => work'.step \in {"idle", "containers", "pull"}
  BY <1>1, <1>2 DEF Pull, PullDone, NextPull
<1> QED
  BY <1>3, <1>4, <1>5, <1>6, <1>7, <1>8, <1>9, <1>10, <1>11, <1>12

\* The Pod changes only when a call begins, and then only if nothing was made of it
\* that the change could affect.
LEMMA PodChanges ==
  ASSUME BuildInv, [Next]_vars
  PROVE  /\ pod' = pod \/ CreatePod
         /\ pod' = pod \/ (pod' = Overwritten(pod) /\ cons = {})
         /\ pod'.volumes = pod.volumes /\ pod'.containers = pod.containers
<1>1. CASE CreatePod
  <2>1. PICK p \in Pods : /\ pod \in {p, Overwritten(p)}
                          /\ cons # {} => pod = Overwritten(p)
    BY DEF BuildInv, PodKept
  <2>2. IsPodSpec(p) /\ IsPodSpec(pod)
    BY PodsAssumption, PodLetThrough DEF BuildInv
  <2>3. pod' = Overwritten(pod)
    BY <1>1 DEF CreatePod, Overwritten
  <2> QED
    BY <1>1, <2>1, <2>2, <2>3, StatusOverwritten
<1>2. CASE ~CreatePod
  <2>1. pod' = pod
    BY <1>2 DEF Next, vars, SecretChanges, BuildVolumes, BuildContainers, Fails,
       CleanupVolumes, CleanupFails, SkipVolume, CreateEmptyDir, CreateSecretVolume, InjectSecret,
       SecretUnanswered, WithoutSecret, InjectFails,
       CreateProjectedVolume, ProjectionFails, VolumesDone, PodCreate, GrabPullSecrets, StartPull,
       Pull, PullGivesUp, ContainerCreate, NoSuchImage, Created
  <2> QED
    BY <2>1
<1> QED
  BY <1>1, <1>2

LEMMA PodStays ==
  ASSUME BuildInv, [Next]_vars
  PROVE  PodKept'
<1>1. PICK p \in Pods : /\ pod \in {p, Overwritten(p)}
                        /\ ~At("idle") \/ cons # {} => pod = Overwritten(p)
  BY DEF BuildInv, PodKept
<1>2. CASE CreatePod
  <2>1. IsPodSpec(p) /\ pod' = Overwritten(pod)
    BY <1>2, PodsAssumption DEF CreatePod, Overwritten
  <2>2. pod' = Overwritten(p)
    BY <1>1, <2>1, StatusOverwritten
  <2> QED
    BY <2>2 DEF PodKept
<1>3. CASE ~At("idle") /\ ~CreatePod
  <2>1. pod' = pod /\ pod = Overwritten(p)
    BY <1>1, <1>3, PodChanges
  <2> QED
    BY <2>1 DEF PodKept
<1>4. CASE At("idle") /\ ~CreatePod
  <2>1. UNCHANGED <<pod, work, cons>>
    BY <1>4 DEF Next, vars, At, SecretChanges, BuildVolumes, BuildContainers, Fails, podman,
       CleanupVolumes, CleanupFails, SkipVolume, CreateEmptyDir, CreateSecretVolume, InjectSecret,
       SecretUnanswered, WithoutSecret, InjectFails,
       CreateProjectedVolume, ProjectionFails, VolumesDone, PodCreate, GrabPullSecrets, StartPull,
       Pull, PullGivesUp, ContainerCreate, NoSuchImage, Created, AtVolume, AtCon
  <2> QED
    BY <1>1, <2>1 DEF PodKept, At
<1> QED
  BY <1>2, <1>3, <1>4

\* Secrets change in the API only, images come by pulls, and podman's pod comes
\* before the containers.
LEMMA SecretsKept ==
  ASSUME BuildInv, [Next]_vars
  PROVE  secrets' \in [Secrets -> SecretStates \union {None}]
<1>1. CASE SecretChanges
  BY <1>1 DEF SecretChanges, BuildInv
<1>2. CASE ~SecretChanges
  <2>1. secrets' = secrets
    BY <1>2 DEF Next, vars, CreatePod, BuildVolumes, BuildContainers, Fails,
       CleanupVolumes, CleanupFails, SkipVolume, CreateEmptyDir, CreateSecretVolume, InjectSecret,
       SecretUnanswered, WithoutSecret, InjectFails,
       CreateProjectedVolume, ProjectionFails, VolumesDone, PodCreate, GrabPullSecrets, StartPull,
       Pull, PullGivesUp, ContainerCreate, NoSuchImage, Created
  <2> QED
    BY <2>1 DEF BuildInv
<1> QED
  BY <1>1, <1>2

LEMMA ImagesKept ==
  ASSUME BuildInv, [Next]_vars
  PROVE  images' \subseteq {con.image : con \in ToSet(pod'.containers)}
<1>1. pod'.containers = pod.containers /\ images \subseteq {con.image : con \in ToSet(pod.containers)}
  BY PodChanges DEF BuildInv
<1>2. CASE Pull
  <2>1. Con \in ToSet(pod.containers)
    BY <1>2 DEF Pull, Con, BuildInv, WorkInOrder, At, ToSet
  <2>2. images' \subseteq images \union {Con.image}
    BY <1>2 DEF Pull, Arrives
  <2> QED
    BY <1>1, <2>1, <2>2
<1>3. CASE ~Pull
  <2>1. images' = images
    BY <1>3 DEF Next, vars, podman, SecretChanges, CreatePod, BuildVolumes, BuildContainers, Fails,
       CleanupVolumes, CleanupFails, SkipVolume, CreateEmptyDir, CreateSecretVolume, InjectSecret,
       SecretUnanswered, WithoutSecret, InjectFails,
       CreateProjectedVolume, ProjectionFails, VolumesDone, PodCreate, GrabPullSecrets, StartPull,
       PullGivesUp, ContainerCreate, NoSuchImage, Created
  <2> QED
    BY <1>1, <2>1
<1> QED
  BY <1>2, <1>3

LEMMA ConsKept ==
  ASSUME BuildInv, [Next]_vars
  PROVE  made' \in BOOLEAN /\ ConsConverted'
<1> USE DEF At, Goto, Return
<1>0. /\ ConsConverted /\ made \in BOOLEAN /\ Idle.step = "idle" /\ WorkInOrder
      /\ work.step # "idle" => work \in Calls
  BY CallTyped DEF BuildInv, WorkInOrder, Idle
<1>1. CASE CreatePod
  <2>1. cons' = cons /\ made' = made /\ work'.step = "cleanup"
    BY <1>1 DEF CreatePod, podman
  <2>2. pod' = pod \/ cons = {}
    BY PodChanges
  <2> QED
    BY <1>0, <2>1, <2>2 DEF ConsConverted
<1>2. CASE ContainerCreate
  <2>1. Con \in ToSet(pod.containers) /\ PodId \in {pod.uid, None} /\ pod' = pod
    BY <1>2 DEF ContainerCreate, AtCon, Con, PodId, ToSet
  <2>2. /\ cons' \subseteq cons \union {ConvertContainerConfig(pod, Con, PodId)}
        /\ made' = made /\ made
    BY <1>0, <1>2 DEF ContainerCreate, AtCon, ConsConverted
  <2> QED
    BY <1>0, <2>1, <2>2 DEF ConsConverted
<1>3. CASE PodCreate
  <2>1. made' /\ cons' = cons /\ pod' = pod
    BY <1>3 DEF PodCreate
  <2> QED
    BY <1>0, <2>1, <1>3 DEF ConsConverted, PodCreate
<1>4. CASE ~CreatePod /\ ~ContainerCreate /\ ~PodCreate
  <2>1. UNCHANGED <<pod, cons, made>>
    BY <1>4 DEF Next, vars, podman, SecretChanges, BuildVolumes, BuildContainers, Fails,
       CleanupVolumes, CleanupFails, SkipVolume, CreateEmptyDir, CreateSecretVolume, InjectSecret,
       SecretUnanswered, WithoutSecret, InjectFails,
       CreateProjectedVolume, ProjectionFails, VolumesDone, GrabPullSecrets, StartPull,
       Pull, PullGivesUp, NoSuchImage, Created
  <2>2. work'.step \in {"secrets", "containers", "pull"} =>
         work.step \in {"secrets", "containers", "pull"}
    <3>1. CASE UNCHANGED work
      BY <3>1
    <3>2. CASE GrabPullSecrets \/ StartPull \/ Pull \/ PullGivesUp
      BY <3>2 DEF GrabPullSecrets, StartPull, Pull, PullGivesUp, AtCon
    <3>3. CASE BuildVolumes \/ Fails \/ NoSuchImage \/ Created
      BY <3>3, StepsTaken DEF BuildVolumes
    <3> QED
      BY <1>4, <3>1, <3>2, <3>3 DEF Next, BuildContainers, SecretChanges, vars
  <2> QED
    BY <1>0, <2>1, <2>2 DEF ConsConverted
<1> QED
  BY <1>1, <1>2, <1>3, <1>4

-----------------------------------------------------------------------------
(* Volumes *)

\* What making a volume, filling one and making the missing ones leave alone.
LEMMA VolumeMade ==
  ASSUME VolumesKept, NEW name, name \notin DOMAIN volumes, NEW files,
         volumes' = Put(volumes, name, [labelled |-> TRUE, files |-> files]), cons' = cons
  PROVE  /\ DOMAIN volumes' = DOMAIN volumes \union {name}
         /\ volumes'[name].labelled = TRUE /\ volumes'[name].files = files
         /\ \A v \in DOMAIN volumes : volumes'[v] = volumes[v]
         /\ \A v \in DOMAIN volumes' : /\ DOMAIN volumes'[v] = {"labelled", "files"}
                                      /\ volumes'[v].labelled \in BOOLEAN
         /\ Used' \subseteq DOMAIN volumes'
         /\ Labelled' \intersect Used' = Labelled \intersect Used
<1>1. /\ DOMAIN volumes' = DOMAIN volumes \union {name}
      /\ volumes'[name] = [labelled |-> TRUE, files |-> files]
      /\ \A v \in DOMAIN volumes : volumes'[v] = volumes[v]
  BY DEF Put
<1>2. Used' = Used /\ Used \subseteq DOMAIN volumes
  BY DEF Used, VolumesKept
<1>3. /\ volumes'[name].labelled = TRUE /\ volumes'[name].files = files
      /\ DOMAIN volumes'[name] = {"labelled", "files"}
  <2> DEFINE r == [labelled |-> TRUE, files |-> files]
  <2>1. r.labelled = TRUE /\ r.files = files /\ DOMAIN r = {"labelled", "files"}
    OBVIOUS
  <2> HIDE DEF r
  <2>2. volumes'[name] = r
    BY <1>1 DEF r
  <2> QED
    BY <2>1, <2>2
<1>4. \A v \in DOMAIN volumes : volumes'[v].labelled = volumes[v].labelled
  BY <1>1
<1>5. Labelled' \subseteq Labelled \union {name} /\ Labelled \subseteq Labelled'
  BY <1>1, <1>4, Zenon DEF Labelled
<1>6. \A v \in DOMAIN volumes' : /\ DOMAIN volumes'[v] = {"labelled", "files"}
                                 /\ volumes'[v].labelled \in BOOLEAN
  BY <1>1, <1>3 DEF VolumesKept
<1>7. Labelled' \intersect Used' = Labelled \intersect Used
  BY <1>2, <1>5
<1> QED
  BY <1>1, <1>2, <1>3, <1>6, <1>7

LEMMA VolumeFilled ==
  ASSUME VolumesKept, NEW name \in DOMAIN volumes, NEW files,
         volumes' = [volumes EXCEPT ![name].files = files], cons' = cons
  PROVE  /\ DOMAIN volumes' = DOMAIN volumes
         /\ volumes'[name].labelled = volumes[name].labelled
         /\ volumes'[name].files = files
         /\ \A v \in DOMAIN volumes \ {name} : volumes'[v] = volumes[v]
         /\ \A v \in DOMAIN volumes' : /\ DOMAIN volumes'[v] = {"labelled", "files"}
                                      /\ volumes'[v].labelled \in BOOLEAN
         /\ Used' \subseteq DOMAIN volumes'
         /\ Labelled' \intersect Used' = Labelled \intersect Used
<1>1. /\ DOMAIN volumes' = DOMAIN volumes
      /\ volumes'[name] = [volumes[name] EXCEPT !.files = files]
      /\ \A v \in DOMAIN volumes \ {name} : volumes'[v] = volumes[v]
  OBVIOUS
<1>2. DOMAIN volumes[name] = {"labelled", "files"}
  BY DEF VolumesKept
<1>3. /\ volumes'[name].labelled = volumes[name].labelled
      /\ volumes'[name].files = files
      /\ DOMAIN volumes'[name] = {"labelled", "files"}
  BY <1>1, <1>2
<1>4. Used' = Used /\ Used \subseteq DOMAIN volumes
  BY DEF Used, VolumesKept
<1>5. Labelled' = Labelled
  <2>1. \A v \in DOMAIN volumes : volumes'[v].labelled = volumes[v].labelled
    BY <1>1, <1>3
  <2> QED
    BY <1>1, <2>1 DEF Labelled
<1> QED
  BY <1>1, <1>3, <1>4, <1>5 DEF VolumesKept

LEMMA MissingMade ==
  ASSUME NEW names
  PROVE  /\ DOMAIN WithMissing(names) = DOMAIN volumes \union names
         /\ \A v \in DOMAIN volumes : WithMissing(names)[v] = volumes[v]
         /\ \A v \in names \ DOMAIN volumes :
              WithMissing(names)[v] = [labelled |-> FALSE, files |-> <<>>]
BY DEF WithMissing

\* Nothing the code fills is mounted when a call gets past the clean-up.
LEMMA NothingMounted ==
  ASSUME BuildInv, Labelled \intersect Used = {},
         NEW c \in cons, NEW i \in DOMAIN pod.volumes, Implemented(i)
  PROVE  Volume(pod.volumes[i].name) \notin NamesOf(c)
<1> SUFFICES ASSUME Volume(pod.volumes[i].name) \in NamesOf(c) PROVE FALSE
  OBVIOUS
<1>1. Volume(pod.volumes[i].name) \in Used /\ Used \subseteq DOMAIN volumes
  BY DEF Used, BuildInv, VolumesKept
<1>2. volumes[Volume(pod.volumes[i].name)].labelled
  BY DEF BuildInv, MountedServed, IsServed
<1> QED
  BY <1>1, <1>2 DEF Labelled

LEMMA VolumesStay ==
  ASSUME BuildInv, [Next]_vars
  PROVE  VolumesKept'
<1> USE DEF At, Goto, Return
<1>0. VolumesKept
  BY DEF BuildInv
<1>1. CASE CleanupVolumes \/ CleanupFails
  <2>1. PICK gone \in SUBSET Labelled : /\ gone \intersect Used = {}
                                        /\ volumes' = Only(DOMAIN volumes \ gone)
                                        /\ gone = Labelled \/ work' = Idle
    BY <1>1 DEF CleanupVolumes, CleanupFails
  <2>2. /\ DOMAIN volumes' = DOMAIN volumes \ gone
        /\ \A v \in DOMAIN volumes' : volumes'[v] = volumes[v]
    BY <2>1 DEF Only
  <2>3. Used' = Used
    BY <1>1 DEF CleanupVolumes, CleanupFails, Used
  <2>4. gone = Labelled => Labelled' = {}
    BY <2>2 DEF Labelled
  <2>5. work'.step \in {"idle", "volumes"} /\ Idle.step = "idle"
    BY <1>1, StepsTaken DEF Idle
  <2> QED
    BY <1>0, <2>1, <2>2, <2>3, <2>4, <2>5 DEF VolumesKept
<1>2. ASSUME work.step = "volumes", NEW name, NEW files, name \notin DOMAIN volumes,
             volumes' = Put(volumes, name, [labelled |-> TRUE, files |-> files]),
             cons' = cons
      PROVE  VolumesKept'
  BY <1>0, <1>2, VolumeMade DEF VolumesKept
<1>3. ASSUME UNCHANGED <<volumes, cons>>,
             \/ work.step \in {"volumes", "inject", "podcreate"}
             \/ work'.step \notin {"volumes", "inject", "podcreate"}
      PROVE  VolumesKept'
  BY <1>0, <1>3 DEF VolumesKept, Used, Labelled
<1>4. CASE CreateEmptyDir \/ CreateSecretVolume
  <2>1. CASE Volume(This.name) \in DOMAIN volumes
    BY <1>3, <1>4, <2>1 DEF CreateEmptyDir, CreateSecretVolume, CreateRuntimeVolume, Idle
  <2>2. CASE Volume(This.name) \notin DOMAIN volumes
    BY <1>2, <1>4, <2>2 DEF CreateEmptyDir, CreateSecretVolume, CreateRuntimeVolume, AtVolume
  <2> QED
    BY <2>1, <2>2
<1>5. CASE CreateProjectedVolume \/ ProjectionFails
  <2>1. CASE Volume(This.name) \in DOMAIN volumes
    BY <1>3, <1>5, <2>1 DEF CreateProjectedVolume, ProjectionFails, CreateRuntimeVolume, Idle
  <2>2. CASE Volume(This.name) \notin DOMAIN volumes
    <3>1. work'.step \notin {"volumes", "inject"} /\ work.step = "volumes" /\ cons' = cons
      BY <1>5, StepsTaken DEF CreateProjectedVolume, ProjectionFails, AtVolume
    <3>2. PICK files : volumes' = Put(volumes, Volume(This.name), [labelled |-> TRUE, files |-> files])
      BY <1>5, <2>2 DEF CreateProjectedVolume, ProjectionFails, CreateRuntimeVolume
    <3> QED
      BY <1>2, <2>2, <3>1, <3>2
  <2> QED
    BY <2>1, <2>2
<1>6. CASE InjectSecret \/ SecretUnanswered \/ InjectFails
  <2>1. CASE UNCHANGED volumes
    BY <1>3, <1>6, <2>1 DEF InjectSecret, SecretUnanswered, InjectFails
  <2>2. ASSUME NEW files, volumes' = [volumes EXCEPT ![Volume(This.name)].files = files]
        PROVE  VolumesKept'
    <3>1. Volume(This.name) \in DOMAIN volumes /\ Labelled \intersect Used = {} /\ cons' = cons
      BY <1>0, <1>6 DEF InjectSecret, SecretUnanswered, InjectFails, BuildInv, FilledSoFar, VolumesKept
    <3>2. work'.step \in {"idle", "podcreate"}
      BY <1>6, StepsTaken
    <3> QED
      BY <2>2, <3>1, <3>2, <1>0, VolumeFilled DEF VolumesKept
  <2> QED
    BY <1>6, <2>1, <2>2 DEF InjectSecret, SecretUnanswered, WithoutSecret, InjectFails
<1>7. CASE ContainerCreate
  <2>1. work'.step \in {"idle", "containers"}
    BY <1>7, StepsTaken
  <2>2. CASE UNCHANGED <<volumes, cons>>
    BY <1>3, <1>7, <2>1, <2>2 DEF ContainerCreate
  <2>3. ASSUME NEW c, cons' = cons \union {c}, volumes' = WithMissing(NamesOf(c))
        PROVE  VolumesKept'
    <3>1. /\ DOMAIN volumes' = DOMAIN volumes \union NamesOf(c)
          /\ \A v \in DOMAIN volumes : volumes'[v] = volumes[v]
          /\ \A v \in NamesOf(c) \ DOMAIN volumes :
               volumes'[v] = [labelled |-> FALSE, files |-> <<>>]
      BY <2>3, MissingMade
    <3>2. Used' = Used \union NamesOf(c)
      BY <2>3 DEF Used
    <3>3. \A v \in DOMAIN volumes' : /\ DOMAIN volumes'[v] = {"labelled", "files"}
                                    /\ volumes'[v].labelled \in BOOLEAN
      <4>1. ASSUME NEW v \in DOMAIN volumes
            PROVE  DOMAIN volumes'[v] = {"labelled", "files"} /\ volumes'[v].labelled \in BOOLEAN
        BY <1>0, <3>1, <4>1 DEF VolumesKept
      <4>2. ASSUME NEW v \in NamesOf(c) \ DOMAIN volumes
            PROVE  DOMAIN volumes'[v] = {"labelled", "files"} /\ volumes'[v].labelled \in BOOLEAN
        <5>1. volumes'[v].labelled = FALSE /\ DOMAIN volumes'[v] = {"labelled", "files"}
          BY <3>1, <4>2
        <5> QED
          BY <5>1
      <4> QED
        BY <3>1, <4>1, <4>2
    <3> QED
      BY <1>0, <2>1, <3>1, <3>2, <3>3 DEF VolumesKept
  <2> QED
    BY <1>7, <2>2, <2>3 DEF ContainerCreate
<1>8. CASE CreatePod \/ PodCreate \/ GrabPullSecrets \/ StartPull \/ Pull \/ PullGivesUp \/ NoSuchImage
             \/ Created \/ Fails
  <2>1. work'.step \notin {"volumes", "inject", "podcreate"}
    BY <1>8, StepsTaken
  <2>2. UNCHANGED <<volumes, cons>>
    BY <1>8 DEF CreatePod, PodCreate, GrabPullSecrets, StartPull, Pull, PullGivesUp, NoSuchImage,
       Created, Fails, podman
  <2> QED
    BY <1>3, <2>1, <2>2
<1>9. CASE SkipVolume \/ VolumesDone
  <2>1. UNCHANGED <<volumes, cons>> /\ work.step = "volumes"
    BY <1>9 DEF SkipVolume, VolumesDone, podman
  <2> QED
    BY <1>3, <2>1
<1>10. CASE SecretChanges \/ UNCHANGED vars
  BY <1>3, <1>10 DEF SecretChanges, vars, podman
<1> QED
  BY <1>1, <1>4, <1>5, <1>6, <1>7, <1>8, <1>9, <1>10 DEF Next, BuildVolumes, BuildContainers

\* What the API held is noted while volumes are made, and forgotten at the next
\* clean-up only.
NothingForgotten ==
  (\A s \in Secrets : offered[s] \subseteq offered'[s]) /\ unanswered \subseteq unanswered'

LEMMA OffersKept ==
  ASSUME BuildInv, [Next]_vars
  PROVE  /\ OffersNoted'
         /\ NothingForgotten \/ (CleanupVolumes /\ Labelled \intersect Used = {})
<1> USE DEF At, Goto, Return, MakingVolumes
<1>0. /\ OffersNoted /\ secrets \in [Secrets -> SecretStates \union {None}]
      /\ Idle.step = "idle"
  BY DEF BuildInv, Idle
<1>1. CASE CleanupVolumes
  <2>1. CASE Labelled \intersect Used = {}
    <3>1. offered' = [s \in Secrets |-> {secrets[s]}] /\ secrets' = secrets
      BY <1>1, <2>1 DEF CleanupVolumes
    <3> QED
      BY <1>0, <1>1, <2>1, <3>1 DEF OffersNoted
  <2>2. CASE Labelled \intersect Used # {}
    <3>1. UNCHANGED <<offered, unanswered, secrets>> /\ work' = Idle
      BY <1>1, <2>2 DEF CleanupVolumes, history
    <3> QED
      BY <1>0, <3>1 DEF OffersNoted, NothingForgotten
  <2> QED
    BY <2>1, <2>2
<1>2. CASE SecretChanges
  <2>1. PICK s \in Secrets, state \in SecretStates \union {None} :
          /\ secrets' = [secrets EXCEPT ![s] = state]
          /\ offered' = IF MakingVolumes THEN [offered EXCEPT ![s] = @ \union {state}] ELSE offered
    BY <1>2 DEF SecretChanges
  <2>2. UNCHANGED <<work, unanswered>>
    BY <1>2 DEF SecretChanges
  <2>3. CASE MakingVolumes
    <3>1. offered' = [offered EXCEPT ![s] = @ \union {state}]
      BY <2>1, <2>3
    <3>2. offered' \in [Secrets -> SUBSET (SecretStates \union {None})]
      BY <1>0, <3>1 DEF OffersNoted
    <3>3. \A x \in Secrets : secrets'[x] \in offered'[x] /\ offered[x] \subseteq offered'[x]
      BY <1>0, <2>1, <2>3, <3>1 DEF OffersNoted
    <3> QED
      BY <2>2, <3>2, <3>3 DEF OffersNoted, NothingForgotten
  <2>4. CASE ~MakingVolumes
    BY <1>0, <2>1, <2>2, <2>4 DEF OffersNoted, NothingForgotten
  <2> QED
    BY <2>3, <2>4
<1>3. ASSUME offered' = offered, secrets' = secrets, unanswered \subseteq unanswered',
             MakingVolumes' => MakingVolumes
      PROVE  OffersNoted' /\ NothingForgotten
  BY <1>0, <1>3 DEF OffersNoted, NothingForgotten
<1>4. CASE SkipVolume \/ CreateEmptyDir \/ CreateSecretVolume \/ SecretUnanswered
  BY <1>3, <1>4 DEF SkipVolume, CreateEmptyDir, CreateSecretVolume, SecretUnanswered, AtVolume,
     history
<1>5. CASE \/ CreatePod \/ CleanupFails \/ InjectSecret \/ InjectFails \/ CreateProjectedVolume
           \/ ProjectionFails \/ VolumesDone \/ BuildContainers \/ Fails
  <2>1. ~MakingVolumes'
    BY <1>5, StepsTaken DEF BuildContainers
  <2>2. UNCHANGED <<offered, unanswered, secrets>>
    BY <1>5 DEF CreatePod, CleanupFails, InjectSecret, InjectFails, CreateProjectedVolume,
       ProjectionFails, VolumesDone, BuildContainers, PodCreate, GrabPullSecrets, StartPull, Pull,
       PullGivesUp, ContainerCreate, NoSuchImage, Created, Fails, history
  <2> QED
    BY <1>3, <2>1, <2>2
<1>6. CASE UNCHANGED vars
  BY <1>3, <1>6 DEF vars, history
<1> QED
  BY <1>1, <1>2, <1>4, <1>5, <1>6 DEF Next, BuildVolumes

\* What a volume serves, it serves with more offers and more gaps.
LEMMA ServedBy ==
  ASSUME NEW v, IsVolume(v), NEW files, Served(v, files, offered, unanswered), NothingForgotten
  PROVE  Served(v, files, offered', unanswered')
<1>1. CASE v.kind = "secret"
  BY <1>1 DEF Served, IsVolume, NothingForgotten
<1>2. CASE v.kind # "secret"
  BY <1>2 DEF Served
<1> QED
  BY <1>1, <1>2

LEMMA StaysServed ==
  ASSUME PodKept, NEW i \in DOMAIN pod.volumes, pod' = pod, IsServed(i),
         volumes'[Volume(pod.volumes[i].name)] = volumes[Volume(pod.volumes[i].name)],
         NothingForgotten
  PROVE  IsServed(i)'
<1>1. IsVolume(pod.volumes[i])
  BY PodLetThrough
<1> QED
  BY <1>1, ServedBy DEF IsServed, Volume

LEMMA StaysFilled ==
  ASSUME PodKept, NEW i \in DOMAIN pod.volumes, pod' = pod, Filled(i),
         Volume(pod.volumes[i].name) \in DOMAIN volumes =>
           /\ Volume(pod.volumes[i].name) \in DOMAIN volumes'
           /\ volumes'[Volume(pod.volumes[i].name)] = volumes[Volume(pod.volumes[i].name)],
         NothingForgotten
  PROVE  Filled(i)'
<1>1. CASE Implemented(i)
  <2>1. Volume(pod.volumes[i].name) \in DOMAIN volumes /\ IsServed(i)
    BY <1>1 DEF Filled
  <2>2. IsServed(i)'
    BY <2>1, StaysServed
  <2>3. Volume(pod.volumes[i].name)' = Volume(pod.volumes[i].name)
    BY DEF Volume
  <2> QED
    BY <2>1, <2>2, <2>3 DEF Filled
<1>2. CASE ~Implemented(i)
  BY <1>2 DEF Filled, Implemented, Reached
<1> QED
  BY <1>1, <1>2

\* A volume the code gets to has its label if it is there at all.
LEMMA LabelsKept ==
  ASSUME BuildInv, [Next]_vars,
         NEW i \in DOMAIN pod'.volumes, Implemented(i)',
         Volume(pod.volumes[i].name)' \in DOMAIN volumes'
  PROVE  volumes'[Volume(pod.volumes[i].name)'].labelled
<1> USE DEF At, Goto, Return
<1> DEFINE name == Volume(pod.volumes[i].name)
<1>0. PodKept /\ NoneLeft /\ VolumesKept /\ FilledSoFar /\ WorkInOrder
  BY DEF BuildInv
<1>1. /\ i \in DOMAIN pod.volumes /\ Implemented(i)
      /\ Volume(pod.volumes[i].name)' = name
      /\ name \in DOMAIN volumes => volumes[name].labelled
  <2>1. pod'.uid = pod.uid /\ pod'.volumes = pod.volumes
    BY <1>0, PodChanges, PodLetThrough, StatusOverwritten
  <2>2. Implemented(i) /\ Volume(pod.volumes[i].name)' = name
    BY <2>1 DEF Implemented, Reached, Volume
  <2> QED
    BY <1>0, <2>1, <2>2 DEF NoneLeft
<1> HIDE DEF name
<1> SUFFICES volumes'[name].labelled
  BY <1>1
<1>2. ASSUME name \in DOMAIN volumes => volumes'[name] = volumes[name],
             DOMAIN volumes' \subseteq DOMAIN volumes
      PROVE  volumes'[name].labelled
  BY <1>1, <1>2
<1>3. CASE CleanupVolumes \/ CleanupFails
  <2>1. PICK vols \in SUBSET DOMAIN volumes : volumes' = Only(vols)
    BY <1>3 DEF CleanupVolumes, CleanupFails
  <2> QED
    BY <1>1, <2>1 DEF Only
<1>4. CASE CreateEmptyDir \/ CreateSecretVolume \/ CreateProjectedVolume \/ ProjectionFails
  <2>1. CASE volumes' = volumes
    BY <1>2, <2>1
  <2>2. CASE \E files : volumes' = Put(volumes, Volume(This.name), [labelled |-> TRUE, files |-> files])
    <3>1. PICK files : volumes' = Put(volumes, Volume(This.name), [labelled |-> TRUE, files |-> files])
      BY <2>2
    <3>2. volumes'[name] = [labelled |-> TRUE, files |-> files] \/ volumes'[name] = volumes[name]
      BY <1>1, <3>1 DEF Put
    <3>3. name \in DOMAIN volumes \/ volumes'[name] = [labelled |-> TRUE, files |-> files]
      BY <1>1, <3>1 DEF Put
    <3>4. [labelled |-> TRUE, files |-> files].labelled
      OBVIOUS
    <3> QED
      BY <1>1, <3>2, <3>3, <3>4
  <2> QED
    BY <1>4, <2>1, <2>2 DEF CreateEmptyDir, CreateSecretVolume, CreateProjectedVolume,
       ProjectionFails, CreateRuntimeVolume
<1>5. CASE InjectSecret \/ SecretUnanswered \/ InjectFails
  <2>1. CASE volumes' = volumes
    BY <1>2, <2>1
  <2>2. ASSUME NEW files, volumes' = [volumes EXCEPT ![Volume(This.name)].files = files]
        PROVE  volumes'[name].labelled
    <3>1. DOMAIN volumes' = DOMAIN volumes /\ DOMAIN volumes[name] = {"labelled", "files"}
      BY <1>0, <1>1, <2>2 DEF VolumesKept
    <3>2. volumes'[name].labelled = volumes[name].labelled
      BY <1>1, <2>2, <3>1
    <3> QED
      BY <1>1, <3>1, <3>2
  <2>3. \/ volumes' = volumes
        \/ \E files : volumes' = [volumes EXCEPT ![Volume(This.name)].files = files]
    BY <1>5 DEF InjectSecret, SecretUnanswered, WithoutSecret, InjectFails
  <2> QED
    BY <2>1, <2>2, <2>3
<1>6. CASE ContainerCreate
  <2>1. CASE volumes' = volumes
    BY <1>2, <2>1
  <2>2. CASE \E names : volumes' = WithMissing(names)
    <3>1. \A v \in DOMAIN volumes : volumes'[v] = volumes[v]
      BY <2>2, MissingMade
    <3>2. name \in DOMAIN volumes
      BY <1>0, <1>1, <1>6 DEF ContainerCreate, AtCon, FilledSoFar, Filled, name
    <3> QED
      BY <1>1, <3>1, <3>2
  <2> QED
    BY <1>6, <2>1, <2>2 DEF ContainerCreate
<1>7. CASE \/ CreatePod \/ SkipVolume \/ VolumesDone \/ PodCreate \/ GrabPullSecrets \/ StartPull
           \/ Pull \/ PullGivesUp \/ NoSuchImage \/ Created \/ Fails \/ SecretChanges
           \/ UNCHANGED vars
  <2>1. volumes' = volumes
    BY <1>7 DEF CreatePod, SkipVolume, VolumesDone, PodCreate, GrabPullSecrets, StartPull, Pull,
       PullGivesUp, NoSuchImage, Created, Fails, SecretChanges, vars, podman
  <2> QED
    BY <1>2, <2>1
<1> QED
  BY <1>3, <1>4, <1>5, <1>6, <1>7 DEF Next, BuildVolumes, BuildContainers

\* The volumes still to be made are not there.
StillToMake ==
  At("volumes") =>
    \A i \in DOMAIN pod.volumes :
      i >= work.next /\ Volume(pod.volumes[i].name) \in DOMAIN volumes =>
        ~volumes[Volume(pod.volumes[i].name)].labelled

\* A call that starts on the volumes finds none of its own.
LEMMA CleanKept ==
  ASSUME BuildInv, [Next]_vars
  PROVE  NoneLeft'
<1> USE DEF At, Goto, Return
<1>0. PodKept /\ StillToMake /\ WorkInOrder /\ Idle.step = "idle"
  BY DEF BuildInv, Idle, NoneLeft, StillToMake
<1>l. StillToMake' => NoneLeft'
  BY LabelsKept DEF NoneLeft, StillToMake
<1> SUFFICES StillToMake'
  BY <1>l
<1>1. CASE CleanupVolumes
  <2>1. CASE work' = Idle
    BY <1>0, <2>1 DEF StillToMake
  <2>2. CASE volumes' = Only(DOMAIN volumes \ Labelled)
    <3>1. \A v \in DOMAIN volumes' : ~volumes'[v].labelled
      BY <2>2 DEF Only, Labelled
    <3> QED
      BY <3>1 DEF StillToMake
  <2> QED
    BY <1>1, <2>1, <2>2 DEF CleanupVolumes
<1>2. CASE SkipVolume
  <2>1. work'.next = work.next + 1 /\ work.step = "volumes" /\ work.next \in Nat
    BY <1>0, <1>2, CallTyped, NextVolume DEF SkipVolume, WorkInOrder
  <2>2. UNCHANGED <<pod, volumes>>
    BY <1>2 DEF SkipVolume, podman
  <2>3. ASSUME NEW i \in DOMAIN pod.volumes, i >= work.next + 1 PROVE i >= work.next
    BY <1>0, <2>1, <2>3, PodLetThrough
  <2> QED
    BY <1>0, <2>1, <2>2, <2>3 DEF StillToMake, Volume
<1>3. CASE CreateEmptyDir
  <2>1. CASE work' = Idle
    BY <1>0, <2>1 DEF StillToMake
  <2>2. CASE work' = [work EXCEPT !.next = @ + 1]
    <3>1. work'.next = work.next + 1 /\ work.step = "volumes" /\ work.next \in Nat
          /\ work.next \in DOMAIN pod.volumes
      BY <1>0, <1>3, <2>2, CallTyped, NextVolume DEF CreateEmptyDir, AtVolume, WorkInOrder
    <3>2. /\ DOMAIN volumes' = DOMAIN volumes \union {Volume(This.name)}
          /\ \A v \in DOMAIN volumes : v # Volume(This.name) => volumes'[v] = volumes[v]
          /\ pod' = pod
      BY <1>0, <1>3, <2>2, <3>1 DEF CreateEmptyDir, CreateRuntimeVolume, Put, Idle
    <3>3. ASSUME NEW i \in DOMAIN pod.volumes, i >= work.next + 1,
                 Volume(pod.volumes[i].name) \in DOMAIN volumes'
          PROVE  ~volumes'[Volume(pod.volumes[i].name)].labelled
      <4>1. i >= work.next /\ i # work.next
        BY <1>0, <3>1, <3>3, PodLetThrough
      <4>2. Volume(pod.volumes[i].name) # Volume(This.name)
        BY <1>0, <3>1, <4>1, VolumesApart DEF This
      <4>3. ~volumes[Volume(pod.volumes[i].name)].labelled
        BY <1>0, <3>1, <3>2, <3>3, <4>1, <4>2 DEF StillToMake
      <4> QED
        BY <3>2, <3>3, <4>2, <4>3
    <3> QED
      BY <3>1, <3>2, <3>3 DEF StillToMake, Volume
  <2> QED
    BY <1>3, <2>1, <2>2 DEF CreateEmptyDir, CreateRuntimeVolume
<1>4. CASE SecretChanges \/ UNCHANGED vars
  BY <1>0, <1>4 DEF StillToMake, SecretChanges, vars, podman, Volume
<1>5. CASE \/ CreatePod \/ CleanupFails \/ CreateSecretVolume \/ InjectSecret
           \/ SecretUnanswered \/ InjectFails
           \/ CreateProjectedVolume \/ ProjectionFails \/ VolumesDone \/ BuildContainers \/ Fails
  <2>1. work'.step # "volumes"
    BY <1>5, StepsTaken DEF BuildContainers
  <2> QED
    BY <2>1 DEF StillToMake
<1> QED
  BY <1>1, <1>2, <1>3, <1>4, <1>5 DEF Next, BuildVolumes

\* A secret or token volume as it is filled serves what was asked for.
LEMMA FilledServes ==
  ASSUME NEW v, IsVolume(v)
  PROVE  /\ v.kind = "secret" =>
              \A data : "..data" \notin DOMAIN data =>
                Holds(v, Extracted("version", SecretItems(v, data), data), data)
         /\ v.kind = "projected" =>
              \A t \in v.tokens :
                Read(Extracted("now", v.tokens, TokensOf(v.tokens)), t.path) = "token"
<1>1. ASSUME v.kind = "secret", NEW data, "..data" \notin DOMAIN data
      PROVE  Holds(v, Extracted("version", SecretItems(v, data), data), data)
  <2>1. AreItems(SecretItems(v, data))
    <3>1. CASE v.items # None
      BY <1>1, <3>1 DEF IsVolume, SecretItems
    <3>2. CASE v.items = None
      <4>1. \A k \in DOMAIN data : IsPath(<<k>>)
        BY <1>1 DEF IsPath, IsList, ToSet
      <4>2. \A k, l : <<k>> = <<l>> => k = l
        OBVIOUS
      <4> QED
        BY <3>2, <4>1, <4>2 DEF SecretItems, AreItems
    <3> QED
      BY <3>1, <3>2
  <2> QED
    BY <2>1, ReadExtracted DEF Holds
<1>2. ASSUME v.kind = "projected", NEW t \in v.tokens
      PROVE  Read(Extracted("now", v.tokens, TokensOf(v.tokens)), t.path) = "token"
  <2>1. AreItems(v.tokens)
    BY <1>2 DEF IsVolume
  <2>2. t.key \in DOMAIN TokensOf(v.tokens) /\ TokensOf(v.tokens)[t.key] = "token"
    BY DEF TokensOf
  <2> QED
    BY <2>1, <2>2, ReadExtracted
<1> QED
  BY <1>1, <1>2

\* The volume made where the call is leaves the ones before it, and is the next of them.
LEMMA OneMoreFilled ==
  ASSUME BuildInv, work.step \in {"volumes", "inject"}, pod' = pod,
         NEW here \in DOMAIN pod.volumes, here = work.next,
         \A v \in DOMAIN volumes : v # Volume(This.name) =>
           v \in DOMAIN volumes' /\ volumes'[v] = volumes[v],
         NothingForgotten,
         Filled(here)'
  PROVE  \A i \in DOMAIN pod.volumes : i < here + 1 => Filled(i)'
<1>1. PodKept
  BY DEF BuildInv
<1>2. \A i \in DOMAIN pod.volumes : i < here => Filled(i)
  BY DEF BuildInv, FilledSoFar
<1> SUFFICES ASSUME NEW i \in DOMAIN pod.volumes, i < here + 1 PROVE Filled(i)'
  OBVIOUS
<1>3. i < here \/ i = here
  BY <1>1, PodLetThrough
<1>4. CASE i < here
  <2>1. i # here
    BY <1>1, <1>4, PodLetThrough
  <2>2. Volume(pod.volumes[i].name) # Volume(This.name)
    BY <1>1, <2>1, VolumesApart DEF This
  <2> QED
    BY <1>1, <1>2, <1>4, <2>2, StaysFilled
<1> QED
  BY <1>3, <1>4

\* Past the first secret or projected volume there is nothing to fill.
LEMMA LastFilled ==
  ASSUME BuildInv, pod' = pod, NEW here \in DOMAIN pod.volumes,
         pod.volumes[here].kind \in {"secret", "projected"},
         \A i \in DOMAIN pod.volumes : i < here + 1 => Filled(i)'
  PROVE  \A i \in DOMAIN pod.volumes : Filled(i)'
<1> SUFFICES ASSUME NEW i \in DOMAIN pod.volumes, ~(i < here + 1) PROVE ~Implemented(i)'
  BY DEF Filled
<1>1. here \in 1..(i - 1)
  BY PodLetThrough DEF BuildInv
<1> QED
  BY <1>1 DEF Implemented, Reached

\* A volume made for This is there, under its label.
LEMMA MadeHere ==
  ASSUME VolumesKept, NEW name, name = Volume(This.name), NEW files, cons' = cons,
         name \notin DOMAIN volumes,
         volumes' = Put(volumes, Volume(This.name), [labelled |-> TRUE, files |-> files])
  PROVE  /\ name \in DOMAIN volumes' /\ volumes'[name].labelled = TRUE
         /\ volumes'[name].files = files
         /\ \A v \in DOMAIN volumes : v \in DOMAIN volumes' /\ volumes'[v] = volumes[v]
<1>1. volumes' = Put(volumes, name, [labelled |-> TRUE, files |-> files])
  OBVIOUS
<1> QED
  BY <1>1, VolumeMade

LEMMA FillingKept ==
  ASSUME BuildInv, [Next]_vars
  PROVE  FilledSoFar'
<1> USE DEF At, Goto, Return
<1> DEFINE later == {"podcreate", "secrets", "containers", "pull"}
<1>0. PodKept /\ FilledSoFar /\ WorkInOrder /\ VolumesKept /\ Idle.step = "idle"
  BY DEF BuildInv, Idle
<1>p. PICK here : here = work.next
  OBVIOUS
<1>a. work.step # "idle" => work \in Calls /\ work.next \in Nat \ {0}
  BY <1>0, CallTyped DEF WorkInOrder
<1>b. ASSUME work'.step \in {"idle", "cleanup"} PROVE FilledSoFar'
  BY <1>b DEF FilledSoFar
<1>h. work.step # "cleanup" \/ work' = work => NothingForgotten
  BY OffersKept, StepsTaken DEF CleanupVolumes
<1>c. ASSUME UNCHANGED <<pod, volumes>>, NothingForgotten,
             NEW i \in DOMAIN pod.volumes, Filled(i)
      PROVE  Filled(i)'
  BY <1>0, <1>c, StaysFilled
<1>1. CASE CleanupVolumes
  <2>1. CASE Goto("volumes")
    <3>1. work'.step = "volumes" /\ work'.next = 1
      BY <1>0, <1>1, <1>a, <2>1, StepChanged DEF CleanupVolumes, WorkInOrder
    <3>2. \A i \in DOMAIN pod'.volumes : ~(i < 1)
      BY <1>0, <1>1, PodLetThrough DEF CleanupVolumes
    <3> QED
      BY <3>1, <3>2 DEF FilledSoFar
  <2> QED
    BY <1>0, <1>1, <1>b, <2>1 DEF CleanupVolumes
<1>2. CASE SkipVolume
  <2>1. /\ work.step = "volumes" /\ work.next \in DOMAIN pod.volumes
        /\ work'.step = "volumes" /\ work'.next = work.next + 1
        /\ UNCHANGED <<pod, volumes>>
    BY <1>2, <1>a, NextVolume DEF SkipVolume, podman
  <2>2. NothingForgotten
    BY <1>h, <2>1
  <2>3. ~Implemented(here)'
    BY <1>2, <1>p, <2>1 DEF SkipVolume, AtVolume, Implemented, Reached
  <2>4. Filled(here)'
    BY <2>3 DEF Filled
  <2>5. \A i \in DOMAIN pod.volumes : i < here + 1 => Filled(i)'
    BY <1>p, <2>1, <2>2, <2>4, OneMoreFilled
  <2> QED
    BY <1>p, <2>1, <2>5 DEF FilledSoFar
<1>3. CASE CreateEmptyDir
  <2>1. CASE work' = Idle
    BY <1>0, <1>b, <2>1
  <2>2. CASE work' = [work EXCEPT !.next = @ + 1]
    <3> DEFINE name == Volume(This.name)
    <3>1. /\ work.step = "volumes" /\ work.next \in DOMAIN pod.volumes
          /\ work'.step = "volumes" /\ work'.next = work.next + 1
          /\ UNCHANGED <<pod, cons>> /\ name \notin DOMAIN volumes
          /\ volumes' = Put(volumes, name, [labelled |-> TRUE, files |-> <<>>])
      BY <1>0, <1>3, <1>a, <2>2, NextVolume DEF CreateEmptyDir, AtVolume, CreateRuntimeVolume
    <3>2. NothingForgotten
      BY <1>h, <3>1
    <3>3. /\ name \in DOMAIN volumes' /\ volumes'[name].labelled = TRUE
          /\ volumes'[name].files = <<>>
          /\ \A v \in DOMAIN volumes : v \in DOMAIN volumes' /\ volumes'[v] = volumes[v]
      BY <1>0, <3>1, MadeHere
    <3>4. Volume(pod.volumes[here].name)' = name
      BY <1>p, <3>1 DEF Volume, This
    <3>5. Filled(here)'
      <4>1. Served(pod.volumes[here], <<>>, offered', unanswered')
        BY <1>3, <1>p DEF Served, CreateEmptyDir, AtVolume
      <4>2. IsServed(here)'
        BY <3>1, <3>3, <3>4, <4>1 DEF IsServed
      <4> QED
        BY <3>3, <3>4, <4>2 DEF Filled
    <3>6. \A i \in DOMAIN pod.volumes : i < here + 1 => Filled(i)'
      BY <1>p, <3>1, <3>2, <3>3, <3>5, OneMoreFilled
    <3> QED
      BY <1>p, <3>1, <3>6 DEF FilledSoFar
  <2> QED
    BY <1>3, <2>1, <2>2 DEF CreateEmptyDir, CreateRuntimeVolume
<1>4. CASE CreateSecretVolume
  <2>1. CASE work' = Idle
    BY <1>0, <1>b, <2>1
  <2>2. CASE Goto("inject")
    <3> DEFINE name == Volume(This.name)
    <3>1. /\ work.step = "volumes" /\ work.next \in DOMAIN pod.volumes /\ This.kind = "secret"
          /\ work'.step = "inject" /\ work'.next = work.next
          /\ UNCHANGED <<pod, cons>> /\ name \notin DOMAIN volumes
          /\ volumes' = Put(volumes, name, [labelled |-> TRUE, files |-> <<>>])
      BY <1>0, <1>4, <1>a, <2>2, StepChanged DEF CreateSecretVolume, AtVolume, CreateRuntimeVolume, This
    <3>2. /\ name \in DOMAIN volumes' /\ volumes'[name].labelled = TRUE
          /\ volumes'[name].files = <<>>
          /\ \A v \in DOMAIN volumes : v \in DOMAIN volumes' /\ volumes'[v] = volumes[v]
      BY <1>0, <3>1, MadeHere
    <3>3. Volume(This.name)' = name
      BY <3>1 DEF Volume, This
    <3>4. \A i \in DOMAIN pod.volumes : i < here => Filled(i)'
      <4>1. \A i \in DOMAIN pod.volumes : i < here => Filled(i)
        BY <1>0, <1>p, <3>1 DEF FilledSoFar
      <4> QED
        BY <1>0, <1>h, <3>1, <3>2, <4>1, StaysFilled
    <3> QED
      BY <1>p, <3>1, <3>2, <3>3, <3>4 DEF FilledSoFar
  <2> QED
    BY <1>4, <2>1, <2>2 DEF CreateSecretVolume, CreateRuntimeVolume
<1>5. CASE CreateProjectedVolume
  <2>1. CASE work' = Idle
    BY <1>0, <1>b, <2>1
  <2>2. CASE work' # Idle
    <3> DEFINE name == Volume(This.name)
               files == Extracted("now", This.tokens, TokensOf(This.tokens))
    <3>1. /\ work.step = "volumes" /\ work.next \in DOMAIN pod.volumes /\ This.kind = "projected"
          /\ work'.step = "podcreate"
          /\ UNCHANGED <<pod, cons>> /\ name \notin DOMAIN volumes
          /\ volumes' = Put(volumes, name, [labelled |-> TRUE, files |-> files])
      <4>1. /\ work.step = "volumes" /\ work.next \in DOMAIN pod.volumes /\ This.kind = "projected"
            /\ UNCHANGED <<pod, cons>>
        BY <1>5 DEF CreateProjectedVolume, AtVolume, This
      <4>2. CreateRuntimeVolume(files, Goto("podcreate"))
        BY <1>5 DEF CreateProjectedVolume
      <4> HIDE DEF files
      <4>3. /\ name \notin DOMAIN volumes
            /\ volumes' = Put(volumes, name, [labelled |-> TRUE, files |-> files])
            /\ work' = [work EXCEPT !.step = "podcreate"]
        BY <2>2, <4>2 DEF CreateRuntimeVolume
      <4>4. work'.step = "podcreate"
        BY <1>a, <4>1, <4>3, StepChanged
      <4> QED
        BY <4>1, <4>3, <4>4
    <3>2. NothingForgotten
      BY <1>h, <3>1
    <3>3. Served(This, files, offered', unanswered')
      <4>1. IsVolume(This)
        BY <1>0, <3>1, PodLetThrough DEF This
      <4>2. \A t \in This.tokens : Read(files, t.path) = "token"
        BY <3>1, <4>1, FilledServes
      <4> HIDE DEF files
      <4> QED
        BY <3>1, <4>2 DEF Served
    <3> HIDE DEF files
    <3>5. /\ name \in DOMAIN volumes' /\ volumes'[name].labelled = TRUE
          /\ volumes'[name].files = files
          /\ \A v \in DOMAIN volumes : v \in DOMAIN volumes' /\ volumes'[v] = volumes[v]
      BY <1>0, <3>1, MadeHere
    <3>6. Filled(here)'
      <4>1. Volume(pod.volumes[here].name)' = name /\ pod'.volumes[here] = This
        BY <1>p, <3>1 DEF Volume, This
      <4> HIDE DEF name
      <4> QED
        BY <3>3, <3>5, <4>1 DEF Filled, IsServed
    <3>7. \A i \in DOMAIN pod.volumes : i < here + 1 => Filled(i)'
      BY <1>p, <3>1, <3>2, <3>5, <3>6, OneMoreFilled
    <3>8. \A i \in DOMAIN pod.volumes : Filled(i)'
      BY <1>p, <3>1, <3>7, LastFilled DEF This
    <3> QED
      BY <3>1, <3>8 DEF FilledSoFar
  <2> QED
    BY <2>1, <2>2
<1>6. CASE InjectSecret \/ SecretUnanswered
  <2> DEFINE name == Volume(This.name)
             secret == secrets[This.secretName]
             files == Extracted("version", SecretItems(This, secret.data), secret.data)
  <2>1. CASE work' = Idle
    BY <1>0, <1>b, <2>1
  <2>2. CASE work' # Idle
    <3>1. /\ work.step = "inject" /\ work.next \in DOMAIN pod.volumes /\ This.kind = "secret"
          /\ work'.step = "podcreate" /\ UNCHANGED <<pod, cons>>
          /\ name \in DOMAIN volumes /\ volumes[name].labelled /\ volumes[name].files = <<>>
          /\ NothingForgotten /\ \A x \in Secrets : secrets[x] \in offered'[x]
      <4>1. work.step = "inject" /\ UNCHANGED <<pod, cons>>
        BY <1>6 DEF InjectSecret, SecretUnanswered
      <4>2. work'.step = "podcreate"
        <5>1. work' = [work EXCEPT !.step = "podcreate"]
          BY <1>6, <2>2 DEF InjectSecret, SecretUnanswered, WithoutSecret
        <5> QED
          BY <1>a, <4>1, <5>1, StepChanged
      <4>3. work.next \in DOMAIN pod.volumes /\ This.kind = "secret"
        BY <1>0, <4>1 DEF WorkInOrder
      <4>4. name \in DOMAIN volumes /\ volumes[name].labelled /\ volumes[name].files = <<>>
        BY <1>0, <4>1 DEF FilledSoFar
      <4>5. NothingForgotten /\ \A x \in Secrets : secrets[x] \in offered'[x]
        BY <1>h, <4>1 DEF BuildInv, OffersNoted, MakingVolumes, NothingForgotten
      <4> QED
        BY <4>1, <4>2, <4>3, <4>4, <4>5
    <3>2. /\ Volume(pod.volumes[here].name)' = name /\ pod'.volumes[here] = This
          /\ here \in DOMAIN pod.volumes
      BY <1>p, <3>1 DEF Volume, This
    <3>3. IsVolume(This)
      BY <1>0, <3>1, PodLetThrough DEF This
    <3>4. ASSUME UNCHANGED volumes
          PROVE  \A i \in DOMAIN pod.volumes : i < here + 1 => Filled(i)'
      <4>1. Served(This, <<>>, offered', unanswered')
        <5>1. CASE InjectSecret /\ secret = None
          <6>1. None \in offered'[This.secretName]
            BY <3>1, <3>3, <5>1 DEF IsVolume
          <6>2. This.optional
            BY <2>2, <5>1 DEF InjectSecret, WithoutSecret
          <6> QED
            BY <3>1, <6>1, <6>2 DEF Served
        <5>2. CASE SecretUnanswered
          <6>1. This.name \in unanswered' /\ This.optional
            BY <2>2, <5>2 DEF SecretUnanswered, WithoutSecret
          <6> QED
            BY <3>1, <6>1 DEF Served
        <5>3. CASE InjectSecret /\ secret # None
          <6>1. volumes' = [volumes EXCEPT ![name].files = files]
            BY <5>3 DEF InjectSecret
          <6>2. Holds(This, files, secret.data)
            BY <3>1, <3>3, <5>3, FilledServes, SecretsAssumption DEF IsVolume, BuildInv
          <6> HIDE DEF name, files
          <6>3. files = <<>>
            BY <1>0, <3>1, <3>4, <6>1 DEF VolumesKept
          <6>4. secret \in offered'[This.secretName]
            BY <3>1, <3>3 DEF IsVolume
          <6> QED
            BY <3>1, <5>3, <6>2, <6>3, <6>4 DEF Served
        <5> QED
          BY <1>6, <5>1, <5>2, <5>3
      <4> HIDE DEF name
      <4>2. Filled(here)'
        BY <3>1, <3>2, <3>4, <4>1 DEF Filled, IsServed
      <4> QED
        BY <1>p, <3>1, <3>2, <3>4, <4>2, OneMoreFilled DEF name
    <3>5. ASSUME volumes' # volumes
          PROVE  \A i \in DOMAIN pod.volumes : i < here + 1 => Filled(i)'
      <4>1. volumes' = [volumes EXCEPT ![name].files = files] /\ secret # None
        BY <1>6, <3>5 DEF InjectSecret, SecretUnanswered, WithoutSecret
      <4>2. Served(This, files, offered', unanswered')
        <5>1. secret \in offered'[This.secretName] /\ secret \in SecretStates
          BY <3>1, <3>3, <4>1 DEF IsVolume, BuildInv
        <5>2. Holds(This, files, secret.data)
          BY <3>1, <3>3, <5>1, FilledServes, SecretsAssumption
        <5> HIDE DEF files
        <5> QED
          BY <3>1, <4>1, <5>1, <5>2 DEF Served
      <4> HIDE DEF name, files
      <4>3. /\ DOMAIN volumes' = DOMAIN volumes
            /\ volumes'[name].labelled = volumes[name].labelled
            /\ volumes'[name].files = files
            /\ \A v \in DOMAIN volumes \ {name} : volumes'[v] = volumes[v]
        <5>1. volumes' = [volumes EXCEPT ![name].files = files] /\ cons' = cons /\ name \in DOMAIN volumes
          BY <3>1, <4>1
        <5> QED
          BY <1>0, <5>1, VolumeFilled
      <4>4. Filled(here)'
        BY <3>1, <3>2, <4>2, <4>3 DEF Filled, IsServed
      <4> QED
        BY <1>p, <3>1, <3>2, <4>3, <4>4, OneMoreFilled DEF name
    <3>6. \A i \in DOMAIN pod.volumes : i < here + 1 => Filled(i)'
      BY <3>4, <3>5
    <3>7. \A i \in DOMAIN pod.volumes : Filled(i)'
      BY <1>p, <3>1, <3>2, <3>6, LastFilled
    <3> QED
      BY <3>1, <3>7 DEF FilledSoFar
  <2> QED
    BY <2>1, <2>2
<1>7. CASE CreatePod \/ CleanupFails \/ InjectFails \/ ProjectionFails \/ Fails \/ NoSuchImage \/ Created
  BY <1>b, <1>7, StepsTaken
<1>8. CASE PodCreate \/ GrabPullSecrets \/ StartPull \/ Pull \/ PullGivesUp \/ ContainerCreate
  <2>1. /\ work.step \in later /\ work'.step \in later \union {"idle"} /\ pod' = pod
        /\ NothingForgotten
    BY <1>8, <1>h, StepsTaken DEF PodCreate, GrabPullSecrets, StartPull, Pull, PullGivesUp, ContainerCreate, AtCon
  <2>2. \A v \in DOMAIN volumes : v \in DOMAIN volumes' /\ volumes'[v] = volumes[v]
    <3>1. CASE ContainerCreate
      <4>1. \/ volumes' = volumes
            \/ \E names : volumes' = WithMissing(names)
        BY <3>1 DEF ContainerCreate
      <4> QED
        BY <4>1, MissingMade
    <3>2. CASE ~ContainerCreate
      BY <1>8, <3>2 DEF PodCreate, GrabPullSecrets, StartPull, Pull, PullGivesUp, podman
    <3> QED
      BY <3>1, <3>2
  <2>3. \A i \in DOMAIN pod.volumes : Filled(i)
    BY <1>0, <2>1 DEF FilledSoFar
  <2>4. \A i \in DOMAIN pod.volumes : Filled(i)'
    BY <1>0, <2>1, <2>2, <2>3, StaysFilled
  <2> QED
    BY <2>1, <2>4 DEF FilledSoFar
<1>9. CASE VolumesDone
  <2>1. /\ work.step = "volumes" /\ work.next \notin DOMAIN pod.volumes
        /\ work'.step = "podcreate" /\ UNCHANGED <<pod, volumes>> /\ NothingForgotten
    BY <1>9, <1>a, <1>h, StepChanged DEF VolumesDone, podman
  <2>2. \A i \in DOMAIN pod.volumes : i < work.next
    BY <1>0, <1>a, <2>1, PodLetThrough DEF WorkInOrder
  <2>3. \A i \in DOMAIN pod.volumes : Filled(i)'
    BY <1>0, <1>c, <2>1, <2>2 DEF FilledSoFar
  <2> QED
    BY <2>1, <2>3 DEF FilledSoFar
<1>10. CASE SecretChanges \/ UNCHANGED vars
  <2>1. UNCHANGED <<pod, volumes, work>> /\ NothingForgotten
    BY <1>10, <1>h DEF SecretChanges, vars, podman
  <2>2. Volume(This.name)' = Volume(This.name)
    BY <2>1 DEF Volume, This
  <2>3. \A i \in DOMAIN pod.volumes : Filled(i) => Filled(i)'
    BY <1>c, <2>1
  <2> QED
    BY <1>0, <2>1, <2>2, <2>3 DEF FilledSoFar
<1> QED
  BY <1>1, <1>2, <1>3, <1>4, <1>5, <1>6, <1>7, <1>8, <1>9, <1>10 DEF Next, BuildVolumes, BuildContainers

\* What containers have mounted stays as they found it.
LEMMA MountedKept ==
  ASSUME BuildInv, [Next]_vars
  PROVE  MountedServed'
<1> USE DEF At, Goto, Return
<1>0. MountedServed /\ VolumesKept /\ FilledSoFar /\ PodKept
  BY DEF BuildInv
<1>1. CASE cons = {} /\ cons' = cons
  BY <1>1 DEF MountedServed
<1>2. CASE pod' = pod /\ cons' = cons /\ Labelled \intersect Used = {}
  BY <1>2, NothingMounted DEF MountedServed, Implemented, Reached, Volume
<1>h. NothingForgotten \/ (CleanupVolumes /\ Labelled \intersect Used = {})
  BY OffersKept
<1>3. ASSUME pod' = pod, cons' = cons, NothingForgotten, \A v \in Used : volumes'[v] = volumes[v]
      PROVE  MountedServed'
  <2> SUFFICES ASSUME NEW c \in cons, NEW i \in DOMAIN pod.volumes,
                      Implemented(i), Volume(pod.volumes[i].name) \in NamesOf(c)
               PROVE  IsServed(i)'
    BY <1>3 DEF MountedServed, Implemented, Reached, Volume
  <2>1. Volume(pod.volumes[i].name) \in Used
    BY DEF Used
  <2> QED
    BY <1>0, <1>3, <2>1, StaysServed DEF MountedServed
<1>4. CASE CreatePod
  <2>1. UNCHANGED <<volumes, cons>> /\ (pod' = pod \/ cons = {}) /\ NothingForgotten
    BY <1>4, <1>h, PodChanges DEF CreatePod, CleanupVolumes, podman
  <2> QED
    BY <1>1, <1>3, <2>1
<1>5. CASE CleanupVolumes \/ CleanupFails
  <2>1. CASE Labelled \intersect Used = {}
    BY <1>2, <1>5, <2>1 DEF CleanupVolumes, CleanupFails
  <2>2. CASE Labelled \intersect Used # {}
    <3>1. PICK gone \in SUBSET (Labelled \ Used) : volumes' = Only(DOMAIN volumes \ gone)
      BY <1>5, <2>2 DEF CleanupVolumes, CleanupFails
    <3>2. \A v \in Used : volumes'[v] = volumes[v]
      BY <1>0, <3>1 DEF Only, VolumesKept
    <3> QED
      BY <1>3, <1>5, <1>h, <2>2, <3>2 DEF CleanupVolumes, CleanupFails
  <2> QED
    BY <2>1, <2>2
<1>6. CASE \/ SkipVolume \/ CreateEmptyDir \/ CreateSecretVolume \/ InjectSecret
           \/ SecretUnanswered \/ InjectFails \/ CreateProjectedVolume \/ ProjectionFails \/ VolumesDone
  <2>1. pod' = pod /\ cons' = cons /\ work.step \in {"volumes", "inject"}
    BY <1>6 DEF SkipVolume, CreateEmptyDir, CreateSecretVolume, InjectSecret,
       SecretUnanswered, InjectFails, CreateProjectedVolume, ProjectionFails, VolumesDone, AtVolume,
       podman
  <2> QED
    BY <1>0, <1>2, <2>1 DEF VolumesKept
<1>7. CASE ContainerCreate
  <2>1. CASE UNCHANGED <<volumes, cons>>
    BY <1>3, <1>7, <1>h, <2>1 DEF ContainerCreate, AtCon, CleanupVolumes
  <2>2. CASE \E names : volumes' = WithMissing(names)
    <3>1. \A v \in DOMAIN volumes : volumes'[v] = volumes[v]
      BY <2>2, MissingMade
    <3>2. /\ pod' = pod /\ NothingForgotten
          /\ \A i \in DOMAIN pod.volumes : Filled(i)
      BY <1>0, <1>7, <1>h DEF ContainerCreate, AtCon, FilledSoFar, CleanupVolumes
    <3>3. \A i \in DOMAIN pod.volumes : Implemented(i) => IsServed(i)'
      BY <1>0, <3>1, <3>2, StaysServed DEF Filled
    <3> QED
      BY <3>2, <3>3 DEF MountedServed, Implemented, Reached
  <2> QED
    BY <1>7, <2>1, <2>2 DEF ContainerCreate
<1>8. CASE \/ PodCreate \/ GrabPullSecrets \/ StartPull \/ Pull \/ PullGivesUp \/ NoSuchImage
           \/ Created \/ Fails \/ SecretChanges \/ UNCHANGED vars
  <2>1. UNCHANGED <<pod, volumes, cons>>
    BY <1>8 DEF PodCreate, GrabPullSecrets, StartPull, Pull, PullGivesUp, NoSuchImage, Created,
       Fails, SecretChanges, vars, podman
  <2>2. CASE Labelled \intersect Used = {}
    BY <1>2, <2>1, <2>2
  <2> QED
    BY <1>3, <1>h, <2>1, <2>2
<1> QED
  BY <1>4, <1>5, <1>6, <1>7, <1>8 DEF Next, BuildVolumes, BuildContainers

-----------------------------------------------------------------------------
(* Pulls *)

\* What the stream of a pull comes to.
LEMMA StreamsTold ==
  ASSUME NEW image, NEW given \in BOOLEAN, NEW events \in Answers(image, given) \union BrokenAnswers
  PROVE  /\ events \in Answers(image, given) /\ given =>
              processPullStream(events) = None /\ Images(image) \in ToSet(events)
         /\ events \in Answers(image, given) /\ ~given =>
              processPullStream(events) = "unauthorized"
         /\ events \in BrokenAnswers => processPullStream(events) # "unauthorized"
         /\ None # "unauthorized"
<1>0. None \notin {"copying", "trying", "unauthorized", "broken"}
  BY SecretsAssumption
<1> USE DEF Stream, Error, Images
<1>1. Max({1}) = 1 /\ Max({2}) = 2
  <2>1. \A n \in Int : Max({n, n}) = n
    BY MaxOfTwo
  <2>2. {1, 1} = {1} /\ {2, 2} = {2}
    OBVIOUS
  <2> QED
    BY <2>1, <2>2
<1>2. /\ processPullStream(<<Stream("copying"), Images(image)>>) = None
      /\ Images(image) \in ToSet(<<Stream("copying"), Images(image)>>)
  <2> DEFINE e == <<Stream("copying"), Images(image)>>
  <2>1. Reports(e, "error") = {} /\ Reports(e, "images") = {2}
    BY DEF Reports
  <2>2. e[2] = Images(image) /\ 2 \in DOMAIN e
    OBVIOUS
  <2> HIDE DEF e
  <2> QED
    BY <2>1, <2>2 DEF processPullStream, ToSet, e
<1>3. processPullStream(<<Error("unauthorized")>>) = "unauthorized"
  <2> DEFINE e == <<Error("unauthorized")>>
  <2>1. Reports(e, "error") = {1} /\ e[1].text = "unauthorized"
    BY DEF Reports
  <2> HIDE DEF e
  <2>2. LastText(e, "error") = "unauthorized"
    BY <1>1, <2>1 DEF LastText
  <2>3. processPullStream(e) = "unauthorized"
    BY <2>1, <2>2 DEF processPullStream
  <2> QED
    BY <2>3 DEF e
<1>4. ASSUME NEW line, NEW text PROVE processPullStream(<<Stream(line), Error(text)>>) = text
  <2> DEFINE e == <<Stream(line), Error(text)>>
  <2>1. Reports(e, "error") = {2} /\ e[2].text = text
    BY DEF Reports
  <2> HIDE DEF e
  <2>2. LastText(e, "error") = text
    BY <1>1, <2>1 DEF LastText
  <2>3. processPullStream(e) = text
    BY <2>1, <2>2 DEF processPullStream
  <2> QED
    BY <2>3 DEF e
<1>5. processPullStream(<<>>) = None
  BY DEF processPullStream, Reports
<1>6. processPullStream(<<Stream("copying")>>) = "copying"
  <2> DEFINE e == <<Stream("copying")>>
  <2>1. /\ Reports(e, "error") = {} /\ Reports(e, "images") = {} /\ Reports(e, "stream") = {1}
        /\ e[1].text = "copying"
    BY DEF Reports
  <2> HIDE DEF e
  <2>2. LastText(e, "stream") = "copying"
    BY <1>1, <2>1 DEF LastText
  <2>3. processPullStream(e) = "copying"
    BY <2>1, <2>2 DEF processPullStream
  <2> QED
    BY <2>3 DEF e
<1>7. events \in Answers(image, given) /\ given =>
        processPullStream(events) = None /\ Images(image) \in ToSet(events)
  BY <1>2 DEF Answers
<1>8. events \in Answers(image, given) /\ ~given => processPullStream(events) = "unauthorized"
  BY <1>3, <1>4 DEF Answers
<1>9. events \in BrokenAnswers => processPullStream(events) # "unauthorized"
  BY <1>0, <1>4, <1>5, <1>6 DEF BrokenAnswers
<1> QED
  BY <1>0, <1>7, <1>8, <1>9

LEMMA TriedKept ==
  ASSUME BuildInv, [Next]_vars
  PROVE  PullTried'
<1> USE DEF At, Goto, Return
<1>0. PullTried /\ WorkInOrder /\ (work.step # "idle" => work \in Calls)
  BY CallTyped DEF BuildInv, WorkInOrder
<1>1. CASE work'.step # "pull"
  BY <1>1 DEF PullTried
<1>2. CASE StartPull
  <2>1. work'.tries = 0 /\ work'.pull = work.pull /\ work.pull \in Seq(SecretStates)
    BY <1>0, <1>2, PullGoesOn DEF StartPull, AtCon, Calls
  <2>2. \A k \in {0} \union DOMAIN work.pull : ~(k < 0)
    BY <2>1, LenProperties
  <2> QED
    BY <2>1, <2>2 DEF PullTried
<1>3. CASE Pull /\ work'.step = "pull"
  <2>1. work.step = "pull" /\ work \in Calls /\ pod' = pod
    BY <1>0, <1>3 DEF Pull
  <2>2. CASE ~HasCredentials(work.tries)
    BY <1>3, <2>2 DEF Pull, Idle
  <2>3. CASE HasCredentials(work.tries)
    <3> DEFINE given == Con.image \in Opened(work.tries)
    <3>1. PICK events \in Answers(Con.image, given) \union BrokenAnswers :
            CASE processPullStream(events) = None -> PullDone
              [] processPullStream(events) = "unauthorized" -> NextPull
              [] OTHER -> Return
      BY <1>3, <2>3 DEF Pull
    <3>2. processPullStream(events) = "unauthorized" /\ NextPull
      <4>1. ~PullDone /\ ~Return
        <5>1. ASSUME PullDone PROVE FALSE
          <6>1. work' = [work EXCEPT !.step = "containers", !.pulled = TRUE]
            BY <5>1 DEF PullDone
          <6>2. work'.step = "containers"
            BY <2>1, <6>1, ContainerDone
          <6> QED
            BY <1>3, <6>2
        <5>2. ASSUME Return PROVE FALSE
          BY <1>3, <5>2 DEF Idle
        <5> QED
          BY <5>1, <5>2
      <4> QED
        BY <3>1, <4>1
    <3>3. ~given
      BY <3>1, <3>2, StreamsTold
    <3>4. /\ work'.tries = work.tries + 1 /\ work'.next = work.next /\ work'.pull = work.pull
          /\ work.tries \in Nat /\ work.pull \in Seq(SecretStates)
      BY <2>1, <3>2, PullGoesOn DEF NextPull, Calls
    <3>5. ASSUME NEW k \in {0} \union DOMAIN work.pull, k < work.tries + 1
          PROVE  Con.image \notin Opened(k)
      <4>1. k < work.tries \/ k = work.tries
        BY <3>4, <3>5, LenProperties
      <4> QED
        BY <1>0, <2>1, <3>3, <4>1 DEF PullTried
    <3> QED
      BY <2>1, <3>4, <3>5 DEF PullTried, Con, Opened
  <2> QED
    BY <2>2, <2>3
<1>4. CASE SecretChanges \/ UNCHANGED vars
  BY <1>0, <1>4 DEF PullTried, Con, Opened, SecretChanges, vars
<1>5. CASE ~StartPull /\ ~Pull /\ Next /\ ~SecretChanges
  <2>1. work'.step # "pull"
    BY <1>5, StepsTaken DEF Next, BuildVolumes, BuildContainers
  <2> QED
    BY <1>1, <2>1
<1> QED
  BY <1>1, <1>2, <1>3, <1>4, <1>5

-----------------------------------------------------------------------------
(* The invariant *)

LEMMA BuildInit ==
  ASSUME Init
  PROVE  BuildInv
<1> USE DEF Init, At, Idle
<1>1. WorkInOrder
  BY DEF WorkInOrder
<1>2. BudgetOK
  BY BoundsAssumption DEF BudgetOK
<1>3. PodKept
  BY DEF PodKept
<1>4. ConsConverted /\ NoneLeft /\ PullTried /\ MountedServed /\ FilledSoFar /\ OffersNoted
  BY DEF ConsConverted, NoneLeft, PullTried, MountedServed, FilledSoFar, OffersNoted, MakingVolumes
<1>5. VolumesKept
  <2>1. DOMAIN volumes = {}
    OBVIOUS
  <2>2. Used = {}
    BY DEF Used
  <2> QED
    BY <2>1, <2>2 DEF VolumesKept
<1> QED
  BY <1>1, <1>2, <1>3, <1>4, <1>5 DEF BuildInv

LEMMA BuildStep ==
  ASSUME BuildInv, [Next]_vars
  PROVE  BuildInv'
<1>1. PodKept' /\ WorkInOrder' /\ BudgetOK'
  BY PodStays, OrderKept, BudgetKept DEF BuildInv
<1>2. /\ secrets' \in [Secrets -> SecretStates \union {None}]
      /\ images' \subseteq {con.image : con \in ToSet(pod'.containers)}
      /\ made' \in BOOLEAN /\ ConsConverted'
  BY SecretsKept, ImagesKept, ConsKept
<1>3. VolumesKept' /\ OffersNoted' /\ NoneLeft' /\ FilledSoFar' /\ MountedServed'
  BY VolumesStay, OffersKept, CleanKept, FillingKept, MountedKept
<1>4. PullTried'
  BY TriedKept
<1> QED
  BY <1>1, <1>2, <1>3, <1>4 DEF BuildInv

\* BuildInv holds throughout: work in order, converted containers, volumes filled
\* and mounted as the API's objects say, credentials tried in turn.
THEOREM Built == Spec => []BuildInv
<1>1. Init => BuildInv
  BY BuildInit
<1>2. BuildInv /\ [Next]_vars => BuildInv'
  BY BuildStep
<1> QED
  BY <1>1, <1>2, PTL DEF Spec

-----------------------------------------------------------------------------
(* The properties *)

\* A container's Pod is known by the container's name.
LEMMA MadeOf ==
  ASSUME BuildInv, NEW c \in cons, NEW k \in ToSet(pod.containers), c.Name[3] = k.name
  PROVE  /\ pod.qosClass = NoQOSClass
         /\ \E id \in {pod.uid, None} : c = ConvertContainerConfig(pod, k, id)
<1>1. PICK l \in ToSet(pod.containers), id \in {pod.uid, None} : c = ConvertContainerConfig(pod, l, id)
  BY DEF BuildInv, ConsConverted
<1>2. c.Name[3] = l.name
  BY <1>1 DEF ConvertContainerConfig
<1>3. l = k
  BY <1>2, PodLetThrough DEF BuildInv, IsPodSpec, UniqueNames, ToSet
<1>4. pod.qosClass = NoQOSClass
  <2>1. PICK p \in Pods : pod = Overwritten(p)
    BY DEF BuildInv, PodKept
  <2> QED
    BY <2>1, PodsAssumption, StatusOverwritten
<1> QED
  BY <1>1, <1>3, <1>4

\* What podman was asked to make is of the types of its API (TypeOK).
THEOREM BuildTypes == Spec => []TypeOK
<1>1. BuildInv => TypeOK
  <2> SUFFICES ASSUME BuildInv PROVE TypeOK
    OBVIOUS
  <2>1. \E p \in Pods : pod \in {p, [p EXCEPT !.qosClass = NoQOSClass]}
    BY DEF BuildInv, PodKept, Overwritten
  <2>2. \A v \in DOMAIN volumes : volumes[v].labelled \in BOOLEAN
    BY DEF BuildInv, VolumesKept
  <2>3. \A c \in cons : IsSpecGenerator(c)
    BY PodLetThrough, SpecGenerated DEF BuildInv, ConsConverted
  <2>4. work.step \in {"idle", "cleanup", "volumes", "inject", "podcreate", "secrets",
                       "containers", "pull"}
    BY DEF BuildInv, WorkInOrder, Calls, Idle
  <2> QED
    BY <2>1, <2>2, <2>3, <2>4 DEF TypeOK, BuildInv
<1> QED
  BY <1>1, Built, PTL

\* A container finds in its volumes what the API held while the call that made it
\* made them, whatever failed in earlier calls (VolumesServed).
THEOREM MountsServe == Spec => []VolumesServed
<1>1. BuildInv => VolumesServed
  <2> SUFFICES ASSUME BuildInv,
                      NEW c \in cons, NEW k \in ToSet(pod.containers), c.Name[3] = k.name,
                      NEW m \in ToSet(k.volumeMounts), NEW i \in DOMAIN pod.volumes,
                      m.name = pod.volumes[i].name,
                      pod.volumes[i].kind \in {"emptyDir", "secret", "projected"}, Reached(i)
               PROVE  \E v \in c.Volumes :
                        /\ v.Dest = m.mountPath
                        /\ volumes[v.Name].labelled
                        /\ Served(pod.volumes[i], volumes[v.Name].files, offered, unanswered)
    BY DEF VolumesServed
  <2> DEFINE v == [Name |-> <<pod.uid, m.name>>, Dest |-> m.mountPath]
  <2>1. IsPodSpec(pod)
    BY PodLetThrough DEF BuildInv
  <2>2. v \in NamedVolumes(pod, k)
    BY <2>1, MountedByName
  <2>3. c.Volumes = NamedVolumes(pod, k)
    BY MadeOf DEF ConvertContainerConfig
  <2>4. v.Name = Volume(pod.volumes[i].name) /\ v.Dest = m.mountPath
    BY DEF Volume
  <2> HIDE DEF v
  <2>5. Volume(pod.volumes[i].name) \in NamesOf(c)
    BY <2>2, <2>3, <2>4 DEF NamesOf
  <2>6. IsServed(i)
    BY <2>5 DEF BuildInv, MountedServed, Implemented
  <2> QED
    BY <2>2, <2>3, <2>4, <2>6 DEF IsServed
<1> QED
  BY <1>1, Built, PTL

\* Past the clean-up a volume is only not made because a call fails (NoVolumeRefused).
THEOREM NothingInTheWay == Spec => NoVolumeRefused
<1> DEFINE Made == At("volumes") /\ work' = Idle => budget' # budget
<1>1. BuildInv /\ [Next]_vars => [Made]_vars
  <2> SUFFICES ASSUME BuildInv, Next, work.step = "volumes", work' = Idle
               PROVE  budget' # budget
    BY DEF At
  <2>0. /\ BudgetOK /\ PodKept /\ NoneLeft /\ WorkInOrder
        /\ work \in Calls /\ work.next \in Nat
        /\ Idle.step = "idle" /\ work'.step = "idle"
    BY CallTyped DEF BuildInv, WorkInOrder, Idle
  <2>1. ASSUME work.next \in DOMAIN pod.volumes,
               This.kind \in {"emptyDir", "secret", "projected"}
        PROVE  Volume(This.name) \notin DOMAIN volumes
    <3>1. PICK i \in DOMAIN pod.volumes : i = work.next
      BY <2>1
    <3>2. Implemented(i) /\ Volume(This.name) = Volume(pod.volumes[i].name) /\ i >= work.next
      BY <2>0, <2>1, <3>1 DEF Implemented, WorkInOrder, At, This
    <3> QED
      BY <2>0, <3>1, <3>2 DEF NoneLeft, At
  <2>2. CASE CreateEmptyDir
    <3>1. work' = [work EXCEPT !.next = @ + 1]
      BY <2>1, <2>2 DEF CreateEmptyDir, CreateRuntimeVolume, AtVolume, This
    <3>2. work'.step = "volumes"
      BY <2>0, <3>1, NextVolume
    <3> QED
      BY <2>0, <3>2
  <2>3. CASE CreateSecretVolume
    <3>1. work' = [work EXCEPT !.step = "inject"]
      BY <2>1, <2>3 DEF CreateSecretVolume, CreateRuntimeVolume, AtVolume, This, Goto
    <3>2. work'.step = "inject"
      BY <2>0, <3>1, StepChanged
    <3> QED
      BY <2>0, <3>2
  <2>4. CASE CreateProjectedVolume
    <3>1. work' = [work EXCEPT !.step = "podcreate"]
      BY <2>1, <2>4 DEF CreateProjectedVolume, CreateRuntimeVolume, AtVolume, This, Goto
    <3>2. work'.step = "podcreate"
      BY <2>0, <3>1, StepChanged
    <3> QED
      BY <2>0, <3>2
  <2>5. CASE SkipVolume
    <3>1. work'.step = "volumes"
      BY <2>0, <2>5, NextVolume DEF SkipVolume
    <3> QED
      BY <2>0, <3>1
  <2>6. CASE VolumesDone
    <3>1. work'.step = "podcreate"
      BY <2>0, <2>6, StepChanged DEF VolumesDone, Goto
    <3> QED
      BY <2>0, <3>1
  <2>7. CASE ProjectionFails \/ Fails \/ SecretChanges
    BY <2>0, <2>7, SpendKeeps DEF ProjectionFails, Fails, SecretChanges
  <2>8. ~(\/ CreatePod \/ CleanupVolumes \/ CleanupFails \/ InjectSecret \/ SecretUnanswered
          \/ InjectFails \/ BuildContainers)
    BY DEF CreatePod, CleanupVolumes, CleanupFails, InjectSecret, SecretUnanswered, InjectFails,
       BuildContainers, PodCreate, GrabPullSecrets, StartPull, Pull, PullGivesUp, ContainerCreate,
       NoSuchImage, Created, AtCon, At
  <2> QED
    BY <2>2, <2>3, <2>4, <2>5, <2>6, <2>7, <2>8 DEF Next, BuildVolumes
<1> QED
  BY <1>1, Built, PTL DEF Spec, NoVolumeRefused, Made

\* Requests of memory order the containers for the kernel's killer, and CPU time is
\* what was asked for (ResourcesInOrder).
THEOREM ResourcesAsAsked == Spec => []ResourcesInOrder
<1>1. BuildInv => ResourcesInOrder
  <2> SUFFICES ASSUME BuildInv,
                      NEW c \in cons, NEW k \in ToSet(pod.containers), c.Name[3] = k.name
               PROVE  /\ pod.priority < 2000000000 =>
                           \A d \in cons, l \in ToSet(pod.containers) :
                                d.Name[3] = l.name /\ k.memoryRequest > l.memoryRequest =>
                                  c.OOMScoreAdj <= d.OOMScoreAdj
                      /\ LET r == c.ResourceLimits
                         IN /\ r.Shares = 2 \/ 1000 * r.Shares <= 1024 * k.cpuRequest
                            /\ 1000 * (r.Shares + 1) > 1024 * k.cpuRequest
                            /\ k.cpuLimit >= 10 => r.Quota * 1000 = k.cpuLimit * CpuPeriod
                            /\ k.cpuLimit \in 1..9 => r.Quota = 1000
    BY DEF ResourcesInOrder
  <2>1. /\ IsPodSpec(pod) /\ pod.qosClass = NoQOSClass /\ pod.priority \in Int
        /\ \A l \in ToSet(pod.containers) : IsContainer(l)
    BY PodLetThrough, MadeOf DEF BuildInv, IsPodSpec
  <2>2. \A l \in ToSet(pod.containers) :
          l.memoryRequest \in Nat /\ l.cpuRequest \in Nat /\ l.cpuLimit \in Nat
    BY <2>1 DEF IsContainer
  <2>3. \A d \in cons, l \in ToSet(pod.containers) : d.Name[3] = l.name =>
          /\ d.OOMScoreAdj = GetContainerOOMScoreAdjust(pod, l)
          /\ d.ResourceLimits = LinuxResources(l)
    BY MadeOf DEF ConvertContainerConfig
  <2>4. ASSUME pod.priority < 2000000000
        PROVE  \A d \in cons, l \in ToSet(pod.containers) :
                    d.Name[3] = l.name /\ k.memoryRequest > l.memoryRequest =>
                      c.OOMScoreAdj <= d.OOMScoreAdj
    BY <2>1, <2>2, <2>3, <2>4, ScoresInOrder
  <2>5. LET r == LinuxResources(k)
        IN /\ r.Shares = 2 \/ 1000 * r.Shares <= 1024 * k.cpuRequest
           /\ 1000 * (r.Shares + 1) > 1024 * k.cpuRequest
           /\ k.cpuLimit >= 10 => r.Quota * 1000 = k.cpuLimit * CpuPeriod
           /\ k.cpuLimit \in 1..9 => r.Quota = 1000
    <3>1. /\ LinuxResources(k).Shares = milliCPUToShares(k.cpuRequest)
          /\ k.cpuLimit # 0 => LinuxResources(k).Quota = milliCPUToQuota(k.cpuLimit)
      BY DEF LinuxResources
    <3>2. k.cpuLimit >= 10 \/ k.cpuLimit \in 1..9 => k.cpuLimit # 0
      BY <2>2
    <3>3. /\ milliCPUToShares(k.cpuRequest) = 2
             \/ 1000 * milliCPUToShares(k.cpuRequest) <= 1024 * k.cpuRequest
          /\ 1000 * (milliCPUToShares(k.cpuRequest) + 1) > 1024 * k.cpuRequest
      BY <2>2, CpuAsAsked
    <3>4. /\ k.cpuLimit >= 10 => milliCPUToQuota(k.cpuLimit) * 1000 = k.cpuLimit * CpuPeriod
          /\ k.cpuLimit \in 1..9 => milliCPUToQuota(k.cpuLimit) = 1000
      <4> DEFINE limit == k.cpuLimit
      <4>1. limit \in Nat
        BY <2>2
      <4> HIDE DEF limit
      <4>2. /\ limit >= 10 => milliCPUToQuota(limit) * 1000 = limit * CpuPeriod
            /\ limit \in 1..9 => milliCPUToQuota(limit) = 1000
        BY <4>1, CpuAsAsked
      <4> QED
        BY <4>2 DEF limit
    <3> QED
      BY <3>1, <3>2, <3>3, <3>4
  <2> QED
    BY <2>3, <2>4, <2>5
<1> QED
  BY <1>1, Built, PTL

\* PullImage reports success only with the image in the store, unless the stream
\* broke off or every request was refused (PullTellsTruth).
THEOREM PullsTellTruth == Spec => PullTellsTruth
<1> DEFINE Truth == At("pull") /\ work'.step = "containers" =>
                      Con.image \in images' \/ budget' # budget \/ work.tries > Len(work.pull)
<1>1. BuildInv /\ [Next]_vars => [Truth]_vars
  <2> SUFFICES ASSUME BuildInv, Next, work.step = "pull", work'.step = "containers", budget' = budget
               PROVE  Con.image \in images' \/ work.tries > Len(work.pull)
    BY DEF At
  <2>1. CASE PullGivesUp
    BY <2>1 DEF PullGivesUp
  <2>2. CASE Pull
    <3>1. ~Return
      BY DEF Return, Idle
    <3> DEFINE given == Con.image \in Opened(work.tries)
    <3>2. PICK events \in Answers(Con.image, given) \union BrokenAnswers :
            /\ IF events \in BrokenAnswers THEN Spend("faults") ELSE UNCHANGED budget
            /\ Arrives(Con.image, events)
            /\ CASE processPullStream(events) = None -> PullDone
                 [] processPullStream(events) = "unauthorized" -> NextPull
                 [] OTHER -> Return
      BY <2>2, <3>1 DEF Pull
    <3>3. events \in Answers(Con.image, given)
      <4>1. events \notin BrokenAnswers
        BY <3>2, SpendKeeps DEF BuildInv
      <4> QED
        BY <3>2, <4>1
    <3>4. ~NextPull
      <4>1. work \in Calls
        BY CallTyped DEF BuildInv, WorkInOrder
      <4> QED
        BY <4>1, PullGoesOn DEF NextPull
    <3>5. given
      <4>1. processPullStream(events) # "unauthorized"
        BY <3>2, <3>4, StreamsTold
      <4>2. ~given => events \in Answers(Con.image, FALSE)
        BY <3>3 DEF Answers
      <4> QED
        BY <4>1, <4>2, StreamsTold
    <3>6. Images(Con.image) \in ToSet(events)
      BY <3>3, <3>5, StreamsTold
    <3> QED
      BY <3>2, <3>6 DEF Arrives
  <2>3. ~(\/ CreatePod \/ BuildVolumes \/ PodCreate \/ GrabPullSecrets \/ StartPull
          \/ ContainerCreate \/ NoSuchImage \/ Created)
    BY DEF CreatePod, BuildVolumes, CleanupVolumes, CleanupFails, SkipVolume, CreateEmptyDir,
       CreateSecretVolume, InjectSecret, SecretUnanswered, InjectFails, CreateProjectedVolume, ProjectionFails, VolumesDone, PodCreate,
       GrabPullSecrets, StartPull, ContainerCreate, NoSuchImage, Created, AtVolume, AtCon, At
  <2>4. ~SecretChanges /\ ~Fails
    BY DEF SecretChanges, Fails, Return, Idle
  <2> QED
    BY <2>1, <2>2, <2>3, <2>4 DEF Next, BuildContainers
<1> QED
  BY <1>1, Built, PTL DEF Spec, PullTellsTruth, Truth

\* Without a fault an image that is public, or that a pull secret opens with only
\* secrets that hold credentials up to it, is there when PullImage ends
\* (PullFindsCredentials).
THEOREM PullsFindCredentials == Spec => PullFindsCredentials
<1> DEFINE Found == At("pull") /\ work'.step # "pull" /\ budget' = budget =>
                      \A k \in {0} \union DOMAIN work.pull :
                        /\ \A j \in 0..k : HasCredentials(j)
                        /\ Con.image \in Opened(k)
                        => Con.image \in images'
<1>1. BuildInv /\ [Next]_vars => [Found]_vars
  <2> SUFFICES ASSUME BuildInv, Next, work.step = "pull", work'.step # "pull", budget' = budget,
                      NEW k \in {0} \union DOMAIN work.pull, Con.image \in Opened(k),
                      \A j \in 0..k : HasCredentials(j)
               PROVE  Con.image \in images'
    BY DEF At
  <2>1. /\ work \in Calls /\ work.tries \in Nat
        /\ DOMAIN work.pull = 1..Len(work.pull) /\ Len(work.pull) \in Nat
    BY CallTyped, LenProperties DEF BuildInv, WorkInOrder
  <2>2. k \in Nat /\ work.tries <= k /\ k <= Len(work.pull)
    <3>1. ~(k < work.tries)
      BY DEF BuildInv, PullTried, At
    <3> QED
      BY <2>1, <3>1
  <2>3. ~PullGivesUp
    BY <2>1, <2>2 DEF PullGivesUp
  <2>4. CASE Pull
    <3>1. HasCredentials(work.tries)
      BY <2>1, <2>2
    <3> DEFINE given == Con.image \in Opened(work.tries)
    <3>2. PICK events \in Answers(Con.image, given) \union BrokenAnswers :
            /\ IF events \in BrokenAnswers THEN Spend("faults") ELSE UNCHANGED budget
            /\ Arrives(Con.image, events)
            /\ CASE processPullStream(events) = None -> PullDone
                 [] processPullStream(events) = "unauthorized" -> NextPull
                 [] OTHER -> Return
      BY <2>4, <3>1 DEF Pull
    <3>3. events \in Answers(Con.image, given)
      <4>1. events \notin BrokenAnswers
        BY <3>2, SpendKeeps DEF BuildInv
      <4> QED
        BY <3>2, <4>1
    <3>4. ~NextPull
      BY <2>1, PullGoesOn DEF NextPull
    <3>5. given
      <4>1. processPullStream(events) # "unauthorized"
        BY <3>2, <3>4, StreamsTold
      <4>2. ~given => events \in Answers(Con.image, FALSE)
        BY <3>3 DEF Answers
      <4> QED
        BY <4>1, <4>2, StreamsTold
    <3>6. Images(Con.image) \in ToSet(events)
      BY <3>3, <3>5, StreamsTold
    <3> QED
      BY <3>2, <3>6 DEF Arrives
  <2>5. ~(\/ CreatePod \/ BuildVolumes \/ PodCreate \/ GrabPullSecrets \/ StartPull
          \/ ContainerCreate \/ NoSuchImage \/ Created)
    BY DEF CreatePod, BuildVolumes, CleanupVolumes, CleanupFails, SkipVolume, CreateEmptyDir,
       CreateSecretVolume, InjectSecret, SecretUnanswered, InjectFails, CreateProjectedVolume, ProjectionFails, VolumesDone, PodCreate,
       GrabPullSecrets, StartPull, ContainerCreate, NoSuchImage, Created, AtVolume, AtCon, At
  <2>6. ~SecretChanges /\ ~Fails
    <3>1. ~SecretChanges
      BY DEF SecretChanges
    <3>2. ~Fails
      BY SpendKeeps DEF Fails, BuildInv
    <3> QED
      BY <3>1, <3>2
  <2> QED
    BY <2>3, <2>4, <2>5, <2>6 DEF Next, BuildContainers
<1> QED
  BY <1>1, Built, PTL DEF Spec, PullFindsCredentials, Found

=============================================================================
