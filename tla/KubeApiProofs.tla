--------------------------- MODULE KubeApiProofs ---------------------------
(***************************************************************************)
(* Theorems about CertFlow, for any set of keys, and about KubeApi, for    *)
(* any number of handlers, cores and containers, any units and any length  *)
(* of a process's life.                                                    *)
(***************************************************************************)
EXTENDS KubeApi, TLAPS

-----------------------------------------------------------------------------
(* The certificate flow *)

LEMMA InitCertInv == Init => CertInv
  BY KeysAssumption
  DEF Init, CertInv, TypeOK, Ended, CertMatchesKey, RequestMatchesKey,
      StepsConsistent, KeyOnlyWhileUsed

LEMMA RequestedIsCsr ==
  ASSUME keyFile \in Keys
  PROVE  Requested \in Csrs /\ Requested.key = keyFile
  BY DEF Requested, Csrs, Phases

\* A step of the cluster keeps the key of the request.
LEMMA PhaseKeepsKey ==
  ASSUME TypeOK, ApproveCsr \/ IssueCertificate
  PROVE  csr' \in Csrs /\ csr'.key = csr.key /\ csr # None
  BY DEF TypeOK, Csrs, Phases, ApproveCsr, IssueCertificate

LEMMA NextCertInv == CertInv /\ [Next]_vars => CertInv'
  <1> SUFFICES ASSUME CertInv, [Next]_vars PROVE CertInv'
    OBVIOUS
  <1> USE KeysAssumption
      DEF CertInv, TypeOK, Ended, FlowSteps, CertMatchesKey, RequestMatchesKey,
          StepsConsistent, KeyOnlyWhileUsed, vars, files
  <1>1. CASE Start
    BY <1>1 DEF Start
  <1>2. CASE ServeTLS \/ ServeTLSAgain
    BY <1>2 DEF ServeTLS, ServeTLSAgain, Missing, Paired
  <1>3. CASE EnsurePrivateKeyExists
    BY <1>3 DEF EnsurePrivateKeyExists
  <1>4. CASE Keygen
    <2> PICK k \in Keys \ made : keyFile' = k /\ made' = made \union {k}
      BY <1>4 DEF Keygen
    <2> QED
      BY <1>4 DEF Keygen
  <1>5. CASE GetCsr
    BY <1>5 DEF GetCsr
  <1>6. CASE GenerateCertRequest
    BY <1>6 DEF GenerateCertRequest
  <1>7. CASE CreateCsr \/ CreateCsrLost
    <2>1. keyFile \in Keys /\ Requested \in Csrs /\ Requested.key = keyFile
      BY <1>7, RequestedIsCsr DEF CreateCsr, CreateCsrLost
    <2> QED
      BY <1>7, <2>1 DEF CreateCsr, CreateCsrLost
  <1>8. CASE PollCsr
    BY <1>8 DEF PollCsr
  <1>9. CASE StoreOpen
    BY <1>9 DEF StoreOpen
  <1>10. CASE StoreWrite
    <2>1. seen \in Csrs /\ seen.key \in Keys
      BY <1>10 DEF StoreWrite, Csrs
    <2> QED
      BY <1>10, <2>1 DEF StoreWrite
  <1>11. CASE ApproveCsr \/ IssueCertificate
    BY <1>11, PhaseKeepsKey DEF ApproveCsr, IssueCertificate
  <1>12. CASE FlowFault \/ Crash
    BY <1>12 DEF FlowFault, Crash
  <1>13. CASE CsrCleaned
    BY <1>13 DEF CsrCleaned
  <1>14. CASE Wipe
    BY <1>14 DEF Wipe
  <1>15. CASE UNCHANGED vars
    BY <1>15
  <1> QED
    BY <1>1, <1>2, <1>3, <1>4, <1>5, <1>6, <1>7, <1>8, <1>9, <1>10, <1>11,
       <1>12, <1>13, <1>14, <1>15 DEF Next, RunSteps, Interruptions

\* The values KubeApi.Run works with are always of their kind; in particular the
\* polling loop never looks into a request it does not have.
THEOREM CertTypeCorrect == Spec => []TypeOK
  <1>1. CertInv => TypeOK
    BY DEF CertInv
  <1> QED
    BY <1>1, InitCertInv, NextCertInv, PTL DEF Spec

\* For any number of restarts and keys, the stored certificate is one for the
\* stored key as long as nobody removes the files.
THEOREM CertMatchesKeyThm == Spec => []CertMatchesKey
  <1>1. CertInv => CertMatchesKey
    BY DEF CertInv
  <1> QED
    BY <1>1, InitCertInv, NextCertInv, PTL DEF Spec

\* The steps that give up, one by one.
LEMMA GiveUpStep ==
  CertInv /\ [Next]_vars =>
    (pc' = "exited" /\ pc # "exited" /\ ~wiped =>
       keyFile = Torn \/ crtFile = Torn \/ (pc = "poll" /\ csr = None))
  <1> SUFFICES ASSUME CertInv, [Next]_vars, pc' = "exited", pc # "exited", ~wiped
               PROVE  keyFile = Torn \/ crtFile = Torn \/ (pc = "poll" /\ csr = None)
    OBVIOUS
  <1> USE KeysAssumption
      DEF CertInv, TypeOK, CertMatchesKey, StepsConsistent, KeyOnlyWhileUsed
  <1>1. CASE ServeTLS
    BY <1>1 DEF ServeTLS, Missing, Paired
  <1>2. CASE ServeTLSAgain
    BY <1>2 DEF ServeTLSAgain, Paired
  <1>3. CASE GenerateCertRequest
    BY <1>3 DEF GenerateCertRequest
  <1>4. CASE PollCsr
    BY <1>4 DEF PollCsr
  <1>5. pc' = "exited" /\ pc # "exited" =>
          ServeTLS \/ ServeTLSAgain \/ GenerateCertRequest \/ PollCsr
    BY DEF Next, RunSteps, Interruptions, vars, Start, EnsurePrivateKeyExists,
           Keygen, GetCsr, CreateCsr, CreateCsrLost, StoreOpen, StoreWrite,
           FlowFault, ApproveCsr, IssueCertificate, CsrCleaned, Crash, Wipe
  <1> QED
    BY <1>1, <1>2, <1>3, <1>4, <1>5

\* As long as nobody removes the files, Run gives up only over a truncated file
\* or a request that was removed under it.
THEOREM GivesUpForCauseThm == Spec => GivesUpForCause
  <1>1. CertInv /\ [Next]_vars =>
          [pc' = "exited" /\ pc # "exited" /\ ~wiped =>
             keyFile = Torn \/ crtFile = Torn \/ (pc = "poll" /\ csr = None)]_vars
    BY GiveUpStep
  <1> QED
    BY <1>1, InitCertInv, NextCertInv, PTL DEF Spec, GivesUpForCause

-----------------------------------------------------------------------------
(* Arithmetic *)

LEMMA CounterFits ==
  ASSUME NEW t \in 0..MaxClock, NEW n \in 0..(Cores * t)
  PROVE  n \in Nat /\ n < Word
  <1>1. Cores \in Nat /\ Word \in Nat /\ MaxClock \in Nat /\ Cores * MaxClock < Word
    BY StatsAssumption
  <1>2. Cores * t \in Nat /\ Cores * t <= Cores * MaxClock
    BY <1>1
  <1> QED
    BY <1>1, <1>2

LEMMA CounterGrows ==
  ASSUME NEW t \in 0..MaxClock, NEW n \in 0..(Cores * t), NEW c \in 0..Cores
  PROVE  n + c \in 0..(Cores * (t + 1))
  <1>1. Cores \in Nat
    BY StatsAssumption
  <1>2. Cores * (t + 1) = Cores * t + Cores
    BY <1>1
  <1> QED
    BY <1>1, <1>2

\* What unsigned words make of readings in order.
LEMMA NoWrap ==
  ASSUME NEW a \in Nat, NEW b \in Nat, a <= b, b < Word
  PROVE  (b - a) % Word = b - a
  <1>1. Word \in Nat \ {0}
    BY StatsAssumption
  <1>2. b - a \in 0..(Word - 1)
    BY <1>1
  <1> QED
    BY <1>1, <1>2

LEMMA NothingOfNothing ==
  ASSUME NEW d \in Nat \ {0}
  PROVE  (0 * Unit) \div d = 0
  <1>1. 0 * Unit = 0
    BY StatsAssumption
  <1>2. 0 \div d = 0
    OBVIOUS
  <1> QED
    BY <1>1, <1>2

LEMMA OrderedUsageIsReal ==
  ASSUME NEW now \in Readings, NEW base \in Readings,
         base.cpu <= now.cpu, base.time <= now.time,
         now.cpu < Word, now.time < Word
  PROVE  IsReal(Usage(now, base), now, base)
  <1>1. /\ now.cpu \in Nat /\ now.time \in Nat
        /\ base.cpu \in Nat /\ base.time \in Nat
    BY DEF Readings
  <1>2. base # None
    BY StatsAssumption DEF Readings
  <1>3. (now.cpu - base.cpu) % Word = now.cpu - base.cpu
    BY <1>1, NoWrap
  <1>4. (now.time - base.time) % Word = now.time - base.time
    BY <1>1, NoWrap
  <1>5. Usage(now, base) = CPUFraction(now, base)
    BY <1>2 DEF Usage
  <1>6. CPUFraction(now, base) = RealRate(now, base)
    <2>1. CASE now.time = base.time
      BY <2>1, <1>1, <1>3, <1>4 DEF CPUFraction, RealRate
    <2>2. CASE now.time # base.time /\ now.cpu = base.cpu
      <3>1. now.time - base.time \in Nat \ {0}
        BY <2>2, <1>1
      <3>2. now.cpu - base.cpu = 0
        BY <2>2, <1>1
      <3>3. ((now.cpu - base.cpu) * Unit) \div (now.time - base.time) = 0
        BY <3>1, <3>2, NothingOfNothing
      <3> QED
        BY <2>2, <1>3, <1>4, <3>2, <3>3 DEF CPUFraction, RealRate
    <2>3. CASE now.time # base.time /\ now.cpu # base.cpu
      <3>1. now.time - base.time > 0 /\ now.cpu - base.cpu > 0
        BY <2>3, <1>1
      <3> QED
        BY <2>3, <1>3, <1>4, <3>1 DEF CPUFraction, RealRate
    <2> QED
      BY <2>1, <2>2, <2>3
  <1> QED
    BY <1>5, <1>6 DEF IsReal

LEMMA ClockFits == Word \in Nat /\ MaxClock \in Nat /\ Cores \in Nat /\ MaxClock < Word
  <1>1. /\ {Cores, Unit, Word, MaxClock, MaxContainers} \subseteq Nat \ {0}
        /\ Cores * MaxClock < Word
    BY StatsAssumption
  <1>2. MaxClock <= Cores * MaxClock
    BY <1>1
  <1> QED
    BY <1>1, <1>2

-----------------------------------------------------------------------------
(* The invariant *)

LEMMA NoneIsNoReading == None \notin Readings
  BY StatsAssumption DEF Readings

LEMMA InitStatsInv == KubeInit => StatsInv
  <1> SUFFICES ASSUME Fresh PROVE StatsInv
    BY DEF KubeInit
  <1>1. Cores \in Nat /\ MaxClock \in Nat
    BY ClockFits
  <1>2. 0 \in 0..MaxClock /\ 0 \in 0..(Cores * 0)
    BY <1>1
  <1>3. Idle \in Requests
    BY DEF Idle, Request, Requests, Stages
  <1>4. StatsTypeOK
    BY <1>2, <1>3 DEF Fresh, StatsTypeOK, NodeId
  <1> QED
    BY <1>4 DEF Fresh, StatsInv, MemoryOfPast, RequestOfPast, OverlapIsShared,
                LoneInOrder, Active, Idle, Request

\* The end of a process is a fresh start.
LEMMA ForgetStatsInv == Forget => StatsInv'
  <1> SUFFICES ASSUME Forget PROVE StatsInv'
    OBVIOUS
  <1>1. Cores \in Nat /\ MaxClock \in Nat
    BY ClockFits
  <1>2. 0 \in 0..MaxClock /\ 0 \in 0..(Cores * 0)
    BY <1>1
  <1>3. Idle \in Requests
    BY DEF Idle, Request, Requests, Stages
  <1>4. StatsTypeOK'
    BY <1>2, <1>3 DEF Forget, StatsTypeOK, NodeId
  <1> QED
    BY <1>4 DEF Forget, StatsInv, MemoryOfPast, RequestOfPast, OverlapIsShared,
                LoneInOrder, Active, Idle, Request

\* Steps of the machine leave readings in the past.
LEMMA WorldStep ==
  ASSUME StatsInv, UNCHANGED <<memory, req, shared>>, StatsTypeOK',
         \A r \in Readings : Past(r) => Past(r)'
  PROVE  StatsInv'
  <1>1. MemoryOfPast'
    BY DEF StatsInv, StatsTypeOK, MemoryOfPast, memory
  <1>2. \A h \in Handlers : RequestOfPast(h)'
    <2> SUFFICES ASSUME NEW h \in Handlers PROVE RequestOfPast(h)'
      OBVIOUS
    <2>1. RequestOfPast(h) /\ req[h].now \in Readings \union {None}
      BY DEF StatsInv, StatsTypeOK, Requests
    <2> QED
      BY <2>1 DEF RequestOfPast, memory
  <1>3. OverlapIsShared'
    BY DEF StatsInv, OverlapIsShared, Active
  <1>4. \A h \in Handlers : ~shared'[h] => LoneInOrder(h)'
    BY DEF StatsInv, LoneInOrder, memory
  <1> QED
    BY <1>1, <1>2, <1>3, <1>4 DEF StatsInv

LEMMA TimePassesInv == StatsInv /\ TimePasses => StatsInv'
  <1> SUFFICES ASSUME StatsInv, TimePasses PROVE StatsInv'
    OBVIOUS
  <1>0. Cores \in Nat /\ MaxClock \in Nat
    BY ClockFits
  <1>1. PICK c \in 0..Cores, n \in 0..Cores :
          conCpu' = conCpu + c /\ nodeCpu' = nodeCpu + n
    BY DEF TimePasses
  <1>2. /\ clock \in 0..MaxClock /\ clock < MaxClock /\ clock' = clock + 1
        /\ conCpu \in 0..(Cores * clock) /\ nodeCpu \in 0..(Cores * clock)
    BY DEF StatsInv, StatsTypeOK, TimePasses
  <1>3. conCpu' \in 0..(Cores * clock')
    BY <1>1, <1>2, CounterGrows
  <1>4. nodeCpu' \in 0..(Cores * clock')
    BY <1>1, <1>2, CounterGrows
  <1>5. clock' \in 0..MaxClock
    BY <1>0, <1>2
  <1>6. StatsTypeOK'
    BY <1>3, <1>4, <1>5 DEF StatsInv, StatsTypeOK, TimePasses, memory
  <1>7. conCpu <= conCpu' /\ nodeCpu <= nodeCpu' /\ clock <= clock'
    <2>1. conCpu \in Int /\ nodeCpu \in Int /\ clock \in Int
      BY <1>0, <1>2
    <2> QED
      BY <1>0, <1>1, <1>2, <2>1
  <1>8. /\ conCpu \in Int /\ nodeCpu \in Int /\ clock \in Int
        /\ conCpu' \in Int /\ nodeCpu' \in Int /\ clock' \in Int
    BY <1>0, <1>1, <1>2
  <1>9. \A r \in Readings : Past(r) => Past(r)'
    BY <1>7, <1>8 DEF Past, Readings, TimePasses
  <1> QED
    BY <1>6, <1>9, WorldStep DEF TimePasses

LEMMA ReplaceContainerInv == StatsInv /\ ReplaceContainer => StatsInv'
  <1> SUFFICES ASSUME StatsInv, ReplaceContainer PROVE StatsInv'
    OBVIOUS
  <1>1. /\ container \in Nat \ {0} /\ container' = container + 1
        /\ conCpu' = 0 /\ clock' = clock /\ nodeCpu' = nodeCpu
    BY DEF StatsInv, StatsTypeOK, ReplaceContainer, NodeId
  <1>2. Cores \in Nat /\ MaxClock \in Nat
    BY ClockFits
  <1>3. 0 \in 0..(Cores * clock)
    BY <1>2 DEF StatsInv, StatsTypeOK
  <1>4. StatsTypeOK'
    BY <1>1, <1>3 DEF StatsInv, StatsTypeOK, ReplaceContainer, memory, NodeId
  <1>5. \A r \in Readings : Past(r) => Past(r)'
    BY <1>1 DEF Past, Readings, NodeId
  <1> QED
    BY <1>4, <1>5, WorldStep DEF ReplaceContainer

-----------------------------------------------------------------------------
(* The steps of a request *)

\* A request under way is alone, or the others know of it: what it does to the
\* shared readings concerns only requests that are not lone.
LEMMA OwnStep ==
  ASSUME StatsInv, NEW h \in Handlers, Active(h),
         UNCHANGED <<world, shared>>, StatsTypeOK', MemoryOfPast',
         \A g \in Handlers \ {h} : req'[g] = req[g],
         prevNodeStat # None => prevNodeStat' # None,
         RequestOfPast(h)', ~shared[h] => LoneInOrder(h)'
  PROVE  StatsInv'
  <1>1. \A r : Past(r)' <=> Past(r)
    BY DEF Past, world
  <1>2. \A g \in Handlers : RequestOfPast(g)'
    <2> SUFFICES ASSUME NEW g \in Handlers \ {h} PROVE RequestOfPast(g)'
      OBVIOUS
    <2>1. RequestOfPast(g) /\ req'[g] = req[g]
      BY DEF StatsInv
    <2> QED
      BY <2>1, <1>1 DEF RequestOfPast
  <1>3. OverlapIsShared'
    BY DEF StatsInv, OverlapIsShared, Active
  <1>4. \A g \in Handlers : ~shared'[g] => LoneInOrder(g)'
    <2> SUFFICES ASSUME NEW g \in Handlers \ {h}, ~shared[g] PROVE LoneInOrder(g)'
      OBVIOUS
    <2>1. req'[g].at = "idle"
      BY DEF StatsInv, OverlapIsShared, Active
    <2> QED
      BY <2>1 DEF LoneInOrder
  <1> QED
    BY <1>2, <1>3, <1>4 DEF StatsInv

\* A request goes on to the stage at, with a reading in hand.
LEMMA RequestStep ==
  ASSUME StatsInv, NEW h \in Handlers, NEW at \in Stages,
         NEW now \in Readings \union {None}, NEW prevCpu \in Nat,
         req' = [req EXCEPT ![h] = Request(at, now, prevCpu)]
  PROVE  /\ req' \in [Handlers -> Requests]
         /\ req'[h].at = at
         /\ req'[h].now = now
         /\ req'[h].prevCpu = prevCpu
         /\ \A g \in Handlers \ {h} : req'[g] = req[g]
  <1>1. Request(at, now, prevCpu) \in Requests
    BY DEF Request, Requests
  <1>2. req \in [Handlers -> Requests]
    BY DEF StatsInv, StatsTypeOK
  <1>3. req'[h] = Request(at, now, prevCpu) /\ req' \in [Handlers -> Requests]
    BY <1>1, <1>2
  <1> QED
    BY <1>2, <1>3 DEF Request

LEMMA TypeKept ==
  ASSUME StatsInv, req' \in [Handlers -> Requests], UNCHANGED <<world, shared>>,
         prevStats' \in Readings \union {None},
         prevNodeStat' \in Readings \union {None}
  PROVE  StatsTypeOK'
  BY DEF StatsInv, StatsTypeOK, world

LEMMA MemoryKept ==
  ASSUME MemoryOfPast, UNCHANGED <<world, memory>>
  PROVE  MemoryOfPast'
  BY DEF MemoryOfPast, Past, world, memory

LEMMA InHand ==
  ASSUME StatsInv, NEW h \in Handlers
  PROVE  /\ req[h].at \in Stages
         /\ req[h].now \in Readings \union {None}
         /\ req[h].prevCpu \in Nat
         /\ prevStats \in Readings \union {None}
         /\ prevNodeStat \in Readings \union {None}
         /\ RequestOfPast(h)
         /\ ~shared[h] => LoneInOrder(h)
         /\ MemoryOfPast
  BY DEF StatsInv, StatsTypeOK, Requests

\* A reading made now.
LEMMA ReadNow ==
  ASSUME StatsInv
  PROVE  /\ clock \in Nat
         /\ clock < Word
         /\ container \in Nat \ {NodeId}
         /\ conCpu \in Nat /\ conCpu < Word
         /\ nodeCpu \in Nat /\ nodeCpu < Word
  <1>1. /\ clock \in 0..MaxClock
        /\ conCpu \in 0..(Cores * clock)
        /\ nodeCpu \in 0..(Cores * clock)
        /\ container \in Nat \ {NodeId}
    BY DEF StatsInv, StatsTypeOK
  <1> QED
    BY <1>1, CounterFits, ClockFits

LEMMA GetAllStatsInv ==
  ASSUME StatsInv, NEW h \in Handlers, GetAllStats(h)
  PROVE  StatsInv'
  <1>1. PICK now \in {Reading(container, conCpu, clock), None} :
          req' = [req EXCEPT ![h] =
                    Request(IF now = None THEN "measured" ELSE "read", now, 0)]
    BY DEF GetAllStats
  <1>2. /\ shared' = [g \in Handlers |->
             IF g = h THEN \E o \in Handlers \ {h} : Active(o)
                      ELSE Active(g) \/ shared[g]]
        /\ UNCHANGED <<world, memory>>
    BY DEF GetAllStats
  <1> DEFINE at == IF now = None THEN "measured" ELSE "read"
  <1>3. /\ now \in Readings \union {None} /\ at \in Stages
        /\ req' = [req EXCEPT ![h] = Request(at, now, 0)]
    BY <1>1, ReadNow DEF Reading, Readings, Stages, NodeId
  <1> HIDE DEF at
  <1>4. /\ req' \in [Handlers -> Requests]
        /\ req'[h].at = at /\ req'[h].now = now
        /\ \A g \in Handlers \ {h} : req'[g] = req[g]
    BY <1>3, RequestStep
  <1> USE DEF at
  <1>5. StatsTypeOK'
    BY <1>2, <1>4 DEF StatsInv, StatsTypeOK, world, memory, Active
  <1>6. \A x : Past(x)' <=> Past(x)
    BY <1>2 DEF Past, world
  <1>7. MemoryOfPast'
    BY <1>2, MemoryKept DEF StatsInv
  <1>8. now # None => Past(now) /\ now.id # NodeId
    BY ReadNow DEF Past, Reading, NodeId
  <1>9. \A g \in Handlers : RequestOfPast(g)'
    <2> SUFFICES ASSUME NEW g \in Handlers PROVE RequestOfPast(g)'
      OBVIOUS
    <2>1. CASE g = h
      BY <2>1, <1>4, <1>6, <1>8 DEF RequestOfPast
    <2>2. CASE g # h
      BY <2>2, <1>2, <1>4, <1>6 DEF StatsInv, RequestOfPast, memory
    <2> QED
      BY <2>1, <2>2
  <1>10. OverlapIsShared'
    <2> SUFFICES ASSUME NEW g \in Handlers, NEW o \in Handlers, g # o,
                        Active(g)', Active(o)'
                 PROVE  shared'[g]
      BY DEF OverlapIsShared
    <2>1. CASE g = h
      BY <2>1, <1>2, <1>4 DEF Active
    <2>2. CASE g # h
      BY <2>2, <1>2, <1>4 DEF Active
    <2> QED
      BY <2>1, <2>2
  <1>11. \A g \in Handlers : ~shared'[g] => LoneInOrder(g)'
    <2> SUFFICES ASSUME NEW g \in Handlers, ~shared'[g] PROVE LoneInOrder(g)'
      OBVIOUS
    <2>1. CASE g = h
      <3>1. prevStats' = prevStats
        BY <1>2 DEF memory
      <3>2. now # None /\ prevStats # None /\ prevStats.id = now.id =>
              prevStats.cpu <= now.cpu /\ prevStats.time <= now.time
        BY DEF StatsInv, MemoryOfPast, Past, Reading
      <3> QED
        BY <2>1, <1>4, <3>1, <3>2 DEF LoneInOrder
    <2>2. CASE g # h
      <3>1. req'[g].at = "idle"
        BY <2>2, <1>2, <1>4 DEF Active
      <3> QED
        BY <3>1 DEF LoneInOrder
    <2> QED
      BY <2>1, <2>2
  <1> QED
    BY <1>5, <1>7, <1>9, <1>10, <1>11 DEF StatsInv

LEMMA MeasureContainerInv ==
  ASSUME StatsInv, NEW h \in Handlers, MeasureContainer(h)
  PROVE  StatsInv'
  <1>1. /\ req' = [req EXCEPT ![h] = Request("measured", req[h].now, 0)]
        /\ req[h].at = "read"
        /\ UNCHANGED <<world, memory, shared>>
    BY DEF MeasureContainer, At
  <1>2. /\ req' \in [Handlers -> Requests]
        /\ req'[h].at = "measured" /\ req'[h].now = req[h].now
        /\ \A g \in Handlers \ {h} : req'[g] = req[g]
    BY <1>1, InHand, RequestStep DEF Stages
  <1>3. StatsTypeOK' /\ MemoryOfPast'
    BY <1>1, <1>2, InHand, TypeKept, MemoryKept DEF memory
  <1>4. RequestOfPast(h)'
    BY <1>1, <1>2, InHand DEF RequestOfPast, Past, memory, world
  <1>5. LoneInOrder(h)'
    BY <1>2 DEF LoneInOrder
  <1> QED
    BY <1>1, <1>2, <1>3, <1>4, <1>5, OwnStep DEF Active, memory

LEMMA StorePrevStatsInv ==
  ASSUME StatsInv, NEW h \in Handlers, StorePrevStats(h)
  PROVE  StatsInv'
  <1>1. /\ req' = [req EXCEPT ![h] = Request("pods", None, 0)]
        /\ req[h].at = "measured"
        /\ prevStats' = req[h].now
        /\ UNCHANGED <<world, prevNodeStat, shared>>
    BY DEF StorePrevStats, At
  <1>2. /\ req' \in [Handlers -> Requests]
        /\ req'[h].at = "pods" /\ req'[h].now = None
        /\ \A g \in Handlers \ {h} : req'[g] = req[g]
    BY <1>1, RequestStep DEF Stages
  <1>3. StatsTypeOK'
    BY <1>1, <1>2, InHand, TypeKept
  <1>4. MemoryOfPast'
    BY <1>1, InHand DEF MemoryOfPast, RequestOfPast, Past, world
  <1>5. RequestOfPast(h)' /\ LoneInOrder(h)'
    BY <1>2 DEF RequestOfPast, LoneInOrder
  <1> QED
    BY <1>1, <1>2, <1>3, <1>4, <1>5, OwnStep DEF Active

LEMMA ReadStatInv ==
  ASSUME StatsInv, NEW h \in Handlers, ReadStat(h)
  PROVE  StatsInv'
  <1> DEFINE now == Reading(NodeId, nodeCpu, 0)
  <1>1. /\ req' = [req EXCEPT ![h] = Request("stat", now, 0)]
        /\ req[h].at = "pods"
        /\ UNCHANGED <<world, memory, shared>>
    BY DEF ReadStat, At
  <1>2. now \in Readings /\ Past(now) /\ now.id = NodeId /\ now.cpu = nodeCpu
    BY ReadNow DEF Reading, Readings, NodeId, Past
  <1> HIDE DEF now
  <1>3. /\ req' \in [Handlers -> Requests]
        /\ req'[h].at = "stat" /\ req'[h].now = now
        /\ \A g \in Handlers \ {h} : req'[g] = req[g]
    BY <1>1, <1>2, RequestStep DEF Stages
  <1>4. StatsTypeOK' /\ MemoryOfPast'
    BY <1>1, <1>3, InHand, TypeKept, MemoryKept DEF memory
  <1>5. RequestOfPast(h)'
    BY <1>1, <1>2, <1>3, NoneIsNoReading DEF RequestOfPast, Past, world, NodeId
  <1>6. LoneInOrder(h)'
    <2>1. prevNodeStat # None => prevNodeStat.cpu <= nodeCpu
      BY InHand DEF MemoryOfPast, Past
    <2> QED
      BY <1>1, <1>2, <1>3, <2>1 DEF LoneInOrder, memory
  <1> QED
    BY <1>1, <1>3, <1>4, <1>5, <1>6, OwnStep DEF Active, memory

LEMMA ReadClockInv ==
  ASSUME StatsInv, NEW h \in Handlers, ReadClock(h)
  PROVE  StatsInv'
  <1> DEFINE now == Reading(NodeId, req[h].now.cpu, clock)
             at == IF prevNodeStat = None THEN "node" ELSE "loadcpu"
  <1>1. /\ req' = [req EXCEPT ![h] = Request(at, now, 0)]
        /\ req[h].at = "stat"
        /\ UNCHANGED <<world, memory, shared>>
    BY DEF ReadClock, At
  <1>2. req[h].now \in Readings /\ req[h].now.id = NodeId /\ Past(req[h].now)
    BY <1>1, InHand DEF RequestOfPast
  <1>3. /\ now \in Readings /\ Past(now) /\ now.id = NodeId
        /\ now.cpu = req[h].now.cpu /\ now.time = clock
    BY <1>2, ReadNow DEF Reading, Readings, NodeId, Past
  <1> HIDE DEF now
  <1>4. /\ req' \in [Handlers -> Requests]
        /\ req'[h].at = at /\ req'[h].now = now
        /\ \A g \in Handlers \ {h} : req'[g] = req[g]
    BY <1>1, <1>3, RequestStep DEF Stages
  <1>5. StatsTypeOK' /\ MemoryOfPast'
    BY <1>1, <1>4, InHand, TypeKept, MemoryKept DEF memory
  <1>6. RequestOfPast(h)'
    BY <1>1, <1>3, <1>4, NoneIsNoReading DEF RequestOfPast, Past, world, memory, NodeId
  <1>7. ~shared[h] => LoneInOrder(h)'
    <2>1. prevNodeStat # None => prevNodeStat.time <= clock
      BY InHand DEF MemoryOfPast, Past
    <2>2. ~shared[h] /\ prevNodeStat # None => prevNodeStat.cpu <= req[h].now.cpu
      BY <1>1, InHand DEF LoneInOrder
    <2> QED
      BY <1>1, <1>3, <1>4, <2>1, <2>2 DEF LoneInOrder, memory
  <1> QED
    BY <1>1, <1>4, <1>5, <1>6, <1>7, OwnStep DEF Active, memory

LEMMA LoadPrevCpuInv ==
  ASSUME StatsInv, NEW h \in Handlers, LoadPrevCpu(h)
  PROVE  StatsInv'
  <1>1. /\ req' = [req EXCEPT ![h] = Request("loadtime", req[h].now, prevNodeStat.cpu)]
        /\ req[h].at = "loadcpu"
        /\ UNCHANGED <<world, memory, shared>>
    BY DEF LoadPrevCpu, At
  <1>2. /\ prevNodeStat \in Readings /\ prevNodeStat # None
        /\ prevNodeStat.cpu \in Nat
        /\ req[h].now \in Readings \union {None}
        /\ "loadtime" \in Stages
    BY <1>1, InHand DEF RequestOfPast, Readings, Stages
  <1>3. /\ req' \in [Handlers -> Requests]
        /\ req'[h].at = "loadtime" /\ req'[h].now = req[h].now
        /\ req'[h].prevCpu = prevNodeStat.cpu
        /\ \A g \in Handlers \ {h} : req'[g] = req[g]
    BY <1>1, <1>2, RequestStep
  <1>4. StatsTypeOK' /\ MemoryOfPast'
    BY <1>1, <1>3, InHand, TypeKept, MemoryKept DEF memory
  <1>5. RequestOfPast(h)'
    BY <1>1, <1>2, <1>3, InHand DEF RequestOfPast, Past, world, memory
  <1>6. ~shared[h] => LoneInOrder(h)'
    BY <1>1, <1>3, InHand DEF LoneInOrder, memory
  <1> QED
    BY <1>1, <1>3, <1>4, <1>5, <1>6, OwnStep DEF Active, memory

LEMMA MeasureNodeInv ==
  ASSUME StatsInv, NEW h \in Handlers, MeasureNode(h)
  PROVE  StatsInv'
  <1>1. /\ req' = [req EXCEPT ![h] = Request("node", req[h].now, 0)]
        /\ req[h].at = "loadtime"
        /\ UNCHANGED <<world, memory, shared>>
    BY DEF MeasureNode, At
  <1>2. /\ req' \in [Handlers -> Requests]
        /\ req'[h].at = "node" /\ req'[h].now = req[h].now
        /\ \A g \in Handlers \ {h} : req'[g] = req[g]
    BY <1>1, InHand, RequestStep DEF Stages
  <1>3. StatsTypeOK' /\ MemoryOfPast'
    BY <1>1, <1>2, InHand, TypeKept, MemoryKept DEF memory
  <1>4. RequestOfPast(h)'
    BY <1>1, <1>2, InHand DEF RequestOfPast, Past, world, memory
  <1>5. LoneInOrder(h)'
    BY <1>2 DEF LoneInOrder
  <1> QED
    BY <1>1, <1>2, <1>3, <1>4, <1>5, OwnStep DEF Active, memory

\* Both ways a request ends.
LEMMA AnswerInv ==
  ASSUME StatsInv, NEW h \in Handlers, ReadStatFails(h) \/ StorePrevNodeStat(h)
  PROVE  StatsInv'
  <1>1. /\ req' = [req EXCEPT ![h] = Request("idle", None, 0)]
        /\ req[h].at # "idle"
        /\ UNCHANGED <<world, prevStats, shared>>
    BY DEF ReadStatFails, StorePrevNodeStat, At, Idle, memory
  <1>2. \/ prevNodeStat' = prevNodeStat
        \/ /\ prevNodeStat' = req[h].now /\ req[h].now # None
           /\ req[h].now.id = NodeId /\ Past(req[h].now)
    BY InHand DEF ReadStatFails, StorePrevNodeStat, At, RequestOfPast, memory
  <1>3. /\ req' \in [Handlers -> Requests]
        /\ req'[h].at = "idle" /\ req'[h].now = None
        /\ \A g \in Handlers \ {h} : req'[g] = req[g]
    BY <1>1, RequestStep DEF Stages
  <1>4. StatsTypeOK'
    BY <1>1, <1>2, <1>3, InHand, TypeKept
  <1>5. MemoryOfPast'
    BY <1>1, <1>2, InHand DEF MemoryOfPast, Past, world
  <1>6. RequestOfPast(h)' /\ LoneInOrder(h)'
    BY <1>3 DEF RequestOfPast, LoneInOrder
  <1> QED
    BY <1>1, <1>2, <1>3, <1>4, <1>5, <1>6, OwnStep DEF Active

-----------------------------------------------------------------------------
(* The theorems *)

LEMMA NextStatsInv == StatsInv /\ [KubeNext]_allVars => StatsInv'
  <1> SUFFICES ASSUME StatsInv, [KubeNext]_allVars PROVE StatsInv'
    OBVIOUS
  <1>1. CASE CertStep
    <2>1. CASE Forget
      BY <2>1, ForgetStatsInv
    <2>2. CASE UNCHANGED statVars
      <3>1. UNCHANGED <<memory, req, shared>> /\ UNCHANGED world
        BY <2>2 DEF statVars
      <3>2. StatsTypeOK' /\ \A r \in Readings : Past(r) => Past(r)'
        BY <3>1 DEF StatsInv, StatsTypeOK, Past, world, memory
      <3> QED
        BY <3>1, <3>2, WorldStep
    <2> QED
      BY <1>1, <2>1, <2>2 DEF CertStep
  <1>2. CASE StatStep
    BY <1>2, TimePassesInv, ReplaceContainerInv, GetAllStatsInv, MeasureContainerInv,
       StorePrevStatsInv, ReadStatInv, ReadClockInv, LoadPrevCpuInv, MeasureNodeInv,
       AnswerInv
    DEF StatStep, GetStatsSummary
  <1>3. CASE UNCHANGED allVars
    <2>1. UNCHANGED <<memory, req, shared>> /\ UNCHANGED world
      BY <1>3 DEF allVars, statVars
    <2>2. StatsTypeOK' /\ \A r \in Readings : Past(r) => Past(r)'
      BY <2>1 DEF StatsInv, StatsTypeOK, Past, world, memory
    <2> QED
      BY <2>1, <2>2, WorldStep
  <1> QED
    BY <1>1, <1>2, <1>3 DEF KubeNext

LEMMA InvGivesReal == StatsInv => LoneUsageIsReal
  <1> SUFFICES ASSUME StatsInv, NEW h \in Handlers, ~shared[h]
               PROVE  /\ req[h].at = "read" /\ Remembered(req[h].now.id) # None =>
                           IsReal(ContainerUsage(h), req[h].now, prevStats)
                      /\ req[h].at = "loadtime" =>
                           IsReal(NodeUsage(h), req[h].now, NodeBase(h))
    BY DEF LoneUsageIsReal
  <1>1. \A t \in Nat : t <= clock => t < Word
    BY ReadNow, ClockFits
  <1>2. ASSUME req[h].at = "read", Remembered(req[h].now.id) # None
        PROVE  IsReal(ContainerUsage(h), req[h].now, prevStats)
    <2>1. /\ prevStats # None /\ prevStats.id = req[h].now.id
          /\ Remembered(req[h].now.id) = prevStats
      BY <1>2 DEF Remembered
    <2>2. /\ prevStats \in Readings
          /\ req[h].now \in Readings /\ Past(req[h].now)
          /\ prevStats.cpu <= req[h].now.cpu /\ prevStats.time <= req[h].now.time
      BY <1>2, <2>1, InHand DEF RequestOfPast, LoneInOrder
    <2>3. req[h].now.cpu < Word /\ req[h].now.time < Word
      BY <1>1, <2>2 DEF Past, Readings
    <2> QED
      BY <2>1, <2>2, <2>3, OrderedUsageIsReal DEF ContainerUsage
  <1>3. ASSUME req[h].at = "loadtime"
        PROVE  IsReal(NodeUsage(h), req[h].now, NodeBase(h))
    <2>1. /\ prevNodeStat \in Readings
          /\ req[h].now \in Readings /\ Past(req[h].now)
          /\ req[h].prevCpu = prevNodeStat.cpu
          /\ prevNodeStat.cpu <= req[h].now.cpu /\ prevNodeStat.time <= req[h].now.time
      BY <1>3, InHand DEF RequestOfPast, LoneInOrder
    <2>2. /\ NodeBase(h) \in Readings
          /\ NodeBase(h).cpu = prevNodeStat.cpu /\ NodeBase(h).time = prevNodeStat.time
      BY <2>1 DEF NodeBase, Reading, Readings, NodeId
    <2>3. req[h].now.cpu < Word /\ req[h].now.time < Word
      BY <1>1, <2>1 DEF Past, Readings
    <2> QED
      BY <2>1, <2>2, <2>3, OrderedUsageIsReal DEF NodeUsage
  <1> QED
    BY <1>2, <1>3

\* A request no other one overlaps reports real rates (GetStatsSummary,
\* calculateCPUFraction), whatever the certificate flow and other requests did
\* before.
THEOREM LoneUsageIsRealThm == KubeSpec => []LoneUsageIsReal
  <1>1. KubeInit => StatsInv
    BY InitStatsInv
  <1>2. StatsInv /\ [KubeNext]_allVars => StatsInv'
    BY NextStatsInv
  <1>3. StatsInv => LoneUsageIsReal
    BY InvGivesReal
  <1> QED
    BY <1>1, <1>2, <1>3, PTL DEF KubeSpec

-----------------------------------------------------------------------------
(* Usages that stay within the machine *)

LEMMA QuotientBelow ==
  ASSUME NEW n \in Nat, NEW d \in Nat \ {0}, NEW q \in Nat, n < (q + 1) * d
  PROVE  n \div d <= q
  <1> DEFINE r == n \div d
  <1>1. r \in Nat /\ r * d <= n
    OBVIOUS
  <1> HIDE DEF r
  <1> SUFFICES ASSUME r > q PROVE FALSE
    BY <1>1 DEF r
  <1>2. r - q - 1 \in Nat
    BY <1>1
  <1>3. (r - q - 1) * d >= 0
    BY <1>2
  <1>4. (r - q - 1) * d = r * d - (q + 1) * d
    BY <1>1
  <1>5. r * d \in Int /\ (q + 1) * d \in Int
    BY <1>1
  <1> QED
    BY <1>1, <1>3, <1>4, <1>5

\* A product keeps the order of its factors.
LEMMA ProductGrows ==
  ASSUME NEW a \in Nat, NEW b \in Nat, NEW c \in Nat, a <= b
  PROVE  a * c \in Nat /\ b * c \in Nat /\ a * c <= b * c
  <1>1. (b - a) * c >= 0
    OBVIOUS
  <1>2. (b - a) * c = b * c - a * c
    OBVIOUS
  <1>3. a * c \in Nat /\ b * c \in Nat
    OBVIOUS
  <1> QED
    BY <1>1, <1>2, <1>3

\* What a difference below zero is as a word.
LEMMA Wraps ==
  ASSUME NEW a \in Nat, NEW b \in Nat, a < b, b < Word
  PROVE  (a - b) % Word = Word - (b - a)
  <1>1. Word \in Nat \ {0}
    BY StatsAssumption
  <1>2. Word - (b - a) \in 0..(Word - 1)
    BY <1>1
  <1>3. a - b = Word - (b - a) + (-1) * Word
    BY <1>1
  <1> QED
    BY <1>1, <1>2, <1>3

\* In order: what was used is no more than there was.
LEMMA OrderedWithin ==
  ASSUME NEW c \in Nat, NEW t \in Nat \ {0}, c <= Cores * t
  PROVE  (c * Unit) \div t <= Cores * Unit
  <1>1. Cores \in Nat \ {0} /\ Unit \in Nat \ {0}
    BY StatsAssumption
  <1>2. /\ c * Unit \in Nat /\ Cores * t \in Nat
        /\ c * Unit <= (Cores * t) * Unit
    BY <1>1, ProductGrows
  <1>3. (Cores * Unit + 1) * t = (Cores * t) * Unit + t
    BY <1>1
  <1>4. Cores * Unit \in Nat /\ (Cores * t) * Unit \in Nat
    BY <1>1
  <1>5. c * Unit < (Cores * Unit + 1) * t
    BY <1>2, <1>3, <1>4
  <1> QED
    BY <1>2, <1>4, <1>5, QuotientBelow

\* Out of order: two differences that wrap are a little less than Word both.
LEMMA WrappedWithin ==
  ASSUME NEW c \in Nat \ {0}, NEW t \in Nat \ {0}, c < Word, t <= MaxClock,
         Cores >= 2 \/ (Unit + 1) * t < Word
  PROVE  ((Word - c) * Unit) \div (Word - t) <= Cores * Unit
  <1>1. /\ Cores \in Nat \ {0} /\ Unit \in Nat \ {0} /\ Word \in Nat \ {0}
        /\ MaxClock \in Nat /\ MaxClock < Word
    BY StatsAssumption, ClockFits
  <1>2. Word - c \in Nat /\ Word - c <= Word - 1 /\ Word - t \in Nat \ {0} /\ Word - 1 \in Nat
    BY <1>1
  <1> DEFINE n == (Word - c) * Unit
             d == Word - t
  <1>3. n \in Nat /\ d \in Nat \ {0} /\ n <= (Word - 1) * Unit
    BY <1>1, <1>2, ProductGrows
  <1>4. (Word - 1) * Unit = Word * Unit - Unit /\ Word * Unit \in Nat
    BY <1>1
  <1>5. CASE (Unit + 1) * t < Word
    <2>1. (Unit + 1) * d = Word * Unit + Word - (Unit + 1) * t
      BY <1>1
    <2>2. (Unit + 1) * t \in Nat /\ (Unit + 1) * d \in Int
      BY <1>1, <1>3
    <2> HIDE DEF n, d
    <2>3. n < (Unit + 1) * d
      BY <1>1, <1>3, <1>4, <1>5, <2>1, <2>2
    <2>4. n \div d <= Unit
      BY <1>1, <1>3, <2>3, QuotientBelow
    <2>5. n \div d \in Nat
      BY <1>3
    <2>6. 1 * Unit <= Cores * Unit /\ 1 * Unit = Unit /\ Cores * Unit \in Nat
      BY <1>1, ProductGrows
    <2>7. n \div d <= Cores * Unit
      BY <1>1, <2>4, <2>5, <2>6
    <2> QED
      BY <2>7 DEF n, d
  <1>6. CASE Cores >= 2
    <2>1. 2 * t < Word
      <3>1. 2 * MaxClock <= Cores * MaxClock /\ Cores * MaxClock < Word
        BY <1>1, <1>6, ProductGrows, StatsAssumption
      <3>2. 2 * t <= 2 * MaxClock
        BY <1>1
      <3>3. Cores * MaxClock \in Nat
        BY <1>1
      <3> QED
        BY <1>1, <3>1, <3>2, <3>3
    <2>2. Word <= 2 * d /\ 2 * d \in Nat
      BY <1>1, <1>3, <2>1
    <2>3. Word * Unit <= (2 * d) * Unit
      BY <1>1, <2>2, ProductGrows
    <2>4. (2 * Unit + 1) * d = (2 * d) * Unit + d /\ (2 * d) * Unit \in Nat
      BY <1>1, <1>3
    <2> HIDE DEF n, d
    <2>5. n < (2 * Unit + 1) * d
      BY <1>1, <1>3, <1>4, <2>3, <2>4
    <2>6. n \div d <= 2 * Unit
      BY <1>1, <1>3, <2>5, QuotientBelow
    <2>7. n \div d \in Nat
      BY <1>3
    <2>8. 2 * Unit <= Cores * Unit /\ Cores * Unit \in Nat
      BY <1>1, <1>6, ProductGrows
    <2>9. n \div d <= Cores * Unit
      BY <1>1, <2>6, <2>7, <2>8
    <2> QED
      BY <2>9 DEF n, d
  <1> QED
    BY <1>5, <1>6

LEMMA UsageWithin ==
  ASSUME NEW now \in Readings, NEW base \in Readings, InStep(now, base), InStep(base, now),
         now.cpu < Word, base.cpu < Word, now.time <= MaxClock, base.time <= MaxClock,
         Cores >= 2 \/ (Unit + 1) * (base.time - now.time) < Word
  PROVE  Usage(now, base) <= Cores * Unit
  <1>1. /\ now.cpu \in Nat /\ now.time \in Nat /\ base.cpu \in Nat /\ base.time \in Nat
        /\ now.time < Word /\ base.time < Word
        /\ Cores \in Nat \ {0} /\ Unit \in Nat \ {0} /\ Word \in Nat \ {0} /\ MaxClock \in Nat
    BY ClockFits, StatsAssumption DEF Readings
  <1> DEFINE dc == (now.cpu - base.cpu) % Word
             dt == (now.time - base.time) % Word
  <1>2. /\ Usage(now, base) = IF dt > 0 /\ dc > 0 THEN (dc * Unit) \div dt ELSE 0
        /\ 0 <= Cores * Unit
    BY <1>1, NoneIsNoReading DEF Usage, CPUFraction
  <1>3. CASE base.time <= now.time
    <2>1. /\ base.cpu <= now.cpu /\ now.cpu - base.cpu <= Cores * (now.time - base.time)
      BY <1>3 DEF InStep
    <2>2. dc = now.cpu - base.cpu /\ dt = now.time - base.time
      BY <1>1, <1>3, <2>1, NoWrap
    <2>3. ASSUME dt > 0 PROVE (dc * Unit) \div dt <= Cores * Unit
      <3>1. dc \in Nat /\ dt \in Nat \ {0} /\ dc <= Cores * dt
        BY <1>1, <1>3, <2>1, <2>2, <2>3
      <3> HIDE DEF dc, dt
      <3> QED
        BY <3>1, OrderedWithin
    <2> HIDE DEF dc, dt
    <2> QED
      BY <1>2, <2>3
  <1>4. CASE now.time < base.time
    <2> DEFINE c == base.cpu - now.cpu
               t == base.time - now.time
    <2>1. c \in Nat /\ t \in Nat \ {0} /\ c < Word /\ t <= MaxClock
      BY <1>1, <1>4 DEF InStep
    <2>2. dt = Word - t
      BY <1>1, <1>4, Wraps
    <2>3. CASE c = 0
      <3>1. now.cpu = base.cpu
        BY <1>1, <2>3
      <3>2. dc = 0
        BY <1>1, <3>1, NoWrap
      <3> HIDE DEF dc, dt
      <3> QED
        BY <1>2, <3>2
    <2>4. CASE c # 0
      <3>1. now.cpu < base.cpu
        BY <1>1, <2>1, <2>4
      <3>2. dc = Word - c
        BY <1>1, <3>1, Wraps
      <3> HIDE DEF dc, dt
      <3>3. Cores >= 2 \/ (Unit + 1) * t < Word
        OBVIOUS
      <3> HIDE DEF c, t
      <3> QED
        BY <1>2, <2>1, <2>2, <2>4, <3>2, <3>3, WrappedWithin
    <2> QED
      BY <2>3, <2>4
  <1> QED
    BY <1>1, <1>3, <1>4

-----------------------------------------------------------------------------
(* Readings stay in step *)

LEMMA ReadingsInHand ==
  ASSUME StatsInv, NEW a \in ContainerReadings
  PROVE  a \in Readings /\ Past(a)
  <1>1. CASE a = prevStats
    BY <1>1 DEF ContainerReadings, StatsInv, StatsTypeOK, MemoryOfPast
  <1>2. CASE a \in Reports
    <2>1. PICK h \in Handlers : req[h].at \in {"read", "measured"} /\ a = req[h].now
      BY <1>2 DEF Reports
    <2> QED
      BY <2>1, InHand DEF ContainerReadings, RequestOfPast
  <1> QED
    BY <1>1, <1>2 DEF ContainerReadings

LEMMA NoReadings ==
  ASSUME prevStats = None, \A h \in Handlers : req[h].at = "idle"
  PROVE  RatesInv
  <1>1. ContainerReadings = {}
    BY DEF ContainerReadings, Reports
  <1> QED
    BY <1>1 DEF RatesInv

LEMMA FewerReadings ==
  ASSUME RatesInv, UNCHANGED world, ContainerReadings' \subseteq ContainerReadings
  PROVE  RatesInv'
  BY DEF RatesInv, InStep, world

\* A request that hands over what it has, or drops it.
LEMMA HandOver ==
  ASSUME NEW h \in Handlers,
         \A g \in Handlers \ {h} : req'[g] = req[g],
         req'[h].at \in {"read", "measured"} =>
           req[h].at \in {"read", "measured"} /\ req'[h].now = req[h].now,
         \/ prevStats' = prevStats
         \/ req[h].at \in {"read", "measured"} /\ prevStats' = req[h].now
  PROVE  ContainerReadings' \subseteq ContainerReadings
  <1>1. Reports' \subseteq Reports
    BY DEF Reports
  <1>2. prevStats' \in {prevStats} \union Reports
    BY DEF Reports
  <1> QED
    BY <1>1, <1>2 DEF ContainerReadings

LEMMA TimePassesInStep ==
  ASSUME StatsInv, RatesInv, TimePasses
  PROVE  RatesInv'
  <1>1. PICK c \in 0..Cores : conCpu' = conCpu + c
    BY DEF TimePasses
  <1>2. /\ clock' = clock + 1 /\ container' = container
        /\ ContainerReadings' = ContainerReadings
    BY DEF TimePasses, memory, ContainerReadings, Reports
  <1>3. Cores \in Nat /\ clock \in Nat /\ conCpu \in Nat
    BY ClockFits, ReadNow
  <1>4. ASSUME NEW a \in ContainerReadings, a.id = container
        PROVE  InStep(a, Reading(container, conCpu', clock'))
    <2>1. a.time \in Nat /\ a.cpu \in Nat /\ a.time <= clock
      BY <1>4, ReadingsInHand DEF Readings, Past
    <2>2. a.cpu <= conCpu /\ conCpu - a.cpu <= Cores * (clock - a.time)
      BY <1>4, <2>1 DEF RatesInv, InStep, Reading
    <2>3. Cores * (clock + 1 - a.time) = Cores * (clock - a.time) + Cores
      BY <1>3, <2>1
    <2>4. Cores * (clock - a.time) \in Int
      BY <1>3, <2>1
    <2>5. a.cpu <= conCpu + c /\ (conCpu + c) - a.cpu <= Cores * (clock + 1 - a.time)
      BY <1>1, <1>3, <2>1, <2>2, <2>3, <2>4
    <2>6. a.cpu <= conCpu' /\ conCpu' - a.cpu <= Cores * (clock' - a.time)
      BY <1>1, <1>2, <1>3, <2>1, <2>5
    <2> QED
      BY <2>6 DEF InStep, Reading
  <1> QED
    BY <1>2, <1>4 DEF RatesInv, InStep, Reading

LEMMA ReplacedInStep ==
  ASSUME StatsInv, RatesInv, ReplaceContainer
  PROVE  RatesInv'
  <1>1. /\ container' = container + 1 /\ container \in Nat
        /\ ContainerReadings' = ContainerReadings
    BY ReadNow DEF ReplaceContainer, memory, ContainerReadings, Reports
  <1>2. \A a \in ContainerReadings : a.id # container'
    BY <1>1, ReadingsInHand DEF Readings, Past
  <1> QED
    BY <1>1, <1>2 DEF RatesInv, InStep

LEMMA GetAllStatsInStep ==
  ASSUME StatsInv, RatesInv, NEW h \in Handlers, GetAllStats(h)
  PROVE  RatesInv'
  <1> DEFINE fresh == Reading(container, conCpu, clock)
  <1>1. PICK now \in {fresh, None} :
          req' = [req EXCEPT ![h] =
                    Request(IF now = None THEN "measured" ELSE "read", now, 0)]
    BY DEF GetAllStats
  <1>2. UNCHANGED world /\ prevStats' = prevStats /\ req \in [Handlers -> Requests]
    BY DEF GetAllStats, memory, StatsInv, StatsTypeOK
  <1>3. req'[h].now = now /\ \A g \in Handlers \ {h} : req'[g] = req[g]
    BY <1>1, <1>2 DEF Request
  <1>4. ContainerReadings' \subseteq ContainerReadings \union {fresh}
    <2>1. Reports' \subseteq Reports \union {fresh, None}
      BY <1>1, <1>3 DEF Reports
    <2> QED
      BY <1>2, <2>1 DEF ContainerReadings
  <1>5. /\ fresh.id = container /\ fresh.cpu = conCpu /\ fresh.time = clock
        /\ Cores \in Nat /\ clock \in Nat /\ conCpu \in Nat
    BY ClockFits, ReadNow DEF Reading
  <1>6. InStep(fresh, fresh)
    BY <1>5 DEF InStep
  <1>7. ASSUME NEW a \in ContainerReadings, a.id = container
        PROVE  InStep(a, fresh) /\ InStep(fresh, a)
    <2>1. a.time \in Nat /\ a.cpu \in Nat /\ a.time <= clock
      BY <1>7, ReadingsInHand DEF Readings, Past
    <2>2. InStep(a, fresh)
      BY <1>7 DEF RatesInv
    <2>3. ASSUME fresh.time <= a.time PROVE fresh.cpu = a.cpu /\ a.time = fresh.time
      <3>1. a.time = clock
        BY <1>5, <2>1, <2>3
      <3>2. Cores * (clock - a.time) = 0
        BY <1>5, <3>1
      <3> QED
        BY <1>5, <2>1, <2>2, <3>1, <3>2 DEF InStep
    <2>4. Cores * (a.time - a.time) = 0
      BY <1>5, <2>1
    <2>5. InStep(fresh, a)
      BY <1>5, <2>1, <2>3, <2>4 DEF InStep
    <2> QED
      BY <2>2, <2>5
  <1> HIDE DEF fresh
  <1>8. \A a, b \in ContainerReadings \union {fresh} : a.id = b.id => InStep(a, b)
    BY <1>5, <1>6, <1>7 DEF RatesInv
  <1>9. \A a \in ContainerReadings \union {fresh} : a.id = container => InStep(a, fresh)
    BY <1>6, <1>7
  <1>10. Reading(container, conCpu, clock)' = fresh
    BY <1>2 DEF fresh, world, Reading
  <1> QED
    BY <1>2, <1>4, <1>8, <1>9, <1>10 DEF RatesInv, world, InStep

\* The other steps of a request.
LEMMA RequestInStep ==
  ASSUME StatsInv, RatesInv, NEW h \in Handlers,
         GetStatsSummary(h), ~GetAllStats(h)
  PROVE  RatesInv'
  <1>1. req \in [Handlers -> Requests]
    BY DEF StatsInv, StatsTypeOK
  <1> USE <1>1 DEF Request, At, memory
  <1>2. CASE MeasureContainer(h)
    <2>1. ContainerReadings' \subseteq ContainerReadings
      BY <1>2, HandOver DEF MeasureContainer
    <2> QED
      BY <1>2, <2>1, FewerReadings DEF MeasureContainer
  <1>3. CASE StorePrevStats(h)
    <2>1. ContainerReadings' \subseteq ContainerReadings
      BY <1>3, HandOver DEF StorePrevStats
    <2> QED
      BY <1>3, <2>1, FewerReadings DEF StorePrevStats
  <1>4. CASE ReadStat(h) \/ ReadStatFails(h) \/ StorePrevNodeStat(h)
    <2>1. ContainerReadings' \subseteq ContainerReadings
      BY <1>4, HandOver DEF ReadStat, ReadStatFails, StorePrevNodeStat, Idle
    <2> QED
      BY <1>4, <2>1, FewerReadings DEF ReadStat, ReadStatFails, StorePrevNodeStat
  <1>5. CASE ReadClock(h) \/ LoadPrevCpu(h) \/ MeasureNode(h)
    <2>1. ContainerReadings' \subseteq ContainerReadings
      BY <1>5, HandOver DEF ReadClock, LoadPrevCpu, MeasureNode
    <2> QED
      BY <1>5, <2>1, FewerReadings DEF ReadClock, LoadPrevCpu, MeasureNode
  <1> QED
    BY <1>2, <1>3, <1>4, <1>5 DEF GetStatsSummary

LEMMA InitRates == KubeInit => RatesInv
  BY NoReadings DEF KubeInit, Fresh, Idle, Request

LEMMA ForgetRates == Forget => RatesInv'
  <1> SUFFICES ASSUME Forget PROVE RatesInv'
    OBVIOUS
  <1>1. ContainerReadings' = {}
    BY DEF Forget, ContainerReadings, Reports, Idle, Request
  <1> QED
    BY <1>1 DEF RatesInv

LEMMA NextRates == StatsInv /\ RatesInv /\ [KubeNext]_allVars => RatesInv'
  <1> SUFFICES ASSUME StatsInv, RatesInv, [KubeNext]_allVars PROVE RatesInv'
    OBVIOUS
  <1>1. CASE UNCHANGED statVars
    <2>1. UNCHANGED world /\ ContainerReadings' = ContainerReadings
      BY <1>1 DEF statVars, memory, ContainerReadings, Reports
    <2> QED
      BY <2>1, FewerReadings
  <1>2. CASE Forget
    BY <1>2, ForgetRates
  <1>3. CASE StatStep
    BY <1>3, TimePassesInStep, ReplacedInStep, GetAllStatsInStep, RequestInStep
       DEF StatStep
  <1> QED
    BY <1>1, <1>2, <1>3 DEF KubeNext, CertStep, allVars

LEMMA InvGivesUsage ==
  ASSUME StatsInv, RatesInv, NEW h \in Handlers, req[h].at = "read", Covered(h)
  PROVE  ContainerUsage(h) <= Cores * Unit
  <1> DEFINE now == req[h].now
  <1>1. now \in Readings /\ Past(now) /\ now \in ContainerReadings
    BY InHand DEF RequestOfPast, ContainerReadings, Reports
  <1>2. CASE Remembered(now.id) = None
    <2>1. Cores * Unit \in Nat
      BY StatsAssumption
    <2> QED
      BY <1>2, <2>1 DEF ContainerUsage, Usage
  <1>3. CASE Remembered(now.id) # None
    <2>1. /\ prevStats # None /\ prevStats.id = now.id /\ Remembered(now.id) = prevStats
      BY <1>3 DEF Remembered
    <2>2. prevStats \in Readings /\ Past(prevStats) /\ prevStats \in ContainerReadings
      BY <2>1, InHand DEF MemoryOfPast, ContainerReadings
    <2>3. InStep(now, prevStats) /\ InStep(prevStats, now)
      BY <1>1, <2>1, <2>2 DEF RatesInv
    <2>4. clock \in Nat /\ clock <= MaxClock /\ MaxClock \in Nat
      BY ClockFits DEF StatsInv, StatsTypeOK
    <2>5. /\ now.cpu < Word /\ prevStats.cpu < Word
          /\ now.time <= MaxClock /\ prevStats.time <= MaxClock
      BY <1>1, <2>2, <2>4 DEF Past, Readings
    <2>6. Cores >= 2 \/ (Unit + 1) * (prevStats.time - now.time) < Word
      BY <1>3 DEF Covered
    <2> QED
      BY <1>1, <2>1, <2>2, <2>3, <2>5, <2>6, UsageWithin DEF ContainerUsage
  <1> QED
    BY <1>2, <1>3

\* No container is reported to use more than the machine has (calculateCPUFraction
\* over ka.prevStats), whatever requests run at once and whichever order they
\* store their readings in: on any machine of several cores, and on one of a
\* single core when the reading to compare with is not so far ahead that the
\* quotient of two wrapped differences rounds up.
THEOREM CoveredUsageWithinCores ==
  KubeSpec => [](\A h \in Handlers :
                   req[h].at = "read" /\ Covered(h) => ContainerUsage(h) <= Cores * Unit)
  <1>1. KubeInit => StatsInv /\ RatesInv
    BY InitStatsInv, InitRates
  <1>2. StatsInv /\ RatesInv /\ [KubeNext]_allVars => StatsInv' /\ RatesInv'
    BY NextStatsInv, NextRates
  <1>3. StatsInv /\ RatesInv =>
          \A h \in Handlers :
            req[h].at = "read" /\ Covered(h) => ContainerUsage(h) <= Cores * Unit
    BY InvGivesUsage
  <1> QED
    BY <1>1, <1>2, <1>3, PTL DEF KubeSpec

\* So for every request, where a process lives short enough for the single core.
THEOREM UsageWithinCoresThm ==
  ASSUME Cores >= 2 \/ (Unit + 1) * MaxClock < Word
  PROVE  KubeSpec => []UsageWithinCores
  <1>1. StatsInv => \A h \in Handlers : req[h].at = "read" => Covered(h)
    <2> SUFFICES ASSUME StatsInv, NEW h \in Handlers, req[h].at = "read",
                        Remembered(req[h].now.id) # None, Cores < 2
                 PROVE  (Unit + 1) * (prevStats.time - req[h].now.time) < Word
      BY StatsAssumption DEF Covered
    <2>1. prevStats # None /\ prevStats \in Readings /\ Past(prevStats)
      BY InHand DEF Remembered, MemoryOfPast
    <2>2. req[h].now \in Readings
      BY InHand DEF RequestOfPast
    <2> DEFINE ahead == prevStats.time - req[h].now.time
    <2>3. ahead \in Int /\ ahead <= MaxClock /\ MaxClock \in Nat /\ Unit \in Nat /\ Word \in Nat \ {0}
      BY <2>1, <2>2, ClockFits, StatsAssumption DEF Past, Readings, StatsInv, StatsTypeOK
    <2> HIDE DEF ahead
    <2>4. (Unit + 1) * (MaxClock - ahead) >= 0
      BY <2>3
    <2>5. (Unit + 1) * (MaxClock - ahead) = (Unit + 1) * MaxClock - (Unit + 1) * ahead
      BY <2>3
    <2>6. (Unit + 1) * MaxClock \in Int /\ (Unit + 1) * ahead \in Int
      BY <2>3
    <2>7. (Unit + 1) * MaxClock < Word
      BY StatsAssumption
    <2>8. (Unit + 1) * ahead < Word
      BY <2>3, <2>4, <2>5, <2>6, <2>7
    <2> QED
      BY <2>8 DEF ahead
  <1>2. StatsInv /\ RatesInv => UsageWithinCores
    BY <1>1, InvGivesUsage DEF UsageWithinCores
  <1>3. KubeInit => StatsInv /\ RatesInv
    BY InitStatsInv, InitRates
  <1>4. StatsInv /\ RatesInv /\ [KubeNext]_allVars => StatsInv' /\ RatesInv'
    BY NextStatsInv, NextRates
  <1> QED
    BY <1>2, <1>3, <1>4, PTL DEF KubeSpec

\* Serving statistics takes nothing from the certificate flow: what is shown of
\* Spec (CertMatchesKey, GivesUpForCause) holds of KubeSpec (KubeApi.Run and the
\* handlers it installs).
THEOREM KubeApiRunsCertFlow == KubeSpec => Spec
  <1>1. KubeInit => Init
    BY DEF KubeInit
  <1>2. [KubeNext]_allVars => [Next]_vars
    BY DEF KubeNext, CertStep, StatStep, allVars
  <1> QED
    BY <1>1, <1>2, PTL DEF KubeSpec, Spec
=============================================================================
