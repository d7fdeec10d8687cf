------------------------------ MODULE KubeApi ------------------------------
(***************************************************************************)
(* The kubelet API of one process: CertFlow brings up the server, and the  *)
(* handlers of the requests it serves run GetStatsSummary at once, one     *)
(* goroutine each, on the two fields prevStats and prevNodeStat that no    *)
(* lock protects.  Both fields live as long as the process.                *)
(*                                                                         *)
(* A usage is the growth of a CPU counter over the growth of a clock       *)
(* between a reading and the one remembered, in words of Word values: a    *)
(* difference below zero wraps.  One container is followed, podman giving  *)
(* its successor another ID and a counter that starts again, and the node. *)
(* Memory, network and the other metrics are copied and left out.          *)
(*                                                                         *)
(* The wall clock goes on; podman reads a container's counter and clock at *)
(* one instant.  The HTTP port serves the same handler before HTTPS is up; *)
(* requests are explored once it is.                                       *)
(***************************************************************************)
EXTENDS CertFlow, Integers

CONSTANTS
  Handlers,      \* goroutines of net/http
  Cores,         \* CPU nanoseconds the machine can spend in a nanosecond
  Unit,          \* parts of a core a usage is counted in
  Word,          \* number of values of a uint64
  MaxClock,      \* bound: the clock in the life of a process
  MaxContainers  \* bound: containers made in the life of a process

ASSUME StatsAssumption ==
  /\ {Cores, Unit, Word, MaxClock, MaxContainers} \subseteq Nat \ {0}
  /\ Cores * MaxClock < Word
  /\ None \notin [id : Nat, cpu : Nat, time : Nat]

VARIABLES
  clock,        \* time since the process was started
  container,    \* ID of the container that runs
  conCpu,       \* its CPU counter
  nodeCpu,      \* that of /proc/stat
  prevStats,    \* KubeApi.prevStats: the reading it holds, or None
  prevNodeStat, \* KubeApi.prevNodeStat, or None
  req,          \* per handler: where it is, its reading, and what it loaded of
                \* the reading to compare with
  shared        \* history: another request ran during this one

world == <<clock, container, conCpu, nodeCpu>>
memory == <<prevStats, prevNodeStat>>
statVars == <<world, memory, req, shared>>
allVars == <<vars, statVars>>

Reading(id, cpu, time) == [id |-> id, cpu |-> cpu, time |-> time]
NodeId == 0
Request(at, now, prevCpu) == [at |-> at, now |-> now, prevCpu |-> prevCpu]
Idle == Request("idle", None, 0)
Active(h) == req[h].at # "idle"

-----------------------------------------------------------------------------
(* What is measured *)

\* Mutant of CPUFraction: now and previous in the wrong order.
CPUFraction_Swapped(now, base) ==
  LET cpuDelta == (base.cpu - now.cpu) % Word
      systemDelta == (base.time - now.time) % Word
  IN IF systemDelta > 0 /\ cpuDelta > 0 THEN (cpuDelta * Unit) \div systemDelta ELSE 0

\* The differences are taken between unsigned words, so that "> 0.0" only keeps
\* zero out.  (A fraction too large for uint64 stays as it is: what its
\* conversion gives is left to the machine.)
CPUFraction(now, base) ==
  LET cpuDelta == (now.cpu - base.cpu) % Word
      systemDelta == (now.time - base.time) % Word
  IN IF systemDelta > 0 /\ cpuDelta > 0 THEN (cpuDelta * Unit) \div systemDelta ELSE 0

Usage(now, base) == IF base = None THEN 0 ELSE CPUFraction(now, base)

\* Time passes; container and node spend what they like of it.
TimePasses ==
  /\ clock < MaxClock
  /\ clock' = clock + 1
  /\ \E c, n \in 0..Cores :
       /\ conCpu' = conCpu + c
       /\ nodeCpu' = nodeCpu + n
  /\ UNCHANGED <<container, memory, req, shared>>

\* The pod is replaced: another container, under the same name.
ReplaceContainer ==
  /\ container < MaxContainers
  /\ container' = container + 1
  /\ conCpu' = 0
  /\ UNCHANGED <<clock, nodeCpu, memory, req, shared>>

-----------------------------------------------------------------------------
(* GetStatsSummary *)

\* Bound: requests are explored in a process that came up on the files an
\* earlier one left, the request of which was cleaned away.  No handler reads
\* any of that.
Settled == pc = "serving" /\ csr = None /\ seen = None /\ ~wiped

At(h, stage) == req[h].at = stage

\* GetAllStats: podman's report of the container, or none when the pod has no
\* IDs yet.
GetAllStats(h) ==
  /\ At(h, "idle")
  /\ \E now \in {Reading(container, conCpu, clock), None} :
       req' = [req EXCEPT ![h] =
                 Request(IF now = None THEN "measured" ELSE "read", now, 0)]
  /\ shared' = [g \in Handlers |->
       IF g = h THEN \E o \in Handlers \ {h} : Active(o)
                ELSE Active(g) \/ shared[g]]
  /\ UNCHANGED <<world, memory>>

\* Mutant of Remembered: readings are kept by the name of the container.
Remembered_ByName(id) == prevStats

\* What ka.prevStats has for the ID of a report.
Remembered(id) ==
  IF prevStats # None /\ prevStats.id = id THEN prevStats ELSE None

\* UsageNanoCores of the container reported.
ContainerUsage(h) == Usage(req[h].now, Remembered(req[h].now.id))

MeasureContainer(h) ==
  /\ At(h, "read")
  /\ req' = [req EXCEPT ![h] = Request("measured", @.now, 0)]
  /\ UNCHANGED <<world, memory, shared>>

\* ka.prevStats = newStats: what was reported this time and nothing else.
StorePrevStats(h) ==
  /\ At(h, "measured")
  /\ prevStats' = req[h].now
  /\ req' = [req EXCEPT ![h] = Request("pods", None, 0)]
  /\ UNCHANGED <<world, prevNodeStat, shared>>

\* The CPU time of /proc/stat ...
ReadStat(h) ==
  /\ At(h, "pods")
  /\ req' = [req EXCEPT ![h] = Request("stat", Reading(NodeId, nodeCpu, 0), 0)]
  /\ UNCHANGED <<world, memory, shared>>

\* ... which may be unreadable: the answer then has no CPU of the node.
ReadStatFails(h) ==
  /\ At(h, "pods")
  /\ req' = [req EXCEPT ![h] = Idle]
  /\ UNCHANGED <<world, memory, shared>>

\* ... and, later, the time, and whether there is a reading to compare with.
ReadClock(h) ==
  /\ At(h, "stat")
  /\ req' = [req EXCEPT ![h] =
               Request(IF prevNodeStat = None THEN "node" ELSE "loadcpu",
                       Reading(NodeId, @.now.cpu, clock), 0)]
  /\ UNCHANGED <<world, memory, shared>>

\* The arguments are loaded through ka.prevNodeStat one after the other, and
\* another handler may put its own reading there in between.
LoadPrevCpu(h) ==
  /\ At(h, "loadcpu")
  /\ req' = [req EXCEPT ![h] = Request("loadtime", @.now, prevNodeStat.cpu)]
  /\ UNCHANGED <<world, memory, shared>>

\* UsageNanoCores of the node.
NodeBase(h) == Reading(NodeId, req[h].prevCpu, prevNodeStat.time)
NodeUsage(h) == Usage(req[h].now, NodeBase(h))

MeasureNode(h) ==
  /\ At(h, "loadtime")
  /\ req' = [req EXCEPT ![h] = Request("node", @.now, 0)]
  /\ UNCHANGED <<world, memory, shared>>

\* ka.prevNodeStat is replaced and the answer sent.
StorePrevNodeStat(h) ==
  /\ At(h, "node")
  /\ prevNodeStat' = req[h].now
  /\ req' = [req EXCEPT ![h] = Idle]
  /\ UNCHANGED <<world, prevStats, shared>>

GetStatsSummary(h) ==
  \/ GetAllStats(h)
  \/ MeasureContainer(h)
  \/ StorePrevStats(h)
  \/ ReadStat(h)
  \/ ReadStatFails(h)
  \/ ReadClock(h)
  \/ LoadPrevCpu(h)
  \/ MeasureNode(h)
  \/ StorePrevNodeStat(h)

-----------------------------------------------------------------------------
(* Together with the certificate flow *)

\* NewKubeApi: a process knows no readings.  Only differences matter, so that
\* counters may be counted from its start.
Fresh ==
  /\ clock = 0
  /\ container = 1
  /\ conCpu = 0
  /\ nodeCpu = 0
  /\ prevStats = None
  /\ prevNodeStat = None
  /\ req = [h \in Handlers |-> Idle]
  /\ shared = [h \in Handlers |-> FALSE]

KubeInit == Init /\ Fresh

\* What a process remembers ends with it.
Forget ==
  /\ clock' = 0
  /\ container' = 1
  /\ conCpu' = 0
  /\ nodeCpu' = 0
  /\ prevStats' = None
  /\ prevNodeStat' = None
  /\ req' = [h \in Handlers |-> Idle]
  /\ shared' = [h \in Handlers |-> FALSE]

CertStep ==
  /\ Next
  /\ IF pc' \in Ended THEN Forget ELSE UNCHANGED statVars

StatStep ==
  /\ Settled
  /\ TimePasses \/ ReplaceContainer \/ \E h \in Handlers : GetStatsSummary(h)
  /\ UNCHANGED vars

KubeNext == CertStep \/ StatStep

KubeSpec == KubeInit /\ [][KubeNext]_allVars

\* The fairness of CertFlow; nothing is assumed of requests.
KubeFairSpec ==
  /\ KubeSpec
  /\ WF_vars(RunSteps)
  /\ WF_vars(ApproveCsr)
  /\ WF_vars(IssueCertificate)

-----------------------------------------------------------------------------
(* Properties *)

\* Whatever requests run at once, whenever containers are replaced, no container
\* is reported to use more than the machine has.  (Readings in the wrong order
\* make both differences wrap, and their quotient is about one core.)
UsageWithinCores ==
  \A h \in Handlers : req[h].at = "read" => ContainerUsage(h) <= Cores * Unit

\* A usage is the rate of real use since base, as no difference wraps.
RealRate(now, base) ==
  IF now.time = base.time
    THEN 0
    ELSE ((now.cpu - base.cpu) * Unit) \div (now.time - base.time)

IsReal(usage, now, base) ==
  /\ base.cpu <= now.cpu
  /\ base.time <= now.time
  /\ usage = RealRate(now, base)

\* A request no other one overlaps reports real rates, of containers and of the
\* node, since a reading an earlier request made.  (Overlapping requests may
\* put the node's counter and its clock out of step, so that only one of the
\* differences wraps.)
LoneUsageIsReal ==
  \A h \in Handlers : ~shared[h] =>
    /\ req[h].at = "read" /\ Remembered(req[h].now.id) # None =>
         IsReal(ContainerUsage(h), req[h].now, prevStats)
    /\ req[h].at = "loadtime" =>
         IsReal(NodeUsage(h), req[h].now, NodeBase(h))

-----------------------------------------------------------------------------
(* The inductive invariant behind LoneUsageIsReal *)

Readings == [id : Nat, cpu : Nat, time : Nat]
Stages == {"idle", "read", "measured", "pods", "stat", "loadcpu", "loadtime",
           "node"}
Requests == [at : Stages, now : Readings \union {None}, prevCpu : Nat]

StatsTypeOK ==
  /\ clock \in 0..MaxClock
  /\ container \in Nat \ {NodeId}
  /\ conCpu \in 0..(Cores * clock)
  /\ nodeCpu \in 0..(Cores * clock)
  /\ prevStats \in Readings \union {None}
  /\ prevNodeStat \in Readings \union {None}
  /\ req \in [Handlers -> Requests]
  /\ shared \in [Handlers -> BOOLEAN]

\* A reading is of the past: of a counter that runs it has no more than that
\* counter, and of one that ran no more than it came to.
Past(r) ==
  /\ r.time <= clock
  /\ r.cpu < Word
  /\ r.id <= container
  /\ r.id = container => r.cpu <= conCpu
  /\ r.id = NodeId => r.cpu <= nodeCpu

MemoryOfPast ==
  /\ prevStats # None => prevStats.id # NodeId /\ Past(prevStats)
  /\ prevNodeStat # None => prevNodeStat.id = NodeId /\ Past(prevNodeStat)

RequestOfPast(h) ==
  /\ req[h].now # None => Past(req[h].now)
  /\ req[h].at = "read" => req[h].now # None
  /\ req[h].at \in {"read", "measured"} /\ req[h].now # None => req[h].now.id # NodeId
  /\ req[h].at \in {"stat", "loadcpu", "loadtime", "node"} =>
       req[h].now # None /\ req[h].now.id = NodeId
  /\ req[h].at \in {"loadcpu", "loadtime"} => prevNodeStat # None

\* Two requests under way know of each other.
OverlapIsShared ==
  \A h, o \in Handlers : h # o /\ Active(h) /\ Active(o) => shared[h]

\* What a lone request compares its reading with was read before.
LoneInOrder(h) ==
  /\ req[h].at = "read" /\ prevStats # None /\ prevStats.id = req[h].now.id =>
       prevStats.cpu <= req[h].now.cpu /\ prevStats.time <= req[h].now.time
  /\ req[h].at = "stat" /\ prevNodeStat # None => prevNodeStat.cpu <= req[h].now.cpu
  /\ req[h].at \in {"loadcpu", "loadtime"} =>
       prevNodeStat.cpu <= req[h].now.cpu /\ prevNodeStat.time <= req[h].now.time
  /\ req[h].at = "loadtime" => req[h].prevCpu = prevNodeStat.cpu

StatsInv ==
  /\ StatsTypeOK
  /\ MemoryOfPast
  /\ \A h \in Handlers : RequestOfPast(h)
  /\ OverlapIsShared
  /\ \A h \in Handlers : ~shared[h] => LoneInOrder(h)

-----------------------------------------------------------------------------
(* The inductive invariant behind UsageWithinCores *)

\* Readings of a container that are remembered, or in the hand of a request.
Reports == {req[h].now : h \in {g \in Handlers : req[g].at \in {"read", "measured"}}}
ContainerReadings == ({prevStats} \union Reports) \ {None}

\* The counter did not go back, nor faster than the machine can.
InStep(a, b) ==
  a.time <= b.time => a.cpu <= b.cpu /\ b.cpu - a.cpu <= Cores * (b.time - a.time)

\* Any two readings of one container are in step, and with the counter as it is.
RatesInv ==
  /\ \A a, b \in ContainerReadings : a.id = b.id => InStep(a, b)
  /\ \A a \in ContainerReadings : a.id = container => InStep(a, Reading(container, conCpu, clock))

\* A machine of several cores always covers what two wrapped differences come to;
\* a single one does while the reading to compare with is not too far ahead.
Covered(h) ==
  \/ Cores >= 2
  \/ Remembered(req[h].now.id) = None
  \/ (Unit + 1) * (prevStats.time - req[h].now.time) < Word
=============================================================================
