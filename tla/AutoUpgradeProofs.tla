------------------------- MODULE AutoUpgradeProofs -------------------------
(* Theorems about AutoUpgrade, for any versions, offers and ConfigMaps.    *)
EXTENDS AutoUpgrade, TLAPS

LEMMA InfoType ==
  ASSUME NEW content PROVE Info(content) \in Offers \union {Nil}
  BY DEF Info

\* What is eligible has a version, and a higher one.
LEMMA EligibleVersion ==
  ASSUME NEW release, NEW version, Eligible(release, version)
  PROVE  release.version \in Versions /\ version < release.version
  BY DEF Eligible

LEMMA EnqueueType ==
  ASSUME NEW n, NEW release \in Offers \union {Nil},
         events \in Seq(Offers \union {Nil}), Enqueue(n, release)
  PROVE  events' \in Seq(Offers \union {Nil})
  BY DEF Enqueue

LEMMA NoEvents == <<>> \in Seq(Offers \union {Nil})
  OBVIOUS

LEMMA PkgType ==
  ASSUME TypeOK
  PROVE  /\ pkg.version \in Versions
         /\ \A st \in PkgStates : [pkg EXCEPT !.state = st] \in
                                    [version : Versions, state : PkgStates]
  BY DEF TypeOK

LEMMA InitUpgradeInv == Init => UpgradeInv
  <1> SUFFICES ASSUME Init PROVE UpgradeInv
    OBVIOUS
  <1>1. TypeOK
    <2>1. pkg \in [version : Versions, state : PkgStates]
      BY DEF Init, PkgStates
    <2>2. changes \in 0 .. MaxChanges
      BY UpgradeAssumption DEF Init
    <2> QED
      BY <2>1, <2>2, NoEvents DEF Init, TypeOK
  <1> QED
    BY <1>1 DEF Init, UpgradeInv, InstallsEligible, TimerForTarget, OneInstall,
                SelfIsInstalled

LEMMA NextTypeOK ==
  ASSUME TypeOK, InstallsEligible, [Next]_vars PROVE TypeOK'
  <1> USE UpgradeAssumption
      DEF TypeOK, Listening, PkgStates, process, package
  <1>1. ASSUME NEW n \in ConfigMaps, PutConfigMap(n) PROVE TypeOK'
    <2> PICK content \in Contents \ {maps[n]} :
          /\ maps' = [maps EXCEPT ![n] = content]
          /\ Enqueue(n, Info(content))
      BY <1>1 DEF PutConfigMap
    <2>1. events' \in Seq(Offers \union {Nil})
      BY InfoType, EnqueueType
    <2> QED
      BY <1>1, <2>1 DEF PutConfigMap, Change
  <1>2. ASSUME NEW n \in ConfigMaps, DeleteConfigMap(n) PROVE TypeOK'
    <2>1. events' \in Seq(Offers \union {Nil})
      BY <1>2, EnqueueType DEF DeleteConfigMap
    <2> QED
      BY <1>2, <2>1 DEF DeleteConfigMap, Change
  <1>3. ASSUME NEW n \in ConfigMaps, DeleteMissed(n) PROVE TypeOK'
    BY <1>3 DEF DeleteMissed, Change
  <1>4. CASE Resync
    <2>1. events' \in Seq(Offers \union {Nil})
      BY <1>4, InfoType, EnqueueType DEF Resync
    <2> QED
      BY <1>4, <2>1 DEF Resync
  <1>5. CASE Start
    <2>1. <<Info(maps[Watched])>> \in Seq(Offers \union {Nil})
      BY InfoType
    <2>2. events' \in Seq(Offers \union {Nil}) /\ self' \in Versions
      BY <1>5, <2>1, NoEvents DEF Start
    <2>3. mode' \in {"loop", "disabled"} /\ timer' = FALSE /\ target' = Nil
      BY <1>5 DEF Start
    <2> QED
      BY <1>5, <2>2, <2>3 DEF Start
  <1>6. CASE ReceiveRelease
    <2>1. Head(events) \in Offers \union {Nil} /\ Tail(events) \in Seq(Offers \union {Nil})
      BY <1>6 DEF ReceiveRelease
    <2> QED
      BY <1>6, <2>1 DEF ReceiveRelease, Eligible
  <1>7. CASE TimerFires \/ InstallFails
    BY <1>7 DEF TimerFires, InstallFails
  <1>8. CASE HandOver
    <2>1. target.version \in Versions
      BY <1>8, EligibleVersion DEF HandOver, InstallsEligible
    <2> QED
      BY <1>8, <2>1 DEF HandOver
  <1>9. CASE Crash \/ Reboot
    <2>1. events' \in Seq(Offers \union {Nil})
      BY <1>9, NoEvents DEF Crash, Reboot, Stop
    <2>2. changes' \in 0 .. MaxChanges
      BY <1>9 DEF Crash, Reboot, Change
    <2> QED
      BY <1>9, <2>1, <2>2 DEF Crash, Reboot, Stop
  <1>10. ASSUME NEW v \in Versions, DpkgUnpacks(v) \/ DpkgFails(v) PROVE TypeOK'
    <2>1. [version |-> v, state |-> "unpacked"] \in
            [version : Versions, state : PkgStates]
      OBVIOUS
    <2> QED
      BY <1>10, <2>1 DEF DpkgUnpacks, DpkgFails
  <1>11. CASE DpkgConfigures \/ DpkgDone \/ DpkgBreaksOff
    <2>1. pkg' \in [version : Versions, state : PkgStates]
      BY <1>11, PkgType DEF DpkgConfigures, DpkgDone, DpkgBreaksOff
    <2>2. events' \in Seq(Offers \union {Nil})
      BY <1>11, NoEvents DEF DpkgConfigures, DpkgDone, DpkgBreaksOff, Stop
    <2> QED
      BY <1>11, <2>1, <2>2 DEF DpkgConfigures, DpkgDone, DpkgBreaksOff, Stop
  <1>12. CASE UNCHANGED vars
    BY <1>12 DEF vars
  <1> QED
    BY <1>1, <1>2, <1>3, <1>4, <1>5, <1>6, <1>7, <1>8, <1>9, <1>10, <1>11,
       <1>12 DEF Next, DpkgSteps

\* The timer runs for the target only, and the target stays while it runs.
LEMMA NextEligible ==
  ASSUME TypeOK, InstallsEligible, TimerForTarget, [Next]_vars
  PROVE  InstallsEligible' /\ TimerForTarget'
  <1> USE DEF InstallsEligible, TimerForTarget, Eligible, process
  <1>1. CASE UNCHANGED process
    BY <1>1
  <1>2. CASE Start \/ ReceiveRelease \/ TimerFires
    BY <1>2 DEF Start, ReceiveRelease, TimerFires
  <1>3. CASE HandOver \/ InstallFails \/ Crash \/ Reboot \/ DpkgConfigures
    BY <1>3 DEF HandOver, InstallFails, Crash, Reboot, DpkgConfigures, Stop
  <1> QED
    BY <1>1, <1>2, <1>3
    DEF Next, DpkgSteps, vars, PutConfigMap, DeleteConfigMap, DeleteMissed,
        Resync, DpkgUnpacks, DpkgFails, DpkgDone, DpkgBreaksOff

\* The steps that neither begin, finish nor lose an install.
LEMMA QuietStep ==
  ASSUME OneInstall, SelfIsInstalled, UNCHANGED <<pkg, jobs, dpkg, mishap>>,
         \/ UNCHANGED <<mode, self>>
         \/ mode' \notin {"loop", "installing"}
         \/ mode \in {"loop", "installing"} /\ self' = self
         \/ pkg.state # "unpacked" /\ self' = pkg.version
  PROVE  OneInstall' /\ SelfIsInstalled'
  BY DEF OneInstall, SelfIsInstalled

LEMMA NextOneInstall ==
  ASSUME UpgradeInv, [Next]_vars PROVE OneInstall' /\ SelfIsInstalled'
  <1> USE DEF UpgradeInv
  <1>1. ASSUME NEW n \in ConfigMaps,
               PutConfigMap(n) \/ DeleteConfigMap(n) \/ DeleteMissed(n)
        PROVE  OneInstall' /\ SelfIsInstalled'
    BY <1>1, QuietStep
    DEF PutConfigMap, DeleteConfigMap, DeleteMissed, process, package
  <1>2. CASE Resync \/ ReceiveRelease \/ TimerFires \/ InstallFails
    BY <1>2, QuietStep
    DEF Resync, ReceiveRelease, TimerFires, InstallFails, process, package
  <1>3. CASE Start
    <2>1. UNCHANGED <<pkg, jobs, dpkg, mishap>>
      BY <1>3 DEF Start, package
    <2>2. CASE GetInstalledVersion
      BY <1>3, <2>1, <2>2, QuietStep DEF Start, GetInstalledVersion
    <2>3. CASE ~GetInstalledVersion
      BY <1>3, <2>1, <2>3, QuietStep DEF Start
    <2> QED
      BY <2>2, <2>3
  <1>4. CASE HandOver
    <2> SUFFICES ASSUME ~mishap' PROVE OneInstall' /\ SelfIsInstalled'
      BY DEF OneInstall, SelfIsInstalled
    <2>1. ~mishap /\ jobs = {} /\ dpkg = Nil
      BY <1>4 DEF HandOver
    <2>2. self = pkg.version /\ pkg.state # "unpacked"
      BY <1>4, <2>1 DEF HandOver, SelfIsInstalled
    <2>3. target.version \in Versions /\ pkg.version < target.version
      BY <1>4, <2>2, EligibleVersion DEF HandOver, InstallsEligible
    <2>4. jobs' = {target.version} /\ UNCHANGED <<pkg, dpkg>> /\ mode' = "done"
      BY <1>4, <2>1 DEF HandOver
    <2> QED
      BY <2>1, <2>2, <2>3, <2>4, UpgradeAssumption
      DEF OneInstall, SelfIsInstalled, TypeOK
  <1>5. CASE Crash
    BY <1>5, QuietStep DEF Crash, Stop, package
  <1>6. CASE Reboot
    BY <1>6 DEF Reboot, Stop, OneInstall, SelfIsInstalled
  <1>7. ASSUME NEW v \in Versions, DpkgUnpacks(v)
        PROVE  OneInstall' /\ SelfIsInstalled'
    <2> SUFFICES ASSUME ~mishap PROVE OneInstall' /\ SelfIsInstalled'
      BY <1>7 DEF DpkgUnpacks, OneInstall, SelfIsInstalled
    <2>1. jobs' = {}
      BY <1>7 DEF DpkgUnpacks, OneInstall
    <2>2. pkg'.state = "unpacked" /\ dpkg' = v /\ v # Nil
      BY <1>7, UpgradeAssumption DEF DpkgUnpacks
    <2> QED
      BY <2>1, <2>2 DEF OneInstall, SelfIsInstalled
  <1>8. ASSUME NEW v \in Versions, DpkgFails(v)
        PROVE  OneInstall' /\ SelfIsInstalled'
    BY <1>8 DEF DpkgFails, OneInstall, SelfIsInstalled, process
  <1>9. CASE DpkgBreaksOff
    BY <1>9 DEF DpkgBreaksOff, OneInstall, SelfIsInstalled
  <1>10. CASE DpkgConfigures
    <2>1. pkg'.version = pkg.version /\ pkg'.state = "half-configured"
      BY <1>10 DEF DpkgConfigures, TypeOK
    <2> QED
      BY <1>10, <2>1 DEF DpkgConfigures, Stop, OneInstall, SelfIsInstalled
  <1>11. CASE DpkgDone
    <2>1. pkg'.version = pkg.version /\ pkg'.state = "installed"
      BY <1>11 DEF DpkgDone, TypeOK
    <2> QED
      BY <1>11, <2>1 DEF DpkgDone, process, OneInstall, SelfIsInstalled
  <1>12. CASE UNCHANGED vars
    BY <1>12, QuietStep DEF vars, process, package
  <1> QED
    BY <1>1, <1>2, <1>3, <1>4, <1>5, <1>6, <1>7, <1>8, <1>9, <1>10, <1>11,
       <1>12 DEF Next, DpkgSteps

LEMMA NextUpgradeInv == UpgradeInv /\ [Next]_vars => UpgradeInv'
  BY NextTypeOK, NextEligible, NextOneInstall DEF UpgradeInv

\* Every value keeps its kind; in particular the release whose version is handed
\* to the script is never nil.
THEOREM UpgradeTypeCorrect == Spec => []TypeOK
  <1>1. UpgradeInv => TypeOK
    BY DEF UpgradeInv
  <1> QED
    BY <1>1, InitUpgradeInv, NextUpgradeInv, PTL DEF Spec

\* For any order of updates, timers and restarts, what is installed is eligible.
THEOREM InstallsEligibleThm == Spec => []InstallsEligible
  <1>1. UpgradeInv => InstallsEligible
    BY DEF UpgradeInv
  <1> QED
    BY <1>1, InitUpgradeInv, NextUpgradeInv, PTL DEF Spec

\* Only unpacking changes the version, and without mishaps the one install under
\* way is above it.
LEMMA VersionStep ==
  UpgradeInv /\ [Next]_vars => (~mishap => pkg'.version >= pkg.version)
  <1> SUFFICES ASSUME UpgradeInv, [Next]_vars, ~mishap
               PROVE  pkg'.version >= pkg.version
    OBVIOUS
  <1>0. pkg.version \in Nat
    BY UpgradeAssumption, PkgType DEF UpgradeInv
  <1>1. ASSUME NEW v \in Versions, DpkgUnpacks(v) PROVE pkg'.version >= pkg.version
    <2>1. pkg'.version = v /\ v \in Nat /\ v > pkg.version
      BY <1>1, UpgradeAssumption DEF DpkgUnpacks, OneInstall, UpgradeInv
    <2> QED
      BY <1>0, <2>1
  <1>2. CASE DpkgConfigures \/ DpkgDone
    <2>1. pkg'.version = pkg.version
      BY <1>2 DEF DpkgConfigures, DpkgDone, UpgradeInv, TypeOK
    <2> QED
      BY <1>0, <2>1
  <1>3. CASE UNCHANGED pkg
    BY <1>0, <1>3
  <1> QED
    BY <1>1, <1>2, <1>3
    DEF Next, DpkgSteps, vars, package, PutConfigMap, DeleteConfigMap,
        DeleteMissed, Resync, Start, ReceiveRelease, TimerFires, HandOver,
        InstallFails, Crash, DpkgFails, DpkgBreaksOff, Reboot

\* The installed version never falls without a mishap, whatever is published.
THEOREM VersionNeverFallsThm == Spec => VersionNeverFalls
  <1>1. UpgradeInv /\ [Next]_vars => [~mishap => pkg'.version >= pkg.version]_vars
    BY VersionStep
  <1> QED
    BY <1>1, InitUpgradeInv, NextUpgradeInv, PTL DEF Spec, VersionNeverFalls
=============================================================================
