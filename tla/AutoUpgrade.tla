---------------------------- MODULE AutoUpgrade ----------------------------
(***************************************************************************)
(* The daemon's own upgrades: informer events for one ConfigMap are parsed *)
(* and passed over an unbuffered channel to AutoUpgrade.Run, which waits   *)
(* five seconds, installs the release and leaves its loop for the rest of  *)
(* the process's life.  The package is installed by a transient unit that  *)
(* restarts the service, so an install outlives the process that began it. *)
(*                                                                         *)
(* A version is its place in semver's order.  The queue in front of the    *)
(* handler is client-go's; its head is the event the handler is trying to  *)
(* send.  `mishap` is a history variable: an install was handed over while *)
(* another was under way, or one was broken off with its files in place.   *)
(***************************************************************************)
EXTENDS Naturals, Sequences

CONSTANTS
  Versions,   \* versions that semver parses, in semver's order
  Unparsable, \* a version string it does not parse
  Offers,     \* TargetReleases an administrator may publish
  ConfigMaps, \* namespace/name of the ConfigMaps in the informer
  Watched,    \* the one enqueueConfigMap looks at
  NoInfo,     \* a ConfigMap without a TargetRelease that can be read
  Absent,     \* no ConfigMap
  Nil,        \* the nil *TargetRelease, no dpkg running
  MaxChanges  \* bound on changes of ConfigMaps, crashes and reboots

\* TargetRelease: `build` says that a platform section has a package for us.
Releases == [version : Versions \union {Unparsable}, auto : BOOLEAN,
             build : BOOLEAN]
Contents == Offers \union {NoInfo}

ASSUME UpgradeAssumption ==
  /\ Versions \subseteq Nat
  /\ Unparsable \notin Versions
  /\ Offers \subseteq Releases
  /\ Watched \in ConfigMaps
  /\ Nil \notin Offers
  /\ Nil \notin Versions
  /\ Absent \notin Contents
  /\ NoInfo \notin Offers
  /\ MaxChanges \in Nat

VARIABLES
  maps,    \* the ConfigMaps
  events,  \* what the handler has still to send, oldest first
  mode,    \* where the process is
  self,    \* SelfVersion
  target,  \* targetRelease
  timer,   \* timerC is set
  pkg,     \* what the package manager has on record
  jobs,    \* installs handed to systemd-run and not begun
  dpkg,    \* the install under way
  failed,  \* history: an install failed while this process runs
  mishap,  \* history: see above
  changes  \* changes, crashes and reboots so far

process == <<mode, self, target, timer>>
package == <<pkg, jobs, dpkg>>
vars == <<maps, events, process, package, failed, mishap, changes>>

Listening == {"loop", "installing", "done"}
PkgStates == {"unpacked", "half-configured", "installed"}

TypeOK ==
  /\ maps \in [ConfigMaps -> Contents \union {Absent}]
  /\ events \in Seq(Offers \union {Nil})
  /\ mode \in {"down", "disabled"} \union Listening
  /\ self \in Versions
  /\ target \in Offers \union {Nil}
  /\ timer \in BOOLEAN
  /\ pkg \in [version : Versions, state : PkgStates]
  /\ jobs \subseteq Versions
  /\ dpkg \in Versions \union {Nil}
  /\ failed \in BOOLEAN
  /\ mishap \in BOOLEAN
  /\ changes \in 0 .. MaxChanges

\* Some version is installed and about to start; no ConfigMap is there yet.
Init ==
  /\ maps = [n \in ConfigMaps |-> Absent]
  /\ events = <<>>
  /\ mode = "down"
  /\ self \in Versions
  /\ target = Nil
  /\ timer = FALSE
  /\ pkg = [version |-> self, state |-> "installed"]
  /\ jobs = {}
  /\ dpkg = Nil
  /\ failed = FALSE
  /\ mishap = FALSE
  /\ changes = 0

Change == changes < MaxChanges /\ changes' = changes + 1

\* Mutant of Eligible: any version but our own is installed.
Eligible_AnyVersion(release, version) ==
  /\ release # Nil
  /\ release.auto
  /\ release.version \in Versions
  /\ version # release.version
  /\ release.build

\* Run's checks of a release it received, in their order.
Eligible(release, version) ==
  /\ release # Nil
  /\ release.auto
  /\ release.version \in Versions
  /\ version < release.version
  /\ release.build

-----------------------------------------------------------------------------
(* The ConfigMap and its events *)

\* enqueueConfigMap: what goes down the channel for a ConfigMap's content.
Info(content) == IF content \in Offers THEN content ELSE Nil

\* Only the events of one ConfigMap reach the channel, and only once Run has
\* added its handlers.
Enqueue(n, release) ==
  events' = IF n = Watched /\ mode \in Listening
              THEN Append(events, release) ELSE events

PutConfigMap(n) ==
  /\ Change
  /\ \E content \in Contents \ {maps[n]} :
       /\ maps' = [maps EXCEPT ![n] = content]
       /\ Enqueue(n, Info(content))
  /\ UNCHANGED <<process, package, failed, mishap>>

DeleteConfigMap(n) ==
  /\ Change
  /\ maps[n] # Absent
  /\ maps' = [maps EXCEPT ![n] = Absent]
  /\ Enqueue(n, Nil)
  /\ UNCHANGED <<process, package, failed, mishap>>

\* The deletion happened while the watch was interrupted: DeleteFunc gets a
\* DeletedFinalStateUnknown, which is no *ConfigMap, and ignores it.
DeleteMissed(n) ==
  /\ Change
  /\ maps[n] # Absent
  /\ maps' = [maps EXCEPT ![n] = Absent]
  /\ UNCHANGED <<events, process, package, failed, mishap>>

\* The 15 minute resync repeats the update of what is in the cache.
Resync ==
  /\ mode = "loop"
  /\ events = <<>>
  /\ maps[Watched] # Absent
  /\ Enqueue(Watched, Info(maps[Watched]))
  /\ UNCHANGED <<maps, process, package, failed, mishap, changes>>

-----------------------------------------------------------------------------
(* The process *)

\* Mutant of GetInstalledVersion: only a finished install counts.
GetInstalledVersion_Strict == pkg.state = "installed"

\* dpkg's status flags: postinst restarts the service before dpkg is done, so
\* half-configured is accepted.
GetInstalledVersion == pkg.state \in {"installed", "half-configured"}

\* NewAutoUpgrade and Run up to its loop.  Without a version it stays disabled
\* for the lifetime of the process; with one the informer's first list arrives.
Start ==
  /\ mode = "down"
  /\ timer' = FALSE
  /\ target' = Nil
  /\ failed' = FALSE
  /\ IF GetInstalledVersion
       THEN /\ mode' = "loop"
            /\ self' = pkg.version
            /\ events' = IF maps[Watched] = Absent THEN <<>>
                         ELSE <<Info(maps[Watched])>>
       ELSE /\ mode' = "disabled"
            /\ UNCHANGED <<self, events>>
  /\ UNCHANGED <<maps, package, mishap, changes>>

\* Mutant of ReceiveRelease: the timer that runs is not cancelled.
ReceiveRelease_KeepsTimer ==
  /\ mode = "loop"
  /\ events # <<>>
  /\ target' = Head(events)
  /\ events' = Tail(events)
  /\ timer' = (timer \/ Eligible(Head(events), self))
  /\ UNCHANGED <<maps, mode, self, package, failed, mishap, changes>>

\* The select takes a release from the channel: whatever timer ran is dropped,
\* and a new one is set if this release is to be installed.
ReceiveRelease ==
  /\ mode = "loop"
  /\ events # <<>>
  /\ target' = Head(events)
  /\ events' = Tail(events)
  /\ timer' = Eligible(Head(events), self)
  /\ UNCHANGED <<maps, mode, self, package, failed, mishap, changes>>

\* The select takes the expired timer, possibly with an update waiting.
TimerFires ==
  /\ mode = "loop"
  /\ timer
  /\ mode' = "installing"
  /\ timer' = FALSE
  /\ UNCHANGED <<maps, events, self, target, package, failed, mishap, changes>>

\* node-upgrade.sh fetched the package and handed it to systemd-run.  Run
\* returns: nobody receives from the channel any more.
HandOver ==
  /\ mode = "installing"
  /\ jobs' = jobs \union {target.version}
  /\ mishap' = (mishap \/ jobs # {} \/ dpkg # Nil)
  /\ mode' = "done"
  /\ UNCHANGED <<maps, events, self, target, timer, pkg, dpkg, failed, changes>>

\* The script fails (an untrusted URL, no package behind it): Run returns, too.
InstallFails ==
  /\ mode = "installing"
  /\ mode' = "done"
  /\ failed' = TRUE
  /\ UNCHANGED <<maps, events, self, target, timer, package, mishap, changes>>

Stop ==
  /\ mode' = "down"
  /\ events' = <<>>
  /\ UNCHANGED <<self, target, timer>>

\* The process alone dies; what was handed to systemd-run goes on.
Crash ==
  /\ mode # "down"
  /\ Change
  /\ Stop
  /\ UNCHANGED <<maps, package, failed, mishap>>

-----------------------------------------------------------------------------
(* The package manager *)

DpkgUnpacks(v) ==
  /\ v \in jobs
  /\ dpkg = Nil
  /\ jobs' = jobs \ {v}
  /\ dpkg' = v
  /\ pkg' = [version |-> v, state |-> "unpacked"]
  /\ UNCHANGED <<maps, events, process, failed, mishap, changes>>

\* dpkg refuses before it changed anything: the package is bad, or another dpkg
\* has the lock.
DpkgFails(v) ==
  /\ v \in jobs
  /\ jobs' = jobs \ {v}
  /\ failed' = TRUE
  /\ UNCHANGED <<maps, events, process, pkg, dpkg, mishap, changes>>

\* dpkg is broken off with the new files in place and nothing restarted.
DpkgBreaksOff ==
  /\ dpkg # Nil
  /\ pkg.state = "unpacked"
  /\ dpkg' = Nil
  /\ failed' = TRUE
  /\ mishap' = TRUE
  /\ UNCHANGED <<maps, events, process, pkg, jobs, changes>>

\* postinst restarts the service.
DpkgConfigures ==
  /\ dpkg # Nil
  /\ pkg.state = "unpacked"
  /\ pkg' = [pkg EXCEPT !.state = "half-configured"]
  /\ Stop
  /\ UNCHANGED <<maps, jobs, dpkg, failed, mishap, changes>>

DpkgDone ==
  /\ dpkg # Nil
  /\ pkg.state = "half-configured"
  /\ pkg' = [pkg EXCEPT !.state = "installed"]
  /\ dpkg' = Nil
  /\ UNCHANGED <<maps, events, process, jobs, failed, mishap, changes>>

\* The machine reboots, with every install that was under way.
Reboot ==
  /\ Change
  /\ Stop
  /\ jobs' = {}
  /\ dpkg' = Nil
  /\ mishap' = (mishap \/ pkg.state = "unpacked")
  /\ UNCHANGED <<maps, pkg, failed>>

DpkgSteps ==
  \/ \E v \in Versions : DpkgUnpacks(v)
  \/ DpkgConfigures
  \/ DpkgDone

Next ==
  \/ \E n \in ConfigMaps : PutConfigMap(n) \/ DeleteConfigMap(n) \/ DeleteMissed(n)
  \/ Resync
  \/ Start
  \/ ReceiveRelease
  \/ TimerFires
  \/ HandOver
  \/ InstallFails
  \/ Crash
  \/ DpkgSteps
  \/ \E v \in Versions : DpkgFails(v)
  \/ DpkgBreaksOff
  \/ Reboot

Spec == Init /\ [][Next]_vars

\* systemd starts the process, the loop and the script run on, dpkg goes on.  The
\* timer is strongly fair: five seconds pass between the resyncs that cancel it.
FairSpec ==
  /\ Spec
  /\ WF_vars(Start)
  /\ WF_vars(ReceiveRelease)
  /\ SF_vars(TimerFires)
  /\ WF_vars(HandOver)
  /\ WF_vars(DpkgSteps)

-----------------------------------------------------------------------------
(* Properties *)

\* What Run is installing is what the last event it received asked for: a
\* release with AutoUpgrade on, a package for this machine and a version above
\* the process's own.  An update received during the five seconds cancels.
InstallsEligible == mode = "installing" => Eligible(target, self)

\* The installed version never goes down, whatever is published in whatever
\* order and however often the process crashes between handing an install over
\* and being restarted by it, as long as no two installs overlap and none is
\* broken off half-way.
VersionNeverFalls == [][~mishap => pkg'.version >= pkg.version]_vars

\* Once changes and crashes stop, the machine has what is published, unless an
\* install failed under the running process (it tries once in its life) or one
\* was broken off: neither the restart in the middle of dpkg's work nor an
\* update that arrives while Run no longer listens loses the upgrade.
UpgradeHappens ==
  <>[](Eligible(Info(maps[Watched]), pkg.version) => failed \/ mishap)

-----------------------------------------------------------------------------
(* The inductive invariant behind InstallsEligible and VersionNeverFalls *)

TimerForTarget == mode = "loop" /\ timer => Eligible(target, self)

\* Without mishaps there is one install at a time, and it goes up.
OneInstall ==
  ~mishap =>
    /\ \A v, w \in jobs : v = w
    /\ jobs # {} => dpkg = Nil
    /\ \A v \in jobs : v > pkg.version

\* A process that may still install something knows the installed version,
\* except while dpkg is about to restart it.
SelfIsInstalled ==
  ~mishap =>
    /\ pkg.state = "unpacked" => dpkg # Nil
    /\ mode \in {"loop", "installing"} /\ pkg.state # "unpacked" =>
         self = pkg.version

UpgradeInv ==
  /\ TypeOK
  /\ InstallsEligible
  /\ TimerForTarget
  /\ OneInstall
  /\ SelfIsInstalled
=============================================================================
