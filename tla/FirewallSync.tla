---------------------------- MODULE FirewallSync ----------------------------
(***************************************************************************)
(* The firewall controller: Endpoints events start a one-second debounce   *)
(* timer, the timer runs Sync on a goroutine of its own, and Sync builds   *)
(* the nftables table from the informer caches, compares its hash with     *)
(* LatestConfigHash and replaces the kernel's table when it differs.       *)
(*                                                                         *)
(* time.AfterFunc does not wait for an earlier Sync, so two Syncs overlap  *)
(* when one takes longer than the debounce interval.  The code learns from *)
(* the kernel's answer whether a batch was taken, and ENOBUFS, on which it *)
(* records the hash, and any other error, on which it does not, say        *)
(* nothing of that.  `doubt` is a history variable: why, since the last    *)
(* batch that was certainly taken, the recorded hash need not be the hash  *)
(* of the kernel's table.                                                  *)
(*                                                                         *)
(* A configuration is the table of FirewallRules.                          *)
(***************************************************************************)
EXTENDS FirewallRules

CONSTANTS
  Elections,  \* services whose Endpoints carry the leader-election annotation
  Syncs,      \* goroutines a Sync may run on
  MaxChanges, \* bound on cluster changes, restarts and doubtful answers
  Hash(_)     \* the 32-bit FNV-1a sum of the configuration text

\* None is no hash and no table either.
ASSUME SyncAssumption ==
  /\ Elections \subseteq Services
  /\ MaxChanges \in Nat

VARIABLES
  svcs,      \* the services in the ServiceInformer's cache
  eps,       \* the Endpoints in the EndpointsInformer's cache
  timer,     \* the debounce timer is set
  sync,      \* the Syncs in progress
  latest,    \* LatestConfigHash
  kernel,    \* the configuration in the kernel's kube-pet table
  doubt,     \* "crossed", "lostack", "untaken", "refused"
  changes    \* changes of the cluster, restarts and doubtful answers so far

vars == <<svcs, eps, timer, sync, latest, kernel, doubt, changes>>
caches == <<svcs, eps, changes>>

\* FNV-1a is taken to tell the configurations of one node apart.
ASSUME HashAssumption ==
  /\ \A c \in Configs : Hash(c) # None
  /\ \A c, d \in Configs : Hash(c) = Hash(d) => c = d

Unstarted == [pc |-> "idle", eps |-> [s \in Services |-> None], built |-> None]
SyncStates == [pc    : {"idle", "endpoints", "services", "compare", "flush", "store"},
               eps   : Endpoints,
               built : Configs \union {None}]
Built(i) == sync[i].built

\* crossed: a batch was taken while another Sync had yet to record its hash;
\* lostack: one was taken and an error other than ENOBUFS came back;
\* untaken, refused: ENOBUFS came back for a batch that did not get through, or
\* that the kernel refused.
Doubts == {"crossed", "lostack", "untaken", "refused"}

TypeOK ==
  /\ svcs \in SUBSET Services
  /\ eps \in Endpoints
  /\ timer \in BOOLEAN
  /\ sync \in [Syncs -> SyncStates]
  /\ \A i \in Syncs : sync[i].pc \in {"compare", "flush", "store"} => Built(i) \in Configs
  /\ latest \in {Hash(c) : c \in Configs} \union {None}
  /\ kernel \in Configs \union {None}
  /\ doubt \in SUBSET Doubts
  /\ changes \in 0..MaxChanges

\* A fresh process on a host with no table; Run seeds the debounce.
Init ==
  /\ svcs = {}
  /\ eps = [s \in Services |-> None]
  /\ timer = TRUE
  /\ sync = [i \in Syncs |-> Unstarted]
  /\ latest = None
  /\ kernel = None
  /\ doubt = {}
  /\ changes = 0

-----------------------------------------------------------------------------
(* The informer caches *)

\* Services come and go without any handler.
ServiceChanges(s) ==
  /\ changes < MaxChanges
  /\ changes' = changes + 1
  /\ svcs' \in {svcs \union {s}, svcs \ {s}} \ {svcs}
  /\ UNCHANGED <<eps, timer, sync, latest, kernel, doubt>>

\* Endpoints are added, deleted or updated; an update of election Endpoints is
\* ignored by the handler.
EndpointsChange(s) ==
  /\ changes < MaxChanges
  /\ changes' = changes + 1
  /\ \E b \in (Backends \union {None}) \ {eps[s]} :
       /\ eps' = [eps EXCEPT ![s] = b]
       /\ timer' = (timer \/ ~(s \in Elections /\ eps[s] # None /\ b # None))
  /\ UNCHANGED <<svcs, sync, latest, kernel, doubt>>

\* Every 15 minutes the informer repeats an update for each Endpoints object.
Resync ==
  /\ \E s \in Services \ Elections : eps[s] # None
  /\ ~timer
  /\ timer' = TRUE
  /\ UNCHANGED <<caches, sync, latest, kernel, doubt>>

-----------------------------------------------------------------------------
(* Sync *)

TimerFires(i) ==
  /\ timer
  /\ sync[i].pc = "idle"
  /\ timer' = FALSE
  /\ sync' = [sync EXCEPT ![i] = [Unstarted EXCEPT !.pc = "endpoints"]]
  /\ UNCHANGED <<caches, latest, kernel, doubt>>

\* BuildConfig lists the Endpoints first and the Services later.
ListEndpoints(i) ==
  /\ sync[i].pc = "endpoints"
  /\ sync' = [sync EXCEPT ![i].pc = "services", ![i].eps = eps]
  /\ UNCHANGED <<caches, timer, latest, kernel, doubt>>

ListServices(i) ==
  /\ sync[i].pc = "services"
  /\ sync' = [sync EXCEPT ![i] = [Unstarted EXCEPT
                 !.pc = "compare", !.built = BuildConfig(sync[i].eps, svcs)]]
  /\ UNCHANGED <<caches, timer, latest, kernel, doubt>>

Finish(i) == sync' = [sync EXCEPT ![i] = Unstarted]

\* Mutant of CompareHash: the hash is recorded when the change is noticed.
CompareHash_StoresEarly(i) ==
  /\ sync[i].pc = "compare"
  /\ IF latest = Hash(Built(i)) THEN Finish(i)
                                ELSE sync' = [sync EXCEPT ![i].pc = "flush"]
  /\ latest' = Hash(Built(i))
  /\ UNCHANGED <<caches, timer, kernel, doubt>>

\* "Up to date", or on to the kernel.
CompareHash(i) ==
  /\ sync[i].pc = "compare"
  /\ IF latest = Hash(Built(i)) THEN Finish(i)
                                ELSE sync' = [sync EXCEPT ![i].pc = "flush"]
  /\ UNCHANGED <<caches, timer, latest, kernel, doubt>>

\* The Syncs between their Flush and the recording of the hash.
Unrecorded == {i \in Syncs : sync[i].pc = "store"}

\* The whole table is replaced in one transaction, and the answer is none or ENOBUFS.
\* A batch taken while every hash is recorded ends all doubt.
Flush(i) ==
  /\ sync[i].pc = "flush"
  /\ Accepted(Built(i))
  /\ kernel' = Built(i)
  /\ doubt' = IF Unrecorded = {} THEN {} ELSE doubt \union {"crossed"}
  /\ sync' = [sync EXCEPT ![i].pc = "store"]
  /\ UNCHANGED <<caches, timer, latest>>

\* The kernel refuses the batch and keeps its table; the hash is not recorded.
FlushRejected(i) ==
  /\ sync[i].pc = "flush"
  /\ ~Accepted(Built(i))
  /\ Finish(i)
  /\ UNCHANGED <<caches, timer, latest, kernel, doubt>>

\* ENOBUFS: the code says "Kernel table updated" and goes on to record the hash, and
\* the kernel did not take the batch, or refused it.
FlushNoBufs(i) ==
  /\ sync[i].pc = "flush"
  /\ changes < MaxChanges
  /\ changes' = changes + 1
  /\ doubt' = doubt \union {IF Accepted(Built(i)) THEN "untaken" ELSE "refused"}
  /\ sync' = [sync EXCEPT ![i].pc = "store"]
  /\ UNCHANGED <<svcs, eps, timer, latest, kernel>>

\* Another error on a batch the kernel has nothing against: it did not get through, or
\* it was taken and reading the answer failed.
FlushFails(i) ==
  /\ sync[i].pc = "flush"
  /\ Accepted(Built(i))
  /\ changes < MaxChanges
  /\ changes' = changes + 1
  /\ \/ UNCHANGED <<kernel, doubt>>
     \/ /\ kernel' = Built(i)
        /\ doubt' = doubt \union {"lostack"}
  /\ Finish(i)
  /\ UNCHANGED <<svcs, eps, timer, latest>>

StoreHash(i) ==
  /\ sync[i].pc = "store"
  /\ latest' = Hash(Built(i))
  /\ Finish(i)
  /\ UNCHANGED <<caches, timer, kernel, doubt>>

\* Mutant of Restart: the hash is kept on disk and outlives the kernel's table.
Restart_KeepsHash ==
  /\ changes < MaxChanges
  /\ changes' = changes + 1
  /\ sync' = [i \in Syncs |-> Unstarted]
  /\ timer' = TRUE
  /\ latest' = latest
  /\ kernel' \in {kernel, None}
  /\ doubt' = {}
  /\ UNCHANGED <<svcs, eps>>

\* The process restarts: goroutines and hash are gone, the kernel's table stays
\* unless the host itself was rebooted.
Restart ==
  /\ changes < MaxChanges
  /\ changes' = changes + 1
  /\ sync' = [i \in Syncs |-> Unstarted]
  /\ timer' = TRUE
  /\ latest' = None
  /\ kernel' \in {kernel, None}
  /\ doubt' = {}
  /\ UNCHANGED <<svcs, eps>>

SyncSteps(i) ==
  \/ ListEndpoints(i)
  \/ ListServices(i)
  \/ CompareHash(i)
  \/ Flush(i)
  \/ FlushRejected(i)
  \/ StoreHash(i)

Next ==
  \/ \E s \in Services : ServiceChanges(s) \/ EndpointsChange(s)
  \/ Resync
  \/ \E i \in Syncs : TimerFires(i) \/ SyncSteps(i) \/ FlushNoBufs(i) \/ FlushFails(i)
  \/ Restart

Spec == Init /\ [][Next]_vars

\* The informer resyncs for ever, timers fire, goroutines run to their end.
FairSpec ==
  /\ Spec
  /\ WF_vars(Resync)
  /\ WF_vars(\E i \in Syncs : TimerFires(i))
  /\ \A i \in Syncs : WF_vars(SyncSteps(i))

-----------------------------------------------------------------------------
(* Properties *)

\* Sync says "Up to date" and leaves the kernel alone only if the kernel already
\* has the table it just built: whatever Syncs overlap and batches the kernel refuses,
\* LatestConfigHash stands for the kernel's table.  Excepted is the moment between a
\* Flush and the recording of its hash; and an answer that did not tell what became of
\* a batch, or two Syncs that crossed there, until a batch is next taken while every
\* hash is recorded.
SkipIsSafe ==
  doubt = {} /\ Unrecorded = {} =>
    \A i \in Syncs :
      sync[i].pc = "compare" /\ latest = Hash(Built(i)) => kernel = Built(i)

\* Once the cluster stops changing and restarts stop, the kernel comes to hold
\* the table of the current services, if the kernel accepts it at all and Endpoints
\* outside the leader elections exist to carry a resync.  Service changes have no
\* handler: the resync of the Endpoints is what brings them in.  A refused table whose
\* hash was recorded does no harm to a later one; the other doubts do, as Sync passes
\* over the kernel for good when the table is the one whose hash it recorded.
KernelConverges ==
  <>[](doubt \subseteq {"refused"} /\ Accepted(BuildConfig(eps, svcs))
         /\ (\E s \in Services \ Elections : eps[s] # None)
         => kernel = BuildConfig(eps, svcs))

-----------------------------------------------------------------------------
(* The inductive invariant behind SkipIsSafe *)

\* The hash stands for the kernel's table, except while the one Sync that just
\* replaced the table has not recorded it yet.
HashOfKernel ==
  /\ \A i, j \in Unrecorded : i = j
  /\ \A i \in Unrecorded : kernel = Built(i)
  /\ latest # None /\ Unrecorded = {} => kernel \in Configs /\ latest = Hash(kernel)

SyncInv == TypeOK /\ (doubt = {} => HashOfKernel)

=============================================================================
