----------------------------- MODULE PodLedger -----------------------------
(***************************************************************************)
(* What a node promises the cluster about its pods, wherever the process   *)
(* dies and whatever calls fail: podman gets a pod only from a record that *)
(* is complete; a record is struck out only when the cluster does not need *)
(* the pod under it, and a pod removed only after its record.  Records are *)
(* not replaced at once: rewriting one tears it first.                     *)
(***************************************************************************)
CONSTANTS
  Names, \* of pods
  Uids,  \* that tell one pod of a name from the next
  None,  \* no object, no record, no pod
  Torn   \* a record that cannot be read

VARIABLES
  object, \* the pod the cluster wants under a name
  issued, \* the UIDs of every pod it wanted so far
  record, \* what the node has on record under a name
  pod     \* the pod there is under a name

cluster == <<object, issued>>
vars == <<cluster, record, pod>>

Init ==
  /\ object = [c \in Names |-> None]
  /\ issued = {}
  /\ record = [c \in Names |-> None]
  /\ pod = [c \in Names |-> None]

\* The pod that is there is the one the cluster wants.
Needed(c) == object[c] # None /\ pod[c] = object[c]

Ask(c, u) ==
  /\ object[c] = None
  /\ u \notin issued
  /\ object' = [object EXCEPT ![c] = u]
  /\ issued' = issued \union {u}
  /\ UNCHANGED <<record, pod>>

Withdraw(c) ==
  /\ object' = [object EXCEPT ![c] = None]
  /\ UNCHANGED <<issued, record, pod>>

Tear(c) ==
  /\ record' = [record EXCEPT ![c] = Torn]
  /\ UNCHANGED <<cluster, pod>>

Write(c, u) ==
  /\ record[c] = Torn
  /\ u \in issued
  /\ record' = [record EXCEPT ![c] = u]
  /\ UNCHANGED <<cluster, pod>>

Make(c) ==
  /\ pod[c] = None
  /\ record[c] \notin {None, Torn}
  /\ pod' = [pod EXCEPT ![c] = record[c]]
  /\ UNCHANGED <<cluster, record>>

Strike(c) ==
  /\ ~Needed(c)
  /\ record' = [record EXCEPT ![c] = None]
  /\ UNCHANGED <<cluster, pod>>

Remove(c) ==
  /\ record[c] = None
  /\ pod' = [pod EXCEPT ![c] = None]
  /\ UNCHANGED <<cluster, record>>

Next == \E c \in Names :
  \/ \E u \in Uids : Ask(c, u) \/ Write(c, u)
  \/ Withdraw(c)
  \/ Tear(c)
  \/ Make(c)
  \/ Strike(c)
  \/ Remove(c)

Spec == Init /\ [][Next]_vars

\* The promise that follows: what is needed is on record, so that a node that lost
\* its memory takes it up again and does not remove it.
NeededIsRecorded == \A c \in Names : Needed(c) => record[c] # None
=============================================================================
