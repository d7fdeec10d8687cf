--------------------------- MODULE MCPodLifecycle ---------------------------
(* Instances of PodLifecycle for TLC.                                      *)
EXTENDS PodLifecycle, TLC

CONSTANTS c1, c2, u1, u2, app, log

\* One image pulled on demand, one that must be there already.
PolicyOnDemand == (app :> "IfNotPresent") @@ (log :> "Never")
\* One image pulled on demand, one always pulled.
PolicyPulled == (app :> "IfNotPresent") @@ (log :> "Always")

UidSymmetry == Permutations(Uids)
=============================================================================
