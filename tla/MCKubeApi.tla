----------------------------- MODULE MCKubeApi -----------------------------
(* An instance of KubeApi for TLC: a first key and one after a wipe, and   *)
(* two requests at once.                                                   *)
EXTENDS KubeApi

CONSTANTS k1, k2, k3, h1, h2
=============================================================================
