------------------------ MODULE MCRouterController ------------------------
(* An instance of RouterController for TLC.                                *)
EXTENDS RouterController

CONSTANTS t0, t1, t2
=============================================================================
