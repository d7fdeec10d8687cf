-------------------------- MODULE MCNodeIdentity --------------------------
(* An instance of NodeIdentity for TLC.                                    *)
EXTENDS NodeIdentity

CONSTANTS a0, a1, empty, dotless, dotted, corrupted
=============================================================================
