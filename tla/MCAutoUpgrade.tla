--------------------------- MODULE MCAutoUpgrade ---------------------------
(* An instance of AutoUpgrade for TLC.                                      *)
EXTENDS AutoUpgrade

Release(v, a, b) == [version |-> v, auto |-> a, build |-> b]

\* Two upgrades, one switched off, one for other machines, one misspelt.
AllOffers == {Release(2, TRUE, TRUE), Release(3, TRUE, TRUE),
              Release(3, FALSE, TRUE), Release(3, TRUE, FALSE),
              Release(Unparsable, TRUE, TRUE)}
=============================================================================
