--------------------------- MODULE MCProvisioning ---------------------------
(* Instances of Provisioning for TLC.                                      *)
EXTENDS Provisioning, TLC

CONSTANTS n1, n2, k1, k2, k3

Net(base, len) == [base |-> base, len |-> len]

\* Two routers.  The first has node addresses 1 and 2 and a single pod network, of
\* four addresses, 8 to 11; the second has 5 and 6 and pod networks of two, the
\* first of which, 10 and 11, lies inside the pod network of the first router.
SmallNodePool == [r \in Routers |-> IF r = 1 THEN Net(0, 3) ELSE Net(4, 3)]
SmallPodPool == [r \in Routers |-> IF r = 1 THEN Net(4, 1) ELSE Net(8, 0)]
SmallPrefixLen == [r \in Routers |-> IF r = 1 THEN 3 ELSE 4]

\* The walk against its purpose, for every pool and length of this width: of a pool
\* given by its first address all subnets but the first and the last, of any other
\* those behind the given one; they do not overlap.
ASSUME WalkIsRight ==
  \A pool \in Nets, len \in PrefixLens :
    LET first == Masked(pool.base, len)
        last == Masked(EndAddress(pool).base, len)
    IN  /\ {Masked(x.base, len) : x \in Walk(pool, len)} =
             IF len < pool.len THEN {}
             ELSE {b \in 0 .. 2 ^ Bits : b % Size(len) = 0 /\ first < b /\ b < last}
        /\ \A x, y \in Walk(pool, len) : x # y => ~Overlap(x, y)

\* Nodes and keys are interchangeable.
Symmetry == Permutations(Nodes) \union Permutations(Keys)
=============================================================================
