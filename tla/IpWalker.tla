------------------------------ MODULE IpWalker ------------------------------
(***************************************************************************)
(* Subnets, and the walk node-controller takes through an address pool.    *)
(* An address has Bits bits (32 in the code), a subnet a base address, any *)
(* address of it, and a prefix length.  The arithmetic of the ip-address   *)
(* library is modelled from how the walk uses it.                          *)
(***************************************************************************)
EXTENDS Integers

CONSTANT Bits \* the bits of an address

ASSUME BitsAssumption == Bits \in Nat

\* A prefix length of 1 makes `1 << 31`, a negative step, and one of 0 `1 << 32`,
\* which is 1: the code means neither.
PrefixLens == 2 .. Bits

Nets == [base : 0 .. (2 ^ Bits - 1), len : 0 .. Bits]

Size(len) == 2 ^ (Bits - len)

Masked(address, len) == address - (address % Size(len))

\* Address4.isInSubnet, and whether either of two subnets is in the other.
InSubnet(x, y) == x.len >= y.len /\ Masked(x.base, y.len) = Masked(y.base, y.len)
Overlap(x, y) == InSubnet(x, y) \/ InSubnet(y, x)

EndAddress(pool) == [base |-> Masked(pool.base, pool.len) + Size(pool.len) - 1, len |-> Bits]

\* Where the walk is after k calls of next: it starts from the pool's own address,
\* which it never visits.
Cursor(pool, len, k) == [base |-> pool.base + k * Size(len), len |-> len]

\* What next returns: past the pool, or at the subnet that holds its last address,
\* the walk is over.
Goes(pool, cursor) == InSubnet(cursor, pool) /\ ~InSubnet(EndAddress(pool), cursor)

\* The subnets visited, in the order of their addresses.
Walk(pool, len) ==
  {Cursor(pool, len, k) : k \in {k \in 1 .. 2 ^ Bits :
                                   \A j \in 1 .. k : Goes(pool, Cursor(pool, len, j))}}

=============================================================================
