----------------------------- MODULE AddressBook -----------------------------
(***************************************************************************)
(* What the cluster promises its pet nodes about addresses, whoever keeps  *)
(* the book and however: a row is added to it whole, with a key no row has *)
(* and addresses that overlap with none given away, and is never changed   *)
(* or taken back; a node uses the addresses of a row of its own.           *)
(***************************************************************************)
EXTENDS IpWalker

CONSTANTS
  Nodes, \* node names
  Rows,  \* what a row may be: [key, name, router, ip, net]
  None   \* no addresses in use

VARIABLES
  book,  \* the rows
  inUse  \* the row whose addresses each node uses

vars == <<book, inUse>>

Init ==
  /\ book = {}
  /\ inUse = [n \in Nodes |-> None]

Clash(a, b) == a.key = b.key \/ Overlap(a.ip, b.ip) \/ Overlap(a.net, b.net)

Allocate(row) ==
  /\ book' = book \union {row}
  /\ \A a \in book : ~Clash(a, row)
  /\ UNCHANGED inUse

Use(n, row) ==
  /\ row.name = n
  /\ inUse' = [inUse EXCEPT ![n] = row]
  /\ UNCHANGED book

\* (TLC, which looks for the row of every step, need not look when there is none.)
Next ==
  \/ book' # book /\ \E row \in Rows : Allocate(row)
  \/ \E n \in Nodes, row \in book : Use(n, row)

Spec == Init /\ [][Next]_vars
=============================================================================
