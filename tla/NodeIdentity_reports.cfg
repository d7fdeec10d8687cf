SPECIFICATION FairSpec
CONSTANTS
  a0 = a0
  a1 = a1
  empty = empty
  dotless = dotless
  dotted = dotted
  corrupted = corrupted
  Addresses = {a0, a1}
  Pages = {empty, dotless, dotted}
  DottedPages = {dotted}
  Empty = empty
  Corrupted = corrupted
  MaxMoves = 2
  MaxPages = 3
INVARIANTS
  KnownIsPassedOn
  OneDottedAddress
PROPERTIES
  AddressComesThrough
