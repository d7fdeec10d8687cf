---------------------------- MODULE NodeIdentity ----------------------------
(***************************************************************************)
(* How a node learns its Internet address and puts it into its status: a   *)
(* goroutine asks a server every 15 minutes and sends what is new through  *)
(* a channel of one place; another keeps the list of external addresses    *)
(* and reports it, at every change and every hour.                         *)
(*                                                                         *)
(* An answer is the node's address or, as the HTTP status is not looked    *)
(* at, a page, which may be empty.  Of a text the code asks only whether   *)
(* it has a dot.  The rest of the status is made once and never changes.   *)
(***************************************************************************)
EXTENDS Naturals, Sequences

CONSTANTS
  Addresses,   \* IPv4 addresses the node may have
  Pages,       \* what the server may answer instead
  DottedPages, \* those with a dot in them
  Empty,       \* the empty text: one of them, and what is known at first
  Corrupted,   \* what virtual-kubelet may make of two addresses of a type
  MaxMoves,    \* bound on changes of the node's address
  MaxPages     \* bound on answers that are no address

VARIABLES
  real,     \* the node's Internet address
  moves,    \* how often it has changed
  pages,    \* how many pages were answered
  wpc,      \* where the watching goroutine is
  addr,     \* what it was answered
  known,    \* what it sent last
  addrC,    \* the channel
  pc,       \* where the reporting side is
  external, \* nodeStatus.Addresses of type ExternalIP
  reported  \* those of the Node in the API

vars == <<real, moves, pages, wpc, addr, known, addrC, pc, external, reported>>
watcher == <<wpc, addr, known>>

Bodies == Addresses \union Pages
Dotted == Addresses \union DottedPages

ASSUME IdentityAssumption ==
  /\ Addresses # {}
  /\ DottedPages \subseteq Pages
  /\ Empty \in Pages \ DottedPages
  /\ Addresses \intersect Pages = {}
  /\ MaxMoves \in Nat
  /\ MaxPages \in Nat

TypeOK ==
  /\ real \in Addresses
  /\ moves \in 0 .. MaxMoves
  /\ pages \in 0 .. MaxPages
  /\ wpc \in {"off", "fetch", "send", "sleep"}
  /\ addr \in Bodies
  /\ wpc = "send" => addr \in Bodies \ {known}
  /\ known \in Bodies
  /\ addrC \in Seq(Bodies) /\ Len(addrC) <= 1
  /\ pc \in {"down", "identity", "select", "loop", "report"}
  /\ external \in Seq(Bodies)
  /\ reported \in Seq(Bodies) \union {Corrupted}

Init ==
  /\ real \in Addresses
  /\ moves = 0
  /\ pages = 0
  /\ wpc = "off"
  /\ addr = Empty
  /\ known = Empty
  /\ addrC = <<>>
  /\ pc = "down"
  /\ external = <<>>
  /\ reported = <<>>

-----------------------------------------------------------------------------
(* The world *)

\* The provider gives the line another address.
Move ==
  /\ moves < MaxMoves
  /\ moves' = moves + 1
  /\ real' \in Addresses \ {real}
  /\ UNCHANGED <<pages, watcher, addrC, pc, external, reported>>

\* The process dies; an error before it has started ends it too.
Crash ==
  /\ pc # "down"
  /\ wpc' = "off"
  /\ addr' = Empty
  /\ known' = Empty
  /\ addrC' = <<>>
  /\ pc' = "down"
  /\ external' = <<>>
  /\ UNCHANGED <<real, moves, pages, reported>>

\* The Node is read, if it is there, and made ready as this process will have it.
NewNodeIdentity ==
  /\ pc = "down"
  /\ pc' = "identity"
  /\ UNCHANGED <<real, moves, pages, watcher, addrC, external, reported>>

\* The status is made, without an external address, and the watcher started.
NewPetNodeProvider ==
  /\ pc = "identity"
  /\ pc' = "select"
  /\ wpc' = "fetch"
  /\ UNCHANGED <<real, moves, pages, addr, known, addrC, external, reported>>

-----------------------------------------------------------------------------
(* WatchInternetAddress *)

Fetched(body) ==
  /\ wpc = "fetch"
  /\ addr' = body
  /\ wpc' = IF body # known THEN "send" ELSE "sleep"
  /\ UNCHANGED <<real, moves, known, addrC, pc, external, reported>>

FetchAddress == Fetched(real) /\ UNCHANGED pages

\* Any answer is taken for the address, whatever its status; one broken off
\* in the body too.
FetchPage ==
  /\ pages < MaxPages
  /\ pages' = pages + 1
  /\ \E page \in Pages : Fetched(page)

FetchFails ==
  /\ wpc = "fetch"
  /\ wpc' = "sleep"
  /\ UNCHANGED <<real, moves, pages, addr, known, addrC, pc, external, reported>>

\* Mutant of Send: what finds no room is let go.
Send_Drops ==
  /\ wpc = "send"
  /\ addrC' = IF addrC = <<>> THEN <<addr>> ELSE addrC
  /\ known' = addr
  /\ wpc' = "sleep"
  /\ UNCHANGED <<real, moves, pages, addr, pc, external, reported>>

\* Blocks while the channel is full.
Send ==
  /\ wpc = "send"
  /\ addrC = <<>>
  /\ addrC' = <<addr>>
  /\ known' = addr
  /\ wpc' = "sleep"
  /\ UNCHANGED <<real, moves, pages, addr, pc, external, reported>>

\* Fifteen minutes later.
Wake ==
  /\ wpc = "sleep"
  /\ wpc' = "fetch"
  /\ UNCHANGED <<real, moves, pages, addr, known, addrC, pc, external, reported>>

-----------------------------------------------------------------------------
(* The select of NewPetNodeProvider, and NotifyNodeStatus *)

TakeFirstAddress ==
  /\ pc = "select"
  /\ addrC # <<>>
  /\ external' = Append(external, Head(addrC))
  /\ addrC' = Tail(addrC)
  /\ pc' = "loop"
  /\ UNCHANGED <<real, moves, pages, watcher, reported>>

\* The first fetch is over, or five seconds are: also with an address waiting.
StartWithoutAddress ==
  /\ pc = "select"
  /\ pc' = "loop"
  /\ UNCHANGED <<real, moves, pages, watcher, addrC, external, reported>>

HasDotted == \E i \in DOMAIN external : external[i] \in Dotted

\* Mutant of Updated: a match is not remembered.
Updated_Appends(body) ==
  Append([i \in DOMAIN external |->
            IF external[i] \in Dotted THEN body ELSE external[i]], body)

\* Mutant of Updated: the list is only ever added to.
Updated_Keeps(body) ==
  IF HasDotted THEN external ELSE Append(external, body)

\* What has a dot is replaced; with nothing to replace the body is added.
Updated(body) ==
  IF HasDotted
  THEN [i \in DOMAIN external |->
          IF external[i] \in Dotted THEN body ELSE external[i]]
  ELSE Append(external, body)

TakeAddress ==
  /\ pc = "loop"
  /\ addrC # <<>>
  /\ external' = Updated(Head(addrC))
  /\ addrC' = Tail(addrC)
  /\ pc' = "report"
  /\ UNCHANGED <<real, moves, pages, watcher, reported>>

\* firstRunC, once, or the hourly ticker.
Refresh ==
  /\ pc = "loop"
  /\ pc' = "report"
  /\ UNCHANGED <<real, moves, pages, watcher, addrC, external, reported>>

\* At most one address of the type, so that virtual-kubelet passes it on whole.
Single(list) == list # Corrupted /\ Len(list) <= 1

\* virtual-kubelet patches the Node; with two addresses of the type in the old
\* list or the new one it may leave anything.
Report ==
  /\ pc = "report"
  /\ reported' \in IF Single(external) /\ Single(reported)
                    THEN {external} ELSE {external, Corrupted}
  /\ pc' = "loop"
  /\ UNCHANGED <<real, moves, pages, watcher, addrC, external>>

\* The update of the Node fails: it is logged.
ReportFails ==
  /\ pc = "report"
  /\ pc' = "loop"
  /\ UNCHANGED <<real, moves, pages, watcher, addrC, external, reported>>

WatcherSteps == FetchAddress \/ FetchPage \/ FetchFails \/ Send \/ Wake

ProviderSteps ==
  \/ NewNodeIdentity
  \/ NewPetNodeProvider
  \/ TakeFirstAddress
  \/ StartWithoutAddress
  \/ TakeAddress
  \/ Refresh
  \/ Report
  \/ ReportFails

Next == Move \/ Crash \/ WatcherSteps \/ ProviderSteps

Spec == Init /\ [][Next]_vars

\* Both goroutines run on; server and API answer now and then.  A select chooses
\* among the cases that are ready at random, so none is passed over for ever.
FairSpec ==
  /\ Spec
  /\ WF_vars(WatcherSteps)
  /\ WF_vars(ProviderSteps)
  /\ SF_vars(FetchAddress)
  /\ SF_vars(TakeAddress)
  /\ SF_vars(Report)

-----------------------------------------------------------------------------
(* Properties *)

\* What the watcher takes for known, and will not send again, is with the
\* reporting side or in the channel: with the address unchanged for months,
\* a lost value would stay lost.
KnownIsPassedOn ==
  known # Empty =>
    addrC = <<known>> \/ \E i \in DOMAIN external : external[i] = known

\* However often the node moved and whatever was answered in between, the list
\* has one IPv4 address.
OneDottedAddress ==
  \A i, j \in DOMAIN external :
    external[i] \in Dotted /\ external[j] \in Dotted => i = j

\* When the process keeps running, the Node's external address comes to be the
\* node's, and stays it.  A page without a dot stays in the list beside the address
\* until the process is restarted: while there are two, and as long as what
\* virtual-kubelet made of them stands, nothing is promised of the Node.
AddressComesThrough ==
  []<><<Crash>>_vars
    \/ <>[](Single(external) /\ reported # Corrupted => reported = <<real>>)

-----------------------------------------------------------------------------
(* The inductive invariant behind KnownIsPassedOn and OneDottedAddress *)

\* Taking a value may replace another: it must be the one known.
ChannelHasKnown == addrC # <<>> => addrC = <<known>>

IdentityInv ==
  /\ TypeOK
  /\ ChannelHasKnown
  /\ KnownIsPassedOn
  /\ OneDottedAddress
  /\ pc \in {"down", "identity", "select"} => external = <<>>
=============================================================================
