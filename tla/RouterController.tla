-------------------------- MODULE RouterController --------------------------
(***************************************************************************)
(* The controller on a VPN router: it follows the allocation table, writes *)
(* the peers of this router into wg-quick's file and restarts the unit.    *)
(* What it compares a new table with is the file, not the interface.       *)
(*                                                                         *)
(* A table is a member of Tables: what it holds for this router, told      *)
(* apart by equality.  A snapshot, with its resourceVersion, travels       *)
(* through a stream that drops repetitions before the loop takes it.  The  *)
(* file is written in place: cut short it has lost the router's private    *)
(* key, and no later start gets past reading it.                           *)
(***************************************************************************)
EXTENDS Naturals, Sequences

CONSTANTS
  Tables,     \* what the allocation table may have for this router
  NoPeers,    \* nothing for this router
  None,       \* no table, no interface
  Torn,       \* the file truncated and not yet written
  MaxVersion  \* bound on changes of the table

VARIABLES
  table,   \* the allocation table in the API
  version, \* its resourceVersion
  pc,      \* where the process is
  seen,    \* the version distinct last let through, None before the first
  stream,  \* snapshots the loop has still to take
  want,    \* the snapshot being installed
  file,    \* /etc/wireguard/<iface>.conf
  iface,   \* what the interface runs with
  missed   \* history: the unit was not restarted for what the file says

vars == <<table, version, pc, seen, stream, want, file, iface, missed>>

Snapshots == [version : 0 .. MaxVersion, peers : Tables]

ASSUME RouterAssumption ==
  /\ NoPeers \in Tables
  /\ MaxVersion \in Nat
  /\ None \notin Tables \union Snapshots \union (0 .. MaxVersion)
  /\ Torn \notin Snapshots

TypeOK ==
  /\ table \in Tables \union {None}
  /\ version \in 0 .. MaxVersion
  /\ pc \in {"down", "wait", "write", "fill", "restart", "event"}
  /\ seen \in (0 .. MaxVersion) \union {None}
  /\ stream \in Seq(Snapshots)
  /\ want \in Snapshots
  /\ file \in Snapshots \union {Torn}
  /\ iface \in Snapshots \union {None}
  /\ missed \in BOOLEAN

Blank == [version |-> 0, peers |-> NoPeers]

\* A router set up by hand, without peers, and no table in the cluster.
Init ==
  /\ table = None
  /\ version = 0
  /\ pc = "down"
  /\ seen = None
  /\ stream = <<>>
  /\ want = Blank
  /\ file = Blank
  /\ iface = Blank
  /\ missed = FALSE

-----------------------------------------------------------------------------
(* The cluster and the machine *)

\* node-controller adds a row, or an administrator edits or removes the table.
TableChanges ==
  /\ version < MaxVersion
  /\ version' = version + 1
  /\ table' \in (Tables \union {None}) \ {table}
  /\ UNCHANGED <<pc, seen, stream, want, file, iface, missed>>

Ends ==
  /\ pc' = "down"
  /\ seen' = None
  /\ stream' = <<>>

\* The process dies, with whatever snapshots it had.
Crash ==
  /\ pc # "down"
  /\ Ends
  /\ missed' = (missed \/ pc = "restart")
  /\ UNCHANGED <<table, version, want, file, iface>>

\* The machine reboots: the enabled unit starts the interface from the file.
Reboot ==
  /\ Ends
  /\ iface' = IF file = Torn THEN None ELSE file
  /\ missed' = FALSE
  /\ UNCHANGED <<table, version, want, file>>

-----------------------------------------------------------------------------
(* The process *)

\* ourPubKey is made from the private key in the file.
Start ==
  /\ pc = "down"
  /\ file # Torn
  /\ pc' = "wait"
  /\ UNCHANGED <<table, version, seen, stream, want, file, iface, missed>>

\* Mutant of Deliver: the newest snapshot is put in front of those waiting.
Deliver_Newest ==
  /\ pc # "down"
  /\ seen # version
  /\ seen' = version
  /\ stream' = IF table = None THEN stream
               ELSE <<[version |-> version, peers |-> table]>> \o stream
  /\ UNCHANGED <<table, version, pc, want, file, iface, missed>>

\* The reflector delivers, buildWgConfig makes a snapshot of it, distinct drops
\* what is as it was, and the filter what has no table.
Deliver ==
  /\ pc # "down"
  /\ seen # version
  /\ seen' = version
  /\ stream' = IF table = None THEN stream
               ELSE Append(stream, [version |-> version, peers |-> table])
  /\ UNCHANGED <<table, version, pc, want, file, iface, missed>>

\* installed === newFile: only the text is compared.
Installed(snapshot) == file # Torn /\ file.peers = snapshot.peers

\* The file has these peers already: on to the next snapshot.
Skip ==
  /\ pc = "wait"
  /\ stream # <<>>
  /\ Installed(Head(stream))
  /\ stream' = Tail(stream)
  /\ UNCHANGED <<table, version, pc, seen, want, file, iface, missed>>

Take ==
  /\ pc = "wait"
  /\ stream # <<>>
  /\ ~Installed(Head(stream))
  /\ want' = Head(stream)
  /\ stream' = Tail(stream)
  /\ pc' = "write"
  /\ UNCHANGED <<table, version, seen, file, iface, missed>>

\* writeTextFile truncates ...
WriteOpen ==
  /\ pc = "write"
  /\ file' = Torn
  /\ pc' = "fill"
  /\ UNCHANGED <<table, version, seen, stream, want, iface, missed>>

\* Mutant of WriteFill: the unit is left to find the new file by itself.
WriteFill_NoRestart ==
  /\ pc = "fill"
  /\ file' = want
  /\ pc' = "event"
  /\ UNCHANGED <<table, version, seen, stream, want, iface, missed>>

\* ... and writes header and peers.
WriteFill ==
  /\ pc = "fill"
  /\ file' = want
  /\ pc' = "restart"
  /\ UNCHANGED <<table, version, seen, stream, want, iface, missed>>

RestartUnit ==
  /\ pc = "restart"
  /\ iface' = file
  /\ missed' = FALSE
  /\ pc' = "event"
  /\ UNCHANGED <<table, version, seen, stream, want, file>>

\* systemctl's exit code goes into an Event and nowhere else.
RestartFails ==
  /\ pc = "restart"
  /\ iface' \in {iface, None}
  /\ missed' = TRUE
  /\ pc' = "event"
  /\ UNCHANGED <<table, version, seen, stream, want, file>>

CreateEvent ==
  /\ pc = "event"
  /\ pc' = "wait"
  /\ UNCHANGED <<table, version, seen, stream, want, file, iface, missed>>

ProcessSteps ==
  \/ Start
  \/ Skip
  \/ Take
  \/ WriteOpen
  \/ WriteFill
  \/ RestartUnit
  \/ CreateEvent

Interruptions == Crash \/ Reboot \/ RestartFails

Next == TableChanges \/ Deliver \/ ProcessSteps \/ Interruptions

Spec == Init /\ [][Next]_vars

\* The process is started again and runs on, and the reflector delivers.
FairSpec == Spec /\ WF_vars(ProcessSteps) /\ WF_vars(Deliver)

-----------------------------------------------------------------------------
(* Properties *)

\* A table is passed over as installed only when the interface runs with its
\* peers, unless a restart was missed: the file is taken for the interface.
SkipIsSafe ==
  [][Skip /\ ~missed =>
       iface # None /\ iface.peers = Head(stream).peers]_vars

\* The interface never goes back to an older table, whatever was delivered, cut
\* off, delivered again or brought up by a reboot: a row that was removed does
\* not return.
NeverGoesBack ==
  [][iface # None /\ iface' # None => iface'.version >= iface.version]_vars

Current == iface # None /\ iface.peers = table

\* Once crashes, reboots and failing restarts stop, the interface runs with the
\* table, unless there is none, the file was lost, or a restart was missed: what
\* failed, or was cut off after the file was written, is not made up for, the
\* file having the table already.
InterfaceFollows ==
  []<><<Interruptions>>_vars \/ <>[](table = None \/ file = Torn \/ missed \/ Current)

-----------------------------------------------------------------------------
(* The inductive invariant behind SkipIsSafe and NeverGoesBack *)

\* Without a missed restart the interface lags behind the file only while this
\* process is on its way to restart it.
InterfaceIsFile ==
  ~missed /\ file # Torn /\ pc # "restart" => iface = file

\* Versions are taken up in order: interface, file, snapshots, table.
InOrder ==
  /\ iface # None /\ file # Torn => iface.version <= file.version
  /\ iface # None => iface.version <= want.version
  /\ file # Torn => file.version <= want.version
  /\ pc = "restart" => file = want
  /\ \A i \in 1 .. Len(stream) : want.version <= stream[i].version
  /\ \A i, j \in 1 .. Len(stream) : i < j => stream[i].version <= stream[j].version
  /\ \A i \in 1 .. Len(stream) : stream[i].version <= version
  /\ want.version <= version

RouterInv == TypeOK /\ InterfaceIsFile /\ InOrder
=============================================================================
