----------------------- MODULE RouterControllerProofs -----------------------
(* Theorems about RouterController: type correctness, SkipIsSafe and       *)
(* NeverGoesBack, for any tables and any number of changes.                *)
EXTENDS RouterController, TLAPS

\* What the steps use of a snapshot.
LEMMA SnapshotFacts ==
  /\ \A s \in Snapshots : s.version \in 0 .. MaxVersion /\ s # None /\ s # Torn
  /\ Blank \in Snapshots /\ Blank.version = 0
  /\ \A v \in 0 .. MaxVersion, t \in Tables :
       /\ [version |-> v, peers |-> t] \in Snapshots
       /\ [version |-> v, peers |-> t].version = v
  /\ \A v \in 0 .. MaxVersion : v \in Nat
  BY RouterAssumption DEF Snapshots, Blank

LEMMA InitRouterInv == Init => RouterInv
  <1> SUFFICES ASSUME Init PROVE RouterInv
    OBVIOUS
  <1>1. TypeOK
    <2>1. stream \in Seq(Snapshots)
      BY DEF Init
    <2>2. version \in 0 .. MaxVersion
      BY RouterAssumption DEF Init
    <2> QED
      BY <2>1, <2>2, SnapshotFacts DEF Init, TypeOK
  <1>2. InterfaceIsFile
    BY DEF Init, InterfaceIsFile
  <1>3. InOrder
    BY SnapshotFacts, RouterAssumption DEF Init, InOrder
  <1> QED
    BY <1>1, <1>2, <1>3 DEF RouterInv

\* Snapshots put at the end and taken from the front.
LEMMA StreamSteps ==
  ASSUME stream \in Seq(Snapshots)
  PROVE  /\ \A s \in Snapshots :
              /\ Append(stream, s) \in Seq(Snapshots)
              /\ Len(Append(stream, s)) = Len(stream) + 1
              /\ \A i \in 1 .. Len(stream) : Append(stream, s)[i] = stream[i]
              /\ Append(stream, s)[Len(stream) + 1] = s
         /\ stream # <<>> =>
              /\ Tail(stream) \in Seq(Snapshots)
              /\ Len(stream) \in Nat /\ Len(stream) >= 1
              /\ Len(Tail(stream)) = Len(stream) - 1
              /\ \A i \in 1 .. Len(stream) - 1 : Tail(stream)[i] = stream[i + 1]
              /\ Head(stream) = stream[1]
              /\ Head(stream) \in Snapshots
         /\ \A i \in 1 .. Len(stream) : stream[i] \in Snapshots
         /\ Len(stream) \in Nat
  OBVIOUS

\* One step per action; those that touch the stream or the file need the order
\* of versions, the others leave it alone.
LEMMA NextRouterInv == RouterInv /\ [Next]_vars => RouterInv'
  <1> SUFFICES ASSUME RouterInv, [Next]_vars
               PROVE  RouterInv'
    OBVIOUS
  <1> USE RouterAssumption, SnapshotFacts DEF RouterInv, TypeOK
  <1>1. CASE TableChanges
    <2>1. TypeOK'
      BY <1>1 DEF TableChanges
    <2>2. (InterfaceIsFile /\ InOrder)'
      BY <1>1, StreamSteps DEF TableChanges, InterfaceIsFile, InOrder
    <2> QED
      BY <2>1, <2>2
  <1>2. CASE Deliver
    <2>1. UNCHANGED <<table, version, pc, want, file, iface, missed>> /\ seen' = version
      BY <1>2 DEF Deliver
    <2>2. CASE table = None
      <3>1. stream' = stream
        BY <1>2, <2>2 DEF Deliver
      <3> QED
        BY <2>1, <3>1 DEF InterfaceIsFile, InOrder
    <2>3. CASE table # None
      <3> DEFINE new == [version |-> version, peers |-> table]
      <3>1. new \in Snapshots /\ new.version = version
        BY <2>3
      <3>2. stream' = Append(stream, new)
        BY <1>2, <2>3 DEF Deliver
      <3> HIDE DEF new
      <3>3. TypeOK'
        BY <2>1, <3>1, <3>2, StreamSteps
      <3>4. InterfaceIsFile'
        BY <2>1 DEF InterfaceIsFile
      <3>5. \A i \in 1 .. Len(stream') :
              stream'[i] = IF i = Len(stream) + 1 THEN new ELSE stream[i]
        BY <3>1, <3>2, StreamSteps
      <3>6. Len(stream') = Len(stream) + 1 /\ Len(stream) \in Nat
        BY <3>1, <3>2, StreamSteps
      <3>7. \A i \in 1 .. Len(stream) : stream[i].version <= version /\ stream[i].version \in Nat
        BY StreamSteps DEF InOrder
      <3>8. want.version <= version /\ version \in Nat
        BY DEF InOrder
      <3>9. InOrder'
        <4> HIDE RouterAssumption, SnapshotFacts DEF RouterInv, TypeOK
        <4>0. /\ \A i \in 1 .. Len(stream) : want.version <= stream[i].version
              /\ \A i, j \in 1 .. Len(stream) :
                   i < j => stream[i].version <= stream[j].version
          BY DEF RouterInv, InOrder
        <4>1. ASSUME NEW i \in 1 .. Len(stream')
              PROVE  want.version <= stream'[i].version /\ stream'[i].version <= version
          BY <4>0, <3>1, <3>5, <3>6, <3>7, <3>8
        <4>2. ASSUME NEW i \in 1 .. Len(stream'), NEW j \in 1 .. Len(stream'), i < j
              PROVE  stream'[i].version <= stream'[j].version
          <5>1. i \in 1 .. Len(stream) /\ stream'[i] = stream[i]
            BY <4>2, <3>5, <3>6
          <5> QED
            BY <5>1, <4>2, <4>0, <3>1, <3>5, <3>6, <3>7
        <4> QED
          BY <2>1, <3>8, <4>1, <4>2 DEF RouterInv, InOrder
      <3> QED
        BY <3>3, <3>4, <3>9
    <2> QED
      BY <2>2, <2>3
  <1>3. CASE Start
    BY <1>3 DEF Start, InterfaceIsFile, InOrder
  <1>4. CASE Skip
    <2>1. UNCHANGED <<table, version, pc, seen, want, file, iface, missed>>
      BY <1>4 DEF Skip
    <2>2. /\ stream' \in Seq(Snapshots)
          /\ Len(stream) \in Nat /\ Len(stream) >= 1
          /\ Len(stream') = Len(stream) - 1
          /\ \A i \in 1 .. Len(stream) - 1 : stream'[i] = stream[i + 1]
      BY <1>4, StreamSteps DEF Skip
    <2>3. TypeOK'
      BY <2>1, <2>2
    <2>4. InterfaceIsFile'
      BY <2>1 DEF InterfaceIsFile
    <2>5. InOrder'
      <3>1. \A i \in 1 .. Len(stream') :
              i + 1 \in 1 .. Len(stream) /\ stream'[i] = stream[i + 1]
        BY <2>2
      <3>2. \A i, j \in 1 .. Len(stream') : i < j => i + 1 < j + 1
        BY <2>2
      <3> HIDE RouterAssumption, SnapshotFacts DEF RouterInv, TypeOK
      <3> QED
        BY <2>1, <3>1, <3>2 DEF RouterInv, InOrder
    <2> QED
      BY <2>3, <2>4, <2>5
  <1>5. CASE Take
    <2>1. UNCHANGED <<table, version, seen, file, iface, missed>> /\ pc' = "write"
      BY <1>5 DEF Take
    <2>2. /\ stream' \in Seq(Snapshots)
          /\ Len(stream) \in Nat /\ Len(stream) >= 1
          /\ Len(stream') = Len(stream) - 1
          /\ \A i \in 1 .. Len(stream) - 1 : stream'[i] = stream[i + 1]
          /\ want' = stream[1]
          /\ want' \in Snapshots
      BY <1>5, StreamSteps DEF Take
    <2>3. TypeOK'
      BY <2>1, <2>2
    <2>4. InterfaceIsFile'
      BY <1>5, <2>1 DEF InterfaceIsFile, Take
    <2>5. want.version <= want'.version /\ want'.version <= version
      BY <2>2 DEF InOrder
    <2>6. InOrder'
      <3> HIDE RouterAssumption, SnapshotFacts DEF RouterInv, TypeOK
      <3>0. /\ 1 \in 1 .. Len(stream)
            /\ \A i \in 1 .. Len(stream') :
                 i + 1 \in 1 .. Len(stream) /\ 1 < i + 1 /\ stream'[i] = stream[i + 1]
            /\ \A i, j \in 1 .. Len(stream') : i < j => i + 1 < j + 1
        BY <2>2
      <3>1. \A i \in 1 .. Len(stream') :
              want'.version <= stream'[i].version /\ stream'[i].version <= version
        BY <3>0, <2>2 DEF RouterInv, InOrder
      <3>2. \A i, j \in 1 .. Len(stream') :
              i < j => stream'[i].version <= stream'[j].version
        BY <3>0 DEF RouterInv, InOrder
      <3> USE RouterAssumption, SnapshotFacts DEF RouterInv, TypeOK
      <3>3. /\ iface # None => iface.version <= want'.version
            /\ file # Torn => file.version <= want'.version
        BY <2>2, <2>5 DEF InOrder
      <3> QED
        BY <2>1, <2>5, <3>1, <3>2, <3>3 DEF InOrder
    <2> QED
      BY <2>3, <2>4, <2>6
  <1>6. CASE WriteOpen
    BY <1>6 DEF WriteOpen, InterfaceIsFile, InOrder
  <1>7. CASE WriteFill
    BY <1>7 DEF WriteFill, InterfaceIsFile, InOrder
  <1>8. CASE RestartUnit
    <2>1. UNCHANGED <<table, version, seen, stream, want, file>>
      BY <1>8 DEF RestartUnit
    <2>2. TypeOK' /\ InterfaceIsFile'
      <3>1. file \in Snapshots /\ iface' = file /\ pc' = "event" /\ missed' = FALSE
        BY <1>8 DEF RestartUnit, InOrder
      <3>2. TypeOK'
        BY <2>1, <3>1
      <3>3. InterfaceIsFile'
        BY <2>1, <3>1 DEF InterfaceIsFile
      <3> QED
        BY <3>2, <3>3
    <2>3. InOrder'
      BY <1>8, <2>1 DEF RestartUnit, InOrder
    <2> QED
      BY <2>2, <2>3
  <1>9. CASE RestartFails
    BY <1>9 DEF RestartFails, InterfaceIsFile, InOrder
  <1>10. CASE CreateEvent
    BY <1>10 DEF CreateEvent, InterfaceIsFile, InOrder
  <1>11. CASE Crash
    <2>1. /\ UNCHANGED <<table, version, want, file, iface>>
          /\ pc' = "down" /\ seen' = None /\ stream' = <<>>
      BY <1>11 DEF Crash, Ends
    <2>2. missed' \in BOOLEAN
      BY <1>11 DEF Crash
    <2>3. TypeOK'
      BY <2>1, <2>2
    <2>4. InterfaceIsFile'
      BY <1>11, <2>1 DEF Crash, InterfaceIsFile
    <2>5. InOrder'
      BY <2>1 DEF InOrder
    <2> QED
      BY <2>3, <2>4, <2>5
  <1>12. CASE Reboot
    <2>1. /\ UNCHANGED <<table, version, want, file>>
          /\ pc' = "down" /\ seen' = None /\ stream' = <<>> /\ missed' = FALSE
          /\ iface' = IF file = Torn THEN None ELSE file
      BY <1>12 DEF Reboot, Ends
    <2>2. TypeOK'
      <3>1. iface' \in Snapshots \union {None}
        BY <2>1
      <3>2. stream' \in Seq(Snapshots)
        BY <2>1
      <3> QED
        BY <2>1, <3>1, <3>2
    <2>3. InterfaceIsFile'
      BY <2>1 DEF InterfaceIsFile
    <2>4. InOrder'
      BY <2>1 DEF InOrder
    <2> QED
      BY <2>2, <2>3, <2>4
  <1>13. CASE UNCHANGED vars
    BY <1>13 DEF vars, InterfaceIsFile, InOrder
  <1> QED
    BY <1>1, <1>2, <1>3, <1>4, <1>5, <1>6, <1>7, <1>8, <1>9, <1>10, <1>11,
       <1>12, <1>13 DEF Next, ProcessSteps, Interruptions

\* Every snapshot the loop works on is one of a table: a cluster without a table
\* never empties the router's file.
THEOREM RouterTypeCorrect == Spec => []TypeOK
  <1>1. RouterInv => TypeOK
    BY DEF RouterInv
  <1> QED
    BY <1>1, InitRouterInv, NextRouterInv, PTL DEF Spec

\* The loop passes over a table only if the interface runs with its peers, as
\* long as every restart of the unit was carried out.
THEOREM SkipIsSafeThm == Spec => SkipIsSafe
  <1>1. RouterInv /\ [Next]_vars =>
          [Skip /\ ~missed =>
             iface # None /\ iface.peers = Head(stream).peers]_vars
    BY RouterAssumption
    DEF RouterInv, TypeOK, InterfaceIsFile, Skip, Installed
  <1> QED
    BY <1>1, InitRouterInv, NextRouterInv, PTL DEF Spec, SkipIsSafe

\* The interface moves from table to newer table, across crashes and reboots.
THEOREM NeverGoesBackThm == Spec => NeverGoesBack
  <1>1. RouterInv /\ [Next]_vars =>
          [iface # None /\ iface' # None => iface'.version >= iface.version]_vars
    <2> SUFFICES ASSUME RouterInv, Next, iface # None, iface' # None
                 PROVE  iface'.version >= iface.version
      OBVIOUS
    <2> USE RouterAssumption, SnapshotFacts DEF RouterInv, TypeOK, InOrder
    <2>1. CASE RestartUnit
      BY <2>1 DEF RestartUnit
    <2>2. CASE Reboot
      BY <2>2 DEF Reboot
    <2>3. CASE iface' = iface
      BY <2>3
    <2> QED
      BY <2>1, <2>2, <2>3
      DEF Next, ProcessSteps, Interruptions, TableChanges, Deliver, Start, Skip,
          Take, WriteOpen, WriteFill, RestartFails, CreateEvent, Crash
  <1> QED
    BY <1>1, InitRouterInv, NextRouterInv, PTL DEF Spec, NeverGoesBack
=============================================================================
