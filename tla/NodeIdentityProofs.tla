------------------------- MODULE NodeIdentityProofs -------------------------
(* Theorems about NodeIdentity: type correctness, KnownIsPassedOn and      *)
(* OneDottedAddress, for any addresses, pages and number of changes.       *)
EXTENDS NodeIdentity, SequenceTheorems, TLAPS

LEMMA BodyFacts ==
  /\ Empty \in Bodies
  /\ Addresses \subseteq Bodies /\ Pages \subseteq Bodies
  BY IdentityAssumption DEF Bodies

\* A channel of one place that has something has one thing.
LEMMA OnePlace ==
  ASSUME NEW S, NEW c \in Seq(S), Len(c) <= 1, c # <<>>
  PROVE  /\ c = <<Head(c)>> /\ Head(c) \in S
         /\ Tail(c) = <<>>
  <1>1. Len(c) \in Nat /\ Len(c) # 0
    BY EmptySeq
  <1>2. Len(c) = 1
    BY <1>1
  <1>3. Head(c) = c[1] /\ c[1] \in S
    BY <1>2
  <1>4. c = <<c[1]>>
    BY <1>2
  <1>5. Tail(c) \in Seq(S) /\ Len(Tail(c)) = 0
    BY <1>2
  <1> QED
    BY <1>3, <1>4, <1>5, EmptySeq

\* The new list has the body, in one place if it has a dot, and nothing else
\* with a dot.
LEMMA UpdatedFacts ==
  ASSUME external \in Seq(Bodies), OneDottedAddress, NEW body \in Bodies
  PROVE  /\ Updated(body) \in Seq(Bodies)
         /\ \E i \in DOMAIN Updated(body) : Updated(body)[i] = body
         /\ \A i, j \in DOMAIN Updated(body) :
              Updated(body)[i] \in Dotted /\ Updated(body)[j] \in Dotted => i = j
  <1>1. CASE HasDotted
    <2>1. Updated(body) = [i \in DOMAIN external |->
                             IF external[i] \in Dotted THEN body ELSE external[i]]
      BY <1>1 DEF Updated
    <2>2. /\ DOMAIN external = 1 .. Len(external) /\ Len(external) \in Nat
          /\ \A i \in DOMAIN external : external[i] \in Bodies
      OBVIOUS
    <2>3. DOMAIN Updated(body) = DOMAIN external
      BY <2>1
    <2>4. \A i \in DOMAIN external : Updated(body)[i] \in Bodies
      BY <2>1, <2>2
    <2>5. Updated(body) \in Seq(Bodies)
      BY <2>1, <2>2, <2>3, <2>4
    <2>6. \E i \in DOMAIN Updated(body) : Updated(body)[i] = body
      BY <1>1, <2>1 DEF HasDotted
    <2>7. ASSUME NEW i \in DOMAIN external, Updated(body)[i] \in Dotted
          PROVE  external[i] \in Dotted
      BY <2>1, <2>7
    <2>8. \A i, j \in DOMAIN Updated(body) :
            Updated(body)[i] \in Dotted /\ Updated(body)[j] \in Dotted => i = j
      BY <2>3, <2>7 DEF OneDottedAddress
    <2> QED
      BY <2>5, <2>6, <2>8
  <1>2. CASE ~HasDotted
    <2>1. Updated(body) = Append(external, body)
      BY <1>2 DEF Updated
    <2>2. /\ Append(external, body) \in Seq(Bodies)
          /\ DOMAIN Append(external, body) = 1 .. Len(external) + 1
          /\ \A i \in 1 .. Len(external) : Append(external, body)[i] = external[i]
          /\ Append(external, body)[Len(external) + 1] = body
          /\ DOMAIN external = 1 .. Len(external)
          /\ Len(external) \in Nat
      OBVIOUS
    <2>3. \A i \in 1 .. Len(external) : external[i] \notin Dotted
      BY <1>2, <2>2 DEF HasDotted
    <2>4. \A i \in DOMAIN Updated(body) :
            Updated(body)[i] \in Dotted => i = Len(external) + 1
      BY <2>1, <2>2, <2>3
    <2>5. Len(external) + 1 \in DOMAIN Updated(body)
      BY <2>1, <2>2
    <2> QED
      BY <2>1, <2>2, <2>4, <2>5
  <1> QED
    BY <1>1, <1>2

LEMMA InitIdentityInv == Init => IdentityInv
  BY IdentityAssumption, BodyFacts
  DEF Init, IdentityInv, TypeOK, ChannelHasKnown, KnownIsPassedOn, OneDottedAddress

\* One step per action; only the two that take from the channel change the list.
LEMMA NextIdentityInv == IdentityInv /\ [Next]_vars => IdentityInv'
  <1> SUFFICES ASSUME IdentityInv, [Next]_vars
               PROVE  IdentityInv'
    OBVIOUS
  <1> USE IdentityAssumption, BodyFacts
      DEF IdentityInv, TypeOK, ChannelHasKnown, KnownIsPassedOn, OneDottedAddress
  <1>1. CASE Move
    BY <1>1 DEF Move, watcher
  <1>2. CASE Crash
    BY <1>2 DEF Crash
  <1>3. CASE NewNodeIdentity \/ NewPetNodeProvider
    BY <1>3 DEF NewNodeIdentity, NewPetNodeProvider, watcher
  <1>4. ASSUME NEW body \in Bodies, Fetched(body), pages' \in 0 .. MaxPages
        PROVE  IdentityInv'
    BY <1>4 DEF Fetched
  <1>5. CASE FetchAddress
    BY <1>4, <1>5 DEF FetchAddress
  <1>6. CASE FetchPage
    BY <1>4, <1>6 DEF FetchPage
  <1>7. CASE FetchFails
    BY <1>7 DEF FetchFails
  <1>8. CASE Send
    BY <1>8 DEF Send
  <1>9. CASE Wake
    BY <1>9 DEF Wake
  <1>10. CASE TakeFirstAddress
    <2>1. /\ external' = <<known>> /\ addrC' = <<>> /\ known \in Bodies
          /\ pc' = "loop"
          /\ UNCHANGED <<real, moves, pages, wpc, addr, known, reported>>
      BY <1>10, OnePlace DEF TakeFirstAddress, watcher
    <2>2. /\ DOMAIN external' = {1} /\ external'[1] = known
          /\ external' \in Seq(Bodies)
      BY <2>1
    <2> QED
      BY <2>1, <2>2
  <1>11. CASE StartWithoutAddress
    BY <1>11 DEF StartWithoutAddress, watcher
  <1>12. CASE TakeAddress
    <2>1. /\ external' = Updated(known) /\ addrC' = <<>> /\ known \in Bodies
          /\ pc' = "report"
          /\ UNCHANGED <<real, moves, pages, wpc, addr, known, reported>>
      BY <1>12, OnePlace DEF TakeAddress, watcher
    <2>2. /\ external' \in Seq(Bodies)
          /\ \E i \in DOMAIN external' : external'[i] = known
          /\ \A i, j \in DOMAIN external' :
               external'[i] \in Dotted /\ external'[j] \in Dotted => i = j
      BY <2>1, UpdatedFacts
    <2> QED
      BY <2>1, <2>2
  <1>13. CASE Refresh
    BY <1>13 DEF Refresh, watcher
  <1>14. CASE Report
    BY <1>14 DEF Report, watcher
  <1>15. CASE ReportFails
    BY <1>15 DEF ReportFails, watcher
  <1>16. CASE UNCHANGED vars
    BY <1>16 DEF vars
  <1> QED
    BY <1>1, <1>2, <1>3, <1>5, <1>6, <1>7, <1>8, <1>9, <1>10, <1>11, <1>12,
       <1>13, <1>14, <1>15, <1>16 DEF Next, WatcherSteps, ProviderSteps

\* The channel never has more than one value, and a value is only sent when it
\* is not the one sent last.
THEOREM IdentityTypeCorrect == Spec => []TypeOK
  <1>1. IdentityInv => TypeOK
    BY DEF IdentityInv
  <1> QED
    BY <1>1, InitIdentityInv, NextIdentityInv, PTL DEF Spec

\* Between the two goroutines no address is lost.
THEOREM KnownIsPassedOnThm == Spec => []KnownIsPassedOn
  <1>1. IdentityInv => KnownIsPassedOn
    BY DEF IdentityInv
  <1> QED
    BY <1>1, InitIdentityInv, NextIdentityInv, PTL DEF Spec

\* The list never has two IPv4 addresses, however many answers there were.
THEOREM OneDottedAddressThm == Spec => []OneDottedAddress
  <1>1. IdentityInv => OneDottedAddress
    BY DEF IdentityInv
  <1> QED
    BY <1>1, InitIdentityInv, NextIdentityInv, PTL DEF Spec
=============================================================================
