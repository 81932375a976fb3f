------------------------ MODULE PublishRecords_proofs ------------------------
(***************************************************************************)
(* What the operators of PublishRecords do to a table, for every set of    *)
(* packet identifiers and every size.  The proofs about the modules that   *)
(* keep such tables cite these lemmas.                                     *)
(*                                                                         *)
(* The first half is about Good: one record at most per identifier, and    *)
(* a record only in a state of its QoS and direction.  The second is about *)
(* Progress and Order: there is a lemma for each way in which an operation *)
(* changes them: not at all, by a new publish at the end, by a step in     *)
(* place, by a step to the end, by a publish that leaves.                  *)
(***************************************************************************)
EXTENDS PublishRecords, FiniteSetTheorems, WellFoundedInduction, TLAPS

\* What every operation on a table keeps.
Good(records, n, flights) ==
  /\ records \in [1..n -> Slot]
  /\ UniqueIds(records)
  /\ WellFormed(records, flights)

-----------------------------------------------------------------------------
(* One table.                                                              *)

LEMMA EmptySlotType == EmptySlot \in Slot /\ ~Occupied(EmptySlot)
  BY DEF EmptySlot, Slot, Occupied, MQTTQoS, MQTTPublishState

\* A table without records is good.
LEMMA EmptyTableGood ==
  ASSUME NEW n \in Nat, NEW flights
  PROVE  Good(EmptyTable(n), n, flights)
  BY EmptySlotType DEF Good, EmptyTable, UniqueIds, WellFormed, Occupied

\* What compaction puts in slot k is what was in some occupied slot of rank
\* k, or nothing.
LEMMA CompactSlot ==
  ASSUME NEW records, NEW k \in DOMAIN records
  PROVE  LET c == CompactRecords(records)
         IN  \/ c[k] = EmptySlot
             \/ \E i \in DOMAIN records :
                  IsNth(records, i, k) /\ c[k] = records[i]
  <1>1. CASE \E i \in DOMAIN records : IsNth(records, i, k)
    <2> DEFINE i == CHOOSE i \in DOMAIN records : IsNth(records, i, k)
    <2>1. i \in DOMAIN records /\ IsNth(records, i, k)
      BY <1>1
    <2>2. CompactRecords(records)[k] = records[i]
      BY <1>1 DEF CompactRecords
    <2> QED
      BY <2>1, <2>2
  <1>2. CASE ~ \E i \in DOMAIN records : IsNth(records, i, k)
    BY <1>2 DEF CompactRecords
  <1> QED
    BY <1>1, <1>2

\* Compaction keeps a table good: two slots of the compacted table with the
\* same identifier would come from one slot, of one rank.
LEMMA CompactGood ==
  ASSUME NEW n \in Nat, NEW flights, NEW records,
         Good(records, n, flights)
  PROVE  Good(CompactRecords(records), n, flights)
  <1> DEFINE c == CompactRecords(records)
  <1>1. DOMAIN records = 1..n /\ DOMAIN c = 1..n
    BY DEF Good, CompactRecords
  <1>2. ASSUME NEW k \in 1..n
        PROVE  \/ c[k] = EmptySlot
               \/ \E i \in 1..n : IsNth(records, i, k) /\ c[k] = records[i]
    BY <1>1, CompactSlot
  <1> HIDE DEF c
  <1>3. c \in [1..n -> Slot]
    <2>1. c = [k \in 1..n |-> c[k]]
      BY <1>1 DEF c, CompactRecords
    <2>2. \A k \in 1..n : c[k] \in Slot
      BY <1>2, EmptySlotType DEF Good
    <2> QED
      BY <2>1, <2>2
  <1>4. UniqueIds(c)
    <2> SUFFICES ASSUME NEW k \in 1..n, NEW m \in 1..n,
                        Occupied(c[k]), c[k].packetId = c[m].packetId
                 PROVE  k = m
      BY <1>1 DEF UniqueIds
    <2>1. Occupied(c[m])
      BY DEF Occupied
    <2>2. PICK i \in 1..n : IsNth(records, i, k) /\ c[k] = records[i]
      BY <1>2, EmptySlotType
    <2>3. PICK j \in 1..n : IsNth(records, j, m) /\ c[m] = records[j]
      BY <1>2, <2>1, EmptySlotType
    <2>4. i = j
      BY <2>2, <2>3, <1>1 DEF Good, UniqueIds
    <2> QED
      BY <2>2, <2>3, <2>4 DEF IsNth
  <1>5. WellFormed(c, flights)
    <2> SUFFICES ASSUME NEW k \in 1..n
                 PROVE  IF Occupied(c[k])
                          THEN [qos |-> c[k].qos, state |-> c[k].publishState]
                                 \in flights
                          ELSE c[k] = EmptySlot
      BY <1>1 DEF WellFormed
    <2>1. CASE c[k] = EmptySlot
      BY <2>1, EmptySlotType
    <2>2. CASE \E i \in 1..n : IsNth(records, i, k) /\ c[k] = records[i]
      BY <2>2, <1>1 DEF Good, WellFormed, IsNth
    <2> QED
      BY <1>2, <2>1, <2>2
  <1> QED
    BY <1>3, <1>4, <1>5 DEF Good, c

LEMMA PreparedGood ==
  ASSUME NEW n \in Nat, NEW flights, NEW records,
         Good(records, n, flights)
  PROVE  Good(Prepared(records), n, flights)
  BY CompactGood DEF Prepared

\* A non-empty set of natural numbers has a least element.
LEMMA LeastElement ==
  ASSUME NEW T, T \subseteq Nat, T # {}
  PROVE  \E x \in T : \A y \in T : x <= y
  <1>1. \E x \in T : \A y \in T : ~ (<<y, x>> \in OpToRel(<, Nat))
    BY NatLessThanWellFounded, WFMin
  <1>2. PICK x \in T : \A y \in T : ~ (<<y, x>> \in OpToRel(<, Nat))
    BY <1>1
  <1>3. \A y \in T : ~(y < x)
    BY <1>2 DEF OpToRel
  <1> QED
    BY <1>3

\* addRecord writes to a free slot of the table.
LEMMA AvailableIndexFree ==
  ASSUME NEW n \in Nat, NEW records, DOMAIN records = 1..n,
         Trailing(records) # {}
  PROVE  /\ AvailableIndex(records) \in 1..n
         /\ ~Occupied(records[AvailableIndex(records)])
         /\ \A j \in 1..n : j >= AvailableIndex(records) => ~Occupied(records[j])
         /\ \A i \in Trailing(records) : AvailableIndex(records) <= i
  <1>1. Trailing(records) \subseteq 1..n
    BY DEF Trailing
  <1>2. \E a \in Trailing(records) : \A j \in Trailing(records) : a <= j
    BY <1>1, LeastElement
  <1> QED
    BY <1>1, <1>2 DEF AvailableIndex, Trailing

\* Writing a record with a fresh identifier to a free slot.
LEMMA WriteGood ==
  ASSUME NEW n \in Nat, NEW flights, NEW records,
         Good(records, n, flights),
         NEW a \in 1..n, ~Occupied(records[a]),
         NEW id \in PacketIds, ~Holds(records, id),
         NEW qos \in MQTTQoS, NEW state \in MQTTPublishState,
         [qos |-> qos, state |-> state] \in flights
  PROVE  Good([records EXCEPT ![a] = [packetId     |-> id,
                                      qos          |-> qos,
                                      publishState |-> state]],
              n, flights)
  <1> DEFINE slot == [packetId |-> id, qos |-> qos, publishState |-> state]
             new  == [records EXCEPT ![a] = slot]
  <1>1. /\ DOMAIN records = 1..n
        /\ DOMAIN new = 1..n
        /\ new[a] = slot
        /\ \A i \in 1..n : i # a => new[i] = records[i]
    BY DEF Good
  <1>2. slot \in Slot /\ slot.packetId = id /\ Occupied(slot)
    BY PacketIdAssumption DEF Slot, Occupied
  <1>3. new \in [1..n -> Slot]
    BY <1>2 DEF Good
  <1>4. \A i \in 1..n : records[i].packetId # id
    BY <1>1 DEF Holds
  <1> HIDE DEF new
  <1>5. UniqueIds(new)
    BY <1>1, <1>2, <1>4 DEF UniqueIds, Good
  <1>6. WellFormed(new, flights)
    BY <1>1, <1>2 DEF WellFormed, Good
  <1> QED
    BY <1>3, <1>5, <1>6 DEF Good, new

\* addRecord, whatever it returns.
LEMMA AddRecordGood ==
  ASSUME NEW n \in Nat, NEW flights, NEW records,
         Good(records, n, flights),
         NEW id \in PacketIds,
         NEW qos \in MQTTQoS, NEW state \in MQTTPublishState,
         [qos |-> qos, state |-> state] \in flights
  PROVE  /\ Good(AddRecord(records, id, qos, state).records, n, flights)
         /\ AddRecord(records, id, qos, state).status \in Statuses
  <1> DEFINE table == Prepared(records)
  <1>1. Good(table, n, flights)
    BY PreparedGood
  <1>2. DOMAIN table = 1..n
    BY <1>1 DEF Good
  <1>3. CASE Holds(table, id) \/ Trailing(table) = {}
    BY <1>1, <1>3 DEF AddRecord, Statuses
  <1>4. CASE ~Holds(table, id) /\ Trailing(table) # {}
    <2> DEFINE a == AvailableIndex(table)
    <2>1. a \in 1..n /\ ~Occupied(table[a])
      BY <1>2, <1>4, AvailableIndexFree
    <2>2. AddRecord(records, id, qos, state) =
            [status  |-> "Success",
             records |-> [table EXCEPT ![a] = [packetId     |-> id,
                                               qos          |-> qos,
                                               publishState |-> state]]]
      BY <1>4 DEF AddRecord
    <2> HIDE DEF a, table
    <2>3. Good([table EXCEPT ![a] = [packetId     |-> id,
                                     qos          |-> qos,
                                     publishState |-> state]],
               n, flights)
      BY <1>1, <1>4, <2>1, WriteGood
    <2> QED
      BY <2>2, <2>3 DEF Statuses
  <1> QED
    BY <1>3, <1>4

LEMMA DeleteGood ==
  ASSUME NEW n \in Nat, NEW flights, NEW records,
         Good(records, n, flights), NEW i \in 1..n
  PROVE  Good(DeleteRecord(records, i), n, flights)
  BY EmptySlotType
  DEF Good, DeleteRecord, UniqueIds, WellFormed, Occupied

LEMMA SetStateGood ==
  ASSUME NEW n \in Nat, NEW flights, NEW records,
         Good(records, n, flights),
         NEW i \in 1..n, Occupied(records[i]),
         NEW state \in MQTTPublishState,
         [qos |-> records[i].qos, state |-> state] \in flights
  PROVE  Good(SetRecordState(records, i, state), n, flights)
  <1> DEFINE new == SetRecordState(records, i, state)
  <1>1. /\ DOMAIN records = 1..n
        /\ DOMAIN new = 1..n
        /\ \A j \in 1..n : j # i => new[j] = records[j]
        /\ new[i] = [records[i] EXCEPT !.publishState = state]
    BY DEF Good, SetRecordState
  <1>2. records[i] \in Slot
    BY DEF Good
  <1>3. /\ new[i] \in Slot
        /\ new[i].packetId = records[i].packetId
        /\ new[i].qos = records[i].qos
        /\ new[i].publishState = state
    BY <1>1, <1>2 DEF Slot
  <1>4. new \in [1..n -> Slot]
    BY <1>2 DEF Good, SetRecordState, Slot
  <1> HIDE DEF new
  <1>5. \A j \in 1..n : new[j].packetId = records[j].packetId
    BY <1>1, <1>3
  <1>6. UniqueIds(records)
    BY DEF Good
  <1>7. UniqueIds(new)
    BY <1>1, <1>5, <1>6 DEF UniqueIds, Occupied
  <1>8. WellFormed(new, flights)
    BY <1>1, <1>3 DEF WellFormed, Good, Occupied
  <1> QED
    BY <1>4, <1>7, <1>8 DEF Good, new

\* findInRecord finds the record of an identifier that has one.
LEMMA FoundRecord ==
  ASSUME NEW n \in Nat, NEW flights, NEW records,
         Good(records, n, flights),
         NEW id \in PacketIds, Holds(records, id)
  PROVE  /\ FindInRecord(records, id) \in 1..n
         /\ records[FindInRecord(records, id)].packetId = id
         /\ Occupied(records[FindInRecord(records, id)])
  <1> DEFINE S == {i \in 1..n : records[i].packetId = id}
  <1>1. DOMAIN records = 1..n
    BY DEF Good
  <1>2. S # {} /\ S \subseteq Nat
    BY <1>1 DEF Holds
  <1>3. \E i \in S : \A j \in S : i <= j
    BY <1>2, LeastElement
  <1>4. \E i \in DOMAIN records :
          /\ records[i].packetId = id
          /\ \A j \in DOMAIN records : j < i => records[j].packetId # id
    BY <1>1, <1>3
  <1> QED
    BY <1>1, <1>4, PacketIdAssumption DEF FindInRecord, Occupied

-----------------------------------------------------------------------------
(* The calls.                                                              *)

\* MQTT_UpdateStatePublish for a publish that is sent.
LEMMA UpdateSentPublishGood ==
  ASSUME NEW n \in Nat, NEW records, Good(records, n, OutgoingFlights),
         NEW id \in PacketIds, NEW qos \in {1, 2}
  PROVE  LET r == UpdateSentPublish(records, id, qos)
         IN  Good(r.records, n, OutgoingFlights) /\ r.status \in Statuses
  <1> DEFINE i   == FindInRecord(records, id)
             new == CalculateStatePublish("SEND", qos)
             ok  == /\ Holds(records, id)
                    /\ records[i].qos = qos
                    /\ ValidTransitionPublish(records[i].publishState, new,
                                              "SEND", qos)
  <1>1. CASE ~ok
    BY <1>1 DEF UpdateSentPublish, Unchanged, Statuses
  <1>2. CASE ok
    <2>1. i \in 1..n /\ Occupied(records[i])
      BY <1>2, FoundRecord
    <2>2. /\ UpdateSentPublish(records, id, qos).records =
               SetRecordState(records, i, new)
          /\ UpdateSentPublish(records, id, qos).status = "Success"
      BY <1>2 DEF UpdateSentPublish
    <2>3. /\ new \in MQTTPublishState
          /\ [qos |-> records[i].qos, state |-> new] \in OutgoingFlights
      BY <1>2 DEF CalculateStatePublish, OutgoingFlights, At,
                  MQTTPublishState, OutgoingStates
    <2> HIDE DEF i, new
    <2>4. Good(SetRecordState(records, i, new), n, OutgoingFlights)
      BY <2>1, <2>3, SetStateGood
    <2> QED
      BY <2>2, <2>4 DEF Statuses
  <1> QED
    BY <1>1, <1>2

\* MQTT_UpdateStatePublish for a publish that is received.
LEMMA UpdateReceivedPublishGood ==
  ASSUME NEW n \in Nat, NEW records, Good(records, n, IncomingFlights),
         NEW id \in PacketIds, NEW qos \in {1, 2}
  PROVE  LET r == UpdateReceivedPublish(records, id, qos)
         IN  Good(r.records, n, IncomingFlights) /\ r.status \in Statuses
  <1> DEFINE new   == CalculateStatePublish("RECEIVE", qos)
             added == AddRecord(records, id, qos, new)
  <1>1. /\ new \in MQTTPublishState
        /\ [qos |-> qos, state |-> new] \in IncomingFlights
        /\ qos \in MQTTQoS
    BY DEF CalculateStatePublish, IncomingFlights, At, MQTTPublishState,
           IncomingStates, MQTTQoS
  <1>2. Good(added.records, n, IncomingFlights) /\ added.status \in Statuses
    <2> HIDE DEF new
    <2> QED
      BY <1>1, AddRecordGood
  <1> QED
    BY <1>2 DEF UpdateReceivedPublish

\* Where a valid acknowledgement can take a record: to the end of the
\* handshake or to a state of the same direction and QoS.
LEMMA AckFlights ==
  ASSUME NEW qos, NEW state,
         NEW packetType \in MQTTPubAckType, NEW opType \in {"SEND", "RECEIVE"},
         ValidTransitionAck(state, CalculateStateAck(packetType, opType, qos))
  PROVE  LET new == CalculateStateAck(packetType, opType, qos)
         IN  /\ new \in MQTTPublishState
             /\ \/ new = "PublishDone"
                \/ /\ [qos |-> qos, state |-> state] \in OutgoingFlights
                   /\ [qos |-> qos, state |-> new] \in OutgoingFlights
                   /\ [qos |-> 2, state |-> "PubRelSend"] \in OutgoingFlights
                \/ /\ [qos |-> qos, state |-> state] \in IncomingFlights
                   /\ [qos |-> qos, state |-> new] \in IncomingFlights
                   /\ new # "PubRelSend"
  BY DEF ValidTransitionAck, AckTransitions, CalculateStateAck,
         MQTTPubAckType, OutgoingFlights, IncomingFlights, At,
         MQTTPublishState, OutgoingStates, IncomingStates

\* The two directions share no state.
LEMMA DisjointFlights ==
  ASSUME NEW f, f \in OutgoingFlights
  PROVE  f \notin IncomingFlights
  BY DEF OutgoingFlights, IncomingFlights, At

\* MQTT_UpdateStateAck on either table.
LEMMA UpdateStateAckGood ==
  ASSUME NEW n \in Nat, NEW flights \in {OutgoingFlights, IncomingFlights},
         NEW records, Good(records, n, flights),
         NEW id \in PacketIds,
         NEW packetType \in MQTTPubAckType, NEW opType \in {"SEND", "RECEIVE"}
  PROVE  LET r == UpdateStateAck(records, id, packetType, opType)
         IN  Good(r.records, n, flights) /\ r.status \in Statuses
  <1> DEFINE i   == FindInRecord(records, id)
             new == CalculateStateAck(packetType, opType, records[i].qos)
             ok  == /\ Holds(records, id)
                    /\ ValidTransitionAck(records[i].publishState, new)
             applied == ApplyAck(records, i, new)
  <1>1. CASE ~ok
    BY <1>1 DEF UpdateStateAck, Unchanged, Statuses
  <1>2. CASE ok
    <2>1. /\ i \in 1..n
          /\ Occupied(records[i])
          /\ records[i].packetId = id
      BY <1>2, FoundRecord
    <2>2. /\ UpdateStateAck(records, id, packetType, opType).records =
               applied.records
          /\ UpdateStateAck(records, id, packetType, opType).status =
               applied.status
      BY <1>2 DEF UpdateStateAck
    <2>3. /\ new \in MQTTPublishState
          /\ \/ new = "PublishDone"
             \/ /\ [qos |-> records[i].qos, state |-> new] \in flights
                /\ new = "PubRelSend" =>
                     [qos |-> 2, state |-> "PubRelSend"] \in flights
      <3>1. [qos |-> records[i].qos, state |-> records[i].publishState]
              \in flights
        BY <2>1 DEF Good, WellFormed
      <3>2. ValidTransitionAck(records[i].publishState, new)
        BY <1>2
      <3> HIDE DEF i
      <3> QED
        BY <3>1, <3>2, AckFlights, DisjointFlights
    <2> HIDE DEF i, new
    <2>4. CASE new = records[i].publishState
      <3>1. applied = [status |-> "Success", records |-> records]
        BY <2>4 DEF ApplyAck
      <3> QED
        BY <2>2, <3>1 DEF Statuses
    <2>5. CASE new # records[i].publishState /\ new = "PublishDone"
      <3>1. Good(DeleteRecord(records, i), n, flights)
        BY <2>1, DeleteGood
      <3>2. applied = [status  |-> "Success",
                       records |-> DeleteRecord(records, i)]
        BY <2>5 DEF ApplyAck
      <3> QED
        BY <2>2, <3>1, <3>2 DEF Statuses
    <2>6. CASE new # records[i].publishState /\ new = "PubRelSend"
      <3> DEFINE rest == DeleteRecord(records, i)
      <3>1. Good(rest, n, flights)
        BY <2>1, DeleteGood
      <3>2. applied = AddRecord(rest, id, 2, "PubRelSend")
        BY <2>1, <2>6 DEF ApplyAck
      <3>3. 2 \in MQTTQoS /\ "PubRelSend" \in MQTTPublishState
        BY DEF MQTTQoS, MQTTPublishState, OutgoingStates
      <3>4. [qos |-> 2, state |-> "PubRelSend"] \in flights
        BY <2>3, <2>6
      <3> HIDE DEF rest, applied
      <3>5. /\ Good(AddRecord(rest, id, 2, "PubRelSend").records, n, flights)
            /\ AddRecord(rest, id, 2, "PubRelSend").status \in Statuses
        BY <3>1, <3>3, <3>4, AddRecordGood
      <3> QED
        BY <2>2, <3>2, <3>5
    <2>7. CASE /\ new # records[i].publishState
               /\ new \notin {"PublishDone", "PubRelSend"}
      <3>1. Good(SetRecordState(records, i, new), n, flights)
        BY <2>1, <2>3, <2>7, SetStateGood
      <3>2. applied = [status  |-> "Success",
                       records |-> SetRecordState(records, i, new)]
        BY <2>7 DEF ApplyAck
      <3> QED
        BY <2>2, <3>1, <3>2 DEF Statuses
    <2> QED
      BY <2>4, <2>5, <2>6, <2>7
  <1> QED
    BY <1>1, <1>2

LEMMA RemoveStateRecordGood ==
  ASSUME NEW n \in Nat, NEW flights, NEW records,
         Good(records, n, flights), NEW id \in PacketIds
  PROVE  LET r == RemoveStateRecord(records, id)
         IN  Good(r.records, n, flights) /\ r.status \in Statuses
  BY FoundRecord, DeleteGood DEF RemoveStateRecord, Statuses

-----------------------------------------------------------------------------
(* Compaction leaves the last slot free unless every slot is taken, and    *)
(* loses no record.                                                        *)

LEMMA RankBound ==
  ASSUME NEW n \in Nat, NEW records, NEW i \in 1..n
  PROVE  /\ Rank(records, i) \in Nat
         /\ Rank(records, i) <= i
         /\ Rank(records, i) = i => \A j \in 1..i : Occupied(records[j])
         /\ Occupied(records[i]) => Rank(records, i) >= 1
  <1> DEFINE occupied == {j \in 1..i : Occupied(records[j])}
  <1>1. IsFiniteSet(1..i) /\ Cardinality(1..i) = i
    BY FS_Interval
  <1>2. /\ IsFiniteSet(occupied)
        /\ Cardinality(occupied) <= i
        /\ Cardinality(occupied) = i => occupied = 1..i
    <2>1. occupied \in SUBSET (1..i)
      OBVIOUS
    <2> HIDE DEF occupied
    <2> QED
      BY <1>1, <2>1, FS_Subset
  <1>3. Cardinality(occupied) \in Nat
    BY <1>2, FS_CardinalityType
  <1>4. Occupied(records[i]) => Cardinality(occupied) >= 1
    <2>1. Occupied(records[i]) => occupied # {}
      OBVIOUS
    <2>2. Cardinality(occupied) = 0 <=> occupied = {}
      BY <1>2, FS_EmptySet
    <2> QED
      BY <2>1, <2>2, <1>3
  <1> QED
    BY <1>2, <1>3, <1>4 DEF Rank

\* Of two occupied slots the later one has the greater rank.
LEMMA RankIncreases ==
  ASSUME NEW n \in Nat, NEW records, NEW i \in 1..n, NEW j \in 1..n,
         i < j, Occupied(records[j])
  PROVE  Rank(records, i) < Rank(records, j)
  <1> DEFINE low  == {k \in 1..i : Occupied(records[k])}
             high == {k \in 1..j : Occupied(records[k])}
  <1>1. /\ IsFiniteSet(high)
        /\ low \in SUBSET high
        /\ j \in high
        /\ j \notin low
    <2>1. IsFiniteSet(1..j) /\ high \in SUBSET (1..j)
      BY FS_Interval
    <2>2. IsFiniteSet(high)
      BY <2>1, FS_Subset
    <2> QED
      BY <2>2
  <1>2. /\ Cardinality(low) <= Cardinality(high)
        /\ Cardinality(low) # Cardinality(high)
        /\ Cardinality(low) \in Nat
        /\ Cardinality(high) \in Nat
    <2> HIDE DEF low, high
    <2>1. /\ IsFiniteSet(low)
          /\ Cardinality(low) <= Cardinality(high)
          /\ Cardinality(high) = Cardinality(low) => high = low
      BY <1>1, FS_Subset
    <2> QED
      BY <1>1, <2>1, FS_CardinalityType
  <1> QED
    BY <1>2 DEF Rank

LEMMA CompactMakesRoom ==
  ASSUME NEW n \in Nat \ {0}, NEW records, DOMAIN records = 1..n,
         ~Full(records)
  PROVE  ~Occupied(CompactRecords(records)[n])
  <1> SUFFICES ASSUME NEW i \in 1..n, IsNth(records, i, n)
               PROVE  FALSE
    BY EmptySlotType, CompactSlot DEF CompactRecords
  <1>1. Rank(records, i) = n /\ i = n
    BY RankBound DEF IsNth
  <1>2. \A j \in 1..n : Occupied(records[j])
    BY <1>1, RankBound
  <1> QED
    BY <1>2 DEF Full

\* After preparation there is room, unless the table is full.
LEMMA PreparedHasRoom ==
  ASSUME NEW n \in Nat \ {0}, NEW records, DOMAIN records = 1..n,
         ~Full(records)
  PROVE  Trailing(Prepared(records)) # {}
  <1>1. CASE Trailing(records) = {}
    <2>1. DOMAIN CompactRecords(records) = 1..n
      BY DEF CompactRecords
    <2>2. n \in Trailing(CompactRecords(records))
      BY <2>1, CompactMakesRoom DEF Trailing
    <2> QED
      BY <1>1, <2>2 DEF Prepared
  <1>2. CASE Trailing(records) # {}
    BY <1>2 DEF Prepared
  <1> QED
    BY <1>1, <1>2

LEMMA PreparedHolds ==
  ASSUME NEW n \in Nat, NEW records, DOMAIN records = 1..n,
         NEW id \in PacketIds, Holds(Prepared(records), id)
  PROVE  Holds(records, id)
  <1>1. id # EmptySlot.packetId
    BY PacketIdAssumption DEF EmptySlot
  <1>2. CASE Trailing(records) = {}
    <2>1. Prepared(records) = CompactRecords(records)
      BY <1>2 DEF Prepared
    <2>2. DOMAIN CompactRecords(records) = 1..n
      BY DEF CompactRecords
    <2>3. PICK k \in 1..n : CompactRecords(records)[k].packetId = id
      BY <2>1, <2>2 DEF Holds
    <2>4. \E i \in DOMAIN records :
            IsNth(records, i, k) /\ CompactRecords(records)[k] = records[i]
      BY <1>1, <2>3, CompactSlot
    <2> QED
      BY <2>3, <2>4 DEF Holds
  <1>3. CASE Trailing(records) # {}
    BY <1>3 DEF Prepared
  <1> QED
    BY <1>2, <1>3

\* addRecord runs out of memory only when every slot is taken.
LEMMA AddRecordNoMemory ==
  ASSUME NEW n \in Nat \ {0}, NEW records, DOMAIN records = 1..n,
         NEW id, NEW qos, NEW state,
         AddRecord(records, id, qos, state).status = "NoMemory"
  PROVE  Full(records)
  BY PreparedHasRoom DEF AddRecord

\* The record that PUBREC moves to the end always finds a place there.
LEMMA RequeueSucceeds ==
  ASSUME NEW n \in Nat, NEW flights, NEW records, Good(records, n, flights),
         NEW i \in 1..n, Occupied(records[i]), records[i].packetId \in PacketIds
  PROVE  AddRecord(DeleteRecord(records, i), records[i].packetId, 2,
                   "PubRelSend").status = "Success"
  <1> DEFINE rest == DeleteRecord(records, i)
             id   == records[i].packetId
  <1>1. /\ n \in Nat \ {0}
        /\ DOMAIN records = 1..n
        /\ DOMAIN rest = 1..n
        /\ rest[i] = EmptySlot
        /\ \A j \in 1..n : j # i => rest[j] = records[j]
    BY DEF Good, DeleteRecord
  <1>2. ~Full(rest)
    BY <1>1, EmptySlotType DEF Full
  <1>3. ~Holds(rest, id)
    <2>1. \A j \in 1..n : j # i => records[j].packetId # id
      BY <1>1 DEF Good, UniqueIds
    <2>2. EmptySlot.packetId # id
      BY PacketIdAssumption DEF EmptySlot
    <2> QED
      BY <1>1, <2>1, <2>2 DEF Holds
  <1> HIDE DEF rest, id
  <1>4. id \in PacketIds
    BY DEF id
  <1>5. ~Holds(Prepared(rest), id)
    BY <1>1, <1>3, <1>4, PreparedHolds
  <1>6. Trailing(Prepared(rest)) # {}
    BY <1>1, <1>2, PreparedHasRoom
  <1>7. AddRecord(rest, id, 2, "PubRelSend").status = "Success"
    BY <1>5, <1>6 DEF AddRecord
  <1> QED
    BY <1>7 DEF rest, id

LEMMA AckStatus ==
  ASSUME NEW n \in Nat, NEW flights, NEW records, Good(records, n, flights),
         NEW id \in PacketIds, NEW packetType, NEW opType
  PROVE  UpdateStateAck(records, id, packetType, opType).status
           \in {"Success", "IllegalState", "BadResponse"}
  <1> DEFINE i   == FindInRecord(records, id)
             new == CalculateStateAck(packetType, opType, records[i].qos)
             applied == ApplyAck(records, i, new)
             ok  == /\ Holds(records, id)
                    /\ ValidTransitionAck(records[i].publishState, new)
  <1>1. CASE ~ok
    BY <1>1 DEF UpdateStateAck, Unchanged
  <1>2. CASE ok
    <2>1. i \in 1..n /\ Occupied(records[i]) /\ records[i].packetId = id
      BY <1>2, FoundRecord
    <2>2. UpdateStateAck(records, id, packetType, opType).status =
            applied.status
      BY <1>2 DEF UpdateStateAck
    <2> HIDE DEF i, new
    <2>3. AddRecord(DeleteRecord(records, i), records[i].packetId, 2,
                    "PubRelSend").status = "Success"
      BY <2>1, RequeueSucceeds
    <2>4. applied.status = "Success"
      BY <2>3 DEF ApplyAck
    <2> QED
      BY <2>2, <2>4
  <1> QED
    BY <1>1, <1>2

-----------------------------------------------------------------------------
(* What is seen of a table.                                                *)

Same(r, s) == Progress(s) = Progress(r) /\ Order(s) = Order(r)

Held(r) == {id \in PacketIds : Progress(r)[id] # At(0, "StateNull")}

OrderWithout(r, id) == {p \in Order(r) : p[1] # id /\ p[2] # id}

Last(r, id) == (Held(r) \ {id}) \X {id}

Enters(r, s, n, id, f) ==
  /\ ~Holds(r, id)
  /\ Cardinality(Held(r)) < n
  /\ Progress(s) = [Progress(r) EXCEPT ![id] = f]
  /\ Order(s) = Order(r) \cup Last(r, id)

Advances(r, s, id, f) ==
  /\ Progress(s) = [Progress(r) EXCEPT ![id] = f]
  /\ Order(s) = Order(r)

GoesLast(r, s, id, f) ==
  /\ Progress(s) = [Progress(r) EXCEPT ![id] = f]
  /\ Order(s) = OrderWithout(r, id) \cup Last(r, id)

Leaves(r, s, id) ==
  /\ Progress(s) = [Progress(r) EXCEPT ![id] = At(0, "StateNull")]
  /\ Order(s) = OrderWithout(r, id)

-----------------------------------------------------------------------------
(* Reading a table.                                                        *)

\* The flight of an identifier is what its only record says.
LEMMA FlightAt ==
  ASSUME NEW n \in Nat, NEW flights, NEW r, Good(r, n, flights),
         NEW id \in PacketIds, NEW i \in 1..n, r[i].packetId = id
  PROVE  /\ Holds(r, id)
         /\ FindInRecord(r, id) = i
         /\ Flight(r, id) = At(r[i].qos, r[i].publishState)
  <1>1. DOMAIN r = 1..n
    BY DEF Good
  <1>2. Holds(r, id)
    BY <1>1 DEF Holds
  <1>3. FindInRecord(r, id) = i
    <2>1. /\ FindInRecord(r, id) \in 1..n
          /\ r[FindInRecord(r, id)].packetId = id
          /\ Occupied(r[FindInRecord(r, id)])
      BY <1>2, FoundRecord
    <2> QED
      BY <1>1, <2>1 DEF Good, UniqueIds
  <1> QED
    BY <1>2, <1>3 DEF Flight, At

LEMMA FlightAbsent ==
  ASSUME NEW r, NEW id, ~Holds(r, id)
  PROVE  Flight(r, id) = At(0, "StateNull")
  BY DEF Flight, At

\* An identifier is in flight exactly when the table holds it.
LEMMA HeldIsHolds ==
  ASSUME NEW n \in Nat, NEW flights \in {OutgoingFlights, IncomingFlights},
         NEW r, Good(r, n, flights), NEW id \in PacketIds
  PROVE  id \in Held(r) <=> Holds(r, id)
  <1>1. Progress(r)[id] = Flight(r, id)
    BY DEF Progress
  <1>2. ASSUME Holds(r, id)
        PROVE  Flight(r, id) # At(0, "StateNull")
    <2>1. PICK i \in 1..n : r[i].packetId = id
      BY <1>2 DEF Holds, Good
    <2>2. Flight(r, id) = At(r[i].qos, r[i].publishState)
      BY <2>1, FlightAt
    <2>3. At(r[i].qos, r[i].publishState) \in flights
      BY <2>1, PacketIdAssumption DEF Good, WellFormed, Occupied, At
    <2>4. At(0, "StateNull") \notin flights
      BY DEF OutgoingFlights, IncomingFlights, At
    <2> QED
      BY <2>2, <2>3, <2>4
  <1> QED
    BY <1>1, <1>2, FlightAbsent DEF Held

\* Two tables with the same record of an identifier agree on its flight.
LEMMA FlightSame ==
  ASSUME NEW n \in Nat, NEW flights, NEW r, NEW s,
         Good(r, n, flights), Good(s, n, flights), NEW id \in PacketIds,
         \A i \in 1..n : r[i].packetId = id => \E k \in 1..n : s[k] = r[i],
         \A k \in 1..n : s[k].packetId = id => \E i \in 1..n : r[i] = s[k]
  PROVE  Flight(s, id) = Flight(r, id)
  <1>1. DOMAIN r = 1..n /\ DOMAIN s = 1..n
    BY DEF Good
  <1>2. CASE Holds(r, id)
    <2>1. PICK i \in 1..n : r[i].packetId = id
      BY <1>1, <1>2 DEF Holds
    <2>2. PICK k \in 1..n : s[k] = r[i]
      BY <2>1
    <2>3. Flight(r, id) = At(r[i].qos, r[i].publishState)
      BY <2>1, FlightAt
    <2>4. Flight(s, id) = At(s[k].qos, s[k].publishState)
      BY <2>1, <2>2, FlightAt
    <2> QED
      BY <2>2, <2>3, <2>4
  <1>3. CASE ~Holds(r, id)
    <2>1. ~Holds(s, id)
      BY <1>1, <1>3 DEF Holds
    <2> QED
      BY <1>3, <2>1, FlightAbsent
  <1> QED
    BY <1>2, <1>3

LEMMA ProgressSame ==
  ASSUME NEW r, NEW s, \A id \in PacketIds : Flight(s, id) = Flight(r, id)
  PROVE  Progress(s) = Progress(r)
  BY DEF Progress

LEMMA ProgressExcept ==
  ASSUME NEW r, NEW s, NEW id \in PacketIds, NEW f, Flight(s, id) = f,
         \A x \in PacketIds \ {id} : Flight(s, x) = Flight(r, x)
  PROVE  Progress(s) = [Progress(r) EXCEPT ![id] = f]
  BY DEF Progress

-----------------------------------------------------------------------------
(* Compaction is invisible.                                                *)

\* The record in slot i is found in slot Rank(records, i) afterwards.
LEMMA CompactPlace ==
  ASSUME NEW n \in Nat, NEW r, DOMAIN r = 1..n,
         NEW i \in 1..n, Occupied(r[i])
  PROVE  /\ Rank(r, i) \in 1..n
         /\ CompactRecords(r)[Rank(r, i)] = r[i]
  <1> DEFINE k == Rank(r, i)
  <1>1. k \in 1..n
    BY RankBound
  <1>2. IsNth(r, i, k)
    BY DEF IsNth
  <1>3. \A j \in 1..n : IsNth(r, j, k) => j = i
    <2> SUFFICES ASSUME NEW j \in 1..n, IsNth(r, j, k), j # i
                 PROVE  FALSE
      OBVIOUS
    <2>1. Occupied(r[j]) /\ Rank(r, j) = Rank(r, i)
      BY DEF IsNth
    <2>2. Rank(r, i) \in Nat
      BY RankBound
    <2>3. CASE i < j
      BY <2>1, <2>2, <2>3, RankIncreases
    <2>4. CASE j < i
      BY <2>1, <2>2, <2>4, RankIncreases
    <2> QED
      BY <2>3, <2>4
  <1> HIDE DEF k
  <1>4. (CHOOSE j \in DOMAIN r : IsNth(r, j, k)) = i
    BY <1>2, <1>3
  <1>5. CompactRecords(r)[k] = r[i]
    BY <1>1, <1>2, <1>4 DEF CompactRecords
  <1> QED
    BY <1>1, <1>5 DEF k

LEMMA CompactInvisible ==
  ASSUME NEW n \in Nat, NEW flights, NEW r, Good(r, n, flights)
  PROVE  Same(r, CompactRecords(r))
  <1> DEFINE c == CompactRecords(r)
  <1>1. DOMAIN r = 1..n /\ DOMAIN c = 1..n
    BY DEF Good, CompactRecords
  <1>2. Good(c, n, flights)
    BY CompactGood
  <1>3. \A i \in 1..n : Occupied(r[i]) =>
          Rank(r, i) \in 1..n /\ c[Rank(r, i)] = r[i]
    BY <1>1, CompactPlace
  <1>4. \A k \in 1..n : Occupied(c[k]) =>
          \E i \in 1..n : Occupied(r[i]) /\ Rank(r, i) = k /\ c[k] = r[i]
    <2> SUFFICES ASSUME NEW k \in 1..n, Occupied(c[k])
                 PROVE  \E i \in 1..n : /\ Occupied(r[i])
                                        /\ Rank(r, i) = k
                                        /\ c[k] = r[i]
      OBVIOUS
    <2>1. c[k] # EmptySlot
      BY EmptySlotType
    <2>2. PICK i \in DOMAIN r : IsNth(r, i, k) /\ c[k] = r[i]
      BY <1>1, <2>1, CompactSlot
    <2> QED
      BY <1>1, <2>2 DEF IsNth
  <1>5. \A id \in PacketIds : MQTT_PACKET_ID_INVALID # id
    BY PacketIdAssumption
  <1> HIDE DEF c
  <1>6. ASSUME NEW id \in PacketIds
        PROVE  Flight(c, id) = Flight(r, id)
    <2>1. \A i \in 1..n : r[i].packetId = id => \E k \in 1..n : c[k] = r[i]
      BY <1>3, <1>5 DEF Occupied
    <2>2. \A k \in 1..n : c[k].packetId = id => \E i \in 1..n : r[i] = c[k]
      BY <1>4, <1>5 DEF Occupied
    <2> QED
      BY <1>2, <2>1, <2>2, FlightSame
  <1>7. ASSUME NEW a \in PacketIds, NEW b \in PacketIds
        PROVE  (\E i, j \in 1..n :
                  i < j /\ r[i].packetId = a /\ r[j].packetId = b)
               <=> (\E k, m \in 1..n :
                  k < m /\ c[k].packetId = a /\ c[m].packetId = b)
    <2>1. ASSUME NEW i \in 1..n, NEW j \in 1..n,
                 i < j, r[i].packetId = a, r[j].packetId = b
          PROVE  \E k, m \in 1..n :
                   k < m /\ c[k].packetId = a /\ c[m].packetId = b
      <3>1. Occupied(r[i]) /\ Occupied(r[j])
        BY <1>5, <2>1 DEF Occupied
      <3>2. Rank(r, i) < Rank(r, j)
        BY <2>1, <3>1, RankIncreases
      <3> QED
        BY <1>3, <2>1, <3>1, <3>2
    <2>2. ASSUME NEW k \in 1..n, NEW m \in 1..n,
                 k < m, c[k].packetId = a, c[m].packetId = b
          PROVE  \E i, j \in 1..n :
                   i < j /\ r[i].packetId = a /\ r[j].packetId = b
      <3>1. Occupied(c[k]) /\ Occupied(c[m])
        BY <1>5, <2>2 DEF Occupied
      <3>2. PICK i \in 1..n : Occupied(r[i]) /\ Rank(r, i) = k /\ c[k] = r[i]
        BY <1>4, <3>1
      <3>3. PICK j \in 1..n : Occupied(r[j]) /\ Rank(r, j) = m /\ c[m] = r[j]
        BY <1>4, <3>1
      <3>4. ~(j < i)
        BY <2>2, <3>2, <3>3, RankIncreases
      <3>5. i # j
        BY <2>2, <3>2, <3>3
      <3> QED
        BY <2>2, <3>2, <3>3, <3>4, <3>5
    <2> QED
      BY <2>1, <2>2
  <1>8. Order(c) = Order(r)
    <2>1. Order(c) = {p \in PacketIds \X PacketIds :
                        \E k, m \in 1..n :
                          /\ k < m
                          /\ c[k].packetId = p[1]
                          /\ c[m].packetId = p[2]}
      BY <1>1 DEF Order
    <2>2. Order(r) = {p \in PacketIds \X PacketIds :
                        \E i, j \in 1..n :
                          /\ i < j
                          /\ r[i].packetId = p[1]
                          /\ r[j].packetId = p[2]}
      BY <1>1 DEF Order
    <2>3. \A p \in PacketIds \X PacketIds : p[1] \in PacketIds /\ p[2] \in PacketIds
      OBVIOUS
    <2> QED
      BY <1>7, <2>1, <2>2, <2>3
  <1> QED
    BY <1>6, <1>8, ProgressSame DEF Same, c

LEMMA PreparedInvisible ==
  ASSUME NEW n \in Nat, NEW flights, NEW r, Good(r, n, flights)
  PROVE  Same(r, Prepared(r))
  BY CompactInvisible DEF Prepared, Same

-----------------------------------------------------------------------------
(* Writing a table.                                                        *)

\* A record that changes its state stays where it is.
LEMMA SetStateAdvances ==
  ASSUME NEW n \in Nat, NEW flights, NEW r, Good(r, n, flights),
         NEW i \in 1..n, NEW id \in PacketIds, r[i].packetId = id,
         NEW state \in MQTTPublishState,
         At(r[i].qos, state) \in flights
  PROVE  Advances(r, SetRecordState(r, i, state), id, At(r[i].qos, state))
  <1> DEFINE s == SetRecordState(r, i, state)
  <1>1. /\ DOMAIN r = 1..n
        /\ DOMAIN s = 1..n
        /\ \A j \in 1..n : j # i => s[j] = r[j]
        /\ s[i] = [r[i] EXCEPT !.publishState = state]
    BY DEF Good, SetRecordState
  <1>2. r[i] \in Slot
    BY DEF Good
  <1>3. /\ s[i].packetId = id
        /\ s[i].qos = r[i].qos
        /\ s[i].publishState = state
    BY <1>1, <1>2 DEF Slot
  <1>4. Good(s, n, flights)
    <2>1. Occupied(r[i])
      BY PacketIdAssumption DEF Occupied
    <2>2. [qos |-> r[i].qos, state |-> state] \in flights
      BY DEF At
    <2> QED
      BY <2>1, <2>2, SetStateGood
  <1> HIDE DEF s
  <1>5. Flight(s, id) = At(r[i].qos, state)
    BY <1>3, <1>4, FlightAt
  <1>6. ASSUME NEW x \in PacketIds \ {id}
        PROVE  Flight(s, x) = Flight(r, x)
    <2>1. \A j \in 1..n : r[j].packetId = x => \E k \in 1..n : s[k] = r[j]
      BY <1>1
    <2>2. \A k \in 1..n : s[k].packetId = x => \E j \in 1..n : r[j] = s[k]
      BY <1>1, <1>3
    <2> QED
      BY <1>4, <2>1, <2>2, FlightSame
  <1>7. Order(s) = Order(r)
    <2>1. \A j \in 1..n : s[j].packetId = r[j].packetId
      BY <1>1, <1>3
    <2> QED
      BY <1>1, <2>1 DEF Order
  <1> QED
    BY <1>5, <1>6, <1>7, ProgressExcept DEF Advances, s

\* A deleted record takes its place in the order with it.
LEMMA DeleteLeaves ==
  ASSUME NEW n \in Nat, NEW flights, NEW r, Good(r, n, flights),
         NEW i \in 1..n, NEW id \in PacketIds, r[i].packetId = id
  PROVE  /\ Leaves(r, DeleteRecord(r, i), id)
         /\ ~Holds(DeleteRecord(r, i), id)
  <1> DEFINE s == DeleteRecord(r, i)
  <1>1. /\ DOMAIN r = 1..n
        /\ DOMAIN s = 1..n
        /\ \A j \in 1..n : j # i => s[j] = r[j]
        /\ s[i].packetId = MQTT_PACKET_ID_INVALID
    BY DEF Good, DeleteRecord, EmptySlot
  <1>2. \A x \in PacketIds : x # MQTT_PACKET_ID_INVALID
    BY PacketIdAssumption
  <1>3. Good(s, n, flights)
    BY DeleteGood
  <1> HIDE DEF s
  <1>4. \A j \in 1..n : j # i => r[j].packetId # id
    BY <1>1, <1>2 DEF Good, UniqueIds, Occupied
  <1>5. ~Holds(s, id)
    BY <1>1, <1>2, <1>4 DEF Holds
  <1>6. ASSUME NEW x \in PacketIds \ {id}
        PROVE  Flight(s, x) = Flight(r, x)
    <2>1. \A j \in 1..n : r[j].packetId = x => \E k \in 1..n : s[k] = r[j]
      BY <1>1
    <2>2. \A k \in 1..n : s[k].packetId = x => \E j \in 1..n : r[j] = s[k]
      BY <1>1, <1>2
    <2> QED
      BY <1>3, <2>1, <2>2, FlightSame
  <1>7. Order(s) = OrderWithout(r, id)
    <2>1. ASSUME NEW p \in PacketIds \X PacketIds
          PROVE  p \in Order(s) <=> p \in OrderWithout(r, id)
      <3>1. p[1] \in PacketIds /\ p[2] \in PacketIds
        OBVIOUS
      <3>2. \A j \in 1..n :
              /\ s[j].packetId = p[1] <=> p[1] # id /\ r[j].packetId = p[1]
              /\ s[j].packetId = p[2] <=> p[2] # id /\ r[j].packetId = p[2]
        BY <1>1, <1>2, <1>4, <3>1
      <3> QED
        BY <1>1, <3>2 DEF Order, OrderWithout
    <2> QED
      BY <2>1 DEF Order, OrderWithout
  <1>8. Progress(s) = [Progress(r) EXCEPT ![id] = At(0, "StateNull")]
    BY <1>5, <1>6, FlightAbsent, ProgressExcept
  <1> QED
    BY <1>5, <1>7, <1>8 DEF Leaves, s

\* A record written after all others is last in the order.
LEMMA WriteEnters ==
  ASSUME NEW n \in Nat, NEW flights \in {OutgoingFlights, IncomingFlights},
         NEW r, Good(r, n, flights),
         NEW a \in 1..n, \A j \in 1..n : j >= a => ~Occupied(r[j]),
         NEW id \in PacketIds, ~Holds(r, id),
         NEW qos \in MQTTQoS, NEW state \in MQTTPublishState,
         At(qos, state) \in flights
  PROVE  Enters(r, [r EXCEPT ![a] = [packetId     |-> id,
                                     qos          |-> qos,
                                     publishState |-> state]],
                n, id, At(qos, state))
  <1> DEFINE slot == [packetId |-> id, qos |-> qos, publishState |-> state]
             s == [r EXCEPT ![a] = slot]
  <1>1. /\ DOMAIN r = 1..n
        /\ DOMAIN s = 1..n
        /\ \A j \in 1..n : j # a => s[j] = r[j]
        /\ s[a].packetId = id
        /\ s[a].qos = qos
        /\ s[a].publishState = state
        /\ \A j \in 1..n : r[j].packetId # id
    BY DEF Good, Holds
  <1>2. \A x \in PacketIds : x # MQTT_PACKET_ID_INVALID
    BY PacketIdAssumption
  <1>3. \A j \in 1..n : j >= a => r[j].packetId = MQTT_PACKET_ID_INVALID
    BY DEF Occupied
  <1>4. Good(s, n, flights)
    <2>1. [qos |-> qos, state |-> state] \in flights
      BY DEF At
    <2>2. ~Occupied(r[a])
      OBVIOUS
    <2> QED
      BY <2>1, <2>2, WriteGood
  <1> HIDE DEF s
  <1>5. Flight(s, id) = At(qos, state)
    BY <1>1, <1>4, FlightAt
  <1>6. ASSUME NEW x \in PacketIds \ {id}
        PROVE  Flight(s, x) = Flight(r, x)
    <2>1. \A j \in 1..n : r[j].packetId = x => \E k \in 1..n : s[k] = r[j]
      BY <1>1, <1>2, <1>3
    <2>2. \A k \in 1..n : s[k].packetId = x => \E j \in 1..n : r[j] = s[k]
      BY <1>1
    <2> QED
      BY <1>4, <2>1, <2>2, FlightSame
  <1>7. Order(s) = Order(r) \cup Last(r, id)
    <2>1. ASSUME NEW p \in PacketIds \X PacketIds
          PROVE  p \in Order(s) <=> p \in Order(r) \cup Last(r, id)
      <3>1. p[1] \in PacketIds /\ p[2] \in PacketIds
        OBVIOUS
      <3>2. p \in Order(r) <=>
              \E i, j \in 1..n :
                i < j /\ r[i].packetId = p[1] /\ r[j].packetId = p[2]
        BY <1>1 DEF Order
      <3>3. p \in Order(s) <=>
              \E i, j \in 1..n :
                i < j /\ s[i].packetId = p[1] /\ s[j].packetId = p[2]
        BY <1>1 DEF Order
      <3>4. p \in Last(r, id) <=>
              /\ p[2] = id
              /\ p[1] # id
              /\ \E i \in 1..n : r[i].packetId = p[1]
        BY <1>1, <3>1, HeldIsHolds DEF Last, Holds
      <3>5. CASE p[2] = id
        <4>1. p \notin Order(r)
          BY <1>1, <3>2, <3>5
        <4>2. p \in Order(s) <=>
                \E i \in 1..n : i < a /\ s[i].packetId = p[1]
          BY <1>1, <3>3, <3>5
        <4>3. (\E i \in 1..n : i < a /\ s[i].packetId = p[1])
                <=> p[1] # id /\ \E i \in 1..n : r[i].packetId = p[1]
          <5>1. ASSUME NEW i \in 1..n, r[i].packetId = p[1]
                PROVE  i < a
            BY <1>2, <1>3, <3>1, <5>1
          <5>2. \A i \in 1..n : i < a => s[i] = r[i]
            BY <1>1
          <5> QED
            BY <1>1, <5>1, <5>2
        <4> QED
          BY <3>4, <3>5, <4>1, <4>2, <4>3
      <3>6. CASE p[2] # id
        <4>1. p \notin Last(r, id)
          BY <3>4, <3>6
        <4>2. \A j \in 1..n : s[j].packetId = p[2] <=> r[j].packetId = p[2]
          BY <1>1, <1>2, <1>3, <3>1, <3>6
        <4>3. \A j \in 1..n : r[j].packetId = p[2] => j < a
          BY <1>2, <1>3, <3>1
        <4>4. \A i, j \in 1..n : i < j /\ j < a => s[i] = r[i]
          BY <1>1
        <4> QED
          BY <3>2, <3>3, <4>1, <4>2, <4>3, <4>4
      <3> QED
        BY <3>5, <3>6
    <2>2. Last(r, id) \subseteq PacketIds \X PacketIds
      BY DEF Last, Held
    <2> QED
      BY <2>1, <2>2 DEF Order
  <1>8. Progress(s) = [Progress(r) EXCEPT ![id] = At(qos, state)]
    BY <1>5, <1>6, ProgressExcept
  <1>9. Cardinality(Held(r)) < n
    <2> DEFINE occupied == {j \in 1..n : Occupied(r[j])}
               f == [j \in occupied |-> r[j].packetId]
    <2>1. IsFiniteSet(1..n) /\ Cardinality(1..n) = n
      BY FS_Interval
    <2>2. occupied \in SUBSET (1..n) /\ a \in 1..n /\ a \notin occupied
      OBVIOUS
    <2>3. \A x \in Held(r) : \E j \in occupied : f[j] = x
      <3> SUFFICES ASSUME NEW x \in Held(r)
                   PROVE  \E j \in occupied : f[j] = x
        OBVIOUS
      <3>1. x \in PacketIds /\ Holds(r, x)
        BY HeldIsHolds DEF Held
      <3>2. PICK j \in 1..n : r[j].packetId = x
        BY <1>1, <3>1 DEF Holds
      <3>3. j \in occupied
        BY <1>2, <3>1, <3>2 DEF Occupied
      <3> QED
        BY <3>2, <3>3
    <2>4. \A j \in occupied : f[j] \in Held(r)
      <3> SUFFICES ASSUME NEW j \in occupied
                   PROVE  r[j].packetId \in Held(r)
        OBVIOUS
      <3>1. r[j].packetId \in PacketIds
        BY DEF Good, Slot, Occupied
      <3> QED
        BY <1>1, <3>1, HeldIsHolds DEF Holds
    <2>5. f \in Surjection(occupied, Held(r))
      BY <2>3, <2>4 DEF Surjection
    <2> HIDE DEF occupied, f
    <2>6. /\ IsFiniteSet(occupied)
          /\ Cardinality(occupied) <= n
          /\ Cardinality(occupied) # n
      BY <2>1, <2>2, FS_Subset
    <2>7. IsFiniteSet(Held(r)) /\ Cardinality(Held(r)) <= Cardinality(occupied)
      BY <2>5, <2>6, FS_Surjection
    <2>8. Cardinality(occupied) \in Nat /\ Cardinality(Held(r)) \in Nat
      BY <2>6, <2>7, FS_CardinalityType
    <2> QED
      BY <2>6, <2>7, <2>8
  <1> QED
    BY <1>7, <1>8, <1>9 DEF Enters, s

-----------------------------------------------------------------------------
(* The calls.                                                              *)

\* addRecord: a publish that enters at the end, or nothing to be seen.
LEMMA AddRecordEnters ==
  ASSUME NEW n \in Nat, NEW flights \in {OutgoingFlights, IncomingFlights},
         NEW r, Good(r, n, flights),
         NEW id \in PacketIds,
         NEW qos \in MQTTQoS, NEW state \in MQTTPublishState,
         At(qos, state) \in flights
  PROVE  LET added == AddRecord(r, id, qos, state)
         IN  IF added.status = "Success"
               THEN Enters(r, added.records, n, id, At(qos, state))
               ELSE Same(r, added.records)
  <1> DEFINE table == Prepared(r)
             added == AddRecord(r, id, qos, state)
  <1>1. Good(table, n, flights)
    BY PreparedGood
  <1>2. Same(r, table)
    BY PreparedInvisible
  <1>3. DOMAIN table = 1..n
    BY <1>1 DEF Good
  <1>4. CASE Holds(table, id) \/ Trailing(table) = {}
    BY <1>2, <1>4 DEF AddRecord
  <1>5. CASE ~Holds(table, id) /\ Trailing(table) # {}
    <2> DEFINE a == AvailableIndex(table)
    <2>1. a \in 1..n /\ \A j \in 1..n : j >= a => ~Occupied(table[j])
      BY <1>3, <1>5, AvailableIndexFree
    <2>2. added = [status  |-> "Success",
                   records |-> [table EXCEPT ![a] = [packetId     |-> id,
                                                     qos          |-> qos,
                                                     publishState |-> state]]]
      BY <1>5 DEF AddRecord
    <2> HIDE DEF a, table, added
    <2>3. Enters(table, added.records, n, id, At(qos, state))
      BY <1>1, <1>5, <2>1, <2>2, WriteEnters
    <2>4. ~Holds(r, id)
      <3>1. id \in Held(r) <=> id \in Held(table)
        BY <1>2 DEF Same, Held
      <3>2. id \in Held(r) <=> Holds(r, id)
        BY HeldIsHolds
      <3>3. id \in Held(table) <=> Holds(table, id)
        BY <1>1, HeldIsHolds
      <3> QED
        BY <1>5, <3>1, <3>2, <3>3
    <2>5. Enters(r, added.records, n, id, At(qos, state))
      BY <1>2, <2>3, <2>4 DEF Enters, Same, Last, Held
    <2> QED
      BY <2>2, <2>5 DEF added
  <1> QED
    BY <1>4, <1>5

\* MQTT_UpdateStatePublish for a publish that is sent: the first time it is
\* one step of the handshake, in a resend it changes nothing.
LEMMA SentPublishAdvances ==
  ASSUME NEW n \in Nat, NEW r, Good(r, n, OutgoingFlights),
         NEW id \in PacketIds, NEW qos \in {1, 2}
  PROVE  LET sent == UpdateSentPublish(r, id, qos)
         IN  \/ Same(r, sent.records)
             \/ /\ sent.status = "Success"
                /\ \E f \in OutgoingFlights :
                     /\ <<Flight(r, id), f>> \in
                          {<<At(1, "PublishSend"), At(1, "PubAckPending")>>,
                           <<At(2, "PublishSend"), At(2, "PubRecPending")>>}
                     /\ Advances(r, sent.records, id, f)
  <1> DEFINE i   == FindInRecord(r, id)
             new == CalculateStatePublish("SEND", qos)
             ok  == /\ Holds(r, id)
                    /\ r[i].qos = qos
                    /\ ValidTransitionPublish(r[i].publishState, new,
                                              "SEND", qos)
  <1>1. CASE ~ok
    BY <1>1 DEF UpdateSentPublish, Unchanged, Same
  <1>2. CASE ok
    <2>1. i \in 1..n /\ r[i].packetId = id
      BY <1>2, FoundRecord
    <2>2. /\ UpdateSentPublish(r, id, qos).records = SetRecordState(r, i, new)
          /\ UpdateSentPublish(r, id, qos).status = "Success"
      BY <1>2 DEF UpdateSentPublish
    <2>3. /\ new \in MQTTPublishState
          /\ At(r[i].qos, new) \in OutgoingFlights
          /\ \/ r[i].publishState = new
             \/ <<At(r[i].qos, r[i].publishState), At(r[i].qos, new)>> \in
                  {<<At(1, "PublishSend"), At(1, "PubAckPending")>>,
                   <<At(2, "PublishSend"), At(2, "PubRecPending")>>}
      BY <1>2 DEF CalculateStatePublish, OutgoingFlights, At,
                  MQTTPublishState, OutgoingStates, ValidTransitionPublish
    <2>4. Flight(r, id) = At(r[i].qos, r[i].publishState)
      <3> HIDE DEF i
      <3> QED
        BY <2>1, FlightAt
    <2> HIDE DEF i, new
    <2>5. Advances(r, SetRecordState(r, i, new), id, At(r[i].qos, new))
      BY <2>1, <2>3, SetStateAdvances
    <2>6. CASE r[i].publishState = new
      <3>1. Progress(r) = [Progress(r) EXCEPT ![id] = Flight(r, id)]
        BY ProgressExcept
      <3> QED
        BY <2>2, <2>4, <2>5, <2>6, <3>1 DEF Advances, Same
    <2>7. CASE r[i].publishState # new
      BY <2>2, <2>3, <2>4, <2>5, <2>7
    <2> QED
      BY <2>6, <2>7
  <1> QED
    BY <1>1, <1>2

\* The steps an acknowledgement can make.
AckSteps == {<<At(2, "PubRelSend"),    At(2, "PubCompPending")>>,
             <<At(2, "PubRecSend"),    At(2, "PubRelPending")>>,
             <<At(2, "PubRelPending"), At(2, "PubCompSend")>>}

AckEnds == {At(1, "PubAckPending"), At(2, "PubCompPending"),
            At(1, "PubAckSend"), At(2, "PubCompSend")}

\* A valid acknowledgement leaves the state as it is, completes a handshake,
\* moves an outgoing publish to PubRelSend, or makes a step in place.
LEMMA AckKinds ==
  ASSUME NEW flights \in {OutgoingFlights, IncomingFlights},
         NEW qos, NEW state, At(qos, state) \in flights,
         NEW packetType \in MQTTPubAckType, NEW opType \in {"SEND", "RECEIVE"},
         NEW new, new = CalculateStateAck(packetType, opType, qos),
         ValidTransitionAck(state, new)
  PROVE  /\ new \in MQTTPublishState
         /\ \/ new = state
            \/ new = "PublishDone" /\ At(qos, state) \in AckEnds
            \/ /\ new = "PubRelSend"
               /\ At(qos, state) = At(2, "PubRecPending")
               /\ At(2, "PubRelSend") \in flights
            \/ /\ new \notin {"PublishDone", "PubRelSend"}
               /\ <<At(qos, state), At(qos, new)>> \in AckSteps
               /\ At(qos, new) \in flights
  BY DEF ValidTransitionAck, AckTransitions, CalculateStateAck,
         MQTTPubAckType, OutgoingFlights, IncomingFlights, At, AckEnds,
         AckSteps, MQTTPublishState, OutgoingStates, IncomingStates

\* MQTT_UpdateStateAck on either table.
LEMMA AckEffect ==
  ASSUME NEW n \in Nat, NEW flights \in {OutgoingFlights, IncomingFlights},
         NEW r, Good(r, n, flights), NEW id \in PacketIds,
         NEW packetType \in MQTTPubAckType, NEW opType \in {"SEND", "RECEIVE"}
  PROVE  LET ack == UpdateStateAck(r, id, packetType, opType)
         IN  \/ Same(r, ack.records)
             \/ /\ ack.status = "Success"
                /\ \/ /\ Flight(r, id) \in AckEnds \cap flights
                      /\ Leaves(r, ack.records, id)
                   \/ \E f \in flights :
                        /\ <<Flight(r, id), f>> \in AckSteps
                        /\ Advances(r, ack.records, id, f)
                   \/ /\ Flight(r, id) = At(2, "PubRecPending")
                      /\ Flight(r, id) \in flights
                      /\ At(2, "PubRelSend") \in flights
                      /\ GoesLast(r, ack.records, id, At(2, "PubRelSend"))
  <1> DEFINE i   == FindInRecord(r, id)
             new == CalculateStateAck(packetType, opType, r[i].qos)
             ok  == /\ Holds(r, id)
                    /\ ValidTransitionAck(r[i].publishState, new)
             applied == ApplyAck(r, i, new)
             ack == UpdateStateAck(r, id, packetType, opType)
  <1>1. CASE ~ok
    BY <1>1 DEF UpdateStateAck, Unchanged, Same
  <1>2. CASE ok
    <2>1. /\ i \in 1..n
          /\ Occupied(r[i])
          /\ r[i].packetId = id
      BY <1>2, FoundRecord
    <2>2. ack.records = applied.records /\ ack.status = applied.status
      BY <1>2 DEF UpdateStateAck
    <2>3. At(r[i].qos, r[i].publishState) \in flights
      BY <2>1 DEF Good, WellFormed, At
    <2>4. Flight(r, id) = At(r[i].qos, r[i].publishState)
      <3> HIDE DEF i
      <3> QED
        BY <2>1, FlightAt
    <2>5. /\ new \in MQTTPublishState
          /\ \/ new = r[i].publishState
             \/ new = "PublishDone" /\ Flight(r, id) \in AckEnds
             \/ /\ new = "PubRelSend"
                /\ Flight(r, id) = At(2, "PubRecPending")
                /\ At(2, "PubRelSend") \in flights
             \/ /\ new \notin {"PublishDone", "PubRelSend"}
                /\ <<Flight(r, id), At(r[i].qos, new)>> \in AckSteps
                /\ At(r[i].qos, new) \in flights
      <3>1. ValidTransitionAck(r[i].publishState, new)
        BY <1>2
      <3>2. PICK q, state : q = r[i].qos /\ state = r[i].publishState
        OBVIOUS
      <3>3. /\ At(q, state) \in flights
            /\ Flight(r, id) = At(q, state)
            /\ new = CalculateStateAck(packetType, opType, q)
        BY <2>3, <2>4, <3>2
      <3>4. ValidTransitionAck(state, new)
        BY <3>1, <3>2
      <3>5. /\ new \in MQTTPublishState
            /\ \/ new = state
               \/ new = "PublishDone" /\ At(q, state) \in AckEnds
               \/ /\ new = "PubRelSend"
                  /\ At(q, state) = At(2, "PubRecPending")
                  /\ At(2, "PubRelSend") \in flights
               \/ /\ new \notin {"PublishDone", "PubRelSend"}
                  /\ <<At(q, state), At(q, new)>> \in AckSteps
                  /\ At(q, new) \in flights
        <4> HIDE DEF new
        <4> QED
          BY <3>3, <3>4, AckKinds
      <3> HIDE DEF new, i
      <3> QED
        BY <3>2, <3>3, <3>5
    <2> HIDE DEF i, new, ack, applied
    <2>6. CASE new = r[i].publishState
      <3>1. applied.records = r
        BY <2>6 DEF ApplyAck, applied
      <3> QED
        BY <2>2, <3>1 DEF Same, ack
    <2>7. CASE /\ new # r[i].publishState
               /\ new = "PublishDone"
               /\ Flight(r, id) \in AckEnds
      <3>1. applied = [status |-> "Success", records |-> DeleteRecord(r, i)]
        BY <2>7 DEF ApplyAck, applied
      <3>2. Leaves(r, DeleteRecord(r, i), id)
        BY <2>1, DeleteLeaves
      <3> QED
        BY <2>2, <2>3, <2>4, <2>7, <3>1, <3>2 DEF ack
    <2>8. CASE /\ new # r[i].publishState
               /\ new = "PubRelSend"
               /\ Flight(r, id) = At(2, "PubRecPending")
               /\ At(2, "PubRelSend") \in flights
      <3> DEFINE rest  == DeleteRecord(r, i)
                 added == AddRecord(rest, id, 2, "PubRelSend")
                 f     == At(2, "PubRelSend")
      <3>1. applied = added
        BY <2>1, <2>8 DEF ApplyAck, applied
      <3>2. Good(rest, n, flights)
        BY <2>1, DeleteGood
      <3>3. Leaves(r, rest, id)
        BY <2>1, DeleteLeaves
      <3>4. added.status = "Success"
        BY <2>1, RequeueSucceeds
      <3>5. 2 \in MQTTQoS /\ "PubRelSend" \in MQTTPublishState
        BY DEF MQTTQoS, MQTTPublishState, OutgoingStates
      <3> HIDE DEF rest
      <3>6. Enters(rest, added.records, n, id, f)
        BY <2>8, <3>2, <3>4, <3>5, AddRecordEnters
      <3> HIDE DEF added, f
      <3>7. Progress(added.records) = [Progress(r) EXCEPT ![id] = f]
        BY <3>3, <3>6 DEF Leaves, Enters, Progress
      <3>8. Last(rest, id) = Last(r, id)
        BY <3>3 DEF Leaves, Last, Held, Progress
      <3>9. GoesLast(r, added.records, id, f)
        BY <3>3, <3>6, <3>7, <3>8 DEF GoesLast, Leaves, Enters
      <3> QED
        BY <2>2, <2>3, <2>4, <2>8, <3>1, <3>4, <3>9 DEF ack, f
    <2>9. CASE /\ new # r[i].publishState
               /\ new \notin {"PublishDone", "PubRelSend"}
               /\ <<Flight(r, id), At(r[i].qos, new)>> \in AckSteps
               /\ At(r[i].qos, new) \in flights
      <3>1. applied = [status  |-> "Success",
                       records |-> SetRecordState(r, i, new)]
        BY <2>9 DEF ApplyAck, applied
      <3>2. Advances(r, SetRecordState(r, i, new), id, At(r[i].qos, new))
        BY <2>1, <2>5, <2>9, SetStateAdvances
      <3> QED
        BY <2>2, <2>9, <3>1, <3>2 DEF ack
    <2> QED
      BY <2>5, <2>6, <2>7, <2>8, <2>9
  <1> QED
    BY <1>1, <1>2

LEMMA EmptyTableView ==
  ASSUME NEW n \in Nat
  PROVE  /\ Progress(EmptyTable(n)) = [id \in PacketIds |-> At(0, "StateNull")]
         /\ Order(EmptyTable(n)) = {}
  <1>1. \A id \in PacketIds : ~Holds(EmptyTable(n), id)
    BY PacketIdAssumption DEF Holds, EmptyTable, EmptySlot
  <1>2. Progress(EmptyTable(n)) = [id \in PacketIds |-> At(0, "StateNull")]
    BY <1>1, FlightAbsent DEF Progress
  <1>3. Order(EmptyTable(n)) = {}
    BY PacketIdAssumption DEF Order, EmptyTable, EmptySlot
  <1> QED
    BY <1>2, <1>3

-----------------------------------------------------------------------------
(* What a call makes of the publish it is about, when its state is known.  *)

LEMMA ProgressRead ==
  ASSUME NEW r, NEW s, NEW id \in PacketIds, NEW f,
         Progress(s) = [Progress(r) EXCEPT ![id] = f]
  PROVE  /\ Flight(s, id) = f
         /\ \A x \in PacketIds \ {id} : Flight(s, x) = Flight(r, x)
  <1>1. \A x \in PacketIds : Progress(s)[x] = IF x = id THEN f
                                              ELSE Progress(r)[x]
    BY DEF Progress
  <1> QED
    BY <1>1 DEF Progress

\* The new record takes the place of none.
LEMMA AddedRecord ==
  ASSUME NEW n \in Nat, NEW flights \in {OutgoingFlights, IncomingFlights},
         NEW r, Good(r, n, flights),
         NEW id \in PacketIds,
         NEW qos \in MQTTQoS, NEW state \in MQTTPublishState,
         At(qos, state) \in flights
  PROVE  LET added == AddRecord(r, id, qos, state)
         IN  /\ \A x \in PacketIds \ {id} :
                  Flight(added.records, x) = Flight(r, x)
             /\ IF added.status = "Success"
                  THEN /\ Flight(r, id) = At(0, "StateNull")
                       /\ Flight(added.records, id) = At(qos, state)
                  ELSE Flight(added.records, id) = Flight(r, id)
  <1> DEFINE added == AddRecord(r, id, qos, state)
  <1>1. IF added.status = "Success"
          THEN Enters(r, added.records, n, id, At(qos, state))
          ELSE Same(r, added.records)
    BY AddRecordEnters
  <1> HIDE DEF added
  <1>2. CASE added.status = "Success"
    <2>1. ~Holds(r, id)
      BY <1>1, <1>2 DEF Enters
    <2>2. Progress(added.records) = [Progress(r) EXCEPT ![id] = At(qos, state)]
      BY <1>1, <1>2 DEF Enters
    <2> QED
      BY <1>2, <2>1, <2>2, FlightAbsent DEF Progress, added
  <1>3. CASE added.status # "Success"
    <2>1. Progress(added.records) = Progress(r)
      BY <1>1, <1>3 DEF Same
    <2>2. \A x \in PacketIds :
            Progress(added.records)[x] = Progress(r)[x]
      BY <2>1
    <2> QED
      BY <1>3, <2>2 DEF Progress, added
  <1> QED
    BY <1>2, <1>3

\* MQTT_UpdateStatePublish for a publish that has been reserved.
LEMMA SentRecord ==
  ASSUME NEW n \in Nat, NEW r, Good(r, n, OutgoingFlights),
         NEW id \in PacketIds, NEW qos \in {1, 2},
         Flight(r, id) = At(qos, "PublishSend")
  PROVE  LET sent == UpdateSentPublish(r, id, qos)
         IN  /\ sent.status = "Success"
             /\ Flight(sent.records, id) =
                  At(qos, CalculateStatePublish("SEND", qos))
             /\ \A x \in PacketIds \ {id} :
                  Flight(sent.records, x) = Flight(r, x)
  <1> DEFINE i   == FindInRecord(r, id)
             new == CalculateStatePublish("SEND", qos)
  <1>1. Holds(r, id)
    <2>1. At(qos, "PublishSend") # At(0, "StateNull")
      BY DEF At
    <2> QED
      BY <2>1, FlightAbsent
  <1>2. i \in 1..n /\ r[i].packetId = id
    BY <1>1, FoundRecord
  <1>3. r[i].qos = qos /\ r[i].publishState = "PublishSend"
    <2>1. Flight(r, id) = At(r[i].qos, r[i].publishState)
      <3> HIDE DEF i
      <3> QED
        BY <1>2, FlightAt
    <2> QED
      BY <2>1 DEF At
  <1>4. /\ ValidTransitionPublish("PublishSend", new, "SEND", qos)
        /\ new \in MQTTPublishState
        /\ At(qos, new) \in OutgoingFlights
    BY DEF ValidTransitionPublish, CalculateStatePublish, MQTTPublishState,
           OutgoingStates, OutgoingFlights
  <1>5. UpdateSentPublish(r, id, qos) =
          [status  |-> "Success",
           state   |-> new,
           records |-> SetRecordState(r, i, new)]
    BY <1>1, <1>3, <1>4 DEF UpdateSentPublish
  <1> HIDE DEF i, new
  <1>6. Progress(SetRecordState(r, i, new)) =
          [Progress(r) EXCEPT ![id] = At(qos, new)]
    BY <1>2, <1>3, <1>4, SetStateAdvances DEF Advances
  <1>7. UpdateSentPublish(r, id, qos).status = "Success"
    BY <1>5
  <1>8. UpdateSentPublish(r, id, qos).records = SetRecordState(r, i, new)
    BY <1>5
  <1> QED
    BY <1>6, <1>7, <1>8, ProgressRead DEF new

\* MQTT_UpdateStateAck for a publish in a known state.
LEMMA AckedRecord ==
  ASSUME NEW n \in Nat, NEW flights \in {OutgoingFlights, IncomingFlights},
         NEW r, Good(r, n, flights), NEW id \in PacketIds,
         NEW qos \in {1, 2}, NEW state, Flight(r, id) = At(qos, state),
         NEW packetType \in MQTTPubAckType, NEW opType \in {"SEND", "RECEIVE"}
  PROVE  LET ack == UpdateStateAck(r, id, packetType, opType)
             new == CalculateStateAck(packetType, opType, qos)
         IN  /\ \A x \in PacketIds \ {id} :
                  Flight(ack.records, x) = Flight(r, x)
             /\ IF ValidTransitionAck(state, new)
                  THEN /\ ack.status = "Success"
                       /\ ack.state = new
                       /\ Flight(ack.records, id) =
                            IF new = "PublishDone" THEN At(0, "StateNull")
                            ELSE At(qos, new)
                  ELSE /\ ack.status = "IllegalState"
                       /\ ack.records = r
  <1> DEFINE i   == FindInRecord(r, id)
             new == CalculateStateAck(packetType, opType, qos)
             ack == UpdateStateAck(r, id, packetType, opType)
             applied == ApplyAck(r, i, new)
  <1>1. Holds(r, id)
    <2>1. At(qos, state) # At(0, "StateNull")
      BY DEF At
    <2> QED
      BY <2>1, FlightAbsent
  <1>2. i \in 1..n /\ Occupied(r[i]) /\ r[i].packetId = id
    BY <1>1, FoundRecord
  <1>3. r[i].qos = qos /\ r[i].publishState = state
    <2>1. Flight(r, id) = At(r[i].qos, r[i].publishState)
      <3> HIDE DEF i
      <3> QED
        BY <1>2, FlightAt
    <2> QED
      BY <2>1 DEF At
  <1>4. CASE ~ValidTransitionAck(state, new)
    <2>1. ack = Unchanged(r, "IllegalState")
      BY <1>1, <1>3, <1>4 DEF UpdateStateAck
    <2> QED
      BY <1>4, <2>1 DEF Unchanged
  <1>5. CASE ValidTransitionAck(state, new)
    <2>1. /\ At(qos, state) \in flights
          /\ new \in MQTTPublishState
          /\ \/ new = state
             \/ new = "PublishDone"
             \/ new = "PubRelSend" /\ At(2, "PubRelSend") \in flights /\ qos = 2
             \/ /\ new \notin {"PublishDone", "PubRelSend"}
                /\ At(qos, new) \in flights
      <3>1. At(qos, state) \in flights
        BY <1>2, <1>3 DEF Good, WellFormed, At
      <3>2. At(qos, state) = At(2, "PubRecPending") => qos = 2
        BY DEF At
      <3>3. PICK next : next = new
        OBVIOUS
      <3>4. /\ next = CalculateStateAck(packetType, opType, qos)
            /\ ValidTransitionAck(state, next)
        BY <1>5, <3>3
      <3>5. /\ next \in MQTTPublishState
            /\ \/ next = state
               \/ next = "PublishDone" /\ At(qos, state) \in AckEnds
               \/ /\ next = "PubRelSend"
                  /\ At(qos, state) = At(2, "PubRecPending")
                  /\ At(2, "PubRelSend") \in flights
               \/ /\ next \notin {"PublishDone", "PubRelSend"}
                  /\ <<At(qos, state), At(qos, next)>> \in AckSteps
                  /\ At(qos, next) \in flights
        BY <3>1, <3>4, AckKinds
      <3> HIDE DEF new
      <3> QED
        BY <3>1, <3>2, <3>3, <3>5
    <2>2. ack = [status  |-> applied.status,
                 state   |-> IF applied.status = "Success"
                               THEN new ELSE "StateNull",
                 records |-> applied.records]
      BY <1>1, <1>3, <1>5 DEF UpdateStateAck
    <2> HIDE DEF i, new, ack, applied
    <2> DEFINE next == IF new = "PublishDone" THEN At(0, "StateNull")
                       ELSE At(qos, new)
    <2> SUFFICES /\ applied.status = "Success"
                 /\ Progress(applied.records) = [Progress(r) EXCEPT ![id] = next]
      <3> HIDE DEF next
      <3>1. /\ Flight(applied.records, id) = next
            /\ \A x \in PacketIds \ {id} :
                 Flight(applied.records, x) = Flight(r, x)
        BY ProgressRead
      <3>2. ack.status = "Success" /\ ack.state = new
        BY <2>2
      <3>3. ack.records = applied.records
        BY <2>2
      <3> QED
        BY <1>5, <3>1, <3>2, <3>3 DEF next, ack, new
    <2>3. CASE new = state
      <3>1. applied = [status |-> "Success", records |-> r]
        BY <1>3, <2>3 DEF applied, ApplyAck
      <3>2. Progress(r) = [Progress(r) EXCEPT ![id] = At(qos, new)]
        BY <2>3, ProgressExcept
      <3>3. new # "PublishDone"
        BY <2>1, <2>3 DEF OutgoingFlights, IncomingFlights, At
      <3> QED
        BY <3>1, <3>2, <3>3
    <2>4. CASE new # state /\ new = "PublishDone"
      <3>1. applied = [status |-> "Success", records |-> DeleteRecord(r, i)]
        BY <1>3, <2>4 DEF applied, ApplyAck
      <3> QED
        BY <1>2, <2>4, <3>1, DeleteLeaves DEF Leaves
    <2>5. CASE new # state /\ new = "PubRelSend" /\ qos = 2
               /\ At(2, "PubRelSend") \in flights
      <3> DEFINE rest  == DeleteRecord(r, i)
                 added == AddRecord(rest, id, 2, "PubRelSend")
                 f     == At(2, "PubRelSend")
      <3>1. applied = added
        BY <1>2, <1>3, <2>5 DEF applied, ApplyAck
      <3>2. Good(rest, n, flights)
        BY <1>2, DeleteGood
      <3>3. Leaves(r, rest, id)
        BY <1>2, DeleteLeaves
      <3>4. added.status = "Success"
        BY <1>2, RequeueSucceeds
      <3>5. 2 \in MQTTQoS /\ "PubRelSend" \in MQTTPublishState
        BY DEF MQTTQoS, MQTTPublishState, OutgoingStates
      <3> HIDE DEF rest
      <3>6. Enters(rest, added.records, n, id, f)
        BY <2>5, <3>2, <3>4, <3>5, AddRecordEnters
      <3> HIDE DEF added, f
      <3>7. Progress(added.records) = [Progress(r) EXCEPT ![id] = f]
        BY <3>3, <3>6 DEF Leaves, Enters, Progress
      <3> QED
        BY <2>5, <3>1, <3>4, <3>7 DEF f
    <2>6. CASE /\ new # state
               /\ new \notin {"PublishDone", "PubRelSend"}
               /\ At(qos, new) \in flights
      <3>1. applied = [status  |-> "Success",
                       records |-> SetRecordState(r, i, new)]
        BY <1>3, <2>6 DEF ApplyAck, applied
      <3>2. Advances(r, SetRecordState(r, i, new), id, At(r[i].qos, new))
        BY <1>2, <1>3, <2>1, <2>6, SetStateAdvances
      <3> QED
        BY <1>3, <2>6, <3>1, <3>2 DEF Advances
    <2> QED
      BY <2>1, <2>3, <2>4, <2>5, <2>6
  <1> QED
    BY <1>4, <1>5

-----------------------------------------------------------------------------
(* The resend cursor.                                                      *)

\* What is selected is a record from the cursor on, in one of the states.
LEMMA SelectsRecord ==
  ASSUME NEW n \in Nat, NEW flights, NEW r, Good(r, n, flights),
         NEW states, NEW cursor \in Nat,
         StateSelect(r, states, cursor).packetId # MQTT_PACKET_ID_INVALID
  PROVE  LET selection == StateSelect(r, states, cursor)
         IN  /\ selection.cursor \in 1..n
             /\ selection.cursor > cursor
             /\ r[selection.cursor].packetId = selection.packetId
             /\ r[selection.cursor].publishState \in states
             /\ selection.packetId \in PacketIds
             /\ Flight(r, selection.packetId) =
                  At(r[selection.cursor].qos, r[selection.cursor].publishState)
  <1> DEFINE found == Selectable(r, states, cursor)
             i     == CHOOSE k \in found : \A j \in found : k <= j
  <1>1. found # {}
    BY DEF StateSelect
  <1>2. StateSelect(r, states, cursor) =
          [packetId |-> r[i].packetId, cursor |-> i]
    BY <1>1 DEF StateSelect
  <1>3. DOMAIN r = 1..n /\ r \in [1..n -> Slot]
    BY DEF Good
  <1>4. found \subseteq 1..n
    BY <1>3 DEF Selectable
  <1>5. \E k \in found : \A j \in found : k <= j
    <2> HIDE DEF found
    <2>1. found \subseteq Nat
      BY <1>4
    <2> QED
      BY <1>1, <2>1, LeastElement
  <1>6. i \in found
    BY <1>5
  <1> HIDE DEF i
  <1>7. i \in 1..n /\ i > cursor /\ r[i].publishState \in states
    BY <1>4, <1>6 DEF Selectable
  <1>8. /\ StateSelect(r, states, cursor).packetId = r[i].packetId
        /\ StateSelect(r, states, cursor).cursor = i
    BY <1>2
  <1>9. Occupied(r[i])
    BY <1>8 DEF Occupied
  <1>10. r[i].packetId \in PacketIds
    BY <1>3, <1>7, <1>9 DEF Slot, Occupied
  <1>11. Flight(r, r[i].packetId) = At(r[i].qos, r[i].publishState)
    BY <1>7, <1>10, FlightAt
  <1> QED
    BY <1>7, <1>8, <1>10, <1>11

-----------------------------------------------------------------------------
(* The acknowledgements of each direction: when they succeed, and what     *)
(* becomes of the record then.                                             *)

\* An acknowledgement for a table that has no such record.
LEMMA AckUnknown ==
  ASSUME NEW n \in Nat, NEW flights \in {OutgoingFlights, IncomingFlights},
         NEW r, Good(r, n, flights), NEW id \in PacketIds,
         Flight(r, id) = At(0, "StateNull"), NEW packetType, NEW opType
  PROVE  UpdateStateAck(r, id, packetType, opType) = Unchanged(r, "BadResponse")
  <1>1. ~Holds(r, id)
    <2>1. Progress(r)[id] = At(0, "StateNull")
      BY DEF Progress
    <2>2. id \notin Held(r)
      BY <2>1 DEF Held
    <2> QED
      BY <2>2, HeldIsHolds
  <1> QED
    BY <1>1 DEF UpdateStateAck

\* A record in one of the states of its direction, or none.
LEMMA FlightKinds ==
  ASSUME NEW n \in Nat, NEW flights, NEW r, Good(r, n, flights),
         NEW id \in PacketIds
  PROVE  Flight(r, id) \in flights \cup {At(0, "StateNull")}
  <1>1. CASE Holds(r, id)
    <2> DEFINE i == FindInRecord(r, id)
    <2>1. i \in 1..n /\ Occupied(r[i]) /\ r[i].packetId = id
      BY <1>1, FoundRecord
    <2> HIDE DEF i
    <2>2. Flight(r, id) = At(r[i].qos, r[i].publishState)
      BY <2>1, FlightAt
    <2>3. i \in DOMAIN r
      BY <2>1 DEF Good
    <2> QED
      BY <2>1, <2>2, <2>3 DEF Good, WellFormed, At
  <1>2. CASE ~Holds(r, id)
    BY <1>2, FlightAbsent
  <1> QED
    BY <1>1, <1>2

\* What an acknowledgement leaves of a record that cannot take it.
Refused(r, id, ack) ==
  ack.status \in {"IllegalState", "BadResponse"} /\ ack.records = r

\* An acknowledgement takes the record from flight to after.
Accepted(r, id, ack, after) ==
  /\ ack.status = "Success"
  /\ Flight(ack.records, id) = after
  /\ \A x \in PacketIds \ {id} : Flight(ack.records, x) = Flight(r, x)

LEMMA OutgoingAck ==
  ASSUME NEW n \in Nat, NEW r, Good(r, n, OutgoingFlights),
         NEW id \in PacketIds
  PROVE  LET ack(type, op) == UpdateStateAck(r, id, type, op)
         IN  /\ IF Flight(r, id) = At(1, "PubAckPending")
                  THEN Accepted(r, id, ack("Puback", "RECEIVE"),
                                At(0, "StateNull"))
                  ELSE Refused(r, id, ack("Puback", "RECEIVE"))
             /\ IF Flight(r, id) = At(2, "PubRecPending")
                  THEN Accepted(r, id, ack("Pubrec", "RECEIVE"),
                                At(2, "PubRelSend"))
                  ELSE Refused(r, id, ack("Pubrec", "RECEIVE"))
             /\ IF Flight(r, id) \in {At(2, "PubRelSend"),
                                      At(2, "PubCompPending")}
                  THEN Accepted(r, id, ack("Pubrel", "SEND"),
                                At(2, "PubCompPending"))
                  ELSE Refused(r, id, ack("Pubrel", "SEND"))
             /\ IF Flight(r, id) = At(2, "PubCompPending")
                  THEN Accepted(r, id, ack("Pubcomp", "RECEIVE"),
                                At(0, "StateNull"))
                  ELSE Refused(r, id, ack("Pubcomp", "RECEIVE"))
  <1> DEFINE ack(type, op) == UpdateStateAck(r, id, type, op)
  <1>1. CASE Flight(r, id) = At(0, "StateNull")
    <2>1. \A type, op : Refused(r, id, ack(type, op))
      BY <1>1, AckUnknown DEF Refused, Unchanged
    <2>2. \A q, s : q # 0 => At(q, s) # At(0, "StateNull")
      BY DEF At
    <2> QED
      BY <1>1, <2>1, <2>2
  <1>2. ASSUME NEW f \in OutgoingFlights, Flight(r, id) = f
        PROVE  /\ IF f = At(1, "PubAckPending")
                    THEN Accepted(r, id, ack("Puback", "RECEIVE"),
                                  At(0, "StateNull"))
                    ELSE Refused(r, id, ack("Puback", "RECEIVE"))
               /\ IF f = At(2, "PubRecPending")
                    THEN Accepted(r, id, ack("Pubrec", "RECEIVE"),
                                  At(2, "PubRelSend"))
                    ELSE Refused(r, id, ack("Pubrec", "RECEIVE"))
               /\ IF f \in {At(2, "PubRelSend"), At(2, "PubCompPending")}
                    THEN Accepted(r, id, ack("Pubrel", "SEND"),
                                  At(2, "PubCompPending"))
                    ELSE Refused(r, id, ack("Pubrel", "SEND"))
               /\ IF f = At(2, "PubCompPending")
                    THEN Accepted(r, id, ack("Pubcomp", "RECEIVE"),
                                  At(0, "StateNull"))
                    ELSE Refused(r, id, ack("Pubcomp", "RECEIVE"))
    <2>0. PICK qos \in {1, 2} : \E s : f = At(qos, s)
      BY <1>2 DEF OutgoingFlights
    <2>1. PICK state : f = At(qos, state)
      BY <2>0
    <2> DEFINE new(type, op) == CalculateStateAck(type, op, qos)
    <2>2. \A type \in MQTTPubAckType, op \in {"SEND", "RECEIVE"} :
            IF ValidTransitionAck(state, new(type, op))
              THEN Accepted(r, id, ack(type, op),
                            IF new(type, op) = "PublishDone"
                              THEN At(0, "StateNull")
                              ELSE At(qos, new(type, op)))
              ELSE Refused(r, id, ack(type, op))
      BY <1>2, <2>1, AckedRecord DEF Accepted, Refused
    <2> HIDE DEF ack
    <2>3. /\ "Puback" \in MQTTPubAckType /\ "Pubrec" \in MQTTPubAckType
          /\ "Pubrel" \in MQTTPubAckType /\ "Pubcomp" \in MQTTPubAckType
      BY DEF MQTTPubAckType
    <2>4. <<qos, state>> \in {<<1, "PublishSend">>, <<1, "PubAckPending">>,
                              <<2, "PublishSend">>, <<2, "PubRecPending">>,
                              <<2, "PubRelSend">>, <<2, "PubCompPending">>}
      BY <1>2, <2>1 DEF OutgoingFlights, At
    <2>5. \A q, s : f = At(q, s) <=> qos = q /\ state = s
      BY <2>1 DEF At
    <2>6. /\ ValidTransitionAck(state, new("Puback", "RECEIVE")) <=>
               f = At(1, "PubAckPending")
          /\ ValidTransitionAck(state, new("Pubrec", "RECEIVE")) <=>
               f = At(2, "PubRecPending")
          /\ ValidTransitionAck(state, new("Pubrel", "SEND")) <=>
               f \in {At(2, "PubRelSend"), At(2, "PubCompPending")}
          /\ ValidTransitionAck(state, new("Pubcomp", "RECEIVE")) <=>
               f = At(2, "PubCompPending")
      BY <2>4, <2>5 DEF ValidTransitionAck, AckTransitions, CalculateStateAck
    <2>7. /\ qos = 1 => new("Puback", "RECEIVE") = "PublishDone"
          /\ qos = 2 => /\ new("Pubrec", "RECEIVE") = "PubRelSend"
                        /\ new("Pubrel", "SEND") = "PubCompPending"
                        /\ new("Pubcomp", "RECEIVE") = "PublishDone"
      BY DEF CalculateStateAck
    <2> HIDE DEF new
    <2>8. f \in {At(2, "PubRecPending"), At(2, "PubRelSend"),
                 At(2, "PubCompPending")} => qos = 2
      BY <2>5
    <2>9. f = At(1, "PubAckPending") => qos = 1
      BY <2>5
    <2> QED
      BY <2>2, <2>3, <2>6, <2>7, <2>8, <2>9
  <1> QED
    BY <1>1, <1>2, FlightKinds

LEMMA IncomingAck ==
  ASSUME NEW n \in Nat, NEW r, Good(r, n, IncomingFlights),
         NEW id \in PacketIds
  PROVE  LET ack(type, op) == UpdateStateAck(r, id, type, op)
         IN  /\ IF Flight(r, id) = At(1, "PubAckSend")
                  THEN Accepted(r, id, ack("Puback", "SEND"),
                                At(0, "StateNull"))
                  ELSE Refused(r, id, ack("Puback", "SEND"))
             /\ IF Flight(r, id) \in {At(2, "PubRecSend"),
                                      At(2, "PubRelPending")}
                  THEN Accepted(r, id, ack("Pubrec", "SEND"),
                                At(2, "PubRelPending"))
                  ELSE Refused(r, id, ack("Pubrec", "SEND"))
             /\ IF Flight(r, id) \in {At(2, "PubRelPending"),
                                      At(2, "PubCompSend")}
                  THEN Accepted(r, id, ack("Pubrel", "RECEIVE"),
                                At(2, "PubCompSend"))
                  ELSE Refused(r, id, ack("Pubrel", "RECEIVE"))
             /\ IF Flight(r, id) = At(2, "PubCompSend")
                  THEN Accepted(r, id, ack("Pubcomp", "SEND"),
                                At(0, "StateNull"))
                  ELSE Refused(r, id, ack("Pubcomp", "SEND"))
  <1> DEFINE ack(type, op) == UpdateStateAck(r, id, type, op)
  <1>1. CASE Flight(r, id) = At(0, "StateNull")
    <2>1. \A type, op : Refused(r, id, ack(type, op))
      BY <1>1, AckUnknown DEF Refused, Unchanged
    <2>2. \A q, s : q # 0 => At(q, s) # At(0, "StateNull")
      BY DEF At
    <2> QED
      BY <1>1, <2>1, <2>2
  <1>2. ASSUME NEW f \in IncomingFlights, Flight(r, id) = f
        PROVE  /\ IF f = At(1, "PubAckSend")
                    THEN Accepted(r, id, ack("Puback", "SEND"),
                                  At(0, "StateNull"))
                    ELSE Refused(r, id, ack("Puback", "SEND"))
               /\ IF f \in {At(2, "PubRecSend"), At(2, "PubRelPending")}
                    THEN Accepted(r, id, ack("Pubrec", "SEND"),
                                  At(2, "PubRelPending"))
                    ELSE Refused(r, id, ack("Pubrec", "SEND"))
               /\ IF f \in {At(2, "PubRelPending"), At(2, "PubCompSend")}
                    THEN Accepted(r, id, ack("Pubrel", "RECEIVE"),
                                  At(2, "PubCompSend"))
                    ELSE Refused(r, id, ack("Pubrel", "RECEIVE"))
               /\ IF f = At(2, "PubCompSend")
                    THEN Accepted(r, id, ack("Pubcomp", "SEND"),
                                  At(0, "StateNull"))
                    ELSE Refused(r, id, ack("Pubcomp", "SEND"))
    <2>0. PICK qos \in {1, 2} : \E s : f = At(qos, s)
      BY <1>2 DEF IncomingFlights
    <2>1. PICK state : f = At(qos, state)
      BY <2>0
    <2> DEFINE new(type, op) == CalculateStateAck(type, op, qos)
    <2>2. \A type \in MQTTPubAckType, op \in {"SEND", "RECEIVE"} :
            IF ValidTransitionAck(state, new(type, op))
              THEN Accepted(r, id, ack(type, op),
                            IF new(type, op) = "PublishDone"
                              THEN At(0, "StateNull")
                              ELSE At(qos, new(type, op)))
              ELSE Refused(r, id, ack(type, op))
      BY <1>2, <2>1, AckedRecord DEF Accepted, Refused
    <2> HIDE DEF ack
    <2>3. /\ "Puback" \in MQTTPubAckType /\ "Pubrec" \in MQTTPubAckType
          /\ "Pubrel" \in MQTTPubAckType /\ "Pubcomp" \in MQTTPubAckType
      BY DEF MQTTPubAckType
    <2>4. <<qos, state>> \in {<<1, "PubAckSend">>, <<2, "PubRecSend">>,
                              <<2, "PubRelPending">>, <<2, "PubCompSend">>}
      BY <1>2, <2>1 DEF IncomingFlights, At
    <2>5. \A q, s : f = At(q, s) <=> qos = q /\ state = s
      BY <2>1 DEF At
    <2>6. /\ ValidTransitionAck(state, new("Puback", "SEND")) <=>
               f = At(1, "PubAckSend")
          /\ ValidTransitionAck(state, new("Pubrec", "SEND")) <=>
               f \in {At(2, "PubRecSend"), At(2, "PubRelPending")}
          /\ ValidTransitionAck(state, new("Pubrel", "RECEIVE")) <=>
               f \in {At(2, "PubRelPending"), At(2, "PubCompSend")}
          /\ ValidTransitionAck(state, new("Pubcomp", "SEND")) <=>
               f = At(2, "PubCompSend")
      BY <2>4, <2>5 DEF ValidTransitionAck, AckTransitions, CalculateStateAck
    <2>7. /\ qos = 1 => new("Puback", "SEND") = "PublishDone"
          /\ qos = 2 => /\ new("Pubrec", "SEND") = "PubRelPending"
                        /\ new("Pubrel", "RECEIVE") = "PubCompSend"
                        /\ new("Pubcomp", "SEND") = "PublishDone"
      BY DEF CalculateStateAck
    <2> HIDE DEF new
    <2>8. f \in {At(2, "PubRecSend"), At(2, "PubRelPending"),
                 At(2, "PubCompSend")} => qos = 2
      BY <2>5
    <2>9. f = At(1, "PubAckSend") => qos = 1
      BY <2>5
    <2> QED
      BY <2>2, <2>3, <2>6, <2>7, <2>8, <2>9
  <1> QED
    BY <1>1, <1>2, FlightKinds

\* UpdateReceivedPublish adds a record to those of the other publishes,
\* unless there is one of this identifier, or no room.
LEMMA ReceivedRecord ==
  ASSUME NEW n \in Nat, NEW r, Good(r, n, IncomingFlights),
         NEW id \in PacketIds, NEW qos \in {1, 2}
  PROVE  LET received == UpdateReceivedPublish(r, id, qos)
             first    == IF qos = 1 THEN "PubAckSend" ELSE "PubRecSend"
         IN  /\ received.status \in {"Success", "StateCollision", "NoMemory"}
             /\ \A x \in PacketIds \ {id} :
                  Flight(received.records, x) = Flight(r, x)
             /\ received.status = "Success" =>
                  /\ Flight(r, id) = At(0, "StateNull")
                  /\ Flight(received.records, id) = At(qos, first)
             /\ received.status # "Success" =>
                  Flight(received.records, id) = Flight(r, id)
             /\ received.status = "StateCollision" =>
                  Flight(r, id) # At(0, "StateNull")
  <1> DEFINE received == UpdateReceivedPublish(r, id, qos)
             first    == IF qos = 1 THEN "PubAckSend" ELSE "PubRecSend"
             added    == AddRecord(r, id, qos, first)
  <1>1. first = CalculateStatePublish("RECEIVE", qos)
    BY DEF CalculateStatePublish
  <1>2. received.status = added.status /\ received.records = added.records
    BY <1>1 DEF UpdateReceivedPublish
  <1>3. /\ qos \in MQTTQoS /\ first \in MQTTPublishState
        /\ At(qos, first) \in IncomingFlights
    BY DEF MQTTQoS, MQTTPublishState, IncomingStates, IncomingFlights
  <1>4. added.status \in {"Success", "StateCollision", "NoMemory"}
    BY DEF AddRecord
  <1>5. ASSUME added.status = "StateCollision"
        PROVE  Flight(r, id) # At(0, "StateNull")
    <2>1. Holds(Prepared(r), id)
      BY <1>5 DEF AddRecord
    <2>2. Good(Prepared(r), n, IncomingFlights)
      BY PreparedGood
    <2>3. id \in Held(Prepared(r))
      BY <2>1, <2>2, HeldIsHolds
    <2>4. Progress(Prepared(r)) = Progress(r)
      BY PreparedInvisible DEF Same
    <2> QED
      BY <2>3, <2>4 DEF Held, Progress
  <1>6. /\ \A x \in PacketIds \ {id} : Flight(added.records, x) = Flight(r, x)
        /\ IF added.status = "Success"
             THEN /\ Flight(r, id) = At(0, "StateNull")
                  /\ Flight(added.records, id) = At(qos, first)
             ELSE Flight(added.records, id) = Flight(r, id)
    <2> HIDE DEF first
    <2> QED
      BY <1>3, AddedRecord
  <1> HIDE DEF added, received
  <1>7. /\ received.status \in {"Success", "StateCollision", "NoMemory"}
        /\ \A x \in PacketIds \ {id} :
             Flight(received.records, x) = Flight(r, x)
        /\ received.status = "Success" =>
             /\ Flight(r, id) = At(0, "StateNull")
             /\ Flight(received.records, id) = At(qos, first)
        /\ received.status # "Success" =>
             Flight(received.records, id) = Flight(r, id)
        /\ received.status = "StateCollision" =>
             Flight(r, id) # At(0, "StateNull")
    BY <1>2, <1>4, <1>5, <1>6
  <1> QED
    BY <1>7 DEF received

-----------------------------------------------------------------------------
(* What a resend cursor has before it: while it moves on, no record gets   *)
(* there but a new one.                                                    *)

Ahead(r, cursor, id) == \E i \in DOMAIN r : i > cursor /\ r[i].packetId = id

LEMMA CompactAhead ==
  ASSUME NEW n \in Nat, NEW r, DOMAIN r = 1..n, NEW cursor \in Nat,
         NEW id \in PacketIds, Ahead(CompactRecords(r), cursor, id)
  PROVE  Ahead(r, cursor, id)
  <1> DEFINE c == CompactRecords(r)
  <1>1. DOMAIN c = 1..n
    BY DEF CompactRecords
  <1>2. PICK k \in 1..n : k > cursor /\ c[k].packetId = id
    BY <1>1 DEF Ahead
  <1>3. c[k] # EmptySlot
    BY <1>2, PacketIdAssumption DEF EmptySlot
  <1>4. PICK i \in 1..n : IsNth(r, i, k) /\ c[k] = r[i]
    BY <1>3, CompactSlot
  <1>5. k <= i
    BY <1>4, RankBound DEF IsNth
  <1>6. i > cursor /\ r[i].packetId = id
    BY <1>2, <1>4, <1>5
  <1> QED
    BY <1>6 DEF Ahead

LEMMA AddedAhead ==
  ASSUME NEW n \in Nat, NEW flights, NEW r, Good(r, n, flights),
         NEW cursor \in Nat, NEW id, NEW qos, NEW state,
         NEW x \in PacketIds,
         Ahead(AddRecord(r, id, qos, state).records, cursor, x)
  PROVE  \/ Ahead(r, cursor, x)
         \/ AddRecord(r, id, qos, state).status = "Success" /\ x = id
  <1> DEFINE table == Prepared(r)
             added == AddRecord(r, id, qos, state)
  <1>1. Ahead(table, cursor, x) => Ahead(r, cursor, x)
    BY CompactAhead DEF Prepared, Good
  <1>2. CASE added.status # "Success"
    <2>1. added.records = table
      BY <1>2 DEF AddRecord
    <2> QED
      BY <1>1, <2>1
  <1>3. CASE added.status = "Success"
    <2> DEFINE a == AvailableIndex(table)
               slot == [packetId |-> id, qos |-> qos, publishState |-> state]
    <2>1. added.records = [table EXCEPT ![a] = slot]
      BY <1>3 DEF AddRecord
    <2> HIDE DEF table, a
    <2>2. PICK i \in DOMAIN table :
            i > cursor /\ [table EXCEPT ![a] = slot][i].packetId = x
      BY <2>1 DEF Ahead
    <2>3. CASE i = a
      BY <1>3, <2>2, <2>3
    <2>4. CASE i # a
      <3>1. Ahead(table, cursor, x)
        BY <2>2, <2>4 DEF Ahead
      <3> QED
        BY <1>1, <3>1 DEF table
    <2> QED
      BY <2>3, <2>4
  <1> QED
    BY <1>2, <1>3

LEMMA SetStateAhead ==
  ASSUME NEW r, NEW i, NEW state, NEW cursor, NEW x,
         Ahead(SetRecordState(r, i, state), cursor, x)
  PROVE  Ahead(r, cursor, x)
  <1> DEFINE s == SetRecordState(r, i, state)
  <1>1. PICK k \in DOMAIN s : k > cursor /\ s[k].packetId = x
    BY DEF Ahead
  <1>2. k \in DOMAIN r /\ s[k].packetId = r[k].packetId
    BY <1>1 DEF SetRecordState
  <1> QED
    BY <1>1, <1>2 DEF Ahead

LEMMA SentAhead ==
  ASSUME NEW r, NEW id, NEW qos, NEW cursor, NEW x,
         Ahead(UpdateSentPublish(r, id, qos).records, cursor, x)
  PROVE  Ahead(r, cursor, x)
  <1> DEFINE new == CalculateStatePublish("SEND", qos)
             i   == FindInRecord(r, id)
  <1>1. UpdateSentPublish(r, id, qos).records \in
          {r, SetRecordState(r, i, new)}
    BY DEF UpdateSentPublish, Unchanged
  <1> QED
    BY <1>1, SetStateAhead

\* A resent PUBREL leaves its record where it is.
LEMMA ResentAhead ==
  ASSUME NEW r, NEW id, NEW cursor, NEW x,
         Ahead(UpdateStateAck(r, id, "Pubrel", "SEND").records, cursor, x)
  PROVE  Ahead(r, cursor, x)
  <1> DEFINE i   == FindInRecord(r, id)
             new == CalculateStateAck("Pubrel", "SEND", r[i].qos)
             ack == UpdateStateAck(r, id, "Pubrel", "SEND")
  <1>1. new \in {"StateNull", "PubCompPending"}
    BY DEF CalculateStateAck
  <1>2. ~ValidTransitionAck(r[i].publishState, "StateNull")
    BY DEF ValidTransitionAck, AckTransitions
  <1>3. ApplyAck(r, i, "PubCompPending").records \in
          {r, SetRecordState(r, i, "PubCompPending")}
    BY DEF ApplyAck
  <1>4. ack.records \in {r, SetRecordState(r, i, "PubCompPending")}
    <2>1. \/ ack.records = r
          \/ /\ ValidTransitionAck(r[i].publishState, new)
             /\ ack.records = ApplyAck(r, i, new).records
      BY DEF UpdateStateAck, Unchanged
    <2> HIDE DEF ack, new
    <2> QED
      BY <1>1, <1>2, <1>3, <2>1
  <1> QED
    BY <1>4, SetStateAhead

\* What is selected is ahead of the cursor until it is selected.
LEMMA SelectedAhead ==
  ASSUME NEW n \in Nat, NEW flights, NEW r, Good(r, n, flights),
         NEW states, NEW cursor \in Nat,
         StateSelect(r, states, cursor).packetId # MQTT_PACKET_ID_INVALID
  PROVE  LET selection == StateSelect(r, states, cursor)
         IN  /\ Ahead(r, cursor, selection.packetId)
             /\ ~Ahead(r, selection.cursor, selection.packetId)
             /\ \A x : Ahead(r, selection.cursor, x) => Ahead(r, cursor, x)
  <1> DEFINE selection == StateSelect(r, states, cursor)
  <1>1. /\ selection.cursor \in 1..n /\ selection.cursor > cursor
        /\ r[selection.cursor].packetId = selection.packetId
        /\ selection.packetId \in PacketIds
    BY SelectsRecord
  <1> HIDE DEF selection
  <1>2. DOMAIN r = 1..n /\ UniqueIds(r)
    BY DEF Good
  <1>3. Ahead(r, cursor, selection.packetId)
    BY <1>1, <1>2 DEF Ahead
  <1>4. ~Ahead(r, selection.cursor, selection.packetId)
    <2> SUFFICES ASSUME NEW i \in 1..n, i > selection.cursor,
                        r[i].packetId = selection.packetId
                 PROVE  FALSE
      BY <1>2 DEF Ahead
    <2>1. i = selection.cursor
      BY <1>1, <1>2, PacketIdAssumption DEF UniqueIds, Occupied
    <2> QED
      BY <1>1, <2>1
  <1>5. \A x : Ahead(r, selection.cursor, x) => Ahead(r, cursor, x)
    BY <1>1, <1>2 DEF Ahead
  <1> QED
    BY <1>3, <1>4, <1>5 DEF selection

-----------------------------------------------------------------------------
(* The order of the records, for who resends them.                         *)

\* A selection passes over no record that it could select.
LEMMA SelectsLeast ==
  ASSUME NEW n \in Nat, NEW flights, NEW r, Good(r, n, flights),
         NEW states, "StateNull" \notin states, NEW cursor \in Nat,
         NEW i \in 1..n, i > cursor, r[i].publishState \in states
  PROVE  LET selection == StateSelect(r, states, cursor)
         IN  /\ selection.packetId # MQTT_PACKET_ID_INVALID
             /\ selection.cursor <= i
  <1> DEFINE found == Selectable(r, states, cursor)
             least == CHOOSE k \in found : \A j \in found : k <= j
  <1>1. DOMAIN r = 1..n /\ i \in found
    BY DEF Good, Selectable
  <1>2. found \subseteq 1..n
    BY <1>1 DEF Selectable
  <1>3. \E k \in found : \A j \in found : k <= j
    <2> HIDE DEF found
    <2>1. found \subseteq Nat /\ found # {}
      BY <1>1, <1>2
    <2> QED
      BY <2>1, LeastElement
  <1>4. least \in found /\ \A j \in found : least <= j
    BY <1>3
  <1>5. StateSelect(r, states, cursor) =
          [packetId |-> r[least].packetId, cursor |-> least]
    BY <1>1 DEF StateSelect
  <1> HIDE DEF least
  <1>6. least \in 1..n /\ r[least].publishState \in states /\ least <= i
    BY <1>1, <1>2, <1>4 DEF Selectable
  <1>7. Occupied(r[least])
    <2>1. Occupied(r[least]) \/ r[least] = EmptySlot
      BY <1>1, <1>6 DEF Good, WellFormed
    <2>2. EmptySlot.publishState = "StateNull"
      BY DEF EmptySlot
    <2> QED
      BY <1>6, <2>1, <2>2
  <1> QED
    BY <1>5, <1>6, <1>7 DEF Occupied

\* An acknowledgement moves at most its own record, to the end.
LEMMA AckOrder ==
  ASSUME NEW n \in Nat, NEW r, Good(r, n, OutgoingFlights),
         NEW id \in PacketIds, NEW packetType \in MQTTPubAckType,
         NEW opType \in {"SEND", "RECEIVE"}
  PROVE  LET ack == UpdateStateAck(r, id, packetType, opType)
         IN  /\ Good(ack.records, n, OutgoingFlights)
             /\ \A p \in Order(ack.records) : p \in Order(r) \/ p[2] = id
  <1> DEFINE ack == UpdateStateAck(r, id, packetType, opType)
  <1>1. Good(ack.records, n, OutgoingFlights)
    BY UpdateStateAckGood
  <1>2. \/ Same(r, ack.records)
        \/ Leaves(r, ack.records, id)
        \/ \E f \in OutgoingFlights : Advances(r, ack.records, id, f)
        \/ GoesLast(r, ack.records, id, At(2, "PubRelSend"))
    BY AckEffect
  <1> HIDE DEF ack
  <1>3. Order(ack.records) \subseteq Order(r) \cup Last(r, id)
    BY <1>2 DEF Same, Leaves, Advances, GoesLast, OrderWithout
  <1>4. \A p \in Last(r, id) : p[2] = id
    BY DEF Last
  <1> QED
    BY <1>1, <1>3, <1>4 DEF ack

\* Two records are in the order that their places have.
LEMMA OrderOfPlaces ==
  ASSUME NEW r, NEW cursor \in Nat, DOMAIN r \subseteq Nat,
         NEW x \in PacketIds, NEW y \in PacketIds,
         Holds(r, x), ~Ahead(r, cursor, x), Ahead(r, cursor, y)
  PROVE  <<x, y>> \in Order(r)
  <1>1. PICK i \in DOMAIN r : r[i].packetId = x
    BY DEF Holds
  <1>2. PICK j \in DOMAIN r : j > cursor /\ r[j].packetId = y
    BY DEF Ahead
  <1>3. ~(i > cursor)
    BY <1>1 DEF Ahead
  <1>4. i < j
    BY <1>2, <1>3
  <1> QED
    BY <1>1, <1>2, <1>4 DEF Order
=============================================================================
