-------------------------- MODULE MqttSession_order --------------------------
(***************************************************************************)
(* Proofs that the broker first sees the messages of the client in the     *)
(* order in which they were published, when no thread publishes during a   *)
(* resumption: for every number of packet identifiers, of record slots and *)
(* of messages, whatever fails.                                            *)
(*                                                                         *)
(* The inductive invariant adds the layer Sequence to those of             *)
(* MqttSession_delivery: the records, the wire and the arrivals have the   *)
(* messages in one order, and nothing is left out between them.            *)
(***************************************************************************)
EXTENDS MqttSession_delivery

-----------------------------------------------------------------------------
(* The invariant.                                                          *)

Precedes(w, j, c) == \E i \in DOMAIN w : i < j /\ w[i] = c

\* Publishes that would be sent again have their records in order.
TableOrder ==
  \A x, y \in PacketIds :
    /\ <<x, y>> \in Order(outgoing)
    /\ Outgoing(x) \in Republishable
    /\ Outgoing(y) \in Republishable
    => messageOf[x] < messageOf[y]

\* The broker has only delivered messages from before those that it has not.
Fresh ==
  \A c \in stored :
    Delivered(c.message) \/ \A i \in DOMAIN arrivals : arrivals[i] < c.message

\* On the wire there is nothing missing before a PUBLISH.
WireOrder ==
  \A j \in DOMAIN toBroker, c \in stored :
    /\ toBroker[j].type = "Publish"
    /\ c.message < toBroker[j].message
    => Delivered(c.message) \/ Precedes(toBroker, j, c)

\* MQTT_Connect has yet to send the copy again.
ToResend(c) ==
  pc = "publishes" /\ (c = selected \/ Ahead(outgoing, cursor, c.packetId))

\* Over a connection that is not given up, every publish has been sent or
\* will be before MQTT_Connect returns.
AllSent ==
  /\ link = "up" /\ connectStatus = "Connected"
  /\ pc \in {"idle", "publishes"}
  => \A c \in stored :
       Delivered(c.message) \/ In(toBroker, c) \/ ToResend(c)

\* MQTT_Publish and MQTT_Connect send over a connection that is not given up.
Working ==
  /\ publishing # Nothing =>
       ~Delivered(publishing.message) /\ connectStatus = "Connected"
  /\ pc \in {"pubrels", "publishes"} => connectStatus = "Connected"

Sequence ==
  TableOrder /\ Fresh /\ WireOrder /\ AllSent /\ Working
             /\ FirstDeliveriesInOrder

LEMMA InitSequence == Init => Sequence
  <1> SUFFICES ASSUME Init PROVE Sequence
    OBVIOUS
  <1>1. /\ toBroker = <<>> /\ arrivals = <<>> /\ stored = {}
        /\ publishing = Nothing /\ pc = "idle"
        /\ outgoing = EmptyTable(OutgoingPublishCount)
    BY DEF Init
  <1>2. TableOrder
    BY <1>1, EmptyTableView, SessionAssumption DEF TableOrder
  <1> QED
    BY <1>1, <1>2 DEF Sequence, Fresh, WireOrder, AllSent, Working,
                      FirstDeliveriesInOrder

-----------------------------------------------------------------------------
(* Steps that send and deliver nothing.                                    *)

\* v has the publishes that w has.
SamePublishes(w, v) ==
  \/ v = w
  \/ \E p \in Packet : p.type # "Publish" /\ v = Append(w, p)
  \/ w # <<>> /\ Head(w).type # "Publish" /\ v = Tail(w)

LEMMA PublishesStay ==
  ASSUME NEW w \in Seq(Packet), NEW v, SamePublishes(w, v)
  PROVE  /\ \A j \in DOMAIN v :
              v[j].type = "Publish" =>
                \E k \in DOMAIN w :
                  /\ w[k] = v[j]
                  /\ \A c \in PublishPacket :
                       Precedes(w, k, c) => Precedes(v, j, c)
         /\ \A c \in PublishPacket : In(w, c) => In(v, c)
  <1>1. CASE v = w
    BY <1>1
  <1>2. CASE \E p \in Packet : p.type # "Publish" /\ v = Append(w, p)
    <2>1. PICK p \in Packet : p.type # "Publish" /\ v = Append(w, p)
      BY <1>2
    <2>2. /\ DOMAIN w \subseteq DOMAIN v
          /\ \A i \in DOMAIN w : v[i] = w[i]
          /\ \A i \in DOMAIN v : i \in DOMAIN w \/ v[i] = p
      BY <2>1, WireSent
    <2> QED
      BY <2>1, <2>2 DEF Precedes, In
  <1>3. CASE w # <<>> /\ Head(w).type # "Publish" /\ v = Tail(w)
    <2> DEFINE n == Len(w)
    <2>1. /\ n \in Nat \ {0} /\ DOMAIN w = 1..n
          /\ v \in Seq(Packet) /\ DOMAIN v = 1..(n - 1)
          /\ w[1] = Head(w)
          /\ \A i \in 1..(n - 1) : v[i] = w[i + 1]
      BY <1>3
    <2> HIDE DEF n
    <2>2. \A c \in PublishPacket, i \in DOMAIN w : w[i] = c => i # 1
      BY <1>3, <2>1, PacketKinds
    <2>3. ASSUME NEW c \in PublishPacket, In(w, c)
          PROVE  In(v, c)
      <3>1. PICK i \in DOMAIN w : w[i] = c
        BY <2>3 DEF In
      <3>2. i \in 2..n
        BY <2>1, <2>2, <3>1
      <3>3. i - 1 \in 1..(n - 1) /\ (i - 1) + 1 = i
        BY <2>1, <3>2
      <3>4. v[i - 1] = c
        BY <2>1, <3>1, <3>3
      <3> QED
        BY <2>1, <3>3, <3>4 DEF In
    <2>4. ASSUME NEW j \in DOMAIN v, NEW c \in PublishPacket,
                 Precedes(w, j + 1, c)
          PROVE  Precedes(v, j, c)
      <3>1. PICK i \in DOMAIN w : i < j + 1 /\ w[i] = c
        BY <2>4 DEF Precedes
      <3>2. i \in 2..n /\ j \in 1..(n - 1)
        BY <2>1, <2>2, <3>1
      <3>3. i - 1 \in 1..(n - 1) /\ i - 1 < j /\ (i - 1) + 1 = i
        BY <2>1, <3>1, <3>2
      <3>4. v[i - 1] = c
        BY <2>1, <3>1, <3>3
      <3> QED
        BY <2>1, <3>3, <3>4 DEF Precedes
    <2>5. ASSUME NEW j \in DOMAIN v
          PROVE  j + 1 \in DOMAIN w /\ w[j + 1] = v[j]
      BY <2>1
    <2> QED
      BY <2>3, <2>4, <2>5
  <1> QED
    BY <1>1, <1>2, <1>3 DEF SamePublishes

\* Records leave the order or keep it.
LEMMA TableStays ==
  ASSUME TableOrder,
         \A x \in PacketIds :
           Flight(outgoing', x) \in Republishable =>
             Outgoing(x) \in Republishable /\ messageOf'[x] = messageOf[x],
         \A x, y \in PacketIds :
           <<x, y>> \in Order(outgoing') =>
             \/ <<x, y>> \in Order(outgoing)
             \/ Flight(outgoing', y) \notin Republishable
  PROVE  TableOrder'
  BY DEF TableOrder, Outgoing

LEMMA SequenceStays ==
  ASSUME Types, Types', Sequence,
         \/ link' # "up" /\ toBroker' = <<>>
         \/ SamePublishes(toBroker, toBroker'),
         UNCHANGED arrivals, stored' \subseteq stored,
         TableOrder', Working',
         \/ AllSent'
         \/ link' # "up" \/ connectStatus' # "Connected"
         \/ pc' \notin {"idle", "publishes"}
         \/ /\ link = "up" /\ connectStatus = "Connected"
            /\ pc' = pc
            /\ pc = "idle" \/ UNCHANGED <<outgoing, cursor, selected>>
  PROVE  Sequence'
  <1>1. \A m : Delivered(m)' <=> Delivered(m)
    BY DEF Delivered
  <1>2. toBroker \in Seq(Packet) /\ stored \subseteq PublishPacket
    BY DEF Types
  <1>3. Fresh'
    BY <1>1 DEF Sequence, Fresh
  <1>4. WireOrder'
    <2>1. CASE toBroker' = <<>>
      BY <2>1 DEF WireOrder
    <2>2. CASE SamePublishes(toBroker, toBroker')
      <3>1. ASSUME NEW j \in DOMAIN toBroker', NEW c \in stored',
                   toBroker'[j].type = "Publish",
                   c.message < toBroker'[j].message
            PROVE  Delivered(c.message) \/ Precedes(toBroker', j, c)
        <4>1. PICK k \in DOMAIN toBroker :
                /\ toBroker[k] = toBroker'[j]
                /\ \A d \in PublishPacket :
                     Precedes(toBroker, k, d) => Precedes(toBroker', j, d)
          BY <1>2, <2>2, <3>1, PublishesStay
        <4>2. c \in stored /\ c \in PublishPacket
          BY <1>2
        <4>3. Delivered(c.message) \/ Precedes(toBroker, k, c)
          BY <3>1, <4>1, <4>2 DEF Sequence, WireOrder
        <4> QED
          BY <4>1, <4>2, <4>3
      <3>2. \A j \in DOMAIN toBroker', c \in stored' :
              /\ toBroker'[j].type = "Publish"
              /\ c.message < toBroker'[j].message
              => Delivered(c.message)' \/ Precedes(toBroker', j, c)
        BY <1>1, <3>1
      <3> QED
        BY <3>2 DEF WireOrder, Delivered, Precedes
    <2> QED
      BY <2>1, <2>2
  <1>5. AllSent'
    <2> SUFFICES ASSUME link' = "up", connectStatus' = "Connected",
                        pc' \in {"idle", "publishes"}, ~AllSent'
                 PROVE  AllSent'
      BY DEF AllSent
    <2>1. /\ link = "up" /\ connectStatus = "Connected"
          /\ pc' = pc
          /\ pc = "idle" \/ UNCHANGED <<outgoing, cursor, selected>>
          /\ SamePublishes(toBroker, toBroker')
      OBVIOUS
    <2>2. \A c \in PublishPacket : In(toBroker, c) => In(toBroker', c)
      BY <1>2, <2>1, PublishesStay
    <2>3. ASSUME NEW c \in stored'
          PROVE  Delivered(c.message)' \/ In(toBroker', c) \/ ToResend(c)'
      <3>1. Delivered(c.message) \/ In(toBroker, c) \/ ToResend(c)
        BY <2>1 DEF Sequence, AllSent
      <3>2. ToResend(c) => ToResend(c)'
        BY <2>1 DEF ToResend
      <3> QED
        BY <1>1, <1>2, <2>2, <3>1, <3>2
    <2> QED
      BY <2>3 DEF AllSent
  <1>6. FirstDeliveriesInOrder'
    BY DEF Sequence, FirstDeliveriesInOrder
  <1> QED
    BY <1>3, <1>4, <1>5, <1>6 DEF Sequence

LEMMA QuietStatus ==
  ASSUME Types, Links, Working, QuietAction, ~SelectionEnds
  PROVE  /\ \/ UNCHANGED connectStatus
            \/ publishing' = Nothing
         /\ pc' \in {"pubrels", "publishes"} => connectStatus' = "Connected"
         /\ \/ link' # "up" \/ connectStatus' # "Connected"
            \/ pc' \notin {"idle", "publishes"}
            \/ /\ link = "up" /\ connectStatus = "Connected"
               /\ pc' = pc
               /\ UNCHANGED <<outgoing, cursor, selected>>
  <1> USE DEF contextVars, appVars, receivedVars, cursorVars, threadVars,
              netVars, brokerVars, vars, Idle, Unlocked
  <1>1. CASE PublishNotStored \/ ReceiveNothing \/ ReceiveFails \/ UNCHANGED vars
    BY <1>1 DEF PublishNotStored, ReceiveNothing, ReceiveFails, Working
  <1>2. CASE \E ok \in BOOLEAN : HandlePublish(ok) \/ HandlePubrel(ok)
    BY <1>2 DEF HandlePublish, HandlePubrel, Arrived
  <1>3. CASE Disconnect \/ ConnectResumedSession \/ RetrieveFails \/ ConnectFails
    BY <1>3 DEF Disconnect, ConnectResumedSession, RetrieveFails, Selecting,
                ConnectFails
  <1>4. CASE BrokerTakesPubackOrPubrec \/ BrokerTakesPubcomp
    BY <1>4 DEF BrokerTakesPubackOrPubrec, BrokerTakesPubcomp, Working
  <1>5. CASE \E id \in PacketIds, q \in PublishQoS : BrokerSendsPublish(id, q)
    BY <1>5 DEF BrokerSendsPublish, Working
  <1>6. CASE BrokerForgets \/ LinkBreaks
    BY <1>6 DEF BrokerForgets, LinkBreaks, Working
  <1> QED
    BY <1>1, <1>2, <1>3, <1>4, <1>5, <1>6 DEF QuietAction

LEMMA QuietSequence ==
  ASSUME Types, Types', Links, Links', Sequence, QuietAction, ~SelectionEnds
  PROVE  Sequence'
  <1>1. /\ UNCHANGED <<outgoing, messageOf, stored, arrivals>>
        /\ publishing' \in {publishing, Nothing}
        /\ \/ link' # "up" /\ toBroker' = <<>>
           \/ Passes(toBroker, toBroker')
    BY QuietEffect
  <1>2. \/ link' # "up" /\ toBroker' = <<>>
        \/ SamePublishes(toBroker, toBroker')
    BY <1>1 DEF Passes, SamePublishes, Sends
  <1>3. TableOrder'
    BY <1>1 DEF Sequence, TableOrder, Outgoing
  <1>4. /\ \/ UNCHANGED connectStatus
           \/ publishing' = Nothing
        /\ pc' \in {"pubrels", "publishes"} => connectStatus' = "Connected"
        /\ \/ link' # "up" \/ connectStatus' # "Connected"
           \/ pc' \notin {"idle", "publishes"}
           \/ /\ link = "up" /\ connectStatus = "Connected"
              /\ pc' = pc
              /\ UNCHANGED <<outgoing, cursor, selected>>
    BY QuietStatus DEF Sequence
  <1>5. Working'
    BY <1>1, <1>4 DEF Sequence, Working, Delivered
  <1> QED
    BY <1>1, <1>2, <1>3, <1>4, <1>5, SequenceStays

-----------------------------------------------------------------------------
(* MQTT_Connect resends the copies.                                        *)

\* Where the record of a copy is.
LEMMA CopyPlace ==
  ASSUME Types, CopiesFit, NEW c \in stored
  PROVE  \E i \in 1..OutgoingPublishCount :
           /\ outgoing[i].packetId = c.packetId
           /\ outgoing[i].publishState \in PublishToResendStates
           /\ \A passed \in Nat :
                Ahead(outgoing, passed, c.packetId) <=> i > passed
  <1>1. /\ Good(outgoing, OutgoingPublishCount, OutgoingFlights)
        /\ OutgoingPublishCount \in Nat
    BY SessionAssumption DEF Types, OutgoingTable
  <1>2. DOMAIN outgoing = 1..OutgoingPublishCount /\ UniqueIds(outgoing)
    BY <1>1 DEF Good
  <1>3. PICK i \in DOMAIN outgoing :
          /\ outgoing[i].packetId = c.packetId
          /\ outgoing[i].publishState \in PublishToResendStates
    BY CopyHasRecord
  <1>4. c.packetId # MQTT_PACKET_ID_INVALID
    BY PacketIdAssumption, PacketKinds DEF Types
  <1>5. \A k \in DOMAIN outgoing : outgoing[k].packetId = c.packetId => k = i
    BY <1>2, <1>3, <1>4 DEF UniqueIds, Occupied
  <1>6. \A passed \in Nat : Ahead(outgoing, passed, c.packetId) <=> i > passed
    BY <1>3, <1>5 DEF Ahead
  <1> QED
    BY <1>2, <1>3, <1>6

LEMMA SelectionEndsSequence ==
  ASSUME Types, Types', Links, Records, Sequence, SelectionEnds
  PROVE  Sequence'
  <1> USE DEF contextVars, appVars, receivedVars, cursorVars, threadVars,
              netVars, brokerVars
  <1>1. /\ UNCHANGED <<outgoing, messageOf, stored, arrivals, publishing,
                       toBroker, link, connectStatus, selected>>
        /\ pc \in {"pubrels", "publishes"} /\ selected = Nothing
        /\ Selection.packetId = MQTT_PACKET_ID_INVALID
        /\ pc' = IF pc = "pubrels" THEN "publishes" ELSE "idle"
        /\ cursor' = 0
    BY DEF SelectionEnds
  <1>2. TableOrder' /\ Working'
    BY <1>1 DEF Sequence, TableOrder, Outgoing, Working, Delivered
  <1>3. ASSUME NEW c \in stored, link = "up", connectStatus = "Connected"
        PROVE  Delivered(c.message)' \/ In(toBroker', c) \/ ToResend(c)'
    <2>1. PICK i \in 1..OutgoingPublishCount :
            /\ outgoing[i].packetId = c.packetId
            /\ outgoing[i].publishState \in PublishToResendStates
            /\ \A passed \in Nat :
                 Ahead(outgoing, passed, c.packetId) <=> i > passed
      BY <1>3, CopyPlace DEF Records
    <2>2. OutgoingPublishCount \in Nat /\ cursor \in Nat
      BY SessionAssumption DEF Types
    <2>3. CASE pc = "pubrels"
      <3>1. Ahead(outgoing, 0, c.packetId)
        BY <2>1, <2>2
      <3> QED
        BY <1>1, <2>3, <3>1 DEF ToResend
    <2>4. CASE pc = "publishes"
      <3>1. Selection = StateSelect(outgoing, PublishToResendStates, cursor)
        BY <2>4 DEF Selection
      <3>2. "StateNull" \notin PublishToResendStates
        BY DEF PublishToResendStates
      <3>3. ~(i > cursor)
        BY <1>1, <2>1, <2>2, <3>1, <3>2, SelectsLeast DEF Types, OutgoingTable
      <3>4. ~Ahead(outgoing, cursor, c.packetId)
        BY <2>1, <2>2, <3>3
      <3>5. c # selected
        BY <1>1, PacketKinds DEF Types
      <3>6. Delivered(c.message) \/ In(toBroker, c)
        BY <1>3, <2>4, <3>4, <3>5 DEF Sequence, AllSent, ToResend
      <3> QED
        BY <1>1, <3>6 DEF Delivered
    <2> QED
      BY <1>1, <2>3, <2>4
  <1>4. AllSent'
    BY <1>1, <1>3 DEF AllSent
  <1> QED
    BY <1>1, <1>2, <1>4, SequenceStays DEF SamePublishes

-----------------------------------------------------------------------------
(* MQTT_Publish.                                                           *)

\* A new record is the last one, and no record is lost.
LEMMA ReservedOrder ==
  ASSUME Types, NEW q \in PublishQoS, Reserve(q)
  PROVE  /\ ~Holds(outgoing, nextPacketId)
         /\ Order(outgoing') = Order(outgoing) \cup Last(outgoing, nextPacketId)
  <1> DEFINE added == AddRecord(outgoing, nextPacketId, q, "PublishSend")
  <1>1. nextPacketId \in PacketIds /\ q \in {1, 2}
    BY SessionAssumption DEF Types
  <1>2. added.status = "Success" /\ outgoing' = added.records
    BY DEF Reserve
  <1>3. /\ q \in MQTTQoS /\ "PublishSend" \in MQTTPublishState
        /\ At(q, "PublishSend") \in OutgoingFlights
    BY <1>1 DEF MQTTQoS, MQTTPublishState, OutgoingStates, OutgoingFlights
  <1>4. added.status = "Success" =>
          Enters(outgoing, added.records, OutgoingPublishCount, nextPacketId,
                 At(q, "PublishSend"))
    BY <1>1, <1>3, AddRecordEnters, SessionAssumption DEF Types, OutgoingTable
  <1> HIDE DEF added
  <1> QED
    BY <1>2, <1>4 DEF Enters

LEMMA RefusedOrder ==
  ASSUME Types, PublishRefused
  PROVE  Order(outgoing') = Order(outgoing)
  <1> DEFINE added == AddRecord(outgoing, nextPacketId, 1, "PublishSend")
  <1>1. \/ outgoing' = outgoing
        \/ added.status # "Success" /\ outgoing' = added.records
    BY DEF PublishRefused
  <1>2. /\ 1 \in MQTTQoS /\ "PublishSend" \in MQTTPublishState
        /\ At(1, "PublishSend") \in OutgoingFlights
    BY DEF MQTTQoS, MQTTPublishState, OutgoingStates, OutgoingFlights
  <1>3. added.status # "Success" => Same(outgoing, added.records)
    BY <1>2, AddRecordEnters, SessionAssumption DEF Types, OutgoingTable
  <1> HIDE DEF added
  <1> QED
    BY <1>1, <1>3 DEF Same

LEMMA RefusedSequence ==
  ASSUME PublishesWhileResuming = FALSE, Types, Types', Sequence,
         PublishRefused
  PROVE  Sequence'
  <1> USE DEF contextVars, appVars, receivedVars, cursorVars, threadVars,
              netVars, brokerVars
  <1>1. /\ pc = "idle"
        /\ UNCHANGED <<pc, publishing, toBroker, arrivals, stored, messageOf,
                       link, connectStatus>>
    BY DEF PublishRefused, MayPublish
  <1>2. /\ Order(outgoing') = Order(outgoing)
        /\ \A x \in PacketIds : Flight(outgoing', x) = Outgoing(x)
    BY RefusedOrder, RefusedOutgoing DEF FlightsKept, Outgoing
  <1>3. TableOrder'
    BY <1>1, <1>2, TableStays DEF Sequence
  <1>4. Working'
    BY <1>1 DEF Sequence, Working, Delivered
  <1>5. SamePublishes(toBroker, toBroker')
    BY <1>1 DEF SamePublishes
  <1>6. \/ link' # "up" \/ connectStatus' # "Connected"
        \/ link = "up" /\ connectStatus = "Connected" /\ pc' = pc /\ pc = "idle"
    BY <1>1
  <1> QED
    BY <1>1, <1>3, <1>4, <1>5, <1>6, SequenceStays

LEMMA ReserveSequence ==
  ASSUME PublishesWhileResuming = FALSE, Types, Types', Outbound, Sequence,
         NEW q \in PublishQoS, Reserve(q)
  PROVE  Sequence'
  <1> USE DEF contextVars, appVars, receivedVars, cursorVars, threadVars,
              netVars, brokerVars
  <1>1. PICK n : n = nextPacketId
    OBVIOUS
  <1>2. /\ n \in PacketIds /\ q \in {1, 2}
        /\ OthersKept(n)
        /\ publishing' = Publish(n, q, published + 1)
        /\ messageOf' = [messageOf EXCEPT ![n] = published + 1]
    BY <1>1, ReservedOutgoing
  <1>3. /\ ~Holds(outgoing, n)
        /\ Order(outgoing') = Order(outgoing) \cup Last(outgoing, n)
    BY <1>1, ReservedOrder
  <1>4. /\ pc = "idle" /\ connectStatus = "Connected"
        /\ UNCHANGED <<pc, toBroker, arrivals, stored, link, connectStatus>>
    BY DEF Reserve, MayPublish
  <1>5. /\ published \in Nat
        /\ messageOf'[n] = published + 1
        /\ \A x \in PacketIds \ {n} : messageOf'[x] = messageOf[x]
        /\ \A x \in PacketIds : messageOf[x] \in 0..published
        /\ \A i \in DOMAIN arrivals : arrivals[i] \in 1..published
    BY <1>2 DEF Types, Outbound, Messages
  <1>6. TableOrder'
    <2>1. ASSUME NEW x \in PacketIds, NEW y \in PacketIds,
                 <<x, y>> \in Order(outgoing'),
                 Flight(outgoing', x) \in Republishable,
                 Flight(outgoing', y) \in Republishable
          PROVE  messageOf'[x] < messageOf'[y]
      <3>1. CASE <<x, y>> \in Order(outgoing)
        <4>1. x # n /\ y # n
          BY <1>3, <3>1 DEF Order, Holds
        <4>2. Outgoing(x) \in Republishable /\ Outgoing(y) \in Republishable
          BY <1>2, <2>1, <4>1 DEF OthersKept, Outgoing
        <4>3. messageOf[x] < messageOf[y]
          BY <3>1, <4>2 DEF Sequence, TableOrder
        <4> QED
          BY <1>5, <4>1, <4>3
      <3>2. CASE <<x, y>> \in Last(outgoing, n)
        <4>1. y = n /\ x # n
          BY <3>2 DEF Last
        <4> QED
          BY <1>5, <4>1
      <3> QED
        BY <1>3, <2>1, <3>1, <3>2
    <2> QED
      BY <2>1 DEF TableOrder, Outgoing
  <1>7. Working'
    <2>1. publishing'.message = published + 1
      BY <1>2, <1>5, MadePackets
    <2>2. ~ \E i \in DOMAIN arrivals : arrivals[i] = published + 1
      BY <1>5
    <2> QED
      BY <1>4, <2>1, <2>2 DEF Working, Delivered
  <1>8. SamePublishes(toBroker, toBroker')
    BY <1>4 DEF SamePublishes
  <1>9. \/ link' # "up"
        \/ link = "up" /\ connectStatus = "Connected" /\ pc' = pc /\ pc = "idle"
    BY <1>4
  <1> QED
    BY <1>4, <1>6, <1>7, <1>8, <1>9, SequenceStays

\* A PUBLISH joins the wire after everything that was published before it.
LEMMA AppendedOrder ==
  ASSUME Types, WireOrder, UNCHANGED arrivals,
         NEW p \in PublishPacket, toBroker' = Append(toBroker, p),
         \A c \in stored' :
           \/ c \in stored
           \/ \A j \in DOMAIN toBroker' :
                toBroker'[j].type = "Publish" =>
                  ~(c.message < toBroker'[j].message),
         \A c \in stored' :
           c.message < p.message => Delivered(c.message) \/ In(toBroker, c)
  PROVE  WireOrder' /\ \A s : In(toBroker, s) \/ s = p => In(toBroker', s)
  <1> DEFINE n == Len(toBroker) + 1
  <1>1. toBroker \in Seq(Packet) /\ p \in Packet
    BY PacketKinds DEF Types
  <1>2. /\ DOMAIN toBroker = 1..Len(toBroker) /\ Len(toBroker) \in Nat
        /\ DOMAIN toBroker' = 1..n
        /\ \A i \in DOMAIN toBroker : toBroker'[i] = toBroker[i]
        /\ toBroker'[n] = p
    BY <1>1
  <1>3. /\ \A i \in DOMAIN toBroker : i \in DOMAIN toBroker' /\ i < n
        /\ \A i \in DOMAIN toBroker' : i \in DOMAIN toBroker \/ i = n
        /\ n \in DOMAIN toBroker'
    BY <1>2
  <1> HIDE DEF n
  <1>4. ASSUME NEW j \in DOMAIN toBroker', NEW c \in stored',
               toBroker'[j].type = "Publish",
               c.message < toBroker'[j].message
        PROVE  Delivered(c.message) \/ Precedes(toBroker', j, c)
    <2>1. c \in stored
      BY <1>4
    <2>2. CASE j \in DOMAIN toBroker
      <3>1. Delivered(c.message) \/ Precedes(toBroker, j, c)
        BY <1>2, <1>4, <2>1, <2>2 DEF WireOrder
      <3> QED
        BY <1>2, <1>3, <3>1 DEF Precedes
    <2>3. CASE j = n
      <3>1. Delivered(c.message) \/ In(toBroker, c)
        BY <1>2, <1>4, <2>3
      <3> QED
        BY <1>2, <1>3, <2>3, <3>1 DEF Precedes, In
    <2> QED
      BY <1>3, <2>2, <2>3
  <1>5. WireOrder'
    BY <1>4 DEF WireOrder, Delivered, Precedes
  <1>6. \A s : In(toBroker, s) \/ s = p => In(toBroker', s)
    BY <1>2, <1>3 DEF In
  <1> QED
    BY <1>5, <1>6

\* The record of a publish that is sent keeps its place.
LEMMA PublishedOrder ==
  ASSUME Types, Records, PublishSent \/ PublishNotSent
  PROVE  /\ Order(outgoing') = Order(outgoing)
         /\ \A x \in PacketIds :
              Flight(outgoing', x) \in Republishable =>
                Outgoing(x) \in Republishable
  <1>1. CASE PublishSent
    <2>1. PICK p \in PublishPacket : p = publishing /\ publishing # Nothing
      BY <1>1 DEF PublishSent, Unlocked, Types
    <2>2. PICK id \in PacketIds, q \in {1, 2} : id = p.packetId /\ q = p.qos
      BY PacketKinds
    <2>3. /\ OthersKept(id)
          /\ Outgoing(id) = At(q, "PublishSend")
      BY <1>1, <2>1, <2>2, SentOutgoing DEF Records
    <2>4. PICK sending : sending = UpdateSentPublish(outgoing, id, q)
      OBVIOUS
    <2>5. outgoing' = sending.records
      BY <1>1, <2>1, <2>2, <2>4 DEF PublishSent
    <2>6. Order(sending.records) = Order(outgoing)
      <3>1. Good(outgoing, OutgoingPublishCount, OutgoingFlights)
        BY DEF Types, OutgoingTable
      <3>2. \/ Same(outgoing, sending.records)
            \/ \E f : Advances(outgoing, sending.records, id, f)
        BY <2>4, <3>1, SentPublishAdvances, SessionAssumption
      <3> QED
        BY <3>2 DEF Same, Advances
    <2>7. Outgoing(id) \in Republishable
      BY <2>3 DEF Republishable, Resendable
    <2> QED
      BY <2>3, <2>5, <2>6, <2>7 DEF OthersKept, Outgoing
  <1>2. CASE PublishNotSent
    BY <1>2 DEF PublishNotSent, Outgoing
  <1> QED
    BY <1>1, <1>2

LEMMA PublishedSequence ==
  ASSUME Types, Types', Links, Records, Outbound, Carriers, Sequence,
         PublishSent \/ PublishNotSent
  PROVE  Sequence'
  <1> USE DEF contextVars, appVars, receivedVars, cursorVars, threadVars,
              netVars, brokerVars
  <1>1. publishing # Nothing /\ publishing' = Nothing
    BY DEF PublishSent, PublishNotSent, Unlocked
  <1>2. PICK p \in PublishPacket : p = publishing
    BY <1>1 DEF Types
  <1>3. /\ stored' = CopiesBut(p.packetId) \cup {p}
        /\ UNCHANGED <<messageOf, arrivals, pc>>
        /\ pc = "idle"
        /\ Transfer(TRUE, p, toClient) \/ Transfer(FALSE, p, toClient)
    BY <1>1, <1>2, PublishingIdle DEF PublishSent, PublishNotSent
  <1>4. /\ ~Delivered(p.message) /\ connectStatus = "Connected"
        /\ p.message = published
    BY <1>1, <1>2 DEF Sequence, Working, Records, PublishingFits
  <1>5. \A c \in stored' : c \in stored \/ c = p
    BY <1>3 DEF CopiesBut
  <1>6. TableOrder'
    BY <1>3, PublishedOrder, TableStays DEF Sequence
  <1>7. Working'
    BY <1>1, <1>3 DEF Working
  <1>8. Fresh'
    <2>1. \A i \in DOMAIN arrivals : arrivals[i] < p.message
      <3>1. \A i \in DOMAIN arrivals : arrivals[i] \in 1..published
        BY DEF Outbound, Messages
      <3>2. published \in Nat
        BY DEF Types
      <3> QED
        BY <1>4, <3>1, <3>2 DEF Delivered
    <2> QED
      BY <1>3, <1>5, <2>1 DEF Sequence, Fresh, Delivered
  <1>9. FirstDeliveriesInOrder'
    BY <1>3 DEF Sequence, FirstDeliveriesInOrder
  <1>10. CASE link' = "up" /\ toBroker' = Append(toBroker, p)
    <2>1. link = "up"
      BY <1>3, <1>10 DEF Transfer
    <2>2. \A c \in stored : Delivered(c.message) \/ In(toBroker, c)
      BY <1>3, <1>4, <2>1 DEF Sequence, AllSent, ToResend
    <2>3. ASSUME NEW j \in DOMAIN toBroker', toBroker'[j].type = "Publish"
          PROVE  ~(p.message < toBroker'[j].message)
      <3>1. toBroker \in Seq(Packet) /\ p \in Packet /\ published \in Nat
        BY PacketKinds DEF Types
      <3>2. toBroker'[j] = p \/ \E i \in DOMAIN toBroker : toBroker'[j] = toBroker[i]
        BY <1>10, <3>1, WireSent
      <3>3. toBroker'[j] = p \/ toBroker'[j].message \in 1..published
        BY <2>3, <3>2 DEF Outbound, Messages, OneRecord
      <3> QED
        BY <1>4, <3>1, <3>3
    <2>4. ASSUME NEW c \in stored', c.message < p.message
          PROVE  Delivered(c.message) \/ In(toBroker, c)
      <3>1. c # p
        <4>1. p.message \in Nat
          BY PacketKinds
        <4> QED
          BY <2>4, <4>1
      <3> QED
        BY <1>5, <2>2, <3>1
    <2>5. WireOrder' /\ \A s : In(toBroker, s) \/ s = p => In(toBroker', s)
      BY <1>3, <1>5, <1>10, <2>3, <2>4, AppendedOrder DEF Sequence
    <2>6. AllSent'
      BY <1>3, <1>5, <2>2, <2>5 DEF AllSent, Delivered
    <2> QED
      BY <1>6, <1>7, <1>8, <1>9, <2>5, <2>6 DEF Sequence
  <1>11. CASE link' = "broken" /\ toBroker' = <<>>
    <2>1. WireOrder' /\ AllSent'
      BY <1>11 DEF WireOrder, AllSent
    <2> QED
      BY <1>6, <1>7, <1>8, <1>9, <2>1 DEF Sequence
  <1> QED
    BY <1>3, <1>10, <1>11, TransferLinks

-----------------------------------------------------------------------------
(* MQTT_ProcessLoop reads what the broker answers.                         *)

\* What may be sent again in s may be in r, and in the same order.
KeepsOrder(r, s) ==
  /\ \A x \in PacketIds :
       Flight(s, x) \in Republishable => Flight(r, x) \in Republishable
  /\ \A x, y \in PacketIds :
       <<x, y>> \in Order(s) =>
         <<x, y>> \in Order(r) \/ Flight(s, y) \notin Republishable

LEMMA KeepsOrderTwice ==
  ASSUME NEW r, NEW s, NEW t, KeepsOrder(r, s), KeepsOrder(s, t)
  PROVE  KeepsOrder(r, t)
  BY DEF KeepsOrder

LEMMA AnswerOrder ==
  ASSUME NEW r, OutgoingTable(r), NEW id \in PacketIds,
         NEW type \in MQTTPubAckType, NEW op,
         <<type, op>> \in {<<"Puback", "RECEIVE">>, <<"Pubrec", "RECEIVE">>,
                           <<"Pubrel", "SEND">>, <<"Pubcomp", "RECEIVE">>}
  PROVE  LET ack == UpdateStateAck(r, id, type, op)
         IN  OutgoingTable(ack.records) /\ KeepsOrder(r, ack.records)
  <1> DEFINE ack == UpdateStateAck(r, id, type, op)
  <1>1. /\ Good(r, OutgoingPublishCount, OutgoingFlights)
        /\ OutgoingPublishCount \in Nat
        /\ op \in {"SEND", "RECEIVE"}
    BY SessionAssumption DEF OutgoingTable
  <1>2. /\ Good(ack.records, OutgoingPublishCount, OutgoingFlights)
        /\ \A p \in Order(ack.records) : p \in Order(r) \/ p[2] = id
    BY <1>1, AckOrder
  <1>3. \/ Refused(r, id, ack)
        \/ \E after \in {NoFlight} \cup Releasing : Accepted(r, id, ack, after)
    <2>1. CASE type = "Puback"
      BY <1>1, <2>1, OutgoingAck DEF NoFlight
    <2>2. CASE type = "Pubrec"
      BY <1>1, <2>2, OutgoingAck DEF Releasing
    <2>3. CASE type = "Pubrel"
      BY <1>1, <2>3, OutgoingAck DEF Releasing
    <2>4. CASE type = "Pubcomp"
      BY <1>1, <2>4, OutgoingAck DEF NoFlight
    <2> QED
      BY <2>1, <2>2, <2>3, <2>4
  <1> HIDE DEF ack
  <1>4. CASE Refused(r, id, ack)
    BY <1>4 DEF Refused, KeepsOrder, OutgoingTable, ack
  <1>5. CASE \E after \in {NoFlight} \cup Releasing : Accepted(r, id, ack, after)
    <2>1. Flight(ack.records, id) \in {NoFlight} \cup Releasing
      BY <1>5 DEF Accepted
    <2>2. Flight(ack.records, id) \notin Republishable
      BY <2>1, FlightsDiffer DEF Republishable
    <2>3. \A x \in PacketIds \ {id} : Flight(ack.records, x) = Flight(r, x)
      BY <1>5 DEF Accepted
    <2>4. \A x, y \in PacketIds :
            <<x, y>> \in Order(ack.records) => <<x, y>> \in Order(r) \/ y = id
      BY <1>2
    <2> QED
      BY <1>2, <2>2, <2>3, <2>4 DEF KeepsOrder, OutgoingTable, ack
  <1> QED
    BY <1>3, <1>4, <1>5

LEMMA TableKept ==
  ASSUME TableOrder, UNCHANGED messageOf, KeepsOrder(outgoing, outgoing')
  PROVE  TableOrder'
  BY TableStays DEF KeepsOrder, Outgoing

LEMMA AckSequence ==
  ASSUME Types, Types', Sequence, HandlePubackOrPubcomp
  PROVE  Sequence'
  <1> USE DEF contextVars, appVars, receivedVars, cursorVars, threadVars,
              netVars, brokerVars
  <1>1. PICK id \in PacketIds, type \in {"Puback", "Pubcomp"} :
          id = Head(toClient).packetId /\ type = Head(toClient).type
    BY AckedOutgoing
  <1>2. /\ pc = "idle" /\ publishing = Nothing /\ link = "up"
        /\ connectStatus = "Connected"
        /\ UNCHANGED <<pc, publishing, toBroker, messageOf, arrivals, link,
                       connectStatus>>
    BY <1>1, ArrivedPacket DEF HandlePubackOrPubcomp, Arrived
  <1>3. outgoing' = UpdateStateAck(outgoing, id, type, "RECEIVE").records
    BY <1>1 DEF HandlePubackOrPubcomp
  <1>4. KeepsOrder(outgoing, outgoing')
    <2>1. OutgoingTable(outgoing)
      BY DEF Types
    <2>2. type \in MQTTPubAckType
      BY DEF MQTTPubAckType
    <2>3. <<type, "RECEIVE">> \in {<<"Puback", "RECEIVE">>, <<"Pubrec", "RECEIVE">>,
                                  <<"Pubrel", "SEND">>, <<"Pubcomp", "RECEIVE">>}
      OBVIOUS
    <2> QED
      BY <1>3, <2>1, <2>2, <2>3, AnswerOrder
  <1>5. TableOrder' /\ Working'
    BY <1>2, <1>4, TableKept DEF Sequence, Working
  <1>6. SamePublishes(toBroker, toBroker') /\ stored' \subseteq stored
    BY <1>2 DEF HandlePubackOrPubcomp, SamePublishes, CopiesBut
  <1> QED
    BY <1>2, <1>5, <1>6, SequenceStays

LEMMA PubrecSequence ==
  ASSUME Types, Types', Links, Sequence, NEW ok \in BOOLEAN, HandlePubrec(ok)
  PROVE  Sequence'
  <1> USE DEF contextVars, appVars, receivedVars, cursorVars, threadVars,
              netVars, brokerVars
  <1>1. PICK id \in PacketIds : id = Head(toClient).packetId
    BY PubrecOutgoing
  <1>2. /\ pc = "idle" /\ publishing = Nothing /\ link = "up"
        /\ connectStatus = "Connected"
        /\ UNCHANGED <<pc, publishing, messageOf, arrivals>>
    BY ArrivedPacket DEF HandlePubrec, Arrived
  <1>3. /\ stored' \in {stored, CopiesBut(id)}
        /\ \/ UNCHANGED <<link, toBroker>>
           \/ Transfer(ok, Ack("Pubrel", id), Tail(toClient))
    BY <1>1 DEF HandlePubrec
  <1>4. KeepsOrder(outgoing, outgoing')
    <2> DEFINE updated  == UpdateStateAck(outgoing, id, "Pubrec", "RECEIVE")
               finished == UpdateStateAck(updated.records, id, "Pubrel", "SEND")
    <2>1. outgoing' \in {updated.records, finished.records}
      BY <1>1 DEF HandlePubrec
    <2>2. OutgoingTable(updated.records) /\ KeepsOrder(outgoing, updated.records)
      BY AnswerOrder DEF Types, MQTTPubAckType
    <2> HIDE DEF updated
    <2>3. KeepsOrder(updated.records, finished.records)
      BY <2>2, AnswerOrder DEF MQTTPubAckType
    <2> HIDE DEF finished
    <2> QED
      BY <2>1, <2>2, <2>3, KeepsOrderTwice
  <1>5. TableOrder' /\ Working'
    BY <1>2, <1>4, TableKept DEF Sequence, Working
  <1>6. stored' \subseteq stored
    BY <1>3 DEF CopiesBut
  <1>7. \/ link' # "up" /\ toBroker' = <<>>
        \/ SamePublishes(toBroker, toBroker')
    <2>1. PICK p : p = Ack("Pubrel", id)
      OBVIOUS
    <2>2. p \in Packet /\ p.type # "Publish"
      BY <2>1, MadePackets DEF MQTTPubAckType
    <2> QED
      BY <1>3, <2>1, <2>2, TransferLinks DEF SamePublishes
  <1> QED
    BY <1>2, <1>5, <1>6, <1>7, SequenceStays

-----------------------------------------------------------------------------
(* MQTT_Connect selects and resends.                                       *)

\* What a copy is follows from its identifier.
LEMMA SameCopy ==
  ASSUME Types, CopiesFit, NEW c \in stored, NEW d \in stored,
         c.packetId = d.packetId
  PROVE  c = d
  <1>1. c \in PublishPacket /\ d \in PublishPacket
    BY DEF Types
  <1>2. c.qos \in {1, 2} /\ d.qos \in {1, 2}
    BY <1>1, PacketKinds
  <1>3. /\ Outgoing(c.packetId) \in Resendable(c.qos)
        /\ Outgoing(c.packetId) \in Resendable(d.qos)
        /\ c.message = d.message
    BY DEF CopiesFit
  <1>4. c.qos = d.qos
    BY <1>2, <1>3, FlightsDiffer
  <1> QED
    BY <1>1, <1>3, <1>4 DEF PublishPacket

\* MQTT_Connect passes over no copy.
LEMMA SelectPublishPasses ==
  ASSUME Types, Links, Records, SelectPublish,
         NEW c \in stored, Ahead(outgoing, cursor, c.packetId)
  PROVE  c = selected' \/ Ahead(outgoing, cursor', c.packetId)
  <1>1. PICK i \in 1..OutgoingPublishCount :
          /\ outgoing[i].packetId = c.packetId
          /\ outgoing[i].publishState \in PublishToResendStates
          /\ \A passed \in Nat :
               Ahead(outgoing, passed, c.packetId) <=> i > passed
    BY CopyPlace DEF Records
  <1>2. OutgoingPublishCount \in Nat /\ cursor \in Nat
    BY SessionAssumption DEF Types
  <1>3. PICK s : s = StateSelect(outgoing, PublishToResendStates, cursor)
    OBVIOUS
  <1>4. /\ s.packetId # MQTT_PACKET_ID_INVALID
        /\ cursor' = s.cursor
        /\ selected' \in stored /\ selected'.packetId = s.packetId
    BY <1>3 DEF SelectPublish, Selecting, Selection, Copies
  <1>5. /\ s.cursor \in 1..OutgoingPublishCount
        /\ outgoing[s.cursor].packetId = s.packetId
    BY <1>2, <1>3, <1>4, SelectsRecord DEF Types, OutgoingTable
  <1>6. s.cursor <= i
    <2>1. "StateNull" \notin PublishToResendStates
      BY DEF PublishToResendStates
    <2>2. i > cursor
      BY <1>1, <1>2
    <2> QED
      BY <1>1, <1>2, <1>3, <2>1, <2>2, SelectsLeast DEF Types, OutgoingTable
  <1>7. CASE s.cursor = i
    BY <1>1, <1>4, <1>5, <1>7, SameCopy DEF Records
  <1>8. CASE s.cursor < i
    <2>1. s.cursor \in Nat /\ i > s.cursor
      BY <1>2, <1>5, <1>8
    <2> QED
      BY <1>1, <1>4, <2>1
  <1> QED
    BY <1>2, <1>5, <1>6, <1>7, <1>8

LEMMA SelectSequence ==
  ASSUME Types, Types', Links, Links', Records, Records', Sequence,
         SelectPubrel \/ SelectPublish
  PROVE  Sequence'
  <1>1. /\ UNCHANGED <<outgoing, messageOf, stored, arrivals, publishing,
                       toBroker, link, connectStatus, pc>>
        /\ selected = Nothing
    BY SelectionEffect
  <1>2. TableOrder' /\ Working'
    BY <1>1 DEF Sequence, TableOrder, Outgoing, Working, Delivered
  <1>3. SamePublishes(toBroker, toBroker')
    BY <1>1 DEF SamePublishes
  <1>4. CASE SelectPubrel
    <2>1. pc' = "pubrels"
      BY <1>1, <1>4 DEF SelectPubrel, Selecting
    <2> QED
      BY <1>1, <1>2, <1>3, <2>1, SequenceStays
  <1>5. CASE SelectPublish
    <2>1. pc = "publishes"
      BY <1>5 DEF SelectPublish, Selecting
    <2>2. ASSUME NEW c \in stored, link = "up", connectStatus = "Connected"
          PROVE  Delivered(c.message) \/ In(toBroker, c) \/ ToResend(c)'
      <3>1. Delivered(c.message) \/ In(toBroker, c) \/ ToResend(c)
        BY <2>1, <2>2 DEF Sequence, AllSent
      <3>2. c # selected
        BY <1>1, PacketKinds DEF Types
      <3>3. ToResend(c) => ToResend(c)'
        BY <1>1, <1>5, <2>1, <3>2, SelectPublishPasses DEF ToResend
      <3> QED
        BY <3>1, <3>3
    <2>3. AllSent'
      BY <1>1, <2>2 DEF AllSent, Delivered
    <2> QED
      BY <1>1, <1>2, <1>3, <2>3, SequenceStays
  <1> QED
    BY <1>4, <1>5

\* No copy outlives its session.
LEMMA NewSessionSequence ==
  ASSUME Types, Types', Links, Records, Sequence, ConnectNewSession
  PROVE  Sequence'
  <1> USE DEF contextVars, appVars, receivedVars, cursorVars, threadVars,
              netVars, brokerVars
  <1>1. /\ UNCHANGED <<pc, publishing, toBroker, messageOf, arrivals>>
        /\ pc = "idle" /\ publishing = Nothing
        /\ outgoing' = EmptyTable(OutgoingPublishCount)
    BY DEF ConnectNewSession, Idle, Unlocked
  <1>2. stored' = {}
    <2>1. stored' = Cleared
      BY DEF ConnectNewSession
    <2> QED
      BY <2>1, CopyHasRecord DEF Cleared, Records
  <1>3. TableOrder'
    BY <1>1, EmptyTableView, SessionAssumption DEF TableOrder
  <1>4. Working' /\ AllSent'
    BY <1>1, <1>2 DEF Working, AllSent
  <1> QED
    BY <1>1, <1>2, <1>3, <1>4, SequenceStays DEF SamePublishes

LEMMA ResendPubrelSequence ==
  ASSUME Types, Types', Links, Sequence, NEW ok \in BOOLEAN, ResendPubrel(ok)
  PROVE  Sequence'
  <1> USE DEF contextVars, appVars, receivedVars, cursorVars, threadVars,
              netVars, brokerVars
  <1>1. /\ selected \in PubrelPacket
        /\ UNCHANGED <<messageOf, stored, arrivals, publishing>>
        /\ publishing = Nothing
        /\ pc' \in {"pubrels", "failing"}
        /\ pc' = "pubrels" => connectStatus = "Connected" /\ ok
        /\ IF connectStatus = "Connected"
             THEN /\ Transfer(ok, selected, toClient)
                  /\ connectStatus' \in StatusAfterSend(ok)
             ELSE UNCHANGED netVars
    BY DEF ResendPubrel, Unlocked, Links
  <1>2. PICK id \in PacketIds : id = selected.packetId
    BY <1>1, PacketKinds
  <1>3. KeepsOrder(outgoing, outgoing')
    <2>1. outgoing' \in {outgoing,
                         UpdateStateAck(outgoing, id, "Pubrel", "SEND").records}
      BY <1>2 DEF ResendPubrel
    <2>2. OutgoingTable(outgoing) /\ "Pubrel" \in MQTTPubAckType
      BY DEF Types, MQTTPubAckType
    <2>3. KeepsOrder(outgoing,
                     UpdateStateAck(outgoing, id, "Pubrel", "SEND").records)
      BY <2>2, AnswerOrder
    <2> QED
      BY <2>1, <2>3 DEF KeepsOrder
  <1>4. TableOrder'
    BY <1>1, <1>3, TableKept DEF Sequence
  <1>5. Working'
    BY <1>1 DEF Working, StatusAfterSend
  <1>6. \/ link' # "up" /\ toBroker' = <<>>
        \/ SamePublishes(toBroker, toBroker')
    <2>1. selected \in Packet /\ selected.type # "Publish"
      BY <1>1, PacketKinds
    <2> QED
      BY <1>1, <2>1, TransferLinks DEF SamePublishes
  <1> QED
    BY <1>1, <1>4, <1>5, <1>6, SequenceStays

LEMMA ResendPublishSequence ==
  ASSUME Types, Types', Links, Records, Carriers, Deliveries, Sequence,
         NEW ok \in BOOLEAN, ResendPublish(ok)
  PROVE  Sequence'
  <1> USE DEF contextVars, appVars, receivedVars, cursorVars, threadVars,
              netVars, brokerVars
  <1>1. /\ UNCHANGED <<outgoing, messageOf, stored, arrivals, publishing,
                       cursor>>
        /\ publishing = Nothing /\ pc = "publishes"
        /\ selected # Nothing /\ selected' = Nothing
        /\ Transfer(ok, selected, toClient)
        /\ connectStatus' \in StatusAfterSend(ok)
        /\ pc' = IF ok THEN pc ELSE "failing"
    BY DEF ResendPublish, Unlocked
  <1>2. connectStatus = "Connected"
    BY <1>1 DEF Sequence, Working
  <1>3. PICK p \in PublishPacket : p = selected
    BY <1>1 DEF Links
  <1>4. PICK id \in PacketIds : id = p.packetId
    BY PacketKinds
  <1>5. TableOrder'
    BY <1>1 DEF Sequence, TableOrder, Outgoing
  <1>6. Working'
    BY <1>1, <1>2 DEF Working, StatusAfterSend
  <1>7. CASE link' = "broken" /\ toBroker' = <<>>
    BY <1>1, <1>5, <1>6, <1>7, SequenceStays
  <1>8. CASE link' = "up" /\ toBroker' = Append(toBroker, p)
    <2>1. link = "up" /\ pc' = "publishes"
      BY <1>1, <1>8 DEF Transfer
    <2>2. \A c \in stored :
            Delivered(c.message) \/ In(toBroker, c) \/ ToResend(c)
      BY <1>1, <1>2, <2>1 DEF Sequence, AllSent
    <2>3. /\ p \in stored /\ p.message \in Nat
          /\ ~Ahead(outgoing, cursor, id)
      BY <1>1, <1>3, <1>4, PacketKinds DEF Deliveries, Carriers
    <2>4. ASSUME NEW c \in stored, Ahead(outgoing, cursor, c.packetId)
          PROVE  ~(c.message < p.message)
      <3>1. PICK x \in PacketIds : x = c.packetId
        BY PacketKinds DEF Types
      <3>2. /\ Outgoing(x) \in Republishable /\ messageOf[x] = c.message
            /\ Outgoing(id) \in Republishable /\ messageOf[id] = p.message
            /\ Outgoing(id) # NoFlight
        <4>1. /\ c.qos \in {1, 2} /\ p.qos \in {1, 2}
              /\ Outgoing(x) \in Resendable(c.qos)
              /\ Outgoing(id) \in Resendable(p.qos)
              /\ messageOf[x] = c.message /\ messageOf[id] = p.message
          BY <1>4, <2>3, <3>1, PacketKinds DEF Types, Records, CopiesFit
        <4> QED
          BY <4>1, FlightsDiffer DEF Republishable
      <3>3. <<id, x>> \in Order(outgoing)
        <4>1. Holds(outgoing, id)
          BY <3>2, FlightAbsent DEF Outgoing, NoFlight
        <4>2. DOMAIN outgoing \subseteq Nat /\ cursor \in Nat
          BY SessionAssumption DEF Types, OutgoingTable, Good
        <4> QED
          BY <2>3, <2>4, <3>1, <4>1, <4>2, OrderOfPlaces
      <3>4. p.message < c.message
        BY <3>2, <3>3 DEF Sequence, TableOrder
      <3>5. c.message \in Nat
        BY PacketKinds DEF Types
      <3> QED
        BY <2>3, <3>4, <3>5
    <2>5. ASSUME NEW c \in stored, c.message < p.message
          PROVE  Delivered(c.message) \/ In(toBroker, c)
      <3>1. c # p
        BY <2>3, <2>5
      <3> QED
        BY <1>3, <2>2, <2>4, <2>5, <3>1 DEF ToResend
    <2>6. WireOrder' /\ \A s : In(toBroker, s) \/ s = p => In(toBroker', s)
      BY <1>1, <1>8, <2>5, AppendedOrder DEF Sequence
    <2>7. AllSent'
      <3>1. ASSUME NEW c \in stored
            PROVE  Delivered(c.message) \/ In(toBroker', c) \/ ToResend(c)'
        <4>1. ToResend(c) /\ c # p => ToResend(c)'
          BY <1>1, <1>3, <2>1 DEF ToResend
        <4> QED
          BY <2>2, <2>6, <4>1
      <3> QED
        BY <1>1, <3>1 DEF AllSent, Delivered
    <2>8. Fresh' /\ FirstDeliveriesInOrder'
      BY <1>1 DEF Sequence, Fresh, Delivered, FirstDeliveriesInOrder
    <2> QED
      BY <1>5, <1>6, <2>6, <2>7, <2>8 DEF Sequence
  <1> QED
    BY <1>1, <1>3, <1>7, <1>8, TransferLinks

-----------------------------------------------------------------------------
(* The broker takes a publish or its release.                              *)

\* What the broker reads is what has been published first.
LEMMA TakesFirst ==
  ASSUME Types, WireOrder, toBroker # <<>>,
         Head(toBroker).type = "Publish", NEW c \in stored,
         c.message < Head(toBroker).message
  PROVE  Delivered(c.message)
  <1>1. 1 \in DOMAIN toBroker /\ toBroker[1] = Head(toBroker)
    BY WireRead DEF Types
  <1>2. ~Precedes(toBroker, 1, c)
    <2>1. \A i \in DOMAIN toBroker : ~(i < 1)
      BY DEF Types
    <2> QED
      BY <2>1 DEF Precedes
  <1> QED
    BY <1>1, <1>2 DEF WireOrder

\* The message that is being published is not on its way yet.
LEMMA PublishingUnsent ==
  ASSUME Types, Records, Outbound, Carriers, publishing # Nothing,
         NEW p \in PublishPacket, In(toBroker, p)
  PROVE  p.message # publishing.message
  <1> SUFFICES ASSUME p.message = publishing.message PROVE FALSE
    OBVIOUS
  <1>1. PICK id \in PacketIds, q \in {1, 2} :
          id = publishing.packetId /\ q = publishing.qos
    BY PacketKinds DEF Types
  <1>2. Outgoing(id) # NoFlight /\ messageOf[id] = p.message
    BY <1>1, FlightsDiffer DEF Records, PublishingFits
  <1>3. OneRecord(p)
    BY PacketKinds DEF In, Outbound, Messages
  <1>4. p.packetId = id
    BY <1>2, <1>3 DEF OneRecord
  <1>5. None(toBroker, Sends, id)
    BY <1>1 DEF Carriers, ToSend, NoCarrier
  <1> QED
    BY <1>4, <1>5, PacketKinds DEF In, None, Sends

LEMMA TakesPublishSequence ==
  ASSUME Types, Records, Outbound, Carriers, Deliveries, Sequence,
         BrokerTakesPublish
  PROVE  Sequence'
  <1>1. PICK p \in PublishPacket : p = Head(toBroker)
    BY BrokerReadsPacket, PacketKinds DEF BrokerTakesPublish
  <1>2. /\ UNCHANGED <<outgoing, messageOf, stored, publishing, selected, pc,
                       cursor, link, connectStatus>>
        /\ toBroker # <<>> /\ toBroker' = Tail(toBroker)
        /\ toBroker \in Seq(Packet)
    BY TakenEffect DEF Types
  <1>3. /\ p \in stored
        /\ \/ arrivals' = arrivals
           \/ ~Delivered(p.message) /\ arrivals' = Append(arrivals, p.message)
        /\ \A m : Delivered(m)' <=> Delivered(m) \/ m = p.message
    BY <1>1, TakenIsDelivered
  <1>4. /\ p.type = "Publish" /\ p.message \in Nat
        /\ \A c \in stored : c.message \in Nat
        /\ arrivals \in Seq(Nat)
    BY PacketKinds DEF Types
  <1>5. TableOrder'
    BY <1>2 DEF Sequence, TableOrder, Outgoing
  <1>6. Working'
    <2>1. In(toBroker, p)
      BY <1>1, <1>2, WireRead
    <2>2. publishing # Nothing => p.message # publishing.message
      BY <2>1, PublishingUnsent
    <2> QED
      BY <1>2, <1>3, <2>2 DEF Sequence, Working
  <1>7. Fresh' /\ FirstDeliveriesInOrder'
    <2>1. CASE arrivals' = arrivals
      BY <1>2, <2>1 DEF Sequence, Fresh, FirstDeliveriesInOrder, Delivered
    <2>2. CASE ~Delivered(p.message) /\ arrivals' = Append(arrivals, p.message)
      <3> DEFINE n == Len(arrivals) + 1
      <3>1. /\ DOMAIN arrivals = 1..Len(arrivals) /\ Len(arrivals) \in Nat
            /\ DOMAIN arrivals' = 1..n
            /\ \A i \in DOMAIN arrivals : arrivals'[i] = arrivals[i]
            /\ arrivals'[n] = p.message
        BY <1>4, <2>2
      <3>2. /\ \A i \in DOMAIN arrivals' : i \in DOMAIN arrivals \/ i = n
            /\ \A i, j \in DOMAIN arrivals' : i < j => i \in DOMAIN arrivals
        BY <3>1
      <3> HIDE DEF n
      <3>3. \A i \in DOMAIN arrivals : arrivals[i] < p.message
        BY <1>3, <2>2 DEF Sequence, Fresh
      <3>4. FirstDeliveriesInOrder'
        <4>1. ASSUME NEW i \in DOMAIN arrivals', NEW j \in DOMAIN arrivals',
                     i < j
              PROVE  arrivals'[i] < arrivals'[j]
          BY <3>1, <3>2, <3>3, <4>1 DEF Sequence, FirstDeliveriesInOrder
        <4> QED
          BY <4>1 DEF FirstDeliveriesInOrder
      <3>5. ASSUME NEW c \in stored, ~Delivered(c.message)', NEW i \in DOMAIN arrivals'
            PROVE  arrivals'[i] < c.message
        <4>1. ~Delivered(c.message) /\ c.message # p.message
          BY <1>3, <3>5
        <4>2. ~(c.message < p.message)
          BY <1>1, <1>2, <1>4, <4>1, TakesFirst DEF Sequence
        <4>3. p.message < c.message
          BY <1>4, <4>1, <4>2
        <4> QED
          BY <3>1, <3>2, <4>1, <4>3 DEF Sequence, Fresh
      <3>6. Fresh'
        BY <1>2, <3>5 DEF Fresh, Delivered
      <3> QED
        BY <3>4, <3>6
    <2> QED
      BY <1>3, <2>1, <2>2
  <1>8. \A j \in DOMAIN toBroker' :
          /\ j \in Nat \ {0}
          /\ j + 1 \in DOMAIN toBroker /\ toBroker'[j] = toBroker[j + 1]
    BY <1>2, WireRead
  <1>9. ASSUME NEW i \in DOMAIN toBroker, toBroker[i] # p
        PROVE  i - 1 \in DOMAIN toBroker' /\ toBroker'[i - 1] = toBroker[i]
    <2>1. toBroker[1] = p
      BY <1>1, <1>2, WireRead
    <2> QED
      BY <1>2, <1>9, <2>1
  <1>10. WireOrder'
    <2>1. ASSUME NEW j \in DOMAIN toBroker', NEW c \in stored,
                 toBroker'[j].type = "Publish",
                 c.message < toBroker'[j].message
          PROVE  Delivered(c.message)' \/ Precedes(toBroker', j, c)
      <3>1. Delivered(c.message) \/ Precedes(toBroker, j + 1, c)
        BY <1>8, <2>1 DEF Sequence, WireOrder
      <3>2. CASE Delivered(c.message) \/ c = p
        BY <1>3, <3>2
      <3>3. CASE Precedes(toBroker, j + 1, c) /\ c # p
        <4>1. PICK i \in DOMAIN toBroker : i < j + 1 /\ toBroker[i] = c
          BY <3>3 DEF Precedes
        <4>2. i - 1 \in DOMAIN toBroker' /\ toBroker'[i - 1] = c
          BY <1>9, <3>3, <4>1
        <4>3. i - 1 < j
          BY <1>2, <1>8, <4>1
        <4> QED
          BY <4>2, <4>3 DEF Precedes
      <3> QED
        BY <3>1, <3>2, <3>3
    <2> QED
      BY <1>2, <2>1 DEF WireOrder, Delivered, Precedes
  <1>11. AllSent'
    <2>1. ASSUME NEW c \in stored, link = "up", connectStatus = "Connected",
                 pc \in {"idle", "publishes"}
          PROVE  Delivered(c.message)' \/ In(toBroker', c) \/ ToResend(c)
      <3>1. Delivered(c.message) \/ In(toBroker, c) \/ ToResend(c)
        BY <2>1 DEF Sequence, AllSent
      <3>2. In(toBroker, c) => c = p \/ In(toBroker', c)
        BY <1>9 DEF In
      <3> QED
        BY <1>3, <3>1, <3>2
    <2> QED
      BY <1>2, <2>1 DEF AllSent, ToResend, Delivered, In
  <1> QED
    BY <1>5, <1>6, <1>7, <1>10, <1>11 DEF Sequence

LEMMA TakesPubrelSequence ==
  ASSUME Types, Types', Sequence, BrokerTakesPubrel
  PROVE  Sequence'
  <1> USE DEF contextVars, appVars, receivedVars, cursorVars, threadVars,
              netVars, brokerVars
  <1>1. /\ UNCHANGED <<outgoing, messageOf, stored, arrivals, publishing,
                       selected, pc, cursor, link, connectStatus>>
        /\ SamePublishes(toBroker, toBroker')
    BY DEF BrokerTakesPubrel, BrokerReads, SamePublishes
  <1>2. TableOrder' /\ Working'
    BY <1>1 DEF Sequence, TableOrder, Outgoing, Working, Delivered
  <1> QED
    BY <1>1, <1>2, SequenceStays

-----------------------------------------------------------------------------
LEMMA NextSequence ==
  ASSUME PublishesWhileResuming = FALSE,
         Base, Base', Outbound, Carriers, Deliveries, Sequence, [Next]_vars
  PROVE  Sequence'
  <1> USE DEF Base
  <1>1. CASE QuietAction
    BY <1>1, QuietSequence, SelectionEndsSequence
  <1>2. CASE PublishRefused \/ \E q \in PublishQoS : Reserve(q)
    BY <1>2, RefusedSequence, ReserveSequence
  <1>3. CASE PublishSent \/ PublishNotSent
    BY <1>3, PublishedSequence
  <1>4. CASE HandlePubackOrPubcomp
    BY <1>4, AckSequence
  <1>5. CASE \E ok \in BOOLEAN : HandlePubrec(ok)
    BY <1>5, PubrecSequence
  <1>6. CASE SelectPubrel \/ SelectPublish
    BY <1>6, SelectSequence
  <1>7. CASE ConnectNewSession
    BY <1>7, NewSessionSequence
  <1>8. CASE \E ok \in BOOLEAN : ResendPubrel(ok) \/ ResendPublish(ok)
    BY <1>8, ResendPubrelSequence, ResendPublishSequence
  <1>9. CASE BrokerTakesPublish \/ BrokerTakesPubrel
    BY <1>9, TakesPublishSequence, TakesPubrelSequence
  <1> QED
    BY <1>1, <1>2, <1>3, <1>4, <1>5, <1>6, <1>7, <1>8, <1>9, StepKinds

LEMMA SequenceInvariant ==
  ASSUME PublishesWhileResuming = FALSE
  PROVE  Spec => []Sequence
  <1>1. /\ Base /\ Base' /\ Outbound /\ Carriers /\ Deliveries /\ Sequence
        /\ [Next]_vars
        => Sequence'
    BY NextSequence
  <1>2. Init => Sequence
    BY InitSequence
  <1> QED
    BY <1>1, <1>2, DeliveriesInvariant, PTL DEF Spec

\* The broker sees the messages for the first time in the order in which they
\* were published, when no thread publishes during a resumption: compaction
\* moves the records but keeps their order, and what a broken connection lost is
\* sent again, in the order of the records, before anything new is published
\* (compactRecords, MQTT_PublishToResend, handleUncleanSessionResumption).
THEOREM DeliveredInOrder ==
  ASSUME PublishesWhileResuming = FALSE
  PROVE  Spec => []FirstDeliveriesInOrder
  <1>1. Sequence => FirstDeliveriesInOrder
    BY DEF Sequence
  <1> QED
    BY <1>1, SequenceInvariant, PTL
=============================================================================
