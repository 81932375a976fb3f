------------------------- MODULE MqttSession_proofs -------------------------
(***************************************************************************)
(* Proofs about MqttSession, for every number of packet identifiers, of    *)
(* record slots and of messages, and whatever fails.                       *)
(*                                                                         *)
(* The inductive invariant has four layers.  Links says what is left of a  *)
(* connection that is down or broken, and what MQTT_Connect works on.      *)
(* Copies says which records the copies of publishes belong to.  Inbound   *)
(* says what the broker still has to hear about a message, and what record *)
(* the client has of it.  Outbound says the same of the messages of the    *)
(* client, as far as QoS 2 needs it.                                       *)
(***************************************************************************)
EXTENDS MqttSession, PublishRecords_proofs, SequenceTheorems

-----------------------------------------------------------------------------
(* Packets on a connection.                                                *)

PublishPacket ==
  [type : {"Publish"}, packetId : PacketIds, qos : {1, 2}, message : Nat]

PubrelPacket == [type : {"Pubrel"}, packetId : PacketIds]

Packet == PublishPacket \cup [type : MQTTPubAckType, packetId : PacketIds]

In(wire, packet) == \E i \in DOMAIN wire : wire[i] = packet

\* No packet of these types is about id.
None(wire, types, id) ==
  \A i \in DOMAIN wire : ~(wire[i].type \in types /\ wire[i].packetId = id)

Single(wire, types) ==
  \A i, j \in DOMAIN wire :
    /\ wire[i].type \in types
    /\ wire[j].type \in types
    /\ wire[i].packetId = wire[j].packetId
    => i = j

\* One packet at most of the types s in a, t in b is about an identifier.
OneCarrier(a, s, b, t) ==
  /\ Single(a, s)
  /\ Single(b, t)
  /\ \A i \in DOMAIN a, j \in DOMAIN b :
       a[i].type \in s /\ b[j].type \in t => a[i].packetId # b[j].packetId

LEMMA WireRead ==
  ASSUME NEW w \in Seq(Packet), w # <<>>
  PROVE  /\ Head(w) \in Packet
         /\ Tail(w) \in Seq(Packet)
         /\ 1 \in DOMAIN w /\ w[1] = Head(w)
         /\ \A i \in DOMAIN Tail(w) :
              /\ i \in Nat \ {0}
              /\ i + 1 \in DOMAIN w /\ Tail(w)[i] = w[i + 1]
         /\ In(w, Head(w))
         /\ \A packet : In(Tail(w), packet) => In(w, packet)
         /\ \A types, id : None(w, types, id) => None(Tail(w), types, id)
  <1>1. Head(w) \in Packet /\ Tail(w) \in Seq(Packet)
    OBVIOUS
  <1>2. 1 \in DOMAIN w /\ w[1] = Head(w)
    OBVIOUS
  <1>3. \A i \in DOMAIN Tail(w) :
          /\ i \in Nat \ {0}
          /\ i + 1 \in DOMAIN w /\ Tail(w)[i] = w[i + 1]
    OBVIOUS
  <1> QED
    BY <1>1, <1>2, <1>3 DEF In, None

LEMMA WireSent ==
  ASSUME NEW S, NEW w \in Seq(S), NEW p \in S
  PROVE  LET v == Append(w, p)
         IN  /\ v \in Seq(S)
             /\ Len(w) \in Nat
             /\ DOMAIN w = 1..Len(w)
             /\ DOMAIN v = 1..(Len(w) + 1)
             /\ \A i \in DOMAIN w : v[i] = w[i]
             /\ v[Len(w) + 1] = p
             /\ \A i \in DOMAIN v : i \in DOMAIN w \/ i = Len(w) + 1
             /\ \A packet : In(v, packet) <=> In(w, packet) \/ packet = p
             /\ \A types, id :
                  /\ None(w, types, id)
                  /\ ~(p.type \in types /\ p.packetId = id)
                  => None(v, types, id)
  <1> DEFINE v == Append(w, p)
  <1>1. /\ v \in Seq(S)
        /\ Len(w) \in Nat
        /\ DOMAIN w = 1..Len(w)
        /\ DOMAIN v = 1..(Len(w) + 1)
        /\ \A i \in DOMAIN w : v[i] = w[i]
        /\ v[Len(w) + 1] = p
    OBVIOUS
  <1> HIDE DEF v
  <1>2. \A i \in DOMAIN v : i \in DOMAIN w \/ i = Len(w) + 1
    BY <1>1
  <1>3. \A i \in DOMAIN w : i \in DOMAIN v
    BY <1>1
  <1>4. Len(w) + 1 \in DOMAIN v
    BY <1>1
  <1>5. ASSUME NEW packet
        PROVE  In(v, packet) <=> In(w, packet) \/ packet = p
    BY <1>1, <1>2, <1>3, <1>4 DEF In
  <1>6. ASSUME NEW types, NEW id, None(w, types, id),
               ~(p.type \in types /\ p.packetId = id)
        PROVE  None(v, types, id)
    BY <1>1, <1>2, <1>6 DEF None
  <1> QED
    BY <1>1, <1>2, <1>5, <1>6 DEF v

LEMMA OneCarrierMirrored ==
  ASSUME NEW a, NEW s, NEW b, NEW t, OneCarrier(a, s, b, t)
  PROVE  OneCarrier(b, t, a, s)
  BY DEF OneCarrier

LEMMA OneCarrierNothing ==
  ASSUME NEW s, NEW t
  PROVE  OneCarrier(<<>>, s, <<>>, t)
  BY DEF OneCarrier, Single

\* A packet is read, and nothing else is about the same publish.
LEMMA OneCarrierRead ==
  ASSUME NEW a \in Seq(Packet), NEW s, NEW b \in Seq(Packet), NEW t,
         OneCarrier(a, s, b, t), b # <<>>
  PROVE  /\ OneCarrier(a, s, Tail(b), t)
         /\ Head(b).type \in t =>
              /\ None(a, s, Head(b).packetId)
              /\ None(Tail(b), t, Head(b).packetId)
  <1>1. /\ 1 \in DOMAIN b /\ b[1] = Head(b)
        /\ \A i \in DOMAIN Tail(b) :
             /\ i \in Nat \ {0}
             /\ i + 1 \in DOMAIN b /\ Tail(b)[i] = b[i + 1]
    BY WireRead
  <1>2. Single(Tail(b), t)
    <2> SUFFICES ASSUME NEW i \in DOMAIN Tail(b), NEW j \in DOMAIN Tail(b),
                        Tail(b)[i].type \in t, Tail(b)[j].type \in t,
                        Tail(b)[i].packetId = Tail(b)[j].packetId
                 PROVE  i = j
      BY DEF Single
    <2>1. i + 1 = j + 1
      BY <1>1 DEF OneCarrier, Single
    <2> QED
      BY <1>1, <2>1
  <1>3. OneCarrier(a, s, Tail(b), t)
    BY <1>1, <1>2 DEF OneCarrier
  <1>4. ASSUME Head(b).type \in t
        PROVE  None(a, s, Head(b).packetId)
    BY <1>1, <1>4 DEF OneCarrier, None
  <1>5. ASSUME Head(b).type \in t
        PROVE  None(Tail(b), t, Head(b).packetId)
    <2> SUFFICES ASSUME NEW i \in DOMAIN Tail(b), Tail(b)[i].type \in t,
                        Tail(b)[i].packetId = Head(b).packetId
                 PROVE  FALSE
      BY DEF None
    <2>1. i + 1 = 1
      BY <1>1, <1>5 DEF OneCarrier, Single
    <2> QED
      BY <1>1, <2>1
  <1> QED
    BY <1>3, <1>4, <1>5

\* A packet is sent that is not about such a publish, or about one that
\* nothing else is about.
LEMMA OneCarrierSent ==
  ASSUME NEW S, NEW a \in Seq(S), NEW s, NEW b, NEW t,
         OneCarrier(a, s, b, t), NEW p \in S,
         p.type \in s => None(a, s, p.packetId) /\ None(b, t, p.packetId)
  PROVE  OneCarrier(Append(a, p), s, b, t)
  <1> DEFINE c == Append(a, p)
             n == Len(a) + 1
  <1>1. /\ \A i \in DOMAIN a : c[i] = a[i]
        /\ c[n] = p
        /\ \A i \in DOMAIN c : i \in DOMAIN a \/ i = n
    BY WireSent
  <1> HIDE DEF c, n
  <1>2. Single(c, s)
    BY <1>1 DEF OneCarrier, Single, None
  <1>3. ASSUME NEW i \in DOMAIN c, NEW j \in DOMAIN b,
               c[i].type \in s, b[j].type \in t
        PROVE  c[i].packetId # b[j].packetId
    <2>1. CASE i \in DOMAIN a
      BY <1>1, <1>3, <2>1 DEF OneCarrier
    <2>2. CASE i = n
      BY <1>1, <1>3, <2>2 DEF None
    <2> QED
      BY <1>1, <2>1, <2>2
  <1> QED
    BY <1>2, <1>3 DEF OneCarrier, c

-----------------------------------------------------------------------------
(* Types.                                                                  *)

OutgoingTable(r) == Good(r, OutgoingPublishCount, OutgoingFlights)

IncomingTable(r) == Good(r, IncomingPublishCount, IncomingFlights)

Types ==
  /\ connectStatus \in {"NotConnected", "Connected", "DisconnectPending"}
  /\ nextPacketId \in PacketIds
  /\ OutgoingTable(outgoing)
  /\ IncomingTable(incoming)
  /\ stored \subseteq PublishPacket
  /\ messageOf \in [PacketIds -> Nat]
  /\ published \in Nat
  /\ pc \in {"idle", "pubrels", "publishes", "failing"}
  /\ cursor \in Nat
  /\ selected \in PublishPacket \cup PubrelPacket \cup {Nothing}
  /\ publishing \in PublishPacket \cup {Nothing}
  /\ link \in {"down", "up", "broken"}
  /\ toBroker \in Seq(Packet)
  /\ toClient \in Seq(Packet)
  /\ session \in BOOLEAN
  /\ arrivals \in Seq(Nat)
  /\ outbound \in Seq(PublishPacket \cup PubrelPacket)
  /\ sent \in Nat

LEMMA PacketKinds ==
  /\ \A packet \in PublishPacket :
       /\ packet \in Packet /\ packet.type = "Publish"
       /\ packet.packetId \in PacketIds
       /\ packet.qos \in {1, 2} /\ packet.message \in Nat
  /\ \A packet \in PubrelPacket :
       /\ packet \in Packet /\ packet.type = "Pubrel"
       /\ packet.packetId \in PacketIds
  /\ \A packet \in Packet :
       /\ packet.packetId \in PacketIds
       /\ packet.type \in {"Publish"} \cup MQTTPubAckType
       /\ packet.type = "Publish" => packet \in PublishPacket
  /\ Nothing.type = "Nothing"
  /\ Nothing \notin PublishPacket \cup PubrelPacket
  BY DEF PublishPacket, PubrelPacket, Packet, MQTTPubAckType, Nothing

LEMMA MadePackets ==
  ASSUME NEW id \in PacketIds
  PROVE  /\ \A type \in MQTTPubAckType :
              Ack(type, id) \in Packet /\ Ack(type, id).type = type
                                       /\ Ack(type, id).packetId = id
         /\ Ack("Pubrel", id) \in PubrelPacket
         /\ \A qos \in {1, 2}, message \in Nat :
              /\ Publish(id, qos, message) \in PublishPacket
              /\ Publish(id, qos, message).type = "Publish"
              /\ Publish(id, qos, message).packetId = id
              /\ Publish(id, qos, message).qos = qos
              /\ Publish(id, qos, message).message = message
  BY DEF Ack, Publish, Packet, PublishPacket, PubrelPacket, MQTTPubAckType

LEMMA InitTypes == Init => Types
  <1> SUFFICES ASSUME Init PROVE Types
    OBVIOUS
  <1>1. 1 \in PacketIds
    BY SessionAssumption
  <1>2. \A S : <<>> \in Seq(S)
    OBVIOUS
  <1> QED
    BY <1>1, <1>2, EmptyTableGood, SessionAssumption
    DEF Init, Types, OutgoingTable, IncomingTable

LEMMA TransferTypes ==
  ASSUME Types, NEW ok, NEW packet \in Packet, NEW inbox \in Seq(Packet),
         Transfer(ok, packet, inbox)
  PROVE  /\ link' \in {"down", "up", "broken"}
         /\ toBroker' \in Seq(Packet)
         /\ toClient' \in Seq(Packet)
  <1>1. Append(toBroker, packet) \in Seq(Packet) /\ <<>> \in Seq(Packet)
    BY DEF Types
  <1> QED
    BY <1>1 DEF Types, Transfer, netVars

\* Acknowledgements keep the tables good.
LEMMA AckedTables ==
  ASSUME NEW id \in PacketIds, NEW type \in MQTTPubAckType,
         NEW opType \in {"SEND", "RECEIVE"}, NEW r
  PROVE  /\ OutgoingTable(r) =>
              OutgoingTable(UpdateStateAck(r, id, type, opType).records)
         /\ IncomingTable(r) =>
              IncomingTable(UpdateStateAck(r, id, type, opType).records)
  BY UpdateStateAckGood, SessionAssumption DEF OutgoingTable, IncomingTable

LEMMA SendTypes ==
  ASSUME Types, MQTT_Publish
  PROVE  Types'
  <1> USE DEF contextVars, appVars, receivedVars, cursorVars, threadVars,
              netVars, brokerVars
  <1>1. NextPacketId(nextPacketId) \in PacketIds
    BY SessionAssumption DEF Types, NextPacketId
  <1>2. ~Unlocked => publishing \in PublishPacket
    BY DEF Types, Unlocked
  <1>3. CASE PublishRefused
    <2>1. OutgoingTable(AddRecord(outgoing, nextPacketId, 1,
                                  "PublishSend").records)
      <3>1. 1 \in MQTTQoS /\ "PublishSend" \in MQTTPublishState
        BY DEF MQTTQoS, MQTTPublishState, OutgoingStates
      <3>2. At(1, "PublishSend") \in OutgoingFlights
        BY DEF OutgoingFlights
      <3> QED
        BY <3>1, <3>2, AddRecordGood, SessionAssumption
        DEF Types, OutgoingTable, At
    <2>2. OutgoingTable(outgoing')
      BY <1>3, <2>1 DEF PublishRefused, Types
    <2> QED
      BY <1>1, <1>3, <2>2 DEF PublishRefused, Types
  <1>4. CASE \E q \in PublishQoS : Reserve(q)
    <2>1. PICK q \in PublishQoS : Reserve(q)
      BY <1>4
    <2>2. q \in {1, 2} /\ q \in MQTTQoS
      BY SessionAssumption DEF MQTTQoS
    <2>3. OutgoingTable(AddRecord(outgoing, nextPacketId, q,
                                  "PublishSend").records)
      <3>1. "PublishSend" \in MQTTPublishState
        BY DEF MQTTPublishState, OutgoingStates
      <3>2. At(q, "PublishSend") \in OutgoingFlights
        BY <2>2 DEF OutgoingFlights
      <3> QED
        BY <2>2, <3>1, <3>2, AddRecordGood, SessionAssumption
        DEF Types, OutgoingTable, At
    <2>4. Publish(nextPacketId, q, published + 1) \in PublishPacket
      BY <2>2, MadePackets DEF Types
    <2>5. OutgoingTable(outgoing') /\ publishing' \in PublishPacket
      BY <2>1, <2>3, <2>4 DEF Reserve
    <2>6. messageOf' \in [PacketIds -> Nat]
      BY <2>1 DEF Reserve, Types
    <2>7. nextPacketId' \in PacketIds
      BY <1>1, <2>1 DEF Reserve
    <2> QED
      BY <2>1, <2>5, <2>6, <2>7 DEF Reserve, Types
  <1>5. CASE PublishNotStored
    BY <1>5 DEF PublishNotStored, Types
  <1>6. CASE PublishSent
    <2>1. publishing \in PublishPacket
      BY <1>2, <1>6 DEF PublishSent
    <2>2. /\ link' \in {"down", "up", "broken"}
          /\ toBroker' \in Seq(Packet) /\ toClient' \in Seq(Packet)
      BY <1>6, <2>1, PacketKinds, TransferTypes DEF PublishSent, Types
    <2>3. OutgoingTable(outgoing')
      <3>1. publishing.packetId \in PacketIds /\ publishing.qos \in {1, 2}
        BY <2>1, PacketKinds
      <3>2. outgoing' = UpdateSentPublish(outgoing, publishing.packetId,
                                          publishing.qos).records
        BY <1>6 DEF PublishSent
      <3> QED
        BY <3>1, <3>2, UpdateSentPublishGood, SessionAssumption
        DEF Types, OutgoingTable
    <2>4. stored' \subseteq PublishPacket
      BY <1>6, <2>1 DEF PublishSent, CopiesBut, Types
    <2> QED
      BY <1>6, <2>2, <2>3, <2>4 DEF PublishSent, Types
  <1>7. CASE PublishNotSent
    <2>1. publishing \in PublishPacket
      BY <1>2, <1>7 DEF PublishNotSent
    <2>2. /\ link' \in {"down", "up", "broken"}
          /\ toBroker' \in Seq(Packet) /\ toClient' \in Seq(Packet)
      BY <1>7, <2>1, PacketKinds, TransferTypes DEF PublishNotSent, Types
    <2>3. stored' \subseteq PublishPacket
      BY <1>7, <2>1 DEF PublishNotSent, CopiesBut, Types
    <2> QED
      BY <1>7, <2>2, <2>3 DEF PublishNotSent, StatusAfterSend, Types
  <1> QED
    BY <1>3, <1>4, <1>5, <1>6, <1>7 DEF MQTT_Publish

LEMMA ArrivedPacket ==
  ASSUME Types, NEW types, Arrived(types)
  PROVE  /\ link = "up" /\ toClient # <<>>
         /\ Head(toClient) \in Packet
         /\ Head(toClient).type \in types
         /\ Head(toClient).packetId \in PacketIds
         /\ Tail(toClient) \in Seq(Packet)
         /\ pc = "idle" /\ publishing = Nothing
  BY WireRead, PacketKinds DEF Types, Arrived, Idle, Unlocked

LEMMA ProcessTypes ==
  ASSUME Types, ProcessLoop
  PROVE  Types'
  <1> USE DEF contextVars, appVars, receivedVars, cursorVars, threadVars,
              netVars, brokerVars, vars
  <1> DEFINE id == Head(toClient).packetId
  <1>1. CASE ReceiveNothing
    BY <1>1 DEF ReceiveNothing, Types
  <1>2. CASE ReceiveFails
    BY <1>2 DEF ReceiveFails, Types
  <1>3. CASE HandlePubackOrPubcomp
    <2>1. /\ id \in PacketIds
          /\ Head(toClient).type \in MQTTPubAckType
          /\ Tail(toClient) \in Seq(Packet)
      BY <1>3, ArrivedPacket DEF HandlePubackOrPubcomp, MQTTPubAckType
    <2>2. OutgoingTable(outgoing')
      BY <1>3, <2>1, AckedTables DEF HandlePubackOrPubcomp, Types
    <2>3. stored' \subseteq stored
      BY <1>3 DEF HandlePubackOrPubcomp, CopiesBut
    <2> QED
      BY <1>3, <2>1, <2>2, <2>3 DEF HandlePubackOrPubcomp, Types
  <1>4. ASSUME NEW ok \in BOOLEAN, HandlePubrec(ok)
        PROVE  Types'
    <2> DEFINE updated  == UpdateStateAck(outgoing, id, "Pubrec", "RECEIVE")
               finished == UpdateStateAck(updated.records, id, "Pubrel", "SEND")
    <2>1. id \in PacketIds /\ Tail(toClient) \in Seq(Packet)
      BY <1>4, ArrivedPacket DEF HandlePubrec
    <2>2. OutgoingTable(updated.records) /\ OutgoingTable(finished.records)
      BY <2>1, AckedTables DEF Types, MQTTPubAckType
    <2>3. /\ outgoing' \in {updated.records, finished.records}
          /\ stored' \subseteq stored
          /\ connectStatus' \in {connectStatus, "Connected",
                                 "DisconnectPending"}
          /\ \/ /\ toClient' = Tail(toClient)
                /\ UNCHANGED <<toBroker, link>>
             \/ Transfer(ok, Ack("Pubrel", id), Tail(toClient))
          /\ UNCHANGED <<nextPacketId, incoming, messageOf, published, pc,
                         cursor, selected, publishing, session, arrivals,
                         outbound, sent>>
      BY <1>4 DEF HandlePubrec, CopiesBut, StatusAfterSend
    <2>4. /\ link' \in {"down", "up", "broken"}
          /\ toBroker' \in Seq(Packet) /\ toClient' \in Seq(Packet)
      <3>1. Ack("Pubrel", id) \in Packet
        BY <2>1, MadePackets DEF MQTTPubAckType
      <3>2. CASE Transfer(ok, Ack("Pubrel", id), Tail(toClient))
        BY <2>1, <3>1, <3>2, TransferTypes
      <3>3. CASE toClient' = Tail(toClient) /\ UNCHANGED <<toBroker, link>>
        BY <2>1, <3>3 DEF Types
      <3> QED
        BY <2>3, <3>2, <3>3
    <2> HIDE DEF updated, finished
    <2> QED
      BY <2>2, <2>3, <2>4 DEF Types
  <1>5. ASSUME NEW ok \in BOOLEAN, HandlePublish(ok)
        PROVE  Types'
    <2> DEFINE publish  == Head(toClient)
               updated  == UpdateReceivedPublish(incoming, id, publish.qos)
               type     == IF publish.qos = 1 THEN "Puback" ELSE "Pubrec"
               finished == UpdateStateAck(updated.records, id, type, "SEND")
    <2>1. /\ id \in PacketIds /\ Tail(toClient) \in Seq(Packet)
          /\ publish.qos \in {1, 2}
      BY <1>5, ArrivedPacket, PacketKinds DEF HandlePublish
    <2>2. type \in MQTTPubAckType
      BY DEF MQTTPubAckType
    <2>3. IncomingTable(updated.records)
      BY <2>1, UpdateReceivedPublishGood, SessionAssumption
      DEF Types, IncomingTable
    <2>4. IncomingTable(finished.records)
      <3> HIDE DEF updated, type
      <3> QED
        BY <2>1, <2>2, <2>3, AckedTables
    <2>5. /\ incoming' \in {updated.records, finished.records}
          /\ connectStatus' \in {connectStatus, "Connected",
                                 "DisconnectPending"}
          /\ \/ /\ toClient' = Tail(toClient)
                /\ UNCHANGED <<toBroker, link>>
             \/ Transfer(ok, Ack(type, id), Tail(toClient))
          /\ UNCHANGED <<nextPacketId, outgoing, stored, messageOf, published,
                         pc, cursor, selected, publishing, session, arrivals,
                         outbound, sent>>
      BY <1>5 DEF HandlePublish, StatusAfterSend
    <2> HIDE DEF updated, finished, type
    <2>6. /\ link' \in {"down", "up", "broken"}
          /\ toBroker' \in Seq(Packet) /\ toClient' \in Seq(Packet)
      <3>1. Ack(type, id) \in Packet
        BY <2>1, <2>2, MadePackets
      <3>2. CASE Transfer(ok, Ack(type, id), Tail(toClient))
        BY <2>1, <3>1, <3>2, TransferTypes
      <3>3. CASE toClient' = Tail(toClient) /\ UNCHANGED <<toBroker, link>>
        BY <2>1, <3>3 DEF Types
      <3> QED
        BY <2>5, <3>2, <3>3
    <2> QED
      BY <2>3, <2>4, <2>5, <2>6 DEF Types
  <1>6. ASSUME NEW ok \in BOOLEAN, HandlePubrel(ok)
        PROVE  Types'
    <2> DEFINE updated  == UpdateStateAck(incoming, id, "Pubrel", "RECEIVE")
               finished == UpdateStateAck(updated.records, id, "Pubcomp", "SEND")
    <2>1. id \in PacketIds /\ Tail(toClient) \in Seq(Packet)
      BY <1>6, ArrivedPacket DEF HandlePubrel
    <2>2. IncomingTable(updated.records) /\ IncomingTable(finished.records)
      BY <2>1, AckedTables DEF Types, MQTTPubAckType
    <2>3. /\ incoming' \in {updated.records, finished.records}
          /\ connectStatus' \in {connectStatus, "Connected",
                                 "DisconnectPending"}
          /\ \/ /\ toClient' = Tail(toClient)
                /\ UNCHANGED <<toBroker, link>>
             \/ Transfer(ok, Ack("Pubcomp", id), Tail(toClient))
          /\ UNCHANGED <<nextPacketId, outgoing, stored, messageOf, published,
                         pc, cursor, selected, publishing, session, arrivals,
                         outbound, sent>>
      BY <1>6 DEF HandlePubrel, StatusAfterSend
    <2>4. /\ link' \in {"down", "up", "broken"}
          /\ toBroker' \in Seq(Packet) /\ toClient' \in Seq(Packet)
      <3>1. Ack("Pubcomp", id) \in Packet
        BY <2>1, MadePackets DEF MQTTPubAckType
      <3>2. CASE Transfer(ok, Ack("Pubcomp", id), Tail(toClient))
        BY <2>1, <3>1, <3>2, TransferTypes
      <3>3. CASE toClient' = Tail(toClient) /\ UNCHANGED <<toBroker, link>>
        BY <2>1, <3>3 DEF Types
      <3> QED
        BY <2>3, <3>2, <3>3
    <2> HIDE DEF updated, finished
    <2> QED
      BY <2>2, <2>3, <2>4 DEF Types
  <1> QED
    BY <1>1, <1>2, <1>3, <1>4, <1>5, <1>6 DEF ProcessLoop

LEMMA ConnectTypes ==
  ASSUME Types, Connect \/ Disconnect
  PROVE  Types'
  <1> USE DEF contextVars, appVars, receivedVars, cursorVars, threadVars,
              netVars, brokerVars
  <1>1. CASE Disconnect
    <2>1. <<>> \in Seq(Packet)
      OBVIOUS
    <2> QED
      BY <1>1, <2>1 DEF Disconnect, Types
  <1>2. CASE ConnectNewSession
    <2>1. /\ OutgoingTable(EmptyTable(OutgoingPublishCount))
          /\ IncomingTable(EmptyTable(IncomingPublishCount))
      BY EmptyTableGood, SessionAssumption DEF OutgoingTable, IncomingTable
    <2> QED
      BY <1>2, <2>1 DEF ConnectNewSession, Cleared, Types
  <1>3. CASE ConnectResumedSession
    <2>1. Seq(PublishPacket \cup PubrelPacket) \subseteq Seq(Packet)
      <3>1. PublishPacket \cup PubrelPacket \subseteq Packet
        BY PacketKinds
      <3> QED
        BY <3>1
    <2> QED
      BY <1>3, <2>1 DEF ConnectResumedSession, Types
  <1>4. CASE SelectionEnds
    BY <1>4 DEF SelectionEnds, Types
  <1>5. CASE SelectPubrel \/ SelectPublish \/ RetrieveFails
    <2>1. PICK step \in {"pubrels", "publishes"} : Selecting(step)
      BY <1>5 DEF SelectPubrel, SelectPublish, RetrieveFails
    <2>2. Selection.packetId \in PacketIds /\ Selection.cursor \in Nat
      <3>1. Selection.packetId # MQTT_PACKET_ID_INVALID
        BY <2>1 DEF Selecting
      <3>2. OutgoingPublishCount \in Nat
        BY SessionAssumption
      <3> QED
        BY <3>1, <3>2, SelectsRecord DEF Selection, Types, OutgoingTable
    <2>3. cursor' = Selection.cursor
      BY <2>1 DEF Selecting
    <2>4. selected' \in PublishPacket \cup PubrelPacket \cup {Nothing}
      <3> HIDE DEF Selection
      <3> QED
        BY <1>5, <2>2, MadePackets
        DEF SelectPubrel, SelectPublish, RetrieveFails, Copies, Types
    <2>5. pc' \in {pc, "failing"}
      BY <1>5 DEF SelectPubrel, SelectPublish, RetrieveFails
    <2> QED
      BY <2>1, <2>2, <2>3, <2>4, <2>5 DEF Selecting, Types
  <1>6. CASE ConnectFails
    BY <1>6 DEF ConnectFails, Types
  <1>7. ASSUME NEW ok \in BOOLEAN, ResendPubrel(ok)
        PROVE  Types'
    <2>1. selected.packetId \in PacketIds /\ selected \in Packet
      BY <1>7, PacketKinds DEF ResendPubrel, Types
    <2>2. OutgoingTable(outgoing')
      BY <1>7, <2>1, AckedTables DEF ResendPubrel, Types, MQTTPubAckType
    <2>3. /\ link' \in {"down", "up", "broken"}
          /\ toBroker' \in Seq(Packet) /\ toClient' \in Seq(Packet)
      BY <1>7, <2>1, TransferTypes DEF ResendPubrel, Types
    <2>4. /\ connectStatus' \in {connectStatus, "Connected",
                                 "DisconnectPending"}
          /\ pc' \in {pc, "failing"}
          /\ selected' = Nothing
          /\ UNCHANGED <<nextPacketId, incoming, appVars, cursor, publishing,
                         brokerVars>>
      BY <1>7 DEF ResendPubrel, StatusAfterSend
    <2> QED
      BY <2>2, <2>3, <2>4 DEF Types
  <1>8. ASSUME NEW ok \in BOOLEAN, ResendPublish(ok)
        PROVE  Types'
    <2>1. selected \in Packet
      BY <1>8, PacketKinds DEF ResendPublish, Types
    <2>2. /\ link' \in {"down", "up", "broken"}
          /\ toBroker' \in Seq(Packet) /\ toClient' \in Seq(Packet)
      BY <1>8, <2>1, TransferTypes DEF ResendPublish, Types
    <2>3. /\ connectStatus' \in {connectStatus, "Connected",
                                 "DisconnectPending"}
          /\ pc' \in {pc, "failing"}
          /\ selected' = Nothing
          /\ UNCHANGED <<nextPacketId, outgoing, incoming, appVars, cursor,
                         publishing, brokerVars>>
      BY <1>8 DEF ResendPublish, StatusAfterSend
    <2> QED
      BY <2>2, <2>3 DEF Types
  <1> QED
    BY <1>1, <1>2, <1>3, <1>4, <1>5, <1>6, <1>7, <1>8 DEF Connect

\* Where the element at k was before the one at i went.
Place(i, k) == IF k < i THEN k ELSE k + 1

LEMMA WithoutOne ==
  ASSUME NEW S, NEW w \in Seq(S), NEW i \in DOMAIN w
  PROVE  /\ Without(w, i) \in Seq(S)
         /\ DOMAIN Without(w, i) \subseteq Nat
         /\ \A k \in DOMAIN Without(w, i) :
              /\ Place(i, k) \in DOMAIN w
              /\ Place(i, k) # i
              /\ Without(w, i)[k] = w[Place(i, k)]
         /\ \A j \in DOMAIN w :
              j # i => \E k \in DOMAIN Without(w, i) : Without(w, i)[k] = w[j]
  <1> DEFINE n == Len(w)
             a == SubSeq(w, 1, i - 1)
             b == SubSeq(w, i + 1, n)
             v == Without(w, i)
  <1>1. n \in Nat /\ i \in 1..n /\ DOMAIN w = 1..n
    OBVIOUS
  <1>2. a \in Seq(S) /\ Len(a) = i - 1 /\ \A k \in 1..(i - 1) : a[k] = w[k]
    BY <1>1
  <1>3. b \in Seq(S) /\ Len(b) = n - i /\ \A k \in 1..(n - i) : b[k] = w[i + k]
    BY <1>1
  <1>4. v = a \o b
    BY DEF Without
  <1> HIDE DEF a, b, v
  <1>5. v \in Seq(S) /\ Len(v) = n - 1 /\ DOMAIN v = 1..(n - 1)
    <2>1. v \in Seq(S) /\ Len(v) = Len(a) + Len(b)
      BY <1>2, <1>3, <1>4, ConcatProperties
    <2>2. Len(v) = n - 1
      BY <1>1, <1>2, <1>3, <2>1
    <2> QED
      BY <2>1, <2>2
  <1>6. \A k \in 1..(n - 1) : v[k] = IF k <= i - 1 THEN a[k] ELSE b[k - (i - 1)]
    <2>1. Len(a) + Len(b) = n - 1
      BY <1>1, <1>2, <1>3
    <2>2. \A k \in 1..(Len(a) + Len(b)) :
            v[k] = IF k <= Len(a) THEN a[k] ELSE b[k - Len(a)]
      BY <1>2, <1>3, <1>4, ConcatProperties
    <2> QED
      BY <1>2, <2>1, <2>2
  <1>7. \A k \in 1..(n - 1) : v[k] = w[Place(i, k)]
    <2> TAKE k \in 1..(n - 1)
    <2>1. CASE k < i
      BY <1>1, <1>2, <1>6, <2>1 DEF Place
    <2>2. CASE ~(k < i)
      <3>1. v[k] = b[k - (i - 1)]
        BY <1>1, <1>6, <2>2
      <3>2. k - (i - 1) \in 1..(n - i) /\ i + (k - (i - 1)) = k + 1
        BY <1>1, <2>2
      <3> QED
        BY <1>3, <2>2, <3>1, <3>2 DEF Place
    <2> QED
      BY <2>1, <2>2
  <1>8. \A k \in 1..(n - 1) : Place(i, k) \in 1..n /\ Place(i, k) # i
    BY <1>1 DEF Place
  <1>9. ASSUME NEW j \in 1..n, j # i
        PROVE  \E k \in 1..(n - 1) : v[k] = w[j]
    <2> DEFINE k == IF j < i THEN j ELSE j - 1
    <2>1. k \in 1..(n - 1) /\ Place(i, k) = j
      BY <1>1, <1>9 DEF Place
    <2> QED
      BY <1>7, <2>1
  <1> QED
    <2>1. v \in Seq(S) /\ DOMAIN v \subseteq Nat
      BY <1>5
    <2>2. \A k \in DOMAIN v :
            Place(i, k) \in DOMAIN w /\ Place(i, k) # i /\ v[k] = w[Place(i, k)]
      BY <1>1, <1>5, <1>7, <1>8
    <2>3. \A j \in DOMAIN w : j # i => \E k \in DOMAIN v : v[k] = w[j]
      BY <1>1, <1>5, <1>9
    <2> QED
      BY <2>1, <2>2, <2>3 DEF v

LEMMA BrokerReadsPacket ==
  ASSUME Types, NEW types, BrokerReads(types)
  PROVE  /\ link = "up" /\ toBroker # <<>>
         /\ Head(toBroker) \in Packet
         /\ Head(toBroker).type \in types
         /\ Head(toBroker).packetId \in PacketIds
         /\ Tail(toBroker) \in Seq(Packet)
         /\ toBroker' = Tail(toBroker)
  BY WireRead, PacketKinds DEF Types, BrokerReads

LEMMA BrokerTypes ==
  ASSUME Types,
         \/ Broker \/ BrokerForgets \/ LinkBreaks
         \/ \E id \in PacketIds, q \in PublishQoS : BrokerSendsPublish(id, q)
  PROVE  Types'
  <1> USE DEF contextVars, appVars, receivedVars, cursorVars, threadVars,
              netVars, brokerVars
  <1> DEFINE Entry == PublishPacket \cup PubrelPacket
             head  == Head(toBroker)
  <1>1. CASE BrokerTakesPublish
    <2>1. /\ head.packetId \in PacketIds /\ head.message \in Nat
          /\ toBroker' \in Seq(Packet)
      <3>1. BrokerReads({"Publish"})
        BY <1>1 DEF BrokerTakesPublish
      <3>2. /\ head \in Packet /\ head.type = "Publish"
            /\ head.packetId \in PacketIds
            /\ toBroker' \in Seq(Packet)
        BY <3>1, BrokerReadsPacket
      <3> HIDE DEF head
      <3> QED
        BY <3>2, PacketKinds
    <2>2. toClient' \in Seq(Packet)
      <3>1. /\ Ack("Puback", head.packetId) \in Packet
            /\ Ack("Pubrec", head.packetId) \in Packet
        BY <2>1, MadePackets DEF MQTTPubAckType
      <3> QED
        BY <1>1, <3>1 DEF BrokerTakesPublish, Types
    <2>3. arrivals' \in Seq(Nat)
      BY <1>1, <2>1 DEF BrokerTakesPublish, Types
    <2> QED
      BY <1>1, <2>1, <2>2, <2>3 DEF BrokerTakesPublish, Types
  <1>2. CASE BrokerTakesPubrel
    <2>1. head.packetId \in PacketIds /\ toBroker' \in Seq(Packet)
      BY <1>2, BrokerReadsPacket DEF BrokerTakesPubrel
    <2>2. Ack("Pubcomp", head.packetId) \in Packet
      BY <2>1, MadePackets DEF MQTTPubAckType
    <2>3. toClient' \in Seq(Packet)
      BY <1>2, <2>2 DEF BrokerTakesPubrel, Types
    <2> QED
      BY <1>2, <2>1, <2>3 DEF BrokerTakesPubrel, Types
  <1>3. CASE BrokerTakesPubackOrPubrec
    <2>1. head.packetId \in PacketIds /\ toBroker' \in Seq(Packet)
      BY <1>3, BrokerReadsPacket DEF BrokerTakesPubackOrPubrec
    <2>2. PICK i \in Outstanding(head.packetId) :
            \/ /\ outbound' = Without(outbound, i)
               /\ UNCHANGED toClient
            \/ /\ outbound' = Append(Without(outbound, i),
                                     Ack("Pubrel", head.packetId))
               /\ toClient' = Append(toClient, Ack("Pubrel", head.packetId))
            \/ UNCHANGED <<outbound, toClient>>
      BY <1>3 DEF BrokerTakesPubackOrPubrec
    <2>3. Without(outbound, i) \in Seq(Entry)
      BY WithoutOne DEF Outstanding, Types
    <2>4. /\ Ack("Pubrel", head.packetId) \in Entry
          /\ Ack("Pubrel", head.packetId) \in Packet
      BY <2>1, MadePackets DEF MQTTPubAckType
    <2>5. outbound' \in Seq(Entry)
      <3>1. Append(Without(outbound, i), Ack("Pubrel", head.packetId))
              \in Seq(Entry)
        BY <2>3, <2>4
      <3> QED
        BY <2>2, <2>3, <3>1 DEF Types
    <2>6. toClient' \in Seq(Packet)
      <3>1. Append(toClient, Ack("Pubrel", head.packetId)) \in Seq(Packet)
        BY <2>4 DEF Types
      <3> QED
        BY <2>2, <3>1 DEF Types
    <2> QED
      BY <1>3, <2>1, <2>5, <2>6 DEF BrokerTakesPubackOrPubrec, Types
  <1>4. CASE BrokerTakesPubcomp
    <2>1. toBroker' \in Seq(Packet)
      BY <1>4, BrokerReadsPacket DEF BrokerTakesPubcomp
    <2>2. outbound' \in Seq(Entry)
      BY <1>4, WithoutOne DEF BrokerTakesPubcomp, Outstanding, Types
    <2> QED
      BY <1>4, <2>1, <2>2 DEF BrokerTakesPubcomp, Types
  <1>5. ASSUME NEW id \in PacketIds, NEW q \in PublishQoS,
               BrokerSendsPublish(id, q)
        PROVE  Types'
    <2>1. /\ Publish(id, q, sent + 1) \in Entry
          /\ Publish(id, q, sent + 1) \in Packet
      <3>1. q \in {1, 2} /\ sent + 1 \in Nat
        BY SessionAssumption DEF Types
      <3> QED
        BY <3>1, MadePackets, PacketKinds
    <2> HIDE DEF Entry
    <2>2. outbound' \in Seq(Entry) /\ toClient' \in Seq(Packet)
      BY <1>5, <2>1 DEF BrokerSendsPublish, Types, Entry
    <2> QED
      BY <1>5, <2>2 DEF BrokerSendsPublish, Types, Entry
  <1>6. CASE BrokerForgets \/ LinkBreaks
    <2>1. <<>> \in Seq(Packet) /\ <<>> \in Seq(Entry)
      OBVIOUS
    <2> QED
      BY <1>6, <2>1 DEF BrokerForgets, LinkBreaks, Types
  <1> QED
    BY <1>1, <1>2, <1>3, <1>4, <1>5, <1>6 DEF Broker

LEMMA NextTypes ==
  ASSUME Types, [Next]_vars
  PROVE  Types'
  <1>1. CASE UNCHANGED vars
    BY <1>1 DEF vars, contextVars, appVars, receivedVars, cursorVars,
                threadVars, netVars, brokerVars, Types
  <1> QED
    BY <1>1, SendTypes, ProcessTypes, ConnectTypes, BrokerTypes DEF Next

-----------------------------------------------------------------------------
(* Connections, and what MQTT_Connect works on.                            *)

\* Nothing is on its way over a connection that is not up, and there is one
\* only while the broker has the session.  The context knows whether there
\* is one; nobody uses a context that has none.
Links ==
  /\ link # "up" => toBroker = <<>> /\ toClient = <<>>
  /\ link # "down" => session
  /\ link = "down" <=> connectStatus = "NotConnected"
  /\ link = "down" => pc = "idle" /\ publishing = Nothing
  /\ pc \in {"idle", "failing"} => selected = Nothing
  /\ pc = "pubrels" => selected \in PubrelPacket \cup {Nothing}
  /\ pc = "publishes" => selected \in PublishPacket \cup {Nothing}
  /\ ~session => outbound = <<>>

LEMMA InitLinks == Init => Links
  BY DEF Init, Links

LEMMA TransferLinks ==
  ASSUME Links, NEW ok, NEW packet, NEW inbox, Transfer(ok, packet, inbox)
  PROVE  /\ link \in {"up", "broken"}
         /\ link' \in {"up", "broken"}
         /\ link' # "up" => toBroker' = <<>> /\ toClient' = <<>>
         /\ \/ /\ link' = "up"
               /\ toBroker' = Append(toBroker, packet)
               /\ toClient' = inbox
            \/ link' = "broken" /\ toBroker' = <<>> /\ toClient' = <<>>
  BY DEF Links, Transfer, netVars

LEMMA NextLinks ==
  ASSUME Types, Links, [Next]_vars
  PROVE  Links'
  <1> USE DEF contextVars, appVars, receivedVars, cursorVars, threadVars,
              netVars, brokerVars
  <1>1. CASE UNCHANGED vars
    BY <1>1 DEF vars, Links
  <1>2. CASE MQTT_Publish
    <2>1. CASE PublishRefused \/ \E q \in PublishQoS : Reserve(q)
      BY <1>2, <2>1 DEF PublishRefused, Reserve, Links
    <2>2. CASE PublishNotStored
      BY <2>2 DEF PublishNotStored, Links
    <2>3. CASE PublishSent
      <3>1. /\ link \in {"up", "broken"}
            /\ link' \in {"up", "broken"}
            /\ link' # "up" => toBroker' = <<>> /\ toClient' = <<>>
        BY <2>3, TransferLinks DEF PublishSent
      <3> QED
        BY <2>3, <3>1 DEF PublishSent, Links
    <2>4. CASE PublishNotSent
      <3>1. /\ link \in {"up", "broken"}
            /\ link' \in {"up", "broken"}
            /\ link' # "up" => toBroker' = <<>> /\ toClient' = <<>>
        BY <2>4, TransferLinks DEF PublishNotSent
      <3> QED
        BY <2>4, <3>1 DEF PublishNotSent, StatusAfterSend, Links
    <2> QED
      BY <1>2, <2>1, <2>2, <2>3, <2>4 DEF MQTT_Publish
  <1>3. CASE ProcessLoop
    <2>1. CASE ReceiveNothing
      BY <2>1 DEF ReceiveNothing, vars, Links
    <2>2. CASE ReceiveFails
      BY <2>2 DEF ReceiveFails, Types, Links
    <2>3. CASE HandlePubackOrPubcomp
      BY <2>3 DEF HandlePubackOrPubcomp, Arrived, Links
    <2>4. ASSUME NEW ok \in BOOLEAN,
                 HandlePubrec(ok) \/ HandlePublish(ok) \/ HandlePubrel(ok)
          PROVE  Links'
      <3>1. /\ link = "up"
            /\ UNCHANGED <<pc, selected, publishing, session, outbound>>
        BY <2>4 DEF HandlePubrec, HandlePublish, HandlePubrel, Arrived
      <3>2. \/ UNCHANGED <<connectStatus, link>>
            \/ /\ connectStatus' \in StatusAfterSend(ok)
               /\ \E packet : Transfer(ok, packet, Tail(toClient))
        BY <2>4 DEF HandlePubrec, HandlePublish, HandlePubrel
      <3>3. CASE UNCHANGED <<connectStatus, link>>
        BY <3>1, <3>3 DEF Links
      <3>4. CASE /\ connectStatus' \in StatusAfterSend(ok)
                 /\ \E packet : Transfer(ok, packet, Tail(toClient))
        <4>1. /\ link' \in {"up", "broken"}
              /\ link' # "up" => toBroker' = <<>> /\ toClient' = <<>>
          BY <3>4, TransferLinks
        <4> QED
          BY <3>1, <3>4, <4>1 DEF StatusAfterSend, Links
      <3> QED
        BY <3>2, <3>3, <3>4
    <2> QED
      BY <1>3, <2>1, <2>2, <2>3, <2>4 DEF ProcessLoop
  <1>4. CASE Connect \/ Disconnect
    <2>1. CASE Disconnect
      BY <2>1 DEF Disconnect, Idle, Unlocked, Links
    <2>2. CASE ConnectNewSession \/ ConnectResumedSession
      BY <2>2 DEF ConnectNewSession, ConnectResumedSession, Idle, Links
    <2>3. CASE SelectionEnds
      BY <2>3 DEF SelectionEnds, Types, Links
    <2>4. CASE SelectPubrel
      <3>1. selected' \in PubrelPacket
        <4>1. Types'
          BY <2>4, ConnectTypes DEF Connect
        <4>2. selected' # Nothing /\ selected' \notin PublishPacket
          BY <2>4, PacketKinds DEF SelectPubrel, Ack, Nothing
        <4> QED
          BY <4>1, <4>2 DEF Types
      <3> QED
        BY <2>4, <3>1 DEF SelectPubrel, Selecting, Links
    <2>5. CASE SelectPublish
      <3>1. selected' \in PublishPacket
        BY <2>5 DEF SelectPublish, Copies, Types
      <3> QED
        BY <2>5, <3>1 DEF SelectPublish, Selecting, Links
    <2>6. CASE RetrieveFails
      BY <2>6 DEF RetrieveFails, Selecting, Links
    <2>7. CASE ConnectFails
      BY <2>7 DEF ConnectFails, Links
    <2>8. ASSUME NEW ok \in BOOLEAN, ResendPubrel(ok)
          PROVE  Links'
      <3>1. /\ pc = "pubrels" /\ pc' \in {"pubrels", "failing"}
            /\ selected' = Nothing
            /\ UNCHANGED <<publishing, session, outbound>>
        BY <2>8 DEF ResendPubrel
      <3>2. CASE connectStatus = "Connected"
        <4>1. /\ link' \in {"up", "broken"}
              /\ link' # "up" => toBroker' = <<>> /\ toClient' = <<>>
          BY <2>8, <3>2, TransferLinks DEF ResendPubrel
        <4>2. connectStatus' # "NotConnected"
          BY <2>8, <3>2 DEF ResendPubrel, StatusAfterSend
        <4> QED
          BY <3>1, <4>1, <4>2 DEF Links
      <3>3. CASE connectStatus # "Connected"
        BY <2>8, <3>1, <3>3 DEF ResendPubrel, Links
      <3> QED
        BY <3>2, <3>3
    <2>9. ASSUME NEW ok \in BOOLEAN, ResendPublish(ok)
          PROVE  Links'
      <3>1. /\ link' \in {"up", "broken"}
            /\ link' # "up" => toBroker' = <<>> /\ toClient' = <<>>
        BY <2>9, TransferLinks DEF ResendPublish
      <3> QED
        BY <2>9, <3>1 DEF ResendPublish, StatusAfterSend, Links
    <2> QED
      BY <1>4, <2>1, <2>2, <2>3, <2>4, <2>5, <2>6, <2>7, <2>8, <2>9
      DEF Connect
  <1>5. CASE Broker
    BY <1>5 DEF Broker, BrokerTakesPublish, BrokerTakesPubrel,
                BrokerTakesPubackOrPubrec, BrokerTakesPubcomp, BrokerReads,
                Links
  <1>6. CASE \E id \in PacketIds, q \in PublishQoS : BrokerSendsPublish(id, q)
    BY <1>6 DEF BrokerSendsPublish, Links
  <1>7. CASE BrokerForgets \/ LinkBreaks
    BY <1>7 DEF BrokerForgets, LinkBreaks, Links
  <1> QED
    BY <1>1, <1>2, <1>3, <1>4, <1>5, <1>6, <1>7 DEF Next

-----------------------------------------------------------------------------
(* What a step makes of the records of outgoing publishes.                 *)

NoFlight == At(0, "StateNull")

Outgoing(id) == Flight(outgoing, id)

Pending(qos) == IF qos = 1 THEN "PubAckPending" ELSE "PubRecPending"

\* The records that a resumption sends a PUBLISH for, and a PUBREL.
Resendable(qos) == {At(qos, "PublishSend"), At(qos, Pending(qos))}

Releasing == {At(2, "PubRelSend"), At(2, "PubCompPending")}

\* The record of a publish that MQTT_Publish or MQTT_Connect is working on.
PublishingFits ==
  publishing # Nothing =>
    /\ Outgoing(publishing.packetId) = At(publishing.qos, "PublishSend")
    /\ messageOf[publishing.packetId] = publishing.message
    /\ publishing.message = published

SelectedFits ==
  /\ selected \in PubrelPacket => Outgoing(selected.packetId) \in Releasing
  /\ selected \in PublishPacket =>
       /\ Outgoing(selected.packetId) \in Resendable(selected.qos)
       /\ messageOf[selected.packetId] = selected.message

OthersKept(id) ==
  \A x \in PacketIds \ {id} : Flight(outgoing', x) = Flight(outgoing, x)

FlightsKept == \A x \in PacketIds : Flight(outgoing', x) = Flight(outgoing, x)

LEMMA FlightsDiffer ==
  ASSUME NEW q \in {1, 2}, NEW r \in {1, 2}
  PROVE  /\ At(q, "PublishSend") # NoFlight
         /\ At(q, Pending(q)) # NoFlight
         /\ At(2, "PubRelSend") # NoFlight
         /\ At(2, "PubCompPending") # NoFlight
         /\ Resendable(q) \cap Releasing = {}
         /\ NoFlight \notin Resendable(q) \cup Releasing
         /\ At(q, "PublishSend") # At(r, Pending(r))
         /\ At(2, "PubRelSend") # At(2, "PubCompPending")
         /\ \A f \in Resendable(q) : f.qos = q
         /\ \A f \in Releasing : f.qos = 2
         /\ q # r => Resendable(q) \cap Resendable(r) = {}
  BY DEF At, NoFlight, Pending, Resendable, Releasing

LEMMA RefusedOutgoing ==
  ASSUME Types, PublishRefused
  PROVE  FlightsKept
  <1> DEFINE added == AddRecord(outgoing, nextPacketId, 1, "PublishSend")
  <1>1. \/ outgoing' = outgoing
        \/ added.status # "Success" /\ outgoing' = added.records
    BY DEF PublishRefused
  <1>2. added.status # "Success" =>
          \A x \in PacketIds : Flight(added.records, x) = Flight(outgoing, x)
    <2>1. 1 \in MQTTQoS /\ "PublishSend" \in MQTTPublishState
      BY DEF MQTTQoS, MQTTPublishState, OutgoingStates
    <2>2. At(1, "PublishSend") \in OutgoingFlights
      BY DEF OutgoingFlights
    <2> QED
      BY <2>1, <2>2, AddedRecord, SessionAssumption DEF Types, OutgoingTable
  <1> HIDE DEF added
  <1> QED
    BY <1>1, <1>2 DEF FlightsKept

LEMMA ReservedOutgoing ==
  ASSUME Types, NEW q \in PublishQoS, Reserve(q)
  PROVE  /\ nextPacketId \in PacketIds /\ q \in {1, 2}
         /\ OthersKept(nextPacketId)
         /\ Flight(outgoing, nextPacketId) = NoFlight
         /\ Flight(outgoing', nextPacketId) = At(q, "PublishSend")
         /\ publishing' = Publish(nextPacketId, q, published + 1)
         /\ publishing' \in PublishPacket
         /\ published' = published + 1
         /\ messageOf' = [messageOf EXCEPT ![nextPacketId] = published + 1]
  <1> DEFINE added == AddRecord(outgoing, nextPacketId, q, "PublishSend")
  <1>1. nextPacketId \in PacketIds /\ q \in {1, 2}
    BY SessionAssumption DEF Types
  <1>2. added.status = "Success" /\ outgoing' = added.records
    BY DEF Reserve
  <1>3. /\ \A x \in PacketIds \ {nextPacketId} :
             Flight(added.records, x) = Flight(outgoing, x)
        /\ added.status = "Success" =>
             /\ Flight(outgoing, nextPacketId) = NoFlight
             /\ Flight(added.records, nextPacketId) = At(q, "PublishSend")
    <2>1. q \in MQTTQoS /\ "PublishSend" \in MQTTPublishState
      BY <1>1 DEF MQTTQoS, MQTTPublishState, OutgoingStates
    <2>2. At(q, "PublishSend") \in OutgoingFlights
      BY <1>1 DEF OutgoingFlights
    <2> QED
      BY <1>1, <2>1, <2>2, AddedRecord, SessionAssumption
      DEF Types, OutgoingTable, NoFlight
  <1> HIDE DEF added
  <1>4. /\ publishing' = Publish(nextPacketId, q, published + 1)
        /\ published' = published + 1
        /\ messageOf' = [messageOf EXCEPT ![nextPacketId] = published + 1]
    BY DEF Reserve
  <1>5. publishing' \in PublishPacket
    BY <1>1, <1>4, MadePackets DEF Types
  <1> QED
    BY <1>1, <1>2, <1>3, <1>4, <1>5 DEF OthersKept

LEMMA SentOutgoing ==
  ASSUME Types, PublishingFits, PublishSent
  PROVE  /\ publishing \in PublishPacket
         /\ OthersKept(publishing.packetId)
         /\ Outgoing(publishing.packetId) = At(publishing.qos, "PublishSend")
         /\ Flight(outgoing', publishing.packetId) =
              At(publishing.qos, Pending(publishing.qos))
  <1> DEFINE id  == publishing.packetId
             q   == publishing.qos
             sending == UpdateSentPublish(outgoing, id, q)
  <1>1. publishing # Nothing /\ publishing \in PublishPacket
    BY DEF PublishSent, Unlocked, Types
  <1>2. Outgoing(id) = At(q, "PublishSend")
    BY <1>1 DEF PublishingFits
  <1>3. id \in PacketIds /\ q \in {1, 2}
    BY <1>1, PacketKinds
  <1>4. outgoing' = sending.records
    BY DEF PublishSent
  <1> HIDE DEF id, q
  <1>5. /\ Flight(sending.records, id) = At(q, CalculateStatePublish("SEND", q))
        /\ \A x \in PacketIds \ {id} :
             Flight(sending.records, x) = Flight(outgoing, x)
    BY <1>2, <1>3, SentRecord, SessionAssumption
    DEF Types, OutgoingTable, Outgoing
  <1>6. CalculateStatePublish("SEND", q) = Pending(q)
    BY <1>3 DEF CalculateStatePublish, Pending
  <1> QED
    BY <1>1, <1>2, <1>4, <1>5, <1>6 DEF OthersKept, id, q

\* An acknowledgement is refused, and leaves its record as it is, or ends it.
LEMMA AckedOutgoing ==
  ASSUME Types, HandlePubackOrPubcomp
  PROVE  LET id   == Head(toClient).packetId
             type == Head(toClient).type
         IN  /\ id \in PacketIds /\ type \in {"Puback", "Pubcomp"}
             /\ OthersKept(id)
             /\ \/ /\ FlightsKept
                   /\ processStatus' \in {"IllegalState", "BadResponse"}
                   /\ Outgoing(id) # IF type = "Puback"
                                       THEN At(1, "PubAckPending")
                                       ELSE At(2, "PubCompPending")
                   /\ UNCHANGED <<stored, acknowledged>>
                \/ /\ Outgoing(id) = IF type = "Puback"
                                       THEN At(1, "PubAckPending")
                                       ELSE At(2, "PubCompPending")
                   /\ processStatus' = "Success"
                   /\ Flight(outgoing', id) = NoFlight
                   /\ stored' = IF type = "Puback" THEN CopiesBut(id)
                                                   ELSE stored
                   /\ acknowledged' = acknowledged \cup {messageOf[id]}
  <1> DEFINE id   == Head(toClient).packetId
             type == Head(toClient).type
             ack  == UpdateStateAck(outgoing, id, type, "RECEIVE")
             last == IF type = "Puback" THEN At(1, "PubAckPending")
                                        ELSE At(2, "PubCompPending")
  <1>1. id \in PacketIds /\ type \in {"Puback", "Pubcomp"}
    BY ArrivedPacket DEF HandlePubackOrPubcomp
  <1>2. /\ outgoing' = ack.records
        /\ processStatus' = ack.status
        /\ stored' = IF ack.status = "Success" /\ type = "Puback"
                       THEN CopiesBut(id) ELSE stored
        /\ acknowledged' = IF ack.status = "Success"
                             THEN acknowledged \cup {messageOf[id]}
                             ELSE acknowledged
    BY DEF HandlePubackOrPubcomp
  <1> HIDE DEF id, type
  <1>3. IF Flight(outgoing, id) = last
          THEN Accepted(outgoing, id, ack, NoFlight)
          ELSE Refused(outgoing, id, ack)
    <2>1. Good(outgoing, OutgoingPublishCount, OutgoingFlights)
      BY DEF Types, OutgoingTable
    <2>2. CASE type = "Puback"
      BY <1>1, <2>1, <2>2, OutgoingAck, SessionAssumption DEF NoFlight
    <2>3. CASE type = "Pubcomp"
      BY <1>1, <2>1, <2>3, OutgoingAck, SessionAssumption DEF NoFlight
    <2> QED
      BY <1>1, <2>2, <2>3
  <1> HIDE DEF ack, last
  <1>4. CASE Flight(outgoing, id) = last
    <2>1. /\ ack.status = "Success"
          /\ Flight(ack.records, id) = NoFlight
          /\ \A x \in PacketIds \ {id} :
               Flight(ack.records, x) = Flight(outgoing, x)
      BY <1>3, <1>4 DEF Accepted
    <2> QED
      BY <1>1, <1>2, <1>4, <2>1 DEF OthersKept, Outgoing, id, type, last
  <1>5. CASE Flight(outgoing, id) # last
    <2>1. ack.status \in {"IllegalState", "BadResponse"} /\ ack.records = outgoing
      BY <1>3, <1>5 DEF Refused
    <2> QED
      BY <1>1, <1>2, <1>5, <2>1
      DEF OthersKept, FlightsKept, Outgoing, id, type, last
  <1> QED
    BY <1>4, <1>5

\* A PUBREC is refused, or its record goes on with the PUBREL.
LEMMA PubrecOutgoing ==
  ASSUME Types, NEW ok \in BOOLEAN, HandlePubrec(ok)
  PROVE  LET id == Head(toClient).packetId
         IN  /\ id \in PacketIds
             /\ OthersKept(id)
             /\ \/ /\ FlightsKept
                   /\ processStatus' \in {"IllegalState", "BadResponse"}
                   /\ Outgoing(id) # At(2, "PubRecPending")
                   /\ toClient' = Tail(toClient)
                   /\ UNCHANGED <<stored, link, toBroker>>
                \/ /\ Outgoing(id) = At(2, "PubRecPending")
                   /\ processStatus' \in {"Success", "SendFailed"}
                   /\ Flight(outgoing', id) =
                        IF ok THEN At(2, "PubCompPending")
                              ELSE At(2, "PubRelSend")
                   /\ stored' = CopiesBut(id)
                   /\ Transfer(ok, Ack("Pubrel", id), Tail(toClient))
  <1> DEFINE id       == Head(toClient).packetId
             updated  == UpdateStateAck(outgoing, id, "Pubrec", "RECEIVE")
             finished == UpdateStateAck(updated.records, id, "Pubrel", "SEND")
  <1>1. id \in PacketIds
    BY ArrivedPacket DEF HandlePubrec
  <1>2. IF updated.status # "Success"
          THEN /\ outgoing' = updated.records
               /\ processStatus' = updated.status
               /\ toClient' = Tail(toClient)
               /\ UNCHANGED <<stored, link, toBroker>>
          ELSE /\ stored' = CopiesBut(id)
               /\ Transfer(ok, Ack("Pubrel", id), Tail(toClient))
               /\ outgoing' = IF ok THEN finished.records
                              ELSE updated.records
               /\ processStatus' = IF ok THEN finished.status ELSE "SendFailed"
    BY DEF HandlePubrec
  <1> HIDE DEF id
  <1>3. OutgoingTable(outgoing) /\ OutgoingTable(updated.records)
    BY <1>1, AckedTables DEF Types, MQTTPubAckType
  <1>4. IF Flight(outgoing, id) = At(2, "PubRecPending")
          THEN Accepted(outgoing, id, updated, At(2, "PubRelSend"))
          ELSE Refused(outgoing, id, updated)
    BY <1>1, <1>3, OutgoingAck, SessionAssumption DEF OutgoingTable
  <1> HIDE DEF updated
  <1>5. Flight(updated.records, id) = At(2, "PubRelSend") =>
          Accepted(updated.records, id, finished, At(2, "PubCompPending"))
    BY <1>1, <1>3, OutgoingAck, SessionAssumption DEF OutgoingTable
  <1> HIDE DEF finished
  <1>6. CASE Flight(outgoing, id) = At(2, "PubRecPending")
    <2>1. /\ updated.status = "Success"
          /\ Flight(updated.records, id) = At(2, "PubRelSend")
          /\ \A x \in PacketIds \ {id} :
               Flight(updated.records, x) = Flight(outgoing, x)
      BY <1>4, <1>6 DEF Accepted
    <2>2. /\ finished.status = "Success"
          /\ Flight(finished.records, id) = At(2, "PubCompPending")
          /\ \A x \in PacketIds \ {id} :
               Flight(finished.records, x) = Flight(updated.records, x)
      BY <1>5, <2>1 DEF Accepted
    <2> QED
      BY <1>1, <1>2, <1>6, <2>1, <2>2 DEF OthersKept, Outgoing, id
  <1>7. CASE Flight(outgoing, id) # At(2, "PubRecPending")
    <2>1. /\ updated.status \in {"IllegalState", "BadResponse"}
          /\ updated.records = outgoing
      BY <1>4, <1>7 DEF Refused
    <2> QED
      BY <1>1, <1>2, <1>7, <2>1 DEF OthersKept, FlightsKept, Outgoing, id
  <1> QED
    BY <1>6, <1>7

LEMMA ResentOutgoing ==
  ASSUME Types, Links, SelectedFits, NEW ok \in BOOLEAN, ResendPubrel(ok)
  PROVE  LET id == selected.packetId
         IN  /\ selected \in PubrelPacket /\ id \in PacketIds
             /\ OthersKept(id)
             /\ Outgoing(id) \in Releasing
             /\ \/ /\ connectStatus # "Connected" \/ ~ok
                   /\ FlightsKept
                   /\ pc' = "failing"
                \/ /\ connectStatus = "Connected" /\ ok
                   /\ Flight(outgoing', id) = At(2, "PubCompPending")
                   /\ pc' = "pubrels"
             /\ IF connectStatus = "Connected"
                  THEN Transfer(ok, selected, toClient)
                  ELSE UNCHANGED netVars
  <1> DEFINE id       == selected.packetId
             finished == UpdateStateAck(outgoing, id, "Pubrel", "SEND")
  <1>1. selected \in PubrelPacket
    BY DEF ResendPubrel, Links
  <1>2. id \in PacketIds /\ Outgoing(id) \in Releasing
    BY <1>1, PacketKinds DEF SelectedFits
  <1>3. /\ pc = "pubrels"
        /\ IF connectStatus = "Connected"
             THEN /\ Transfer(ok, selected, toClient)
                  /\ outgoing' = IF ok THEN finished.records ELSE outgoing
                  /\ pc' = IF ok /\ finished.status = "Success"
                             THEN pc ELSE "failing"
             ELSE /\ ~ok
                  /\ pc' = "failing"
                  /\ outgoing' = outgoing
                  /\ UNCHANGED netVars
    BY DEF ResendPubrel
  <1> HIDE DEF id
  <1>4. Accepted(outgoing, id, finished, At(2, "PubCompPending"))
    BY <1>2, OutgoingAck, SessionAssumption
    DEF Types, OutgoingTable, Outgoing, Releasing
  <1> HIDE DEF finished
  <1>5. /\ finished.status = "Success"
        /\ Flight(finished.records, id) = At(2, "PubCompPending")
        /\ \A x \in PacketIds \ {id} :
             Flight(finished.records, x) = Flight(outgoing, x)
    BY <1>4 DEF Accepted
  <1> QED
    BY <1>1, <1>2, <1>3, <1>5 DEF OthersKept, FlightsKept, id

LEMMA ClearedOutgoing ==
  ASSUME ConnectNewSession
  PROVE  \A x \in PacketIds : Flight(outgoing', x) = NoFlight
  <1>1. outgoing' = EmptyTable(OutgoingPublishCount)
    BY DEF ConnectNewSession
  <1>2. \A x \in PacketIds : Progress(outgoing')[x] = NoFlight
    BY <1>1, EmptyTableView, SessionAssumption DEF NoFlight
  <1> QED
    BY <1>2 DEF Progress

-----------------------------------------------------------------------------
(* Copies and records.                                                     *)

\* A copy is of the message its identifier stands for, and its record is one
\* that a resumption sends a PUBLISH for.
CopiesFit ==
  \A copy \in stored :
    /\ Outgoing(copy.packetId) \in Resendable(copy.qos)
    /\ messageOf[copy.packetId] = copy.message

Records == CopiesFit /\ PublishingFits /\ SelectedFits

LEMMA InitRecords == Init => Records
  BY PacketKinds DEF Init, Records, CopiesFit, PublishingFits, SelectedFits

LEMMA RecordsKept ==
  ASSUME Types, Records, FlightsKept,
         UNCHANGED <<messageOf, published>>,
         \/ stored' \subseteq stored
         \/ publishing # Nothing /\ stored' \subseteq stored \cup {publishing},
         publishing' \in {publishing, Nothing},
         selected' \in {selected, Nothing}
  PROVE  Records'
  <1>1. CopiesFit'
    <2> SUFFICES ASSUME NEW copy \in stored'
                 PROVE  /\ Flight(outgoing', copy.packetId)
                             \in Resendable(copy.qos)
                        /\ messageOf'[copy.packetId] = copy.message
      BY DEF CopiesFit, Outgoing
    <2>1. CASE copy \in stored
      <3>1. copy.packetId \in PacketIds
        BY <2>1, PacketKinds DEF Types
      <3> QED
        BY <2>1, <3>1 DEF Records, CopiesFit, Outgoing, FlightsKept
    <2>2. CASE publishing # Nothing /\ copy = publishing
      <3>1. copy.packetId \in PacketIds
        BY <2>2, PacketKinds DEF Types
      <3> QED
        BY <2>2, <3>1
        DEF Records, PublishingFits, Outgoing, FlightsKept, Resendable
    <2> QED
      BY <2>1, <2>2
  <1>2. PublishingFits'
    <2> SUFFICES ASSUME publishing' # Nothing PROVE PublishingFits'
      BY DEF PublishingFits
    <2>1. publishing' = publishing /\ publishing.packetId \in PacketIds
      BY PacketKinds DEF Types
    <2> QED
      BY <2>1 DEF Records, PublishingFits, Outgoing, FlightsKept
  <1>3. SelectedFits'
    <2>1. CASE selected' = selected
      BY <2>1, PacketKinds DEF Records, SelectedFits, Outgoing, FlightsKept
    <2>2. CASE selected' = Nothing
      BY <2>2, PacketKinds DEF SelectedFits
    <2> QED
      BY <2>1, <2>2
  <1> QED
    BY <1>1, <1>2, <1>3 DEF Records

\* Nobody works on a record, and the one about id changes; copies of it stay
\* only if it had none.
LEMMA RecordsChanged ==
  ASSUME Types, Records, NEW id \in PacketIds, OthersKept(id),
         publishing' = Nothing, selected' = Nothing,
         UNCHANGED messageOf,
         \/ stored' = CopiesBut(id)
         \/ stored' = stored /\ \A q \in {1, 2} : Outgoing(id) \notin Resendable(q)
  PROVE  Records'
  <1>1. \A copy \in stored' : copy \in stored /\ copy.packetId # id
    BY PacketKinds DEF CopiesBut, Copies, Records, CopiesFit, Types
  <1>2. \A copy \in stored' : copy.packetId \in PacketIds
    BY <1>1, PacketKinds DEF Types
  <1>3. CopiesFit'
    BY <1>1, <1>2 DEF Records, CopiesFit, Outgoing, OthersKept
  <1> QED
    BY <1>3, PacketKinds DEF Records, PublishingFits, SelectedFits

LEMMA SendRecords ==
  ASSUME Types, Links, Records, MQTT_Publish
  PROVE  Records'
  <1> USE DEF contextVars, appVars, receivedVars, cursorVars, threadVars,
              netVars, brokerVars
  <1>1. CASE PublishRefused
    BY <1>1, RefusedOutgoing, RecordsKept DEF PublishRefused
  <1>2. ASSUME NEW q \in PublishQoS, Reserve(q)
        PROVE  Records'
    <2> DEFINE id == nextPacketId
    <2>1. /\ id \in PacketIds /\ q \in {1, 2}
          /\ OthersKept(id)
          /\ Flight(outgoing, id) = NoFlight
          /\ Flight(outgoing', id) = At(q, "PublishSend")
          /\ publishing' = Publish(id, q, published + 1)
          /\ publishing' \in PublishPacket
          /\ published' = published + 1
          /\ messageOf' = [messageOf EXCEPT ![id] = published + 1]
      BY <1>2, ReservedOutgoing
    <2>2. UNCHANGED <<stored, selected>>
      BY <1>2 DEF Reserve
    <2> HIDE DEF id
    <2>3. /\ messageOf'[id] = published + 1
          /\ \A x \in PacketIds \ {id} : messageOf'[x] = messageOf[x]
      BY <2>1 DEF Types
    <2>4. CopiesFit'
      <3> SUFFICES ASSUME NEW copy \in stored
                   PROVE  /\ Flight(outgoing', copy.packetId)
                               \in Resendable(copy.qos)
                          /\ messageOf'[copy.packetId] = copy.message
        BY <2>2 DEF CopiesFit, Outgoing
      <3>1. copy.packetId \in PacketIds /\ copy.qos \in {1, 2}
        BY PacketKinds DEF Types
      <3>2. /\ Flight(outgoing, copy.packetId) \in Resendable(copy.qos)
            /\ messageOf[copy.packetId] = copy.message
        BY DEF Records, CopiesFit, Outgoing
      <3>3. copy.packetId # id
        BY <2>1, <3>1, <3>2, FlightsDiffer
      <3> QED
        BY <2>1, <2>3, <3>1, <3>2, <3>3 DEF OthersKept
    <2>5. PublishingFits'
      <3>1. /\ publishing'.packetId = id /\ publishing'.qos = q
            /\ publishing'.message = published + 1
        BY <2>1 DEF Publish
      <3> QED
        BY <2>1, <2>3, <3>1 DEF PublishingFits, Outgoing
    <2>6. SelectedFits'
      <3>1. ASSUME selected \in PubrelPacket \cup PublishPacket
            PROVE  selected.packetId \in PacketIds \ {id}
        <4>1. selected.packetId \in PacketIds
          BY <3>1, PacketKinds
        <4>2. Flight(outgoing, selected.packetId) # NoFlight
          BY <3>1, PacketKinds, FlightsDiffer
          DEF Records, SelectedFits, Outgoing
        <4> QED
          BY <2>1, <4>1, <4>2
      <3> QED
        BY <2>1, <2>2, <2>3, <3>1
        DEF Records, SelectedFits, Outgoing, OthersKept
    <2> QED
      BY <2>4, <2>5, <2>6 DEF Records
  <1>3. CASE PublishNotStored
    <2>1. FlightsKept
      BY <1>3 DEF PublishNotStored, FlightsKept
    <2> QED
      BY <1>3, <2>1, RecordsKept DEF PublishNotStored
  <1>4. CASE PublishNotSent
    <2>1. FlightsKept
      BY <1>4 DEF PublishNotSent, FlightsKept
    <2>2. publishing # Nothing /\ stored' \subseteq stored \cup {publishing}
      BY <1>4 DEF PublishNotSent, CopiesBut, Unlocked
    <2> QED
      BY <1>4, <2>1, <2>2, RecordsKept DEF PublishNotSent
  <1>5. CASE PublishSent
    <2> DEFINE id == publishing.packetId
               q  == publishing.qos
    <2>1. /\ publishing \in PublishPacket
          /\ OthersKept(id)
          /\ Outgoing(id) = At(q, "PublishSend")
          /\ Flight(outgoing', id) = At(q, Pending(q))
          /\ publishing # Nothing
      BY <1>5, SentOutgoing DEF Records, PublishSent, Unlocked
    <2>2. id \in PacketIds /\ q \in {1, 2}
      BY <2>1, PacketKinds
    <2>3. /\ stored' = CopiesBut(id) \cup {publishing}
          /\ publishing' = Nothing
          /\ UNCHANGED <<messageOf, selected>>
      BY <1>5 DEF PublishSent
    <2> HIDE DEF id, q
    <2>4. CopiesFit'
      <3> SUFFICES ASSUME NEW copy \in stored'
                   PROVE  /\ Flight(outgoing', copy.packetId)
                               \in Resendable(copy.qos)
                          /\ messageOf'[copy.packetId] = copy.message
        BY DEF CopiesFit, Outgoing
      <3>1. CASE copy = publishing
        BY <2>1, <2>3, <3>1
        DEF Records, PublishingFits, Resendable, id, q
      <3>2. CASE copy \in stored /\ copy.packetId # id
        <4>1. copy.packetId \in PacketIds
          BY <3>2, PacketKinds DEF Types
        <4> QED
          BY <2>1, <2>3, <3>2, <4>1
          DEF Records, CopiesFit, Outgoing, OthersKept
      <3> QED
        BY <2>3, <3>1, <3>2 DEF CopiesBut, Copies
    <2>5. PublishingFits'
      BY <2>3 DEF PublishingFits
    <2>6. SelectedFits'
      <3>1. ASSUME selected \in PubrelPacket
            PROVE  Flight(outgoing', selected.packetId) \in Releasing
        <4>1. selected.packetId \in PacketIds
          BY <3>1, PacketKinds
        <4>2. Outgoing(selected.packetId) \in Releasing
          BY <3>1 DEF Records, SelectedFits
        <4>3. selected.packetId # id
          BY <2>1, <2>2, <4>2, FlightsDiffer DEF Resendable
        <4> QED
          BY <2>1, <4>1, <4>2, <4>3 DEF OthersKept, Outgoing
      <3>2. ASSUME selected \in PublishPacket
            PROVE  /\ Flight(outgoing', selected.packetId)
                        \in Resendable(selected.qos)
                   /\ messageOf[selected.packetId] = selected.message
        <4>1. selected.packetId \in PacketIds /\ selected.qos \in {1, 2}
          BY <3>2, PacketKinds
        <4>2. /\ Outgoing(selected.packetId) \in Resendable(selected.qos)
              /\ messageOf[selected.packetId] = selected.message
          BY <3>2 DEF Records, SelectedFits
        <4>3. CASE selected.packetId = id
          <5>1. At(q, "PublishSend") \in Resendable(q)
            BY DEF Resendable
          <5>2. selected.qos = q
            BY <2>1, <2>2, <4>1, <4>2, <4>3, <5>1, FlightsDiffer
          <5> QED
            BY <2>1, <4>2, <4>3, <5>2 DEF Resendable
        <4>4. CASE selected.packetId # id
          BY <2>1, <4>1, <4>2, <4>4 DEF OthersKept, Outgoing
        <4> QED
          BY <4>3, <4>4
      <3> QED
        BY <2>3, <3>1, <3>2 DEF SelectedFits, Outgoing
    <2> QED
      BY <2>4, <2>5, <2>6 DEF Records
  <1> QED
    BY <1>1, <1>2, <1>3, <1>4, <1>5 DEF MQTT_Publish

LEMMA ProcessRecords ==
  ASSUME Types, Links, Records, ProcessLoop
  PROVE  Records'
  <1> USE DEF contextVars, appVars, receivedVars, cursorVars, threadVars,
              netVars, brokerVars
  <1>1. CASE ReceiveNothing \/ ReceiveFails
    <2>1. FlightsKept
      BY <1>1 DEF ReceiveNothing, ReceiveFails, vars, FlightsKept
    <2> QED
      BY <1>1, <2>1, RecordsKept DEF ReceiveNothing, ReceiveFails, vars
  <1>2. CASE HandlePubackOrPubcomp
    <2> DEFINE id   == Head(toClient).packetId
               type == Head(toClient).type
    <2>1. /\ UNCHANGED <<messageOf, published, selected, publishing>>
          /\ pc = "idle" /\ publishing = Nothing
      BY <1>2 DEF HandlePubackOrPubcomp, Arrived, Idle, Unlocked
    <2>2. selected = Nothing
      BY <2>1 DEF Links
    <2>3. /\ id \in PacketIds /\ type \in {"Puback", "Pubcomp"}
          /\ OthersKept(id)
          /\ \/ FlightsKept /\ stored' = stored
             \/ type = "Puback" /\ stored' = CopiesBut(id)
             \/ stored' = stored /\ Outgoing(id) = At(2, "PubCompPending")
      BY <1>2, AckedOutgoing
    <2> HIDE DEF id, type
    <2>4. \A q \in {1, 2} : At(2, "PubCompPending") \notin Resendable(q)
      BY FlightsDiffer DEF Releasing
    <2>5. CASE FlightsKept /\ stored' = stored
      BY <2>1, <2>5, RecordsKept
    <2>6. CASE \/ stored' = CopiesBut(id)
               \/ stored' = stored /\ Outgoing(id) = At(2, "PubCompPending")
      BY <2>1, <2>2, <2>3, <2>4, <2>6, RecordsChanged
    <2> QED
      BY <2>3, <2>5, <2>6
  <1>3. ASSUME NEW ok \in BOOLEAN, HandlePubrec(ok)
        PROVE  Records'
    <2> DEFINE id == Head(toClient).packetId
    <2>1. /\ UNCHANGED <<messageOf, published, selected, publishing>>
          /\ pc = "idle" /\ publishing = Nothing
      BY <1>3 DEF HandlePubrec, Arrived, Idle, Unlocked
    <2>2. selected = Nothing
      BY <2>1 DEF Links
    <2>3. /\ id \in PacketIds
          /\ OthersKept(id)
          /\ \/ FlightsKept /\ stored' = stored
             \/ stored' = CopiesBut(id)
      BY <1>3, PubrecOutgoing
    <2> HIDE DEF id
    <2>4. CASE FlightsKept /\ stored' = stored
      BY <2>1, <2>4, RecordsKept
    <2>5. CASE stored' = CopiesBut(id)
      BY <2>1, <2>2, <2>3, <2>5, RecordsChanged
    <2> QED
      BY <2>3, <2>4, <2>5
  <1>4. ASSUME NEW ok \in BOOLEAN, HandlePublish(ok) \/ HandlePubrel(ok)
        PROVE  Records'
    <2>1. UNCHANGED <<outgoing, stored, messageOf, published, selected,
                      publishing>>
      BY <1>4 DEF HandlePublish, HandlePubrel
    <2>2. FlightsKept
      BY <2>1 DEF FlightsKept
    <2> QED
      BY <2>1, <2>2, RecordsKept
  <1> QED
    BY <1>1, <1>2, <1>3, <1>4 DEF ProcessLoop

\* The record behind a flight.
LEMMA RecordOf ==
  ASSUME Types, NEW id \in PacketIds, Outgoing(id) # NoFlight
  PROVE  \E i \in DOMAIN outgoing :
           /\ outgoing[i].packetId = id
           /\ Outgoing(id) = At(outgoing[i].qos, outgoing[i].publishState)
  <1>1. Good(outgoing, OutgoingPublishCount, OutgoingFlights)
    BY DEF Types, OutgoingTable
  <1>2. Holds(outgoing, id)
    BY FlightAbsent DEF Outgoing, NoFlight
  <1> DEFINE i == FindInRecord(outgoing, id)
  <1>3. i \in 1..OutgoingPublishCount /\ outgoing[i].packetId = id
    BY <1>1, <1>2, FoundRecord, SessionAssumption
  <1> HIDE DEF i
  <1>4. Outgoing(id) = At(outgoing[i].qos, outgoing[i].publishState)
    BY <1>1, <1>3, FlightAt, SessionAssumption DEF Outgoing
  <1>5. i \in DOMAIN outgoing
    BY <1>1, <1>3 DEF Good
  <1> QED
    BY <1>3, <1>4, <1>5

\* A copy is found where a resumption would look for its record.
LEMMA CopyHasRecord ==
  ASSUME Types, CopiesFit, NEW copy \in stored
  PROVE  \E i \in DOMAIN outgoing :
           /\ outgoing[i].packetId = copy.packetId
           /\ outgoing[i].qos = copy.qos
           /\ outgoing[i].publishState \in PublishToResendStates
  <1>1. copy.packetId \in PacketIds /\ copy.qos \in {1, 2}
    BY PacketKinds DEF Types
  <1>2. Outgoing(copy.packetId) \in Resendable(copy.qos)
    BY DEF CopiesFit
  <1>3. Outgoing(copy.packetId) # NoFlight
    BY <1>1, <1>2, FlightsDiffer
  <1>4. PICK i \in DOMAIN outgoing :
          /\ outgoing[i].packetId = copy.packetId
          /\ Outgoing(copy.packetId) =
               At(outgoing[i].qos, outgoing[i].publishState)
    BY <1>1, <1>3, RecordOf
  <1>5. /\ outgoing[i].qos = copy.qos
        /\ outgoing[i].publishState \in {"PublishSend", Pending(copy.qos)}
    BY <1>2, <1>4 DEF Resendable, At
  <1>6. outgoing[i].publishState \in PublishToResendStates
    BY <1>1, <1>5 DEF Pending, PublishToResendStates
  <1> QED
    BY <1>4, <1>5, <1>6

LEMMA ConnectRecords ==
  ASSUME Types, Links, Records, Connect \/ Disconnect
  PROVE  Records'
  <1> USE DEF contextVars, appVars, receivedVars, cursorVars, threadVars,
              netVars, brokerVars
  <1>1. CASE \/ Disconnect \/ ConnectResumedSession \/ SelectionEnds
             \/ ConnectFails \/ RetrieveFails
             \/ \E ok \in BOOLEAN : ResendPublish(ok)
    <2>1. /\ UNCHANGED <<outgoing, stored, messageOf, published, publishing>>
          /\ selected' \in {selected, Nothing}
      BY <1>1 DEF Disconnect, ConnectResumedSession, SelectionEnds,
                  ConnectFails, RetrieveFails, Selecting, ResendPublish
    <2>2. FlightsKept
      BY <2>1 DEF FlightsKept
    <2> QED
      BY <2>1, <2>2, RecordsKept
  <1>2. CASE ConnectNewSession
    <2>1. /\ pc = "idle" /\ publishing' = Nothing
          /\ selected' = selected /\ stored' = Cleared
      BY <1>2 DEF ConnectNewSession, Idle, Unlocked
    <2>2. selected = Nothing
      BY <2>1 DEF Links
    <2>3. Cleared = {}
      <3> SUFFICES ASSUME NEW copy \in Cleared PROVE FALSE
        OBVIOUS
      <3>1. copy \in stored
        BY DEF Cleared
      <3> QED
        BY <3>1, CopyHasRecord DEF Records, Cleared
    <2> QED
      BY <2>1, <2>2, <2>3, PacketKinds
      DEF Records, CopiesFit, PublishingFits, SelectedFits
  <1>3. CASE SelectPubrel \/ SelectPublish
    <2> DEFINE id == Selection.packetId
    <2>1. PICK step \in {"pubrels", "publishes"} : Selecting(step)
      BY <1>3 DEF SelectPubrel, SelectPublish
    <2>2. UNCHANGED <<outgoing, stored, messageOf, published, publishing>>
      BY <2>1 DEF Selecting
    <2>3. CopiesFit' /\ PublishingFits'
      BY <2>2 DEF Records, CopiesFit, PublishingFits, Outgoing
    <2>4. CASE SelectPubrel
      <3>1. /\ id # MQTT_PACKET_ID_INVALID
            /\ Selection = StateSelect(outgoing, PubrelToResendStates, cursor)
        BY <2>4 DEF SelectPubrel, Selecting, Selection
      <3>2. PICK i \in 1..OutgoingPublishCount :
              /\ outgoing[i].packetId = id
              /\ outgoing[i].publishState \in PubrelToResendStates
              /\ id \in PacketIds
              /\ Flight(outgoing, id) =
                   At(outgoing[i].qos, outgoing[i].publishState)
        <4> DEFINE chosen == StateSelect(outgoing, PubrelToResendStates, cursor)
                   k      == chosen.cursor
        <4>1. /\ Good(outgoing, OutgoingPublishCount, OutgoingFlights)
              /\ OutgoingPublishCount \in Nat
              /\ cursor \in Nat
          BY SessionAssumption DEF Types, OutgoingTable
        <4>2. chosen.packetId = id /\ chosen.packetId # MQTT_PACKET_ID_INVALID
          BY <3>1
        <4>3. /\ k \in 1..OutgoingPublishCount
              /\ outgoing[k].packetId = chosen.packetId
              /\ outgoing[k].publishState \in PubrelToResendStates
              /\ chosen.packetId \in PacketIds
              /\ Flight(outgoing, chosen.packetId) =
                   At(outgoing[k].qos, outgoing[k].publishState)
          BY <4>1, <4>2, SelectsRecord
        <4> HIDE DEF chosen, id, k
        <4> QED
          BY <4>2, <4>3
      <3> HIDE DEF id
      <3>3. At(outgoing[i].qos, outgoing[i].publishState) \in OutgoingFlights
        <4>1. Flight(outgoing, id) \in OutgoingFlights \cup {NoFlight}
          BY <3>2, FlightKinds, SessionAssumption
          DEF Types, OutgoingTable, NoFlight
        <4>2. At(outgoing[i].qos, outgoing[i].publishState) # NoFlight
          BY <3>2 DEF At, NoFlight, PubrelToResendStates
        <4> QED
          BY <3>2, <4>1, <4>2
      <3>4. Outgoing(id) \in Releasing
        BY <3>2, <3>3
        DEF Outgoing, OutgoingFlights, PubrelToResendStates, Releasing, At
      <3>5. selected' = Ack("Pubrel", id)
        BY <2>4 DEF SelectPubrel, id
      <3>6. /\ selected'.packetId = id
            /\ selected' \notin PublishPacket
        BY <3>5, PacketKinds DEF Ack
      <3>7. SelectedFits'
        BY <2>2, <3>4, <3>6 DEF SelectedFits, Outgoing
      <3> QED
        BY <2>3, <3>7 DEF Records
    <2>5. CASE SelectPublish
      <3>1. selected' \in stored
        BY <2>5 DEF SelectPublish, Copies
      <3>2. selected' \notin PubrelPacket
        BY <3>1, PacketKinds DEF Types
      <3>3. SelectedFits'
        BY <2>2, <3>1, <3>2 DEF SelectedFits, Records, CopiesFit, Outgoing
      <3> QED
        BY <2>3, <3>3 DEF Records
    <2> QED
      BY <1>3, <2>4, <2>5
  <1>4. ASSUME NEW ok \in BOOLEAN, ResendPubrel(ok)
        PROVE  Records'
    <2> DEFINE id == selected.packetId
    <2>1. /\ id \in PacketIds
          /\ OthersKept(id)
          /\ Outgoing(id) \in Releasing
      BY <1>4, ResentOutgoing DEF Records
    <2>2. \A q \in {1, 2} : Outgoing(id) \notin Resendable(q)
      BY <2>1, FlightsDiffer
    <2> HIDE DEF id
    <2>3. publishing' = Nothing /\ selected' = Nothing
      BY <1>4 DEF ResendPubrel, Unlocked
    <2>4. UNCHANGED <<messageOf, stored>>
      BY <1>4 DEF ResendPubrel
    <2> QED
      BY <2>1, <2>2, <2>3, <2>4, RecordsChanged
  <1> QED
    BY <1>1, <1>2, <1>3, <1>4 DEF Connect

LEMMA NextRecords ==
  ASSUME Types, Links, Records, [Next]_vars
  PROVE  Records'
  <1> USE DEF contextVars, appVars, receivedVars, cursorVars, threadVars,
              netVars, brokerVars
  <1>1. CASE \/ UNCHANGED vars \/ Broker \/ BrokerForgets \/ LinkBreaks
             \/ \E id \in PacketIds, q \in PublishQoS : BrokerSendsPublish(id, q)
    <2>1. UNCHANGED <<outgoing, stored, messageOf, published, publishing,
                      selected>>
      BY <1>1 DEF vars, Broker, BrokerTakesPublish, BrokerTakesPubrel,
                  BrokerTakesPubackOrPubrec, BrokerTakesPubcomp,
                  BrokerForgets, LinkBreaks, BrokerSendsPublish
    <2>2. FlightsKept
      BY <2>1 DEF FlightsKept
    <2> QED
      BY <2>1, <2>2, RecordsKept
  <1> QED
    BY <1>1, SendRecords, ProcessRecords, ConnectRecords DEF Next

Base == Types /\ Links /\ Records

LEMMA BaseInvariant == Spec => []Base
  <1>1. Init => Base
    BY InitTypes, InitLinks, InitRecords DEF Base
  <1>2. Base /\ [Next]_vars => Base'
    BY NextTypes, NextLinks, NextRecords DEF Base
  <1> QED
    BY <1>1, <1>2, PTL DEF Spec

\* Whatever fails, a copy is kept for a publish that would be sent again, and
\* is of the message its identifier was last used for: no copy outlives its
\* record (storeFunction and clearFunction).
THEOREM CopiesAreOfRecords == Spec => []CopiesBelongToRecords
  <1>1. Base => CopiesBelongToRecords
    BY CopyHasRecord DEF Base, Records, CopiesFit, CopiesBelongToRecords
  <1> QED
    BY <1>1, BaseInvariant, PTL

\* There is a copy, or MQTT_Publish is about to store it.
CopyKept ==
  \A id \in PacketIds, q \in {1, 2} :
    Outgoing(id) \in Resendable(q) =>
      \/ Copies(id) # {}
      \/ publishing # Nothing /\ publishing.packetId = id

LEMMA CopyKeptStays ==
  ASSUME CopyKept,
         \A id \in PacketIds, q \in {1, 2} :
           Flight(outgoing', id) \in Resendable(q) =>
             \/ Copies(id)' # {}
             \/ publishing' # Nothing /\ publishing'.packetId = id
             \/ /\ Outgoing(id) \in Resendable(q)
                /\ Copies(id) \subseteq stored'
                /\ \/ publishing' = publishing
                   \/ publishing = Nothing \/ publishing.packetId # id
  PROVE  CopyKept'
  <1> SUFFICES ASSUME NEW id \in PacketIds, NEW q \in {1, 2},
                      Flight(outgoing', id) \in Resendable(q)
               PROVE  \/ Copies(id)' # {}
                      \/ publishing' # Nothing /\ publishing'.packetId = id
    BY DEF CopyKept, Outgoing
  <1>1. Copies(id) \subseteq stored' => Copies(id) \subseteq Copies(id)'
    BY DEF Copies
  <1> QED
    BY <1>1 DEF CopyKept

LEMMA NextCopyKept ==
  ASSUME StoreMayFail = FALSE, Base, Base', CopyKept, [Next]_vars
  PROVE  CopyKept'
  <1> USE DEF contextVars, appVars, receivedVars, cursorVars, threadVars,
              netVars, brokerVars
  <1> USE DEF Base, Records
  <1>1. ASSUME FlightsKept, UNCHANGED <<stored, publishing>>
        PROVE  CopyKept'
    BY <1>1, CopyKeptStays DEF FlightsKept, Outgoing, Copies
  <1>2. CASE UNCHANGED <<outgoing, stored, publishing>>
    BY <1>1, <1>2 DEF FlightsKept
  <1>3. CASE PublishRefused
    BY <1>1, <1>3, RefusedOutgoing DEF PublishRefused
  <1>4. ASSUME NEW q \in PublishQoS, Reserve(q)
        PROVE  CopyKept'
    <2>1. /\ OthersKept(nextPacketId)
          /\ publishing' = Publish(nextPacketId, q, published + 1)
          /\ publishing' \in PublishPacket
      BY <1>4, ReservedOutgoing
    <2>2. /\ publishing' # Nothing
          /\ publishing'.packetId = nextPacketId
      BY <2>1, PacketKinds DEF Publish
    <2>3. stored' = stored /\ publishing = Nothing
      BY <1>4 DEF Reserve, MayPublish, Unlocked
    <2> QED
      BY <2>1, <2>2, <2>3, CopyKeptStays DEF OthersKept, Outgoing, Copies
  <1>5. CASE PublishSent \/ PublishNotSent
    <2>1. publishing # Nothing /\ publishing.packetId \in PacketIds
      BY <1>5, PacketKinds DEF PublishSent, PublishNotSent, Unlocked, Types
    <2>2. PICK id \in PacketIds : id = publishing.packetId
      BY <2>1
    <2>3. stored' = CopiesBut(id) \cup {publishing}
      BY <1>5, <2>2 DEF PublishSent, PublishNotSent
    <2>4. OthersKept(id)
      BY <1>5, <2>2, SentOutgoing DEF PublishNotSent, OthersKept
    <2>5. publishing \in Copies(id)'
      BY <2>2, <2>3 DEF Copies
    <2>6. \A x \in PacketIds : x # id => Copies(x) \subseteq stored'
      BY <2>3 DEF CopiesBut, Copies
    <2> QED
      BY <2>2, <2>4, <2>5, <2>6, CopyKeptStays DEF OthersKept, Outgoing
  <1>6. CASE HandlePubackOrPubcomp
    <2> DEFINE id == Head(toClient).packetId
    <2>1. /\ OthersKept(id)
          /\ \/ FlightsKept /\ stored' = stored
             \/ /\ Flight(outgoing', id) = NoFlight
                /\ stored' \in {stored, CopiesBut(id)}
      BY <1>6, AckedOutgoing
    <2>2. publishing' = publishing
      BY <1>6 DEF HandlePubackOrPubcomp
    <2> HIDE DEF id
    <2>3. CASE /\ Flight(outgoing', id) = NoFlight
               /\ stored' \in {stored, CopiesBut(id)}
      BY <2>1, <2>2, <2>3, FlightsDiffer, CopyKeptStays
      DEF OthersKept, Outgoing, Copies, CopiesBut
    <2> QED
      BY <1>1, <2>1, <2>2, <2>3
  <1>7. ASSUME NEW ok \in BOOLEAN, HandlePubrec(ok)
        PROVE  CopyKept'
    <2> DEFINE id == Head(toClient).packetId
    <2>1. /\ OthersKept(id)
          /\ \/ FlightsKept /\ stored' = stored
             \/ Flight(outgoing', id) \in Releasing /\ stored' = CopiesBut(id)
      BY <1>7, PubrecOutgoing DEF Releasing
    <2>2. publishing' = publishing
      BY <1>7 DEF HandlePubrec
    <2> HIDE DEF id
    <2>3. CASE Flight(outgoing', id) \in Releasing /\ stored' = CopiesBut(id)
      BY <2>1, <2>2, <2>3, FlightsDiffer, CopyKeptStays
      DEF OthersKept, Outgoing, Copies, CopiesBut
    <2> QED
      BY <1>1, <2>1, <2>2, <2>3
  <1>8. CASE ConnectNewSession
    BY <1>8, ClearedOutgoing, FlightsDiffer, CopyKeptStays
  <1>9. ASSUME NEW ok \in BOOLEAN, ResendPubrel(ok)
        PROVE  CopyKept'
    <2> DEFINE id == selected.packetId
    <2>1. /\ OthersKept(id)
          /\ \/ FlightsKept
             \/ Flight(outgoing', id) \in Releasing
      BY <1>9, ResentOutgoing DEF Releasing
    <2>2. UNCHANGED <<stored, publishing>>
      BY <1>9 DEF ResendPubrel
    <2> HIDE DEF id
    <2>3. CASE Flight(outgoing', id) \in Releasing
      BY <2>1, <2>2, <2>3, FlightsDiffer, CopyKeptStays
      DEF OthersKept, Outgoing, Copies
    <2> QED
      BY <1>1, <2>1, <2>2, <2>3
  <1>10. CASE MQTT_Publish
    BY <1>3, <1>4, <1>5, <1>10 DEF MQTT_Publish, PublishNotStored
  <1>11. CASE ProcessLoop
    BY <1>2, <1>6, <1>7, <1>11
    DEF ProcessLoop, ReceiveNothing, ReceiveFails, HandlePublish, HandlePubrel,
        vars
  <1>12. CASE Connect \/ Disconnect
    BY <1>2, <1>8, <1>9, <1>12
    DEF Connect, Disconnect, ConnectResumedSession, SelectionEnds,
        SelectPubrel, SelectPublish, RetrieveFails, Selecting, ConnectFails,
        ResendPublish
  <1>13. CASE Broker \/ UNCHANGED vars
    BY <1>2, <1>13
    DEF Broker, BrokerTakesPublish, BrokerTakesPubrel,
        BrokerTakesPubackOrPubrec, BrokerTakesPubcomp, vars
  <1>14. CASE \/ BrokerForgets \/ LinkBreaks
              \/ \E id \in PacketIds, q \in PublishQoS : BrokerSendsPublish(id, q)
    BY <1>2, <1>14 DEF BrokerSendsPublish, BrokerForgets, LinkBreaks
  <1> QED
    BY <1>10, <1>11, <1>12, <1>13, <1>14 DEF Next

\* The copy of a record, where there is one.
LEMMA OneCopy ==
  ASSUME Base, CopyKept, NEW id \in PacketIds, NEW q \in {1, 2},
         Outgoing(id) \in Resendable(q),
         publishing # Publish(id, q, published)
  PROVE  Copies(id) = {Publish(id, q, messageOf[id])}
  <1>1. ~(publishing # Nothing /\ publishing.packetId = id)
    <2> SUFFICES ASSUME publishing # Nothing, publishing.packetId = id
                 PROVE  FALSE
      OBVIOUS
    <2>1. publishing \in PublishPacket /\ publishing.qos \in {1, 2}
      BY PacketKinds DEF Base, Types
    <2>2. /\ Outgoing(id) = At(publishing.qos, "PublishSend")
          /\ publishing.message = published
      BY DEF Base, Records, PublishingFits
    <2>3. publishing.qos = q
      <3>1. At(publishing.qos, "PublishSend") \in Resendable(publishing.qos)
        BY DEF Resendable
      <3> QED
        BY <2>1, <2>2, <3>1, FlightsDiffer
    <2>4. publishing = Publish(id, q, published)
      BY <2>1, <2>2, <2>3 DEF PublishPacket, Publish
    <2> QED
      BY <2>4
  <1>2. Copies(id) # {}
    BY <1>1 DEF CopyKept
  <1>3. ASSUME NEW copy \in Copies(id)
        PROVE  copy = Publish(id, q, messageOf[id])
    <2>1. copy \in stored /\ copy.packetId = id
      BY DEF Copies
    <2>2. copy \in PublishPacket /\ copy.qos \in {1, 2}
      BY <2>1, PacketKinds DEF Base, Types
    <2>3. Outgoing(id) \in Resendable(copy.qos) /\ messageOf[id] = copy.message
      BY <2>1 DEF Base, Records, CopiesFit
    <2>4. copy.qos = q
      BY <2>2, <2>3, FlightsDiffer
    <2> QED
      BY <2>1, <2>2, <2>3, <2>4 DEF PublishPacket, Publish
  <1> QED
    BY <1>2, <1>3

\* When no store fails, every publish that a resumption would send again has
\* its copy, and only this one, except while MQTT_Publish is between its
\* record and its copy (storeFunction, retrieveFunction).
THEOREM ResendableHasCopy ==
  ASSUME StoreMayFail = FALSE
  PROVE  Spec => []ResendableIsStored
  <1>1. Init => CopyKept
    <2> SUFFICES ASSUME Init, NEW id \in PacketIds PROVE Outgoing(id) = NoFlight
      BY FlightsDiffer DEF CopyKept
    <2>1. Progress(outgoing)[id] = NoFlight
      BY EmptyTableView, SessionAssumption DEF Init, NoFlight
    <2> QED
      BY <2>1 DEF Progress, Outgoing
  <1>2. Base /\ Base' /\ CopyKept /\ [Next]_vars => CopyKept'
    BY StoreMayFail = FALSE, NextCopyKept
  <1>3. Base /\ CopyKept => ResendableIsStored
    <2> SUFFICES ASSUME Base, CopyKept, NEW i \in DOMAIN outgoing,
                        outgoing[i].publishState \in PublishToResendStates,
                        publishing # Publish(outgoing[i].packetId,
                                             outgoing[i].qos, published)
                 PROVE  LET id == outgoing[i].packetId
                        IN  Copies(id) =
                              {Publish(id, outgoing[i].qos, messageOf[id])}
      BY DEF ResendableIsStored
    <2> DEFINE id == outgoing[i].packetId
               q  == outgoing[i].qos
               s  == outgoing[i].publishState
    <2>1. Good(outgoing, OutgoingPublishCount, OutgoingFlights)
      BY DEF Base, Types, OutgoingTable
    <2>2. i \in 1..OutgoingPublishCount /\ outgoing[i] \in Slot
      BY <2>1 DEF Good
    <2>3. Occupied(outgoing[i])
      <3>1. outgoing[i] # EmptySlot
        BY DEF EmptySlot, PublishToResendStates
      <3> QED
        BY <2>1, <3>1 DEF Good, WellFormed
    <2>4. id \in PacketIds
      BY <2>2, <2>3 DEF Slot, Occupied
    <2>5. At(q, s) \in OutgoingFlights
      BY <2>1, <2>3 DEF Good, WellFormed, At
    <2>6. Outgoing(id) = At(q, s)
      BY <2>1, <2>2, <2>4, FlightAt, SessionAssumption DEF Outgoing
    <2>7. q \in {1, 2} /\ At(q, s) \in Resendable(q)
      BY <2>5 DEF OutgoingFlights, PublishToResendStates, Resendable, Pending, At
    <2> HIDE DEF id, q, s
    <2>8. Copies(id) = {Publish(id, q, messageOf[id])}
      BY <2>4, <2>6, <2>7, OneCopy DEF id, q
    <2> QED
      BY <2>8 DEF id, q
  <1> QED
    BY <1>1, <1>2, <1>3, BaseInvariant, PTL DEF Spec

-----------------------------------------------------------------------------
(* Inbound: what the broker has to hear about its messages.                *)

Incoming(id) == Flight(incoming, id)

\* What the broker sends, and what the client answers.
BrokerAsks == {"Publish", "Pubrel"}

ClientAnswers == {"Puback", "Pubrec", "Pubcomp"}

\* The broker waits for the answer of a client that has seen its message.
AwaitsAnswer(id, q) ==
  \E i \in DOMAIN outbound :
    /\ outbound[i].type = "Publish"
    /\ outbound[i].packetId = id
    /\ outbound[i].qos = q
    /\ outbound[i].message \in received

\* The broker has one entry for an identifier, and for a message.
OutboundFits ==
  /\ \A i, j \in DOMAIN outbound :
       outbound[i].packetId = outbound[j].packetId => i = j
  /\ \A i, j \in DOMAIN outbound :
       /\ outbound[i].type = "Publish"
       /\ outbound[j].type = "Publish"
       /\ outbound[i].message = outbound[j].message
       => i = j
  /\ \A i \in DOMAIN outbound :
       outbound[i].type = "Publish" => outbound[i].message \in 1..sent
  /\ received \subseteq 1..sent

OneInbound == OneCarrier(toBroker, ClientAnswers, toClient, BrokerAsks)

AsksFit ==
  \A i \in DOMAIN toClient :
    toClient[i].type \in BrokerAsks => In(outbound, toClient[i])

\* A record says that the callback has seen the message; for QoS 2 it is
\* there as long as the broker may send the message again.
EntriesFit ==
  \A i \in DOMAIN outbound :
    LET e == outbound[i]
    IN  e.type = "Publish" =>
          /\ Incoming(e.packetId) # NoFlight =>
               Incoming(e.packetId).qos = e.qos /\ e.message \in received
          /\ e.qos = 2 /\ e.message \in received =>
               Incoming(e.packetId) # NoFlight

AnswerFits(a) ==
  /\ a.type \in {"Puback", "Pubcomp"} => Incoming(a.packetId) = NoFlight
  /\ a.type = "Puback" => AwaitsAnswer(a.packetId, 1)
  /\ a.type = "Pubrec" => AwaitsAnswer(a.packetId, 2)
  /\ a.type = "Pubcomp" => In(outbound, Ack("Pubrel", a.packetId))

AnswersFit == \A i \in DOMAIN toBroker : AnswerFits(toBroker[i])

\* While the broker has the session, the client has no record that the broker
\* knows nothing of.
RecordsWait ==
  session =>
    \A id \in PacketIds : Incoming(id) # NoFlight => Outstanding(id) # {}

Inbound ==
  /\ OutboundFits
  /\ OneInbound
  /\ AsksFit
  /\ EntriesFit
  /\ AnswersFit
  /\ RecordsWait
  /\ ReceivedAtMostOnce
  /\ SettledIsReceived

LEMMA InitInbound == Init => Inbound
  <1> SUFFICES ASSUME Init PROVE Inbound
    OBVIOUS
  <1>1. OneInbound
    BY OneCarrierNothing DEF Init, OneInbound
  <1> QED
    BY <1>1
    DEF Init, Inbound, OutboundFits, AsksFit, EntriesFit, AnswersFit,
        RecordsWait, ReceivedAtMostOnce, SettledIsReceived

\* The wires carry nothing new that is inbound.
LEMMA InboundKept ==
  ASSUME Types, Inbound,
         UNCHANGED <<incoming, received, receivedAgain, outbound, sent, settled,
                     session>>,
         OneInbound',
         \A i \in DOMAIN toClient' :
           toClient'[i].type \in BrokerAsks => In(toClient, toClient'[i]),
         \A i \in DOMAIN toBroker' :
           toBroker'[i].type \in ClientAnswers => In(toBroker, toBroker'[i])
  PROVE  Inbound'
  <1>1. OutboundFits' /\ EntriesFit' /\ RecordsWait' /\ ReceivedAtMostOnce'
        /\ SettledIsReceived'
    BY DEF Inbound, OutboundFits, EntriesFit, RecordsWait, Incoming,
           Outstanding, ReceivedAtMostOnce, SettledIsReceived
  <1>2. AsksFit'
    BY DEF Inbound, AsksFit, In
  <1>3. AnswersFit'
    BY DEF Inbound, AnswersFit, AnswerFits, AwaitsAnswer, Incoming, In,
           ClientAnswers
  <1> QED
    BY <1>1, <1>2, <1>3 DEF Inbound

\* Nothing is read or sent, or the connection breaks.
LEMMA InboundStays ==
  ASSUME Types, Inbound,
         UNCHANGED <<incoming, received, receivedAgain, outbound, sent, settled,
                     session>>,
         \/ UNCHANGED <<toBroker, toClient>>
         \/ toBroker' = <<>> /\ toClient' = <<>>
  PROVE  Inbound'
  <1>1. OneInbound'
    <2>1. CASE UNCHANGED <<toBroker, toClient>>
      BY <2>1 DEF Inbound, OneInbound
    <2>2. CASE toBroker' = <<>> /\ toClient' = <<>>
      BY <2>2, OneCarrierNothing DEF OneInbound
    <2> QED
      BY <2>1, <2>2
  <1> QED
    BY <1>1, InboundKept DEF In

\* The client sends something of its own publishes, perhaps in answer to
\* what it has read.
LEMMA InboundSent ==
  ASSUME Types, Links, Inbound,
         UNCHANGED <<incoming, received, receivedAgain, outbound, sent, settled,
                     session>>,
         NEW ok, NEW packet \in Packet, packet.type \notin ClientAnswers,
         NEW inbox,
         \/ inbox = toClient
         \/ toClient # <<>> /\ inbox = Tail(toClient),
         Transfer(ok, packet, inbox)
  PROVE  Inbound'
  <1>1. CASE toBroker' = <<>> /\ toClient' = <<>>
    BY <1>1, InboundStays
  <1>2. CASE toBroker' = Append(toBroker, packet) /\ toClient' = inbox
    <2>1. OneCarrier(toBroker, ClientAnswers, inbox, BrokerAsks)
      <3>1. toBroker \in Seq(Packet) /\ toClient \in Seq(Packet)
        BY DEF Types
      <3>2. OneCarrier(toBroker, ClientAnswers, toClient, BrokerAsks)
        BY DEF Inbound, OneInbound
      <3>3. toClient # <<>> =>
              OneCarrier(toBroker, ClientAnswers, Tail(toClient), BrokerAsks)
        BY <3>1, <3>2, OneCarrierRead
      <3> QED
        BY <3>2, <3>3
    <2>2. OneInbound'
      <3>1. toBroker \in Seq(Packet)
        BY DEF Types
      <3>2. OneCarrier(Append(toBroker, packet), ClientAnswers, inbox,
                       BrokerAsks)
        BY <2>1, <3>1, OneCarrierSent
      <3> QED
        BY <1>2, <3>2 DEF OneInbound
    <2>3. \A i \in DOMAIN inbox : In(toClient, inbox[i])
      BY WireRead DEF Types, In
    <2>4. \A i \in DOMAIN toBroker' :
            toBroker'[i].type \in ClientAnswers => In(toBroker, toBroker'[i])
      BY <1>2, WireSent DEF Types, In
    <2> QED
      BY <1>2, <2>2, <2>3, <2>4, InboundKept
  <1> QED
    BY <1>1, <1>2, TransferLinks

\* The client reads what is about its own publishes, or what it drops.
LEMMA InboundRead ==
  ASSUME Types, Inbound,
         UNCHANGED <<incoming, received, receivedAgain, outbound, sent, settled,
                     session, toBroker>>,
         toClient # <<>>, toClient' = Tail(toClient)
  PROVE  Inbound'
  <1>1. OneInbound'
    BY OneCarrierRead DEF Types, Inbound, OneInbound
  <1>2. \A i \in DOMAIN toClient' : In(toClient, toClient'[i])
    BY WireRead DEF Types, In
  <1> QED
    BY <1>1, <1>2, InboundKept DEF In

-----------------------------------------------------------------------------
(* The client reads what the broker asks.                                  *)

\* The entry that a packet of the broker is about.
LEMMA AskedEntry ==
  ASSUME Types, Inbound, toClient # <<>>, Head(toClient).type \in BrokerAsks
  PROVE  /\ Head(toClient) \in Packet
         /\ \E i \in DOMAIN outbound :
              /\ outbound[i] = Head(toClient)
              /\ \A j \in DOMAIN outbound :
                   outbound[j].packetId = Head(toClient).packetId => j = i
         /\ OneCarrier(toBroker, ClientAnswers, Tail(toClient), BrokerAsks)
         /\ None(toBroker, ClientAnswers, Head(toClient).packetId)
         /\ \A i \in DOMAIN Tail(toClient) : In(toClient, Tail(toClient)[i])
  <1>1. /\ 1 \in DOMAIN toClient /\ toClient[1] = Head(toClient)
        /\ Head(toClient) \in Packet
        /\ \A i \in DOMAIN Tail(toClient) : In(toClient, Tail(toClient)[i])
    BY WireRead DEF Types, In
  <1>2. In(outbound, Head(toClient))
    BY <1>1 DEF Inbound, AsksFit
  <1>3. PICK i \in DOMAIN outbound : outbound[i] = Head(toClient)
    BY <1>2 DEF In
  <1>4. \A j \in DOMAIN outbound :
          outbound[j].packetId = Head(toClient).packetId => j = i
    BY <1>3 DEF Inbound, OutboundFits
  <1>5. toBroker \in Seq(Packet) /\ toClient \in Seq(Packet)
    BY DEF Types
  <1>6. OneCarrier(toBroker, ClientAnswers, toClient, BrokerAsks)
    BY DEF Inbound, OneInbound
  <1>7. /\ OneCarrier(toBroker, ClientAnswers, Tail(toClient), BrokerAsks)
        /\ None(toBroker, ClientAnswers, Head(toClient).packetId)
    BY <1>5, <1>6, OneCarrierRead
  <1> QED
    BY <1>1, <1>3, <1>4, <1>7

\* What a PUBLISH makes of the records and of what the callback has seen.
\* It is dropped where there is no room; otherwise it is answered, and the
\* callback has seen it, now or before.
LEMMA PublishReceived ==
  ASSUME Types, Inbound, NEW ok \in BOOLEAN, HandlePublish(ok)
  PROVE  LET publish == Head(toClient)
             id      == publish.packetId
             type    == IF publish.qos = 1 THEN "Puback" ELSE "Pubrec"
         IN  /\ publish.qos \in {1, 2}
             /\ \A x \in PacketIds \ {id} : Flight(incoming', x) = Incoming(x)
             /\ receivedAgain' = receivedAgain
             /\ UNCHANGED <<outbound, sent, settled, session>>
             /\ \/ /\ Flight(incoming', id) = Incoming(id)
                   /\ toClient' = Tail(toClient)
                   /\ UNCHANGED <<received, toBroker>>
                \/ /\ received' = received \cup {publish.message}
                   /\ publish.qos = 1 =>
                        \/ Flight(incoming', id) = NoFlight
                        \/ ~ok /\ Flight(incoming', id).qos = 1
                   /\ publish.qos = 2 =>
                        /\ Flight(incoming', id) # NoFlight
                        /\ Flight(incoming', id).qos = 2
                   /\ Transfer(ok, Ack(type, id), Tail(toClient))
  <1> DEFINE publish  == Head(toClient)
             id       == publish.packetId
             q        == publish.qos
             updated  == UpdateReceivedPublish(incoming, id, q)
             type     == IF q = 1 THEN "Puback" ELSE "Pubrec"
             finished == UpdateStateAck(updated.records, id, type, "SEND")
             first    == IF q = 1 THEN "PubAckSend" ELSE "PubRecSend"
  <1>1. toClient # <<>> /\ publish.type = "Publish"
    BY ArrivedPacket DEF HandlePublish
  <1>2. publish \in Packet /\ id \in PacketIds /\ q \in {1, 2}
    BY <1>1, AskedEntry, PacketKinds DEF BrokerAsks
  <1>3. PICK i \in DOMAIN outbound : outbound[i] = publish
    BY <1>1, AskedEntry DEF BrokerAsks
  <1>4. /\ Incoming(id) # NoFlight =>
             Incoming(id).qos = q /\ publish.message \in received
        /\ q = 2 /\ publish.message \in received => Incoming(id) # NoFlight
    BY <1>1, <1>3 DEF Inbound, EntriesFit
  <1>5. Good(incoming, IncomingPublishCount, IncomingFlights)
    BY DEF Types, IncomingTable
  <1>6. /\ updated.status \in {"Success", "StateCollision", "NoMemory"}
        /\ \A x \in PacketIds \ {id} :
             Flight(updated.records, x) = Flight(incoming, x)
        /\ updated.status = "Success" =>
             /\ Flight(incoming, id) = NoFlight
             /\ Flight(updated.records, id) = At(q, first)
        /\ updated.status # "Success" =>
             Flight(updated.records, id) = Flight(incoming, id)
        /\ updated.status = "StateCollision" => Flight(incoming, id) # NoFlight
    <2> HIDE DEF id, q
    <2> QED
      BY <1>2, <1>5, ReceivedRecord, SessionAssumption DEF NoFlight
  <1>7. Good(updated.records, IncomingPublishCount, IncomingFlights)
    BY <1>2, <1>5, UpdateReceivedPublishGood, SessionAssumption
  <1>8. /\ IF updated.status = "NoMemory"
             THEN /\ incoming' = updated.records
                  /\ toClient' = Tail(toClient)
                  /\ UNCHANGED <<received, receivedAgain, toBroker>>
             ELSE /\ IF updated.status = "StateCollision"
                       THEN UNCHANGED <<received, receivedAgain>>
                       ELSE CallbackSees(publish)
                  /\ Transfer(ok, Ack(type, id), Tail(toClient))
                  /\ incoming' = IF ok THEN finished.records
                                       ELSE updated.records
        /\ UNCHANGED <<outbound, sent, settled, session>>
    BY DEF HandlePublish, receivedVars, brokerVars
  <1> DEFINE f == Flight(updated.records, id)
             ended(x) == Flight(finished.records, x)
  <1>9. /\ \A x \in PacketIds \ {id} : ended(x) = Flight(updated.records, x)
        /\ ended(id) = IF q = 1
                         THEN IF f = At(1, "PubAckSend") THEN NoFlight ELSE f
                         ELSE IF f \in {At(2, "PubRecSend"),
                                        At(2, "PubRelPending")}
                                THEN At(2, "PubRelPending") ELSE f
    <2>1. CASE q = 1
      <3> DEFINE ack == UpdateStateAck(updated.records, id, "Puback", "SEND")
      <3>1. finished = ack
        BY <2>1
      <3>2. IF f = At(1, "PubAckSend")
              THEN Accepted(updated.records, id, ack, NoFlight)
              ELSE Refused(updated.records, id, ack)
        <4> HIDE DEF updated, id
        <4> QED
          BY <1>2, <1>7, IncomingAck, SessionAssumption DEF NoFlight
      <3> HIDE DEF ack, finished, updated, id
      <3> QED
        BY <2>1, <3>1, <3>2 DEF Accepted, Refused
    <2>2. CASE q = 2
      <3> DEFINE ack == UpdateStateAck(updated.records, id, "Pubrec", "SEND")
      <3>1. finished = ack
        BY <2>2
      <3>2. IF f \in {At(2, "PubRecSend"), At(2, "PubRelPending")}
              THEN Accepted(updated.records, id, ack, At(2, "PubRelPending"))
              ELSE Refused(updated.records, id, ack)
        <4> HIDE DEF updated, id
        <4> QED
          BY <1>2, <1>7, IncomingAck, SessionAssumption
      <3> HIDE DEF ack, finished, updated, id
      <3> QED
        BY <2>2, <3>1, <3>2 DEF Accepted, Refused
    <2> QED
      BY <1>2, <2>1, <2>2
  <1>10. f \in IncomingFlights \cup {NoFlight}
    <2> HIDE DEF id
    <2> QED
      BY <1>2, <1>7, FlightKinds, SessionAssumption DEF NoFlight
  <1>11. /\ \A s, t : At(1, s) # At(2, t)
         /\ \A s, t : At(s, t).qos = s
         /\ \A s : At(2, s) # NoFlight
         /\ \A s : At(1, s) # NoFlight
         /\ \A g \in IncomingFlights :
              g.qos = 1 => g = At(1, "PubAckSend")
    BY DEF At, NoFlight, IncomingFlights
  <1> HIDE DEF updated, finished, f, ended
  <1>12. CASE updated.status = "NoMemory"
    BY <1>2, <1>6, <1>8, <1>12 DEF Incoming
  <1>13. CASE updated.status \in {"Success", "StateCollision"}
    <2>1. /\ received' = received \cup {publish.message}
          /\ receivedAgain' = receivedAgain
      BY <1>4, <1>6, <1>8, <1>13 DEF CallbackSees, Incoming
    <2>2. f # NoFlight /\ f.qos = q /\ f \in IncomingFlights
      BY <1>2, <1>4, <1>6, <1>10, <1>11, <1>13 DEF Incoming, f
    <2>3. \A x \in PacketIds \ {id} : Flight(incoming', x) = Incoming(x)
      BY <1>6, <1>8, <1>9, <1>13 DEF Incoming, ended
    <2>4. Flight(incoming', id) = IF ok THEN ended(id) ELSE f
      BY <1>8, <1>13 DEF ended, f
    <2>5. q = 1 => \/ Flight(incoming', id) = NoFlight
                   \/ ~ok /\ Flight(incoming', id).qos = 1
      BY <1>9, <1>11, <2>2, <2>4
    <2>6. q = 2 => /\ Flight(incoming', id) # NoFlight
                   /\ Flight(incoming', id).qos = 2
      BY <1>9, <1>11, <2>2, <2>4
    <2> QED
      BY <1>2, <1>8, <1>13, <2>1, <2>3, <2>5, <2>6
  <1> QED
    BY <1>6, <1>12, <1>13

LEMMA PubrelReceived ==
  ASSUME Types, NEW ok \in BOOLEAN, HandlePubrel(ok)
  PROVE  LET id == Head(toClient).packetId
         IN  /\ id \in PacketIds
             /\ \A x \in PacketIds \ {id} : Flight(incoming', x) = Incoming(x)
             /\ UNCHANGED <<received, receivedAgain, outbound, sent, settled,
                            session>>
             /\ \/ /\ Flight(incoming', id) = Incoming(id)
                   /\ toClient' = Tail(toClient)
                   /\ UNCHANGED toBroker
                \/ /\ ok => Flight(incoming', id) = NoFlight
                   /\ Transfer(ok, Ack("Pubcomp", id), Tail(toClient))
  <1> DEFINE id       == Head(toClient).packetId
             updated  == UpdateStateAck(incoming, id, "Pubrel", "RECEIVE")
             finished == UpdateStateAck(updated.records, id, "Pubcomp", "SEND")
  <1>1. id \in PacketIds
    BY ArrivedPacket DEF HandlePubrel
  <1>2. /\ IF updated.status # "Success"
             THEN /\ incoming' = updated.records
                  /\ toClient' = Tail(toClient)
                  /\ UNCHANGED toBroker
             ELSE /\ Transfer(ok, Ack("Pubcomp", id), Tail(toClient))
                  /\ incoming' = IF ok THEN finished.records
                                       ELSE updated.records
        /\ UNCHANGED <<received, receivedAgain, outbound, sent, settled,
                       session>>
    BY DEF HandlePubrel, appVars, receivedVars, brokerVars
  <1>3. Good(incoming, IncomingPublishCount, IncomingFlights)
    BY DEF Types, IncomingTable
  <1>4. Good(updated.records, IncomingPublishCount, IncomingFlights)
    <2>1. "Pubrel" \in MQTTPubAckType
      BY DEF MQTTPubAckType
    <2> QED
      BY <1>1, <2>1, AckedTables DEF IncomingTable, Types
  <1> HIDE DEF id
  <1>5. IF Flight(incoming, id) \in {At(2, "PubRelPending"),
                                     At(2, "PubCompSend")}
          THEN Accepted(incoming, id, updated, At(2, "PubCompSend"))
          ELSE Refused(incoming, id, updated)
    BY <1>1, <1>3, IncomingAck, SessionAssumption
  <1>6. IF Flight(updated.records, id) = At(2, "PubCompSend")
          THEN Accepted(updated.records, id, finished, NoFlight)
          ELSE Refused(updated.records, id, finished)
    <2> HIDE DEF updated
    <2> QED
      BY <1>1, <1>4, IncomingAck, SessionAssumption DEF NoFlight
  <1> HIDE DEF updated, finished
  <1>7. CASE updated.status # "Success"
    <2>1. updated.records = incoming
      BY <1>5, <1>7 DEF Accepted, Refused
    <2> QED
      BY <1>1, <1>2, <1>7, <2>1 DEF Incoming, id
  <1>8. CASE updated.status = "Success"
    <2>1. /\ Flight(updated.records, id) = At(2, "PubCompSend")
          /\ \A x \in PacketIds \ {id} :
               Flight(updated.records, x) = Flight(incoming, x)
      BY <1>5, <1>8 DEF Accepted, Refused
    <2>2. /\ Flight(finished.records, id) = NoFlight
          /\ \A x \in PacketIds \ {id} :
               Flight(finished.records, x) = Flight(updated.records, x)
      BY <1>6, <2>1 DEF Accepted
    <2> QED
      BY <1>1, <1>2, <1>8, <2>1, <2>2 DEF Incoming, id
  <1> QED
    BY <1>7, <1>8

\* The packet at the head of toClient is about entry, and its answer, if it
\* is sent, about the same entry.  Only the record of its identifier changes.
LEMMA InboundAnswered ==
  ASSUME Types, Links, Inbound,
         toClient # <<>>, Head(toClient).type \in BrokerAsks,
         \A x \in PacketIds \ {Head(toClient).packetId} :
           Flight(incoming', x) = Incoming(x),
         UNCHANGED <<receivedAgain, outbound, sent, settled, session>>,
         received' = received
           \/ /\ Head(toClient).type = "Publish"
              /\ received' = received \cup {Head(toClient).message},
         \/ toClient' = <<>> /\ toBroker' = <<>>
         \/ toClient' = Tail(toClient) /\ toBroker' = toBroker
         \/ /\ toClient' = Tail(toClient)
            /\ \E answer \in Packet :
                 /\ answer.packetId = Head(toClient).packetId
                 /\ toBroker' = Append(toBroker, answer)
                 /\ AnswerFits(answer)',
         Head(toClient).type = "Publish" =>
           LET f == Flight(incoming', Head(toClient).packetId)
           IN  /\ f # NoFlight => /\ f.qos = Head(toClient).qos
                                  /\ Head(toClient).message \in received'
               /\ /\ Head(toClient).qos = 2
                  /\ Head(toClient).message \in received'
                  => f # NoFlight
  PROVE  Inbound'
  <1> DEFINE head == Head(toClient)
             id   == head.packetId
  <1>1. /\ head \in Packet
        /\ OneCarrier(toBroker, ClientAnswers, Tail(toClient), BrokerAsks)
        /\ None(toBroker, ClientAnswers, id)
        /\ \A i \in DOMAIN Tail(toClient) : In(toClient, Tail(toClient)[i])
    BY AskedEntry
  <1>2. PICK i \in DOMAIN outbound :
          /\ outbound[i] = head
          /\ \A j \in DOMAIN outbound : outbound[j].packetId = id => j = i
    BY AskedEntry
  <1>3. /\ toBroker \in Seq(Packet) /\ id \in PacketIds
        /\ None(Tail(toClient), BrokerAsks, id)
    BY <1>1, PacketKinds, OneCarrierRead DEF Types, Inbound, OneInbound
  <1>4. \A j \in DOMAIN outbound : outbound[j].packetId \in PacketIds
    BY PacketKinds DEF Types
  <1> HIDE DEF head, id
  <1>5. OutboundFits'
    <2>1. head.type = "Publish" => head.message \in 1..sent
      BY <1>2 DEF Inbound, OutboundFits
    <2>2. received' \subseteq 1..sent
      BY <2>1 DEF Inbound, OutboundFits, head
    <2> QED
      BY <2>2 DEF Inbound, OutboundFits
  <1>6. OneInbound'
    <2>1. CASE toClient' = <<>> /\ toBroker' = <<>>
      BY <2>1, OneCarrierNothing DEF OneInbound
    <2>2. CASE toClient' = Tail(toClient) /\ toBroker' = toBroker
      BY <1>1, <2>2 DEF OneInbound
    <2>3. ASSUME NEW answer \in Packet, answer.packetId = id,
                 toBroker' = Append(toBroker, answer),
                 toClient' = Tail(toClient)
          PROVE  OneInbound'
      <3>1. OneCarrier(Append(toBroker, answer), ClientAnswers,
                       Tail(toClient), BrokerAsks)
        BY <1>1, <1>3, <2>3, OneCarrierSent
      <3> QED
        BY <2>3, <3>1 DEF OneInbound
    <2> QED
      BY <2>1, <2>2, <2>3 DEF id, head
  <1>7. AsksFit'
    BY <1>1 DEF Inbound, AsksFit, In
  <1>8. EntriesFit'
    <2> SUFFICES ASSUME NEW j \in DOMAIN outbound, outbound[j].type = "Publish"
                 PROVE  LET e == outbound[j]
                            f == Flight(incoming', e.packetId)
                        IN  /\ f # NoFlight =>
                                 f.qos = e.qos /\ e.message \in received'
                            /\ e.qos = 2 /\ e.message \in received' =>
                                 f # NoFlight
      BY DEF EntriesFit, Incoming
    <2>1. CASE j = i
      BY <1>2, <2>1 DEF head, id
    <2>2. CASE j # i
      <3>1. Flight(incoming', outbound[j].packetId) =
              Incoming(outbound[j].packetId)
        BY <1>2, <1>4, <2>2 DEF id, head
      <3>2. outbound[j].message \in received' <=> outbound[j].message \in received
        BY <1>2, <2>2 DEF Inbound, OutboundFits, head
      <3> QED
        BY <3>1, <3>2 DEF Inbound, EntriesFit
    <2> QED
      BY <2>1, <2>2
  <1>9. \A x, q : AwaitsAnswer(x, q) => AwaitsAnswer(x, q)'
    BY DEF AwaitsAnswer
  <1>10. AnswersFit'
    <2>1. ASSUME NEW a \in Packet, In(toBroker, a)
          PROVE  AnswerFits(a)'
      <3>1. a.type \in ClientAnswers =>
              /\ a.packetId \in PacketIds \ {id}
              /\ AnswerFits(a)
        BY <1>1, <2>1, PacketKinds DEF None, In, Inbound, AnswersFit
      <3> QED
        BY <1>9, <3>1 DEF AnswerFits, ClientAnswers, In, Incoming, id, head
    <2>2. CASE toBroker' = toBroker \/ toBroker' = <<>>
      BY <1>3, <2>1, <2>2 DEF AnswersFit, In
    <2>3. ASSUME NEW answer \in Packet, AnswerFits(answer)',
                 toBroker' = Append(toBroker, answer)
          PROVE  AnswersFit'
      <3>1. \A k \in DOMAIN toBroker' :
              \/ toBroker'[k] \in Packet /\ In(toBroker, toBroker'[k])
              \/ toBroker'[k] = answer
        BY <1>3, <2>3, WireSent DEF In
      <3>2. \A a \in Packet : In(toBroker, a) \/ a = answer => AnswerFits(a)'
        BY <2>1, <2>3
      <3> QED
        BY <3>1, <3>2 DEF AnswersFit
    <2> QED
      BY <2>2, <2>3 DEF id, head
  <1>11. RecordsWait'
    <2> SUFFICES ASSUME session, NEW x \in PacketIds,
                        Flight(incoming', x) # NoFlight
                 PROVE  Outstanding(x) # {}
      BY DEF RecordsWait, Incoming, Outstanding
    <2>1. CASE x = id
      BY <1>2, <2>1 DEF Outstanding, id
    <2>2. CASE x # id
      BY <2>2 DEF Inbound, RecordsWait, Incoming, id, head
    <2> QED
      BY <2>1, <2>2
  <1>12. ReceivedAtMostOnce' /\ SettledIsReceived'
    BY DEF Inbound, ReceivedAtMostOnce, SettledIsReceived
  <1> QED
    BY <1>5, <1>6, <1>7, <1>8, <1>10, <1>11, <1>12 DEF Inbound

LEMMA ProcessInbound ==
  ASSUME Types, Links, Inbound, ProcessLoop
  PROVE  Inbound'
  <1> USE DEF contextVars, appVars, receivedVars, cursorVars, threadVars,
              netVars, brokerVars, vars
  <1> DEFINE id == Head(toClient).packetId
  <1>1. CASE ReceiveNothing \/ ReceiveFails
    BY <1>1, InboundStays DEF ReceiveNothing, ReceiveFails
  <1>2. CASE HandlePubackOrPubcomp
    BY <1>2, ArrivedPacket, InboundRead DEF HandlePubackOrPubcomp
  <1>3. ASSUME NEW ok \in BOOLEAN, HandlePubrec(ok)
        PROVE  Inbound'
    <2>1. /\ toClient # <<>> /\ id \in PacketIds
          /\ UNCHANGED <<incoming, received, receivedAgain, outbound, sent,
                         settled, session>>
          /\ \/ toClient' = Tail(toClient) /\ UNCHANGED toBroker
             \/ Transfer(ok, Ack("Pubrel", id), Tail(toClient))
      BY <1>3, ArrivedPacket DEF HandlePubrec
    <2>2. Ack("Pubrel", id) \in Packet /\ Ack("Pubrel", id).type \notin ClientAnswers
      BY <2>1, MadePackets DEF MQTTPubAckType, ClientAnswers
    <2>3. CASE toClient' = Tail(toClient) /\ UNCHANGED toBroker
      BY <2>1, <2>3, InboundRead
    <2>4. CASE Transfer(ok, Ack("Pubrel", id), Tail(toClient))
      BY <2>1, <2>2, <2>4, InboundSent
    <2> QED
      BY <2>1, <2>3, <2>4
  <1>4. ASSUME NEW ok \in BOOLEAN, HandlePublish(ok)
        PROVE  Inbound'
    <2> DEFINE head == Head(toClient)
               type == IF head.qos = 1 THEN "Puback" ELSE "Pubrec"
    <2>1. /\ link = "up" /\ toClient # <<>> /\ head.type = "Publish"
          /\ id \in PacketIds
      BY <1>4, ArrivedPacket DEF HandlePublish
    <2>2. /\ head.qos \in {1, 2}
          /\ \A x \in PacketIds \ {id} : Flight(incoming', x) = Incoming(x)
          /\ UNCHANGED <<receivedAgain, outbound, sent, settled, session>>
          /\ \/ /\ Flight(incoming', id) = Incoming(id)
                /\ toClient' = Tail(toClient)
                /\ UNCHANGED <<received, toBroker>>
             \/ /\ received' = received \cup {head.message}
                /\ head.qos = 1 =>
                     \/ Flight(incoming', id) = NoFlight
                     \/ ~ok /\ Flight(incoming', id).qos = 1
                /\ head.qos = 2 =>
                     /\ Flight(incoming', id) # NoFlight
                     /\ Flight(incoming', id).qos = 2
                /\ Transfer(ok, Ack(type, id), Tail(toClient))
      BY <1>4, PublishReceived
    <2>3. PICK i \in DOMAIN outbound : outbound[i] = head
      BY <2>1, AskedEntry DEF BrokerAsks
    <2>4. CASE /\ Flight(incoming', id) = Incoming(id)
               /\ toClient' = Tail(toClient)
               /\ UNCHANGED <<received, toBroker>>
      <3>1. /\ Incoming(id) # NoFlight =>
                 Incoming(id).qos = head.qos /\ head.message \in received
            /\ head.qos = 2 /\ head.message \in received =>
                 Incoming(id) # NoFlight
        BY <2>1, <2>3 DEF Inbound, EntriesFit
      <3> QED
        BY <2>1, <2>2, <2>4, <3>1, InboundAnswered DEF BrokerAsks
    <2>5. CASE Transfer(ok, Ack(type, id), Tail(toClient))
               /\ received' = received \cup {head.message}
               /\ (head.qos = 1 =>
                     \/ Flight(incoming', id) = NoFlight
                     \/ ~ok /\ Flight(incoming', id).qos = 1)
               /\ (head.qos = 2 => /\ Flight(incoming', id) # NoFlight
                                   /\ Flight(incoming', id).qos = 2)
      <3>1. \/ toClient' = <<>> /\ toBroker' = <<>>
            \/ /\ ok
               /\ toClient' = Tail(toClient)
               /\ toBroker' = Append(toBroker, Ack(type, id))
        BY <2>1, <2>5 DEF Transfer
      <3>2. ASSUME ok, NEW answer \in Packet, answer = Ack(type, id)
            PROVE  AnswerFits(answer)'
        <4>1. answer.type = type /\ answer.packetId = id
          BY <3>2 DEF Ack
        <4>2. \E j \in DOMAIN outbound' :
                /\ outbound'[j].type = "Publish"
                /\ outbound'[j].packetId = id
                /\ outbound'[j].qos = head.qos
                /\ outbound'[j].message \in received'
          BY <2>1, <2>2, <2>3, <2>5
        <4>3. \A x, q : x = id /\ q = head.qos => AwaitsAnswer(x, q)'
          BY <4>2 DEF AwaitsAnswer
        <4>4. type = "Puback" => Flight(incoming', id) = NoFlight
          BY <2>5, <3>2
        <4>5. \/ type = "Puback" /\ head.qos = 1
              \/ type = "Pubrec" /\ head.qos = 2
          BY <2>2
        <4> HIDE DEF type, head
        <4> QED
          BY <4>1, <4>3, <4>4, <4>5 DEF AnswerFits, Incoming
      <3>3. Ack(type, id) \in Packet /\ Ack(type, id).packetId = id
        BY <2>1, MadePackets DEF MQTTPubAckType
      <3>4. \/ toClient' = <<>> /\ toBroker' = <<>>
            \/ /\ toClient' = Tail(toClient)
               /\ \E answer \in Packet :
                    /\ answer.packetId = id
                    /\ toBroker' = Append(toBroker, answer)
                    /\ AnswerFits(answer)'
        <4>1. PICK answer \in Packet : answer = Ack(type, id)
          BY <3>3
        <4> HIDE DEF type
        <4> QED
          BY <3>1, <3>2, <3>3, <4>1
      <3>5. /\ Flight(incoming', id) # NoFlight =>
                 /\ Flight(incoming', id).qos = head.qos
                 /\ head.message \in received'
            /\ head.qos = 2 /\ head.message \in received' =>
                 Flight(incoming', id) # NoFlight
        BY <2>2, <2>5
      <3> QED
        BY <2>1, <2>2, <2>5, <3>4, <3>5, InboundAnswered DEF BrokerAsks
    <2> QED
      BY <2>2, <2>4, <2>5
  <1>5. ASSUME NEW ok \in BOOLEAN, HandlePubrel(ok)
        PROVE  Inbound'
    <2> DEFINE head == Head(toClient)
    <2>1. /\ link = "up" /\ toClient # <<>> /\ head.type = "Pubrel"
      BY <1>5, ArrivedPacket DEF HandlePubrel
    <2>2. /\ id \in PacketIds
          /\ \A x \in PacketIds \ {id} : Flight(incoming', x) = Incoming(x)
          /\ UNCHANGED <<received, receivedAgain, outbound, sent, settled,
                         session>>
          /\ \/ toClient' = Tail(toClient) /\ UNCHANGED toBroker
             \/ /\ ok => Flight(incoming', id) = NoFlight
                /\ Transfer(ok, Ack("Pubcomp", id), Tail(toClient))
      BY <1>5, PubrelReceived
    <2>3. PICK i \in DOMAIN outbound : outbound[i] = head
      BY <2>1, AskedEntry DEF BrokerAsks
    <2>4. CASE toClient' = Tail(toClient) /\ UNCHANGED toBroker
      BY <2>1, <2>2, <2>4, InboundAnswered DEF BrokerAsks
    <2>5. CASE /\ ok => Flight(incoming', id) = NoFlight
               /\ Transfer(ok, Ack("Pubcomp", id), Tail(toClient))
      <3>1. \/ toClient' = <<>> /\ toBroker' = <<>>
            \/ /\ ok
               /\ toClient' = Tail(toClient)
               /\ toBroker' = Append(toBroker, Ack("Pubcomp", id))
        BY <2>1, <2>5 DEF Transfer
      <3>2. outbound[i] = Ack("Pubrel", id)
        <4>1. head \in PublishPacket \cup PubrelPacket
          BY <2>3 DEF Types
        <4>2. head \in PubrelPacket
          BY <2>1, <4>1, PacketKinds
        <4> QED
          BY <2>3, <4>2 DEF PubrelPacket, Ack
      <3>3. ASSUME ok, NEW answer \in Packet, answer = Ack("Pubcomp", id)
            PROVE  AnswerFits(answer)'
        <4>1. answer.type = "Pubcomp" /\ answer.packetId = id
          BY <3>3 DEF Ack
        <4>2. Flight(incoming', answer.packetId) = NoFlight
          BY <2>5, <3>3, <4>1
        <4>3. In(outbound, Ack("Pubrel", answer.packetId))'
          BY <2>2, <3>2, <4>1 DEF In
        <4> QED
          BY <4>1, <4>2, <4>3 DEF AnswerFits, Incoming
      <3>4. Ack("Pubcomp", id) \in Packet /\ Ack("Pubcomp", id).packetId = id
        BY <2>2, MadePackets DEF MQTTPubAckType
      <3>5. \/ toClient' = <<>> /\ toBroker' = <<>>
            \/ /\ toClient' = Tail(toClient)
               /\ \E answer \in Packet :
                    /\ answer.packetId = id
                    /\ toBroker' = Append(toBroker, answer)
                    /\ AnswerFits(answer)'
        <4>1. PICK answer \in Packet : answer = Ack("Pubcomp", id)
          BY <3>4
        <4> QED
          BY <3>1, <3>3, <3>4, <4>1
      <3> QED
        BY <2>1, <2>2, <3>5, InboundAnswered DEF BrokerAsks
    <2> QED
      BY <2>2, <2>4, <2>5
  <1> QED
    BY <1>1, <1>2, <1>3, <1>4, <1>5 DEF ProcessLoop

LEMMA SendInbound ==
  ASSUME Types, Links, Inbound, MQTT_Publish
  PROVE  Inbound'
  <1> USE DEF contextVars, appVars, receivedVars, cursorVars, threadVars,
              netVars, brokerVars
  <1>1. CASE \/ PublishRefused \/ PublishNotStored
             \/ \E q \in PublishQoS : Reserve(q)
    BY <1>1, InboundStays DEF PublishRefused, PublishNotStored, Reserve
  <1>2. CASE PublishSent \/ PublishNotSent
    <2>1. publishing \in Packet /\ publishing.type \notin ClientAnswers
      BY <1>2, PacketKinds
      DEF PublishSent, PublishNotSent, Unlocked, Types, ClientAnswers
    <2>2. /\ \E ok \in BOOLEAN : Transfer(ok, publishing, toClient)
          /\ UNCHANGED <<incoming, received, receivedAgain, outbound, sent,
                         settled, session>>
      BY <1>2 DEF PublishSent, PublishNotSent
    <2> QED
      BY <2>1, <2>2, InboundSent
  <1> QED
    BY <1>1, <1>2 DEF MQTT_Publish

LEMMA ConnectInbound ==
  ASSUME Types, Links, Inbound, Connect \/ Disconnect
  PROVE  Inbound'
  <1> USE DEF contextVars, appVars, receivedVars, cursorVars, threadVars,
              netVars, brokerVars
  <1>1. CASE \/ Disconnect \/ SelectionEnds \/ SelectPubrel \/ SelectPublish
             \/ RetrieveFails \/ ConnectFails
    BY <1>1, InboundStays
    DEF Disconnect, SelectionEnds, SelectPubrel, SelectPublish, RetrieveFails,
        Selecting, ConnectFails
  <1>2. CASE ConnectNewSession
    <2>1. toBroker = <<>> /\ toClient = <<>> /\ outbound = <<>>
      BY <1>2 DEF ConnectNewSession, Links
    <2>2. /\ UNCHANGED <<received, receivedAgain, outbound, sent, settled,
                         toBroker, toClient>>
          /\ incoming' = EmptyTable(IncomingPublishCount)
      BY <1>2 DEF ConnectNewSession
    <2>3. \A id \in PacketIds : Flight(incoming', id) = NoFlight
      BY <2>2, EmptyTableView, SessionAssumption DEF Progress, NoFlight
    <2>4. RecordsWait'
      BY <2>3 DEF RecordsWait, Incoming
    <2>5. OneInbound' /\ OutboundFits'
      BY <2>2 DEF Inbound, OneInbound, OutboundFits
    <2>6. AsksFit' /\ EntriesFit' /\ AnswersFit'
      BY <2>1, <2>2 DEF AsksFit, EntriesFit, AnswersFit
    <2> QED
      BY <2>2, <2>4, <2>5, <2>6 DEF Inbound, ReceivedAtMostOnce, SettledIsReceived
  <1>3. CASE ConnectResumedSession
    <2>1. toBroker = <<>>
      BY <1>3 DEF ConnectResumedSession, Links
    <2>2. /\ UNCHANGED <<incoming, received, receivedAgain, outbound, sent,
                         settled, session, toBroker>>
          /\ toClient' = outbound
      BY <1>3 DEF ConnectResumedSession
    <2>3. OneInbound'
      BY <2>1, <2>2 DEF Inbound, OutboundFits, OneInbound, OneCarrier, Single
    <2>4. AsksFit'
      BY <2>2 DEF AsksFit, In
    <2>5. AnswersFit'
      BY <2>1, <2>2 DEF AnswersFit
    <2> QED
      BY <2>2, <2>3, <2>4, <2>5
      DEF Inbound, OutboundFits, EntriesFit, RecordsWait, Incoming,
          Outstanding, ReceivedAtMostOnce, SettledIsReceived
  <1>4. ASSUME NEW ok \in BOOLEAN, ResendPubrel(ok) \/ ResendPublish(ok)
        PROVE  Inbound'
    <2>1. selected \in Packet /\ selected.type \notin ClientAnswers
      BY <1>4, PacketKinds DEF ResendPubrel, ResendPublish, Types, ClientAnswers
    <2>2. /\ \/ Transfer(ok, selected, toClient)
             \/ UNCHANGED <<toBroker, toClient>>
          /\ UNCHANGED <<incoming, received, receivedAgain, outbound, sent,
                         settled, session>>
      BY <1>4 DEF ResendPubrel, ResendPublish
    <2> QED
      BY <2>1, <2>2, InboundSent, InboundStays
  <1> QED
    BY <1>1, <1>2, <1>3, <1>4 DEF Connect

\* What the broker reads on an empty or a filled wire.
LEMMA BrokerReadsInbound ==
  ASSUME Types, Inbound, toBroker # <<>>, toBroker' = Tail(toBroker)
  PROVE  /\ OneCarrier(toBroker', ClientAnswers, toClient, BrokerAsks)
         /\ Head(toBroker).type \in ClientAnswers =>
              /\ None(toBroker', ClientAnswers, Head(toBroker).packetId)
              /\ None(toClient, BrokerAsks, Head(toBroker).packetId)
         /\ AnswerFits(Head(toBroker))
         /\ \A i \in DOMAIN toBroker' :
              In(toBroker, toBroker'[i]) /\ AnswerFits(toBroker'[i])
  <1>1. toBroker \in Seq(Packet) /\ toClient \in Seq(Packet)
    BY DEF Types
  <1>2. OneCarrier(toClient, BrokerAsks, toBroker, ClientAnswers)
    BY OneCarrierMirrored DEF Inbound, OneInbound
  <1>3. /\ OneCarrier(toClient, BrokerAsks, Tail(toBroker), ClientAnswers)
        /\ Head(toBroker).type \in ClientAnswers =>
             /\ None(toBroker', ClientAnswers, Head(toBroker).packetId)
             /\ None(toClient, BrokerAsks, Head(toBroker).packetId)
    BY <1>1, <1>2, OneCarrierRead
  <1>4. OneCarrier(toBroker', ClientAnswers, toClient, BrokerAsks)
    BY <1>3, OneCarrierMirrored
  <1>5. /\ 1 \in DOMAIN toBroker /\ toBroker[1] = Head(toBroker)
        /\ \A i \in DOMAIN Tail(toBroker) :
             i + 1 \in DOMAIN toBroker /\ Tail(toBroker)[i] = toBroker[i + 1]
    BY <1>1, WireRead
  <1> QED
    BY <1>3, <1>4, <1>5 DEF In, Inbound, AnswersFit

\* The broker takes a packet about a publish of the client.
LEMMA TakesInbound ==
  ASSUME Types, Inbound, BrokerTakesPublish \/ BrokerTakesPubrel
  PROVE  Inbound'
  <1> USE DEF contextVars, appVars, receivedVars, cursorVars, threadVars,
              netVars, brokerVars
  <1> DEFINE head == Head(toBroker)
  <1>1. /\ toBroker # <<>> /\ toBroker' = Tail(toBroker)
        /\ head.packetId \in PacketIds
        /\ UNCHANGED <<incoming, received, receivedAgain, outbound, sent,
                       settled, session>>
    BY BrokerReadsPacket DEF BrokerTakesPublish, BrokerTakesPubrel
  <1>2. PICK type \in {"Puback", "Pubrec", "Pubcomp"} :
          toClient' = Append(toClient, Ack(type, head.packetId))
    BY DEF BrokerTakesPublish, BrokerTakesPubrel
  <1> DEFINE ack == Ack(type, head.packetId)
  <1>3. ack \in Packet /\ ack.type \notin BrokerAsks
    BY <1>1, MadePackets DEF BrokerAsks, MQTTPubAckType
  <1>4. /\ OneCarrier(toBroker', ClientAnswers, toClient, BrokerAsks)
        /\ \A i \in DOMAIN toBroker' : In(toBroker, toBroker'[i])
    BY <1>1, BrokerReadsInbound
  <1> HIDE DEF ack
  <1>5. OneInbound'
    <2>1. toClient \in Seq(Packet)
      BY DEF Types
    <2>2. OneCarrier(toClient, BrokerAsks, toBroker', ClientAnswers)
      BY <1>4, OneCarrierMirrored
    <2>3. OneCarrier(Append(toClient, ack), BrokerAsks, toBroker', ClientAnswers)
      BY <1>3, <2>1, <2>2, OneCarrierSent
    <2>4. toClient' = Append(toClient, ack)
      BY <1>2 DEF ack
    <2> QED
      BY <2>3, <2>4, OneCarrierMirrored DEF OneInbound
  <1>6. \A i \in DOMAIN toClient' :
          toClient'[i].type \in BrokerAsks => In(toClient, toClient'[i])
    <2>1. toClient' = Append(toClient, ack) /\ toClient \in Seq(Packet)
      BY <1>2 DEF ack, Types
    <2> QED
      BY <1>3, <2>1, WireSent DEF In
  <1> QED
    BY <1>1, <1>4, <1>5, <1>6, InboundKept

\* The entries that are left when one is answered.
LEMMA OtherEntries ==
  ASSUME Types, Inbound, NEW i \in DOMAIN outbound
  PROVE  LET v == Without(outbound, i)
         IN  /\ v \in Seq(PublishPacket \cup PubrelPacket)
             /\ \A k, l \in DOMAIN v : v[k].packetId = v[l].packetId => k = l
             /\ \A k, l \in DOMAIN v :
                  /\ v[k].type = "Publish" /\ v[l].type = "Publish"
                  /\ v[k].message = v[l].message
                  => k = l
             /\ \A k \in DOMAIN v :
                  /\ In(outbound, v[k])
                  /\ v[k].packetId # outbound[i].packetId
             /\ \A e : In(outbound, e) /\ e.packetId # outbound[i].packetId
                         => In(v, e)
  <1> DEFINE v == Without(outbound, i)
  <1>1. /\ v \in Seq(PublishPacket \cup PubrelPacket)
        /\ DOMAIN v \subseteq Nat
        /\ \A k \in DOMAIN v :
             /\ Place(i, k) \in DOMAIN outbound
             /\ Place(i, k) # i
             /\ v[k] = outbound[Place(i, k)]
        /\ \A j \in DOMAIN outbound :
             j # i => \E k \in DOMAIN v : v[k] = outbound[j]
    BY WithoutOne DEF Types
  <1> HIDE DEF v
  <1>2. \A k, l \in DOMAIN v : Place(i, k) = Place(i, l) => k = l
    <2>1. i \in Nat
      BY DEF Types
    <2> QED
      BY <1>1, <2>1 DEF Place
  <1>3. \A k, l \in DOMAIN v : v[k].packetId = v[l].packetId => k = l
    BY <1>1, <1>2 DEF Inbound, OutboundFits
  <1>4. \A k, l \in DOMAIN v :
          /\ v[k].type = "Publish" /\ v[l].type = "Publish"
          /\ v[k].message = v[l].message
          => k = l
    BY <1>1, <1>2 DEF Inbound, OutboundFits
  <1>5. \A k \in DOMAIN v :
          In(outbound, v[k]) /\ v[k].packetId # outbound[i].packetId
    BY <1>1 DEF Inbound, OutboundFits, In
  <1>6. \A e : In(outbound, e) /\ e.packetId # outbound[i].packetId => In(v, e)
    BY <1>1 DEF In
  <1> QED
    BY <1>1, <1>3, <1>4, <1>5, <1>6 DEF v

\* The broker takes an answer: the entry goes, or waits for the PUBCOMP.
LEMMA EntryAnswered ==
  ASSUME Types, Inbound, toBroker # <<>>, toBroker' = Tail(toBroker),
         Head(toBroker).type \in ClientAnswers,
         NEW i \in Outstanding(Head(toBroker).packetId),
         UNCHANGED <<incoming, received, receivedAgain, sent, session>>,
         settled' \subseteq received,
         LET pubrel == Ack("Pubrel", Head(toBroker).packetId)
         IN  \/ /\ Incoming(Head(toBroker).packetId) = NoFlight
                /\ outbound' = Without(outbound, i)
                /\ UNCHANGED toClient
             \/ /\ outbound' = Append(Without(outbound, i), pubrel)
                /\ toClient' = Append(toClient, pubrel)
  PROVE  Inbound'
  <1> DEFINE id     == Head(toBroker).packetId
             pubrel == Ack("Pubrel", id)
             v      == Without(outbound, i)
  <1>1. i \in DOMAIN outbound /\ outbound[i].packetId = id
    BY DEF Outstanding
  <1>2. /\ v \in Seq(PublishPacket \cup PubrelPacket)
        /\ \A k, l \in DOMAIN v : v[k].packetId = v[l].packetId => k = l
        /\ \A k, l \in DOMAIN v :
             /\ v[k].type = "Publish" /\ v[l].type = "Publish"
             /\ v[k].message = v[l].message
             => k = l
        /\ \A k \in DOMAIN v : In(outbound, v[k]) /\ v[k].packetId # id
        /\ \A e : In(outbound, e) /\ e.packetId # id => In(v, e)
    BY <1>1, OtherEntries
  <1>3. id \in PacketIds
    BY <1>1, PacketKinds DEF Types
  <1>4. /\ OneCarrier(toBroker', ClientAnswers, toClient, BrokerAsks)
        /\ None(toBroker', ClientAnswers, id)
        /\ None(toClient, BrokerAsks, id)
        /\ \A k \in DOMAIN toBroker' :
             In(toBroker, toBroker'[k]) /\ AnswerFits(toBroker'[k])
    BY BrokerReadsInbound
  <1>5. /\ pubrel \in PubrelPacket /\ pubrel \in Packet
        /\ pubrel.type = "Pubrel" /\ pubrel.packetId = id
    BY <1>3, MadePackets DEF MQTTPubAckType
  <1>6. /\ toClient \in Seq(Packet) /\ toBroker \in Seq(Packet)
        /\ toBroker' \in Seq(Packet)
    BY DEF Types
  <1>7. \/ Incoming(id) = NoFlight /\ outbound' = v /\ UNCHANGED toClient
        \/ outbound' = Append(v, pubrel) /\ toClient' = Append(toClient, pubrel)
    OBVIOUS
  <1> HIDE DEF id, pubrel, v
  <1>8. /\ \A k, l \in DOMAIN outbound' :
             outbound'[k].packetId = outbound'[l].packetId => k = l
        /\ \A k, l \in DOMAIN outbound' :
             /\ outbound'[k].type = "Publish" /\ outbound'[l].type = "Publish"
             /\ outbound'[k].message = outbound'[l].message
             => k = l
        /\ \A k \in DOMAIN outbound' :
             \/ In(outbound, outbound'[k]) /\ outbound'[k].packetId # id
             \/ outbound'[k].type = "Pubrel"
        /\ \A e : In(outbound, e) /\ e.packetId # id => In(outbound', e)
        /\ Incoming(id) # NoFlight => In(outbound', pubrel)
    <2>1. CASE Incoming(id) = NoFlight /\ outbound' = v
      BY <1>2, <2>1
    <2>2. CASE outbound' = Append(v, pubrel)
      <3>1. /\ Len(v) + 1 \notin DOMAIN v
            /\ \A k \in DOMAIN v : outbound'[k] = v[k]
            /\ outbound'[Len(v) + 1] = pubrel
            /\ \A k \in DOMAIN outbound' : k \in DOMAIN v \/ k = Len(v) + 1
            /\ \A e : In(outbound', e) <=> In(v, e) \/ e = pubrel
        BY <1>2, <1>5, <2>2, WireSent
      <3> QED
        BY <1>2, <1>5, <3>1
    <2> QED
      BY <1>7, <2>1, <2>2
  <1>9. OutboundFits'
    BY <1>8 DEF Inbound, OutboundFits, In
  <1>10. OneInbound'
    <2>1. CASE UNCHANGED toClient
      BY <1>4, <2>1 DEF OneInbound
    <2>2. CASE toClient' = Append(toClient, pubrel)
      <3>1. OneCarrier(toClient, BrokerAsks, toBroker', ClientAnswers)
        BY <1>4, OneCarrierMirrored
      <3>2. OneCarrier(Append(toClient, pubrel), BrokerAsks, toBroker',
                       ClientAnswers)
        BY <1>4, <1>5, <1>6, <3>1, OneCarrierSent
      <3> QED
        BY <2>2, <3>2, OneCarrierMirrored DEF OneInbound
    <2> QED
      BY <1>7, <2>1, <2>2
  <1>11. AsksFit'
    <2>1. ASSUME NEW k \in DOMAIN toClient, toClient[k].type \in BrokerAsks
          PROVE  In(outbound', toClient[k])
      BY <1>4, <1>8, <2>1 DEF Inbound, AsksFit, None
    <2>2. CASE UNCHANGED toClient
      BY <2>1, <2>2 DEF AsksFit, In
    <2>3. CASE toClient' = Append(toClient, pubrel) /\ outbound' = Append(v, pubrel)
      <3>1. In(outbound', pubrel)
        BY <1>2, <1>5, <2>3, WireSent
      <3>2. \A k \in DOMAIN toClient' :
              \/ k \in DOMAIN toClient /\ toClient'[k] = toClient[k]
              \/ toClient'[k] = pubrel
        BY <1>5, <1>6, <2>3, WireSent
      <3> QED
        BY <2>1, <3>1, <3>2 DEF AsksFit, In
    <2> QED
      BY <1>7, <2>2, <2>3
  <1>12. EntriesFit'
    BY <1>8 DEF Inbound, EntriesFit, Incoming, In
  <1>13. AnswersFit'
    <2>1. ASSUME NEW x, x # id, NEW q, AwaitsAnswer(x, q)
          PROVE  AwaitsAnswer(x, q)'
      BY <1>8, <2>1 DEF AwaitsAnswer, In
    <2>2. ASSUME NEW a \in Packet, AnswerFits(a),
                 a.type \in ClientAnswers => a.packetId # id
          PROVE  AnswerFits(a)'
      <3>1. /\ a.type = "Puback" => AwaitsAnswer(a.packetId, 1)'
            /\ a.type = "Pubrec" => AwaitsAnswer(a.packetId, 2)'
        BY <2>1, <2>2 DEF AnswerFits, ClientAnswers
      <3>2. a.type = "Pubcomp" => In(outbound, Ack("Pubrel", a.packetId))'
        <4>1. Ack("Pubrel", a.packetId).packetId = a.packetId
          BY DEF Ack
        <4>2. a.type = "Pubcomp" => In(outbound', Ack("Pubrel", a.packetId))
          BY <1>8, <2>2, <4>1 DEF AnswerFits, ClientAnswers
        <4> QED
          BY <4>2 DEF In
      <3>3. a.type \in {"Puback", "Pubcomp"} => Incoming(a.packetId)' = NoFlight
        BY <2>2 DEF AnswerFits, Incoming
      <3> QED
        BY <3>1, <3>2, <3>3 DEF AnswerFits
    <2>3. \A k \in DOMAIN toBroker' :
            /\ toBroker'[k] \in Packet /\ AnswerFits(toBroker'[k])
            /\ toBroker'[k].type \in ClientAnswers => toBroker'[k].packetId # id
      BY <1>4, <1>6 DEF None
    <2> QED
      BY <2>2, <2>3 DEF AnswersFit
  <1>14. RecordsWait'
    <2> SUFFICES ASSUME session, NEW x \in PacketIds, Incoming(x) # NoFlight
                 PROVE  \E k \in DOMAIN outbound' : outbound'[k].packetId = x
      BY DEF RecordsWait, Incoming, Outstanding
    <2>1. CASE x = id
      BY <1>5, <1>8, <2>1 DEF In
    <2>2. CASE x # id
      <3>1. PICK k \in DOMAIN outbound : outbound[k].packetId = x
        BY DEF Inbound, RecordsWait, Outstanding
      <3>2. In(outbound', outbound[k])
        BY <1>8, <2>2, <3>1 DEF In
      <3> QED
        BY <3>1, <3>2 DEF In
    <2> QED
      BY <2>1, <2>2
  <1> QED
    BY <1>9, <1>10, <1>11, <1>12, <1>13, <1>14
    DEF Inbound, ReceivedAtMostOnce, SettledIsReceived

LEMMA BrokerInbound ==
  ASSUME Types, Links, Inbound,
         \/ Broker \/ BrokerForgets \/ LinkBreaks
         \/ \E id \in PacketIds, q \in PublishQoS : BrokerSendsPublish(id, q)
  PROVE  Inbound'
  <1> USE DEF contextVars, appVars, receivedVars, cursorVars, threadVars,
              netVars, brokerVars
  <1> DEFINE head == Head(toBroker)
  <1>1. CASE BrokerTakesPublish \/ BrokerTakesPubrel
    BY <1>1, TakesInbound
  <1>2. CASE BrokerTakesPubackOrPubrec
    <2>1. /\ toBroker # <<>> /\ toBroker' = Tail(toBroker)
          /\ head.type \in {"Puback", "Pubrec"}
          /\ UNCHANGED <<incoming, received, receivedAgain, sent, session>>
      BY <1>2, BrokerReadsPacket DEF BrokerTakesPubackOrPubrec
    <2>2. PICK i \in Outstanding(head.packetId) :
            IF outbound[i].type = "Publish"
              THEN /\ settled' = settled \cup {outbound[i].message}
                   /\ IF head.type = "Puback"
                        THEN /\ outbound' = Without(outbound, i)
                             /\ UNCHANGED toClient
                        ELSE /\ outbound' = Append(Without(outbound, i),
                                               Ack("Pubrel", head.packetId))
                             /\ toClient' = Append(toClient,
                                               Ack("Pubrel", head.packetId))
              ELSE UNCHANGED <<settled, outbound, toClient>>
      BY <1>2 DEF BrokerTakesPubackOrPubrec
    <2>3. AnswerFits(head)
      BY <2>1, BrokerReadsInbound
    <2>4. PICK j \in DOMAIN outbound :
            /\ outbound[j].type = "Publish"
            /\ outbound[j].packetId = head.packetId
            /\ outbound[j].message \in received
      BY <2>1, <2>3 DEF AnswerFits, AwaitsAnswer
    <2>5. i = j
      BY <2>4 DEF Outstanding, Inbound, OutboundFits
    <2>6. settled' \subseteq received
      BY <2>2, <2>4, <2>5 DEF Inbound, SettledIsReceived
    <2>7. head.type = "Puback" => Incoming(head.packetId) = NoFlight
      BY <2>3 DEF AnswerFits
    <2>8. head.type \in ClientAnswers
      BY <2>1 DEF ClientAnswers
    <2> QED
      BY <2>1, <2>2, <2>4, <2>5, <2>6, <2>7, <2>8, EntryAnswered
  <1>3. CASE BrokerTakesPubcomp
    <2>1. /\ toBroker # <<>> /\ toBroker' = Tail(toBroker)
          /\ head.type = "Pubcomp"
          /\ UNCHANGED <<incoming, received, receivedAgain, sent, session,
                         settled, toClient>>
      BY <1>3, BrokerReadsPacket DEF BrokerTakesPubcomp
    <2>2. PICK i \in Outstanding(head.packetId) :
            outbound' = Without(outbound, i)
      BY <1>3 DEF BrokerTakesPubcomp
    <2>3. Incoming(head.packetId) = NoFlight
      BY <2>1, BrokerReadsInbound DEF AnswerFits
    <2>4. head.type \in ClientAnswers /\ settled' \subseteq received
      BY <2>1 DEF ClientAnswers, Inbound, SettledIsReceived
    <2> QED
      BY <2>1, <2>2, <2>3, <2>4, EntryAnswered
  <1>4. ASSUME NEW id \in PacketIds, NEW q \in PublishQoS,
               BrokerSendsPublish(id, q)
        PROVE  Inbound'
    <2> DEFINE p == Publish(id, q, sent + 1)
    <2>1. /\ p \in Packet /\ p \in PublishPacket /\ p.type = "Publish"
          /\ p.packetId = id /\ p.qos = q /\ p.message = sent + 1
      <3>1. q \in {1, 2} /\ sent + 1 \in Nat
        BY SessionAssumption DEF Types
      <3> QED
        BY <3>1, MadePackets, PacketKinds
    <2>2. /\ link = "up" /\ Outstanding(id) = {}
          /\ sent' = sent + 1
          /\ outbound' = Append(outbound, p)
          /\ toClient' = Append(toClient, p)
          /\ UNCHANGED <<incoming, received, receivedAgain, settled, session,
                         toBroker>>
      BY <1>4 DEF BrokerSendsPublish
    <2>3. /\ toBroker \in Seq(Packet) /\ toClient \in Seq(Packet)
          /\ outbound \in Seq(PublishPacket \cup PubrelPacket) /\ sent \in Nat
      BY DEF Types
    <2>4. session
      BY <2>2 DEF Links
    <2> HIDE DEF p
    <2>5. /\ Len(outbound) + 1 \notin DOMAIN outbound
          /\ \A i \in DOMAIN outbound : outbound'[i] = outbound[i]
          /\ outbound'[Len(outbound) + 1] = p
          /\ DOMAIN outbound' = DOMAIN outbound \cup {Len(outbound) + 1}
          /\ \A e : In(outbound', e) <=> In(outbound, e) \/ e = p
      <3>1. p \in PublishPacket \cup PubrelPacket
        BY <2>1
      <3>2. LET v == Append(outbound, p)
            IN  /\ Len(outbound) \in Nat
                /\ DOMAIN outbound = 1..Len(outbound)
                /\ DOMAIN v = 1..(Len(outbound) + 1)
                /\ \A i \in DOMAIN outbound : v[i] = outbound[i]
                /\ v[Len(outbound) + 1] = p
                /\ \A e : In(v, e) <=> In(outbound, e) \/ e = p
        <4>1. PICK S : S = PublishPacket \cup PubrelPacket
          OBVIOUS
        <4>2. outbound \in Seq(S) /\ p \in S
          BY <2>3, <3>1, <4>1
        <4> QED
          BY <4>2, WireSent
      <3>3. /\ Len(outbound) + 1 \notin DOMAIN outbound
            /\ 1..(Len(outbound) + 1) = DOMAIN outbound \cup {Len(outbound) + 1}
        <4>1. \A n \in Nat : n + 1 \notin 1..n /\ 1..(n + 1) = 1..n \cup {n + 1}
          OBVIOUS
        <4> QED
          BY <3>2, <4>1
      <3> QED
        BY <2>2, <3>2, <3>3
    <2>6. \A i \in DOMAIN outbound : outbound[i].packetId # id
      BY <2>2 DEF Outstanding
    <2>7. /\ \A i \in DOMAIN outbound :
               outbound[i].type = "Publish" => outbound[i].message \in 1..sent
          /\ received \subseteq 1..sent
      BY DEF Inbound, OutboundFits
    <2>8. Incoming(id) = NoFlight
      BY <2>2, <2>4 DEF Inbound, RecordsWait
    <2>9. OutboundFits'
      BY <2>1, <2>2, <2>3, <2>5, <2>6, <2>7 DEF Inbound, OutboundFits
    <2>10. OneInbound'
      <3>1. None(toClient, BrokerAsks, id)
        BY <2>6 DEF Inbound, AsksFit, In, None
      <3>2. None(toBroker, ClientAnswers, id)
        BY <2>6
        DEF Inbound, AnswersFit, AnswerFits, AwaitsAnswer, In, Ack, None,
            ClientAnswers
      <3>3. OneCarrier(toClient, BrokerAsks, toBroker, ClientAnswers)
        BY OneCarrierMirrored DEF Inbound, OneInbound
      <3>4. OneCarrier(Append(toClient, p), BrokerAsks, toBroker, ClientAnswers)
        BY <2>1, <2>3, <3>1, <3>2, <3>3, OneCarrierSent
      <3> QED
        BY <2>2, <3>4, OneCarrierMirrored DEF OneInbound
    <2>11. AsksFit'
      <3>1. \A i \in DOMAIN toClient' :
              \/ i \in DOMAIN toClient /\ toClient'[i] = toClient[i]
              \/ toClient'[i] = p
        BY <2>1, <2>2, <2>3, WireSent
      <3>2. ASSUME NEW i \in DOMAIN toClient, toClient[i].type \in BrokerAsks
            PROVE  In(outbound', toClient[i])
        BY <2>5, <3>2 DEF Inbound, AsksFit
      <3> QED
        BY <2>5, <3>1, <3>2 DEF AsksFit, In
    <2>12. EntriesFit'
      <3> SUFFICES ASSUME NEW i \in DOMAIN outbound',
                          outbound'[i].type = "Publish"
                   PROVE  LET e == outbound'[i]
                          IN  /\ Incoming(e.packetId) # NoFlight =>
                                   /\ Incoming(e.packetId).qos = e.qos
                                   /\ e.message \in received
                              /\ e.qos = 2 /\ e.message \in received =>
                                   Incoming(e.packetId) # NoFlight
        BY <2>2 DEF EntriesFit, Incoming
      <3>1. CASE i \in DOMAIN outbound
        BY <2>5, <3>1 DEF Inbound, EntriesFit
      <3>2. CASE outbound'[i] = p
        <4>1. sent + 1 \notin received
          BY <2>3, <2>7
        <4> QED
          BY <2>1, <2>8, <3>2, <4>1
      <3> QED
        BY <2>5, <3>1, <3>2
    <2>13. AnswersFit'
      <3>1. \A x, q1 : AwaitsAnswer(x, q1) => AwaitsAnswer(x, q1)'
        BY <2>2, <2>5 DEF AwaitsAnswer
      <3>2. \A x : In(outbound, x) => In(outbound', x)
        BY <2>5
      <3>3. ASSUME NEW a, AnswerFits(a)
            PROVE  AnswerFits(a)'
        <4>1. a.type = "Pubcomp" => In(outbound, Ack("Pubrel", a.packetId))'
          BY <3>2, <3>3 DEF AnswerFits, In
        <4> QED
          BY <2>2, <3>1, <3>3, <4>1 DEF AnswerFits, Incoming
      <3> QED
        BY <2>2, <3>3 DEF Inbound, AnswersFit
    <2>14. RecordsWait'
      BY <2>2, <2>5 DEF Inbound, RecordsWait, Incoming, Outstanding
    <2> QED
      BY <2>2, <2>9, <2>10, <2>11, <2>12, <2>13, <2>14
      DEF Inbound, ReceivedAtMostOnce, SettledIsReceived
  <1>5. CASE LinkBreaks
    BY <1>5, InboundStays DEF LinkBreaks
  <1>6. CASE BrokerForgets
    <2>1. toBroker = <<>> /\ toClient = <<>>
      BY <1>6 DEF BrokerForgets, Links
    <2>2. /\ outbound' = <<>> /\ session' = FALSE
          /\ UNCHANGED <<incoming, received, receivedAgain, sent, settled,
                         toBroker, toClient>>
      BY <1>6 DEF BrokerForgets
    <2>3. OutboundFits' /\ EntriesFit' /\ RecordsWait'
      BY <2>2 DEF Inbound, OutboundFits, EntriesFit, RecordsWait
    <2>4. OneInbound' /\ AsksFit' /\ AnswersFit'
      BY <2>1, <2>2 DEF Inbound, OneInbound, AsksFit, AnswersFit
    <2> QED
      BY <2>2, <2>3, <2>4 DEF Inbound, ReceivedAtMostOnce, SettledIsReceived
  <1> QED
    BY <1>1, <1>2, <1>3, <1>4, <1>5, <1>6 DEF Broker

LEMMA InboundInvariant == Spec => [](Base /\ Inbound)
  <1>1. Init => Inbound
    BY InitInbound
  <1>2. Base /\ Inbound /\ [Next]_vars => Inbound'
    <2> SUFFICES ASSUME Types, Links, Inbound, [Next]_vars
                 PROVE  Inbound'
      BY DEF Base
    <2>1. CASE UNCHANGED vars
      BY <2>1, InboundStays
      DEF vars, contextVars, appVars, receivedVars, cursorVars, threadVars,
          netVars, brokerVars
    <2> QED
      BY <2>1, SendInbound, ProcessInbound, ConnectInbound, BrokerInbound
      DEF Next
  <1> QED
    BY <1>1, <1>2, BaseInvariant, PTL DEF Spec

\* However often connections break and the broker sends a publish again, the
\* callback sees a QoS 2 message once: from when it has seen it until the
\* broker has heard so, there is a record (handleIncomingPublish).
THEOREM QoS2ReceivedOnce == Spec => []ReceivedAtMostOnce
  <1>1. Inbound => ReceivedAtMostOnce
    BY DEF Inbound
  <1> QED
    BY <1>1, InboundInvariant, PTL

\* The broker drops no message that the callback has not seen, even where
\* the table of incoming publishes is full (handleIncomingPublish).
THEOREM SettledReceived == Spec => []SettledIsReceived
  <1>1. Inbound => SettledIsReceived
    BY DEF Inbound
  <1> QED
    BY <1>1, InboundInvariant, PTL

-----------------------------------------------------------------------------
(* Outbound: the messages of the client, as far as QoS 2 needs it.         *)

IsQoS2(p) == p.type = "Publish" /\ p.qos = 2

\* Neither PUBREL nor PUBCOMP of id is on its way.
NoRelease(id) ==
  None(toBroker, {"Pubrel"}, id) /\ None(toClient, {"Pubcomp"}, id)

\* One PUBREL or PUBCOMP at most is about a publish, whose record waits for
\* the PUBCOMP, and the publish itself is not sent again after it.
Releases ==
  /\ OneCarrier(toBroker, {"Pubrel"}, toClient, {"Pubcomp"})
  /\ \A id \in PacketIds :
       NoRelease(id) \/ Outgoing(id) = At(2, "PubCompPending")
  /\ \A i, j \in DOMAIN toBroker :
       i < j /\ toBroker[i].type = "Pubrel" /\ IsQoS2(toBroker[j])
       => toBroker[i].packetId # toBroker[j].packetId
  /\ \A i \in DOMAIN toClient, j \in DOMAIN toBroker :
       toClient[i].type = "Pubcomp" /\ IsQoS2(toBroker[j])
       => toClient[i].packetId # toBroker[j].packetId

\* The resumption has released nothing that it has yet to select or to send.
CursorFits ==
  /\ pc = "pubrels" =>
       \A id \in PacketIds : Ahead(outgoing, cursor, id) => NoRelease(id)
  /\ selected \in PubrelPacket =>
       /\ NoRelease(selected.packetId)
       /\ ~Ahead(outgoing, cursor, selected.packetId)

\* No other record stands for the message.
OneRecord(p) ==
  /\ p.message \in 1..published
  /\ \A id \in PacketIds :
       Outgoing(id) # NoFlight /\ messageOf[id] = p.message =>
         id = p.packetId /\ Outgoing(id).qos = p.qos

\* A message has one identifier.
Messages ==
  /\ \A x, y \in PacketIds :
       messageOf[x] = messageOf[y] /\ messageOf[x] # 0 => x = y
  /\ \A id \in PacketIds :
       /\ messageOf[id] \in 0..published
       /\ Outgoing(id) # NoFlight => messageOf[id] # 0
  /\ \A i \in DOMAIN arrivals : arrivals[i] \in 1..published
  /\ \A i \in DOMAIN toBroker :
       toBroker[i].type = "Publish" => OneRecord(toBroker[i])

\* The broker knows a QoS 2 publish that it has delivered.
Known(p) ==
  /\ Outgoing(p.packetId).qos = 2
  /\ messageOf[p.packetId] = p.message
  /\ Delivered(p.message) => p.packetId \in taken

\* The broker holds the identifier of every message it has delivered that may
\* be sent again, or that is being sent.
Taken ==
  /\ session =>
       \A id \in PacketIds :
         Outgoing(id) \in Resendable(2) /\ Delivered(messageOf[id])
         => id \in taken
  /\ \A i \in DOMAIN toBroker : IsQoS2(toBroker[i]) => Known(toBroker[i])

Outbound ==
  Releases /\ CursorFits /\ Messages /\ Taken /\ DeliveredAtMostOnce

\* Of these types, v has nothing but what w has, in the same order.
Keeps(v, w, types) ==
  /\ \A i \in DOMAIN v : v[i].type \in types => In(w, v[i])
  /\ \A i, j \in DOMAIN v :
       i < j /\ v[i].type \in types /\ v[j].type \in types =>
         \E k, l \in DOMAIN w : k < l /\ v[i] = w[k] /\ v[j] = w[l]

Sends == {"Publish", "Pubrel"}

\* The wires lose packets, and carry no new ones that matter here.
WiresKept ==
  Keeps(toBroker', toBroker, Sends) /\ Keeps(toClient', toClient, {"Pubcomp"})

LEMMA KeepsLess ==
  ASSUME NEW w \in Seq(Packet), NEW types
  PROVE  /\ Keeps(w, w, types)
         /\ Keeps(<<>>, w, types)
         /\ w # <<>> => Keeps(Tail(w), w, types)
  <1>1. Keeps(w, w, types) /\ Keeps(<<>>, w, types)
    BY DEF Keeps, In
  <1>2. ASSUME w # <<>> PROVE Keeps(Tail(w), w, types)
    <2>1. \A i \in DOMAIN Tail(w) :
            /\ i \in Nat \ {0}
            /\ i + 1 \in DOMAIN w /\ Tail(w)[i] = w[i + 1]
      BY <1>2, WireRead
    <2>2. \A i, j \in DOMAIN Tail(w) : i < j => i + 1 < j + 1
      BY <2>1
    <2> QED
      BY <2>1, <2>2 DEF Keeps, In
  <1> QED
    BY <1>1, <1>2

LEMMA KeepsMore ==
  ASSUME NEW w \in Seq(Packet), NEW p \in Packet, NEW types, p.type \notin types
  PROVE  Keeps(Append(w, p), w, types)
  <1> DEFINE v == Append(w, p)
  <1>1. /\ \A i \in DOMAIN w : v[i] = w[i]
        /\ v[Len(w) + 1] = p
        /\ \A i \in DOMAIN v : i \in DOMAIN w \/ i = Len(w) + 1
    BY WireSent
  <1>2. \A i \in DOMAIN v : v[i].type \in types => i \in DOMAIN w /\ v[i] = w[i]
    BY <1>1
  <1> HIDE DEF v
  <1> QED
    BY <1>2 DEF Keeps, In, v

LEMMA NoReleaseKept ==
  ASSUME WiresKept, NEW id, NoRelease(id)
  PROVE  NoRelease(id)'
  BY DEF WiresKept, Keeps, Sends, In, NoRelease, None

LEMMA SingleKept ==
  ASSUME NEW w \in Seq(Packet), NEW v \in Seq(Packet), NEW types, NEW some,
         Keeps(v, w, types), some \subseteq types, Single(w, some)
  PROVE  Single(v, some)
  <1>1. DOMAIN v \subseteq Nat /\ DOMAIN w \subseteq Nat
    OBVIOUS
  <1> SUFFICES ASSUME NEW i \in DOMAIN v, NEW j \in DOMAIN v, i # j,
                      v[i].type \in some, v[j].type \in some,
                      v[i].packetId = v[j].packetId
               PROVE  FALSE
    BY DEF Single
  <1>2. ASSUME NEW k \in DOMAIN v, NEW l \in DOMAIN v, k < l,
               v[k].type \in some, v[l].type \in some,
               v[k].packetId = v[l].packetId
        PROVE  FALSE
    <2>1. PICK m, n \in DOMAIN w : m < n /\ v[k] = w[m] /\ v[l] = w[n]
      BY <1>2 DEF Keeps
    <2>2. m = n
      BY <1>2, <2>1 DEF Single
    <2> QED
      BY <1>1, <2>1, <2>2
  <1>3. i < j \/ j < i
    BY <1>1
  <1> QED
    BY <1>2, <1>3

-----------------------------------------------------------------------------
(* What keeps each part of Outbound.                                       *)

LEMMA ReleasesKept ==
  ASSUME Types, Types', Releases, WiresKept,
         \A x \in PacketIds :
           Flight(outgoing', x) = Outgoing(x) \/ NoRelease(x)'
  PROVE  Releases'
  <1> DEFINE a == toBroker
             b == toBroker'
             c == toClient
             d == toClient'
  <1>1. /\ a \in Seq(Packet) /\ b \in Seq(Packet)
        /\ c \in Seq(Packet) /\ d \in Seq(Packet)
    BY DEF Types
  <1>2. Keeps(b, a, Sends) /\ Keeps(d, c, {"Pubcomp"})
    BY DEF WiresKept
  <1>3. /\ \A i \in DOMAIN b :
             b[i].type \in Sends => \E k \in DOMAIN a : a[k] = b[i]
        /\ \A i \in DOMAIN d :
             d[i].type = "Pubcomp" => \E k \in DOMAIN c : c[k] = d[i]
    BY <1>2 DEF Keeps, In
  <1>4. OneCarrier(b, {"Pubrel"}, d, {"Pubcomp"})
    <2>1. Single(b, {"Pubrel"}) /\ Single(d, {"Pubcomp"})
      BY <1>1, <1>2, SingleKept DEF Releases, OneCarrier, Sends
    <2>2. ASSUME NEW i \in DOMAIN b, NEW j \in DOMAIN d,
                 b[i].type = "Pubrel", d[j].type = "Pubcomp"
          PROVE  b[i].packetId # d[j].packetId
      <3>1. PICK k \in DOMAIN a : a[k] = b[i]
        BY <1>3, <2>2 DEF Sends
      <3>2. PICK l \in DOMAIN c : c[l] = d[j]
        BY <1>3, <2>2
      <3>3. a[k].packetId # c[l].packetId
        BY <2>2, <3>1, <3>2 DEF Releases, OneCarrier
      <3> QED
        BY <3>1, <3>2, <3>3
    <2> QED
      BY <2>1, <2>2 DEF OneCarrier
  <1>5. \A id \in PacketIds :
          NoRelease(id)' \/ Flight(outgoing', id) = At(2, "PubCompPending")
    BY NoReleaseKept DEF Releases
  <1>6. ASSUME NEW i \in DOMAIN b, NEW j \in DOMAIN b, i < j,
               b[i].type = "Pubrel", IsQoS2(b[j])
        PROVE  b[i].packetId # b[j].packetId
    <2>1. b[i].type \in Sends /\ b[j].type \in Sends
      BY <1>6 DEF Sends, IsQoS2
    <2>2. PICK k, l \in DOMAIN a : k < l /\ b[i] = a[k] /\ b[j] = a[l]
      BY <1>2, <1>6, <2>1 DEF Keeps
    <2>3. a[k].packetId # a[l].packetId
      BY <1>6, <2>2 DEF Releases
    <2> QED
      BY <2>2, <2>3
  <1>7. ASSUME NEW i \in DOMAIN d, NEW j \in DOMAIN b,
               d[i].type = "Pubcomp", IsQoS2(b[j])
        PROVE  d[i].packetId # b[j].packetId
    <2>1. PICK k \in DOMAIN c : c[k] = d[i]
      BY <1>3, <1>7
    <2>2. PICK l \in DOMAIN a : a[l] = b[j]
      BY <1>3, <1>7 DEF Sends, IsQoS2
    <2>3. c[k].packetId # a[l].packetId
      BY <1>7, <2>1, <2>2 DEF Releases
    <2> QED
      BY <2>1, <2>2, <2>3
  <1> QED
    BY <1>4, <1>5, <1>6, <1>7 DEF Releases, Outgoing

\* PUBRELs are selected by MQTT_Connect only while it resends PUBRELs.
LEMMA PubrelSelected ==
  ASSUME Types, Links, selected \in PubrelPacket
  PROVE  pc = "pubrels" /\ selected # Nothing
  BY PacketKinds DEF Types, Links

LEMMA CursorKept ==
  ASSUME Types', Links', CursorFits,
         pc' = "pubrels" =>
           /\ pc = "pubrels"
           /\ selected' \in {selected, Nothing}
           /\ \A x \in PacketIds :
                Ahead(outgoing', cursor', x) =>
                  \/ Ahead(outgoing, cursor, x)
                  \/ /\ NoRelease(x)'
                     /\ selected' \in PubrelPacket => x # selected'.packetId,
         \A x \in PacketIds :
           /\ NoRelease(x)
           /\ \/ Ahead(outgoing', cursor', x)
              \/ selected' \in PubrelPacket /\ x = selected'.packetId
           => NoRelease(x)'
  PROVE  CursorFits'
  <1>1. ASSUME pc' = "pubrels", NEW x \in PacketIds,
               Ahead(outgoing', cursor', x)
        PROVE  NoRelease(x)'
    BY <1>1 DEF CursorFits
  <1>2. ASSUME selected' \in PubrelPacket
        PROVE  /\ NoRelease(selected.packetId)' /\ selected' = selected
               /\ ~Ahead(outgoing', cursor', selected'.packetId)
    <2>1. selected' # Nothing /\ selected'.packetId \in PacketIds
      BY <1>2, PacketKinds
    <2>2. pc' = "pubrels"
      BY <1>2, <2>1, PacketKinds DEF Types, Links
    <2>3. selected' = selected
      BY <2>1, <2>2
    <2>4. NoRelease(selected.packetId) /\ ~Ahead(outgoing, cursor, selected.packetId)
      BY <1>2, <2>3 DEF CursorFits
    <2>5. PICK id \in PacketIds : id = selected.packetId
      BY <2>1, <2>3
    <2>6. NoRelease(id)'
      BY <1>2, <2>3, <2>4, <2>5
    <2>7. NoRelease(selected.packetId)'
      BY <2>3, <2>5, <2>6
    <2> QED
      BY <1>2, <2>1, <2>2, <2>3, <2>4, <2>7
  <1>3. selected' \in PubrelPacket => NoRelease(selected.packetId)'
    BY <1>2
  <1> QED
    BY <1>1, <1>2, <1>3 DEF CursorFits

LEMMA MessagesKept ==
  ASSUME Types, Types', Messages,
         UNCHANGED <<messageOf, published>>,
         \A i \in DOMAIN arrivals' : arrivals'[i] \in 1..published,
         \A x \in PacketIds :
           \/ Flight(outgoing', x) = NoFlight
           \/ /\ Outgoing(x) # NoFlight
              /\ Flight(outgoing', x).qos = Outgoing(x).qos,
         \A p \in PublishPacket :
           In(toBroker', p) => In(toBroker, p) \/ OneRecord(p)
  PROVE  Messages'
  <1>1. ASSUME NEW p \in PublishPacket, In(toBroker', p)
        PROVE  OneRecord(p)'
    <2>1. OneRecord(p)
      BY <1>1, PacketKinds DEF Messages, In
    <2> QED
      BY <2>1 DEF OneRecord, Outgoing
  <1>2. \A i \in DOMAIN toBroker' :
          toBroker'[i].type = "Publish" =>
            toBroker'[i] \in PublishPacket /\ In(toBroker', toBroker'[i])
    BY PacketKinds DEF Types, In
  <1>3. \A i \in DOMAIN toBroker' :
          toBroker'[i].type = "Publish" => OneRecord(toBroker[i])'
    <2> SUFFICES ASSUME NEW p \in PublishPacket, In(toBroker', p)
                 PROVE  OneRecord(p)'
      BY <1>2
    <2> QED
      BY <1>1
  <1> QED
    BY <1>3 DEF Messages, Outgoing

LEMMA TakenKept ==
  ASSUME Types, Types', Taken,
         UNCHANGED <<messageOf, arrivals, taken>>,
         session' => session,
         \A x \in PacketIds :
           \/ Flight(outgoing', x) = Outgoing(x)
           \/ /\ Flight(outgoing', x) \in Resendable(2) =>
                   Outgoing(x) \in Resendable(2)
              /\ \/ Flight(outgoing', x).qos = Outgoing(x).qos
                 \/ \A p \in PublishPacket :
                      In(toBroker', p) /\ p.qos = 2 => p.packetId # x,
         \A p \in PublishPacket :
           In(toBroker', p) /\ p.qos = 2 => In(toBroker, p) \/ Known(p)
  PROVE  Taken'
  <1>1. \A m : Delivered(m)' <=> Delivered(m)
    BY DEF Delivered
  <1>2. ASSUME session', NEW id \in PacketIds,
               Flight(outgoing', id) \in Resendable(2),
               Delivered(messageOf[id])
        PROVE  id \in taken
    BY <1>2 DEF Taken, Outgoing
  <1>3. ASSUME NEW p \in PublishPacket, In(toBroker', p), p.qos = 2
        PROVE  Known(p)'
    <2>1. Known(p) /\ p.packetId \in PacketIds
      BY <1>3, PacketKinds DEF Taken, In, IsQoS2
    <2>2. Flight(outgoing', p.packetId).qos = Outgoing(p.packetId).qos
      BY <1>3, <2>1
    <2> QED
      BY <1>1, <2>1, <2>2 DEF Known, Outgoing
  <1>4. \A i \in DOMAIN toBroker' :
          IsQoS2(toBroker'[i]) =>
            /\ toBroker'[i] \in PublishPacket /\ toBroker'[i].qos = 2
            /\ In(toBroker', toBroker'[i])
    BY PacketKinds DEF Types, In, IsQoS2
  <1>5. \A i \in DOMAIN toBroker' : IsQoS2(toBroker'[i]) => Known(toBroker[i])'
    <2> SUFFICES ASSUME NEW p \in PublishPacket, In(toBroker', p), p.qos = 2
                 PROVE  Known(p)'
      BY <1>4
    <2> QED
      BY <1>3
  <1> QED
    BY <1>1, <1>2, <1>5 DEF Taken, Outgoing

LEMMA OutboundKept ==
  ASSUME Types, Types', Links, Links', Outbound, WiresKept, FlightsKept,
         UNCHANGED <<messageOf, published, arrivals, taken, repeated>>,
         session' => session,
         pc' = "pubrels" =>
           /\ pc = "pubrels"
           /\ selected' \in {selected, Nothing}
           /\ \A x \in PacketIds :
                Ahead(outgoing', cursor', x) => Ahead(outgoing, cursor, x)
  PROVE  Outbound'
  <1>1. \A x \in PacketIds : Flight(outgoing', x) = Outgoing(x)
    BY DEF FlightsKept, Outgoing
  <1>2. Releases'
    BY <1>1, ReleasesKept DEF Outbound
  <1>3. CursorFits'
    BY NoReleaseKept, CursorKept DEF Outbound
  <1>4. \A p \in PublishPacket : In(toBroker', p) => In(toBroker, p)
    BY PacketKinds DEF WiresKept, Keeps, Sends, In
  <1>5. Messages'
    <2>1. \A x \in PacketIds :
            \/ Flight(outgoing', x) = NoFlight
            \/ /\ Outgoing(x) # NoFlight
               /\ Flight(outgoing', x).qos = Outgoing(x).qos
      BY <1>1
    <2>2. \A i \in DOMAIN arrivals' : arrivals'[i] \in 1..published
      BY DEF Outbound, Messages
    <2> QED
      BY <1>4, <2>1, <2>2, MessagesKept DEF Outbound
  <1>6. Taken'
    BY <1>1, <1>4, TakenKept DEF Outbound
  <1> QED
    BY <1>2, <1>3, <1>5, <1>6 DEF Outbound, DeliveredAtMostOnce

-----------------------------------------------------------------------------
(* Steps and Outbound.                                                     *)

LEMMA InitOutbound == Init => Outbound
  <1> SUFFICES ASSUME Init PROVE Outbound
    OBVIOUS
  <1>1. \A x \in PacketIds : Outgoing(x) = NoFlight
    <2>1. \A x \in PacketIds : Progress(outgoing)[x] = NoFlight
      BY EmptyTableView, SessionAssumption DEF Init, NoFlight
    <2> QED
      BY <2>1 DEF Progress, Outgoing
  <1>2. Releases
    BY OneCarrierNothing DEF Init, Releases, NoRelease, None
  <1>3. CursorFits
    BY PacketKinds DEF Init, CursorFits
  <1>4. Messages
    BY <1>1 DEF Init, Messages
  <1>5. Taken
    BY DEF Init, Taken
  <1> QED
    BY <1>2, <1>3, <1>4, <1>5 DEF Init, Outbound, DeliveredAtMostOnce

\* The client answers the broker, or sends nothing.
LEMMA WiresKeptSent ==
  ASSUME Types, Links, NEW ok, NEW packet \in Packet, packet.type \notin Sends,
         NEW inbox,
         \/ inbox = toClient
         \/ toClient # <<>> /\ inbox = Tail(toClient),
         Transfer(ok, packet, inbox)
  PROVE  WiresKept
  <1>1. toBroker \in Seq(Packet) /\ toClient \in Seq(Packet)
    BY DEF Types
  <1>2. Keeps(inbox, toClient, {"Pubcomp"})
    BY <1>1, KeepsLess
  <1>3. Keeps(Append(toBroker, packet), toBroker, Sends)
    BY <1>1, KeepsMore
  <1>4. Keeps(<<>>, toBroker, Sends) /\ Keeps(<<>>, toClient, {"Pubcomp"})
    BY <1>1, KeepsLess
  <1>5. \/ toBroker' = Append(toBroker, packet) /\ toClient' = inbox
        \/ toBroker' = <<>> /\ toClient' = <<>>
    BY TransferLinks
  <1> QED
    BY <1>2, <1>3, <1>4, <1>5 DEF WiresKept

\* One wire loses a packet, or both lose all.
LEMMA WiresKeptLess ==
  ASSUME Types,
         \/ UNCHANGED <<toBroker, toClient>>
         \/ toBroker' = <<>> /\ toClient' = <<>>
         \/ toClient # <<>> /\ toClient' = Tail(toClient) /\ UNCHANGED toBroker
         \/ /\ toBroker # <<>> /\ toBroker' = Tail(toBroker)
            /\ \/ UNCHANGED toClient
               \/ \E packet \in Packet :
                    /\ packet.type # "Pubcomp"
                    /\ toClient' = Append(toClient, packet)
  PROVE  WiresKept
  <1>1. toBroker \in Seq(Packet) /\ toClient \in Seq(Packet)
    BY DEF Types
  <1>2. \A packet \in Packet :
          packet.type # "Pubcomp" =>
            Keeps(Append(toClient, packet), toClient, {"Pubcomp"})
    BY <1>1, KeepsMore
  <1> QED
    BY <1>1, <1>2, KeepsLess DEF WiresKept

\* Steps that touch neither the records of outgoing publishes nor what is on
\* its way about them.
LEMMA QuietOutbound ==
  ASSUME Types, Types', Links, Links', Outbound, WiresKept,
         UNCHANGED <<outgoing, messageOf, published, arrivals, taken,
                     repeated, session>>,
         pc' = "pubrels" => pc = "pubrels" /\ UNCHANGED <<cursor, selected>>
  PROVE  Outbound'
  <1>1. FlightsKept
    BY DEF FlightsKept
  <1> QED
    BY <1>1, OutboundKept

LEMMA ProcessAnswersOutbound ==
  ASSUME Types, Types', Links, Links', Outbound,
         NEW ok \in BOOLEAN, HandlePublish(ok) \/ HandlePubrel(ok)
  PROVE  Outbound'
  <1> USE DEF contextVars, appVars, receivedVars, cursorVars, threadVars,
              netVars, brokerVars
  <1> DEFINE id == Head(toClient).packetId
  <1>1. toClient # <<>> /\ id \in PacketIds
    BY ArrivedPacket DEF HandlePublish, HandlePubrel
  <1>2. UNCHANGED <<outgoing, messageOf, published, arrivals, taken,
                    repeated, session, pc, cursor, selected>>
    BY DEF HandlePublish, HandlePubrel
  <1>3. \/ toClient' = Tail(toClient) /\ UNCHANGED toBroker
        \/ \E type \in ClientAnswers :
             Transfer(ok, Ack(type, id), Tail(toClient))
    BY DEF HandlePublish, HandlePubrel, ClientAnswers
  <1>4. \A type \in ClientAnswers :
          Ack(type, id) \in Packet /\ Ack(type, id).type \notin Sends
    BY <1>1, MadePackets DEF ClientAnswers, MQTTPubAckType, Sends
  <1>5. WiresKept
    BY <1>1, <1>3, <1>4, WiresKeptSent, WiresKeptLess
  <1> QED
    BY <1>2, <1>5, QuietOutbound

LEMMA BrokerQuietOutbound ==
  ASSUME Types, Types', Links, Links', Outbound,
         \/ BrokerTakesPubackOrPubrec \/ BrokerTakesPubcomp \/ LinkBreaks
         \/ \E id \in PacketIds, q \in PublishQoS : BrokerSendsPublish(id, q)
  PROVE  Outbound'
  <1> USE DEF contextVars, appVars, receivedVars, cursorVars, threadVars,
              netVars, brokerVars
  <1>1. UNCHANGED <<outgoing, messageOf, published, arrivals, taken,
                    repeated, session, pc, cursor, selected>>
    BY DEF BrokerTakesPubackOrPubrec, BrokerTakesPubcomp, LinkBreaks,
           BrokerSendsPublish
  <1>2. CASE BrokerTakesPubackOrPubrec
    <2> DEFINE id == Head(toBroker).packetId
    <2>1. /\ toBroker # <<>> /\ toBroker' = Tail(toBroker)
          /\ id \in PacketIds
          /\ \/ UNCHANGED toClient
             \/ toClient' = Append(toClient, Ack("Pubrel", id))
      BY <1>2, BrokerReadsPacket DEF BrokerTakesPubackOrPubrec
    <2>2. Ack("Pubrel", id) \in Packet /\ Ack("Pubrel", id).type # "Pubcomp"
      BY <2>1, MadePackets DEF MQTTPubAckType
    <2> QED
      BY <1>1, <2>1, <2>2, WiresKeptLess, QuietOutbound
  <1>3. CASE BrokerTakesPubcomp
    BY <1>1, <1>3, BrokerReadsPacket, WiresKeptLess, QuietOutbound
    DEF BrokerTakesPubcomp
  <1>4. CASE LinkBreaks
    BY <1>1, <1>4, WiresKeptLess, QuietOutbound DEF LinkBreaks
  <1>5. ASSUME NEW id \in PacketIds, NEW q \in PublishQoS,
               BrokerSendsPublish(id, q)
        PROVE  Outbound'
    <2> DEFINE p == Publish(id, q, sent + 1)
    <2>1. p \in Packet /\ p.type = "Publish"
      <3>1. q \in {1, 2} /\ sent + 1 \in Nat
        BY SessionAssumption DEF Types
      <3> QED
        BY <3>1, MadePackets, PacketKinds
    <2>2. toClient' = Append(toClient, p) /\ UNCHANGED toBroker
      BY <1>5 DEF BrokerSendsPublish
    <2> HIDE DEF p
    <2>3. toBroker \in Seq(Packet) /\ toClient \in Seq(Packet)
      BY DEF Types
    <2>4. Keeps(Append(toClient, p), toClient, {"Pubcomp"})
      BY <2>1, <2>3, KeepsMore
    <2>5. WiresKept
      BY <2>2, <2>3, <2>4, KeepsLess DEF WiresKept
    <2> QED
      BY <1>1, <2>5, QuietOutbound
  <1> QED
    BY <1>2, <1>3, <1>4, <1>5

\* A PUBLISH is sent that its record may be sent again for.
LEMMA PublishedOutbound ==
  ASSUME Types, Types', Links, Links', Outbound, session,
         NEW p \in PublishPacket,
         toBroker' = Append(toBroker, p), toClient' = toClient,
         UNCHANGED <<messageOf, published, arrivals, taken, repeated, session>>,
         Outgoing(p.packetId) \in Resendable(p.qos),
         messageOf[p.packetId] = p.message,
         OthersKept(p.packetId),
         Flight(outgoing', p.packetId) \in Resendable(p.qos),
         pc' = "pubrels" =>
           /\ pc = "pubrels"
           /\ selected' \in {selected, Nothing}
           /\ \A x \in PacketIds :
                Ahead(outgoing', cursor', x) => Ahead(outgoing, cursor, x)
  PROVE  Outbound'
  <1> DEFINE id == p.packetId
             n  == Len(toBroker) + 1
  <1>1. /\ p \in Packet /\ p.type = "Publish" /\ id \in PacketIds
        /\ p.qos \in {1, 2}
    BY PacketKinds
  <1>2. toBroker \in Seq(Packet) /\ toClient \in Seq(Packet)
    BY DEF Types
  <1>3. /\ Len(toBroker) \in Nat
        /\ DOMAIN toBroker = 1..Len(toBroker)
        /\ \A i \in DOMAIN toBroker : toBroker'[i] = toBroker[i]
        /\ toBroker'[n] = p
        /\ \A i \in DOMAIN toBroker' : i \in DOMAIN toBroker \/ i = n
        /\ \A packet : In(toBroker', packet) <=> In(toBroker, packet) \/ packet = p
        /\ \A x : None(toBroker, {"Pubrel"}, x) => None(toBroker', {"Pubrel"}, x)
    BY <1>1, <1>2, WireSent
  <1>4. NoRelease(id)
    <2>1. Outgoing(id) # At(2, "PubCompPending")
      BY <1>1, FlightsDiffer DEF Releasing
    <2> QED
      BY <1>1, <2>1 DEF Outbound, Releases
  <1>5. \A x : NoRelease(x) => NoRelease(x)'
    BY <1>3 DEF NoRelease
  <1>6. \A x \in PacketIds : x # id => Flight(outgoing', x) = Outgoing(x)
    BY DEF OthersKept, Outgoing
  <1>7. /\ Outgoing(id) # NoFlight /\ Outgoing(id).qos = p.qos
        /\ Flight(outgoing', id) # NoFlight /\ Flight(outgoing', id).qos = p.qos
    BY <1>1, FlightsDiffer
  <1> HIDE DEF id, n
  <1>8. Releases'
    <2>1. OneCarrier(toBroker', {"Pubrel"}, toClient', {"Pubcomp"})
      BY <1>1, <1>2, OneCarrierSent DEF Outbound, Releases
    <2>2. \A x \in PacketIds :
            NoRelease(x)' \/ Flight(outgoing', x) = At(2, "PubCompPending")
      BY <1>4, <1>5, <1>6 DEF Outbound, Releases
    <2>3. ASSUME NEW i \in DOMAIN toBroker', NEW j \in DOMAIN toBroker',
                 i < j, toBroker'[i].type = "Pubrel", IsQoS2(toBroker'[j])
          PROVE  toBroker'[i].packetId # toBroker'[j].packetId
      <3>1. i \in DOMAIN toBroker
        BY <1>1, <1>3, <2>3
      <3>2. CASE j \in DOMAIN toBroker
        BY <1>3, <2>3, <3>1, <3>2 DEF Outbound, Releases
      <3>3. CASE j = n
        BY <1>3, <1>4, <2>3, <3>1, <3>3 DEF NoRelease, None, id
      <3> QED
        BY <1>3, <3>2, <3>3
    <2>4. ASSUME NEW i \in DOMAIN toClient, NEW j \in DOMAIN toBroker',
                 toClient[i].type = "Pubcomp", IsQoS2(toBroker'[j])
          PROVE  toClient[i].packetId # toBroker'[j].packetId
      <3>1. CASE j \in DOMAIN toBroker
        BY <1>3, <2>4, <3>1 DEF Outbound, Releases
      <3>2. CASE j = n
        BY <1>3, <1>4, <2>4, <3>2 DEF NoRelease, None, id
      <3> QED
        BY <1>3, <3>1, <3>2
    <2> QED
      BY <2>1, <2>2, <2>3, <2>4 DEF Releases, Outgoing
  <1>9. CursorFits'
    BY <1>5, CursorKept DEF Outbound
  <1>10. Messages'
    <2>1. OneRecord(p)
      <3>1. p.message # 0 /\ p.message \in 0..published
        BY <1>1, <1>7 DEF Outbound, Messages, id
      <3>2. p.message \in 1..published
        BY <3>1 DEF Types
      <3> QED
        BY <1>1, <1>7, <3>1, <3>2 DEF Outbound, Messages, OneRecord, id
    <2>2. \A i \in DOMAIN arrivals' : arrivals'[i] \in 1..published
      BY DEF Outbound, Messages
    <2>3. \A x \in PacketIds :
            \/ Flight(outgoing', x) = NoFlight
            \/ /\ Outgoing(x) # NoFlight
               /\ Flight(outgoing', x).qos = Outgoing(x).qos
      BY <1>6, <1>7
    <2> QED
      BY <1>3, <2>1, <2>2, <2>3, MessagesKept DEF Outbound
  <1>11. Taken'
    <2>1. p.qos = 2 => Known(p)
      BY <1>1, <1>7 DEF Outbound, Taken, Known, id
    <2>2. \A x \in PacketIds :
            \/ Flight(outgoing', x) = Outgoing(x)
            \/ /\ Flight(outgoing', x) \in Resendable(2) =>
                    Outgoing(x) \in Resendable(2)
               /\ Flight(outgoing', x).qos = Outgoing(x).qos
      <3>1. p.qos = 1 => Flight(outgoing', id) \notin Resendable(2)
        BY FlightsDiffer DEF id
      <3> QED
        BY <1>1, <1>6, <1>7, <3>1 DEF id
    <2>3. \A pp \in PublishPacket :
            In(toBroker', pp) /\ pp.qos = 2 => In(toBroker, pp) \/ Known(pp)
      BY <1>3, <2>1
    <2> QED
      BY <2>2, <2>3, TakenKept DEF Outbound
  <1> QED
    BY <1>8, <1>9, <1>10, <1>11 DEF Outbound, DeliveredAtMostOnce

\* A record goes on or ends, and nothing is sent for it.
LEMMA RecordOutbound ==
  ASSUME Types, Types', Links, Links', Outbound, WiresKept,
         NEW id \in PacketIds, OthersKept(id), NoRelease(id)',
         UNCHANGED <<messageOf, published, arrivals, taken, repeated, session>>,
         Flight(outgoing', id) \in Resendable(2) => Outgoing(id) \in Resendable(2),
         \/ /\ Outgoing(id) # NoFlight
            /\ Flight(outgoing', id).qos = Outgoing(id).qos
         \/ /\ Flight(outgoing', id) = NoFlight
            /\ \A p \in PublishPacket :
                 In(toBroker, p) /\ p.qos = 2 => p.packetId # id,
         pc' = "pubrels" =>
           /\ pc = "pubrels"
           /\ selected' \in {selected, Nothing}
           /\ \A x \in PacketIds :
                Ahead(outgoing', cursor', x) => Ahead(outgoing, cursor, x)
  PROVE  Outbound'
  <1>1. \A x \in PacketIds : x # id => Flight(outgoing', x) = Outgoing(x)
    BY DEF OthersKept, Outgoing
  <1>2. \A p \in PublishPacket : In(toBroker', p) => In(toBroker, p)
    BY PacketKinds DEF WiresKept, Keeps, Sends, In
  <1>3. Releases'
    <2>1. \A x \in PacketIds :
            Flight(outgoing', x) = Outgoing(x) \/ NoRelease(x)'
      BY <1>1
    <2> QED
      BY <2>1, ReleasesKept DEF Outbound
  <1>4. CursorFits'
    BY NoReleaseKept, CursorKept DEF Outbound
  <1>5. Messages'
    <2>1. \A x \in PacketIds :
            \/ Flight(outgoing', x) = NoFlight
            \/ /\ Outgoing(x) # NoFlight
               /\ Flight(outgoing', x).qos = Outgoing(x).qos
      BY <1>1
    <2>2. \A i \in DOMAIN arrivals' : arrivals'[i] \in 1..published
      BY DEF Outbound, Messages
    <2> QED
      BY <1>2, <2>1, <2>2, MessagesKept DEF Outbound
  <1>6. Taken'
    <2>1. \A x \in PacketIds :
            \/ Flight(outgoing', x) = Outgoing(x)
            \/ /\ Flight(outgoing', x) \in Resendable(2) =>
                    Outgoing(x) \in Resendable(2)
               /\ \/ Flight(outgoing', x).qos = Outgoing(x).qos
                  \/ \A p \in PublishPacket :
                       In(toBroker', p) /\ p.qos = 2 => p.packetId # x
      BY <1>1, <1>2
    <2> QED
      BY <1>2, <2>1, TakenKept DEF Outbound
  <1> QED
    BY <1>3, <1>4, <1>5, <1>6 DEF Outbound, DeliveredAtMostOnce

\* A PUBREL is sent, when no other one or its answer is on its way.
LEMMA PubrelOutbound ==
  ASSUME Types, Types', Links, Links', Outbound,
         NEW id \in PacketIds, OthersKept(id), NoRelease(id),
         toBroker' = Append(toBroker, Ack("Pubrel", id)),
         \/ toClient' = toClient
         \/ toClient # <<>> /\ toClient' = Tail(toClient),
         UNCHANGED <<messageOf, published, arrivals, taken, repeated, session>>,
         Outgoing(id) # NoFlight, Outgoing(id).qos = 2,
         Flight(outgoing', id) = At(2, "PubCompPending"),
         pc' = "pubrels" =>
           /\ pc = "pubrels"
           /\ selected' = Nothing
           /\ \A x \in PacketIds :
                Ahead(outgoing', cursor', x) =>
                  Ahead(outgoing, cursor, x) /\ x # id
  PROVE  Outbound'
  <1> DEFINE p == Ack("Pubrel", id)
             n == Len(toBroker) + 1
  <1>1. p \in Packet /\ p.type = "Pubrel" /\ p.packetId = id
    BY MadePackets DEF MQTTPubAckType
  <1>2. /\ toBroker \in Seq(Packet) /\ toClient \in Seq(Packet)
        /\ toClient' \in Seq(Packet)
    BY DEF Types
  <1>3. toBroker' = Append(toBroker, p)
    OBVIOUS
  <1> HIDE DEF p
  <1>4. /\ Len(toBroker) \in Nat
        /\ DOMAIN toBroker = 1..Len(toBroker)
        /\ \A i \in DOMAIN toBroker : toBroker'[i] = toBroker[i]
        /\ toBroker'[n] = p
        /\ \A i \in DOMAIN toBroker' : i \in DOMAIN toBroker \/ i = n
        /\ \A packet : In(toBroker', packet) <=> In(toBroker, packet) \/ packet = p
        /\ \A x : x # id /\ None(toBroker, {"Pubrel"}, x) =>
                  None(toBroker', {"Pubrel"}, x)
    BY <1>1, <1>2, <1>3, WireSent
  <1>5. \A i \in DOMAIN toClient' :
          \E k \in DOMAIN toClient : toClient[k] = toClient'[i]
    <2>1. CASE toClient' = toClient
      BY <2>1
    <2>2. CASE toClient # <<>> /\ toClient' = Tail(toClient)
      <3>1. \A i \in DOMAIN Tail(toClient) :
              i + 1 \in DOMAIN toClient /\ Tail(toClient)[i] = toClient[i + 1]
        BY <1>2, <2>2, WireRead
      <3> QED
        BY <2>2, <3>1
    <2> QED
      BY <2>1, <2>2
  <1>6. \A x : x # id /\ NoRelease(x) => NoRelease(x)'
    <2>1. \A x : None(toClient, {"Pubcomp"}, x) => None(toClient', {"Pubcomp"}, x)
      BY <1>5 DEF None
    <2> QED
      BY <1>4, <2>1 DEF NoRelease
  <1>7. None(toBroker, {"Pubrel"}, id) /\ None(toClient', {"Pubcomp"}, id)
    BY <1>5 DEF NoRelease, None
  <1>8. \A x \in PacketIds : x # id => Flight(outgoing', x) = Outgoing(x)
    BY DEF OthersKept, Outgoing
  <1> HIDE DEF n
  <1>9. Releases'
    <2>1. OneCarrier(toBroker, {"Pubrel"}, toClient', {"Pubcomp"})
      <3>1. OneCarrier(toBroker, {"Pubrel"}, toClient, {"Pubcomp"})
        BY DEF Outbound, Releases
      <3> QED
        BY <1>2, <3>1, OneCarrierRead
    <2>2. OneCarrier(toBroker', {"Pubrel"}, toClient', {"Pubcomp"})
      BY <1>1, <1>2, <1>3, <1>7, <2>1, OneCarrierSent
    <2>3. \A x \in PacketIds :
            NoRelease(x)' \/ Flight(outgoing', x) = At(2, "PubCompPending")
      BY <1>6, <1>8 DEF Outbound, Releases
    <2>4. ASSUME NEW i \in DOMAIN toBroker', NEW j \in DOMAIN toBroker',
                 i < j, toBroker'[i].type = "Pubrel", IsQoS2(toBroker'[j])
          PROVE  toBroker'[i].packetId # toBroker'[j].packetId
      <3>1. j \in DOMAIN toBroker
        BY <1>1, <1>4, <2>4 DEF IsQoS2
      <3>2. i \in DOMAIN toBroker
        BY <1>4, <2>4, <3>1 DEF n
      <3> QED
        BY <1>4, <2>4, <3>1, <3>2 DEF Outbound, Releases
    <2>5. ASSUME NEW i \in DOMAIN toClient', NEW j \in DOMAIN toBroker',
                 toClient'[i].type = "Pubcomp", IsQoS2(toBroker'[j])
          PROVE  toClient'[i].packetId # toBroker'[j].packetId
      <3>1. j \in DOMAIN toBroker
        BY <1>1, <1>4, <2>5 DEF IsQoS2
      <3>2. PICK k \in DOMAIN toClient : toClient[k] = toClient'[i]
        BY <1>5
      <3>3. toClient[k].packetId # toBroker[j].packetId
        BY <1>4, <2>5, <3>1, <3>2 DEF Outbound, Releases
      <3> QED
        BY <1>4, <3>1, <3>2, <3>3
    <2> QED
      BY <2>2, <2>3, <2>4, <2>5 DEF Releases, Outgoing
  <1>10. CursorFits'
    <2>1. selected' \notin PubrelPacket
      BY PubrelSelected, PacketKinds DEF Types, Links
    <2>2. pc' = "pubrels" =>
            \A x \in PacketIds : Ahead(outgoing', cursor', x) => NoRelease(x)'
      BY <1>6 DEF Outbound, CursorFits
    <2> QED
      BY <2>1, <2>2 DEF CursorFits
  <1>11. \A pp \in PublishPacket : In(toBroker', pp) => In(toBroker, pp)
    BY <1>1, <1>4, PacketKinds
  <1>12. \A x \in PacketIds :
           \/ Flight(outgoing', x) = Outgoing(x)
           \/ /\ Outgoing(x) # NoFlight
              /\ Flight(outgoing', x).qos = Outgoing(x).qos
              /\ Flight(outgoing', x) \notin Resendable(2)
    <2>1. At(2, "PubCompPending").qos = 2 /\ At(2, "PubCompPending") \notin Resendable(2)
      BY DEF At, Resendable, Pending
    <2> QED
      BY <1>8, <2>1
  <1>13. Messages'
    <2>1. \A i \in DOMAIN arrivals' : arrivals'[i] \in 1..published
      BY DEF Outbound, Messages
    <2>2. \A x \in PacketIds :
            \/ Flight(outgoing', x) = NoFlight
            \/ /\ Outgoing(x) # NoFlight
               /\ Flight(outgoing', x).qos = Outgoing(x).qos
      BY <1>12
    <2> QED
      BY <1>11, <2>1, <2>2, MessagesKept DEF Outbound
  <1>14. Taken'
    BY <1>11, <1>12, TakenKept DEF Outbound
  <1> QED
    BY <1>9, <1>10, <1>13, <1>14 DEF Outbound, DeliveredAtMostOnce

-----------------------------------------------------------------------------
(* MQTT_Publish and Outbound.                                              *)

\* No record, and so nothing of QoS 2, is on its way.
LEMMA FreshIdentifier ==
  ASSUME Types, Outbound, NEW id \in PacketIds, Outgoing(id) = NoFlight
  PROVE  /\ NoRelease(id)
         /\ \A i \in DOMAIN toBroker :
              IsQoS2(toBroker[i]) => toBroker[i].packetId # id
  <1>1. NoFlight # At(2, "PubCompPending") /\ NoFlight.qos # 2
    BY DEF NoFlight, At
  <1> QED
    BY <1>1 DEF Outbound, Releases, Taken, Known

\* A record is added where the cursor has yet to come, or not at all.
LEMMA AddedToOutgoing ==
  ASSUME Types, NEW id, NEW qos, NEW x \in PacketIds,
         Ahead(AddRecord(outgoing, id, qos, "PublishSend").records, cursor, x)
  PROVE  \/ Ahead(outgoing, cursor, x)
         \/ /\ AddRecord(outgoing, id, qos, "PublishSend").status = "Success"
            /\ x = id
  <1>1. /\ OutgoingPublishCount \in Nat /\ cursor \in Nat
        /\ Good(outgoing, OutgoingPublishCount, OutgoingFlights)
    BY SessionAssumption DEF Types, OutgoingTable
  <1> QED
    BY <1>1, AddedAhead

LEMMA ReserveOutbound ==
  ASSUME Types, Types', Links, Links', Records, Outbound,
         NEW q \in PublishQoS, Reserve(q)
  PROVE  Outbound'
  <1> USE DEF contextVars, appVars, receivedVars, cursorVars, threadVars,
              netVars, brokerVars
  <1> DEFINE id == nextPacketId
  <1>1. /\ id \in PacketIds /\ q \in {1, 2}
        /\ OthersKept(id)
        /\ Outgoing(id) = NoFlight
        /\ Flight(outgoing', id) = At(q, "PublishSend")
        /\ published' = published + 1
        /\ messageOf' = [messageOf EXCEPT ![id] = published + 1]
    BY ReservedOutgoing DEF Outgoing
  <1>2. UNCHANGED <<toBroker, toClient, arrivals, taken, repeated, session,
                    pc, cursor, selected>>
    BY DEF Reserve
  <1>3. /\ outgoing' = AddRecord(outgoing, id, q, "PublishSend").records
        /\ \A x \in PacketIds :
             Ahead(outgoing', cursor, x) => Ahead(outgoing, cursor, x) \/ x = id
    <2>1. outgoing' = AddRecord(outgoing, id, q, "PublishSend").records
      BY DEF Reserve
    <2> QED
      BY <2>1, AddedToOutgoing
  <1> HIDE DEF id
  <1>4. /\ NoRelease(id)
        /\ \A i \in DOMAIN toBroker :
             IsQoS2(toBroker[i]) => toBroker[i].packetId # id
    BY <1>1, FreshIdentifier
  <1>5. WiresKept
    BY <1>2, KeepsLess DEF Types, WiresKept
  <1>6. \A x \in PacketIds : x # id => Flight(outgoing', x) = Outgoing(x)
    BY <1>1 DEF OthersKept, Outgoing
  <1>7. \A x : NoRelease(x)' <=> NoRelease(x)
    BY <1>2 DEF NoRelease
  <1>8. Releases'
    BY <1>4, <1>5, <1>6, <1>7, ReleasesKept DEF Outbound
  <1>9. CursorFits'
    <2>1. selected \in PubrelPacket => id # selected.packetId
      BY <1>1, FlightsDiffer DEF Records, SelectedFits
    <2> QED
      BY <1>2, <1>3, <1>4, <1>7, <2>1, CursorKept DEF Outbound
  <1>10. /\ messageOf'[id] = published + 1
         /\ \A x \in PacketIds : x # id => messageOf'[x] = messageOf[x]
         /\ \A x \in PacketIds : messageOf[x] \in 0..published
         /\ published \in Nat
         /\ \A i \in DOMAIN arrivals : arrivals[i] \in 1..published
    BY <1>1 DEF Types, Outbound, Messages
  <1>11. ASSUME NEW i \in DOMAIN toBroker, toBroker[i].type = "Publish"
         PROVE  OneRecord(toBroker[i])'
    <2>1. PICK p : p = toBroker[i]
      OBVIOUS
    <2>2. OneRecord(p)
      BY <1>11, <2>1 DEF Outbound, Messages
    <2>3. p.message \in 1..(published + 1)
      BY <1>10, <2>2 DEF OneRecord
    <2>4. ASSUME NEW x \in PacketIds, Flight(outgoing', x) # NoFlight,
                 messageOf'[x] = p.message
          PROVE  x = p.packetId /\ Flight(outgoing', x).qos = p.qos
      <3>1. x # id
        BY <1>10, <2>2, <2>4 DEF OneRecord
      <3> QED
        BY <1>6, <1>10, <2>2, <2>4, <3>1 DEF OneRecord
    <2>5. OneRecord(p)'
      BY <1>1, <2>3, <2>4 DEF OneRecord, Outgoing
    <2> QED
      BY <1>2, <2>1, <2>5 DEF OneRecord
  <1>12. Messages'
    <2>1. \A x, y \in PacketIds :
            messageOf'[x] = messageOf'[y] /\ messageOf'[x] # 0 => x = y
      <3> SUFFICES ASSUME NEW x \in PacketIds, NEW y \in PacketIds,
                          messageOf'[x] = messageOf'[y], messageOf'[x] # 0
                   PROVE  x = y
        OBVIOUS
      <3>1. CASE x # id /\ y # id
        BY <1>10, <3>1 DEF Outbound, Messages
      <3>2. CASE x = id \/ y = id
        BY <1>10, <3>2
      <3> QED
        BY <3>1, <3>2
    <2>2. ASSUME NEW x \in PacketIds
          PROVE  /\ messageOf'[x] \in 0..(published + 1)
                 /\ Flight(outgoing', x) # NoFlight => messageOf'[x] # 0
      <3>1. CASE x = id
        BY <1>10, <3>1
      <3>2. CASE x # id
        BY <1>6, <1>10, <3>2 DEF Outbound, Messages
      <3> QED
        BY <3>1, <3>2
    <2>3. \A i \in DOMAIN arrivals : arrivals[i] \in 1..(published + 1)
      BY <1>10
    <2> QED
      BY <1>1, <1>2, <1>11, <2>1, <2>2, <2>3 DEF Messages, Outgoing
  <1>13. \A m : Delivered(m)' <=> Delivered(m)
    BY <1>2 DEF Delivered
  <1>14. ASSUME session, NEW x \in PacketIds,
                Flight(outgoing', x) \in Resendable(2), Delivered(messageOf'[x])
         PROVE  x \in taken
    <2>1. x # id
      BY <1>10, <1>14 DEF Delivered
    <2> QED
      BY <1>6, <1>10, <1>14, <2>1 DEF Outbound, Taken
  <1>15. ASSUME NEW i \in DOMAIN toBroker, IsQoS2(toBroker[i])
         PROVE  Known(toBroker[i])'
    <2>1. PICK p : p = toBroker[i]
      OBVIOUS
    <2>2. p.packetId \in PacketIds /\ p.packetId # id /\ Known(p)
      <3>1. p \in Packet
        BY <2>1 DEF Types
      <3> QED
        BY <1>4, <1>15, <2>1, <3>1, PacketKinds DEF Outbound, Taken
    <2>3. Known(p)'
      BY <1>2, <1>6, <1>10, <1>13, <2>2 DEF Known, Outgoing
    <2>4. toBroker'[i] = p
      BY <1>2, <2>1
    <2> QED
      BY <2>3, <2>4
  <1>16. Taken'
    BY <1>2, <1>13, <1>14, <1>15 DEF Taken, Outgoing
  <1> QED
    BY <1>2, <1>8, <1>9, <1>12, <1>16 DEF Outbound, DeliveredAtMostOnce

LEMMA SentOutbound ==
  ASSUME Types, Types', Links, Links', Records, Outbound, PublishSent
  PROVE  Outbound'
  <1> USE DEF contextVars, appVars, receivedVars, cursorVars, threadVars,
              netVars, brokerVars
  <1>1. /\ publishing \in PublishPacket
        /\ OthersKept(publishing.packetId)
        /\ Outgoing(publishing.packetId) = At(publishing.qos, "PublishSend")
        /\ Flight(outgoing', publishing.packetId) =
             At(publishing.qos, Pending(publishing.qos))
        /\ messageOf[publishing.packetId] = publishing.message
    <2>1. publishing # Nothing
      BY DEF PublishSent, Unlocked
    <2> QED
      BY <2>1, SentOutgoing DEF Records, PublishingFits
  <1>2. PICK p \in PublishPacket : p = publishing
    BY <1>1
  <1>3. PICK id \in PacketIds : id = p.packetId
    BY PacketKinds
  <1>4. p.qos \in {1, 2}
    BY PacketKinds
  <1>5. Outgoing(id) \in Resendable(p.qos)
        /\ Flight(outgoing', id) \in Resendable(p.qos)
    BY <1>1, <1>2, <1>3 DEF Resendable
  <1>6. UNCHANGED <<messageOf, published, arrivals, taken, repeated, session,
                    pc, cursor, selected>>
    BY DEF PublishSent
  <1>7. session
    BY TransferLinks DEF PublishSent, Links
  <1>8. \A x \in PacketIds :
          Ahead(outgoing', cursor, x) => Ahead(outgoing, cursor, x)
    <2>1. outgoing' = UpdateSentPublish(outgoing, id, p.qos).records
      BY <1>2, <1>3 DEF PublishSent
    <2> QED
      BY <2>1, SentAhead
  <1>9. \/ toBroker' = Append(toBroker, p) /\ toClient' = toClient
        \/ toBroker' = <<>> /\ toClient' = <<>>
    BY <1>2, TransferLinks DEF PublishSent
  <1>10. CASE toBroker' = Append(toBroker, p) /\ toClient' = toClient
    BY <1>1, <1>2, <1>3, <1>5, <1>6, <1>7, <1>8, <1>10, PublishedOutbound
  <1>11. CASE toBroker' = <<>> /\ toClient' = <<>>
    <2>1. WiresKept
      BY <1>11, WiresKeptLess
    <2>2. NoRelease(id)'
      BY <1>11 DEF NoRelease, None
    <2>3. /\ Outgoing(id) # NoFlight
          /\ Flight(outgoing', id).qos = Outgoing(id).qos
          /\ Flight(outgoing', id) \in Resendable(2) =>
               Outgoing(id) \in Resendable(2)
      BY <1>4, <1>5, FlightsDiffer
    <2> QED
      BY <1>1, <1>2, <1>3, <1>6, <1>8, <2>1, <2>2, <2>3, RecordOutbound
  <1> QED
    BY <1>9, <1>10, <1>11

LEMMA SendOutbound ==
  ASSUME Types, Types', Links, Links', Records, Outbound, MQTT_Publish
  PROVE  Outbound'
  <1> USE DEF contextVars, appVars, receivedVars, cursorVars, threadVars,
              netVars, brokerVars
  <1>1. CASE PublishRefused
    <2> DEFINE added == AddRecord(outgoing, nextPacketId, 1, "PublishSend")
    <2>1. UNCHANGED <<messageOf, published, arrivals, taken, repeated, session,
                      pc, cursor, selected, toBroker, toClient>>
      BY <1>1 DEF PublishRefused
    <2>2. \/ outgoing' = outgoing
          \/ added.status # "Success" /\ outgoing' = added.records
      BY <1>1 DEF PublishRefused
    <2>3. ASSUME NEW x \in PacketIds, added.status # "Success",
                 Ahead(added.records, cursor, x)
          PROVE  Ahead(outgoing, cursor, x)
      BY <2>3, AddedToOutgoing
    <2> HIDE DEF added
    <2>4. \A x \in PacketIds :
            Ahead(outgoing', cursor, x) => Ahead(outgoing, cursor, x)
      BY <2>2, <2>3
    <2>5. WiresKept
      BY <2>1, WiresKeptLess
    <2> QED
      BY <1>1, <2>1, <2>4, <2>5, RefusedOutgoing, OutboundKept
  <1>2. CASE \E q \in PublishQoS : Reserve(q)
    BY <1>2, ReserveOutbound
  <1>3. CASE PublishNotStored
    <2>1. UNCHANGED <<outgoing, messageOf, published, arrivals, taken, repeated,
                      session, pc, cursor, selected, toBroker, toClient>>
      BY <1>3 DEF PublishNotStored
    <2> QED
      BY <2>1, WiresKeptLess, QuietOutbound
  <1>4. CASE PublishSent
    BY <1>4, SentOutbound
  <1>5. CASE PublishNotSent
    <2>1. UNCHANGED <<outgoing, messageOf, published, arrivals, taken, repeated,
                      session, pc, cursor, selected>>
      BY <1>5 DEF PublishNotSent
    <2>2. \/ UNCHANGED <<toBroker, toClient>>
          \/ toBroker' = <<>> /\ toClient' = <<>>
      BY <1>5 DEF PublishNotSent, Transfer
    <2> QED
      BY <2>1, <2>2, WiresKeptLess, QuietOutbound
  <1> QED
    BY <1>1, <1>2, <1>3, <1>4, <1>5 DEF MQTT_Publish

-----------------------------------------------------------------------------
(* MQTT_ProcessLoop and Outbound.                                          *)

LEMMA PubackOrPubcompOutbound ==
  ASSUME Types, Types', Links, Links', Outbound, HandlePubackOrPubcomp
  PROVE  Outbound'
  <1> USE DEF contextVars, appVars, receivedVars, cursorVars, threadVars,
              netVars, brokerVars
  <1>1. PICK id \in PacketIds : id = Head(toClient).packetId
    BY AckedOutgoing
  <1>2. PICK type \in {"Puback", "Pubcomp"} : type = Head(toClient).type
    BY AckedOutgoing
  <1>3. /\ OthersKept(id)
        /\ \/ FlightsKept
           \/ /\ Outgoing(id) = IF type = "Puback"
                                  THEN At(1, "PubAckPending")
                                  ELSE At(2, "PubCompPending")
              /\ Flight(outgoing', id) = NoFlight
    BY <1>1, <1>2, AckedOutgoing
  <1>4. /\ UNCHANGED <<messageOf, published, arrivals, taken, repeated, session,
                       pc, cursor, selected, toBroker>>
        /\ toClient # <<>> /\ toClient' = Tail(toClient)
        /\ pc' # "pubrels"
    BY ArrivedPacket DEF HandlePubackOrPubcomp
  <1>5. WiresKept
    BY <1>4, WiresKeptLess
  <1>6. CASE FlightsKept
    BY <1>4, <1>5, <1>6, OutboundKept
  <1>7. CASE /\ Outgoing(id) = IF type = "Puback"
                                 THEN At(1, "PubAckPending")
                                 ELSE At(2, "PubCompPending")
             /\ Flight(outgoing', id) = NoFlight
    <2>1. Outgoing(id) # NoFlight
          /\ Flight(outgoing', id) \notin Resendable(2)
      BY <1>7, FlightsDiffer DEF NoFlight, At
    <2>2. NoRelease(id)' /\ \A p \in PublishPacket :
            In(toBroker, p) /\ p.qos = 2 => p.packetId # id
      <3>1. CASE type = "Puback"
        <4>1. Outgoing(id) # At(2, "PubCompPending") /\ Outgoing(id).qos # 2
          BY <1>7, <3>1 DEF At
        <4>2. NoRelease(id)
          BY <4>1 DEF Outbound, Releases
        <4>3. \A p \in PublishPacket :
                In(toBroker, p) /\ p.qos = 2 => p.packetId # id
          BY <4>1, PacketKinds DEF Outbound, Taken, Known, IsQoS2, In
        <4> QED
          BY <1>5, <4>2, <4>3, NoReleaseKept
      <3>2. CASE type = "Pubcomp"
        <4>1. /\ 1 \in DOMAIN toClient /\ toClient[1] = Head(toClient)
              /\ toBroker \in Seq(Packet) /\ toClient \in Seq(Packet)
          BY <1>4, WireRead DEF Types
        <4>2. OneCarrier(toBroker, {"Pubrel"}, toClient, {"Pubcomp"})
          BY DEF Outbound, Releases
        <4>3. None(toBroker, {"Pubrel"}, id)
              /\ None(Tail(toClient), {"Pubcomp"}, id)
          BY <1>1, <1>2, <1>4, <3>2, <4>1, <4>2, OneCarrierRead
        <4>4. NoRelease(id)'
          BY <1>4, <4>3 DEF NoRelease
        <4>5. \A p \in PublishPacket :
                In(toBroker, p) /\ p.qos = 2 => p.packetId # id
          BY <1>1, <1>2, <3>2, <4>1, PacketKinds
          DEF Outbound, Releases, IsQoS2, In
        <4> QED
          BY <4>4, <4>5
      <3> QED
        BY <3>1, <3>2
    <2> QED
      BY <1>3, <1>4, <1>5, <1>7, <2>1, <2>2, RecordOutbound
  <1> QED
    BY <1>3, <1>6, <1>7

LEMMA PubrecOutbound ==
  ASSUME Types, Types', Links, Links', Outbound,
         NEW ok \in BOOLEAN, HandlePubrec(ok)
  PROVE  Outbound'
  <1> USE DEF contextVars, appVars, receivedVars, cursorVars, threadVars,
              netVars, brokerVars
  <1>1. PICK id \in PacketIds : id = Head(toClient).packetId
    BY PubrecOutgoing
  <1>2. /\ OthersKept(id)
        /\ \/ FlightsKept /\ toClient' = Tail(toClient) /\ UNCHANGED toBroker
           \/ /\ Outgoing(id) = At(2, "PubRecPending")
              /\ Flight(outgoing', id) \in
                   IF ok THEN {At(2, "PubCompPending")} ELSE {At(2, "PubRelSend")}
              /\ Transfer(ok, Ack("Pubrel", id), Tail(toClient))
    BY <1>1, PubrecOutgoing
  <1>3. /\ UNCHANGED <<messageOf, published, arrivals, taken, repeated, session,
                       pc, cursor, selected>>
        /\ link = "up" /\ toClient # <<>>
        /\ pc' # "pubrels"
    BY ArrivedPacket DEF HandlePubrec
  <1>4. CASE FlightsKept /\ toClient' = Tail(toClient) /\ UNCHANGED toBroker
    BY <1>3, <1>4, WiresKeptLess, OutboundKept
  <1>5. CASE /\ Outgoing(id) = At(2, "PubRecPending")
             /\ Flight(outgoing', id) \in
                  IF ok THEN {At(2, "PubCompPending")} ELSE {At(2, "PubRelSend")}
             /\ Transfer(ok, Ack("Pubrel", id), Tail(toClient))
    <2>1. /\ Outgoing(id) # NoFlight /\ Outgoing(id).qos = 2
          /\ Flight(outgoing', id).qos = 2
          /\ Flight(outgoing', id) \notin Resendable(2)
      BY <1>5 DEF NoFlight, At, Resendable, Pending
    <2>2. NoRelease(id)
      BY <1>5 DEF Outbound, Releases, At
    <2>3. CASE ok
      <3>1. toBroker' = Append(toBroker, Ack("Pubrel", id))
            /\ toClient' = Tail(toClient)
        BY <1>3, <1>5, <2>3 DEF Transfer
      <3> QED
        BY <1>2, <1>3, <1>5, <2>1, <2>2, <2>3, <3>1, PubrelOutbound
    <2>4. CASE ~ok
      <3>1. toBroker' = <<>> /\ toClient' = <<>>
        BY <1>3, <1>5, <2>4 DEF Transfer
      <3>2. WiresKept /\ NoRelease(id)'
        BY <3>1, WiresKeptLess DEF NoRelease, None
      <3> QED
        BY <1>2, <1>3, <2>1, <3>2, RecordOutbound
    <2> QED
      BY <2>3, <2>4
  <1> QED
    BY <1>2, <1>4, <1>5

LEMMA ProcessOutbound ==
  ASSUME Types, Types', Links, Links', Outbound, ProcessLoop
  PROVE  Outbound'
  <1> USE DEF contextVars, appVars, receivedVars, cursorVars, threadVars,
              netVars, brokerVars, vars
  <1>1. CASE ReceiveNothing \/ ReceiveFails
    <2>1. UNCHANGED <<outgoing, messageOf, published, arrivals, taken, repeated,
                      session, pc, cursor, selected, toBroker, toClient>>
      BY <1>1 DEF ReceiveNothing, ReceiveFails
    <2> QED
      BY <2>1, WiresKeptLess, QuietOutbound
  <1> QED
    BY <1>1, PubackOrPubcompOutbound, PubrecOutbound, ProcessAnswersOutbound
    DEF ProcessLoop

-----------------------------------------------------------------------------
(* MQTT_Connect and Outbound.                                              *)

\* A connection begins, and only the broker's publishes are on their way.
LEMMA ConnectsOutbound ==
  ASSUME Types, Types', Links, Links', Outbound,
         ConnectNewSession \/ ConnectResumedSession
  PROVE  Outbound'
  <1> USE DEF contextVars, appVars, receivedVars, cursorVars, threadVars,
              netVars, brokerVars
  <1>1. link = "down" /\ toBroker = <<>> /\ toClient = <<>> /\ selected = Nothing
    BY DEF ConnectNewSession, ConnectResumedSession, Idle, Links
  <1>2. UNCHANGED <<messageOf, published, arrivals, taken, repeated, selected,
                    toBroker>>
    BY DEF ConnectNewSession, ConnectResumedSession
  <1>3. toClient' \in {<<>>, outbound}
    BY <1>1 DEF ConnectNewSession, ConnectResumedSession
  <1>4. \A i \in DOMAIN toClient' : toClient'[i].type # "Pubcomp"
    <2>1. \A i \in DOMAIN outbound :
            outbound[i] \in PublishPacket \cup PubrelPacket
      <3>1. outbound \in Seq(PublishPacket \cup PubrelPacket)
        BY DEF Types
      <3> QED
        BY <3>1
    <2>2. \A i \in DOMAIN outbound : outbound[i].type # "Pubcomp"
      BY <2>1, PacketKinds
    <2> QED
      BY <1>3, <2>2
  <1>5. \A x : NoRelease(x)'
    BY <1>1, <1>2, <1>4 DEF NoRelease, None
  <1>6. WiresKept
    BY <1>1, <1>2, <1>4 DEF WiresKept, Keeps
  <1>7. Releases'
    BY <1>5, <1>6, ReleasesKept DEF Outbound
  <1>8. CursorFits'
    BY <1>1, <1>2, <1>5, PacketKinds DEF CursorFits
  <1>9. /\ \A x \in PacketIds :
             Flight(outgoing', x) = NoFlight \/ Flight(outgoing', x) = Outgoing(x)
        /\ session' => \/ session
                       \/ \A x \in PacketIds : Flight(outgoing', x) = NoFlight
    BY ClearedOutgoing DEF ConnectResumedSession, Outgoing
  <1>10. Messages'
    <2>1. \A x \in PacketIds :
            \/ Flight(outgoing', x) = NoFlight
            \/ /\ Outgoing(x) # NoFlight
               /\ Flight(outgoing', x).qos = Outgoing(x).qos
      BY <1>9
    <2>2. \A i \in DOMAIN arrivals' : arrivals'[i] \in 1..published
      BY <1>2 DEF Outbound, Messages
    <2> QED
      BY <1>1, <1>2, <2>1, <2>2, MessagesKept DEF Outbound, In
  <1>11. Taken'
    <2>1. \A m : Delivered(m)' <=> Delivered(m)
      BY <1>2 DEF Delivered
    <2>2. NoFlight \notin Resendable(2)
      BY FlightsDiffer
    <2>3. ASSUME session', NEW x \in PacketIds,
                 Flight(outgoing', x) \in Resendable(2), Delivered(messageOf[x])
          PROVE  x \in taken
      BY <1>9, <2>2, <2>3 DEF Outbound, Taken
    <2> QED
      BY <1>1, <1>2, <2>1, <2>3 DEF Taken, Outgoing
  <1> QED
    BY <1>2, <1>7, <1>8, <1>10, <1>11 DEF Outbound, DeliveredAtMostOnce

LEMMA SelectPubrelOutbound ==
  ASSUME Types, Types', Links, Links', Outbound, SelectPubrel
  PROVE  Outbound'
  <1> USE DEF contextVars, appVars, receivedVars, cursorVars, threadVars,
              netVars, brokerVars
  <1> DEFINE selection == StateSelect(outgoing, PubrelToResendStates, cursor)
  <1>1. /\ pc = "pubrels" /\ pc' = "pubrels"
        /\ cursor' = selection.cursor
        /\ selection.packetId # MQTT_PACKET_ID_INVALID
        /\ selected' = Ack("Pubrel", selection.packetId)
    BY DEF SelectPubrel, Selecting, Selection
  <1>2. UNCHANGED <<outgoing, messageOf, published, arrivals, taken, repeated,
                    session, toBroker, toClient>>
    BY DEF SelectPubrel, Selecting
  <1>3. /\ Ahead(outgoing, cursor, selection.packetId)
        /\ ~Ahead(outgoing, selection.cursor, selection.packetId)
        /\ \A x : Ahead(outgoing, selection.cursor, x) =>
                  Ahead(outgoing, cursor, x)
    BY <1>1, SelectedAhead, SessionAssumption DEF Types, OutgoingTable
  <1>4. selected'.packetId = selection.packetId
    BY <1>1 DEF Ack
  <1> HIDE DEF selection
  <1>5. WiresKept
    BY <1>2, WiresKeptLess
  <1>6. FlightsKept
    BY <1>2 DEF FlightsKept
  <1>7. \A x : NoRelease(x)' <=> NoRelease(x)
    BY <1>2 DEF NoRelease
  <1>8. CursorFits'
    <2>1. \A x \in PacketIds : Ahead(outgoing', cursor', x) => NoRelease(x)'
      BY <1>1, <1>2, <1>3, <1>7 DEF Outbound, CursorFits
    <2>2. ASSUME selected' \in PubrelPacket
          PROVE  NoRelease(selected.packetId)'
      <3>1. PICK id \in PacketIds : id = selected'.packetId
        BY <2>2, PacketKinds
      <3>2. NoRelease(id)
        BY <1>1, <1>3, <1>4, <3>1 DEF Outbound, CursorFits
      <3> QED
        BY <1>2, <3>1, <3>2 DEF NoRelease
    <2>3. ~Ahead(outgoing', cursor', selected'.packetId)
      BY <1>1, <1>2, <1>3, <1>4
    <2> QED
      BY <2>1, <2>2, <2>3 DEF CursorFits
  <1>9. Releases'
    BY <1>5, <1>6, ReleasesKept DEF Outbound, FlightsKept, Outgoing
  <1>10. Messages'
    BY <1>2 DEF Outbound, Messages, OneRecord, Outgoing
  <1>11. Taken'
    BY <1>2 DEF Outbound, Taken, Known, Delivered, Outgoing
  <1> QED
    BY <1>2, <1>8, <1>9, <1>10, <1>11 DEF Outbound, DeliveredAtMostOnce

LEMMA ResendPubrelOutbound ==
  ASSUME Types, Types', Links, Links', Records, Outbound,
         NEW ok \in BOOLEAN, ResendPubrel(ok)
  PROVE  Outbound'
  <1> USE DEF contextVars, appVars, receivedVars, cursorVars, threadVars,
              netVars, brokerVars
  <1>1. PICK id \in PacketIds : id = selected.packetId
    BY ResentOutgoing DEF Records
  <1>2. /\ selected \in PubrelPacket
        /\ OthersKept(id)
        /\ Outgoing(id) \in Releasing
        /\ \/ FlightsKept /\ pc' = "failing"
           \/ /\ connectStatus = "Connected" /\ ok
              /\ Flight(outgoing', id) = At(2, "PubCompPending")
              /\ pc' = "pubrels"
        /\ IF connectStatus = "Connected"
             THEN Transfer(ok, selected, toClient)
             ELSE UNCHANGED netVars
    BY <1>1, ResentOutgoing DEF Records
  <1>3. /\ UNCHANGED <<messageOf, published, arrivals, taken, repeated, session,
                       cursor>>
        /\ pc = "pubrels" /\ selected' = Nothing
    BY DEF ResendPubrel
  <1>4. CASE FlightsKept /\ pc' = "failing"
    <2>1. CASE \/ UNCHANGED <<toBroker, toClient>>
               \/ toBroker' = <<>> /\ toClient' = <<>>
      BY <1>3, <1>4, <2>1, WiresKeptLess, OutboundKept
    <2>2. CASE connectStatus = "Connected" /\ ok
      <3>1. /\ outgoing' = UpdateStateAck(outgoing, id, "Pubrel", "SEND").records
            /\ pc' = IF UpdateStateAck(outgoing, id, "Pubrel", "SEND").status
                          = "Success" THEN pc ELSE "failing"
        BY <1>1, <2>2 DEF ResendPubrel
      <3>2. UpdateStateAck(outgoing, id, "Pubrel", "SEND").status = "Success"
        <4>1. Accepted(outgoing, id, UpdateStateAck(outgoing, id, "Pubrel", "SEND"),
                       At(2, "PubCompPending"))
          BY <1>2, OutgoingAck, SessionAssumption
          DEF Types, OutgoingTable, Outgoing, Releasing
        <4> QED
          BY <4>1 DEF Accepted
      <3> QED
        BY <1>3, <1>4, <3>1, <3>2
    <2>3. CASE connectStatus # "Connected" \/ ~ok
      <3>1. \/ UNCHANGED <<toBroker, toClient>>
            \/ toBroker' = <<>> /\ toClient' = <<>>
        BY <1>2, <2>3 DEF Transfer
      <3> QED
        BY <2>1, <3>1
    <2> QED
      BY <2>2, <2>3
  <1>5. CASE /\ connectStatus = "Connected" /\ ok
             /\ Flight(outgoing', id) = At(2, "PubCompPending")
             /\ pc' = "pubrels"
    <2>1. outgoing' = UpdateStateAck(outgoing, id, "Pubrel", "SEND").records
      BY <1>1, <1>5 DEF ResendPubrel
    <2>2. \A x \in PacketIds :
            Ahead(outgoing', cursor', x) => Ahead(outgoing, cursor, x)
      BY <1>3, <2>1, ResentAhead
    <2>3. NoRelease(id) /\ ~Ahead(outgoing, cursor, id)
      BY <1>1, <1>2 DEF Outbound, CursorFits
    <2>4. /\ Outgoing(id) # NoFlight /\ Outgoing(id).qos = 2
          /\ Flight(outgoing', id).qos = 2
          /\ Flight(outgoing', id) \notin Resendable(2)
      BY <1>2, <1>5 DEF Releasing, NoFlight, At, Resendable, Pending
    <2>5. Transfer(ok, selected, toClient) /\ selected = Ack("Pubrel", id)
      BY <1>1, <1>2, <1>5 DEF PubrelPacket, Ack
    <2>6. \/ toBroker' = Append(toBroker, Ack("Pubrel", id)) /\ toClient' = toClient
          \/ toBroker' = <<>> /\ toClient' = <<>>
      BY <2>5, TransferLinks
    <2>7. CASE toBroker' = Append(toBroker, Ack("Pubrel", id))
               /\ toClient' = toClient
      BY <1>2, <1>3, <1>5, <2>2, <2>3, <2>4, <2>7, PubrelOutbound
    <2>8. CASE toBroker' = <<>> /\ toClient' = <<>>
      <3>1. WiresKept /\ NoRelease(id)'
        BY <2>8, WiresKeptLess DEF NoRelease, None
      <3> QED
        BY <1>2, <1>3, <2>2, <2>4, <3>1, RecordOutbound
    <2> QED
      BY <2>6, <2>7, <2>8
  <1> QED
    BY <1>2, <1>4, <1>5

LEMMA ResendPublishOutbound ==
  ASSUME Types, Types', Links, Links', Records, Outbound,
         NEW ok \in BOOLEAN, ResendPublish(ok)
  PROVE  Outbound'
  <1> USE DEF contextVars, appVars, receivedVars, cursorVars, threadVars,
              netVars, brokerVars
  <1>1. /\ UNCHANGED <<outgoing, messageOf, published, arrivals, taken, repeated,
                       session>>
        /\ pc' # "pubrels" /\ selected # Nothing /\ pc = "publishes"
        /\ Transfer(ok, selected, toClient)
    BY DEF ResendPublish
  <1>2. /\ selected \in PublishPacket
        /\ Outgoing(selected.packetId) \in Resendable(selected.qos)
        /\ messageOf[selected.packetId] = selected.message
        /\ session
    BY <1>1, TransferLinks DEF Links, Records, SelectedFits
  <1>3. CASE toBroker' = Append(toBroker, selected) /\ toClient' = toClient
    <2>1. PICK p \in PublishPacket : p = selected
      BY <1>2
    <2>2. OthersKept(p.packetId)
          /\ Flight(outgoing', p.packetId) = Outgoing(p.packetId)
      BY <1>1 DEF OthersKept, Outgoing
    <2> QED
      BY <1>1, <1>2, <1>3, <2>1, <2>2, PublishedOutbound
  <1>4. CASE \/ UNCHANGED <<toBroker, toClient>>
             \/ toBroker' = <<>> /\ toClient' = <<>>
    BY <1>1, <1>4, WiresKeptLess, QuietOutbound
  <1>5. \/ toBroker' = Append(toBroker, selected) /\ toClient' = toClient
        \/ toBroker' = <<>> /\ toClient' = <<>>
    BY <1>1, TransferLinks
  <1> QED
    BY <1>3, <1>4, <1>5

LEMMA ConnectOutbound ==
  ASSUME Types, Types', Links, Links', Records, Outbound, Connect \/ Disconnect
  PROVE  Outbound'
  <1> USE DEF contextVars, appVars, receivedVars, cursorVars, threadVars,
              netVars, brokerVars
  <1>1. CASE Disconnect \/ SelectionEnds \/ SelectPublish \/ RetrieveFails
             \/ ConnectFails
    <2>1. UNCHANGED <<outgoing, messageOf, published, arrivals, taken, repeated,
                      session>>
      BY <1>1 DEF Disconnect, SelectionEnds, SelectPublish, RetrieveFails,
                  ConnectFails, Selecting
    <2>2. pc' # "pubrels"
      BY <1>1 DEF Disconnect, SelectionEnds, SelectPublish, RetrieveFails,
                  ConnectFails, Selecting, Idle
    <2>3. \/ UNCHANGED <<toBroker, toClient>>
          \/ toBroker' = <<>> /\ toClient' = <<>>
      BY <1>1 DEF Disconnect, SelectionEnds, SelectPublish, RetrieveFails,
                  ConnectFails, Selecting
    <2> QED
      BY <2>1, <2>2, <2>3, WiresKeptLess, QuietOutbound
  <1> QED
    BY <1>1, ConnectsOutbound, SelectPubrelOutbound, ResendPubrelOutbound,
       ResendPublishOutbound
    DEF Connect

-----------------------------------------------------------------------------
(* The broker and Outbound.                                                *)

\* The records stay, and so does what the packets on their way say of them.
LEMMA MessagesStay ==
  ASSUME Types, Types', Outbound, WiresKept,
         UNCHANGED <<outgoing, messageOf, published>>,
         \A i \in DOMAIN arrivals' : arrivals'[i] \in 1..published
  PROVE  Messages'
  <1>1. \A p \in PublishPacket : In(toBroker', p) => In(toBroker, p)
    BY PacketKinds DEF WiresKept, Keeps, Sends, In
  <1>2. \A x \in PacketIds :
          \/ Flight(outgoing', x) = NoFlight
          \/ /\ Outgoing(x) # NoFlight
             /\ Flight(outgoing', x).qos = Outgoing(x).qos
    BY DEF Outgoing
  <1> QED
    BY <1>1, <1>2, MessagesKept DEF Outbound

LEMMA TakesPublishOutbound ==
  ASSUME Types, Types', Links, Links', Outbound, BrokerTakesPublish
  PROVE  Outbound'
  <1> USE DEF contextVars, appVars, receivedVars, cursorVars, threadVars,
              netVars, brokerVars
  <1>1. PICK p \in PublishPacket : p = Head(toBroker)
    BY BrokerReadsPacket, PacketKinds DEF BrokerTakesPublish
  <1>2. PICK id \in PacketIds : id = p.packetId
    BY PacketKinds
  <1> DEFINE new == p.qos = 1 \/ id \notin taken
  <1>3. /\ toBroker # <<>> /\ toBroker' = Tail(toBroker)
        /\ arrivals' = IF new /\ ~Delivered(p.message)
                         THEN Append(arrivals, p.message) ELSE arrivals
        /\ repeated' = IF new /\ p.qos = 2 /\ Delivered(p.message)
                         THEN repeated \cup {p.message} ELSE repeated
        /\ taken' = IF p.qos = 2 THEN taken \cup {id} ELSE taken
        /\ toClient' = Append(toClient,
                              Ack(IF p.qos = 1 THEN "Puback" ELSE "Pubrec", id))
        /\ UNCHANGED <<outgoing, messageOf, published, session, pc, cursor,
                       selected>>
    BY <1>1, <1>2 DEF BrokerTakesPublish, BrokerReads
  <1>4. /\ toBroker \in Seq(Packet)
        /\ 1 \in DOMAIN toBroker /\ toBroker[1] = p
        /\ \A packet : In(toBroker', packet) => In(toBroker, packet)
        /\ p.type = "Publish" /\ p.qos \in {1, 2} /\ p.message \in Nat
    BY <1>1, <1>3, WireRead, PacketKinds DEF Types
  <1>5. WiresKept
    <2>1. \E packet \in Packet : /\ packet.type # "Pubcomp"
                                 /\ toClient' = Append(toClient, packet)
      BY <1>3, MadePackets DEF MQTTPubAckType
    <2> QED
      BY <1>3, <2>1, WiresKeptLess
  <1>6. Releases'
    BY <1>3, <1>5, ReleasesKept DEF Outbound, Outgoing
  <1>7. CursorFits'
    BY <1>3, <1>5, NoReleaseKept, CursorKept DEF Outbound
  <1>8. OneRecord(p) /\ (p.qos = 2 => Known(p))
    BY <1>4 DEF Outbound, Messages, Taken, IsQoS2
  <1>9. /\ \A m : Delivered(m)' => Delivered(m) \/ m = p.message
        /\ \A i \in DOMAIN arrivals' : arrivals'[i] \in 1..published
    <2>1. /\ arrivals \in Seq(Nat)
          /\ \A i \in DOMAIN arrivals : arrivals[i] \in 1..published
      BY DEF Types, Outbound, Messages
    <2>2. /\ \A i \in DOMAIN arrivals :
               Append(arrivals, p.message)[i] = arrivals[i]
          /\ Append(arrivals, p.message)[Len(arrivals) + 1] = p.message
          /\ \A i \in DOMAIN Append(arrivals, p.message) :
               i \in DOMAIN arrivals \/ i = Len(arrivals) + 1
      BY <1>4, <2>1, WireSent
    <2>3. \A i \in DOMAIN arrivals' :
            \/ i \in DOMAIN arrivals /\ arrivals'[i] = arrivals[i]
            \/ arrivals'[i] = p.message
      BY <1>3, <2>2
    <2> QED
      BY <1>8, <2>1, <2>3 DEF Delivered, OneRecord
  <1>10. Messages'
    BY <1>3, <1>5, <1>9, MessagesStay
  <1> HIDE DEF new
  <1>11. repeated' = repeated
    BY <1>2, <1>3, <1>4, <1>8 DEF Known, new
  <1>12. \A x \in PacketIds :
           /\ Outgoing(x) # NoFlight /\ Outgoing(x).qos = 2
           /\ messageOf[x] = p.message
           => x \in taken'
    BY <1>2, <1>3, <1>8 DEF OneRecord
  <1>13. taken \subseteq taken'
    BY <1>3
  <1>14. Taken'
    <2>1. ASSUME session, NEW x \in PacketIds, Outgoing(x) \in Resendable(2),
                 Delivered(messageOf[x])'
          PROVE  x \in taken'
      <3>1. messageOf' = messageOf
        BY <1>3
      <3>2. Delivered(messageOf[x]) \/ messageOf[x] = p.message
        <4>1. PICK m : m = messageOf[x]
          OBVIOUS
        <4>2. Delivered(m)'
          BY <2>1, <3>1, <4>1 DEF Delivered
        <4> QED
          BY <1>9, <4>1, <4>2
      <3>3. Outgoing(x) # NoFlight /\ Outgoing(x).qos = 2
        BY <2>1, FlightsDiffer
      <3> QED
        BY <1>12, <1>13, <2>1, <3>2, <3>3 DEF Outbound, Taken
    <2>2. ASSUME NEW i \in DOMAIN toBroker', IsQoS2(toBroker'[i])
          PROVE  Known(toBroker[i])'
      <3>1. PICK pp : pp = toBroker'[i]
        OBVIOUS
      <3>2. In(toBroker, pp) /\ IsQoS2(pp)
        BY <1>4, <2>2, <3>1 DEF In
      <3>3. Known(pp) /\ pp.packetId \in PacketIds
        <4>1. pp \in Packet
          <5>1. toBroker \in Seq(Packet)
            BY DEF Types
          <5> QED
            BY <3>2, <5>1 DEF In
        <4>2. Known(pp)
          BY <3>2 DEF Outbound, Taken, In
        <4> QED
          BY <3>2, <4>1, <4>2, PacketKinds
      <3>4. Outgoing(pp.packetId) # NoFlight /\ Outgoing(pp.packetId).qos = 2
        BY <3>3 DEF Known, NoFlight, At
      <3>5. ASSUME Delivered(pp.message)' PROVE pp.packetId \in taken'
        <4>1. Delivered(pp.message) \/ pp.message = p.message
          BY <1>9, <3>5
        <4> QED
          BY <1>12, <1>13, <3>3, <3>4, <4>1 DEF Known
      <3>6. Known(pp)'
        BY <1>3, <3>3, <3>5 DEF Known, Outgoing
      <3> QED
        BY <3>1, <3>6
    <2> QED
      BY <1>3, <2>1, <2>2 DEF Taken, Outgoing
  <1> QED
    BY <1>6, <1>7, <1>10, <1>11, <1>14 DEF Outbound, DeliveredAtMostOnce

LEMMA TakesPubrelOutbound ==
  ASSUME Types, Types', Links, Links', Outbound, BrokerTakesPubrel
  PROVE  Outbound'
  <1> USE DEF contextVars, appVars, receivedVars, cursorVars, threadVars,
              netVars, brokerVars
  <1>1. PICK id \in PacketIds : id = Head(toBroker).packetId
    BY BrokerReadsPacket DEF BrokerTakesPubrel
  <1>2. /\ toBroker # <<>> /\ toBroker' = Tail(toBroker)
        /\ Head(toBroker).type = "Pubrel"
        /\ taken' = taken \ {id}
        /\ toClient' = Append(toClient, Ack("Pubcomp", id))
        /\ UNCHANGED <<outgoing, messageOf, published, session, arrivals,
                       repeated, pc, cursor, selected>>
    BY <1>1 DEF BrokerTakesPubrel, BrokerReads
  <1> DEFINE p == Ack("Pubcomp", id)
             n == Len(toClient) + 1
  <1>3. p \in Packet /\ p.type = "Pubcomp" /\ p.packetId = id
    BY MadePackets DEF MQTTPubAckType
  <1> HIDE DEF p
  <1>4. toBroker \in Seq(Packet) /\ toClient \in Seq(Packet)
    BY DEF Types
  <1>5. /\ 1 \in DOMAIN toBroker /\ toBroker[1] = Head(toBroker)
        /\ \A i \in DOMAIN toBroker' :
             /\ i \in Nat \ {0}
             /\ i + 1 \in DOMAIN toBroker /\ toBroker'[i] = toBroker[i + 1]
        /\ \A packet : In(toBroker', packet) => In(toBroker, packet)
        /\ \A types, x : None(toBroker, types, x) => None(toBroker', types, x)
    BY <1>2, <1>4, WireRead
  <1>6. /\ \A i \in DOMAIN toClient : toClient'[i] = toClient[i]
        /\ toClient'[n] = p
        /\ \A i \in DOMAIN toClient' : i \in DOMAIN toClient \/ i = n
        /\ \A x : x # id /\ None(toClient, {"Pubcomp"}, x) =>
                  None(toClient', {"Pubcomp"}, x)
    BY <1>2, <1>3, <1>4, WireSent DEF p
  <1> HIDE DEF n
  <1>7. ~NoRelease(id)
    BY <1>1, <1>2, <1>5 DEF NoRelease, None
  <1>8. Outgoing(id) = At(2, "PubCompPending")
    BY <1>7 DEF Outbound, Releases
  <1>9. \A x : NoRelease(x) => NoRelease(x)'
    BY <1>5, <1>6, <1>7 DEF NoRelease
  <1>10. \A i \in DOMAIN toBroker' :
           IsQoS2(toBroker'[i]) => toBroker'[i].packetId # id
    <2> SUFFICES ASSUME NEW i \in DOMAIN toBroker', IsQoS2(toBroker'[i])
                 PROVE  toBroker'[i].packetId # id
      OBVIOUS
    <2>1. 1 < i + 1
      BY <1>5
    <2> QED
      BY <1>1, <1>2, <1>5, <2>1 DEF Outbound, Releases
  <1>11. Releases'
    <2>1. OneCarrier(toClient, {"Pubcomp"}, toBroker, {"Pubrel"})
      BY OneCarrierMirrored DEF Outbound, Releases
    <2>2. /\ OneCarrier(toClient, {"Pubcomp"}, toBroker', {"Pubrel"})
          /\ None(toClient, {"Pubcomp"}, id)
          /\ None(toBroker', {"Pubrel"}, id)
      BY <1>1, <1>2, <1>4, <2>1, OneCarrierRead
    <2>3. OneCarrier(toClient', {"Pubcomp"}, toBroker', {"Pubrel"})
      <3>1. OneCarrier(Append(toClient, p), {"Pubcomp"}, toBroker', {"Pubrel"})
        BY <1>3, <1>4, <2>2, OneCarrierSent
      <3> QED
        BY <1>2, <3>1 DEF p
    <2>4. OneCarrier(toBroker', {"Pubrel"}, toClient', {"Pubcomp"})
      BY <2>3, OneCarrierMirrored
    <2>5. \A x \in PacketIds :
            NoRelease(x)' \/ Outgoing(x) = At(2, "PubCompPending")
      BY <1>9 DEF Outbound, Releases
    <2>6. ASSUME NEW i \in DOMAIN toBroker', NEW j \in DOMAIN toBroker',
                 i < j, toBroker'[i].type = "Pubrel", IsQoS2(toBroker'[j])
          PROVE  toBroker'[i].packetId # toBroker'[j].packetId
      <3>1. i + 1 < j + 1
        BY <1>5, <2>6
      <3> QED
        BY <1>5, <2>6, <3>1 DEF Outbound, Releases
    <2>7. ASSUME NEW i \in DOMAIN toClient', NEW j \in DOMAIN toBroker',
                 toClient'[i].type = "Pubcomp", IsQoS2(toBroker'[j])
          PROVE  toClient'[i].packetId # toBroker'[j].packetId
      <3>1. CASE i \in DOMAIN toClient
        BY <1>5, <1>6, <2>7, <3>1 DEF Outbound, Releases
      <3>2. CASE i = n
        BY <1>3, <1>6, <1>10, <2>7, <3>2
      <3> QED
        BY <1>6, <3>1, <3>2
    <2>8. \A x \in PacketIds :
            NoRelease(x)' \/ Outgoing(x)' = At(2, "PubCompPending")
      BY <1>2, <2>5 DEF Outgoing
    <2> QED
      BY <2>4, <2>6, <2>7, <2>8 DEF Releases
  <1>12. CursorFits'
    BY <1>2, <1>9, CursorKept DEF Outbound
  <1>13. Messages'
    <2>1. \A q \in PublishPacket : In(toBroker', q) => In(toBroker, q)
      BY <1>5
    <2>2. \A x \in PacketIds :
            \/ Flight(outgoing', x) = NoFlight
            \/ /\ Outgoing(x) # NoFlight
               /\ Flight(outgoing', x).qos = Outgoing(x).qos
      BY <1>2 DEF Outgoing
    <2>3. \A i \in DOMAIN arrivals' : arrivals'[i] \in 1..published
      BY <1>2 DEF Outbound, Messages
    <2> QED
      BY <1>2, <2>1, <2>2, <2>3, MessagesKept DEF Outbound
  <1>14. Taken'
    <2>1. \A m : Delivered(m)' <=> Delivered(m)
      BY <1>2 DEF Delivered
    <2>2. At(2, "PubCompPending") \notin Resendable(2)
      BY DEF At, Resendable, Pending
    <2>3. ASSUME session, NEW x \in PacketIds, Outgoing(x) \in Resendable(2),
                 Delivered(messageOf[x])
          PROVE  x \in taken'
      BY <1>2, <1>8, <2>2, <2>3 DEF Outbound, Taken
    <2>4. ASSUME NEW i \in DOMAIN toBroker', IsQoS2(toBroker'[i])
          PROVE  Known(toBroker[i])'
      <3>1. PICK q : q = toBroker'[i]
        OBVIOUS
      <3>2. In(toBroker, q) /\ IsQoS2(q) /\ q.packetId # id
        BY <1>5, <1>10, <2>4, <3>1 DEF In
      <3>3. Known(q)
        BY <3>2 DEF Outbound, Taken, In
      <3>4. Known(q)'
        BY <1>2, <2>1, <3>2, <3>3 DEF Known, Outgoing
      <3> QED
        BY <3>1, <3>4
    <2> QED
      BY <1>2, <2>1, <2>3, <2>4 DEF Taken, Outgoing
  <1> QED
    BY <1>2, <1>11, <1>12, <1>13, <1>14 DEF Outbound, DeliveredAtMostOnce

LEMMA ForgetsOutbound ==
  ASSUME Types, Types', Links, Links', Outbound, BrokerForgets
  PROVE  Outbound'
  <1> USE DEF contextVars, appVars, receivedVars, cursorVars, threadVars,
              netVars, brokerVars
  <1>1. /\ UNCHANGED <<outgoing, messageOf, published, arrivals, repeated,
                       pc, cursor, selected, toBroker, toClient>>
        /\ toBroker = <<>> /\ ~session'
    BY DEF BrokerForgets, Links
  <1>2. WiresKept
    BY <1>1, WiresKeptLess
  <1>3. Releases'
    BY <1>1, <1>2, ReleasesKept DEF Outbound, Outgoing
  <1>4. CursorFits'
    BY <1>1, <1>2, NoReleaseKept, CursorKept DEF Outbound
  <1>5. Messages'
    BY <1>1, <1>2, MessagesStay DEF Outbound, Messages
  <1>6. Taken'
    BY <1>1 DEF Taken
  <1> QED
    BY <1>1, <1>3, <1>4, <1>5, <1>6 DEF Outbound, DeliveredAtMostOnce

LEMMA NextOutbound ==
  ASSUME Base, Base', Outbound, [Next]_vars
  PROVE  Outbound'
  <1> USE DEF contextVars, appVars, receivedVars, cursorVars, threadVars,
              netVars, brokerVars
  <1>1. Types /\ Types' /\ Links /\ Links' /\ Records
    BY DEF Base
  <1>2. CASE UNCHANGED vars
    <2>1. UNCHANGED <<outgoing, messageOf, published, arrivals, taken, repeated,
                      session, pc, cursor, selected, toBroker, toClient>>
      BY <1>2 DEF vars
    <2> QED
      BY <1>1, <2>1, WiresKeptLess, QuietOutbound
  <1>3. CASE MQTT_Publish
    BY <1>1, <1>3, SendOutbound
  <1>4. CASE ProcessLoop
    BY <1>1, <1>4, ProcessOutbound
  <1>5. CASE Connect \/ Disconnect
    BY <1>1, <1>5, ConnectOutbound
  <1>6. CASE Broker
    BY <1>1, <1>6, TakesPublishOutbound, TakesPubrelOutbound,
       BrokerQuietOutbound
    DEF Broker
  <1>7. CASE LinkBreaks \/ \E id \in PacketIds, q \in PublishQoS :
                              BrokerSendsPublish(id, q)
    BY <1>1, <1>7, BrokerQuietOutbound
  <1>8. CASE BrokerForgets
    BY <1>1, <1>8, ForgetsOutbound
  <1> QED
    BY <1>2, <1>3, <1>4, <1>5, <1>6, <1>7, <1>8 DEF Next

LEMMA OutboundInvariant == Spec => [](Base /\ Outbound)
  <1>1. Init => Outbound
    BY InitOutbound
  <1>2. Base /\ Base' /\ Outbound /\ [Next]_vars => Outbound'
    BY NextOutbound
  <1>3. Spec => []Base
    BY BaseInvariant
  <1> QED
    BY <1>1, <1>2, <1>3, PTL DEF Spec

\* A QoS 2 message reaches the subscribers of the broker at most once, however
\* often its PUBLISH or its PUBREL is sent again, also when a thread publishes
\* during the resumption, when copies or sends fail and when the broker
\* forgets the session (handleUncleanSessionResumption).
THEOREM QoS2DeliveredOnce == Spec => []DeliveredAtMostOnce
  <1>1. Base /\ Outbound => DeliveredAtMostOnce
    BY DEF Outbound
  <1> QED
    BY <1>1, OutboundInvariant, PTL
=============================================================================
