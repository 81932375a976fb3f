------------------------ MODULE ClientThreads_proofs ------------------------
(***************************************************************************)
(* Proofs about ClientThreads, for every number of publishers, of packet   *)
(* identifiers and of record slots, when the hooks take a mutex and no     *)
(* publish is marked as a duplicate.                                       *)
(*                                                                         *)
(* The inductive invariant has three layers.  Who is between the hooks     *)
(* holds the mutex, and knows the connection status (Sections).  From it   *)
(* follows what a new connection starts with and that nobody comes between *)
(* the parts of a PUBLISH (Connections).  From both follows that a publish *)
(* is represented once at most on its way, at the stage its record is in   *)
(* (Exchange), and while the connection lasts also once at least, but for  *)
(* one whose PUBREL timed out: then the client task gives the connection   *)
(* up next (Carrying).                                                     *)
(***************************************************************************)
EXTENDS ClientThreads, PublishRecords_proofs, SequenceTheorems

-----------------------------------------------------------------------------
(* Types.                                                                  *)

PublisherSections ==
  {"advance", "reserve", "head", "rest", "sendError", "setPending", "update",
   "release"}

ClientSections == {"handshake", "clean", "connected", "refused"}

PublisherPlaces == {"idle", "publish"} \cup PublisherSections

ClientPlaces ==
  {"connect", "mqttConnect", "loop", "pubrel", "pubrelSent", "disconnect",
   "disconnectAgain", "close"} \cup ClientSections

Packet == [type : {"head", "rest"}, packetId : PacketIds, qos : {1, 2}]
            \cup [type : {"PUBREL"}, packetId : PacketIds]
            \cup [type : {"DISCONNECT", "torn"}]

Reply == [type : {"Puback", "Pubrec", "Pubcomp"}, packetId : PacketIds]

Job == [packetId : PacketIds \cup {MQTT_PACKET_ID_INVALID},
        qos      : {1, 2},
        dup      : {FALSE} \cup PublishDup]

Types ==
  /\ connectStatus \in {"NotConnected", "Connected", "DisconnectPending"}
  /\ nextPacketId \in PacketIds
  /\ Good(outgoing, OutgoingPublishCount, OutgoingFlights)
  /\ pc \in [Threads -> PublisherPlaces \cup ClientPlaces]
  /\ \A p \in Publishers : pc[p] \in PublisherPlaces
  /\ pc[Client] \in ClientPlaces
  /\ job \in [Publishers -> Job]
  /\ \A p \in Publishers : pc[p] # "idle" => job[p].packetId \in PacketIds
  /\ released \in PacketIds \cup {MQTT_PACKET_ID_INVALID}
  /\ pc[Client] \in {"pubrel", "pubrelSent"} => released \in PacketIds
  /\ link \in {"down", "tcp", "up", "broken"}
  /\ wire \in Seq(Packet)
  /\ replies \in Seq(Reply)

-----------------------------------------------------------------------------
(* The inductive invariant.                                                *)

Between(t) ==
  pc[t] \in IF t = Client THEN ClientSections ELSE PublisherSections

\* A thread between the hooks holds the mutex.
MutexHeld == \A t \in Threads : Between(t) => mutex = t

\* The connection status while the client task is not using a connection,
\* and while MQTT_Publish relies on what it read.
StatusKnown ==
  /\ pc[Client] \notin {"loop", "pubrel", "pubrelSent", "disconnect"} =>
       connectStatus = "NotConnected"
  /\ \A p \in Publishers :
       pc[p] \in PublisherSections \ {"advance", "release"} =>
         connectStatus = "Connected"

Sections == MutexHeld /\ StatusKnown

\* A new connection starts with nothing on its way in either direction.
NothingUnderWay ==
  pc[Client] \in {"mqttConnect"} \cup ClientSections =>
    wire = <<>> /\ replies = <<>>

HandshakeUnderWay == link = "tcp" => pc[Client] \in {"mqttConnect", "handshake"}

HeadOf(p) ==
  [type |-> "head", packetId |-> job[p].packetId, qos |-> job[p].qos]

\* Nothing follows the head of a PUBLISH while MQTT_Publish goes on.
HeadIsLast ==
  \A p \in Publishers :
    pc[p] = "rest" /\ link = "up" =>
      wire # <<>> /\ wire[Len(wire)] = HeadOf(p)

Connections ==
  NothingUnderWay /\ HandshakeUnderWay /\ HeadIsLast /\ RestFollowsHead

\* Nobody else reads or advances the identifier meanwhile.
IdentifierIsNext ==
  \A p \in Publishers :
    pc[p] = "advance" => job[p].packetId = nextPacketId

Base == Types /\ Sections /\ Connections /\ IdentifierIsNext

Record(id) == Flight(outgoing, id)

Bears(packet, id) ==
  packet.type \in {"rest", "PUBREL"} /\ packet.packetId = id

\* At most one packet about a publish is on its way.
OneCarrier ==
  /\ \A id \in PacketIds : \A i, j \in DOMAIN wire :
       Bears(wire[i], id) /\ Bears(wire[j], id) => i = j
  /\ \A i, j \in DOMAIN replies :
       replies[i].packetId = replies[j].packetId => i = j
  /\ \A i \in DOMAIN wire, j \in DOMAIN replies :
       ~Bears(wire[i], replies[j].packetId)

Pending(qos) == IF qos = 1 THEN "PubAckPending" ELSE "PubRecPending"

\* The publish has been sent, and its record says so or is about to.
Sent(id, qos) ==
  \/ Record(id) = At(qos, Pending(qos))
  \/ \E p \in Publishers :
       pc[p] = "update" /\ job[p].packetId = id /\ job[p].qos = qos

\* The same of its PUBREL.
Released(id) ==
  \/ Record(id) = At(2, "PubCompPending")
  \/ pc[Client] = "pubrelSent" /\ released = id

\* A packet that is on its way is what the record it is about waits for.
Fits(packet) ==
  /\ packet.type = "rest" => Sent(packet.packetId, packet.qos)
  /\ packet.type = "Puback" => Sent(packet.packetId, 1)
  /\ packet.type = "Pubrec" => Sent(packet.packetId, 2)
  /\ packet.type \in {"PUBREL", "Pubcomp"} => Released(packet.packetId)

UnderWay(packet) ==
  \/ \E i \in DOMAIN wire : wire[i] = packet
  \/ \E i \in DOMAIN replies : replies[i] = packet

CarriersFit == \A packet \in Packet \cup Reply : UnderWay(packet) => Fits(packet)

\* The record of a publish that a thread is working on.
RecordsInWork ==
  /\ \A p \in Publishers :
       pc[p] \in {"head", "rest", "update"} =>
         Record(job[p].packetId) = At(job[p].qos, "PublishSend")
  /\ pc[Client] \in {"pubrel", "pubrelSent"} =>
       Record(released) = At(2, "PubRelSend")

Exchange ==
  OneCarrier /\ CarriersFit /\ RecordsInWork /\ AcksMeetTheirRecords

Carrier(id) ==
  \/ \E i \in DOMAIN wire : Bears(wire[i], id)
  \/ \E i \in DOMAIN replies : replies[i].packetId = id

Alive == connectStatus = "Connected" /\ link = "up"

\* The client task is sending the PUBREL, or gives the connection up because
\* it could not in time.
PubrelInWork(id) ==
  \/ pc[Client] \in {"pubrel", "pubrelSent"} /\ released = id
  \/ PubrelGivenUp(id)

PendingIsCarried ==
  Alive =>
    \A id \in PacketIds :
      /\ Record(id).state \in {"PubAckPending", "PubRecPending",
                               "PubCompPending"} => Carrier(id)
      /\ Record(id).state = "PubRelSend" => PubrelInWork(id)

WorkIsCarried ==
  Alive =>
    /\ \A p \in Publishers : pc[p] = "update" => Carrier(job[p].packetId)
    /\ pc[Client] = "pubrelSent" => Carrier(released)

\* The records are cleared before a new connection is used.
CleanStart ==
  pc[Client] = "connected" => outgoing = EmptyTable(OutgoingPublishCount)

Carrying == PendingIsCarried /\ WorkIsCarried /\ CleanStart

IInv == Base /\ Exchange /\ Carrying

-----------------------------------------------------------------------------
(* Types.                                                                  *)

LEMMA InitTypes == Init => Types
  BY EmptyTableGood, ThreadsAssumption, IdentifiersAssumption
  DEF Init, Types, Threads, PublisherPlaces, ClientPlaces, NoJob, Job

LEMMA TransmitTypes ==
  ASSUME wire \in Seq(Packet), NEW chunk \in Packet, Transmit(chunk)
  PROVE  wire' \in Seq(Packet)
  BY DEF Transmit

LEMMA CutShortTypes ==
  ASSUME wire \in Seq(Packet), CutShort
  PROVE  wire' \in Seq(Packet)
  <1>1. [type |-> "torn"] \in Packet
    BY DEF Packet
  <1> QED
    BY <1>1 DEF CutShort

\* What a publisher sends changes its QoS and flag, not its identifier.
LEMMA ChosenJob ==
  ASSUME job \in [Publishers -> Job], NEW p \in Publishers,
         CheckConnection(p)
  PROVE  /\ job' \in [Publishers -> Job]
         /\ \A q \in Publishers : job'[q].packetId = job[q].packetId
         /\ \A q \in Publishers \ {p} : job'[q] = job[q]
  <1>1. PICK q \in PublishQoS, d \in PublishDup :
          job' = [job EXCEPT ![p] = [packetId |-> job[p].packetId,
                                     qos |-> q, dup |-> d]]
    BY DEF CheckConnection
  <1> DEFINE new == [packetId |-> job[p].packetId, qos |-> q, dup |-> d]
  <1>2. /\ job[p].packetId \in PacketIds \cup {MQTT_PACKET_ID_INVALID}
        /\ q \in {1, 2}
        /\ d \in {FALSE} \cup PublishDup
    <2>1. job[p] \in Job
      OBVIOUS
    <2>2. q \in {1, 2}
      BY ThreadsAssumption
    <2> QED
      BY <2>1, <2>2 DEF Job
  <1>3. new \in Job /\ new.packetId = job[p].packetId
    BY <1>2 DEF Job
  <1> HIDE DEF new
  <1>4. job' = [job EXCEPT ![p] = new]
    BY <1>1 DEF new
  <1> QED
    BY <1>3, <1>4

\* A step of a publisher.
LEMMA PublisherTypes ==
  ASSUME Types, NEW p \in Publishers, PublisherStep(p)
  PROVE  Types'
  <1> USE ThreadsAssumption DEF Types, Threads, contextVars, clientVars, netVars,
                                Goto
  <1>1. CASE GetPacketId(p)
    BY <1>1 DEF GetPacketId, NoJob, Job, PublisherPlaces, PublisherSections
  <1>2. CASE AdvancePacketId(p)
    <2>1. nextPacketId' \in PacketIds
      BY <1>2, IdentifiersAssumption DEF AdvancePacketId
    <2>2. /\ pc' = [pc EXCEPT ![p] = "publish"]
          /\ pc[p] # "idle"
          /\ UNCHANGED <<connectStatus, outgoing, job, released, link, wire,
                         replies>>
      BY <1>2 DEF AdvancePacketId
    <2> QED
      BY <2>1, <2>2 DEF PublisherPlaces
  <1>3. CASE CheckConnection(p)
    <2>1. PICK step \in {"reserve", "release"} :
            pc' = [pc EXCEPT ![p] = step]
      BY <1>3 DEF CheckConnection
    <2>2. /\ job' \in [Publishers -> Job]
          /\ \A q \in Publishers : job'[q].packetId = job[q].packetId
      BY <1>3, ChosenJob
    <2>3. pc[p] # "idle"
      BY <1>3 DEF CheckConnection
    <2>4. UNCHANGED <<contextVars, released, netVars>>
      BY <1>3 DEF CheckConnection
    <2> QED
      BY <2>1, <2>2, <2>3, <2>4 DEF PublisherPlaces, PublisherSections
  <1>4. CASE ReserveState(p)
    <2> DEFINE id    == job[p].packetId
               qos   == job[p].qos
               added == AddRecord(outgoing, id, qos, "PublishSend")
    <2>1. /\ id \in PacketIds
          /\ qos \in MQTTQoS
          /\ "PublishSend" \in MQTTPublishState
          /\ [qos |-> qos, state |-> "PublishSend"] \in OutgoingFlights
      <3>1. id \in PacketIds /\ qos \in {1, 2}
        BY <1>4 DEF ReserveState, Job
      <3> HIDE DEF id, qos
      <3> QED
        BY <3>1 DEF MQTTQoS, MQTTPublishState, OutgoingStates,
                    OutgoingFlights, At
    <2>2. Good(added.records, OutgoingPublishCount, OutgoingFlights)
      <3> HIDE DEF id, qos
      <3> QED
        BY <2>1, AddRecordGood
    <2>3. outgoing' = added.records
      BY <1>4 DEF ReserveState
    <2> HIDE DEF added
    <2> QED
      BY <1>4, <2>2, <2>3 DEF ReserveState, PublisherPlaces, PublisherSections
  <1>5. CASE SendHead(p)
    BY <1>5, TransmitTypes
    DEF SendHead, Job, Packet, PublisherPlaces, PublisherSections
  <1>6. CASE SendRest(p)
    BY <1>6, TransmitTypes
    DEF SendRest, Job, Packet, PublisherPlaces, PublisherSections
  <1>7. CASE SendTimesOut(p) \/ SendPublishFails(p) \/ CheckSendError(p)
    BY <1>7 DEF SendTimesOut, SendPublishFails, CheckSendError,
                PublisherPlaces, PublisherSections
  <1>8. CASE SetDisconnectPending(p)
    BY <1>8 DEF SetDisconnectPending, PublisherPlaces, PublisherSections
  <1>9. CASE UpdateStatePublish(p)
    <2> DEFINE id   == job[p].packetId
               qos  == job[p].qos
               sent == UpdateSentPublish(outgoing, id, qos)
    <2>1. id \in PacketIds /\ qos \in {1, 2}
      BY <1>9 DEF UpdateStatePublish, Job
    <2>2. Good(sent.records, OutgoingPublishCount, OutgoingFlights)
      <3> HIDE DEF id, qos
      <3> QED
        BY <2>1, UpdateSentPublishGood
    <2>3. outgoing' = sent.records
      BY <1>9 DEF UpdateStatePublish
    <2> HIDE DEF sent
    <2> QED
      BY <1>9, <2>2, <2>3
      DEF UpdateStatePublish, PublisherPlaces, PublisherSections
  <1>10. CASE PublishReturns(p)
    BY <1>10 DEF PublishReturns, NoJob, Job, PublisherPlaces
  <1> QED
    BY <1>1, <1>2, <1>3, <1>4, <1>5, <1>6, <1>7, <1>8, <1>9, <1>10
    DEF PublisherStep

\* A step of the client task.
LEMMA ClientTypes ==
  ASSUME Types, ClientStep
  PROVE  Types'
  <1> USE ThreadsAssumption DEF Types, Threads, contextVars, clientVars, netVars,
                                Goto
  <1>1. CASE TcpConnect \/ CloseSocket
    <2>1. PICK step \in {"mqttConnect", "connect"}, new \in {"tcp", "down"} :
            /\ pc' = [pc EXCEPT ![Client] = step]
            /\ link' = new
            /\ wire' = <<>>
            /\ replies' = <<>>
            /\ UNCHANGED <<contextVars, job, released>>
      BY <1>1 DEF TcpConnect, CloseSocket
    <2> QED
      BY <2>1 DEF ClientPlaces
  <1>2. CASE CheckNotConnected
    <2>1. PICK step \in {"handshake", "loop", "close"} :
            /\ pc' = [pc EXCEPT ![Client] = step]
            /\ UNCHANGED <<contextVars, job, released, netVars>>
      BY <1>2 DEF CheckNotConnected
    <2> QED
      BY <2>1 DEF ClientPlaces, ClientSections
  <1>3. CASE Handshake
    BY <1>3 DEF Handshake, ClientPlaces, ClientSections
  <1>4. CASE HandleCleanSession
    BY <1>4, EmptyTableGood
    DEF HandleCleanSession, ClientPlaces, ClientSections
  <1>5. CASE SetConnected \/ ConnectFails
    BY <1>5 DEF SetConnected, ConnectFails, ClientPlaces
  <1>6. CASE ReceiveFails \/ KeepAliveTimesOut
    BY <1>6 DEF ReceiveFails, KeepAliveTimesOut, GiveUpConnection, ClientPlaces
  <1>7. CASE HandlePublishAck
    <2> DEFINE ack     == Head(replies)
               updated == UpdateStateAck(outgoing, ack.packetId, ack.type,
                                         "RECEIVE")
    <2>1. /\ ack \in Reply
          /\ Tail(replies) \in Seq(Reply)
          /\ ack.packetId \in PacketIds
          /\ ack.type \in MQTTPubAckType
      <3>1. ack \in Reply /\ Tail(replies) \in Seq(Reply)
        BY <1>7 DEF HandlePublishAck
      <3> HIDE DEF ack
      <3> QED
        BY <3>1 DEF Reply, MQTTPubAckType
    <2>2. Good(updated.records, OutgoingPublishCount, OutgoingFlights)
      <3> HIDE DEF ack
      <3> QED
        BY <2>1, UpdateStateAckGood
    <2>3. PICK step \in {"disconnect", "pubrel", "loop"} :
            /\ outgoing' = updated.records
            /\ pc' = [pc EXCEPT ![Client] = step]
            /\ IF step = "pubrel"
                 THEN released' = ack.packetId
                 ELSE released' \in {ack.packetId, MQTT_PACKET_ID_INVALID}
            /\ replies' = Tail(replies)
            /\ UNCHANGED <<connectStatus, nextPacketId, job, link, wire>>
      <3> HIDE DEF ack, updated
      <3> QED
        BY <1>7 DEF HandlePublishAck, ack, updated
    <2> HIDE DEF ack, updated
    <2> QED
      BY <2>1, <2>2, <2>3 DEF ClientPlaces
  <1>8. CASE SendPubrel
    <2> USE DEF Packet
    <2> QED
      BY <1>8, TransmitTypes DEF SendPubrel, ClientPlaces
  <1>9. CASE SendPubrelFails
    BY <1>9 DEF SendPubrelFails, GiveUpConnection, ClientPlaces
  <1>12. CASE SendPubrelTimesOut
    <2>1. wire' \in Seq(Packet)
      BY <1>12, CutShortTypes DEF SendPubrelTimesOut
    <2> QED
      BY <1>12, <2>1 DEF SendPubrelTimesOut, ClientPlaces
  <1>10. CASE UpdateStatePubrel
    <2> DEFINE updated == UpdateStateAck(outgoing, released, "Pubrel", "SEND")
    <2>1. Good(updated.records, OutgoingPublishCount, OutgoingFlights)
      <3>1. released \in PacketIds /\ "Pubrel" \in MQTTPubAckType
        BY <1>10 DEF UpdateStatePubrel, MQTTPubAckType
      <3> QED
        BY <3>1, UpdateStateAckGood
    <2>2. PICK step \in {"disconnect", "loop"} :
            /\ outgoing' = updated.records
            /\ pc' = [pc EXCEPT ![Client] = step]
            /\ released' = MQTT_PACKET_ID_INVALID
            /\ UNCHANGED <<connectStatus, nextPacketId, job, netVars>>
      BY <1>10 DEF UpdateStatePubrel
    <2> HIDE DEF updated
    <2> QED
      BY <2>1, <2>2 DEF ClientPlaces
  <1>11. CASE Disconnect
    <2>1. wire' \in Seq(Packet)
      <3>1. [type |-> "DISCONNECT"] \in Packet
        BY DEF Packet
      <3> QED
        BY <1>11, <3>1, TransmitTypes, CutShortTypes
        DEF Disconnect, MQTT_Disconnect, TransmitIfAble
    <2> QED
      BY <1>11, <2>1 DEF Disconnect, MQTT_Disconnect, ClientPlaces
  <1> QED
    BY <1>1, <1>2, <1>3, <1>4, <1>5, <1>6, <1>7, <1>8, <1>9, <1>10, <1>11,
       <1>12
    DEF ClientStep

LEMMA PacketFields ==
  ASSUME NEW packet \in Packet
  PROVE  /\ packet.type \in {"head", "rest"} =>
              packet.packetId \in PacketIds /\ packet.qos \in {1, 2}
         /\ packet.type = "PUBREL" => packet.packetId \in PacketIds
  BY DEF Packet

\* A step of the broker or the network.
LEMMA BrokerTypes ==
  ASSUME Types, BrokerStep \/ LinkBreaks
  PROVE  Types'
  <1> USE DEF Types, Threads, contextVars, clientVars, netVars
  <1>1. CASE BrokerTakesPublish
    <2> DEFINE ack == [type     |-> IF wire[1].qos = 1 THEN "Puback" ELSE "Pubrec",
                       packetId |-> wire[1].packetId]
    <2>1. ack \in Reply
      <3>1. wire[1] \in Packet /\ wire[1].type = "head"
        BY <1>1 DEF BrokerTakesPublish
      <3> QED
        BY <3>1, PacketFields DEF Reply
    <2>2. SubSeq(wire, 3, Len(wire)) \in Seq(Packet)
      BY <1>1 DEF BrokerTakesPublish
    <2> HIDE DEF ack
    <2>3. replies' = Append(replies, ack) /\ wire' = SubSeq(wire, 3, Len(wire))
      BY <1>1 DEF BrokerTakesPublish, ack
    <2> QED
      BY <1>1, <2>1, <2>2, <2>3 DEF BrokerTakesPublish
  <1>2. CASE BrokerTakesPubrel
    <2> DEFINE ack == [type |-> "Pubcomp", packetId |-> Head(wire).packetId]
    <2>1. ack \in Reply
      <3>1. Head(wire) \in Packet /\ Head(wire).type = "PUBREL"
        BY <1>2 DEF BrokerTakesPubrel
      <3> QED
        BY <3>1, PacketFields DEF Reply
    <2>2. Tail(wire) \in Seq(Packet)
      BY <1>2 DEF BrokerTakesPubrel
    <2> HIDE DEF ack
    <2>3. replies' = Append(replies, ack) /\ wire' = Tail(wire)
      BY <1>2 DEF BrokerTakesPubrel, ack
    <2> QED
      BY <1>2, <2>1, <2>2, <2>3 DEF BrokerTakesPubrel
  <1>3. CASE BrokerCloses \/ LinkBreaks
    <2>1. /\ link' = "broken"
          /\ wire' = <<>>
          /\ UNCHANGED <<contextVars, pc, job, clientVars, replies>>
      BY <1>3 DEF BrokerCloses, LinkBreaks
    <2> QED
      BY <2>1
  <1> QED
    BY <1>1, <1>2, <1>3 DEF BrokerStep

LEMMA NextTypes ==
  ASSUME Types, [Next]_vars
  PROVE  Types'
  <1>1. CASE UNCHANGED vars
    BY <1>1 DEF vars, Types, contextVars, clientVars, netVars
  <1> QED
    BY <1>1, PublisherTypes, ClientTypes, BrokerTypes DEF Next

-----------------------------------------------------------------------------
(* Who is between the hooks, and what is known there.                      *)

LEMMA InitSections == Init => Sections
  BY ThreadsAssumption
  DEF Init, Sections, MutexHeld, StatusKnown, Between, Threads,
      PublisherSections, ClientSections

LEMMA PublisherSectionsKept ==
  ASSUME MutexHooks, Types, Sections, NEW p \in Publishers, PublisherStep(p)
  PROVE  Sections'
  <1> USE ThreadsAssumption
      DEF Types, Sections, MutexHeld, StatusKnown, Between, Threads,
          PublisherSections, ClientSections, Goto, PreHook, PostHook,
          contextVars, clientVars, netVars
  <1>1. CASE GetPacketId(p)
    BY <1>1 DEF GetPacketId
  <1>2. CASE AdvancePacketId(p)
    BY <1>2 DEF AdvancePacketId
  <1>3. CASE CheckConnection(p)
    BY <1>3 DEF CheckConnection
  <1>4. CASE ReserveState(p)
    <2>1. PICK step \in {"head", "release"} :
            pc' = [pc EXCEPT ![p] = step]
      BY <1>4 DEF ReserveState
    <2> QED
      BY <1>4, <2>1 DEF ReserveState
  <1>5. CASE SendHead(p) \/ SendRest(p)
    BY <1>5 DEF SendHead, SendRest
  <1>6. CASE SendTimesOut(p) \/ SendPublishFails(p) \/ CheckSendError(p)
    BY <1>6 DEF SendTimesOut, SendPublishFails, CheckSendError
  <1>7. CASE SetDisconnectPending(p)
    BY <1>7 DEF SetDisconnectPending
  <1>8. CASE UpdateStatePublish(p)
    BY <1>8 DEF UpdateStatePublish
  <1>9. CASE PublishReturns(p)
    BY <1>9 DEF PublishReturns
  <1> QED
    BY <1>1, <1>2, <1>3, <1>4, <1>5, <1>6, <1>7, <1>8, <1>9
    DEF PublisherStep

LEMMA ClientSectionsKept ==
  ASSUME MutexHooks, Types, Sections, ClientStep
  PROVE  Sections'
  <1> USE ThreadsAssumption
      DEF Types, Sections, MutexHeld, StatusKnown, Between, Threads,
          PublisherSections, ClientSections, Goto, PreHook, PostHook,
          HookSection, GiveUpConnection, contextVars, clientVars, netVars
  <1>1. CASE TcpConnect \/ CloseSocket
    BY <1>1 DEF TcpConnect, CloseSocket
  <1>2. CASE CheckNotConnected
    BY <1>2 DEF CheckNotConnected
  <1>3. CASE Handshake \/ HandleCleanSession
    BY <1>3 DEF Handshake, HandleCleanSession
  <1>4. CASE SetConnected
    BY <1>4 DEF SetConnected
  <1>5. CASE ConnectFails
    BY <1>5 DEF ConnectFails
  <1>6. CASE ReceiveFails \/ KeepAliveTimesOut
    BY <1>6 DEF ReceiveFails, KeepAliveTimesOut
  <1>7. CASE HandlePublishAck
    <2>1. PICK step \in {"disconnect", "pubrel", "loop"} :
            pc' = [pc EXCEPT ![Client] = step]
      BY <1>7 DEF HandlePublishAck
    <2> QED
      BY <1>7, <2>1 DEF HandlePublishAck
  <1>8. CASE SendPubrel \/ SendPubrelFails \/ SendPubrelTimesOut
    BY <1>8 DEF SendPubrel, SendPubrelFails, SendPubrelTimesOut
  <1>9. CASE UpdateStatePubrel
    <2>1. PICK step \in {"disconnect", "loop"} :
            pc' = [pc EXCEPT ![Client] = step]
      BY <1>9 DEF UpdateStatePubrel
    <2> QED
      BY <1>9, <2>1 DEF UpdateStatePubrel
  <1>10. CASE Disconnect
    BY <1>10 DEF Disconnect, MQTT_Disconnect
  <1> QED
    BY <1>1, <1>2, <1>3, <1>4, <1>5, <1>6, <1>7, <1>8, <1>9, <1>10
    DEF ClientStep

\* Threads enter the sections when the mutex is free; what they know of the
\* connection status there only a thread between the hooks can change.
LEMMA NextSections ==
  ASSUME MutexHooks, Types, Sections, [Next]_vars
  PROVE  Sections'
  <1>1. CASE BrokerStep \/ LinkBreaks \/ UNCHANGED vars
    <2>1. UNCHANGED <<connectStatus, mutex, pc>>
      BY <1>1 DEF BrokerStep, LinkBreaks, vars, BrokerTakesPublish,
                  BrokerTakesPubrel, BrokerCloses, contextVars
    <2> QED
      BY <2>1 DEF Sections, MutexHeld, StatusKnown, Between
  <1> QED
    BY <1>1, PublisherSectionsKept, ClientSectionsKept DEF Next

-----------------------------------------------------------------------------
(* What a step may do to the network, the places and the jobs.             *)

RestOf(p) ==
  [type |-> "rest", packetId |-> job[p].packetId, qos |-> job[p].qos]

\* Append(wire, packet), or the packet is lost.
Sends(packet) ==
  \/ link \in {"tcp", "up"} /\ wire' = Append(wire, packet)
  \/ link = "broken" /\ wire' = wire

LEMMA PublisherMoves ==
  ASSUME Types, NEW p \in Publishers, PublisherStep(p)
  PROVE  /\ \A t \in Threads \ {p} : pc'[t] = pc[t]
         /\ UNCHANGED <<link, replies, lastStatus, released>>
         /\ \/ pc[p] = "head" /\ pc'[p] = "rest" /\ Sends(HeadOf(p))
            \/ pc[p] = "rest" /\ pc'[p] = "update" /\ Sends(RestOf(p))
            \/ pc'[p] \notin {"rest", "update"} /\ wire' = wire
         /\ \A q \in Publishers \ {p} : job'[q] = job[q]
         /\ pc'[p] \in {"rest", "update"} => job' = job
  <1> USE ThreadsAssumption
      DEF Types, Threads, Goto, Sends, Transmit, HeadOf, RestOf,
          contextVars, clientVars, netVars
  <1>1. CASE GetPacketId(p) \/ AdvancePacketId(p)
    BY <1>1 DEF GetPacketId, AdvancePacketId
  <1>0. CASE CheckConnection(p)
    <2>1. PICK step \in {"reserve", "release"} :
            pc' = [pc EXCEPT ![p] = step]
      BY <1>0 DEF CheckConnection
    <2>2. UNCHANGED <<netVars, clientVars>>
      BY <1>0 DEF CheckConnection
    <2> QED
      BY <1>0, <2>1, <2>2, ChosenJob
  <1>2. CASE ReserveState(p)
    <2>1. PICK step \in {"head", "release"} :
            pc' = [pc EXCEPT ![p] = step]
      BY <1>2 DEF ReserveState
    <2> QED
      BY <1>2, <2>1 DEF ReserveState
  <1>3. CASE SendHead(p)
    BY <1>3 DEF SendHead
  <1>4. CASE SendRest(p)
    BY <1>4 DEF SendRest
  <1>5. CASE \/ SendTimesOut(p) \/ SendPublishFails(p) \/ CheckSendError(p)
             \/ SetDisconnectPending(p)
    BY <1>5 DEF SendTimesOut, SendPublishFails, CheckSendError,
                SetDisconnectPending
  <1>6. CASE UpdateStatePublish(p) \/ PublishReturns(p)
    BY <1>6 DEF UpdateStatePublish, PublishReturns
  <1> QED
    BY <1>0, <1>1, <1>2, <1>3, <1>4, <1>5, <1>6 DEF PublisherStep

\* The client task sends only while nobody is between the hooks, and resets
\* the network only while it has no connection.
LEMMA ClientMoves ==
  ASSUME MutexHooks, Types, ClientStep
  PROVE  /\ \A p \in Publishers : pc'[p] = pc[p]
         /\ job' = job
         /\ \/ UNCHANGED <<link, wire>>
            \/ /\ pc[Client] \in {"connect", "close", "handshake"}
               /\ wire' \in {wire, <<>>}
            \/ /\ mutex = NoThread
               /\ \E packet \in [type : {"PUBREL"}, packetId : PacketIds]
                                  \cup [type : {"DISCONNECT", "torn"}] :
                    Sends(packet)
               /\ pc[Client] \in {"pubrel", "disconnect", "disconnectAgain"}
               /\ link' = link
  <1> USE ThreadsAssumption
      DEF Types, Threads, Goto, contextVars, clientVars, netVars
  <1>1. CASE TcpConnect \/ CloseSocket
    BY <1>1 DEF TcpConnect, CloseSocket
  <1>2. CASE Handshake
    BY <1>2 DEF Handshake
  <1>3. CASE \/ CheckNotConnected \/ HandleCleanSession \/ SetConnected
             \/ ConnectFails \/ ReceiveFails \/ KeepAliveTimesOut
             \/ SendPubrelFails
    BY <1>3 DEF CheckNotConnected, HandleCleanSession, SetConnected,
                ConnectFails, ReceiveFails, KeepAliveTimesOut, SendPubrelFails
  <1>4. CASE HandlePublishAck \/ UpdateStatePubrel
    <2>1. PICK step \in {"disconnect", "pubrel", "loop"} :
            pc' = [pc EXCEPT ![Client] = step]
      BY <1>4 DEF HandlePublishAck, UpdateStatePubrel
    <2> QED
      BY <1>4, <2>1 DEF HandlePublishAck, UpdateStatePubrel
  <1>5. CASE SendPubrel
    BY <1>5 DEF SendPubrel, HookSection, Transmit, Sends
  <1>6. CASE Disconnect
    BY <1>6 DEF Disconnect, MQTT_Disconnect, HookSection, TransmitIfAble,
                CutShort, Transmit, Sends
  <1>7. CASE SendPubrelTimesOut
    BY <1>7 DEF SendPubrelTimesOut, HookSection, CutShort, Sends
  <1> QED
    BY <1>1, <1>2, <1>3, <1>4, <1>5, <1>6, <1>7 DEF ClientStep

-----------------------------------------------------------------------------
(* What a connection starts with, and that a PUBLISH is not interrupted.   *)

LEMMA InitConnections == Init => Connections /\ IdentifierIsNext
  BY ThreadsAssumption
  DEF Init, Connections, NothingUnderWay, HandshakeUnderWay, HeadIsLast,
      RestFollowsHead, IdentifierIsNext, Threads, ClientSections

LEMMA NextNothingUnderWay ==
  ASSUME MutexHooks, Types, Sections, NothingUnderWay, HandshakeUnderWay,
         [Next]_vars
  PROVE  NothingUnderWay' /\ HandshakeUnderWay'
  <1> USE ThreadsAssumption
      DEF NothingUnderWay, HandshakeUnderWay, ClientSections, Threads
  <1>1. ASSUME NEW p \in Publishers, PublisherStep(p)
        PROVE  NothingUnderWay' /\ HandshakeUnderWay'
    <2>1. /\ pc'[Client] = pc[Client]
          /\ UNCHANGED <<link, replies>>
      BY <1>1, PublisherMoves
    <2>2. pc[p] \in {"head", "rest"} \/ wire' = wire
      BY <1>1, PublisherMoves
    <2>3. pc[p] \in {"head", "rest"} =>
            pc[Client] \in {"loop", "pubrel", "pubrelSent", "disconnect"}
      BY DEF Sections, StatusKnown, PublisherSections
    <2> QED
      BY <2>1, <2>2, <2>3
  <1>2. CASE TcpConnect \/ CheckNotConnected \/ Handshake
    <2>1. pc[Client] = "mqttConnect" => connectStatus = "NotConnected"
      BY DEF Sections, StatusKnown
    <2> QED
      BY <1>2, <2>1
      DEF TcpConnect, CheckNotConnected, Handshake, Types, Goto, netVars
  <1>3. CASE HandleCleanSession \/ SetConnected \/ ConnectFails \/ CloseSocket
    BY <1>3 DEF HandleCleanSession, SetConnected, ConnectFails, CloseSocket,
                Types, Goto, netVars
  <1>4. CASE \/ ReceiveFails \/ KeepAliveTimesOut \/ HandlePublishAck
             \/ SendPubrel \/ SendPubrelFails \/ SendPubrelTimesOut
             \/ UpdateStatePubrel \/ Disconnect
    <2>1. /\ pc[Client] \in {"loop", "pubrel", "pubrelSent", "disconnect",
                             "disconnectAgain"}
          /\ pc'[Client] \notin {"mqttConnect"} \cup ClientSections
          /\ link' = link
      BY <1>4 DEF ReceiveFails, KeepAliveTimesOut, HandlePublishAck,
                  SendPubrel, SendPubrelFails, SendPubrelTimesOut,
                  UpdateStatePubrel, Disconnect, Types, Goto, netVars
    <2> QED
      BY <2>1
  <1>5. CASE BrokerStep \/ LinkBreaks
    BY <1>5 DEF BrokerStep, LinkBreaks, BrokerTakesPublish, BrokerTakesPubrel,
                BrokerCloses, Unexpected
  <1>6. CASE UNCHANGED vars
    BY <1>6 DEF vars, netVars
  <1> QED
    BY <1>1, <1>2, <1>3, <1>4, <1>5, <1>6 DEF Next, ClientStep

LEMMA AppendedIsWhole ==
  ASSUME wire \in Seq(Packet), RestFollowsHead,
         NEW packet, wire' = Append(wire, packet),
         packet.type = "rest" =>
           wire # <<>> /\ wire[Len(wire)] = [packet EXCEPT !.type = "head"]
  PROVE  RestFollowsHead'
  <1>1. /\ Len(wire) \in Nat
        /\ DOMAIN wire = 1..Len(wire)
        /\ DOMAIN wire' = 1..(Len(wire) + 1)
        /\ \A i \in 1..Len(wire) : wire'[i] = wire[i]
        /\ wire'[Len(wire) + 1] = packet
    OBVIOUS
  <1> SUFFICES ASSUME NEW i \in 1..(Len(wire) + 1), wire'[i].type = "rest"
               PROVE  /\ i > 1
                      /\ wire'[i - 1] = [wire'[i] EXCEPT !.type = "head"]
    BY <1>1 DEF RestFollowsHead
  <1>2. CASE i \in 1..Len(wire)
    BY <1>1, <1>2 DEF RestFollowsHead
  <1>3. CASE i = Len(wire) + 1
    <2>1. wire # <<>> => Len(wire) >= 1
      OBVIOUS
    <2>2. wire'[i] = packet
      BY <1>1, <1>3
    <2>3. Len(wire) >= 1 /\ wire[Len(wire)] = [packet EXCEPT !.type = "head"]
      BY <2>1, <2>2
    <2>4. i - 1 = Len(wire) /\ i > 1
      BY <1>1, <1>3, <2>3
    <2>5. wire'[Len(wire)] = wire[Len(wire)]
      BY <1>1, <2>3
    <2> QED
      BY <2>2, <2>3, <2>4, <2>5
  <1> QED
    BY <1>1, <1>2, <1>3

LEMMA NextWholePublish ==
  ASSUME MutexHooks, Types, Sections, Connections, [Next]_vars
  PROVE  HeadIsLast' /\ RestFollowsHead'
  <1> USE ThreadsAssumption
  <1>0. /\ wire \in Seq(Packet)
        /\ HeadIsLast
        /\ RestFollowsHead
        /\ \A p \in Publishers :
             pc[p] = "rest" => mutex = p /\ connectStatus = "Connected"
    BY DEF Types, Connections, Sections, MutexHeld, StatusKnown, Between,
           PublisherSections, Threads
  <1>1. ASSUME NEW p \in Publishers, PublisherStep(p)
        PROVE  HeadIsLast' /\ RestFollowsHead'
    <2>1. /\ \A q \in Publishers \ {p} : pc'[q] = pc[q] /\ job'[q] = job[q]
          /\ UNCHANGED link
          /\ pc'[p] \in {"rest", "update"} => job' = job
      BY <1>1, PublisherMoves DEF Threads
    <2>2. pc[p] \in {"head", "rest"} =>
            /\ \A q \in Publishers \ {p} : pc[q] # "rest"
            /\ link # "tcp"
      BY DEF Sections, MutexHeld, StatusKnown, Between, PublisherSections,
             Threads, Connections, HandshakeUnderWay
    <2>3. CASE pc[p] = "head" /\ pc'[p] = "rest" /\ Sends(HeadOf(p))
      <3>1. HeadOf(p)' = HeadOf(p)
        BY <2>1, <2>3 DEF HeadOf
      <3>2. HeadOf(p).type # "rest"
        BY DEF HeadOf
      <3> HIDE DEF HeadOf
      <3>3. CASE link = "up" /\ wire' = Append(wire, HeadOf(p))
        <4>1. wire' # <<>> /\ wire'[Len(wire')] = HeadOf(p)
          BY <1>0, <3>3
        <4>2. HeadIsLast'
          BY <2>1, <2>2, <2>3, <3>1, <4>1 DEF HeadIsLast
        <4>3. RestFollowsHead'
          BY <1>0, <3>2, <3>3, AppendedIsWhole
        <4> QED
          BY <4>2, <4>3
      <3>4. CASE link = "broken" /\ wire' = wire
        BY <1>0, <2>1, <3>4 DEF HeadIsLast, RestFollowsHead
      <3> QED
        BY <2>2, <2>3, <3>3, <3>4 DEF Sends
    <2>4. CASE pc[p] = "rest" /\ pc'[p] = "update" /\ Sends(RestOf(p))
      <3>1. \A q \in Publishers : pc'[q] # "rest"
        BY <2>1, <2>2, <2>4
      <3>2. HeadIsLast'
        BY <3>1 DEF HeadIsLast
      <3>3. CASE link = "up" /\ wire' = Append(wire, RestOf(p))
        <4>1. wire # <<>> /\ wire[Len(wire)] = HeadOf(p)
          BY <1>0, <2>4, <3>3 DEF HeadIsLast
        <4>2. HeadOf(p) = [RestOf(p) EXCEPT !.type = "head"]
          BY DEF HeadOf, RestOf
        <4> HIDE DEF HeadOf, RestOf
        <4>3. RestFollowsHead'
          BY <1>0, <3>3, <4>1, <4>2, AppendedIsWhole
        <4> QED
          BY <3>2, <4>3
      <3>4. CASE wire' = wire
        BY <1>0, <3>2, <3>4 DEF RestFollowsHead
      <3> QED
        BY <2>2, <2>4, <3>3, <3>4 DEF Sends
    <2>5. CASE pc'[p] \notin {"rest", "update"} /\ wire' = wire
      BY <1>0, <2>1, <2>5 DEF HeadIsLast, RestFollowsHead, HeadOf
    <2> QED
      BY <1>1, <2>3, <2>4, <2>5, PublisherMoves
  <1>2. CASE ClientStep
    <2>1. (\A q \in Publishers : pc'[q] = pc[q]) /\ job' = job
      BY <1>2, ClientMoves
    <2>2. CASE UNCHANGED <<link, wire>>
      BY <1>0, <2>1, <2>2 DEF HeadIsLast, RestFollowsHead, HeadOf
    <2>3. CASE /\ pc[Client] \in {"connect", "close", "handshake"}
               /\ wire' \in {wire, <<>>}
      <3>1. \A q \in Publishers : pc'[q] # "rest"
        BY <1>0, <2>1, <2>3 DEF Sections, StatusKnown
      <3> QED
        BY <1>0, <2>3, <3>1 DEF HeadIsLast, RestFollowsHead
    <2>4. CASE mutex = NoThread
      <3>1. \A q \in Publishers : pc'[q] # "rest"
        BY <1>0, <2>1, <2>4
      <3>2. ASSUME NEW packet \in [type : {"PUBREL"}, packetId : PacketIds]
                                    \cup [type : {"DISCONNECT", "torn"}],
                   Sends(packet)
            PROVE  RestFollowsHead'
        <4>1. packet.type # "rest"
          OBVIOUS
        <4> QED
          BY <1>0, <3>2, <4>1, AppendedIsWhole DEF Sends, RestFollowsHead
      <3> QED
        BY <1>2, <2>2, <2>3, <3>1, <3>2, ClientMoves DEF HeadIsLast
    <2> QED
      BY <1>2, <2>2, <2>3, <2>4, ClientMoves
  <1>3. CASE BrokerTakesPublish
    <2> DEFINE n == Len(wire)
    <2>1. /\ n \in Nat
          /\ n > 1
          /\ DOMAIN wire = 1..n
          /\ wire[2].type = "rest"
          /\ DOMAIN wire' = 1..(n - 2)
          /\ \A i \in 1..(n - 2) : wire'[i] = wire[i + 2]
          /\ Len(wire') = n - 2
      <3>1. n \in Nat /\ n > 1 /\ DOMAIN wire = 1..n
        BY <1>0, <1>3 DEF BrokerTakesPublish
      <3>2. wire' = SubSeq(wire, 3, n)
        BY <1>3 DEF BrokerTakesPublish
      <3>3. wire[1] \in Packet /\ wire[1].type = "head"
        BY <1>0, <1>3 DEF BrokerTakesPublish
      <3>4. wire[2].type = "rest"
        BY <1>3, <3>3 DEF BrokerTakesPublish, Packet
      <3> QED
        BY <1>0, <3>1, <3>2, <3>4
    <2>2. RestFollowsHead'
      <3> SUFFICES ASSUME NEW i \in 1..(n - 2), wire'[i].type = "rest"
                   PROVE  /\ i > 1
                          /\ wire'[i - 1] = [wire'[i] EXCEPT !.type = "head"]
        BY <2>1 DEF RestFollowsHead
      <3>1. wire[i + 1] = [wire[i + 2] EXCEPT !.type = "head"]
        <4>1. /\ i + 2 \in 1..n /\ wire'[i] = wire[i + 2]
              /\ i + 2 - 1 = i + 1
          BY <2>1
        <4>2. i + 2 \in DOMAIN wire /\ wire[i + 2].type = "rest"
          BY <2>1, <4>1
        <4>3. wire[i + 2 - 1] = [wire[i + 2] EXCEPT !.type = "head"]
          BY <1>0, <4>2 DEF RestFollowsHead
        <4> QED
          BY <4>1, <4>3
      <3>2. wire[i + 1].type = "head"
        <4>0. /\ i + 2 \in DOMAIN wire /\ wire'[i] = wire[i + 2]
              /\ wire \in Seq(Packet)
          BY <1>0, <2>1
        <4>1. wire[i + 2] \in Packet /\ wire[i + 2].type = "rest"
          <5>1. wire[i + 2] \in Packet
            BY <4>0
          <5> QED
            BY <4>0, <5>1
        <4> QED
          BY <3>1, <4>1 DEF Packet
      <3>3. i > 1
        BY <2>1, <3>2
      <3>4. i - 1 \in 1..(n - 2)
        BY <2>1, <3>3
      <3>5. wire'[i - 1] = wire[i + 1] /\ wire'[i] = wire[i + 2]
        BY <2>1, <3>4
      <3> QED
        BY <3>1, <3>3, <3>5
    <2>3. HeadIsLast'
      <3> SUFFICES ASSUME NEW p \in Publishers, pc'[p] = "rest", link' = "up"
                   PROVE  wire' # <<>> /\ wire'[Len(wire')] = HeadOf(p)'
        BY DEF HeadIsLast
      <3>1. wire[n] = HeadOf(p) /\ HeadOf(p)' = HeadOf(p)
        BY <1>0, <1>3 DEF BrokerTakesPublish, HeadIsLast, HeadOf
      <3>2. n # 2
        BY <2>1, <3>1 DEF HeadOf
      <3> HIDE DEF HeadOf
      <3> QED
        BY <2>1, <3>1, <3>2
    <2> QED
      BY <2>2, <2>3
  <1>4. CASE BrokerTakesPubrel
    <2> DEFINE n == Len(wire)
    <2>1. /\ n \in Nat
          /\ n > 0
          /\ DOMAIN wire = 1..n
          /\ wire[1].type = "PUBREL"
          /\ DOMAIN wire' = 1..(n - 1)
          /\ \A i \in 1..(n - 1) : wire'[i] = wire[i + 1]
          /\ Len(wire') = n - 1
      BY <1>0, <1>4 DEF BrokerTakesPubrel
    <2>2. RestFollowsHead'
      <3> SUFFICES ASSUME NEW i \in 1..(n - 1), wire'[i].type = "rest"
                   PROVE  /\ i > 1
                          /\ wire'[i - 1] = [wire'[i] EXCEPT !.type = "head"]
        BY <2>1 DEF RestFollowsHead
      <3>1. wire[i] = [wire[i + 1] EXCEPT !.type = "head"]
        BY <1>0, <2>1 DEF RestFollowsHead
      <3>2. wire[i].type = "head"
        <4>1. wire[i + 1] \in Packet /\ wire[i + 1].type = "rest"
          BY <1>0, <2>1
        <4> QED
          BY <3>1, <4>1 DEF Packet
      <3>3. i > 1
        BY <2>1, <3>2
      <3>4. i - 1 \in 1..(n - 1)
        BY <2>1, <3>3
      <3>5. wire'[i - 1] = wire[i] /\ wire'[i] = wire[i + 1]
        BY <2>1, <3>4
      <3> QED
        BY <3>1, <3>3, <3>5
    <2>3. HeadIsLast'
      <3> SUFFICES ASSUME NEW p \in Publishers, pc'[p] = "rest", link' = "up"
                   PROVE  wire' # <<>> /\ wire'[Len(wire')] = HeadOf(p)'
        BY DEF HeadIsLast
      <3>1. wire[n] = HeadOf(p) /\ HeadOf(p)' = HeadOf(p)
        BY <1>0, <1>4 DEF BrokerTakesPubrel, HeadIsLast, HeadOf
      <3>2. n # 1
        BY <2>1, <3>1 DEF HeadOf
      <3> HIDE DEF HeadOf
      <3> QED
        BY <2>1, <3>1, <3>2
    <2> QED
      BY <2>2, <2>3
  <1>5. CASE BrokerCloses \/ LinkBreaks
    BY <1>5 DEF BrokerCloses, LinkBreaks, HeadIsLast, RestFollowsHead
  <1>6. CASE UNCHANGED vars
    BY <1>0, <1>6 DEF vars, netVars, HeadIsLast, RestFollowsHead, HeadOf
  <1> QED
    BY <1>1, <1>2, <1>3, <1>4, <1>5, <1>6 DEF Next, BrokerStep

LEMMA NextIdentifier ==
  ASSUME MutexHooks, Types, Sections, IdentifierIsNext, [Next]_vars
  PROVE  IdentifierIsNext'
  <1> USE ThreadsAssumption DEF IdentifierIsNext, Types, Goto
  <1>0. \A p \in Publishers : pc[p] = "advance" => mutex = p
    BY DEF Sections, MutexHeld, Between, PublisherSections, Threads
  <1>1. ASSUME NEW p \in Publishers, PublisherStep(p)
        PROVE  IdentifierIsNext'
    <2>1. \A q \in Publishers \ {p} : pc'[q] = pc[q] /\ job'[q] = job[q]
      BY <1>1, PublisherMoves DEF Threads
    <2>2. CASE GetPacketId(p)
      BY <2>1, <2>2 DEF GetPacketId, NoJob, Threads, contextVars
    <2>3. CASE AdvancePacketId(p)
      BY <1>0, <2>1, <2>3 DEF AdvancePacketId, Threads
    <2>4. CASE \/ CheckConnection(p) \/ ReserveState(p)
               \/ SendHead(p) \/ SendRest(p) \/ SendTimesOut(p)
               \/ SendPublishFails(p) \/ CheckSendError(p)
               \/ SetDisconnectPending(p) \/ UpdateStatePublish(p)
               \/ PublishReturns(p)
      <3>1. pc'[p] # "advance" /\ nextPacketId' = nextPacketId
        BY <2>4
        DEF CheckConnection, ReserveState, SendHead, SendRest, SendTimesOut,
            SendPublishFails, CheckSendError, SetDisconnectPending,
            UpdateStatePublish, PublishReturns, Threads, contextVars
      <3> QED
        BY <2>1, <3>1
    <2> QED
      BY <1>1, <2>2, <2>3, <2>4 DEF PublisherStep
  <1>2. CASE ClientStep
    <2>1. (\A p \in Publishers : pc'[p] = pc[p]) /\ job' = job
      BY <1>2, ClientMoves
    <2>2. nextPacketId' = nextPacketId
      BY <1>2
      DEF ClientStep, TcpConnect, CheckNotConnected, Handshake,
          HandleCleanSession, SetConnected, ConnectFails, CloseSocket,
          ReceiveFails, KeepAliveTimesOut, HandlePublishAck, SendPubrel,
          SendPubrelFails, SendPubrelTimesOut, UpdateStatePubrel, Disconnect,
          contextVars
    <2> QED
      BY <2>1, <2>2
  <1>3. CASE BrokerStep \/ LinkBreaks \/ UNCHANGED vars
    <2>1. UNCHANGED <<nextPacketId, pc, job>>
      BY <1>3 DEF BrokerStep, LinkBreaks, vars, BrokerTakesPublish,
                  BrokerTakesPubrel, BrokerCloses, contextVars
    <2> QED
      BY <2>1
  <1> QED
    BY <1>1, <1>2, <1>3 DEF Next

LEMMA BaseInvariant == ASSUME MutexHooks PROVE Spec => []Base
  <1>1. Init => Base
    BY InitTypes, InitSections, InitConnections DEF Base
  <1>2. Base /\ [Next]_vars => Base'
    BY MutexHooks, NextTypes, NextSections, NextNothingUnderWay,
       NextWholePublish, NextIdentifier DEF Base, Connections
  <1> QED
    BY <1>1, <1>2, PTL DEF Spec

-----------------------------------------------------------------------------
(* What follows from it.                                                   *)

\* With the mutex MQTT_Connect never finds a context that is still taken
\* for connected.
THEOREM StartsDisconnected ==
  ASSUME MutexHooks PROVE Spec => []ConnectStartsDisconnected
  <1>1. Base => ConnectStartsDisconnected
    BY DEF Base, Sections, StatusKnown, ConnectStartsDisconnected
  <1> QED
    BY <1>1, BaseInvariant, PTL

\* With the mutex nothing is sent on a new connection before CONNECT.
THEOREM NothingBeforeConnect ==
  ASSUME MutexHooks PROVE Spec => []ConnectComesFirst
  <1>1. Base => ConnectComesFirst
    BY DEF Base, Connections, HandshakeUnderWay, NothingUnderWay,
           ClientSections, ConnectComesFirst
  <1> QED
    BY <1>1, BaseInvariant, PTL

\* With the mutex the two parts of a PUBLISH follow each other on the wire,
\* whatever the other threads send.
THEOREM WholePublishes ==
  ASSUME MutexHooks PROVE Spec => []RestFollowsHead
  <1>1. Base => RestFollowsHead
    BY DEF Base, Connections
  <1> QED
    BY <1>1, BaseInvariant, PTL

LEMMA NextInTurn ==
  ASSUME NEW id \in PacketIds
  PROVE  (id % UINT16_MAX) + 1 = IF id = UINT16_MAX THEN 1 ELSE id + 1
  <1>1. UINT16_MAX \in Nat \ {0} /\ id \in 1..UINT16_MAX
    BY IdentifiersAssumption
  <1>2. CASE id = UINT16_MAX
    <2>1. UINT16_MAX % UINT16_MAX = 0
      BY <1>1
    <2> QED
      BY <1>1, <1>2, <2>1
  <1>3. CASE id # UINT16_MAX
    <2>1. id \in 0..(UINT16_MAX - 1)
      BY <1>1, <1>3
    <2>2. id % UINT16_MAX = id
      BY <1>1, <2>1
    <2> QED
      BY <1>1, <1>3, <2>2
  <1> QED
    BY <1>2, <1>3

\* With the mutex MQTT_GetPacketId gives every caller an identifier of its
\* own, each the successor of the one before.
THEOREM IdentifiersInTurn ==
  ASSUME MutexHooks PROVE Spec => PacketIdsInTurn
  <1> DEFINE InTurn ==
        \A p \in Publishers :
          pc[p] = "advance" /\ pc'[p] = "publish" =>
            nextPacketId' = (job[p].packetId % UINT16_MAX) + 1
  <1>1. ASSUME Base, [Next]_vars
        PROVE  InTurn
    <2> SUFFICES ASSUME NEW p \in Publishers,
                        pc[p] = "advance", pc'[p] = "publish"
                 PROVE  nextPacketId' = (job[p].packetId % UINT16_MAX) + 1
      OBVIOUS
    <2>1. /\ job[p].packetId = nextPacketId
          /\ nextPacketId \in PacketIds
          /\ pc \in [Threads -> PublisherPlaces \cup ClientPlaces]
      BY <1>1 DEF Base, IdentifierIsNext, Types
    <2>2. AdvancePacketId(p)
      <3>1. \A q \in Publishers : q # p /\ PublisherStep(q) => pc'[p] = pc[p]
        BY <1>1, PublisherMoves DEF Base, Threads
      <3>2. ClientStep => pc'[p] = pc[p]
        BY <1>1, ClientMoves DEF Base
      <3>3. BrokerStep \/ LinkBreaks \/ UNCHANGED vars => pc' = pc
        BY DEF BrokerStep, LinkBreaks, BrokerTakesPublish, BrokerTakesPubrel,
               BrokerCloses, vars
      <3>4. PublisherStep(p)
        BY <1>1, <3>1, <3>2, <3>3 DEF Next
      <3> QED
        BY <3>4
        DEF PublisherStep, GetPacketId, AdvancePacketId, CheckConnection,
            ReserveState, SendHead, SendRest, SendTimesOut, SendPublishFails,
            CheckSendError, SetDisconnectPending, UpdateStatePublish,
            PublishReturns
    <2> QED
      BY <2>1, <2>2, NextInTurn DEF AdvancePacketId
  <1>2. Spec => [][InTurn]_vars
    BY <1>1, BaseInvariant, PTL DEF Spec
  <1> QED
    BY <1>2 DEF PacketIdsInTurn

-----------------------------------------------------------------------------
(* Packets about a publish, and its record.                                *)

Carriers == OneCarrier /\ CarriersFit

\* What is true of a publish that is on its way stays true.
Stays ==
  \A id \in PacketIds :
    /\ \A q \in {1, 2} : Sent(id, q) => Sent(id, q)'
    /\ Released(id) => Released(id)'

LEMMA StillFits ==
  ASSUME Stays, NEW packet \in Packet \cup Reply, Fits(packet)
  PROVE  Fits(packet)'
  <1>1. /\ packet.type = "rest" => packet.qos \in {1, 2}
        /\ packet.type \in {"rest", "Puback", "Pubrec", "PUBREL", "Pubcomp"} =>
             packet.packetId \in PacketIds
    BY DEF Packet, Reply
  <1> QED
    BY <1>1 DEF Stays, Fits

\* Of the packets on their way, one at most is about a publish.
LEMMA BearersMeet ==
  ASSUME Carriers, NEW id \in PacketIds,
         NEW i \in DOMAIN wire, Bears(wire[i], id),
         NEW j \in DOMAIN wire, Bears(wire[j], id)
  PROVE  i = j
  BY DEF Carriers, OneCarrier

LEMMA AnswersMeet ==
  ASSUME Carriers, NEW i \in DOMAIN replies, NEW j \in DOMAIN replies,
         replies[i].packetId = replies[j].packetId
  PROVE  i = j
  BY DEF Carriers, OneCarrier

LEMMA AnswersAreNotBorne ==
  ASSUME Carriers, NEW i \in DOMAIN wire, NEW j \in DOMAIN replies
  PROVE  ~Bears(wire[i], replies[j].packetId)
  BY DEF Carriers, OneCarrier

\* Packets are read, in their order, or lost.
LEMMA CarriersRead ==
  ASSUME Types, Types', Carriers, NEW k \in Nat, NEW m \in Nat,
         \A packet \in Packet \cup Reply :
           UnderWay(packet)' /\ Fits(packet) => Fits(packet)',
         \A i \in DOMAIN wire' :
           i + k \in DOMAIN wire /\ wire'[i] = wire[i + k],
         \A i \in DOMAIN replies' :
           i + m \in DOMAIN replies /\ replies'[i] = replies[i + m]
  PROVE  Carriers'
  <1>1. /\ wire \in Seq(Packet) /\ wire' \in Seq(Packet)
        /\ replies \in Seq(Reply) /\ replies' \in Seq(Reply)
        /\ DOMAIN wire' \subseteq Nat /\ DOMAIN replies' \subseteq Nat
    <2>1. /\ wire \in Seq(Packet) /\ wire' \in Seq(Packet)
          /\ replies \in Seq(Reply) /\ replies' \in Seq(Reply)
      BY DEF Types
    <2> QED
      BY <2>1
  <1>2. OneCarrier'
    <2>1. ASSUME NEW id \in PacketIds,
                 NEW i \in DOMAIN wire', NEW j \in DOMAIN wire',
                 Bears(wire'[i], id), Bears(wire'[j], id)
          PROVE  i = j
      <3>0. /\ i + k \in DOMAIN wire /\ Bears(wire[i + k], id)
            /\ j + k \in DOMAIN wire /\ Bears(wire[j + k], id)
        BY <2>1
      <3>1. i + k = j + k
        BY <3>0, BearersMeet
      <3> QED
        BY <1>1, <3>1
    <2>2. ASSUME NEW i \in DOMAIN replies', NEW j \in DOMAIN replies',
                 replies'[i].packetId = replies'[j].packetId
          PROVE  i = j
      <3>1. i + m = j + m
        BY <2>2 DEF Carriers, OneCarrier
      <3> QED
        BY <1>1, <3>1
    <2>3. ASSUME NEW i \in DOMAIN wire', NEW j \in DOMAIN replies'
          PROVE  ~Bears(wire'[i], replies'[j].packetId)
      BY DEF Carriers, OneCarrier
    <2> QED
      BY <2>1, <2>2, <2>3 DEF OneCarrier, Bears
  <1>3. CarriersFit'
    <2>1. \A packet : UnderWay(packet)' => UnderWay(packet)
      BY DEF UnderWay
    <2> QED
      BY <2>1 DEF Carriers, CarriersFit
  <1> QED
    BY <1>2, <1>3 DEF Carriers

\* The case that nothing is read.
LEMMA CarriersSame ==
  ASSUME Types, Types', Carriers, Stays, UNCHANGED <<wire, replies>>
  PROVE  Carriers'
  <1>1. 0 \in Nat
    OBVIOUS
  <1>2. \A i \in DOMAIN wire' : i + 0 \in DOMAIN wire /\ wire'[i] = wire[i + 0]
    <2>1. wire \in Seq(Packet)
      BY DEF Types
    <2> QED
      BY <2>1
  <1>3. \A i \in DOMAIN replies' :
          i + 0 \in DOMAIN replies /\ replies'[i] = replies[i + 0]
    <2>1. replies \in Seq(Reply)
      BY DEF Types
    <2> QED
      BY <2>1
  <1> QED
    BY <1>1, <1>2, <1>3, StillFits, CarriersRead

LEMMA CarriersNone ==
  ASSUME wire' = <<>>, replies' = <<>>
  PROVE  Carriers'
  BY DEF Carriers, OneCarrier, CarriersFit, UnderWay

\* A packet is sent about a publish that nothing else is about.
LEMMA CarriersSent ==
  ASSUME Types, Types', Carriers, Stays, replies' = replies,
         NEW packet \in Packet, wire' = Append(wire, packet),
         Fits(packet)',
         \A id \in PacketIds : Bears(packet, id) => ~Carrier(id)
  PROVE  Carriers'
  <1> DEFINE n == Len(wire)
  <1>1. /\ wire \in Seq(Packet) /\ replies \in Seq(Reply)
        /\ n \in Nat
        /\ DOMAIN wire = 1..n
        /\ DOMAIN wire' = 1..(n + 1)
        /\ \A i \in 1..n : wire'[i] = wire[i]
        /\ wire'[n + 1] = packet
    <2>1. wire \in Seq(Packet) /\ replies \in Seq(Reply)
      BY DEF Types
    <2> QED
      BY <2>1
  <1> HIDE DEF n
  <1>2. \A j \in DOMAIN replies : replies[j].packetId \in PacketIds
    <2>1. \A j \in DOMAIN replies : replies[j] \in Reply
      BY <1>1
    <2> QED
      BY <2>1 DEF Reply
  <1>3. OneCarrier'
    <2>1. ASSUME NEW id \in PacketIds, NEW i \in 1..(n + 1), NEW j \in 1..(n + 1),
                 Bears(wire'[i], id), Bears(wire'[j], id)
          PROVE  i = j
      <3>1. CASE i \in 1..n /\ j \in 1..n
        BY <1>1, <2>1, <3>1 DEF Carriers, OneCarrier
      <3>2. CASE i = n + 1 /\ j \in 1..n
        BY <1>1, <2>1, <3>2 DEF Carrier
      <3>3. CASE j = n + 1 /\ i \in 1..n
        BY <1>1, <2>1, <3>3 DEF Carrier
      <3>4. n \in Nat
        BY <1>1
      <3> QED
        BY <3>1, <3>2, <3>3, <3>4
    <2>2. ASSUME NEW i \in 1..(n + 1), NEW j \in DOMAIN replies
          PROVE  ~Bears(wire'[i], replies[j].packetId)
      <3>1. CASE i \in 1..n
        BY <1>1, <3>1 DEF Carriers, OneCarrier
      <3>2. CASE i = n + 1
        BY <1>1, <1>2, <3>2 DEF Carrier
      <3> QED
        BY <1>1, <3>1, <3>2
    <2> QED
      BY <1>1, <2>1, <2>2 DEF Carriers, OneCarrier, Bears
  <1>4. CarriersFit'
    <2>1. \A other : UnderWay(other)' => UnderWay(other) \/ other = packet
      BY <1>1 DEF UnderWay
    <2> QED
      BY <2>1, StillFits DEF Carriers, CarriersFit
  <1> QED
    BY <1>3, <1>4 DEF Carriers

\* The broker answers a packet: its answer takes the packet's place.
LEMMA CarriersAnswered ==
  ASSUME Types, Types', Carriers, Stays,
         NEW k \in DOMAIN wire, NEW id \in PacketIds, Bears(wire[k], id),
         \A i \in DOMAIN wire' :
           i + k \in DOMAIN wire /\ wire'[i] = wire[i + k],
         NEW ack \in Reply, ack.packetId = id, Fits(ack)',
         replies' = Append(replies, ack)
  PROVE  Carriers'
  <1> DEFINE m == Len(replies)
  <1>1. /\ wire \in Seq(Packet) /\ wire' \in Seq(Packet)
        /\ replies \in Seq(Reply)
        /\ m \in Nat /\ k \in Nat /\ k > 0
        /\ DOMAIN wire' \subseteq Nat \ {0}
        /\ DOMAIN replies = 1..m
        /\ DOMAIN replies' = 1..(m + 1)
        /\ \A i \in 1..m : replies'[i] = replies[i]
        /\ replies'[m + 1] = ack
    <2>1. wire \in Seq(Packet) /\ wire' \in Seq(Packet)
          /\ replies \in Seq(Reply)
      BY DEF Types
    <2> QED
      BY <2>1
  <1> HIDE DEF m
  <1>2. \A j \in 1..m : replies[j].packetId # id
    BY <1>1 DEF Carriers, OneCarrier
  <1>3. \A i \in DOMAIN wire' : ~Bears(wire'[i], id)
    <2> SUFFICES ASSUME NEW i \in DOMAIN wire', Bears(wire'[i], id)
                 PROVE  FALSE
      OBVIOUS
    <2>1. i + k \in DOMAIN wire /\ Bears(wire[i + k], id)
      OBVIOUS
    <2>2. i + k = k
      BY <2>1, BearersMeet
    <2> QED
      BY <1>1, <2>2
  <1>4. OneCarrier'
    <2>1. ASSUME NEW x \in PacketIds,
                 NEW i \in DOMAIN wire', NEW j \in DOMAIN wire',
                 Bears(wire'[i], x), Bears(wire'[j], x)
          PROVE  i = j
      <3>0. /\ i + k \in DOMAIN wire /\ Bears(wire[i + k], x)
            /\ j + k \in DOMAIN wire /\ Bears(wire[j + k], x)
        BY <2>1
      <3>1. i + k = j + k
        BY <3>0, BearersMeet
      <3> QED
        BY <1>1, <3>1
    <2>2. ASSUME NEW i \in 1..(m + 1), NEW j \in 1..(m + 1),
                 replies'[i].packetId = replies'[j].packetId
          PROVE  i = j
      <3>1. CASE i \in 1..m /\ j \in 1..m
        BY <1>1, <2>2, <3>1, AnswersMeet
      <3>2. CASE i = m + 1 /\ j \in 1..m
        BY <1>1, <1>2, <2>2, <3>2
      <3>3. CASE j = m + 1 /\ i \in 1..m
        BY <1>1, <1>2, <2>2, <3>3
      <3> QED
        BY <1>1, <3>1, <3>2, <3>3
    <2>3. ASSUME NEW i \in DOMAIN wire', NEW j \in 1..(m + 1)
          PROVE  ~Bears(wire'[i], replies'[j].packetId)
      <3>1. CASE j \in 1..m
        <4>1. /\ i + k \in DOMAIN wire /\ wire'[i] = wire[i + k]
              /\ replies'[j] = replies[j]
          BY <1>1, <3>1
        <4> QED
          BY <1>1, <3>1, <4>1, AnswersAreNotBorne
      <3>2. CASE j = m + 1
        BY <1>1, <1>3, <3>2
      <3> QED
        BY <1>1, <3>1, <3>2
    <2> QED
      BY <1>1, <2>1, <2>2, <2>3 DEF OneCarrier, Bears
  <1>5. CarriersFit'
    <2>1. \A packet : UnderWay(packet)' => UnderWay(packet) \/ packet = ack
      BY <1>1 DEF UnderWay
    <2> QED
      BY <2>1, StillFits DEF Carriers, CarriersFit
  <1> QED
    BY <1>4, <1>5 DEF Carriers

-----------------------------------------------------------------------------
(* The records a thread is working on, and what the others work on.        *)

InSend == {"head", "rest", "update"}

LEMMA Alone ==
  ASSUME Base
  PROVE  /\ \A p, q \in Publishers :
              pc[p] \in PublisherSections /\ pc[q] \in PublisherSections =>
                p = q
         /\ mutex = NoThread =>
              \A p \in Publishers : pc[p] \notin PublisherSections
         /\ InSend \subseteq PublisherSections
  BY ThreadsAssumption
  DEF Base, Sections, MutexHeld, Between, Threads, InSend, PublisherSections

\* The states tell what a record is waiting for.
LEMMA FlightsDiffer ==
  ASSUME NEW q, NEW r \in {1, 2}
  PROVE  /\ At(q, "PublishSend") # At(r, Pending(r))
         /\ At(q, "PublishSend") # At(2, "PubRelSend")
         /\ At(q, "PublishSend") # At(2, "PubCompPending")
         /\ At(q, "PublishSend") # At(0, "StateNull")
         /\ At(2, "PubRelSend") # At(r, Pending(r))
         /\ At(2, "PubRelSend") # At(2, "PubCompPending")
         /\ At(2, "PubRelSend") # At(0, "StateNull")
         /\ At(2, "PubCompPending") # At(r, Pending(r))
         /\ At(2, "PubCompPending") # At(0, "StateNull")
         /\ At(r, Pending(r)) # At(0, "StateNull")
  BY DEF At, Pending

\* Nothing is on its way about a publish that has not been sent, and
\* nothing about one whose PUBREL is to be sent.
LEMMA NotUnderWay ==
  ASSUME Base, Exchange, NEW id \in PacketIds,
         \A q \in {1, 2} : ~Sent(id, q), ~Released(id)
  PROVE  ~Carrier(id)
  <1>1. wire \in Seq(Packet) /\ replies \in Seq(Reply)
    BY DEF Base, Types
  <1>2. ASSUME NEW i \in DOMAIN wire, Bears(wire[i], id)
        PROVE  FALSE
    <2>1. wire[i] \in Packet /\ UnderWay(wire[i])
      BY <1>1 DEF UnderWay
    <2>2. Fits(wire[i])
      BY <2>1 DEF Exchange, CarriersFit
    <2>3. wire[i].type = "rest" => wire[i].qos \in {1, 2}
      BY <2>1, PacketFields
    <2> QED
      BY <1>2, <2>2, <2>3 DEF Fits, Bears
  <1>3. ASSUME NEW i \in DOMAIN replies, replies[i].packetId = id
        PROVE  FALSE
    <2>1. replies[i] \in Reply /\ UnderWay(replies[i])
      BY <1>1 DEF UnderWay
    <2>2. Fits(replies[i])
      BY <2>1 DEF Exchange, CarriersFit
    <2> QED
      BY <1>3, <2>1, <2>2 DEF Fits, Reply
  <1> QED
    BY <1>2, <1>3 DEF Carrier

LEMMA ReservedIsNotUnderWay ==
  ASSUME Base, Exchange, NEW p \in Publishers, pc[p] \in {"head", "rest"}
  PROVE  ~Carrier(job[p].packetId)
  <1> DEFINE id == job[p].packetId
  <1>1. Record(id) = At(job[p].qos, "PublishSend")
    BY DEF Exchange, RecordsInWork
  <1>2. id \in PacketIds
    BY DEF Base, Types
  <1> HIDE DEF id
  <1>3. ASSUME NEW q \in {1, 2} PROVE ~Sent(id, q)
    <2>1. \A t \in Publishers : pc[t] # "update"
      BY Alone DEF InSend
    <2> QED
      BY <1>1, <2>1, FlightsDiffer DEF Sent
  <1>4. ~Released(id)
    <2>1. pc[Client] = "pubrelSent" => Record(released) = At(2, "PubRelSend")
      BY DEF Exchange, RecordsInWork
    <2> QED
      BY <1>1, <2>1, FlightsDiffer DEF Released
  <1> QED
    BY <1>2, <1>3, <1>4, NotUnderWay DEF id

LEMMA UnreleasedIsNotUnderWay ==
  ASSUME Base, Exchange, mutex = NoThread, pc[Client] = "pubrel"
  PROVE  ~Carrier(released)
  <1>1. Record(released) = At(2, "PubRelSend") /\ released \in PacketIds
    BY DEF Exchange, RecordsInWork, Base, Types
  <1>2. ASSUME NEW q \in {1, 2} PROVE ~Sent(released, q)
    <2>1. \A t \in Publishers : pc[t] # "update"
      BY Alone DEF InSend
    <2> QED
      BY <1>1, <2>1, FlightsDiffer DEF Sent
  <1>3. ~Released(released)
    BY <1>1, FlightsDiffer DEF Released
  <1> QED
    BY <1>1, <1>2, <1>3, NotUnderWay

\* The records, and the threads at work, are as before, save that a thread
\* may have come to send or may be through with sending.
LEMMA ExchangeStays ==
  ASSUME Exchange,
         \A id \in PacketIds : Record(id)' = Record(id),
         \A p \in Publishers :
           pc[p] = "update" => pc'[p] = "update" /\ job'[p] = job[p],
         pc[Client] = "pubrelSent" =>
           pc'[Client] = "pubrelSent" /\ released' = released
  PROVE  Stays
  <1>1. ASSUME NEW id \in PacketIds, NEW q \in {1, 2}, Sent(id, q)
        PROVE  Sent(id, q)'
    BY <1>1 DEF Sent
  <1>2. ASSUME NEW id \in PacketIds, Released(id)
        PROVE  Released(id)'
    BY <1>2 DEF Released
  <1> QED
    BY <1>1, <1>2 DEF Stays

-----------------------------------------------------------------------------
(* A publisher's step keeps the exchange.                                  *)

LEMMA InitExchange == Init => Exchange
  <1> SUFFICES ASSUME Init PROVE Exchange
    OBVIOUS
  <1>1. wire = <<>> /\ replies = <<>> /\ lastStatus = "Success"
    BY DEF Init
  <1>2. pc[Client] = "connect" /\ \A p \in Publishers : pc[p] = "idle"
    BY ThreadsAssumption DEF Init, Threads
  <1> QED
    BY <1>1, <1>2 DEF Exchange, OneCarrier, CarriersFit, UnderWay,
                      RecordsInWork, AcksMeetTheirRecords

\* What a publisher's step may change.
LEMMA PublisherRecords ==
  ASSUME Types, NEW p \in Publishers, PublisherStep(p)
  PROVE  \/ ReserveState(p)
         \/ UpdateStatePublish(p)
         \/ /\ outgoing' = outgoing
            /\ pc[p] # "update"
            /\ pc'[p] \in InSend =>
                 pc[p] \in {"head", "rest"} /\ job' = job
  <1> USE ThreadsAssumption
      DEF Types, Threads, Goto, InSend, contextVars
  <1>1. CASE GetPacketId(p) \/ AdvancePacketId(p)
    BY <1>1 DEF GetPacketId, AdvancePacketId
  <1>2. CASE CheckConnection(p)
    BY <1>2 DEF CheckConnection
  <1>3. CASE SendHead(p) \/ SendRest(p)
    BY <1>3 DEF SendHead, SendRest
  <1>4. CASE \/ SendTimesOut(p) \/ SendPublishFails(p) \/ CheckSendError(p)
             \/ SetDisconnectPending(p) \/ PublishReturns(p)
    BY <1>4 DEF SendTimesOut, SendPublishFails, CheckSendError,
                SetDisconnectPending, PublishReturns
  <1> QED
    BY <1>1, <1>2, <1>3, <1>4 DEF PublisherStep

\* MQTT_ReserveState makes a record where there is none, or none.
LEMMA ReservedRecord ==
  ASSUME PublishDup \subseteq {FALSE}, Base,
         NEW p \in Publishers, ReserveState(p)
  PROVE  \E id \in PacketIds, qos \in {1, 2} :
           /\ id = job[p].packetId
           /\ qos = job[p].qos
           /\ \A x \in PacketIds \ {id} : Record(x)' = Record(x)
           /\ \/ /\ pc' = [pc EXCEPT ![p] = "head"]
                 /\ Record(id) = At(0, "StateNull")
                 /\ Record(id)' = At(qos, "PublishSend")
              \/ /\ pc' = [pc EXCEPT ![p] = "release"]
                 /\ Record(id)' = Record(id)
  <1>1. PICK id \in PacketIds, qos \in {1, 2} :
          id = job[p].packetId /\ qos = job[p].qos /\ ~job[p].dup
    <2>1. pc[p] = "reserve" /\ job[p] \in Job
      BY DEF ReserveState, Base, Types
    <2> QED
      BY <2>1 DEF Job, Base, Types
  <1> DEFINE added == AddRecord(outgoing, id, qos, "PublishSend")
  <1>2. /\ outgoing' = added.records
        /\ pc' = [pc EXCEPT ![p] = IF added.status = "Success"
                                     THEN "head" ELSE "release"]
    BY <1>1 DEF ReserveState, Goto
  <1>3. /\ \A x \in PacketIds \ {id} :
             Flight(added.records, x) = Flight(outgoing, x)
        /\ IF added.status = "Success"
             THEN /\ Flight(outgoing, id) = At(0, "StateNull")
                  /\ Flight(added.records, id) = At(qos, "PublishSend")
             ELSE Flight(added.records, id) = Flight(outgoing, id)
    <2>1. Good(outgoing, OutgoingPublishCount, OutgoingFlights)
      BY DEF Base, Types
    <2>2. /\ qos \in MQTTQoS
          /\ "PublishSend" \in MQTTPublishState
          /\ At(qos, "PublishSend") \in OutgoingFlights
      BY DEF MQTTQoS, MQTTPublishState, OutgoingStates, OutgoingFlights
    <2> QED
      BY <2>1, <2>2, AddedRecord, ThreadsAssumption
  <1> HIDE DEF added
  <1>4. \A x : Record(x)' = Flight(added.records, x)
    BY <1>2 DEF Record
  <1>5. \A x \in PacketIds \ {id} : Record(x)' = Record(x)
    BY <1>3, <1>4 DEF Record
  <1>6. CASE added.status = "Success"
    <2>1. Record(id) = At(0, "StateNull") /\ Record(id)' = At(qos, "PublishSend")
      BY <1>3, <1>4, <1>6 DEF Record
    <2> QED
      BY <1>1, <1>2, <1>5, <1>6, <2>1
  <1>7. CASE added.status # "Success"
    <2>1. Record(id)' = Record(id)
      BY <1>3, <1>4, <1>7 DEF Record
    <2> QED
      BY <1>1, <1>2, <1>5, <1>7, <2>1
  <1> QED
    BY <1>6, <1>7

\* MQTT_UpdateStatePublish finds the record as MQTT_ReserveState left it.
LEMMA UpdatedRecord ==
  ASSUME Base, Exchange, NEW p \in Publishers, UpdateStatePublish(p)
  PROVE  \E id \in PacketIds, qos \in {1, 2} :
           /\ id = job[p].packetId
           /\ qos = job[p].qos
           /\ Record(id) = At(qos, "PublishSend")
           /\ Record(id)' = At(qos, Pending(qos))
           /\ \A x \in PacketIds \ {id} : Record(x)' = Record(x)
  <1>1. PICK id \in PacketIds, qos \in {1, 2} :
          id = job[p].packetId /\ qos = job[p].qos /\ pc[p] = "update"
    <2>1. pc[p] = "update" /\ job[p] \in Job
      BY DEF UpdateStatePublish, Base, Types
    <2> QED
      BY <2>1 DEF Job, Base, Types
  <1> DEFINE sent == UpdateSentPublish(outgoing, id, qos)
  <1>2. outgoing' = sent.records
    BY <1>1 DEF UpdateStatePublish
  <1>3. Record(id) = At(qos, "PublishSend")
    BY <1>1 DEF Exchange, RecordsInWork
  <1>4. /\ Flight(sent.records, id) = At(qos, Pending(qos))
        /\ \A x \in PacketIds \ {id} :
             Flight(sent.records, x) = Flight(outgoing, x)
    <2>1. Good(outgoing, OutgoingPublishCount, OutgoingFlights)
      BY DEF Base, Types
    <2>2. Flight(outgoing, id) = At(qos, "PublishSend")
      BY <1>3 DEF Record
    <2>3. CalculateStatePublish("SEND", qos) = Pending(qos)
      BY DEF CalculateStatePublish, Pending
    <2> QED
      BY <2>1, <2>2, <2>3, SentRecord, ThreadsAssumption
  <1> HIDE DEF sent
  <1>5. \A x : Record(x)' = Flight(sent.records, x)
    BY <1>2 DEF Record
  <1>6. /\ Record(id)' = At(qos, Pending(qos))
        /\ \A x \in PacketIds \ {id} : Record(x)' = Record(x)
    BY <1>4, <1>5 DEF Record
  <1> QED
    BY <1>1, <1>3, <1>6

LEMMA ReserveExchange ==
  ASSUME MutexHooks, PublishDup \subseteq {FALSE}, Base, Base', Exchange,
         NEW p \in Publishers, ReserveState(p)
  PROVE  Exchange'
  <1>1. PICK id \in PacketIds, qos \in {1, 2} :
          /\ id = job[p].packetId
          /\ qos = job[p].qos
          /\ \A x \in PacketIds \ {id} : Record(x)' = Record(x)
          /\ \/ /\ pc' = [pc EXCEPT ![p] = "head"]
                /\ Record(id) = At(0, "StateNull")
                /\ Record(id)' = At(qos, "PublishSend")
             \/ /\ pc' = [pc EXCEPT ![p] = "release"]
                /\ Record(id)' = Record(id)
    BY ReservedRecord
  <1>2. pc[p] = "reserve" /\ UNCHANGED <<job, released, lastStatus, wire, replies>>
    BY DEF ReserveState, clientVars, netVars
  <1>3. pc \in [Threads -> PublisherPlaces \cup ClientPlaces]
    BY DEF Base, Types
  <1>4. \A x \in PacketIds :
          Record(x) # At(0, "StateNull") => Record(x)' = Record(x)
    BY <1>1
  <1>5. \A q \in Publishers \ {p} : pc'[q] = pc[q] /\ pc[q] \notin InSend
    BY <1>1, <1>2, <1>3, Alone DEF Threads, PublisherSections, InSend
  <1>6. pc'[Client] = pc[Client]
    BY <1>1, <1>3, ThreadsAssumption DEF Threads
  <1>7. Stays
    <2>0. /\ At(2, "PubCompPending") # At(0, "StateNull")
          /\ \A q \in {1, 2} : At(q, Pending(q)) # At(0, "StateNull")
      BY FlightsDiffer
    <2>1. ASSUME NEW x \in PacketIds, NEW q \in {1, 2}, Sent(x, q)
          PROVE  Sent(x, q)'
      <3>1. Record(x) = At(q, Pending(q))
        BY <1>2, <1>5, <2>1 DEF Sent, InSend
      <3>2. Record(x)' = Record(x)
        BY <1>4, <2>0, <3>1
      <3> QED
        BY <3>1, <3>2 DEF Sent
    <2>2. ASSUME NEW x \in PacketIds, Released(x)
          PROVE  Released(x)'
      <3>1. CASE Record(x) = At(2, "PubCompPending")
        <4>1. Record(x)' = Record(x)
          BY <1>4, <2>0, <3>1
        <4> QED
          BY <3>1, <4>1 DEF Released
      <3>2. CASE pc[Client] = "pubrelSent" /\ released = x
        BY <1>2, <1>6, <3>2 DEF Released
      <3> QED
        BY <2>2, <3>1, <3>2 DEF Released
    <2> QED
      BY <2>1, <2>2 DEF Stays
  <1>8. Carriers'
    BY <1>2, <1>7, CarriersSame DEF Base, Exchange, Carriers
  <1>9. RecordsInWork'
    <2>1. ASSUME NEW q \in Publishers, pc'[q] \in InSend
          PROVE  Record(job[q].packetId)' = At(job'[q].qos, "PublishSend")
      <3>1. q = p
        BY <1>5, <2>1
      <3>2. Record(id)' = At(qos, "PublishSend")
        BY <1>1, <1>3, <2>1, <3>1 DEF InSend, Threads
      <3> QED
        BY <1>1, <1>2, <3>1, <3>2 DEF Record
    <2>2. ASSUME pc[Client] \in {"pubrel", "pubrelSent"}
          PROVE  Record(released)' = At(2, "PubRelSend")
      <3>1. released \in PacketIds /\ Record(released) = At(2, "PubRelSend")
        BY <2>2 DEF Base, Types, Exchange, RecordsInWork
      <3>2. At(2, "PubRelSend") # At(0, "StateNull")
        BY FlightsDiffer
      <3> QED
        BY <1>2, <1>4, <3>1, <3>2 DEF Record
    <2> QED
      BY <1>2, <1>6, <2>1, <2>2 DEF RecordsInWork, InSend, Record
  <1> QED
    BY <1>2, <1>8, <1>9 DEF Exchange, Carriers, AcksMeetTheirRecords

LEMMA UpdateExchange ==
  ASSUME Base, Base', Exchange, NEW p \in Publishers, UpdateStatePublish(p)
  PROVE  Exchange'
  <1>1. PICK id \in PacketIds, qos \in {1, 2} :
          /\ id = job[p].packetId
          /\ qos = job[p].qos
          /\ Record(id) = At(qos, "PublishSend")
          /\ Record(id)' = At(qos, Pending(qos))
          /\ \A x \in PacketIds \ {id} : Record(x)' = Record(x)
    BY UpdatedRecord
  <1>2. /\ pc' = [pc EXCEPT ![p] = "release"]
        /\ pc[p] = "update"
        /\ UNCHANGED <<job, released, lastStatus, wire, replies>>
    BY DEF UpdateStatePublish, Goto, clientVars, netVars
  <1>3. pc \in [Threads -> PublisherPlaces \cup ClientPlaces]
    BY DEF Base, Types
  <1>4. \A q \in Publishers \ {p} : pc'[q] = pc[q] /\ pc[q] \notin InSend
    BY <1>2, <1>3, Alone DEF Threads, PublisherSections, InSend
  <1>5. pc'[Client] = pc[Client]
    BY <1>2, <1>3, ThreadsAssumption DEF Threads
  <1>6. Stays
    <2>1. ASSUME NEW x \in PacketIds, NEW q \in {1, 2}, Sent(x, q)
          PROVE  Sent(x, q)'
      <3>1. CASE Record(x) = At(q, Pending(q))
        <4>1. At(qos, "PublishSend") # At(q, Pending(q))
          BY FlightsDiffer
        <4>2. Record(x)' = Record(x)
          BY <1>1, <3>1, <4>1
        <4> QED
          BY <3>1, <4>2 DEF Sent
      <3>2. CASE Record(x) # At(q, Pending(q))
        <4>1. x = id /\ q = qos
          BY <1>1, <1>4, <2>1, <3>2 DEF Sent, InSend
        <4> QED
          BY <1>1, <4>1 DEF Sent
      <3> QED
        BY <3>1, <3>2
    <2>2. ASSUME NEW x \in PacketIds, Released(x)
          PROVE  Released(x)'
      <3>1. CASE Record(x) = At(2, "PubCompPending")
        <4>1. At(qos, "PublishSend") # At(2, "PubCompPending")
          BY FlightsDiffer
        <4>2. Record(x)' = Record(x)
          BY <1>1, <3>1, <4>1
        <4> QED
          BY <3>1, <4>2 DEF Released
      <3>2. CASE pc[Client] = "pubrelSent" /\ released = x
        BY <1>2, <1>5, <3>2 DEF Released
      <3> QED
        BY <2>2, <3>1, <3>2 DEF Released
    <2> QED
      BY <2>1, <2>2 DEF Stays
  <1>7. Carriers'
    BY <1>2, <1>6, CarriersSame DEF Base, Exchange, Carriers
  <1>8. RecordsInWork'
    <2>1. \A q \in Publishers : pc'[q] \notin InSend
      BY <1>2, <1>3, <1>4 DEF InSend, Threads
    <2>2. ASSUME pc[Client] \in {"pubrel", "pubrelSent"}
          PROVE  Record(released)' = At(2, "PubRelSend")
      <3>1. released \in PacketIds /\ Record(released) = At(2, "PubRelSend")
        BY <2>2 DEF Base, Types, Exchange, RecordsInWork
      <3>2. At(qos, "PublishSend") # At(2, "PubRelSend")
        BY FlightsDiffer
      <3> QED
        BY <1>2, <1>1, <3>1, <3>2 DEF Record
    <2> QED
      BY <1>2, <1>5, <2>1, <2>2 DEF RecordsInWork, InSend, Record
  <1> QED
    BY <1>2, <1>7, <1>8 DEF Exchange, Carriers, AcksMeetTheirRecords

LEMMA PublisherExchange ==
  ASSUME MutexHooks, PublishDup \subseteq {FALSE}, Base, Base', Exchange,
         NEW p \in Publishers, PublisherStep(p)
  PROVE  Exchange'
  <1> SUFFICES ASSUME outgoing' = outgoing,
                      pc[p] # "update",
                      pc'[p] \in InSend => pc[p] \in {"head", "rest"} /\ job' = job
               PROVE  Exchange'
    BY PublisherRecords, ReserveExchange, UpdateExchange DEF Base
  <1>1. /\ \A t \in Threads \ {p} : pc'[t] = pc[t]
        /\ UNCHANGED <<link, replies, lastStatus, released>>
        /\ \/ pc[p] = "head" /\ pc'[p] = "rest" /\ Sends(HeadOf(p))
           \/ pc[p] = "rest" /\ pc'[p] = "update" /\ Sends(RestOf(p))
           \/ pc'[p] \notin {"rest", "update"} /\ wire' = wire
        /\ \A q \in Publishers \ {p} : job'[q] = job[q]
    BY PublisherMoves DEF Base
  <1>2. pc'[Client] = pc[Client]
    BY <1>1, ThreadsAssumption DEF Threads
  <1>3. Stays
    BY <1>1, <1>2, ExchangeStays DEF Threads, Record
  <1>4. RecordsInWork'
    BY <1>1, <1>2 DEF Exchange, RecordsInWork, Threads, InSend, Record
  <1>5. Carriers'
    <2>1. CASE wire' = wire
      BY <1>1, <1>3, <2>1, CarriersSame DEF Base, Exchange, Carriers
    <2>2. ASSUME pc[p] \in {"head", "rest"}
          PROVE  /\ job[p].packetId \in PacketIds
                 /\ job[p].qos \in {1, 2}
                 /\ HeadOf(p) \in Packet /\ RestOf(p) \in Packet
      <3>1. job[p].packetId \in PacketIds /\ job[p] \in Job
        BY <2>2 DEF Base, Types
      <3> QED
        BY <3>1 DEF Job, Packet, HeadOf, RestOf
    <2>3. CASE pc[p] = "head" /\ wire' = Append(wire, HeadOf(p))
      <3>1. PICK packet \in Packet : packet = HeadOf(p)
        BY <2>2, <2>3
      <3>2. packet.type = "head"
        BY <3>1 DEF HeadOf
      <3>3. Fits(packet)' /\ \A id : ~Bears(packet, id)
        BY <3>2 DEF Fits, Bears
      <3> QED
        BY <1>1, <1>3, <2>3, <3>1, <3>3, CarriersSent
        DEF Base, Exchange, Carriers
    <2>4. CASE /\ pc[p] = "rest" /\ pc'[p] = "update"
               /\ wire' = Append(wire, RestOf(p))
      <3>1. PICK packet \in Packet : packet = RestOf(p)
        BY <2>2, <2>4
      <3>2. /\ packet.type = "rest"
            /\ packet.packetId = job[p].packetId
            /\ packet.qos = job[p].qos
        BY <3>1 DEF RestOf
      <3>3. Fits(packet)'
        BY <2>4, <3>2 DEF Fits, Sent, InSend
      <3>4. \A id \in PacketIds : Bears(packet, id) => ~Carrier(id)
        BY <2>4, <3>2, ReservedIsNotUnderWay DEF Bears
      <3> QED
        BY <1>1, <1>3, <2>4, <3>1, <3>3, <3>4, CarriersSent
        DEF Base, Exchange, Carriers
    <2> QED
      BY <1>1, <2>1, <2>3, <2>4 DEF Sends
  <1> QED
    BY <1>1, <1>4, <1>5 DEF Exchange, Carriers, AcksMeetTheirRecords

-----------------------------------------------------------------------------
(* A step of the client task keeps the exchange.                           *)

\* What the record of an acknowledged publish becomes.
Acked(type) == IF type = "Pubrec" THEN At(2, "PubRelSend") ELSE At(0, "StateNull")

\* The acknowledgement at hand meets its record.
LEMMA AckMeetsRecord ==
  ASSUME MutexHooks, Base, Exchange, HandlePublishAck
  PROVE  \E ack \in Reply :
           /\ ack = Head(replies)
           /\ ack.packetId \in PacketIds
           /\ lastStatus' = "Success"
           /\ Record(ack.packetId) \in
                {At(1, "PubAckPending"), At(2, "PubRecPending"),
                 At(2, "PubCompPending")}
           /\ Record(ack.packetId)' = Acked(ack.type)
           /\ \A x \in PacketIds \ {ack.packetId} : Record(x)' = Record(x)
           /\ pc' = [pc EXCEPT ![Client] =
                       IF ack.type = "Pubrec" THEN "pubrel" ELSE "loop"]
           /\ ack.type = "Pubrec" => released' = ack.packetId
  <1>1. /\ mutex = NoThread
        /\ pc[Client] = "loop"
        /\ replies # <<>>
        /\ replies \in Seq(Reply)
    BY DEF HandlePublishAck, HookSection, Base, Types
  <1>2. PICK ack \in Reply : ack = Head(replies)
    BY <1>1
  <1>3. PICK id \in PacketIds, type \in {"Puback", "Pubrec", "Pubcomp"} :
          id = ack.packetId /\ type = ack.type
    BY DEF Reply
  <1> DEFINE updated == UpdateStateAck(outgoing, id, type, "RECEIVE")
             qos     == IF type = "Puback" THEN 1 ELSE 2
             state   == CASE type = "Puback"  -> "PubAckPending"
                          [] type = "Pubrec"  -> "PubRecPending"
                          [] type = "Pubcomp" -> "PubCompPending"
             new     == CalculateStateAck(type, "RECEIVE", qos)
  <1>4. Record(id) = At(qos, state)
    <2>1. Fits(ack)
      <3>1. UnderWay(ack)
        BY <1>1, <1>2 DEF UnderWay
      <3> QED
        BY <3>1 DEF Exchange, CarriersFit
    <2>2. \A p \in Publishers : pc[p] # "update"
      BY <1>1, Alone DEF InSend
    <2> QED
      BY <1>1, <1>3, <2>1, <2>2 DEF Fits, Sent, Released, Pending
  <1>5. /\ ValidTransitionAck(state, new)
        /\ new = IF type = "Pubrec" THEN "PubRelSend" ELSE "PublishDone"
    BY DEF ValidTransitionAck, AckTransitions, CalculateStateAck
  <1>6. /\ updated.status = "Success"
        /\ updated.state = new
        /\ Flight(updated.records, id) = Acked(type)
        /\ \A x \in PacketIds \ {id} :
             Flight(updated.records, x) = Flight(outgoing, x)
    <2>1. Good(outgoing, OutgoingPublishCount, OutgoingFlights)
      BY DEF Base, Types
    <2>2. Flight(outgoing, id) = At(qos, state)
      BY <1>4 DEF Record
    <2>3. type \in MQTTPubAckType /\ qos \in {1, 2}
      BY DEF MQTTPubAckType
    <2> HIDE DEF qos, state
    <2>4. /\ \A x \in PacketIds \ {id} :
               Flight(updated.records, x) = Flight(outgoing, x)
          /\ updated.status = "Success"
          /\ updated.state = new
          /\ Flight(updated.records, id) =
               IF new = "PublishDone" THEN At(0, "StateNull")
               ELSE At(qos, new)
      BY <1>5, <2>1, <2>2, <2>3, AckedRecord, ThreadsAssumption
    <2>5. type = "Pubrec" => qos = 2
      BY DEF qos
    <2> HIDE DEF updated, new
    <2> QED
      BY <1>5, <2>4, <2>5 DEF Acked
  <1> HIDE DEF new
  <1>7. /\ outgoing' = updated.records
        /\ lastStatus' = updated.status
        /\ released' = IF updated.state = "PubRelSend"
                         THEN id ELSE MQTT_PACKET_ID_INVALID
        /\ pc' = [pc EXCEPT ![Client] =
                    IF updated.status # "Success" THEN "disconnect"
                    ELSE IF updated.state = "PubRelSend" THEN "pubrel"
                    ELSE "loop"]
    BY <1>2, <1>3 DEF HandlePublishAck, Goto
  <1> HIDE DEF updated
  <1>8. \A x : Record(x)' = Flight(updated.records, x)
    BY <1>7 DEF Record
  <1>9. /\ Record(id)' = Acked(type)
        /\ \A x \in PacketIds \ {id} : Record(x)' = Record(x)
    BY <1>6, <1>8 DEF Record
  <1>10. /\ lastStatus' = "Success"
         /\ pc' = [pc EXCEPT ![Client] =
                     IF type = "Pubrec" THEN "pubrel" ELSE "loop"]
         /\ type = "Pubrec" => released' = id
    BY <1>5, <1>6, <1>7
  <1>11. Record(id) \in {At(1, "PubAckPending"), At(2, "PubRecPending"),
                         At(2, "PubCompPending")}
    BY <1>4
  <1> QED
    BY <1>2, <1>3, <1>9, <1>10, <1>11

LEMMA AckExchange ==
  ASSUME MutexHooks, Base, Base', Exchange, HandlePublishAck
  PROVE  Exchange'
  <1>1. PICK ack \in Reply :
          /\ ack = Head(replies)
          /\ ack.packetId \in PacketIds
          /\ lastStatus' = "Success"
          /\ Record(ack.packetId)' = Acked(ack.type)
          /\ \A x \in PacketIds \ {ack.packetId} : Record(x)' = Record(x)
          /\ pc' = [pc EXCEPT ![Client] =
                      IF ack.type = "Pubrec" THEN "pubrel" ELSE "loop"]
          /\ ack.type = "Pubrec" => released' = ack.packetId
    BY AckMeetsRecord
  <1>2. /\ mutex = NoThread
        /\ pc[Client] = "loop"
        /\ replies # <<>>
        /\ replies' = Tail(replies)
        /\ wire' = wire
        /\ job' = job
    BY DEF HandlePublishAck, HookSection, netVars
  <1>3. /\ \A p \in Publishers : pc[p] \notin InSend /\ pc'[p] = pc[p]
        /\ pc'[Client] = IF ack.type = "Pubrec" THEN "pubrel" ELSE "loop"
    <2>1. \A p \in Publishers : pc[p] \notin InSend
      BY <1>2, Alone
    <2>2. pc \in [Threads -> PublisherPlaces \cup ClientPlaces]
      BY DEF Base, Types
    <2> QED
      BY <1>1, <2>1, <2>2, ThreadsAssumption DEF Threads
  <1>4. /\ wire \in Seq(Packet) /\ replies \in Seq(Reply)
        /\ DOMAIN wire \subseteq Nat
        /\ DOMAIN replies' \subseteq Nat \ {0}
        /\ 1 \in DOMAIN replies /\ replies[1] = ack
        /\ \A i \in DOMAIN replies' :
             i + 1 \in DOMAIN replies /\ replies'[i] = replies[i + 1]
    <2>1. wire \in Seq(Packet) /\ replies \in Seq(Reply)
      BY DEF Base, Types
    <2> QED
      BY <1>1, <1>2, <2>1
  <1>5. /\ \A i \in DOMAIN wire : ~Bears(wire[i], ack.packetId)
        /\ \A i \in DOMAIN replies' : replies'[i].packetId # ack.packetId
    <2>1. OneCarrier
      BY DEF Exchange
    <2>2. \A i \in DOMAIN wire : ~Bears(wire[i], ack.packetId)
      BY <1>4, <2>1 DEF OneCarrier
    <2>3. ASSUME NEW i \in DOMAIN replies', replies'[i].packetId = ack.packetId
          PROVE  FALSE
      <3>1. i + 1 = 1
        BY <1>4, <2>1, <2>3 DEF OneCarrier
      <3> QED
        BY <1>4, <3>1
    <2> QED
      BY <2>2, <2>3
  <1>6. ASSUME NEW packet \in Packet \cup Reply, UnderWay(packet)', Fits(packet)
        PROVE  Fits(packet)'
    <2>1. packet.type \in {"rest", "PUBREL"} \/ packet \in Reply =>
            packet.packetId # ack.packetId
      <3>1. CASE \E i \in DOMAIN wire : wire[i] = packet
        <4>1. PICK i \in DOMAIN wire : wire[i] = packet
          BY <3>1
        <4>2. wire[i] \in Packet
          BY <1>4
        <4>3. packet.type \in {"rest", "head", "PUBREL", "DISCONNECT", "torn"}
          BY <4>1, <4>2 DEF Packet
        <4>4. packet \notin Reply
          BY <4>3 DEF Reply
        <4> QED
          BY <1>5, <4>1, <4>4 DEF Bears
      <3>2. CASE \E i \in DOMAIN replies' : replies'[i] = packet
        BY <1>5, <3>2
      <3> QED
        BY <1>2, <1>6, <3>1, <3>2 DEF UnderWay
    <2>2. packet.type \in {"Puback", "Pubrec", "Pubcomp"} => packet \in Reply
      BY DEF Packet
    <2>3. packet.type \in {"rest", "Puback", "Pubrec", "PUBREL", "Pubcomp"} =>
            packet.packetId \in PacketIds
      BY DEF Packet, Reply
    <2>4. packet.type \in {"rest", "Puback", "Pubrec", "PUBREL", "Pubcomp"} =>
            Record(packet.packetId)' = Record(packet.packetId)
      BY <1>1, <2>1, <2>2, <2>3
    <2> QED
      BY <1>2, <1>3, <1>6, <2>4 DEF Fits, Sent, Released, InSend
  <1>7. Carriers'
    <2>1. \A i \in DOMAIN wire' :
            i + 0 \in DOMAIN wire /\ wire'[i] = wire[i + 0]
      BY <1>2, <1>4
    <2>2. 0 \in Nat /\ 1 \in Nat
      OBVIOUS
    <2> QED
      BY <1>4, <1>6, <2>1, <2>2, CarriersRead DEF Base, Exchange, Carriers
  <1>8. RecordsInWork'
    BY <1>1, <1>3 DEF RecordsInWork, InSend, Acked, Record
  <1> QED
    BY <1>1, <1>7, <1>8 DEF Exchange, Carriers, AcksMeetTheirRecords

LEMMA PubrelSentRecord ==
  ASSUME Base, Exchange, UpdateStatePubrel
  PROVE  /\ released \in PacketIds
         /\ Record(released) = At(2, "PubRelSend")
         /\ lastStatus' = "Success"
         /\ pc' = [pc EXCEPT ![Client] = "loop"]
         /\ \A x \in PacketIds :
              Record(x)' = IF x = released THEN At(2, "PubCompPending")
                           ELSE Record(x)
  <1>1. pc[Client] = "pubrelSent"
    BY DEF UpdateStatePubrel
  <1>2. PICK id \in PacketIds : id = released
    BY <1>1 DEF Base, Types
  <1>3. Record(id) = At(2, "PubRelSend")
    BY <1>1, <1>2 DEF Exchange, RecordsInWork
  <1> DEFINE updated == UpdateStateAck(outgoing, id, "Pubrel", "SEND")
  <1>4. /\ updated.status = "Success"
        /\ Flight(updated.records, id) = At(2, "PubCompPending")
        /\ \A x \in PacketIds \ {id} :
             Flight(updated.records, x) = Flight(outgoing, x)
    <2>1. Good(outgoing, OutgoingPublishCount, OutgoingFlights)
      BY DEF Base, Types
    <2>2. Flight(outgoing, id) = At(2, "PubRelSend")
      BY <1>3 DEF Record
    <2>3. "Pubrel" \in MQTTPubAckType
      BY DEF MQTTPubAckType
    <2>4. /\ CalculateStateAck("Pubrel", "SEND", 2) = "PubCompPending"
          /\ ValidTransitionAck("PubRelSend", "PubCompPending")
      BY DEF CalculateStateAck, ValidTransitionAck, AckTransitions
    <2> QED
      BY <2>1, <2>2, <2>3, <2>4, AckedRecord, ThreadsAssumption
  <1>5. /\ outgoing' = updated.records
        /\ lastStatus' = updated.status
        /\ pc' = [pc EXCEPT ![Client] =
                    IF updated.status = "Success" THEN "loop" ELSE "disconnect"]
    BY <1>2 DEF UpdateStatePubrel, Goto
  <1> HIDE DEF updated
  <1>6. \A x : Record(x)' = Flight(updated.records, x)
    BY <1>5 DEF Record
  <1>7. \A x \in PacketIds :
          Record(x)' = IF x = id THEN At(2, "PubCompPending") ELSE Record(x)
    BY <1>4, <1>6 DEF Record
  <1> QED
    BY <1>2, <1>3, <1>4, <1>5, <1>7

LEMMA PubrelUpdateExchange ==
  ASSUME MutexHooks, Base, Base', Exchange, UpdateStatePubrel
  PROVE  Exchange'
  <1>1. /\ Record(released) = At(2, "PubRelSend")
        /\ lastStatus' = "Success"
        /\ pc' = [pc EXCEPT ![Client] = "loop"]
        /\ \A x \in PacketIds :
             Record(x)' = IF x = released THEN At(2, "PubCompPending")
                          ELSE Record(x)
    BY PubrelSentRecord
  <1>2. mutex = NoThread /\ UNCHANGED <<job, wire, replies>>
    BY DEF UpdateStatePubrel, HookSection, netVars
  <1>3. /\ \A p \in Publishers : pc[p] \notin InSend /\ pc'[p] = pc[p]
        /\ pc'[Client] = "loop"
    <2>1. \A p \in Publishers : pc[p] \notin InSend
      BY <1>2, Alone
    <2>2. pc \in [Threads -> PublisherPlaces \cup ClientPlaces]
      BY DEF Base, Types
    <2> QED
      BY <1>1, <2>1, <2>2, ThreadsAssumption DEF Threads
  <1>4. Stays
    <2>1. ASSUME NEW x \in PacketIds, NEW q \in {1, 2}, Sent(x, q)
          PROVE  Sent(x, q)'
      <3>1. Record(x) = At(q, Pending(q))
        BY <1>3, <2>1 DEF Sent, InSend
      <3>2. At(2, "PubRelSend") # At(q, Pending(q))
        BY FlightsDiffer
      <3>3. Record(x)' = Record(x)
        BY <1>1, <3>1, <3>2
      <3> QED
        BY <3>1, <3>3 DEF Sent
    <2>2. ASSUME NEW x \in PacketIds, Released(x)
          PROVE  Released(x)'
      <3>1. x = released \/ Record(x) = At(2, "PubCompPending")
        BY <2>2 DEF Released
      <3>2. Record(x)' = At(2, "PubCompPending")
        BY <1>1, <3>1
      <3> QED
        BY <3>2 DEF Released
    <2> QED
      BY <2>1, <2>2 DEF Stays
  <1>5. Carriers'
    BY <1>2, <1>4, CarriersSame DEF Base, Exchange, Carriers
  <1>6. RecordsInWork'
    BY <1>3 DEF RecordsInWork, InSend
  <1> QED
    BY <1>1, <1>5, <1>6 DEF Exchange, Carriers, AcksMeetTheirRecords

LEMMA SendPubrelExchange ==
  ASSUME MutexHooks, Base, Base', Exchange, SendPubrel
  PROVE  Exchange'
  <1>1. /\ mutex = NoThread
        /\ pc[Client] = "pubrel"
        /\ pc' = [pc EXCEPT ![Client] = "pubrelSent"]
        /\ Transmit([type |-> "PUBREL", packetId |-> released])
        /\ UNCHANGED <<outgoing, job, released, lastStatus, replies>>
    BY DEF SendPubrel, HookSection, Goto, contextVars, clientVars
  <1>2. pc \in [Threads -> PublisherPlaces \cup ClientPlaces]
    BY DEF Base, Types
  <1>3. /\ \A p \in Publishers : pc'[p] = pc[p]
        /\ pc'[Client] = "pubrelSent"
    BY <1>1, <1>2, ThreadsAssumption DEF Threads
  <1>4. Stays
    BY <1>1, <1>3, ExchangeStays DEF Record
  <1>5. RecordsInWork'
    BY <1>1, <1>3 DEF Exchange, RecordsInWork, Record
  <1>6. Carriers'
    <2>1. CASE wire' = wire
      BY <1>1, <1>4, <2>1, CarriersSame DEF Base, Exchange, Carriers
    <2>2. PICK packet \in Packet :
            packet = [type |-> "PUBREL", packetId |-> released]
      BY <1>1 DEF Base, Types, Packet
    <2>3. CASE wire' = Append(wire, packet)
      <3>1. Fits(packet)'
        BY <1>1, <1>3, <2>2 DEF Fits, Released
      <3>2. \A id \in PacketIds : Bears(packet, id) => ~Carrier(id)
        BY <1>1, <2>2, UnreleasedIsNotUnderWay DEF Bears
      <3> QED
        BY <1>1, <1>4, <2>3, <3>1, <3>2, CarriersSent
        DEF Base, Exchange, Carriers
    <2> QED
      BY <1>1, <2>1, <2>2, <2>3 DEF Transmit
  <1> QED
    BY <1>1, <1>5, <1>6 DEF Exchange, Carriers, AcksMeetTheirRecords

LEMMA CleanExchange ==
  ASSUME Base, HandleCleanSession, Exchange
  PROVE  Exchange'
  <1>1. /\ pc[Client] = "clean"
        /\ pc' = [pc EXCEPT ![Client] = "connected"]
        /\ UNCHANGED <<wire, replies, lastStatus>>
    BY DEF HandleCleanSession, Goto, clientVars, netVars
  <1>2. wire = <<>> /\ replies = <<>>
    BY <1>1 DEF Base, Connections, NothingUnderWay, ClientSections
  <1>3. \A p \in Publishers : pc[p] \notin InSend
    BY <1>1 DEF Base, Sections, StatusKnown, InSend, PublisherSections
  <1>4. RecordsInWork'
    <2>1. pc \in [Threads -> PublisherPlaces \cup ClientPlaces]
      BY DEF Base, Types
    <2> QED
      BY <1>1, <1>3, <2>1, ThreadsAssumption
      DEF RecordsInWork, InSend, Threads
  <1> QED
    BY <1>1, <1>2, <1>4, CarriersNone
    DEF Exchange, Carriers, AcksMeetTheirRecords

LEMMA ClientExchange ==
  ASSUME MutexHooks, Base, Base', Exchange, ClientStep
  PROVE  Exchange'
  <1>0. /\ \A p \in Publishers : pc'[p] = pc[p]
        /\ job' = job
        /\ pc \in [Threads -> PublisherPlaces \cup ClientPlaces]
    BY ClientMoves DEF Base, Types
  <1>1. ASSUME outgoing' = outgoing,
               pc[Client] # "pubrelSent",
               pc'[Client] \notin {"pubrel", "pubrelSent"},
               lastStatus' \notin {"IllegalState", "BadResponse"},
               Carriers'
        PROVE  Exchange'
    <2>1. RecordsInWork'
      BY <1>0, <1>1 DEF Exchange, RecordsInWork, Record
    <2> QED
      BY <1>1, <2>1 DEF Exchange, Carriers, AcksMeetTheirRecords
  <1>2. ASSUME outgoing' = outgoing, pc[Client] # "pubrelSent"
        PROVE  Stays
    BY <1>0, <1>2, ExchangeStays DEF Record
  <1>7. ASSUME outgoing' = outgoing, pc[Client] # "pubrelSent",
               replies' = replies,
               \/ wire' = wire
               \/ \E type \in {"DISCONNECT", "torn"} :
                    wire' = Append(wire, [type |-> type])
        PROVE  Carriers'
    <2>1. Stays
      BY <1>2, <1>7
    <2>2. CASE wire' = wire
      BY <1>7, <2>1, <2>2, CarriersSame DEF Base, Exchange, Carriers
    <2>3. ASSUME NEW type \in {"DISCONNECT", "torn"},
                 wire' = Append(wire, [type |-> type])
          PROVE  Carriers'
      <3>1. PICK packet \in Packet : packet = [type |-> type]
        BY DEF Packet
      <3>2. Fits(packet)' /\ \A id : ~Bears(packet, id)
        BY <3>1 DEF Fits, Bears
      <3> QED
        BY <1>7, <2>1, <2>3, <3>1, <3>2, CarriersSent
        DEF Base, Exchange, Carriers
    <2> QED
      BY <1>7, <2>2, <2>3
  <1>3. CASE TcpConnect \/ CloseSocket
    <2>1. /\ pc[Client] # "pubrelSent"
          /\ pc'[Client] \notin {"pubrel", "pubrelSent"}
          /\ UNCHANGED <<outgoing, lastStatus>>
          /\ wire' = <<>> /\ replies' = <<>>
      BY <1>0, <1>3, ThreadsAssumption
      DEF TcpConnect, CloseSocket, Goto, Threads, contextVars, clientVars
    <2> QED
      BY <1>1, <2>1, CarriersNone DEF Exchange, AcksMeetTheirRecords
  <1>4. CASE \/ CheckNotConnected \/ Handshake \/ SetConnected \/ ConnectFails
             \/ ReceiveFails \/ KeepAliveTimesOut \/ SendPubrelFails
    <2>1. /\ pc[Client] # "pubrelSent"
          /\ pc'[Client] \notin {"pubrel", "pubrelSent"}
          /\ UNCHANGED <<outgoing, wire, replies>>
          /\ lastStatus' \in {lastStatus, connectStatus, "Success",
                              "RecvFailed", "KeepAliveTimeout", "SendFailed"}
      BY <1>0, <1>4, ThreadsAssumption
      DEF CheckNotConnected, Handshake, SetConnected, ConnectFails,
          ReceiveFails, KeepAliveTimesOut, SendPubrelFails, Goto, Threads,
          contextVars, clientVars, netVars
    <2>2. lastStatus' \notin {"IllegalState", "BadResponse"}
      BY <2>1 DEF Base, Types, Exchange, AcksMeetTheirRecords
    <2>3. Carriers'
      BY <1>2, <2>1, CarriersSame DEF Base, Exchange, Carriers
    <2> QED
      BY <1>1, <2>1, <2>2, <2>3
  <1>5. CASE Disconnect
    <2>1. /\ pc[Client] # "pubrelSent"
          /\ pc'[Client] \notin {"pubrel", "pubrelSent"}
          /\ UNCHANGED <<outgoing, replies, lastStatus>>
      BY <1>0, <1>5, ThreadsAssumption
      DEF Disconnect, Goto, Threads, clientVars
    <2>2. \/ wire' = wire
          \/ wire' = Append(wire, [type |-> "DISCONNECT"])
          \/ wire' = Append(wire, [type |-> "torn"])
      BY <1>5
      DEF Disconnect, MQTT_Disconnect, TransmitIfAble, Transmit, CutShort
    <2>3. Carriers'
      BY <1>7, <2>1, <2>2
    <2> QED
      BY <1>1, <2>1, <2>3 DEF Exchange, AcksMeetTheirRecords
  <1>6. CASE SendPubrelTimesOut
    <2>1. /\ pc[Client] # "pubrelSent"
          /\ pc'[Client] \notin {"pubrel", "pubrelSent"}
          /\ UNCHANGED <<outgoing, replies>>
          /\ lastStatus' = "SendFailed"
      BY <1>0, <1>6, ThreadsAssumption
      DEF SendPubrelTimesOut, Goto, Threads, contextVars
    <2>2. wire' = wire \/ wire' = Append(wire, [type |-> "torn"])
      BY <1>6 DEF SendPubrelTimesOut, CutShort
    <2>3. Carriers'
      BY <1>7, <2>1, <2>2
    <2> QED
      BY <1>1, <2>1, <2>3
  <1> QED
    BY <1>3, <1>4, <1>5, <1>6, AckExchange, PubrelUpdateExchange,
       SendPubrelExchange, CleanExchange DEF ClientStep

-----------------------------------------------------------------------------
(* A step of the broker or the network keeps the exchange.                 *)

\* The broker takes the first k packets, the last of which it answers.
LEMMA TakesPublish ==
  ASSUME Base, BrokerTakesPublish
  PROVE  \E packet \in Packet, ack \in Reply :
           /\ 2 \in DOMAIN wire
           /\ packet = wire[2]
           /\ packet.type = "rest"
           /\ \A i \in DOMAIN wire' :
                i + 2 \in DOMAIN wire /\ wire'[i] = wire[i + 2]
           /\ \A i \in DOMAIN wire :
                i > 2 => i - 2 \in DOMAIN wire' /\ wire'[i - 2] = wire[i]
           /\ wire[1].type = "head"
           /\ ack.packetId = packet.packetId
           /\ ack.type = IF packet.qos = 1 THEN "Puback" ELSE "Pubrec"
           /\ replies' = Append(replies, ack)
  <1> DEFINE n == Len(wire)
  <1>1. /\ wire \in Seq(Packet) /\ n \in Nat /\ n > 1
        /\ wire' = SubSeq(wire, 3, n)
        /\ wire[1].type = "head"
        /\ wire[2] = [wire[1] EXCEPT !.type = "rest"]
    BY DEF Base, Types, BrokerTakesPublish
  <1>2. /\ 1 \in DOMAIN wire /\ 2 \in DOMAIN wire
        /\ \A i \in DOMAIN wire' :
             i + 2 \in DOMAIN wire /\ wire'[i] = wire[i + 2]
        /\ \A i \in DOMAIN wire :
             i > 2 => i - 2 \in DOMAIN wire' /\ wire'[i - 2] = wire[i]
    BY <1>1
  <1>3. PICK head \in Packet, packet \in Packet : head = wire[1] /\ packet = wire[2]
    BY <1>1, <1>2
  <1>4. /\ packet.type = "rest"
        /\ packet.packetId = head.packetId
        /\ packet.qos = head.qos
        /\ head.packetId \in PacketIds
    BY <1>1, <1>3 DEF Packet
  <1> DEFINE ack == [type     |-> IF head.qos = 1 THEN "Puback" ELSE "Pubrec",
                     packetId |-> head.packetId]
  <1>5. ack \in Reply
    BY <1>4 DEF Reply
  <1>6. replies' = Append(replies, ack)
    BY <1>3 DEF BrokerTakesPublish
  <1>7. /\ ack.packetId = packet.packetId
        /\ ack.type = IF packet.qos = 1 THEN "Puback" ELSE "Pubrec"
    BY <1>4
  <1> HIDE DEF ack
  <1> QED
    BY <1>1, <1>2, <1>3, <1>4, <1>5, <1>6, <1>7

LEMMA TakesPubrel ==
  ASSUME Base, BrokerTakesPubrel
  PROVE  \E packet \in Packet, ack \in Reply :
           /\ 1 \in DOMAIN wire
           /\ packet = wire[1]
           /\ packet.type = "PUBREL"
           /\ \A i \in DOMAIN wire' :
                i + 1 \in DOMAIN wire /\ wire'[i] = wire[i + 1]
           /\ \A i \in DOMAIN wire :
                i > 1 => i - 1 \in DOMAIN wire' /\ wire'[i - 1] = wire[i]
           /\ ack.packetId = packet.packetId
           /\ ack.type = "Pubcomp"
           /\ replies' = Append(replies, ack)
  <1>1. /\ wire \in Seq(Packet) /\ wire # <<>>
        /\ wire' = Tail(wire)
        /\ Head(wire).type = "PUBREL"
    BY DEF Base, Types, BrokerTakesPubrel
  <1>2. /\ 1 \in DOMAIN wire /\ Head(wire) = wire[1]
        /\ \A i \in DOMAIN wire' :
             i + 1 \in DOMAIN wire /\ wire'[i] = wire[i + 1]
        /\ \A i \in DOMAIN wire :
             i > 1 => i - 1 \in DOMAIN wire' /\ wire'[i - 1] = wire[i]
    BY <1>1
  <1>3. PICK packet \in Packet : packet = wire[1]
    BY <1>1, <1>2
  <1>4. packet.type = "PUBREL" /\ packet.packetId \in PacketIds
    BY <1>1, <1>2, <1>3 DEF Packet
  <1> DEFINE ack == [type |-> "Pubcomp", packetId |-> packet.packetId]
  <1>5. ack \in Reply
    BY <1>4 DEF Reply
  <1>6. replies' = Append(replies, ack)
    BY <1>2, <1>3 DEF BrokerTakesPubrel
  <1>7. ack.packetId = packet.packetId /\ ack.type = "Pubcomp"
    OBVIOUS
  <1> HIDE DEF ack
  <1> QED
    BY <1>2, <1>3, <1>4, <1>5, <1>6, <1>7

LEMMA BrokerExchange ==
  ASSUME Base, Base', Exchange, BrokerStep \/ LinkBreaks
  PROVE  Exchange'
  <1>1. UNCHANGED <<outgoing, pc, job, released, lastStatus>>
    BY DEF BrokerStep, LinkBreaks, BrokerTakesPublish, BrokerTakesPubrel,
           BrokerCloses, contextVars, clientVars
  <1>2. Stays
    BY <1>1, ExchangeStays DEF Record
  <1>3. RecordsInWork' /\ AcksMeetTheirRecords'
    BY <1>1 DEF Exchange, RecordsInWork, AcksMeetTheirRecords, Record
  <1>4. Carriers /\ Types /\ Types'
    BY DEF Exchange, Carriers, Base
  <1>5. CASE BrokerTakesPublish
    <2>1. PICK packet \in Packet, ack \in Reply :
            /\ 2 \in DOMAIN wire
            /\ packet = wire[2]
            /\ packet.type = "rest"
            /\ \A i \in DOMAIN wire' :
                 i + 2 \in DOMAIN wire /\ wire'[i] = wire[i + 2]
            /\ ack.packetId = packet.packetId
            /\ ack.type = IF packet.qos = 1 THEN "Puback" ELSE "Pubrec"
            /\ replies' = Append(replies, ack)
      BY <1>5, TakesPublish
    <2>2. Fits(packet)'
      <3>1. UnderWay(packet)
        BY <2>1 DEF UnderWay
      <3> QED
        BY <1>2, <1>4, <3>1, StillFits DEF Carriers, CarriersFit
    <2>3. Fits(ack)'
      <3>1. packet.qos \in {1, 2}
        BY <2>1, PacketFields
      <3> QED
        BY <2>1, <2>2, <3>1 DEF Fits
    <2>4. PICK id \in PacketIds : id = packet.packetId
      BY <2>1, PacketFields
    <2>5. Bears(wire[2], id) /\ ack.packetId = id
      BY <2>1, <2>4 DEF Bears
    <2>6. Carriers'
      BY <1>2, <1>4, <2>1, <2>3, <2>5, CarriersAnswered
    <2> QED
      BY <1>3, <2>6 DEF Exchange, Carriers
  <1>6. CASE BrokerTakesPubrel
    <2>1. PICK packet \in Packet, ack \in Reply :
            /\ 1 \in DOMAIN wire
            /\ packet = wire[1]
            /\ packet.type = "PUBREL"
            /\ \A i \in DOMAIN wire' :
                 i + 1 \in DOMAIN wire /\ wire'[i] = wire[i + 1]
            /\ ack.packetId = packet.packetId
            /\ ack.type = "Pubcomp"
            /\ replies' = Append(replies, ack)
      BY <1>6, TakesPubrel
    <2>2. Fits(ack)'
      <3>1. UnderWay(packet)
        BY <2>1 DEF UnderWay
      <3>2. Fits(packet)'
        BY <1>2, <1>4, <3>1, StillFits DEF Carriers, CarriersFit
      <3> QED
        BY <2>1, <3>2 DEF Fits
    <2>3. PICK id \in PacketIds : id = packet.packetId
      BY <2>1, PacketFields
    <2>4. Bears(wire[1], id) /\ ack.packetId = id
      BY <2>1, <2>3 DEF Bears
    <2>5. Carriers'
      BY <1>2, <1>4, <2>1, <2>2, <2>4, CarriersAnswered
    <2> QED
      BY <1>3, <2>5 DEF Exchange, Carriers
  <1>7. CASE BrokerCloses \/ LinkBreaks
    <2>1. wire' = <<>> /\ replies' = replies
      BY <1>7 DEF BrokerCloses, LinkBreaks
    <2>2. Carriers'
      <3>1. \A i \in DOMAIN wire' :
              i + 0 \in DOMAIN wire /\ wire'[i] = wire[i + 0]
        BY <2>1
      <3>2. \A i \in DOMAIN replies' :
              i + 0 \in DOMAIN replies /\ replies'[i] = replies[i + 0]
        <4>1. replies \in Seq(Reply)
          BY <1>4 DEF Types
        <4> QED
          BY <2>1, <4>1
      <3>3. 0 \in Nat
        OBVIOUS
      <3> QED
        BY <1>2, <1>4, <3>1, <3>2, <3>3, StillFits, CarriersRead
    <2> QED
      BY <1>3, <2>2 DEF Exchange, Carriers
  <1> QED
    BY <1>5, <1>6, <1>7 DEF BrokerStep

LEMMA NextExchange ==
  ASSUME MutexHooks, PublishDup \subseteq {FALSE},
         Base, Base', Exchange, [Next]_vars
  PROVE  Exchange'
  <1>1. CASE UNCHANGED vars
    <2>1. UNCHANGED <<outgoing, pc, job, released, lastStatus, wire, replies>>
      BY <1>1 DEF vars, contextVars, clientVars, netVars
    <2> QED
      BY <2>1 DEF Exchange, OneCarrier, CarriersFit, RecordsInWork, Bears,
                  UnderWay, Fits, Sent, Released, Record, AcksMeetTheirRecords
  <1> QED
    BY <1>1, PublisherExchange, ClientExchange, BrokerExchange DEF Next

LEMMA ExchangeInvariant ==
  ASSUME MutexHooks, PublishDup \subseteq {FALSE}
  PROVE  Spec => [](Base /\ Exchange)
  <1>1. Base /\ Base' /\ Exchange /\ [Next]_vars => Exchange'
    BY MutexHooks, PublishDup \subseteq {FALSE}, NextExchange
  <1> QED
    BY <1>1, BaseInvariant, InitExchange, PTL DEF Spec

\* With the mutex, and no publish marked as a duplicate, the receive loop
\* never meets an acknowledgement its record is not ready for, however long
\* the publisher takes from its last send to the update of the record.
THEOREM AcksMeetRecords ==
  ASSUME MutexHooks, PublishDup \subseteq {FALSE}
  PROVE  Spec => []AcksMeetTheirRecords
  <1>1. Exchange => AcksMeetTheirRecords
    BY DEF Exchange
  <1> QED
    BY <1>1, ExchangeInvariant, PTL

-----------------------------------------------------------------------------
(* While the connection lasts a waiting publish is on its way.             *)

LEMMA InitCarrying == Init => Carrying
  BY ThreadsAssumption
  DEF Init, Carrying, PendingIsCarried, WorkIsCarried, CleanStart, Alive

\* Nothing is taken from the wire or the replies, and what is sent is added.
LEMMA CarrierKept ==
  ASSUME Types, replies' = replies,
         NEW packet, wire' = wire \/ wire' = Append(wire, packet),
         NEW id, Carrier(id)
  PROVE  Carrier(id)'
  <1>1. \A i \in DOMAIN wire : i \in DOMAIN wire' /\ wire'[i] = wire[i]
    <2>1. wire \in Seq(Packet)
      BY DEF Types
    <2> QED
      BY <2>1
  <1>2. CASE \E i \in DOMAIN wire : Bears(wire[i], id)
    BY <1>1, <1>2 DEF Carrier, Bears
  <1>3. CASE \E i \in DOMAIN replies : replies[i].packetId = id
    BY <1>3 DEF Carrier
  <1> QED
    BY <1>2, <1>3 DEF Carrier

LEMMA CarrierOfSent ==
  ASSUME Types, NEW packet \in Packet, wire' = Append(wire, packet),
         NEW id, Bears(packet, id)
  PROVE  Carrier(id)'
  <1>1. Len(wire) + 1 \in DOMAIN wire' /\ wire'[Len(wire) + 1] = packet
    <2>1. wire \in Seq(Packet)
      BY DEF Types
    <2> QED
      BY <2>1
  <1> QED
    BY <1>1 DEF Carrier, Bears

\* The records are empty until the context is connected.
LEMMA NextCleanStart ==
  ASSUME MutexHooks, Base, CleanStart, [Next]_vars
  PROVE  CleanStart'
  <1>0. pc \in [Threads -> PublisherPlaces \cup ClientPlaces]
    BY DEF Base, Types
  <1>1. ASSUME NEW p \in Publishers, PublisherStep(p)
        PROVE  CleanStart'
    <2>1. pc'[Client] = pc[Client]
      BY <1>1, PublisherMoves, ThreadsAssumption DEF Base, Threads
    <2>2. CASE outgoing' = outgoing
      BY <2>1, <2>2 DEF CleanStart
    <2>3. CASE pc[p] \in {"reserve", "update"}
      <3>1. pc[Client] # "connected"
        BY <2>3 DEF Base, Sections, StatusKnown, PublisherSections
      <3> QED
        BY <2>1, <3>1 DEF CleanStart
    <2> QED
      BY <1>1, <2>2, <2>3, PublisherRecords
      DEF Base, ReserveState, UpdateStatePublish
  <1>2. CASE HandleCleanSession
    BY <1>2 DEF HandleCleanSession, CleanStart
  <1>3. CASE HandlePublishAck \/ UpdateStatePubrel
    <2>1. PICK step \in {"disconnect", "pubrel", "loop"} :
            pc' = [pc EXCEPT ![Client] = step]
      BY <1>3 DEF HandlePublishAck, UpdateStatePubrel, Goto
    <2> QED
      BY <1>0, <2>1 DEF CleanStart, Threads
  <1>4. CASE \/ TcpConnect \/ CheckNotConnected \/ Handshake \/ SetConnected
             \/ ConnectFails \/ CloseSocket \/ ReceiveFails
             \/ KeepAliveTimesOut \/ SendPubrel \/ SendPubrelFails
             \/ SendPubrelTimesOut \/ Disconnect
    BY <1>0, <1>4
    DEF TcpConnect, CheckNotConnected, Handshake, SetConnected, ConnectFails,
        CloseSocket, ReceiveFails, KeepAliveTimesOut, SendPubrel,
        SendPubrelFails, SendPubrelTimesOut, Disconnect, Goto, Threads,
        CleanStart
  <1>5. CASE BrokerStep \/ LinkBreaks \/ UNCHANGED vars
    <2>1. UNCHANGED <<outgoing, pc>>
      BY <1>5 DEF BrokerStep, LinkBreaks, vars, BrokerTakesPublish,
                  BrokerTakesPubrel, BrokerCloses, contextVars
    <2> QED
      BY <2>1 DEF CleanStart
  <1> QED
    BY <1>1, <1>2, <1>3, <1>4, <1>5 DEF Next, ClientStep

PendingStates == {"PubAckPending", "PubRecPending", "PubCompPending"}

\* A connection is brought to life by SetConnected only.
LEMMA ComesAlive ==
  ASSUME MutexHooks, Base, Base', [Next]_vars, Alive', ~Alive
  PROVE  SetConnected
  <1>1. ASSUME NEW p \in Publishers, PublisherStep(p)
        PROVE  FALSE
    <2>1. link' = link
      BY <1>1, PublisherMoves DEF Base
    <2>2. connectStatus' \in {connectStatus, "DisconnectPending"}
      BY <1>1
      DEF PublisherStep, GetPacketId, AdvancePacketId, CheckConnection,
          ReserveState, SendHead, SendRest, SendTimesOut, SendPublishFails,
          CheckSendError, SetDisconnectPending, UpdateStatePublish,
          PublishReturns, contextVars
    <2> QED
      BY <2>1, <2>2 DEF Alive
  <1>2. CASE Handshake
    <2>1. pc[Client] = "handshake" /\ connectStatus' = connectStatus
      BY <1>2 DEF Handshake, contextVars
    <2> QED
      BY <2>1 DEF Base, Sections, StatusKnown, Alive
  <1>3. CASE \/ TcpConnect \/ CheckNotConnected \/ HandleCleanSession
             \/ ConnectFails \/ CloseSocket \/ ReceiveFails
             \/ KeepAliveTimesOut \/ HandlePublishAck \/ SendPubrel
             \/ SendPubrelFails \/ SendPubrelTimesOut \/ UpdateStatePubrel
             \/ Disconnect
    BY <1>3
    DEF TcpConnect, CheckNotConnected, HandleCleanSession, ConnectFails,
        CloseSocket, ReceiveFails, KeepAliveTimesOut, HandlePublishAck,
        SendPubrel, SendPubrelFails, SendPubrelTimesOut, UpdateStatePubrel,
        Disconnect, MQTT_Disconnect, GiveUpConnection, contextVars, netVars, Alive
  <1>4. CASE BrokerStep \/ LinkBreaks \/ UNCHANGED vars
    BY <1>4 DEF BrokerStep, LinkBreaks, vars, BrokerTakesPublish,
                BrokerTakesPubrel, BrokerCloses, contextVars, netVars, Alive
  <1> QED
    BY <1>1, <1>2, <1>3, <1>4 DEF Next, ClientStep

LEMMA SetConnectedCarrying ==
  ASSUME Base, CleanStart, SetConnected
  PROVE  PendingIsCarried' /\ WorkIsCarried'
  <1>1. /\ pc[Client] = "connected"
        /\ pc' = [pc EXCEPT ![Client] = "loop"]
        /\ UNCHANGED <<outgoing, job, released>>
    BY DEF SetConnected, Goto, clientVars
  <1>2. outgoing = EmptyTable(OutgoingPublishCount)
    BY <1>1 DEF CleanStart
  <1>3. \A id \in PacketIds : Record(id)' = At(0, "StateNull")
    BY <1>1, <1>2, EmptyTableView, ThreadsAssumption DEF Record, Progress
  <1>4. \A id \in PacketIds :
          Record(id).state' \notin PendingStates \cup {"PubRelSend"}
    BY <1>3 DEF At, PendingStates
  <1>5. \A p \in Publishers : pc[p] # "update"
    BY <1>1 DEF Base, Sections, StatusKnown, PublisherSections
  <1>6. (\A p \in Publishers : pc'[p] # "update") /\ pc'[Client] = "loop"
    <2>1. pc \in [Threads -> PublisherPlaces \cup ClientPlaces]
      BY DEF Base, Types
    <2> QED
      BY <1>1, <1>5, <2>1, ThreadsAssumption DEF Threads
  <1>7. PendingIsCarried'
    BY <1>4 DEF PendingIsCarried, PendingStates
  <1>8. WorkIsCarried'
    BY <1>6 DEF WorkIsCarried
  <1> QED
    BY <1>7, <1>8

LEMMA PublisherCarrying ==
  ASSUME MutexHooks, PublishDup \subseteq {FALSE}, Base, Base', Exchange,
         PendingIsCarried, WorkIsCarried, Alive, Alive',
         NEW p \in Publishers, PublisherStep(p)
  PROVE  PendingIsCarried' /\ WorkIsCarried'
  <1>1. /\ \A t \in Threads \ {p} : pc'[t] = pc[t]
        /\ UNCHANGED <<link, replies, lastStatus, released>>
        /\ \/ pc[p] = "head" /\ pc'[p] = "rest" /\ Sends(HeadOf(p))
           \/ pc[p] = "rest" /\ pc'[p] = "update" /\ Sends(RestOf(p))
           \/ pc'[p] \notin {"rest", "update"} /\ wire' = wire
        /\ \A q \in Publishers \ {p} : job'[q] = job[q]
    BY PublisherMoves DEF Base
  <1>2. pc'[Client] = pc[Client]
    BY <1>1, ThreadsAssumption DEF Threads
  <1>3. ASSUME NEW id, Carrier(id)
        PROVE  Carrier(id)'
    <2>1. PICK packet : wire' = wire \/ wire' = Append(wire, packet)
      BY <1>1 DEF Sends
    <2> QED
      BY <1>1, <1>3, <2>1, CarrierKept DEF Base
  <1>4. ASSUME pc'[p] = "update"
        PROVE  Carrier(job[p].packetId)' /\ job'[p] = job[p]
    <2>1. /\ pc[p] = "rest"
          /\ wire' = Append(wire, RestOf(p))
          /\ job' = job
      BY <1>1, <1>4, PublisherMoves DEF Base, Sends, Alive
    <2>2. PICK packet \in Packet : packet = RestOf(p)
      <3>1. job[p].packetId \in PacketIds /\ job[p] \in Job
        BY <2>1 DEF Base, Types
      <3> QED
        BY <3>1 DEF Job, Packet, RestOf
    <2>3. Bears(packet, job[p].packetId)
      BY <2>2 DEF Bears, RestOf
    <2>4. \A id : Bears(packet, id) => Carrier(id)'
      BY <2>1, <2>2, CarrierOfSent DEF Base
    <2> QED
      BY <2>1, <2>3, <2>4 DEF Carrier
  <1>5. WorkIsCarried'
    <2>1. ASSUME NEW q \in Publishers, pc'[q] = "update"
          PROVE  Carrier(job[q].packetId)'
      <3>1. CASE q = p
        BY <1>4, <2>1, <3>1
      <3>2. CASE q # p
        <4>1. pc[q] = "update" /\ job'[q] = job[q]
          BY <1>1, <2>1, <3>2 DEF Threads
        <4>2. Carrier(job[q].packetId)
          BY <4>1 DEF WorkIsCarried
        <4>3. PICK id : id = job[q].packetId
          OBVIOUS
        <4>4. Carrier(id)'
          BY <1>3, <4>2, <4>3
        <4> QED
          BY <4>1, <4>3, <4>4 DEF Carrier
      <3> QED
        BY <3>1, <3>2
    <2>2. ASSUME pc[Client] = "pubrelSent"
          PROVE  Carrier(released)'
      <3>1. PICK id : id = released
        OBVIOUS
      <3>2. Carrier(id)'
        BY <1>3, <2>2, <3>1 DEF WorkIsCarried
      <3> QED
        BY <1>1, <3>1, <3>2 DEF Carrier
    <2> QED
      BY <1>2, <2>1, <2>2 DEF WorkIsCarried
  <1>6. ASSUME NEW id \in PacketIds
        PROVE  \/ Record(id)' = Record(id)
               \/ Record(id).state' = "PublishSend"
               \/ Record(id).state' \in PendingStates /\ Carrier(id)
    <2>1. CASE ReserveState(p)
      <3>1. \/ Record(id)' = Record(id)
            \/ \E qos \in {1, 2} : Record(id)' = At(qos, "PublishSend")
        BY <2>1, ReservedRecord
      <3> QED
        BY <3>1 DEF At
    <2>2. CASE UpdateStatePublish(p)
      <3>1. pc[p] = "update" /\ Carrier(job[p].packetId)
        BY <2>2 DEF UpdateStatePublish, WorkIsCarried
      <3>2. \/ Record(id)' = Record(id)
            \/ /\ id = job[p].packetId
               /\ \E qos \in {1, 2} : Record(id)' = At(qos, Pending(qos))
        BY <2>2, UpdatedRecord
      <3> QED
        BY <3>1, <3>2 DEF At, Pending, PendingStates
    <2>3. CASE outgoing' = outgoing
      BY <2>3 DEF Record
    <2> QED
      BY <2>1, <2>2, <2>3, PublisherRecords DEF Base
  <1>7. PendingIsCarried'
    <2> SUFFICES ASSUME NEW id \in PacketIds
                 PROVE  /\ Record(id).state' \in PendingStates => Carrier(id)'
                        /\ Record(id).state' = "PubRelSend" =>
                             PubrelInWork(id)'
      BY DEF PendingIsCarried, PendingStates
    <2> QED
      BY <1>1, <1>2, <1>3, <1>6
      DEF PendingIsCarried, PendingStates, PubrelInWork, PubrelGivenUp
  <1> QED
    BY <1>5, <1>7

LEMMA AckCarrying ==
  ASSUME MutexHooks, Base, Exchange,
         PendingIsCarried, Alive, HandlePublishAck
  PROVE  PendingIsCarried' /\ WorkIsCarried'
  <1>1. PICK ack \in Reply :
          /\ ack = Head(replies)
          /\ ack.packetId \in PacketIds
          /\ Record(ack.packetId)' = Acked(ack.type)
          /\ \A x \in PacketIds \ {ack.packetId} : Record(x)' = Record(x)
          /\ pc' = [pc EXCEPT ![Client] =
                      IF ack.type = "Pubrec" THEN "pubrel" ELSE "loop"]
          /\ ack.type = "Pubrec" => released' = ack.packetId
    BY AckMeetsRecord
  <1>2. /\ mutex = NoThread
        /\ pc[Client] = "loop"
        /\ replies # <<>>
        /\ replies' = Tail(replies)
        /\ wire' = wire
    BY DEF HandlePublishAck, HookSection, netVars
  <1>3. /\ \A p \in Publishers : pc[p] # "update" /\ pc'[p] = pc[p]
        /\ pc'[Client] = IF ack.type = "Pubrec" THEN "pubrel" ELSE "loop"
    <2>1. \A p \in Publishers : pc[p] # "update"
      BY <1>2, Alone DEF InSend
    <2>2. pc \in [Threads -> PublisherPlaces \cup ClientPlaces]
      BY DEF Base, Types
    <2> QED
      BY <1>1, <2>1, <2>2, ThreadsAssumption DEF Threads
  <1>4. ASSUME NEW id \in PacketIds, id # ack.packetId, Carrier(id)
        PROVE  Carrier(id)'
    <2>1. CASE \E i \in DOMAIN wire : Bears(wire[i], id)
      BY <1>2, <2>1 DEF Carrier, Bears
    <2>2. CASE \E i \in DOMAIN replies : replies[i].packetId = id
      <3>1. PICK i \in DOMAIN replies : replies[i].packetId = id
        BY <2>2
      <3>2. /\ replies[1] = ack
            /\ i # 1 => i - 1 \in DOMAIN replies' /\ replies'[i - 1] = replies[i]
        <4>1. replies \in Seq(Reply)
          BY DEF Base, Types
        <4> QED
          BY <1>1, <1>2, <3>1, <4>1
      <3> QED
        BY <1>4, <3>1, <3>2 DEF Carrier
    <2> QED
      BY <1>4, <2>1, <2>2 DEF Carrier
  <1>5. WorkIsCarried'
    BY <1>3 DEF WorkIsCarried
  <1>6. PendingIsCarried'
    <2> SUFFICES ASSUME NEW id \in PacketIds
                 PROVE  /\ Record(id).state' \in PendingStates => Carrier(id)'
                        /\ Record(id).state' = "PubRelSend" =>
                             PubrelInWork(id)'
      BY DEF PendingIsCarried, PendingStates
    <2>1. CASE id = ack.packetId
      <3>1. Record(id)' = Acked(ack.type)
        BY <1>1, <2>1
      <3> QED
        BY <1>1, <1>3, <2>1, <3>1 DEF Acked, At, PendingStates, PubrelInWork
    <2>2. CASE id # ack.packetId
      <3>1. Record(id)' = Record(id)
        BY <1>1, <2>2
      <3> QED
        BY <1>2, <1>4, <2>2, <3>1
        DEF PendingIsCarried, PendingStates, PubrelInWork, PubrelGivenUp
    <2> QED
      BY <2>1, <2>2
  <1> QED
    BY <1>5, <1>6

LEMMA ClientCarrying ==
  ASSUME MutexHooks, Base, Exchange, PendingIsCarried, WorkIsCarried,
         Alive, Alive', ClientStep
  PROVE  PendingIsCarried' /\ WorkIsCarried'
  <1>0. pc \in [Threads -> PublisherPlaces \cup ClientPlaces]
    BY DEF Base, Types
  <1>1. CASE SendPubrel
    <2>1. /\ pc[Client] = "pubrel"
          /\ pc' = [pc EXCEPT ![Client] = "pubrelSent"]
          /\ wire' = Append(wire, [type |-> "PUBREL", packetId |-> released])
          /\ UNCHANGED <<outgoing, job, released, replies>>
      BY <1>1 DEF SendPubrel, Transmit, Alive, Goto, contextVars, clientVars
    <2>2. /\ \A p \in Publishers : pc'[p] = pc[p]
          /\ pc'[Client] = "pubrelSent"
      BY <1>0, <2>1, ThreadsAssumption DEF Threads
    <2>3. PICK packet \in Packet :
            packet = [type |-> "PUBREL", packetId |-> released]
      BY <2>1 DEF Base, Types, Packet
    <2>4. ASSUME NEW id, Carrier(id) \/ id = released
          PROVE  Carrier(id)'
      <3>1. CASE Carrier(id)
        BY <2>1, <2>3, <3>1, CarrierKept DEF Base
      <3>2. CASE id = released
        BY <2>1, <2>3, <3>2, CarrierOfSent DEF Base, Bears
      <3> QED
        BY <2>4, <3>1, <3>2
    <2>5. PendingIsCarried'
      BY <2>1, <2>2, <2>4
      DEF PendingIsCarried, Record, PubrelInWork, PubrelGivenUp
    <2>6. WorkIsCarried'
      <3>1. job' = job /\ released' = released
        BY <2>1
      <3>2. ASSUME NEW p \in Publishers, pc'[p] = "update"
            PROVE  Carrier(job[p].packetId)'
        <4>1. PICK id : id = job[p].packetId
          OBVIOUS
        <4>2. Carrier(id)
          BY <2>2, <3>2, <4>1 DEF WorkIsCarried
        <4>3. Carrier(id)'
          BY <2>4, <4>2
        <4> QED
          BY <3>1, <4>1, <4>3 DEF Carrier
      <3>3. Carrier(released)'
        <4>1. PICK id : id = released
          OBVIOUS
        <4>2. Carrier(id)'
          BY <2>4, <4>1
        <4> QED
          BY <3>1, <4>1, <4>2 DEF Carrier
      <3> QED
        BY <2>2, <3>1, <3>2, <3>3 DEF WorkIsCarried, Carrier
    <2> QED
      BY <2>5, <2>6
  <1>2. CASE UpdateStatePubrel
    <2>1. /\ Record(released) = At(2, "PubRelSend")
          /\ pc' = [pc EXCEPT ![Client] = "loop"]
          /\ \A x \in PacketIds :
               Record(x)' = IF x = released THEN At(2, "PubCompPending")
                            ELSE Record(x)
      BY <1>2, PubrelSentRecord
    <2>2. /\ pc[Client] = "pubrelSent"
          /\ UNCHANGED <<job, wire, replies>>
      BY <1>2 DEF UpdateStatePubrel, netVars
    <2>3. /\ \A p \in Publishers : pc'[p] = pc[p]
          /\ pc'[Client] = "loop"
      BY <1>0, <2>1, ThreadsAssumption DEF Threads
    <2>4. \A id : Carrier(id)' <=> Carrier(id)
      BY <2>2 DEF Carrier, Bears
    <2>5. ASSUME NEW id \in PacketIds
          PROVE  /\ Record(id).state' \in PendingStates => Carrier(id)
                 /\ Record(id).state' # "PubRelSend"
      <3>1. CASE id = released
        BY <2>1, <2>2, <3>1 DEF WorkIsCarried, At
      <3>2. CASE id # released
        BY <2>1, <2>2, <3>2
        DEF PendingIsCarried, PendingStates, PubrelInWork, PubrelGivenUp
      <3> QED
        BY <3>1, <3>2
    <2>6. PendingIsCarried'
      BY <2>4, <2>5 DEF PendingIsCarried, PendingStates
    <2>7. WorkIsCarried'
      BY <2>2, <2>3 DEF WorkIsCarried, Carrier, Bears
    <2> QED
      BY <2>6, <2>7
  <1>3. CASE \/ TcpConnect \/ CheckNotConnected \/ Handshake
             \/ HandleCleanSession \/ SetConnected \/ ConnectFails
             \/ CloseSocket \/ ReceiveFails \/ SendPubrelFails \/ Disconnect
    <2>1. pc[Client] \in {"loop", "pubrel", "pubrelSent", "disconnect"}
      BY DEF Base, Sections, StatusKnown, Alive
    <2>2. CASE Disconnect
      BY <2>2 DEF Disconnect, MQTT_Disconnect, Alive
    <2> QED
      BY <1>3, <2>1, <2>2
      DEF TcpConnect, CheckNotConnected, Handshake, HandleCleanSession,
          SetConnected, ConnectFails, CloseSocket, ReceiveFails,
          SendPubrelFails, SendFails, Alive
  <1>4. CASE SendPubrelTimesOut
    <2>1. /\ pc[Client] = "pubrel"
          /\ pc' = [pc EXCEPT ![Client] = "disconnect"]
          /\ wire' = wire \/ wire' = Append(wire, [type |-> "torn"])
          /\ lastStatus' = "SendFailed"
          /\ UNCHANGED <<outgoing, job, released, replies>>
      BY <1>4 DEF SendPubrelTimesOut, CutShort, Goto, contextVars
    <2>2. /\ \A p \in Publishers : pc'[p] = pc[p]
          /\ pc'[Client] = "disconnect"
      BY <1>0, <2>1, ThreadsAssumption DEF Threads
    <2>3. ASSUME NEW id, Carrier(id)
          PROVE  Carrier(id)'
      BY <2>1, <2>3, CarrierKept DEF Base
    <2>4. PendingIsCarried'
      BY <2>1, <2>2, <2>3
      DEF PendingIsCarried, Record, PubrelInWork, PubrelGivenUp
    <2>5. ASSUME NEW id, NEW p \in Publishers, pc[p] = "update",
                 id = job[p].packetId
          PROVE  Carrier(id)'
      BY <2>3, <2>5 DEF WorkIsCarried
    <2>6. WorkIsCarried'
      BY <2>1, <2>2, <2>5 DEF WorkIsCarried, Carrier
    <2> QED
      BY <2>4, <2>6
  <1>5. CASE KeepAliveTimesOut
    <2>1. /\ pc[Client] = "loop"
          /\ pc' = [pc EXCEPT ![Client] = "disconnect"]
          /\ UNCHANGED <<outgoing, job, wire, replies>>
      BY <1>5 DEF KeepAliveTimesOut, Goto, contextVars, netVars
    <2>2. /\ \A p \in Publishers : pc'[p] = pc[p]
          /\ pc'[Client] = "disconnect"
      BY <1>0, <2>1, ThreadsAssumption DEF Threads
    <2>3. \A id : Carrier(id)' <=> Carrier(id)
      BY <2>1 DEF Carrier, Bears
    <2>4. \A id \in PacketIds : Record(id)' = Record(id) /\ ~PubrelInWork(id)
      BY <2>1 DEF Record, PubrelInWork, PubrelGivenUp
    <2>5. PendingIsCarried'
      BY <2>3, <2>4 DEF PendingIsCarried
    <2>6. WorkIsCarried'
      BY <2>1, <2>2 DEF WorkIsCarried, Carrier, Bears
    <2> QED
      BY <2>5, <2>6
  <1> QED
    BY <1>1, <1>2, <1>3, <1>4, <1>5, AckCarrying DEF ClientStep

LEMMA BrokerCarrying ==
  ASSUME Base, PendingIsCarried, WorkIsCarried, Alive, Alive',
         BrokerStep \/ LinkBreaks
  PROVE  PendingIsCarried' /\ WorkIsCarried'
  <1>1. UNCHANGED <<outgoing, pc, job, released, lastStatus>>
    BY DEF BrokerStep, LinkBreaks, BrokerTakesPublish, BrokerTakesPubrel,
           BrokerCloses, contextVars, clientVars
  <1>2. replies \in Seq(Reply) /\ wire \in Seq(Packet)
    BY DEF Base, Types
  <1>3. ASSUME NEW ack \in Reply, replies' = Append(replies, ack),
               NEW id, \/ ack.packetId = id
                       \/ \E i \in DOMAIN replies : replies[i].packetId = id
        PROVE  Carrier(id)'
    <2>1. /\ Len(replies) + 1 \in DOMAIN replies'
          /\ replies'[Len(replies) + 1] = ack
          /\ \A i \in DOMAIN replies :
               i \in DOMAIN replies' /\ replies'[i] = replies[i]
      BY <1>2, <1>3
    <2> QED
      BY <1>3, <2>1 DEF Carrier
  <1>4. ASSUME NEW id, Carrier(id)
        PROVE  Carrier(id)'
    <2>1. CASE BrokerTakesPublish
      <3>1. PICK packet \in Packet, ack \in Reply :
              /\ packet = wire[2]
              /\ \A i \in DOMAIN wire :
                   i > 2 => i - 2 \in DOMAIN wire' /\ wire'[i - 2] = wire[i]
              /\ wire[1].type = "head"
              /\ ack.packetId = packet.packetId
              /\ replies' = Append(replies, ack)
        BY <2>1, TakesPublish
      <3>2. CASE \E i \in DOMAIN replies : replies[i].packetId = id
        BY <1>3, <3>1, <3>2
      <3>3. CASE \E i \in DOMAIN wire : Bears(wire[i], id)
        <4>1. PICK i \in DOMAIN wire : Bears(wire[i], id)
          BY <3>3
        <4>2. i # 1
          BY <3>1, <4>1 DEF Bears
        <4>3. i = 2 \/ i > 2
          <5>1. i \in Nat \ {0}
            BY <1>2
          <5> QED
            BY <4>2, <5>1
        <4>4. CASE i = 2
          <5>1. ack.packetId = id
            BY <3>1, <4>1, <4>4 DEF Bears
          <5> QED
            BY <1>3, <3>1, <5>1
        <4>5. CASE i > 2
          BY <3>1, <4>1, <4>5 DEF Carrier, Bears
        <4> QED
          BY <4>3, <4>4, <4>5
      <3> QED
        BY <1>4, <3>2, <3>3 DEF Carrier
    <2>2. CASE BrokerTakesPubrel
      <3>1. PICK packet \in Packet, ack \in Reply :
              /\ packet = wire[1]
              /\ \A i \in DOMAIN wire :
                   i > 1 => i - 1 \in DOMAIN wire' /\ wire'[i - 1] = wire[i]
              /\ ack.packetId = packet.packetId
              /\ replies' = Append(replies, ack)
        BY <2>2, TakesPubrel
      <3>2. CASE \E i \in DOMAIN replies : replies[i].packetId = id
        BY <1>3, <3>1, <3>2
      <3>3. CASE \E i \in DOMAIN wire : Bears(wire[i], id)
        <4>1. PICK i \in DOMAIN wire : Bears(wire[i], id)
          BY <3>3
        <4>3. i = 1 \/ i > 1
          <5>1. i \in Nat \ {0}
            BY <1>2
          <5> QED
            BY <5>1
        <4>4. CASE i = 1
          <5>1. ack.packetId = id
            BY <3>1, <4>1, <4>4 DEF Bears
          <5> QED
            BY <1>3, <3>1, <5>1
        <4>5. CASE i > 1
          BY <3>1, <4>1, <4>5 DEF Carrier, Bears
        <4> QED
          BY <4>3, <4>4, <4>5
      <3> QED
        BY <1>4, <3>2, <3>3 DEF Carrier
    <2>3. CASE BrokerCloses \/ LinkBreaks
      BY <2>3 DEF BrokerCloses, LinkBreaks, Alive
    <2> QED
      BY <2>1, <2>2, <2>3 DEF BrokerStep
  <1>5. PendingIsCarried'
    BY <1>1, <1>4 DEF PendingIsCarried, Record, PubrelInWork, PubrelGivenUp
  <1>6. ASSUME NEW id, NEW p \in Publishers, pc[p] = "update",
               id = job[p].packetId
        PROVE  Carrier(id)'
    BY <1>4, <1>6 DEF WorkIsCarried
  <1>7. ASSUME NEW id, pc[Client] = "pubrelSent", id = released
        PROVE  Carrier(id)'
    BY <1>4, <1>7 DEF WorkIsCarried
  <1>8. WorkIsCarried'
    BY <1>1, <1>6, <1>7 DEF WorkIsCarried, Carrier
  <1> QED
    BY <1>5, <1>8

LEMMA NextCarrying ==
  ASSUME MutexHooks, PublishDup \subseteq {FALSE},
         Base, Base', Exchange, Carrying, [Next]_vars
  PROVE  Carrying'
  <1>1. CleanStart'
    BY NextCleanStart DEF Carrying
  <1>2. PendingIsCarried' /\ WorkIsCarried'
    <2>1. CASE ~Alive'
      BY <2>1 DEF PendingIsCarried, WorkIsCarried
    <2>2. CASE Alive' /\ ~Alive
      BY <2>2, ComesAlive, SetConnectedCarrying DEF Carrying
    <2>3. CASE Alive' /\ Alive
      <3>1. CASE UNCHANGED vars
        <4>1. UNCHANGED <<outgoing, pc, job, released, lastStatus, wire,
                          replies>>
          BY <3>1 DEF vars, contextVars, clientVars, netVars
        <4> QED
          BY <2>3, <4>1
          DEF Carrying, PendingIsCarried, WorkIsCarried, Carrier, Bears,
              Record, PubrelInWork, PubrelGivenUp
      <3> QED
        BY <2>3, <3>1, PublisherCarrying, ClientCarrying, BrokerCarrying
        DEF Carrying, Next
    <2> QED
      BY <2>1, <2>2, <2>3
  <1> QED
    BY <1>1, <1>2 DEF Carrying

\* The inductive invariant: with the mutex, and no publish marked as a
\* duplicate, the threads, the records and the packets stay consistent
\* whatever is sent, lost or cut short by MQTT_SEND_TIMEOUT_MS.
THEOREM Invariant ==
  ASSUME MutexHooks, PublishDup \subseteq {FALSE}
  PROVE  Spec => []IInv
  <1>1. Init => Base
    BY InitTypes, InitSections, InitConnections DEF Base
  <1>2. Base /\ [Next]_vars => Base'
    BY MutexHooks, NextTypes, NextSections, NextNothingUnderWay,
       NextWholePublish, NextIdentifier DEF Base, Connections
  <1>3. Init => IInv
    BY <1>1, InitExchange, InitCarrying DEF IInv
  <1>4. IInv /\ [Next]_vars => IInv'
    BY MutexHooks, PublishDup \subseteq {FALSE}, <1>2, NextExchange,
       NextCarrying DEF IInv
  <1> QED
    BY <1>3, <1>4, PTL DEF Spec

\* With the mutex, and no publish marked as a duplicate, a publish that
\* waits for the broker on a working connection has a packet about it on its
\* way, unless sendPublishAcks could not send its PUBREL in time: then the
\* next step of the client task is to disconnect.
THEOREM WaitingIsCarried ==
  ASSUME MutexHooks, PublishDup \subseteq {FALSE}
  PROVE  Spec => []WaitingPublishesAreCarried
  <1>1. IInv => WaitingPublishesAreCarried
    <2> SUFFICES ASSUME IInv, Alive, NEW id \in PacketIds, Waiting(outgoing, id)
                 PROVE  Carried(id) \/ PubrelGivenUp(id)
      BY DEF WaitingPublishesAreCarried, Alive
    <2>1. PICK i \in DOMAIN outgoing :
            /\ outgoing[i].packetId = id
            /\ outgoing[i].publishState \in WaitingStates
      BY DEF Waiting
    <2>2. /\ Good(outgoing, OutgoingPublishCount, OutgoingFlights)
          /\ i \in 1..OutgoingPublishCount
      BY <2>1 DEF IInv, Base, Types, Good
    <2>3. Record(id) = At(outgoing[i].qos, outgoing[i].publishState)
      BY <2>1, <2>2, FlightAt, ThreadsAssumption DEF Record
    <2>4. Record(id).state \in WaitingStates
      BY <2>1, <2>3 DEF At
    <2>5. \/ Carrier(id)
          \/ PubrelInWork(id)
      BY <2>4 DEF IInv, Carrying, PendingIsCarried, WaitingStates
    <2> QED
      BY <2>5 DEF Carried, Carrier, Bears, PubrelInWork
  <1> QED
    BY <1>1, Invariant, PTL
=============================================================================
