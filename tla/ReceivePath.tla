------------------------------ MODULE ReceivePath ------------------------------
(***************************************************************************)
(* The way from recv to the handlers: bytes arrive in any pieces, are kept *)
(* in the network buffer, cut into packets and handled one per call;       *)
(* packets larger than the buffer are read and thrown away.                *)
(*                                                                         *)
(* A transport either polls, as transport_interface.h wants it, or blocks  *)
(* as the recv of port.c does:                                             *)
(*   polling    0 when nothing has arrived, negative when the peer is gone *)
(*   blocking   waits while nothing has arrived, 0 when the peer has       *)
(*              closed, negative when the connection was reset             *)
(* MQTT_RECV_POLLING_TIMEOUT_MS is 0 (core_mqtt_config.h), so that a       *)
(* single 0 ends recvExact.                                                *)
(***************************************************************************)
EXTENDS Serializer

CONSTANTS
  BufferSize,     \* networkBuffer.size
  Packets,        \* what the broker may send, as bytes
  Faulty,         \* those of Packets that no broker may send
  Connacks,       \* how it may answer CONNECT
  MaxPackets      \* it sends so many on a connection

\* What the library makes of a whole packet: a header that it reads says how
\* long the packet is, and the rest is read as well.
Framed(packet) ==
  LET header == MQTT_ProcessIncomingPacketTypeAndLength(packet)
  IN  /\ header.status \in {"MQTTSuccess", "MQTTBadResponse"}
      /\ header.status = "MQTTSuccess" =>
           header.remainingLength = Len(packet) - header.headerLength

Readable(packet) ==
  LET header == MQTT_ProcessIncomingPacketTypeAndLength(packet)
      data == SubSeq(packet, header.headerLength + 1, Len(packet))
  IN  /\ header.status = "MQTTSuccess"
      /\ IF TypeBits(packet[1]) = MQTT_PACKET_TYPE_PUBLISH
           THEN deserializePublish(packet[1], data).status = "MQTTSuccess"
           ELSE /\ packet[1] \in PublishAcks \union
                     {MQTT_PACKET_TYPE_PINGRESP, MQTT_PACKET_TYPE_SUBACK,
                      MQTT_PACKET_TYPE_UNSUBACK}
                /\ MQTT_DeserializeAck(packet[1], data).status # "MQTTBadResponse"

\* Packets are whole, and the faulty ones are those the library cannot read.
ASSUME ReceiveAssumption ==
         /\ BufferSize \in Nat /\ BufferSize >= 5      \* a whole fixed header
         /\ MaxPackets \in Nat
         /\ \A packet \in Packets \union Connacks :
              packet \in Seq(0..255) /\ Framed(packet)
         /\ Faulty = {packet \in Packets : ~Readable(packet)}

VARIABLES
  transport,       \* "polling" or "blocking"
  link,            \* "down", "up", "closed" by the peer, or "reset"
  connectStatus,
  pc,              \* "idle", in "connect" (for CONNACK) or in "discard"
  inFlight,        \* the bytes recv will return
  buffer,          \* the first index bytes of the network buffer
  left,            \* what discardStoredPacket still has to read
  result,          \* the status of the last call
  answer,          \* the broker's to CONNECT: "none", "accepted" or "refused"
  sent,            \* the packets it sent since
  done             \* what has left the buffer since: [bytes, fate]

vars == <<transport, link, connectStatus, pc, inFlight, buffer, left, result,
          answer, sent, done>>

index == Len(buffer)
Behind(bytes, n) == SubSeq(bytes, n + 1, Len(bytes))

\* MQTTNeedMoreBytes asks for another call; MQTTNoDataAvailable is not returned.
IsError(status) == status \notin {"MQTTSuccess", "MQTTNeedMoreBytes"}

Init ==
  /\ transport \in {"polling", "blocking"}
  /\ link = "down" /\ connectStatus = "MQTTNotConnected" /\ pc = "idle"
  /\ inFlight = <<>> /\ buffer = <<>> /\ left = 0 /\ result = "MQTTSuccess"
  /\ answer = "none" /\ sent = <<>> /\ done = <<>>

------------------------------------------------------------------------------
(***************************************************************************)
(* The peer and the network.                                               *)
(***************************************************************************)
BrokerAnswers ==
  /\ link = "up" /\ pc = "connect" /\ answer = "none"
  /\ inFlight' \in Connacks
  /\ answer' = IF deserializeConnack(Behind(inFlight', 2)).status = "MQTTSuccess"
                 THEN "accepted" ELSE "refused"
  /\ UNCHANGED <<transport, link, connectStatus, pc, buffer, left, result,
                 sent, done>>

\* Once it has accepted; it need not wait until the CONNACK has been read.
BrokerSends ==
  /\ link = "up" /\ answer = "accepted"
  /\ Len(sent) < MaxPackets
  /\ \E packet \in Packets :
       /\ sent' = Append(sent, packet)
       /\ inFlight' = inFlight \o packet
  /\ UNCHANGED <<transport, link, connectStatus, pc, buffer, left, result,
                 answer, done>>

\* The last packet may have been sent in part.
LinkCloses ==
  /\ link = "up"
  /\ link' = "closed"
  /\ \E n \in 0..Len(inFlight) : inFlight' = SubSeq(inFlight, 1, n)
  /\ UNCHANGED <<transport, connectStatus, pc, buffer, left, result,
                 answer, sent, done>>

LinkResets ==
  /\ link = "up"
  /\ link' = "reset" /\ inFlight' = <<>>
  /\ UNCHANGED <<transport, connectStatus, pc, buffer, left, result,
                 answer, sent, done>>

\* What recv may return when bytes are on their way; nothing while it waits.
RecvFrom(bytes, request) ==
  CASE link = "reset" -> {-1}
    [] link # "reset" /\ bytes # <<>> ->
         (IF transport = "polling" THEN 0 ELSE 1)..Min({request, Len(bytes)})
    [] link # "reset" /\ bytes = <<>> ->
         IF link = "closed" THEN {IF transport = "polling" THEN -1 ELSE 0}
                            ELSE {0 : t \in {"polling"} \intersect {transport}}

\* After that many bytes recv returns 0, or an error: recvExact gives up.
recvExactStopsAt(n) == {0, -1} \intersect RecvFrom(Behind(inFlight, n), 1)

------------------------------------------------------------------------------
(***************************************************************************)
(* MQTT_Connect: CONNECT is sent, then exactly the CONNACK is read.        *)
(***************************************************************************)
Connect ==
  /\ link = "down"
  /\ link' = "up" /\ pc' = "connect"
  /\ answer' = "none" /\ sent' = <<>> /\ done' = <<>>
  /\ UNCHANGED <<transport, connectStatus, inFlight, buffer, left, result>>

\* bytes were received before recv stopped.
connackStatus(bytes, stop, cleanSession) ==
  LET header == MQTT_GetIncomingPacketTypeAndLength(bytes)
      data == Behind(bytes, BytesTaken(bytes))
      ack == MQTT_DeserializeAck(header.type, SubSeq(data, 1, header.remainingLength))
  IN  CASE bytes = <<>> -> IF stop = -1 THEN "MQTTRecvFailed" ELSE "MQTTNoDataAvailable"
        [] OTHER ->
             IF header.status # "MQTTSuccess" THEN header.status
             ELSE IF header.type # MQTT_PACKET_TYPE_CONNACK THEN "MQTTBadResponse"
             ELSE IF Len(data) < header.remainingLength THEN "MQTTRecvFailed"
             ELSE IF header.remainingLength > BufferSize   \* discardPacket
               THEN "MQTTNoDataAvailable"
             ELSE IF ack.status = "MQTTSuccess" /\ ack.sessionPresent /\ cleanSession
               THEN "MQTTBadResponse" ELSE ack.status

receiveConnack(cleanSession) ==
  /\ pc = "connect"
  /\ \E n \in 0..Len(inFlight) :
       LET bytes == SubSeq(inFlight, 1, n)
           whole == IF n = Len(inFlight) /\ n > 0 THEN {1} ELSE {}
       IN  \E stop \in whole \union recvExactStopsAt(n) :
             /\ result' = connackStatus(bytes, stop, cleanSession)
             /\ IF result' # "MQTTSuccess"
                  THEN UNCHANGED <<connectStatus, inFlight, buffer>>
                  ELSE /\ connectStatus' = "MQTTConnected"
                       /\ inFlight' = Behind(inFlight,
                            BytesTaken(bytes)
                              + MQTT_GetIncomingPacketTypeAndLength(bytes).remainingLength)
                       \* handleCleanSession, unless the broker resumes
                       /\ buffer' = IF bytes[3] = 1 THEN buffer ELSE <<>>
  /\ pc' = "idle"
  /\ UNCHANGED <<transport, link, left, answer, sent, done>>

\* The application gives a connection up when a call has failed.
Disconnect ==
  /\ pc = "idle" /\ link # "down" /\ IsError(result)
  /\ IF connectStatus = "MQTTNotConnected"
       THEN UNCHANGED <<connectStatus, buffer>>
       ELSE connectStatus' = "MQTTNotConnected" /\ buffer' = <<>>
  /\ link' = "down" /\ inFlight' = <<>>
  /\ result' = "MQTTSuccess"
  /\ UNCHANGED <<transport, pc, left, answer, sent, done>>

------------------------------------------------------------------------------
(***************************************************************************)
(* receiveSingleIteration: one recv, at most one packet.                   *)
(***************************************************************************)
\* mqttInit gives no table of incoming publishes.
handleIncomingPublish(type, data) ==
  LET read == deserializePublish(type, data)
  IN  {CASE read.status # "MQTTSuccess" -> read.status
         [] OTHER -> IF read.info.qos > 0 THEN "MQTTRecvFailed" ELSE "MQTTSuccess"}

\* Mutant: a refused subscription ends the connection.
handleIncomingAckRefused(type, data) ==
  LET status == MQTT_DeserializeAck(type, data).status
  IN  CASE type \in PublishAcks ->
             IF status = "MQTTSuccess" THEN {"MQTTSuccess", "MQTTBadResponse"}
                                       ELSE {status}
        [] type = MQTT_PACKET_TYPE_PINGRESP -> {status}
        [] OTHER -> {IF status = "MQTTServerRefused" THEN "MQTTBadResponse"
                                                     ELSE status}

\* The state engine may know no publish that this acknowledges (what answers
\* PUBREC and PUBREL is in MqttSession).
handleIncomingAck(type, data) ==
  LET status == MQTT_DeserializeAck(type, data).status
  IN  CASE type \in PublishAcks ->
             IF status = "MQTTSuccess" THEN {"MQTTSuccess", "MQTTBadResponse"}
                                       ELSE {status}
        [] type = MQTT_PACKET_TYPE_PINGRESP -> {status}
        [] type \in {MQTT_PACKET_TYPE_SUBACK, MQTT_PACKET_TYPE_UNSUBACK} ->
             {IF status = "MQTTServerRefused" THEN "MQTTSuccess" ELSE status}
        [] OTHER -> {"MQTTBadResponse"}

HandlePacket(header, bytes) ==
  LET total == header.headerLength + header.remainingLength
      data == SubSeq(bytes, header.headerLength + 1, total)
  IN  /\ result' \in IF TypeBits(header.type) = MQTT_PACKET_TYPE_PUBLISH
                       THEN handleIncomingPublish(header.type, data)
                       ELSE handleIncomingAck(header.type, data)
      /\ done' = Append(done, [bytes |-> SubSeq(bytes, 1, total), fate |-> "handled"])
      /\ buffer' = Behind(bytes, total)
      /\ UNCHANGED <<pc, left>>

\* Mutant: as if nothing of it had been received.
BytesToDiscardFromStart(header, bytes) ==
  header.headerLength + header.remainingLength

\* How much of a packet that is larger than the buffer has not been received.
BytesToDiscard(header, bytes) ==
  header.headerLength + header.remainingLength - Len(bytes)

DiscardPacket(header, bytes) ==
  /\ pc' = "discard"
  /\ left' = BytesToDiscard(header, bytes)
  /\ buffer' = bytes
  /\ UNCHANGED <<result, done>>

KeepBytes(status, bytes) ==
  /\ result' = status
  /\ buffer' = bytes
  /\ UNCHANGED <<pc, left, done>>

\* Mutant: what is in the buffer is looked at only when something arrived.
NothingReceived(received) == received = 0

NothingToProcess(received) == received = 0 /\ index = 0

ProcessBytes(received, bytes) ==
  LET header == MQTT_ProcessIncomingPacketTypeAndLength(bytes)
      total == header.headerLength + header.remainingLength
  IN  IF NothingToProcess(received) THEN KeepBytes("MQTTSuccess", bytes)
      ELSE IF header.status # "MQTTSuccess" THEN KeepBytes(header.status, bytes)
      ELSE IF total > BufferSize THEN DiscardPacket(header, bytes)
      ELSE IF total > Len(bytes) THEN KeepBytes("MQTTNeedMoreBytes", bytes)
      ELSE HandlePacket(header, bytes)

ConnectionFails ==
  connectStatus' = IF connectStatus = "MQTTConnected"
                     THEN "MQTTDisconnectPending" ELSE connectStatus

receiveSingleIteration(manageKeepAlive) ==
  /\ pc = "idle" /\ connectStatus # "MQTTNotConnected" /\ ~IsError(result)
  /\ \E received \in RecvFrom(inFlight, BufferSize - index) :
       \/ /\ received < 0
          /\ ConnectionFails
          /\ KeepBytes("MQTTRecvFailed", buffer)
          /\ UNCHANGED inFlight
       \/ /\ received >= 0
          /\ inFlight' = Behind(inFlight, received)
          /\ ProcessBytes(received, buffer \o SubSeq(inFlight, 1, received))
          /\ UNCHANGED connectStatus
       \* handleKeepAlive fails, with this or another error: no packet is handled
       \/ /\ received = 0 /\ manageKeepAlive
          /\ KeepBytes("MQTTKeepAliveTimeout", buffer)
          /\ UNCHANGED <<connectStatus, inFlight>>
  /\ UNCHANGED <<transport, link, answer, sent>>

MQTT_ProcessLoop == receiveSingleIteration(TRUE)
MQTT_ReceiveLoop == receiveSingleIteration(FALSE)

\* One recvExact of discardStoredPacket.
Discard ==
  /\ pc = "discard"
  /\ LET request == Min({BufferSize, left})
     IN  \/ /\ Len(inFlight) >= request
            /\ inFlight' = Behind(inFlight, request)
            /\ left' = left - request
            /\ IF left' > 0
                 THEN UNCHANGED <<pc, buffer, result, done>>
                 ELSE /\ pc' = "idle" /\ buffer' = <<>> /\ result' = "MQTTSuccess"
                      /\ done' = Append(done, [bytes |-> buffer, fate |-> "dropped"])
            /\ UNCHANGED connectStatus
         \/ /\ \E n \in 0..Min({request - 1, Len(inFlight)}) :
                 \E stop \in recvExactStopsAt(n) :
                   /\ inFlight' = Behind(inFlight, n)
                   /\ IF stop = -1 THEN ConnectionFails ELSE UNCHANGED connectStatus
            /\ pc' = "idle" /\ buffer' = <<>> /\ left' = 0
            /\ result' = "MQTTRecvFailed"
            /\ UNCHANGED done
  /\ UNCHANGED <<transport, link, answer, sent>>

------------------------------------------------------------------------------
Next ==
  \/ Connect
  \/ \E cleanSession \in BOOLEAN : receiveConnack(cleanSession)
  \/ MQTT_ProcessLoop
  \/ MQTT_ReceiveLoop
  \/ Discard
  \/ Disconnect
  \/ BrokerAnswers
  \/ BrokerSends
  \/ LinkCloses
  \/ LinkResets

\* The client calls one of the loops again and again, and what is in flight
\* arrives (a call that leaves everything as it was is no step).  What
\* MQTT_ReceiveLoop does MQTT_ProcessLoop does too, as long as the keep-alive is
\* content: that it ever fails must not be assumed.
Fairness ==
  /\ WF_vars(MQTT_ReceiveLoop)
  /\ WF_vars(Discard)
  /\ WF_vars(Disconnect)

Spec == Init /\ [][Next]_vars /\ Fairness

------------------------------------------------------------------------------
\* Bytes that have not left the buffer or the network as packets.
Unfinished == FlattenSeq(Behind(sent, Len(done)))

\* However the bytes are cut, the packets that leave the buffer are the packets
\* that were sent, in order and whole: handled when they fit the buffer, dropped
\* when they do not; what is left continues with the next one, and there is
\* always room to receive some of it (else recv would be asked for 0 bytes, for
\* ever).  A connection begins with an empty buffer.
StaysInStep ==
  connectStatus = "MQTTConnected" /\ ~IsError(result) =>
    /\ Len(done) <= Len(sent)
    /\ \A k \in DOMAIN done :
         IF Len(sent[k]) <= BufferSize
           THEN done[k] = [bytes |-> sent[k], fate |-> "handled"]
           ELSE done[k].fate = "dropped" /\ IsPrefix(done[k].bytes, sent[k])
    /\ LET rest == IF pc = "discard"
                     THEN Behind(Unfinished, Len(sent[Len(done) + 1]) - left)
                     ELSE Unfinished
           ahead == IF pc = "discard" THEN inFlight ELSE buffer \o inFlight
       IN  IF link = "up" THEN ahead = rest ELSE IsPrefix(ahead, rest)
    /\ pc = "idle" => index < BufferSize

(***************************************************************************)
(* A call fails for a reason.  MQTTBadResponse means that the broker sent  *)
(* a faulty packet or acknowledged a publish that is unknown; a            *)
(* subscription that is refused is no error.  MQTTRecvFailed means that    *)
(* the connection is gone, that a publish asked for an acknowledgement (no *)
(* table of incoming publishes: mqttInit), or that a polling recv had      *)
(* nothing more of an oversized packet yet.  And nothing faulty that fits  *)
(* the buffer is passed over: the call that meets it fails.                *)
(***************************************************************************)
AsksForAck(packet) ==
  /\ TypeBits(packet[1]) = MQTT_PACKET_TYPE_PUBLISH
  /\ QoSOf(packet[1]) # 0

AtHand == {sent[k] : k \in {Len(done), Len(done) + 1} \intersect DOMAIN sent}

ErrorsAreExplained ==
  connectStatus # "MQTTNotConnected" =>
    /\ result = "MQTTBadResponse" =>
         \E packet \in AtHand : packet \in Faulty \/ packet[1] \in PublishAcks
    /\ result = "MQTTRecvFailed" =>
         \/ link # "up"
         \/ \E packet \in AtHand : AsksForAck(packet)
         \/ transport = "polling" /\ \E packet \in AtHand : Len(packet) > BufferSize
    /\ \A k \in DOMAIN done :
         k <= Len(sent) /\ sent[k] \in Faulty /\ Len(sent[k]) <= BufferSize =>
           k = Len(done) /\ IsError(result)

\* Every packet is handled or dropped as long as the connection lives, also the
\* second one of two that arrived together.  With a recv that blocks that holds
\* only while something arrives: a packet that is already in the buffer waits for
\* the next byte from the network.
PacketsAreHandled ==
  \A k \in 1..MaxPackets :
    connectStatus = "MQTTConnected" /\ Len(sent) >= k
      ~> \/ Len(done) >= k
         \/ connectStatus # "MQTTConnected"
         \/ transport = "blocking" /\ inFlight = <<>>

================================================================================
