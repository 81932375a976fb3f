------------------------------ MODULE Serializer ------------------------------
(***************************************************************************)
(* The packets of MQTT 3.1.1 as core_mqtt_serializer.c writes and reads    *)
(* them.  A packet is a sequence of bytes, a string a sequence of bytes; a *)
(* function that fills a buffer is an operator that returns the bytes, and *)
(* one that reads a buffer returns a record with the MQTTStatus_t it       *)
(* returns and its output parameters.  Pointers are never null here.       *)
(*                                                                         *)
(* A publish is a record [qos, retain, dup, topic, payload], a             *)
(* subscription a record [filter, qos].                                    *)
(***************************************************************************)
EXTENDS Integers, Sequences, FiniteSetsExt, SequencesExt

MQTT_MAX_REMAINING_LENGTH == 268435455
MQTT_REMAINING_LENGTH_INVALID == 268435456

MQTT_PACKET_TYPE_CONNECT == 16
MQTT_PACKET_TYPE_CONNACK == 32
MQTT_PACKET_TYPE_PUBLISH == 48
MQTT_PACKET_TYPE_PUBACK == 64
MQTT_PACKET_TYPE_PUBREC == 80
MQTT_PACKET_TYPE_PUBREL == 98
MQTT_PACKET_TYPE_PUBCOMP == 112
MQTT_PACKET_TYPE_SUBSCRIBE == 130
MQTT_PACKET_TYPE_SUBACK == 144
MQTT_PACKET_TYPE_UNSUBSCRIBE == 162
MQTT_PACKET_TYPE_UNSUBACK == 176
MQTT_PACKET_TYPE_PINGREQ == 192
MQTT_PACKET_TYPE_PINGRESP == 208
MQTT_PACKET_TYPE_DISCONNECT == 224

PublishAcks == {MQTT_PACKET_TYPE_PUBACK, MQTT_PACKET_TYPE_PUBREC,
                MQTT_PACKET_TYPE_PUBREL, MQTT_PACKET_TYPE_PUBCOMP}

\* The flags of a byte are numbers: a set bit adds its weight.
Bit(flag, position) == IF flag THEN 2 ^ position ELSE 0
UINT8_CHECK_BIT(x, position) == (x \div 2 ^ position) % 2 = 1
TypeBits(type) == (type \div 16) * 16     \* type & 0xF0

UINT16_BYTES(x) == <<x \div 256, x % 256>>
\* Two bytes of a sequence, the first one at position i.
UINT16_DECODE(bytes, i) == bytes[i] * 256 + bytes[i + 1]

------------------------------------------------------------------------------
(***************************************************************************)
(* The remaining length: one to four bytes, seven bits each, the least     *)
(* significant first, the high bit set in every byte but the last.         *)
(***************************************************************************)
remainingLengthEncodedSize(length) ==
  CASE length < 128 -> 1
    [] length >= 128 /\ length < 16384 -> 2
    [] length >= 16384 /\ length < 2097152 -> 3
    [] OTHER -> 4

encodeRemainingLength[length \in Nat] ==
  IF length < 128
    THEN <<length>>
    ELSE <<128 + (length % 128)>> \o encodeRemainingLength[length \div 128]

encodeString(string) == UINT16_BYTES(Len(string)) \o string

\* What the first count length bytes of a packet stand for.
LengthOf(bytes, count) ==
  MapThenSumSet(LAMBDA n : (bytes[n + 1] % 128) * 128 ^ (n - 1), 1..count)

\* The positions, among the first four, at which a length may end.
LengthEnds(bytes) == {n \in 1..4 : n < Len(bytes) /\ bytes[n + 1] < 128}

\* The length that ends there, unless it was written in too many bytes.
DecodedLength(bytes) ==
  LET decoded == Min(LengthEnds(bytes))
      length == LengthOf(bytes, decoded)
  IN  IF decoded = remainingLengthEncodedSize(length)
        THEN length ELSE MQTT_REMAINING_LENGTH_INVALID

\* What the out parameter holds after an error, and after a success.
HeaderError(status) ==
  [status |-> status, type |-> 0, remainingLength |-> 0, headerLength |-> 0]

HeaderRead(bytes) ==
  [status |-> "MQTTSuccess", type |-> bytes[1],
   remainingLength |-> DecodedLength(bytes),
   headerLength |-> Min(LengthEnds(bytes)) + 1]

\* Mutant: a length in more bytes than it needs is taken.
processOverlongLength(bytes) ==
  CASE LengthEnds(bytes) = {} /\ Len(bytes) <= 4 ->
         HeaderError("MQTTNeedMoreBytes")
    [] LengthEnds(bytes) = {} /\ Len(bytes) > 4 ->
         HeaderError("MQTTBadResponse")
    [] OTHER -> [HeaderRead(bytes) EXCEPT !.remainingLength =
                   LengthOf(bytes, Min(LengthEnds(bytes)))]

\* The bytes read so far begin with the packet type.
processRemainingLength(bytes) ==
  CASE LengthEnds(bytes) = {} /\ Len(bytes) <= 4 ->
         HeaderError("MQTTNeedMoreBytes")
    [] LengthEnds(bytes) = {} /\ Len(bytes) > 4 ->
         HeaderError("MQTTBadResponse")
    [] OTHER ->
         IF DecodedLength(bytes) = MQTT_REMAINING_LENGTH_INVALID
           THEN HeaderError("MQTTBadResponse") ELSE HeaderRead(bytes)

incomingPacketValid(type) ==
  \/ TypeBits(type) \in
       {MQTT_PACKET_TYPE_CONNACK, MQTT_PACKET_TYPE_PUBLISH,
        MQTT_PACKET_TYPE_PUBACK, MQTT_PACKET_TYPE_PUBREC,
        MQTT_PACKET_TYPE_PUBCOMP, MQTT_PACKET_TYPE_SUBACK,
        MQTT_PACKET_TYPE_UNSUBACK, MQTT_PACKET_TYPE_PINGRESP}
  \/ /\ TypeBits(type) = TypeBits(MQTT_PACKET_TYPE_PUBREL)
     /\ UINT8_CHECK_BIT(type, 1)

MQTT_ProcessIncomingPacketTypeAndLength(bytes) ==
  IF bytes = <<>> THEN HeaderError("MQTTNoDataAvailable")
  ELSE IF ~incomingPacketValid(bytes[1]) THEN HeaderError("MQTTBadResponse")
  ELSE processRemainingLength(bytes)

(***************************************************************************)
(* The same header read from the transport byte by byte (for CONNACK).     *)
(* bytes is what recv will return, one byte a call; then it returns 0.     *)
(* It leaves the length of the header to its caller.                       *)
(***************************************************************************)
getRemainingLength(bytes) ==
  IF LengthEnds(bytes) = {} THEN MQTT_REMAINING_LENGTH_INVALID
                            ELSE DecodedLength(bytes)

MQTT_GetIncomingPacketTypeAndLength(bytes) ==
  CASE bytes = <<>> -> HeaderError("MQTTNoDataAvailable")
    [] OTHER ->
         IF /\ incomingPacketValid(bytes[1])
            /\ getRemainingLength(bytes) # MQTT_REMAINING_LENGTH_INVALID
           THEN [HeaderRead(bytes) EXCEPT !.headerLength = 0]
           ELSE HeaderError("MQTTBadResponse")

\* How many bytes it has taken from the transport by then.
BytesTaken(bytes) ==
  CASE bytes = <<>> -> 0
    [] OTHER -> IF ~incomingPacketValid(bytes[1]) THEN 1
                ELSE Min({Len(bytes), 5} \union {n + 1 : n \in LengthEnds(bytes)})

------------------------------------------------------------------------------
(***************************************************************************)
(* The sizes the library asks for before it writes a packet.               *)
(***************************************************************************)
PacketSize(remainingLength) ==
  1 + remainingLengthEncodedSize(remainingLength) + remainingLength

SizeRefused == [status |-> "MQTTBadParameter", remainingLength |-> 0, packetSize |-> 0]

SizeIs(remainingLength) ==
  [status |-> "MQTTSuccess", remainingLength |-> remainingLength,
   packetSize |-> PacketSize(remainingLength)]

\* Of a PUBLISH with a topic and a payload of these lengths.
calculatePublishPacketSize(topicNameLength, payloadLength, qos) ==
  LET variableHeader == topicNameLength + 2 + (IF qos > 0 THEN 2 ELSE 0)
      payloadLimit == MQTT_MAX_REMAINING_LENGTH - variableHeader - 1
      remaining == variableHeader + payloadLength
  IN  IF \/ payloadLength > payloadLimit
         \/ payloadLength > payloadLimit - remainingLengthEncodedSize(remaining)
        THEN SizeRefused ELSE SizeIs(remaining)

MQTT_GetPublishPacketSize(info) ==
  IF info.topic = <<>>
    THEN SizeRefused
    ELSE calculatePublishPacketSize(Len(info.topic), Len(info.payload), info.qos)

\* Of a SUBSCRIBE or an UNSUBSCRIBE; perFilter counts the two length bytes of a
\* filter and, for SUBSCRIBE, its QoS byte.
calculateSubscriptionPacketSize(list, perFilter) ==
  LET remaining == 2 + MapThenSumSet(LAMBDA i : Len(list[i].filter) + perFilter,
                                     DOMAIN list)
  IN  IF \/ \E i \in DOMAIN list : list[i].filter = <<>>
         \/ remaining > MQTT_MAX_REMAINING_LENGTH
        THEN SizeRefused ELSE SizeIs(remaining)

MQTT_GetSubscribePacketSize(list) ==
  IF list = <<>> THEN SizeRefused ELSE calculateSubscriptionPacketSize(list, 3)

MQTT_GetUnsubscribePacketSize(list) ==
  IF list = <<>> THEN SizeRefused ELSE calculateSubscriptionPacketSize(list, 2)

(***************************************************************************)
(* What CONNECT says: [clientId, cleanSession, keepAlive, userName,        *)
(* password, will].  The last three are optional: a sequence that is empty *)
(* or has one element, a string, a string and a publish.                   *)
(***************************************************************************)
MQTT_PACKET_CONNECT_HEADER_SIZE == 10

MQTT_GetConnectPacketSize(info) ==
  LET optional(field) == MapThenSumSet(LAMBDA i : Len(field[i]) + 2, DOMAIN field)
      will == MapThenSumSet(LAMBDA i : Len(info.will[i].topic) + 2
                                         + Len(info.will[i].payload) + 2,
                            DOMAIN info.will)
  IN  IF \/ info.clientId = <<>>
         \/ \E i \in DOMAIN info.will : Len(info.will[i].payload) > 65535
        THEN SizeRefused
        ELSE SizeIs(MQTT_PACKET_CONNECT_HEADER_SIZE + Len(info.clientId) + 2
                      + will + optional(info.userName) + optional(info.password))

------------------------------------------------------------------------------
(***************************************************************************)
(* Writing.  The functions with a size write into a buffer of that size,   *)
(* or refuse.                                                              *)
(***************************************************************************)
Refused(status) == [status |-> status, bytes |-> <<>>]
Written(bytes) == [status |-> "MQTTSuccess", bytes |-> bytes]

PublishFlags(info) ==
  MQTT_PACKET_TYPE_PUBLISH
    + Bit(info.qos = 1, 1) + Bit(info.qos = 2, 2)
    + Bit(info.retain, 0) + Bit(info.dup, 3)

MQTT_SerializePublishHeaderWithoutTopic(info, remainingLength) ==
  <<PublishFlags(info)>> \o encodeRemainingLength[remainingLength]
    \o UINT16_BYTES(Len(info.topic))

serializePublishCommon(info, remainingLength, packetId, serializePayload) ==
  <<PublishFlags(info)>> \o encodeRemainingLength[remainingLength]
    \o encodeString(info.topic)
    \o (IF info.qos > 0 THEN UINT16_BYTES(packetId) ELSE <<>>)
    \o (IF serializePayload THEN info.payload ELSE <<>>)

\* With the payload, or without it (the header alone).
SerializePublish(info, packetId, remainingLength, size, withPayload) ==
  CASE \/ info.topic = <<>>
       \/ info.qos # 0 /\ packetId = 0
       \/ info.qos = 0 /\ info.dup -> Refused("MQTTBadParameter")
    [] OTHER ->
         IF PacketSize(remainingLength)
              - (IF withPayload THEN 0 ELSE Len(info.payload)) > size
           THEN Refused("MQTTNoMemory")
           ELSE Written(serializePublishCommon(info, remainingLength, packetId,
                                               withPayload))

MQTT_SerializePublish(info, packetId, remainingLength, size) ==
  SerializePublish(info, packetId, remainingLength, size, TRUE)

MQTT_SerializePublishHeader(info, packetId, remainingLength, size) ==
  SerializePublish(info, packetId, remainingLength, size, FALSE)

\* The copy for the retransmission says that it is one.
MQTT_UpdateDuplicatePublishFlag(header, set) ==
  IF UINT8_CHECK_BIT(header[1], 3) = set
    THEN header
    ELSE [header EXCEPT ![1] = IF set THEN @ + 8 ELSE @ - 8]

MQTT_SerializeSubscribeHeader(remainingLength, packetId) ==
  <<MQTT_PACKET_TYPE_SUBSCRIBE>> \o encodeRemainingLength[remainingLength]
    \o UINT16_BYTES(packetId)

MQTT_SerializeUnsubscribeHeader(remainingLength, packetId) ==
  <<MQTT_PACKET_TYPE_UNSUBSCRIBE>> \o encodeRemainingLength[remainingLength]
    \o UINT16_BYTES(packetId)

validateSubscriptionSerializeParams(list, packetId, remainingLength, size) ==
  CASE list = <<>> \/ packetId = 0 -> "MQTTBadParameter"
    [] OTHER -> IF PacketSize(remainingLength) > size
                  THEN "MQTTNoMemory" ELSE "MQTTSuccess"

MQTT_SerializeSubscribe(list, packetId, remainingLength, size) ==
  LET status == validateSubscriptionSerializeParams(list, packetId,
                                                    remainingLength, size)
  IN  IF status # "MQTTSuccess" THEN Refused(status)
      ELSE Written(MQTT_SerializeSubscribeHeader(remainingLength, packetId)
             \o FlattenSeq([i \in DOMAIN list |->
                              encodeString(list[i].filter) \o <<list[i].qos>>]))

MQTT_SerializeUnsubscribe(list, packetId, remainingLength, size) ==
  LET status == validateSubscriptionSerializeParams(list, packetId,
                                                    remainingLength, size)
  IN  IF status # "MQTTSuccess" THEN Refused(status)
      ELSE Written(MQTT_SerializeUnsubscribeHeader(remainingLength, packetId)
             \o FlattenSeq([i \in DOMAIN list |-> encodeString(list[i].filter)]))

ConnectFlags(info) ==
  LET will(P(_)) == \E i \in DOMAIN info.will : P(info.will[i])
  IN  Bit(info.cleanSession, 1)
        + Bit(info.userName # <<>>, 7) + Bit(info.password # <<>>, 6)
        + Bit(info.will # <<>>, 2)
        + Bit(will(LAMBDA w : w.qos = 1), 3) + Bit(will(LAMBDA w : w.qos = 2), 4)
        + Bit(will(LAMBDA w : w.retain), 5)

\* "MQTT" is 77, 81, 84, 84; the protocol level of 3.1.1 is 4.
MQTT_SerializeConnectFixedHeader(info, remainingLength) ==
  <<MQTT_PACKET_TYPE_CONNECT>> \o encodeRemainingLength[remainingLength]
    \o encodeString(<<77, 81, 84, 84>>) \o <<4, ConnectFlags(info)>>
    \o UINT16_BYTES(info.keepAlive)

serializeConnectPacket(info, remainingLength) ==
  LET optional(field) == FlattenSeq([i \in DOMAIN field |-> encodeString(field[i])])
      will == FlattenSeq([i \in DOMAIN info.will |->
                            encodeString(info.will[i].topic)
                              \o encodeString(info.will[i].payload)])
  IN  MQTT_SerializeConnectFixedHeader(info, remainingLength)
        \o encodeString(info.clientId) \o will
        \o optional(info.userName) \o optional(info.password)

MQTT_SerializeConnect(info, remainingLength, size) ==
  IF PacketSize(remainingLength) > size
    THEN Refused("MQTTNoMemory")
    ELSE Written(serializeConnectPacket(info, remainingLength))

MQTT_SerializeAck(packetType, packetId, size) ==
  CASE size < 4 -> Refused("MQTTNoMemory")
    [] OTHER -> IF packetId = 0 \/ packetType \notin PublishAcks
                  THEN Refused("MQTTBadParameter")
                  ELSE Written(<<packetType, 2>> \o UINT16_BYTES(packetId))

MQTT_SerializeDisconnect(size) ==
  IF size < 2 THEN Refused("MQTTNoMemory")
              ELSE Written(<<MQTT_PACKET_TYPE_DISCONNECT, 0>>)

MQTT_SerializePingreq(size) ==
  IF size < 2 THEN Refused("MQTTNoMemory")
              ELSE Written(<<MQTT_PACKET_TYPE_PINGREQ, 0>>)

------------------------------------------------------------------------------
(***************************************************************************)
(* Reading: data is what follows the fixed header, as long as the          *)
(* remaining length says.                                                  *)
(***************************************************************************)
\* Mutant: off by one.
checkPublishRemainingLengthStrictly(remainingLength, qos, qos0Minimum) ==
  remainingLength > qos0Minimum + (IF qos > 0 THEN 2 ELSE 0)

checkPublishRemainingLength(remainingLength, qos, qos0Minimum) ==
  remainingLength >= qos0Minimum + (IF qos > 0 THEN 2 ELSE 0)

\* The QoS of a PUBLISH; both bits at once are refused.
QoSOf(type) == (type \div 2) % 4

BadPublish == [status |-> "MQTTBadResponse"]

deserializePublish(type, data) ==
  LET qos == QoSOf(type)
      topicLength == UINT16_DECODE(data, 1)
      idLength == IF qos > 0 THEN 2 ELSE 0
      packetId == IF qos > 0 THEN UINT16_DECODE(data, topicLength + 3) ELSE 0
  IN  IF \/ qos = 3
         \/ ~checkPublishRemainingLength(Len(data), qos, 3)
         \/ ~checkPublishRemainingLength(Len(data), qos, topicLength + 2)
         \/ qos > 0 /\ packetId = 0
        THEN BadPublish
        ELSE [status |-> "MQTTSuccess", packetId |-> packetId,
              info |-> [qos |-> qos, retain |-> UINT8_CHECK_BIT(type, 0),
                        dup |-> UINT8_CHECK_BIT(type, 3),
                        topic |-> SubSeq(data, 3, topicLength + 2),
                        payload |-> SubSeq(data, topicLength + idLength + 3,
                                           Len(data))]]

AckRead(status, packetId, sessionPresent) ==
  [status |-> status, packetId |-> packetId, sessionPresent |-> sessionPresent]

deserializeConnack(data) ==
  LET sessionPresent == data[1] = 1
  IN  IF \/ Len(data) # 2 
         \/ data[1] > 1
         \/ sessionPresent /\ data[2] # 0
         \/ data[2] > 5
        THEN AckRead("MQTTBadResponse", 0, FALSE)
        ELSE AckRead(IF data[2] > 0 THEN "MQTTServerRefused" ELSE "MQTTSuccess",
                     0, sessionPresent)

readSubackStatus(codes) ==
  CASE \E i \in DOMAIN codes : codes[i] \notin {0, 1, 2, 128} -> "MQTTBadResponse"
    [] \A i \in DOMAIN codes : codes[i] \in {0, 1, 2} -> "MQTTSuccess"
    [] OTHER -> "MQTTServerRefused"

deserializeSuback(data) ==
  IF Len(data) < 3 THEN AckRead("MQTTBadResponse", 0, FALSE)
  ELSE IF UINT16_DECODE(data, 1) = 0 THEN AckRead("MQTTBadResponse", 0, FALSE)
  ELSE AckRead(readSubackStatus(SubSeq(data, 3, Len(data))),
               UINT16_DECODE(data, 1), FALSE)

deserializeSimpleAck(data) ==
  IF Len(data) # 2 THEN AckRead("MQTTBadResponse", 0, FALSE)
  ELSE IF UINT16_DECODE(data, 1) = 0 THEN AckRead("MQTTBadResponse", 0, FALSE)
  ELSE AckRead("MQTTSuccess", UINT16_DECODE(data, 1), FALSE)

deserializePingresp(data) ==
  AckRead(IF data = <<>> THEN "MQTTSuccess" ELSE "MQTTBadResponse", 0, FALSE)

MQTT_DeserializeAck(type, data) ==
  CASE type = MQTT_PACKET_TYPE_CONNACK -> deserializeConnack(data)
    [] type = MQTT_PACKET_TYPE_SUBACK -> deserializeSuback(data)
    [] type = MQTT_PACKET_TYPE_PINGRESP -> deserializePingresp(data)
    [] type \in PublishAcks \union {MQTT_PACKET_TYPE_UNSUBACK} ->
         deserializeSimpleAck(data)
    [] OTHER -> AckRead("MQTTBadResponse", 0, FALSE)

==============================================================================
