-------------------------------- MODULE Codec ---------------------------------
(***************************************************************************)
(* The stateless half of the library against what it stands for: topic     *)
(* matching, the packets that are written and the packets that are read.   *)
(* A behaviour builds one input, a symbol at a time; an input of kind      *)
(* "header" or "packet" is bytes that arrive.                              *)
(***************************************************************************)
EXTENDS TopicFilter, PacketVectors

CONSTANTS
  Alphabet,          \* [kind -> the symbols its inputs are made of]
  MaxLength,         \* [kind -> the longest input]
  TypeBytes,         \* first bytes of a packet
  Topics,            \* the names that are matched with every filter
  RemainingLengths   \* the lengths that are encoded and read back

Kinds == {"filter", "header", "packet", "message", "subscriptions", "connect"}

ASSUME CodecAssumption ==
         /\ DOMAIN Alphabet = Kinds /\ DOMAIN MaxLength = Kinds
         /\ \A kind \in Kinds : MaxLength[kind] \in Nat
         /\ TypeBytes \subseteq 0..255
         /\ RemainingLengths \subseteq 0..MQTT_MAX_REMAINING_LENGTH
         /\ <<>> \notin Topics

VARIABLES
  kind,    \* what the input is
  text     \* the symbols so far

vars == <<kind, text>>

Init ==
  /\ kind \in Kinds
  /\ text = <<>>

Extend(symbols) ==
  /\ Len(text) < MaxLength[kind]
  /\ \E symbol \in symbols : text' = Append(text, symbol)
  /\ UNCHANGED kind

\* Bytes from the broker begin with a type.
TypeArrives ==
  /\ kind \in {"header", "packet"} /\ text = <<>>
  /\ Extend(TypeBytes)

ByteArrives ==
  /\ kind \in {"header", "packet"} /\ text # <<>>
  /\ Extend(Alphabet[kind])

\* A filter, a publish, a list of subscriptions or a CONNECT of the application.
ApplicationAdds ==
  /\ kind \in {"filter", "message", "subscriptions", "connect"}
  /\ Extend(Alphabet[kind])

Next ==
  \/ TypeArrives
  \/ ByteArrives
  \/ ApplicationAdds

Spec == Init /\ [][Next]_vars

------------------------------------------------------------------------------
(***************************************************************************)
(* Topic matching.                                                         *)
(***************************************************************************)
IsFilter == kind = "filter" /\ text # <<>> /\ ValidFilter(text)

\* The name is used up at or right behind a level that + took, and the filter
\* goes on: the special cases at the end of a filter are only tried behind a
\* character that matched literally.
EndsBehindPlus(topic, filter) ==
  LET names == Levels(topic)
      levels == Levels(filter)
      Plus(k) == k \in DOMAIN levels /\ levels[k] = <<"+">>
      n == Len(names)
  IN  \/ Plus(n) /\ Len(levels) > n
      \/ Plus(n - 1) /\ names[n] = <<>>
           /\ (Len(levels) > n \/ levels[n] # <<>>)

\* Every filter means what its levels mean: MQTT_MatchTopic never matches a name
\* that the rules do not, and misses one only when the name ends behind a +.
FiltersMatchByLevels ==
  IsFilter => \A topic \in Topics :
    MQTT_MatchTopic(topic, text) <=>
      MatchesLevels(topic, text) /\ ~EndsBehindPlus(topic, text)

\* What core_mqtt.h:1080 promises: the match of MQTT 3.1.1.
MatchesAsSpecified ==
  IsFilter => \A topic \in Topics :
    MQTT_MatchTopic(topic, text) <=> MatchesLevels(topic, text)

------------------------------------------------------------------------------
(***************************************************************************)
(* Reading.                                                                *)
(***************************************************************************)
Encoding(length) == encodeRemainingLength[length]

\* A packet type the broker may send, with a whole encoding of a length.
IsHeader(bytes) ==
  /\ incomingPacketValid(bytes[1])
  /\ \E n \in 1..4 : IsPrefix(Encoding(LengthOf(bytes \o <<0, 0, 0, 0>>, n)),
                              Tail(bytes))

\* The beginning of one: one more byte could end it.
BeginsHeader(bytes) ==
  /\ incomingPacketValid(bytes[1])
  /\ Len(bytes) <= 4
  /\ Encoding(LengthOf(Append(bytes, 1), Len(bytes))) = Append(Tail(bytes), 1)

\* A fixed header is taken exactly when its length is an encoding that the
\* library would write, whole; the beginning of one asks for more bytes, and
\* anything else is refused.  Read byte by byte from the transport (for CONNACK)
\* it ends with the same result at the same byte.
HeadersAreEncodings ==
  kind = "header" /\ text # <<>> =>
    LET read == MQTT_ProcessIncomingPacketTypeAndLength(text)
    IN  /\ read.status = CASE IsHeader(text) -> "MQTTSuccess"
                           [] BeginsHeader(text) -> "MQTTNeedMoreBytes"
                           [] OTHER -> "MQTTBadResponse"
        /\ IsHeader(text) =>
             /\ SubSeq(text, 2, read.headerLength) = Encoding(read.remainingLength)
             /\ MQTT_GetIncomingPacketTypeAndLength(text)
                  = [read EXCEPT !.headerLength = 0]
             /\ BytesTaken(text) = read.headerLength
        /\ ~IsHeader(text) =>
             MQTT_GetIncomingPacketTypeAndLength(text).status = "MQTTBadResponse"
        /\ BeginsHeader(text) /\ Len(text) = 1 =>
             \A length \in RemainingLengths :
               MQTT_ProcessIncomingPacketTypeAndLength(text \o Encoding(length))
                 = [status |-> "MQTTSuccess", type |-> text[1],
                    remainingLength |-> length,
                    headerLength |-> 1 + remainingLengthEncodedSize(length)]

\* A packet as it is written, header and all.
Whole(type, data) == <<type>> \o Encoding(Len(data)) \o data

\* The publishes whose packet these bytes could be: the fields are where the
\* lengths say, the payload is what is left.
LaidOut(type, data) ==
  LET idLength(qos) == IF qos > 0 THEN 2 ELSE 0
  IN
  {[packetId |-> IF qos > 0 THEN UINT16_DECODE(data, split + 1) ELSE 0,
    info |-> [qos |-> qos, retain |-> UINT8_CHECK_BIT(type, 0),
              dup |-> UINT8_CHECK_BIT(type, 3),
              topic |-> SubSeq(data, 3, split),
              payload |-> SubSeq(data, split + idLength(qos) + 1, Len(data))]] :
     <<qos, split>> \in {p \in (0..2) \X (2..Len(data)) :
                         p[2] + idLength(p[1]) <= Len(data)}}

\* The application gets these bytes for this publish.
LibraryWrites(publish, type, data) ==
  /\ MQTT_GetPublishPacketSize(publish.info) = SizeIs(Len(data))
  /\ MQTT_SerializePublish(publish.info, publish.packetId, Len(data),
                           PacketSize(Len(data))) = Written(Whole(type, data))

\* The writers refuse an empty topic, and QoS 0 marked as a duplicate; the
\* reader takes both, the former only with three bytes behind the header (five
\* with an identifier).
ReaderTolerates(publish, type, data) ==
  /\ \/ publish.info.topic = <<>>
     \/ publish.info.dup /\ publish.info.qos = 0
  /\ publish.info.topic \o publish.info.payload # <<>>
  /\ publish.info.qos > 0 => publish.packetId # 0
  /\ serializePublishCommon(publish.info, Len(data), publish.packetId, TRUE)
       = Whole(type, data)

PublishIsReadAsWritten(type, data) ==
  LET read == deserializePublish(type, data)
      right == {publish \in LaidOut(type, data) :
                  \/ LibraryWrites(publish, type, data)
                  \/ ReaderTolerates(publish, type, data)}
  IN  IF read.status = "MQTTSuccess"
        THEN right = {[packetId |-> read.packetId, info |-> read.info]}
        ELSE right = {}

AckIsReadAsWritten(type, data) ==
  LET read == MQTT_DeserializeAck(type, data)
      written == MQTT_SerializeAck(type, read.packetId, 4)
      codes == MQTT_GetSubAckStatusCodes(type, data)
  IN  /\ type \in PublishAcks =>
           ((read.status = "MQTTSuccess") <=> (Whole(type, data) = written.bytes))
      /\ type = MQTT_PACKET_TYPE_SUBACK /\ read.status # "MQTTBadResponse" =>
           /\ codes.status = "MQTTSuccess"
           /\ data = UINT16_BYTES(read.packetId) \o codes.codes
           /\ (read.status = "MQTTServerRefused") <=> Contains(codes.codes, 128)
      /\ type = MQTT_PACKET_TYPE_PINGRESP =>
           ((read.status = "MQTTSuccess") <=> (data = <<>>))

\* What comes in is read as what was written: a PUBLISH is accepted exactly when
\* MQTT_GetPublishPacketSize and MQTT_SerializePublish would make those bytes of
\* one publish, or of one that they refuse only for its empty topic or for a
\* QoS 0 marked as a duplicate, and it is that publish that is returned; an
\* acknowledgement exactly when it is one for the identifier that is returned;
\* and a SUBACK has a code for the application at every place behind its
\* identifier.
PacketsAreReadAsWritten ==
  kind = "packet" /\ text # <<>> =>
    LET type == text[1]
    IN  IF TypeBits(type) = MQTT_PACKET_TYPE_PUBLISH
          THEN PublishIsReadAsWritten(type, Tail(text))
          ELSE AckIsReadAsWritten(type, Tail(text))

------------------------------------------------------------------------------
(***************************************************************************)
(* Writing: with and without a copy.                                       *)
(***************************************************************************)
PacketId == 258

\* The vectors, one send after the other, are the packet that the copying
\* function writes into a buffer of exactly the size that was computed, and
\* would refuse to write into a smaller one.
SentIsWritten(vectors, size, Copy(_)) ==
  /\ size.status = "MQTTSuccess"
  /\ Copy(size.packetSize) = Written(FlattenSeq(FlattenSeq(vectors)))
  /\ Copy(size.packetSize - 1) = Refused("MQTTNoMemory")
  /\ MapThenSumSet(LAMBDA k : MQTT_GetBytesInMQTTVec(vectors[k]), DOMAIN vectors)
       = size.packetSize

SubscriptionsAreSent ==
  LET subscribe == MQTT_Subscribe(text, PacketId, TRUE, "MQTTConnected")
      unsubscribe == MQTT_Unsubscribe(text, PacketId, TRUE, "MQTTConnected")
      Fits(vector) == vector # <<>> /\ Len(vector) <= MQTT_SUB_UNSUB_MAX_VECTORS
      size == MQTT_GetSubscribePacketSize(text)
      smaller == MQTT_GetUnsubscribePacketSize(text)
  IN  /\ \A vector \in Range(subscribe.sent) \union Range(unsubscribe.sent) :
           Fits(vector)
      /\ SentIsWritten(subscribe.sent, size, LAMBDA capacity :
           MQTT_SerializeSubscribe(text, PacketId, size.remainingLength, capacity))
      /\ SentIsWritten(unsubscribe.sent, smaller, LAMBDA capacity :
           MQTT_SerializeUnsubscribe(text, PacketId, smaller.remainingLength,
                                     capacity))

PublishIsSent(info) ==
  LET size == MQTT_GetPublishPacketSize(info)
      header == MQTT_SerializePublishHeaderWithoutTopic(info, size.remainingLength)
      vectors == sendPublishWithoutCopy(info, header, PacketId)
      Copy(publish, capacity) == MQTT_SerializePublish(publish, PacketId,
                                                       size.remainingLength, capacity)
      again == [info EXCEPT !.dup = TRUE]
  IN  /\ Len(header) <= 7 /\ Len(vectors.sent) <= 4
      /\ SentIsWritten(<<vectors.sent>>, size,
                       LAMBDA capacity : Copy(info, capacity))
      /\ info.qos > 0 => SentIsWritten(<<vectors.stored>>, size,
                                       LAMBDA capacity : Copy(again, capacity))

ConnectIsSent(info) ==
  LET size == MQTT_GetConnectPacketSize(info)
      vector == sendConnectWithoutCopy(info, size.remainingLength)
  IN  /\ Len(vector[1]) <= 15 /\ Len(vector) <= 11
      /\ SentIsWritten(<<vector>>, size, LAMBDA capacity :
           MQTT_SerializeConnect(info, size.remainingLength, capacity))

\* A packet sent without a copy is byte for byte the one the copying functions
\* write, of the size computed for it, in arrays that hold it; the copy kept for
\* retransmission is the same publish marked as a duplicate.
VectorsCarryThePacket ==
  text # <<>> =>
    /\ kind = "subscriptions" => SubscriptionsAreSent
    /\ kind = "message" => PublishIsSent(text[1])
    /\ kind = "connect" => ConnectIsSent(text[1])

================================================================================
