----------------------------- MODULE PacketVectors -----------------------------
(***************************************************************************)
(* The packets core_mqtt.c sends without copying them into a buffer: it    *)
(* hands the transport vectors of pieces that lie where the application    *)
(* left them.  A vector is a sequence of byte sequences; each one is a     *)
(* call of sendMessageVector.                                              *)
(***************************************************************************)
EXTENDS Serializer

CONSTANT MQTT_SUB_UNSUB_MAX_VECTORS    \* entries of the array for (UN)SUBSCRIBE

ASSUME VectorsAssumption ==
         MQTT_SUB_UNSUB_MAX_VECTORS \in Nat /\ MQTT_SUB_UNSUB_MAX_VECTORS >= 3

\* The bytes of a vector one after the other, and how many they are.
MQTT_SerializeMQTTVec(vector) == FlattenSeq(vector)

MQTT_GetBytesInMQTTVec(vector) ==
  MapThenSumSet(LAMBDA i : Len(vector[i]), DOMAIN vector)

\* An empty string has a length but no entry of its own.
addEncodedStringToVector(string) ==
  <<UINT16_BYTES(Len(string))>> \o (IF string = <<>> THEN <<>> ELSE <<string>>)

------------------------------------------------------------------------------
(***************************************************************************)
(* SUBSCRIBE and UNSUBSCRIBE: the filters go out in batches, as many as    *)
(* fit the array; the header takes a place in the first batch.  topics[k]  *)
(* are the entries of filter k, each of perTopic entries.                  *)
(***************************************************************************)
\* Mutant: the header takes no place.
FiltersWithoutHeader(used, perTopic) == MQTT_SUB_UNSUB_MAX_VECTORS \div perTopic

\* How many filters fit beside that many entries.
FiltersThatFit(used, perTopic) == (MQTT_SUB_UNSUB_MAX_VECTORS - used) \div perTopic

Batches(header, topics, perTopic) ==
  LET first == Min({Len(topics), FiltersThatFit(1, perTopic)})
      each == FiltersThatFit(0, perTopic)
      later == (Len(topics) - first + each - 1) \div each
      Batch(from, to) == FlattenSeq(SubSeq(topics, from, Min({to, Len(topics)})))
  IN  <<<<header>> \o Batch(1, first)>>
        \o [k \in 1..later |->
              Batch(first + (k - 1) * each + 1, first + k * each)]

sendSubscribeWithoutCopy(list, packetId, remainingLength) ==
  Batches(MQTT_SerializeSubscribeHeader(remainingLength, packetId),
          [k \in DOMAIN list |-> addEncodedStringToVector(list[k].filter)
                                   \o <<<<list[k].qos>>>>],
          3)

sendUnsubscribeWithoutCopy(list, packetId, remainingLength) ==
  Batches(MQTT_SerializeUnsubscribeHeader(remainingLength, packetId),
          [k \in DOMAIN list |-> addEncodedStringToVector(list[k].filter)],
          2)

\* Without incoming records only QoS 0 may be asked for (of UNSUBSCRIBE too).
validateSubscribeUnsubscribeParams(list, packetId, hasIncomingRecords) ==
  /\ list # <<>>
  /\ packetId # 0
  /\ hasIncomingRecords \/ \A k \in DOMAIN list : list[k].qos = 0

NotSent(status) == [status |-> status, sent |-> <<>>]

\* The call as a whole when every send succeeds.
SubscriptionCall(valid, connectStatus, size, batches) ==
  CASE ~valid \/ size.status # "MQTTSuccess" -> NotSent("MQTTBadParameter")
    [] OTHER ->
         CASE connectStatus = "MQTTNotConnected" -> NotSent("MQTTStatusNotConnected")
           [] connectStatus = "MQTTDisconnectPending" ->
                NotSent("MQTTStatusDisconnectPending")
           [] connectStatus = "MQTTConnected" ->
                [status |-> "MQTTSuccess", sent |-> batches]

MQTT_Subscribe(list, packetId, hasIncomingRecords, connectStatus) ==
  LET size == MQTT_GetSubscribePacketSize(list)
  IN  SubscriptionCall(
        validateSubscribeUnsubscribeParams(list, packetId, hasIncomingRecords),
        connectStatus, size,
        sendSubscribeWithoutCopy(list, packetId, size.remainingLength))

MQTT_Unsubscribe(list, packetId, hasIncomingRecords, connectStatus) ==
  LET size == MQTT_GetUnsubscribePacketSize(list)
  IN  SubscriptionCall(
        validateSubscribeUnsubscribeParams(list, packetId, hasIncomingRecords),
        connectStatus, size,
        sendUnsubscribeWithoutCopy(list, packetId, size.remainingLength))

\* Where the caller of MQTT_Subscribe finds one code for each filter.
MQTT_GetSubAckStatusCodes(type, data) ==
  IF type # MQTT_PACKET_TYPE_SUBACK \/ Len(data) < 3
    THEN [status |-> "MQTTBadParameter", codes |-> <<>>]
    ELSE [status |-> "MQTTSuccess", codes |-> SubSeq(data, 3, Len(data))]

------------------------------------------------------------------------------
(***************************************************************************)
(* PUBLISH: what is sent, and what the store function is given first when  *)
(* there is one: the same vector, whose header says it is a duplicate.     *)
(***************************************************************************)
sendPublishWithoutCopy(info, header, packetId) ==
  LET vector(first) ==
        <<first, info.topic>>
          \o (IF info.qos > 0 THEN <<UINT16_BYTES(packetId)>> ELSE <<>>)
          \o (IF info.payload # <<>> THEN <<info.payload>> ELSE <<>>)
  IN  [sent |-> vector(header),
       stored |-> IF info.qos > 0
                    THEN vector(IF info.dup THEN header
                                ELSE MQTT_UpdateDuplicatePublishFlag(header, TRUE))
                    ELSE <<>>]

(***************************************************************************)
(* CONNECT: a header of fixed capacity, then the strings that are there.   *)
(***************************************************************************)
sendConnectWithoutCopy(info, remainingLength) ==
  LET optional(field) ==
        FlattenSeq([i \in DOMAIN field |-> addEncodedStringToVector(field[i])])
      will == FlattenSeq([i \in DOMAIN info.will |->
                            addEncodedStringToVector(info.will[i].topic)
                              \o addEncodedStringToVector(info.will[i].payload)])
  IN  <<MQTT_SerializeConnectFixedHeader(info, remainingLength)>>
        \o addEncodedStringToVector(info.clientId) \o will
        \o optional(info.userName) \o optional(info.password)

================================================================================
