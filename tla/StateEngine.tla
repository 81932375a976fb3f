---------------------------- MODULE StateEngine -----------------------------
(***************************************************************************)
(* The publish state engine as a state machine: the outgoing and incoming  *)
(* record tables of an MQTTContext_t and one action per function of        *)
(* core_mqtt_state.c that changes them, called in any order with any       *)
(* packet identifier, QoS and acknowledgement.  handleCleanSession of      *)
(* core_mqtt.c, which clears both tables, is here too.                     *)
(*                                                                         *)
(* Every call is atomic: this is the engine behind the state update hooks  *)
(* (MQTT_PRE_STATE_UPDATE_HOOK) of core_mqtt.c.                            *)
(***************************************************************************)
EXTENDS PublishRecords, Sequences

CONSTANTS
  OutgoingPublishCount,  \* outgoingPublishRecordMaxCount
  IncomingPublishCount   \* incomingPublishRecordMaxCount, 0 in mqtt_api.c

ASSUME CountAssumption ==
  /\ OutgoingPublishCount \in Nat \ {0}
  /\ IncomingPublishCount \in Nat

VARIABLES
  outgoing,  \* outgoingPublishRecords
  incoming,  \* incomingPublishRecords
  result     \* the last call and the status it returned

vars == <<outgoing, incoming, result>>

Calls == {"Init", "ReserveState", "UpdateStatePublish", "UpdateStateAck",
          "RemoveStateRecord", "CleanSession"}

AnyPacketId == PacketIds \cup {MQTT_PACKET_ID_INVALID}

Returns(call, status) == result' = [call |-> call, status |-> status]

Init ==
  /\ outgoing = EmptyTable(OutgoingPublishCount)
  /\ incoming = EmptyTable(IncomingPublishCount)
  /\ result = [call |-> "Init", status |-> "Success"]

-----------------------------------------------------------------------------

\* A call that returns before it looks at a table.
Returned(call, status) ==
  /\ Returns(call, status)
  /\ UNCHANGED <<outgoing, incoming>>

ReserveState(id, qos) ==
  \/ qos = 0 /\ Returned("ReserveState", "Success")
  \/ /\ qos # 0
     /\ id = MQTT_PACKET_ID_INVALID
     /\ Returned("ReserveState", "BadParameter")
  \/ /\ qos # 0
     /\ id # MQTT_PACKET_ID_INVALID
     /\ LET r == AddRecord(outgoing, id, qos, "PublishSend")
        IN  outgoing' = r.records /\ Returns("ReserveState", r.status)
     /\ UNCHANGED incoming

\* handleIncomingPublish looks for the incoming table before it calls this
\* for a QoS above 0.
UpdateStatePublish(id, opType, qos) ==
  \/ qos = 0 /\ Returned("UpdateStatePublish", "Success")
  \/ /\ qos # 0
     /\ id = MQTT_PACKET_ID_INVALID
     /\ Returned("UpdateStatePublish", "BadParameter")
  \/ /\ qos # 0
     /\ id # MQTT_PACKET_ID_INVALID
     /\ opType = "SEND"
     /\ LET r == UpdateSentPublish(outgoing, id, qos)
        IN  outgoing' = r.records /\ Returns("UpdateStatePublish", r.status)
     /\ UNCHANGED incoming
  \/ /\ qos # 0
     /\ id # MQTT_PACKET_ID_INVALID
     /\ opType = "RECEIVE"
     /\ IncomingPublishCount > 0
     /\ LET r == UpdateReceivedPublish(incoming, id, qos)
        IN  incoming' = r.records /\ Returns("UpdateStatePublish", r.status)
     /\ UNCHANGED outgoing

UpdateAck(id, packetType, opType) ==
  \/ /\ id = MQTT_PACKET_ID_INVALID
     /\ Returned("UpdateStateAck", "BadParameter")
  \/ /\ id # MQTT_PACKET_ID_INVALID
     /\ IsPublishOutgoing(packetType, opType)
     /\ LET r == UpdateStateAck(outgoing, id, packetType, opType)
        IN  outgoing' = r.records /\ Returns("UpdateStateAck", r.status)
     /\ UNCHANGED incoming
  \/ /\ id # MQTT_PACKET_ID_INVALID
     /\ ~IsPublishOutgoing(packetType, opType)
     /\ LET r == UpdateStateAck(incoming, id, packetType, opType)
        IN  incoming' = r.records /\ Returns("UpdateStateAck", r.status)
     /\ UNCHANGED outgoing

RemoveRecord(id) ==
  /\ LET r == RemoveStateRecord(outgoing, id)
     IN  outgoing' = r.records /\ Returns("RemoveStateRecord", r.status)
  /\ UNCHANGED incoming

CleanSession ==
  /\ outgoing' = EmptyTable(OutgoingPublishCount)
  /\ incoming' = EmptyTable(IncomingPublishCount)
  /\ Returns("CleanSession", "Success")

Next ==
  \/ \E id \in AnyPacketId, qos \in MQTTQoS : ReserveState(id, qos)
  \/ \E id \in AnyPacketId, opType \in {"SEND", "RECEIVE"}, qos \in MQTTQoS :
       UpdateStatePublish(id, opType, qos)
  \/ \E id \in AnyPacketId, packetType \in MQTTPubAckType,
        opType \in {"SEND", "RECEIVE"} :
       UpdateAck(id, packetType, opType)
  \/ \E id \in PacketIds : RemoveRecord(id)
  \/ CleanSession

Spec == Init /\ [][Next]_vars

-----------------------------------------------------------------------------
(* The tables as InFlight sees them.                                       *)

OutgoingSteps ==
  {<<At(1, "PublishSend"),   At(1, "PubAckPending")>>,
   <<At(2, "PublishSend"),   At(2, "PubRecPending")>>,
   <<At(2, "PubRecPending"), At(2, "PubRelSend")>>,
   <<At(2, "PubRelSend"),    At(2, "PubCompPending")>>}

IncomingSteps ==
  {<<At(2, "PubRecSend"),    At(2, "PubRelPending")>>,
   <<At(2, "PubRelPending"), At(2, "PubCompSend")>>}

Out == INSTANCE InFlight WITH
         Ids      <- PacketIds,
         Capacity <- OutgoingPublishCount,
         Absent   <- At(0, "StateNull"),
         Flights  <- OutgoingFlights,
         Starts   <- {At(1, "PublishSend"), At(2, "PublishSend")},
         Steps    <- OutgoingSteps,
         Moves    <- {<<At(2, "PubRecPending"), At(2, "PubRelSend")>>},
         Ends     <- {At(1, "PubAckPending"), At(2, "PubCompPending")},
         Abandons <- TRUE,
         flight   <- Progress(outgoing),
         before   <- Order(outgoing)

In == INSTANCE InFlight WITH
        Ids      <- PacketIds,
        Capacity <- IncomingPublishCount,
        Absent   <- At(0, "StateNull"),
        Flights  <- IncomingFlights,
        Starts   <- {At(1, "PubAckSend"), At(2, "PubRecSend")},
        Steps    <- IncomingSteps,
        Moves    <- {},
        Ends     <- {At(1, "PubAckSend"), At(2, "PubCompSend")},
        Abandons <- FALSE,
        flight   <- Progress(incoming),
        before   <- Order(incoming)

-----------------------------------------------------------------------------
(* Properties.                                                             *)

TypeOK ==
  /\ outgoing \in [1..OutgoingPublishCount -> Slot]
  /\ incoming \in [1..IncomingPublishCount -> Slot]
  /\ result \in [call : Calls, status : Statuses]

\* No packet identifier has two records in one table, through holes,
\* compactions and the moves of PUBREC: findInRecord, which stops at the
\* first match, finds the only record there is.
UniquePacketIds == UniqueIds(outgoing) /\ UniqueIds(incoming)

\* A record is in a state of its own direction and QoS: an acknowledgement
\* of the other QoS or the other direction never drags a publish into a
\* handshake that is not its own, and an empty slot is empty throughout.
HandshakeStates ==
  /\ WellFormed(outgoing, OutgoingFlights)
  /\ WellFormed(incoming, IncomingFlights)

\* The outgoing table implements a bounded ordered set of publishes in
\* flight: holes, compaction and the slot a record occupies are invisible.
OutgoingInFlight == Out!Spec

\* The same of the incoming table, where no publish is ever abandoned.
IncomingInFlight == In!Spec

\* No acknowledgement is lost for want of a slot: the record that
\* updateStateAck deletes and adds again always finds its place.
AckNeverOutOfMemory ==
  [][result'.call = "UpdateStateAck" =>
       result'.status \notin {"NoMemory", "StateCollision"}]_vars

\* A call that fails leaves both tables as the handshakes see them: it may
\* have compacted a table, never dropped, moved or advanced a publish.
FailureChangesNothing ==
  [][result'.status # "Success" =>
       /\ \/ outgoing' = outgoing
          \/ /\ Progress(outgoing)' = Progress(outgoing)
             /\ Order(outgoing)' = Order(outgoing)
       /\ \/ incoming' = incoming
          \/ /\ Progress(incoming)' = Progress(incoming)
             /\ Order(incoming)' = Order(incoming)]_vars

\* MQTTNoMemory is returned when every slot is taken, and never because
\* the free slots are holes that compaction did not reclaim.
NoMemoryOnlyWhenFull ==
  [][result'.status = "NoMemory" =>
       IF result'.call = "ReserveState"
         THEN Full(outgoing) ELSE Full(incoming)]_vars

\* A publish leaves the outgoing table by its last acknowledgement, by the
\* application's cancellation or with the session, and in no other way.
LeavesOnlyWhenDone ==
  [][\A id \in PacketIds :
       Holds(outgoing, id) /\ ~Holds(outgoing, id)' =>
         \/ result'.call \in {"RemoveStateRecord", "CleanSession"}
         \/ /\ result'.call = "UpdateStateAck"
            /\ Flight(outgoing, id) \in
                 {At(1, "PubAckPending"), At(2, "PubCompPending")}]_vars

\* The packets a resend loop gets when it calls MQTT_PublishToResend or
\* MQTT_PubrelToResend until it returns MQTT_PACKET_ID_INVALID.
Resent(records, states) ==
  LET n == Cardinality(DOMAIN records)
      from[k \in 0..n] ==
        LET cursor == n - k
            s == StateSelect(records, states, cursor)
        IN  IF s.packetId = MQTT_PACKET_ID_INVALID
              THEN <<>>
              ELSE <<s.packetId>> \o from[n - s.cursor]
  IN  from[n]

InOrder(seq, states) ==
  /\ {seq[i] : i \in DOMAIN seq} =
       {id \in PacketIds : Flight(outgoing, id).state \in states}
  /\ \A i, j \in DOMAIN seq :
       i < j => <<seq[i], seq[j]>> \in Order(outgoing)

\* core_mqtt_state.h: the resend cursor gives all the packets whose PUBLISH,
\* or whose PUBREL, has to be resent, each once and in the correct order.
ResendsAllInOrder ==
  /\ InOrder(Resent(outgoing, PublishToResendStates), PublishToResendStates)
  /\ InOrder(Resent(outgoing, PubrelToResendStates), PubrelToResendStates)
=============================================================================
