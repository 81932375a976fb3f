--------------------------- MODULE PublishRecords ---------------------------
(***************************************************************************)
(* The publish state engine of core/core_mqtt_state.c as pure operators on *)
(* a table of publish records.                                             *)
(*                                                                         *)
(* A table is an array of MQTTPubAckInfo_t, here a function 1..n -> Slot.  *)
(* A slot whose packetId is MQTT_PACKET_ID_INVALID is empty.  Every        *)
(* operator that stands for a C function returns what the function         *)
(* returns together with the table it leaves behind.                       *)
(***************************************************************************)
EXTENDS Naturals, FiniteSets

CONSTANTS
  PacketIds,              \* the packet identifiers in use
  MQTT_PACKET_ID_INVALID  \* the identifier that marks an empty slot

ASSUME PacketIdAssumption == MQTT_PACKET_ID_INVALID \notin PacketIds

-----------------------------------------------------------------------------
(* MQTTPublishState_t and the values a slot can hold.                      *)

MQTTQoS == 0..2

OutgoingStates == {"PublishSend", "PubAckPending", "PubRecPending",
                   "PubRelSend", "PubCompPending"}

IncomingStates == {"PubAckSend", "PubRecSend", "PubRelPending",
                   "PubCompSend"}

MQTTPublishState ==
  {"StateNull", "PublishDone"} \cup OutgoingStates \cup IncomingStates

MQTTPubAckType == {"Puback", "Pubrec", "Pubrel", "Pubcomp"}

Statuses == {"Success", "BadParameter", "NoMemory", "StateCollision",
             "BadResponse", "IllegalState"}

EmptySlot == [packetId     |-> MQTT_PACKET_ID_INVALID,
              qos          |-> 0,
              publishState |-> "StateNull"]

Slot == [packetId     : PacketIds \cup {MQTT_PACKET_ID_INVALID},
         qos          : MQTTQoS,
         publishState : MQTTPublishState]

EmptyTable(n) == [i \in 1..n |-> EmptySlot]

Occupied(slot) == slot.packetId # MQTT_PACKET_ID_INVALID

Full(records) == \A i \in DOMAIN records : Occupied(records[i])

Holds(records, id) == \E i \in DOMAIN records : records[i].packetId = id

-----------------------------------------------------------------------------
(* Operations on one table.                                                *)

\* The first slot that holds id.  Used only where Holds(records, id).
FindInRecord(records, id) ==
  CHOOSE i \in DOMAIN records :
    /\ records[i].packetId = id
    /\ \A j \in DOMAIN records : j < i => records[j].packetId # id

\* The number of occupied slots up to i: where compaction puts slot i.
Rank(records, i) == Cardinality({j \in 1..i : Occupied(records[j])})

\* slot i is the k-th occupied one.
IsNth(records, i, k) == Occupied(records[i]) /\ Rank(records, i) = k

\* Mutant: the copy runs one slot past the end of the array.
CompactRecordsOverrun(records) ==
  [k \in 1..(Cardinality(DOMAIN records) + 1) |->
     IF \E i \in DOMAIN records : IsNth(records, i, k)
       THEN records[CHOOSE i \in DOMAIN records : IsNth(records, i, k)]
       ELSE EmptySlot]

\* Mutant: the holes are filled from the end of the table.
CompactRecordsReversed(records) ==
  LET occupied == {i \in DOMAIN records : Occupied(records[i])}
      place(i) == 1 + Cardinality({j \in occupied : j > i})
  IN  [k \in DOMAIN records |->
         IF \E i \in occupied : place(i) = k
           THEN records[CHOOSE i \in occupied : place(i) = k]
           ELSE EmptySlot]

\* Occupied slots slide to the front and keep their order.
CompactRecords(records) ==
  [k \in DOMAIN records |->
     IF \E i \in DOMAIN records : IsNth(records, i, k)
       THEN records[CHOOSE i \in DOMAIN records : IsNth(records, i, k)]
       ELSE EmptySlot]

\* Mutant: any free slot will do, holes included.
TrailingOrHole(records) == {i \in DOMAIN records : ~Occupied(records[i])}

\* The slots that are free and have no occupied slot after them.
Trailing(records) ==
  {i \in DOMAIN records :
     \A j \in DOMAIN records : j >= i => ~Occupied(records[j])}

\* Mutant: the table is never compacted.
NeverPrepared(records) == records

\* The table addRecord searches: compacted when its last slot is taken.
Prepared(records) ==
  IF Trailing(records) = {} THEN CompactRecords(records) ELSE records

\* The first slot after the last occupied one.
AvailableIndex(records) ==
  CHOOSE i \in Trailing(records) : \A j \in Trailing(records) : i <= j

\* Mutant: a record with the same identifier is not looked for.
AddRecordUnchecked(records, id, qos, state) ==
  LET table == Prepared(records)
  IN  IF Trailing(table) = {}
        THEN [status |-> "NoMemory", records |-> table]
      ELSE [status  |-> "Success",
            records |-> [table EXCEPT ![AvailableIndex(table)] =
                           [packetId     |-> id,
                            qos          |-> qos,
                            publishState |-> state]]]

AddRecord(records, id, qos, state) ==
  LET table == Prepared(records)
  IN  IF Holds(table, id)
        THEN [status |-> "StateCollision", records |-> table]
      ELSE IF Trailing(table) = {}
        THEN [status |-> "NoMemory", records |-> table]
      ELSE [status  |-> "Success",
            records |-> [table EXCEPT ![AvailableIndex(table)] =
                           [packetId     |-> id,
                            qos          |-> qos,
                            publishState |-> state]]]

DeleteRecord(records, i) == [records EXCEPT ![i] = EmptySlot]

SetRecordState(records, i, state) ==
  [records EXCEPT ![i].publishState = state]

-----------------------------------------------------------------------------
(* The state machine of one publish.                                       *)

CalculateStatePublish(opType, qos) ==
  CASE qos = 0                        -> "PublishDone"
    [] qos = 1 /\ opType = "SEND"     -> "PubAckPending"
    [] qos = 1 /\ opType = "RECEIVE"  -> "PubAckSend"
    [] qos = 2 /\ opType = "SEND"     -> "PubRecPending"
    [] qos = 2 /\ opType = "RECEIVE"  -> "PubRecSend"

CalculateStateAck(packetType, opType, qos) ==
  IF qos # (IF packetType = "Puback" THEN 1 ELSE 2)
    THEN "StateNull"
  ELSE CASE packetType \in {"Puback", "Pubcomp"} -> "PublishDone"
         [] packetType = "Pubrec" ->
              (IF opType = "SEND" THEN "PubRelPending" ELSE "PubRelSend")
         [] packetType = "Pubrel" ->
              (IF opType = "SEND" THEN "PubCompPending" ELSE "PubCompSend")

\* A publish being received starts from StateNull, one being sent from the
\* record that MQTT_ReserveState made or from a record that is resent.
ValidTransitionPublish(current, new, opType, qos) ==
  \/ /\ current = "StateNull"
     /\ opType = "RECEIVE"
     /\ new \in {"PubAckSend", "PubRecSend"}
  \/ current = "PublishSend" /\ qos = 1 /\ new = "PubAckPending"
  \/ current = "PublishSend" /\ qos = 2 /\ new = "PubRecPending"
  \/ current = "PubAckPending" /\ new = "PubAckPending"
  \/ current = "PubRecPending" /\ new = "PubRecPending"

AckTransitions ==
  {<<"PubAckSend",     "PublishDone">>,
   <<"PubAckPending",  "PublishDone">>,
   <<"PubRecSend",     "PubRelPending">>,
   <<"PubRelPending",  "PubCompSend">>,
   <<"PubRelPending",  "PubRelPending">>,
   <<"PubCompSend",    "PublishDone">>,
   <<"PubCompSend",    "PubCompSend">>,
   <<"PubRecPending",  "PubRelSend">>,
   <<"PubRelSend",     "PubCompPending">>,
   <<"PubCompPending", "PublishDone">>,
   <<"PubCompPending", "PubCompPending">>}

\* Mutant: a PUBCOMP is accepted while the PUBREL has not been sent.
EarlyPubcompAllowed(current, new) ==
  <<current, new>> \in AckTransitions \cup {<<"PubRelSend", "PublishDone">>}

\* Mutant: a PUBREL is accepted while the PUBREC has not been sent.
EarlyPubrelAllowed(current, new) ==
  <<current, new>> \in AckTransitions \cup {<<"PubRecSend", "PubCompSend">>}

\* Mutant: a resent PUBREL is refused.
ResentPubrelRefused(current, new) ==
  <<current, new>> \in AckTransitions \
                         {<<"PubCompPending", "PubCompPending">>}

ValidTransitionAck(current, new) == <<current, new>> \in AckTransitions

\* The table an acknowledgement concerns: outgoing or incoming publishes.
IsPublishOutgoing(packetType, opType) ==
  \/ packetType \in {"Puback", "Pubrec", "Pubcomp"} /\ opType = "RECEIVE"
  \/ packetType = "Pubrel" /\ opType = "SEND"

-----------------------------------------------------------------------------
(* MQTT_UpdateStatePublish on the table that opType selects, for QoS > 0.  *)

Unchanged(records, status) ==
  [status |-> status, state |-> "StateNull", records |-> records]

\* Mutant: the QoS found in the record is not compared with the caller's.
UpdateSentPublishAnyQoS(records, id, qos) ==
  LET i   == FindInRecord(records, id)
      new == CalculateStatePublish("SEND", qos)
  IN  IF ~Holds(records, id)
        THEN Unchanged(records, "BadParameter")
      ELSE IF ~ValidTransitionPublish(records[i].publishState, new,
                                      "SEND", qos)
        THEN Unchanged(records, "IllegalState")
      ELSE [status  |-> "Success",
            state   |-> new,
            records |-> SetRecordState(records, i, new)]

UpdateSentPublish(records, id, qos) ==
  LET i   == FindInRecord(records, id)
      new == CalculateStatePublish("SEND", qos)
  IN  IF ~Holds(records, id)
        THEN Unchanged(records, "BadParameter")
      ELSE IF records[i].qos # qos
        THEN Unchanged(records, "BadParameter")
      ELSE IF ~ValidTransitionPublish(records[i].publishState, new,
                                      "SEND", qos)
        THEN Unchanged(records, "IllegalState")
      ELSE [status  |-> "Success",
            state   |-> new,
            records |-> SetRecordState(records, i, new)]

\* Mutant: a QoS 1 publish is recorded in the state of a QoS 2 one.
UpdateReceivedPublishSwapped(records, id, qos) ==
  LET new   == CalculateStatePublish("RECEIVE", 3 - qos)
      added == AddRecord(records, id, qos, new)
  IN  [status  |-> added.status,
       state   |-> IF added.status = "Success" THEN new ELSE "StateNull",
       records |-> added.records]

UpdateReceivedPublish(records, id, qos) ==
  LET new   == CalculateStatePublish("RECEIVE", qos)
      added == AddRecord(records, id, qos, new)
  IN  [status  |-> added.status,
       state   |-> IF added.status = "Success" THEN new ELSE "StateNull",
       records |-> added.records]

(* MQTT_UpdateStateAck on the table that IsPublishOutgoing selects.        *)

\* Mutant: the record is added at the end before the old one is deleted.
ApplyAckAddFirst(records, i, new) ==
  IF new = records[i].publishState
    THEN [status |-> "Success", records |-> records]
  ELSE IF new = "PublishDone"
    THEN [status |-> "Success", records |-> DeleteRecord(records, i)]
  ELSE IF new = "PubRelSend"
    THEN LET added == AddRecord(records, records[i].packetId, 2, new)
         IN  [status  |-> added.status,
              records |-> DeleteRecord(added.records, i)]
  ELSE [status |-> "Success", records |-> SetRecordState(records, i, new)]

\* A valid transition of the record in slot i to state new.  PUBREC moves
\* the record to the end, so that PUBRELs keep the order of the PUBRECs.
ApplyAck(records, i, new) ==
  IF new = records[i].publishState
    THEN [status |-> "Success", records |-> records]
  ELSE IF new = "PublishDone"
    THEN [status |-> "Success", records |-> DeleteRecord(records, i)]
  ELSE IF new = "PubRelSend"
    THEN AddRecord(DeleteRecord(records, i), records[i].packetId, 2, new)
  ELSE [status |-> "Success", records |-> SetRecordState(records, i, new)]

UpdateStateAck(records, id, packetType, opType) ==
  LET i       == FindInRecord(records, id)
      new     == CalculateStateAck(packetType, opType, records[i].qos)
      applied == ApplyAck(records, i, new)
  IN  IF ~Holds(records, id)
        THEN Unchanged(records, "BadResponse")
      ELSE IF ~ValidTransitionAck(records[i].publishState, new)
        THEN Unchanged(records, "IllegalState")
      ELSE [status  |-> applied.status,
            state   |-> IF applied.status = "Success"
                          THEN new ELSE "StateNull",
            records |-> applied.records]

(* MQTT_RemoveStateRecord, after its parameter checks.                     *)

RemoveStateRecord(records, id) ==
  IF Holds(records, id)
    THEN [status  |-> "Success",
          records |-> DeleteRecord(records, FindInRecord(records, id))]
    ELSE [status |-> "BadParameter", records |-> records]

-----------------------------------------------------------------------------
(* The resend cursor: how many slots it has passed, 0..n.                  *)

PubrelToResendStates == {"PubCompPending", "PubRelSend"}

PublishToResendStates == {"PublishSend", "PubAckPending", "PubRecPending"}

\* Mutant: the cursor steps over a slot.
SelectableSkipping(records, states, cursor) ==
  {i \in DOMAIN records :
     i > cursor + 1 /\ records[i].publishState \in states}

\* The slots from the cursor on whose record is in one of the states.
Selectable(records, states, cursor) ==
  {i \in DOMAIN records : i > cursor /\ records[i].publishState \in states}

\* The packet the cursor selects and where it leaves the cursor.
StateSelect(records, states, cursor) ==
  LET found == Selectable(records, states, cursor)
      i     == CHOOSE k \in found : \A j \in found : k <= j
  IN  IF found = {}
        THEN [packetId |-> MQTT_PACKET_ID_INVALID,
              cursor   |-> Cardinality(DOMAIN records)]
        ELSE [packetId |-> records[i].packetId, cursor |-> i]

-----------------------------------------------------------------------------
(* What a table says of one packet, and the order of two packets in it.    *)

Flight(records, id) ==
  IF Holds(records, id)
    THEN [qos   |-> records[FindInRecord(records, id)].qos,
          state |-> records[FindInRecord(records, id)].publishState]
    ELSE [qos |-> 0, state |-> "StateNull"]

Progress(records) == [id \in PacketIds |-> Flight(records, id)]

Order(records) ==
  {p \in PacketIds \X PacketIds :
     \E i, j \in DOMAIN records :
       i < j /\ records[i].packetId = p[1] /\ records[j].packetId = p[2]}

At(q, s) == [qos |-> q, state |-> s]

OutgoingFlights ==
  {At(1, "PublishSend"), At(1, "PubAckPending"),
   At(2, "PublishSend"), At(2, "PubRecPending"), At(2, "PubRelSend"),
   At(2, "PubCompPending")}

IncomingFlights ==
  {At(1, "PubAckSend"), At(2, "PubRecSend"), At(2, "PubRelPending"),
   At(2, "PubCompSend")}

UniqueIds(records) ==
  \A i, j \in DOMAIN records :
    /\ Occupied(records[i])
    /\ records[i].packetId = records[j].packetId
    => i = j

WellFormed(records, flights) ==
  \A i \in DOMAIN records :
    IF Occupied(records[i])
      THEN [qos   |-> records[i].qos,
            state |-> records[i].publishState] \in flights
      ELSE records[i] = EmptySlot
=============================================================================
