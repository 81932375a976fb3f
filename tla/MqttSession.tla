----------------------------- MODULE MqttSession -----------------------------
(***************************************************************************)
(* A session that outlives its connections: one thread uses a context with *)
(* publish records for both directions (MQTT_InitStatefulQoS) and with     *)
(* copies of its publishes (MQTT_InitRetransmits), and connects with       *)
(* cleanSession = false.  Whenever a call fails it disconnects and         *)
(* connects again, and MQTT_Connect resumes the session.  Another thread   *)
(* may publish meanwhile; the hooks take a mutex.                          *)
(*                                                                         *)
(* The messages of a direction are numbered in the order in which they are *)
(* published.  The broker, external, behaves as MQTT 3.1.1 prescribes.     *)
(*                                                                         *)
(* A call of the library is one step, except that MQTT_Publish reserves    *)
(* its record and sends in two, and that the resumption selects and sends  *)
(* each packet in two.                                                     *)
(***************************************************************************)
EXTENDS PublishRecords, Sequences

CONSTANTS
  OutgoingPublishCount,  \* size of pOutgoingPublishRecords
  IncomingPublishCount,  \* size of pIncomingPublishRecords
  UINT16_MAX,            \* the largest packet identifier
  OutMessages,           \* bound: messages the application publishes
  InMessages,            \* bound: messages the broker has for the client
  PublishQoS,            \* the QoS > 0 in use
  PublishSendMayFail,    \* can the send of a PUBLISH report a failure?
  StoreMayFail,          \* can storeFunction report a failure?
  PublishesWhileResuming, \* does a thread publish during a resumption?
  MaxLinkBreaks,         \* bound: connections that break
  MaxSessionLosses       \* bound: how often the broker forgets the session

ASSUME SessionAssumption ==
  /\ OutgoingPublishCount \in Nat
  /\ IncomingPublishCount \in Nat
  /\ OutMessages \in Nat
  /\ InMessages \in Nat
  /\ UINT16_MAX \in Nat \ {0}
  /\ PacketIds = 1..UINT16_MAX
  /\ MQTT_PACKET_ID_INVALID = 0
  /\ PublishQoS \subseteq 1..2
  /\ {PublishSendMayFail, StoreMayFail, PublishesWhileResuming}
       \subseteq BOOLEAN

VARIABLES
  \* The context.
  connectStatus, nextPacketId, outgoing, incoming,
  \* The application: the copies of its publishes, the message
  \* it last published under each identifier, how many it has published,
  \* which of them MQTT_Publish has accepted, which of them the callback has
  \* reported as acknowledged, which incoming ones the callback has seen, and
  \* which QoS 2 ones it has seen again.
  stored, messageOf, published, accepted, acknowledged, received,
  receivedAgain,
  \* The calling thread: where MQTT_Connect is, its resend cursor, the packet
  \* it has selected, and what the last call of MQTT_ProcessLoop returned.
  pc, cursor, selected, processStatus,
  \* The PUBLISH that MQTT_Publish has reserved a record for and not yet sent.
  publishing,
  \* The network.
  link, toBroker, toClient, breaks,
  \* The broker: does it have the session, QoS 2 identifiers it has taken,
  \* messages in the order in which it first delivered them, QoS 2 messages
  \* it delivered again, unacknowledged publishes to the client, how many
  \* messages it has sent, which of them it has seen acknowledged, losses.
  session, taken, arrivals, repeated, outbound, sent, settled, losses

contextVars == <<connectStatus, nextPacketId, outgoing, incoming>>
receivedVars == <<received, receivedAgain>>
appVars     == <<stored, messageOf, published, accepted, acknowledged,
                 receivedVars>>
cursorVars  == <<cursor, selected>>
threadVars  == <<pc, cursorVars, processStatus, publishing>>
netVars     == <<link, toBroker, toClient, breaks>>
brokerVars  == <<session, taken, arrivals, repeated, outbound, sent,
                 settled, losses>>
vars == <<contextVars, appVars, threadVars, netVars, brokerVars>>

Ack(type, id) == [type |-> type, packetId |-> id]

Publish(id, qos, message) ==
  [type |-> "Publish", packetId |-> id, qos |-> qos, message |-> message]

Nothing == [type |-> "Nothing"]

Init ==
  /\ connectStatus = "NotConnected"
  /\ nextPacketId = 1
  /\ outgoing = EmptyTable(OutgoingPublishCount)
  /\ incoming = EmptyTable(IncomingPublishCount)
  /\ stored = {}
  /\ messageOf = [id \in PacketIds |-> 0]
  /\ published = 0
  /\ accepted = {}
  /\ acknowledged = {}
  /\ received = {}
  /\ receivedAgain = {}
  /\ pc = "idle"
  /\ cursor = 0
  /\ selected = Nothing
  /\ processStatus = "Success"
  /\ publishing = Nothing
  /\ link = "down"
  /\ toBroker = <<>>
  /\ toClient = <<>>
  /\ breaks = 0
  /\ session = FALSE
  /\ taken = {}
  /\ arrivals = <<>>
  /\ repeated = {}
  /\ outbound = <<>>
  /\ sent = 0
  /\ settled = {}
  /\ losses = 0

-----------------------------------------------------------------------------
(* Sending.                                                                *)

\* A packet is sent, and inbox is what is left to read.  ok says whether the
\* transport reports success; what a breaking connection is given is lost.
Transfer(ok, packet, inbox) ==
  \/ /\ link = "up" /\ ok
     /\ toBroker' = Append(toBroker, packet)
     /\ toClient' = inbox
     /\ UNCHANGED <<link, breaks>>
  \/ /\ link = "up" /\ ~ok
     /\ breaks < MaxLinkBreaks
     /\ breaks' = breaks + 1
     /\ link' = "broken"
     /\ toBroker' = <<>>
     /\ toClient' = <<>>
  \/ /\ link = "broken"
     /\ UNCHANGED netVars

\* A send that fails gives the connection up, one that times out does not.
StatusAfterSend(ok) ==
  IF ok THEN {connectStatus} ELSE {"Connected", "DisconnectPending"}

Copies(id) == {copy \in stored : copy.packetId = id}

CopiesBut(id) == stored \ Copies(id)

NextPacketId(id) == IF id = UINT16_MAX THEN 1 ELSE id + 1

-----------------------------------------------------------------------------
(* MQTT_Publish, as mqttPublish calls it.                                  *)

\* Nobody is between the hooks.
Unlocked == publishing = Nothing

Idle == pc = "idle" /\ Unlocked

MayPublish ==
  /\ Unlocked
  /\ pc = "idle" \/ PublishesWhileResuming
  /\ published < OutMessages

\* The call is refused: the message is published later, the identifier is
\* used up.
PublishRefused ==
  /\ MayPublish
  /\ nextPacketId' = NextPacketId(nextPacketId)
  /\ IF connectStatus # "Connected"
       THEN UNCHANGED outgoing
       ELSE LET added == AddRecord(outgoing, nextPacketId, 1, "PublishSend")
            IN  /\ added.status # "Success"
                /\ outgoing' = added.records
  /\ UNCHANGED <<connectStatus, incoming, appVars, threadVars, netVars,
                 brokerVars>>

\* A record is reserved.
Reserve(q) ==
  LET id    == nextPacketId
      added == AddRecord(outgoing, id, q, "PublishSend")
  IN  /\ MayPublish
      /\ connectStatus = "Connected"
      /\ added.status = "Success"
      /\ outgoing' = added.records
      /\ nextPacketId' = NextPacketId(id)
      /\ published' = published + 1
      /\ messageOf' = [messageOf EXCEPT ![id] = published + 1]
      /\ publishing' = Publish(id, q, published + 1)
      /\ UNCHANGED <<connectStatus, incoming, stored, accepted, acknowledged,
                     receivedVars, pc, cursorVars, processStatus, netVars,
                     brokerVars>>

\* The copy cannot be stored: nothing is sent, and the record stays.
PublishNotStored ==
  /\ StoreMayFail
  /\ ~Unlocked
  /\ publishing' = Nothing
  /\ UNCHANGED <<contextVars, appVars, pc, cursorVars, processStatus, netVars,
                 brokerVars>>

\* Mutant: no copy is stored.
PublishSentUnstored ==
  /\ ~Unlocked
  /\ publishing' = Nothing
  /\ Transfer(TRUE, publishing, toClient)
  /\ outgoing' = UpdateSentPublish(outgoing, publishing.packetId,
                                   publishing.qos).records
  /\ accepted' = accepted \cup {publishing.message}
  /\ UNCHANGED <<connectStatus, nextPacketId, incoming, stored, messageOf,
                 published, acknowledged, receivedVars, pc, cursorVars,
                 processStatus, brokerVars>>

\* The copy is stored, the packet sent and the record updated.
PublishSent ==
  /\ ~Unlocked
  /\ publishing' = Nothing
  /\ stored' = CopiesBut(publishing.packetId) \cup {publishing}
  /\ Transfer(TRUE, publishing, toClient)
  /\ outgoing' = UpdateSentPublish(outgoing, publishing.packetId,
                                   publishing.qos).records
  /\ accepted' = accepted \cup {publishing.message}
  /\ UNCHANGED <<connectStatus, nextPacketId, incoming, messageOf, published,
                 acknowledged, receivedVars, pc, cursorVars, processStatus,
                 brokerVars>>

\* The record stays as it was reserved.
PublishNotSent ==
  /\ PublishSendMayFail
  /\ ~Unlocked
  /\ publishing' = Nothing
  /\ stored' = CopiesBut(publishing.packetId) \cup {publishing}
  /\ Transfer(FALSE, publishing, toClient)
  /\ connectStatus' \in StatusAfterSend(FALSE)
  /\ UNCHANGED <<nextPacketId, outgoing, incoming, messageOf, published,
                 accepted, acknowledged, receivedVars, pc, cursorVars,
                 processStatus, brokerVars>>

-----------------------------------------------------------------------------
(* MQTT_ProcessLoop, for the packet at the head of toClient.  The          *)
(* application calls it while it takes itself to be connected.             *)

Arrived(types) ==
  /\ Idle
  /\ connectStatus = "Connected"
  /\ processStatus = "Success"
  /\ link = "up"
  /\ toClient # <<>>
  /\ Head(toClient).type \in types

\* recv has nothing, and keep alive is not due.
ReceiveNothing ==
  /\ Idle
  /\ connectStatus = "Connected"
  /\ processStatus = "Success"
  /\ link = "up"
  /\ toClient = <<>>
  /\ UNCHANGED vars

ReceiveFails ==
  /\ Idle
  /\ processStatus = "Success"
  /\ link = "broken"
  /\ processStatus' = "RecvFailed"
  /\ connectStatus' = IF connectStatus = "Connected"
                        THEN "DisconnectPending" ELSE connectStatus
  /\ UNCHANGED <<nextPacketId, outgoing, incoming, appVars, pc, cursorVars,
                 publishing, netVars, brokerVars>>

\* Mutant: clearFunction is not called.
HandlePubackOrPubcompUncleared ==
  /\ Arrived({"Puback", "Pubcomp"})
  /\ LET ack     == Head(toClient)
         id      == ack.packetId
         updated == UpdateStateAck(outgoing, id, ack.type, "RECEIVE")
     IN  /\ outgoing' = updated.records
         /\ processStatus' = updated.status
         /\ acknowledged' = IF updated.status = "Success"
                              THEN acknowledged \cup {messageOf[id]}
                              ELSE acknowledged
  /\ toClient' = Tail(toClient)
  /\ UNCHANGED <<connectStatus, nextPacketId, incoming, stored, messageOf,
                 published, accepted, receivedVars, pc, cursorVars,
                 publishing, link, toBroker, breaks, brokerVars>>

\* PUBACK and PUBCOMP end a publish, once the record allows it.
HandlePubackOrPubcomp ==
  /\ Arrived({"Puback", "Pubcomp"})
  /\ LET ack     == Head(toClient)
         id      == ack.packetId
         updated == UpdateStateAck(outgoing, id, ack.type, "RECEIVE")
         success == updated.status = "Success"
     IN  /\ outgoing' = updated.records
         /\ processStatus' = updated.status
         /\ stored' = IF success /\ ack.type = "Puback"
                        THEN CopiesBut(id) ELSE stored
         /\ acknowledged' = IF success
                              THEN acknowledged \cup {messageOf[id]}
                              ELSE acknowledged
  /\ toClient' = Tail(toClient)
  /\ UNCHANGED <<connectStatus, nextPacketId, incoming, messageOf, published,
                 accepted, receivedVars, pc, cursorVars, publishing, link,
                 toBroker, breaks, brokerVars>>

\* Mutant: the PUBREL is sent, record and copy stay as they are.
HandlePubrecUnrecorded(ok) ==
  /\ Arrived({"Pubrec"})
  /\ Transfer(ok, Ack("Pubrel", Head(toClient).packetId), Tail(toClient))
  /\ connectStatus' \in StatusAfterSend(ok)
  /\ processStatus' = IF ok THEN "Success" ELSE "SendFailed"
  /\ UNCHANGED <<nextPacketId, outgoing, incoming, appVars, pc, cursorVars,
                 publishing, brokerVars>>

\* PUBREC is answered by PUBREL.
HandlePubrec(ok) ==
  LET id       == Head(toClient).packetId
      updated  == UpdateStateAck(outgoing, id, "Pubrec", "RECEIVE")
      finished == UpdateStateAck(updated.records, id, "Pubrel", "SEND")
  IN  /\ Arrived({"Pubrec"})
      /\ IF updated.status # "Success"
           THEN /\ ok
                /\ outgoing' = updated.records
                /\ processStatus' = updated.status
                /\ toClient' = Tail(toClient)
                /\ UNCHANGED <<connectStatus, stored, link, toBroker, breaks>>
           ELSE /\ stored' = CopiesBut(id)
                /\ Transfer(ok, Ack("Pubrel", id), Tail(toClient))
                /\ outgoing' = IF ok THEN finished.records
                               ELSE updated.records
                /\ processStatus' = IF ok THEN finished.status
                                    ELSE "SendFailed"
                /\ connectStatus' \in StatusAfterSend(ok)
      /\ UNCHANGED <<nextPacketId, incoming, messageOf, published, accepted,
                     acknowledged, receivedVars, pc, cursorVars, publishing,
                     brokerVars>>

\* appCallback is given a publish.
CallbackSees(publish) ==
  /\ received' = received \cup {publish.message}
  /\ receivedAgain' = IF publish.qos = 2 /\ publish.message \in received
                        THEN receivedAgain \cup {publish.message}
                        ELSE receivedAgain

\* Mutant: the application sees a duplicate publish too.
HandlePublishNoDuplicates(ok) ==
  LET publish  == Head(toClient)
      id       == publish.packetId
      updated  == UpdateReceivedPublish(incoming, id, publish.qos)
      type     == IF publish.qos = 1 THEN "Puback" ELSE "Pubrec"
      finished == UpdateStateAck(updated.records, id, type, "SEND")
  IN  /\ Arrived({"Publish"})
      /\ updated.status # "NoMemory"
      /\ CallbackSees(publish)
      /\ Transfer(ok, Ack(type, id), Tail(toClient))
      /\ incoming' = IF ok THEN finished.records ELSE updated.records
      /\ processStatus' = IF ok THEN finished.status ELSE "SendFailed"
      /\ connectStatus' \in StatusAfterSend(ok)
      /\ UNCHANGED <<nextPacketId, outgoing, stored, messageOf, published,
                     accepted, acknowledged, pc, cursorVars, publishing,
                     brokerVars>>

\* Mutant: whatever the state engine refuses is taken for a duplicate.
HandlePublishAnyDuplicate(ok) ==
  LET publish  == Head(toClient)
      id       == publish.packetId
      updated  == UpdateReceivedPublish(incoming, id, publish.qos)
      type     == IF publish.qos = 1 THEN "Puback" ELSE "Pubrec"
      finished == UpdateStateAck(updated.records, id, type, "SEND")
  IN  /\ Arrived({"Publish"})
      /\ IF updated.status # "Success"
           THEN UNCHANGED receivedVars
           ELSE CallbackSees(publish)
      /\ Transfer(ok, Ack(type, id), Tail(toClient))
      /\ incoming' = IF ok THEN finished.records ELSE updated.records
      /\ processStatus' = IF ok THEN finished.status ELSE "SendFailed"
      /\ connectStatus' \in StatusAfterSend(ok)
      /\ UNCHANGED <<nextPacketId, outgoing, stored, messageOf, published,
                     accepted, acknowledged, pc, cursorVars, publishing,
                     brokerVars>>

\* A PUBLISH is handed to the application unless its identifier is in use,
\* then answered by PUBACK or PUBREC.  Without a record there is no answer.
HandlePublish(ok) ==
  LET publish  == Head(toClient)
      id       == publish.packetId
      updated  == UpdateReceivedPublish(incoming, id, publish.qos)
      type     == IF publish.qos = 1 THEN "Puback" ELSE "Pubrec"
      finished == UpdateStateAck(updated.records, id, type, "SEND")
  IN  /\ Arrived({"Publish"})
      /\ IF updated.status = "NoMemory"
           THEN /\ ok
                /\ incoming' = updated.records
                /\ processStatus' = "NoMemory"
                /\ toClient' = Tail(toClient)
                /\ UNCHANGED <<connectStatus, receivedVars, link, toBroker,
                               breaks>>
           ELSE /\ IF updated.status = "StateCollision"
                     THEN UNCHANGED receivedVars
                     ELSE CallbackSees(publish)
                /\ Transfer(ok, Ack(type, id), Tail(toClient))
                /\ incoming' = IF ok THEN finished.records
                               ELSE updated.records
                /\ processStatus' = IF ok THEN finished.status
                                    ELSE "SendFailed"
                /\ connectStatus' \in StatusAfterSend(ok)
      /\ UNCHANGED <<nextPacketId, outgoing, stored, messageOf, published,
                     accepted, acknowledged, pc, cursorVars, publishing,
                     brokerVars>>

\* PUBREL is answered by PUBCOMP, which ends the record.
HandlePubrel(ok) ==
  LET id       == Head(toClient).packetId
      updated  == UpdateStateAck(incoming, id, "Pubrel", "RECEIVE")
      finished == UpdateStateAck(updated.records, id, "Pubcomp", "SEND")
  IN  /\ Arrived({"Pubrel"})
      /\ IF updated.status # "Success"
           THEN /\ ok
                /\ incoming' = updated.records
                /\ processStatus' = updated.status
                /\ toClient' = Tail(toClient)
                /\ UNCHANGED <<connectStatus, link, toBroker, breaks>>
           ELSE /\ Transfer(ok, Ack("Pubcomp", id), Tail(toClient))
                /\ incoming' = IF ok THEN finished.records
                               ELSE updated.records
                /\ processStatus' = IF ok THEN finished.status
                                    ELSE "SendFailed"
                /\ connectStatus' \in StatusAfterSend(ok)
      /\ UNCHANGED <<nextPacketId, outgoing, appVars, pc, cursorVars,
                     publishing, brokerVars>>

-----------------------------------------------------------------------------
(* MQTT_Connect with cleanSession = false, and MQTT_Disconnect.            *)

\* The application gives the connection up after an error: MQTT_Disconnect,
\* then it closes the socket.
Disconnect ==
  /\ Idle
  /\ processStatus # "Success" \/ connectStatus = "DisconnectPending"
  /\ connectStatus' = "NotConnected"
  /\ processStatus' = "Success"
  /\ link' = "down"
  /\ toBroker' = <<>>
  /\ toClient' = <<>>
  /\ UNCHANGED <<nextPacketId, outgoing, incoming, appVars, pc, cursorVars,
                 publishing, breaks, brokerVars>>

\* clearFunction is called for the publishes that would be resent.
Cleared ==
  {copy \in stored :
     ~ \E i \in DOMAIN outgoing :
         /\ outgoing[i].packetId = copy.packetId
         /\ outgoing[i].publishState \in PublishToResendStates}

\* The broker has no session: handleCleanSession.
ConnectNewSession ==
  /\ Idle
  /\ connectStatus = "NotConnected"
  /\ ~session
  /\ session' = TRUE
  /\ stored' = Cleared
  /\ outgoing' = EmptyTable(OutgoingPublishCount)
  /\ incoming' = EmptyTable(IncomingPublishCount)
  /\ connectStatus' = "Connected"
  /\ link' = "up"
  /\ UNCHANGED <<nextPacketId, messageOf, published, accepted, acknowledged,
                 receivedVars, threadVars, toBroker, toClient, breaks, taken,
                 arrivals, repeated, outbound, sent, settled, losses>>

\* The broker has the session and sends again what is unacknowledged.
ConnectResumedSession ==
  /\ Idle
  /\ connectStatus = "NotConnected"
  /\ session
  /\ connectStatus' = "Connected"
  /\ link' = "up"
  /\ toClient' = outbound
  /\ pc' = "pubrels"
  /\ cursor' = 0
  /\ UNCHANGED <<nextPacketId, outgoing, incoming, appVars, selected,
                 processStatus, publishing, toBroker, breaks, brokerVars>>

\* What handleUncleanSessionResumption selects next.  It reads the records
\* outside the hooks.
Selection ==
  StateSelect(outgoing,
              IF pc = "pubrels" THEN PubrelToResendStates
                                ELSE PublishToResendStates, cursor)

Selecting(step) ==
  /\ pc = step
  /\ selected = Nothing
  /\ Selection.packetId # MQTT_PACKET_ID_INVALID
  /\ cursor' = Selection.cursor
  /\ UNCHANGED <<contextVars, appVars, processStatus, publishing, netVars,
                 brokerVars>>

SelectionEnds ==
  /\ pc \in {"pubrels", "publishes"}
  /\ selected = Nothing
  /\ Selection.packetId = MQTT_PACKET_ID_INVALID
  /\ pc' = IF pc = "pubrels" THEN "publishes" ELSE "idle"
  /\ cursor' = 0
  /\ UNCHANGED <<contextVars, appVars, selected, processStatus, publishing,
                 netVars, brokerVars>>

SelectPubrel ==
  /\ Selecting("pubrels")
  /\ selected' = Ack("Pubrel", Selection.packetId)
  /\ UNCHANGED pc

\* retrieveFunction finds the copy.
SelectPublish ==
  /\ Selecting("publishes")
  /\ \E copy \in Copies(Selection.packetId) : selected' = copy
  /\ UNCHANGED pc

\* retrieveFunction has no copy: MQTTPublishRetrieveFailed.
RetrieveFails ==
  /\ Selecting("publishes")
  /\ Copies(Selection.packetId) = {}
  /\ pc' = "failing"
  /\ UNCHANGED selected

\* Mutant: a resent PUBREL is not recorded.
ResendPubrelUnrecorded(ok) ==
  /\ pc = "pubrels"
  /\ Unlocked
  /\ selected # Nothing
  /\ selected' = Nothing
  /\ Transfer(ok, selected, toClient)
  /\ connectStatus' \in StatusAfterSend(ok)
  /\ pc' = IF ok THEN pc ELSE "failing"
  /\ UNCHANGED <<nextPacketId, outgoing, incoming, appVars, cursor,
                 processStatus, publishing, brokerVars>>

\* sendPublishAcks: a PUBREL is only sent over a connection that has not been
\* given up.
ResendPubrel(ok) ==
  LET finished == UpdateStateAck(outgoing, selected.packetId, "Pubrel", "SEND")
  IN  /\ pc = "pubrels"
      /\ Unlocked
      /\ selected # Nothing
      /\ selected' = Nothing
      /\ IF connectStatus = "Connected"
           THEN /\ Transfer(ok, selected, toClient)
                /\ connectStatus' \in StatusAfterSend(ok)
                /\ outgoing' = IF ok THEN finished.records ELSE outgoing
                /\ pc' = IF ok /\ finished.status = "Success"
                           THEN pc ELSE "failing"
           ELSE /\ ~ok
                /\ pc' = "failing"
                /\ UNCHANGED <<connectStatus, outgoing, netVars>>
      /\ UNCHANGED <<nextPacketId, incoming, appVars, cursor, processStatus,
                     publishing, brokerVars>>

\* The copy is sent as it was stored; the record is not touched.
ResendPublish(ok) ==
  /\ pc = "publishes"
  /\ Unlocked
  /\ selected # Nothing
  /\ selected' = Nothing
  /\ Transfer(ok, selected, toClient)
  /\ connectStatus' \in StatusAfterSend(ok)
  /\ pc' = IF ok THEN pc ELSE "failing"
  /\ UNCHANGED <<nextPacketId, outgoing, incoming, appVars, cursor,
                 processStatus, publishing, brokerVars>>

\* MQTT_Connect gives the connection up when the resumption failed.
ConnectFails ==
  /\ pc = "failing"
  /\ Unlocked
  /\ connectStatus' = "DisconnectPending"
  /\ pc' = "idle"
  /\ cursor' = 0
  /\ UNCHANGED <<nextPacketId, outgoing, incoming, appVars, selected,
                 processStatus, publishing, netVars, brokerVars>>

-----------------------------------------------------------------------------
(* The broker and the network.                                             *)

BrokerReads(types) ==
  /\ link = "up"
  /\ toBroker # <<>>
  /\ Head(toBroker).type \in types
  /\ toBroker' = Tail(toBroker)

Delivered(m) == \E i \in DOMAIN arrivals : arrivals[i] = m

\* A QoS 2 publish whose identifier the broker holds is not delivered again.
BrokerTakesPublish ==
  /\ BrokerReads({"Publish"})
  /\ LET p   == Head(toBroker)
         new == p.qos = 1 \/ p.packetId \notin taken
     IN  /\ arrivals' = IF new /\ ~Delivered(p.message)
                          THEN Append(arrivals, p.message) ELSE arrivals
         /\ repeated' = IF new /\ p.qos = 2 /\ Delivered(p.message)
                          THEN repeated \cup {p.message} ELSE repeated
         /\ taken' = IF p.qos = 2 THEN taken \cup {p.packetId} ELSE taken
         /\ toClient' = Append(toClient,
              Ack(IF p.qos = 1 THEN "Puback" ELSE "Pubrec", p.packetId))
  /\ UNCHANGED <<contextVars, appVars, threadVars, link, breaks, session,
                 outbound, sent, settled, losses>>

BrokerTakesPubrel ==
  /\ BrokerReads({"Pubrel"})
  /\ taken' = taken \ {Head(toBroker).packetId}
  /\ toClient' = Append(toClient, Ack("Pubcomp", Head(toBroker).packetId))
  /\ UNCHANGED <<contextVars, appVars, threadVars, link, breaks, session,
                 arrivals, repeated, outbound, sent, settled, losses>>

Outstanding(id) == {i \in DOMAIN outbound : outbound[i].packetId = id}

Without(sequence, i) ==
  SubSeq(sequence, 1, i - 1) \o SubSeq(sequence, i + 1, Len(sequence))

BrokerSendsPublish(id, q) ==
  /\ link = "up"
  /\ sent < InMessages
  /\ Outstanding(id) = {}
  /\ sent' = sent + 1
  /\ outbound' = Append(outbound, Publish(id, q, sent + 1))
  /\ toClient' = Append(toClient, Publish(id, q, sent + 1))
  /\ UNCHANGED <<contextVars, appVars, threadVars, link, toBroker, breaks,
                 session, taken, arrivals, repeated, settled, losses>>

\* The client owns the message now.
BrokerTakesPubackOrPubrec ==
  /\ BrokerReads({"Puback", "Pubrec"})
  /\ LET ack == Head(toBroker)
     IN  \E i \in Outstanding(ack.packetId) :
           IF outbound[i].type = "Publish"
             THEN /\ settled' = settled \cup {outbound[i].message}
                  /\ IF ack.type = "Puback"
                       THEN /\ outbound' = Without(outbound, i)
                            /\ UNCHANGED toClient
                       ELSE /\ outbound' = Append(Without(outbound, i),
                                              Ack("Pubrel", ack.packetId))
                            /\ toClient' = Append(toClient,
                                              Ack("Pubrel", ack.packetId))
             ELSE UNCHANGED <<settled, outbound, toClient>>
  /\ UNCHANGED <<contextVars, appVars, threadVars, link, breaks, session,
                 taken, arrivals, repeated, sent, losses>>

BrokerTakesPubcomp ==
  /\ BrokerReads({"Pubcomp"})
  /\ \E i \in Outstanding(Head(toBroker).packetId) :
       outbound' = Without(outbound, i)
  /\ UNCHANGED <<contextVars, appVars, threadVars, link, toClient, breaks,
                 session, taken, arrivals, repeated, sent, settled, losses>>

\* The broker restarts without its state, between two connections.
BrokerForgets ==
  /\ link = "down"
  /\ session
  /\ losses < MaxSessionLosses
  /\ losses' = losses + 1
  /\ session' = FALSE
  /\ taken' = {}
  /\ outbound' = <<>>
  /\ UNCHANGED <<contextVars, appVars, threadVars, netVars, arrivals,
                 repeated, sent, settled>>

LinkBreaks ==
  /\ link = "up"
  /\ breaks < MaxLinkBreaks
  /\ breaks' = breaks + 1
  /\ link' = "broken"
  /\ toBroker' = <<>>
  /\ toClient' = <<>>
  /\ UNCHANGED <<contextVars, appVars, threadVars, brokerVars>>

-----------------------------------------------------------------------------
ProcessLoop ==
  \/ ReceiveNothing \/ ReceiveFails \/ HandlePubackOrPubcomp
  \/ \E ok \in BOOLEAN :
       HandlePubrec(ok) \/ HandlePublish(ok) \/ HandlePubrel(ok)

Connect ==
  \/ ConnectNewSession \/ ConnectResumedSession
  \/ SelectionEnds \/ SelectPubrel \/ SelectPublish \/ RetrieveFails
  \/ ConnectFails
  \/ \E ok \in BOOLEAN : ResendPubrel(ok) \/ ResendPublish(ok)

MQTT_Publish ==
  \/ PublishRefused
  \/ \E q \in PublishQoS : Reserve(q)
  \/ PublishNotStored \/ PublishSent \/ PublishNotSent

Broker ==
  \/ BrokerTakesPublish \/ BrokerTakesPubrel
  \/ BrokerTakesPubackOrPubrec \/ BrokerTakesPubcomp

Next ==
  \/ MQTT_Publish \/ ProcessLoop \/ Connect \/ Disconnect
  \/ Broker
  \/ \E id \in PacketIds, q \in PublishQoS : BrokerSendsPublish(id, q)
  \/ BrokerForgets \/ LinkBreaks

Spec == Init /\ [][Next]_vars

\* The application keeps calling MQTT_ProcessLoop, MQTT_Connect and
\* MQTT_Disconnect, a call of MQTT_Publish ends, and the broker reads what it
\* is sent.
FairSpec ==
  /\ Spec
  /\ WF_vars(ProcessLoop \/ Connect \/ Disconnect)
  /\ WF_vars(PublishNotStored \/ PublishSent \/ PublishNotSent)
  /\ WF_vars(Broker)

-----------------------------------------------------------------------------
(* Properties.                                                             *)

\* A QoS 2 message reaches the broker's subscribers at most once, whatever
\* is sent again (handleUncleanSessionResumption).
DeliveredAtMostOnce == repeated = {}

\* What the callback reports as acknowledged has been delivered
\* (handlePublishAcks).
AcknowledgedIsDelivered == \A m \in acknowledged : Delivered(m)

\* The broker sees the messages for the first time in the order in which
\* they were published, whatever compaction and resending do to the records
\* (compactRecords, MQTT_PublishToResend).
FirstDeliveriesInOrder ==
  \A i, j \in DOMAIN arrivals : i < j => arrivals[i] < arrivals[j]

\* For every publish that a resumption would send again there is a copy, of
\* the message it stands for, unless MQTT_Publish is just about to store it
\* (sendPublishWithoutCopy, clearFunction).
ResendableIsStored ==
  \A i \in DOMAIN outgoing :
    /\ outgoing[i].publishState \in PublishToResendStates
    /\ publishing # Publish(outgoing[i].packetId, outgoing[i].qos, published)
    =>
      LET id == outgoing[i].packetId
      IN  Copies(id) = {Publish(id, outgoing[i].qos, messageOf[id])}

\* Every copy belongs to a publish that a resumption would send again, and is
\* the message last published under its identifier: none outlives its record,
\* whether the publish is acknowledged or its session lost (clearFunction).
CopiesBelongToRecords ==
  \A copy \in stored :
    \E i \in DOMAIN outgoing :
      /\ outgoing[i].packetId = copy.packetId
      /\ outgoing[i].qos = copy.qos
      /\ outgoing[i].publishState \in PublishToResendStates
      /\ copy.message = messageOf[copy.packetId]

\* The callback sees a QoS 2 message of the broker at most once
\* (handleIncomingPublish, duplicatePublish).
ReceivedAtMostOnce == receivedAgain = {}

\* The broker is told that the client has a message only after the callback
\* has seen it (handleIncomingPublish).
SettledIsReceived == settled \subseteq received

\* No acknowledgement meets a record that cannot take it: "If an ack was
\* sent/received we shouldn't have been in this state" and "the record
\* should exist" (validateTransitionAck).
AcksMeetTheirRecords == processStatus \notin {"IllegalState", "BadResponse"}

\* Every message MQTT_Publish accepted is acknowledged in the end, once
\* connections cease to break.
AcceptedIsAcknowledged ==
  \A m \in 1..OutMessages : m \in accepted ~> m \in acknowledged

\* A record that was reserved is released in the end, whether its publish
\* could be sent at once or not.
RecordsAreReleased ==
  \A id \in PacketIds : Holds(outgoing, id) ~> ~Holds(outgoing, id)
=============================================================================
