---------------------------- MODULE ClientThreads ----------------------------
(***************************************************************************)
(* One MQTT context shared by the client task of api/mqtt_api.c, which     *)
(* connects, runs MQTT_ProcessLoop and disconnects, and by application     *)
(* threads that call mqttPublish, such as the mqtt_pub shell command.      *)
(*                                                                         *)
(* The library brackets its accesses to the context with                   *)
(* MQTT_PRE_STATE_UPDATE_HOOK and MQTT_POST_STATE_UPDATE_HOOK.  MutexHooks *)
(* says whether the hooks take and give a mutex; as built by this          *)
(* repository they are empty.                                              *)
(*                                                                         *)
(* A call of the state engine is one step (module PublishRecords), and so  *)
(* is a call of the transport's send.  A PUBLISH takes several calls of    *)
(* send: here its "head" and its "rest".  Only outgoing publishes are      *)
(* modelled: mqttInit gives the context no records for incoming ones.      *)
(***************************************************************************)
EXTENDS PublishRecords, Sequences

CONSTANTS
  OutgoingPublishCount,  \* MQTT_OUTGOING_PUBLISH_COUNT
  UINT16_MAX,            \* the largest packet identifier
  Publishers,            \* the application threads
  Client,                \* the thread that runs mqttClientTask
  NoThread,              \* the holder of a mutex that is free
  MutexHooks,            \* do the state update hooks take a mutex?
  PublishQoS,            \* the QoS > 0 that publishers use
  PublishDup,            \* the dup flags that publishers pass
  MaxWire,               \* bound: packets in flight in one direction
  MaxLinkBreaks          \* bound: connections lost for no reason of ours

ASSUME ThreadsAssumption ==
  /\ Client \notin Publishers
  /\ NoThread \notin Publishers \cup {Client}
  /\ MutexHooks \in BOOLEAN
  /\ OutgoingPublishCount \in Nat
  /\ PublishQoS \subseteq 1..2
  /\ PublishDup \subseteq BOOLEAN

ASSUME IdentifiersAssumption ==
  /\ UINT16_MAX \in Nat \ {0}
  /\ PacketIds = 1..UINT16_MAX

VARIABLES
  connectStatus,  \* pContext->connectStatus
  nextPacketId,   \* pContext->nextPacketId
  outgoing,       \* pContext->outgoingPublishRecords
  mutex,          \* the thread between the two hooks, if they take a mutex
  pc,             \* where each thread is
  job,            \* what each publisher is sending
  lastStatus,     \* what the last step of the client task returned
  released,       \* the publish whose PUBREL the client task is to send
  link,           \* the TCP connection of networkContext.socket
  wire,           \* sent and not yet read by the broker: the "head" and "rest"
                  \* of PUBLISH packets, PUBREL, DISCONNECT, and the "torn"
                  \* first bytes of a PUBREL or DISCONNECT that timed out
  replies,        \* what the broker sent and the client has not read
  breaks          \* how many times the network has broken the connection

contextVars == <<connectStatus, nextPacketId, outgoing>>
clientVars  == <<lastStatus, released>>
netVars     == <<link, wire, replies, breaks>>
vars == <<contextVars, mutex, pc, job, clientVars, netVars>>

Threads == Publishers \cup {Client}

NoJob == [packetId |-> MQTT_PACKET_ID_INVALID, qos |-> 1, dup |-> FALSE]

Init ==
  /\ connectStatus = "NotConnected"
  /\ nextPacketId = 1
  /\ outgoing = EmptyTable(OutgoingPublishCount)
  /\ mutex = NoThread
  /\ pc = [t \in Threads |-> IF t = Client THEN "connect" ELSE "idle"]
  /\ job = [p \in Publishers |-> NoJob]
  /\ lastStatus = "Success"
  /\ released = MQTT_PACKET_ID_INVALID
  /\ link = "down"
  /\ wire = <<>>
  /\ replies = <<>>
  /\ breaks = 0

-----------------------------------------------------------------------------
(* The hooks, and calls of the transport.                                  *)

\* Thread t enters a section of several steps.
PreHook(t) ==
  IF MutexHooks THEN mutex = NoThread /\ mutex' = t ELSE UNCHANGED mutex

\* Thread t leaves it.
PostHook(t) == IF MutexHooks THEN mutex' = NoThread ELSE UNCHANGED mutex

\* Mutant: the section is not bracketed by the hooks.
HookSectionUnguarded == UNCHANGED mutex

\* A section of a single step.
HookSection ==
  /\ MutexHooks => mutex = NoThread
  /\ UNCHANGED mutex

Goto(t, step) == pc' = [pc EXCEPT ![t] = step]

\* send() takes the bytes; on a broken connection they may be lost unseen.
Transmit(chunk) ==
  \/ /\ link \in {"tcp", "up"}
     /\ Len(wire) < MaxWire
     /\ wire' = Append(wire, chunk)
  \/ /\ link = "broken"
     /\ UNCHANGED wire

SendFails == link \in {"down", "broken"}

\* What a sendBuffer that gives up after MQTT_SEND_TIMEOUT_MS has sent, on a
\* connection that works: nothing, or a part of its packet.
CutShort ==
  \/ UNCHANGED wire
  \/ /\ link \in {"tcp", "up"}
     /\ Len(wire) < MaxWire
     /\ wire' = Append(wire, [type |-> "torn"])

\* A send whose failure makes no difference to the caller.
TransmitIfAble(chunk) == Transmit(chunk) \/ CutShort

\* What a failing send or recv does to the status, as a single step.
GiveUpConnection ==
  connectStatus' = IF connectStatus = "Connected"
                     THEN "DisconnectPending" ELSE connectStatus

-----------------------------------------------------------------------------
(* mqttPublish and MQTT_Publish in thread p.                               *)

\* Mutant: the identifier is read outside the hooks' section.
GetPacketIdUnguarded(p) ==
  /\ pc[p] = "idle"
  /\ job' = [job EXCEPT ![p] = [NoJob EXCEPT !.packetId = nextPacketId]]
  /\ Goto(p, "advance")
  /\ UNCHANGED <<contextVars, mutex, clientVars, netVars>>

\* MQTT_GetPacketId reads the identifier ...
GetPacketId(p) ==
  /\ pc[p] = "idle"
  /\ PreHook(p)
  /\ job' = [job EXCEPT ![p] = [NoJob EXCEPT !.packetId = nextPacketId]]
  /\ Goto(p, "advance")
  /\ UNCHANGED <<contextVars, clientVars, netVars>>

\* ... and advances it: 0 is no packet identifier.
AdvancePacketId(p) ==
  /\ pc[p] = "advance"
  /\ nextPacketId' = IF nextPacketId = UINT16_MAX THEN 1
                     ELSE nextPacketId + 1
  /\ PostHook(p)
  /\ Goto(p, "publish")
  /\ UNCHANGED <<connectStatus, outgoing, job, clientVars, netVars>>

\* Mutant: MQTT_Publish does not look at the connection status.
CheckConnectionSkipped(p) ==
  /\ pc[p] = "publish"
  /\ PreHook(p)
  /\ \E q \in PublishQoS, d \in PublishDup :
       job' = [job EXCEPT ![p] = [packetId |-> job[p].packetId,
                                  qos |-> q, dup |-> d]]
  /\ Goto(p, "reserve")
  /\ UNCHANGED <<contextVars, clientVars, netVars>>

CheckConnection(p) ==
  /\ pc[p] = "publish"
  /\ PreHook(p)
  /\ \E q \in PublishQoS, d \in PublishDup :
       job' = [job EXCEPT ![p] = [packetId |-> job[p].packetId,
                                  qos |-> q, dup |-> d]]
  /\ Goto(p, IF connectStatus = "Connected" THEN "reserve" ELSE "release")
  /\ UNCHANGED <<contextVars, clientVars, netVars>>

\* A collision is no error for a publish that is marked as a duplicate.
ReserveState(p) ==
  /\ pc[p] = "reserve"
  /\ LET added == AddRecord(outgoing, job[p].packetId, job[p].qos,
                            "PublishSend")
         proceed == \/ added.status = "Success"
                    \/ added.status = "StateCollision" /\ job[p].dup
     IN  /\ outgoing' = added.records
         /\ Goto(p, IF proceed THEN "head" ELSE "release")
  /\ UNCHANGED <<connectStatus, nextPacketId, mutex, job, clientVars, netVars>>

SendHead(p) ==
  /\ pc[p] = "head"
  /\ Transmit([type |-> "head", packetId |-> job[p].packetId,
               qos |-> job[p].qos])
  /\ Goto(p, "rest")
  /\ UNCHANGED <<contextVars, mutex, job, clientVars, link, replies, breaks>>

SendRest(p) ==
  /\ pc[p] = "rest"
  /\ Transmit([type |-> "rest", packetId |-> job[p].packetId,
               qos |-> job[p].qos])
  /\ Goto(p, "update")
  /\ UNCHANGED <<contextVars, mutex, job, clientVars, link, replies, breaks>>

\* sendMessageVector gives up after MQTT_SEND_TIMEOUT_MS, before or after the
\* first bytes: the connection status and the record stay as they are.
SendTimesOut(p) ==
  /\ pc[p] \in {"head", "rest"}
  /\ Goto(p, "release")
  /\ UNCHANGED <<contextVars, mutex, job, clientVars, netVars>>

SendPublishFails(p) ==
  /\ pc[p] \in {"head", "rest"}
  /\ SendFails
  /\ Goto(p, "sendError")
  /\ UNCHANGED <<contextVars, mutex, job, clientVars, netVars>>

\* Mutant: a failed send is tried again.
CheckSendErrorRetries(p) ==
  /\ pc[p] = "sendError"
  /\ Goto(p, IF connectStatus = "Connected" THEN "head" ELSE "release")
  /\ UNCHANGED <<contextVars, mutex, job, clientVars, netVars>>

\* sendMessageVector reads the connection status ...
CheckSendError(p) ==
  /\ pc[p] = "sendError"
  /\ Goto(p, IF connectStatus = "Connected" THEN "setPending" ELSE "release")
  /\ UNCHANGED <<contextVars, mutex, job, clientVars, netVars>>

\* ... and then writes it.
SetDisconnectPending(p) ==
  /\ pc[p] = "setPending"
  /\ connectStatus' = "DisconnectPending"
  /\ Goto(p, "release")
  /\ UNCHANGED <<nextPacketId, outgoing, mutex, job, clientVars, netVars>>

UpdateStatePublish(p) ==
  /\ pc[p] = "update"
  /\ outgoing' =
       UpdateSentPublish(outgoing, job[p].packetId, job[p].qos).records
  /\ Goto(p, "release")
  /\ UNCHANGED <<connectStatus, nextPacketId, mutex, job, clientVars, netVars>>

PublishReturns(p) ==
  /\ pc[p] = "release"
  /\ PostHook(p)
  /\ job' = [job EXCEPT ![p] = NoJob]
  /\ Goto(p, "idle")
  /\ UNCHANGED <<contextVars, clientVars, netVars>>

PublisherStep(p) ==
  \/ GetPacketId(p) \/ AdvancePacketId(p)
  \/ CheckConnection(p) \/ ReserveState(p)
  \/ SendHead(p) \/ SendRest(p) \/ SendTimesOut(p) \/ SendPublishFails(p)
  \/ CheckSendError(p) \/ SetDisconnectPending(p)
  \/ UpdateStatePublish(p) \/ PublishReturns(p)

-----------------------------------------------------------------------------
(* mqttClientTask: connecting.                                             *)

\* mqttConnect opens the socket.  A failure to do so changes nothing here.
TcpConnect ==
  /\ pc[Client] = "connect"
  /\ link' = "tcp"
  /\ wire' = <<>>
  /\ replies' = <<>>
  /\ Goto(Client, "mqttConnect")
  /\ UNCHANGED <<contextVars, mutex, job, clientVars, breaks>>

\* MQTT_Connect enters its section; mqttConnect takes MQTTStatusConnected
\* for a success.
CheckNotConnected ==
  /\ pc[Client] = "mqttConnect"
  /\ IF connectStatus = "NotConnected"
       THEN /\ PreHook(Client)
            /\ lastStatus' = "Success"
            /\ Goto(Client, "handshake")
       ELSE /\ HookSection
            /\ lastStatus' = connectStatus
            /\ Goto(Client, IF connectStatus = "Connected"
                              THEN "loop" ELSE "close")
  /\ UNCHANGED <<contextVars, job, released, netVars>>

\* CONNECT and CONNACK.  The broker wants CONNECT first.
Handshake ==
  /\ pc[Client] = "handshake"
  /\ IF link = "tcp" /\ wire = <<>>
       THEN /\ link' = "up"
            /\ lastStatus' = "Success"
            /\ Goto(Client, "clean")
       ELSE /\ lastStatus' = "RecvFailed"
            /\ Goto(Client, "refused")
            /\ UNCHANGED link
  /\ UNCHANGED <<contextVars, mutex, job, released, wire, replies, breaks>>

\* Mutant: the records survive a clean session.
HandleCleanSessionKeeps ==
  /\ pc[Client] = "clean"
  /\ Goto(Client, "connected")
  /\ UNCHANGED <<contextVars, mutex, job, clientVars, netVars>>

\* mqttConnect always asks for a clean session.
HandleCleanSession ==
  /\ pc[Client] = "clean"
  /\ outgoing' = EmptyTable(OutgoingPublishCount)
  /\ Goto(Client, "connected")
  /\ UNCHANGED <<connectStatus, nextPacketId, mutex, job, clientVars, netVars>>

SetConnected ==
  /\ pc[Client] = "connected"
  /\ connectStatus' = "Connected"
  /\ PostHook(Client)
  /\ Goto(Client, "loop")
  /\ UNCHANGED <<nextPacketId, outgoing, job, clientVars, netVars>>

\* The section ends, and the second one finds no connection to give up.
ConnectFails ==
  /\ pc[Client] = "refused"
  /\ PostHook(Client)
  /\ Goto(Client, "close")
  /\ UNCHANGED <<contextVars, job, clientVars, netVars>>

\* closesocket; the next round of mqttClientTask connects again.
CloseSocket ==
  /\ pc[Client] = "close"
  /\ link' = "down"
  /\ wire' = <<>>
  /\ replies' = <<>>
  /\ Goto(Client, "connect")
  /\ UNCHANGED <<contextVars, mutex, job, clientVars, breaks>>

-----------------------------------------------------------------------------
(* mqttClientTask: MQTT_ProcessLoop.                                       *)

\* recv reports an error.
ReceiveFails ==
  /\ pc[Client] = "loop"
  /\ link = "broken"
  /\ HookSection
  /\ GiveUpConnection
  /\ lastStatus' = "RecvFailed"
  /\ Goto(Client, "disconnect")
  /\ UNCHANGED <<nextPacketId, outgoing, job, released, netVars>>

\* recv finds nothing and the PINGRESP is overdue: the broker is gone or
\* late, or waits for the rest of a packet that was given up.
KeepAliveTimesOut ==
  /\ pc[Client] = "loop"
  /\ link = "broken" \/ replies = <<>>
  /\ lastStatus' = "KeepAliveTimeout"
  /\ Goto(Client, "disconnect")
  /\ UNCHANGED <<contextVars, mutex, job, released, netVars>>

\* handlePublishAcks up to its call of sendPublishAcks.
HandlePublishAck ==
  /\ pc[Client] = "loop"
  /\ replies # <<>>
  /\ HookSection
  /\ LET ack     == Head(replies)
         updated == UpdateStateAck(outgoing, ack.packetId, ack.type,
                                   "RECEIVE")
     IN  /\ outgoing' = updated.records
         /\ lastStatus' = updated.status
         /\ released' = IF updated.state = "PubRelSend"
                          THEN ack.packetId ELSE MQTT_PACKET_ID_INVALID
         /\ Goto(Client, IF updated.status # "Success" THEN "disconnect"
                         ELSE IF updated.state = "PubRelSend" THEN "pubrel"
                         ELSE "loop")
  /\ replies' = Tail(replies)
  /\ UNCHANGED <<connectStatus, nextPacketId, job, link, wire, breaks>>

\* Mutant: sendPublishAcks sends outside the hooks' section.
SendPubrelUnguarded ==
  /\ pc[Client] = "pubrel"
  /\ connectStatus = "Connected"
  /\ Transmit([type |-> "PUBREL", packetId |-> released])
  /\ Goto(Client, "pubrelSent")
  /\ UNCHANGED <<contextVars, mutex, job, clientVars, link, replies, breaks>>

\* The first section of sendPublishAcks.
SendPubrel ==
  /\ pc[Client] = "pubrel"
  /\ HookSection
  /\ connectStatus = "Connected"
  /\ Transmit([type |-> "PUBREL", packetId |-> released])
  /\ Goto(Client, "pubrelSent")
  /\ UNCHANGED <<contextVars, job, clientVars, link, replies, breaks>>

SendPubrelFails ==
  /\ pc[Client] = "pubrel"
  /\ HookSection
  /\ connectStatus # "Connected" \/ SendFails
  /\ GiveUpConnection
  /\ lastStatus' = IF connectStatus = "Connected" THEN "SendFailed"
                   ELSE connectStatus
  /\ Goto(Client, "disconnect")
  /\ UNCHANGED <<nextPacketId, outgoing, job, released, netVars>>

\* sendBuffer gives up after MQTT_SEND_TIMEOUT_MS: sendPublishAcks reports a
\* failed send, but the connection status stays as it is.
SendPubrelTimesOut ==
  /\ pc[Client] = "pubrel"
  /\ HookSection
  /\ connectStatus = "Connected"
  /\ CutShort
  /\ lastStatus' = "SendFailed"
  /\ Goto(Client, "disconnect")
  /\ UNCHANGED <<contextVars, job, released, link, replies, breaks>>

\* The second section of sendPublishAcks.
UpdateStatePubrel ==
  /\ pc[Client] = "pubrelSent"
  /\ HookSection
  /\ LET updated == UpdateStateAck(outgoing, released, "Pubrel", "SEND")
     IN  /\ outgoing' = updated.records
         /\ lastStatus' = updated.status
         /\ Goto(Client, IF updated.status = "Success"
                           THEN "loop" ELSE "disconnect")
  /\ released' = MQTT_PACKET_ID_INVALID
  /\ UNCHANGED <<connectStatus, nextPacketId, job, netVars>>

\* Mutant: a connection that is to be given up is taken for one that is.
MQTT_DisconnectConnectedOnly ==
  /\ HookSection
  /\ IF connectStatus = "Connected"
       THEN /\ connectStatus' = "NotConnected"
            /\ TransmitIfAble([type |-> "DISCONNECT"])
       ELSE UNCHANGED <<connectStatus, wire>>

\* MQTT_Disconnect: whether DISCONNECT can be sent or not, the status has
\* been changed before.
MQTT_Disconnect ==
  /\ HookSection
  /\ IF connectStatus # "NotConnected"
       THEN /\ connectStatus' = "NotConnected"
            /\ TransmitIfAble([type |-> "DISCONNECT"])
       ELSE UNCHANGED <<connectStatus, wire>>

\* mqttClientTask disconnects when MQTT_ProcessLoop fails, and once more
\* after its inner loop.
Disconnect ==
  /\ pc[Client] \in {"disconnect", "disconnectAgain"}
  /\ MQTT_Disconnect
  /\ Goto(Client, IF pc[Client] = "disconnect"
                    THEN "disconnectAgain" ELSE "close")
  /\ UNCHANGED <<nextPacketId, outgoing, job, clientVars, link, replies,
                 breaks>>

ClientStep ==
  \/ TcpConnect \/ CheckNotConnected \/ Handshake \/ HandleCleanSession
  \/ SetConnected \/ ConnectFails \/ CloseSocket
  \/ ReceiveFails \/ KeepAliveTimesOut \/ HandlePublishAck
  \/ SendPubrel \/ SendPubrelFails \/ SendPubrelTimesOut
  \/ UpdateStatePubrel \/ Disconnect

-----------------------------------------------------------------------------
(* The broker and the network.                                             *)

\* A whole PUBLISH is acknowledged.
BrokerTakesPublish ==
  /\ link = "up"
  /\ Len(wire) > 1
  /\ Len(replies) < MaxWire
  /\ wire[1].type = "head"
  /\ wire[2] = [wire[1] EXCEPT !.type = "rest"]
  /\ replies' = Append(replies,
       [type     |-> IF wire[1].qos = 1 THEN "Puback" ELSE "Pubrec",
        packetId |-> wire[1].packetId])
  /\ wire' = SubSeq(wire, 3, Len(wire))
  /\ UNCHANGED <<contextVars, mutex, pc, job, clientVars, link, breaks>>

BrokerTakesPubrel ==
  /\ link = "up"
  /\ wire # <<>>
  /\ Len(replies) < MaxWire
  /\ Head(wire).type = "PUBREL"
  /\ replies' = Append(replies,
       [type |-> "Pubcomp", packetId |-> Head(wire).packetId])
  /\ wire' = Tail(wire)
  /\ UNCHANGED <<contextVars, mutex, pc, job, clientVars, link, breaks>>

\* Anything else that comes ends the connection.
Unexpected ==
  \/ link = "tcp" /\ wire # <<>>
  \/ /\ link = "up"
     /\ wire # <<>>
     /\ \/ wire[1].type \in {"rest", "DISCONNECT"}
        \/ /\ wire[1].type = "head"
           /\ Len(wire) > 1
           /\ wire[2] # [wire[1] EXCEPT !.type = "rest"]
        \/ wire[1].type = "torn" /\ Len(wire) > 1

BrokerCloses ==
  /\ Unexpected
  /\ link' = "broken"
  /\ wire' = <<>>
  /\ UNCHANGED <<contextVars, mutex, pc, job, clientVars, replies, breaks>>

LinkBreaks ==
  /\ link \in {"tcp", "up"}
  /\ breaks < MaxLinkBreaks
  /\ breaks' = breaks + 1
  /\ link' = "broken"
  /\ wire' = <<>>
  /\ UNCHANGED <<contextVars, mutex, pc, job, clientVars, replies>>

BrokerStep == BrokerTakesPublish \/ BrokerTakesPubrel \/ BrokerCloses

Next ==
  \/ \E p \in Publishers : PublisherStep(p)
  \/ ClientStep
  \/ BrokerStep
  \/ LinkBreaks

Spec == Init /\ [][Next]_vars

\* RT-Thread schedules every thread, the broker reads what it is sent, and
\* a thread that waits for the mutex is given it.  Nothing makes a time-out
\* of the keep-alive happen.
Fairness ==
  /\ \A p \in Publishers : SF_vars(PublisherStep(p))
  /\ SF_vars(ClientStep /\ ~KeepAliveTimesOut)
  /\ WF_vars(BrokerStep)

FairSpec == Spec /\ Fairness

-----------------------------------------------------------------------------
(* Properties.                                                             *)

\* The receive loop never meets an acknowledgement its record is not ready
\* for: the record of a publish is updated before the acknowledgement is
\* handled (MQTT_Publish, the comment at the end of its section).
AcksMeetTheirRecords == lastStatus \notin {"IllegalState", "BadResponse"}

\* The calls of send that make one PUBLISH are not interrupted by another
\* packet on the same connection (MQTT_Publish, "Take the mutex as multiple
\* send calls are required").  The head may have been read already only
\* together with the rest.
RestFollowsHead ==
  \A i \in DOMAIN wire :
    wire[i].type = "rest" =>
      i > 1 /\ wire[i - 1] = [wire[i] EXCEPT !.type = "head"]

\* No packet of an application thread goes out on a new connection before
\* CONNECT and CONNACK have been exchanged on it.
ConnectComesFirst == link = "tcp" => wire = <<>>

\* MQTT_Connect always finds the context disconnected: otherwise it refuses
\* to connect and mqttClientTask, which does not call MQTT_Disconnect when
\* mqttConnect fails, can never connect again.
ConnectStartsDisconnected ==
  pc[Client] = "mqttConnect" => connectStatus = "NotConnected"

\* MQTT_GetPacketId hands out identifiers in turn, none twice and none
\* skipped: when a call returns, the identifier after the caller's is next.
PacketIdsInTurn ==
  [][\A p \in Publishers :
       pc[p] = "advance" /\ pc'[p] = "publish" =>
         nextPacketId' = (job[p].packetId % UINT16_MAX) + 1]_vars

WaitingStates ==
  {"PubAckPending", "PubRecPending", "PubRelSend", "PubCompPending"}

\* A whole PUBLISH with this identifier was sent and is not acknowledged.
Waiting(records, id) ==
  \E i \in DOMAIN records :
    records[i].packetId = id /\ records[i].publishState \in WaitingStates

\* What is on its way for a publish while the connection lasts.
Carried(id) ==
  \/ \E i \in DOMAIN wire :
       wire[i].type \in {"rest", "PUBREL"} /\ wire[i].packetId = id
  \/ \E i \in DOMAIN replies : replies[i].packetId = id
  \/ \E p \in Publishers : pc[p] = "update" /\ job[p].packetId = id
  \/ pc[Client] \in {"pubrel", "pubrelSent"} /\ released = id

\* Its PUBREL could not be sent in time, and the client task is about to
\* disconnect for that.
PubrelGivenUp(id) ==
  pc[Client] = "disconnect" /\ lastStatus = "SendFailed" /\ released = id

\* On a working connection a publish that waits for the broker is never
\* forgotten by both sides: a packet about it is on its way, or its PUBREL
\* timed out and mqttClientTask gives the connection up next.  So none is
\* left waiting on a connection that the client task goes on using.
WaitingPublishesAreCarried ==
  connectStatus = "Connected" /\ link = "up" =>
    \A id \in PacketIds :
      Waiting(outgoing, id) => Carried(id) \/ PubrelGivenUp(id)

\* After MQTT_ProcessLoop has failed the client task gets connected again.
ReconnectsAfterFailure ==
  pc[Client] = "disconnect" ~> connectStatus = "Connected"

\* A publish that waits for an acknowledgement is acknowledged, or dropped
\* together with its connection.
WaitingPublishesEnd ==
  \A id \in PacketIds : Waiting(outgoing, id) ~> ~Waiting(outgoing, id)

\* MQTT_Publish always returns.
PublishReturnsEventually ==
  \A p \in Publishers : pc[p] # "idle" ~> pc[p] = "idle"
=============================================================================
