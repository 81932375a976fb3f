------------------------ MODULE MqttSession_delivery ------------------------
(***************************************************************************)
(* Proofs that the client believes of the broker what is true, when no     *)
(* thread publishes during a resumption: for every number of packet        *)
(* identifiers, of record slots and of messages.                           *)
(*                                                                         *)
(* The inductive invariant extends Base and Outbound by three layers.      *)
(* Carriers says that one packet at most is on its way about a publish,    *)
(* and none while it is still to be sent or after it has ended; a          *)
(* publishing thread in the middle of a resumption breaks this layer.      *)
(* Deliveries says what the broker has when it answers.  Expected says     *)
(* that the record an answer will meet can take it.                        *)
(***************************************************************************)
EXTENDS MqttSession_proofs

-----------------------------------------------------------------------------
(* One packet at most on its way about a publish.                          *)

\* What the broker answers to a publish of the client.
Answers == {"Puback", "Pubrec", "Pubcomp"}

Republishable == Resendable(1) \cup Resendable(2)

NoCarrier(id) == None(toBroker, Sends, id) /\ None(toClient, Answers, id)

\* MQTT_Publish or MQTT_Connect has yet to send something about id.
ToSend(id) ==
  \/ publishing # Nothing /\ publishing.packetId = id
  \/ selected # Nothing /\ selected.packetId = id
  \/ /\ pc = "pubrels"
     /\ Ahead(outgoing, cursor, id) \/ Outgoing(id) \in Republishable
  \/ /\ pc = "publishes"
     /\ Ahead(outgoing, cursor, id)
     /\ Outgoing(id) \in Republishable

Carriers ==
  /\ OneCarrier(toBroker, Sends, toClient, Answers)
  /\ \A id \in PacketIds :
       ToSend(id) \/ Outgoing(id) = NoFlight => NoCarrier(id)
  /\ pc # "idle" => publishing = Nothing
  /\ selected # Nothing => ~Ahead(outgoing, cursor, selected.packetId)

\* The wires lose packets, and carry none of these types that is new.
Quiet == Keeps(toBroker', toBroker, Sends) /\ Keeps(toClient', toClient, Answers)

LEMMA InitCarriers == Init => Carriers
  <1>1. ASSUME Init PROVE toBroker = <<>> /\ toClient = <<>> /\ pc = "idle"
                          /\ selected = Nothing /\ publishing = Nothing
    BY <1>1 DEF Init
  <1> QED
    BY <1>1, OneCarrierNothing DEF Carriers, NoCarrier, None

\* Between its calls the thread has nothing to send.
LEMMA NothingToSend ==
  ASSUME Links, pc \in {"idle", "failing"}, publishing = Nothing
  PROVE  \A id : ~ToSend(id)
  BY DEF Links, ToSend

LEMMA QuietCarriers ==
  ASSUME Types, Types', Carriers, Quiet
  PROVE  /\ OneCarrier(toBroker', Sends, toClient', Answers)
         /\ \A id : NoCarrier(id) => NoCarrier(id)'
  <1>1. /\ toBroker \in Seq(Packet) /\ toClient \in Seq(Packet)
        /\ toBroker' \in Seq(Packet) /\ toClient' \in Seq(Packet)
    BY DEF Types
  <1>2. /\ \A i \in DOMAIN toBroker' :
             toBroker'[i].type \in Sends =>
               \E k \in DOMAIN toBroker : toBroker[k] = toBroker'[i]
        /\ \A i \in DOMAIN toClient' :
             toClient'[i].type \in Answers =>
               \E k \in DOMAIN toClient : toClient[k] = toClient'[i]
    BY DEF Quiet, Keeps, In
  <1>3. Single(toBroker', Sends) /\ Single(toClient', Answers)
    BY <1>1, SingleKept DEF Carriers, OneCarrier, Quiet
  <1>4. ASSUME NEW i \in DOMAIN toBroker', NEW j \in DOMAIN toClient',
               toBroker'[i].type \in Sends, toClient'[j].type \in Answers
        PROVE  toBroker'[i].packetId # toClient'[j].packetId
    <2>1. PICK k \in DOMAIN toBroker : toBroker[k] = toBroker'[i]
      BY <1>2, <1>4
    <2>2. PICK l \in DOMAIN toClient : toClient[l] = toClient'[j]
      BY <1>2, <1>4
    <2>3. toBroker[k].packetId # toClient[l].packetId
      BY <1>4, <2>1, <2>2 DEF Carriers, OneCarrier
    <2> QED
      BY <2>1, <2>2, <2>3
  <1>5. \A id : NoCarrier(id) => NoCarrier(id)'
    BY <1>2 DEF NoCarrier, None
  <1> QED
    BY <1>3, <1>4, <1>5 DEF OneCarrier

\* Nothing about id is on its way, and something about id is sent.
LEMMA SentCarriers ==
  ASSUME Types, Carriers, NEW p \in Packet, p.type \in Sends,
         NEW inbox \in Seq(Packet),
         OneCarrier(toBroker, Sends, inbox, Answers),
         None(toBroker, Sends, p.packetId), None(inbox, Answers, p.packetId),
         toBroker' = Append(toBroker, p), toClient' = inbox
  PROVE  /\ OneCarrier(toBroker', Sends, toClient', Answers)
         /\ \A id : /\ id # p.packetId
                    /\ None(toBroker, Sends, id) /\ None(inbox, Answers, id)
                    => NoCarrier(id)'
  <1>1. toBroker \in Seq(Packet)
    BY DEF Types
  <1>2. OneCarrier(toBroker', Sends, toClient', Answers)
    BY <1>1, OneCarrierSent
  <1>3. \A id : id # p.packetId /\ None(toBroker, Sends, id)
                => None(toBroker', Sends, id)
    BY <1>1, WireSent
  <1> QED
    BY <1>2, <1>3 DEF NoCarrier

\* The broker takes a packet of the client, and answers it.
LEMMA AnsweredCarriers ==
  ASSUME Types, Carriers, toBroker # <<>>, Head(toBroker).type \in Sends,
         toBroker' = Tail(toBroker),
         NEW p \in Packet, p.packetId = Head(toBroker).packetId,
         toClient' = Append(toClient, p)
  PROVE  /\ OneCarrier(toBroker', Sends, toClient', Answers)
         /\ \A id : NoCarrier(id) => NoCarrier(id)'
         /\ None(toBroker', Sends, p.packetId)
         /\ None(toClient, Answers, p.packetId)
  <1>1. toBroker \in Seq(Packet) /\ toClient \in Seq(Packet)
    BY DEF Types
  <1>2. OneCarrier(toClient, Answers, toBroker, Sends)
    BY OneCarrierMirrored DEF Carriers
  <1>3. /\ OneCarrier(toClient, Answers, toBroker', Sends)
        /\ None(toClient, Answers, p.packetId)
        /\ None(toBroker', Sends, p.packetId)
    BY <1>1, <1>2, OneCarrierRead
  <1>4. OneCarrier(toClient', Answers, toBroker', Sends)
    BY <1>1, <1>3, OneCarrierSent
  <1>5. OneCarrier(toBroker', Sends, toClient', Answers)
    BY <1>4, OneCarrierMirrored
  <1>6. ASSUME NEW id, NoCarrier(id) PROVE NoCarrier(id)'
    <2>1. None(toBroker, Sends, id) /\ None(toClient, Answers, id)
      BY <1>6 DEF NoCarrier
    <2>2. 1 \in DOMAIN toBroker /\ toBroker[1] = Head(toBroker)
      BY <1>1, WireRead
    <2>3. p.packetId # id
      BY <2>1, <2>2 DEF None
    <2>4. None(toBroker', Sends, id)
      BY <1>1, <2>1, WireRead
    <2>5. None(toClient', Answers, id)
      BY <1>1, <2>1, <2>3, WireSent
    <2> QED
      BY <2>4, <2>5 DEF NoCarrier
  <1> QED
    BY <1>3, <1>5, <1>6

\* The client reads an answer.
LEMMA ReadCarriers ==
  ASSUME Types, Carriers, toClient # <<>>, Head(toClient).type \in Answers
  PROVE  /\ OneCarrier(toBroker, Sends, Tail(toClient), Answers)
         /\ None(toBroker, Sends, Head(toClient).packetId)
         /\ None(Tail(toClient), Answers, Head(toClient).packetId)
         /\ \A id : None(toClient, Answers, id) => None(Tail(toClient), Answers, id)
  <1>1. toBroker \in Seq(Packet) /\ toClient \in Seq(Packet)
    BY DEF Types
  <1> QED
    BY <1>1, OneCarrierRead, WireRead DEF Carriers

-----------------------------------------------------------------------------
(* The steps that touch none of the client's publishes.                    *)

QuietAction ==
  \/ PublishNotStored \/ ReceiveNothing \/ ReceiveFails
  \/ \E ok \in BOOLEAN : HandlePublish(ok) \/ HandlePubrel(ok)
  \/ Disconnect \/ ConnectResumedSession \/ SelectionEnds \/ RetrieveFails
  \/ ConnectFails
  \/ BrokerTakesPubackOrPubrec \/ BrokerTakesPubcomp
  \/ \E id \in PacketIds, q \in PublishQoS : BrokerSendsPublish(id, q)
  \/ BrokerForgets \/ LinkBreaks \/ UNCHANGED vars

\* v is w, but for packets that are not about the client's publishes.
Passes(w, v) ==
  \/ v = w
  \/ \E p \in Packet : p.type \notin Sends /\ v = Append(w, p)
  \/ w # <<>> /\ Head(w).type \notin Sends /\ v = Tail(w)

LEMMA PassesKeeps ==
  ASSUME NEW w \in Seq(Packet), NEW v, Passes(w, v)
  PROVE  Keeps(v, w, Sends)
  BY KeepsLess, KeepsMore DEF Passes

\* The client may read a packet of the broker, and answers it.
LEMMA AnswerPasses ==
  ASSUME Types, Links, NEW ok, NEW p \in Packet, p.type \notin Sends,
         toClient # <<>>, Transfer(ok, p, Tail(toClient))
  PROVE  /\ \/ link' # "up" /\ toBroker' = <<>>
            \/ Passes(toBroker, toBroker')
         /\ Keeps(toClient', toClient, Answers)
  <1>1. toClient \in Seq(Packet)
    BY DEF Types
  <1>2. /\ Keeps(Tail(toClient), toClient, Answers)
        /\ Keeps(<<>>, toClient, Answers)
    BY <1>1, KeepsLess
  <1>3. /\ link' # "up" => toBroker' = <<>> /\ toClient' = <<>>
        /\ \/ /\ toBroker' = Append(toBroker, p)
              /\ toClient' = Tail(toClient)
           \/ link' = "broken" /\ toBroker' = <<>> /\ toClient' = <<>>
    BY TransferLinks
  <1> QED
    BY <1>2, <1>3 DEF Passes

\* What MQTT_ProcessLoop makes of the wires when it reads what the broker
\* asks.
LEMMA AnswersPass ==
  ASSUME Types, Links, NEW ok \in BOOLEAN, HandlePublish(ok) \/ HandlePubrel(ok)
  PROVE  /\ \/ link' # "up" /\ toBroker' = <<>>
            \/ Passes(toBroker, toBroker')
         /\ Keeps(toClient', toClient, Answers)
  <1>1. PICK id : id = Head(toClient).packetId
    OBVIOUS
  <1>2. toClient # <<>> /\ id \in PacketIds /\ toClient \in Seq(Packet)
    BY <1>1, ArrivedPacket DEF HandlePublish, HandlePubrel, Types
  <1>3. \/ toClient' = Tail(toClient) /\ toBroker' = toBroker
        \/ \E type \in {"Puback", "Pubrec", "Pubcomp"} :
             Transfer(ok, Ack(type, id), Tail(toClient))
    BY <1>1 DEF HandlePublish, HandlePubrel
  <1>4. CASE toClient' = Tail(toClient) /\ toBroker' = toBroker
    BY <1>2, <1>4, KeepsLess DEF Passes
  <1>5. CASE \E type \in {"Puback", "Pubrec", "Pubcomp"} :
               Transfer(ok, Ack(type, id), Tail(toClient))
    <2>1. PICK type \in {"Puback", "Pubrec", "Pubcomp"} :
            Transfer(ok, Ack(type, id), Tail(toClient))
      BY <1>5
    <2>2. Ack(type, id) \in Packet /\ Ack(type, id).type = type
      BY <1>2, MadePackets DEF MQTTPubAckType
    <2>3. Ack(type, id).type \notin Sends
      BY <2>2 DEF Sends
    <2> QED
      BY <1>2, <2>1, <2>2, <2>3, AnswerPasses
  <1> QED
    BY <1>3, <1>4, <1>5

\* What the broker makes of the wires when it reads an answer or sends a
\* publish of its own.
LEMMA BrokerPasses ==
  ASSUME Types,
         \/ BrokerTakesPubackOrPubrec \/ BrokerTakesPubcomp
         \/ \E id \in PacketIds, q \in PublishQoS : BrokerSendsPublish(id, q)
  PROVE  Passes(toBroker, toBroker') /\ Keeps(toClient', toClient, Answers)
  <1>1. toClient \in Seq(Packet)
    BY DEF Types
  <1>2. CASE BrokerTakesPubackOrPubrec
    <2>1. /\ toBroker # <<>> /\ toBroker' = Tail(toBroker)
          /\ Head(toBroker).type \notin Sends
          /\ Head(toBroker).packetId \in PacketIds
      BY <1>2, BrokerReadsPacket DEF BrokerTakesPubackOrPubrec, BrokerReads, Sends
    <2>2. \/ toClient' = toClient
          \/ toClient' = Append(toClient, Ack("Pubrel", Head(toBroker).packetId))
      BY <1>2 DEF BrokerTakesPubackOrPubrec
    <2>3. /\ Ack("Pubrel", Head(toBroker).packetId) \in Packet
          /\ Ack("Pubrel", Head(toBroker).packetId).type \notin Answers
      BY <2>1, MadePackets DEF MQTTPubAckType, Answers
    <2>4. Keeps(toClient', toClient, Answers)
      BY <1>1, <2>2, <2>3, KeepsLess, KeepsMore
    <2> QED
      BY <2>1, <2>4 DEF Passes
  <1>3. CASE BrokerTakesPubcomp
    <2>1. /\ toBroker # <<>> /\ toBroker' = Tail(toBroker)
          /\ Head(toBroker).type \notin Sends /\ toClient' = toClient
      BY <1>3 DEF BrokerTakesPubcomp, BrokerReads, Sends
    <2> QED
      BY <1>1, <2>1, KeepsLess DEF Passes
  <1>4. CASE \E id \in PacketIds, q \in PublishQoS : BrokerSendsPublish(id, q)
    <2>1. PICK id \in PacketIds, q \in PublishQoS : BrokerSendsPublish(id, q)
      BY <1>4
    <2>2. PICK p : p = Publish(id, q, sent + 1)
      OBVIOUS
    <2>3. toBroker' = toBroker /\ toClient' = Append(toClient, p)
      BY <2>1, <2>2 DEF BrokerSendsPublish
    <2>4. p \in Packet /\ p.type \notin Answers
      <3>1. q \in {1, 2} /\ sent + 1 \in Nat
        BY SessionAssumption DEF Types
      <3>2. p \in PublishPacket /\ p.type = "Publish"
        BY <2>2, <3>1, MadePackets
      <3> QED
        BY <3>2, PacketKinds DEF Answers
    <2> QED
      BY <1>1, <2>3, <2>4, KeepsMore DEF Passes
  <1> QED
    BY <1>2, <1>3, <1>4

\* Between two calls, or after a failure, MQTT_Connect works on nothing.
ThreadMoves ==
  \/ UNCHANGED <<pc, cursor>>
  \/ pc' = "idle"
  \/ pc = "publishes" /\ pc' = "failing"
  \/ pc = "pubrels" /\ pc' = "publishes" /\ selected = Nothing
  \/ /\ pc' = "pubrels" /\ publishing' = Nothing /\ selected = Nothing
     /\ \A id : NoCarrier(id)'

LEMMA QuietEffect ==
  ASSUME Types, Types', Links, Links', QuietAction
  PROVE  /\ UNCHANGED <<outgoing, messageOf, stored, arrivals, acknowledged,
                        published, selected>>
         /\ publishing' \in {publishing, Nothing}
         /\ \/ link' # "up" /\ toBroker' = <<>>
            \/ Passes(toBroker, toBroker')
         /\ Quiet
         /\ ThreadMoves
         /\ UNCHANGED <<taken, session>> \/ taken' = {}
  <1> USE DEF contextVars, appVars, receivedVars, cursorVars, threadVars,
              netVars, brokerVars, vars
  <1> DEFINE Unmoved == UNCHANGED <<outgoing, messageOf, stored, arrivals,
                                    acknowledged, published, selected>>
             WiresPass == /\ \/ link' # "up" /\ toBroker' = <<>>
                             \/ Passes(toBroker, toBroker')
                          /\ Keeps(toClient', toClient, Answers)
  <1>1. toBroker \in Seq(Packet) /\ toClient \in Seq(Packet)
    BY DEF Types
  <1>2. ASSUME WiresPass PROVE Quiet
    <2>1. Keeps(toBroker', toBroker, Sends)
      BY <1>1, <1>2, PassesKeeps, KeepsLess
    <2> QED
      BY <1>2, <2>1 DEF Quiet
  <1>3. ASSUME UNCHANGED <<toBroker, toClient>> PROVE WiresPass
    BY <1>1, <1>3, KeepsLess DEF Passes
  <1>4. ASSUME link' # "up" PROVE WiresPass
    BY <1>1, <1>4, KeepsLess DEF Links
  <1> DEFINE Effect == /\ Unmoved
                       /\ publishing' \in {publishing, Nothing}
                       /\ WiresPass
                       /\ ThreadMoves
                       /\ UNCHANGED <<taken, session>> \/ taken' = {}
  <1> SUFFICES Effect
    BY <1>2
  <1>5. CASE PublishNotStored \/ ReceiveNothing \/ ReceiveFails
             \/ SelectionEnds \/ RetrieveFails \/ ConnectFails
             \/ UNCHANGED vars
    <2>1. UNCHANGED <<toBroker, toClient>>
      BY <1>5 DEF PublishNotStored, ReceiveNothing, ReceiveFails,
                  SelectionEnds, RetrieveFails, ConnectFails, Selecting
    <2>2. Unmoved /\ UNCHANGED <<taken, session>>
      BY <1>5 DEF PublishNotStored, ReceiveNothing, ReceiveFails,
                  SelectionEnds, RetrieveFails, ConnectFails, Selecting
    <2>3. publishing' \in {publishing, Nothing} /\ ThreadMoves
      BY <1>5 DEF PublishNotStored, ReceiveNothing, ReceiveFails,
                  SelectionEnds, RetrieveFails, ConnectFails, Selecting,
                  ThreadMoves
    <2>4. WiresPass
      BY <1>3, <2>1
    <2> QED
      BY <2>2, <2>3, <2>4
  <1>6. CASE \E ok \in BOOLEAN : HandlePublish(ok) \/ HandlePubrel(ok)
    <2>1. WiresPass
      BY <1>6, AnswersPass
    <2>2. Unmoved /\ UNCHANGED <<taken, session, publishing, pc, cursor>>
      BY <1>6 DEF HandlePublish, HandlePubrel
    <2> QED
      BY <2>1, <2>2 DEF ThreadMoves
  <1>7. CASE Disconnect \/ LinkBreaks
    <2>1. link' # "up"
      BY <1>7 DEF Disconnect, LinkBreaks
    <2>2. Unmoved /\ UNCHANGED <<taken, session, publishing, pc, cursor>>
      BY <1>7 DEF Disconnect, LinkBreaks
    <2> QED
      BY <1>4, <2>1, <2>2 DEF ThreadMoves
  <1>8. CASE ConnectResumedSession
    <2>1. /\ Unmoved /\ UNCHANGED <<taken, session, publishing, toBroker>>
          /\ toBroker = <<>> /\ toClient' = outbound
          /\ pc' = "pubrels" /\ publishing' = Nothing /\ selected = Nothing
      BY <1>8 DEF ConnectResumedSession, Idle, Unlocked, Links
    <2>2. \A i \in DOMAIN outbound : outbound[i].type \notin Answers
      <3>1. outbound \in Seq(PublishPacket \cup PubrelPacket)
        BY DEF Types
      <3>2. \A i \in DOMAIN outbound :
              outbound[i] \in PublishPacket \cup PubrelPacket
        BY <3>1
      <3> QED
        BY <3>2, PacketKinds DEF Answers
    <2>3. Keeps(toClient', toClient, Answers)
      BY <2>1, <2>2 DEF Keeps
    <2>4. \A id : NoCarrier(id)'
      BY <2>1, <2>2 DEF NoCarrier, None
    <2> QED
      BY <2>1, <2>3, <2>4 DEF ThreadMoves, Passes
  <1>9. CASE \/ BrokerTakesPubackOrPubrec \/ BrokerTakesPubcomp
             \/ \E id \in PacketIds, q \in PublishQoS : BrokerSendsPublish(id, q)
    <2>1. WiresPass
      BY <1>9, BrokerPasses
    <2>2. Unmoved /\ UNCHANGED <<taken, session, publishing, pc, cursor>>
      BY <1>9 DEF BrokerTakesPubackOrPubrec, BrokerTakesPubcomp,
                  BrokerSendsPublish
    <2> QED
      BY <2>1, <2>2 DEF ThreadMoves
  <1>10. CASE BrokerForgets
    <2>1. /\ Unmoved /\ UNCHANGED <<publishing, pc, cursor, toBroker, toClient>>
          /\ taken' = {}
      BY <1>10 DEF BrokerForgets
    <2> QED
      BY <1>3, <2>1 DEF ThreadMoves
  <1> QED
    BY <1>5, <1>6, <1>7, <1>8, <1>9, <1>10 DEF QuietAction

LEMMA QuietStepCarriers ==
  ASSUME Types, Types', Links, Links', Carriers, QuietAction
  PROVE  Carriers'
  <1>1. /\ UNCHANGED <<outgoing, selected>>
        /\ publishing' \in {publishing, Nothing}
        /\ Quiet /\ ThreadMoves
    BY QuietEffect
  <1>2. /\ OneCarrier(toBroker', Sends, toClient', Answers)
        /\ \A id : NoCarrier(id) => NoCarrier(id)'
    BY <1>1, QuietCarriers
  <1>3. ASSUME NEW id \in PacketIds, ToSend(id)' \/ Outgoing(id)' = NoFlight
        PROVE  NoCarrier(id)'
    <2>1. CASE Outgoing(id)' = NoFlight
      <3>1. Outgoing(id) = NoFlight
        BY <1>1, <2>1 DEF Outgoing
      <3> QED
        BY <1>2, <3>1 DEF Carriers
    <2>2. CASE ToSend(id)'
      <3>1. CASE ToSend(id)
        BY <1>2, <3>1 DEF Carriers
      <3>2. CASE ~ToSend(id)
        <4>1. pc' = "pubrels" /\ \A x : NoCarrier(x)'
          BY <1>1, <2>2, <3>2 DEF ToSend, ThreadMoves, Outgoing
        <4> QED
          BY <4>1
      <3> QED
        BY <3>1, <3>2
    <2> QED
      BY <1>3, <2>1, <2>2
  <1>4. pc' # "idle" => publishing' = Nothing
    BY <1>1 DEF ThreadMoves, Carriers, Links
  <1>5. selected' # Nothing => ~Ahead(outgoing', cursor', selected'.packetId)
    BY <1>1 DEF ThreadMoves, Carriers, Links
  <1> QED
    BY <1>2, <1>3, <1>4, <1>5 DEF Carriers

-----------------------------------------------------------------------------
(* MQTT_Publish and MQTT_ProcessLoop, and the packets on their way.        *)

\* The thread has nothing left to send, whatever it has done.
LEMMA IdleCarriers ==
  ASSUME Links', pc' = "idle", publishing' = Nothing,
         OneCarrier(toBroker', Sends, toClient', Answers),
         \A id \in PacketIds : Flight(outgoing', id) = NoFlight => NoCarrier(id)'
  PROVE  Carriers'
  <1>1. selected' = Nothing /\ \A id : ~ToSend(id)'
    BY DEF Links, ToSend
  <1> QED
    BY <1>1 DEF Carriers, Outgoing

\* The thread that publishes does nothing else.
LEMMA PublishingIdle ==
  ASSUME Links, Carriers, publishing # Nothing
  PROVE  pc = "idle" /\ selected = Nothing
  BY DEF Carriers, Links

LEMMA ReserveCarriers ==
  ASSUME PublishesWhileResuming = FALSE,
         Types, Types', Links, Links', Carriers,
         PublishRefused \/ \E q \in PublishQoS : Reserve(q)
  PROVE  Carriers'
  <1> USE DEF contextVars, appVars, receivedVars, cursorVars, threadVars,
              netVars, brokerVars
  <1>1. /\ pc = "idle" /\ publishing = Nothing
        /\ UNCHANGED <<pc, cursor, selected, toBroker, toClient>>
    BY DEF PublishRefused, Reserve, MayPublish, Unlocked
  <1>2. selected = Nothing
    BY <1>1 DEF Links
  <1>3. /\ OneCarrier(toBroker', Sends, toClient', Answers)
        /\ \A id : NoCarrier(id)' <=> NoCarrier(id)
    BY <1>1 DEF Carriers, NoCarrier
  <1>4. CASE PublishRefused
    <2>1. publishing' = Nothing /\ FlightsKept
      BY <1>1, <1>4, RefusedOutgoing DEF PublishRefused
    <2>2. \A id \in PacketIds : Flight(outgoing', id) = NoFlight => NoCarrier(id)'
      BY <1>3, <2>1 DEF FlightsKept, Carriers, Outgoing
    <2> QED
      BY <1>1, <1>3, <2>1, <2>2, IdleCarriers
  <1>5. CASE \E q \in PublishQoS : Reserve(q)
    <2>1. PICK q \in PublishQoS : Reserve(q)
      BY <1>5
    <2>2. PICK n : n = nextPacketId
      OBVIOUS
    <2>3. /\ n \in PacketIds /\ q \in {1, 2}
          /\ OthersKept(n)
          /\ Flight(outgoing, n) = NoFlight
          /\ Flight(outgoing', n) = At(q, "PublishSend")
          /\ publishing' = Publish(n, q, published + 1)
      BY <2>1, <2>2, ReservedOutgoing
    <2>4. publishing'.packetId = n
      BY <2>3 DEF Publish
    <2>5. ASSUME NEW id \in PacketIds, ToSend(id)' \/ Outgoing(id)' = NoFlight
          PROVE  NoCarrier(id)'
      <3>1. CASE id = n
        BY <1>3, <2>3, <3>1 DEF Carriers, Outgoing
      <3>2. CASE id # n
        <4>1. ~ToSend(id)'
          BY <1>1, <1>2, <2>4, <3>2 DEF ToSend
        <4>2. Outgoing(id) = NoFlight
          BY <2>3, <2>5, <3>2, <4>1 DEF OthersKept, Outgoing
        <4> QED
          BY <1>3, <4>2 DEF Carriers
      <3> QED
        BY <3>1, <3>2
    <2> QED
      BY <1>1, <1>2, <1>3, <2>5 DEF Carriers
  <1> QED
    BY <1>4, <1>5

LEMMA PublishedCarriers ==
  ASSUME Types, Types', Links, Links', Records, Carriers,
         PublishSent \/ PublishNotSent
  PROVE  Carriers'
  <1> USE DEF contextVars, appVars, receivedVars, cursorVars, threadVars,
              netVars, brokerVars
  <1>1. publishing # Nothing /\ publishing' = Nothing
    BY DEF PublishSent, PublishNotSent, Unlocked
  <1>2. /\ pc' = "idle"
        /\ Transfer(TRUE, publishing, toClient)
             \/ Transfer(FALSE, publishing, toClient)
    BY <1>1, PublishingIdle DEF PublishSent, PublishNotSent
  <1>3. PICK p \in PublishPacket : p = publishing
    BY <1>1 DEF Types
  <1>4. PICK id \in PacketIds : id = p.packetId
    BY PacketKinds
  <1>5. \A x \in PacketIds :
          Flight(outgoing', x) = NoFlight => Outgoing(x) = NoFlight
    <2>1. CASE PublishSent
      <3>1. /\ OthersKept(id)
            /\ Outgoing(id) = At(p.qos, "PublishSend")
            /\ Flight(outgoing', id) = At(p.qos, Pending(p.qos))
        BY <1>1, <1>3, <1>4, <2>1, SentOutgoing DEF Records
      <3>2. Flight(outgoing', id) # NoFlight
        BY <3>1, FlightsDiffer, PacketKinds
      <3> QED
        BY <3>1, <3>2 DEF OthersKept, Outgoing
    <2>2. CASE PublishNotSent
      BY <2>2 DEF PublishNotSent, Outgoing
    <2> QED
      BY <2>1, <2>2
  <1>6. NoCarrier(id)
    BY <1>1, <1>3, <1>4 DEF Carriers, ToSend
  <1>7. CASE /\ toBroker' = Append(toBroker, p) /\ toClient' = toClient
    <2>1. p \in Packet /\ p.type \in Sends /\ toClient \in Seq(Packet)
      BY PacketKinds DEF Sends, Types
    <2>2. /\ OneCarrier(toBroker', Sends, toClient', Answers)
          /\ \A x : x # id /\ NoCarrier(x) => NoCarrier(x)'
      BY <1>4, <1>6, <1>7, <2>1, SentCarriers DEF Carriers, NoCarrier
    <2>3. Flight(outgoing', id) # NoFlight
      <3>1. Outgoing(id) = At(p.qos, "PublishSend")
        BY <1>1, <1>3, <1>4 DEF Records, PublishingFits
      <3>2. Outgoing(id) # NoFlight
        BY <3>1, FlightsDiffer, PacketKinds
      <3> QED
        BY <1>5, <3>2
    <2>4. \A x \in PacketIds : Flight(outgoing', x) = NoFlight => NoCarrier(x)'
      BY <1>5, <2>2, <2>3 DEF Carriers
    <2> QED
      BY <1>1, <1>2, <2>2, <2>4, IdleCarriers
  <1>8. CASE toBroker' = <<>> /\ toClient' = <<>>
    <2>1. /\ OneCarrier(toBroker', Sends, toClient', Answers)
          /\ \A x : NoCarrier(x)'
      BY <1>8, OneCarrierNothing DEF NoCarrier, None
    <2> QED
      BY <1>1, <1>2, <2>1, IdleCarriers
  <1> QED
    BY <1>2, <1>3, <1>7, <1>8, TransferLinks

LEMMA AckCarriers ==
  ASSUME Types, Types', Links, Links', Carriers, HandlePubackOrPubcomp
  PROVE  Carriers'
  <1> USE DEF contextVars, appVars, receivedVars, cursorVars, threadVars,
              netVars, brokerVars
  <1>1. PICK id \in PacketIds : id = Head(toClient).packetId
    BY AckedOutgoing
  <1>2. /\ toClient # <<>> /\ Head(toClient).type \in Answers
        /\ toClient' = Tail(toClient)
        /\ UNCHANGED <<pc, publishing, toBroker>>
        /\ pc = "idle" /\ publishing = Nothing
    BY ArrivedPacket DEF HandlePubackOrPubcomp, Answers
  <1>3. OthersKept(id)
    BY <1>1, AckedOutgoing
  <1>4. /\ OneCarrier(toBroker', Sends, toClient', Answers)
        /\ NoCarrier(id)'
        /\ \A x : NoCarrier(x) => NoCarrier(x)'
    BY <1>1, <1>2, ReadCarriers DEF NoCarrier
  <1>5. \A x \in PacketIds : Flight(outgoing', x) = NoFlight => NoCarrier(x)'
    BY <1>3, <1>4 DEF OthersKept, Carriers, Outgoing
  <1> QED
    BY <1>2, <1>4, <1>5, IdleCarriers

LEMMA PubrecCarriers ==
  ASSUME Types, Types', Links, Links', Carriers,
         NEW ok \in BOOLEAN, HandlePubrec(ok)
  PROVE  Carriers'
  <1> USE DEF contextVars, appVars, receivedVars, cursorVars, threadVars,
              netVars, brokerVars
  <1>1. PICK id \in PacketIds : id = Head(toClient).packetId
    BY PubrecOutgoing
  <1>2. /\ toClient # <<>> /\ Head(toClient).type \in Answers
        /\ UNCHANGED <<pc, publishing>>
        /\ pc = "idle" /\ publishing = Nothing
        /\ Tail(toClient) \in Seq(Packet)
    BY ArrivedPacket DEF HandlePubrec, Answers
  <1>3. /\ OthersKept(id)
        /\ \/ /\ FlightsKept
              /\ toClient' = Tail(toClient) /\ toBroker' = toBroker
           \/ /\ Flight(outgoing', id) \in Releasing
              /\ Transfer(ok, Ack("Pubrel", id), Tail(toClient))
    BY <1>1, PubrecOutgoing DEF Releasing
  <1>4. /\ OneCarrier(toBroker, Sends, Tail(toClient), Answers)
        /\ None(toBroker, Sends, id)
        /\ None(Tail(toClient), Answers, id)
        /\ \A x : None(toClient, Answers, x) => None(Tail(toClient), Answers, x)
    BY <1>1, <1>2, ReadCarriers
  <1>5. CASE FlightsKept /\ toClient' = Tail(toClient) /\ toBroker' = toBroker
    <2>1. \A x \in PacketIds : Flight(outgoing', x) = NoFlight => NoCarrier(x)'
      BY <1>4, <1>5 DEF FlightsKept, Carriers, Outgoing, NoCarrier
    <2> QED
      BY <1>2, <1>4, <1>5, <2>1, IdleCarriers
  <1>6. CASE /\ Flight(outgoing', id) \in Releasing
             /\ Transfer(ok, Ack("Pubrel", id), Tail(toClient))
    <2>1. PICK p : p = Ack("Pubrel", id)
      OBVIOUS
    <2>2. p \in Packet /\ p.type \in Sends /\ p.packetId = id
      BY <2>1, MadePackets DEF MQTTPubAckType, Sends
    <2>3. CASE toBroker' = Append(toBroker, p) /\ toClient' = Tail(toClient)
      <3>1. /\ OneCarrier(toBroker', Sends, toClient', Answers)
            /\ \A x : /\ x # id /\ None(toBroker, Sends, x)
                      /\ None(Tail(toClient), Answers, x)
                      => NoCarrier(x)'
        BY <1>2, <1>4, <2>2, <2>3, SentCarriers
      <3>2. \A x : x # id /\ NoCarrier(x) => NoCarrier(x)'
        BY <1>4, <3>1 DEF NoCarrier
      <3>3. Flight(outgoing', id) # NoFlight
        BY <1>6, FlightsDiffer
      <3>4. \A x \in PacketIds : Flight(outgoing', x) = NoFlight => NoCarrier(x)'
        BY <1>3, <3>2, <3>3 DEF OthersKept, Carriers, Outgoing
      <3> QED
        BY <1>2, <3>1, <3>4, IdleCarriers
    <2>4. CASE toBroker' = <<>> /\ toClient' = <<>>
      <3>1. /\ OneCarrier(toBroker', Sends, toClient', Answers)
            /\ \A x : NoCarrier(x)'
        BY <2>4, OneCarrierNothing DEF NoCarrier, None
      <3> QED
        BY <1>2, <3>1, IdleCarriers
    <2> QED
      BY <1>6, <2>1, <2>3, <2>4, TransferLinks
  <1> QED
    BY <1>3, <1>5, <1>6

-----------------------------------------------------------------------------
(* MQTT_Connect and the packets on their way.                              *)

\* What is selected has been ahead of the cursor, and is of the kind that the
\* resumption sends now.
LEMMA SelectionEffect ==
  ASSUME Types, Types', Links, Links', Records', SelectPubrel \/ SelectPublish
  PROVE  /\ UNCHANGED <<outgoing, messageOf, stored, arrivals, acknowledged,
                        published, publishing, taken, session, toBroker,
                        toClient, link, connectStatus, pc>>
         /\ selected = Nothing /\ selected' # Nothing
         /\ selected'.packetId \in PacketIds
         /\ Ahead(outgoing, cursor, selected'.packetId)
         /\ ~Ahead(outgoing, cursor', selected'.packetId)
         /\ \A x : Ahead(outgoing, cursor', x) => Ahead(outgoing, cursor, x)
         /\ \/ pc = "pubrels" /\ selected' \in PubrelPacket
            \/ /\ pc = "publishes" /\ selected' \in stored
               /\ Outgoing(selected'.packetId) \in Republishable
  <1> USE DEF contextVars, appVars, receivedVars, cursorVars, threadVars,
              netVars, brokerVars
  <1> DEFINE states == IF pc = "pubrels" THEN PubrelToResendStates
                                         ELSE PublishToResendStates
             selection == StateSelect(outgoing, states, cursor)
  <1>1. /\ pc \in {"pubrels", "publishes"} /\ selected = Nothing
        /\ selection.packetId # MQTT_PACKET_ID_INVALID
        /\ cursor' = selection.cursor
        /\ UNCHANGED <<outgoing, messageOf, stored, arrivals, acknowledged,
                       published, publishing, taken, session, toBroker,
                       toClient, link, connectStatus, pc>>
    BY DEF SelectPubrel, SelectPublish, Selecting, Selection
  <1>2. /\ Ahead(outgoing, cursor, selection.packetId)
        /\ ~Ahead(outgoing, selection.cursor, selection.packetId)
        /\ \A x : Ahead(outgoing, selection.cursor, x) =>
                  Ahead(outgoing, cursor, x)
    BY <1>1, SelectedAhead, SessionAssumption DEF Types, OutgoingTable
  <1>3. \/ pc = "pubrels" /\ selected' = Ack("Pubrel", selection.packetId)
        \/ pc = "publishes" /\ selected' \in Copies(selection.packetId)
    BY <1>1 DEF SelectPubrel, SelectPublish, Selecting, Selection
  <1> HIDE DEF selection
  <1>4. CASE pc = "pubrels" /\ selected' = Ack("Pubrel", selection.packetId)
    <2>1. selected'.packetId = selection.packetId /\ selected'.type = "Pubrel"
      BY <1>4 DEF Ack
    <2>2. selected' \in PubrelPacket
      BY <2>1, PacketKinds DEF Types
    <2>3. selected' # Nothing /\ selected'.packetId \in PacketIds
      BY <2>2, PacketKinds
    <2> QED
      BY <1>1, <1>2, <1>4, <2>1, <2>2, <2>3
  <1>5. CASE pc = "publishes" /\ selected' \in Copies(selection.packetId)
    <2>1. selected' \in stored /\ selected'.packetId = selection.packetId
      BY <1>5 DEF Copies
    <2>2. selected' \in PublishPacket
      BY <2>1 DEF Types
    <2>3. /\ selected' # Nothing /\ selected'.packetId \in PacketIds
          /\ selected'.qos \in {1, 2}
      BY <2>2, PacketKinds
    <2>4. Outgoing(selected'.packetId) \in Republishable
      <3>1. Flight(outgoing', selected'.packetId) \in Resendable(selected'.qos)
        BY <2>2 DEF Records, SelectedFits, Outgoing
      <3> QED
        BY <1>1, <2>3, <3>1 DEF Republishable, Outgoing
    <2> QED
      BY <1>1, <1>2, <1>5, <2>1, <2>3, <2>4
  <1> QED
    BY <1>3, <1>4, <1>5

LEMMA SelectCarriers ==
  ASSUME Types, Types', Links, Links', Records', Carriers,
         SelectPubrel \/ SelectPublish
  PROVE  Carriers'
  <1>1. /\ UNCHANGED <<outgoing, publishing, toBroker, toClient, pc>>
        /\ selected = Nothing /\ selected' # Nothing
        /\ selected'.packetId \in PacketIds
        /\ Ahead(outgoing, cursor, selected'.packetId)
        /\ ~Ahead(outgoing, cursor', selected'.packetId)
        /\ \A x : Ahead(outgoing, cursor', x) => Ahead(outgoing, cursor, x)
        /\ \/ pc = "pubrels"
           \/ /\ pc = "publishes"
              /\ Outgoing(selected'.packetId) \in Republishable
    BY SelectionEffect
  <1>2. \A id \in PacketIds :
          ToSend(id)' \/ Outgoing(id)' = NoFlight
          => ToSend(id) \/ Outgoing(id) = NoFlight
    BY <1>1 DEF ToSend, Outgoing
  <1>3. \A id : NoCarrier(id)' <=> NoCarrier(id)
    BY <1>1 DEF NoCarrier
  <1> QED
    BY <1>1, <1>2, <1>3 DEF Carriers

\* The session is new, and the connection too.
LEMMA NewSessionCarriers ==
  ASSUME Types, Types', Links, Links', ConnectNewSession
  PROVE  Carriers'
  <1> USE DEF contextVars, appVars, receivedVars, cursorVars, threadVars,
              netVars, brokerVars
  <1>1. /\ pc' = "idle" /\ publishing' = Nothing
        /\ toBroker' = <<>> /\ toClient' = <<>>
    BY DEF ConnectNewSession, Idle, Unlocked, Links
  <1>2. /\ OneCarrier(toBroker', Sends, toClient', Answers)
        /\ \A x : NoCarrier(x)'
    BY <1>1, OneCarrierNothing DEF NoCarrier, None
  <1> QED
    BY <1>1, <1>2, IdleCarriers

\* What MQTT_Connect has selected is sent: the PUBREL or the PUBLISH of a
\* record that the cursor has passed, and that has none on its way.
LEMMA ResentEffect ==
  ASSUME Types, Links, Records, Carriers, NEW ok \in BOOLEAN,
         ResendPubrel(ok) \/ ResendPublish(ok)
  PROVE  /\ UNCHANGED <<messageOf, stored, arrivals, acknowledged, published,
                        publishing, taken, session, cursor>>
         /\ publishing = Nothing
         /\ selected \in Packet /\ selected.type \in Sends
         /\ selected.packetId \in PacketIds
         /\ selected' = Nothing
         /\ Outgoing(selected.packetId) # NoFlight
         /\ OthersKept(selected.packetId)
         /\ Flight(outgoing', selected.packetId) # NoFlight
         /\ ~Ahead(outgoing, cursor, selected.packetId)
         /\ \A x : Ahead(outgoing', cursor, x) => Ahead(outgoing, cursor, x)
         /\ \/ /\ toBroker' = Append(toBroker, selected)
               /\ toClient' = toClient
            \/ link' # "up" /\ toBroker' = <<>> /\ toClient' = <<>>
            \/ pc' = "failing" /\ UNCHANGED <<toBroker, toClient, link>>
         /\ \/ pc' = "failing" /\ FlightsKept
            \/ /\ pc = "pubrels" /\ pc' = "pubrels"
               /\ Flight(outgoing', selected.packetId) = At(2, "PubCompPending")
            \/ /\ pc = "publishes" /\ pc' = "publishes"
               /\ UNCHANGED outgoing
  <1> USE DEF contextVars, appVars, receivedVars, cursorVars, threadVars,
              netVars, brokerVars
  <1>1. /\ UNCHANGED <<messageOf, stored, arrivals, acknowledged, published,
                       publishing, taken, session, cursor>>
        /\ publishing = Nothing /\ selected # Nothing /\ selected' = Nothing
    BY DEF ResendPubrel, ResendPublish, Unlocked
  <1>2. ~Ahead(outgoing, cursor, selected.packetId)
    BY <1>1 DEF Carriers
  <1>3. /\ selected \in Packet /\ selected.type \in Sends
        /\ selected.packetId \in PacketIds
    BY <1>1, PacketKinds DEF Types, Sends
  <1>4. CASE ResendPubrel(ok)
    <2>1. PICK id \in PacketIds : id = selected.packetId
      BY <1>3
    <2>2. /\ selected \in PubrelPacket
          /\ OthersKept(id)
          /\ Outgoing(id) \in Releasing
          /\ \/ FlightsKept /\ pc' = "failing"
             \/ /\ Flight(outgoing', id) = At(2, "PubCompPending")
                /\ pc' = "pubrels"
          /\ IF connectStatus = "Connected" THEN Transfer(ok, selected, toClient)
                                            ELSE UNCHANGED netVars
      BY <1>4, <2>1, ResentOutgoing DEF Records
    <2>3. pc = "pubrels"
      BY <1>4 DEF ResendPubrel
    <2>4. Outgoing(id) # NoFlight /\ Flight(outgoing', id) # NoFlight
      BY <2>2, FlightsDiffer DEF FlightsKept, Outgoing
    <2>5. \A x : Ahead(outgoing', cursor, x) => Ahead(outgoing, cursor, x)
      <3>1. outgoing' \in {outgoing,
                           UpdateStateAck(outgoing, id, "Pubrel", "SEND").records}
        BY <1>4, <2>1 DEF ResendPubrel
      <3> QED
        BY <3>1, ResentAhead
    <2>6. \/ /\ toBroker' = Append(toBroker, selected)
             /\ toClient' = toClient
          \/ link' # "up" /\ toBroker' = <<>> /\ toClient' = <<>>
          \/ pc' = "failing" /\ UNCHANGED <<toBroker, toClient, link>>
      <3>1. CASE connectStatus = "Connected"
        BY <2>2, <3>1, TransferLinks
      <3>2. CASE connectStatus # "Connected"
        BY <1>4, <3>2 DEF ResendPubrel
      <3> QED
        BY <3>1, <3>2
    <2> QED
      BY <1>1, <1>2, <1>3, <2>1, <2>2, <2>3, <2>4, <2>5, <2>6
  <1>5. CASE ResendPublish(ok)
    <2>1. /\ UNCHANGED outgoing /\ pc = "publishes"
          /\ pc' \in {"publishes", "failing"}
          /\ Transfer(ok, selected, toClient)
      BY <1>5 DEF ResendPublish
    <2>2. selected \in PublishPacket
      BY <1>1, <2>1 DEF Links
    <2>3. PICK id \in PacketIds : id = selected.packetId
      BY <1>3
    <2>4. Outgoing(id) # NoFlight
      BY <2>2, <2>3, FlightsDiffer, PacketKinds DEF Records, SelectedFits
    <2>5. FlightsKept /\ OthersKept(id) /\ Flight(outgoing', id) # NoFlight
      BY <2>1, <2>4 DEF FlightsKept, OthersKept, Outgoing
    <2>6. \/ /\ toBroker' = Append(toBroker, selected)
             /\ toClient' = toClient
          \/ link' # "up" /\ toBroker' = <<>> /\ toClient' = <<>>
      BY <2>1, TransferLinks
    <2> QED
      BY <1>1, <1>2, <1>3, <2>1, <2>3, <2>4, <2>5, <2>6
  <1> QED
    BY <1>4, <1>5

LEMMA ResentCarriers ==
  ASSUME Types, Types', Links, Links', Records, Carriers, NEW ok \in BOOLEAN,
         ResendPubrel(ok) \/ ResendPublish(ok)
  PROVE  Carriers'
  <1>1. PICK p \in Packet : p = selected
    BY ResentEffect
  <1>2. PICK id \in PacketIds : id = p.packetId
    BY PacketKinds
  <1>3. /\ p.type \in Sends
        /\ publishing = Nothing /\ publishing' = Nothing /\ selected' = Nothing
        /\ cursor' = cursor
        /\ OthersKept(id)
        /\ Outgoing(id) # NoFlight
        /\ Flight(outgoing', id) # NoFlight
        /\ ~Ahead(outgoing, cursor, id)
        /\ \A x : Ahead(outgoing', cursor, x) => Ahead(outgoing, cursor, x)
        /\ \/ toBroker' = Append(toBroker, p) /\ toClient' = toClient
           \/ toBroker' = <<>> /\ toClient' = <<>>
           \/ pc' = "failing" /\ UNCHANGED <<toBroker, toClient>>
        /\ \/ pc' = "failing" /\ FlightsKept
           \/ /\ pc = "pubrels" /\ pc' = "pubrels"
              /\ Flight(outgoing', id) = At(2, "PubCompPending")
           \/ /\ pc = "publishes" /\ pc' = "publishes"
              /\ UNCHANGED outgoing
    BY <1>1, <1>2, ResentEffect
  <1>4. NoCarrier(id)
    <2>1. ToSend(id)
      BY <1>1, <1>2, <1>3, PacketKinds DEF ToSend, Sends
    <2> QED
      BY <2>1 DEF Carriers
  <1>5. ASSUME NEW x \in PacketIds, ToSend(x)' \/ Outgoing(x)' = NoFlight
        PROVE  (ToSend(x) \/ Outgoing(x) = NoFlight)
                 /\ (pc' # "failing" => x # id)
    <2>1. CASE Outgoing(x)' = NoFlight
      BY <1>3, <2>1 DEF OthersKept, Outgoing
    <2>2. CASE ToSend(x)'
      <3>1. pc' # "failing"
        BY <1>3, <2>2 DEF ToSend
      <3>2. ASSUME pc = "pubrels", pc' = "pubrels",
                   Flight(outgoing', id) = At(2, "PubCompPending")
            PROVE  ToSend(x) /\ x # id
        <4>1. Flight(outgoing', id) \notin Republishable
          BY <3>2 DEF Republishable, Resendable, Pending, At
        <4>2. /\ Ahead(outgoing, cursor, x)
                   \/ Flight(outgoing', x) \in Republishable
              /\ x # id
          BY <1>3, <2>2, <3>2, <4>1 DEF ToSend, Outgoing
        <4> QED
          BY <1>3, <3>2, <4>2 DEF ToSend, OthersKept, Outgoing
      <3>3. ASSUME pc = "publishes", pc' = "publishes", UNCHANGED outgoing
            PROVE  ToSend(x) /\ x # id
        BY <1>3, <2>2, <3>3 DEF ToSend, Outgoing
      <3> QED
        BY <1>3, <3>1, <3>2, <3>3
    <2> QED
      BY <1>5, <2>1, <2>2
  <1>6. CASE toBroker' = Append(toBroker, p) /\ toClient' = toClient
    <2>1. /\ OneCarrier(toBroker', Sends, toClient', Answers)
          /\ \A x : x # id /\ NoCarrier(x) => NoCarrier(x)'
      <3>1. toClient \in Seq(Packet)
        BY DEF Types
      <3> QED
        BY <1>2, <1>3, <1>4, <1>6, <3>1, SentCarriers DEF Carriers, NoCarrier
    <2>2. \A x \in PacketIds :
            ToSend(x)' \/ Outgoing(x)' = NoFlight => x # id
      <3>1. ASSUME pc' = "failing" PROVE ~ToSend(id)'
        BY <1>3, <3>1 DEF ToSend
      <3>2. Outgoing(id)' # NoFlight
        BY <1>3 DEF Outgoing
      <3> QED
        BY <1>5, <3>1, <3>2
    <2>3. \A x \in PacketIds :
            ToSend(x)' \/ Outgoing(x)' = NoFlight => NoCarrier(x)'
      BY <1>5, <2>1, <2>2 DEF Carriers
    <2> QED
      BY <1>3, <2>1, <2>3 DEF Carriers
  <1>7. CASE toBroker' = <<>> /\ toClient' = <<>>
    <2>1. /\ OneCarrier(toBroker', Sends, toClient', Answers)
          /\ \A x : NoCarrier(x)'
      BY <1>7, OneCarrierNothing DEF NoCarrier, None
    <2> QED
      BY <1>3, <2>1 DEF Carriers
  <1>8. CASE pc' = "failing" /\ UNCHANGED <<toBroker, toClient>>
    <2>1. \A x : NoCarrier(x)' <=> NoCarrier(x)
      BY <1>8 DEF NoCarrier
    <2> QED
      BY <1>3, <1>5, <1>8, <2>1 DEF Carriers
  <1> QED
    BY <1>3, <1>6, <1>7, <1>8

-----------------------------------------------------------------------------
(* The broker takes a publish or its release.                              *)

LEMMA TakenEffect ==
  ASSUME Types, BrokerTakesPublish \/ BrokerTakesPubrel
  PROVE  /\ UNCHANGED <<outgoing, messageOf, stored, acknowledged, published,
                        publishing, selected, pc, cursor, link, connectStatus,
                        session>>
         /\ toBroker # <<>> /\ toBroker' = Tail(toBroker)
         /\ Head(toBroker) \in Packet /\ Head(toBroker).type \in Sends
         /\ Head(toBroker).packetId \in PacketIds
         /\ \E p \in Packet :
              /\ p.packetId = Head(toBroker).packetId /\ p.type \in Answers
              /\ toClient' = Append(toClient, p)
  <1> USE DEF contextVars, appVars, receivedVars, cursorVars, threadVars,
              netVars, brokerVars
  <1>1. /\ UNCHANGED <<outgoing, messageOf, stored, acknowledged, published,
                       publishing, selected, pc, cursor, link, connectStatus,
                       session>>
        /\ toBroker # <<>> /\ toBroker' = Tail(toBroker)
        /\ Head(toBroker).type \in Sends
    BY DEF BrokerTakesPublish, BrokerTakesPubrel, BrokerReads, Sends
  <1>2. Head(toBroker) \in Packet /\ Head(toBroker).packetId \in PacketIds
    BY BrokerReadsPacket DEF BrokerTakesPublish, BrokerTakesPubrel
  <1>3. \E type \in Answers :
          toClient' = Append(toClient, Ack(type, Head(toBroker).packetId))
    BY DEF BrokerTakesPublish, BrokerTakesPubrel, Answers
  <1>4. Answers \subseteq MQTTPubAckType
    BY DEF Answers, MQTTPubAckType
  <1> QED
    BY <1>1, <1>2, <1>3, <1>4, MadePackets

LEMMA TakesCarriers ==
  ASSUME Types, Carriers, BrokerTakesPublish \/ BrokerTakesPubrel
  PROVE  Carriers'
  <1>1. PICK p \in Packet : /\ p.packetId = Head(toBroker).packetId
                            /\ toClient' = Append(toClient, p)
    BY TakenEffect
  <1>2. /\ UNCHANGED <<outgoing, publishing, selected, pc, cursor>>
        /\ toBroker # <<>> /\ Head(toBroker).type \in Sends
        /\ toBroker' = Tail(toBroker)
    BY TakenEffect
  <1>3. /\ OneCarrier(toBroker', Sends, toClient', Answers)
        /\ \A id : NoCarrier(id) => NoCarrier(id)'
    BY <1>1, <1>2, AnsweredCarriers
  <1>4. \A id : (ToSend(id)' <=> ToSend(id)) /\ Outgoing(id)' = Outgoing(id)
    BY <1>2 DEF ToSend, Outgoing
  <1> QED
    BY <1>2, <1>3, <1>4 DEF Carriers

-----------------------------------------------------------------------------
\* The steps by what they touch of the client's publishes.
LEMMA StepKinds ==
  ASSUME [Next]_vars
  PROVE  \/ QuietAction
         \/ PublishRefused \/ \E q \in PublishQoS : Reserve(q)
         \/ PublishSent \/ PublishNotSent
         \/ HandlePubackOrPubcomp
         \/ \E ok \in BOOLEAN : HandlePubrec(ok)
         \/ SelectPubrel \/ SelectPublish
         \/ ConnectNewSession
         \/ \E ok \in BOOLEAN : ResendPubrel(ok) \/ ResendPublish(ok)
         \/ BrokerTakesPublish \/ BrokerTakesPubrel
  BY DEF Next, MQTT_Publish, ProcessLoop, Connect, Broker, QuietAction

LEMMA NextCarriers ==
  ASSUME PublishesWhileResuming = FALSE, Base, Base', Carriers, [Next]_vars
  PROVE  Carriers'
  <1> USE DEF Base
  <1>1. CASE QuietAction
    BY <1>1, QuietStepCarriers
  <1>2. CASE PublishRefused \/ \E q \in PublishQoS : Reserve(q)
    BY <1>2, ReserveCarriers
  <1>3. CASE PublishSent \/ PublishNotSent
    BY <1>3, PublishedCarriers
  <1>4. CASE HandlePubackOrPubcomp
    BY <1>4, AckCarriers
  <1>5. CASE \E ok \in BOOLEAN : HandlePubrec(ok)
    BY <1>5, PubrecCarriers
  <1>6. CASE SelectPubrel \/ SelectPublish
    BY <1>6, SelectCarriers
  <1>7. CASE ConnectNewSession
    BY <1>7, NewSessionCarriers
  <1>8. CASE \E ok \in BOOLEAN : ResendPubrel(ok) \/ ResendPublish(ok)
    BY <1>8, ResentCarriers
  <1>9. CASE BrokerTakesPublish \/ BrokerTakesPubrel
    BY <1>9, TakesCarriers
  <1> QED
    BY <1>1, <1>2, <1>3, <1>4, <1>5, <1>6, <1>7, <1>8, <1>9, StepKinds

LEMMA CarriersInvariant ==
  ASSUME PublishesWhileResuming = FALSE
  PROVE  Spec => [](Base /\ Carriers)
  <1>1. Base /\ Base' /\ Carriers /\ [Next]_vars => Carriers'
    BY NextCarriers
  <1>2. Init => Carriers
    BY InitCarriers
  <1> QED
    BY <1>1, <1>2, BaseInvariant, PTL DEF Spec

-----------------------------------------------------------------------------
(* What the broker has when it answers.                                    *)

\* Every PUBLISH on its way has its copy, and what is released or answered
\* has been delivered.  The broker holds the identifier of a QoS 2 publish
\* that it has delivered, and no longer when it has answered its PUBREL.
Deliveries ==
  /\ \A i \in DOMAIN toBroker :
       toBroker[i].type = "Publish" => toBroker[i] \in stored
  /\ selected \in PublishPacket => selected \in stored
  /\ \A id \in PacketIds :
       Outgoing(id) \in Releasing => Delivered(messageOf[id])
  /\ \A i \in DOMAIN toClient :
       toClient[i].type \in Answers => Delivered(messageOf[toClient[i].packetId])
  /\ \A id \in PacketIds :
       id \in taken => Outgoing(id).qos = 2 /\ Delivered(messageOf[id])
  /\ \A i \in DOMAIN toClient :
       toClient[i].type = "Pubcomp" => toClient[i].packetId \notin taken
  /\ ~session => taken = {}
  /\ AcknowledgedIsDelivered

LEMMA InitDeliveries == Init => Deliveries
  <1> SUFFICES ASSUME Init PROVE Deliveries
    OBVIOUS
  <1>1. /\ toBroker = <<>> /\ toClient = <<>> /\ taken = {}
        /\ acknowledged = {} /\ selected = Nothing
    BY DEF Init
  <1>2. \A id \in PacketIds : Outgoing(id) = NoFlight
    <2>1. \A id \in PacketIds : Progress(outgoing)[id] = NoFlight
      BY EmptyTableView, SessionAssumption DEF Init, NoFlight
    <2> QED
      BY <2>1 DEF Progress, Outgoing
  <1> QED
    BY <1>1, <1>2, FlightsDiffer, PacketKinds
    DEF Deliveries, AcknowledgedIsDelivered

\* A step of the client, or of the network.
LEMMA DeliveriesStay ==
  ASSUME Types, Types', Deliveries,
         UNCHANGED arrivals,
         UNCHANGED <<taken, session>> \/ taken' = {},
         \A i \in DOMAIN toBroker' :
           toBroker'[i].type = "Publish" => toBroker'[i] \in stored',
         selected' \in PublishPacket => selected' \in stored',
         \A x \in PacketIds :
           Flight(outgoing', x) \in Releasing =>
             /\ messageOf'[x] = messageOf[x]
             /\ Outgoing(x) \in Releasing \/ Delivered(messageOf[x]),
         \A i \in DOMAIN toClient' :
           toClient'[i].type \in Answers =>
             /\ In(toClient, toClient'[i])
             /\ messageOf'[toClient'[i].packetId] =
                  messageOf[toClient'[i].packetId],
         \A x \in PacketIds :
           x \in taken' =>
             /\ messageOf'[x] = messageOf[x]
             /\ Flight(outgoing', x).qos = Outgoing(x).qos,
         \A m \in acknowledged' : m \in acknowledged \/ Delivered(m)
  PROVE  Deliveries'
  <1>1. \A m : Delivered(m)' <=> Delivered(m)
    BY DEF Delivered
  <1>2. ASSUME NEW x \in PacketIds, Flight(outgoing', x) \in Releasing
        PROVE  Delivered(messageOf'[x])
    BY <1>2 DEF Deliveries
  <1>3. ASSUME NEW i \in DOMAIN toClient', toClient'[i].type \in Answers
        PROVE  Delivered(messageOf'[toClient'[i].packetId])
    BY <1>3 DEF Deliveries, In
  <1>4. ASSUME NEW x \in PacketIds, x \in taken'
        PROVE  Flight(outgoing', x).qos = 2 /\ Delivered(messageOf'[x])
    BY <1>4 DEF Deliveries
  <1>5. ASSUME NEW i \in DOMAIN toClient', toClient'[i].type = "Pubcomp"
        PROVE  toClient'[i].packetId \notin taken'
    BY <1>5 DEF Deliveries, In, Answers
  <1>6. ~session' => taken' = {}
    BY DEF Deliveries
  <1>7. AcknowledgedIsDelivered'
    BY <1>1 DEF Deliveries, AcknowledgedIsDelivered
  <1> QED
    BY <1>1, <1>2, <1>3, <1>4, <1>5, <1>6, <1>7 DEF Deliveries, Outgoing, Delivered

LEMMA QuietDeliveries ==
  ASSUME Types, Types', Links, Links', Deliveries, QuietAction
  PROVE  Deliveries'
  <1>1. /\ UNCHANGED <<outgoing, messageOf, stored, arrivals, acknowledged,
                       selected>>
        /\ Quiet
        /\ UNCHANGED <<taken, session>> \/ taken' = {}
    BY QuietEffect
  <1>2. \A i \in DOMAIN toBroker' :
          toBroker'[i].type = "Publish" => toBroker'[i] \in stored'
    BY <1>1 DEF Quiet, Keeps, In, Sends, Deliveries
  <1>3. \A i \in DOMAIN toClient' :
          toClient'[i].type \in Answers => In(toClient, toClient'[i])
    BY <1>1 DEF Quiet, Keeps
  <1>4. \A x : Flight(outgoing', x) = Outgoing(x)
    BY <1>1 DEF Outgoing
  <1>5. selected' \in PublishPacket => selected' \in stored'
    BY <1>1 DEF Deliveries
  <1> QED
    BY <1>1, <1>2, <1>3, <1>4, <1>5, DeliveriesStay

LEMMA ReserveDeliveries ==
  ASSUME PublishesWhileResuming = FALSE,
         Types, Types', Links, Links', Carriers, Deliveries,
         PublishRefused \/ \E q \in PublishQoS : Reserve(q)
  PROVE  Deliveries'
  <1> USE DEF contextVars, appVars, receivedVars, cursorVars, threadVars,
              netVars, brokerVars
  <1>1. UNCHANGED <<arrivals, taken, session, toBroker, toClient, stored,
                    selected, acknowledged>>
    BY DEF PublishRefused, Reserve
  <1>2. /\ \A i \in DOMAIN toBroker' :
             toBroker'[i].type = "Publish" => toBroker'[i] \in stored'
        /\ selected' \in PublishPacket => selected' \in stored'
    BY <1>1 DEF Deliveries
  <1>3. /\ toClient \in Seq(Packet)
        /\ \A i \in DOMAIN toClient : In(toClient, toClient[i])
        /\ \A i \in DOMAIN toClient : toClient[i].packetId \in PacketIds
    BY PacketKinds DEF Types, In
  <1>4. CASE PublishRefused
    <2>1. FlightsKept /\ messageOf' = messageOf
      BY <1>4, RefusedOutgoing DEF PublishRefused
    <2> QED
      BY <1>1, <1>2, <1>3, <2>1, DeliveriesStay DEF FlightsKept, Outgoing
  <1>5. CASE \E q \in PublishQoS : Reserve(q)
    <2>1. PICK q \in PublishQoS : Reserve(q)
      BY <1>5
    <2>2. PICK n : n = nextPacketId
      OBVIOUS
    <2>3. /\ n \in PacketIds /\ q \in {1, 2}
          /\ OthersKept(n)
          /\ Flight(outgoing, n) = NoFlight
          /\ Flight(outgoing', n) = At(q, "PublishSend")
          /\ messageOf' = [messageOf EXCEPT ![n] = published + 1]
      BY <2>1, <2>2, ReservedOutgoing
    <2>4. \A x \in PacketIds \ {n} :
            /\ messageOf'[x] = messageOf[x]
            /\ Flight(outgoing', x) = Outgoing(x)
      BY <2>3 DEF Types, OthersKept, Outgoing
    <2>5. At(q, "PublishSend") \notin Releasing /\ NoFlight.qos # 2
      BY DEF At, Releasing, NoFlight
    <2>6. None(toClient, Answers, n)
      BY <2>3 DEF Carriers, NoCarrier, Outgoing
    <2>7. n \notin taken
      BY <2>3, <2>5 DEF Deliveries, Outgoing
    <2>8. \A x \in PacketIds :
            Flight(outgoing', x) \in Releasing =>
              /\ messageOf'[x] = messageOf[x]
              /\ Outgoing(x) \in Releasing \/ Delivered(messageOf[x])
      BY <2>3, <2>4, <2>5
    <2>9. \A i \in DOMAIN toClient' :
            toClient'[i].type \in Answers =>
              /\ In(toClient, toClient'[i])
              /\ messageOf'[toClient'[i].packetId] =
                   messageOf[toClient'[i].packetId]
      BY <1>1, <1>3, <2>4, <2>6 DEF None
    <2>10. \A x \in PacketIds :
             x \in taken' =>
               /\ messageOf'[x] = messageOf[x]
               /\ Flight(outgoing', x).qos = Outgoing(x).qos
      BY <1>1, <2>4, <2>7
    <2> QED
      BY <1>1, <1>2, <2>8, <2>9, <2>10, DeliveriesStay
  <1> QED
    BY <1>4, <1>5

\* A copy stays when those of another identifier go.
LEMMA CopyStays ==
  ASSUME NEW id, NEW copy \in stored, copy.packetId # id
  PROVE  copy \in CopiesBut(id)
  BY DEF CopiesBut, Copies

LEMMA PublishedDeliveries ==
  ASSUME Types, Types', Links, Links', Records, Carriers, Deliveries,
         PublishSent \/ PublishNotSent
  PROVE  Deliveries'
  <1> USE DEF contextVars, appVars, receivedVars, cursorVars, threadVars,
              netVars, brokerVars
  <1>1. publishing # Nothing /\ publishing' = Nothing
    BY DEF PublishSent, PublishNotSent, Unlocked
  <1>2. PICK p \in PublishPacket : p = publishing
    BY <1>1 DEF Types
  <1>3. PICK id \in PacketIds : id = p.packetId
    BY PacketKinds
  <1>4. /\ stored' = CopiesBut(id) \cup {p}
        /\ UNCHANGED <<messageOf, arrivals, taken, session, acknowledged,
                       selected>>
        /\ Transfer(TRUE, p, toClient) \/ Transfer(FALSE, p, toClient)
    BY <1>2, <1>3 DEF PublishSent, PublishNotSent
  <1>5. /\ selected' = Nothing
        /\ NoCarrier(id)
    BY <1>1, <1>2, <1>3, <1>4, PublishingIdle DEF Carriers, ToSend
  <1>6. /\ p.qos \in {1, 2}
        /\ OthersKept(id)
        /\ Outgoing(id) = At(p.qos, "PublishSend")
        /\ Flight(outgoing', id)
             \in {At(p.qos, "PublishSend"), At(p.qos, Pending(p.qos))}
    <2>1. Outgoing(id) = At(p.qos, "PublishSend") /\ p.qos \in {1, 2}
      BY <1>1, <1>2, <1>3, PacketKinds DEF Records, PublishingFits
    <2>2. CASE PublishSent
      BY <1>2, <1>3, <2>1, <2>2, SentOutgoing DEF Records
    <2>3. CASE PublishNotSent
      BY <2>1, <2>3 DEF PublishNotSent, OthersKept, Outgoing
    <2> QED
      BY <2>2, <2>3
  <1>7. /\ toBroker \in Seq(Packet) /\ toClient \in Seq(Packet)
        /\ \/ toBroker' = Append(toBroker, p) /\ toClient' = toClient
           \/ toBroker' = <<>> /\ toClient' = <<>>
    BY <1>4, TransferLinks DEF Types
  <1>8. ASSUME NEW i \in DOMAIN toBroker', toBroker'[i].type = "Publish"
        PROVE  toBroker'[i] \in stored'
    <2>1. PICK s : s = toBroker'[i]
      OBVIOUS
    <2>2. In(toBroker', s)
      BY <2>1 DEF In
    <2>3. In(toBroker, s) \/ s = p
      BY <1>7, <2>2, WireSent, PacketKinds DEF In
    <2>4. CASE In(toBroker, s)
      <3>1. s \in stored /\ s.packetId # id
        BY <1>5, <1>8, <2>1, <2>4 DEF In, Deliveries, NoCarrier, None, Sends
      <3> QED
        BY <1>4, <2>1, <3>1, CopyStays
    <2> QED
      BY <1>4, <2>1, <2>3, <2>4
  <1>9. \A i \in DOMAIN toClient' : In(toClient, toClient'[i])
    BY <1>7 DEF In
  <1>10. /\ Flight(outgoing', id) \notin Releasing
         /\ Flight(outgoing', id).qos = Outgoing(id).qos
    BY <1>6 DEF At, Releasing, Pending
  <1>11. \A x \in PacketIds \ {id} : Flight(outgoing', x) = Outgoing(x)
    BY <1>6 DEF OthersKept, Outgoing
  <1>12. selected' \notin PublishPacket
    BY <1>5, PacketKinds
  <1> QED
    BY <1>4, <1>8, <1>9, <1>10, <1>11, <1>12, DeliveriesStay

LEMMA AckDeliveries ==
  ASSUME Types, Types', Links, Links', Carriers, Deliveries,
         HandlePubackOrPubcomp
  PROVE  Deliveries'
  <1> USE DEF contextVars, appVars, receivedVars, cursorVars, threadVars,
              netVars, brokerVars
  <1>1. PICK id \in PacketIds, type \in {"Puback", "Pubcomp"} :
          id = Head(toClient).packetId /\ type = Head(toClient).type
    BY AckedOutgoing
  <1>2. /\ toClient # <<>> /\ type \in Answers
        /\ toClient' = Tail(toClient)
        /\ UNCHANGED <<pc, publishing, toBroker, messageOf, arrivals, taken,
                       session, selected>>
        /\ pc = "idle" /\ toClient \in Seq(Packet)
    BY <1>1, ArrivedPacket DEF HandlePubackOrPubcomp, Answers, Types
  <1>3. /\ OthersKept(id)
        /\ \/ FlightsKept /\ UNCHANGED <<stored, acknowledged>>
           \/ /\ Outgoing(id) = IF type = "Puback" THEN At(1, "PubAckPending")
                                                   ELSE At(2, "PubCompPending")
              /\ Flight(outgoing', id) = NoFlight
              /\ stored' = IF type = "Puback" THEN CopiesBut(id) ELSE stored
              /\ acknowledged' = acknowledged \cup {messageOf[id]}
    BY <1>1, AckedOutgoing
  <1>4. None(toBroker, Sends, id)
    BY <1>1, <1>2, ReadCarriers
  <1>5. In(toClient, Head(toClient)) /\ \A p : In(Tail(toClient), p) => In(toClient, p)
    BY <1>2, WireRead
  <1>6. Delivered(messageOf[id])
    BY <1>1, <1>2, <1>5 DEF Deliveries, In
  <1>7. \A i \in DOMAIN toBroker' :
          toBroker'[i].type = "Publish" => toBroker'[i] \in stored'
    BY <1>2, <1>3, <1>4, CopyStays DEF Deliveries, None, Sends
  <1>8. \A i \in DOMAIN toClient' : In(toClient, toClient'[i])
    BY <1>2, <1>5 DEF In
  <1>9. selected' \notin PublishPacket
    BY <1>2, PacketKinds DEF Links
  <1>10. ASSUME id \in taken, Flight(outgoing', id) = NoFlight,
                Outgoing(id) = IF type = "Puback" THEN At(1, "PubAckPending")
                                                  ELSE At(2, "PubCompPending")
         PROVE  FALSE
    <2>1. Outgoing(id).qos = 2
      BY <1>10 DEF Deliveries
    <2>2. type = "Pubcomp"
      BY <1>10, <2>1 DEF At
    <2> QED
      BY <1>1, <1>5, <1>10, <2>2 DEF Deliveries, In
  <1>11. \A x \in PacketIds :
           \/ Flight(outgoing', x) = Outgoing(x)
           \/ x = id /\ Flight(outgoing', id) = NoFlight /\ id \notin taken
    BY <1>3, <1>10 DEF OthersKept, FlightsKept, Outgoing
  <1>12. NoFlight \notin Releasing
    BY FlightsDiffer
  <1>13. \A m \in acknowledged' : m \in acknowledged \/ Delivered(m)
    BY <1>3, <1>6
  <1> QED
    BY <1>2, <1>7, <1>8, <1>9, <1>11, <1>12, <1>13, DeliveriesStay

\* What is on a wire that may have been given p.
LEMMA SentIn ==
  ASSUME NEW w \in Seq(Packet), NEW p \in Packet, NEW v, NEW s, In(v, s),
         v = Append(w, p) \/ v = <<>> \/ v = w
  PROVE  In(w, s) \/ s = p
  <1>1. CASE v = Append(w, p)
    BY <1>1, WireSent
  <1>2. CASE v = <<>> \/ v = w
    BY <1>2 DEF In
  <1> QED
    BY <1>1, <1>2

LEMMA PubrecDeliveries ==
  ASSUME Types, Types', Links, Links', Carriers, Deliveries,
         NEW ok \in BOOLEAN, HandlePubrec(ok)
  PROVE  Deliveries'
  <1> USE DEF contextVars, appVars, receivedVars, cursorVars, threadVars,
              netVars, brokerVars
  <1>1. PICK id \in PacketIds : id = Head(toClient).packetId
    BY PubrecOutgoing
  <1>2. /\ toClient # <<>> /\ Head(toClient).type = "Pubrec"
        /\ UNCHANGED <<messageOf, arrivals, taken, session, selected,
                       acknowledged>>
        /\ pc = "idle" /\ toClient \in Seq(Packet)
        /\ toBroker \in Seq(Packet)
    BY ArrivedPacket DEF HandlePubrec, Types
  <1>3. /\ OthersKept(id)
        /\ \/ /\ FlightsKept /\ toClient' = Tail(toClient)
              /\ UNCHANGED <<stored, toBroker>>
           \/ /\ Outgoing(id) = At(2, "PubRecPending")
              /\ Flight(outgoing', id)
                   \in {At(2, "PubCompPending"), At(2, "PubRelSend")}
              /\ stored' = CopiesBut(id)
              /\ Transfer(ok, Ack("Pubrel", id), Tail(toClient))
    BY <1>1, PubrecOutgoing
  <1>4. None(toBroker, Sends, id)
    BY <1>1, <1>2, ReadCarriers DEF Answers
  <1>5. In(toClient, Head(toClient)) /\ \A p : In(Tail(toClient), p) => In(toClient, p)
    BY <1>2, WireRead
  <1>6. Delivered(messageOf[id])
    BY <1>1, <1>2, <1>5 DEF Deliveries, In, Answers
  <1>7. selected' \notin PublishPacket
    BY <1>2, PacketKinds DEF Links
  <1>8. CASE /\ FlightsKept /\ toClient' = Tail(toClient)
             /\ UNCHANGED <<stored, toBroker>>
    <2>1. \A x \in PacketIds : Flight(outgoing', x) = Outgoing(x)
      BY <1>8 DEF FlightsKept, Outgoing
    <2>2. \A i \in DOMAIN toClient' : In(toClient, toClient'[i])
      BY <1>5, <1>8 DEF In
    <2>3. \A i \in DOMAIN toBroker' :
            toBroker'[i].type = "Publish" => toBroker'[i] \in stored'
      BY <1>8 DEF Deliveries
    <2> QED
      BY <1>2, <1>7, <1>8, <2>1, <2>2, <2>3, DeliveriesStay
  <1>9. CASE /\ Outgoing(id) = At(2, "PubRecPending")
             /\ Flight(outgoing', id)
                  \in {At(2, "PubCompPending"), At(2, "PubRelSend")}
             /\ stored' = CopiesBut(id)
             /\ Transfer(ok, Ack("Pubrel", id), Tail(toClient))
    <2>1. PICK p : p = Ack("Pubrel", id)
      OBVIOUS
    <2>2. p \in Packet /\ p.type = "Pubrel"
      BY <2>1, MadePackets DEF MQTTPubAckType
    <2>3. \/ toBroker' = Append(toBroker, p) /\ toClient' = Tail(toClient)
          \/ toBroker' = <<>> /\ toClient' = <<>>
      BY <1>9, <2>1, TransferLinks
    <2>4. ASSUME NEW i \in DOMAIN toClient' PROVE In(toClient, toClient'[i])
      <3>1. toClient' = Tail(toClient)
        BY <2>3, <2>4
      <3> QED
        BY <1>5, <2>4, <3>1 DEF In
    <2>5. ASSUME NEW i \in DOMAIN toBroker', toBroker'[i].type = "Publish"
          PROVE  toBroker'[i] \in stored'
      <3>1. PICK s : s = toBroker'[i]
        OBVIOUS
      <3>2. In(toBroker', s)
        BY <3>1 DEF In
      <3>3. In(toBroker, s)
        BY <1>2, <2>2, <2>3, <2>5, <3>1, <3>2, SentIn
      <3>4. s \in stored /\ s.packetId # id
        BY <1>4, <2>5, <3>1, <3>3 DEF In, Deliveries, None, Sends
      <3> QED
        BY <1>9, <3>1, <3>4, CopyStays
    <2>6. Flight(outgoing', id).qos = Outgoing(id).qos
      BY <1>9 DEF At
    <2>7. \A x \in PacketIds \ {id} : Flight(outgoing', x) = Outgoing(x)
      BY <1>3 DEF OthersKept, Outgoing
    <2> QED
      BY <1>2, <1>6, <1>7, <2>4, <2>5, <2>6, <2>7, DeliveriesStay
  <1> QED
    BY <1>3, <1>8, <1>9

LEMMA ConnectDeliveries ==
  ASSUME Types, Types', Links, Links', Records, Records', Carriers, Deliveries,
         \/ SelectPubrel \/ SelectPublish \/ ConnectNewSession
         \/ \E ok \in BOOLEAN : ResendPubrel(ok) \/ ResendPublish(ok)
  PROVE  Deliveries'
  <1> USE DEF contextVars, appVars, receivedVars, cursorVars, threadVars,
              netVars, brokerVars
  <1>1. CASE SelectPubrel \/ SelectPublish
    <2>1. /\ UNCHANGED <<outgoing, messageOf, stored, arrivals, acknowledged,
                         taken, session, toBroker, toClient>>
          /\ selected' \in PubrelPacket \/ selected' \in stored
      BY <1>1, SelectionEffect
    <2>2. selected' \in PubrelPacket => selected' \notin PublishPacket
      BY PacketKinds
    <2>3. /\ \A i \in DOMAIN toClient' : In(toClient, toClient'[i])
          /\ \A i \in DOMAIN toBroker' :
               toBroker'[i].type = "Publish" => toBroker'[i] \in stored'
      BY <2>1 DEF In, Deliveries
    <2>4. \A x \in PacketIds : Flight(outgoing', x) = Outgoing(x)
      BY <2>1 DEF Outgoing
    <2> QED
      BY <2>1, <2>2, <2>3, <2>4, DeliveriesStay
  <1>2. CASE ConnectNewSession
    <2>1. /\ UNCHANGED <<messageOf, arrivals, acknowledged, taken, selected>>
          /\ toBroker' = <<>> /\ toClient' = <<>> /\ selected = Nothing
          /\ ~session
      BY <1>2 DEF ConnectNewSession, Idle, Links
    <2>2. \A x \in PacketIds : Flight(outgoing', x) = NoFlight
      BY <1>2, ClearedOutgoing
    <2>3. taken' = {} /\ NoFlight \notin Releasing /\ selected' \notin PublishPacket
      BY <2>1, FlightsDiffer, PacketKinds DEF Deliveries
    <2> QED
      BY <2>1, <2>2, <2>3, DeliveriesStay
  <1>3. CASE \E ok \in BOOLEAN : ResendPubrel(ok) \/ ResendPublish(ok)
    <2>1. PICK p \in Packet : p = selected
      BY <1>3, ResentEffect
    <2>2. PICK id \in PacketIds : id = selected.packetId
      BY <2>1, PacketKinds
    <2>3. /\ UNCHANGED <<messageOf, stored, arrivals, acknowledged, taken,
                         session>>
          /\ selected' = Nothing
          /\ OthersKept(id)
          /\ p.type \in Sends
          /\ \/ toBroker' = Append(toBroker, p) /\ toClient' = toClient
             \/ toBroker' = <<>> /\ toClient' = <<>>
             \/ UNCHANGED <<toBroker, toClient>>
          /\ \/ FlightsKept
             \/ pc = "pubrels" /\ Flight(outgoing', id) = At(2, "PubCompPending")
             \/ pc = "publishes" /\ UNCHANGED outgoing
      BY <1>3, <2>1, <2>2, ResentEffect
    <2>4. ASSUME NEW x \in PacketIds
          PROVE  \/ Flight(outgoing', x) = Outgoing(x)
                 \/ /\ Outgoing(x) \in Releasing
                    /\ Flight(outgoing', x).qos = Outgoing(x).qos
      <3>1. CASE pc = "pubrels" /\ Flight(outgoing', id) = At(2, "PubCompPending")
        <4>1. selected \in PubrelPacket
          BY <2>1, <2>3, <3>1, PacketKinds DEF Links, Sends
        <4>2. Outgoing(id) \in Releasing
          BY <2>2, <4>1 DEF Records, SelectedFits
        <4>3. Flight(outgoing', id).qos = Outgoing(id).qos
          BY <3>1, <4>2 DEF At, Releasing
        <4> QED
          BY <2>3, <4>2, <4>3 DEF OthersKept, Outgoing
      <3> QED
        BY <2>3, <3>1 DEF FlightsKept, Outgoing
    <2>5. toBroker \in Seq(Packet) /\ toClient \in Seq(Packet)
      BY DEF Types
    <2>6. ASSUME NEW i \in DOMAIN toBroker', toBroker'[i].type = "Publish"
          PROVE  toBroker'[i] \in stored'
      <3>1. PICK s : s = toBroker'[i]
        OBVIOUS
      <3>2. In(toBroker', s)
        BY <3>1 DEF In
      <3>3. In(toBroker, s) \/ s = p
        BY <2>3, <2>5, <3>2, SentIn
      <3>4. s = p => selected \in PublishPacket
        BY <2>1, <2>6, <3>1, PacketKinds
      <3> QED
        BY <2>1, <2>3, <2>6, <3>1, <3>3, <3>4 DEF In, Deliveries
    <2>7. \A i \in DOMAIN toClient' : In(toClient, toClient'[i])
      BY <2>3 DEF In
    <2>8. selected' \notin PublishPacket
      BY <2>3, PacketKinds
    <2> QED
      BY <2>3, <2>4, <2>6, <2>7, <2>8, DeliveriesStay
  <1> QED
    BY <1>1, <1>2, <1>3

\* The wires after the broker has taken p and answered with q.
LEMMA TakenWires ==
  ASSUME Types, Carriers, BrokerTakesPublish \/ BrokerTakesPubrel,
         NEW id, id = Head(toBroker).packetId
  PROVE  /\ \A s : In(toBroker', s) => In(toBroker, s)
         /\ In(toBroker, Head(toBroker))
         /\ None(toClient, Answers, id)
         /\ \A i \in DOMAIN toClient' :
              In(toClient, toClient'[i]) \/ toClient'[i].packetId = id
  <1>1. PICK p \in Packet : p.packetId = id /\ toClient' = Append(toClient, p)
    BY TakenEffect
  <1>2. /\ toBroker # <<>> /\ toBroker' = Tail(toBroker)
        /\ Head(toBroker).type \in Sends
        /\ toBroker \in Seq(Packet) /\ toClient \in Seq(Packet)
    BY TakenEffect DEF Types
  <1>3. /\ \A s : In(toBroker', s) => In(toBroker, s)
        /\ In(toBroker, Head(toBroker))
    BY <1>2, WireRead
  <1>4. None(toClient, Answers, id)
    BY <1>1, <1>2, AnsweredCarriers
  <1>5. ASSUME NEW i \in DOMAIN toClient'
        PROVE  In(toClient, toClient'[i]) \/ toClient'[i].packetId = id
    <2>1. PICK s : s = toClient'[i]
      OBVIOUS
    <2>2. In(toClient', s)
      BY <2>1 DEF In
    <2>3. In(toClient, s) \/ s = p
      BY <1>1, <1>2, <2>2, SentIn
    <2> QED
      BY <1>1, <2>1, <2>3
  <1> QED
    BY <1>3, <1>4, <1>5

\* What the broker takes it delivers, if it has not delivered it before.
LEMMA TakenIsDelivered ==
  ASSUME Types, Records, Carriers, Deliveries, BrokerTakesPublish,
         NEW p \in PublishPacket, p = Head(toBroker)
  PROVE  /\ p \in stored
         /\ \/ arrivals' = arrivals
            \/ ~Delivered(p.message) /\ arrivals' = Append(arrivals, p.message)
         /\ \A m : Delivered(m)' <=> Delivered(m) \/ m = p.message
  <1>1. PICK id \in PacketIds : id = p.packetId
    BY PacketKinds
  <1> DEFINE new == p.qos = 1 \/ id \notin taken
  <1>2. arrivals' = IF new /\ ~Delivered(p.message)
                      THEN Append(arrivals, p.message) ELSE arrivals
    BY <1>1 DEF BrokerTakesPublish
  <1>3. In(toBroker, p)
    BY <1>1, TakenWires
  <1>4. p \in stored /\ p.qos \in {1, 2} /\ p.message \in Nat
    BY <1>3, PacketKinds DEF Deliveries, In
  <1>5. ~new => Delivered(p.message)
    BY <1>1, <1>4 DEF Records, CopiesFit, Deliveries
  <1> HIDE DEF new
  <1>6. CASE new /\ ~Delivered(p.message)
    <2>1. arrivals \in Seq(Nat) /\ arrivals' = Append(arrivals, p.message)
      BY <1>2, <1>6 DEF Types
    <2>2. \A m : In(arrivals', m) <=> In(arrivals, m) \/ m = p.message
      BY <1>4, <2>1, WireSent
    <2> QED
      BY <1>4, <1>6, <2>1, <2>2 DEF In, Delivered
  <1>7. CASE Delivered(p.message)
    <2>1. arrivals' = arrivals
      BY <1>2, <1>7
    <2> QED
      BY <1>4, <1>7, <2>1 DEF Delivered
  <1> QED
    BY <1>5, <1>6, <1>7

LEMMA TakesPublishDeliveries ==
  ASSUME Types, Types', Links, Records, Carriers, Deliveries,
         BrokerTakesPublish
  PROVE  Deliveries'
  <1> USE DEF contextVars, appVars, receivedVars, cursorVars, threadVars,
              netVars, brokerVars
  <1>1. PICK p \in PublishPacket : p = Head(toBroker)
    BY BrokerReadsPacket, PacketKinds DEF BrokerTakesPublish
  <1>2. PICK id \in PacketIds : id = p.packetId
    BY PacketKinds
  <1>3. /\ taken' = IF p.qos = 2 THEN taken \cup {id} ELSE taken
        /\ toClient' = Append(toClient,
                              Ack(IF p.qos = 1 THEN "Puback" ELSE "Pubrec", id))
        /\ session
    BY <1>1, <1>2 DEF BrokerTakesPublish, BrokerReads, Links
  <1>4. UNCHANGED <<outgoing, messageOf, stored, acknowledged, selected, session>>
    BY TakenEffect
  <1>5. /\ \A s : In(toBroker', s) => In(toBroker, s)
        /\ In(toBroker, p) /\ None(toClient, Answers, id)
        /\ \A i \in DOMAIN toClient' :
             In(toClient, toClient'[i]) \/ toClient'[i].packetId = id
    BY <1>1, <1>2, TakenWires
  <1>6. p \in stored /\ p.qos \in {1, 2} /\ p.message \in Nat
    BY <1>5, PacketKinds DEF Deliveries, In
  <1>7. Outgoing(id) \in Resendable(p.qos) /\ messageOf[id] = p.message
    BY <1>2, <1>6 DEF Records, CopiesFit
  <1>8. Outgoing(id).qos = p.qos
    BY <1>6, <1>7, FlightsDiffer
  <1>9. \A m : Delivered(m)' <=> Delivered(m) \/ m = p.message
    BY <1>1, TakenIsDelivered
  <1>10. \A x \in PacketIds :
           Delivered(messageOf[x]) \/ x = id => Delivered(messageOf[x])'
    <2> SUFFICES ASSUME NEW x \in PacketIds, Delivered(messageOf[x]) \/ x = id
                 PROVE  Delivered(messageOf[x])'
      OBVIOUS
    <2>1. PICK m : m = messageOf[x]
      OBVIOUS
    <2>2. Delivered(m)'
      <3>1. CASE Delivered(messageOf[x])
        BY <1>9, <2>1, <3>1
      <3>2. CASE x = id
        BY <1>7, <1>9, <2>1, <3>2 DEF Delivered
      <3> QED
        BY <3>1, <3>2
    <2> QED
      BY <1>4, <2>1, <2>2 DEF Delivered
  <1>11. ASSUME NEW i \in DOMAIN toClient', toClient'[i].type \in Answers
         PROVE  Delivered(messageOf[toClient[i].packetId])'
    <2>1. PICK x \in PacketIds : x = toClient'[i].packetId
      <3>1. toClient' \in Seq(Packet)
        BY DEF Types
      <3> QED
        BY <3>1, PacketKinds
    <2>2. Delivered(messageOf[x]) \/ x = id
      BY <1>5, <1>11, <2>1 DEF Deliveries, In
    <2>3. Delivered(messageOf[x])'
      BY <1>10, <2>2
    <2> QED
      BY <2>1, <2>3 DEF Delivered
  <1>12. ASSUME NEW i \in DOMAIN toClient', toClient'[i].type = "Pubcomp"
         PROVE  toClient'[i].packetId \notin taken'
    <2>1. In(toClient, toClient'[i])
      <3>1. PICK s : s = toClient'[i]
        OBVIOUS
      <3>2. In(toClient', s)
        BY <3>1 DEF In
      <3>3. PICK a : a = Ack(IF p.qos = 1 THEN "Puback" ELSE "Pubrec", id)
        OBVIOUS
      <3>4. a \in Packet /\ a.type # "Pubcomp"
        BY <3>3, MadePackets DEF MQTTPubAckType
      <3>5. toClient' = Append(toClient, a) /\ toClient \in Seq(Packet)
        BY <1>3, <3>3 DEF Types
      <3>6. In(toClient, s) \/ s = a
        BY <3>2, <3>4, <3>5, SentIn
      <3> QED
        BY <1>12, <3>1, <3>4, <3>6
    <2>2. toClient'[i].packetId \notin taken /\ toClient'[i].packetId # id
      BY <1>5, <1>12, <2>1 DEF Deliveries, In, None, Answers
    <2> QED
      BY <1>3, <2>2
  <1>13. \A x \in PacketIds :
           x \in taken' => Outgoing(x).qos = 2 /\ Delivered(messageOf[x])'
    BY <1>3, <1>8, <1>10 DEF Deliveries
  <1>14. \A x \in PacketIds :
           Outgoing(x) \in Releasing => Delivered(messageOf[x])'
    BY <1>10 DEF Deliveries
  <1>15. \A i \in DOMAIN toBroker' :
           toBroker'[i].type = "Publish" => toBroker'[i] \in stored
    BY <1>5 DEF In, Deliveries
  <1>16. AcknowledgedIsDelivered'
    BY <1>4, <1>9 DEF Deliveries, AcknowledgedIsDelivered
  <1>17. selected' \in PublishPacket => selected' \in stored'
    BY <1>4 DEF Deliveries
  <1> QED
    BY <1>3, <1>4, <1>11, <1>12, <1>13, <1>14, <1>15, <1>16, <1>17
    DEF Deliveries, Outgoing

LEMMA TakesPubrelDeliveries ==
  ASSUME Types, Types', Links, Carriers, Outbound, Deliveries,
         BrokerTakesPubrel
  PROVE  Deliveries'
  <1> USE DEF contextVars, appVars, receivedVars, cursorVars, threadVars,
              netVars, brokerVars
  <1>1. PICK id \in PacketIds : id = Head(toBroker).packetId
    BY BrokerReadsPacket DEF BrokerTakesPubrel
  <1>2. /\ Head(toBroker).type = "Pubrel"
        /\ taken' = taken \ {id}
        /\ UNCHANGED <<outgoing, messageOf, stored, arrivals, acknowledged,
                       selected, session>>
    BY <1>1 DEF BrokerTakesPubrel, BrokerReads
  <1>3. /\ \A s : In(toBroker', s) => In(toBroker, s)
        /\ In(toBroker, Head(toBroker)) /\ None(toClient, Answers, id)
        /\ \A i \in DOMAIN toClient' :
             In(toClient, toClient'[i]) \/ toClient'[i].packetId = id
    BY <1>1, TakenWires
  <1>4. \A m : Delivered(m)' <=> Delivered(m)
    BY <1>2 DEF Delivered
  <1>5. Delivered(messageOf[id])
    <2>1. ~NoRelease(id)
      BY <1>1, <1>2, <1>3 DEF In, NoRelease, None
    <2>2. Outgoing(id) \in Releasing
      BY <2>1 DEF Outbound, Releases, Releasing
    <2> QED
      BY <2>2 DEF Deliveries
  <1>6. ASSUME NEW i \in DOMAIN toClient', toClient'[i].type \in Answers
        PROVE  /\ Delivered(messageOf[toClient'[i].packetId])
               /\ toClient'[i].type = "Pubcomp" =>
                    toClient'[i].packetId \notin taken'
    <2>1. CASE In(toClient, toClient'[i])
      BY <1>2, <1>6, <2>1 DEF Deliveries, In
    <2>2. CASE toClient'[i].packetId = id
      BY <1>2, <1>5, <2>2
    <2> QED
      BY <1>3, <2>1, <2>2
  <1>7. \A i \in DOMAIN toBroker' :
          toBroker'[i].type = "Publish" => toBroker'[i] \in stored
    BY <1>3 DEF In, Deliveries
  <1>8. AcknowledgedIsDelivered'
    BY <1>2, <1>4 DEF Deliveries, AcknowledgedIsDelivered
  <1>9. /\ \A x \in PacketIds : Outgoing(x) \in Releasing => Delivered(messageOf[x])
        /\ \A x \in PacketIds :
             x \in taken' => Outgoing(x).qos = 2 /\ Delivered(messageOf[x])
        /\ ~session => taken' = {}
        /\ selected \in PublishPacket => selected \in stored
    BY <1>2 DEF Deliveries
  <1> QED
    BY <1>2, <1>6, <1>7, <1>8, <1>9
    DEF Deliveries, Outgoing, Delivered, Answers

LEMMA NextDeliveries ==
  ASSUME PublishesWhileResuming = FALSE,
         Base, Base', Outbound, Carriers, Deliveries, [Next]_vars
  PROVE  Deliveries'
  <1> USE DEF Base
  <1>1. CASE QuietAction
    BY <1>1, QuietDeliveries
  <1>2. CASE PublishRefused \/ \E q \in PublishQoS : Reserve(q)
    BY <1>2, ReserveDeliveries
  <1>3. CASE PublishSent \/ PublishNotSent
    BY <1>3, PublishedDeliveries
  <1>4. CASE HandlePubackOrPubcomp
    BY <1>4, AckDeliveries
  <1>5. CASE \E ok \in BOOLEAN : HandlePubrec(ok)
    BY <1>5, PubrecDeliveries
  <1>6. CASE \/ SelectPubrel \/ SelectPublish \/ ConnectNewSession
             \/ \E ok \in BOOLEAN : ResendPubrel(ok) \/ ResendPublish(ok)
    BY <1>6, ConnectDeliveries
  <1>7. CASE BrokerTakesPublish
    BY <1>7, TakesPublishDeliveries
  <1>8. CASE BrokerTakesPubrel
    BY <1>8, TakesPubrelDeliveries
  <1> QED
    BY <1>1, <1>2, <1>3, <1>4, <1>5, <1>6, <1>7, <1>8, StepKinds

LEMMA DeliveriesInvariant ==
  ASSUME PublishesWhileResuming = FALSE
  PROVE  Spec => [](Base /\ Outbound /\ Carriers /\ Deliveries)
  <1>1. Base /\ Base' /\ Outbound /\ Carriers /\ Deliveries /\ [Next]_vars
          => Deliveries'
    BY NextDeliveries
  <1>2. Init => Deliveries
    BY InitDeliveries
  <1>3. Spec => [](Base /\ Carriers)
    BY CarriersInvariant
  <1> QED
    BY <1>1, <1>2, <1>3, OutboundInvariant, PTL DEF Spec

\* What the callback reports as acknowledged has been delivered by the broker
\* to its subscribers, for both levels of QoS, when no thread publishes during
\* a resumption: no PUBACK or PUBCOMP of an earlier publish ends the record of
\* a later one with the same identifier, also when sends, stores and
\* connections fail and the broker forgets the session (handlePublishAcks).
THEOREM AcknowledgedDelivered ==
  ASSUME PublishesWhileResuming = FALSE
  PROVE  Spec => []AcknowledgedIsDelivered
  <1>1. Deliveries => AcknowledgedIsDelivered
    BY DEF Deliveries
  <1> QED
    BY <1>1, DeliveriesInvariant, PTL

-----------------------------------------------------------------------------
(* Acknowledgements and the records that they meet.                        *)

\* The record at f takes the acknowledgement a.
Takes(f, a) ==
  /\ a.type = "Puback" => f = At(1, "PubAckPending")
  /\ a.type = "Pubrec" => f = At(2, "PubRecPending")

\* The record at f is of a publish that has been sent.
AwaitsAck(f, copy) == f = At(copy.qos, Pending(copy.qos))

\* Every publish that may be sent again waits for its PUBACK or PUBREC, and
\* so does the record of a PUBACK or PUBREC on its way; that of a PUBCOMP is
\* part of Outbound.  The broker has nothing to say but answers.
Expected ==
  /\ \A i \in DOMAIN toClient :
       /\ toClient[i].type \in Answers
       /\ Takes(Outgoing(toClient[i].packetId), toClient[i])
  /\ \A copy \in stored : AwaitsAck(Outgoing(copy.packetId), copy)
  /\ outbound = <<>>
  /\ sent = 0
  /\ AcksMeetTheirRecords

LEMMA InitExpected == Init => Expected
  <1>1. ASSUME Init PROVE /\ toClient = <<>> /\ stored = {} /\ outbound = <<>>
                          /\ sent = 0 /\ processStatus = "Success"
    BY <1>1 DEF Init
  <1> QED
    BY <1>1 DEF Expected, AcksMeetTheirRecords

\* A step that touches the record of one identifier at most.
LEMMA ExpectedStays ==
  ASSUME Types, Types', Expected, NEW id, OthersKept(id),
         UNCHANGED <<outbound, sent>>, AcksMeetTheirRecords',
         \A i \in DOMAIN toClient' :
           \/ /\ In(toClient, toClient'[i])
              /\ toClient'[i].packetId # id \/ FlightsKept
           \/ /\ toClient'[i].type \in Answers
              /\ Takes(Flight(outgoing', toClient'[i].packetId), toClient'[i]),
         \A copy \in stored' :
           \/ /\ copy \in stored
              /\ copy.packetId # id \/ FlightsKept
           \/ AwaitsAck(Flight(outgoing', copy.packetId), copy)
  PROVE  Expected'
  <1>1. \A x \in PacketIds :
          x # id \/ FlightsKept => Flight(outgoing', x) = Outgoing(x)
    BY DEF OthersKept, FlightsKept, Outgoing
  <1>2. /\ \A i \in DOMAIN toClient' : toClient'[i].packetId \in PacketIds
        /\ \A copy \in stored' : copy.packetId \in PacketIds
    <2>1. toClient' \in Seq(Packet) /\ stored' \subseteq PublishPacket
      BY DEF Types
    <2> QED
      BY <2>1, PacketKinds
  <1>3. ASSUME NEW i \in DOMAIN toClient'
        PROVE  /\ toClient'[i].type \in Answers
               /\ Takes(Flight(outgoing', toClient'[i].packetId), toClient'[i])
    <2>1. CASE /\ In(toClient, toClient'[i])
               /\ toClient'[i].packetId # id \/ FlightsKept
      <3>1. /\ toClient'[i].type \in Answers
            /\ Takes(Outgoing(toClient'[i].packetId), toClient'[i])
        BY <2>1 DEF In, Expected
      <3> QED
        BY <1>1, <1>2, <2>1, <3>1
    <2> QED
      BY <2>1
  <1>4. ASSUME NEW copy \in stored'
        PROVE  AwaitsAck(Flight(outgoing', copy.packetId), copy)
    <2>1. CASE copy \in stored /\ (copy.packetId # id \/ FlightsKept)
      <3>1. AwaitsAck(Outgoing(copy.packetId), copy)
        BY <2>1 DEF Expected
      <3> QED
        BY <1>1, <1>2, <2>1, <3>1
    <2> QED
      BY <2>1
  <1> QED
    BY <1>3, <1>4 DEF Expected, Outgoing

\* A step that touches neither records nor copies.
LEMMA ExpectedKept ==
  ASSUME Types, Types', Expected, FlightsKept,
         UNCHANGED <<outbound, sent>>, AcksMeetTheirRecords',
         \A i \in DOMAIN toClient' : In(toClient, toClient'[i]),
         stored' \subseteq stored
  PROVE  Expected'
  <1>1. OthersKept(0)
    BY DEF OthersKept, FlightsKept
  <1> QED
    BY <1>1, ExpectedStays

LEMMA QuietExpected ==
  ASSUME Types, Types', Links, Links', Expected, InMessages = 0, QuietAction
  PROVE  Expected'
  <1> USE DEF contextVars, appVars, receivedVars, cursorVars, threadVars,
              netVars, brokerVars, vars
  <1>1. UNCHANGED <<outgoing, stored>> /\ FlightsKept
    BY QuietEffect DEF FlightsKept
  <1>2. \A i \in DOMAIN toClient : In(toClient, toClient[i])
    BY DEF In
  <1>3. \A ok \in BOOLEAN : ~HandlePublish(ok) /\ ~HandlePubrel(ok)
    <2>1. toClient # <<>> => Head(toClient).type \in Answers
      BY DEF Expected, Types
    <2> QED
      BY <2>1 DEF HandlePublish, HandlePubrel, Arrived, Answers
  <1>4. /\ ~BrokerTakesPubackOrPubrec /\ ~BrokerTakesPubcomp
        /\ \A id \in PacketIds, q \in PublishQoS : ~BrokerSendsPublish(id, q)
    BY DEF Expected, BrokerTakesPubackOrPubrec, BrokerTakesPubcomp,
           BrokerSendsPublish, Outstanding
  <1>5. UNCHANGED sent /\ outbound' \in {outbound, <<>>}
    BY <1>3, <1>4
    DEF QuietAction, PublishNotStored, ReceiveNothing, ReceiveFails,
        Disconnect, ConnectResumedSession, SelectionEnds, RetrieveFails,
        Selecting, ConnectFails, BrokerForgets, LinkBreaks
  <1>6. toClient' \in {toClient, outbound, <<>>}
    BY <1>3, <1>4
    DEF QuietAction, PublishNotStored, ReceiveNothing, ReceiveFails,
        Disconnect, ConnectResumedSession, SelectionEnds, RetrieveFails,
        Selecting, ConnectFails, BrokerForgets, LinkBreaks
  <1>7. processStatus' \in {processStatus, "Success", "RecvFailed"}
    BY <1>3, <1>4
    DEF QuietAction, PublishNotStored, ReceiveNothing, ReceiveFails,
        Disconnect, ConnectResumedSession, SelectionEnds, RetrieveFails,
        Selecting, ConnectFails, BrokerForgets, LinkBreaks
  <1>8. AcksMeetTheirRecords'
    BY <1>7 DEF Expected, AcksMeetTheirRecords
  <1>9. outbound = <<>>
    BY DEF Expected
  <1>10. \A i \in DOMAIN toClient' : In(toClient, toClient'[i])
    BY <1>2, <1>6, <1>9
  <1> QED
    BY <1>1, <1>5, <1>8, <1>9, <1>10, ExpectedKept

LEMMA ReserveExpected ==
  ASSUME Types, Types', Links, Carriers, Expected,
         PublishRefused \/ \E q \in PublishQoS : Reserve(q)
  PROVE  Expected'
  <1> USE DEF contextVars, appVars, receivedVars, cursorVars, threadVars,
              netVars, brokerVars
  <1>1. UNCHANGED <<toClient, stored, outbound, sent, processStatus>>
    BY DEF PublishRefused, Reserve
  <1>2. /\ \A i \in DOMAIN toClient' : In(toClient, toClient'[i])
        /\ AcksMeetTheirRecords'
    BY <1>1 DEF In, Expected, AcksMeetTheirRecords
  <1>3. CASE PublishRefused
    BY <1>1, <1>2, <1>3, RefusedOutgoing, ExpectedKept
  <1>4. CASE \E q \in PublishQoS : Reserve(q)
    <2>1. PICK q \in PublishQoS : Reserve(q)
      BY <1>4
    <2>2. PICK n : n = nextPacketId
      OBVIOUS
    <2>3. /\ n \in PacketIds
          /\ OthersKept(n)
          /\ Outgoing(n) = NoFlight
      BY <2>1, <2>2, ReservedOutgoing DEF Outgoing
    <2>4. None(toClient, Answers, n)
      BY <2>3 DEF Carriers, NoCarrier
    <2>5. \A i \in DOMAIN toClient' : toClient'[i].packetId # n
      BY <1>1, <2>4 DEF None, Expected
    <2>6. \A copy \in stored' : copy \in stored /\ copy.packetId # n
      <3> SUFFICES ASSUME NEW copy \in stored, copy.packetId = n PROVE FALSE
        BY <1>1
      <3>1. copy.qos \in {1, 2}
        BY PacketKinds DEF Types
      <3>2. NoFlight = At(copy.qos, Pending(copy.qos))
        BY <2>3 DEF Expected, AwaitsAck
      <3> QED
        BY <3>1, <3>2, FlightsDiffer
    <2> QED
      BY <1>1, <1>2, <2>3, <2>5, <2>6, ExpectedStays
  <1> QED
    BY <1>3, <1>4

LEMMA PublishedExpected ==
  ASSUME Types, Types', Links, Records, Carriers, Expected, PublishSent
  PROVE  Expected'
  <1> USE DEF contextVars, appVars, receivedVars, cursorVars, threadVars,
              netVars, brokerVars
  <1>1. publishing # Nothing
    BY DEF PublishSent, Unlocked
  <1>2. PICK p \in PublishPacket : p = publishing
    BY <1>1 DEF Types
  <1>3. PICK id \in PacketIds : id = p.packetId
    BY PacketKinds
  <1>4. /\ stored' = CopiesBut(id) \cup {p}
        /\ Transfer(TRUE, p, toClient)
        /\ UNCHANGED <<outbound, sent, processStatus>>
    BY <1>2, <1>3 DEF PublishSent
  <1>5. /\ OthersKept(id)
        /\ AwaitsAck(Flight(outgoing', id), p)
    BY <1>2, <1>3, SentOutgoing DEF Records, AwaitsAck
  <1>6. None(toClient, Answers, id)
    BY <1>1, <1>2, <1>3 DEF Carriers, ToSend, NoCarrier
  <1>7. \A i \in DOMAIN toClient' :
          In(toClient, toClient'[i]) /\ toClient'[i].packetId # id
    <2>1. toClient' \in {toClient, <<>>}
      BY <1>4, TransferLinks
    <2> QED
      BY <1>6, <2>1 DEF In, None, Expected
  <1>8. \A copy \in stored' :
          \/ copy \in stored /\ copy.packetId # id
          \/ AwaitsAck(Flight(outgoing', copy.packetId), copy)
    BY <1>3, <1>4, <1>5 DEF CopiesBut, Copies
  <1>9. AcksMeetTheirRecords'
    BY <1>4 DEF Expected, AcksMeetTheirRecords
  <1> QED
    BY <1>4, <1>5, <1>7, <1>8, <1>9, ExpectedStays

\* What the client reads, and what it leaves, when it reads an answer.
LEMMA ReadExpected ==
  ASSUME Types, Carriers, Outbound, Expected, toClient # <<>>,
         NEW id \in PacketIds, id = Head(toClient).packetId
  PROVE  /\ Takes(Outgoing(id), Head(toClient))
         /\ Head(toClient).type = "Pubcomp" =>
              Outgoing(id) = At(2, "PubCompPending")
         /\ \A i \in DOMAIN Tail(toClient) :
              /\ In(toClient, Tail(toClient)[i])
              /\ Tail(toClient)[i].packetId # id
  <1>1. toClient \in Seq(Packet)
    BY DEF Types
  <1>2. /\ In(toClient, Head(toClient))
        /\ \A p : In(Tail(toClient), p) => In(toClient, p)
    BY <1>1, WireRead
  <1>3. Head(toClient).type \in Answers /\ Takes(Outgoing(id), Head(toClient))
    BY <1>2 DEF In, Expected
  <1>4. ASSUME Head(toClient).type = "Pubcomp"
        PROVE  Outgoing(id) = At(2, "PubCompPending")
    <2>1. ~NoRelease(id)
      BY <1>2, <1>4 DEF In, NoRelease, None
    <2> QED
      BY <2>1 DEF Outbound, Releases
  <1>5. None(Tail(toClient), Answers, id)
    BY <1>3, ReadCarriers
  <1>6. \A i \in DOMAIN Tail(toClient) :
          In(toClient, Tail(toClient)[i]) /\ Tail(toClient)[i].type \in Answers
    BY <1>2 DEF In, Expected
  <1> QED
    BY <1>3, <1>4, <1>5, <1>6 DEF None

LEMMA AckExpected ==
  ASSUME Types, Types', Carriers, Outbound, Expected, HandlePubackOrPubcomp
  PROVE  Expected'
  <1> USE DEF contextVars, appVars, receivedVars, cursorVars, threadVars,
              netVars, brokerVars
  <1>1. PICK id \in PacketIds, type \in {"Puback", "Pubcomp"} :
          id = Head(toClient).packetId /\ type = Head(toClient).type
    BY AckedOutgoing
  <1>2. /\ toClient # <<>> /\ toClient' = Tail(toClient)
        /\ UNCHANGED <<outbound, sent>>
    BY ArrivedPacket DEF HandlePubackOrPubcomp
  <1>3. Outgoing(id) = IF type = "Puback" THEN At(1, "PubAckPending")
                                          ELSE At(2, "PubCompPending")
    BY <1>1, <1>2, ReadExpected DEF Takes
  <1>4. /\ OthersKept(id)
        /\ processStatus' = "Success"
        /\ stored' = IF type = "Puback" THEN CopiesBut(id) ELSE stored
    BY <1>1, <1>3, AckedOutgoing
  <1>5. ASSUME NEW copy \in stored' PROVE copy \in stored /\ copy.packetId # id
    <2>1. CASE type = "Puback"
      BY <1>4, <1>5, <2>1 DEF CopiesBut, Copies
    <2>2. CASE type = "Pubcomp"
      <3>1. copy \in stored /\ copy.qos \in {1, 2}
        BY <1>4, <1>5, <2>2, PacketKinds DEF Types
      <3>2. At(2, "PubCompPending") # At(copy.qos, Pending(copy.qos))
        BY <3>1 DEF At, Pending
      <3> QED
        BY <1>3, <2>2, <3>1, <3>2 DEF Expected, AwaitsAck
    <2> QED
      BY <2>1, <2>2
  <1>6. \A i \in DOMAIN toClient' :
          In(toClient, toClient'[i]) /\ toClient'[i].packetId # id
    BY <1>1, <1>2, ReadExpected
  <1>7. AcksMeetTheirRecords'
    BY <1>4 DEF AcksMeetTheirRecords
  <1> QED
    BY <1>2, <1>4, <1>5, <1>6, <1>7, ExpectedStays

LEMMA PubrecExpected ==
  ASSUME Types, Types', Links, Carriers, Outbound, Expected,
         NEW ok \in BOOLEAN, HandlePubrec(ok)
  PROVE  Expected'
  <1> USE DEF contextVars, appVars, receivedVars, cursorVars, threadVars,
              netVars, brokerVars
  <1>1. PICK id \in PacketIds : id = Head(toClient).packetId
    BY PubrecOutgoing
  <1>2. /\ toClient # <<>> /\ Head(toClient).type = "Pubrec"
        /\ UNCHANGED <<outbound, sent>>
    BY ArrivedPacket DEF HandlePubrec
  <1>3. Outgoing(id) = At(2, "PubRecPending")
    BY <1>1, <1>2, ReadExpected DEF Takes
  <1>4. /\ OthersKept(id)
        /\ processStatus' \in {"Success", "SendFailed"}
        /\ stored' = CopiesBut(id)
        /\ Transfer(ok, Ack("Pubrel", id), Tail(toClient))
    BY <1>1, <1>3, PubrecOutgoing
  <1>5. \A copy \in stored' : copy \in stored /\ copy.packetId # id
    BY <1>4 DEF CopiesBut, Copies
  <1>6. toClient' \in {Tail(toClient), <<>>}
    BY <1>4, TransferLinks
  <1>7. \A i \in DOMAIN toClient' :
          In(toClient, toClient'[i]) /\ toClient'[i].packetId # id
    BY <1>1, <1>2, <1>6, ReadExpected
  <1>8. AcksMeetTheirRecords'
    BY <1>4 DEF AcksMeetTheirRecords
  <1> QED
    BY <1>2, <1>4, <1>5, <1>7, <1>8, ExpectedStays

LEMMA ConnectExpected ==
  ASSUME Types, Types', Links, Links', Records, Records', Carriers, Expected,
         \/ SelectPubrel \/ SelectPublish \/ ConnectNewSession
         \/ \E ok \in BOOLEAN : ResendPubrel(ok) \/ ResendPublish(ok)
  PROVE  Expected'
  <1> USE DEF contextVars, appVars, receivedVars, cursorVars, threadVars,
              netVars, brokerVars
  <1>1. UNCHANGED <<outbound, sent, processStatus>> /\ AcksMeetTheirRecords'
    BY DEF SelectPubrel, SelectPublish, Selecting, ConnectNewSession,
           ResendPubrel, ResendPublish, Expected, AcksMeetTheirRecords
  <1>2. \A i \in DOMAIN toClient : In(toClient, toClient[i])
    BY DEF In
  <1>3. CASE SelectPubrel \/ SelectPublish
    <2>1. UNCHANGED <<outgoing, stored, toClient>>
      BY <1>3, SelectionEffect
    <2> QED
      BY <1>1, <1>2, <2>1, ExpectedKept DEF FlightsKept
  <1>4. CASE ConnectNewSession
    <2>1. toClient' = <<>>
      BY <1>4 DEF ConnectNewSession, Links
    <2>2. stored' = {}
      <3>1. stored' \subseteq stored
        BY <1>4 DEF ConnectNewSession, Cleared
      <3>2. ASSUME NEW copy \in stored' PROVE FALSE
        <4>1. /\ Flight(outgoing', copy.packetId) \in Resendable(copy.qos)
              /\ copy.packetId \in PacketIds /\ copy.qos \in {1, 2}
          BY <3>1, <3>2, PacketKinds DEF Types, Records, CopiesFit, Outgoing
        <4>2. Flight(outgoing', copy.packetId) = NoFlight
          BY <1>4, <4>1, ClearedOutgoing
        <4> QED
          BY <4>1, <4>2, FlightsDiffer
      <3> QED
        BY <3>2
    <2> QED
      BY <1>1, <2>1, <2>2 DEF Expected
  <1>5. CASE \E ok \in BOOLEAN : ResendPubrel(ok) \/ ResendPublish(ok)
    <2>1. PICK id \in PacketIds : id = selected.packetId
      BY <1>5, ResentEffect
    <2>2. /\ UNCHANGED stored
          /\ OthersKept(id)
          /\ selected \in Packet /\ selected.type \in Sends
          /\ publishing = Nothing /\ selected # Nothing
          /\ toClient' \in {toClient, <<>>}
          /\ \/ FlightsKept
             \/ pc = "pubrels"
             \/ UNCHANGED outgoing
      BY <1>5, <2>1, ResentEffect, PacketKinds DEF Sends
    <2>3. \A i \in DOMAIN toClient' : In(toClient, toClient'[i])
      BY <1>2, <2>2
    <2>4. CASE FlightsKept \/ UNCHANGED outgoing
      BY <1>1, <2>2, <2>3, <2>4, ExpectedKept DEF FlightsKept
    <2>5. CASE pc = "pubrels"
      <3>1. selected \in PubrelPacket
        BY <2>2, <2>5 DEF Links
      <3>2. Outgoing(id) \in Releasing
        BY <2>1, <3>1 DEF Records, SelectedFits
      <3>3. \A copy \in stored' : copy \in stored /\ copy.packetId # id
        <4> SUFFICES ASSUME NEW copy \in stored, copy.packetId = id PROVE FALSE
          BY <2>2
        <4>1. copy.qos \in {1, 2} /\ Outgoing(id) \in Resendable(copy.qos)
          BY PacketKinds DEF Types, Records, CopiesFit
        <4> QED
          BY <3>2, <4>1, FlightsDiffer
      <3>4. NoCarrier(id)
        BY <2>1, <2>2 DEF Carriers, ToSend
      <3>5. \A i \in DOMAIN toClient' : toClient'[i].packetId # id
        BY <2>2, <3>4 DEF NoCarrier, None, Expected
      <3> QED
        BY <1>1, <2>2, <2>3, <3>3, <3>5, ExpectedStays
    <2> QED
      BY <2>2, <2>4, <2>5
  <1> QED
    BY <1>3, <1>4, <1>5

\* The broker answers a PUBLISH that has its copy, or a PUBREL.
LEMMA TakesExpected ==
  ASSUME Types, Types', Deliveries, Expected,
         BrokerTakesPublish \/ BrokerTakesPubrel
  PROVE  Expected'
  <1> USE DEF contextVars, appVars, receivedVars, cursorVars, threadVars,
              netVars, brokerVars
  <1>1. UNCHANGED <<outgoing, stored, outbound, sent, processStatus>>
    BY DEF BrokerTakesPublish, BrokerTakesPubrel
  <1>2. OthersKept(0) /\ FlightsKept /\ AcksMeetTheirRecords'
    BY <1>1 DEF OthersKept, FlightsKept, Expected, AcksMeetTheirRecords
  <1>3. PICK p \in Packet : p = Head(toBroker)
    BY TakenEffect
  <1>4. PICK id \in PacketIds : id = p.packetId
    BY PacketKinds
  <1>5. toBroker # <<>> /\ toBroker \in Seq(Packet) /\ toClient \in Seq(Packet)
    BY TakenEffect DEF Types
  <1>6. In(toBroker, p)
    BY <1>3, <1>5, WireRead
  <1>7. PICK a \in Packet : /\ toClient' = Append(toClient, a)
                            /\ a.type \in Answers /\ a.packetId = id
                            /\ Takes(Outgoing(id), a)
    <2>1. CASE BrokerTakesPublish
      <3>1. PICK type : type = IF p.qos = 1 THEN "Puback" ELSE "Pubrec"
        OBVIOUS
      <3>2. /\ p.type = "Publish"
            /\ toClient' = Append(toClient, Ack(type, id))
        BY <1>3, <1>4, <2>1, <3>1 DEF BrokerTakesPublish, BrokerReads
      <3>3. p \in stored /\ p.qos \in {1, 2}
        BY <1>6, <3>2, PacketKinds DEF In, Deliveries
      <3>4. Outgoing(id) = At(p.qos, Pending(p.qos))
        BY <1>4, <3>3 DEF Expected, AwaitsAck
      <3>5. /\ Ack(type, id) \in Packet /\ Ack(type, id).type = type
            /\ Ack(type, id).packetId = id /\ type \in Answers
        BY <3>1, MadePackets DEF MQTTPubAckType, Answers
      <3>6. Takes(Outgoing(id), Ack(type, id))
        BY <3>1, <3>3, <3>4, <3>5 DEF Takes, Pending
      <3> QED
        BY <3>2, <3>5, <3>6
    <2>2. CASE BrokerTakesPubrel
      <3>1. toClient' = Append(toClient, Ack("Pubcomp", id))
        BY <1>3, <1>4, <2>2 DEF BrokerTakesPubrel
      <3>2. /\ Ack("Pubcomp", id) \in Packet
            /\ Ack("Pubcomp", id).type = "Pubcomp"
            /\ Ack("Pubcomp", id).packetId = id
        BY MadePackets DEF MQTTPubAckType
      <3> QED
        BY <3>1, <3>2 DEF Takes, Answers
    <2> QED
      BY <2>1, <2>2
  <1>8. ASSUME NEW i \in DOMAIN toClient'
        PROVE  \/ In(toClient, toClient'[i])
               \/ /\ toClient'[i].type \in Answers
                  /\ Takes(Flight(outgoing', toClient'[i].packetId), toClient'[i])
    <2>1. PICK s : s = toClient'[i]
      OBVIOUS
    <2>2. In(toClient', s)
      BY <2>1 DEF In
    <2>3. In(toClient, s) \/ s = a
      BY <1>5, <1>7, <2>2, SentIn
    <2>4. Flight(outgoing', id) = Outgoing(id)
      BY <1>1 DEF Outgoing
    <2> QED
      BY <1>7, <2>1, <2>3, <2>4
  <1> QED
    BY <1>1, <1>2, <1>8, ExpectedStays

LEMMA NextExpected ==
  ASSUME PublishesWhileResuming = FALSE, PublishSendMayFail = FALSE,
         InMessages = 0,
         Base, Base', Outbound, Carriers, Deliveries, Expected, [Next]_vars
  PROVE  Expected'
  <1> USE DEF Base
  <1>1. CASE QuietAction
    BY <1>1, QuietExpected
  <1>2. CASE PublishRefused \/ \E q \in PublishQoS : Reserve(q)
    BY <1>2, ReserveExpected
  <1>3. CASE PublishSent \/ PublishNotSent
    <2>1. ~PublishNotSent
      BY DEF PublishNotSent
    <2> QED
      BY <1>3, <2>1, PublishedExpected
  <1>4. CASE HandlePubackOrPubcomp
    BY <1>4, AckExpected
  <1>5. CASE \E ok \in BOOLEAN : HandlePubrec(ok)
    BY <1>5, PubrecExpected
  <1>6. CASE \/ SelectPubrel \/ SelectPublish \/ ConnectNewSession
             \/ \E ok \in BOOLEAN : ResendPubrel(ok) \/ ResendPublish(ok)
    BY <1>6, ConnectExpected
  <1>7. CASE BrokerTakesPublish \/ BrokerTakesPubrel
    BY <1>7, TakesExpected
  <1> QED
    BY <1>1, <1>2, <1>3, <1>4, <1>5, <1>6, <1>7, StepKinds

\* A PUBACK, PUBREC or PUBCOMP always meets a record that can take it: a
\* session that is resumed after a broken connection never gets an answer
\* that the state engine refuses, however often it sends a packet again and
\* whatever the broker forgets (validateTransitionAck).  That is so when the
\* broker publishes nothing itself, no thread publishes during a resumption
\* and the transport never reports that a PUBLISH could not be sent.
THEOREM AcksMeetRecords ==
  ASSUME PublishesWhileResuming = FALSE, PublishSendMayFail = FALSE,
         InMessages = 0
  PROVE  Spec => []AcksMeetTheirRecords
  <1>1. Base /\ Base' /\ Outbound /\ Carriers /\ Deliveries /\ Expected
          /\ [Next]_vars => Expected'
    BY NextExpected
  <1>2. Init => Expected
    BY InitExpected
  <1>3. Expected => AcksMeetTheirRecords
    BY DEF Expected
  <1> QED
    BY <1>1, <1>2, <1>3, DeliveriesInvariant, PTL DEF Spec
=============================================================================
