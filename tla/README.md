# A verification of FreeMQTT

FreeMQTT is an MQTT 3.1.1 client for RT-Thread: the coreMQTT library with a
client task, a socket transport and shell commands around it. The modules here
model the publish state engine, the threads that share one context, sessions
that outlive their connections, the client task in time with its sockets,
retries and keep-alive, the way from `recv` to the handlers, and the stateless
half of the library: packets written, packets read, topic filters. TLC checks
small instances; the TLA+ proof system proves, for every size, that the state
engine implements an ordered set of publishes in flight and sends again every one it
must, in order; that QoS 2 messages are delivered and received once whatever
fails, that what is acknowledged was delivered, and in the order of publishing;
that with the mutex hooks the threads keep packets whole and acknowledgements
meet their records; that the receive path stays in step with the packets,
whatever pieces they come in; and that the client task loses no socket, waits
for no PINGRESP that cannot come and lets the broker hear of it in time.

Paths below are relative to the repository.

## The system

| component | state | operations | what it has to do |
|---|---|---|---|
| publish state engine, `core/core_mqtt_state.c` | two arrays of `MQTTPubAckInfo_t`, one per direction | reserve, update on PUBLISH, update on PUBACK/PUBREC/PUBREL/PUBCOMP, remove, resend cursors | one record per identifier; each publish goes once through the handshake of its QoS; order survives holes, compaction and moves |
| connections and publishes, `core/core_mqtt.c` | `connectStatus`, `nextPacketId`, receive buffer and `index`, keep-alive times | `MQTT_Connect`, `MQTT_Publish`, `MQTT_ProcessLoop`, `MQTT_Disconnect`, `MQTT_GetPacketId`, ... | whole packets, on the right connection, acknowledgements after the update of their record |
| resumption, `core/core_mqtt.c` | the records, and copies kept by the application's store, retrieve and clear functions | `handleUncleanSessionResumption`, `handleCleanSession`, duplicate publishes | QoS 2 exactly once, QoS 1 at least once, in order, over connections that break |
| client task, `api/mqtt_api.c` | socket, retry count, back-off | `mqttClientTask`, `mqttConnect`, `mqttPublish`, `mqttSubscribe` | reconnect after every failure |
| keep alive, `core/core_mqtt.c` | `waitingForPingResp`, three times | `handleKeepAlive`, `MQTT_Ping` | detect a dead connection, never a live one |
| receive path, `core/core_mqtt.c` | `index`, buffer | `receiveSingleIteration`, `recvExact`, `discardPacket`, `discardStoredPacket`, `receivePacket` | stay in step with packet boundaries |
| serializer, `core/core_mqtt_serializer.c` | none | encode and decode packets | lengths at their boundaries |
| topic matching, `core/core_mqtt.c` | none | `MQTT_MatchTopic` | the rules for `+`, `#` and `$` |
| transport and clock, `port/port.c` | socket | `transportSend`, `transportRecv`, `getCurrentTime` | the contract of `transport_interface.h` |
| demo, `demo/demo.c` | none | shell commands `mqtt_pub`, `mqtt_sub` | call the API from another thread |

The client task owns the connection: it connects, calls `MQTT_ProcessLoop` until
that fails, disconnects, closes the socket and starts again. `MQTT_ProcessLoop`
reads packets, calls the state engine, calls the application back and sends
acknowledgements. Shell commands call `MQTT_Publish` on the same context from
their own threads. The library brackets its accesses to the context with
`MQTT_PRE_STATE_UPDATE_HOOK` and `MQTT_POST_STATE_UPDATE_HOOK`, meant to take
and give a mutex; in this repository both are empty
(`core/core_mqtt.c:54-69`). The broker and the network are outside.

What is hard here: the order of a publish's last send, the update of its record
and the arrival of its acknowledgement; connections that break between any two
steps; sends that time out half way; identifiers that wrap round while old
publishes are in flight; tables that fill up and are compacted; packets that are
sent again after a resumption. `PROJECT.json` lists each hazard with its line and
the properties that cover it.

## The modules

| module | models |
|---|---|
| `PublishRecords` | the functions of `core_mqtt_state.c` as operators on one table: what each returns, and the table it leaves |
| `PublishRecords_proofs` | lemmas: what these operators keep and what effect they have, for every table |
| `InFlight` | abstract: a bounded, ordered set of publishes in flight, without slots |
| `StateEngine` | both tables under any sequence of calls; implements `InFlight` twice |
| `StateEngine_proofs` | theorems about `StateEngine`, the refinement of `InFlight` included |
| `ClientThreads` | publisher threads and the client task on one context, one step per `send` and per access that another thread may come between |
| `MqttSession` | both directions, retransmission, a broker with a persistent session; optionally a thread that publishes during a resumption |
| `ClientThreads_proofs` | theorems about `ClientThreads` |
| `MqttSession_proofs` | theorems about `MqttSession` that hold whatever other threads do |
| `MqttSession_delivery`, `MqttSession_order` | theorems about `MqttSession` when no thread publishes during a resumption: acknowledgements and order |
| `ClientTask` | `mqttClientTask` in time: sockets, retries, back-off, keep-alive, the broker's patience |
| `ClientTask_proofs` | theorems about `ClientTask` |
| `Serializer` | `core_mqtt_serializer.c`: every packet written and read, as operators on bytes |
| `PacketVectors` | the packets `core_mqtt.c` sends without copying them |
| `TopicFilter` | `MQTT_MatchTopic` with its helpers |
| `Codec` | checks these three against each other and against reference definitions |
| `ReceivePath` | buffer, framing, discarding and the results of the handlers, byte by byte |
| `ReceivePath_proofs` | theorems about `ReceivePath` |
| `MC*` | instances for TLC |

`PublishRecords` is used by `StateEngine`, `ClientThreads` and `MqttSession`, so what
is proved about it in `PublishRecords_proofs` serves the proofs about all three; `Serializer` is used by
`PacketVectors`, `Codec` and `ReceivePath`.

**PublishRecords.** A table is a function `1..n -> Slot`; an empty slot has
`packetId = MQTT_PACKET_ID_INVALID`. `CompactRecords` is stated by what the two
loops of `compactRecords` achieve: the k-th occupied slot moves to slot k.
`AddRecord` compacts when the last slot is taken, refuses a known identifier
(`StateCollision`) or a full table (`NoMemory`), and otherwise uses the first slot
after the last occupied one; it returns the compacted table even when it
refuses. `ApplyAck` is `updateStateAck`: PUBREC deletes the record and adds it
again at the end. `ValidTransition*`, `CalculateState*` and
`IsPublishOutgoing` follow their C functions. Parameter checks for null pointers
are left out.

**StateEngine.** Variables `outgoing`, `incoming` and `result` (the last call and
its status). One action per function of `core_mqtt_state.h` that changes a
table, plus `CleanSession`, which empties both as `handleCleanSession` does.

**InFlight.** `flight[id]` says how far a publish has got, `before` is the order.
`OutgoingInFlight` and `IncomingInFlight` state that each table implements it
under a refinement mapping that reads `flight` and `before` off the slots.

**ClientThreads.** `pc[t]` is the place of thread t. A PUBLISH is two packets on
the wire, `head` and `rest`, standing for the several calls of `send` in
`sendMessageVector`. Every send may also time out, which leaves the status as it is:
a PUBLISH before its head or before its rest (`SendTimesOut`), PUBREL
(`SendPubrelTimesOut`) and DISCONNECT with nothing or a `torn` piece of the packet
on the wire (`CutShort`). The keep-alive may time out whenever no answer waits to be
read, on a connection that works too. `MutexHooks` says whether the hooks take a mutex: TRUE is the
intended use, FALSE this repository's build. When it is FALSE, the
read-then-write pairs of `connectStatus` and `nextPacketId` are two steps.
Clean sessions only, and no incoming publishes, as in `mqttInit` and
`mqttConnect`.

**MqttSession.** The application has called `MQTT_InitStatefulQoS` for both
directions and `MQTT_InitRetransmits`, and connects with `cleanSession = false`.
Messages are numbered, so that the order, the duplicates and the identity of
what is acknowledged can be stated. A call of the library is one step with two
exceptions. `MQTT_Publish` reserves its record, and then stores and sends
(`publishing`): between the two the hooks are held, which keeps out everything but
the reads of the resend cursor. And the resumption (`pc`, `cursor`, `selected`)
chooses a packet in one step, outside the hooks as the code does, and sends it in
another, so that the connection may break and, with `PublishesWhileResuming`,
another thread may publish between any two of them. `stored` is what the store
function keeps. The broker is the one MQTT 3.1.1 prescribes: it deduplicates
QoS 2 by identifier, sends its own unacknowledged packets again, and may lose
the session between connections. The application disconnects whenever a call
fails, as `mqttClientTask` does. A send fails there because the connection breaks,
whether the library notices (`DisconnectPending`) or only times out (status left
`Connected`).

**ClientTask.** `pc` is the place in `mqttClientTask`; `owner` says whose each socket
descriptor is, other threads open and close files meanwhile. A time stamp is
represented by what `calculateElapsedTime` would return for it now, modulo
`TimeWrap`, so that wrapping is part of the model and the clock itself is not
needed. Time passes (`Tick`) only while the task sleeps, waits for CONNACK, or waits
in a `recv` that blocks; computing takes none. `unheard` is how long the broker
has heard nothing. The transport polls, as `transport_interface.h` prescribes, or
blocks, as `port.c` does; both are initial states.

**Serializer, PacketVectors, TopicFilter, Codec.** A packet is a sequence of bytes. A
function that fills a buffer is an operator that returns bytes, one that reads
returns a record with its status and output parameters. `PacketVectors` has the
arrays of vectors of SUBSCRIBE, UNSUBSCRIBE, PUBLISH and CONNECT, the batches
and the stored copy included. `TopicFilter` follows the loop of `matchTopicFilter` by
positions. `Codec` builds an input symbol by symbol (`kind`, `text`), so that TLC
visits every input up to a length, and compares the operators: what is read with
what would be written, what is sent in vectors with what is written into a
buffer, and the match with the match of levels (`MatchesLevels`).

**ReceivePath.** `inFlight` are the bytes `recv` has not returned, `buffer` the first
`index` bytes of the network buffer. `recv` may return any piece. One call of
`MQTT_ProcessLoop` or `MQTT_ReceiveLoop` reads once and handles one packet;
`discardPacket` and `discardStoredPacket` are loops of their own. `sent` and `done`
are histories: the packets the broker sent, and what has become of each.
`ReceiveAssumption` says what `Packets` may be: sequences of bytes that are one
whole packet each, as the broker writes them (`Framed`), of which exactly
`Faulty` are beyond what the deserializers accept (`Readable`). The instance lists
its faulty packets by hand, and TLC checks that they are those.

## The runs

Runs that pass:

| run | instance | shows |
|---|---|---|
| `state_engine` | 4 identifiers, 3 outgoing slots, 1 incoming slot | both tables implement `InFlight`; unique identifiers; states of the right handshake; PUBREC never out of memory; failures change nothing; resends complete and in order |
| `client_threads_mutex` | 2 publishers, 3 identifiers, 2 slots, 1 broken connection | with a mutex: acknowledgements meet their records, PUBLISH packets are whole, nothing precedes CONNECT, every connection starts clean, identifiers are handed out in turn, a waiting publish is still being carried, or its connection is being given up |
| `client_threads_live` | 1 publisher, 2 identifiers | with a mutex: reconnection after every failure, `MQTT_Publish` returns, waiting publishes end |
| `session_outgoing` | 3 messages, 3 identifiers, 2 slots, 2 breaks, 1 lost session, failing sends and stores | no QoS 2 duplicate, first deliveries in order, nothing reported that was not delivered, every copy belongs to a record |
| `session_incoming` | 3 messages, 3 identifiers, 2 slots, 2 breaks, 1 lost session | the callback sees a QoS 2 message once, and before the broker is told so |
| `session_live` | 2 messages, 2 slots, 2 breaks | acknowledgements meet their records, what would be resent is stored, accepted publishes are acknowledged, records are released |
| `codec` | every filter of up to 5 characters, every header of up to 6 bytes and packet of up to 7 over boundary bytes, lists of up to 5 subscriptions, publishes and CONNECTs with every combination of options | packets are read exactly as written, lengths included, but for two kinds of PUBLISH that only the reader takes; vectors carry what the copying functions write; filters match by levels, but for one exception |
| `receive_path` | buffer of 7 bytes, 2 packets of 10 kinds per connection, in any pieces | packets leave the buffer in order and whole; errors have a reason; every packet is handled in the end |
| `client_task` | both transports, 2 descriptors, clock of 8 ticks | no socket is lost; PINGREQ and PINGRESP match; the broker never runs out of patience; the task always connects again |

Runs that end in a violation show a disagreement between the code and what it
says of itself; `PROJECT.json` quotes the lines.

| run | shows |
|---|---|
| `client_threads_no_mutex_stuck` | with empty hooks `DisconnectPending` can be written after `MQTT_Disconnect`; the client task never connects again |
| `topic_match` | a name that ends at a level taken by `+` does not match `#` or an empty level behind it: `a` and `+/#` |
| `session_publisher_interrupts` | a publish made while `MQTT_Connect` resumes a session compacts the records under the resend cursor; an accepted publish is skipped, and never sent again on that connection |

What the passing runs leave out, because it is known to break them:

- `MutexHooks = FALSE`: besides the run above, `AcksMeetTheirRecords` fails (the PUBACK
  is handled before `MQTT_Publish` has updated the record, which
  `core_mqtt.c:3198` excludes), and `RestFollowsHead`, `ConnectComesFirst` and
  `PacketIdsInTurn` fail for the same reason.
- The `dup` flag that `mqtt_pub` never initialises (`demo.c:32`): when it is true, two
  messages may share an identifier, and `AcksMeetTheirRecords` fails.
- `PublishSendMayFail = TRUE` in `session_live`: the record of a publish whose send
  failed stays in `PublishSend`, its copy is resent, and the acknowledgement is
  rejected (`AcksMeetTheirRecords`). With `StoreMayFail = TRUE`,
  `RecordsAreReleased` fails: a publish that could not be stored
  (`core_mqtt.c:2239`) makes every resumption fail with
  `MQTTPublishRetrieveFailed` until the application calls `MQTT_CancelCallback`.
- Incoming QoS 2 publishes in `session_live`: after a lost PUBCOMP the repeated PUBREL
  meets no record, is rejected and never answered (`AcksMeetTheirRecords`).
- A PUBLISH with an empty topic, and one of QoS 0 marked as a duplicate:
  `MQTT_GetPublishPacketSize` and `MQTT_SerializePublish` refuse both
  (`core_mqtt_serializer.c:2069`, `2128`), `deserializePublish` takes both. For the topic the
  source contradicts itself: the comments at `core_mqtt_serializer.c:143-148` and
  `1418-1422` want room for at least one byte of topic, but only the remaining length
  is checked, so that a byte of payload takes its place (`30 03 00 00 61` arrives as an
  empty topic with payload `a`). `PacketsAreReadAsWritten` names the two
  (`ReaderTolerates`) and fails without either.
- `PublishesWhileResuming = TRUE` elsewhere: a publish made during the resumption may
  be sent twice on one connection, once by its own call and once by the cursor;
  its second acknowledgement then meets no record or, when identifiers have
  wrapped, is credited to another message (`AcknowledgedIsDelivered`); it also
  overtakes what is not yet resent (`FirstDeliveriesInOrder`). QoS 2 messages still
  reach the broker's subscribers once (`DeliveredAtMostOnce`), and copies still
  belong to records: in the instance of `session_outgoing` both hold with it, in
  800 000 states.

What the blocking `recv` of `port.c` changes is part of the properties, which hold
with these exemptions and are violated without any one of them. Keep-alive does not
run while the task waits in `recv`, so no PINGREQ is sent: the broker drops an
idle client after one and a half keep-alive periods (`BrokerStaysPatient`), and
a peer that falls silent is never noticed (`KeepsTrying`). A packet that arrived
together with another waits in the buffer for the next byte from the network
(`PacketsAreHandled`).

**Why the bounds suffice.** In `state_engine` identifiers are symmetric, and its VIEW
leaves out `result`, which no action reads; the properties of results are
therefore stated of steps, which TLC checks also where they lead to a known
state. One incoming slot suffices there because the theorems below cover every
size and `session_incoming` has two. Three slots are enough for a hole before, between and
behind records; one identifier more than there are slots makes the table full
with a publish waiting. Two slots and three identifiers do the same where the
model has more actors, and let identifiers wrap while others are in flight
(refused calls use up identifiers too). Two publishers allow every
race between a pair of them, and of each with the client task. Two
breaks allow one inside the resumption from the other. `MaxWire = 4`, two whole
PUBLISH packets, delays a sender and never drops a packet; it is the
capacity of a socket buffer. In `MqttSession` queues are bounded by the records
and messages. `PublishQoS` is {1, 2}: QoS 0 keeps no record.
`session_publisher_interrupts` needs three slots: one to be freed, one the cursor has
passed, one that is moved across it.

In `ReceivePath` seven bytes hold one small packet and the beginning of another. The
ten kinds of packet in `MCReceivePath` are one of each sort the code treats
differently: one that just fits, one a byte too long, one longer than two
buffers, one that must be acknowledged, a refusing SUBACK, an unexpected
PUBACK, and three faulty ones. Two packets per connection let one be cut, merged or dropped
next to another, and connections repeat.

`ClientTask` measures time in the sleep of its loop (`MQTT_LOOP_CNT` = 1). What matters
is the order of the limits: the transmit and receive timeouts (3) are shorter
than the keep-alive (4), that is shorter than the broker's patience (6), and the
wait for PINGRESP (1) is the shortest; the clock wraps after 8 ticks, so that it
does so within a connection, inside a wait and during a back-off. Two
descriptors let another thread's file take the number of a closed socket. Two
packets fit the buffer and two may wait outside, enough for a PINGRESP behind a
PUBLISH in either place. Two retries reach the pause after the last one.

In `Codec` the bytes are 0, 1, the edges 127, 128 and 129 of a length's digit,
and 255; the remaining lengths are those around 128, 16384 and 2097152 and the
largest. Five characters are enough for two wildcards with a separator next to
each and one level more.

**Fairness.** `ClientThreads` assumes that RT-Thread keeps scheduling every
thread and the broker keeps reading: weak fairness for the broker, strong fairness
for each publisher and the client task, because a thread may have to wait for the
mutex while others take it again and again; an RT-Thread mutex is handed to
its longest waiting thread of highest priority. Steps of the client task other
than a time-out of its keep-alive have fairness of their own, so that no property
is owed to a time-out. No fairness is assumed of `LinkBreaks`. `MqttSession` assumes weak fairness of the calls it makes
in its loop (`ProcessLoop`, `Connect`, `Disconnect`), of the end of a call of
`MQTT_Publish`, and of the broker; nothing obliges it to publish. A connection breaks only finitely often, which is the
bound `MaxLinkBreaks`: without it no protocol makes progress. `ReceivePath` assumes
that the client keeps calling its loop, that a discard under way goes on and
that it disconnects after an error; never that the keep-alive fails.
`ClientTask` assumes that the task runs and that time passes, nothing of the network
and the other threads. Its broker, while connected, does not wait beyond its own patience. A PINGREQ is
answered, and its answer handled, before the clock has come round, 49 days; without
that the client would take a long wait for a short one (`sincePing`).

Every property of a passing run has a mutant of the code, listed in
`PROJECT.json`, that breaks it; mutants precede the definition they vary and are
marked "Mutant" in the modules.

## What is proved

**StateEngine**, for all finite or infinite sets `PacketIds` and all table sizes in
`Nat`, assuming only that `MQTT_PACKET_ID_INVALID` is no packet identifier and what
`StateEngine` assumes of the sizes:

- `TypeCorrect`: `Spec => []TypeOK`
- `UniquePacketIdsHold`: no identifier has two records in a table
- `HandshakeStatesHold`: every record is in a state of its direction and QoS,
  and an empty slot is empty throughout
- `AckNeverOutOfMemoryHolds`: an acknowledgement never fails for want of a slot
- `NoMemoryOnlyWhenFullHolds`: `MQTTNoMemory` means every slot is taken
- `FailureChangesNothingHolds`: a call that fails changes neither the progress nor
  the order of any publish
- `LeavesOnlyWhenDoneHolds`: a publish leaves the outgoing table by its last
  acknowledgement, by cancellation or with its session
- `ResendsAllInOrderHolds`: the resend cursor names every PUBREL that waits, and
  every PUBLISH to be repeated, once and in the order of the table
- `OutgoingRefines`, `IncomingRefines`: each table implements `InFlight`

None of the first three is inductive by itself. `UniquePacketIds` needs the
types, and the handshake states need unique identifiers, because
`findInRecord` stops at the first match. The inductive invariant `IInv` is their
conjunction per table (`Good`): records in slots of the right type, unique,
well formed. Each operation of `PublishRecords` has a lemma in
`PublishRecords_proofs` that it keeps `Good`; the step lemma has one case per
action and cites one of these.

The two results about memory rest on an argument about compaction:
`Rank(records, i)`, the number of occupied slots up to i, never exceeds i
(`RankBound`) and increases strictly over the occupied slots (`RankIncreases`),
so that compaction frees a slot at the end whenever any slot was free
(`CompactMakesRoom`, `PreparedHasRoom`). A record just deleted by PUBREC leaves
its slot free and its identifier unknown, so adding it again succeeds
(`RequeueSucceeds`).

What the cursor names from a slot on is a recursive function of the slot. That it
names exactly the matching records behind that slot, in order, is proved for
every slot at once by the least counterexample over the number of slots still ahead:
one call finds the first match from the cursor on (`SelectsLeast`), and putting it before
what the function gives from the next slot on keeps both (`GivesOneMore`).

The refinement looks at a table through `Progress` and `Order`, the two halves
of the refinement mapping. Five effects describe what an operation may do to
that view: nothing, a publish enters at the end, advances in place, goes to the
end, leaves. Compaction has the first effect, because it keeps the slots of a
publish and, by `RankIncreases`, their order. Each operation of
`PublishRecords` has a lemma that names its effect, `StepEffect` collects them per
action, and each effect is a step of `InFlight`. That a publish enters only when
there is room needs the number of publishes in flight to be at most the number
of occupied slots: a surjection from the occupied slots onto the publishes.

**ClientTask**, for every set of descriptors, every timeout and every size of the
buffer, assuming `ClientTaskAssumption`:

- `SocketsAreOwnedAlways`: no descriptor is lost, and the one in use is owned
- `PingsAreMatchedAlways`: the client waits for PINGRESP exactly as long as one
  PINGREQ or its answer is under way
- `BrokerStaysPatientAlways`, when `MQTT_PINGRESP_TIMEOUT_MS` is at most
  `PACKET_TX_TIMEOUT_MS` (here 10 s and 30 s) and neither this nor the keep-alive is 0,
  which turns the PINGREQ after transmit silence off: with a polling `recv` the broker hears
  of the client within one and a half keep-alive periods, unless packets come so
  densely that `recv` never returns with nothing

The first is strengthened by what each place of the loop knows of `socket`. The
second needs that nothing is under way when a connection begins (closing the
socket takes away what was), that a context is connected only in the loop that
processes packets, and that the number of PINGREQs and PINGRESPs under way is
one exactly while the client waits; lemmas about sequences say what receiving
and handling packets does to the answers in the buffer. The third rests on what the
client knows of the broker (`BInv`): while the link is up, the time since the last
send is the time the broker has heard nothing, and the clock cannot come round in
it. When `recv` returns with nothing, either a PINGREQ is sent, or the last send was
less than `PACKET_TX_TIMEOUT_MS` ago, or a PINGREQ was sent at most
`MQTT_PINGRESP_TIMEOUT_MS` ago.

**ClientThreads**, for every number of publishers, identifiers and slots, with
`MutexHooks = TRUE`, the intended use of the hooks (this repository leaves them
empty, and `client_threads_no_mutex_stuck` shows what that costs):

- `StartsDisconnected`: `MQTT_Connect` never finds a context taken for connected
- `NothingBeforeConnect`: nothing precedes CONNECT on a connection
- `WholePublishes`: the rest of a PUBLISH follows its head
- `IdentifiersInTurn`: each identifier handed out is the successor of the last

and, when no publisher marks a new publish as a duplicate
(`PublishDup \subseteq {FALSE}`; what the uninitialised flag of `mqtt_pub` may
do is described above):

- `AcksMeetRecords`: no acknowledgement meets a record that is not ready for it
- `WaitingIsCarried`: a publish that waits on a working connection has a packet
  about it on its way, or its PUBREL timed out and the client task calls
  `MQTT_Disconnect` next
- `Invariant`: the inductive invariant `IInv` of all these

`Base` is its first layer: types, `Sections` (who is between the hooks holds the
mutex, and knows the connection status), `Connections` (what a new connection
starts with; a head at the end of the wire belongs to the publisher that is about
to send the rest) and `IdentifierIsNext`. `Exchange` adds that at most one packet or
answer about a publish is under way (`OneCarrier`), that it is the one its record
waits for, or will wait for once its sender has updated it (`CarriersFit`), and
what the records of the threads at work are (`RecordsInWork`). An acknowledgement
cannot come before the update because the receive loop and the sender exclude
each other from the send to the update: that is where the mutex is needed.
`Carrying` adds the converse, at least one packet for each waiting record while
the connection is up and taken for connected. The one exception is a PUBREL that
`sendBuffer` did not get out in time (`PubrelGivenUp`): its record stays in
`PubRelSend` and the status `Connected`, but `MQTT_ProcessLoop` has failed and
the client task does nothing before it disconnects.

**MqttSession**, for all sizes, any number of messages and connections, whatever
sends and stores fail, sessions the broker loses, and threads that publish during a
resumption:

- `QoS2DeliveredOnce`: a QoS 2 message reaches the broker's subscribers at most
  once
- `QoS2ReceivedOnce`, `SettledReceived`: the callback sees a QoS 2 message at most
  once, and before the broker is told that it may forget it
- `CopiesAreOfRecords`: every copy belongs to a record, of the message its
  identifier was last used for
- `ResendableHasCopy`, when no store fails (`StoreMayFail = FALSE`): what would be
  sent again has its one copy

and when no thread publishes during a resumption (`PublishesWhileResuming = FALSE`):

- `AcknowledgedDelivered`: what the application is told of as acknowledged, the broker
  has delivered
- `DeliveredInOrder`: the broker sees messages for the first time in the order in
  which they were published
- `AcksMeetRecords`, when also no send of a PUBLISH fails (`PublishSendMayFail = FALSE`)
  and the broker publishes nothing (`InMessages = 0`): no acknowledgement meets a
  record that is not ready for it

None of these hypotheses can be dropped: TLC finds a violation without each of them, as
described above under the runs. A thread that publishes during a resumption may have its
publish sent twice, by its own call and by the cursor; the second PUBACK then ends
the record of a later publish that has the same identifier by now.

The invariant of the theorems that hold with any threads has four layers. `Links`: what is left of a connection that is down or
broken. `Records`: the copies, the publish that is being sent and the packet the
cursor has selected agree with the records. Together with the types they are
`Base`, and what the tables do follows from the effects of `PublishRecords_proofs`.

`Inbound` relates the broker's queue of unacknowledged publishes and PUBRELs, the
packets on both wires and the table of incoming publishes. An identifier has
one entry in the queue at most (`OutboundFits`), and one packet at most about it is
on its way, in whichever direction (`OneInbound`); a packet from the broker is an
entry of the queue (`AsksFit`), an answer fits the entry it will meet (`AnswersFit`).
As long as the broker may send a QoS 2 message again that the callback has seen,
there is a record by which the repetition is recognised (`EntriesFit`), and there
is no record of which the broker, while it has the session, knows nothing
(`RecordsWait`): a new message never meets the record of an old one.

`Outbound` is about the broker's deduplication, which forgets an identifier when it
reads its PUBREL. One PUBREL or PUBCOMP at most is under way for an identifier,
its record waits for PUBCOMP, and no PUBLISH with that identifier is behind it on
the wire (`Releases`): behind a PUBREL or PUBCOMP only a publish of a later message
could come, and its record could not exist yet. The hard case is the resumption,
which works through the table with a cursor while other threads change it: nothing
that the cursor has yet to reach or to send has a PUBREL or PUBCOMP under way
(`CursorFits`), which survives the changes of other threads because a record they
move or add gets ahead of the cursor only before its PUBREL is sent. A message has one identifier
(`Messages`), and whatever of it may still be sent, the broker knows its identifier
if it has delivered it (`Taken`).

The theorems without interrupted resumptions add four more. `Carriers`: for each
identifier one packet at most about its publish is on its way, in either direction,
and none while the publish is still to be sent, by its call or by the cursor, or after it
has ended. An answer is therefore about the publish whose record it meets, however often
the identifiers have wrapped round. `Deliveries`: what the broker has delivered when
it answers, and when a record is in a later state of its handshake. `Expected`: the record
that an answer will meet can take it, which needs that what was stored was also sent, hence
the hypothesis about sends. `Sequence`: records that may be sent again are in the order
of their messages (`TableOrder`), what has been delivered is older than what has not
(`Fresh`), a PUBLISH on the wire has everything older before it (`WireOrder`), and over a
connection that is not given up all that is stored has been delivered, is on the wire
or is ahead of the cursor (`AllSent`).

**ReceivePath**, for every buffer size, all packets and connection answers and any
number of packets per connection, assuming `ReceiveAssumption` and nothing else:

- `StaysInStepHolds`: what is in the buffer and on the way is the rest of what the
  broker sent, from the packet that is next; every packet before it was handled or, when
  it cannot fit the buffer, dropped, and each once
- `ErrorsAreExplainedHolds`: a status other than success has its reason in a packet
  that was sent, a keep-alive that failed or a connection that is gone
- `Invariance`: the inductive invariant `Inv` of both

`Inv` says where in a packet the client is. Between two calls the bytes of the
buffer and those still to come are a suffix of the stream that begins with a packet
(`Begins`); during a discard they are the rest of the packet that is dropped, followed by such a suffix
(`Along`, `Discarding`); `Fate` says what became of the packets before it. TLC found `Inv`
to hold in every state of `receive_path` before it was proved. Its heart are lemmas about
headers: `MQTT_ProcessIncomingPacketTypeAndLength` says either that bytes are missing
or what it would say of the whole packet, no matter how much has arrived
(`HeaderStable`, `LengthOfSame`); and lemmas about `FlattenSeq`, which take the first
packet off a stream. One lemma per action follows.

**Only model-checked.** The four properties of `Codec`: what they compare are recursive functions
and folds over the input (`encodeRemainingLength`, the sizes of lists, the positions of
a filter), and that these agree for inputs of every length is an induction over
data. Liveness under fairness: `ReconnectsAfterFailure`, `PublishReturnsEventually`,
`WaitingPublishesEnd`, `AcceptedIsAcknowledged`, `RecordsAreReleased`, `KeepsTrying`,
`PacketsAreHandled`. Both are out of this prover's reach.

## What is not modelled

- `MQTT_CancelCallback` in a session: `StateEngine` has the removal. After it, an
  acknowledgement that still arrives meets no record (`MQTTBadResponse`, and the
  connection ends), and the copy stays in the application's store.
- `mqttSubscribe` as a thread of its own, and `MQTT_CheckConnectStatus`. A SUBSCRIBE keeps
  no record; its check of the connection and its sends are those of
  `MQTT_Publish`, and its packets are in `PacketVectors`.
- What a packet cut short by a timed-out send means to a broker that takes the next
  packet for the rest of it; in `ClientThreads`, where every send may time out, it
  closes the connection. In `MqttSession` a send that times out is on a connection that has
  broken: the application disconnects after any failed call, so a time-out that
  it ignores on a connection that goes on working is left to `ClientThreads`. In `ClientTask`
  packets are whole and sends take no time.
- The resend cursor reads a table in one step. While another thread compacts it,
  the code may also read it half compacted.
- Tick rates other than 1000 per second; `getCurrentTime` divides by the tick
  rate, so that its result wraps elsewhere than at 2^32 when the rate differs.
- Checks for null pointers, asserts, logging, names of statuses and packets,
  configuration macros, which the modules take as CONSTANTS. The message at
  `mqtt_api.c:226` announces a pause of 60 seconds; the task sleeps 30.

## What could follow

1. theorems about `Serializer`: that the remaining length read is the one written, of
   which the lemmas about headers in `ReceivePath_proofs` are a part;
2. `MQTT_CancelCallback` in `MqttSession`, with identifiers that do not wrap;
3. the loops of `compactRecords` and `addRecord` step by step against
   `CompactRecords` and `AddRecord`, interleaved with the cursor.
