------------------------------ MODULE ClientTask ------------------------------
(***************************************************************************)
(* mqttClientTask (mqtt_api.c) in time: its sockets, its retries, the      *)
(* keep-alive of MQTT_ProcessLoop, and the broker's side of it.            *)
(*                                                                         *)
(* A time stamp of the code is represented by what calculateElapsedTime    *)
(* returns for it now: the ticks since, modulo 2^32 (here TimeWrap).  Time *)
(* passes while the task sleeps or waits in recv; what it computes takes   *)
(* none.                                                                   *)
(*                                                                         *)
(* The transport polls or blocks (see ReceivePath); packets are whole, no  *)
(* send takes so long that it times out (see ClientThreads for that), and  *)
(* nothing is modelled of a publish but that it is sent or received.       *)
(***************************************************************************)
EXTENDS Integers, Sequences, FiniteSetsExt

CONSTANTS
  Descriptors,               \* the numbers that socket can return
  MQTT_LOOP_CNT, PACKET_TX_TIMEOUT_MS, PACKET_RX_TIMEOUT_MS,
  MQTT_PINGRESP_TIMEOUT_MS, MQTT_KEEP_ALIVE,
  INITIAL_BACKOFF_MS, MAX_BACKOFF_MS, MAX_RETRY_ATTEMPTS,
  RetryPause,                \* the 30000 ms that mqttClientTask sleeps then
  ConnackTimeout,            \* the 10000 ms that mqttConnect waits for CONNACK
  BufferPackets,             \* packets that fit the network buffer
  MaxArrived,                \* bound: packets that wait to be received
  TimeWrap                   \* 2^32

\* The broker ends a connection after one and a half keep-alive periods.
BrokerPatience == (3 * MQTT_KEEP_ALIVE) \div 2

ASSUME ClientTaskAssumption ==
  /\ 0 \in Descriptors /\ Descriptors \subseteq Nat
  /\ {MQTT_LOOP_CNT, BufferPackets, INITIAL_BACKOFF_MS} \subseteq Nat \ {0}
  /\ {PACKET_TX_TIMEOUT_MS, MQTT_PINGRESP_TIMEOUT_MS, MQTT_KEEP_ALIVE,
      TimeWrap} \subseteq Nat
  /\ BrokerPatience + 1 < TimeWrap

VARIABLES
  pc,               \* where mqttClientTask is
  socket, owner,    \* networkContext.socket; whose a descriptor is
  retryCount, backoffMs,
  delay,            \* what is left of rt_thread_mdelay
  connectStatus,
  waitingForPingResp,
  sinceTx, sinceRx, sincePing,    \* elapsed since the three time stamps
  buffer,           \* packets in the network buffer
  transport,        \* "polling" or "blocking"
  link,             \* "down", "up", "silent", "closed" or "reset"
  arrived,          \* packets that recv can return
  pinged,           \* the PINGREQs the broker has not answered
  unheard,          \* ticks since the broker received a packet
  sinceEmpty        \* ticks since recv last had nothing (or the connection began)

taskVars == <<pc, socket, retryCount, backoffMs>>
keepAliveVars == <<waitingForPingResp, sinceRx, sincePing>>
peerVars == <<arrived, pinged>>
vars == <<taskVars, owner, delay, connectStatus, keepAliveVars, sinceTx,
          buffer, transport, link, peerVars, unheard, sinceEmpty>>

\* The static networkContext holds descriptor 0, which may be anyone's, and the
\* time stamps are 0 at whatever time it is.
Init ==
  /\ pc = "top" /\ socket = 0
  /\ owner \in [Descriptors -> {"nobody", "other"}]
  /\ retryCount = 0 /\ backoffMs = INITIAL_BACKOFF_MS /\ delay = 0
  /\ connectStatus = "MQTTNotConnected" /\ waitingForPingResp = FALSE
  /\ sinceTx = 0 /\ sincePing = 0 /\ sinceRx \in 0..TimeWrap - 1
  /\ buffer = <<>>
  /\ transport \in {"polling", "blocking"}
  /\ link = "down" /\ arrived = <<>> /\ pinged = 0
  /\ unheard = 0 /\ sinceEmpty = 0

------------------------------------------------------------------------------
(***************************************************************************)
(* The peer, the network, and the other threads.                           *)
(***************************************************************************)
Arrives(packet) ==
  /\ link = "up" /\ Len(arrived) < MaxArrived
  /\ arrived' = Append(arrived, packet)

BrokerPublishes ==
  /\ connectStatus # "MQTTNotConnected"
  /\ Arrives("PUBLISH")
  /\ UNCHANGED <<taskVars, owner, delay, connectStatus, keepAliveVars, sinceTx,
                 buffer, transport, link, pinged, unheard, sinceEmpty>>

BrokerAnswersPing ==
  /\ pinged > 0
  /\ Arrives("PINGRESP")
  /\ pinged' = pinged - 1
  /\ UNCHANGED <<taskVars, owner, delay, connectStatus, keepAliveVars, sinceTx,
                 buffer, transport, link, unheard, sinceEmpty>>

\* The peer closes, resets, or is cut off without a word.  The broker closes
\* when it has run out of patience.
LinkEnds ==
  /\ link = "up"
  /\ link' \in {"closed", "reset", "silent"}
  /\ arrived' = IF link' = "reset" THEN <<>> ELSE arrived
  /\ UNCHANGED <<taskVars, owner, delay, connectStatus, keepAliveVars, sinceTx,
                 buffer, transport, pinged, unheard, sinceEmpty>>

\* What send reports, and what becomes of the connection: after the peer has
\* closed, the first send may succeed, and is answered by a reset.
Send(ok) ==
  \/ link = "up" /\ ok /\ unheard' = 0 /\ UNCHANGED <<link, arrived>>
  \/ link = "silent" /\ ok /\ UNCHANGED <<link, arrived, unheard>>
  \/ link = "closed" /\ ok /\ link' = "reset" /\ arrived' = <<>> /\ UNCHANGED unheard
  \/ link \in {"closed", "reset"} /\ ~ok /\ UNCHANGED <<link, arrived, unheard>>

\* MQTT_Publish of another thread, with QoS 0.
PublisherSends ==
  /\ connectStatus = "MQTTConnected"
  /\ \E ok \in BOOLEAN :
       /\ Send(ok)
       /\ sinceTx' = IF ok THEN 0 ELSE sinceTx
       /\ connectStatus' = IF ok THEN connectStatus ELSE "MQTTDisconnectPending"
  /\ UNCHANGED <<taskVars, owner, delay, keepAliveVars, buffer, transport,
                 pinged, sinceEmpty>>

OtherFiles ==
  /\ \E fd \in Descriptors :
       \/ owner[fd] = "nobody" /\ owner' = [owner EXCEPT ![fd] = "other"]
       \/ owner[fd] = "other" /\ owner' = [owner EXCEPT ![fd] = "nobody"]
  /\ UNCHANGED <<taskVars, delay, connectStatus, keepAliveVars, sinceTx,
                 buffer, transport, link, peerVars, unheard, sinceEmpty>>

------------------------------------------------------------------------------
(***************************************************************************)
(* Connecting.                                                             *)
(***************************************************************************)
closesocket(fd) == owner' = [owner EXCEPT ![fd] = "nobody"]

LinkIsGone ==
  /\ link' = "down" /\ arrived' = <<>> /\ pinged' = 0
  /\ unheard' = 0 /\ sinceEmpty' = 0

Now(step) == pc' = step /\ UNCHANGED delay

\* The top of the loop closes what the field says.
CloseLeftover ==
  /\ pc = "top" /\ delay = 0
  /\ IF socket >= 0
       THEN closesocket(socket) /\ socket' = -1
       ELSE UNCHANGED <<owner, socket>>
  /\ pc' = "socket"
  /\ UNCHANGED <<retryCount, backoffMs, delay, connectStatus, keepAliveVars,
                 sinceTx, buffer, transport, link, peerVars, unheard, sinceEmpty>>

Doubled(ms) == Min({ms * 2, MAX_BACKOFF_MS})

\* What mqttClientTask does when mqttConnect has failed.
Retry ==
  /\ pc' = "top"
  /\ IF retryCount >= MAX_RETRY_ATTEMPTS
       THEN /\ delay' = RetryPause
            /\ retryCount' = 0 /\ backoffMs' = INITIAL_BACKOFF_MS
       ELSE /\ delay' = backoffMs
            /\ retryCount' = retryCount + 1 /\ backoffMs' = Doubled(backoffMs)

OpenSocket ==
  /\ pc = "socket"
  /\ \/ /\ \E fd \in Descriptors :
             /\ owner[fd] = "nobody"
             /\ owner' = [owner EXCEPT ![fd] = "client"]
             /\ socket' = fd
        /\ Now("resolve")
        /\ UNCHANGED <<retryCount, backoffMs>>
     \/ socket' = -1 /\ Retry /\ UNCHANGED owner
  /\ UNCHANGED <<connectStatus, keepAliveVars, sinceTx, buffer, transport,
                 link, peerVars, unheard, sinceEmpty>>

\* Mutant: the socket of a failed connection stays open.
CloseAndRetryKept ==
  /\ Retry
  /\ LinkIsGone
  /\ socket' = -1 /\ UNCHANGED owner

\* mqttConnect closes the socket and leaves its number in the field.
CloseAndRetry ==
  /\ closesocket(socket) /\ Retry
  /\ LinkIsGone
  /\ UNCHANGED socket

\* gethostbyname and connect, then MQTT_Connect sends CONNECT.
ConnectSocket ==
  /\ pc = "resolve"
  /\ \/ CloseAndRetry /\ UNCHANGED sinceTx
     \/ /\ Now("connack")
        /\ link' = "up"
        /\ sinceTx' = 0
        /\ UNCHANGED <<owner, socket, retryCount, backoffMs, peerVars,
                       unheard, sinceEmpty>>
  /\ UNCHANGED <<connectStatus, keepAliveVars, buffer, transport>>

\* MQTT_Connect waits for CONNACK.  With cleanSession it empties the buffer.
ConnectSucceeds ==
  /\ pc = "connack" /\ link \in {"up", "closed"}
  /\ connectStatus' = "MQTTConnected"
  /\ waitingForPingResp' = FALSE /\ sincePing' = 0
  /\ buffer' = <<>>
  /\ retryCount' = 0 /\ backoffMs' = INITIAL_BACKOFF_MS
  /\ Now("process")
  /\ UNCHANGED <<socket, owner, sinceTx, sinceRx, transport, link, peerVars,
                 unheard, sinceEmpty>>

\* It is refused, or the connection ends, or, unless recv blocks, the time is over
\* (ConnackTimeout bounds the time in Tick; a recv that blocks is not bounded).
ConnectFails ==
  /\ pc = "connack"
  /\ transport = "polling" \/ link # "silent"
  /\ CloseAndRetry
  /\ UNCHANGED <<connectStatus, keepAliveVars, sinceTx, buffer, transport>>

------------------------------------------------------------------------------
(***************************************************************************)
(* MQTT_ProcessLoop every MQTT_LOOP_CNT milliseconds.                      *)
(***************************************************************************)
Space == BufferPackets - Len(buffer)

\* How many packets a recv brings; none at all while it waits.
Received ==
  CASE link = "reset" -> {-1}
    [] link # "reset" /\ Space = 0 -> {0}
    [] link # "reset" /\ Space > 0 /\ arrived # <<>> -> {Min({Space, Len(arrived)})}
    [] link # "reset" /\ Space > 0 /\ arrived = <<>> ->
         IF transport = "polling" THEN {IF link = "closed" THEN -1 ELSE 0}
                                  ELSE {0 : x \in {"closed"} \intersect {link}}

\* MQTT_Ping sends PINGREQ and reports how that went; waits says whether PINGRESP
\* is outstanding then.
MQTT_Ping(status, waits) ==
  \/ /\ connectStatus # "MQTTConnected"
     /\ status = "MQTTStatusDisconnectPending" /\ waits = waitingForPingResp
     /\ UNCHANGED <<connectStatus, link, arrived, pinged, unheard, sinceTx, sincePing>>
  \/ /\ connectStatus = "MQTTConnected"
     /\ status = "MQTTSuccess" /\ waits
     /\ Send(TRUE)
     /\ pinged' = pinged + (IF link = "up" THEN 1 ELSE 0)
     /\ sinceTx' = 0 /\ sincePing' = 0
     /\ UNCHANGED connectStatus
  \/ /\ connectStatus = "MQTTConnected"
     /\ status = "MQTTSendFailed" /\ waits = waitingForPingResp
     /\ Send(FALSE)
     /\ connectStatus' = "MQTTDisconnectPending"
     /\ UNCHANGED <<pinged, sinceTx, sincePing>>

\* Each of the timeouts, as handleKeepAlive looks at it.
PingRespOverdue == sincePing > MQTT_PINGRESP_TIMEOUT_MS

\* Mutant: only silence of the broker makes the client send PINGREQ.
TxOverdueNever(idle) == FALSE

\* A limit of 0 turns it off.
TxOverdue(idle) ==
  LET limit == Min({PACKET_TX_TIMEOUT_MS, MQTT_KEEP_ALIVE})
  IN  limit # 0 /\ idle >= limit

\* Mutant: only silence of the client makes it send PINGREQ.
RxOverdueNever(idle) == FALSE

RxOverdue(idle) == idle # 0 /\ idle >= PACKET_RX_TIMEOUT_MS

\* Mutant: a PINGREQ that is not answered does not keep the next one back.
AnotherPingDue(waiting) == TxOverdue(sinceTx) \/ RxOverdue(sinceRx)

PingDue(waiting) ==
  /\ ~waiting
  /\ TxOverdue(sinceTx) \/ RxOverdue(sinceRx)

handleKeepAlive(status, waits) ==
  IF PingDue(waitingForPingResp)
    THEN MQTT_Ping(status, waits)
    ELSE /\ status = IF waitingForPingResp /\ PingRespOverdue
                       THEN "MQTTKeepAliveTimeout" ELSE "MQTTSuccess"
         /\ waits = waitingForPingResp
         /\ UNCHANGED <<connectStatus, link, arrived, pinged, unheard, sinceTx,
                        sincePing>>

\* The loop sleeps after a call that succeeded, and is left after another.
LoopGoesOn == pc' = "process" /\ delay' = MQTT_LOOP_CNT
LoopEnds == pc' = "disconnect" /\ UNCHANGED delay

RecvFails ==
  /\ -1 \in Received
  /\ connectStatus' = IF connectStatus = "MQTTConnected"
                        THEN "MQTTDisconnectPending" ELSE connectStatus
  /\ LoopEnds
  /\ UNCHANGED <<buffer, arrived, link, pinged, unheard, sinceTx, sinceEmpty,
                 keepAliveVars>>

\* One packet is handled per call, the first one in the buffer.
HandleFirst(packets, waits) ==
  /\ IF packets = <<>>
       THEN /\ waitingForPingResp' = waits
            /\ UNCHANGED <<buffer, sinceRx>>
       ELSE /\ waitingForPingResp' = (waits /\ Head(packets) # "PINGRESP")
            /\ buffer' = Tail(packets) /\ sinceRx' = 0
  /\ LoopGoesOn

PacketsArrive ==
  /\ \E count \in Received \ {-1, 0} :
       /\ arrived' = SubSeq(arrived, count + 1, Len(arrived))
       /\ HandleFirst(buffer \o SubSeq(arrived, 1, count), waitingForPingResp)
  /\ UNCHANGED <<connectStatus, link, pinged, unheard, sinceTx, sincePing,
                 sinceEmpty>>

\* Without new bytes the keep-alive comes first, also when PINGRESP is already
\* in the buffer.
NothingArrives ==
  /\ 0 \in Received
  /\ sinceEmpty' = 0
  /\ \E waits \in BOOLEAN :
       \/ /\ handleKeepAlive("MQTTSuccess", waits)
          /\ HandleFirst(buffer, waits)
       \/ /\ \E status \in {"MQTTKeepAliveTimeout", "MQTTSendFailed",
                            "MQTTStatusDisconnectPending"} :
               handleKeepAlive(status, waits)
          /\ waitingForPingResp' = waits
          /\ LoopEnds
          /\ UNCHANGED <<buffer, sinceRx>>

MQTT_ProcessLoop ==
  /\ pc = "process" /\ delay = 0
  /\ RecvFails \/ PacketsArrive \/ NothingArrives
  /\ UNCHANGED <<socket, owner, retryCount, backoffMs, transport>>

\* The second MQTT_Disconnect of the loop finds nothing left to do.
MQTT_Disconnect ==
  /\ pc = "disconnect"
  /\ connectStatus' = "MQTTNotConnected" /\ buffer' = <<>>
  /\ \E ok \in BOOLEAN : Send(ok) /\ sinceTx' = IF ok THEN 0 ELSE sinceTx
  /\ Now("close")
  /\ UNCHANGED <<socket, owner, retryCount, backoffMs, keepAliveVars, transport,
                 pinged, sinceEmpty>>

\* The connection is closed, and the next one waits for a while.
CloseSocket ==
  /\ pc = "close"
  /\ closesocket(socket) /\ socket' = -1
  /\ pc' = "top" /\ delay' = backoffMs /\ backoffMs' = Doubled(backoffMs)
  /\ LinkIsGone
  /\ UNCHANGED <<retryCount, connectStatus, keepAliveVars, sinceTx, buffer,
                 transport>>

------------------------------------------------------------------------------
\* calculateElapsedTime one tick later.
Elapsed(since) == (since + 1) % TimeWrap

\* Bound: what has taken longer than the broker waits is not told apart.
Longer(ticks) == Min({ticks + 1, BrokerPatience + 1})

\* A broker that is connected does not wait any longer than it should.  No
\* PINGREQ stays unanswered, and no PINGRESP unhandled behind other packets, until
\* the clock has come round (49 days).
Tick ==
  /\ \/ delay > 0
     \/ pc = "connack" /\ (transport = "polling" => sinceTx < ConnackTimeout)
     \/ pc = "process" /\ Received = {}
  /\ link = "up" => /\ unheard <= BrokerPatience
                    /\ pc = "process" /\ waitingForPingResp =>
                         sincePing < TimeWrap - 1
  /\ delay' = Max({delay - 1, 0})
  /\ sinceTx' = Elapsed(sinceTx)
  /\ sinceRx' = Elapsed(sinceRx)
  /\ sincePing' = Elapsed(sincePing)
  /\ unheard' = IF link = "up" THEN Longer(unheard) ELSE unheard
  /\ sinceEmpty' = IF link = "up" THEN Longer(sinceEmpty) ELSE sinceEmpty
  /\ UNCHANGED <<taskVars, owner, connectStatus, waitingForPingResp, buffer,
                 transport, link, peerVars>>

Task ==
  \/ CloseLeftover \/ OpenSocket \/ ConnectSocket
  \/ ConnectSucceeds \/ ConnectFails
  \/ MQTT_ProcessLoop \/ MQTT_Disconnect \/ CloseSocket

Next ==
  \/ Task \/ Tick
  \/ PublisherSends \/ OtherFiles
  \/ BrokerPublishes \/ BrokerAnswersPing \/ LinkEnds

Spec == Init /\ [][Next]_vars /\ WF_vars(Task) /\ WF_vars(Tick)

------------------------------------------------------------------------------
(***************************************************************************)
(* Properties.                                                             *)
(***************************************************************************)
\* The task always has a connection that works, or tries to get one, however the
\* last one ended: it notices that a peer has closed, and, when recv polls, that
\* one has gone without a word, even if other threads publish all the time.
KeepsTrying ==
  []<>(\/ pc = "top"
       \/ link = "up"
       \/ link = "silent" /\ transport = "blocking")

\* The broker never has a reason to end the connection because it has not heard
\* of the client for one and a half keep-alive periods, as long as packets do not
\* arrive so densely that recv never comes back with nothing.  With a recv that
\* blocks that is not so: keep-alive does not run while the task waits in it.
BrokerStaysPatient ==
  pc = "process" /\ link = "up" /\ unheard > BrokerPatience =>
    \/ transport = "blocking"
    \/ sinceEmpty > BrokerPatience - PACKET_TX_TIMEOUT_MS

\* The PINGRESPs that have not been handled.
Answers == {n \in DOMAIN (buffer \o arrived) : (buffer \o arrived)[n] = "PINGRESP"}

\* The client waits for PINGRESP exactly as long as one PINGREQ or its answer is
\* under way, also when the connection before ended with one outstanding: it
\* never waits for an answer that cannot come, nor asks twice.
PingsAreMatched ==
  connectStatus # "MQTTNotConnected" /\ link = "up" =>
    IF waitingForPingResp
      THEN \/ pinged = 1 /\ Answers = {}
           \/ pinged = 0 /\ \E n \in Answers : Answers = {n}
      ELSE pinged = 0 /\ Answers = {}

\* No socket is lost: whatever fails on the way to a connection, the task owns no
\* descriptor but the one in its field; and it owns that one as long as it uses it,
\* although closing the leftover of a failed attempt a second time may hit the
\* file of another thread.
SocketsAreOwned ==
  /\ \A fd \in Descriptors : owner[fd] = "client" => fd = socket
  /\ pc \in {"resolve", "connack", "process", "disconnect", "close"} =>
       socket \in Descriptors /\ owner[socket] = "client"

===============================================================================
