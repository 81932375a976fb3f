--------------------------- MODULE ClientTask_proofs ---------------------------
(***************************************************************************)
(* Theorems about ClientTask, for all descriptors, timeouts and back-offs  *)
(* and buffers of any size: no socket is lost, the client waits for        *)
(* PINGRESP exactly while one is due, and the broker hears of the client   *)
(* before it runs out of patience.                                         *)
(***************************************************************************)
EXTENDS ClientTask, SequenceTheorems, TLAPS

------------------------------------------------------------------------------
(***************************************************************************)
(* Sockets.                                                                *)
(***************************************************************************)
\* Between attempts the task has no descriptor of its own; the number that a
\* failed attempt left in the field is only read at the top of the loop, and
\* the field is empty when the next socket is opened.
IInv ==
  /\ pc \in {"top", "socket", "resolve", "connack", "process", "disconnect", "close"}
  /\ socket \in Descriptors \union {-1}
  /\ owner \in [Descriptors -> {"nobody", "other", "client"}]
  /\ pc = "socket" => socket = -1
  /\ \A fd \in Descriptors : owner[fd] = "client" => fd = socket
  /\ pc \in {"resolve", "connack", "process", "disconnect", "close"} =>
       socket \in Descriptors /\ owner[socket] = "client"

LEMMA DescriptorsAreNumbers ==
  /\ 0 \in Descriptors
  /\ \A fd \in Descriptors : fd \in Nat /\ fd >= 0
  /\ -1 \notin Descriptors
BY ClientTaskAssumption DEF ClientTaskAssumption

LEMMA InitIsGood == Init => IInv
BY DescriptorsAreNumbers DEF Init, IInv

\* Closing the socket in the field leaves the task without any.
LEMMA ClosingLeavesNone ==
  ASSUME IInv, closesocket(socket)
  PROVE  /\ owner' \in [Descriptors -> {"nobody", "other", "client"}]
         /\ \A fd \in Descriptors : owner'[fd] # "client"
BY DEF IInv, closesocket

\* A step that touches neither the field nor the descriptors, and stays where the
\* socket is needed or leaves the program counter alone.
LEMMA StayingKeepsIt ==
  ASSUME IInv, UNCHANGED <<socket, owner>>,
         \/ UNCHANGED pc
         \/ /\ pc \in {"resolve", "connack", "process", "disconnect"}
            /\ pc' \in {"connack", "process", "disconnect", "close"}
  PROVE  IInv'
BY DEF IInv

\* Another thread opens a descriptor that is nobody's, or closes its own.
LEMMA OtherFilesKeepIt == IInv /\ OtherFiles => IInv'
<1> SUFFICES ASSUME IInv, OtherFiles PROVE IInv'
  OBVIOUS
<1>1. UNCHANGED <<pc, socket>>
  BY DEF OtherFiles, taskVars
<1>2. PICK fd \in Descriptors :
        \/ owner[fd] = "nobody" /\ owner' = [owner EXCEPT ![fd] = "other"]
        \/ owner[fd] = "other" /\ owner' = [owner EXCEPT ![fd] = "nobody"]
  BY DEF OtherFiles
<1> QED BY <1>1, <1>2 DEF IInv

LEMMA FailingKeepsIt ==
  ASSUME IInv, CloseAndRetry
  PROVE  IInv'
<1>1. closesocket(socket) /\ socket' = socket /\ pc' = "top"
  BY DEF CloseAndRetry, Retry
<1> QED BY <1>1, ClosingLeavesNone DEF IInv

LEMMA CloseLeftoverKeepsIt == IInv /\ CloseLeftover => IInv'
<1> SUFFICES ASSUME IInv, CloseLeftover PROVE IInv'
  OBVIOUS
<1>1. CASE socket >= 0
  <2>1. closesocket(socket) /\ socket' = -1 /\ pc' = "socket"
    BY <1>1 DEF CloseLeftover
  <2> QED BY <2>1, ClosingLeavesNone DEF IInv
<1>2. CASE ~(socket >= 0)
  <2>1. socket = -1 /\ socket' = -1 /\ owner' = owner /\ pc' = "socket"
    BY <1>2, DescriptorsAreNumbers DEF CloseLeftover, IInv
  <2> QED BY <2>1, DescriptorsAreNumbers DEF IInv
<1> QED BY <1>1, <1>2

LEMMA OpenSocketKeepsIt == IInv /\ OpenSocket => IInv'
<1> SUFFICES ASSUME IInv, OpenSocket PROVE IInv'
  OBVIOUS
<1>1. \A fd \in Descriptors : owner[fd] # "client"
  BY DescriptorsAreNumbers DEF IInv, OpenSocket
<1>2. CASE \E fd \in Descriptors :
             /\ owner[fd] = "nobody"
             /\ owner' = [owner EXCEPT ![fd] = "client"]
             /\ socket' = fd /\ pc' = "resolve"
  BY <1>1, <1>2 DEF IInv
<1>3. CASE socket' = -1 /\ pc' = "top" /\ owner' = owner
  BY <1>1, <1>3 DEF IInv
<1> QED BY <1>2, <1>3 DEF OpenSocket, Now, Retry

LEMMA ProcessLoopKeepsIt == IInv /\ MQTT_ProcessLoop => IInv'
<1> SUFFICES ASSUME IInv, MQTT_ProcessLoop PROVE IInv'
  OBVIOUS
<1>1. UNCHANGED <<socket, owner>> /\ pc = "process"
  BY DEF MQTT_ProcessLoop
<1>2. pc' \in {"process", "disconnect"}
  <2>1. CASE RecvFails
    BY <2>1 DEF RecvFails, LoopEnds
  <2>2. CASE PacketsArrive
    BY <2>2 DEF PacketsArrive, HandleFirst, LoopGoesOn
  <2>3. CASE NothingArrives
    BY <2>3 DEF NothingArrives, HandleFirst, LoopGoesOn, LoopEnds
  <2> QED BY <2>1, <2>2, <2>3 DEF MQTT_ProcessLoop
<1> QED BY <1>1, <1>2, StayingKeepsIt

LEMMA StepKeepsIt == IInv /\ [Next]_vars => IInv'
<1> SUFFICES ASSUME IInv, [Next]_vars PROVE IInv'
  OBVIOUS
<1>1. CASE CloseLeftover
  BY <1>1, CloseLeftoverKeepsIt
<1>2. CASE OpenSocket
  BY <1>2, OpenSocketKeepsIt
<1>3. CASE ConnectSocket
  <2>1. CASE CloseAndRetry
    BY <2>1, FailingKeepsIt
  <2>2. CASE ~CloseAndRetry
    BY <1>3, <2>2, StayingKeepsIt DEF ConnectSocket, Now
  <2> QED BY <2>1, <2>2
<1>4. CASE ConnectSucceeds
  BY <1>4, StayingKeepsIt DEF ConnectSucceeds, Now
<1>5. CASE ConnectFails
  BY <1>5, FailingKeepsIt DEF ConnectFails
<1>6. CASE MQTT_ProcessLoop
  BY <1>6, ProcessLoopKeepsIt
<1>7. CASE MQTT_Disconnect
  BY <1>7, StayingKeepsIt DEF MQTT_Disconnect, Now
<1>8. CASE CloseSocket
  <2>1. closesocket(socket) /\ socket' = -1 /\ pc' = "top"
    BY <1>8 DEF CloseSocket
  <2> QED BY <2>1, ClosingLeavesNone DEF IInv
<1>9. CASE OtherFiles
  BY <1>9, OtherFilesKeepIt
<1>10. CASE Tick \/ PublisherSends \/ BrokerPublishes \/ BrokerAnswersPing \/ LinkEnds
  <2>1. UNCHANGED <<pc, socket, owner>>
    BY <1>10 DEF Tick, PublisherSends, BrokerPublishes, BrokerAnswersPing, LinkEnds,
                 taskVars
  <2> QED BY <2>1, StayingKeepsIt
<1>11. CASE UNCHANGED vars
  BY <1>11, StayingKeepsIt DEF vars, taskVars
<1> QED
  BY <1>1, <1>2, <1>3, <1>4, <1>5, <1>6, <1>7, <1>8, <1>9, <1>10, <1>11
  DEF Next, Task

\* However often and wherever connecting fails, mqttClientTask owns no descriptor
\* but the one in networkContext.socket, and owns that one as long as it uses it.
THEOREM SocketsAreOwnedAlways == Spec => []SocketsAreOwned
<1>1. IInv => SocketsAreOwned
  BY DEF IInv, SocketsAreOwned
<1> QED BY <1>1, InitIsGood, StepKeepsIt, PTL DEF Spec

------------------------------------------------------------------------------
(***************************************************************************)
(* PINGREQ and PINGRESP.                                                   *)
(***************************************************************************)
Kind == {"PUBLISH", "PINGRESP"}

AnswersIn(packets) == {n \in DOMAIN packets : packets[n] = "PINGRESP"}

Matched(waiting, asked, packets) ==
  IF waiting
    THEN \/ asked = 1 /\ AnswersIn(packets) = {}
         \/ asked = 0 /\ \E n \in AnswersIn(packets) : AnswersIn(packets) = {n}
    ELSE asked = 0 /\ AnswersIn(packets) = {}

\* A new connection begins with nothing under way, because what the last one left
\* is gone with its socket; and the task is connected only while it processes.
PInv ==
  /\ buffer \in Seq(Kind) /\ arrived \in Seq(Kind)
  /\ Len(buffer) <= BufferPackets
  /\ pinged \in Int /\ waitingForPingResp \in BOOLEAN
  /\ connectStatus # "MQTTNotConnected" => pc \in {"process", "disconnect"}
  /\ pc \in {"top", "socket", "resolve", "connack"} => arrived = <<>> /\ pinged = 0
  /\ connectStatus # "MQTTNotConnected" /\ link = "up" =>
       Matched(waitingForPingResp, pinged, buffer \o arrived)

LEMMA InitHasNoPings == Init => PInv
<1> SUFFICES ASSUME Init PROVE PInv
  OBVIOUS
<1>1. <<>> \in Seq(Kind)
  OBVIOUS
<1>2. buffer = <<>> /\ arrived = <<>> /\ pinged = 0 /\ connectStatus = "MQTTNotConnected"
  BY DEF Init
<1>3. waitingForPingResp \in BOOLEAN
  BY DEF Init
<1>4. Len(<<>>) <= BufferPackets
  BY ClientTaskAssumption DEF ClientTaskAssumption
<1> QED BY <1>1, <1>2, <1>3, <1>4 DEF PInv

\* The first packet is handled: the rest moves up by one place.
LEMMA FirstIsDropped ==
  ASSUME NEW packets \in Seq(Kind), NEW rest \in Seq(Kind),
         Len(packets) = Len(rest) + 1,
         \A n \in 1..Len(rest) : rest[n] = packets[n + 1]
  PROVE  AnswersIn(packets) =
           {n + 1 : n \in AnswersIn(rest)}
             \union (IF packets[1] = "PINGRESP" THEN {1} ELSE {})
<1>1. \A n \in 1..Len(packets) : n = 1 \/ n - 1 \in 1..Len(rest)
  OBVIOUS
<1>2. \A n \in 1..Len(rest) : n + 1 \in 1..Len(packets)
  OBVIOUS
<1>3. 1 \in 1..Len(packets)
  OBVIOUS
<1>4. DOMAIN packets = 1..Len(packets) /\ DOMAIN rest = 1..Len(rest)
  OBVIOUS
<1>5. \A n \in AnswersIn(packets) : n = 1 \/ n - 1 \in AnswersIn(rest)
  BY <1>1, <1>4 DEF AnswersIn
<1> QED BY <1>1, <1>2, <1>3, <1>4, <1>5 DEF AnswersIn

LEMMA HandlingKeepsMatched ==
  ASSUME NEW packets \in Seq(Kind), NEW rest \in Seq(Kind),
         NEW waiting \in BOOLEAN, NEW asked \in Int,
         Len(packets) = Len(rest) + 1,
         \A n \in 1..Len(rest) : rest[n] = packets[n + 1],
         Matched(waiting, asked, packets)
  PROVE  Matched(waiting /\ packets[1] # "PINGRESP", asked, rest)
<1> DEFINE Moved == {n + 1 : n \in AnswersIn(rest)}
<1>1. AnswersIn(packets) = Moved \union (IF packets[1] = "PINGRESP" THEN {1} ELSE {})
  BY FirstIsDropped
<1>2. /\ DOMAIN rest = 1..Len(rest)
      /\ AnswersIn(rest) \subseteq 1..Len(rest)
      /\ 1 \notin Moved
  BY DEF AnswersIn
<1>3. CASE packets[1] = "PINGRESP"
  <2>1. 1 \in AnswersIn(packets)
    BY <1>1, <1>3
  <2>2. waiting /\ asked = 0 /\ AnswersIn(packets) = {1}
    BY <2>1 DEF Matched
  <2>3. \A n \in AnswersIn(rest) : n + 1 \in Moved /\ n + 1 # 1
    BY <1>2
  <2>4. \A n \in AnswersIn(rest) : n + 1 \in AnswersIn(packets)
    BY <2>3, <1>1
  <2>5. AnswersIn(rest) = {}
    BY <2>2, <2>3, <2>4
  <2> QED BY <2>2, <2>5, <1>3 DEF Matched
<1>4. CASE packets[1] # "PINGRESP"
  <2>1. AnswersIn(packets) = Moved
    BY <1>1, <1>4
  <2>2. CASE AnswersIn(packets) = {}
    <3>1. AnswersIn(rest) = {}
      BY <2>1, <2>2
    <3> QED BY <3>1, <2>2, <1>4 DEF Matched
  <2>3. CASE AnswersIn(packets) # {}
    <3>1. waiting /\ asked = 0
      BY <2>3 DEF Matched
    <3>2. PICK m \in AnswersIn(packets) : AnswersIn(packets) = {m}
      BY <2>3 DEF Matched
    <3>3. PICK n \in AnswersIn(rest) : m = n + 1
      BY <3>2, <2>1
    <3>4. \A k \in AnswersIn(rest) : k = n
      <4>1. \A k \in AnswersIn(rest) : k + 1 = m
        BY <3>2, <2>1
      <4> QED BY <4>1, <3>3, <1>2
    <3>5. AnswersIn(rest) = {n}
      BY <3>3, <3>4
    <3> QED BY <3>1, <3>3, <3>5, <1>4 DEF Matched
  <2> QED BY <2>2, <2>3
<1> QED BY <1>3, <1>4

\* One more packet behind the others.
LEMMA OneMoreArrives ==
  ASSUME NEW before \in Seq(Kind), NEW packets \in Seq(Kind), NEW packet \in Kind
  PROVE  LET all == before \o packets
         IN  AnswersIn(before \o Append(packets, packet)) =
               AnswersIn(all) \union (IF packet = "PINGRESP" THEN {Len(all) + 1} ELSE {})
<1> DEFINE all == before \o packets
           more == before \o Append(packets, packet)
<1>1. /\ all \in Seq(Kind) /\ more \in Seq(Kind)
      /\ Len(more) = Len(all) + 1
      /\ more[Len(all) + 1] = packet
      /\ \A n \in 1..Len(all) : more[n] = all[n]
  OBVIOUS
<1>2. DOMAIN more = 1..(Len(all) + 1) /\ DOMAIN all = 1..Len(all)
  BY <1>1
<1> HIDE DEF all, more
<1>3. DOMAIN more = DOMAIN all \union {Len(all) + 1} /\ Len(all) + 1 \notin DOMAIN all
  BY <1>1, <1>2
<1>4. AnswersIn(more) = AnswersIn(all) \union (IF packet = "PINGRESP" THEN {Len(all) + 1} ELSE {})
  BY <1>1, <1>2, <1>3 DEF AnswersIn
<1> QED BY <1>4 DEF all, more

------------------------------------------------------------------------------
\* What recv brings fits the buffer.
LEMMA SmallerOfTwo ==
  ASSUME NEW a \in Int, NEW b \in Int
  PROVE  Min({a, b}) \in {a, b} /\ Min({a, b}) <= a /\ Min({a, b}) <= b
<1>1. \E x \in {a, b} : \A y \in {a, b} : x <= y
  OBVIOUS
<1> QED BY <1>1 DEF Min

LEMMA ReceivedIsThere ==
  ASSUME PInv, NEW count \in Received \ {-1, 0}
  PROVE  count \in 1..Len(arrived) /\ Len(buffer) + count <= BufferPackets
<1>1. /\ BufferPackets \in Int /\ Len(buffer) \in Nat /\ Len(arrived) \in Nat
      /\ Len(buffer) <= BufferPackets
  BY ClientTaskAssumption DEF ClientTaskAssumption, PInv
<1>2. Space \in Nat /\ Len(buffer) + Space = BufferPackets
  BY <1>1 DEF Space
<1>3. CASE link # "reset" /\ Space > 0 /\ arrived # <<>>
  <2>1. count = Min({Space, Len(arrived)})
    BY <1>3, <1>2 DEF Received
  <2>2. Len(arrived) > 0
    BY <1>3 DEF PInv
  <2>3. count \in {Space, Len(arrived)} /\ count <= Space /\ count <= Len(arrived)
    <3>1. Space \in Int /\ Len(arrived) \in Int
      BY <1>1, <1>2
    <3>2. LET least == Min({Space, Len(arrived)})
          IN  least \in {Space, Len(arrived)} /\ least <= Space /\ least <= Len(arrived)
      BY <3>1, SmallerOfTwo, Zenon
    <3> QED BY <3>2, <2>1, Zenon
  <2>4. count \in Int
    BY <2>3, <1>1, <1>2
  <2>5. count > 0
    BY <2>2, <2>3, <1>2, <1>3
  <2> QED BY <2>3, <2>4, <2>5, <1>1, <1>2
<1>4. CASE ~(link # "reset" /\ Space > 0 /\ arrived # <<>>)
  <2>1. CASE link = "reset"
    BY <2>1 DEF Received
  <2>2. CASE link # "reset" /\ Space = 0
    BY <2>2 DEF Received
  <2>3. CASE link # "reset" /\ Space > 0 /\ arrived = <<>>
    BY <2>3 DEF Received
  <2> QED BY <2>1, <2>2, <2>3, <1>4, <1>2
<1> QED BY <1>3, <1>4

------------------------------------------------------------------------------
\* Sequences.
LEMMA OneAfterTheOther ==
  ASSUME NEW a \in Seq(Kind), NEW b \in Seq(Kind)
  PROVE  /\ a \o b \in Seq(Kind) /\ Len(a \o b) = Len(a) + Len(b)
         /\ \A n \in 1..Len(a) : (a \o b)[n] = a[n]
         /\ \A n \in 1..Len(b) : (a \o b)[Len(a) + n] = b[n]
OBVIOUS

LEMMA CutInTwo ==
  ASSUME NEW a \in Seq(Kind), NEW count \in 0..Len(a)
  PROVE  LET taken == SubSeq(a, 1, count)
             left == SubSeq(a, count + 1, Len(a))
         IN  taken \in Seq(Kind) /\ left \in Seq(Kind) /\ a = taken \o left
                /\ Len(taken) = count
<1> DEFINE taken == SubSeq(a, 1, count)
           left == SubSeq(a, count + 1, Len(a))
<1>1. /\ taken \in Seq(Kind) /\ Len(taken) = count
      /\ \A n \in 1..count : taken[n] = a[n]
  OBVIOUS
<1>2. /\ left \in Seq(Kind) /\ Len(left) = Len(a) - count
      /\ \A n \in 1..Len(left) : left[n] = a[count + n]
  BY SMTT(30)
<1> HIDE DEF taken, left
<1>3. Len(taken \o left) = Len(a)
  BY <1>1, <1>2, OneAfterTheOther
<1>4. ASSUME NEW n \in 1..Len(a) PROVE (taken \o left)[n] = a[n]
  <2>1. CASE n <= count
    BY <2>1, <1>1, <1>2, OneAfterTheOther
  <2>2. CASE n > count
    <3>1. n - count \in 1..Len(left) /\ n = Len(taken) + (n - count)
      BY <2>2, <1>1, <1>2
    <3>2. (taken \o left)[Len(taken) + (n - count)] = left[n - count]
      BY <3>1, <1>1, <1>2, OneAfterTheOther
    <3>3. left[n - count] = a[count + (n - count)]
      BY <3>1, <1>2
    <3> QED BY <3>1, <3>2, <3>3
  <2>3. n <= count \/ n > count
    OBVIOUS
  <2> QED BY <2>1, <2>2, <2>3, Zenon
<1>5. taken \o left \in Seq(Kind)
  BY <1>1, <1>2, OneAfterTheOther
<1>6. a = taken \o left
  BY <1>3, <1>4, <1>5, SeqEqual
<1> QED BY <1>1, <1>2, <1>6 DEF taken, left

LEMMA Regrouped ==
  ASSUME NEW a \in Seq(Kind), NEW b \in Seq(Kind), NEW c \in Seq(Kind)
  PROVE  (a \o b) \o c = a \o (b \o c)
BY ConcatAssociative

LEMMA RestMovesUp ==
  ASSUME NEW packets \in Seq(Kind), packets # <<>>, NEW left \in Seq(Kind)
  PROVE  LET all == packets \o left
             rest == Tail(packets) \o left
         IN  /\ all \in Seq(Kind) /\ rest \in Seq(Kind)
             /\ Len(all) = Len(rest) + 1
             /\ \A n \in 1..Len(rest) : rest[n] = all[n + 1]
             /\ all[1] = Head(packets)
<1> DEFINE tail == Tail(packets)
<1>1. /\ tail \in Seq(Kind) /\ Len(packets) = Len(tail) + 1
      /\ \A n \in 1..Len(tail) : tail[n] = packets[n + 1]
      /\ Head(packets) = packets[1]
  OBVIOUS
<1> HIDE DEF tail
<1>2. /\ packets \o left \in Seq(Kind) /\ tail \o left \in Seq(Kind)
      /\ Len(packets \o left) = Len(packets) + Len(left)
      /\ Len(tail \o left) = Len(tail) + Len(left)
  BY <1>1, OneAfterTheOther
<1>3. ASSUME NEW n \in 1..Len(tail \o left)
      PROVE  (tail \o left)[n] = (packets \o left)[n + 1]
  <2>1. CASE n <= Len(tail)
    BY <2>1, <1>1, OneAfterTheOther
  <2>2. CASE n > Len(tail)
    <3>1. /\ n - Len(tail) \in 1..Len(left)
          /\ n = Len(tail) + (n - Len(tail))
          /\ n + 1 = Len(packets) + (n - Len(tail))
      BY <2>2, <1>1, <1>2
    <3> QED BY <3>1, <1>1, OneAfterTheOther
  <2> QED BY <2>1, <2>2, <1>1
<1>4. (packets \o left)[1] = Head(packets)
  BY <1>1, OneAfterTheOther
<1> QED BY <1>1, <1>2, <1>3, <1>4 DEF tail

------------------------------------------------------------------------------
\* Handling the first of the packets in the buffer, when count more have come.
LEMMA HandleFirstKeepsMatched ==
  ASSUME PInv, NEW count \in 0..Len(arrived), NEW waits \in BOOLEAN,
         NEW asked \in Int,
         Len(buffer) + count <= BufferPackets,
         arrived' = SubSeq(arrived, count + 1, Len(arrived)),
         HandleFirst(buffer \o SubSeq(arrived, 1, count), waits)
  PROVE  /\ buffer' \in Seq(Kind) /\ arrived' \in Seq(Kind)
         /\ Len(buffer') <= BufferPackets
         /\ waitingForPingResp' \in BOOLEAN
         /\ Matched(waits, asked, buffer \o arrived)
              => Matched(waitingForPingResp', asked, buffer' \o arrived')
<1> DEFINE taken == SubSeq(arrived, 1, count)
           left == SubSeq(arrived, count + 1, Len(arrived))
           packets == buffer \o taken
<1>1. /\ buffer \in Seq(Kind) /\ arrived \in Seq(Kind) /\ Len(buffer) <= BufferPackets
      /\ BufferPackets \in Nat
  BY ClientTaskAssumption DEF PInv, ClientTaskAssumption
<1>2. taken \in Seq(Kind) /\ left \in Seq(Kind) /\ arrived = taken \o left /\ Len(taken) = count
  BY <1>1, CutInTwo
<1>3. arrived' = left /\ HandleFirst(packets, waits)
  OBVIOUS
<1> HIDE DEF taken, left
<1>4. /\ packets \in Seq(Kind) /\ Len(packets) = Len(buffer) + count
  BY <1>1, <1>2, OneAfterTheOther
<1>5. buffer \o arrived = packets \o left
  <2>1. buffer \o arrived = buffer \o (taken \o left)
    <3>1. arrived = taken \o left
      BY <1>2
    <3> QED
      BY ONLY <3>1, SMT
  <2>2. (buffer \o taken) \o left = buffer \o (taken \o left)
    <3>1. buffer \in Seq(Kind) /\ taken \in Seq(Kind) /\ left \in Seq(Kind)
      BY <1>1, <1>2
    <3> QED
      BY ONLY <3>1, Regrouped
  <2> QED BY <2>1, <2>2
<1> HIDE DEF packets
<1>7. CASE packets = <<>>
  <2>1. waitingForPingResp' = waits /\ buffer' = buffer
    BY <1>3, <1>7 DEF HandleFirst
  <2>2. Len(buffer) = 0
    BY <1>1, <1>4, <1>7
  <2>3. buffer = packets
    BY <2>2, <1>1, <1>7
  <2> QED BY <2>1, <2>3, <1>1, <1>2, <1>3, <1>5
<1>8. CASE packets # <<>>
  <2>1. /\ waitingForPingResp' = (waits /\ Head(packets) # "PINGRESP")
        /\ buffer' = Tail(packets)
    BY <1>3, <1>8 DEF HandleFirst
  <2>2. buffer' \in Seq(Kind) /\ Len(buffer') = Len(packets) - 1
    BY <2>1, <1>4, <1>8
  <2>3. Len(buffer') <= BufferPackets /\ waitingForPingResp' \in BOOLEAN
    BY <2>1, <2>2, <1>1, <1>4
  <2> DEFINE all == packets \o left
             rest == buffer' \o left
  <2>4. /\ all \in Seq(Kind) /\ rest \in Seq(Kind)
        /\ Len(all) = Len(rest) + 1
        /\ \A n \in 1..Len(rest) : rest[n] = all[n + 1]
        /\ all[1] = Head(packets)
    BY <2>1, <1>2, <1>4, <1>8, RestMovesUp
  <2> HIDE DEF all, rest
  <2>5. Matched(waits, asked, all) => Matched(waits /\ all[1] # "PINGRESP", asked, rest)
    BY <2>4, HandlingKeepsMatched
  <2>6. Matched(waits, asked, all) => Matched(waitingForPingResp', asked, rest)
    BY <2>1, <2>4, <2>5
  <2> QED BY <2>2, <2>3, <2>6, <1>2, <1>3, <1>5 DEF all, rest
<1> QED BY <1>7, <1>8

------------------------------------------------------------------------------
\* What send does to the connection.
LEMMA SendOnLiveLink ==
  ASSUME NEW ok \in BOOLEAN, Send(ok), link' = "up"
  PROVE  link = "up" /\ ok /\ arrived' = arrived
BY DEF Send

LEMMA SendLosesOrKeeps ==
  ASSUME NEW ok \in BOOLEAN, Send(ok)
  PROVE  arrived' \in {arrived, <<>>}
BY DEF Send

\* Steps that leave what is under way alone, or end the connection.
LEMMA NothingHappens ==
  ASSUME PInv,
         UNCHANGED <<buffer, pinged, waitingForPingResp>>,
         arrived' \in {arrived, <<>>},
         link' = "up" => link = "up" /\ arrived' = arrived,
         connectStatus' # "MQTTNotConnected" =>
           /\ connectStatus # "MQTTNotConnected"
           /\ pc' \in {"process", "disconnect"},
         pc' \in {"top", "socket", "resolve", "connack"} =>
           pc \in {"top", "socket", "resolve", "connack"}
  PROVE  PInv'
<1>1. <<>> \in Seq(Kind)
  OBVIOUS
<1>2. arrived' \in Seq(Kind) /\ buffer' \in Seq(Kind) /\ Len(buffer') <= BufferPackets
  BY <1>1 DEF PInv
<1>3. connectStatus' # "MQTTNotConnected" /\ link' = "up" =>
        Matched(waitingForPingResp', pinged', buffer' \o arrived')
  BY DEF PInv
<1> QED BY <1>2, <1>3 DEF PInv

\* A connection is gone, and everything with it.
LEMMA StartingAgain ==
  ASSUME PInv, LinkIsGone, UNCHANGED <<buffer, waitingForPingResp, connectStatus>>,
         connectStatus = "MQTTNotConnected"
  PROVE  PInv'
<1>1. <<>> \in Seq(Kind)
  OBVIOUS
<1> QED BY <1>1 DEF PInv, LinkIsGone

LEMMA PublishArrives == PInv /\ BrokerPublishes => PInv'
<1> SUFFICES ASSUME PInv, BrokerPublishes PROVE PInv'
  OBVIOUS
<1>1. /\ UNCHANGED <<pc, connectStatus, waitingForPingResp, buffer, link, pinged>>
      /\ arrived' = Append(arrived, "PUBLISH")
      /\ connectStatus # "MQTTNotConnected"
  BY DEF BrokerPublishes, Arrives, taskVars, keepAliveVars
<1>2. arrived' \in Seq(Kind)
  BY <1>1 DEF PInv, Kind
<1>3. AnswersIn(buffer' \o arrived') = AnswersIn(buffer \o arrived)
  <2>1. "PUBLISH" \in Kind
    BY DEF Kind
  <2>2. AnswersIn(buffer \o Append(arrived, "PUBLISH")) =
          AnswersIn(buffer \o arrived)
            \union (IF "PUBLISH" = "PINGRESP" THEN {Len(buffer \o arrived) + 1} ELSE {})
    BY <2>1, OneMoreArrives, Zenon DEF PInv
  <2>3. AnswersIn(buffer \o Append(arrived, "PUBLISH")) = AnswersIn(buffer \o arrived)
    BY <2>2
  <2> QED BY <2>3, <1>1
<1>4. link = "up" => Matched(waitingForPingResp', pinged', buffer' \o arrived')
  BY <1>1, <1>3 DEF PInv, Matched
<1>5. pc' \in {"process", "disconnect"} /\ pc = pc'
  BY <1>1 DEF PInv
<1> QED BY <1>1, <1>2, <1>4, <1>5 DEF PInv

LEMMA AnswerArrives == PInv /\ BrokerAnswersPing => PInv'
<1> SUFFICES ASSUME PInv, BrokerAnswersPing PROVE PInv'
  OBVIOUS
<1>1. /\ UNCHANGED <<pc, connectStatus, waitingForPingResp, buffer, link>>
      /\ arrived' = Append(arrived, "PINGRESP")
      /\ pinged > 0 /\ pinged' = pinged - 1
  BY DEF BrokerAnswersPing, Arrives, taskVars, keepAliveVars
<1>2. arrived' \in Seq(Kind)
  BY <1>1 DEF PInv, Kind
<1> DEFINE new == Len(buffer \o arrived) + 1
<1>3. AnswersIn(buffer' \o arrived') = AnswersIn(buffer \o arrived) \union {new}
  <2>1. "PINGRESP" \in Kind
    BY DEF Kind
  <2> QED BY <2>1, <1>1, OneMoreArrives DEF PInv
<1> HIDE DEF new
<1>4. connectStatus # "MQTTNotConnected" /\ link = "up" =>
        Matched(waitingForPingResp', pinged', buffer' \o arrived')
  <2> SUFFICES ASSUME connectStatus # "MQTTNotConnected", link = "up"
               PROVE  Matched(waitingForPingResp', pinged', buffer' \o arrived')
    OBVIOUS
  <2>1. Matched(waitingForPingResp, pinged, buffer \o arrived)
    BY DEF PInv
  <2>2. waitingForPingResp /\ pinged = 1 /\ AnswersIn(buffer \o arrived) = {}
    BY <2>1, <1>1 DEF Matched
  <2>3. AnswersIn(buffer' \o arrived') = {new} /\ pinged' = 0
    BY <2>2, <1>1, <1>3
  <2>4. new \in AnswersIn(buffer' \o arrived')
    BY <2>3
  <2> QED BY <2>2, <2>3, <2>4, <1>1 DEF Matched
<1>5. pc' \notin {"top", "socket", "resolve", "connack"}
  BY <1>1 DEF PInv
<1> QED BY <1>1, <1>2, <1>4, <1>5 DEF PInv

\* handleKeepAlive asks only when no answer is due.
LEMMA KeepAliveKeepsMatched ==
  ASSUME PInv, NEW status, NEW waits \in BOOLEAN, handleKeepAlive(status, waits)
  PROVE  /\ pinged' \in Int
         /\ arrived' \in {arrived, <<>>}
         /\ link' = "up" => link = "up" /\ arrived' = arrived
         /\ connectStatus' # "MQTTNotConnected" => connectStatus # "MQTTNotConnected"
         /\ connectStatus # "MQTTNotConnected" /\ link' = "up" =>
              Matched(waits, pinged', buffer \o arrived)
<1>1. CASE PingDue(waitingForPingResp) /\ connectStatus = "MQTTConnected"
             /\ waits /\ Send(TRUE)
             /\ pinged' = pinged + (IF link = "up" THEN 1 ELSE 0)
             /\ connectStatus' = connectStatus
  <2>1. /\ arrived' \in {arrived, <<>>}
        /\ link' = "up" => link = "up" /\ arrived' = arrived
    BY <1>1, SendOnLiveLink, SendLosesOrKeeps
  <2>2. pinged' \in Int
    BY <1>1 DEF PInv
  <2>3. ASSUME link' = "up" PROVE Matched(waits, pinged', buffer \o arrived)
    <3>1. link = "up" /\ ~waitingForPingResp
      BY <2>1, <2>3, <1>1 DEF PingDue
    <3>2. pinged = 0 /\ AnswersIn(buffer \o arrived) = {}
      BY <3>1, <1>1 DEF PInv, Matched
    <3> QED BY <3>1, <3>2, <1>1 DEF Matched
  <2> QED BY <2>1, <2>2, <2>3, <1>1
<1>2. CASE PingDue(waitingForPingResp) /\ connectStatus = "MQTTConnected"
             /\ waits = waitingForPingResp /\ Send(FALSE)
             /\ pinged' = pinged
  <2>1. /\ arrived' \in {arrived, <<>>}
        /\ link' # "up"
    BY <1>2, SendOnLiveLink, SendLosesOrKeeps
  <2> QED BY <2>1, <1>2 DEF PInv
<1>3. CASE /\ waits = waitingForPingResp
           /\ UNCHANGED <<connectStatus, link, arrived, pinged>>
  BY <1>3 DEF PInv
<1> QED BY <1>1, <1>2, <1>3 DEF handleKeepAlive, MQTT_Ping

LEMMA HandleFirstTypes ==
  ASSUME PInv, NEW waits \in BOOLEAN, HandleFirst(buffer, waits)
  PROVE  /\ buffer' \in Seq(Kind) /\ Len(buffer') <= BufferPackets
         /\ waitingForPingResp' \in BOOLEAN
<1>1. buffer \in Seq(Kind) /\ Len(buffer) <= BufferPackets /\ BufferPackets \in Nat
  BY ClientTaskAssumption DEF PInv, ClientTaskAssumption
<1>2. CASE buffer = <<>>
  BY <1>1, <1>2 DEF HandleFirst
<1>3. CASE buffer # <<>>
  <2>1. Tail(buffer) \in Seq(Kind) /\ Len(Tail(buffer)) = Len(buffer) - 1
    BY <1>1, <1>3
  <2>2. buffer' = Tail(buffer) /\ waitingForPingResp' \in BOOLEAN
    BY <1>3 DEF HandleFirst
  <2> QED BY <2>1, <2>2, <1>1
<1> QED BY <1>2, <1>3

LEMMA ArrivalsKeepPings == PInv /\ pc = "process" /\ PacketsArrive => PInv'
<1> SUFFICES ASSUME PInv, pc = "process", PacketsArrive PROVE PInv'
  OBVIOUS
<1>1. PICK count \in Received \ {-1, 0} :
        /\ arrived' = SubSeq(arrived, count + 1, Len(arrived))
        /\ HandleFirst(buffer \o SubSeq(arrived, 1, count), waitingForPingResp)
  BY DEF PacketsArrive
<1>2. count \in 0..Len(arrived) /\ Len(buffer) + count <= BufferPackets
  BY ReceivedIsThere
<1>3. waitingForPingResp \in BOOLEAN /\ pinged \in Int
  BY DEF PInv
<1>4. /\ buffer' \in Seq(Kind) /\ arrived' \in Seq(Kind)
      /\ Len(buffer') <= BufferPackets
      /\ waitingForPingResp' \in BOOLEAN
      /\ Matched(waitingForPingResp, pinged, buffer \o arrived)
           => Matched(waitingForPingResp', pinged, buffer' \o arrived')
  BY <1>1, <1>2, <1>3, HandleFirstKeepsMatched
<1>5. UNCHANGED <<connectStatus, link, pinged>>
  BY DEF PacketsArrive
<1>6. pc' = "process"
  BY <1>1 DEF HandleFirst, LoopGoesOn
<1> QED BY <1>3, <1>4, <1>5, <1>6 DEF PInv

LEMMA SilenceKeepsPings == PInv /\ pc = "process" /\ NothingArrives => PInv'
<1> SUFFICES ASSUME PInv, pc = "process", NothingArrives PROVE PInv'
  OBVIOUS
<1>1. arrived \in Seq(Kind) /\ <<>> \in Seq(Kind)
  BY DEF PInv
<1>2. ASSUME NEW waits \in BOOLEAN, handleKeepAlive("MQTTSuccess", waits),
             HandleFirst(buffer, waits)
      PROVE  PInv'
  <2>1. /\ pinged' \in Int
        /\ arrived' \in {arrived, <<>>}
        /\ link' = "up" => link = "up" /\ arrived' = arrived
        /\ connectStatus' # "MQTTNotConnected" => connectStatus # "MQTTNotConnected"
        /\ connectStatus # "MQTTNotConnected" /\ link' = "up" =>
             Matched(waits, pinged', buffer \o arrived)
    BY <1>2, KeepAliveKeepsMatched
  <2>2. /\ buffer' \in Seq(Kind) /\ Len(buffer') <= BufferPackets
        /\ waitingForPingResp' \in BOOLEAN
    BY <1>2, HandleFirstTypes
  <2>3. pc' = "process"
    BY <1>2 DEF HandleFirst, LoopGoesOn
  <2>4. ASSUME connectStatus' # "MQTTNotConnected", link' = "up"
        PROVE  Matched(waitingForPingResp', pinged', buffer' \o arrived')
    <3>1. Matched(waits, pinged', buffer \o arrived) /\ arrived' = arrived
      BY <2>1, <2>4
    <3>2. /\ SubSeq(arrived, 1, 0) = <<>> /\ SubSeq(arrived, 0 + 1, Len(arrived)) = arrived
          /\ 0 \in 0..Len(arrived) /\ Len(buffer) + 0 <= BufferPackets
      BY <1>1 DEF PInv
    <3>3. buffer \o SubSeq(arrived, 1, 0) = buffer
      BY <3>2 DEF PInv
    <3>4. /\ arrived' = SubSeq(arrived, 0 + 1, Len(arrived))
          /\ HandleFirst(buffer \o SubSeq(arrived, 1, 0), waits)
      BY <3>1, <3>2, <3>3, <1>2
    <3> QED BY <3>1, <3>2, <3>4, <2>1, HandleFirstKeepsMatched
  <2> QED BY <2>1, <2>2, <2>3, <2>4, <1>1 DEF PInv
<1>3. ASSUME NEW status, NEW waits \in BOOLEAN, handleKeepAlive(status, waits),
             waitingForPingResp' = waits, LoopEnds, buffer' = buffer
      PROVE  PInv'
  <2>1. /\ pinged' \in Int
        /\ arrived' \in {arrived, <<>>}
        /\ link' = "up" => link = "up" /\ arrived' = arrived
        /\ connectStatus' # "MQTTNotConnected" => connectStatus # "MQTTNotConnected"
        /\ connectStatus # "MQTTNotConnected" /\ link' = "up" =>
             Matched(waits, pinged', buffer \o arrived)
    BY <1>3, KeepAliveKeepsMatched
  <2>2. pc' = "disconnect"
    BY <1>3 DEF LoopEnds
  <2> QED BY <2>1, <2>2, <1>1, <1>3 DEF PInv
<1> QED BY <1>2, <1>3 DEF NothingArrives

LEMMA ProcessLoopKeepsPings == PInv /\ MQTT_ProcessLoop => PInv'
<1> SUFFICES ASSUME PInv, MQTT_ProcessLoop PROVE PInv'
  OBVIOUS
<1>1. CASE RecvFails
  <2>1. /\ UNCHANGED <<buffer, arrived, link, pinged, waitingForPingResp>>
        /\ pc' = "disconnect"
        /\ connectStatus' # "MQTTNotConnected" => connectStatus # "MQTTNotConnected"
    BY <1>1 DEF RecvFails, LoopEnds, keepAliveVars
  <2> QED BY <2>1, NothingHappens
<1>2. CASE PacketsArrive
  BY <1>2, ArrivalsKeepPings DEF MQTT_ProcessLoop
<1>3. CASE NothingArrives
  BY <1>3, SilenceKeepsPings DEF MQTT_ProcessLoop
<1> QED BY <1>1, <1>2, <1>3 DEF MQTT_ProcessLoop

LEMMA FailingLeavesNoPings ==
  ASSUME PInv, CloseAndRetry, UNCHANGED <<connectStatus, buffer, keepAliveVars>>,
         connectStatus = "MQTTNotConnected"
  PROVE  PInv'
BY StartingAgain DEF CloseAndRetry, keepAliveVars

LEMMA ConnectingKeepsPings ==
  PInv /\ (CloseLeftover \/ OpenSocket \/ ConnectSocket \/ ConnectFails) => PInv'
<1> SUFFICES ASSUME PInv, CloseLeftover \/ OpenSocket \/ ConnectSocket \/ ConnectFails
             PROVE PInv'
  OBVIOUS
<1>1. /\ pc \in {"top", "socket", "resolve", "connack"}
      /\ connectStatus = "MQTTNotConnected"
  BY DEF PInv, CloseLeftover, OpenSocket, ConnectSocket, ConnectFails
<1>2. CASE CloseLeftover \/ OpenSocket
  <2>1. UNCHANGED <<buffer, arrived, link, pinged, waitingForPingResp, connectStatus>>
    BY <1>2 DEF CloseLeftover, OpenSocket, keepAliveVars, peerVars
  <2> QED BY <2>1, <1>1, NothingHappens
<1>3. CASE CloseAndRetry /\ UNCHANGED <<connectStatus, buffer, keepAliveVars>>
  BY <1>1, <1>3, FailingLeavesNoPings
<1>4. CASE ConnectSocket /\ ~CloseAndRetry
  <2>1. /\ UNCHANGED <<buffer, arrived, pinged, waitingForPingResp, connectStatus>>
        /\ pc' = "connack"
    BY <1>4 DEF ConnectSocket, keepAliveVars, peerVars, Now
  <2> QED BY <2>1, <1>1 DEF PInv
<1> QED
  BY <1>2, <1>3, <1>4 DEF ConnectSocket, ConnectFails

\* The buffer is emptied; nothing has arrived yet.
LEMMA ConnackKeepsPings == PInv /\ ConnectSucceeds => PInv'
<1> SUFFICES ASSUME PInv, ConnectSucceeds PROVE PInv'
  OBVIOUS
<1>1. /\ buffer' = <<>> /\ arrived' = <<>> /\ pinged' = 0
      /\ waitingForPingResp' = FALSE /\ pc' = "process"
  BY DEF ConnectSucceeds, PInv, peerVars, Now
<1>2. <<>> \in Seq(Kind) /\ Len(<<>>) <= BufferPackets
  BY ClientTaskAssumption DEF ClientTaskAssumption
<1>3. AnswersIn(<<>> \o <<>>) = {}
  BY DEF AnswersIn
<1>4. Matched(waitingForPingResp', pinged', buffer' \o arrived')
  BY <1>1, <1>3 DEF Matched
<1>5. waitingForPingResp' \in BOOLEAN
  BY <1>1
<1> QED BY <1>1, <1>2, <1>4, <1>5 DEF PInv

LEMMA EndingKeepsPings == PInv /\ (MQTT_Disconnect \/ CloseSocket) => PInv'
<1> SUFFICES ASSUME PInv, MQTT_Disconnect \/ CloseSocket PROVE PInv'
  OBVIOUS
<1>1. CASE MQTT_Disconnect
  <2>1. /\ connectStatus' = "MQTTNotConnected" /\ buffer' = <<>> /\ pc' = "close"
        /\ UNCHANGED <<pinged, waitingForPingResp>>
    BY <1>1 DEF MQTT_Disconnect, keepAliveVars, Now
  <2>2. arrived' \in {arrived, <<>>}
    BY <1>1, SendLosesOrKeeps DEF MQTT_Disconnect
  <2>3. <<>> \in Seq(Kind) /\ Len(<<>>) <= BufferPackets
    BY ClientTaskAssumption DEF ClientTaskAssumption
  <2> QED BY <2>1, <2>2, <2>3 DEF PInv
<1>2. CASE CloseSocket
  <2>1. /\ LinkIsGone /\ UNCHANGED <<buffer, waitingForPingResp, connectStatus>>
        /\ pc = "close"
    BY <1>2 DEF CloseSocket, keepAliveVars
  <2>2. connectStatus = "MQTTNotConnected"
    BY <2>1 DEF PInv
  <2> QED BY <2>1, <2>2, StartingAgain
<1> QED BY <1>1, <1>2

LEMMA StepKeepsPings == PInv /\ [Next]_vars => PInv'
<1> SUFFICES ASSUME PInv, [Next]_vars PROVE PInv'
  OBVIOUS
<1>1. CASE CloseLeftover \/ OpenSocket \/ ConnectSocket \/ ConnectFails
  BY <1>1, ConnectingKeepsPings
<1>2. CASE ConnectSucceeds
  BY <1>2, ConnackKeepsPings
<1>3. CASE MQTT_ProcessLoop
  BY <1>3, ProcessLoopKeepsPings
<1>4. CASE MQTT_Disconnect \/ CloseSocket
  BY <1>4, EndingKeepsPings
<1>5. CASE BrokerPublishes
  BY <1>5, PublishArrives
<1>6. CASE BrokerAnswersPing
  BY <1>6, AnswerArrives
<1>7. CASE LinkEnds
  <2>1. /\ UNCHANGED <<pc, buffer, pinged, waitingForPingResp, connectStatus>>
        /\ link' # "up" /\ arrived' \in {arrived, <<>>}
    BY <1>7 DEF LinkEnds, keepAliveVars, taskVars
  <2>2. connectStatus # "MQTTNotConnected" => pc \in {"process", "disconnect"}
    BY DEF PInv
  <2> QED BY <2>1, <2>2, NothingHappens
<1>8. CASE PublisherSends
  <2>1. PICK ok \in BOOLEAN : Send(ok)
    BY <1>8 DEF PublisherSends
  <2>2. /\ UNCHANGED <<pc, buffer, pinged, waitingForPingResp>>
        /\ connectStatus = "MQTTConnected"
    BY <1>8 DEF PublisherSends, keepAliveVars, taskVars
  <2>3. /\ arrived' \in {arrived, <<>>}
        /\ link' = "up" => link = "up" /\ arrived' = arrived
    BY <2>1, SendOnLiveLink, SendLosesOrKeeps
  <2>4. connectStatus # "MQTTNotConnected" => pc \in {"process", "disconnect"}
    BY DEF PInv
  <2> QED BY <2>2, <2>3, <2>4, NothingHappens
<1>9. CASE Tick \/ OtherFiles \/ UNCHANGED vars
  <2>1. UNCHANGED <<pc, buffer, arrived, pinged, waitingForPingResp, connectStatus, link>>
    BY <1>9 DEF Tick, OtherFiles, vars, keepAliveVars, taskVars, peerVars
  <2>2. connectStatus # "MQTTNotConnected" => pc \in {"process", "disconnect"}
    BY DEF PInv
  <2> QED BY <2>1, <2>2, NothingHappens
<1> QED
  BY <1>1, <1>2, <1>3, <1>4, <1>5, <1>6, <1>7, <1>8, <1>9 DEF Next, Task

\* Over all connections, however they end: a client that waits for PINGRESP has one
\* PINGREQ or one answer under way, and one that does not wait has none.
THEOREM PingsAreMatchedAlways == Spec => []PingsAreMatched
<1>1. PInv => PingsAreMatched
  BY DEF PInv, PingsAreMatched, Matched, Answers, AnswersIn
<1> QED BY <1>1, InitHasNoPings, StepKeepsPings, PTL DEF Spec

------------------------------------------------------------------------------
(***************************************************************************)
(* The patience of the broker.                                             *)
(***************************************************************************)
Connecting == {"top", "socket", "resolve"}

\* Neither limit is the 0 that turns PINGREQ off.
KeepAliveIsOn == PACKET_TX_TIMEOUT_MS # 0 /\ MQTT_KEEP_ALIVE # 0

\* While the link is up the client knows how long the broker has heard nothing:
\* it is the time since the last send, which the clock has not come round in.
\* It is not longer than PACKET_TX_TIMEOUT_MS when recv comes back with nothing,
\* because then a PINGREQ is sent or one was sent not long ago.
BInv ==
  /\ unheard \in 0..(BrokerPatience + 1)
  /\ sinceEmpty \in 0..(BrokerPatience + 1)
  /\ sinceTx \in 0..(TimeWrap - 1) /\ sincePing \in 0..(TimeWrap - 1)
  /\ pc \in Connecting => link = "down" /\ unheard = 0 /\ sinceEmpty = 0
  /\ link = "up" => sinceTx = unheard
  /\ pc = "connack" /\ link = "up" => unheard <= sinceEmpty
  /\ pc = "process" /\ link = "up" /\ waitingForPingResp => unheard <= sincePing
  /\ pc = "process" /\ link = "up" /\ transport = "polling" =>
       unheard <= sinceEmpty + PACKET_TX_TIMEOUT_MS

LEMMA TimesAreNumbers ==
  /\ BrokerPatience \in Nat /\ TimeWrap \in Nat /\ BrokerPatience + 1 < TimeWrap
  /\ PACKET_TX_TIMEOUT_MS \in Nat /\ MQTT_PINGRESP_TIMEOUT_MS \in Nat
  /\ MQTT_KEEP_ALIVE \in Nat
<1>1. /\ TimeWrap \in Nat /\ BrokerPatience + 1 < TimeWrap
      /\ PACKET_TX_TIMEOUT_MS \in Nat /\ MQTT_PINGRESP_TIMEOUT_MS \in Nat
      /\ MQTT_KEEP_ALIVE \in Nat
  BY ClientTaskAssumption DEF ClientTaskAssumption
<1>2. BrokerPatience \in Nat
  BY <1>1 DEF BrokerPatience
<1> QED BY <1>1, <1>2

LEMMA ElapsedGrows ==
  ASSUME NEW since \in 0..(TimeWrap - 1)
  PROVE  /\ Elapsed(since) \in 0..(TimeWrap - 1)
         /\ since + 1 < TimeWrap => Elapsed(since) = since + 1
<1>1. TimeWrap \in Nat /\ TimeWrap > 0
  BY TimesAreNumbers
<1> QED BY <1>1 DEF Elapsed

LEMMA LongerGrows ==
  ASSUME NEW ticks \in 0..(BrokerPatience + 1)
  PROVE  /\ Longer(ticks) \in 0..(BrokerPatience + 1)
         /\ Longer(ticks) \in {ticks + 1, BrokerPatience + 1}
         /\ ticks <= BrokerPatience => Longer(ticks) = ticks + 1
<1>1. BrokerPatience + 1 \in Int /\ ticks + 1 \in Int /\ BrokerPatience \in Nat
  BY TimesAreNumbers
<1>2. LET least == Min({ticks + 1, BrokerPatience + 1})
      IN  /\ least \in {ticks + 1, BrokerPatience + 1}
          /\ least <= ticks + 1 /\ least <= BrokerPatience + 1
  BY <1>1, SmallerOfTwo, Zenon
<1> QED BY <1>1, <1>2 DEF Longer

LEMMA InitIsPatient == Init => BInv
BY TimesAreNumbers DEF Init, BInv, Connecting

\* A send that succeeds while the link is up reaches the broker.
LEMMA SendIsHeard ==
  ASSUME BInv, NEW ok \in BOOLEAN, Send(ok), sinceTx' = IF ok THEN 0 ELSE sinceTx
  PROVE  /\ unheard' \in {0, unheard} /\ sinceTx' \in {0, sinceTx}
         /\ link' = "up" => link = "up" /\ ok /\ unheard' = 0 /\ sinceTx' = 0
         /\ link = "down" => link' = "down"
BY DEF Send

\* A step in which no time passes, and what the broker has heard stays.
LEMMA NoTimeKeepsIt ==
  ASSUME BInv, UNCHANGED <<unheard, sinceEmpty, sinceTx, sincePing, transport>>,
         link' = "up" => link = "up",
         pc' \in Connecting => UNCHANGED <<pc, link>>,
         pc' = "connack" => pc = "connack",
         pc' = "process" => pc = "process",
         pc' = "process" /\ waitingForPingResp' => waitingForPingResp
  PROVE  BInv'
BY DEF BInv

\* The task has closed its socket.
LEMMA LinkIsGoneKeepsIt ==
  ASSUME BInv, LinkIsGone, pc' \in Connecting, UNCHANGED <<sinceTx, sincePing>>
  PROVE  BInv'
BY TimesAreNumbers DEF BInv, LinkIsGone, Connecting

LEMMA TickKeepsIt == BInv /\ Tick => BInv'
<1> SUFFICES ASSUME BInv, Tick PROVE BInv'
  OBVIOUS
<1>1. /\ unheard \in 0..(BrokerPatience + 1)
      /\ sinceEmpty \in 0..(BrokerPatience + 1)
      /\ sinceTx \in 0..(TimeWrap - 1) /\ sincePing \in 0..(TimeWrap - 1)
  BY DEF BInv
<1>2. /\ link' = link /\ pc' = pc /\ transport' = transport
      /\ waitingForPingResp' = waitingForPingResp
      /\ sinceTx' = Elapsed(sinceTx) /\ sincePing' = Elapsed(sincePing)
  BY DEF Tick, taskVars
<1>3. sinceTx' \in 0..(TimeWrap - 1) /\ sincePing' \in 0..(TimeWrap - 1)
  BY <1>1, <1>2, ElapsedGrows
<1>4. CASE link = "up"
  <2>1. unheard <= BrokerPatience
    BY <1>4 DEF Tick
  <2>2. unheard' = unheard + 1
    BY <1>1, <1>4, <2>1, LongerGrows DEF Tick
  <2>3. sinceTx' = sinceTx + 1
    <3>1. sinceTx + 1 < TimeWrap
      BY <1>1, <1>4, <2>1, TimesAreNumbers DEF BInv
    <3> QED BY <1>1, <1>2, <3>1, ElapsedGrows
  <2>4. /\ sinceEmpty' \in 0..(BrokerPatience + 1)
        /\ sinceEmpty' \in {sinceEmpty + 1, BrokerPatience + 1}
    BY <1>1, <1>4, LongerGrows DEF Tick
  <2>5. pc = "process" /\ waitingForPingResp => sincePing' = sincePing + 1
    <3> SUFFICES ASSUME pc = "process", waitingForPingResp
                 PROVE  sincePing' = sincePing + 1
      OBVIOUS
    <3>1. sincePing + 1 < TimeWrap
      BY <1>1, <1>4, TimesAreNumbers DEF Tick
    <3> QED BY <1>1, <1>2, <3>1, ElapsedGrows
  <2>6. unheard' \in 0..(BrokerPatience + 1) /\ sinceTx' = unheard'
    BY <1>1, <1>4, <2>1, <2>2, <2>3, TimesAreNumbers DEF BInv
  <2>7. pc' \notin Connecting
    BY <1>2, <1>4 DEF BInv
  <2>8. pc = "connack" => unheard' <= sinceEmpty'
    <3>1. pc = "connack" => unheard <= sinceEmpty
      BY <1>4 DEF BInv
    <3> QED BY <1>1, <2>1, <2>2, <2>4, <3>1, TimesAreNumbers
  <2>9. pc = "process" /\ waitingForPingResp => unheard' <= sincePing'
    <3>1. pc = "process" /\ waitingForPingResp => unheard <= sincePing
      BY <1>4 DEF BInv
    <3> QED BY <1>1, <2>2, <2>5, <3>1
  <2>10. pc = "process" /\ transport = "polling" =>
           unheard' <= sinceEmpty' + PACKET_TX_TIMEOUT_MS
    <3>1. pc = "process" /\ transport = "polling" =>
            unheard <= sinceEmpty + PACKET_TX_TIMEOUT_MS
      BY <1>4 DEF BInv
    <3>2. PACKET_TX_TIMEOUT_MS \in Nat /\ BrokerPatience \in Nat
      BY TimesAreNumbers
    <3>3. CASE sinceEmpty' = sinceEmpty + 1
      BY <1>1, <2>2, <3>1, <3>2, <3>3
    <3>4. CASE sinceEmpty' = BrokerPatience + 1
      BY <1>1, <2>1, <2>2, <3>2, <3>4
    <3> QED BY <2>4, <3>3, <3>4
  <2> QED BY <1>2, <1>3, <2>4, <2>6, <2>7, <2>8, <2>9, <2>10 DEF BInv
<1>5. CASE link # "up"
  <2>1. unheard' = unheard /\ sinceEmpty' = sinceEmpty
    BY <1>5 DEF Tick
  <2> QED BY <1>1, <1>2, <1>3, <1>5, <2>1 DEF BInv
<1> QED BY <1>4, <1>5

\* When recv brings nothing and keep-alive goes on, either a PINGREQ has been
\* sent, or the last send was not long ago.
LEMMA KeepAliveIsHeard ==
  ASSUME MQTT_PINGRESP_TIMEOUT_MS <= PACKET_TX_TIMEOUT_MS, KeepAliveIsOn,
         BInv, pc = "process", NEW waits \in BOOLEAN,
         handleKeepAlive("MQTTSuccess", waits), link' = "up"
  PROVE  /\ link = "up"
         /\ unheard' \in 0..(BrokerPatience + 1) /\ sinceTx' = unheard'
         /\ sinceTx' \in 0..(TimeWrap - 1) /\ sincePing' \in 0..(TimeWrap - 1)
         /\ unheard' <= PACKET_TX_TIMEOUT_MS
         /\ waits => unheard' <= sincePing'
<1>1. CASE PingDue(waitingForPingResp)
  <2>1. MQTT_Ping("MQTTSuccess", waits)
    BY <1>1 DEF handleKeepAlive
  <2>2. Send(TRUE) /\ sinceTx' = 0 /\ sincePing' = 0
    BY <2>1 DEF MQTT_Ping
  <2>3. link = "up" /\ unheard' = 0
    BY <2>2 DEF Send
  <2> QED BY <2>2, <2>3, TimesAreNumbers
<1>2. CASE ~PingDue(waitingForPingResp)
  <2>1. /\ ~(waitingForPingResp /\ PingRespOverdue)
        /\ waits = waitingForPingResp
        /\ UNCHANGED <<link, unheard, sinceTx, sincePing>>
    BY <1>2 DEF handleKeepAlive
  <2>2. /\ link = "up" /\ sinceTx = unheard
        /\ unheard \in 0..(BrokerPatience + 1)
        /\ sinceTx \in 0..(TimeWrap - 1) /\ sincePing \in 0..(TimeWrap - 1)
        /\ waitingForPingResp => unheard <= sincePing
    BY <2>1 DEF BInv
  <2>3. CASE waitingForPingResp
    <3>1. sincePing <= MQTT_PINGRESP_TIMEOUT_MS
      BY <2>1, <2>2, <2>3, TimesAreNumbers DEF PingRespOverdue
    <3> QED BY <2>1, <2>2, <2>3, <3>1, TimesAreNumbers
  <2>4. CASE ~waitingForPingResp
    <3>1. ~TxOverdue(sinceTx)
      BY <1>2, <2>4 DEF PingDue
    <3>2. LET least == Min({PACKET_TX_TIMEOUT_MS, MQTT_KEEP_ALIVE})
          IN  /\ least \in {PACKET_TX_TIMEOUT_MS, MQTT_KEEP_ALIVE}
              /\ least <= PACKET_TX_TIMEOUT_MS
      <4>1. PACKET_TX_TIMEOUT_MS \in Int /\ MQTT_KEEP_ALIVE \in Int
        BY TimesAreNumbers
      <4> QED BY <4>1, SmallerOfTwo
    <3>3. sinceTx <= PACKET_TX_TIMEOUT_MS
      BY <2>2, <3>1, <3>2, TimesAreNumbers DEF TxOverdue, KeepAliveIsOn
    <3> QED BY <2>1, <2>2, <2>4, <3>3
  <2> QED BY <2>3, <2>4
<1> QED BY <1>1, <1>2

\* Whatever comes of the keep-alive, the times are as far as the last send.
LEMMA KeepAliveTimes ==
  ASSUME BInv, NEW status, NEW waits \in BOOLEAN, handleKeepAlive(status, waits)
  PROVE  /\ unheard' \in 0..(BrokerPatience + 1)
         /\ sinceTx' \in 0..(TimeWrap - 1) /\ sincePing' \in 0..(TimeWrap - 1)
         /\ link' = "up" => sinceTx' = unheard'
<1>1. /\ unheard \in 0..(BrokerPatience + 1)
      /\ sinceTx \in 0..(TimeWrap - 1) /\ sincePing \in 0..(TimeWrap - 1)
      /\ link = "up" => sinceTx = unheard
  BY DEF BInv
<1>2. CASE UNCHANGED <<link, unheard, sinceTx, sincePing>>
  BY <1>1, <1>2
<1>3. CASE Send(TRUE) /\ sinceTx' = 0 /\ sincePing' = 0
  BY <1>1, <1>3, TimesAreNumbers DEF Send
<1>4. CASE Send(FALSE) /\ UNCHANGED <<sinceTx, sincePing>>
  BY <1>1, <1>4 DEF Send
<1> QED BY <1>2, <1>3, <1>4 DEF handleKeepAlive, MQTT_Ping

LEMMA ProcessLoopIsPatient ==
  ASSUME MQTT_PINGRESP_TIMEOUT_MS <= PACKET_TX_TIMEOUT_MS, KeepAliveIsOn,
         BInv, MQTT_ProcessLoop
  PROVE  BInv'
<1>1. pc = "process" /\ transport' = transport
  BY DEF MQTT_ProcessLoop
<1>2. CASE RecvFails
  BY <1>1, <1>2, NoTimeKeepsIt DEF RecvFails, LoopEnds, keepAliveVars, Connecting
<1>3. CASE PacketsArrive
  <2>1. /\ UNCHANGED <<link, unheard, sinceTx, sincePing, sinceEmpty>>
        /\ pc' = "process" /\ waitingForPingResp' => waitingForPingResp
    BY <1>3 DEF PacketsArrive, HandleFirst, LoopGoesOn
  <2>2. pc' = "process"
    BY <1>3 DEF PacketsArrive, HandleFirst, LoopGoesOn
  <2> QED BY <1>1, <2>1, <2>2, NoTimeKeepsIt DEF Connecting
<1>4. ASSUME NEW waits \in BOOLEAN, sinceEmpty' = 0,
             handleKeepAlive("MQTTSuccess", waits), HandleFirst(buffer, waits)
      PROVE  BInv'
  <2>1. pc' = "process" /\ (waitingForPingResp' => waits)
    BY <1>4 DEF HandleFirst, LoopGoesOn
  <2>2. sinceEmpty' \in 0..(BrokerPatience + 1)
    BY <1>4, TimesAreNumbers
  <2>3. /\ unheard' \in 0..(BrokerPatience + 1)
        /\ sinceTx' \in 0..(TimeWrap - 1) /\ sincePing' \in 0..(TimeWrap - 1)
    BY <1>4, KeepAliveTimes
  <2>4. CASE link' = "up"
    <3>1. /\ sinceTx' = unheard' /\ unheard' <= PACKET_TX_TIMEOUT_MS
          /\ waits => unheard' <= sincePing'
      BY <1>1, <1>4, <2>4, KeepAliveIsHeard
    <3> QED BY <1>4, <2>1, <2>2, <2>3, <3>1, TimesAreNumbers DEF BInv, Connecting
  <2>5. CASE link' # "up"
    BY <2>1, <2>2, <2>3, <2>5 DEF BInv, Connecting
  <2> QED BY <2>4, <2>5
<1>5. ASSUME NEW waits \in BOOLEAN, NEW status, sinceEmpty' = 0,
             handleKeepAlive(status, waits), LoopEnds
      PROVE  BInv'
  <2>1. pc' = "disconnect"
    BY <1>5 DEF LoopEnds
  <2>2. sinceEmpty' \in 0..(BrokerPatience + 1)
    BY <1>5, TimesAreNumbers
  <2>3. /\ unheard' \in 0..(BrokerPatience + 1)
        /\ sinceTx' \in 0..(TimeWrap - 1) /\ sincePing' \in 0..(TimeWrap - 1)
        /\ link' = "up" => sinceTx' = unheard'
    BY <1>5, KeepAliveTimes
  <2> QED BY <2>1, <2>2, <2>3 DEF BInv, Connecting
<1>6. CASE NothingArrives
  BY <1>4, <1>5, <1>6 DEF NothingArrives
<1> QED BY <1>2, <1>3, <1>6 DEF MQTT_ProcessLoop

LEMMA StepIsPatient ==
  ASSUME MQTT_PINGRESP_TIMEOUT_MS <= PACKET_TX_TIMEOUT_MS, KeepAliveIsOn,
         BInv, [Next]_vars
  PROVE  BInv'
<1>1. CASE CloseLeftover
  BY <1>1 DEF CloseLeftover, BInv, Connecting, keepAliveVars, taskVars
<1>2. CASE OpenSocket
  BY <1>2 DEF OpenSocket, Now, Retry, BInv, Connecting, keepAliveVars
<1>3. CASE ConnectSocket
  <2>1. CASE CloseAndRetry /\ UNCHANGED sinceTx
    BY <1>3, <2>1, LinkIsGoneKeepsIt
    DEF ConnectSocket, CloseAndRetry, Retry, Connecting, keepAliveVars
  <2>2. CASE /\ pc' = "connack" /\ link' = "up" /\ sinceTx' = 0
             /\ UNCHANGED <<unheard, sinceEmpty>>
    <3>1. unheard = 0 /\ sinceEmpty = 0 /\ UNCHANGED <<sincePing, transport>>
      BY <1>3 DEF ConnectSocket, BInv, Connecting, keepAliveVars
    <3> QED BY <2>2, <3>1, TimesAreNumbers DEF BInv, Connecting
  <2> QED BY <1>3, <2>1, <2>2 DEF ConnectSocket, Now
<1>4. CASE ConnectSucceeds
  <2>1. /\ pc = "connack" /\ pc' = "process"
        /\ waitingForPingResp' = FALSE /\ sincePing' = 0
        /\ UNCHANGED <<link, unheard, sinceEmpty, sinceTx, transport>>
    BY <1>4 DEF ConnectSucceeds, Now
  <2> QED BY <2>1, TimesAreNumbers DEF BInv, Connecting
<1>5. CASE ConnectFails
  BY <1>5, LinkIsGoneKeepsIt
  DEF ConnectFails, CloseAndRetry, Retry, Connecting, keepAliveVars
<1>6. CASE MQTT_ProcessLoop
  BY <1>6, ProcessLoopIsPatient
<1>7. CASE MQTT_Disconnect
  <2>1. PICK ok \in BOOLEAN : Send(ok) /\ sinceTx' = IF ok THEN 0 ELSE sinceTx
    BY <1>7 DEF MQTT_Disconnect
  <2>2. /\ unheard' \in {0, unheard} /\ sinceTx' \in {0, sinceTx}
        /\ link' = "up" => unheard' = 0 /\ sinceTx' = 0
    BY <2>1, SendIsHeard
  <2>3. pc' = "close" /\ UNCHANGED <<sincePing, sinceEmpty, transport>>
    BY <1>7 DEF MQTT_Disconnect, Now, keepAliveVars
  <2> QED BY <2>2, <2>3, TimesAreNumbers DEF BInv, Connecting
<1>8. CASE CloseSocket
  BY <1>8, LinkIsGoneKeepsIt DEF CloseSocket, Connecting, keepAliveVars
<1>9. CASE Tick
  BY <1>9, TickKeepsIt
<1>10. CASE PublisherSends
  <2>1. PICK ok \in BOOLEAN : Send(ok) /\ sinceTx' = IF ok THEN 0 ELSE sinceTx
    BY <1>10 DEF PublisherSends
  <2>2. /\ unheard' \in {0, unheard} /\ sinceTx' \in {0, sinceTx}
        /\ link' = "up" => link = "up" /\ unheard' = 0 /\ sinceTx' = 0
        /\ link = "down" => link' = "down"
    BY <2>1, SendIsHeard
  <2>3. link = "down" => unheard' = unheard
    BY <2>1 DEF Send
  <2>4. UNCHANGED <<pc, waitingForPingResp, sincePing, sinceEmpty, transport>>
    BY <1>10 DEF PublisherSends, taskVars, keepAliveVars
  <2> QED BY <2>2, <2>3, <2>4, TimesAreNumbers DEF BInv, Connecting
<1>11. CASE OtherFiles \/ BrokerPublishes \/ BrokerAnswersPing \/ LinkEnds \/ UNCHANGED vars
  BY <1>11, NoTimeKeepsIt
  DEF OtherFiles, BrokerPublishes, BrokerAnswersPing, LinkEnds, Arrives, vars,
      taskVars, keepAliveVars, peerVars, BInv, Connecting
<1> QED
  BY <1>1, <1>2, <1>3, <1>4, <1>5, <1>6, <1>7, <1>8, <1>9, <1>10, <1>11
  DEF Next, Task

\* When recv polls, keep-alive is not turned off, and the wait for a PINGRESP is
\* no longer than the silence that makes the client send a PINGREQ, it is heard within one and a
\* half keep-alive periods (handleKeepAlive), whatever other threads publish and
\* however the clock comes round.
THEOREM BrokerStaysPatientAlways ==
  ASSUME MQTT_PINGRESP_TIMEOUT_MS <= PACKET_TX_TIMEOUT_MS, KeepAliveIsOn
  PROVE  Spec => []BrokerStaysPatient
<1> DEFINE Known == transport \in {"polling", "blocking"}
<1>1. BInv /\ Known => BrokerStaysPatient
  <2> SUFFICES ASSUME BInv, pc = "process", link = "up", unheard > BrokerPatience,
                      transport = "polling"
               PROVE  sinceEmpty > BrokerPatience - PACKET_TX_TIMEOUT_MS
    BY DEF BrokerStaysPatient
  <2>1. /\ unheard \in 0..(BrokerPatience + 1)
        /\ sinceEmpty \in 0..(BrokerPatience + 1)
        /\ unheard <= sinceEmpty + PACKET_TX_TIMEOUT_MS
    BY DEF BInv
  <2> QED BY <2>1, TimesAreNumbers
<1>2. Init => Known
  BY DEF Init
<1>3. [Next]_vars => UNCHANGED transport
  BY DEF Next, Task, vars, CloseLeftover, OpenSocket, ConnectSocket, ConnectSucceeds,
         ConnectFails, MQTT_ProcessLoop, MQTT_Disconnect, CloseSocket, Tick,
         PublisherSends, OtherFiles, BrokerPublishes, BrokerAnswersPing, LinkEnds
<1>4. Known /\ [Next]_vars => Known'
  BY <1>3
<1>5. BInv /\ [Next]_vars => BInv'
  BY MQTT_PINGRESP_TIMEOUT_MS <= PACKET_TX_TIMEOUT_MS, KeepAliveIsOn, StepIsPatient
<1> HIDE DEF Known
<1> QED BY <1>1, <1>2, <1>4, <1>5, InitIsPatient, PTL DEF Spec
=============================================================================
