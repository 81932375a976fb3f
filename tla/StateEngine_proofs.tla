------------------------- MODULE StateEngine_proofs -------------------------
(***************************************************************************)
(* Proofs about StateEngine, for every set of packet identifiers and every *)
(* size of the two tables.                                                 *)
(*                                                                         *)
(* The inductive invariant is IInv: each table holds one record at most    *)
(* per identifier, and a record only in a state of its QoS and direction.  *)
(* From it follow what the tables promise, what the resend cursor returns, *)
(* and that each table implements the abstract protocol of InFlight.       *)
(***************************************************************************)
EXTENDS StateEngine, PublishRecords_proofs

IInv ==
  /\ Good(outgoing, OutgoingPublishCount, OutgoingFlights)
  /\ Good(incoming, IncomingPublishCount, IncomingFlights)
  /\ result \in [call : Calls, status : Statuses]

-----------------------------------------------------------------------------
(* The inductive invariant.                                                *)

LEMMA InitIInv == Init => IInv
  BY EmptyTableGood, CountAssumption
  DEF Init, IInv, Calls, Statuses

\* Every call keeps both tables good and returns one of the statuses.
LEMMA NextIInv == IInv /\ [Next]_vars => IInv'
  <1> SUFFICES ASSUME IInv, [Next]_vars
               PROVE  IInv'
    OBVIOUS
  <1> USE CountAssumption
  <1>1. ASSUME NEW id \in AnyPacketId, NEW qos \in MQTTQoS,
               ReserveState(id, qos)
        PROVE  IInv'
    <2>1. CASE Returned("ReserveState", "Success")
      BY <2>1 DEF IInv, Returned, Returns, Calls, Statuses
    <2>2. CASE Returned("ReserveState", "BadParameter")
      BY <2>2 DEF IInv, Returned, Returns, Calls, Statuses
    <2>3. CASE /\ qos # 0
               /\ id # MQTT_PACKET_ID_INVALID
               /\ outgoing' =
                    AddRecord(outgoing, id, qos, "PublishSend").records
               /\ Returns("ReserveState",
                    AddRecord(outgoing, id, qos, "PublishSend").status)
               /\ UNCHANGED incoming
      <3>1. /\ id \in PacketIds
            /\ [qos |-> qos, state |-> "PublishSend"] \in OutgoingFlights
            /\ "PublishSend" \in MQTTPublishState
        BY <2>3 DEF AnyPacketId, MQTTQoS, OutgoingFlights, At,
                    MQTTPublishState, OutgoingStates
      <3>2. /\ Good(AddRecord(outgoing, id, qos, "PublishSend").records,
                    OutgoingPublishCount, OutgoingFlights)
            /\ AddRecord(outgoing, id, qos, "PublishSend").status
                 \in Statuses
        BY <3>1, AddRecordGood DEF IInv
      <3> QED
        BY <2>3, <3>2 DEF IInv, Returns, Calls
    <2> QED
      BY <1>1, <2>1, <2>2, <2>3 DEF ReserveState
  <1>2. ASSUME NEW id \in AnyPacketId, NEW opType \in {"SEND", "RECEIVE"},
               NEW qos \in MQTTQoS, UpdateStatePublish(id, opType, qos)
        PROVE  IInv'
    <2>1. CASE Returned("UpdateStatePublish", "Success")
      BY <2>1 DEF IInv, Returned, Returns, Calls, Statuses
    <2>2. CASE Returned("UpdateStatePublish", "BadParameter")
      BY <2>2 DEF IInv, Returned, Returns, Calls, Statuses
    <2>3. CASE /\ qos # 0
               /\ id # MQTT_PACKET_ID_INVALID
               /\ outgoing' = UpdateSentPublish(outgoing, id, qos).records
               /\ Returns("UpdateStatePublish",
                          UpdateSentPublish(outgoing, id, qos).status)
               /\ UNCHANGED incoming
      <3>1. id \in PacketIds /\ qos \in {1, 2}
        BY <2>3 DEF AnyPacketId, MQTTQoS
      <3> QED
        BY <2>3, <3>1, UpdateSentPublishGood DEF IInv, Returns, Calls
    <2>4. CASE /\ qos # 0
               /\ id # MQTT_PACKET_ID_INVALID
               /\ incoming' = UpdateReceivedPublish(incoming, id, qos).records
               /\ Returns("UpdateStatePublish",
                          UpdateReceivedPublish(incoming, id, qos).status)
               /\ UNCHANGED outgoing
      <3>1. id \in PacketIds /\ qos \in {1, 2}
        BY <2>4 DEF AnyPacketId, MQTTQoS
      <3> QED
        BY <2>4, <3>1, UpdateReceivedPublishGood DEF IInv, Returns, Calls
    <2> QED
      BY <1>2, <2>1, <2>2, <2>3, <2>4 DEF UpdateStatePublish
  <1>3. ASSUME NEW id \in AnyPacketId, NEW packetType \in MQTTPubAckType,
               NEW opType \in {"SEND", "RECEIVE"},
               UpdateAck(id, packetType, opType)
        PROVE  IInv'
    <2>1. CASE Returned("UpdateStateAck", "BadParameter")
      BY <2>1 DEF IInv, Returned, Returns, Calls, Statuses
    <2>2. CASE id # MQTT_PACKET_ID_INVALID
      <3>1. id \in PacketIds
        BY <2>2 DEF AnyPacketId
      <3>2. LET r == UpdateStateAck(outgoing, id, packetType, opType)
            IN  /\ Good(r.records, OutgoingPublishCount, OutgoingFlights)
                /\ r.status \in Statuses
        BY <3>1, UpdateStateAckGood DEF IInv
      <3>3. LET r == UpdateStateAck(incoming, id, packetType, opType)
            IN  /\ Good(r.records, IncomingPublishCount, IncomingFlights)
                /\ r.status \in Statuses
        BY <3>1, UpdateStateAckGood DEF IInv
      <3> QED
        BY <1>3, <2>2, <3>2, <3>3 DEF UpdateAck, IInv, Returns, Calls
    <2> QED
      BY <1>3, <2>1, <2>2 DEF UpdateAck
  <1>4. ASSUME NEW id \in PacketIds, RemoveRecord(id)
        PROVE  IInv'
    BY <1>4, RemoveStateRecordGood DEF RemoveRecord, IInv, Returns, Calls
  <1>5. CASE CleanSession
    BY <1>5, EmptyTableGood DEF CleanSession, IInv, Returns, Calls, Statuses
  <1>6. CASE UNCHANGED vars
    BY <1>6 DEF vars, IInv
  <1> QED
    BY <1>1, <1>2, <1>3, <1>4, <1>5, <1>6 DEF Next

THEOREM Invariance == Spec => []IInv
  BY InitIInv, NextIInv, PTL DEF Spec

\* The tables hold records of the right shape, and every call returns one of
\* the statuses that core_mqtt_state.c returns.
THEOREM TypeCorrect == Spec => []TypeOK
  <1>1. IInv => TypeOK
    BY DEF IInv, Good, TypeOK
  <1> QED
    BY <1>1, Invariance, PTL

\* A packet identifier has one record at most in each table, so the first
\* match of findInRecord is the only one.
THEOREM UniquePacketIdsHold == Spec => []UniquePacketIds
  <1>1. IInv => UniquePacketIds
    BY DEF IInv, Good, UniquePacketIds
  <1> QED
    BY <1>1, Invariance, PTL

\* No sequence of calls takes a record into a state of another QoS or of the
\* other direction.
THEOREM HandshakeStatesHold == Spec => []HandshakeStates
  <1>1. IInv => HandshakeStates
    BY DEF IInv, Good, HandshakeStates
  <1> QED
    BY <1>1, Invariance, PTL

-----------------------------------------------------------------------------
(* The results about memory.                                               *)

\* What a step can return: an acknowledgement never runs out of memory, and
\* the other calls do only when the table they add to is full.
LEMMA StepStatus ==
  ASSUME IInv, Next
  PROVE  /\ result'.call = "UpdateStateAck" =>
              result'.status \notin {"NoMemory", "StateCollision"}
         /\ result'.status = "NoMemory" =>
              IF result'.call = "ReserveState"
                THEN Full(outgoing) ELSE Full(incoming)
  <1> DEFINE P == /\ result'.call = "UpdateStateAck" =>
                       result'.status \notin {"NoMemory", "StateCollision"}
                  /\ result'.status = "NoMemory" =>
                       IF result'.call = "ReserveState"
                         THEN Full(outgoing) ELSE Full(incoming)
  <1>1. ASSUME NEW id \in AnyPacketId, NEW qos \in MQTTQoS,
               ReserveState(id, qos)
        PROVE  P
    <2>1. CASE \E s \in {"Success", "BadParameter"} :
                 Returned("ReserveState", s)
      BY <2>1 DEF Returned, Returns
    <2>2. CASE Returns("ReserveState",
                       AddRecord(outgoing, id, qos, "PublishSend").status)
      <3>1. DOMAIN outgoing = 1..OutgoingPublishCount
        BY DEF IInv, Good
      <3>2. AddRecord(outgoing, id, qos, "PublishSend").status = "NoMemory"
              => Full(outgoing)
        BY <3>1, AddRecordNoMemory, CountAssumption
      <3> QED
        BY <2>2, <3>2 DEF Returns
    <2> QED
      BY <1>1, <2>1, <2>2 DEF ReserveState
  <1>2. ASSUME NEW id \in AnyPacketId, NEW opType \in {"SEND", "RECEIVE"},
               NEW qos \in MQTTQoS, UpdateStatePublish(id, opType, qos)
        PROVE  P
    <2>1. CASE \E s \in {"Success", "BadParameter"} :
                 Returned("UpdateStatePublish", s)
      BY <2>1 DEF Returned, Returns
    <2>2. CASE Returns("UpdateStatePublish",
                       UpdateSentPublish(outgoing, id, qos).status)
      <3>1. UpdateSentPublish(outgoing, id, qos).status # "NoMemory"
        BY DEF UpdateSentPublish, Unchanged
      <3> QED
        BY <2>2, <3>1 DEF Returns
    <2>3. CASE /\ IncomingPublishCount > 0
               /\ Returns("UpdateStatePublish",
                          UpdateReceivedPublish(incoming, id, qos).status)
      <3> DEFINE new == CalculateStatePublish("RECEIVE", qos)
      <3>1. DOMAIN incoming = 1..IncomingPublishCount
        BY DEF IInv, Good
      <3>2. UpdateReceivedPublish(incoming, id, qos).status =
              AddRecord(incoming, id, qos, new).status
        BY DEF UpdateReceivedPublish
      <3> HIDE DEF new
      <3>3. AddRecord(incoming, id, qos, new).status = "NoMemory"
              => Full(incoming)
        BY <2>3, <3>1, AddRecordNoMemory, CountAssumption
      <3> QED
        BY <2>3, <3>2, <3>3 DEF Returns
    <2> QED
      BY <1>2, <2>1, <2>2, <2>3 DEF UpdateStatePublish
  <1>3. ASSUME NEW id \in AnyPacketId, NEW packetType \in MQTTPubAckType,
               NEW opType \in {"SEND", "RECEIVE"},
               UpdateAck(id, packetType, opType)
        PROVE  P
    <2>1. CASE Returned("UpdateStateAck", "BadParameter")
      BY <2>1 DEF Returned, Returns
    <2>2. CASE /\ id # MQTT_PACKET_ID_INVALID
               /\ \E t \in {outgoing, incoming} :
                    Returns("UpdateStateAck",
                            UpdateStateAck(t, id, packetType, opType).status)
      <3>1. id \in PacketIds
        BY <2>2 DEF AnyPacketId
      <3>2. \A t \in {outgoing, incoming} :
              UpdateStateAck(t, id, packetType, opType).status
                \in {"Success", "IllegalState", "BadResponse"}
        BY <3>1, AckStatus, CountAssumption DEF IInv
      <3> QED
        BY <2>2, <3>2 DEF Returns
    <2> QED
      BY <1>3, <2>1, <2>2 DEF UpdateAck
  <1>4. ASSUME NEW id \in PacketIds, RemoveRecord(id)
        PROVE  P
    BY <1>4 DEF RemoveRecord, RemoveStateRecord, Returns
  <1>5. CASE CleanSession
    BY <1>5 DEF CleanSession, Returns
  <1> QED
    BY <1>1, <1>2, <1>3, <1>4, <1>5 DEF Next

\* updateStateAck, which deletes and adds again the record of a PUBREC, never
\* fails for want of a slot.
THEOREM AckNeverOutOfMemoryHolds == Spec => AckNeverOutOfMemory
  <1>1. IInv /\ [Next]_vars =>
          [result'.call = "UpdateStateAck" =>
             result'.status \notin {"NoMemory", "StateCollision"}]_vars
    BY StepStatus
  <1> QED
    BY <1>1, Invariance, PTL DEF Spec, AckNeverOutOfMemory

\* MQTTNoMemory means that every slot is taken: compaction reclaims every
\* hole.
THEOREM NoMemoryOnlyWhenFullHolds == Spec => NoMemoryOnlyWhenFull
  <1>1. IInv /\ [Next]_vars =>
          [result'.status = "NoMemory" =>
             IF result'.call = "ReserveState"
               THEN Full(outgoing) ELSE Full(incoming)]_vars
    BY StepStatus
  <1> QED
    BY <1>1, Invariance, PTL DEF Spec, NoMemoryOnlyWhenFull

-----------------------------------------------------------------------------
(* The resend cursor: a computation over the table, by induction on the    *)
(* number of slots that the cursor has still before it.                    *)

\* What a function computed backwards from next, until ends, is made of.
Backward(n, ends, item, next, f) ==
  [k \in 0..n |-> IF k \in ends THEN <<>> ELSE <<item[k]>> \o f[next[k]]]

\* A function that is computed from its values at smaller arguments exists.
LEMMA BackwardRecursion ==
  ASSUME NEW n \in Nat, NEW ends, NEW item, NEW next,
         \A k \in 0..n : k \notin ends => next[k] \in 0..(k - 1)
  PROVE  \E f : f = Backward(n, ends, item, next, f)
  <1> DEFINE Computed(f, m) ==
               f = [k \in 0..m |-> IF k \in ends THEN <<>>
                                   ELSE <<item[k]>> \o f[next[k]]]
             Missing == {m \in 0..n : ~ \E f : Computed(f, m)}
  <1> SUFFICES \E f : Computed(f, n)
    BY DEF Backward
  <1>1. CASE Missing = {}
    <2> HIDE DEF Computed
    <2>1. n \notin Missing /\ n \in 0..n
      BY <1>1
    <2> QED
      BY <2>1
  <1>2. CASE Missing # {}
    <2>1. PICK m \in Missing : \A l \in Missing : m <= l
      <3>1. Missing \subseteq Nat
        OBVIOUS
      <3> HIDE DEF Missing
      <3> QED
        BY <1>2, <3>1, LeastElement
    <2>2. m \in 0..n
      OBVIOUS
    <2>3. ASSUME m = 0 PROVE \E f : Computed(f, m)
      <3>1. 0 \in ends
        BY <2>2, <2>3
      <3>2. Computed([k \in 0..0 |-> <<>>], 0)
        BY <3>1
      <3> QED
        BY <2>3, <3>2
    <2>4. ASSUME m > 0 PROVE \E f : Computed(f, m)
      <3>1. m - 1 \in 0..n /\ ~(m <= m - 1)
        BY <2>2, <2>4
      <3>2. PICK g : Computed(g, m - 1)
        <4> HIDE DEF Computed
        <4> QED
          BY <2>1, <3>1
      <3> DEFINE h == [k \in 0..m |->
                         IF k < m THEN g[k]
                         ELSE IF k \in ends THEN <<>>
                              ELSE <<item[k]>> \o g[next[k]]]
      <3>3. ASSUME NEW k \in 0..m
            PROVE  h[k] = IF k \in ends THEN <<>>
                          ELSE <<item[k]>> \o h[next[k]]
        <4>1. CASE k \in ends
          BY <2>2, <3>2, <3>3, <4>1
        <4>2. CASE k \notin ends
          <5>1. next[k] \in 0..(m - 1) /\ next[k] < m /\ k \in 0..n
            BY <2>2, <3>3, <4>2
          <5>2. h[next[k]] = g[next[k]]
            BY <2>2, <5>1
          <5>3. h[k] = <<item[k]>> \o g[next[k]]
            <6>1. CASE k < m
              <7>1. k \in 0..(m - 1) /\ h[k] = g[k]
                BY <2>2, <3>3, <6>1
              <7> QED
                BY <3>2, <4>2, <7>1
            <6>2. CASE k = m
              BY <2>2, <4>2, <6>2
            <6> QED
              BY <2>2, <3>3, <6>1, <6>2
          <5> QED
            BY <4>2, <5>2, <5>3
        <4> QED
          BY <4>1, <4>2
      <3>4. h = [k \in 0..m |-> h[k]]
        OBVIOUS
      <3> HIDE DEF h
      <3>5. Computed(h, m)
        BY <3>3, <3>4
      <3> QED
        BY <3>5
    <2> HIDE DEF Computed
    <2> QED
      BY <2>2, <2>3, <2>4
  <1> QED
    BY <1>1, <1>2

\* What a table gives to a resend loop from slot n - k on.
Gives(r, states, n, k, seq) ==
  /\ seq \in Seq(PacketIds)
  /\ \A i \in DOMAIN seq :
       \E p \in 1..n : /\ p > n - k /\ r[p].publishState \in states
                       /\ r[p].packetId = seq[i]
  /\ \A p \in 1..n :
       p > n - k /\ r[p].publishState \in states =>
         \E i \in DOMAIN seq : seq[i] = r[p].packetId
  /\ \A i, j \in DOMAIN seq :
       i < j => \E p, q \in 1..n : /\ p < q
                                   /\ r[p].packetId = seq[i]
                                   /\ r[q].packetId = seq[j]

\* One record more at the front.
LEMMA GivesOneMore ==
  ASSUME NEW n \in Nat, NEW r, NEW states, NEW k \in 0..n, NEW d \in 1..n,
         d > n - k, r[d].publishState \in states, r[d].packetId \in PacketIds,
         \A p \in 1..n : p > n - k /\ r[p].publishState \in states => d <= p,
         NEW seq, Gives(r, states, n, n - d, seq)
  PROVE  Gives(r, states, n, k, <<r[d].packetId>> \o seq)
  <1> DEFINE all == <<r[d].packetId>> \o seq
  <1>1. /\ seq \in Seq(PacketIds)
        /\ n - (n - d) = d
        /\ \A i \in DOMAIN seq :
             \E p \in 1..n : /\ p > n - (n - d) /\ r[p].publishState \in states
                             /\ r[p].packetId = seq[i]
        /\ \A i, j \in DOMAIN seq :
             i < j => \E p, q \in 1..n : /\ p < q
                                         /\ r[p].packetId = seq[i]
                                         /\ r[q].packetId = seq[j]
    BY DEF Gives
  <1>2. /\ all \in Seq(PacketIds)
        /\ DOMAIN all = 1..(Len(seq) + 1)
        /\ all[1] = r[d].packetId
        /\ \A i \in 2..(Len(seq) + 1) : i - 1 \in DOMAIN seq /\ all[i] = seq[i - 1]
        /\ \A i \in DOMAIN seq : i + 1 \in DOMAIN all /\ all[i + 1] = seq[i]
    BY <1>1
  <1> HIDE DEF all
  <1>3. ASSUME NEW i \in 2..(Len(seq) + 1)
        PROVE  \E p \in 1..n : /\ p > d /\ r[p].publishState \in states
                               /\ r[p].packetId = all[i]
    <2>1. i - 1 \in DOMAIN seq /\ all[i] = seq[i - 1]
      BY <1>2
    <2>2. PICK p \in 1..n : /\ p > n - (n - d) /\ r[p].publishState \in states
                            /\ r[p].packetId = seq[i - 1]
      BY <1>1, <2>1
    <2>3. p > d
      BY <1>1, <2>2
    <2> QED
      BY <2>1, <2>2, <2>3
  <1>4. ASSUME NEW i \in DOMAIN all
        PROVE  \E p \in 1..n : /\ p > n - k /\ r[p].publishState \in states
                               /\ r[p].packetId = all[i]
    <2>1. CASE i = 1
      BY <1>2, <2>1
    <2>2. CASE i # 1
      <3>1. i \in 2..(Len(seq) + 1)
        BY <1>1, <1>2, <2>2
      <3>2. PICK p \in 1..n : /\ p > d /\ r[p].publishState \in states
                              /\ r[p].packetId = all[i]
        BY <1>3, <3>1
      <3>3. p > n - k
        BY <3>2
      <3> QED
        BY <3>2, <3>3
    <2> QED
      BY <2>1, <2>2
  <1>5. ASSUME NEW p \in 1..n, p > n - k, r[p].publishState \in states
        PROVE  \E i \in DOMAIN all : all[i] = r[p].packetId
    <2>1. CASE p = d
      <3>1. 1 \in DOMAIN all
        BY <1>1, <1>2
      <3> QED
        BY <1>2, <2>1, <3>1
    <2>2. CASE p # d
      <3>1. p > d
        BY <1>5, <2>2
      <3>2. PICK i \in DOMAIN seq : seq[i] = r[p].packetId
        BY <1>1, <1>5, <3>1 DEF Gives
      <3> QED
        BY <1>2, <3>2
    <2> QED
      BY <2>1, <2>2
  <1>6. ASSUME NEW i \in DOMAIN all, NEW j \in DOMAIN all, i < j
        PROVE  \E p, q \in 1..n : /\ p < q
                                  /\ r[p].packetId = all[i]
                                  /\ r[q].packetId = all[j]
    <2>1. j \in 2..(Len(seq) + 1)
      BY <1>1, <1>2, <1>6
    <2>2. CASE i = 1
      <3>1. PICK q \in 1..n : q > d /\ r[q].packetId = all[j]
        BY <1>3, <2>1
      <3>2. d < q
        BY <3>1
      <3> QED
        BY <1>2, <2>2, <3>1, <3>2
    <2>3. CASE i # 1
      <3>1. i \in 2..(Len(seq) + 1)
        BY <1>1, <1>2, <2>3
      <3>2. /\ i - 1 \in DOMAIN seq /\ j - 1 \in DOMAIN seq /\ i - 1 < j - 1
            /\ all[i] = seq[i - 1] /\ all[j] = seq[j - 1]
        BY <1>2, <1>6, <2>1, <3>1
      <3> DEFINE a == i - 1
                 b == j - 1
      <3>3. a \in DOMAIN seq /\ b \in DOMAIN seq /\ a < b
            /\ all[i] = seq[a] /\ all[j] = seq[b]
        BY <3>2
      <3> HIDE DEF a, b
      <3>4. \E p, q \in 1..n : /\ p < q /\ r[p].packetId = seq[a]
                               /\ r[q].packetId = seq[b]
        <4>1. \A x, y \in DOMAIN seq :
                x < y => \E p, q \in 1..n : /\ p < q
                                            /\ r[p].packetId = seq[x]
                                            /\ r[q].packetId = seq[y]
          BY <1>1
        <4> QED
          BY <3>3, <4>1
      <3> QED
        BY <3>3, <3>4
    <2> QED
      BY <2>2, <2>3
  <1> QED
    BY <1>2, <1>4, <1>5, <1>6 DEF Gives, all

\* The resend loop as a computation: what it gives from slot n - k on.
LEMMA ResentUnfolds ==
  ASSUME NEW n \in Nat, NEW flights, NEW r, Good(r, n, flights),
         NEW states, "StateNull" \notin states
  PROVE  \E f : /\ Resent(r, states) = f[n]
                /\ \A k \in 0..n :
                     LET s == StateSelect(r, states, n - k)
                     IN  f[k] = IF s.packetId = MQTT_PACKET_ID_INVALID
                                  THEN <<>>
                                  ELSE <<s.packetId>> \o f[n - s.cursor]
  <1> DEFINE Body(f) ==
               [k \in 0..n |->
                  IF StateSelect(r, states, n - k).packetId
                       = MQTT_PACKET_ID_INVALID
                    THEN <<>>
                    ELSE <<StateSelect(r, states, n - k).packetId>>
                           \o f[n - StateSelect(r, states, n - k).cursor]]
             ends == {k \in 0..n : StateSelect(r, states, n - k).packetId
                                     = MQTT_PACKET_ID_INVALID}
             item == [k \in 0..n |-> StateSelect(r, states, n - k).packetId]
             next == [k \in 0..n |-> n - StateSelect(r, states, n - k).cursor]
  <1>1. ASSUME NEW k \in 0..n, k \notin ends
        PROVE  next[k] \in 0..(k - 1)
    <2>1. n - k \in Nat
      OBVIOUS
    <2>2. StateSelect(r, states, n - k).packetId # MQTT_PACKET_ID_INVALID
      BY <1>1
    <2>3. /\ StateSelect(r, states, n - k).cursor \in 1..n
          /\ StateSelect(r, states, n - k).cursor > n - k
      BY <2>1, <2>2, SelectsRecord
    <2> QED
      BY <2>3
  <1>2. \E f : f = Backward(n, ends, item, next, f)
    <2>1. \A k \in 0..n : k \notin ends => next[k] \in 0..(k - 1)
      BY <1>1
    <2> HIDE DEF ends, item, next
    <2> QED
      BY <2>1, BackwardRecursion
  <1>3. ASSUME NEW f
        PROVE  Backward(n, ends, item, next, f) = Body(f)
    BY DEF Backward
  <1>4. \E f : f = Body(f)
    <2> HIDE DEF Body, ends, item, next
    <2> QED
      BY <1>2, <1>3
  <1> DEFINE from == CHOOSE f : f = Body(f)
  <1>5. from = Body(from)
    <2> HIDE DEF Body
    <2> QED
      BY <1>4
  <1>6. Cardinality(DOMAIN r) = n
    BY FS_Interval DEF Good
  <1>7. Resent(r, states) = from[n]
    BY <1>6 DEF Resent
  <1> HIDE DEF from
  <1> QED
    BY <1>5, <1>7

\* From every slot on, the loop gives the packets of the records there.
LEMMA ResentGives ==
  ASSUME NEW n \in Nat, NEW flights, NEW r, Good(r, n, flights),
         NEW states, "StateNull" \notin states
  PROVE  Gives(r, states, n, n, Resent(r, states))
  <1>1. PICK f : /\ Resent(r, states) = f[n]
                 /\ \A k \in 0..n :
                      LET s == StateSelect(r, states, n - k)
                      IN  f[k] = IF s.packetId = MQTT_PACKET_ID_INVALID
                                   THEN <<>>
                                   ELSE <<s.packetId>> \o f[n - s.cursor]
    BY ResentUnfolds
  <1> DEFINE Missing == {k \in 0..n : ~Gives(r, states, n, k, f[k])}
  <1>2. CASE Missing = {}
    <2>1. n \in 0..n
      OBVIOUS
    <2>2. Gives(r, states, n, n, f[n])
      BY <1>2, <2>1
    <2> QED
      BY <1>1, <2>2
  <1>3. CASE Missing # {}
    <2>1. Missing \subseteq Nat
      OBVIOUS
    <2>2. PICK k \in Missing : \A j \in Missing : k <= j
      <3> HIDE DEF Missing
      <3> QED
        BY <1>3, <2>1, LeastElement
    <2>3. k \in 0..n /\ ~Gives(r, states, n, k, f[k]) /\ n - k \in Nat
      BY <2>2
    <2>4. \A j \in 0..n : j < k => Gives(r, states, n, j, f[j])
      <3> SUFFICES ASSUME NEW j \in 0..n, j < k
                   PROVE  Gives(r, states, n, j, f[j])
        OBVIOUS
      <3>1. ~(k <= j)
        BY <2>3
      <3>2. j \notin Missing
        BY <2>2, <3>1
      <3> QED
        BY <3>2
    <2> HIDE DEF Missing
    <2> DEFINE s == StateSelect(r, states, n - k)
               d == s.cursor
    <2>5. f[k] = IF s.packetId = MQTT_PACKET_ID_INVALID
                   THEN <<>>
                   ELSE <<s.packetId>> \o f[n - d]
      BY <1>1, <2>3
    <2>6. ASSUME NEW p \in 1..n, p > n - k, r[p].publishState \in states
          PROVE  s.packetId # MQTT_PACKET_ID_INVALID /\ d <= p
      BY <2>3, <2>6, SelectsLeast
    <2>7. CASE s.packetId = MQTT_PACKET_ID_INVALID
      <3>1. f[k] = <<>> /\ DOMAIN <<>> = {} /\ <<>> \in Seq(PacketIds)
        BY <2>5, <2>7
      <3>2. Gives(r, states, n, k, <<>>)
        BY <2>6, <2>7, <3>1 DEF Gives
      <3> QED
        BY <2>3, <3>1, <3>2
    <2>8. CASE s.packetId # MQTT_PACKET_ID_INVALID
      <3>1. /\ d \in 1..n /\ d > n - k
            /\ r[d].packetId = s.packetId
            /\ r[d].publishState \in states
            /\ s.packetId \in PacketIds
        BY <2>3, <2>8, SelectsRecord
      <3> HIDE DEF s, d
      <3>2. n - d \in 0..n /\ n - d < k
        BY <2>3, <3>1
      <3>3. Gives(r, states, n, n - d, f[n - d])
        BY <2>4, <3>2
      <3>4. \A p \in 1..n :
              p > n - k /\ r[p].publishState \in states => d <= p
        BY <2>6
      <3>5. Gives(r, states, n, k, <<r[d].packetId>> \o f[n - d])
        BY <2>3, <3>1, <3>3, <3>4, GivesOneMore
      <3> QED
        BY <2>3, <2>5, <2>8, <3>1, <3>5
    <2> QED
      BY <2>7, <2>8
  <1> QED
    BY <1>2, <1>3

\* What a loop gives are the packets in the states it looks for, in order.
LEMMA GivesInOrder ==
  ASSUME NEW n \in Nat, NEW flights, Good(outgoing, n, flights),
         NEW states, "StateNull" \notin states,
         NEW seq, Gives(outgoing, states, n, n, seq)
  PROVE  InOrder(seq, states)
  <1>1. /\ seq \in Seq(PacketIds)
        /\ DOMAIN outgoing = 1..n
        /\ \A i \in DOMAIN seq :
             \E p \in 1..n : /\ outgoing[p].publishState \in states
                             /\ outgoing[p].packetId = seq[i]
        /\ \A p \in 1..n :
             outgoing[p].publishState \in states =>
               \E i \in DOMAIN seq : seq[i] = outgoing[p].packetId
        /\ \A i, j \in DOMAIN seq :
             i < j => \E p, q \in 1..n : /\ p < q
                                         /\ outgoing[p].packetId = seq[i]
                                         /\ outgoing[q].packetId = seq[j]
    BY DEF Gives, Good
  <1>2. \A i \in DOMAIN seq : seq[i] \in PacketIds
    BY <1>1
  <1>3. ASSUME NEW i \in DOMAIN seq
        PROVE  Flight(outgoing, seq[i]).state \in states
    <2>1. PICK p \in 1..n : /\ outgoing[p].publishState \in states
                            /\ outgoing[p].packetId = seq[i]
      BY <1>1
    <2>2. Flight(outgoing, seq[i]) =
            At(outgoing[p].qos, outgoing[p].publishState)
      BY <1>2, <2>1, FlightAt
    <2> QED
      BY <2>1, <2>2 DEF At
  <1>4. ASSUME NEW id \in PacketIds, Flight(outgoing, id).state \in states
        PROVE  \E i \in DOMAIN seq : seq[i] = id
    <2>1. Holds(outgoing, id)
      <3> SUFFICES ASSUME ~Holds(outgoing, id)
                   PROVE  FALSE
        OBVIOUS
      <3>1. Flight(outgoing, id) = At(0, "StateNull")
        BY FlightAbsent
      <3> QED
        BY <1>4, <3>1 DEF At
    <2>2. PICK p \in 1..n : outgoing[p].packetId = id
      BY <1>1, <2>1 DEF Holds
    <2>3. Flight(outgoing, id) =
            At(outgoing[p].qos, outgoing[p].publishState)
      BY <2>2, FlightAt
    <2>4. outgoing[p].publishState \in states
      BY <1>4, <2>3 DEF At
    <2> QED
      BY <1>1, <2>2, <2>4
  <1>5. {seq[i] : i \in DOMAIN seq} =
          {id \in PacketIds : Flight(outgoing, id).state \in states}
    BY <1>2, <1>3, <1>4
  <1>6. ASSUME NEW i \in DOMAIN seq, NEW j \in DOMAIN seq, i < j
        PROVE  <<seq[i], seq[j]>> \in Order(outgoing)
    <2>1. PICK p, q \in 1..n : /\ p < q
                               /\ outgoing[p].packetId = seq[i]
                               /\ outgoing[q].packetId = seq[j]
      BY <1>1, <1>6
    <2>2. <<seq[i], seq[j]>> \in PacketIds \X PacketIds
      BY <1>2
    <2> QED
      BY <1>1, <2>1, <2>2 DEF Order
  <1> QED
    BY <1>5, <1>6 DEF InOrder

\* MQTT_PublishToResend and MQTT_PubrelToResend, called until they return
\* MQTT_PACKET_ID_INVALID, give every packet whose PUBLISH or whose PUBREL
\* has to be resent, each once and in the order of the table.
THEOREM ResendsAllInOrderHolds == Spec => []ResendsAllInOrder
  <1>1. IInv => ResendsAllInOrder
    <2> SUFFICES ASSUME IInv
                 PROVE  ResendsAllInOrder
      OBVIOUS
    <2>1. /\ Good(outgoing, OutgoingPublishCount, OutgoingFlights)
          /\ OutgoingPublishCount \in Nat
      BY CountAssumption DEF IInv
    <2>2. /\ "StateNull" \notin PublishToResendStates
          /\ "StateNull" \notin PubrelToResendStates
      BY DEF PublishToResendStates, PubrelToResendStates
    <2>3. InOrder(Resent(outgoing, PublishToResendStates),
                  PublishToResendStates)
      BY <2>1, <2>2, ResentGives, GivesInOrder
    <2>4. InOrder(Resent(outgoing, PubrelToResendStates),
                  PubrelToResendStates)
      BY <2>1, <2>2, ResentGives, GivesInOrder
    <2> QED
      BY <2>3, <2>4 DEF ResendsAllInOrder
  <1> QED
    BY <1>1, Invariance, PTL

-----------------------------------------------------------------------------
(* What a step does to each table.                                         *)

OutgoingEnds == {At(1, "PubAckPending"), At(2, "PubCompPending")}

OutgoingMoves == {<<At(2, "PubRecPending"), At(2, "PubRelSend")>>}

OutgoingEffect ==
  \/ Same(outgoing, outgoing')
  \/ /\ result'.status = "Success"
     /\ \E id \in PacketIds :
          \/ \E f \in {At(1, "PublishSend"), At(2, "PublishSend")} :
               Enters(outgoing, outgoing', OutgoingPublishCount, id, f)
          \/ \E f \in OutgoingFlights :
               /\ <<Flight(outgoing, id), f>> \in OutgoingSteps \ OutgoingMoves
               /\ Advances(outgoing, outgoing', id, f)
          \/ \E f \in OutgoingFlights :
               /\ <<Flight(outgoing, id), f>> \in OutgoingMoves
               /\ GoesLast(outgoing, outgoing', id, f)
          \/ /\ Flight(outgoing, id) \in OutgoingEnds
             /\ result'.call = "UpdateStateAck"
             /\ Leaves(outgoing, outgoing', id)
          \/ /\ Holds(outgoing, id)
             /\ result'.call = "RemoveStateRecord"
             /\ Leaves(outgoing, outgoing', id)
  \/ /\ result'.status = "Success"
     /\ result'.call = "CleanSession"
     /\ outgoing' = EmptyTable(OutgoingPublishCount)

IncomingEffect ==
  \/ Same(incoming, incoming')
  \/ /\ result'.status = "Success"
     /\ \E id \in PacketIds :
          \/ \E f \in {At(1, "PubAckSend"), At(2, "PubRecSend")} :
               Enters(incoming, incoming', IncomingPublishCount, id, f)
          \/ \E f \in IncomingFlights :
               /\ <<Flight(incoming, id), f>> \in IncomingSteps
               /\ Advances(incoming, incoming', id, f)
          \/ /\ Flight(incoming, id) \in {At(1, "PubAckSend"),
                                          At(2, "PubCompSend")}
             /\ Leaves(incoming, incoming', id)
  \/ /\ result'.status = "Success"
     /\ incoming' = EmptyTable(IncomingPublishCount)

LEMMA StepEffect ==
  ASSUME IInv, Next
  PROVE  OutgoingEffect /\ IncomingEffect
  <1> USE CountAssumption
  <1>1. ASSUME NEW id \in AnyPacketId, NEW qos \in MQTTQoS,
               ReserveState(id, qos)
        PROVE  OutgoingEffect /\ IncomingEffect
    <2>1. CASE \E s \in {"Success", "BadParameter"} :
                 Returned("ReserveState", s)
      BY <2>1 DEF Returned, OutgoingEffect, IncomingEffect, Same
    <2>2. CASE /\ qos # 0
               /\ id # MQTT_PACKET_ID_INVALID
               /\ outgoing' =
                    AddRecord(outgoing, id, qos, "PublishSend").records
               /\ Returns("ReserveState",
                    AddRecord(outgoing, id, qos, "PublishSend").status)
               /\ UNCHANGED incoming
      <3> DEFINE added == AddRecord(outgoing, id, qos, "PublishSend")
      <3>1. /\ id \in PacketIds
            /\ At(qos, "PublishSend") \in OutgoingFlights
            /\ At(qos, "PublishSend") \in
                 {At(1, "PublishSend"), At(2, "PublishSend")}
            /\ "PublishSend" \in MQTTPublishState
        BY <2>2 DEF AnyPacketId, MQTTQoS, OutgoingFlights,
                    MQTTPublishState, OutgoingStates
      <3>2. IF added.status = "Success"
              THEN Enters(outgoing, added.records, OutgoingPublishCount, id,
                          At(qos, "PublishSend"))
              ELSE Same(outgoing, added.records)
        BY <3>1, AddRecordEnters DEF IInv
      <3>3. /\ outgoing' = added.records
            /\ result'.status = added.status
            /\ incoming' = incoming
        BY <2>2 DEF Returns
      <3> HIDE DEF added
      <3> QED
        BY <3>1, <3>2, <3>3 DEF OutgoingEffect, IncomingEffect, Same
    <2> QED
      BY <1>1, <2>1, <2>2 DEF ReserveState
  <1>2. ASSUME NEW id \in AnyPacketId, NEW opType \in {"SEND", "RECEIVE"},
               NEW qos \in MQTTQoS, UpdateStatePublish(id, opType, qos)
        PROVE  OutgoingEffect /\ IncomingEffect
    <2>1. CASE \E s \in {"Success", "BadParameter"} :
                 Returned("UpdateStatePublish", s)
      BY <2>1 DEF Returned, OutgoingEffect, IncomingEffect, Same
    <2>2. CASE /\ qos # 0
               /\ id # MQTT_PACKET_ID_INVALID
               /\ outgoing' = UpdateSentPublish(outgoing, id, qos).records
               /\ Returns("UpdateStatePublish",
                          UpdateSentPublish(outgoing, id, qos).status)
               /\ UNCHANGED incoming
      <3> DEFINE sent == UpdateSentPublish(outgoing, id, qos)
      <3>1. id \in PacketIds /\ qos \in {1, 2}
        BY <2>2 DEF AnyPacketId, MQTTQoS
      <3>2. \/ Same(outgoing, sent.records)
            \/ /\ sent.status = "Success"
               /\ \E f \in OutgoingFlights :
                    /\ <<Flight(outgoing, id), f>> \in
                         {<<At(1, "PublishSend"), At(1, "PubAckPending")>>,
                          <<At(2, "PublishSend"), At(2, "PubRecPending")>>}
                    /\ Advances(outgoing, sent.records, id, f)
        BY <3>1, SentPublishAdvances DEF IInv
      <3>3. /\ outgoing' = sent.records
            /\ result'.status = sent.status
            /\ incoming' = incoming
        BY <2>2 DEF Returns
      <3>4. {<<At(1, "PublishSend"), At(1, "PubAckPending")>>,
             <<At(2, "PublishSend"), At(2, "PubRecPending")>>}
              \subseteq OutgoingSteps \ OutgoingMoves
        BY DEF OutgoingSteps, OutgoingMoves, At
      <3> HIDE DEF sent
      <3> QED
        BY <3>1, <3>2, <3>3, <3>4 DEF OutgoingEffect, IncomingEffect, Same
    <2>3. CASE /\ qos # 0
               /\ id # MQTT_PACKET_ID_INVALID
               /\ incoming' = UpdateReceivedPublish(incoming, id, qos).records
               /\ Returns("UpdateStatePublish",
                          UpdateReceivedPublish(incoming, id, qos).status)
               /\ UNCHANGED outgoing
      <3> DEFINE new   == CalculateStatePublish("RECEIVE", qos)
                 added == AddRecord(incoming, id, qos, new)
      <3>1. /\ id \in PacketIds
            /\ new \in MQTTPublishState
            /\ At(qos, new) \in IncomingFlights
            /\ At(qos, new) \in {At(1, "PubAckSend"), At(2, "PubRecSend")}
        BY <2>3 DEF AnyPacketId, MQTTQoS, CalculateStatePublish,
                    IncomingFlights, MQTTPublishState, IncomingStates
      <3>2. /\ outgoing' = outgoing
            /\ incoming' = added.records
            /\ result'.status = added.status
        BY <2>3 DEF UpdateReceivedPublish, Returns
      <3> HIDE DEF new
      <3>3. IF added.status = "Success"
              THEN Enters(incoming, added.records, IncomingPublishCount, id,
                          At(qos, new))
              ELSE Same(incoming, added.records)
        BY <3>1, AddRecordEnters DEF IInv
      <3> HIDE DEF added
      <3> QED
        BY <3>1, <3>2, <3>3 DEF OutgoingEffect, IncomingEffect, Same
    <2> QED
      BY <1>2, <2>1, <2>2, <2>3 DEF UpdateStatePublish
  <1>3. ASSUME NEW id \in AnyPacketId, NEW packetType \in MQTTPubAckType,
               NEW opType \in {"SEND", "RECEIVE"},
               UpdateAck(id, packetType, opType)
        PROVE  OutgoingEffect /\ IncomingEffect
    <2>1. CASE Returned("UpdateStateAck", "BadParameter")
      BY <2>1 DEF Returned, OutgoingEffect, IncomingEffect, Same
    <2>2. CASE /\ id # MQTT_PACKET_ID_INVALID
               /\ outgoing' =
                    UpdateStateAck(outgoing, id, packetType, opType).records
               /\ Returns("UpdateStateAck",
                    UpdateStateAck(outgoing, id, packetType, opType).status)
               /\ UNCHANGED incoming
      <3> DEFINE ack == UpdateStateAck(outgoing, id, packetType, opType)
      <3>1. id \in PacketIds
        BY <2>2 DEF AnyPacketId
      <3>2. \/ Same(outgoing, ack.records)
            \/ /\ ack.status = "Success"
               /\ \/ /\ Flight(outgoing, id) \in AckEnds \cap OutgoingFlights
                     /\ Leaves(outgoing, ack.records, id)
                  \/ \E f \in OutgoingFlights :
                       /\ <<Flight(outgoing, id), f>> \in AckSteps
                       /\ Advances(outgoing, ack.records, id, f)
                  \/ /\ Flight(outgoing, id) = At(2, "PubRecPending")
                     /\ At(2, "PubRelSend") \in OutgoingFlights
                     /\ GoesLast(outgoing, ack.records, id,
                                 At(2, "PubRelSend"))
        BY <3>1, AckEffect DEF IInv
      <3>3. /\ outgoing' = ack.records
            /\ result'.status = ack.status
            /\ result'.call = "UpdateStateAck"
            /\ incoming' = incoming
        BY <2>2 DEF Returns
      <3>4. /\ AckEnds \cap OutgoingFlights \subseteq OutgoingEnds
            /\ \A g, f : f \in OutgoingFlights /\ <<g, f>> \in AckSteps =>
                 <<g, f>> \in OutgoingSteps \ OutgoingMoves
            /\ <<At(2, "PubRecPending"), At(2, "PubRelSend")>> \in
                 OutgoingMoves
        BY DEF AckEnds, AckSteps, OutgoingFlights, OutgoingEnds,
               OutgoingSteps, OutgoingMoves, At
      <3> HIDE DEF ack
      <3> QED
        BY <3>1, <3>2, <3>3, <3>4 DEF OutgoingEffect, IncomingEffect, Same
    <2>3. CASE /\ id # MQTT_PACKET_ID_INVALID
               /\ incoming' =
                    UpdateStateAck(incoming, id, packetType, opType).records
               /\ Returns("UpdateStateAck",
                    UpdateStateAck(incoming, id, packetType, opType).status)
               /\ UNCHANGED outgoing
      <3> DEFINE ack == UpdateStateAck(incoming, id, packetType, opType)
      <3>1. id \in PacketIds
        BY <2>3 DEF AnyPacketId
      <3>2. \/ Same(incoming, ack.records)
            \/ /\ ack.status = "Success"
               /\ \/ /\ Flight(incoming, id) \in AckEnds \cap IncomingFlights
                     /\ Leaves(incoming, ack.records, id)
                  \/ \E f \in IncomingFlights :
                       /\ <<Flight(incoming, id), f>> \in AckSteps
                       /\ Advances(incoming, ack.records, id, f)
                  \/ At(2, "PubRelSend") \in IncomingFlights
        <4>1. /\ Good(incoming, IncomingPublishCount, IncomingFlights)
              /\ IncomingPublishCount \in Nat
          BY DEF IInv
        <4> QED
          BY <2>3, <3>1, <4>1, AckEffect
      <3>3. /\ incoming' = ack.records
            /\ result'.status = ack.status
            /\ outgoing' = outgoing
        BY <2>3 DEF Returns
      <3>4. /\ AckEnds \cap IncomingFlights \subseteq
                 {At(1, "PubAckSend"), At(2, "PubCompSend")}
            /\ \A g, f : f \in IncomingFlights /\ <<g, f>> \in AckSteps =>
                 <<g, f>> \in IncomingSteps
            /\ At(2, "PubRelSend") \notin IncomingFlights
        BY DEF AckEnds, AckSteps, IncomingFlights, IncomingSteps, At
      <3> HIDE DEF ack
      <3> QED
        BY <3>1, <3>2, <3>3, <3>4 DEF OutgoingEffect, IncomingEffect, Same
    <2> QED
      BY <1>3, <2>1, <2>2, <2>3 DEF UpdateAck
  <1>4. ASSUME NEW id \in PacketIds, RemoveRecord(id)
        PROVE  OutgoingEffect /\ IncomingEffect
    <2>1. CASE ~Holds(outgoing, id)
      BY <1>4, <2>1 DEF RemoveRecord, RemoveStateRecord, OutgoingEffect,
                        IncomingEffect, Same
    <2>2. CASE Holds(outgoing, id)
      <3> DEFINE i == FindInRecord(outgoing, id)
      <3>1. i \in 1..OutgoingPublishCount /\ outgoing[i].packetId = id
        BY <2>2, FoundRecord DEF IInv
      <3>2. /\ outgoing' = DeleteRecord(outgoing, i)
            /\ incoming' = incoming
            /\ result'.status = "Success"
            /\ result'.call = "RemoveStateRecord"
        BY <1>4, <2>2 DEF RemoveRecord, RemoveStateRecord, Returns
      <3> HIDE DEF i
      <3>3. Leaves(outgoing, outgoing', id)
        BY <3>1, <3>2, DeleteLeaves DEF IInv
      <3> QED
        BY <2>2, <3>2, <3>3 DEF OutgoingEffect, IncomingEffect, Same
    <2> QED
      BY <2>1, <2>2
  <1>5. CASE CleanSession
    BY <1>5 DEF CleanSession, Returns, OutgoingEffect, IncomingEffect
  <1> QED
    BY <1>1, <1>2, <1>3, <1>4, <1>5 DEF Next

-----------------------------------------------------------------------------
(* The theorems.                                                           *)

\* A call that fails has dropped, moved or advanced no publish, whether or not
\* it compacted the table.
THEOREM FailureChangesNothingHolds == Spec => FailureChangesNothing
  <1>1. IInv /\ [Next]_vars =>
          [result'.status # "Success" =>
             /\ \/ outgoing' = outgoing
                \/ /\ Progress(outgoing)' = Progress(outgoing)
                   /\ Order(outgoing)' = Order(outgoing)
             /\ \/ incoming' = incoming
                \/ /\ Progress(incoming)' = Progress(incoming)
                   /\ Order(incoming)' = Order(incoming)]_vars
    BY StepEffect DEF OutgoingEffect, IncomingEffect, Same
  <1> QED
    BY <1>1, Invariance, PTL DEF Spec, FailureChangesNothing

\* A publish leaves the outgoing table by its last acknowledgement, by a
\* cancellation or with the session.
THEOREM LeavesOnlyWhenDoneHolds == Spec => LeavesOnlyWhenDone
  <1> DEFINE P ==
        \A id \in PacketIds :
          Holds(outgoing, id) /\ ~Holds(outgoing, id)' =>
            \/ result'.call \in {"RemoveStateRecord", "CleanSession"}
            \/ /\ result'.call = "UpdateStateAck"
               /\ Flight(outgoing, id) \in
                    {At(1, "PubAckPending"), At(2, "PubCompPending")}
  <1>1. ASSUME IInv, IInv', Next
        PROVE  P
    <2> SUFFICES ASSUME NEW id \in PacketIds,
                        Holds(outgoing, id), ~Holds(outgoing', id)
                 PROVE  \/ result'.call \in {"RemoveStateRecord",
                                             "CleanSession"}
                        \/ /\ result'.call = "UpdateStateAck"
                           /\ Flight(outgoing, id) \in OutgoingEnds
      BY DEF OutgoingEnds
    <2>1. id \in Held(outgoing)
      BY <1>1, HeldIsHolds, CountAssumption DEF IInv
    <2>2. id \notin Held(outgoing')
      BY <1>1, HeldIsHolds, CountAssumption DEF IInv
    <2>3. /\ Progress(outgoing)[id] # At(0, "StateNull")
          /\ Progress(outgoing')[id] = At(0, "StateNull")
      BY <2>1, <2>2 DEF Held
    <2>4. \A x \in PacketIds : \A f :
            [Progress(outgoing) EXCEPT ![x] = f][id] =
              IF x = id THEN f ELSE Progress(outgoing)[id]
      BY DEF Progress
    <2>5. \A f \in OutgoingFlights : f # At(0, "StateNull")
      BY DEF OutgoingFlights, At
    <2>6. {At(1, "PublishSend"), At(2, "PublishSend")} \subseteq OutgoingFlights
      BY DEF OutgoingFlights
    <2>7. OutgoingEffect
      BY <1>1, StepEffect
    <2>8. ASSUME NEW x \in PacketIds, NEW f,
                 Progress(outgoing') = [Progress(outgoing) EXCEPT ![x] = f]
          PROVE  x = id /\ f = At(0, "StateNull")
      BY <2>3, <2>4, <2>8
    <2>9. ASSUME NEW x \in PacketIds, NEW f \in OutgoingFlights
          PROVE  /\ ~Enters(outgoing, outgoing', OutgoingPublishCount, x, f)
                 /\ ~Advances(outgoing, outgoing', x, f)
                 /\ ~GoesLast(outgoing, outgoing', x, f)
      BY <2>5, <2>8 DEF Enters, Advances, GoesLast
    <2>10. ASSUME NEW x \in PacketIds, Leaves(outgoing, outgoing', x)
           PROVE  x = id
      BY <2>8, <2>10 DEF Leaves
    <2>11. ~Same(outgoing, outgoing')
      BY <2>3 DEF Same
    <2> QED
      BY <2>6, <2>7, <2>9, <2>10, <2>11 DEF OutgoingEffect
  <1>2. IInv /\ IInv' /\ [Next]_vars => [P]_vars
    BY <1>1
  <1> QED
    BY <1>2, Invariance, PTL DEF Spec, LeavesOnlyWhenDone

\* The table of outgoing publishes implements a bounded, ordered set of
\* publishes in flight.
THEOREM OutgoingRefines == Spec => OutgoingInFlight
  <1>1. Init => Out!Init
    BY EmptyTableView, CountAssumption DEF Init, Out!Init
  <1>2. ASSUME IInv, Next
        PROVE  [Out!Next]_(Out!vars)
    <2> USE DEF IInv
    <2>1. ASSUME NEW id \in PacketIds
          PROVE  Flight(outgoing, id) = Progress(outgoing)[id]
      BY DEF Progress
    <2>2. /\ Out!Present = Held(outgoing)
          /\ \A id : Out!Behind(id) = Last(outgoing, id)
          /\ \A id : Out!Without(id) = OrderWithout(outgoing, id)
      BY DEF Out!Present, Out!Behind, Out!Without, Held, Last, OrderWithout
    <2>3. CASE Same(outgoing, outgoing')
      BY <2>3 DEF Same, Out!vars
    <2>4. CASE outgoing' = EmptyTable(OutgoingPublishCount)
      BY <2>4, EmptyTableView, CountAssumption DEF Out!Next, Out!Reset
    <2>5. ASSUME NEW id \in PacketIds,
                 NEW f \in {At(1, "PublishSend"), At(2, "PublishSend")},
                 Enters(outgoing, outgoing', OutgoingPublishCount, id, f)
          PROVE  Out!Start(id)
      <3>1. id \notin Held(outgoing)
        BY <1>2, <2>5, HeldIsHolds, CountAssumption DEF Enters
      <3>2. Out!Cardinality(Held(outgoing)) = Cardinality(Held(outgoing))
        BY DEF Out!Cardinality, Cardinality
      <3> QED
        BY <2>2, <2>5, <3>1, <3>2 DEF Enters, Out!Start
    <2>6. ASSUME NEW id \in PacketIds, NEW f \in OutgoingFlights,
                 <<Flight(outgoing, id), f>> \in OutgoingSteps \ OutgoingMoves,
                 Advances(outgoing, outgoing', id, f)
          PROVE  Out!Advance(id)
      BY <2>1, <2>6 DEF Advances, Out!Advance, OutgoingMoves
    <2>7. ASSUME NEW id \in PacketIds, NEW f \in OutgoingFlights,
                 <<Flight(outgoing, id), f>> \in OutgoingMoves,
                 GoesLast(outgoing, outgoing', id, f)
          PROVE  Out!Requeue(id)
      BY <2>1, <2>2, <2>7 DEF GoesLast, Out!Requeue, OutgoingMoves
    <2>8. ASSUME NEW id \in PacketIds, Flight(outgoing, id) \in OutgoingEnds,
                 Leaves(outgoing, outgoing', id)
          PROVE  Out!Finish(id)
      BY <2>1, <2>2, <2>8 DEF Leaves, Out!Finish, OutgoingEnds
    <2>9. ASSUME NEW id \in PacketIds, Holds(outgoing, id),
                 Leaves(outgoing, outgoing', id)
          PROVE  Out!Abandon(id)
      <3>1. id \in Held(outgoing)
        BY <1>2, <2>9, HeldIsHolds, CountAssumption
      <3> QED
        BY <2>2, <2>9, <3>1 DEF Leaves, Out!Abandon
    <2>10. OutgoingEffect
      BY <1>2, StepEffect
    <2> QED
      BY <2>3, <2>4, <2>5, <2>6, <2>7, <2>8, <2>9, <2>10
      DEF OutgoingEffect, Out!Next
  <1>3. IInv /\ [Next]_vars => [Out!Next]_(Out!vars)
    BY <1>2 DEF vars, Out!vars
  <1> QED
    BY <1>1, <1>3, Invariance, PTL DEF Spec, OutgoingInFlight, Out!Spec

\* So does the table of incoming publishes, from which no publish is ever
\* abandoned and in which none changes its place.
THEOREM IncomingRefines == Spec => IncomingInFlight
  <1>1. Init => In!Init
    BY EmptyTableView, CountAssumption DEF Init, In!Init
  <1>2. ASSUME IInv, Next
        PROVE  [In!Next]_(In!vars)
    <2> USE DEF IInv
    <2>1. ASSUME NEW id \in PacketIds
          PROVE  Flight(incoming, id) = Progress(incoming)[id]
      BY DEF Progress
    <2>2. /\ In!Present = Held(incoming)
          /\ \A id : In!Behind(id) = Last(incoming, id)
          /\ \A id : In!Without(id) = OrderWithout(incoming, id)
      BY DEF In!Present, In!Behind, In!Without, Held, Last, OrderWithout
    <2>3. CASE Same(incoming, incoming')
      BY <2>3 DEF Same, In!vars
    <2>4. CASE incoming' = EmptyTable(IncomingPublishCount)
      BY <2>4, EmptyTableView, CountAssumption DEF In!Next, In!Reset
    <2>5. ASSUME NEW id \in PacketIds,
                 NEW f \in {At(1, "PubAckSend"), At(2, "PubRecSend")},
                 Enters(incoming, incoming', IncomingPublishCount, id, f)
          PROVE  In!Start(id)
      <3>1. id \notin Held(incoming)
        BY <1>2, <2>5, HeldIsHolds, CountAssumption DEF Enters
      <3>2. In!Cardinality(Held(incoming)) = Cardinality(Held(incoming))
        BY DEF In!Cardinality, Cardinality
      <3> QED
        BY <2>2, <2>5, <3>1, <3>2 DEF Enters, In!Start
    <2>6. ASSUME NEW id \in PacketIds, NEW f \in IncomingFlights,
                 <<Flight(incoming, id), f>> \in IncomingSteps,
                 Advances(incoming, incoming', id, f)
          PROVE  In!Advance(id)
      BY <2>1, <2>6 DEF Advances, In!Advance
    <2>7. ASSUME NEW id \in PacketIds,
                 Flight(incoming, id) \in {At(1, "PubAckSend"),
                                           At(2, "PubCompSend")},
                 Leaves(incoming, incoming', id)
          PROVE  In!Finish(id)
      BY <2>1, <2>2, <2>7 DEF Leaves, In!Finish
    <2>8. IncomingEffect
      BY <1>2, StepEffect
    <2> QED
      BY <2>3, <2>4, <2>5, <2>6, <2>7, <2>8 DEF IncomingEffect, In!Next
  <1>3. IInv /\ [Next]_vars => [In!Next]_(In!vars)
    BY <1>2 DEF vars, In!vars
  <1> QED
    BY <1>1, <1>3, Invariance, PTL DEF Spec, IncomingInFlight, In!Spec
=============================================================================
