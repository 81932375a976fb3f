------------------------- MODULE ReceivePath_proofs --------------------------
(***************************************************************************)
(* Proofs about ReceivePath, for every size of the network buffer, every   *)
(* set of packets and every number of packets on a connection.             *)
(***************************************************************************)
EXTENDS ReceivePath, SequenceTheorems, WellFoundedInduction, TLAPS

Byte == 0..255
Bytes == Seq(Byte)

\* What has arrived of a stream is the beginning of it.
Begins(s, t) == Len(s) <= Len(t) /\ \A i \in 1..Len(s) : s[i] = t[i]

LEMMA Least ==
  ASSUME NEW S, S \subseteq Nat, S # {}
  PROVE  \E least \in S : \A j \in S : least <= j
  <1>1. \E least \in S : \A j \in S : ~(<<j, least>> \in OpToRel(<, Nat))
    BY NatLessThanWellFounded, WFMin
  <1>2. PICK least \in S : \A j \in S : ~(<<j, least>> \in OpToRel(<, Nat))
    BY <1>1
  <1>3. \A j \in S : ~(j < least)
    BY <1>2 DEF OpToRel
  <1> QED
    BY <1>3

-----------------------------------------------------------------------------
(* The fixed header: what it says does not depend on how much of the       *)
(* packet, or of what follows it, has arrived as well.                     *)

\* A length depends on its own bytes only.
LEMMA LengthOfSame ==
  ASSUME NEW b, NEW c, NEW count \in Nat,
         \A n \in 1..count : b[n + 1] = c[n + 1]
  PROVE  LengthOf(b, count) = LengthOf(c, count)
  <1> DEFINE first(s) == CHOOSE x \in s : TRUE
             Body(d, iter) ==
               [s \in SUBSET (1..count) |->
                  IF s = {} THEN 0
                  ELSE ((d[first(s) + 1] % 128) * 128 ^ (first(s) - 1))
                         + iter[s \ {first(s)}]]
  <1>1. \A d : LengthOf(d, count) =
                 (CHOOSE iter : iter = Body(d, iter))[1..count]
    BY DEF LengthOf, MapThenSumSet, MapThenFoldSet
  <1>2. ASSUME NEW iter
        PROVE  Body(b, iter) = Body(c, iter)
    <2>1. \A s \in SUBSET (1..count) : s # {} => first(s) \in 1..count
      OBVIOUS
    <2> QED
      BY <2>1
  <1> HIDE DEF Body
  <1>3. (CHOOSE iter : iter = Body(b, iter)) =
        (CHOOSE iter : iter = Body(c, iter))
    BY <1>2
  <1> QED
    BY <1>1, <1>3

\* Where the length ends.
LEMMA MinEnds ==
  ASSUME NEW b, LengthEnds(b) # {}
  PROVE  /\ Min(LengthEnds(b)) \in LengthEnds(b)
         /\ Min(LengthEnds(b)) \in 1..4
         /\ \A n \in LengthEnds(b) : Min(LengthEnds(b)) <= n
  <1>1. LengthEnds(b) \subseteq 1..4
    BY DEF LengthEnds
  <1>2. \E x \in LengthEnds(b) : \A y \in LengthEnds(b) : x <= y
    BY <1>1, Least
  <1> QED
    BY <1>1, <1>2 DEF Min

\* A length that has ended is the same whatever comes after it.
LEMMA LengthStable ==
  ASSUME NEW b \in Bytes, NEW c \in Bytes, Begins(b, c), LengthEnds(b) # {}
  PROVE  /\ LengthEnds(c) # {}
         /\ Min(LengthEnds(c)) = Min(LengthEnds(b))
         /\ DecodedLength(c) = DecodedLength(b)
  <1> DEFINE m == Min(LengthEnds(b))
             k == Min(LengthEnds(c))
  <1>1. m \in 1..4 /\ m \in LengthEnds(b) /\ m < Len(b) /\ b[m + 1] < 128
    BY MinEnds DEF LengthEnds
  <1>2. \A n \in LengthEnds(b) : m <= n
    BY MinEnds
  <1>3. Len(b) \in Nat /\ Len(c) \in Nat /\ Len(b) <= Len(c)
        /\ \A i \in 1..Len(b) : b[i] = c[i]
    BY DEF Begins, Bytes
  <1> HIDE DEF m, k
  <1>4. m \in LengthEnds(c)
    <2>1. m + 1 \in 1..Len(b)
      BY <1>1, <1>3
    <2>2. b[m + 1] = c[m + 1] /\ m < Len(c)
      BY <1>1, <1>3, <2>1
    <2> QED
      BY <1>1, <2>2 DEF LengthEnds
  <1>5. k \in LengthEnds(c) /\ k \in 1..4 /\ k <= m
        /\ k < Len(c) /\ c[k + 1] < 128
    BY <1>4, MinEnds DEF LengthEnds, k
  <1>6. k \in LengthEnds(b)
    <2>1. k + 1 \in 1..Len(b) /\ k < Len(b)
      BY <1>1, <1>3, <1>5
    <2>2. b[k + 1] = c[k + 1]
      BY <1>3, <2>1
    <2> QED
      BY <1>5, <2>1, <2>2 DEF LengthEnds
  <1>7. k = m
    BY <1>1, <1>2, <1>5, <1>6
  <1>8. \A n \in 1..m : b[n + 1] = c[n + 1]
    <2> SUFFICES ASSUME NEW n \in 1..m
                 PROVE  b[n + 1] = c[n + 1]
      OBVIOUS
    <2>1. n + 1 \in 1..Len(b)
      BY <1>1, <1>3
    <2> QED
      BY <1>3, <2>1
  <1>9. LengthOf(b, m) = LengthOf(c, m)
    BY <1>1, <1>8, LengthOfSame
  <1> QED
    BY <1>4, <1>7, <1>9 DEF DecodedLength, m, k

\* What is read of a header, once it is more than a request for more bytes.
LEMMA HeaderStable ==
  ASSUME NEW b \in Bytes, NEW c \in Bytes, b # <<>>, Begins(b, c),
         MQTT_ProcessIncomingPacketTypeAndLength(b).status
           # "MQTTNeedMoreBytes"
  PROVE  MQTT_ProcessIncomingPacketTypeAndLength(c)
           = MQTT_ProcessIncomingPacketTypeAndLength(b)
  <1>1. Len(b) \in Nat \ {0} /\ Len(c) \in Nat /\ Len(b) <= Len(c)
        /\ b[1] = c[1] /\ c # <<>>
    BY DEF Begins, Bytes
  <1>2. CASE ~incomingPacketValid(b[1])
    BY <1>1, <1>2 DEF MQTT_ProcessIncomingPacketTypeAndLength
  <1>3. CASE incomingPacketValid(b[1]) /\ LengthEnds(b) # {}
    <2>1. /\ LengthEnds(c) # {}
          /\ Min(LengthEnds(c)) = Min(LengthEnds(b))
          /\ DecodedLength(c) = DecodedLength(b)
      BY <1>3, LengthStable
    <2>2. HeaderRead(c) = HeaderRead(b)
      BY <1>1, <2>1 DEF HeaderRead
    <2>3. processRemainingLength(c) = processRemainingLength(b)
      BY <1>3, <2>1, <2>2 DEF processRemainingLength
    <2> QED
      BY <1>1, <1>3, <2>3 DEF MQTT_ProcessIncomingPacketTypeAndLength
  <1>4. CASE incomingPacketValid(b[1]) /\ LengthEnds(b) = {}
    <2>1. Len(b) > 4
      BY <1>1, <1>4 DEF MQTT_ProcessIncomingPacketTypeAndLength,
                        processRemainingLength, HeaderError
    <2>2. LengthEnds(c) = {}
      <3> SUFFICES ASSUME NEW n \in 1..4, n < Len(c), c[n + 1] < 128
                   PROVE  FALSE
        BY DEF LengthEnds
      <3>1. n + 1 \in 1..Len(b) /\ n < Len(b)
        BY <1>1, <2>1
      <3>2. b[n + 1] = c[n + 1]
        BY <3>1 DEF Begins
      <3>3. n \in LengthEnds(b)
        BY <3>1, <3>2 DEF LengthEnds
      <3> QED
        BY <1>4, <3>3
    <2>3. processRemainingLength(b) = HeaderError("MQTTBadResponse")
      BY <1>1, <1>4, <2>1 DEF processRemainingLength
    <2>4. processRemainingLength(c) = HeaderError("MQTTBadResponse")
      BY <1>1, <2>1, <2>2 DEF processRemainingLength
    <2> QED
      BY <1>1, <1>4, <2>3, <2>4 DEF MQTT_ProcessIncomingPacketTypeAndLength
  <1> QED
    BY <1>2, <1>3, <1>4

\* What a header that is read says.
LEMMA HeaderShape ==
  ASSUME NEW b \in Bytes, b # <<>>
  PROVE  LET header == MQTT_ProcessIncomingPacketTypeAndLength(b)
         IN  /\ header.status \in {"MQTTSuccess", "MQTTBadResponse",
                                   "MQTTNeedMoreBytes"}
             /\ header.status = "MQTTNeedMoreBytes" => Len(b) <= 4
             /\ header.status = "MQTTSuccess" =>
                  /\ header = HeaderRead(b)
                  /\ header.type = b[1]
                  /\ header.headerLength \in 2..5
                  /\ header.headerLength <= Len(b)
  <1> DEFINE header == MQTT_ProcessIncomingPacketTypeAndLength(b)
  <1>1. Len(b) \in Nat
    BY DEF Bytes
  <1>2. CASE ~incomingPacketValid(b[1])
    BY <1>2 DEF MQTT_ProcessIncomingPacketTypeAndLength, HeaderError
  <1>3. CASE incomingPacketValid(b[1]) /\ LengthEnds(b) = {}
    BY <1>1, <1>3 DEF MQTT_ProcessIncomingPacketTypeAndLength, HeaderError,
                      processRemainingLength
  <1>4. CASE incomingPacketValid(b[1]) /\ LengthEnds(b) # {}
    <2>1. header \in {HeaderError("MQTTBadResponse"), HeaderRead(b)}
      BY <1>4 DEF MQTT_ProcessIncomingPacketTypeAndLength,
                  processRemainingLength
    <2>2. Min(LengthEnds(b)) \in 1..4 /\ Min(LengthEnds(b)) < Len(b)
      BY <1>4, MinEnds DEF LengthEnds
    <2>3. /\ HeaderRead(b).status = "MQTTSuccess"
          /\ HeaderRead(b).type = b[1]
          /\ HeaderRead(b).headerLength = Min(LengthEnds(b)) + 1
      BY DEF HeaderRead
    <2>4. HeaderError("MQTTBadResponse").status = "MQTTBadResponse"
      BY DEF HeaderError
    <2> HIDE DEF header
    <2> QED
      BY <1>1, <2>1, <2>2, <2>3, <2>4 DEF header
  <1> QED
    BY <1>2, <1>3, <1>4

-----------------------------------------------------------------------------
(* Packets one after the other.                                            *)

\* f[i] is what the first i packets are, one after the other.
Joins(f, seqs) ==
  \A i \in 1..Len(seqs) :
    f[i] = IF i = 1 THEN seqs[i] ELSE f[i - 1] \o seqs[i]

LEMMA JoinsExist ==
  ASSUME NEW seqs \in Seq(Bytes)
  PROVE  \E f : f = [i \in 1..Len(seqs) |->
                       IF i = 1 THEN seqs[i] ELSE f[i - 1] \o seqs[i]]
  <1> DEFINE n == Len(seqs)
             Made(f, m) == f = [i \in 1..m |->
                                  IF i = 1 THEN seqs[i]
                                  ELSE f[i - 1] \o seqs[i]]
             Missing == {m \in 0..n : ~ \E f : Made(f, m)}
  <1> SUFFICES \E f : Made(f, n)
    OBVIOUS
  <1>1. n \in Nat
    OBVIOUS
  <1> HIDE DEF n, Made
  <1>2. CASE Missing = {}
    <2>1. n \in 0..n
      BY <1>1
    <2>2. n \notin Missing
      BY <1>2
    <2> QED
      BY <2>1, <2>2
  <1>3. CASE Missing # {}
    <2>1. Missing \subseteq Nat
      BY <1>1
    <2>2. PICK m \in Missing : \A j \in Missing : m <= j
      <3> HIDE DEF Missing
      <3> QED
        BY <1>3, <2>1, Least
    <2>3. m \in 0..n /\ ~ \E f : Made(f, m)
      BY <2>2
    <2>4. \A j \in 0..n : j < m => \E f : Made(f, j)
      <3> SUFFICES ASSUME NEW j \in 0..n, j < m
                   PROVE  \E f : Made(f, j)
        OBVIOUS
      <3>1. ~(m <= j)
        BY <1>1, <2>3
      <3> QED
        BY <2>2, <3>1
    <2>5. CASE m = 0
      <3>1. Made([i \in 1..0 |-> <<>>], 0)
        BY DEF Made
      <3> QED
        BY <2>3, <2>5, <3>1
    <2>6. CASE m > 0
      <3>1. m - 1 \in 0..n /\ m - 1 < m
        BY <1>1, <2>3, <2>6
      <3>2. PICK g : Made(g, m - 1)
        BY <2>4, <3>1
      <3> DEFINE h == [i \in 1..m |-> IF i < m THEN g[i]
                                      ELSE IF i = 1 THEN seqs[i]
                                           ELSE g[i - 1] \o seqs[i]]
      <3>3. ASSUME NEW i \in 1..m
            PROVE  h[i] = IF i = 1 THEN seqs[i] ELSE h[i - 1] \o seqs[i]
        <4>1. CASE i < m
          <5>1. i \in 1..(m - 1)
            BY <1>1, <2>3, <3>3, <4>1
          <5>2. g[i] = IF i = 1 THEN seqs[i] ELSE g[i - 1] \o seqs[i]
            BY <3>2, <5>1 DEF Made
          <5>3. h[i] = g[i] /\ (i # 1 => h[i - 1] = g[i - 1])
            BY <1>1, <2>3, <3>3, <4>1
          <5> HIDE DEF h
          <5> QED
            BY <5>2, <5>3
        <4>2. CASE i = m
          <5>1. i # 1 => h[i - 1] = g[i - 1]
            BY <1>1, <2>3, <3>3, <4>2
          <5>2. h[i] = IF i = 1 THEN seqs[i] ELSE g[i - 1] \o seqs[i]
            BY <1>1, <2>3, <4>2
          <5> HIDE DEF h
          <5> QED
            BY <5>1, <5>2
        <4> QED
          BY <1>1, <2>3, <3>3, <4>1, <4>2
      <3>4. h = [i \in 1..m |-> h[i]]
        OBVIOUS
      <3> HIDE DEF h
      <3>5. Made(h, m)
        BY <3>3, <3>4 DEF Made
      <3> QED
        BY <2>3, <3>5
    <2> QED
      BY <1>1, <2>3, <2>5, <2>6
  <1> QED
    BY <1>2, <1>3

\* Packets one after the other are bytes.
LEMMA JoinsBytes ==
  ASSUME NEW seqs \in Seq(Bytes), NEW f, Joins(f, seqs), NEW i \in 1..Len(seqs)
  PROVE  f[i] \in Bytes
  <1> DEFINE n == Len(seqs)
             Wrong == {j \in 1..n : f[j] \notin Bytes}
  <1>1. n \in Nat /\ \A j \in 1..n : seqs[j] \in Bytes
    OBVIOUS
  <1>2. \A j \in 1..n : f[j] = IF j = 1 THEN seqs[j] ELSE f[j - 1] \o seqs[j]
    BY DEF Joins
  <1> HIDE DEF n
  <1>3. CASE Wrong # {}
    <2>1. Wrong \subseteq Nat
      BY <1>1
    <2>2. PICK m \in Wrong : \A j \in Wrong : m <= j
      <3> HIDE DEF Wrong
      <3> QED
        BY <1>3, <2>1, Least
    <2>3. m \in 1..n /\ f[m] \notin Bytes
      BY <2>2
    <2>4. CASE m = 1
      BY <1>1, <1>2, <2>3, <2>4
    <2>5. CASE m # 1
      <3>1. m - 1 \in 1..n /\ ~(m <= m - 1)
        BY <1>1, <2>3, <2>5
      <3>2. f[m - 1] \in Bytes
        BY <2>2, <3>1
      <3>3. f[m - 1] \o seqs[m] \in Bytes
        BY <1>1, <2>3, <3>2 DEF Bytes
      <3> QED
        BY <1>2, <2>3, <2>5, <3>3
    <2> QED
      BY <2>4, <2>5
  <1>4. CASE Wrong = {}
    BY <1>4 DEF n
  <1> QED
    BY <1>3, <1>4

\* There is one way to put packets one after the other.
LEMMA JoinsUnique ==
  ASSUME NEW seqs \in Seq(Bytes), NEW f, Joins(f, seqs), NEW g, Joins(g, seqs),
         NEW i \in 1..Len(seqs)
  PROVE  f[i] = g[i]
  <1> DEFINE n == Len(seqs)
             Wrong == {j \in 1..n : f[j] # g[j]}
  <1>1. n \in Nat
    OBVIOUS
  <1>2. \A j \in 1..n : /\ f[j] = IF j = 1 THEN seqs[j] ELSE f[j - 1] \o seqs[j]
                        /\ g[j] = IF j = 1 THEN seqs[j] ELSE g[j - 1] \o seqs[j]
    BY DEF Joins
  <1> HIDE DEF n
  <1>3. CASE Wrong # {}
    <2>1. Wrong \subseteq Nat
      BY <1>1
    <2>2. PICK m \in Wrong : \A j \in Wrong : m <= j
      <3> HIDE DEF Wrong
      <3> QED
        BY <1>3, <2>1, Least
    <2>3. m \in 1..n /\ f[m] # g[m]
      BY <2>2
    <2>4. CASE m = 1
      BY <1>2, <2>3, <2>4
    <2>5. CASE m # 1
      <3>1. m - 1 \in 1..n /\ ~(m <= m - 1)
        BY <1>1, <2>3, <2>5
      <3>2. f[m - 1] = g[m - 1]
        BY <2>2, <3>1
      <3> QED
        BY <1>2, <2>3, <2>5, <3>2
    <2> QED
      BY <2>4, <2>5
  <1>4. CASE Wrong = {}
    BY <1>4 DEF n
  <1> QED
    BY <1>3, <1>4

\* FlattenSeq puts them so.
LEMMA FlattenJoins ==
  ASSUME NEW seqs \in Seq(Bytes), seqs # <<>>
  PROVE  \E f : Joins(f, seqs) /\ FlattenSeq(seqs) = f[Len(seqs)]
  <1> DEFINE f == CHOOSE f : f = [i \in 1..Len(seqs) |->
                                    IF i = 1 THEN seqs[i]
                                    ELSE f[i - 1] \o seqs[i]]
  <1>1. f = [i \in 1..Len(seqs) |->
               IF i = 1 THEN seqs[i] ELSE f[i - 1] \o seqs[i]]
    BY JoinsExist
  <1>2. Len(seqs) # 0
    OBVIOUS
  <1>3. FlattenSeq(seqs) = f[Len(seqs)]
    BY <1>2 DEF FlattenSeq
  <1> HIDE DEF f
  <1> QED
    BY <1>1, <1>3 DEF Joins

LEMMA FlattenIs ==
  ASSUME NEW seqs \in Seq(Bytes), seqs # <<>>, NEW f, Joins(f, seqs)
  PROVE  FlattenSeq(seqs) = f[Len(seqs)]
  <1>1. PICK g : Joins(g, seqs) /\ FlattenSeq(seqs) = g[Len(seqs)]
    BY FlattenJoins
  <1>2. Len(seqs) \in 1..Len(seqs)
    OBVIOUS
  <1> QED
    BY <1>1, <1>2, JoinsUnique

LEMMA FlattenBytes ==
  ASSUME NEW seqs \in Seq(Bytes)
  PROVE  FlattenSeq(seqs) \in Bytes /\ (seqs = <<>> => FlattenSeq(seqs) = <<>>)
  <1>1. CASE seqs = <<>>
    BY <1>1 DEF FlattenSeq, Bytes
  <1>2. CASE seqs # <<>>
    <2>1. PICK f : Joins(f, seqs) /\ FlattenSeq(seqs) = f[Len(seqs)]
      BY <1>2, FlattenJoins
    <2>2. Len(seqs) \in 1..Len(seqs)
      BY <1>2
    <2> QED
      BY <1>2, <2>1, <2>2, JoinsBytes
  <1> QED
    BY <1>1, <1>2

\* One packet more at the end.
LEMMA FlattenAppend ==
  ASSUME NEW seqs \in Seq(Bytes), NEW packet \in Bytes
  PROVE  FlattenSeq(Append(seqs, packet)) = FlattenSeq(seqs) \o packet
  <1> DEFINE all == Append(seqs, packet)
             n == Len(seqs)
  <1>1. /\ n \in Nat /\ all \in Seq(Bytes) /\ all # <<>> /\ Len(all) = n + 1
        /\ all[n + 1] = packet
        /\ \A i \in 1..n : all[i] = seqs[i]
    OBVIOUS
  <1> HIDE DEF all
  <1>2. PICK f : Joins(f, all) /\ FlattenSeq(all) = f[n + 1]
    BY <1>1, FlattenJoins
  <1>3. \A i \in 1..(n + 1) :
          f[i] = IF i = 1 THEN all[i] ELSE f[i - 1] \o all[i]
    BY <1>1, <1>2 DEF Joins
  <1>4. n + 1 \in 1..(n + 1)
    BY <1>1
  <1>5. CASE n = 0
    <2>1. seqs = <<>>
      BY <1>5, EmptySeq
    <2>2. FlattenSeq(all) = packet
      BY <1>1, <1>2, <1>3, <1>4, <1>5
    <2>3. <<>> \o packet = packet
      BY ConcatEmptySeq DEF Bytes
    <2>4. FlattenSeq(seqs) = <<>>
      BY <2>1, FlattenBytes
    <2> QED
      BY <2>2, <2>3, <2>4 DEF all
  <1>6. CASE n # 0
    <2>1. seqs # <<>>
      BY <1>6
    <2>2. Joins(f, seqs)
      <3> SUFFICES ASSUME NEW i \in 1..n
                   PROVE  f[i] = IF i = 1 THEN seqs[i] ELSE f[i - 1] \o seqs[i]
        BY DEF Joins
      <3>1. i \in 1..(n + 1) /\ all[i] = seqs[i]
        BY <1>1
      <3> QED
        BY <1>3, <3>1
    <2>3. FlattenSeq(seqs) = f[n]
      BY <2>1, <2>2, FlattenIs
    <2>4. f[n + 1] = f[n] \o packet
      <3>1. n + 1 # 1 /\ (n + 1) - 1 = n
        BY <1>1, <1>6
      <3> QED
        BY <1>1, <1>3, <1>4, <3>1
    <2> QED
      BY <1>2, <2>3, <2>4 DEF all
  <1> QED
    BY <1>5, <1>6

LEMMA BehindProperties ==
  ASSUME NEW S, NEW s \in Seq(S), NEW n \in 0..Len(s)
  PROVE  /\ Behind(s, n) \in Seq(S)
         /\ Len(Behind(s, n)) = Len(s) - n
         /\ \A i \in 1..(Len(s) - n) : Behind(s, n)[i] = s[i + n]
  <1>1. /\ Len(s) \in Nat
        /\ \A i \in (n + 1)..Len(s) : s[i] \in S
    OBVIOUS
  <1>2. /\ SubSeq(s, n + 1, Len(s)) \in Seq(S)
        /\ Len(SubSeq(s, n + 1, Len(s))) =
             IF n + 1 <= Len(s) THEN Len(s) - (n + 1) + 1 ELSE 0
        /\ \A i \in 1..(Len(s) - (n + 1) + 1) :
             SubSeq(s, n + 1, Len(s))[i] = s[(n + 1) + i - 1]
    BY <1>1, SubSeqProperties
  <1> QED
    BY <1>1, <1>2 DEF Behind

LEMMA Regroup ==
  ASSUME NEW s \in Bytes, NEW t \in Bytes, NEW u \in Bytes
  PROVE  s \o (t \o u) = (s \o t) \o u
  BY ConcatAssociative DEF Bytes

\* The first packet, and those behind it.
LEMMA FlattenFirst ==
  ASSUME NEW seqs \in Seq(Bytes), seqs # <<>>
  PROVE  /\ Behind(seqs, 1) \in Seq(Bytes)
         /\ FlattenSeq(seqs) = seqs[1] \o FlattenSeq(Behind(seqs, 1))
  <1> DEFINE n == Len(seqs)
             rest == Behind(seqs, 1)
  <1>1. n \in Nat \ {0} /\ \A i \in 1..n : seqs[i] \in Bytes
    OBVIOUS
  <1>2. /\ rest \in Seq(Bytes) /\ Len(rest) = n - 1
        /\ \A i \in 1..(n - 1) : rest[i] = seqs[i + 1]
    <2>1. 1 \in 0..Len(seqs)
      BY <1>1
    <2>2. /\ Behind(seqs, 1) \in Seq(Bytes)
          /\ Len(Behind(seqs, 1)) = Len(seqs) - 1
          /\ \A i \in 1..(Len(seqs) - 1) : Behind(seqs, 1)[i] = seqs[i + 1]
      BY <2>1, BehindProperties
    <2> QED
      BY <2>2
  <1>3. PICK f : Joins(f, seqs) /\ FlattenSeq(seqs) = f[n]
    BY FlattenJoins
  <1>4. CASE n = 1
    <2>1. rest = <<>>
      BY <1>2, <1>4, EmptySeq
    <2>2. FlattenSeq(rest) = <<>>
      BY <1>2, <2>1, FlattenBytes
    <2>3. f[1] = seqs[1]
      BY <1>3, <1>4 DEF Joins
    <2>4. seqs[1] \o <<>> = seqs[1]
      BY <1>1, ConcatEmptySeq DEF Bytes
    <2> QED
      BY <1>2, <1>3, <1>4, <2>2, <2>3, <2>4
  <1>5. CASE n # 1
    <2>1. rest # <<>>
      BY <1>1, <1>2, <1>5
    <2> HIDE DEF rest
    <2>2. PICK g : Joins(g, rest) /\ FlattenSeq(rest) = g[n - 1]
      BY <1>2, <2>1, FlattenJoins
    <2>3. \A i \in 1..(n - 1) : g[i] \in Bytes
      BY <1>2, <2>2, JoinsBytes
    <2>4. \A i \in 1..(n - 1) :
            g[i] = IF i = 1 THEN rest[i] ELSE g[i - 1] \o rest[i]
      BY <1>2, <2>2 DEF Joins
    <2> DEFINE h == [i \in 1..n |-> IF i = 1 THEN seqs[1]
                                    ELSE seqs[1] \o g[i - 1]]
    <2>5. \A i \in 1..n : h[i] = IF i = 1 THEN seqs[1] ELSE seqs[1] \o g[i - 1]
      OBVIOUS
    <2> HIDE DEF h, n
    <2>6. ASSUME NEW i \in 1..n
          PROVE  h[i] = IF i = 1 THEN seqs[i] ELSE h[i - 1] \o seqs[i]
      <3>1. CASE i = 1
        BY <2>5, <2>6, <3>1
      <3>2. CASE i = 2
        <4>1. 1 \in 1..(n - 1) /\ 1 + 1 = 2 /\ 2 - 1 = 1 /\ 1 \in 1..n
          BY <1>1, <1>5
        <4>2. g[1] = seqs[2]
          BY <1>2, <2>4, <4>1
        <4>3. h[2] = seqs[1] \o g[1]
          <5>1. 2 \in 1..n /\ 2 # 1 /\ g[2 - 1] = g[1]
            BY <1>1, <1>5, <4>1
          <5> QED
            BY <2>5, <5>1
        <4>4. h[1] = seqs[1]
          BY <2>5, <4>1
        <4> QED
          BY <3>2, <4>1, <4>2, <4>3, <4>4
      <3>3. CASE i # 1 /\ i # 2
        <4>1. /\ i - 1 \in 1..(n - 1) /\ i - 1 # 1 /\ i - 1 \in 1..n
              /\ i - 2 \in 1..(n - 1) /\ (i - 1) - 1 = i - 2
              /\ (i - 1) + 1 = i
          BY <1>1, <2>6, <3>3
        <4>2. g[i - 1] = g[i - 2] \o seqs[i]
          BY <1>2, <2>4, <4>1
        <4>3. h[i] = seqs[1] \o g[i - 1]
          BY <2>5, <2>6, <3>3
        <4>4. h[i - 1] = seqs[1] \o g[i - 2]
          BY <2>5, <4>1
        <4>5. /\ seqs[1] \in Bytes /\ g[i - 2] \in Bytes /\ seqs[i] \in Bytes
          BY <1>1, <2>3, <2>6, <4>1
        <4>6. seqs[1] \o (g[i - 2] \o seqs[i])
                = (seqs[1] \o g[i - 2]) \o seqs[i]
          BY <4>5, Regroup
        <4> QED
          BY <3>3, <4>2, <4>3, <4>4, <4>6
      <3> QED
        BY <3>1, <3>2, <3>3
    <2>7. Joins(h, seqs)
      BY <2>6 DEF Joins, n
    <2>8. FlattenSeq(seqs) = h[n]
      BY <2>7, FlattenIs DEF n
    <2>9. n \in 1..n
      BY <1>1
    <2>10. h[n] = seqs[1] \o g[n - 1]
      BY <1>5, <2>5, <2>9
    <2> QED
      BY <1>2, <2>2, <2>8, <2>10 DEF rest
  <1> QED
    BY <1>4, <1>5

-----------------------------------------------------------------------------
(* Cutting and joining bytes.                                              *)

LEMMA BytesLen ==
  ASSUME NEW s \in Bytes
  PROVE  /\ Len(s) \in Nat /\ (s = <<>> <=> Len(s) = 0)
         /\ \A i \in 1..Len(s) : s[i] \in Byte
  BY EmptySeq, LenProperties, ElementOfSeq DEF Bytes

LEMMA BytesJoined ==
  ASSUME NEW s \in Bytes, NEW t \in Bytes
  PROVE  /\ s \o t \in Bytes /\ Len(s \o t) = Len(s) + Len(t)
         /\ \A i \in 1..Len(s) : (s \o t)[i] = s[i]
         /\ \A i \in 1..Len(t) : (s \o t)[Len(s) + i] = t[i]
  <1>1. /\ s \o t \in Bytes /\ Len(s \o t) = Len(s) + Len(t)
        /\ \A i \in 1..(Len(s) + Len(t)) :
             (s \o t)[i] = IF i <= Len(s) THEN s[i] ELSE t[i - Len(s)]
    BY ConcatProperties DEF Bytes
  <1>2. Len(s) \in Nat /\ Len(t) \in Nat
    BY BytesLen
  <1>3. ASSUME NEW i \in 1..Len(t)
        PROVE  (s \o t)[Len(s) + i] = t[i]
    <2>1. /\ Len(s) + i \in 1..(Len(s) + Len(t)) /\ ~(Len(s) + i <= Len(s))
          /\ (Len(s) + i) - Len(s) = i
      BY <1>2
    <2> QED
      BY <1>1, <2>1
  <1>4. ASSUME NEW i \in 1..Len(s)
        PROVE  (s \o t)[i] = s[i]
    BY <1>1, <1>2
  <1> QED
    BY <1>1, <1>3, <1>4

LEMMA BytesBehind ==
  ASSUME NEW s \in Bytes, NEW n \in 0..Len(s)
  PROVE  /\ Behind(s, n) \in Bytes /\ Len(Behind(s, n)) = Len(s) - n
         /\ \A i \in 1..(Len(s) - n) : Behind(s, n)[i] = s[i + n]
  BY BehindProperties DEF Bytes

LEMMA BytesBefore ==
  ASSUME NEW s \in Bytes, NEW n \in 0..Len(s)
  PROVE  /\ SubSeq(s, 1, n) \in Bytes /\ Len(SubSeq(s, 1, n)) = n
         /\ \A i \in 1..n : SubSeq(s, 1, n)[i] = s[i]
         /\ Begins(SubSeq(s, 1, n), s)
  <1>1. Len(s) \in Nat /\ \A i \in 1..n : s[i] \in Byte
    BY BytesLen
  <1>2. /\ SubSeq(s, 1, n) \in Seq(Byte)
        /\ Len(SubSeq(s, 1, n)) = IF 1 <= n THEN n - 1 + 1 ELSE 0
        /\ \A i \in 1..(n - 1 + 1) : SubSeq(s, 1, n)[i] = s[1 + i - 1]
    BY <1>1, SubSeqProperties
  <1> QED
    BY <1>1, <1>2 DEF Begins, Bytes

LEMMA BytesEqual ==
  ASSUME NEW s \in Bytes, NEW t \in Bytes, Begins(s, t), Len(s) = Len(t)
  PROVE  s = t
  BY SeqEqual DEF Begins, Bytes

LEMMA BeginsIsPrefix ==
  ASSUME NEW s \in Bytes, NEW t \in Bytes
  PROVE  IsPrefix(s, t) <=> Begins(s, t)
  <1>1. Len(s) \in Nat /\ Len(t) \in Nat
    BY BytesLen
  <1>2. SUFFICES ASSUME Len(s) <= Len(t)
                 PROVE  (SubSeq(s, 1, Len(s)) = SubSeq(t, 1, Len(s)))
                          <=> \A i \in 1..Len(s) : s[i] = t[i]
    BY DEF IsPrefix, Begins
  <1> DEFINE u == SubSeq(t, 1, Len(s))
  <1>3. SubSeq(s, 1, Len(s)) = s
    BY SubSeqFull DEF Bytes
  <1>4. /\ u \in Bytes /\ Len(u) = Len(s)
        /\ \A i \in 1..Len(s) : u[i] = t[i]
    BY <1>1, <1>2, BytesBefore
  <1> HIDE DEF u
  <1>5. ASSUME \A i \in 1..Len(s) : s[i] = t[i]
        PROVE  s = u
    BY <1>4, <1>5, BytesEqual, <1>1 DEF Begins
  <1>6. ASSUME s = u
        PROVE  \A i \in 1..Len(s) : s[i] = t[i]
    BY <1>4, <1>6
  <1> QED
    BY <1>3, <1>5, <1>6 DEF u

LEMMA BeginsThrough ==
  ASSUME NEW s \in Bytes, NEW t \in Bytes, NEW u \in Bytes,
         Begins(s, t), Begins(t, u)
  PROVE  Begins(s, u)
  BY BytesLen DEF Begins

\* Of two beginnings of one stream, the shorter one begins the other.
LEMMA BeginsCompare ==
  ASSUME NEW s \in Bytes, NEW t \in Bytes, NEW u \in Bytes,
         Begins(s, u), Begins(t, u), Len(s) <= Len(t)
  PROVE  Begins(s, t)
  BY BytesLen DEF Begins

LEMMA BeginsJoined ==
  ASSUME NEW s \in Bytes, NEW t \in Bytes
  PROVE  Begins(s, s \o t)
  BY BytesLen, BytesJoined DEF Begins

\* What follows n bytes of a beginning begins what follows n bytes.
LEMMA BeginsBehind ==
  ASSUME NEW s \in Bytes, NEW t \in Bytes, Begins(s, t), NEW n \in 0..Len(s)
  PROVE  /\ Begins(Behind(s, n), Behind(t, n))
         /\ n \in 0..Len(t) /\ Len(Behind(t, n)) = Len(t) - n
         /\ Len(Behind(s, n)) = Len(s) - n
  <1>1. Len(s) \in Nat /\ Len(t) \in Nat /\ Len(s) <= Len(t)
        /\ \A i \in 1..Len(s) : s[i] = t[i]
    BY BytesLen DEF Begins
  <1>2. n \in 0..Len(t)
    BY <1>1
  <1>3. /\ Len(Behind(s, n)) = Len(s) - n
        /\ \A i \in 1..(Len(s) - n) : Behind(s, n)[i] = s[i + n]
    BY BytesBehind
  <1>4. /\ Len(Behind(t, n)) = Len(t) - n
        /\ \A i \in 1..(Len(t) - n) : Behind(t, n)[i] = t[i + n]
    BY <1>2, BytesBehind
  <1>5. ASSUME NEW i \in 1..(Len(s) - n)
        PROVE  Behind(s, n)[i] = Behind(t, n)[i]
    <2>1. i \in 1..(Len(t) - n) /\ i + n \in 1..Len(s)
      BY <1>1
    <2> QED
      BY <1>1, <1>3, <1>4, <2>1
  <1> QED
    BY <1>1, <1>2, <1>3, <1>4, <1>5 DEF Begins

LEMMA BehindFirst ==
  ASSUME NEW s \in Bytes, NEW t \in Bytes
  PROVE  Behind(s \o t, Len(s)) = t
  <1>1. /\ Len(s) \in Nat /\ Len(t) \in Nat /\ s \o t \in Bytes
        /\ Len(s \o t) = Len(s) + Len(t)
        /\ \A i \in 1..Len(t) : (s \o t)[Len(s) + i] = t[i]
    BY BytesLen, BytesJoined
  <1>2. /\ Behind(s \o t, Len(s)) \in Bytes
        /\ Len(Behind(s \o t, Len(s))) = Len(t)
        /\ \A i \in 1..Len(t) : Behind(s \o t, Len(s))[i] = (s \o t)[i + Len(s)]
    <2> DEFINE u == s \o t
               k == Len(s)
    <2>1. u \in Bytes /\ k \in 0..Len(u) /\ Len(u) - k = Len(t)
      BY <1>1
    <2> HIDE DEF u, k
    <2>2. /\ Behind(u, k) \in Bytes /\ Len(Behind(u, k)) = Len(u) - k
          /\ \A i \in 1..(Len(u) - k) : Behind(u, k)[i] = u[i + k]
      BY <2>1, BytesBehind
    <2> QED
      BY <2>1, <2>2 DEF u, k
  <1>3. \A i \in 1..Len(t) : i + Len(s) = Len(s) + i
    BY <1>1
  <1> QED
    BY <1>1, <1>2, <1>3, SeqEqual DEF Bytes

LEMMA BehindSome ==
  ASSUME NEW s \in Bytes, NEW t \in Bytes, NEW n \in 0..Len(s)
  PROVE  Behind(s \o t, n) = Behind(s, n) \o t
  <1> DEFINE l == Behind(s \o t, n)
             r == Behind(s, n) \o t
  <1>1. /\ Len(s) \in Nat /\ Len(t) \in Nat /\ s \o t \in Bytes
        /\ Len(s \o t) = Len(s) + Len(t)
        /\ \A i \in 1..Len(s) : (s \o t)[i] = s[i]
        /\ \A i \in 1..Len(t) : (s \o t)[Len(s) + i] = t[i]
    BY BytesLen, BytesJoined
  <1>2. n \in 0..Len(s \o t)
    BY <1>1
  <1>3. /\ l \in Bytes /\ Len(l) = Len(s) + Len(t) - n
        /\ \A i \in 1..(Len(s) + Len(t) - n) : l[i] = (s \o t)[i + n]
    <2>1. /\ l \in Bytes /\ Len(l) = Len(s \o t) - n
          /\ \A i \in 1..(Len(s \o t) - n) : l[i] = (s \o t)[i + n]
      BY <1>1, <1>2, BytesBehind
    <2> HIDE DEF l
    <2> QED
      BY <1>1, <2>1
  <1>4. /\ Behind(s, n) \in Bytes /\ Len(Behind(s, n)) = Len(s) - n
        /\ \A i \in 1..(Len(s) - n) : Behind(s, n)[i] = s[i + n]
    BY BytesBehind
  <1>5. /\ r \in Bytes /\ Len(r) = (Len(s) - n) + Len(t)
        /\ \A i \in 1..(Len(s) - n) : r[i] = Behind(s, n)[i]
        /\ \A i \in 1..Len(t) : r[(Len(s) - n) + i] = t[i]
    <2> DEFINE u == Behind(s, n)
    <2>1. u \in Bytes
      BY <1>4
    <2> HIDE DEF u
    <2>2. /\ u \o t \in Bytes /\ Len(u \o t) = Len(u) + Len(t)
          /\ \A i \in 1..Len(u) : (u \o t)[i] = u[i]
          /\ \A i \in 1..Len(t) : (u \o t)[Len(u) + i] = t[i]
      BY <2>1, BytesJoined
    <2>3. r = u \o t /\ Len(u) = Len(s) - n /\ u = Behind(s, n)
      BY <1>4 DEF u
    <2> HIDE DEF r
    <2> QED
      BY <2>2, <2>3
  <1> HIDE DEF l, r
  <1>6. ASSUME NEW i \in 1..Len(l)
        PROVE  l[i] = r[i]
    <2>1. CASE i <= Len(s) - n
      <3>1. i \in 1..(Len(s) - n) /\ i + n \in 1..Len(s)
            /\ i \in 1..(Len(s) + Len(t) - n)
        BY <1>1, <1>3, <2>1
      <3> QED
        BY <1>1, <1>3, <1>4, <1>5, <3>1
    <2>2. CASE i > Len(s) - n
      <3> DEFINE j == i - (Len(s) - n)
      <3>1. /\ j \in 1..Len(t) /\ i = (Len(s) - n) + j
            /\ i + n = Len(s) + j /\ i \in 1..(Len(s) + Len(t) - n)
        BY <1>1, <1>3, <2>2
      <3> HIDE DEF j
      <3>2. r[i] = t[j] /\ (s \o t)[i + n] = t[j]
        BY <1>1, <1>5, <3>1
      <3> QED
        BY <1>3, <3>1, <3>2
    <2> QED
      BY <1>1, <1>3, <2>1, <2>2
  <1>7. Len(l) = Len(r)
    BY <1>1, <1>3, <1>5
  <1>8. l = r
    BY <1>3, <1>5, <1>6, <1>7, SeqEqual DEF Bytes
  <1> QED
    BY <1>8 DEF l, r

LEMMA BehindTwice ==
  ASSUME NEW S, NEW s \in Seq(S), NEW m \in Nat, NEW n \in Nat,
         m + n <= Len(s)
  PROVE  Behind(Behind(s, m), n) = Behind(s, m + n)
  <1>1. Len(s) \in Nat /\ m \in 0..Len(s) /\ m + n \in 0..Len(s)
        /\ n \in 0..(Len(s) - m)
    OBVIOUS
  <1>2. /\ Behind(s, m) \in Seq(S) /\ Len(Behind(s, m)) = Len(s) - m
        /\ \A i \in 1..(Len(s) - m) : Behind(s, m)[i] = s[i + m]
    BY <1>1, BehindProperties
  <1>3. /\ Behind(s, m + n) \in Seq(S)
        /\ Len(Behind(s, m + n)) = Len(s) - (m + n)
        /\ \A i \in 1..(Len(s) - (m + n)) : Behind(s, m + n)[i] = s[i + (m + n)]
    BY <1>1, BehindProperties
  <1> DEFINE l == Behind(Behind(s, m), n)
  <1>4. /\ l \in Seq(S) /\ Len(l) = (Len(s) - m) - n
        /\ \A i \in 1..((Len(s) - m) - n) : l[i] = Behind(s, m)[i + n]
    <2> DEFINE u == Behind(s, m)
    <2>1. u \in Seq(S) /\ n \in 0..Len(u) /\ Len(u) = Len(s) - m
      BY <1>1, <1>2
    <2> HIDE DEF u
    <2>2. /\ Behind(u, n) \in Seq(S) /\ Len(Behind(u, n)) = Len(u) - n
          /\ \A i \in 1..(Len(u) - n) : Behind(u, n)[i] = u[i + n]
      BY <2>1, BehindProperties
    <2>3. l = Behind(u, n) /\ u = Behind(s, m)
      BY DEF u
    <2> HIDE DEF l
    <2> QED
      BY <2>1, <2>2, <2>3
  <1> HIDE DEF l
  <1>5. ASSUME NEW i \in 1..Len(l)
        PROVE  l[i] = Behind(s, m + n)[i]
    <2>1. /\ i \in 1..((Len(s) - m) - n) /\ i \in 1..(Len(s) - (m + n))
          /\ i + n \in 1..(Len(s) - m) /\ (i + n) + m = i + (m + n)
      BY <1>1, <1>4
    <2> QED
      BY <1>2, <1>3, <1>4, <2>1
  <1>6. Len(l) = Len(Behind(s, m + n))
    BY <1>1, <1>3, <1>4
  <1>7. l = Behind(s, m + n)
    BY <1>3, <1>4, <1>5, <1>6, SeqEqual
  <1> QED
    BY <1>7 DEF l

\* What recv takes from the network is in the buffer then: the bytes that are
\* ahead stay the same.
LEMMA Received ==
  ASSUME NEW b \in Bytes, NEW f \in Bytes, NEW n \in 0..Len(f)
  PROVE  /\ b \o SubSeq(f, 1, n) \in Bytes
         /\ Len(b \o SubSeq(f, 1, n)) = Len(b) + n
         /\ Behind(f, n) \in Bytes
         /\ Len(Behind(f, n)) = Len(f) - n
         /\ (b \o SubSeq(f, 1, n)) \o Behind(f, n) = b \o f
  <1> DEFINE g == SubSeq(f, 1, n)
  <1>1. g \in Bytes /\ Len(g) = n /\ \A i \in 1..n : g[i] = f[i]
    BY BytesBefore
  <1>2. /\ Behind(f, n) \in Bytes /\ Len(Behind(f, n)) = Len(f) - n
        /\ \A i \in 1..(Len(f) - n) : Behind(f, n)[i] = f[i + n]
    BY BytesBehind
  <1> HIDE DEF g
  <1>3. Len(f) \in Nat
    BY BytesLen
  <1>4. /\ g \o Behind(f, n) \in Bytes
        /\ Len(g \o Behind(f, n)) = n + (Len(f) - n)
        /\ \A i \in 1..n : (g \o Behind(f, n))[i] = g[i]
        /\ \A i \in 1..(Len(f) - n) :
             (g \o Behind(f, n))[n + i] = Behind(f, n)[i]
    <2> DEFINE u == Behind(f, n)
    <2>1. u \in Bytes /\ Len(u) = Len(f) - n
      BY <1>2
    <2> HIDE DEF u
    <2>2. /\ g \o u \in Bytes /\ Len(g \o u) = Len(g) + Len(u)
          /\ \A i \in 1..Len(g) : (g \o u)[i] = g[i]
          /\ \A i \in 1..Len(u) : (g \o u)[Len(g) + i] = u[i]
      BY <1>1, <2>1, BytesJoined
    <2>3. u = Behind(f, n)
      BY DEF u
    <2> QED
      BY <1>1, <2>1, <2>2, <2>3
  <1>5. ASSUME NEW i \in 1..Len(f)
        PROVE  (g \o Behind(f, n))[i] = f[i]
    <2>1. CASE i <= n
      <3>1. i \in 1..n
        BY <2>1
      <3> QED
        BY <1>1, <1>4, <3>1
    <2>2. CASE i > n
      <3> DEFINE j == i - n
      <3>1. j \in 1..(Len(f) - n) /\ i = n + j /\ i = j + n
        BY <1>3, <2>2
      <3> HIDE DEF j
      <3> QED
        BY <1>2, <1>4, <3>1
    <2>3. i <= n \/ i > n
      BY <1>3
    <2> QED
      BY <2>1, <2>2, <2>3
  <1>6. g \o Behind(f, n) = f
    <2>1. Len(g \o Behind(f, n)) = Len(f)
      BY <1>3, <1>4
    <2> QED
      BY <1>4, <1>5, <2>1, SeqEqual DEF Bytes
  <1>7. (b \o g) \o Behind(f, n) = b \o f
    <2>1. b \o (g \o Behind(f, n)) = (b \o g) \o Behind(f, n)
      BY <1>1, <1>2, Regroup
    <2> QED
      BY <1>6, <2>1
  <1>8. /\ b \o g \in Bytes /\ Len(b \o g) = Len(b) + n
    BY <1>1, BytesJoined
  <1> QED
    BY <1>2, <1>7, <1>8 DEF g

-----------------------------------------------------------------------------
(* The stream of packets.                                                  *)

LEMMA PacketsAreBytes ==
  ASSUME NEW packet \in Packets
  PROVE  packet \in Bytes /\ packet # <<>> /\ Framed(packet)
  <1>1. packet \in Bytes /\ Framed(packet)
    BY ReceiveAssumption DEF Bytes, Byte
  <1>2. ~Framed(<<>>)
    BY DEF Framed, MQTT_ProcessIncomingPacketTypeAndLength, HeaderError
  <1> QED
    BY <1>1, <1>2

\* The stream begins with the packet that is next.
LEMMA StreamFirst ==
  ASSUME NEW seqs \in Seq(Packets), NEW d \in Nat, d < Len(seqs)
  PROVE  /\ seqs[d + 1] \in Packets
         /\ FlattenSeq(Behind(seqs, d + 1)) \in Bytes
         /\ FlattenSeq(Behind(seqs, d))
              = seqs[d + 1] \o FlattenSeq(Behind(seqs, d + 1))
  <1>1. Packets \subseteq Bytes
    BY PacketsAreBytes
  <1>2. Len(seqs) \in Nat /\ seqs[d + 1] \in Packets
    OBVIOUS
  <1>3. seqs \in Seq(Bytes)
    BY <1>1, SeqMonotonic
  <1>4. d \in 0..Len(seqs) /\ d + 1 \in 0..Len(seqs)
    BY <1>2
  <1>5. /\ Behind(seqs, d) \in Seq(Bytes) /\ Len(Behind(seqs, d)) = Len(seqs) - d
        /\ \A i \in 1..(Len(seqs) - d) : Behind(seqs, d)[i] = seqs[i + d]
        /\ Behind(seqs, d + 1) \in Seq(Bytes)
    BY <1>3, <1>4, BehindProperties
  <1>6. Behind(seqs, d) # <<>> /\ Behind(seqs, d)[1] = seqs[d + 1]
    <2>1. Len(<<>>) = 0 /\ 1 \in 1..(Len(seqs) - d) /\ 1 + d = d + 1
      BY <1>2
    <2> QED
      BY <1>5, <2>1
  <1>7. Behind(Behind(seqs, d), 1) = Behind(seqs, d + 1)
    BY <1>2, <1>3, BehindTwice
  <1>8. FlattenSeq(Behind(seqs, d + 1)) \in Bytes
    BY <1>5, FlattenBytes
  <1> QED
    BY <1>2, <1>5, <1>6, <1>7, <1>8, FlattenFirst

\* A packet that is sent continues the stream.
LEMMA StreamAppend ==
  ASSUME NEW seqs \in Seq(Packets), NEW d \in 0..Len(seqs),
         NEW packet \in Packets
  PROVE  /\ FlattenSeq(Behind(seqs, d)) \in Bytes
         /\ FlattenSeq(Behind(Append(seqs, packet), d))
              = FlattenSeq(Behind(seqs, d)) \o packet
  <1>1. Packets \subseteq Bytes
    BY PacketsAreBytes
  <1>2. seqs \in Seq(Bytes) /\ packet \in Bytes
    BY <1>1, SeqMonotonic
  <1> DEFINE all == Append(seqs, packet)
             rest == Behind(seqs, d)
  <1>3. /\ all \in Seq(Bytes) /\ Len(all) = Len(seqs) + 1 /\ Len(seqs) \in Nat
        /\ \A i \in 1..Len(seqs) : all[i] = seqs[i]
        /\ all[Len(seqs) + 1] = packet
    BY <1>2
  <1>4. /\ rest \in Seq(Bytes) /\ Len(rest) = Len(seqs) - d
        /\ \A i \in 1..(Len(seqs) - d) : rest[i] = seqs[i + d]
    BY <1>2, BehindProperties
  <1>5. /\ Behind(all, d) \in Seq(Bytes)
        /\ Len(Behind(all, d)) = Len(seqs) + 1 - d
        /\ \A i \in 1..(Len(seqs) + 1 - d) : Behind(all, d)[i] = all[i + d]
    <2>1. d \in 0..Len(all)
      BY <1>3
    <2> HIDE DEF all
    <2>2. /\ Behind(all, d) \in Seq(Bytes)
          /\ Len(Behind(all, d)) = Len(all) - d
          /\ \A i \in 1..(Len(all) - d) : Behind(all, d)[i] = all[i + d]
      BY <1>3, <2>1, BehindProperties
    <2> QED
      BY <1>3, <2>2
  <1> HIDE DEF all, rest
  <1>6. /\ Append(rest, packet) \in Seq(Bytes)
        /\ Len(Append(rest, packet)) = Len(seqs) - d + 1
        /\ \A i \in 1..(Len(seqs) - d) : Append(rest, packet)[i] = rest[i]
        /\ Append(rest, packet)[Len(seqs) - d + 1] = packet
    BY <1>2, <1>4, AppendProperties
  <1>7. ASSUME NEW i \in 1..Len(Behind(all, d))
        PROVE  Behind(all, d)[i] = Append(rest, packet)[i]
    <2>0. i \in 1..(Len(seqs) + 1 - d)
      BY <1>5, <1>7
    <2>1. CASE i <= Len(seqs) - d
      <3>1. i \in 1..(Len(seqs) - d) /\ i + d \in 1..Len(seqs)
            /\ i \in 1..(Len(seqs) + 1 - d)
        BY <1>3, <2>0, <2>1
      <3> QED
        BY <1>3, <1>4, <1>5, <1>6, <3>1
    <2>2. CASE i > Len(seqs) - d
      <3>1. i = Len(seqs) - d + 1 /\ i + d = Len(seqs) + 1
            /\ i \in 1..(Len(seqs) + 1 - d)
        BY <1>3, <2>0, <2>2
      <3> QED
        BY <1>3, <1>5, <1>6, <3>1
    <2>3. i <= Len(seqs) - d \/ i > Len(seqs) - d
      BY <1>3, <2>0
    <2> QED
      BY <2>1, <2>2, <2>3
  <1>8. Behind(all, d) = Append(rest, packet)
    <2>1. Len(Behind(all, d)) = Len(Append(rest, packet))
      BY <1>3, <1>5, <1>6
    <2> QED
      BY <1>5, <1>6, <1>7, <2>1, SeqEqual
  <1>9. FlattenSeq(rest) \in Bytes
    BY <1>4, FlattenBytes
  <1>10. FlattenSeq(Append(rest, packet)) = FlattenSeq(rest) \o packet
    BY <1>2, <1>4, FlattenAppend
  <1> QED
    BY <1>8, <1>9, <1>10 DEF all, rest

-----------------------------------------------------------------------------
(* The inductive invariant.                                                *)

Records == [bytes : Bytes, fate : {"handled", "dropped"}]

TypeInv ==
  /\ transport \in {"polling", "blocking"}
  /\ link \in {"down", "up", "closed", "reset"}
  /\ connectStatus \in {"MQTTNotConnected", "MQTTConnected",
                        "MQTTDisconnectPending"}
  /\ pc \in {"idle", "connect", "discard"}
  /\ inFlight \in Bytes /\ buffer \in Bytes /\ left \in Nat
  /\ answer \in {"none", "accepted", "refused"}
  /\ sent \in Seq(Packets)
  /\ done \in Seq(Records)

\* What belongs to each phase of a connection.
Phases ==
  /\ link = "down" => connectStatus = "MQTTNotConnected" /\ pc = "idle"
  /\ link \in {"down", "reset"} => inFlight = <<>>
  /\ connectStatus = "MQTTNotConnected" =>
       buffer = <<>> /\ pc # "discard" /\ (link # "down" => done = <<>>)
  /\ pc = "connect" => connectStatus = "MQTTNotConnected"
  /\ pc = "discard" => ~IsError(result)
  /\ connectStatus = "MQTTDisconnectPending" => IsError(result)

\* These bytes are the stream or, when the link is not up any more, as much of
\* it as has survived.
Along(up, bytes, stream) ==
  Begins(bytes, stream) /\ (up => Len(bytes) = Len(stream))

\* The CONNACK comes before everything else.
Connecting ==
  IF answer = "none"
    THEN inFlight = <<>> /\ sent = <<>>
    ELSE \E connack \in Connacks :
           Along(link = "up", inFlight, connack \o FlattenSeq(sent))

\* What became of a packet.
Fate(record, packet) ==
  IF Len(packet) <= BufferSize
    THEN /\ record = [bytes |-> packet, fate |-> "handled"]
         /\ packet \notin Faulty
    ELSE record.fate = "dropped" /\ Begins(record.bytes, packet)

\* The beginning of an oversized packet is in the buffer, the rest ahead.
Discarding ==
  /\ Len(done) < Len(sent)
  /\ Len(sent[Len(done) + 1]) > BufferSize
  /\ left \in 1..Len(sent[Len(done) + 1])
  /\ Begins(buffer, sent[Len(done) + 1])
  /\ Along(link = "up", inFlight,
           Behind(Unfinished, Len(sent[Len(done) + 1]) - left))

InStep ==
  /\ Len(done) <= Len(sent)
  /\ \A k \in 1..Len(done) : Fate(done[k], sent[k])
  /\ pc = "idle" =>
       /\ Len(buffer) < BufferSize
       /\ Along(link = "up", buffer \o inFlight, Unfinished)
  /\ pc = "discard" => Discarding

\* Why the last call failed.
Explained ==
  /\ Len(done) <= Len(sent)
  /\ result = "MQTTBadResponse" =>
       \E packet \in AtHand : packet \in Faulty \/ packet[1] \in PublishAcks
  /\ result = "MQTTRecvFailed" =>
       \/ link # "up"
       \/ \E packet \in AtHand : AsksForAck(packet)
       \/ transport = "polling" /\ \E packet \in AtHand : Len(packet) > BufferSize
  /\ \A k \in 1..Len(done) :
       k <= Len(sent) /\ sent[k] \in Faulty /\ Len(sent[k]) <= BufferSize =>
         k = Len(done)

Inv ==
  /\ TypeInv
  /\ Phases
  /\ pc = "connect" => Connecting
  /\ connectStatus = "MQTTConnected" /\ ~IsError(result) => InStep
  /\ connectStatus # "MQTTNotConnected" /\ IsError(result) => Explained

-----------------------------------------------------------------------------
(* One packet.                                                             *)

LEMMA MinOfTwo ==
  ASSUME NEW a \in Int, NEW b \in Int
  PROVE  /\ Min({a, b}) \in {a, b}
         /\ Min({a, b}) <= a /\ Min({a, b}) <= b
  <1>1. \E x \in {a, b} : \A y \in {a, b} : x <= y
    BY a <= b \/ b <= a
  <1>2. /\ Min({a, b}) \in {a, b}
        /\ \A y \in {a, b} : Min({a, b}) <= y
    BY <1>1 DEF Min
  <1> QED
    BY <1>2

\* What recv returns: an error when the link is gone, else so many bytes.
LEMMA RecvGives ==
  ASSUME link \in {"down", "up", "closed", "reset"},
         transport \in {"polling", "blocking"},
         NEW bytes \in Bytes, NEW request \in Nat, request > 0,
         NEW received \in RecvFrom(bytes, request)
  PROVE  /\ \/ received = -1 /\ link # "up"
            \/ received \in 0..Len(bytes) /\ received <= request
         /\ received = 0 => link # "up" \/ transport = "polling"
  <1>1. Len(bytes) \in Nat /\ (bytes = <<>> <=> Len(bytes) = 0)
    BY BytesLen
  <1>2. CASE link = "reset"
    BY <1>2 DEF RecvFrom
  <1>3. CASE link # "reset" /\ bytes # <<>>
    <2> DEFINE m == Min({request, Len(bytes)})
    <2>0. request \in Int /\ Len(bytes) \in Int
      BY <1>1
    <2>1. m \in {request, Len(bytes)} /\ m <= request /\ m <= Len(bytes)
      BY <2>0, MinOfTwo
    <2> HIDE DEF m
    <2>2. received \in (IF transport = "polling" THEN 0 ELSE 1)..m
      BY <1>3 DEF RecvFrom, m
    <2>3. m \in Nat
      BY <1>1, <2>1
    <2> QED
      BY <1>1, <2>1, <2>2, <2>3
  <1>4. CASE link # "reset" /\ bytes = <<>>
    <2>1. received \in IF link = "closed"
                         THEN {IF transport = "polling" THEN -1 ELSE 0}
                         ELSE {0 : t \in {"polling"} \intersect {transport}}
      BY <1>4 DEF RecvFrom
    <2>2. CASE link = "closed"
      BY <1>1, <1>4, <2>1, <2>2
    <2>3. CASE link # "closed"
      <3>1. received = 0 /\ transport = "polling"
        BY <2>1, <2>3
      <3> QED
        BY <1>1, <1>4, <3>1
    <2> QED
      BY <2>2, <2>3
  <1> QED
    BY <1>2, <1>3, <1>4

\* The header of what has arrived says of the packet that is next what the
\* header of the whole packet says.
LEMMA PacketRead ==
  ASSUME NEW packet \in Packets, NEW rest \in Bytes, NEW bytes \in Bytes,
         bytes # <<>>, Begins(bytes, packet \o rest)
  PROVE  LET header == MQTT_ProcessIncomingPacketTypeAndLength(bytes)
         IN  /\ header.status \in {"MQTTSuccess", "MQTTBadResponse",
                                   "MQTTNeedMoreBytes"}
             /\ header.status = "MQTTNeedMoreBytes" => Len(bytes) <= 4
             /\ header.status = "MQTTBadResponse" => packet \in Faulty
             /\ header.status = "MQTTSuccess" =>
                  /\ header = MQTT_ProcessIncomingPacketTypeAndLength(packet)
                  /\ header.type = packet[1]
                  /\ header.headerLength \in Nat
                  /\ header.remainingLength \in Int
                  /\ header.headerLength + header.remainingLength = Len(packet)
  <1> DEFINE header == MQTT_ProcessIncomingPacketTypeAndLength(bytes)
             whole == MQTT_ProcessIncomingPacketTypeAndLength(packet)
  <1>1. /\ packet \in Bytes /\ packet # <<>>
        /\ whole.status \in {"MQTTSuccess", "MQTTBadResponse"}
        /\ whole.status = "MQTTSuccess" =>
             whole.remainingLength = Len(packet) - whole.headerLength
    BY PacketsAreBytes DEF Framed
  <1>2. /\ header.status \in {"MQTTSuccess", "MQTTBadResponse",
                              "MQTTNeedMoreBytes"}
        /\ header.status = "MQTTNeedMoreBytes" => Len(bytes) <= 4
    BY HeaderShape
  <1>3. whole.status = "MQTTSuccess" =>
          whole.type = packet[1] /\ whole.headerLength \in 2..5
    BY <1>1, HeaderShape
  <1>4. whole.status = "MQTTBadResponse" => packet \in Faulty
    BY ReceiveAssumption DEF Readable
  <1>5. header.status # "MQTTNeedMoreBytes" => header = whole
    <2>1. /\ Len(packet) \in Nat /\ Len(bytes) \in Nat
          /\ packet \o rest \in Bytes /\ Begins(packet, packet \o rest)
      BY <1>1, BytesLen, BytesJoined, BeginsJoined
    <2>2. CASE Len(bytes) <= Len(packet)
      <3>1. Begins(bytes, packet)
        BY <1>1, <2>1, <2>2, BeginsCompare
      <3> QED
        BY <1>1, <3>1, HeaderStable
    <2>3. CASE Len(packet) <= Len(bytes)
      <3>1. Begins(packet, bytes)
        BY <1>1, <2>1, <2>3, BeginsCompare
      <3> QED
        BY <1>1, <3>1, HeaderStable
    <2> QED
      BY <2>1, <2>2, <2>3
  <1>6. Len(packet) \in Nat
    BY <1>1, BytesLen
  <1> HIDE DEF header, whole
  <1>7. header.status = "MQTTSuccess" =>
          /\ header.remainingLength \in Int
          /\ header.headerLength + header.remainingLength = Len(packet)
    BY <1>1, <1>3, <1>5, <1>6
  <1> QED
    BY <1>2, <1>3, <1>4, <1>5, <1>7 DEF header, whole

LEMMA AckStatuses ==
  ASSUME NEW type, NEW data
  PROVE  MQTT_DeserializeAck(type, data).status
           \in {"MQTTSuccess", "MQTTBadResponse", "MQTTServerRefused"}
  <1> DEFINE Read(ack) ==
               ack.status \in {"MQTTSuccess", "MQTTBadResponse",
                               "MQTTServerRefused"}
  <1>1. \A status, id, present : AckRead(status, id, present).status = status
    BY DEF AckRead
  <1>2. \A id, present : /\ Read(AckRead("MQTTSuccess", id, present))
                         /\ Read(AckRead("MQTTBadResponse", id, present))
                         /\ Read(AckRead("MQTTServerRefused", id, present))
    BY <1>1
  <1>3. Read(deserializeConnack(data))
    <2> DEFINE present == data[1] = 1
               bad == \/ Len(data) # 2
                      \/ data[1] > 1
                      \/ present /\ data[2] # 0
                      \/ data[2] > 5
               refused == data[2] > 0
    <2>1. deserializeConnack(data) =
            IF bad THEN AckRead("MQTTBadResponse", 0, FALSE)
            ELSE AckRead(IF refused THEN "MQTTServerRefused" ELSE "MQTTSuccess",
                         0, present)
      BY DEF deserializeConnack
    <2> HIDE DEF bad, refused, present, Read
    <2>2. CASE bad
      BY <1>2, <2>1, <2>2
    <2>3. CASE ~bad /\ refused
      BY <1>2, <2>1, <2>3
    <2>4. CASE ~bad /\ ~refused
      BY <1>2, <2>1, <2>4
    <2> QED
      BY <2>2, <2>3, <2>4
  <1>4. \A codes : readSubackStatus(codes)
          \in {"MQTTSuccess", "MQTTBadResponse", "MQTTServerRefused"}
    BY DEF readSubackStatus
  <1>5. Read(deserializeSuback(data))
    <2>1. CASE Len(data) < 3
      <3>1. deserializeSuback(data) = AckRead("MQTTBadResponse", 0, FALSE)
        BY <2>1 DEF deserializeSuback
      <3> QED
        BY <1>2, <3>1
    <2>2. CASE ~(Len(data) < 3) /\ UINT16_DECODE(data, 1) = 0
      <3>1. deserializeSuback(data) = AckRead("MQTTBadResponse", 0, FALSE)
        BY <2>2 DEF deserializeSuback
      <3> QED
        BY <1>2, <3>1
    <2>3. CASE ~(Len(data) < 3) /\ UINT16_DECODE(data, 1) # 0
      <3>1. deserializeSuback(data) =
              AckRead(readSubackStatus(SubSeq(data, 3, Len(data))),
                      UINT16_DECODE(data, 1), FALSE)
        BY <2>3 DEF deserializeSuback
      <3>2. deserializeSuback(data).status
              = readSubackStatus(SubSeq(data, 3, Len(data)))
        BY <1>1, <3>1
      <3>3. readSubackStatus(SubSeq(data, 3, Len(data)))
              \in {"MQTTSuccess", "MQTTBadResponse", "MQTTServerRefused"}
        BY <1>4
      <3> QED
        BY <3>2, <3>3
    <2> QED
      BY <2>1, <2>2, <2>3
  <1>6. Read(deserializePingresp(data))
    BY <1>1 DEF deserializePingresp
  <1>7. Read(deserializeSimpleAck(data))
    BY <1>1 DEF deserializeSimpleAck
  <1>8. \/ MQTT_DeserializeAck(type, data) = deserializeConnack(data)
        \/ MQTT_DeserializeAck(type, data) = deserializeSuback(data)
        \/ MQTT_DeserializeAck(type, data) = deserializePingresp(data)
        \/ MQTT_DeserializeAck(type, data) = deserializeSimpleAck(data)
        \/ MQTT_DeserializeAck(type, data) = AckRead("MQTTBadResponse", 0, FALSE)
    <2> DEFINE known == PublishAcks \union {MQTT_PACKET_TYPE_UNSUBACK}
    <2>1. CASE type = MQTT_PACKET_TYPE_CONNACK
      <3>1. /\ type # MQTT_PACKET_TYPE_SUBACK
            /\ type # MQTT_PACKET_TYPE_PINGRESP /\ type \notin known
        BY <2>1 DEF PublishAcks, MQTT_PACKET_TYPE_PUBACK,
               MQTT_PACKET_TYPE_PUBREC, MQTT_PACKET_TYPE_PUBREL,
               MQTT_PACKET_TYPE_PUBCOMP, MQTT_PACKET_TYPE_PINGRESP,
               MQTT_PACKET_TYPE_SUBACK, MQTT_PACKET_TYPE_UNSUBACK,
               MQTT_PACKET_TYPE_CONNACK
      <3> QED
        BY <2>1, <3>1 DEF MQTT_DeserializeAck
    <2>2. CASE type = MQTT_PACKET_TYPE_SUBACK
      <3>1. /\ type # MQTT_PACKET_TYPE_CONNACK
            /\ type # MQTT_PACKET_TYPE_PINGRESP /\ type \notin known
        BY <2>2 DEF PublishAcks, MQTT_PACKET_TYPE_PUBACK,
               MQTT_PACKET_TYPE_PUBREC, MQTT_PACKET_TYPE_PUBREL,
               MQTT_PACKET_TYPE_PUBCOMP, MQTT_PACKET_TYPE_PINGRESP,
               MQTT_PACKET_TYPE_SUBACK, MQTT_PACKET_TYPE_UNSUBACK,
               MQTT_PACKET_TYPE_CONNACK
      <3> QED
        BY <2>2, <3>1 DEF MQTT_DeserializeAck
    <2>3. CASE type = MQTT_PACKET_TYPE_PINGRESP
      <3>1. /\ type # MQTT_PACKET_TYPE_CONNACK
            /\ type # MQTT_PACKET_TYPE_SUBACK /\ type \notin known
        BY <2>3 DEF PublishAcks, MQTT_PACKET_TYPE_PUBACK,
               MQTT_PACKET_TYPE_PUBREC, MQTT_PACKET_TYPE_PUBREL,
               MQTT_PACKET_TYPE_PUBCOMP, MQTT_PACKET_TYPE_PINGRESP,
               MQTT_PACKET_TYPE_SUBACK, MQTT_PACKET_TYPE_UNSUBACK,
               MQTT_PACKET_TYPE_CONNACK
      <3> QED
        BY <2>3, <3>1 DEF MQTT_DeserializeAck
    <2>4. CASE /\ type # MQTT_PACKET_TYPE_CONNACK
               /\ type # MQTT_PACKET_TYPE_SUBACK
               /\ type # MQTT_PACKET_TYPE_PINGRESP
      <3> HIDE DEF known
      <3>1. CASE type \in known
        BY <2>4, <3>1 DEF MQTT_DeserializeAck, known
      <3>2. CASE type \notin known
        BY <2>4, <3>2 DEF MQTT_DeserializeAck, known
      <3> QED
        BY <3>1, <3>2
    <2> QED
      BY <2>1, <2>2, <2>3, <2>4
  <1> HIDE DEF Read
  <1>9. Read(MQTT_DeserializeAck(type, data))
    BY <1>2, <1>3, <1>5, <1>6, <1>7, <1>8
  <1> QED
    BY <1>9 DEF Read

\* What the handler of a whole packet may return.
LEMMA HandledStatus ==
  ASSUME NEW packet \in Packets,
         NEW header, header = MQTT_ProcessIncomingPacketTypeAndLength(packet),
         header.status = "MQTTSuccess", header.type = packet[1],
         NEW data, data = SubSeq(packet, header.headerLength + 1, Len(packet)),
         NEW status,
         status \in IF TypeBits(header.type) = MQTT_PACKET_TYPE_PUBLISH
                      THEN handleIncomingPublish(header.type, data)
                      ELSE handleIncomingAck(header.type, data)
  PROVE  /\ status = "MQTTBadResponse" =>
              packet \in Faulty \/ packet[1] \in PublishAcks
         /\ status = "MQTTRecvFailed" => AsksForAck(packet)
         /\ packet \in Faulty => IsError(status)
  <1>1. packet \in Faulty <=>
          ~ IF TypeBits(packet[1]) = MQTT_PACKET_TYPE_PUBLISH
              THEN deserializePublish(packet[1], data).status = "MQTTSuccess"
              ELSE /\ packet[1] \in PublishAcks \union
                        {MQTT_PACKET_TYPE_PINGRESP, MQTT_PACKET_TYPE_SUBACK,
                         MQTT_PACKET_TYPE_UNSUBACK}
                   /\ MQTT_DeserializeAck(packet[1], data).status
                        # "MQTTBadResponse"
    BY ReceiveAssumption DEF Readable
  <1>2. CASE TypeBits(packet[1]) = MQTT_PACKET_TYPE_PUBLISH
    <2> DEFINE read == deserializePublish(packet[1], data)
    <2>1. /\ read.status \in {"MQTTSuccess", "MQTTBadResponse"}
          /\ read.status = "MQTTSuccess" => read.info.qos = QoSOf(packet[1])
      BY DEF deserializePublish, BadPublish
    <2>2. status = IF read.status # "MQTTSuccess" THEN read.status
                   ELSE IF read.info.qos > 0 THEN "MQTTRecvFailed"
                                             ELSE "MQTTSuccess"
      BY <1>2 DEF handleIncomingPublish
    <2> HIDE DEF read
    <2>3. QoSOf(packet[1]) > 0 => QoSOf(packet[1]) # 0
      OBVIOUS
    <2> QED
      BY <1>1, <1>2, <2>1, <2>2, <2>3 DEF read, AsksForAck, IsError
  <1>3. CASE TypeBits(packet[1]) # MQTT_PACKET_TYPE_PUBLISH
    <2> DEFINE read == MQTT_DeserializeAck(packet[1], data).status
    <2>1. read \in {"MQTTSuccess", "MQTTBadResponse", "MQTTServerRefused"}
      BY AckStatuses
    <2>2. status \in handleIncomingAck(packet[1], data)
      BY <1>3
    <2>3. CASE packet[1] \in PublishAcks
      <3>0. /\ packet[1] # MQTT_PACKET_TYPE_PINGRESP
            /\ packet[1] \notin {MQTT_PACKET_TYPE_SUBACK, MQTT_PACKET_TYPE_UNSUBACK}
        BY <2>3 DEF PublishAcks, MQTT_PACKET_TYPE_PUBACK,
                    MQTT_PACKET_TYPE_PUBREC, MQTT_PACKET_TYPE_PUBREL,
                    MQTT_PACKET_TYPE_PUBCOMP, MQTT_PACKET_TYPE_PINGRESP,
                    MQTT_PACKET_TYPE_SUBACK, MQTT_PACKET_TYPE_UNSUBACK
      <3>1. status \in IF read = "MQTTSuccess"
                         THEN {"MQTTSuccess", "MQTTBadResponse"} ELSE {read}
        BY <2>2, <2>3, <3>0 DEF handleIncomingAck
      <3> HIDE DEF read
      <3> QED
        BY <1>1, <1>3, <2>1, <2>3, <3>1 DEF read, IsError
    <2>4. CASE packet[1] \notin PublishAcks /\ packet[1] = MQTT_PACKET_TYPE_PINGRESP
      <3>0. packet[1] \notin {MQTT_PACKET_TYPE_SUBACK, MQTT_PACKET_TYPE_UNSUBACK}
        BY <2>4 DEF MQTT_PACKET_TYPE_PINGRESP, MQTT_PACKET_TYPE_SUBACK,
                    MQTT_PACKET_TYPE_UNSUBACK
      <3>1. status = read
        BY <2>2, <2>4, <3>0 DEF handleIncomingAck
      <3> HIDE DEF read
      <3> QED
        BY <1>1, <1>3, <2>1, <2>4, <3>1 DEF read, IsError
    <2>5. CASE /\ packet[1] \notin PublishAcks
               /\ packet[1] # MQTT_PACKET_TYPE_PINGRESP
               /\ packet[1] \in {MQTT_PACKET_TYPE_SUBACK,
                                 MQTT_PACKET_TYPE_UNSUBACK}
      <3>1. status = IF read = "MQTTServerRefused" THEN "MQTTSuccess" ELSE read
        BY <2>2, <2>5 DEF handleIncomingAck
      <3> HIDE DEF read
      <3> QED
        BY <1>1, <1>3, <2>1, <2>5, <3>1 DEF read, IsError
    <2>6. CASE packet[1] \notin PublishAcks \union
                 {MQTT_PACKET_TYPE_PINGRESP, MQTT_PACKET_TYPE_SUBACK,
                  MQTT_PACKET_TYPE_UNSUBACK}
      <3>1. status = "MQTTBadResponse"
        BY <2>2, <2>6 DEF handleIncomingAck
      <3> QED
        BY <1>1, <1>3, <2>6, <3>1 DEF IsError
    <2> QED
      BY <2>3, <2>4, <2>5, <2>6
  <1> QED
    BY <1>2, <1>3

\* What a connection begins with: a CONNACK that is taken has four bytes.
LEMMA ConnackTaken ==
  ASSUME NEW connack \in Connacks, NEW rest \in Bytes, NEW bytes \in Bytes,
         Begins(bytes, connack \o rest), NEW stop, NEW cleanSession,
         connackStatus(bytes, stop, cleanSession) = "MQTTSuccess"
  PROVE  /\ connack \in Bytes /\ Len(connack) = 4 /\ Len(bytes) >= 4
         /\ BytesTaken(bytes)
              + MQTT_GetIncomingPacketTypeAndLength(bytes).remainingLength = 4
  <1> DEFINE header == MQTT_GetIncomingPacketTypeAndLength(bytes)
             data == Behind(bytes, BytesTaken(bytes))
             read == MQTT_ProcessIncomingPacketTypeAndLength(bytes)
             whole == MQTT_ProcessIncomingPacketTypeAndLength(connack)
  <1>1. bytes # <<>>
    BY DEF connackStatus
  <1>2. /\ header.status = "MQTTSuccess"
        /\ header.type = MQTT_PACKET_TYPE_CONNACK
        /\ ~(Len(data) < header.remainingLength)
        /\ MQTT_DeserializeAck(header.type,
             SubSeq(data, 1, header.remainingLength)).status = "MQTTSuccess"
    BY <1>1 DEF connackStatus
  <1>3. /\ incomingPacketValid(bytes[1])
        /\ getRemainingLength(bytes) # MQTT_REMAINING_LENGTH_INVALID
        /\ header = [HeaderRead(bytes) EXCEPT !.headerLength = 0]
    BY <1>1, <1>2 DEF MQTT_GetIncomingPacketTypeAndLength, HeaderError
  <1>4. /\ LengthEnds(bytes) # {}
        /\ DecodedLength(bytes) # MQTT_REMAINING_LENGTH_INVALID
        /\ header.remainingLength = DecodedLength(bytes)
    BY <1>3 DEF getRemainingLength, HeaderRead
  <1>5. read = HeaderRead(bytes)
    BY <1>1, <1>3, <1>4 DEF MQTT_ProcessIncomingPacketTypeAndLength,
                            processRemainingLength
  <1>6. /\ read.status = "MQTTSuccess"
        /\ read.remainingLength = DecodedLength(bytes)
        /\ read.headerLength = Min(LengthEnds(bytes)) + 1
    BY <1>5 DEF HeaderRead
  <1>7. /\ connack \in Bytes /\ connack # <<>>
        /\ whole.status \in {"MQTTSuccess", "MQTTBadResponse"}
        /\ whole.status = "MQTTSuccess" =>
             whole.remainingLength = Len(connack) - whole.headerLength
    <2>1. connack \in Bytes /\ Framed(connack)
      BY ReceiveAssumption DEF Bytes, Byte
    <2>2. ~Framed(<<>>)
      BY DEF Framed, MQTT_ProcessIncomingPacketTypeAndLength, HeaderError
    <2> QED
      BY <2>1, <2>2 DEF Framed
  <1>8. Len(connack) \in Nat /\ Len(bytes) \in Nat
    BY <1>7, BytesLen
  <1>9. whole = read
    <2>1. connack \o rest \in Bytes /\ Begins(connack, connack \o rest)
      BY <1>7, BytesJoined, BeginsJoined
    <2>2. CASE Len(bytes) <= Len(connack)
      <3>1. Begins(bytes, connack)
        BY <1>7, <2>1, <2>2, BeginsCompare
      <3> QED
        BY <1>1, <1>6, <1>7, <3>1, HeaderStable
    <2>3. CASE Len(connack) <= Len(bytes)
      <3>1. Begins(connack, bytes)
        BY <1>7, <2>1, <2>3, BeginsCompare
      <3> QED
        BY <1>7, <3>1, HeaderStable
    <2> QED
      BY <1>8, <2>2, <2>3
  <1> DEFINE m == Min(LengthEnds(bytes))
             length == DecodedLength(bytes)
  <1>10. m \in 1..4 /\ m \in LengthEnds(bytes)
         /\ \A n \in LengthEnds(bytes) : m <= n
    BY <1>4, MinEnds
  <1>11. m < Len(bytes) /\ \A n \in LengthEnds(bytes) : n \in 1..4
    BY <1>10 DEF LengthEnds
  <1>12. length = Len(connack) - (m + 1)
    BY <1>6, <1>7, <1>9
  <1>13. m = remainingLengthEncodedSize(length)
    BY <1>4 DEF DecodedLength
  <1>14. /\ deserializeConnack(SubSeq(data, 1, length)).status = "MQTTSuccess"
         /\ ~(Len(data) < length)
    <2> DEFINE body == SubSeq(data, 1, length)
    <2>1. /\ MQTT_DeserializeAck(MQTT_PACKET_TYPE_CONNACK, body).status
               = "MQTTSuccess"
          /\ ~(Len(data) < length)
      BY <1>2, <1>4
    <2> HIDE DEF body
    <2>2. MQTT_DeserializeAck(MQTT_PACKET_TYPE_CONNACK, body)
            = deserializeConnack(body)
      BY DEF MQTT_DeserializeAck, PublishAcks, MQTT_PACKET_TYPE_PUBACK,
             MQTT_PACKET_TYPE_PUBREC, MQTT_PACKET_TYPE_PUBREL,
             MQTT_PACKET_TYPE_PUBCOMP, MQTT_PACKET_TYPE_PINGRESP,
             MQTT_PACKET_TYPE_SUBACK, MQTT_PACKET_TYPE_UNSUBACK,
             MQTT_PACKET_TYPE_CONNACK
    <2> QED
      BY <2>1, <2>2 DEF body
  <1>15. Len(SubSeq(data, 1, length)) = 2
    BY <1>14 DEF deserializeConnack, AckRead
  <1> DEFINE taken == BytesTaken(bytes)
  <1>16. taken = Min({Len(bytes), 5} \union {n + 1 : n \in LengthEnds(bytes)})
    BY <1>1, <1>3 DEF BytesTaken
  <1>17. taken = m + 1
    <2> DEFINE S == {Len(bytes), 5} \union {n + 1 : n \in LengthEnds(bytes)}
    <2>1. m + 1 \in S /\ \A y \in S : m + 1 <= y
      BY <1>8, <1>10, <1>11
    <2>2. \A x \in S : (\A y \in S : x <= y) => x = m + 1
      BY <1>8, <1>10, <1>11, <2>1
    <2> HIDE DEF S
    <2>3. Min(S) \in S /\ \A y \in S : Min(S) <= y
      BY <2>1 DEF Min
    <2> QED
      BY <1>16, <2>2, <2>3 DEF S
  <1>18. data \in Bytes /\ Len(data) = Len(bytes) - (m + 1)
    <2>1. m + 1 \in 0..Len(bytes)
      BY <1>8, <1>10, <1>11
    <2> QED
      BY <1>17, <2>1, BytesBehind
  <1> HIDE DEF header, data, read, whole, m, length, taken
  <1>19. length = 2
    <2>1. length \in Int /\ length <= Len(data) /\ Len(data) \in Nat
      BY <1>8, <1>10, <1>12, <1>14, <1>18, BytesLen
    <2>2. \A i \in 1..length : data[i] \in Byte
      BY <1>18, <2>1, BytesLen
    <2>3. Len(SubSeq(data, 1, length)) = IF 1 <= length THEN length - 1 + 1 ELSE 0
      BY <2>1, <2>2, SubSeqProperties
    <2> QED
      BY <1>15, <2>1, <2>3
  <1>20. m = 1
    BY <1>13, <1>19 DEF remainingLengthEncodedSize
  <1>21. Len(connack) = 4 /\ Len(bytes) >= 4
    <2>1. 2 = Len(connack) - (1 + 1)
      BY <1>12, <1>19, <1>20
    <2>2. ~(Len(data) < 2) /\ Len(data) = Len(bytes) - (1 + 1)
      BY <1>14, <1>18, <1>19, <1>20
    <2> QED
      BY <1>8, <2>1, <2>2
  <1>22. header.remainingLength = 2 /\ taken = 2
    BY <1>4, <1>17, <1>19, <1>20 DEF length
  <1> QED
    BY <1>7, <1>21, <1>22 DEF header, taken

-----------------------------------------------------------------------------
(* Streams and what has survived of them.                                  *)

LEMMA BeginsFront ==
  ASSUME NEW b \in Bytes, NEW s \in Bytes, NEW t \in Bytes, Begins(s, t)
  PROVE  Begins(b \o s, b \o t)
  <1>1. /\ Len(b) \in Nat /\ Len(s) \in Nat /\ Len(t) \in Nat
        /\ Len(s) <= Len(t) /\ \A i \in 1..Len(s) : s[i] = t[i]
    BY BytesLen DEF Begins
  <1>2. /\ Len(b \o s) = Len(b) + Len(s)
        /\ \A i \in 1..Len(b) : (b \o s)[i] = b[i]
        /\ \A i \in 1..Len(s) : (b \o s)[Len(b) + i] = s[i]
    BY BytesJoined
  <1>3. /\ Len(b \o t) = Len(b) + Len(t)
        /\ \A i \in 1..Len(b) : (b \o t)[i] = b[i]
        /\ \A i \in 1..Len(t) : (b \o t)[Len(b) + i] = t[i]
    BY BytesJoined
  <1> DEFINE l == b \o s
             r == b \o t
  <1> HIDE DEF l, r
  <1>4. ASSUME NEW i \in 1..(Len(b) + Len(s))
        PROVE  l[i] = r[i]
    <2>1. CASE i <= Len(b)
      <3>1. i \in 1..Len(b)
        BY <2>1
      <3> QED
        BY <1>2, <1>3, <3>1 DEF l, r
    <2>2. CASE i > Len(b)
      <3> DEFINE j == i - Len(b)
      <3>1. j \in 1..Len(s) /\ j \in 1..Len(t) /\ i = Len(b) + j
        BY <1>1, <2>2
      <3> HIDE DEF j
      <3>2. l[i] = s[j] /\ r[i] = t[j]
        BY <1>2, <1>3, <3>1 DEF l, r
      <3> QED
        BY <1>1, <3>1, <3>2
    <2>3. i <= Len(b) \/ i > Len(b)
      BY <1>1
    <2> QED
      BY <2>1, <2>2, <2>3
  <1>5. /\ Len(l) = Len(b) + Len(s) /\ Len(r) = Len(b) + Len(t)
        /\ Len(l) <= Len(r)
    BY <1>1, <1>2, <1>3 DEF l, r
  <1>6. Begins(l, r)
    BY <1>4, <1>5 DEF Begins
  <1> QED
    BY <1>6 DEF l, r

\* What follows the first n bytes.
LEMMA AlongBehind ==
  ASSUME NEW up \in BOOLEAN, NEW s \in Bytes, NEW t \in Bytes, Along(up, s, t),
         NEW n \in 0..Len(s)
  PROVE  Along(up, Behind(s, n), Behind(t, n))
  <1>1. /\ Begins(Behind(s, n), Behind(t, n))
        /\ Len(Behind(t, n)) = Len(t) - n /\ Len(Behind(s, n)) = Len(s) - n
    BY BeginsBehind DEF Along
  <1>2. up => Len(s) = Len(t)
    BY DEF Along
  <1> QED
    BY <1>1, <1>2 DEF Along

\* The end is lost.
LEMMA AlongLess ==
  ASSUME NEW up \in BOOLEAN, NEW b \in Bytes, NEW f \in Bytes, NEW t \in Bytes,
         Along(up, b \o f, t), NEW n \in 0..Len(f)
  PROVE  Along(FALSE, b \o SubSeq(f, 1, n), t)
  <1> DEFINE g == SubSeq(f, 1, n)
  <1>1. g \in Bytes /\ Begins(g, f)
    BY BytesBefore
  <1> HIDE DEF g
  <1>2. Begins(b \o g, b \o f) /\ b \o g \in Bytes /\ b \o f \in Bytes
    BY <1>1, BeginsFront, BytesJoined
  <1>3. Begins(b \o f, t)
    BY DEF Along
  <1>4. Begins(b \o g, t)
    BY <1>2, <1>3, BeginsThrough
  <1> QED
    BY <1>4 DEF Along, g

LEMMA AlongItself ==
  ASSUME NEW up \in BOOLEAN, NEW s \in Bytes
  PROVE  Along(up, s, s)
  BY BytesLen DEF Along, Begins

\* A whole stream is continued.
LEMMA AlongMore ==
  ASSUME NEW s \in Bytes, NEW t \in Bytes, NEW p \in Bytes, Along(TRUE, s, t)
  PROVE  Along(TRUE, s \o p, t \o p)
  <1>1. s = t
    BY BytesEqual DEF Along
  <1>2. s \o p \in Bytes
    BY BytesJoined
  <1> QED
    BY <1>1, <1>2, AlongItself

LEMMA SentBytes ==
  ASSUME TypeInv
  PROVE  /\ sent \in Seq(Bytes) /\ FlattenSeq(sent) \in Bytes
         /\ Len(sent) \in Nat /\ Len(done) \in Nat
  <1>1. Packets \subseteq Bytes
    BY PacketsAreBytes
  <1>2. sent \in Seq(Packets) /\ done \in Seq(Records)
    BY DEF TypeInv
  <1>3. sent \in Seq(Bytes)
    BY <1>1, <1>2, SeqMonotonic
  <1> QED
    BY <1>2, <1>3, FlattenBytes, LenProperties

\* The packet that is next, and the stream behind it.
LEMMA NextPacket ==
  ASSUME TypeInv, Len(done) < Len(sent),
         NEW packet, packet = sent[Len(done) + 1],
         NEW rest, rest = FlattenSeq(Behind(sent, Len(done) + 1))
  PROVE  /\ packet \in Packets /\ packet \in Bytes /\ packet # <<>>
         /\ rest \in Bytes /\ Unfinished = packet \o rest
         /\ Unfinished \in Bytes
         /\ Len(packet) \in Nat /\ Len(packet) <= Len(Unfinished)
         /\ Behind(Unfinished, Len(packet)) = rest
  <1>1. sent \in Seq(Packets) /\ Len(done) \in Nat
    BY SentBytes DEF TypeInv
  <1>2. packet \in Packets /\ rest \in Bytes /\ Unfinished = packet \o rest
    BY <1>1, StreamFirst DEF Unfinished
  <1>3. packet \in Bytes /\ packet # <<>>
    BY <1>2, PacketsAreBytes
  <1>4. /\ Len(packet) \in Nat /\ Len(rest) \in Nat
        /\ packet \o rest \in Bytes
        /\ Len(packet \o rest) = Len(packet) + Len(rest)
    BY <1>2, <1>3, BytesLen, BytesJoined
  <1>5. Len(packet) <= Len(Unfinished)
    <2>1. Len(Unfinished) = Len(packet) + Len(rest)
      BY <1>2, <1>4
    <2>2. Len(packet) \in Nat /\ Len(rest) \in Nat
      BY <1>4
    <2>3. \A a, b \in Nat : a <= a + b
      OBVIOUS
    <2>4. Len(packet) <= Len(packet) + Len(rest)
      BY <2>2, <2>3
    <2> QED
      BY <2>1, <2>4
  <1>6. Behind(packet \o rest, Len(packet)) = rest
    BY <1>2, <1>3, BehindFirst
  <1> QED
    BY <1>2, <1>3, <1>4, <1>5, <1>6

LEMMA UnfinishedBytes ==
  ASSUME TypeInv, Len(done) <= Len(sent)
  PROVE  Unfinished \in Bytes /\ (Len(done) = Len(sent) => Unfinished = <<>>)
  <1>1. /\ sent \in Seq(Bytes) /\ Len(done) \in 0..Len(sent)
        /\ Len(sent) \in Nat
    BY SentBytes
  <1> DEFINE u == Behind(sent, Len(done))
  <1>2. u \in Seq(Bytes) /\ Len(u) = Len(sent) - Len(done)
    BY <1>1, BehindProperties
  <1> HIDE DEF u
  <1>3. Len(done) = Len(sent) => u = <<>>
    <2>1. Len(done) = Len(sent) => Len(u) = 0
      BY <1>1, <1>2
    <2> QED
      BY <1>2, <2>1, EmptySeq
  <1> QED
    BY <1>2, <1>3, FlattenBytes DEF Unfinished, u

\* There is a packet that is next whenever something of it has arrived.
LEMMA SomethingNext ==
  ASSUME TypeInv, Len(done) <= Len(sent), NEW bytes \in Bytes, bytes # <<>>,
         Begins(bytes, Unfinished)
  PROVE  Len(done) < Len(sent)
  <1>1. Len(bytes) \in Nat \ {0}
    BY BytesLen
  <1>2. Len(bytes) <= Len(Unfinished)
    BY DEF Begins
  <1>3. Len(<<>>) = 0
    OBVIOUS
  <1>4. Len(done) # Len(sent)
    BY <1>1, <1>2, <1>3, UnfinishedBytes
  <1> QED
    BY <1>4, SentBytes

-----------------------------------------------------------------------------
(* The steps of the peer and of the network.                               *)

LEMMA InitInv ==
  ASSUME Init
  PROVE  Inv
  <1>1. TypeInv
    BY DEF Init, TypeInv, Bytes
  <1> QED
    BY <1>1 DEF Init, Inv, Phases, IsError

LEMMA ConnectKeeps ==
  ASSUME Inv, Connect
  PROVE  Inv'
  <1>1. TypeInv /\ Phases
    BY DEF Inv
  <1>2. /\ link = "down" /\ link' = "up" /\ pc' = "connect"
        /\ answer' = "none" /\ sent' = <<>> /\ done' = <<>>
        /\ UNCHANGED <<transport, connectStatus, inFlight, buffer, left, result>>
    BY DEF Connect
  <1>3. connectStatus = "MQTTNotConnected" /\ inFlight = <<>> /\ buffer = <<>>
    BY <1>1, <1>2 DEF Phases
  <1>4. TypeInv'
    BY <1>1, <1>2 DEF TypeInv
  <1>5. Phases'
    BY <1>1, <1>2, <1>3 DEF Phases
  <1>6. Connecting'
    BY <1>2, <1>3 DEF Connecting
  <1> QED
    BY <1>2, <1>3, <1>4, <1>5, <1>6 DEF Inv

LEMMA BrokerAnswersKeeps ==
  ASSUME Inv, BrokerAnswers
  PROVE  Inv'
  <1>1. TypeInv /\ Phases /\ (pc = "connect" => Connecting)
    BY DEF Inv
  <1>2. /\ link = "up" /\ pc = "connect" /\ answer = "none"
        /\ inFlight' \in Connacks /\ answer' \in {"accepted", "refused"}
        /\ UNCHANGED <<transport, link, connectStatus, pc, buffer, left, result,
                       sent, done>>
    BY DEF BrokerAnswers
  <1>3. inFlight' \in Bytes
    BY <1>2, ReceiveAssumption DEF Bytes, Byte
  <1>4. connectStatus = "MQTTNotConnected" /\ sent = <<>>
    BY <1>1, <1>2 DEF Phases, Connecting
  <1>5. TypeInv'
    BY <1>1, <1>2, <1>3 DEF TypeInv
  <1>6. Phases'
    BY <1>1, <1>2 DEF Phases
  <1>7. Connecting'
    <2>1. FlattenSeq(sent') = <<>>
      BY <1>1, <1>2, <1>4, SentBytes, FlattenBytes
    <2>2. inFlight' \o <<>> = inFlight'
      BY <1>3, ConcatEmptySeq DEF Bytes
    <2>3. Along(link' = "up", inFlight', inFlight' \o FlattenSeq(sent'))
      BY <1>3, <2>1, <2>2, AlongItself
    <2> QED
      BY <1>2, <2>3 DEF Connecting
  <1> QED
    BY <1>2, <1>4, <1>5, <1>6, <1>7 DEF Inv

LEMMA BrokerSendsKeeps ==
  ASSUME Inv, BrokerSends
  PROVE  Inv'
  <1>1. TypeInv /\ Phases
    BY DEF Inv
  <1>2. PICK packet \in Packets :
          /\ sent' = Append(sent, packet) /\ inFlight' = inFlight \o packet
    BY DEF BrokerSends
  <1>3. /\ link = "up" /\ answer = "accepted"
        /\ UNCHANGED <<transport, link, connectStatus, pc, buffer, left, result,
                       answer, done>>
    BY DEF BrokerSends
  <1>4. packet \in Bytes
    BY PacketsAreBytes
  <1>5. inFlight \in Bytes /\ buffer \in Bytes /\ sent \in Seq(Packets)
    BY <1>1 DEF TypeInv
  <1>6. /\ sent \in Seq(Bytes) /\ FlattenSeq(sent) \in Bytes
        /\ Len(sent) \in Nat /\ Len(done) \in Nat
    BY <1>1, SentBytes
  <1>7. /\ sent' \in Seq(Packets) /\ Len(sent') = Len(sent) + 1
        /\ \A i \in 1..Len(sent) : sent'[i] = sent[i]
    BY <1>2, <1>5, AppendProperties
  <1>8. TypeInv'
    <2>1. inFlight' \in Bytes
      BY <1>2, <1>4, <1>5, BytesJoined
    <2> QED
      BY <1>1, <1>3, <1>7, <2>1 DEF TypeInv
  <1>9. Phases'
    BY <1>1, <1>3 DEF Phases
  <1>10. ASSUME pc' = "connect"
         PROVE  Connecting'
    <2>1. PICK connack \in Connacks :
            Along(TRUE, inFlight, connack \o FlattenSeq(sent))
      BY <1>3, <1>10 DEF Inv, Connecting
    <2>2. connack \in Bytes
      BY ReceiveAssumption DEF Bytes, Byte
    <2>3. connack \o FlattenSeq(sent) \in Bytes
      BY <1>6, <2>2, BytesJoined
    <2>4. Along(TRUE, inFlight \o packet,
                (connack \o FlattenSeq(sent)) \o packet)
      BY <1>4, <1>5, <2>1, <2>3, AlongMore
    <2>5. FlattenSeq(sent') = FlattenSeq(sent) \o packet
      BY <1>2, <1>4, <1>6, FlattenAppend
    <2>6. (connack \o FlattenSeq(sent)) \o packet
            = connack \o (FlattenSeq(sent) \o packet)
      BY <1>4, <1>6, <2>2, Regroup
    <2>7. Along(link' = "up", inFlight', connack \o FlattenSeq(sent'))
      <3>1. (link' = "up") = TRUE
        BY <1>3
      <3> QED
        BY <1>2, <2>4, <2>5, <2>6, <3>1
    <2> QED
      BY <1>3, <2>7 DEF Connecting
  <1>11. ASSUME connectStatus' = "MQTTConnected", ~IsError(result')
         PROVE  InStep'
    <2>1. InStep
      BY <1>3, <1>11 DEF Inv
    <2>2. Len(done) <= Len(sent) /\ Len(done) \in 0..Len(sent)
      BY <1>6, <2>1 DEF InStep
    <2>3. \A k \in 1..Len(done') : Fate(done'[k], sent'[k])
      <3> SUFFICES ASSUME NEW k \in 1..Len(done)
                   PROVE  Fate(done[k], sent'[k])
        BY <1>3
      <3>1. k \in 1..Len(sent)
        BY <1>6, <2>2
      <3> QED
        BY <1>7, <2>1, <3>1 DEF InStep
    <2>4. Unfinished \in Bytes /\ Unfinished' = Unfinished \o packet
      BY <1>2, <1>3, <1>5, <2>2, StreamAppend DEF Unfinished
    <2>5. ASSUME pc' = "idle"
          PROVE  /\ Len(buffer') < BufferSize
                 /\ Along(link' = "up", buffer' \o inFlight', Unfinished')
      <3>1. /\ Len(buffer) < BufferSize
            /\ Along(TRUE, buffer \o inFlight, Unfinished)
        BY <1>3, <2>1, <2>5 DEF InStep
      <3>2. Along(TRUE, (buffer \o inFlight) \o packet, Unfinished \o packet)
        BY <1>4, <1>5, <2>4, <3>1, AlongMore, BytesJoined
      <3>3. (buffer \o inFlight) \o packet = buffer' \o inFlight'
        BY <1>2, <1>3, <1>4, <1>5, Regroup
      <3>4. (link' = "up") = TRUE
        BY <1>3
      <3> QED
        BY <1>3, <2>4, <3>1, <3>2, <3>3, <3>4
    <2>6. ASSUME pc' = "discard"
          PROVE  Discarding'
      <3> DEFINE next == sent[Len(done) + 1]
                 n == Len(next) - left
      <3>1. /\ Len(done) < Len(sent) /\ Len(next) > BufferSize
            /\ left \in 1..Len(next) /\ Begins(buffer, next)
            /\ Along(TRUE, inFlight, Behind(Unfinished, n))
        BY <1>3, <2>1, <2>6 DEF InStep, Discarding
      <3>2. Len(next) \in Nat /\ Len(next) <= Len(Unfinished)
        BY <1>1, <3>1, NextPacket
      <3>3. /\ sent'[Len(done') + 1] = next /\ Len(done') < Len(sent')
            /\ left' = left /\ buffer' = buffer
        <4>1. Len(done) + 1 \in 1..Len(sent)
          BY <1>6, <3>1
        <4> QED
          BY <1>3, <1>6, <1>7, <3>1, <4>1
      <3>4. n \in 0..Len(Unfinished)
        <4>1. Len(Unfinished) \in Nat
          BY <2>4, BytesLen
        <4> HIDE DEF next
        <4> QED
          BY <3>1, <3>2, <4>1
      <3>5. Len(sent'[Len(done') + 1]) - left' = n
        BY <3>3
      <3> HIDE DEF n, next
      <3>6. /\ Behind(Unfinished, n) \in Bytes
            /\ Behind(Unfinished \o packet, n) = Behind(Unfinished, n) \o packet
        BY <1>4, <2>4, <3>4, BehindSome, BytesBehind
      <3>7. Along(TRUE, inFlight \o packet, Behind(Unfinished, n) \o packet)
        BY <1>4, <1>5, <3>1, <3>6, AlongMore
      <3>8. Along(link' = "up", inFlight', Behind(Unfinished', n))
        <4>1. (link' = "up") = TRUE
          BY <1>3
        <4> QED
          BY <1>2, <2>4, <3>6, <3>7, <4>1
      <3> QED
        BY <3>1, <3>3, <3>5, <3>8 DEF Discarding
    <2>7. Len(done') <= Len(sent')
      BY <1>3, <1>6, <1>7, <2>2
    <2> QED
      BY <2>3, <2>5, <2>6, <2>7 DEF InStep
  <1>12. ASSUME connectStatus' # "MQTTNotConnected", IsError(result')
         PROVE  Explained'
    <2>1. Explained
      BY <1>3, <1>12 DEF Inv
    <2>2. AtHand \subseteq AtHand'
      <3> SUFFICES ASSUME NEW k \in {Len(done), Len(done) + 1} \intersect DOMAIN sent
                   PROVE  sent[k] \in AtHand'
        BY DEF AtHand
      <3>1. k \in 1..Len(sent)
        BY <1>5
      <3>2. k \in {Len(done'), Len(done') + 1} \intersect DOMAIN sent'
        BY <1>3, <1>6, <1>7, <3>1
      <3> QED
        BY <1>7, <3>1, <3>2 DEF AtHand
    <2>3. Len(done) <= Len(sent) /\ Len(done') <= Len(sent')
      BY <1>3, <1>6, <1>7, <2>1 DEF Explained
    <2>4. ASSUME NEW k \in 1..Len(done'), k <= Len(sent'), sent'[k] \in Faulty,
                 Len(sent'[k]) <= BufferSize
          PROVE  k = Len(done')
      <3>1. k \in 1..Len(sent) /\ k \in 1..Len(done) /\ k <= Len(sent)
        BY <1>3, <1>6, <2>3
      <3> QED
        BY <1>3, <1>7, <2>1, <2>4, <3>1 DEF Explained
    <2>5. result' = "MQTTBadResponse" =>
            \E p \in AtHand' : p \in Faulty \/ p[1] \in PublishAcks
      BY <1>3, <2>1, <2>2 DEF Explained
    <2>6. result' = "MQTTRecvFailed" =>
            \/ link' # "up"
            \/ \E p \in AtHand' : AsksForAck(p)
            \/ transport' = "polling"
                 /\ \E p \in AtHand' : Len(p) > BufferSize
      BY <1>3, <2>1, <2>2 DEF Explained
    <2> QED
      BY <2>3, <2>4, <2>5, <2>6 DEF Explained
  <1> QED
    BY <1>8, <1>9, <1>10, <1>11, <1>12 DEF Inv

\* The link ends, and what is in flight may be lost.
LEMMA LinkEndsKeeps ==
  ASSUME Inv, link = "up", link' \in {"closed", "reset"},
         NEW n \in 0..Len(inFlight), inFlight' = SubSeq(inFlight, 1, n),
         link' = "reset" => inFlight' = <<>>,
         UNCHANGED <<transport, connectStatus, pc, buffer, left, result,
                     answer, sent, done>>
  PROVE  Inv'
  <1>1. TypeInv /\ Phases
    BY DEF Inv
  <1>2. inFlight \in Bytes /\ buffer \in Bytes /\ <<>> \in Bytes
    BY <1>1 DEF TypeInv, Bytes
  <1>3. inFlight' \in Bytes
    BY <1>2, BytesBefore
  <1>4. TypeInv'
    BY <1>1, <1>3 DEF TypeInv
  <1>5. Phases'
    BY <1>1 DEF Phases
  <1>6. \A b \in Bytes, t \in Bytes :
          Along(TRUE, b \o inFlight, t) => Along(FALSE, b \o inFlight', t)
    BY <1>2, AlongLess
  <1>7. \A t \in Bytes : Along(TRUE, inFlight, t) => Along(FALSE, inFlight', t)
    <2>1. <<>> \o inFlight = inFlight /\ <<>> \o inFlight' = inFlight'
      BY <1>2, <1>3, ConcatEmptySeq DEF Bytes
    <2>2. \A t \in Bytes : Along(TRUE, <<>> \o inFlight, t)
                             => Along(FALSE, <<>> \o inFlight', t)
      BY <1>2, <1>6
    <2> QED
      BY <2>1, <2>2
  <1>8. (link = "up") = TRUE /\ (link' = "up") = FALSE
    OBVIOUS
  <1>9. ASSUME pc' = "connect"
        PROVE  Connecting'
    <2>1. Connecting
      BY <1>9 DEF Inv
    <2>2. CASE answer = "none"
      <3>1. inFlight = <<>> /\ sent = <<>>
        BY <2>1, <2>2 DEF Connecting
      <3>2. n = 0
        BY <3>1
      <3>3. Len(inFlight') = 0
        BY <1>2, <3>2, BytesBefore
      <3> QED
        BY <1>3, <2>2, <3>1, <3>3, BytesLen DEF Connecting
    <2>3. CASE answer # "none"
      <3>1. PICK connack \in Connacks :
              Along(TRUE, inFlight, connack \o FlattenSeq(sent))
        BY <1>8, <2>1, <2>3 DEF Connecting
      <3>2. connack \in Bytes
        BY ReceiveAssumption DEF Bytes, Byte
      <3>3. connack \o FlattenSeq(sent) \in Bytes
        BY <1>1, <3>2, BytesJoined, SentBytes
      <3>4. Along(FALSE, inFlight', connack \o FlattenSeq(sent))
        BY <1>7, <3>1, <3>3
      <3> QED
        BY <1>8, <2>3, <3>4 DEF Connecting
    <2> QED
      BY <2>2, <2>3
  <1>10. ASSUME connectStatus' = "MQTTConnected", ~IsError(result')
         PROVE  InStep'
    <2>1. InStep
      BY <1>10 DEF Inv
    <2>2. Unfinished \in Bytes /\ Unfinished' = Unfinished
      BY <1>1, <2>1, UnfinishedBytes DEF InStep, Unfinished
    <2>3. \A k \in 1..Len(done') : Fate(done'[k], sent'[k])
      BY <2>1 DEF InStep
    <2>4. ASSUME pc' = "idle"
          PROVE  /\ Len(buffer') < BufferSize
                 /\ Along(link' = "up", buffer' \o inFlight', Unfinished')
      <3>1. /\ Len(buffer) < BufferSize
            /\ Along(TRUE, buffer \o inFlight, Unfinished)
        BY <1>8, <2>1, <2>4 DEF InStep
      <3>2. Along(FALSE, buffer \o inFlight', Unfinished)
        BY <1>2, <1>6, <2>2, <3>1
      <3> QED
        BY <1>8, <2>2, <3>1, <3>2
    <2>5. ASSUME pc' = "discard"
          PROVE  Discarding'
      <3> DEFINE next == sent[Len(done) + 1]
                 skipped == Len(next) - left
      <3>1. /\ Len(done) < Len(sent) /\ Len(next) > BufferSize
            /\ left \in 1..Len(next) /\ Begins(buffer, next)
            /\ Along(TRUE, inFlight, Behind(Unfinished, skipped))
        BY <1>8, <2>1, <2>5 DEF InStep, Discarding
      <3>2. Len(next) \in Nat /\ Len(next) <= Len(Unfinished)
        BY <1>1, <3>1, NextPacket
      <3>3. skipped \in 0..Len(Unfinished)
        <4>1. Len(Unfinished) \in Nat
          BY <2>2, BytesLen
        <4> HIDE DEF next
        <4> QED
          BY <3>1, <3>2, <4>1
      <3>4. sent'[Len(done') + 1] = next /\ left' = left
        OBVIOUS
      <3>5. Len(sent'[Len(done') + 1]) - left' = skipped
        BY <3>4
      <3> HIDE DEF skipped, next
      <3>6. Along(FALSE, inFlight', Behind(Unfinished, skipped))
        BY <1>7, <2>2, <3>1, <3>3, BytesBehind
      <3>7. Along(link' = "up", inFlight', Behind(Unfinished', skipped))
        BY <1>8, <2>2, <3>6
      <3> QED
        BY <3>1, <3>4, <3>5, <3>7 DEF Discarding
    <2> QED
      BY <2>1, <2>3, <2>4, <2>5 DEF InStep
  <1>11. ASSUME connectStatus' # "MQTTNotConnected", IsError(result')
         PROVE  Explained'
    <2>1. Explained
      BY <1>11 DEF Inv
    <2>2. AtHand' = AtHand
      BY DEF AtHand
    <2>3. result' = "MQTTRecvFailed" => link' # "up"
      OBVIOUS
    <2> QED
      BY <2>1, <2>2, <2>3 DEF Explained
  <1> QED
    BY <1>4, <1>5, <1>9, <1>10, <1>11 DEF Inv

LEMMA LinkClosesKeeps ==
  ASSUME Inv, LinkCloses
  PROVE  Inv'
  <1>1. PICK n \in 0..Len(inFlight) : inFlight' = SubSeq(inFlight, 1, n)
    BY DEF LinkCloses
  <1>2. /\ link = "up" /\ link' = "closed"
        /\ UNCHANGED <<transport, connectStatus, pc, buffer, left, result,
                       answer, sent, done>>
    BY DEF LinkCloses
  <1> QED
    BY <1>1, <1>2, LinkEndsKeeps

LEMMA LinkResetsKeeps ==
  ASSUME Inv, LinkResets
  PROVE  Inv'
  <1>1. /\ link = "up" /\ link' = "reset" /\ inFlight' = <<>>
        /\ UNCHANGED <<transport, connectStatus, pc, buffer, left, result,
                       answer, sent, done>>
    BY DEF LinkResets
  <1>2. inFlight \in Bytes
    BY DEF Inv, TypeInv
  <1>3. 0 \in 0..Len(inFlight)
    BY <1>2, BytesLen
  <1>4. SubSeq(inFlight, 1, 0) = <<>>
    <2>1. /\ SubSeq(inFlight, 1, 0) \in Bytes
          /\ Len(SubSeq(inFlight, 1, 0)) = 0
      BY <1>2, <1>3, BytesBefore
    <2> QED
      BY <2>1, BytesLen
  <1> QED
    BY <1>1, <1>3, <1>4, LinkEndsKeeps

-----------------------------------------------------------------------------
(* The steps of the client.                                                *)

LEMMA DisconnectKeeps ==
  ASSUME Inv, Disconnect
  PROVE  Inv'
  <1>1. TypeInv /\ Phases
    BY DEF Inv
  <1>2. /\ pc = "idle" /\ link' = "down" /\ inFlight' = <<>>
        /\ result' = "MQTTSuccess" /\ connectStatus' = "MQTTNotConnected"
        /\ buffer' = <<>>
        /\ UNCHANGED <<transport, pc, left, answer, sent, done>>
    BY <1>1 DEF Disconnect, Phases
  <1>3. <<>> \in Bytes
    BY DEF Bytes
  <1>4. TypeInv'
    BY <1>1, <1>2, <1>3 DEF TypeInv
  <1>5. Phases'
    BY <1>1, <1>2 DEF Phases, IsError
  <1> QED
    BY <1>2, <1>4, <1>5 DEF Inv

LEMMA ReceiveConnackKeeps ==
  ASSUME Inv, NEW cleanSession, receiveConnack(cleanSession)
  PROVE  Inv'
  <1>1. TypeInv /\ Phases
    BY DEF Inv
  <1>2. PICK n \in 0..Len(inFlight) :
          LET bytes == SubSeq(inFlight, 1, n)
          IN  \E stop :
                /\ result' = connackStatus(bytes, stop, cleanSession)
                /\ IF result' # "MQTTSuccess"
                     THEN UNCHANGED <<connectStatus, inFlight, buffer>>
                     ELSE /\ connectStatus' = "MQTTConnected"
                          /\ inFlight' = Behind(inFlight,
                               BytesTaken(bytes)
                                 + MQTT_GetIncomingPacketTypeAndLength(bytes).remainingLength)
                          /\ buffer' = IF bytes[3] = 1 THEN buffer ELSE <<>>
    BY DEF receiveConnack
  <1> DEFINE bytes == SubSeq(inFlight, 1, n)
             took == BytesTaken(bytes)
                       + MQTT_GetIncomingPacketTypeAndLength(bytes).remainingLength
  <1>3. PICK stop :
          /\ result' = connackStatus(bytes, stop, cleanSession)
          /\ IF result' # "MQTTSuccess"
               THEN UNCHANGED <<connectStatus, inFlight, buffer>>
               ELSE /\ connectStatus' = "MQTTConnected"
                    /\ inFlight' = Behind(inFlight, took)
                    /\ buffer' = IF bytes[3] = 1 THEN buffer ELSE <<>>
    BY <1>2
  <1>4. /\ pc = "connect" /\ pc' = "idle"
        /\ UNCHANGED <<transport, link, left, answer, sent, done>>
    BY DEF receiveConnack
  <1>5. /\ connectStatus = "MQTTNotConnected" /\ buffer = <<>>
        /\ link # "down" /\ done = <<>>
    BY <1>1, <1>4 DEF Phases
  <1>6. inFlight \in Bytes /\ bytes \in Bytes /\ Begins(bytes, inFlight)
        /\ Len(bytes) = n
    BY <1>1, BytesBefore DEF TypeInv
  <1> HIDE DEF bytes, took
  <1>7. CASE result' # "MQTTSuccess"
    <2>1. UNCHANGED <<connectStatus, inFlight, buffer>>
      BY <1>3, <1>7
    <2>2. TypeInv'
      BY <1>1, <1>4, <2>1 DEF TypeInv
    <2>3. Phases'
      BY <1>1, <1>4, <1>5, <2>1 DEF Phases
    <2> QED
      BY <1>4, <1>5, <2>1, <2>2, <2>3 DEF Inv
  <1>8. CASE result' = "MQTTSuccess"
    <2>1. /\ connectStatus' = "MQTTConnected"
          /\ inFlight' = Behind(inFlight, took) /\ buffer' = <<>>
      BY <1>3, <1>5, <1>8
    <2>2. connackStatus(bytes, stop, cleanSession) = "MQTTSuccess"
      BY <1>3, <1>8
    <2>3. bytes # <<>>
      BY <2>2 DEF connackStatus
    <2>4. answer # "none"
      <3>1. SUFFICES ASSUME answer = "none"
                     PROVE  FALSE
        OBVIOUS
      <3>2. inFlight = <<>>
        BY <1>4, <3>1 DEF Inv, Connecting
      <3>3. Len(bytes) = 0
        BY <1>6, <3>2
      <3> QED
        BY <1>6, <2>3, <3>3, BytesLen
    <2>5. PICK connack \in Connacks :
            Along(link = "up", inFlight, connack \o FlattenSeq(sent))
      BY <1>4, <2>4 DEF Inv, Connecting
    <2>6. FlattenSeq(sent) \in Bytes
      BY <1>1, SentBytes
    <2>7. connack \in Bytes
      BY ReceiveAssumption DEF Bytes, Byte
    <2>8. connack \o FlattenSeq(sent) \in Bytes
      BY <2>6, <2>7, BytesJoined
    <2>9. Begins(bytes, connack \o FlattenSeq(sent))
      BY <1>6, <2>5, <2>8, BeginsThrough DEF Along
    <2>10. Len(connack) = 4 /\ Len(bytes) >= 4 /\ took = 4
      BY <1>6, <2>2, <2>6, <2>9, ConnackTaken DEF took
    <2>11. 4 \in 0..Len(inFlight)
      BY <1>6, <2>10, BytesLen
    <2>12. Behind(connack \o FlattenSeq(sent), 4) = FlattenSeq(sent)
      BY <2>6, <2>7, <2>10, BehindFirst
    <2>13. inFlight' \in Bytes /\ Along(link = "up", inFlight', FlattenSeq(sent))
      <3>1. Along(link = "up", Behind(inFlight, 4),
                  Behind(connack \o FlattenSeq(sent), 4))
        BY <1>6, <2>5, <2>8, <2>11, AlongBehind
      <3> QED
        BY <1>6, <2>1, <2>10, <2>11, <2>12, <3>1, BytesBehind
    <2>14. TypeInv'
      BY <1>1, <1>4, <2>1, <2>13 DEF TypeInv, Bytes
    <2>15. Phases'
      <3>1. link' = "reset" => inFlight' = <<>>
        <4>1. link' = "reset" => Len(inFlight) = 0
          BY <1>1, <1>4 DEF Phases
        <4> QED
          BY <2>11, <4>1
      <3> QED
        BY <1>4, <1>5, <1>8, <2>1, <3>1 DEF Phases, IsError
    <2>16. InStep'
      <3>1. Len(done') = 0 /\ Len(done') <= Len(sent')
        BY <1>1, <1>4, <1>5, SentBytes
      <3>2. Unfinished' = FlattenSeq(sent)
        <4>1. Behind(sent, 0) = sent
          <5>1. sent \in Seq(Packets)
            BY <1>1 DEF TypeInv
          <5>2. SubSeq(sent, 1, Len(sent)) = sent
            BY <5>1, SubSeqFull
          <5> QED
            BY <5>2 DEF Behind
        <4> QED
          BY <1>4, <3>1, <4>1 DEF Unfinished
      <3>3. buffer' \o inFlight' = inFlight'
        BY <2>1, <2>13, ConcatEmptySeq DEF Bytes
      <3>4. Len(buffer') < BufferSize
        BY <2>1, ReceiveAssumption
      <3>5. Along(link' = "up", buffer' \o inFlight', Unfinished')
        BY <1>4, <2>13, <3>2, <3>3
      <3>6. \A k \in 1..Len(done') : Fate(done'[k], sent'[k])
        BY <3>1
      <3> QED
        BY <1>4, <3>1, <3>4, <3>5, <3>6 DEF InStep
    <2> QED
      BY <1>4, <1>8, <2>14, <2>15, <2>16 DEF Inv, IsError
  <1> QED
    BY <1>7, <1>8

\* What has been handled in step was not faulty.
LEMMA NothingFaulty ==
  ASSUME InStep, NEW k \in 1..Len(done), Len(sent[k]) <= BufferSize
  PROVE  sent[k] \notin Faulty
  BY DEF InStep, Fate

\* A call that fails and leaves what has been handled as it was.
LEMMA FailureKeeps ==
  ASSUME TypeInv, InStep, TypeInv', Phases', pc' = "idle", IsError(result'),
         UNCHANGED <<sent, done>>,
         result' = "MQTTBadResponse" =>
           \E packet \in AtHand : packet \in Faulty \/ packet[1] \in PublishAcks,
         result' = "MQTTRecvFailed" =>
           \/ link' # "up"
           \/ \E packet \in AtHand : AsksForAck(packet)
           \/ /\ transport' = "polling"
              /\ \E packet \in AtHand : Len(packet) > BufferSize
  PROVE  Inv'
  <1>1. AtHand' = AtHand
    BY DEF AtHand
  <1>2. Len(done') <= Len(sent')
    BY DEF InStep
  <1>3. \A k \in 1..Len(done') :
          k <= Len(sent') /\ sent'[k] \in Faulty /\ Len(sent'[k]) <= BufferSize =>
            k = Len(done')
    BY NothingFaulty
  <1>4. Explained'
    BY <1>1, <1>2, <1>3 DEF Explained
  <1> QED
    BY <1>4 DEF Inv

\* A call that keeps what it has received.
LEMMA KeptKeeps ==
  ASSUME TypeInv, Phases, InStep, pc = "idle", connectStatus = "MQTTConnected",
         UNCHANGED <<transport, link, connectStatus, answer, sent>>,
         NEW bytes \in Bytes, Len(bytes) < BufferSize, inFlight' \in Bytes,
         Along(link = "up", bytes \o inFlight', Unfinished),
         link = "reset" => inFlight' = <<>>,
         NEW status, ~IsError(status), KeepBytes(status, bytes)
  PROVE  Inv'
  <1>1. /\ result' = status /\ buffer' = bytes
        /\ UNCHANGED <<pc, left, done>>
    BY DEF KeepBytes
  <1>2. TypeInv'
    BY <1>1 DEF TypeInv
  <1>3. Phases'
    BY <1>1 DEF Phases
  <1>4. Unfinished' = Unfinished
    BY <1>1 DEF Unfinished
  <1>5. InStep'
    <2>1. \A k \in 1..Len(done') : Fate(done'[k], sent'[k])
      BY <1>1 DEF InStep
    <2>2. Len(done') <= Len(sent')
      BY <1>1 DEF InStep
    <2>3. Along(link' = "up", buffer' \o inFlight', Unfinished')
      BY <1>1, <1>4
    <2> QED
      BY <1>1, <2>1, <2>2, <2>3 DEF InStep
  <1> QED
    BY <1>1, <1>2, <1>3, <1>5 DEF Inv

\* A packet larger than the buffer begins to be thrown away.
LEMMA DiscardPacketKeeps ==
  ASSUME TypeInv, Phases, InStep, pc = "idle", connectStatus = "MQTTConnected",
         ~IsError(result),
         UNCHANGED <<transport, link, connectStatus, answer, sent>>,
         NEW bytes \in Bytes, Len(bytes) <= BufferSize, inFlight' \in Bytes,
         Along(link = "up", bytes \o inFlight', Unfinished),
         link = "reset" => inFlight' = <<>>,
         Len(done) < Len(sent),
         NEW header, DiscardPacket(header, bytes),
         header.headerLength \in Int, header.remainingLength \in Int,
         header.headerLength + header.remainingLength = Len(sent[Len(done) + 1]),
         Len(sent[Len(done) + 1]) > BufferSize
  PROVE  Inv'
  <1> DEFINE packet == sent[Len(done) + 1]
             rest == FlattenSeq(Behind(sent, Len(done) + 1))
  <1>1. /\ packet \in Bytes /\ rest \in Bytes /\ Unfinished = packet \o rest
        /\ Unfinished \in Bytes /\ Len(packet) \in Nat
    BY NextPacket
  <1>2. /\ pc' = "discard" /\ left' = Len(packet) - Len(bytes)
        /\ buffer' = bytes /\ UNCHANGED <<result, done>>
    <2> DEFINE total == header.headerLength + header.remainingLength
    <2>0. BytesToDiscard(header, bytes) = total - Len(bytes)
      BY BytesLen DEF BytesToDiscard
    <2>1. /\ pc' = "discard" /\ left' = total - Len(bytes)
          /\ buffer' = bytes /\ UNCHANGED <<result, done>>
      <3> HIDE DEF total
      <3> QED
        BY <2>0 DEF DiscardPacket
    <2>2. total = Len(packet)
      OBVIOUS
    <2> HIDE DEF total, packet
    <2> QED
      BY <2>1, <2>2
  <1>3. sent'[Len(done') + 1] = packet /\ Len(done') < Len(sent')
        /\ Len(packet) > BufferSize /\ Unfinished' = Unfinished
    BY <1>2 DEF Unfinished
  <1> HIDE DEF packet, rest
  <1>4. /\ Len(bytes) \in Nat /\ BufferSize \in Nat
        /\ Len(bytes) < Len(packet)
    BY <1>1, <1>3, BytesLen, ReceiveAssumption
  <1>5. left' \in 1..Len(packet)
    BY <1>1, <1>2, <1>4
  <1>6. Begins(bytes, packet)
    <2>1. bytes \o inFlight' \in Bytes /\ Begins(bytes, bytes \o inFlight')
      BY BytesJoined, BeginsJoined
    <2>2. Begins(bytes \o inFlight', Unfinished)
      BY DEF Along
    <2>3. Begins(bytes, Unfinished)
      BY <1>1, <2>1, <2>2, BeginsThrough
    <2>4. Begins(packet, Unfinished)
      BY <1>1, BeginsJoined
    <2>5. Len(bytes) <= Len(packet)
      BY <1>1, <1>4
    <2> QED
      BY <1>1, <2>3, <2>4, <2>5, BeginsCompare
  <1>7. Along(link = "up", inFlight', Behind(Unfinished, Len(packet) - left'))
    <2>1. Len(bytes) \in 0..Len(bytes \o inFlight')
      <3>1. Len(inFlight') \in Nat
            /\ Len(bytes \o inFlight') = Len(bytes) + Len(inFlight')
        BY BytesLen, BytesJoined
      <3> QED
        BY <1>4, <3>1
    <2>2. bytes \o inFlight' \in Bytes
      BY BytesJoined
    <2>3. Along(link = "up", Behind(bytes \o inFlight', Len(bytes)),
                Behind(Unfinished, Len(bytes)))
      BY <1>1, <2>1, <2>2, AlongBehind
    <2>4. Behind(bytes \o inFlight', Len(bytes)) = inFlight'
      BY BehindFirst
    <2>5. Len(packet) - left' = Len(bytes)
      BY <1>1, <1>2, <1>4
    <2> QED
      BY <2>3, <2>4, <2>5
  <1>8. TypeInv'
    <2>1. left' \in Nat
      BY <1>5
    <2> QED
      BY <1>2, <2>1 DEF TypeInv
  <1>9. Phases'
    BY <1>2 DEF Phases
  <1>10. Discarding'
    BY <1>2, <1>3, <1>5, <1>6, <1>7 DEF Discarding
  <1>11. InStep'
    <2>1. \A k \in 1..Len(done') : Fate(done'[k], sent'[k])
      BY <1>2 DEF InStep
    <2>2. Len(done') <= Len(sent')
      BY <1>2 DEF InStep
    <2> QED
      BY <1>2, <1>10, <2>1, <2>2 DEF InStep
  <1> QED
    BY <1>2, <1>8, <1>9, <1>11 DEF Inv

\* The same part of a packet, whatever follows the packet.
LEMMA SamePart ==
  ASSUME NEW b \in Bytes, NEW c \in Bytes, Begins(b, c), NEW n \in Nat \ {0}
  PROVE  SubSeq(c, n, Len(b)) = SubSeq(b, n, Len(b))
  <1>1. /\ Len(b) \in Nat /\ Len(c) \in Nat /\ Len(b) <= Len(c)
        /\ \A i \in 1..Len(b) : b[i] = c[i] /\ b[i] \in Byte /\ c[i] \in Byte
    BY BytesLen DEF Begins
  <1>2. /\ \A i \in n..Len(b) : b[i] \in Byte /\ c[i] \in Byte
        /\ n \in Int /\ Len(b) \in Int
    BY <1>1
  <1> DEFINE l == SubSeq(c, n, Len(b))
             r == SubSeq(b, n, Len(b))
  <1>3. /\ l \in Seq(Byte) /\ Len(l) = IF n <= Len(b) THEN Len(b) - n + 1 ELSE 0
        /\ \A i \in 1..(Len(b) - n + 1) : l[i] = c[n + i - 1]
    BY <1>2, SubSeqProperties
  <1>4. /\ r \in Seq(Byte) /\ Len(r) = IF n <= Len(b) THEN Len(b) - n + 1 ELSE 0
        /\ \A i \in 1..(Len(b) - n + 1) : r[i] = b[n + i - 1]
    BY <1>2, SubSeqProperties
  <1> HIDE DEF l, r
  <1>5. ASSUME NEW i \in 1..Len(l)
        PROVE  l[i] = r[i]
    <2>1. i \in 1..(Len(b) - n + 1) /\ n + i - 1 \in 1..Len(b)
      BY <1>1, <1>3
    <2> QED
      BY <1>1, <1>3, <1>4, <2>1
  <1>6. Len(l) = Len(r)
    BY <1>3, <1>4
  <1>7. l = r
    BY <1>3, <1>4, <1>5, <1>6, SeqEqual
  <1> QED
    BY <1>7 DEF l, r

\* A whole packet is handled.
LEMMA HandlePacketKeeps ==
  ASSUME TypeInv, Phases, InStep, pc = "idle", connectStatus = "MQTTConnected",
         UNCHANGED <<transport, link, connectStatus, answer, sent>>,
         NEW bytes \in Bytes, Len(bytes) <= BufferSize, inFlight' \in Bytes,
         Along(link = "up", bytes \o inFlight', Unfinished),
         link = "reset" => inFlight' = <<>>,
         Len(done) < Len(sent),
         NEW packet, packet = sent[Len(done) + 1],
         NEW header, header = MQTT_ProcessIncomingPacketTypeAndLength(packet),
         header.status = "MQTTSuccess", header.type = packet[1],
         header.headerLength \in Nat,
         header.headerLength + header.remainingLength = Len(packet),
         Len(packet) <= Len(bytes),
         HandlePacket(header, bytes)
  PROVE  Inv'
  <1> DEFINE rest == FlattenSeq(Behind(sent, Len(done) + 1))
             record == [bytes |-> packet, fate |-> "handled"]
  <1>1. /\ packet \in Packets /\ packet \in Bytes /\ packet # <<>>
        /\ rest \in Bytes /\ Unfinished = packet \o rest
        /\ Unfinished \in Bytes /\ Len(packet) \in Nat
        /\ Behind(Unfinished, Len(packet)) = rest
    BY NextPacket
  <1> HIDE DEF rest
  <1>2. /\ Len(bytes) \in Nat /\ BufferSize \in Nat /\ Len(packet) \in Nat \ {0}
        /\ Len(packet) \in 0..Len(bytes)
    BY <1>1, BytesLen, ReceiveAssumption
  <1>3. Begins(packet, bytes)
    <2>1. bytes \o inFlight' \in Bytes /\ Begins(bytes, bytes \o inFlight')
      BY BytesJoined, BeginsJoined
    <2>2. Begins(bytes \o inFlight', Unfinished)
      BY DEF Along
    <2>3. Begins(bytes, Unfinished)
      BY <1>1, <2>1, <2>2, BeginsThrough
    <2>4. Begins(packet, Unfinished)
      BY <1>1, BeginsJoined
    <2> QED
      BY <1>1, <2>3, <2>4, BeginsCompare
  <1>4. SubSeq(bytes, 1, Len(packet)) = packet
    <2>0. 1 \in Nat \ {0}
      OBVIOUS
    <2>1. SubSeq(bytes, 1, Len(packet)) = SubSeq(packet, 1, Len(packet))
      BY <1>1, <1>3, <2>0, SamePart
    <2>2. SubSeq(packet, 1, Len(packet)) = packet
      BY <1>1, SubSeqFull DEF Bytes
    <2> QED
      BY <2>1, <2>2
  <1> DEFINE data == SubSeq(packet, header.headerLength + 1, Len(packet))
  <1>5. SubSeq(bytes, header.headerLength + 1, Len(packet)) = data
    <2> DEFINE n == header.headerLength + 1
    <2>1. n \in Nat \ {0}
      OBVIOUS
    <2> HIDE DEF n
    <2>2. SubSeq(bytes, n, Len(packet)) = SubSeq(packet, n, Len(packet))
      BY <1>1, <1>3, <2>1, SamePart
    <2> QED
      BY <2>2 DEF n
  <1>6. /\ result' \in IF TypeBits(header.type) = MQTT_PACKET_TYPE_PUBLISH
                         THEN handleIncomingPublish(header.type, data)
                         ELSE handleIncomingAck(header.type, data)
        /\ done' = Append(done, record)
        /\ buffer' = Behind(bytes, Len(packet))
        /\ UNCHANGED <<pc, left>>
    <2> DEFINE total == header.headerLength + header.remainingLength
               body == SubSeq(bytes, header.headerLength + 1, total)
    <2>1. /\ result' \in IF TypeBits(header.type) = MQTT_PACKET_TYPE_PUBLISH
                           THEN handleIncomingPublish(header.type, body)
                           ELSE handleIncomingAck(header.type, body)
          /\ done' = Append(done, [bytes |-> SubSeq(bytes, 1, total),
                                   fate |-> "handled"])
          /\ buffer' = Behind(bytes, total)
          /\ UNCHANGED <<pc, left>>
      BY DEF HandlePacket
    <2>2. total = Len(packet)
      OBVIOUS
    <2>3. body = data
      BY <1>5, <2>2
    <2> HIDE DEF total, data, body
    <2> QED
      BY <1>4, <2>1, <2>2, <2>3
  <1>7. /\ result' = "MQTTBadResponse" =>
              packet \in Faulty \/ packet[1] \in PublishAcks
        /\ result' = "MQTTRecvFailed" => AsksForAck(packet)
        /\ packet \in Faulty => IsError(result')
    BY <1>1, <1>6, HandledStatus
  <1> HIDE DEF data, record
  <1>8. /\ done \in Seq(Records) /\ sent \in Seq(Packets)
        /\ Len(sent) \in Nat /\ Len(done) \in Nat
    BY SentBytes DEF TypeInv
  <1>9. record \in Records
    BY <1>1 DEF record, Records
  <1>10. /\ done' \in Seq(Records) /\ Len(done') = Len(done) + 1
         /\ \A i \in 1..Len(done) : done'[i] = done[i]
         /\ done'[Len(done) + 1] = record
    BY <1>6, <1>8, <1>9, AppendProperties
  <1>11. Len(done') <= Len(sent') /\ Len(done') \in 1..Len(sent')
    BY <1>8, <1>10
  <1>12. buffer' \in Bytes /\ Len(buffer') = Len(bytes) - Len(packet)
    BY <1>2, <1>6, BytesBehind
  <1>13. TypeInv'
    BY <1>6, <1>10, <1>12 DEF TypeInv
  <1>14. Phases'
    BY <1>6 DEF Phases
  <1>15. ASSUME ~IsError(result')
         PROVE  InStep'
    <2>1. \A k \in 1..Len(done') : Fate(done'[k], sent'[k])
      <3> SUFFICES ASSUME NEW k \in 1..Len(done')
                   PROVE  Fate(done'[k], sent[k])
        OBVIOUS
      <3>1. CASE k \in 1..Len(done)
        BY <1>10, <3>1 DEF InStep
      <3>2. CASE k = Len(done) + 1
        <4>1. Len(packet) <= BufferSize
          BY <1>2
        <4>2. packet \notin Faulty
          BY <1>7, <1>15
        <4>3. Fate(record, packet)
          BY <4>1, <4>2 DEF Fate, record
        <4> QED
          BY <1>10, <3>2, <4>3
      <3> QED
        BY <1>8, <1>10, <3>1, <3>2
    <2>2. Len(buffer') < BufferSize
      BY <1>2, <1>12
    <2>3. Unfinished' = rest
      BY <1>10 DEF Unfinished, rest
    <2>4. Along(link' = "up", buffer' \o inFlight', Unfinished')
      <3>1. bytes \o inFlight' \in Bytes
            /\ Len(packet) \in 0..Len(bytes \o inFlight')
        <4>1. Len(inFlight') \in Nat /\ bytes \o inFlight' \in Bytes
              /\ Len(bytes \o inFlight') = Len(bytes) + Len(inFlight')
          BY BytesLen, BytesJoined
        <4> QED
          BY <1>2, <4>1
      <3>2. Along(link = "up", Behind(bytes \o inFlight', Len(packet)),
                  Behind(Unfinished, Len(packet)))
        BY <1>1, <3>1, AlongBehind
      <3>3. Behind(bytes \o inFlight', Len(packet)) = buffer' \o inFlight'
        BY <1>2, <1>6, BehindSome
      <3> QED
        BY <1>1, <2>3, <3>2, <3>3
    <2> QED
      BY <1>6, <1>11, <2>1, <2>2, <2>4 DEF InStep
  <1>16. ASSUME IsError(result')
         PROVE  Explained'
    <2>1. packet \in AtHand'
      <3>1. /\ Len(done') \in {Len(done'), Len(done') + 1} \intersect DOMAIN sent'
            /\ sent'[Len(done')] = packet
        BY <1>8, <1>10, <1>11
      <3> QED
        BY <3>1 DEF AtHand
    <2>2. ASSUME NEW k \in 1..Len(done'), k <= Len(sent'), sent'[k] \in Faulty,
                 Len(sent'[k]) <= BufferSize
          PROVE  k = Len(done')
      <3>1. CASE k \in 1..Len(done)
        BY <2>2, <3>1, NothingFaulty
      <3>2. CASE k = Len(done) + 1
        BY <1>10, <3>2
      <3> QED
        BY <1>8, <1>10, <3>1, <3>2
    <2> QED
      BY <1>7, <1>11, <2>1, <2>2 DEF Explained
  <1> QED
    BY <1>6, <1>13, <1>14, <1>15, <1>16 DEF Inv

\* What has been received is looked at.
LEMMA ProcessBytesKeeps ==
  ASSUME TypeInv, Phases, InStep, pc = "idle", connectStatus = "MQTTConnected",
         ~IsError(result),
         UNCHANGED <<transport, link, connectStatus, answer, sent>>,
         NEW received \in 0..Len(inFlight), received <= BufferSize - Len(buffer),
         inFlight' = Behind(inFlight, received),
         ProcessBytes(received, buffer \o SubSeq(inFlight, 1, received))
  PROVE  Inv'
  <1> DEFINE bytes == buffer \o SubSeq(inFlight, 1, received)
             header == MQTT_ProcessIncomingPacketTypeAndLength(bytes)
             total == header.headerLength + header.remainingLength
             packet == sent[Len(done) + 1]
             rest == FlattenSeq(Behind(sent, Len(done) + 1))
  <1>1. /\ inFlight \in Bytes /\ buffer \in Bytes
        /\ Len(inFlight) \in Nat /\ Len(buffer) \in Nat
        /\ BufferSize \in Nat /\ BufferSize >= 5
    BY BytesLen, ReceiveAssumption DEF TypeInv
  <1>2. /\ bytes \in Bytes /\ Len(bytes) = Len(buffer) + received
        /\ inFlight' \in Bytes /\ Len(inFlight') = Len(inFlight) - received
        /\ bytes \o inFlight' = buffer \o inFlight
    BY <1>1, Received
  <1>3. IF NothingToProcess(received) THEN KeepBytes("MQTTSuccess", bytes)
        ELSE IF header.status # "MQTTSuccess" THEN KeepBytes(header.status, bytes)
        ELSE IF total > BufferSize THEN DiscardPacket(header, bytes)
        ELSE IF total > Len(bytes) THEN KeepBytes("MQTTNeedMoreBytes", bytes)
        ELSE HandlePacket(header, bytes)
    BY DEF ProcessBytes
  <1> HIDE DEF bytes
  <1>4. /\ Len(done) <= Len(sent) /\ Len(buffer) < BufferSize
        /\ Along(link = "up", bytes \o inFlight', Unfinished)
    BY <1>2 DEF InStep
  <1>5. Len(bytes) <= BufferSize /\ Len(bytes) \in Nat
    BY <1>1, <1>2, <1>4
  <1>6. link = "reset" => inFlight' = <<>>
    <2>1. link = "reset" => Len(inFlight) = 0
      BY DEF Phases
    <2>2. link = "reset" => Len(inFlight') = 0
      BY <1>2, <2>1
    <2> QED
      BY <1>2, <2>2, BytesLen
  <1>7. CASE NothingToProcess(received)
    <2>1. Len(bytes) < BufferSize
      BY <1>1, <1>2, <1>4, <1>7 DEF NothingToProcess, index
    <2>2. KeepBytes("MQTTSuccess", bytes) /\ ~IsError("MQTTSuccess")
      BY <1>3, <1>7 DEF IsError
    <2> QED
      BY <1>2, <1>4, <1>6, <2>1, <2>2, KeptKeeps
  <1>8. CASE ~NothingToProcess(received)
    <2>1. bytes # <<>>
      <3>1. Len(bytes) # 0
        BY <1>1, <1>2, <1>8 DEF NothingToProcess, index
      <3> QED
        BY <1>2, <3>1, BytesLen
    <2>2. Begins(bytes, Unfinished) /\ Unfinished \in Bytes
      <3>1. bytes \o inFlight' \in Bytes /\ Begins(bytes, bytes \o inFlight')
        BY <1>2, BytesJoined, BeginsJoined
      <3>2. Unfinished \in Bytes
        BY <1>4, UnfinishedBytes
      <3>3. Begins(bytes \o inFlight', Unfinished)
        BY <1>4 DEF Along
      <3> QED
        BY <1>2, <3>1, <3>2, <3>3, BeginsThrough
    <2>3. Len(done) < Len(sent)
      BY <1>2, <1>4, <2>1, <2>2, SomethingNext
    <2>4. /\ packet \in Packets /\ packet \in Bytes /\ rest \in Bytes
          /\ Unfinished = packet \o rest /\ Len(packet) \in Nat
      BY <2>3, NextPacket
    <2>5. /\ header.status \in {"MQTTSuccess", "MQTTBadResponse",
                                "MQTTNeedMoreBytes"}
          /\ header.status = "MQTTNeedMoreBytes" => Len(bytes) <= 4
          /\ header.status = "MQTTBadResponse" => packet \in Faulty
          /\ header.status = "MQTTSuccess" =>
               /\ header = MQTT_ProcessIncomingPacketTypeAndLength(packet)
               /\ header.type = packet[1]
               /\ header.headerLength \in Nat
               /\ header.remainingLength \in Int
               /\ total = Len(packet)
      <3>1. Begins(bytes, packet \o rest)
        BY <2>2, <2>4
      <3> HIDE DEF packet, rest
      <3> QED
        BY <1>2, <2>1, <2>4, <3>1, PacketRead
    <2>6. packet \in AtHand
      <3>1. sent \in Seq(Packets) /\ Len(sent) \in Nat /\ Len(done) \in Nat
        BY SentBytes DEF TypeInv
      <3>2. Len(done) + 1 \in {Len(done), Len(done) + 1} \intersect DOMAIN sent
        BY <2>3, <3>1
      <3> QED
        BY <3>2 DEF AtHand
    <2> HIDE DEF header
    <2>7. CASE header.status = "MQTTNeedMoreBytes"
      <3>1. Len(bytes) < BufferSize
        BY <1>1, <1>5, <2>5, <2>7
      <3>2. KeepBytes("MQTTNeedMoreBytes", bytes) /\ ~IsError("MQTTNeedMoreBytes")
        BY <1>3, <1>8, <2>7 DEF IsError
      <3> QED
        BY <1>2, <1>4, <1>6, <3>1, <3>2, KeptKeeps
    <2>8. CASE header.status = "MQTTBadResponse"
      <3>1. /\ result' = "MQTTBadResponse" /\ buffer' = bytes
            /\ UNCHANGED <<pc, left, done>>
        BY <1>3, <1>8, <2>8 DEF KeepBytes
      <3>2. TypeInv'
        BY <1>2, <3>1 DEF TypeInv
      <3>3. Phases'
        BY <1>6, <3>1 DEF Phases
      <3>4. \E p \in AtHand : p \in Faulty
        BY <2>5, <2>6, <2>8
      <3> QED
        BY <3>1, <3>2, <3>3, <3>4, FailureKeeps DEF IsError
    <2>9. CASE header.status = "MQTTSuccess" /\ total > BufferSize
      <3>1. DiscardPacket(header, bytes)
        BY <1>3, <1>8, <2>9
      <3>2. /\ header.headerLength + header.remainingLength
                 = Len(sent[Len(done) + 1])
            /\ header.headerLength \in Int /\ header.remainingLength \in Int
            /\ Len(sent[Len(done) + 1]) > BufferSize
        BY <2>5, <2>9
      <3> QED
        BY <1>2, <1>4, <1>5, <1>6, <2>3, <3>1, <3>2, DiscardPacketKeeps
    <2>10. CASE /\ header.status = "MQTTSuccess" /\ ~(total > BufferSize)
                /\ total > Len(bytes)
      <3>1. Len(bytes) < BufferSize
        BY <1>1, <1>5, <2>4, <2>5, <2>10
      <3>2. KeepBytes("MQTTNeedMoreBytes", bytes) /\ ~IsError("MQTTNeedMoreBytes")
        BY <1>3, <1>8, <2>10 DEF IsError
      <3> QED
        BY <1>2, <1>4, <1>6, <3>1, <3>2, KeptKeeps
    <2>11. CASE /\ header.status = "MQTTSuccess" /\ ~(total > BufferSize)
                /\ ~(total > Len(bytes))
      <3>1. HandlePacket(header, bytes)
        BY <1>3, <1>8, <2>11
      <3>2. Len(packet) <= Len(bytes)
        BY <1>5, <2>4, <2>5, <2>11
      <3>3. /\ header = MQTT_ProcessIncomingPacketTypeAndLength(packet)
            /\ header.type = packet[1] /\ header.headerLength \in Nat
            /\ header.headerLength + header.remainingLength = Len(packet)
        BY <2>5, <2>11
      <3>4. packet = sent[Len(done) + 1]
        OBVIOUS
      <3> HIDE DEF packet, total
      <3> QED
        BY <1>2, <1>4, <1>5, <1>6, <2>3, <2>11, <3>1, <3>2, <3>3, <3>4,
           HandlePacketKeeps
    <2> QED
      BY <2>5, <2>7, <2>8, <2>9, <2>10, <2>11
  <1> QED
    BY <1>7, <1>8

LEMMA ReceiveKeeps ==
  ASSUME Inv, NEW manageKeepAlive, receiveSingleIteration(manageKeepAlive)
  PROVE  Inv'
  <1>1. TypeInv /\ Phases
    BY DEF Inv
  <1>2. /\ pc = "idle" /\ connectStatus = "MQTTConnected" /\ ~IsError(result)
        /\ UNCHANGED <<transport, link, answer, sent>>
    BY <1>1 DEF receiveSingleIteration, Phases, TypeInv
  <1>3. InStep /\ link # "down"
    BY <1>1, <1>2 DEF Inv, Phases
  <1>4. PICK received \in RecvFrom(inFlight, BufferSize - index) :
          \/ /\ received < 0
             /\ ConnectionFails
             /\ KeepBytes("MQTTRecvFailed", buffer)
             /\ UNCHANGED inFlight
          \/ /\ received >= 0
             /\ inFlight' = Behind(inFlight, received)
             /\ ProcessBytes(received, buffer \o SubSeq(inFlight, 1, received))
             /\ UNCHANGED connectStatus
          \/ /\ received = 0 /\ manageKeepAlive
             /\ KeepBytes("MQTTKeepAliveTimeout", buffer)
             /\ UNCHANGED <<connectStatus, inFlight>>
    BY DEF receiveSingleIteration
  <1>5. /\ Len(buffer) \in Nat /\ BufferSize \in Nat /\ Len(buffer) < BufferSize
        /\ inFlight \in Bytes
    BY <1>1, <1>2, <1>3, BytesLen, ReceiveAssumption DEF TypeInv, InStep
  <1>6. BufferSize - index \in Nat /\ BufferSize - index > 0
    BY <1>5 DEF index
  <1>7. \/ received = -1 /\ link # "up"
        \/ received \in 0..Len(inFlight) /\ received <= BufferSize - index
    <2> DEFINE request == BufferSize - index
    <2>1. request \in Nat /\ request > 0 /\ received \in RecvFrom(inFlight, request)
      BY <1>4, <1>6
    <2> HIDE DEF request
    <2>2. \/ received = -1 /\ link # "up"
          \/ received \in 0..Len(inFlight) /\ received <= request
      BY <1>1, <1>5, <2>1, RecvGives DEF TypeInv
    <2> QED
      BY <2>2 DEF request
  <1>8. CASE /\ received < 0 /\ ConnectionFails
             /\ KeepBytes("MQTTRecvFailed", buffer) /\ UNCHANGED inFlight
    <2>1. link # "up"
      BY <1>7, <1>8
    <2>2. /\ result' = "MQTTRecvFailed" /\ connectStatus' = "MQTTDisconnectPending"
          /\ UNCHANGED <<pc, left, done, buffer, inFlight>>
      BY <1>2, <1>8 DEF KeepBytes, ConnectionFails
    <2>3. TypeInv'
      BY <1>1, <1>2, <2>2 DEF TypeInv
    <2>4. Phases'
      BY <1>1, <1>2, <1>3, <2>2 DEF Phases, IsError
    <2> QED
      BY <1>1, <1>2, <1>3, <2>1, <2>2, <2>3, <2>4, FailureKeeps DEF IsError
  <1>9. CASE /\ received >= 0
             /\ inFlight' = Behind(inFlight, received)
             /\ ProcessBytes(received, buffer \o SubSeq(inFlight, 1, received))
             /\ UNCHANGED connectStatus
    <2>1. received \in 0..Len(inFlight) /\ received <= BufferSize - Len(buffer)
      BY <1>7, <1>9 DEF index
    <2> QED
      BY <1>1, <1>2, <1>3, <1>9, <2>1, ProcessBytesKeeps
  <1>10. CASE /\ received = 0 /\ manageKeepAlive
              /\ KeepBytes("MQTTKeepAliveTimeout", buffer)
              /\ UNCHANGED <<connectStatus, inFlight>>
    <2>1. /\ result' = "MQTTKeepAliveTimeout"
          /\ UNCHANGED <<pc, left, done, buffer, inFlight, connectStatus>>
      BY <1>10 DEF KeepBytes
    <2>2. TypeInv'
      BY <1>1, <1>2, <2>1 DEF TypeInv
    <2>3. Phases'
      BY <1>1, <1>2, <1>3, <2>1 DEF Phases, IsError
    <2> QED
      BY <1>1, <1>2, <1>3, <2>1, <2>2, <2>3, FailureKeeps DEF IsError
  <1> QED
    BY <1>4, <1>8, <1>9, <1>10

\* Some of an oversized packet is thrown away, or the rest of it.
LEMMA DiscardOnKeeps ==
  ASSUME TypeInv, Phases, InStep, pc = "discard",
         connectStatus = "MQTTConnected", ~IsError(result),
         NEW request \in Nat, request > 0, request <= left,
         Len(inFlight) >= request,
         inFlight' = Behind(inFlight, request),
         left' = left - request,
         IF left' > 0
           THEN UNCHANGED <<pc, buffer, result, done>>
           ELSE /\ pc' = "idle" /\ buffer' = <<>> /\ result' = "MQTTSuccess"
                /\ done' = Append(done, [bytes |-> buffer, fate |-> "dropped"]),
         UNCHANGED <<transport, link, connectStatus, answer, sent>>
  PROVE  Inv'
  <1> DEFINE next == sent[Len(done) + 1]
             rest == FlattenSeq(Behind(sent, Len(done) + 1))
             skipped == Len(next) - left
             ahead == Behind(Unfinished, skipped)
  <1>1. /\ Len(done) < Len(sent) /\ Len(next) > BufferSize
        /\ left \in 1..Len(next) /\ Begins(buffer, next)
        /\ Along(link = "up", inFlight, ahead)
    BY DEF InStep, Discarding
  <1>2. /\ next \in Packets /\ next \in Bytes /\ rest \in Bytes
        /\ Unfinished = next \o rest /\ Unfinished \in Bytes
        /\ Len(next) \in Nat /\ Len(next) <= Len(Unfinished)
        /\ Behind(Unfinished, Len(next)) = rest
    BY <1>1, NextPacket
  <1> HIDE DEF next, rest
  <1>3. /\ inFlight \in Bytes /\ buffer \in Bytes /\ done \in Seq(Records)
        /\ sent \in Seq(Packets) /\ Len(inFlight) \in Nat
        /\ Len(Unfinished) \in Nat
        /\ Len(sent) \in Nat /\ Len(done) \in Nat
    BY <1>2, BytesLen, SentBytes DEF TypeInv
  <1>4. /\ skipped \in Nat /\ skipped + request <= Len(Unfinished)
        /\ skipped \in 0..Len(Unfinished)
        /\ Len(next) - left' = skipped + request
    BY <1>1, <1>2, <1>3
  <1> HIDE DEF skipped
  <1>5. ahead \in Bytes
    BY <1>2, <1>4, BytesBehind
  <1>6. Behind(ahead, request) = Behind(Unfinished, skipped + request)
    BY <1>2, <1>4, BehindTwice DEF Bytes
  <1> HIDE DEF ahead
  <1>7. request \in 0..Len(inFlight)
    BY <1>3
  <1>8. /\ inFlight' \in Bytes
        /\ Along(link = "up", inFlight', Behind(Unfinished, Len(next) - left'))
    <2>1. inFlight' = Behind(inFlight, request) /\ (link = "up") \in BOOLEAN
      BY <1>3
    <2>2. inFlight' \in Bytes
      BY <1>3, <1>7, <2>1, BytesBehind
    <2>3. Along(link = "up", Behind(inFlight, request), Behind(ahead, request))
      BY <1>1, <1>3, <1>5, <1>7, <2>1, AlongBehind
    <2> QED
      BY <1>4, <1>6, <2>1, <2>2, <2>3
  <1>9. link = "reset" => inFlight' = <<>>
    <2>1. link = "reset" => Len(inFlight) = 0
      BY DEF Phases
    <2> QED
      BY <1>3, <2>1
  <1>10. left' \in Nat /\ left' <= Len(next)
    BY <1>1, <1>2
  <1>11. CASE left' > 0
    <2>1. UNCHANGED <<pc, buffer, result, done>>
      BY <1>11
    <2>2. TypeInv'
      BY <1>8, <1>10, <2>1 DEF TypeInv
    <2>3. Phases'
      BY <1>9, <2>1 DEF Phases
    <2>4. Discarding'
      <3>1. sent'[Len(done') + 1] = next /\ Unfinished' = Unfinished
        BY <2>1 DEF next, Unfinished
      <3>2. left' \in 1..Len(next)
        BY <1>2, <1>10, <1>11
      <3> QED
        BY <1>1, <1>8, <2>1, <3>1, <3>2 DEF Discarding
    <2>5. InStep'
      <3>1. \A k \in 1..Len(done') : Fate(done'[k], sent'[k])
        BY <2>1 DEF InStep
      <3>2. Len(done') <= Len(sent')
        BY <2>1 DEF InStep
      <3> QED
        BY <2>1, <2>4, <3>1, <3>2 DEF InStep
    <2> QED
      BY <2>1, <2>2, <2>3, <2>5 DEF Inv
  <1>12. CASE ~(left' > 0)
    <2> DEFINE record == [bytes |-> buffer, fate |-> "dropped"]
    <2>1. /\ pc' = "idle" /\ buffer' = <<>> /\ result' = "MQTTSuccess"
          /\ done' = Append(done, record)
      BY <1>12
    <2>2. record \in Records /\ record.fate = "dropped" /\ record.bytes = buffer
      BY <1>3 DEF Records
    <2> HIDE DEF record
    <2>3. /\ done' \in Seq(Records) /\ Len(done') = Len(done) + 1
          /\ \A i \in 1..Len(done) : done'[i] = done[i]
          /\ done'[Len(done) + 1] = record
      BY <1>3, <2>1, <2>2, AppendProperties
    <2>4. TypeInv'
      BY <1>8, <1>10, <2>1, <2>3 DEF TypeInv, Bytes
    <2>5. Phases'
      BY <1>9, <2>1 DEF Phases, IsError
    <2>6. \A k \in 1..Len(done') : Fate(done'[k], sent'[k])
      <3> SUFFICES ASSUME NEW k \in 1..Len(done')
                   PROVE  Fate(done'[k], sent[k])
        OBVIOUS
      <3>1. CASE k \in 1..Len(done)
        BY <2>3, <3>1 DEF InStep
      <3>2. CASE k = Len(done) + 1
        <4>1. sent[k] = next /\ done'[k] = record
          BY <2>3, <3>2 DEF next
        <4>2. ~(Len(next) <= BufferSize)
          BY <1>1, <1>2, ReceiveAssumption
        <4>3. Fate(record, next)
          BY <1>1, <2>2, <4>2 DEF Fate
        <4> QED
          BY <4>1, <4>3
      <3> QED
        BY <1>3, <2>3, <3>1, <3>2
    <2>7. Unfinished' = rest
      BY <2>3 DEF Unfinished, rest
    <2>8. Along(link' = "up", buffer' \o inFlight', Unfinished')
      <3>1. Len(next) - left' = Len(next)
        BY <1>2, <1>10, <1>12
      <3>2. buffer' \o inFlight' = inFlight'
        BY <1>8, <2>1, ConcatEmptySeq DEF Bytes
      <3> QED
        BY <1>2, <1>8, <2>7, <3>1, <3>2
    <2>9. Len(buffer') < BufferSize /\ Len(done') <= Len(sent')
      BY <1>1, <1>3, <2>1, <2>3, ReceiveAssumption
    <2>10. InStep'
      BY <2>1, <2>6, <2>8, <2>9 DEF InStep
    <2> QED
      BY <2>1, <2>4, <2>5, <2>10 DEF Inv, IsError
  <1> QED
    BY <1>11, <1>12

LEMMA DiscardKeeps ==
  ASSUME Inv, Discard
  PROVE  Inv'
  <1>1. TypeInv /\ Phases
    BY DEF Inv
  <1>2. /\ pc = "discard" /\ connectStatus = "MQTTConnected" /\ ~IsError(result)
        /\ link # "down"
        /\ UNCHANGED <<transport, link, answer, sent>>
    BY <1>1 DEF Discard, Phases, TypeInv
  <1>3. InStep
    BY <1>2 DEF Inv
  <1> DEFINE next == sent[Len(done) + 1]
             request == Min({BufferSize, left})
  <1>4. /\ Len(done) < Len(sent) /\ Len(next) > BufferSize
        /\ left \in 1..Len(next)
    BY <1>2, <1>3 DEF InStep, Discarding
  <1>5. /\ BufferSize \in Nat /\ BufferSize >= 5 /\ left \in Nat /\ left > 0
        /\ inFlight \in Bytes /\ Len(inFlight) \in Nat
    BY <1>1, <1>4, BytesLen, ReceiveAssumption DEF TypeInv
  <1>6. request \in Nat /\ request > 0 /\ request <= left
    <2>1. BufferSize \in Int /\ left \in Int
      BY <1>5
    <2>2. request \in {BufferSize, left} /\ request <= left
      BY <2>1, MinOfTwo
    <2> HIDE DEF request
    <2> QED
      BY <1>5, <2>2
  <1>7. \/ /\ Len(inFlight) >= request
           /\ inFlight' = Behind(inFlight, request)
           /\ left' = left - request
           /\ IF left' > 0
                THEN UNCHANGED <<pc, buffer, result, done>>
                ELSE /\ pc' = "idle" /\ buffer' = <<>> /\ result' = "MQTTSuccess"
                     /\ done' = Append(done, [bytes |-> buffer,
                                              fate |-> "dropped"])
           /\ UNCHANGED connectStatus
        \/ /\ \E n \in 0..Min({request - 1, Len(inFlight)}) :
                \E stop \in recvExactStopsAt(n) :
                  /\ inFlight' = Behind(inFlight, n)
                  /\ IF stop = -1 THEN ConnectionFails ELSE UNCHANGED connectStatus
           /\ pc' = "idle" /\ buffer' = <<>> /\ left' = 0
           /\ result' = "MQTTRecvFailed"
           /\ UNCHANGED done
    BY DEF Discard
  <1> HIDE DEF request
  <1>8. CASE /\ Len(inFlight) >= request
             /\ inFlight' = Behind(inFlight, request)
             /\ left' = left - request
             /\ IF left' > 0
                  THEN UNCHANGED <<pc, buffer, result, done>>
                  ELSE /\ pc' = "idle" /\ buffer' = <<>>
                       /\ result' = "MQTTSuccess"
                       /\ done' = Append(done, [bytes |-> buffer,
                                                fate |-> "dropped"])
             /\ UNCHANGED connectStatus
    BY <1>1, <1>2, <1>3, <1>6, <1>8, DiscardOnKeeps
  <1>9. CASE /\ \E n \in 0..Min({request - 1, Len(inFlight)}) :
                  \E stop \in recvExactStopsAt(n) :
                    /\ inFlight' = Behind(inFlight, n)
                    /\ IF stop = -1 THEN ConnectionFails
                                    ELSE UNCHANGED connectStatus
             /\ pc' = "idle" /\ buffer' = <<>> /\ left' = 0
             /\ result' = "MQTTRecvFailed"
             /\ UNCHANGED done
    <2>1. PICK n \in 0..Min({request - 1, Len(inFlight)}) :
            \E stop \in recvExactStopsAt(n) :
              /\ inFlight' = Behind(inFlight, n)
              /\ IF stop = -1 THEN ConnectionFails ELSE UNCHANGED connectStatus
      BY <1>9
    <2>2. PICK stop \in recvExactStopsAt(n) :
            /\ inFlight' = Behind(inFlight, n)
            /\ IF stop = -1 THEN ConnectionFails ELSE UNCHANGED connectStatus
      BY <2>1
    <2>3. n \in 0..Len(inFlight)
      <3> DEFINE m == Min({request - 1, Len(inFlight)})
      <3>1. request - 1 \in Int /\ Len(inFlight) \in Int
        BY <1>5, <1>6
      <3>2. m \in {request - 1, Len(inFlight)} /\ m <= Len(inFlight)
        BY <3>1, MinOfTwo
      <3>3. n \in 0..m
        OBVIOUS
      <3> HIDE DEF m
      <3> QED
        BY <1>5, <1>6, <3>2, <3>3
    <2>4. Behind(inFlight, n) \in Bytes
          /\ Len(Behind(inFlight, n)) = Len(inFlight) - n
      BY <1>5, <2>3, BytesBehind
    <2>5. link # "up" \/ transport = "polling"
      <3>1. stop \in {0, -1} /\ stop \in RecvFrom(Behind(inFlight, n), 1)
        BY <2>2 DEF recvExactStopsAt
      <3>2. 1 \in Nat /\ 1 > 0
        OBVIOUS
      <3>3. /\ link \in {"down", "up", "closed", "reset"}
            /\ transport \in {"polling", "blocking"}
        BY <1>1 DEF TypeInv
      <3>4. /\ \/ stop = -1 /\ link # "up"
               \/ stop \in 0..Len(Behind(inFlight, n)) /\ stop <= 1
            /\ stop = 0 => link # "up" \/ transport = "polling"
        BY <2>4, <3>1, <3>2, <3>3, RecvGives
      <3>5. stop = -1 => ~(stop \in 0..Len(Behind(inFlight, n)))
        OBVIOUS
      <3> QED
        BY <3>1, <3>4, <3>5
    <2>6. connectStatus' \in {"MQTTConnected", "MQTTDisconnectPending"}
      BY <1>2, <2>2 DEF ConnectionFails
    <2>7. TypeInv'
      BY <1>1, <1>2, <1>9, <2>2, <2>4, <2>6 DEF TypeInv, Bytes
    <2>8. Phases'
      <3>1. link = "reset" => inFlight' = <<>>
        <4>1. link = "reset" => Len(inFlight) = 0
          BY <1>1 DEF Phases
        <4>2. link = "reset" => n = 0
          BY <2>3, <4>1
        <4>3. link = "reset" => Len(Behind(inFlight, n)) = 0
          BY <2>4, <4>1, <4>2
        <4>4. link = "reset" => Behind(inFlight, n) = <<>>
          BY <2>4, <4>3, BytesLen
        <4> QED
          BY <2>2, <4>4
      <3> QED
        BY <1>2, <1>9, <2>6, <3>1 DEF Phases, IsError
    <2>9. next \in AtHand
      <3>1. sent \in Seq(Packets) /\ Len(sent) \in Nat /\ Len(done) \in Nat
        BY <1>1, SentBytes DEF TypeInv
      <3>2. Len(done) + 1 \in {Len(done), Len(done) + 1} \intersect DOMAIN sent
        BY <1>4, <3>1
      <3> QED
        BY <3>2 DEF AtHand
    <2>10. \/ link' # "up"
           \/ transport' = "polling" /\ \E packet \in AtHand : Len(packet) > BufferSize
      BY <1>2, <1>4, <2>5, <2>9
    <2>11. IsError(result') /\ pc' = "idle" /\ UNCHANGED <<sent, done>>
           /\ result' = "MQTTRecvFailed" /\ result' # "MQTTBadResponse"
      BY <1>2, <1>9 DEF IsError
    <2> QED
      BY <1>1, <1>3, <2>7, <2>8, <2>10, <2>11, FailureKeeps
  <1> QED
    BY <1>7, <1>8, <1>9

-----------------------------------------------------------------------------
LEMMA StutterKeeps ==
  ASSUME Inv, UNCHANGED vars
  PROVE  Inv'
  <1>1. UNCHANGED <<transport, link, connectStatus, pc, inFlight, buffer, left,
                    result, answer, sent, done>>
    BY DEF vars
  <1>2. TypeInv' /\ Phases'
    BY <1>1 DEF Inv, TypeInv, Phases
  <1>3. Unfinished' = Unfinished /\ AtHand' = AtHand
    BY <1>1 DEF Unfinished, AtHand
  <1>4. Connecting => Connecting'
    BY <1>1 DEF Connecting
  <1>5. Discarding => Discarding'
    BY <1>1, <1>3 DEF Discarding
  <1>6. InStep => InStep'
    BY <1>1, <1>3, <1>5 DEF InStep
  <1>7. Explained => Explained'
    BY <1>1, <1>3 DEF Explained
  <1> QED
    BY <1>1, <1>2, <1>4, <1>6, <1>7 DEF Inv

\* However the bytes arrive and whatever a call returns, every step keeps the
\* client in step with the stream, or ends with an error that is explained.
THEOREM Invariance == Spec => []Inv
  <1>1. Init => Inv
    BY InitInv
  <1>2. Inv /\ [Next]_vars => Inv'
    <2> SUFFICES ASSUME Inv, [Next]_vars
                 PROVE  Inv'
      OBVIOUS
    <2>1. CASE Connect
      BY <2>1, ConnectKeeps
    <2>2. CASE \E cleanSession \in BOOLEAN : receiveConnack(cleanSession)
      BY <2>2, ReceiveConnackKeeps
    <2>3. CASE MQTT_ProcessLoop
      BY <2>3, ReceiveKeeps DEF MQTT_ProcessLoop
    <2>4. CASE MQTT_ReceiveLoop
      BY <2>4, ReceiveKeeps DEF MQTT_ReceiveLoop
    <2>5. CASE Discard
      BY <2>5, DiscardKeeps
    <2>6. CASE Disconnect
      BY <2>6, DisconnectKeeps
    <2>7. CASE BrokerAnswers
      BY <2>7, BrokerAnswersKeeps
    <2>8. CASE BrokerSends
      BY <2>8, BrokerSendsKeeps
    <2>9. CASE LinkCloses
      BY <2>9, LinkClosesKeeps
    <2>10. CASE LinkResets
      BY <2>10, LinkResetsKeeps
    <2>11. CASE UNCHANGED vars
      BY <2>11, StutterKeeps
    <2> QED
      BY <2>1, <2>2, <2>3, <2>4, <2>5, <2>6, <2>7, <2>8, <2>9, <2>10, <2>11
         DEF Next
  <1> QED
    BY <1>1, <1>2, PTL DEF Spec

\* What the invariant says of the bytes is what StaysInStep says of them.
LEMMA AlongIsPrefix ==
  ASSUME NEW bytes \in Bytes, NEW stream \in Bytes,
         Along(link = "up", bytes, stream)
  PROVE  IF link = "up" THEN bytes = stream ELSE IsPrefix(bytes, stream)
  BY BytesEqual, BeginsIsPrefix DEF Along

\* However recv cuts the bytes of the stream (any piece at any call, bytes of
\* two packets at once, nothing at all), the packets that leave the buffer of
\* receiveSingleIteration are those that the broker sent, in order and whole:
\* handled when they fit networkBuffer, thrown away by discardStoredPacket when
\* they do not; what is left continues with the next one and recv always has
\* room.  So for every size of the buffer, every set of packets that are whole
\* and every number of them.
THEOREM StaysInStepHolds == Spec => []StaysInStep
  <1>1. Inv => StaysInStep
    <2> SUFFICES ASSUME Inv, connectStatus = "MQTTConnected", ~IsError(result)
                 PROVE  /\ Len(done) <= Len(sent)
                        /\ \A k \in DOMAIN done :
                             IF Len(sent[k]) <= BufferSize
                               THEN done[k] = [bytes |-> sent[k],
                                               fate |-> "handled"]
                               ELSE /\ done[k].fate = "dropped"
                                    /\ IsPrefix(done[k].bytes, sent[k])
                        /\ LET rest == IF pc = "discard"
                                         THEN Behind(Unfinished,
                                                Len(sent[Len(done) + 1]) - left)
                                         ELSE Unfinished
                               ahead == IF pc = "discard" THEN inFlight
                                                          ELSE buffer \o inFlight
                           IN  IF link = "up" THEN ahead = rest
                                              ELSE IsPrefix(ahead, rest)
                        /\ pc = "idle" => index < BufferSize
      BY DEF StaysInStep
    <2>1. TypeInv /\ Phases /\ InStep
      BY DEF Inv
    <2>2. pc \in {"idle", "discard"}
      BY <2>1 DEF Phases, TypeInv
    <2>3. Len(done) <= Len(sent)
      BY <2>1 DEF InStep
    <2>4. /\ inFlight \in Bytes /\ buffer \in Bytes /\ done \in Seq(Records)
          /\ sent \in Seq(Packets) /\ Len(sent) \in Nat /\ Len(done) \in Nat
      BY <2>1, SentBytes DEF TypeInv
    <2>5. ASSUME NEW k \in DOMAIN done
          PROVE  IF Len(sent[k]) <= BufferSize
                   THEN done[k] = [bytes |-> sent[k], fate |-> "handled"]
                   ELSE /\ done[k].fate = "dropped"
                        /\ IsPrefix(done[k].bytes, sent[k])
      <3>1. k \in 1..Len(done) /\ k \in 1..Len(sent)
        BY <2>3, <2>4
      <3>2. Fate(done[k], sent[k])
        BY <2>1, <3>1 DEF InStep
      <3>3. done[k].bytes \in Bytes /\ sent[k] \in Bytes
        <4>1. done[k] \in Records /\ sent[k] \in Packets
          BY <2>4, <3>1
        <4> QED
          BY <4>1, PacketsAreBytes DEF Records
      <3> QED
        BY <3>2, <3>3, BeginsIsPrefix DEF Fate
    <2>6. CASE pc = "idle"
      <3>1. /\ Len(buffer) < BufferSize
            /\ Along(link = "up", buffer \o inFlight, Unfinished)
        BY <2>1, <2>6 DEF InStep
      <3>2. buffer \o inFlight \in Bytes /\ Unfinished \in Bytes
        BY <2>1, <2>3, <2>4, BytesJoined, UnfinishedBytes
      <3>3. IF link = "up" THEN buffer \o inFlight = Unfinished
                           ELSE IsPrefix(buffer \o inFlight, Unfinished)
        BY <3>1, <3>2, AlongIsPrefix
      <3> QED
        BY <2>3, <2>5, <2>6, <3>1, <3>3 DEF index
    <2>7. CASE pc = "discard"
      <3> DEFINE next == sent[Len(done) + 1]
                 skipped == Len(next) - left
      <3>1. /\ Len(done) < Len(sent) /\ left \in 1..Len(next)
            /\ Along(link = "up", inFlight, Behind(Unfinished, skipped))
        BY <2>1, <2>7 DEF InStep, Discarding
      <3>2. Len(next) \in Nat /\ Len(next) <= Len(Unfinished)
            /\ Unfinished \in Bytes
        BY <2>1, <3>1, NextPacket
      <3>3. skipped \in 0..Len(Unfinished)
        <4>1. Len(Unfinished) \in Nat
          BY <3>2, BytesLen
        <4> HIDE DEF next
        <4> QED
          BY <3>1, <3>2, <4>1
      <3>4. Behind(Unfinished, skipped) \in Bytes
        BY <3>2, <3>3, BytesBehind
      <3>5. IF link = "up" THEN inFlight = Behind(Unfinished, skipped)
                           ELSE IsPrefix(inFlight, Behind(Unfinished, skipped))
        BY <2>4, <3>1, <3>4, AlongIsPrefix
      <3> QED
        BY <2>3, <2>5, <2>7, <3>5
    <2> QED
      BY <2>2, <2>6, <2>7
  <1> QED
    BY <1>1, Invariance, PTL

\* Every error that ends a connection has its reason: MQTTBadResponse a packet
\* that cannot be read or an acknowledgement, MQTTRecvFailed a link that is gone,
\* a publish that wants an acknowledgement, or a recv that polls in the middle of
\* an oversized packet.  And a faulty packet that fits the buffer is never passed
\* over: the call that meets it fails.
THEOREM ErrorsAreExplainedHolds == Spec => []ErrorsAreExplained
  <1>1. Inv => ErrorsAreExplained
    <2> SUFFICES ASSUME Inv, connectStatus # "MQTTNotConnected"
                 PROVE  /\ result = "MQTTBadResponse" =>
                             \E packet \in AtHand :
                               packet \in Faulty \/ packet[1] \in PublishAcks
                        /\ result = "MQTTRecvFailed" =>
                             \/ link # "up"
                             \/ \E packet \in AtHand : AsksForAck(packet)
                             \/ /\ transport = "polling"
                                /\ \E packet \in AtHand : Len(packet) > BufferSize
                        /\ \A k \in DOMAIN done :
                             /\ k <= Len(sent) /\ sent[k] \in Faulty
                             /\ Len(sent[k]) <= BufferSize
                             => k = Len(done) /\ IsError(result)
      BY DEF ErrorsAreExplained
    <2>1. TypeInv /\ Phases
      BY DEF Inv
    <2>2. DOMAIN done = 1..Len(done)
      BY <2>1 DEF TypeInv
    <2>3. CASE IsError(result)
      <3>1. Explained
        BY <2>3 DEF Inv
      <3> QED
        BY <2>2, <2>3, <3>1 DEF Explained
    <2>4. CASE ~IsError(result)
      <3>1. connectStatus = "MQTTConnected"
        BY <2>1, <2>4 DEF Phases, TypeInv
      <3>2. InStep
        BY <2>4, <3>1 DEF Inv
      <3>3. \A k \in DOMAIN done :
              ~(sent[k] \in Faulty /\ Len(sent[k]) <= BufferSize)
        BY <2>2, <3>2, NothingFaulty
      <3> QED
        BY <2>4, <3>3 DEF IsError
    <2> QED
      BY <2>3, <2>4
  <1> QED
    BY <1>1, Invariance, PTL
=============================================================================
