------------------------------ MODULE MCReceivePath ------------------------------
(***************************************************************************)
(* A buffer of 7 bytes; one packet of each kind that is treated            *)
(* differently.                                                            *)
(***************************************************************************)
EXTENDS ReceivePath

MCFaulty == {<<208, 1, 0>>,                \* PINGRESP with a byte too many
             <<48, 128, 0>>,               \* an overlong remaining length
             <<16, 0>>}                    \* CONNECT, from a broker

MCPackets ==
  {<<208, 0>>,                             \* PINGRESP
   <<48, 5, 0, 1, 97, 1, 2>>,              \* PUBLISH that just fits
   <<48, 6, 0, 1, 97, 1, 2, 3>>,           \* one byte too many
   <<48, 14, 0, 1, 97>> \o [i \in 1..11 |-> i],   \* more than two buffers
   <<50, 5, 0, 1, 97, 0, 9>>,              \* QoS 1
   <<144, 3, 0, 1, 128>>,                  \* SUBACK that refuses
   <<64, 2, 0, 1>>}                        \* PUBACK
    \union MCFaulty

\* Accepted, resumed, refused, larger than the buffer, and no CONNACK.
MCConnacks == {<<32, 2, 0, 0>>, <<32, 2, 1, 0>>, <<32, 2, 0, 5>>,
               <<32, 9>> \o [i \in 1..9 |-> 0], <<208, 1, 0>>}

================================================================================
