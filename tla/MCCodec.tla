-------------------------------- MODULE MCCodec --------------------------------
(***************************************************************************)
(* Inputs for TLC: symbols at the boundaries of every field.               *)
(***************************************************************************)
EXTENDS Codec

MCMessages ==
  [qos : 0..2, retain : BOOLEAN, dup : {FALSE}, topic : {<<97>>, <<97, 47>>},
   payload : {<<>>, <<0>>, [i \in 1..130 |-> 7]}]
    \union [qos : {1, 2}, retain : {FALSE}, dup : {TRUE}, topic : {<<97>>},
            payload : {<<>>, <<0>>}]

MCStrings == {<<>>, <<<<>>>>, <<<<112, 119>>>>}

MCConnects ==
  [clientId : {<<99>>, [i \in 1..120 |-> 99]}, cleanSession : BOOLEAN,
   keepAlive : {0, 60, 65535}, userName : MCStrings, password : MCStrings,
   will : {<<>>} \union {<<m>> : m \in [qos : 0..2, retain : BOOLEAN,
                                        topic : {<<97>>}, payload : {<<>>, <<1>>}]}]

MCAlphabet ==
  [k \in Kinds |->
     CASE k = "filter" -> {"a", "/", "+", "#"}
       [] k = "header" -> {0, 1, 127, 128, 129, 255}
       [] k = "packet" -> {0, 1, 2, 128}
       [] k = "message" -> MCMessages
       [] k = "subscriptions" -> [filter : {<<97>>, <<97, 47, 35>>}, qos : {0, 2}]
       [] k = "connect" -> MCConnects]

MCMaxLength ==
  [k \in Kinds |->
     CASE k = "filter" -> 5
       [] k = "header" -> 6
       [] k = "packet" -> 7
       [] k = "message" -> 1
       [] k = "subscriptions" -> 5
       [] k = "connect" -> 1]

MCTypeBytes == {32, 48, 49, 50, 56, 60, 54, 64, 80, 96, 98, 112, 144, 176, 208, 224}

MCTopics == UNION {[1..n -> {"a", "b", "/"}] : n \in 1..5}
              \union {<<"$", "/", "a">>, <<"$", "a">>, <<"$">>}

MCRemainingLengths ==
  UNION {{128 ^ n - 1, 128 ^ n, 128 ^ n + 1} : n \in 1..3}
    \union {0, 1, 127, MQTT_MAX_REMAINING_LENGTH - 1, MQTT_MAX_REMAINING_LENGTH}

================================================================================
