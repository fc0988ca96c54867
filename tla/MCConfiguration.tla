-------------------------- MODULE MCConfiguration --------------------------
(* A whole MQTT.CON with up to two lines changed; TOPICS.PRE of up to three lines. *)
EXTENDS Configuration, SequencesExt

Number(key, len, n) == [key |-> key, size |-> len + 9, len |-> len, nums |-> <<n>>]
Text(key, len, c) == [key |-> key, size |-> len + 9, len |-> len, nums |-> [i \in 1..len |-> c]]
Ip(len, nums) == [key |-> "brokeraddress", size |-> len + 14, len |-> len, nums |-> nums]
EmptyLine == [key |-> "", size |-> 0, len |-> 0, nums |-> <<0>>]
Other == Number("gatewayid", 1, 2)

Whole ==
  <<Ip(9, <<127, 0, 0, 1>>), Number("brokerport", 4, 1883), Text("clientid", 2, 1),
    Text("username", 2, 1), Text("password", 2, 1),
    Text("willtopic", 2, 1), Text("willmessage", 2, 1), Number("willqos", 1, 1), Number("willretain", 1, 1)>>

\* Lines that differ from those of Whole, or that a reader would not expect.
Odd ==
  {EmptyLine, Other,
   Ip(7, <<8, 8, 8, 8>>), Ip(8, <<10, 0, 0, 1>>), Ip(11, <<256, 168, 1, 1>>), Ip(8, <<65546, 0, 1>>),
   Ip(15, <<255, 255, 255, 255>>),
   Number("brokerport", 1, 0), Number("brokerport", 6, 65536), Number("brokerport", 5, 65537),
   Text("clientid", 0, 0), Text("username", 1, 2), Text("password", 0, 0),
   Text("willtopic", 3, 2), Number("willqos", 1, 3), Number("willqos", 4, 1),
   Number("willretain", 1, 0), Number("willretain", 1, 2)}

\* One line replaced, one more at the start or at the end.
Replaced == {Whole} \cup {ReplaceAt(Whole, i, l) : i \in DOMAIN Whole, l \in Odd}
Files == Replaced \cup {<<l>> \o f : f \in Replaced, l \in Odd} \cup {f \o <<l>> : f \in Replaced, l \in Odd}

McEdits == {Whole, RemoveAt(Whole, 4), RemoveAt(Whole, 9)}

Topics(id, size, len, name) == [size |-> size, len |-> len, id |-> id, name |-> name]
PreLines ==
  {Topics(1, 3, 1, "a"), Topics(1, 7, 5, "t1"), Topics(1, 7, 5, "t2"), Topics(65537, 11, 5, "t3"),
   Topics(0, 9, 5, "t4"), Topics(1, 257, 255, "long"), Topics(2, 0, 0, "empty")}
McTopicIds == {0, 1, 2}
TopicFiles == UNION {[1..n -> PreLines] : n \in 0..3}

McConfigs == (Files \X {<<>>}) \cup ({Whole} \X TopicFiles)

============================================================================
