----------------------------- MODULE MCGateway -----------------------------
(* Small instances of Gateway: packets, topics and bounds for the runs. *)
EXTENDS Gateway

Base(type, a) ==
  [type |-> type, addr |-> a, id |-> "c1", clean |-> FALSE, will |-> FALSE, ext |-> FALSE,
   dur |-> 7, topic |-> "t1", form |-> "name", tid |-> 0, mid |-> 0, qos |-> 0,
   code |-> "ACCEPTED", msg |-> "m1"]

McConnect(a, id, clean, will) == [Base("CONNECT", a) EXCEPT !.id = id, !.clean = clean, !.will = will]
McSubscribe(a, form, t, tid, qos) ==
  [Base("SUBSCRIBE", a) EXCEPT !.form = form, !.topic = t, !.tid = tid, !.qos = qos, !.mid = 3]
McPublish(a, form, tid, qos) ==
  [Base("PUBLISH", a) EXCEPT !.form = form, !.tid = tid, !.qos = qos,
                             !.mid = IF qos > 0 THEN 3 ELSE 0]
McUnsubscribe(a, form, t, tid) ==
  [Base("UNSUBSCRIBE", a) EXCEPT !.form = form, !.topic = t, !.tid = tid]
McSleep(a) == [Base("DISCONNECT", a) EXCEPT !.ext = TRUE]
McWake(a) == [Base("PINGREQ", a) EXCEPT !.ext = TRUE]

NoPredefined == [n \in {} |-> "t1"]
OnePredefined == [n \in {7} |-> "t2"]

\* A client with a will that subscribes and may be lost, another that may get its slot.
WillPackets ==
  {McConnect("a1", "c1", FALSE, TRUE), McConnect("a2", "c2", TRUE, FALSE),
   [Base("WILLTOPIC", "a1") EXCEPT !.qos = 1], [Base("WILLTOPIC", "a1") EXCEPT !.topic = Empty],
   Base("WILLMSG", "a1"),
   McSubscribe("a1", "name", "t1", 0, 0), McSubscribe("a2", "name", "t1", 0, 0)}

\* One client, every form and quality of PUBLISH, acknowledgements, an id that is too long.
PublishPackets ==
  {McConnect("a1", "c1", TRUE, FALSE), McConnect("a1", "c1long", FALSE, FALSE),
   [Base("REGISTER", "a1") EXCEPT !.mid = 3], [Base("REGISTER", "a1") EXCEPT !.topic = "t2"],
   McSubscribe("a1", "short", "t1", 1, 1), McSubscribe("a1", "predef", "t1", 7, 0),
   McPublish("a1", "short", 1, -1), McPublish("a1", "short", 1, 1), McPublish("a1", "short", 1, 2),
   McPublish("a1", "normal", 7, 0), McPublish("a1", "predef", 7, -1), McPublish("a1", "predef", 8, 1),
   [Base("REGACK", "a1") EXCEPT !.tid = 1], [Base("REGACK", "a1") EXCEPT !.code = "RESERVED"],
   [Base("PUBACK", "a1") EXCEPT !.tid = 1, !.mid = 1], Base("PUBACK", "a1"),
   [Base("PUBACK", "a1") EXCEPT !.code = "RESERVED"],
   Base("PINGREQ", "a1"), Base("DISCONNECT", "a1")}

\* Two clients that subscribe to and unsubscribe from the same topics in all forms.
UnsubscribePackets ==
  {McConnect("a1", "c1", TRUE, FALSE), McConnect("a2", "c2", FALSE, FALSE),
   McSubscribe("a1", "name", "t1", 0, 1), McSubscribe("a2", "name", "t1", 0, 0),
   McSubscribe("a1", "predef", "t1", 7, 1),
   McUnsubscribe("a1", "name", "t1", 0), McUnsubscribe("a2", "name", "t1", 0),
   McUnsubscribe("a1", "short", "t1", 1), McUnsubscribe("a1", "predef", "t1", 7),
   McUnsubscribe("a2", "normal", "t2", 0)}

\* Sessions interrupted by kills; a keep alive of 0 makes the first heartbeat of c1 the last.
RestartPackets ==
  {[McConnect("a1", "c1", TRUE, TRUE) EXCEPT !.dur = 0], McConnect("a2", "c2", FALSE, FALSE),
   [Base("WILLTOPIC", "a1") EXCEPT !.qos = 1],
   McSubscribe("a1", "name", "t1", 0, 0), McSubscribe("a2", "name", "t1", 0, 1),
   McUnsubscribe("a1", "short", "t1", 1)}

\* A sleeping client subscribed with QoS 0, next to another one.
SleepPackets ==
  {McConnect("a1", "c1", FALSE, FALSE), McConnect("a2", "c2", TRUE, FALSE),
   McSubscribe("a2", "name", "t1", 0, 0), McSleep("a2"), McWake("a2")}

============================================================================
