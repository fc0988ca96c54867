---------------------------- MODULE GatewayProofs ----------------------------
(***************************************************************************)
(* Type correctness and transaction discipline of the gateway, for every   *)
(* value of the constants.  The inductive invariant IInv ties the state of *)
(* the thread to the transaction flags of the database; one lemma for each *)
(* group of actions shows that it is kept.                                 *)
(***************************************************************************)
EXTENDS Gateway, CoreProofs

\* The thread and the database agree on the transaction that is open.
CtlOK(d, c) ==
  /\ Good(d) /\ ~d.error
  /\ c \in Control
  /\ c.at \notin {"wait", "remove", "hung"} => c.op = "none"
  /\ d.started => c.at \in {"wait", "remove", "hung"} /\ c.op \in {"predef", "connect", "will", "lost"}
  /\ d.notin => c.op = "predef"
  /\ c.op = "connect" => c.pk.id \in ClientId
  /\ d.started /\ c.op = "connect" => Cur(d).id = c.pk.id
  /\ c.op = "subscribe" => c.topic \in Topic

\* A message under way to the clients has a topic and a body.
RxOK(r) == r \in Delivery /\ (r.left > 0 => r.data \in Data)

\* The inductive invariant.
IInv == CtlOK(db, k) /\ RxOK(rx) /\ link \in Link /\ out \in Seq(Message)

---------------------------------------------------------------------------
(* The state of the thread. *)

\* A phase without locals.
LEMMA PhaseType ==
  ASSUME NEW at \in {"down", "mqtt", "socket", "again", "core", "visit", "remove", "wait", "hung"}
  PROVE  /\ Phase(at) \in Control
         /\ Phase(at).at = at /\ Phase(at).op = "none"
<1>1. NoPacket \in Packets BY PacketAssumption DEF NoPacket
<1>2. Idle \in Control BY <1>1 DEF Idle, Control, Name, Result
<1>3. Idle.op = "none" BY DEF Idle
<1> HIDE DEF Idle
<1> QED BY <1>2, <1>3 DEF Phase, Control

\* Between two operations the thread may be in any phase without locals.
LEMMA RestOK ==
  ASSUME NEW d, Closed(d), NEW at \in {"down", "mqtt", "socket", "core"}
  PROVE  CtlOK(d, Phase(at))
<1>1. Phase(at) \in Control /\ Phase(at).at = at /\ Phase(at).op = "none" BY PhaseType
<1> QED BY <1>1 DEF CtlOK, Closed

\* Only three operations reach a broker call with the transaction open.
LEMMA InvClosed ==
  ASSUME NEW d, NEW c, CtlOK(d, c),
         c.at \notin {"wait", "remove", "hung"} \/ c.op \in {"publish", "subscribe", "unsubscribe"}
  PROVE  Closed(d)
BY DEF CtlOK, Closed

\* A closed store allows any locals that are typed.
LEMMA ClosedOK ==
  ASSUME NEW d, Closed(d), NEW c \in Control,
         c.at \notin {"wait", "remove", "hung"} => c.op = "none",
         c.op # "connect", c.op = "subscribe" => c.topic \in Topic
  PROVE  CtlOK(d, c)
BY DEF CtlOK, Closed

---------------------------------------------------------------------------
(* Messages. *)

\* A message to a client or to the broker.
LEMMA SentType ==
  ASSUME NEW a \in Address \cup {NoAddress, "broker"}, NEW type \in SentTypes
  PROVE  Sent(a, type) \in Message /\ <<Sent(a, type)>> \in Seq(Message)
<1>1. Sent(a, type) \in Message BY DEF Sent, Message, Code
<1> QED BY <1>1

\* The other fields of a message keep it one.
LEMMA AckType ==
  ASSUME NEW m \in Message
  PROVE  /\ \A c \in Code : [m EXCEPT !.code = c] \in Message
         /\ \A n \in Nat : [m EXCEPT !.tid = n] \in Message /\ [m EXCEPT !.mid = n] \in Message
         /\ \A q \in {0, 1, 2, 255} : [m EXCEPT !.qos = q] \in Message
         /\ \A x \in (Name \X (Payload \cup {NoMsg})) \cup {Damaged, NoMsg} : [m EXCEPT !.data = x] \in Message
BY DEF Message

\* The answers of the handlers and what goes to the broker.
LEMMA AnswerType ==
  ASSUME NEW p \in Packets
  PROVE  /\ p.addr \in Address /\ p \in Packet
         /\ \A type \in SentTypes : <<Sent(p.addr, type)>> \in Seq(Message)
         /\ \A c \in Code : <<Connack(p.addr, c)>> \in Seq(Message)
         /\ \A t \in Name, m \in Payload \cup {NoMsg}, q \in {0, 1, 2, 255} :
              <<ToBroker(t, m, q)>> \in Seq(Message)
         /\ <<Unsuback(p)>> \in Seq(Message)
         /\ \A res : \A tid \in Nat : Suback(p, res, tid) \in Message
<1>1. p \in Packet /\ p.addr \in Address /\ p.mid \in Nat BY PacketAssumption DEF Packet
<1>2. \A type \in SentTypes : Sent(p.addr, type) \in Message BY <1>1, SentType
<1>3. ASSUME NEW c \in Code PROVE Connack(p.addr, c) \in Message
  <2>1. Sent(p.addr, "CONNACK") \in Message BY <1>2 DEF SentTypes
  <2> QED BY <2>1, AckType DEF Connack
<1>4. ASSUME NEW t \in Name, NEW m \in Payload \cup {NoMsg}, NEW q \in {0, 1, 2, 255}
      PROVE  ToBroker(t, m, q) \in Message
  <2> DEFINE b == Sent("broker", "PUBLISH")
             c == [b EXCEPT !.qos = q]
  <2>1. b \in Message BY SentType DEF SentTypes
  <2> HIDE DEF b
  <2>2. c \in Message BY <2>1, AckType, ZenonT(60)
  <2>3. ToBroker(t, m, q) = [c EXCEPT !.data = <<t, m>>] BY <2>1 DEF ToBroker, b, Message
  <2> HIDE DEF c
  <2> DEFINE d == <<t, m>>
  <2>4. d \in (Name \X (Payload \cup {NoMsg})) \cup {Damaged, NoMsg} OBVIOUS
  <2> HIDE DEF d
  <2>5. [c EXCEPT !.data = d] \in Message BY <2>2, <2>4, AckType
  <2> QED BY <2>3, <2>5 DEF d
<1>5. Unsuback(p) \in Message
  <2>1. Sent(p.addr, "UNSUBACK") \in Message BY <1>2 DEF SentTypes
  <2> QED BY <1>1, <2>1, AckType DEF Unsuback
<1>6. ASSUME NEW res, NEW tid \in Nat PROVE Suback(p, res, tid) \in Message
  <2> DEFINE ack == [Sent(p.addr, "SUBACK") EXCEPT !.mid = p.mid]
             q == IF p.qos >= 1 THEN 1 ELSE 0
             a2 == [ack EXCEPT !.tid = tid]
  <2>1. ack \in Message
    <3>1. Sent(p.addr, "SUBACK") \in Message BY <1>2 DEF SentTypes
    <3> QED BY <1>1, <3>1, AckType
  <2> HIDE DEF ack
  <2>2. a2 \in Message BY <2>1, AckType
  <2>3. q \in {0, 1, 2, 255} OBVIOUS
  <2>4. [ack EXCEPT !.tid = tid, !.qos = q] = [a2 EXCEPT !.qos = q] BY <2>1 DEF Message
  <2> HIDE DEF a2, q
  <2>5. [a2 EXCEPT !.qos = q] \in Message BY <2>2, <2>3, AckType, ZenonT(60)
  <2>6. [ack EXCEPT !.code = "REJECTED_NOT_SUPPORTED"] \in Message BY <2>1, AckType DEF Code
  <2>7. Suback(p, res, tid) \in {[ack EXCEPT !.tid = tid, !.qos = q], [ack EXCEPT !.code = "REJECTED_NOT_SUPPORTED"]}
    BY DEF Suback, ack, q
  <2> QED BY <2>4, <2>5, <2>6, <2>7
<1> QED BY <1>1, <1>2, <1>3, <1>4, <1>5, <1>6

\* One call of handle_client_publishes: the transaction is closed, at most one message goes out.
LEMMA ClientPublishesClosed ==
  ASSUME NEW s, Closed(s), NEW status, NEW a \in Address \cup {NoAddress},
         NEW x \in handle_client_publishes(s, status, a)
  PROVE  Closed(x.db) /\ x.out \in Seq(Message)
<1> DEFINE o == start_by_address(s, a)
           e == get_next_publish(o)
           kn == touch_topic_known(o, e.tid)
           rn == touch_topic_name(kn, e.tid)
           mid == get_client_await_msg_id(o) + 1
           done(y, m) == [db |-> apply_transaction(y), out |-> IF apply_result(y) = 1 THEN m ELSE <<>>]
           reg == [Sent(a, "REGISTER") EXCEPT !.tid = e.tid, !.mid = mid]
           p0 == [Sent(a, "PUBLISH") EXCEPT !.tid = e.tid, !.data = e.data]
           p1 == [Sent(a, "PUBLISH") EXCEPT !.tid = e.tid, !.data = e.data, !.qos = 1, !.mid = mid]
           s1 == set_client_await_message(rn, "REGACK")
           s2 == remove_publish_by_publish_id(kn, e.pid)
           s3 == set_publish_msg_id(set_client_await_message(kn, "PUBACK"), e.pid, mid)
<1>1. Good(o) BY StartByAddressGood DEF Closed
<1> HIDE DEF o
<1>2. mid = 1 BY DEF get_client_await_msg_id
<1> HIDE DEF mid
<1>3. Good(kn) BY <1>1, TopicKnownGood
<1> HIDE DEF kn
<1>4. Good(rn) BY <1>3, TopicNameType
<1> HIDE DEF rn
<1>5. Good(s1) BY <1>4, SetAwaitGood DEF Awaited
<1>6. Good(s2) BY <1>3, QueueEntryGood
<1>7. Good(s3)
  <2>1. Good(set_client_await_message(kn, "PUBACK")) BY <1>3, SetAwaitGood DEF Awaited
  <2> QED BY <1>2, <2>1, QueueEntryGood
<1> HIDE DEF s1, s2, s3
<1>8. ASSUME has_client_publishes(o) PROVE <<reg>> \in Seq(Message) /\ <<p0>> \in Seq(Message) /\ <<p1>> \in Seq(Message)
  <2>1. e \in entry_publish BY <1>1, <1>8, NextPublishType
  <2> HIDE DEF e
  <2>2. e.tid \in Nat /\ e.data \in (Name \X (Payload \cup {NoMsg})) \cup {Damaged, NoMsg}
    BY <2>1 DEF entry_publish, Data, Name
  <2>3. Sent(a, "REGISTER") \in Message /\ Sent(a, "PUBLISH") \in Message
    BY SentType DEF SentTypes
  <2>4. reg \in Message
    <3> DEFINE r == [Sent(a, "REGISTER") EXCEPT !.tid = e.tid]
    <3>1. reg = [r EXCEPT !.mid = mid] BY <2>3 DEF Message
    <3> HIDE DEF reg
    <3>2. r \in Message BY <2>2, <2>3, AckType
    <3> HIDE DEF r
    <3> QED BY <1>2, <3>1, <3>2, AckType
  <2>5. p0 \in Message BY <2>2, <2>3, ZenonT(60) DEF Message
  <2>6. p1 \in Message
    <3>1. p1 = [[p0 EXCEPT !.qos = 1] EXCEPT !.mid = mid] BY <2>3 DEF Message
    <3> HIDE DEF p0, p1
    <3>2. [p0 EXCEPT !.qos = 1] \in Message BY <2>5, AckType
    <3> QED BY <1>2, <3>1, <3>2, AckType
  <2> QED BY <2>4, <2>5, <2>6
<1> HIDE DEF reg, p0, p1
<1>9. \/ x = [db |-> s, out |-> <<>>]
      \/ x = done(o, <<>>)
      \/ has_client_publishes(o) /\ x \in {done(rn, <<>>), done(s1, <<reg>>), done(s2, <<p0>>), done(s3, <<p1>>)}
  BY DEF handle_client_publishes, o, e, kn, rn, mid, reg, p0, p1, s1, s2, s3
<1>10. ASSUME NEW y, Good(y), NEW m \in Seq(Message)
       PROVE  Closed(done(y, m).db) /\ done(y, m).out \in Seq(Message)
  <2>1. done(y, m).db = apply_transaction(y) /\ done(y, m).out \in {m, <<>>} OBVIOUS
  <2>2. <<>> \in Seq(Message) OBVIOUS
  <2> QED BY <1>10, <2>1, <2>2, CommitClosed
<1>11. <<>> \in Seq(Message) OBVIOUS
<1> HIDE DEF done
<1>12. CASE x = [db |-> s, out |-> <<>>] BY <1>11, <1>12
<1>13. CASE x = done(o, <<>>) BY <1>1, <1>10, <1>11, <1>13
<1>14. CASE has_client_publishes(o) /\ x \in {done(rn, <<>>), done(s1, <<reg>>), done(s2, <<p0>>), done(s3, <<p1>>)}
  BY <1>4, <1>5, <1>6, <1>7, <1>8, <1>10, <1>11, <1>14
<1> QED BY <1>9, <1>12, <1>13, <1>14

---------------------------------------------------------------------------
(* The MQTT side. *)

\* The handlers stay typed.
LEMMA HandlersType ==
  ASSUME NEW hs \in [1..MaxHandlers -> Handler]
  PROVE  /\ NoHandlers \in [1..MaxHandlers -> Handler]
         /\ \A buf \in Handler : Attached(hs, buf) \subseteq [1..MaxHandlers -> Handler]
         /\ \A s, t : Detached(hs, s, t) \subseteq [1..MaxHandlers -> Handler]
<1>1. NoHandlers \in [1..MaxHandlers -> Handler] BY DEF NoHandlers, Handler
<1>2. ASSUME NEW buf \in Handler, NEW n \in Attached(hs, buf) PROVE n \in [1..MaxHandlers -> Handler]
  <2>1. n = hs \/ \E h : n = [hs EXCEPT ![h] = buf] BY <1>2, Zenon DEF Attached
  <2> QED BY <2>1
<1>3. ASSUME NEW s, NEW t, NEW n \in Detached(hs, s, t) PROVE n \in [1..MaxHandlers -> Handler]
  <2>1. n = hs \/ \E h : n = [hs EXCEPT ![h] = "none"] BY <1>3, Zenon DEF Detached
  <2> QED BY <2>1 DEF Handler
<1> QED BY <1>1, <1>2, <1>3

\* The calls to the broker leave a typed link.
LEMMA LinkType ==
  ASSUME link \in Link
  PROVE  /\ \A qos : \A r \in publish_results(link, qos) : r.link \in Link
         /\ \A t \in Topic, buf \in Handler : \A r \in subscribe_results(link, t, buf) : r.link \in Link
         /\ \A t, s : \A r \in unsubscribe_results(link, t, s) : r.link \in Link
<1>1. link.hs \in [1..MaxHandlers -> Handler] BY DEF Link
<1>2. cleanSession(link) \in Link BY <1>1, HandlersType DEF cleanSession, Link
<1>3. ASSUME NEW qos, NEW r \in publish_results(link, qos) PROVE r.link \in Link
  <2>1. r.link \in {link, cleanSession(link)} BY <1>3 DEF publish_results
  <2> QED BY <1>2, <2>1
<1>4. ASSUME NEW t \in Topic, NEW buf \in Handler, NEW r \in subscribe_results(link, t, buf) PROVE r.link \in Link
  <2>1. r.link = cleanSession(link) \/ \E hs \in Attached(link.hs, buf) : r.link = [link EXCEPT !.hs = hs]
    BY <1>4 DEF subscribe_results
  <2>2. \A hs \in [1..MaxHandlers -> Handler] : [link EXCEPT !.hs = hs] \in Link BY DEF Link
  <2>3. Attached(link.hs, buf) \subseteq [1..MaxHandlers -> Handler] BY <1>1, HandlersType
  <2> QED BY <1>2, <2>1, <2>2, <2>3, Zenon
<1>5. ASSUME NEW t, NEW s, NEW r \in unsubscribe_results(link, t, s) PROVE r.link \in Link
  <2>1. \/ r.link = cleanSession(link)
        \/ \E hs \in Detached(link.hs, s, t) : r.link = [link EXCEPT !.hs = hs, !.bsub = @ \ {t}]
    <3> DEFINE g(hs) == [link EXCEPT !.hs = hs, !.bsub = @ \ {t}]
    <3>1. \/ r = [ok |-> FALSE, link |-> cleanSession(link)]
          \/ \E hs \in Detached(link.hs, s, t) : r = [ok |-> TRUE, link |-> g(hs)]
      BY <1>5, Zenon DEF unsubscribe_results
    <3> HIDE DEF g
    <3>2. r.link = cleanSession(link) \/ \E hs \in Detached(link.hs, s, t) : r.link = g(hs) BY <3>1
    <3> QED BY <3>2 DEF g
  <2>2. \A hs \in [1..MaxHandlers -> Handler] : [link EXCEPT !.hs = hs, !.bsub = @ \ {t}] \in Link BY DEF Link
  <2>3. Detached(link.hs, s, t) \subseteq [1..MaxHandlers -> Handler] BY <1>1, HandlersType
  <2> QED BY <1>2, <2>1, <2>2, <2>3, Zenon
<1> QED BY <1>3, <1>4, <1>5

---------------------------------------------------------------------------
(* The steps, one lemma for each group of actions. *)

\* A handler that is through leaves the store closed and goes on to core.loop.
LEMMA ReplyInv ==
  ASSUME IInv, NEW s, Closed(s), NEW m \in Seq(Message), Reply(s, m)
  PROVE  IInv'
<1>1. CtlOK(s, Phase("core")) BY RestOK
<1>2. db' = s /\ k' = Phase("core") /\ out' = m /\ rx' = rx /\ link' = link BY DEF Reply
<1> QED BY <1>1, <1>2 DEF IInv

\* No session is a typed link.
LEMMA UnlinkedType == Unlinked \in Link
BY DEF Unlinked, Link, NoHandlers, Handler

\* The process may end with any files: the next one starts on them with no transaction.
LEMMA LeaveInv ==
  ASSUME NEW s, Good(s), Leave(s)
  PROVE  IInv'
<1>1. Closed(begin(s)) BY BeginGood DEF Closed
<1>2. CtlOK(begin(s), Phase("down")) BY <1>1, RestOK
<1>3. RxOK(NoDelivery) BY DEF RxOK, NoDelivery, Delivery
<1>4. <<>> \in Seq(Message) OBVIOUS
<1> QED BY <1>2, <1>3, <1>4, UnlinkedType DEF IInv, Leave

\* Start, crash, the connection and the phases of the loop that touch no database.
LEMMA ProcessInv ==
  ASSUME IInv, Boot \/ Crash \/ Reconnect \/ YieldDone \/ ConnectionLost \/ BrokerSubscribes
         \/ ReceiveNothing
  PROVE  IInv'
<1>0. <<>> \in Seq(Message) OBVIOUS
<1>1. ASSUME k.at \in {"down", "mqtt", "socket"} PROVE Closed(db)
  BY <1>1, InvClosed DEF IInv
<1>2. CASE Boot
  <2>1. CtlOK(db, Phase("mqtt")) BY <1>1, <1>2, RestOK DEF Boot
  <2> QED BY <1>0, <1>2, <2>1 DEF IInv, Boot
<1>3. CASE Crash
  <2>1. Good(db) BY DEF IInv, CtlOK
  <2> QED BY <1>3, <2>1, LeaveInv DEF Crash, Stopped
<1>4. CASE Reconnect
  <2>1. CtlOK(db, Phase("socket")) BY <1>1, <1>4, RestOK DEF Reconnect
  <2>2. link' \in Link BY <1>4 DEF IInv, Reconnect, Link
  <2> QED BY <1>0, <1>4, <2>1, <2>2 DEF IInv, Reconnect
<1>5. CASE YieldDone
  <2>1. CtlOK(db, Phase("socket")) BY <1>1, <1>5, RestOK DEF YieldDone
  <2> QED BY <1>0, <1>5, <2>1 DEF IInv, YieldDone
<1>6. CASE ConnectionLost
  <2>1. link' \in Link BY <1>6 DEF IInv, ConnectionLost, Link
  <2> QED BY <1>0, <1>6, <2>1 DEF IInv, ConnectionLost
<1>7. CASE ReceiveNothing
  <2>1. Closed(db) BY <1>1, <1>7 DEF ReceiveNothing
  <2> QED BY <1>0, <1>7, <2>1, ReplyInv DEF ReceiveNothing
<1>8. CASE BrokerSubscribes
  <2>1. k.topic \in Topic /\ link \in Link BY <1>8 DEF IInv, CtlOK, BrokerSubscribes
  <2>2. [link EXCEPT !.bsub = @ \cup {k.topic}] \in Link BY <2>1 DEF Link
  <2> QED BY <1>0, <1>8, <2>2 DEF IInv, BrokerSubscribes
<1> QED BY <1>2, <1>3, <1>4, <1>5, <1>6, <1>7, <1>8

\* A message from the broker arrives, even inside a call with its transaction open.
LEMMA DeliveryInv ==
  ASSUME IInv, Deliver \/ \E t \in Topic, d \in Payload : Arrive(t, d)
  PROVE  IInv'
<1>0. <<>> \in Seq(Message) OBVIOUS
<1>1. CASE Deliver
  <2> DEFINE a == get_nth_client(db, rx.i).addr
             s == handle_receive_mqtt_publish_for_client(db, a, rx.data)
  <2>1. Closed(s)
    <3>1. Good(db) /\ rx.data \in Data BY <1>1 DEF IInv, CtlOK, RxOK, Deliver
    <3> QED BY <3>1, ReceiveClosed
  <2>2. db' = s /\ k' = k /\ link' = link /\ out' = <<>> BY <1>1 DEF Deliver
  <2> HIDE DEF a, s
  <2>3. CtlOK(s, k) BY <2>1 DEF IInv, CtlOK, Closed
  <2>4. RxOK(rx')
    <3>1. rx \in Delivery /\ rx.left > 0 /\ rx.data \in Data BY <1>1 DEF IInv, RxOK, Deliver
    <3>2. \/ rx' = [rx EXCEPT !.i = @ + 1] \/ rx' = NoDelivery
          \/ rx.left > 1 /\ rx' = [rx EXCEPT !.left = @ - 1, !.i = 1]
      BY <1>1 DEF Deliver
    <3>3. CASE rx' = [rx EXCEPT !.i = @ + 1] BY <3>1, <3>3 DEF RxOK, Delivery
    <3>4. CASE rx' = NoDelivery BY <3>4 DEF RxOK, Delivery, NoDelivery
    <3>5. CASE rx.left > 1 /\ rx' = [rx EXCEPT !.left = @ - 1, !.i = 1]
      <4>1. rx' = [left |-> rx.left - 1, data |-> rx.data, i |-> 1, last |-> rx.last]
        BY <3>1, <3>5 DEF Delivery
      <4>2. rx.left - 1 \in Nat /\ rx.last \in Address \cup {NoAddress} BY <3>1, <3>5 DEF Delivery
      <4> QED BY <3>1, <4>1, <4>2 DEF RxOK, Delivery
    <3> QED BY <3>2, <3>3, <3>4, <3>5
  <2> QED BY <1>0, <2>2, <2>3, <2>4 DEF IInv
<1>2. ASSUME NEW t \in Topic, NEW d \in Payload, Arrive(t, d) PROVE IInv'
  <2> DEFINE match == Matching(link.hs, db, t)
             last == get_last_client_address(db)
             new == [left |-> Cardinality(match), data |-> <<t, d>>, i |-> 1, last |-> last]
  <2>1. Cardinality(match) \in Nat
    <3>1. IsFiniteSet(1..MaxHandlers) BY FS_Interval, BoundAssumption
    <3>2. IsFiniteSet(match) BY <3>1, FS_Subset DEF Matching
    <3> QED BY <3>2, FS_CardinalityType
  <2>2. last \in Address \cup {NoAddress} BY LastAddressType DEF IInv, CtlOK
  <2>3. rx' = new /\ UNCHANGED <<db, k, link>> /\ out' = <<>> BY <1>2 DEF Arrive
  <2> HIDE DEF match, last
  <2>4. <<t, d>> \in Data BY DEF Data
  <2>5. RxOK(new) BY <2>1, <2>2, <2>4 DEF RxOK, Delivery
  <2> QED BY <1>0, <2>3, <2>5 DEF IInv
<1> QED BY <1>1, <1>2

\* The end of a CONNECT.
LEMMA FinishConnectInv ==
  ASSUME IInv, NEW s, Good(s), NEW p \in Packets, FinishConnect(s, p)
  PROVE  IInv'
<1> DEFINE c == Commit(s)
           w == await_message(c.db, p.addr, "WILLTOPIC")
<1>1. Closed(c.db) BY CommitClosed
<1> HIDE DEF c
<1>2. Closed(w.db) BY <1>1, StateOpsClosed DEF Awaited
<1> HIDE DEF w
<1>3. \/ Reply(c.db, <<Connack(p.addr, "REJECTED_NOT_SUPPORTED")>>)
      \/ Reply(c.db, <<Connack(p.addr, "ACCEPTED")>>)
      \/ Reply(w.db, <<Connack(p.addr, "REJECTED_NOT_SUPPORTED")>>)
      \/ Reply(w.db, <<Sent(p.addr, "WILLTOPICREQ")>>)
  BY DEF FinishConnect, c, w
<1>4. /\ <<Connack(p.addr, "REJECTED_NOT_SUPPORTED")>> \in Seq(Message)
      /\ <<Connack(p.addr, "ACCEPTED")>> \in Seq(Message)
      /\ <<Sent(p.addr, "WILLTOPICREQ")>> \in Seq(Message)
  BY AnswerType DEF Code, SentTypes
<1> QED BY <1>1, <1>2, <1>3, <1>4, ReplyInv

\* CONNECT; a clean one starts to remove the old client with its transaction open.
LEMMA ConnectInv ==
  ASSUME IInv, NEW p \in Packets,
         ConnectOffline(p) \/ ConnectNew(p) \/ ConnectAgain(p) \/ ConnectClean(p)
  PROVE  IInv'
<1> DEFINE o == start_by_id(db, p.id)
<1>1. Closed(db)
  <2>1. k.at = "socket" BY DEF ConnectOffline, ConnectNew, ConnectAgain, ConnectClean, Received
  <2> QED BY <2>1, InvClosed DEF IInv
<1>2. p.id \in ClientId \cup LongId /\ p.addr \in Address /\ p.dur * 1000 \in Nat
  <2>1. p \in Packet BY PacketAssumption
  <2> QED BY <2>1 DEF Packet
<1>3. /\ Good(o)
      /\ Usable(o) => p.id \notin LongId /\ Cur(o).id = p.id
      /\ p.id \in LongId => o.error
  BY <1>1, StartByIdGood DEF Closed
<1>4. CASE ConnectOffline(p)
  <2>1. <<Connack(p.addr, "REJECTED_NOT_SUPPORTED")>> \in Seq(Message) BY AnswerType DEF Code
  <2> QED BY <1>1, <1>4, <2>1, ReplyInv DEF ConnectOffline
<1>5. CASE ConnectNew(p)
  <2>1. FinishConnect(add_client(o, p.id, p.addr, p.dur * 1000), p) BY <1>5 DEF ConnectNew
  <2> HIDE DEF o
  <2>2. Good(add_client(o, p.id, p.addr, p.dur * 1000)) BY <1>2, <1>3, AddClientGood
  <2> QED BY <2>1, <2>2, FinishConnectInv
<1>6. CASE ConnectAgain(p)
  <2>1. FinishConnect(reset_client(o, p.id, p.addr, p.dur * 1000), p) BY <1>6 DEF ConnectAgain
  <2> HIDE DEF o
  <2>2. Good(reset_client(o, p.id, p.addr, p.dur * 1000)) BY <1>2, <1>3, ResetClientGood
  <2> QED BY <2>1, <2>2, FinishConnectInv
<1>7. CASE ConnectClean(p)
  <2> DEFINE c == [Phase("remove") EXCEPT !.op = "connect", !.pk = p]
  <2>1. client_exist(o) /\ db' = o /\ k' = c /\ out' = <<>> /\ UNCHANGED <<rx, link>>
    BY <1>7 DEF ConnectClean
  <2> HIDE DEF o
  <2>2. Usable(o) BY <2>1 DEF client_exist, Usable
  <2>3. Phase("remove") \in Control /\ Phase("remove").at = "remove" BY PhaseType
  <2>4. c \in Control /\ c.at = "remove" /\ c.op = "connect" /\ c.pk = p BY <2>3 DEF Control
  <2> HIDE DEF c
  <2>5. CtlOK(o, c) BY <1>2, <1>3, <2>2, <2>4 DEF CtlOK, Usable
  <2>6. <<>> \in Seq(Message) OBVIOUS
  <2> QED BY <2>1, <2>5, <2>6 DEF IInv
<1> QED BY <1>4, <1>5, <1>6, <1>7

\* WILLTOPIC, WILLMSG, REGISTER, REGACK, PUBACK, PINGREQ and DISCONNECT.
LEMMA PacketInv ==
  ASSUME IInv, NEW p \in Packets,
         \/ WillTopic(p) \/ WillMsg(p) \/ Register(p) \/ RegAck(p)
         \/ PubAck(p) \/ PingReq(p) \/ Disconnect(p)
  PROVE  IInv'
<1>1. Closed(db)
  <2>1. k.at = "socket"
    BY DEF WillTopic, WillMsg, Register, RegAck, PubAck, PingReq, Disconnect, Received
  <2> QED BY <2>1, InvClosed DEF IInv
<1>2. /\ p.addr \in Address /\ p.topic \in Name /\ p.msg \in Payload /\ p.mid \in Nat
      /\ (IF p.qos = -1 THEN 255 ELSE p.qos) \in WillQos
  <2>1. p \in Packet BY PacketAssumption
  <2>2. p.qos \in {-1, 0, 1, 2} BY <2>1 DEF Packet
  <2>3. (IF p.qos = -1 THEN 255 ELSE p.qos) \in WillQos BY <2>2 DEF WillQos
  <2> QED BY <2>1, <2>3 DEF Packet
<1>3. /\ <<>> \in Seq(Message)
      /\ <<Connack(p.addr, "REJECTED_NOT_SUPPORTED")>> \in Seq(Message)
      /\ <<Connack(p.addr, "ACCEPTED")>> \in Seq(Message)
      /\ <<Sent(p.addr, "WILLMSGREQ")>> \in Seq(Message)
      /\ <<Sent(p.addr, "PINGRESP")>> \in Seq(Message)
      /\ <<Sent(p.addr, "DISCONNECT")>> \in Seq(Message)
  BY AnswerType DEF Code, SentTypes
<1>4. CASE WillTopic(p)
  <2> DEFINE qos == IF p.qos = -1 THEN 255 ELSE p.qos
             a == add_will_topic(db, link.online, p.addr, p.topic, qos)
             w == await_message(a.db, p.addr, "WILLMSG")
             r == remove_will(db, p.addr)
  <2>1. Closed(a.db) BY <1>1, <1>2, WillOpsClosed
  <2> HIDE DEF a
  <2>2. Closed(w.db) BY <2>1, StateOpsClosed DEF Awaited
  <2>3. Closed(r.db) BY <1>1, StateOpsClosed DEF Awaited
  <2> HIDE DEF w, r
  <2>4. \/ Reply(r.db, <<>>)
        \/ Reply(a.db, <<Connack(p.addr, "REJECTED_NOT_SUPPORTED")>>)
        \/ Reply(w.db, <<Connack(p.addr, "REJECTED_NOT_SUPPORTED")>>)
        \/ Reply(w.db, <<Sent(p.addr, "WILLMSGREQ")>>)
    BY <1>4 DEF WillTopic, a, w, r
  <2> QED BY <1>3, <2>1, <2>2, <2>3, <2>4, ReplyInv
<1>5. CASE WillMsg(p)
  <2> DEFINE m == add_will_msg(db, link.online, p.addr, p.msg)
  <2>1. Closed(m.db) BY <1>1, <1>2, WillOpsClosed
  <2> HIDE DEF m
  <2>2. \/ Reply(m.db, <<Connack(p.addr, "REJECTED_NOT_SUPPORTED")>>)
        \/ Reply(m.db, <<Connack(p.addr, "ACCEPTED")>>)
    BY <1>5 DEF WillMsg, m
  <2> QED BY <1>3, <2>1, <2>2, ReplyInv
<1>6. CASE Register(p)
  <2> DEFINE r == register_topic(db, link.online, p.addr, p.topic)
             ack == [Sent(p.addr, "REGACK") EXCEPT !.mid = p.mid]
             yes == [ack EXCEPT !.tid = r.tid]
             no == [ack EXCEPT !.code = "REJECTED_NOT_SUPPORTED"]
  <2>1. Closed(r.db) /\ r.tid \in Nat BY <1>1, <1>2, RegisterClosed
  <2> HIDE DEF r
  <2>2. Sent(p.addr, "REGACK") \in Message BY <1>2, SentType DEF SentTypes
  <2>3. ack \in Message BY <1>2, <2>2, AckType
  <2> HIDE DEF ack
  <2>4. yes \in Message /\ no \in Message BY <2>1, <2>3, AckType DEF Code
  <2> HIDE DEF yes, no
  <2>5. Reply(r.db, <<yes>>) \/ Reply(r.db, <<no>>) BY <1>6 DEF Register, r, ack, yes, no
  <2>6. <<yes>> \in Seq(Message) /\ <<no>> \in Seq(Message) BY <2>4
  <2> QED BY <2>1, <2>5, <2>6, ReplyInv
<1>7. CASE RegAck(p)
  <2>1. PICK r \in notify_regack_arrived(db, p.addr, p.mid, p.code) :
          Reply(r.db, IF r.res = "SUCCESS" THEN <<>> ELSE <<Sent(p.addr, "DISCONNECT")>>)
    BY <1>7 DEF RegAck
  <2>2. Closed(r.db) BY <1>1, AckClosed
  <2>3. Reply(r.db, <<>>) \/ Reply(r.db, <<Sent(p.addr, "DISCONNECT")>>) BY <2>1
  <2> QED BY <1>3, <2>2, <2>3, ReplyInv
<1>8. CASE PubAck(p)
  <2> DEFINE r == notify_puback_arrived(db, p.addr, p.tid, p.code)
  <2>1. Closed(r.db) BY <1>1, AckClosed
  <2> HIDE DEF r
  <2>2. Reply(r.db, <<>>) \/ Reply(r.db, <<Sent(p.addr, "DISCONNECT")>>) BY <1>8 DEF PubAck, r
  <2> QED BY <1>3, <2>1, <2>2, ReplyInv
<1>9. CASE PingReq(p)
  <2> DEFINE r == set_awake(db, p.addr)
  <2>1. Closed(r.db) BY <1>1, StateOpsClosed DEF Awaited
  <2> HIDE DEF r
  <2>2. \/ Reply(db, <<Sent(p.addr, "PINGRESP")>>)
        \/ Reply(r.db, <<>>) \/ Reply(r.db, <<Sent(p.addr, "DISCONNECT")>>)
    BY <1>9 DEF PingReq, r
  <2> QED BY <1>1, <1>3, <2>1, <2>2, ReplyInv
<1>10. CASE Disconnect(p)
  <2> DEFINE r == IF p.ext THEN set_asleep(db, link.online, p.addr) ELSE set_disconnected(db, p.addr)
  <2>1. Closed(r.db) BY <1>1, StateOpsClosed DEF Awaited
  <2> HIDE DEF r
  <2>2. Reply(r.db, <<>>) \/ Reply(r.db, <<Sent(p.addr, "DISCONNECT")>>) BY <1>10 DEF Disconnect, r
  <2> QED BY <1>3, <2>1, <2>2, ReplyInv
<1> QED BY <1>4, <1>5, <1>6, <1>7, <1>8, <1>9, <1>10

\* The end of a PUBLISH of a client.
LEMMA AnswerPublishInv ==
  ASSUME IInv, NEW s, Closed(s), NEW p \in Packets, NEW res, NEW again,
         AnswerPublish(s, p, res, again), rx' = rx, link' \in Link
  PROVE  IInv'
<1> DEFINE w == await_message(s, p.addr, "PUBREL")
           base == Sent(p.addr, "PUBACK")
           ack(code) == [Sent(p.addr, "PUBACK") EXCEPT !.code = code, !.tid = p.tid, !.mid = p.mid]
           rec == [Sent(p.addr, "PUBREC") EXCEPT !.mid = p.mid]
           bye == Sent(p.addr, "DISCONNECT")
<1>1. Closed(w.db) BY StateOpsClosed DEF Awaited
<1>2. db' \in {w.db, s} BY DEF AnswerPublish
<1>3. p \in Packets /\ p.addr \in Address /\ p.tid \in Nat /\ p.mid \in Nat
  <2>1. p \in Packet BY PacketAssumption
  <2> QED BY <2>1 DEF Packet
<1>4. base \in Message /\ Sent(p.addr, "PUBREC") \in Message /\ bye \in Message
  BY <1>3, SentType DEF SentTypes
<1>5. ASSUME NEW code \in Code PROVE ack(code) \in Message
  <2> DEFINE a1 == [base EXCEPT !.code = code]
             a2 == [a1 EXCEPT !.tid = p.tid]
  <2>1. ack(code) = [a2 EXCEPT !.mid = p.mid] BY <1>4 DEF Message
  <2> HIDE DEF base, ack
  <2>2. a1 \in Message BY <1>4, <1>5, AckType
  <2> HIDE DEF a1
  <2>3. a2 \in Message BY <1>3, <2>2, AckType
  <2> HIDE DEF a2
  <2> QED BY <1>3, <2>1, <2>3, AckType, ZenonT(60)
<1>6. rec \in Message BY <1>3, <1>4, AckType
<1>7. out' \in {<<>>, <<ack("REJECTED_NOT_SUPPORTED")>>, <<bye>>, <<ack("REJECTED_INVALID_TOPIC_ID")>>,
                <<ack("ACCEPTED")>>, <<rec>>}
  BY DEF AnswerPublish
<1> HIDE DEF ack, rec, bye, base
<1>8. out' \in Seq(Message)
  <2>1. ack("REJECTED_NOT_SUPPORTED") \in Message /\ ack("REJECTED_INVALID_TOPIC_ID") \in Message
        /\ ack("ACCEPTED") \in Message
    BY <1>5 DEF Code
  <2>2. /\ <<>> \in Seq(Message) /\ <<bye>> \in Seq(Message) /\ <<rec>> \in Seq(Message)
        /\ \A m \in Message : <<m>> \in Seq(Message)
    BY <1>4, <1>6
  <2> QED BY <1>7, <2>1, <2>2
<1>9. Closed(db') BY <1>1, <1>2
<1>10. k' \in Control /\ k'.op = "none" /\ k'.at \in {"again", "core"}
  <2>1. k' \in {[Phase("again") EXCEPT !.pk = p], Phase("core")} BY DEF AnswerPublish
  <2>2. Phase("again") \in Control /\ Phase("again").op = "none" /\ Phase("again").at = "again"
        /\ Phase("core") \in Control /\ Phase("core").op = "none" /\ Phase("core").at = "core"
    BY PhaseType
  <2> QED BY <2>1, <2>2 DEF Control
<1>11. CtlOK(db', k') BY <1>9, <1>10, ClosedOK
<1> QED BY <1>8, <1>11 DEF IInv

\* A PUBLISH of a client up to the broker call.
LEMMA HandlePublishInv ==
  ASSUME IInv, Closed(db), NEW p \in Packets, NEW again \in BOOLEAN, handle_publish(p, again)
  PROVE  IInv'
<1> DEFINE o == start_by_address(db, p.addr)
           short == p.form = "short"
           t == IF short THEN get_topic_name(o, p.tid) ELSE get_predefined_topic_name(o, p.tid)
           looked == IF short THEN touch_topic_name(o, p.tid) ELSE touch_predefined_topic_name(o, p.tid)
           gone == ~client_exist(o) \/ get_client_status(o) \in {"DISCONNECTED", "LOST"}
           free == p.qos = -1 /\ ~short
           c == Commit(IF gone /\ ~free THEN o ELSE looked)
           qos == IF p.qos = -1 THEN 0 ELSE p.qos
           send(s, op) ==
             /\ db' = s
             /\ k' = [PublishLocals(p, again) EXCEPT !.op = op, !.topic = t, !.qos = qos]
             /\ out' = IF link.conn THEN <<ToBroker(t, p.msg, qos)>> ELSE <<>>
<1>1. Good(o) /\ o.started /\ ~o.error BY StartByAddressGood DEF Closed
<1> HIDE DEF o
<1>2. t \in Name \cup {Null} BY <1>1, TopicNameType, PredefinedNameType DEF Name
<1> HIDE DEF t
<1>3. Good(looked) /\ looked.started /\ ~looked.error
  <2>1. Good(looked) /\ SameTx(o, looked) BY <1>1, TopicNameType, PredefinedNameType
  <2> HIDE DEF looked
  <2> QED BY <1>1, <2>1 DEF SameTx
<1> HIDE DEF looked
<1>4. Closed(c.db)
  <2>1. Good(IF gone /\ ~free THEN o ELSE looked) BY <1>1, <1>3
  <2> QED BY <2>1, CommitClosed
<1>5. qos \in {0, 1, 2, 255} /\ p.msg \in Payload
  <2>1. p \in Packet BY PacketAssumption
  <2> QED BY <2>1 DEF Packet
<1>6. UNCHANGED <<rx, link>> BY DEF handle_publish
<1>7. \/ AnswerPublish(db, p, "ZERO", again)
      \/ t # Null /\ send(looked, "predef")
      \/ AnswerPublish(c.db, p, IF c.res = "SUCCESS" THEN "CLIENTNONEXISTENCE" ELSE "ZERO", again)
      \/ AnswerPublish(c.db, p, IF c.res = "SUCCESS" THEN "TOPICIDNONEXISTENCE" ELSE "ZERO", again)
      \/ t # Null /\ send(c.db, "publish")
  <2> DEFINE A(s, res) == AnswerPublish(s, p, res, again)
  <2>1. (CASE ~link.online -> A(db, "ZERO")
          [] link.online /\ gone /\ free /\ t # Null -> send(looked, "predef")
          [] link.online /\ gone /\ ~(free /\ t # Null) ->
               A(c.db, IF c.res = "SUCCESS" THEN "CLIENTNONEXISTENCE" ELSE "ZERO")
          [] link.online /\ ~gone /\ t = Null ->
               A(c.db, IF c.res = "SUCCESS" THEN "TOPICIDNONEXISTENCE" ELSE "ZERO")
          [] OTHER -> send(c.db, "publish"))
    BY DEF handle_publish, o, t, looked
  <2> HIDE DEF A, send, c, gone, free
  <2>2. \/ A(db, "ZERO")
        \/ t # Null /\ send(looked, "predef")
        \/ A(c.db, IF c.res = "SUCCESS" THEN "CLIENTNONEXISTENCE" ELSE "ZERO")
        \/ A(c.db, IF c.res = "SUCCESS" THEN "TOPICIDNONEXISTENCE" ELSE "ZERO")
        \/ t # Null /\ send(c.db, "publish")
    <3>1. CASE ~link.online BY <2>1, <3>1
    <3>2. CASE link.online /\ gone /\ free /\ t # Null BY <2>1, <3>2
    <3>3. CASE link.online /\ gone /\ ~(free /\ t # Null) BY <2>1, <3>3
    <3>4. CASE link.online /\ ~gone /\ t = Null BY <2>1, <3>4
    <3>5. CASE link.online /\ ~gone /\ t # Null BY <2>1, <3>5
    <3> QED BY <3>1, <3>2, <3>3, <3>4, <3>5
  <2> QED BY <2>2 DEF A
<1>8. ASSUME NEW s, NEW op \in {"predef", "publish"}, t # Null, send(s, op),
             Good(s), ~s.error, op = "publish" => Closed(s)
      PROVE  IInv'
  <2> DEFINE n == [PublishLocals(p, again) EXCEPT !.op = op, !.topic = t, !.qos = qos]
  <2>1. db' = s /\ k' = n /\ out' \in {<<ToBroker(t, p.msg, qos)>>, <<>>} BY <1>8
  <2>2. t \in Name BY <1>2, <1>8
  <2> HIDE DEF qos
  <2>3. n \in Control /\ n.at = "wait" /\ n.op = op
    <3>1. Phase("wait") \in Control /\ Phase("wait").at = "wait" BY PhaseType
    <3>2. PublishLocals(p, again) \in Control /\ PublishLocals(p, again).at = "wait"
      BY <3>1, ZenonT(60) DEF PublishLocals, Control
    <3> QED BY <1>5, <2>2, <3>2, ZenonT(60) DEF Control
  <2>4. out' \in Seq(Message)
    <3>1. <<ToBroker(t, p.msg, qos)>> \in Seq(Message) BY <1>5, <2>2, AnswerType
    <3>2. <<>> \in Seq(Message) OBVIOUS
    <3> QED BY <2>1, <3>1, <3>2
  <2> HIDE DEF n
  <2>5. CtlOK(s, n) BY <1>8, <2>3 DEF CtlOK, Closed
  <2> QED BY <1>6, <2>1, <2>4, <2>5 DEF IInv
<1>9. CASE AnswerPublish(db, p, "ZERO", again) BY <1>6, <1>9, AnswerPublishInv DEF IInv
<1>10. CASE t # Null /\ send(looked, "predef") BY <1>3, <1>8, <1>10
<1>11. CASE AnswerPublish(c.db, p, IF c.res = "SUCCESS" THEN "CLIENTNONEXISTENCE" ELSE "ZERO", again)
  BY <1>4, <1>6, <1>11, AnswerPublishInv DEF IInv
<1>12. CASE AnswerPublish(c.db, p, IF c.res = "SUCCESS" THEN "TOPICIDNONEXISTENCE" ELSE "ZERO", again)
  BY <1>4, <1>6, <1>12, AnswerPublishInv DEF IInv
<1>13. CASE t # Null /\ send(c.db, "publish")
  <2>1. Good(c.db) /\ ~c.db.error BY <1>4 DEF Closed
  <2> QED BY <1>4, <1>8, <1>13, <2>1
<1> QED BY <1>7, <1>9, <1>10, <1>11, <1>12, <1>13

\* PUBLISH, handled for the first time or, with a normal topic id, for the second.
LEMMA PublishInv ==
  ASSUME IInv, PublishAgain \/ \E p \in Packets : Publish(p)
  PROVE  IInv'
<1>1. Closed(db)
  <2>1. k.at \in {"socket", "again"} BY DEF Publish, PublishAgain, Received
  <2> QED BY <2>1, InvClosed DEF IInv
<1>2. CASE PublishAgain
  <2>1. k.pk \in Packets BY DEF IInv, CtlOK, Control
  <2> QED BY <1>1, <1>2, <2>1, HandlePublishInv DEF PublishAgain
<1>3. ASSUME NEW p \in Packets, Publish(p) PROVE IInv'
  <2>1. (p.form = "normal") \in BOOLEAN OBVIOUS
  <2> QED BY <1>1, <1>3, <2>1, HandlePublishInv DEF Publish
<1> QED BY <1>2, <1>3

\* A broker call that starts with the store closed.
LEMMA WaitOK ==
  ASSUME NEW s, Closed(s), NEW p \in Packets, NEW op \in {"subscribe", "unsubscribe"},
         NEW t \in Topic, NEW tid \in Nat, NEW res \in Result
  PROVE  CtlOK(s, [Phase("wait") EXCEPT !.op = op, !.pk = p, !.topic = t, !.tid = tid, !.res = res])
<1> DEFINE n == [Phase("wait") EXCEPT !.op = op, !.pk = p, !.topic = t, !.tid = tid, !.res = res]
<1>1. Phase("wait") \in Control /\ Phase("wait").at = "wait" BY PhaseType
<1>2. n \in Control /\ n.at = "wait" /\ n.op = op /\ n.topic = t BY <1>1 DEF Control, Name
<1> HIDE DEF n
<1>3. CtlOK(s, n) BY <1>2, ClosedOK
<1> QED BY <1>3 DEF n

\* SUBSCRIBE and UNSUBSCRIBE up to the broker call.
LEMMA SubscribeInv ==
  ASSUME IInv, NEW p \in Packets, Subscribe(p) \/ Unsubscribe(p)
  PROVE  IInv'
<1>1. Closed(db)
  <2>1. k.at = "socket" BY DEF Subscribe, Unsubscribe, Received
  <2> QED BY <2>1, InvClosed DEF IInv
<1>2. p.addr \in Address /\ p.topic \in Name /\ p.tid \in Nat /\ p.qos \in {-1, 0, 1, 2}
  <2>1. p \in Packet BY PacketAssumption
  <2> QED BY <2>1 DEF Packet
<1>3. <<>> \in Seq(Message) /\ \A m \in Message : <<m>> \in Seq(Message) OBVIOUS
<1>4. CASE Subscribe(p)
  <2> DEFINE r == register_topic(db, link.online, p.addr, p.topic)
             byName == p.form \in {"name", "normal"}
             s == IF byName THEN r.db ELSE db
             id == IF byName THEN r.tid ELSE p.tid
             l == lookup_subscription(s, link.online, p.addr, id, p.form # "predef", p.qos)
             no == [Suback(p, "ZERO", 0) EXCEPT !.qos = p.qos]
  <2>1. Closed(r.db) /\ r.tid \in Nat BY <1>1, <1>2, RegisterClosed
  <2> HIDE DEF r
  <2>2. Closed(s) /\ id \in Nat BY <1>1, <1>2, <2>1
  <2> HIDE DEF s, id
  <2>3. /\ Closed(l.db) /\ l.tid \in Nat /\ l.res \in Result
        /\ l.subscribe => l.topic \in Topic
    BY <2>2, LookupClosed DEF Result
  <2>4. p.qos # -1 BY <1>4 DEF Subscribe
  <2>5. no \in Message
    <3>1. Suback(p, "ZERO", 0) \in Message BY AnswerType
    <3>2. p.qos \in {0, 1, 2, 255} BY <1>2, <2>4
    <3> QED BY <3>1, <3>2, AckType, ZenonT(60)
  <2>6. Suback(p, l.res, l.tid) \in Message BY <2>3, AnswerType
  <2> DEFINE n == [Phase("wait") EXCEPT !.op = "subscribe", !.pk = p, !.topic = l.topic, !.tid = l.tid, !.res = l.res]
  <2>7. \/ Reply(r.db, <<no>>)
        \/ Reply(l.db, <<Suback(p, l.res, l.tid)>>)
        \/ l.subscribe /\ db' = l.db /\ out' = <<>> /\ k' = n /\ UNCHANGED <<rx, link>>
    BY <1>4 DEF Subscribe, r, s, id
  <2> HIDE DEF no, l
  <2>8. CASE Reply(r.db, <<no>>) BY <1>3, <2>1, <2>5, <2>8, ReplyInv
  <2>9. CASE Reply(l.db, <<Suback(p, l.res, l.tid)>>) BY <1>3, <2>3, <2>6, <2>9, ReplyInv
  <2>10. CASE l.subscribe /\ db' = l.db /\ out' = <<>> /\ k' = n /\ UNCHANGED <<rx, link>>
    <3>1. CtlOK(l.db, n) BY <2>3, <2>10, WaitOK
    <3> HIDE DEF n
    <3> QED BY <1>3, <2>10, <3>1 DEF IInv
  <2> QED BY <2>7, <2>8, <2>9, <2>10
<1>5. CASE Unsubscribe(p)
  <2> DEFINE u == lookup_unsubscription(db, p.addr, IF p.form = "normal" THEN "name" ELSE p.form, p.tid, p.topic)
             n == [Phase("wait") EXCEPT !.op = "unsubscribe", !.pk = p, !.topic = u.topic]
  <2>1. Closed(u.db) BY <1>1, UnlookupClosed
  <2>2. \/ Reply(u.db, <<Unsuback(p)>>)
        \/ u.topic \in Topic /\ db' = u.db /\ out' = <<>> /\ k' = n /\ UNCHANGED <<rx, link>>
    BY <1>5 DEF Unsubscribe
  <2> HIDE DEF u
  <2>3. CASE Reply(u.db, <<Unsuback(p)>>) BY <2>1, <2>3, AnswerType, ReplyInv
  <2>4. CASE u.topic \in Topic /\ db' = u.db /\ out' = <<>> /\ k' = n /\ UNCHANGED <<rx, link>>
    <3>1. Phase("wait") \in Control /\ Phase("wait").at = "wait" BY PhaseType
    <3>2. n \in Control /\ n.at = "wait" /\ n.op = "unsubscribe" BY <2>4, <3>1 DEF Control, Name
    <3> HIDE DEF n
    <3>3. CtlOK(u.db, n) BY <2>1, <3>2, ClosedOK
    <3> QED BY <1>3, <2>4, <3>3 DEF IInv
  <2> QED BY <2>2, <2>3, <2>4
<1> QED BY <1>4, <1>5

\* core.loop starts its loop over the clients.
LEMMA CoreLoopInv ==
  ASSUME IInv, CoreLoopOnline \/ CoreLoopOffline
  PROVE  IInv'
<1> DEFINE last == get_last_client_address(db)
           visit == [Phase("visit") EXCEPT !.i = 1, !.last = last]
           off == [Phase("visit") EXCEPT !.i = 1, !.last = last, !.off = TRUE]
<1>0. <<>> \in Seq(Message) OBVIOUS
<1>1. Closed(db)
  <2>1. k.at = "core" BY DEF CoreLoopOnline, CoreLoopOffline
  <2> QED BY <2>1, InvClosed DEF IInv
<1>2. last \in Address \cup {NoAddress} BY <1>1, LastAddressType DEF Closed
<1> HIDE DEF last
<1>3. Phase("visit") \in Control /\ Phase("visit").at = "visit" /\ Phase("visit").op = "none" BY PhaseType
<1>4. /\ visit \in Control /\ visit.at = "visit" /\ visit.op = "none"
      /\ off \in Control /\ off.at = "visit" /\ off.op = "none"
  BY <1>2, <1>3, ZenonT(60) DEF Control
<1> HIDE DEF visit, off
<1>5. ASSUME NEW c \in {visit, off}, NEW e \in Nat PROVE CtlOK(db, [c EXCEPT !.beat = TRUE, !.elapsed = e])
  <2> DEFINE n == [c EXCEPT !.beat = TRUE, !.elapsed = e]
  <2>1. c \in Control /\ c.at = "visit" /\ c.op = "none" BY <1>4, <1>5
  <2>2. n \in Control /\ n.at = "visit" /\ n.op = "none" BY <2>1 DEF Control
  <2> HIDE DEF n
  <2>3. CtlOK(db, n) BY <1>1, <2>2, ClosedOK
  <2> QED BY <2>3 DEF n
<1>6. CtlOK(db, visit) /\ CtlOK(db, off) BY <1>1, <1>4, ClosedOK
<1>7. CtlOK(db, Phase("mqtt")) BY <1>1, RestOK
<1>8. CASE CoreLoopOnline
  <2>1. UNCHANGED <<db, rx, link>> /\ out' = <<>> BY <1>8 DEF CoreLoopOnline
  <2>2. \/ k' = Phase("mqtt") \/ k' = visit \/ \E e \in Elapsed : k' = [visit EXCEPT !.beat = TRUE, !.elapsed = e]
    BY <1>8 DEF CoreLoopOnline, visit, last
  <2>3. CtlOK(db, k')
    <3>1. CASE \E e \in Elapsed : k' = [visit EXCEPT !.beat = TRUE, !.elapsed = e]
      BY <1>5, <3>1, BoundAssumption
    <3> QED BY <1>6, <1>7, <2>2, <3>1
  <2> QED BY <1>0, <2>1, <2>3 DEF IInv
<1>9. CASE CoreLoopOffline
  <2>1. CASE Stopped
    <3>1. Good(db) BY <1>1 DEF Closed
    <3> QED BY <2>1, <3>1, LeaveInv DEF Stopped
  <2>2. CASE ~Stopped
    <3>1. UNCHANGED <<db, rx, link>> /\ out' = <<>> BY <1>9, <2>2, ZenonT(60) DEF CoreLoopOffline
    <3>2. \/ k' = off
          \/ \E e \in Elapsed : \E s \in {0, e \div 1000} : k' = [off EXCEPT !.beat = TRUE, !.elapsed = s]
      BY <1>9, <2>2 DEF CoreLoopOffline, off, last
    <3>3. \A e \in Elapsed : \A s \in {0, e \div 1000} : s \in Nat BY BoundAssumption
    <3>4. CtlOK(db, k')
      <4>1. CASE k' = off BY <1>6, <4>1
      <4>2. CASE \E e \in Elapsed : \E s \in {0, e \div 1000} : k' = [off EXCEPT !.beat = TRUE, !.elapsed = s]
        <5>1. PICK e \in Elapsed : \E s \in {0, e \div 1000} : k' = [off EXCEPT !.beat = TRUE, !.elapsed = s]
          BY <4>2
        <5>2. PICK s \in {0, e \div 1000} : k' = [off EXCEPT !.beat = TRUE, !.elapsed = s] BY <5>1, ZenonT(60)
        <5>3. s \in Nat BY <3>3
        <5>4. CtlOK(db, [off EXCEPT !.beat = TRUE, !.elapsed = s]) BY <1>5, <5>3, ZenonT(60)
        <5> QED BY <5>2, <5>4, ZenonT(60)
      <4> QED BY <3>2, <4>1, <4>2, ZenonT(60)
    <3> QED BY <1>0, <3>1, <3>4 DEF IInv
  <2> QED BY <2>1, <2>2
<1> QED BY <1>8, <1>9

\* Where the loop over the clients goes after a visit.
LEMMA NextVisitOK ==
  ASSUME NEW c \in Control, NEW s, Closed(s)
  PROVE  CtlOK(s, NextVisit(c, s))
<1> DEFINE next == get_nth_client(s, c.i + 1).addr
           hung == [c EXCEPT !.at = "hung", !.op = "none"]
           go == [c EXCEPT !.i = @ + 1, !.fin = (next = c.last), !.op = "none", !.at = "visit"]
<1>1. NextVisit(c, s) \in {Phase("mqtt"), hung, go} BY DEF NextVisit
<1>2. hung \in Control /\ hung.op = "none" BY DEF Control
<1> HIDE DEF next
<1>3. go \in Control /\ go.op = "none"
  <2>1. c.i + 1 \in Nat BY DEF Control
  <2> DEFINE b == (next = c.last)
             g1 == [c EXCEPT !.i = @ + 1]
             g2 == [g1 EXCEPT !.op = "none", !.at = "visit"]
  <2>2. b \in BOOLEAN OBVIOUS
  <2> HIDE DEF b
  <2>3. g1 \in Control BY <2>1 DEF Control
  <2>4. g2 \in Control /\ g2.op = "none" BY <2>3 DEF Control
  <2>5. go = [g2 EXCEPT !.fin = b] BY DEF Control, b
  <2> HIDE DEF g1, g2, go
  <2> QED BY <2>2, <2>4, <2>5 DEF Control
<1> HIDE DEF hung, go
<1>4. CtlOK(s, hung) /\ CtlOK(s, go) BY <1>2, <1>3, ClosedOK
<1>5. CtlOK(s, Phase("mqtt")) BY RestOK
<1> QED BY <1>1, <1>4, <1>5

\* The part of a visit before handle_timeout.
LEMMA ServedOK ==
  ASSUME Closed(db), NEW r \in entry_client, NEW w \in Served(r)
  PROVE  Closed(w.db) /\ w.out \in Seq(Message)
<1>1. r.addr \in Address \cup {NoAddress} BY DEF entry_client
<1> DEFINE S(h) == IF k.off THEN settle(h.db, r.status, r.addr, {"ACTIVE", "AWAKE"}, "DISCONNECTED", "DISCONNECT")
                   ELSE settle(h.db, r.status, r.addr, {"AWAKE"}, "ASLEEP", "PINGRESP")
<1>2. PICK h \in handle_client_publishes(db, r.status, r.addr) :
        w = [db |-> S(h).db, out |-> h.out \o S(h).out]
  BY DEF Served
<1>3. Closed(h.db) /\ h.out \in Seq(Message) BY <1>1, ClientPublishesClosed
<1>4. /\ Closed(S(h).db)
      /\ S(h).out \in {<<>>, <<Sent(r.addr, "DISCONNECT")>>, <<Sent(r.addr, "PINGRESP")>>}
  <2>1. "DISCONNECTED" \in Status /\ "ASLEEP" \in Status BY DEF Status
  <2> DEFINE a == settle(h.db, r.status, r.addr, {"ACTIVE", "AWAKE"}, "DISCONNECTED", "DISCONNECT")
             b == settle(h.db, r.status, r.addr, {"AWAKE"}, "ASLEEP", "PINGRESP")
  <2>2. Closed(a.db) /\ a.out \in {<<>>, <<Sent(r.addr, "DISCONNECT")>>} BY <1>3, <2>1, SettleClosed
  <2>3. Closed(b.db) /\ b.out \in {<<>>, <<Sent(r.addr, "PINGRESP")>>} BY <1>3, <2>1, SettleClosed
  <2>4. S(h) = a \/ S(h) = b OBVIOUS
  <2> HIDE DEF S, a, b
  <2> QED BY <2>2, <2>3, <2>4
<1> HIDE DEF S
<1>5. /\ <<>> \in Seq(Message) /\ <<Sent(r.addr, "DISCONNECT")>> \in Seq(Message)
      /\ <<Sent(r.addr, "PINGRESP")>> \in Seq(Message)
  BY <1>1, SentType DEF SentTypes
<1>6. S(h).out \in Seq(Message) BY <1>4, <1>5
<1>7. h.out \o S(h).out \in Seq(Message) BY <1>3, <1>6
<1> QED BY <1>2, <1>4, <1>7

\* A visit; with a will to publish it leaves the transaction of the lost client open.
LEMMA VisitInv ==
  ASSUME IInv, Visit \/ VisitTimed \/ VisitWill
  PROVE  IInv'
<1> DEFINE r == get_nth_client(db, k.i)
<1>1. Closed(db) /\ k \in Control /\ k.elapsed \in Nat
  <2>1. k.at = "visit" BY DEF Visit, VisitTimed, VisitWill
  <2>2. k \in Control BY DEF IInv, CtlOK
  <2> QED BY <2>1, <2>2, InvClosed DEF IInv, Control
<1>2. r \in entry_client BY <1>1, NthClientType DEF Closed
<1>3. CASE Visit
  <2>1. PICK w \in Served(r) : db' = w.db /\ out' = w.out /\ k' = NextVisit(k, w.db)
    BY <1>3 DEF Visit
  <2>2. Closed(w.db) /\ w.out \in Seq(Message) BY <1>1, <1>2, ServedOK
  <2>3. CtlOK(w.db, NextVisit(k, w.db)) BY <1>1, <2>2, NextVisitOK
  <2>4. UNCHANGED <<rx, link>> BY <1>3 DEF Visit
  <2> QED BY <2>1, <2>2, <2>3, <2>4 DEF IInv
<1>4. CASE VisitTimed
  <2>1. PICK w \in Served(r) :
          LET s == apply_transaction(handle_timeout(w.db, r, k.elapsed))
          IN db' = s /\ out' = w.out /\ k' = NextVisit(k, s)
    BY <1>4 DEF VisitTimed
  <2> DEFINE s == apply_transaction(handle_timeout(w.db, r, k.elapsed))
  <2>2. Closed(w.db) /\ w.out \in Seq(Message) BY <1>1, <1>2, ServedOK
  <2>3. Closed(s)
    <3>1. Good(handle_timeout(w.db, r, k.elapsed)) BY <1>1, <1>2, <2>2, TimeoutOpen
    <3> QED BY <3>1, CommitClosed
  <2>4. db' = s /\ out' = w.out /\ k' = NextVisit(k, s) BY <2>1
  <2> HIDE DEF s
  <2>5. CtlOK(s, NextVisit(k, s)) BY <1>1, <2>3, NextVisitOK
  <2>6. UNCHANGED <<rx, link>> BY <1>4 DEF VisitTimed
  <2> QED BY <2>2, <2>4, <2>5, <2>6 DEF IInv
<1>5. CASE VisitWill
  <2> DEFINE H(w) == handle_timeout(w.db, r, k.elapsed)
             L(o) == get_client_will(o)
             B(l) == IF link.conn /\ l.qos # 255 THEN <<ToBroker(l.topic, l.msg, l.qos)>> ELSE <<>>
             K(l) == [k EXCEPT !.at = "wait", !.op = "will", !.topic = l.topic, !.qos = l.qos]
  <2>1. PICK w \in Served(r) :
          /\ has_client_will(H(w))
          /\ db' = H(w) /\ out' = w.out \o B(L(H(w))) /\ k' = K(L(H(w)))
    BY <1>5, ZenonT(60) DEF VisitWill
  <2> DEFINE o == H(w)
             l == L(o)
  <2>2. Closed(w.db) /\ w.out \in Seq(Message) BY <1>1, <1>2, ServedOK
  <2>3. Good(o) /\ o.started /\ ~o.error BY <1>1, <1>2, <2>2, TimeoutOpen
  <2>4. has_client_will(o) /\ db' = o /\ out' = w.out \o B(l) /\ k' = K(l) BY <2>1
  <2> HIDE DEF H
  <2>5. l \in entry_will /\ ~o.notin BY <2>3, <2>4, WillGood DEF has_client_will, Usable
  <2> HIDE DEF o, L, l
  <2>6. l.topic \in Name /\ l.qos \in {0, 1, 2, 255} /\ l.msg \in Payload \cup {NoMsg}
    BY <2>5 DEF entry_will, WillQos
  <2>7. B(l) \in Seq(Message)
    <3>1. k.pk \in Packets BY <1>1 DEF Control
    <3>2. <<ToBroker(l.topic, l.msg, l.qos)>> \in Seq(Message) BY <2>6, <3>1, AnswerType
    <3>3. <<>> \in Seq(Message) OBVIOUS
    <3> QED BY <3>2, <3>3
  <2>8. K(l) \in Control /\ K(l).at = "wait" /\ K(l).op = "will" BY <1>1, <2>6, ZenonT(60) DEF Control
  <2> HIDE DEF B, K
  <2>9. CtlOK(o, K(l)) BY <2>3, <2>5, <2>8 DEF CtlOK
  <2>10. w.out \o B(l) \in Seq(Message) BY <2>2, <2>7
  <2>11. UNCHANGED <<rx, link>> BY <1>5, ZenonT(60) DEF VisitWill
  <2> QED BY <2>4, <2>9, <2>10, <2>11, SMTT(30) DEF IInv
<1> QED BY <1>3, <1>4, <1>5

\* One round of the remove loop keeps the transaction it runs in, and its client.
LEMMA RemoveStepInv ==
  ASSUME IInv, RemoveStep
  PROVE  IInv'
<1> DEFINE tid == get_nth_subscribed_topic_id(db, get_client_subscription_count(db))
           t == get_topic_name(db, tid)
           u == touch_topic_name(db, tid)
           v == delete_subscription(u, tid)
           s == decrement_global_subscription_count(v, t)
<1>1. Good(db) /\ k \in Control BY DEF IInv, CtlOK
<1>2. Usable(db) BY DEF RemoveStep, get_client_subscription_count
<1>3. tid = 0 \/ \E j \in 1..Len(Cur(db).sub) : Cur(db).sub[j].tid = tid
  <2>1. Cur(db).sub \in Seq(entry_subscription) BY <1>1, <1>2, CurType DEF entry_client
  <2>2. DOMAIN Cur(db).sub = 1..Len(Cur(db).sub) BY <2>1
  <2> QED BY <2>2 DEF get_nth_subscribed_topic_id
<1> HIDE DEF tid
<1>4. Good(u) /\ SameTx(db, u) /\ u.clients = db.clients BY <1>1, TopicNameType
<1> HIDE DEF u
<1>5. Cur(u) = Cur(db) /\ Usable(u) BY <1>2, <1>4 DEF Cur, SameTx, Usable
<1>6. Good(v) /\ SameTx(u, v) /\ Cur(v).id = Cur(u).id BY <1>3, <1>4, <1>5, DeleteSubscriptionGood
<1> HIDE DEF v, t
<1>7. Good(s) /\ SameTx(v, s) /\ s.clients = v.clients BY <1>6, CountGood
<1> HIDE DEF s
<1>8. Cur(s) = Cur(v) BY <1>7 DEF Cur, SameTx
<1>9. SameTx(db, s) /\ Cur(s).id = Cur(db).id BY <1>4, <1>5, <1>6, <1>7, <1>8 DEF SameTx
<1> DEFINE hung == [k EXCEPT !.at = "hung"]
           wait == [k EXCEPT !.at = "wait", !.topic = t]
<1>10. /\ k.at = "remove" /\ db' = s /\ out' = <<>> /\ UNCHANGED <<rx, link>>
       /\ \/ k' = hung
          \/ k' = k
          \/ t \in Topic /\ k' = wait
  <2>1. k.at = "remove" /\ db' = s /\ out' = <<>> /\ UNCHANGED <<rx, link>>
    BY DEF RemoveStep, tid, t, u, v, s
  <2>2. k' = IF tid = 0 THEN hung ELSE IF last_unsubscribed(s, t) /\ t \in Topic THEN wait ELSE k
    BY DEF RemoveStep, tid, t, u, v, s
  <2> HIDE DEF hung, wait
  <2> QED BY <2>1, <2>2
<1>11. k' \in Control /\ k'.at \in {"remove", "hung", "wait"} /\ k'.op = k.op /\ k'.pk = k.pk
       /\ (k'.topic = k.topic \/ k'.topic \in Topic)
  <2>1. CASE k' = hung BY <1>1, <2>1 DEF Control
  <2>2. CASE k' = k BY <1>1, <1>10, <2>2
  <2>3. CASE t \in Topic /\ k' = wait BY <1>1, <2>3, ZenonT(60) DEF Control, Name
  <2> QED BY <1>10, <2>1, <2>2, <2>3
<1>12. CtlOK(db, k) BY DEF IInv
<1>13. CtlOK(s, k') BY <1>7, <1>9, <1>10, <1>11, <1>12 DEF CtlOK, SameTx
<1>14. <<>> \in Seq(Message) OBVIOUS
<1> QED BY <1>10, <1>13, <1>14 DEF IInv

\* The remove loop is through: the client is deleted, and the transaction closed.
LEMMA RemoveDoneInv ==
  ASSUME IInv, RemoveDoneConnect \/ RemoveDoneLost
  PROVE  IInv'
<1>1. Good(db) /\ k \in Control /\ (k.op = "connect" => k.pk.id \in ClientId) BY DEF IInv, CtlOK
<1>2. CASE RemoveDoneConnect
  <2> DEFINE s == delete_client(db, k.pk.id)
             n == add_client(s, k.pk.id, k.pk.addr, k.pk.dur * 1000)
  <2>1. k.pk \in Packets BY <1>1 DEF Control
  <2>2. k.pk.addr \in Address /\ k.pk.dur * 1000 \in Nat
    <3>1. k.pk \in Packet BY <2>1, PacketAssumption
    <3> QED BY <3>1 DEF Packet
  <2>3. k.pk.id \in ClientId BY <1>1, <1>2 DEF RemoveDoneConnect
  <2>4. FinishConnect(n, k.pk) BY <1>2 DEF RemoveDoneConnect
  <2>5. Good(s) BY <1>1, DeleteClientGood
  <2> HIDE DEF s
  <2>6. Good(n) BY <2>2, <2>3, <2>5, AddClientGood
  <2> HIDE DEF n
  <2> QED BY <2>1, <2>4, <2>6, FinishConnectInv
<1>3. CASE RemoveDoneLost
  <2> DEFINE s == apply_transaction(delete_client(db, get_nth_client(db, k.i).id))
  <2>1. db' = s /\ out' = <<>> /\ k' = NextVisit(k, s) /\ UNCHANGED <<rx, link>>
    BY <1>3 DEF RemoveDoneLost
  <2>2. Good(delete_client(db, get_nth_client(db, k.i).id)) BY <1>1, DeleteClientGood
  <2>3. Closed(s) BY <2>2, CommitClosed
  <2> HIDE DEF s
  <2>4. CtlOK(s, NextVisit(k, s)) BY <1>1, <2>3, NextVisitOK
  <2>5. <<>> \in Seq(Message) OBVIOUS
  <2> QED BY <2>1, <2>4, <2>5 DEF IInv
<1> QED BY <1>2, <1>3

\* A kill inside a handler leaves the files of a good store.
LEMMA KilledInv ==
  ASSUME IInv, CrashInside
  PROVE  IInv'
<1>1. Good(db) /\ k \in Control BY DEF IInv, CtlOK
<1>2. ASSUME KilledInRemove PROVE IInv'
  <2> DEFINE tid == get_nth_subscribed_topic_id(db, get_client_subscription_count(db))
  <2>1. Good(delete_subscription(db, tid)) BY <1>1, DeleteSubscriptionGood
  <2>2. \A s \in half_deleted(db) : Good(s) BY <1>1, HalfDeletedGood
  <2>3. Leave(delete_subscription(db, tid)) \/ \E s \in half_deleted(db) : Leave(s)
    BY <1>2 DEF KilledInRemove
  <2> HIDE DEF tid
  <2> QED BY <2>1, <2>2, <2>3, LeaveInv
<1>3. ASSUME KilledInTimeout PROVE IInv'
  <2> DEFINE r == get_nth_client(db, k.i)
             H(w) == set_timeout(start_by_address(w.db, r.addr), r.timeout + k.elapsed)
  <2>1. Closed(db) BY <1>3, InvClosed DEF IInv, KilledInTimeout
  <2>2. r \in entry_client /\ k.elapsed \in Nat BY <1>1, NthClientType DEF Control
  <2>3. PICK w \in Served(r) : Leave(H(w)) BY <1>3 DEF KilledInTimeout
  <2>4. Closed(w.db) BY <2>1, <2>2, ServedOK
  <2>5. Good(start_by_address(w.db, r.addr)) BY <2>4, StartByAddressGood DEF Closed
  <2>6. r.timeout + k.elapsed \in Nat BY <2>2 DEF entry_client
  <2>7. Good(H(w)) BY <2>5, <2>6, SetTimeoutGood
  <2> HIDE DEF H
  <2> QED BY <2>3, <2>7, LeaveInv
<1>4. ASSUME NEW p \in Packets, KilledInSubscribe(p) PROVE IInv'
  <2> DEFINE r == register_topic(db, TRUE, p.addr, p.topic)
             byName == p.form \in {"name", "normal"}
             d == IF byName THEN r.db ELSE db
             id == IF byName THEN r.tid ELSE p.tid
  <2>1. Closed(db) BY <1>4, InvClosed DEF IInv, KilledInSubscribe, Received
  <2>2. p.addr \in Address /\ p.topic \in Name /\ p.tid \in Nat
    <3>1. p \in Packet BY PacketAssumption
    <3> QED BY <3>1 DEF Packet
  <2>3. Closed(r.db) /\ r.tid \in Nat BY <2>1, <2>2, RegisterClosed
  <2>4. \E s \in half_subscribed(d, p.addr, id, p.form # "predef", p.qos) : Leave(s)
    BY <1>4 DEF KilledInSubscribe
  <2> HIDE DEF r
  <2>5. Closed(d) /\ id \in Nat BY <2>1, <2>2, <2>3
  <2> HIDE DEF d, id
  <2>6. \A s \in half_subscribed(d, p.addr, id, p.form # "predef", p.qos) : Good(s) BY <2>5, HalfSubscribedGood
  <2> QED BY <2>4, <2>6, LeaveInv
<1>5. ASSUME NEW p \in Packets, KilledInUnsubscribe(p) PROVE IInv'
  <2>1. Closed(db) BY <1>5, InvClosed DEF IInv, KilledInUnsubscribe, Received
  <2>2. Good(half_unsubscribed(db, p.addr, p.tid, p.form = "short")) BY <2>1, HalfUnsubscribedGood
  <2> QED BY <1>5, <2>2, LeaveInv DEF KilledInUnsubscribe
<1> QED BY <1>2, <1>3, <1>4, <1>5 DEF CrashInside

\* A broker call returns, whatever was delivered during it.
LEMMA CallDoneInv ==
  ASSUME IInv, CallDone
  PROVE  IInv'
<1>0. <<>> \in Seq(Message) /\ \A m \in Message : <<m>> \in Seq(Message) OBVIOUS
<1>1. link \in Link /\ CtlOK(db, k) /\ k \in Control /\ Good(db) /\ k.pk \in Packets /\ k.tid \in Nat
  BY DEF IInv, CtlOK, Control
<1>2. CASE PublishDone
  <2>1. Closed(db) BY <1>1, <1>2, InvClosed DEF PublishDone, Returns
  <2>2. PICK r \in publish_results(link, k.qos) :
          link' = r.link /\ AnswerPublish(db, k.pk, IF r.ok THEN "SUCCESS" ELSE "ZERO", k.again)
    BY <1>2 DEF PublishDone
  <2>3. link' \in Link BY <1>1, <2>2, LinkType
  <2>4. rx' = rx BY <1>2 DEF PublishDone
  <2> QED BY <1>1, <2>1, <2>2, <2>3, <2>4, AnswerPublishInv
<1>3. CASE PredefDone
  <2> DEFINE s == apply_transaction(db)
  <2>1. Closed(s) BY <1>1, CommitClosed
  <2>2. link' \in Link
    <3>1. PICK r \in publish_results(link, k.qos) : link' = r.link BY <1>3 DEF PredefDone
    <3> QED BY <1>1, <3>1, LinkType
  <2>3. AnswerPublish(s, k.pk, "ZERO", k.again) /\ rx' = rx BY <1>3 DEF PredefDone
  <2> HIDE DEF s
  <2> QED BY <1>1, <2>1, <2>2, <2>3, AnswerPublishInv
<1>4. CASE SubscribeDone
  <2> DEFINE buf == IF k.pk.form = "predef" THEN "pre" ELSE "reg"
             d == decrement_global_subscription_count(db, k.topic)
  <2>1. Closed(db) /\ k.topic \in Topic BY <1>1, <1>4, InvClosed DEF SubscribeDone, Returns, CtlOK
  <2>2. PICK r \in subscribe_results(link, k.topic, buf) :
          /\ link' = r.link
          /\ db' = IF r.ok THEN db ELSE d
          /\ out' = <<Suback(k.pk, IF r.ok THEN k.res ELSE "ZERO", k.tid)>>
    BY <1>4 DEF SubscribeDone
  <2>3. buf \in Handler BY DEF Handler
  <2>4. link' \in Link BY <1>1, <2>1, <2>2, <2>3, LinkType
  <2>5. Closed(d) BY <1>1, <2>1, CountGood DEF Closed, SameTx
  <2> HIDE DEF d
  <2>6. Closed(db') BY <2>1, <2>2, <2>5
  <2>7. out' \in Seq(Message) BY <1>0, <1>1, <2>2, AnswerType
  <2>8. CtlOK(db', Phase("core")) BY <2>6, RestOK
  <2>9. k' = Phase("core") /\ rx' = rx BY <1>4 DEF SubscribeDone
  <2> QED BY <2>4, <2>7, <2>8, <2>9 DEF IInv
<1>5. CASE UnsubscribeDone
  <2>1. Closed(db) BY <1>1, <1>5, InvClosed DEF UnsubscribeDone, Returns
  <2>2. link' \in Link
    <3>1. PICK r \in unsubscribe_results(link, k.topic, db) : link' = r.link BY <1>5 DEF UnsubscribeDone
    <3> QED BY <1>1, <3>1, LinkType
  <2>3. <<Unsuback(k.pk)>> \in Seq(Message) BY <1>1, AnswerType
  <2>4. CtlOK(db, Phase("core")) BY <2>1, RestOK
  <2> QED BY <1>5, <2>2, <2>3, <2>4 DEF IInv, UnsubscribeDone
<1>6. CASE RemovedDone
  <2> DEFINE n == [k EXCEPT !.at = "remove", !.topic = Empty]
  <2>1. link' \in Link
    <3>1. PICK r \in unsubscribe_results(link, k.topic, db) : link' = r.link BY <1>6 DEF RemovedDone
    <3> QED BY <1>1, <3>1, LinkType
  <2>2. n \in Control /\ n.at = "remove" /\ n.op = k.op /\ n.pk = k.pk BY <1>1 DEF Control, Name
  <2>3. k.op \in {"connect", "lost"} /\ k.at = "wait" BY <1>6 DEF RemovedDone, Returns
  <2> HIDE DEF n
  <2>4. CtlOK(db, n) BY <1>1, <2>2, <2>3 DEF CtlOK
  <2>5. k' = n /\ out' = <<>> /\ UNCHANGED <<db, rx>> BY <1>6 DEF RemovedDone, n
  <2> QED BY <1>0, <2>1, <2>4, <2>5 DEF IInv
<1>7. CASE WillDone
  <2> DEFINE n == [k EXCEPT !.at = "remove", !.op = "lost", !.topic = Empty, !.qos = 0]
  <2>1. link' \in Link
    <3>1. PICK r \in publish_results(link, k.qos) : link' = r.link BY <1>7 DEF WillDone
    <3> QED BY <1>1, <3>1, LinkType
  <2>2. n \in Control /\ n.at = "remove" /\ n.op = "lost" BY <1>1 DEF Control, Name
  <2>3. k.op = "will" /\ k.at = "wait" BY <1>7 DEF WillDone, Returns
  <2> HIDE DEF n
  <2>4. CtlOK(db, n) BY <1>1, <2>2, <2>3 DEF CtlOK
  <2>5. k' = n /\ out' = <<>> /\ UNCHANGED <<db, rx>> BY <1>7 DEF WillDone, n
  <2> QED BY <1>0, <2>1, <2>4, <2>5 DEF IInv
<1> QED BY <1>2, <1>3, <1>4, <1>5, <1>6, <1>7 DEF CallDone

---------------------------------------------------------------------------
(* The theorems. *)

\* The empty database and the process not yet started satisfy the invariant.
LEMMA InitInv == Init => IInv
<1> SUFFICES ASSUME Init PROVE IInv OBVIOUS
<1>1. Closed(EmptyStore)
  <2>1. EmptyStore \in Store
    <3>1. <<>> \in Seq(entry_client) OBVIOUS
    <3>2. [t \in Topic |-> 0] \in [Topic -> Nat] OBVIOUS
    <3> QED BY <3>1, <3>2 DEF EmptyStore, Store, Name
  <2> QED BY <2>1 DEF Closed, Good, EmptyStore
<1>2. CtlOK(EmptyStore, Phase("down")) BY <1>1, RestOK
<1>3. RxOK(NoDelivery) BY DEF RxOK, NoDelivery, Delivery
<1>4. Unlinked \in Link BY UnlinkedType
<1>5. <<>> \in Seq(Message) OBVIOUS
<1> QED BY <1>2, <1>3, <1>4, <1>5 DEF Init, IInv

\* Every step of the thread, of the clients and of the broker keeps the invariant.
LEMMA NextInv == IInv /\ [Next]_vars => IInv'
<1> SUFFICES ASSUME IInv, [Next]_vars PROVE IInv' OBVIOUS
<1>1. CASE Boot \/ Crash \/ Reconnect \/ YieldDone \/ ConnectionLost \/ BrokerSubscribes
           \/ ReceiveNothing
  BY <1>1, ProcessInv
<1>2. CASE Deliver \/ \E t \in Topic, d \in Payload : Arrive(t, d) BY <1>2, DeliveryInv
<1>3. CASE CoreLoopOnline \/ CoreLoopOffline BY <1>3, CoreLoopInv
<1>4. CASE Visit \/ VisitTimed \/ VisitWill BY <1>4, VisitInv
<1>5. CASE RemoveStep BY <1>5, RemoveStepInv
<1>6. CASE RemoveDoneConnect \/ RemoveDoneLost BY <1>6, RemoveDoneInv
<1>7. CASE CallDone BY <1>7, CallDoneInv
<1>8. CASE PublishAgain BY <1>8, PublishInv
<1>9. ASSUME NEW p \in Packets, Handle(p) PROVE IInv'
  <2>1. CASE ConnectOffline(p) \/ ConnectNew(p) \/ ConnectAgain(p) \/ ConnectClean(p) BY <2>1, ConnectInv
  <2>2. CASE \/ WillTopic(p) \/ WillMsg(p) \/ Register(p) \/ RegAck(p)
             \/ PubAck(p) \/ PingReq(p) \/ Disconnect(p)
    BY <2>2, PacketInv
  <2>3. CASE Publish(p) BY <2>3, PublishInv
  <2>4. CASE Subscribe(p) \/ Unsubscribe(p) BY <2>4, SubscribeInv
  <2> QED BY <1>9, <2>1, <2>2, <2>3, <2>4 DEF Handle
<1>10. CASE CrashInside BY <1>10, KilledInv
<1>11. CASE UNCHANGED vars
  BY <1>11 DEF vars, IInv, CtlOK, RxOK, Good, Cur
<1> QED BY <1>1, <1>2, <1>3, <1>4, <1>5, <1>6, <1>7, <1>8, <1>9, <1>10, <1>11 DEF Next, Thread

\* The inductive invariant holds in every reachable state.
THEOREM Invariant == Spec => []IInv
BY InitInv, NextInv, PTL DEF Spec

\* Every variable stays in the set its declaration names, for any packets, topics and bounds.
THEOREM TypeCorrect == Spec => []TypeOK
<1>1. IInv => TypeOK BY DEF IInv, CtlOK, RxOK, Good, TypeOK
<1> QED BY <1>1, Invariant, PTL

(***************************************************************************)
(* Transactions are paired on every path, although broker messages are     *)
(* delivered inside calls made with a transaction open: for any number of  *)
(* clients, packets and handlers.                                          *)
(***************************************************************************)
THEOREM Transactions == Spec => []TxDiscipline
<1>1. IInv => TxDiscipline BY DEF IInv, CtlOK, TxDiscipline
<1> QED BY <1>1, Invariant, PTL
==============================================================================
