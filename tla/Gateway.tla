------------------------------ MODULE Gateway ------------------------------
(***************************************************************************)
(* The gateway process.  Gateway::loop runs, in one thread and for ever,   *)
(*   mqtt.loop()    reconnect to the broker, or read what it sends,        *)
(*   socket.loop()  handle at most one MQTT-SN packet,                     *)
(*   core.loop()    visit the clients: send queued messages, time out.     *)
(* A handler runs to its end in one step unless it calls the broker.  Such *)
(* a call (publish, subscribe, unsubscribe of the Paho client) is a `wait':*)
(* the client reads the connection until the answer or a timeout, and      *)
(* every message that arrives meanwhile is delivered from inside the call, *)
(* into the same database, with the caller's transaction perhaps open.     *)
(***************************************************************************)
EXTENDS CoreImpl

CONSTANTS
  Packets,       \* the MQTT-SN packets clients send
  Oversized,     \* bodies longer than the largest MQTT-SN payload
  MaxHandlers,   \* MAX_MESSAGE_HANDLERS of the Paho client
  Elapsed,       \* milliseconds that may pass between two heartbeats
  MaxTimeout,    \* bound: no heartbeat once a client's timeout is beyond it
  MaxQueue,      \* bound: no broker message once a queue file is that long
  MaxCount,      \* bound: no kill inside a handler once a topic's count is that high
  Crashes        \* may the process be killed?

VARIABLES
  db,      \* the database, see SDPersistent
  k,       \* where the thread is: see Control
  rx,      \* the broker message being delivered to the clients
  link,    \* the MQTT side: connection, message handlers, the broker's view
  out      \* what the last step sent, in order

vars == <<db, k, rx, link, out>>

Code == {"ACCEPTED", "REJECTED_CONGESTION", "REJECTED_INVALID_TOPIC_ID",
         "REJECTED_NOT_SUPPORTED", "RESERVED"}
Form == {"name", "short", "normal", "predef"}

(***************************************************************************)
(* A packet has the fields of all message types; a type reads its own.     *)
(* form is the topic id type of the flags.  A PINGREQ or DISCONNECT with   *)
(* its optional field has ext = TRUE.                                      *)
(***************************************************************************)
Packet ==
  [type : STRING, addr : Address, id : ClientId \cup LongId, clean : BOOLEAN, will : BOOLEAN,
   ext : BOOLEAN, dur : Nat, topic : Name, form : Form, tid : Nat, mid : Nat,
   qos : {-1, 0, 1, 2}, code : Code, msg : Payload]

ASSUME PacketAssumption == Packets \subseteq Packet /\ Packets # {}
ASSUME BrokerAssumption == "broker" \notin Address
ASSUME BoundAssumption ==
  /\ MaxHandlers \in Nat /\ MaxTimeout \in Nat /\ MaxQueue \in Nat /\ MaxCount \in Nat
  /\ Elapsed \subseteq Nat /\ Crashes \in BOOLEAN

INSTANCE MqttLink

(***************************************************************************)
(* online: the flag of the database.  conn: isconnected of the Paho client.*)
(* up: the connection is alive and bsub is what the broker is subscribed   *)
(* to for it; the client notices a dead one only when a call fails.        *)
(***************************************************************************)
Link ==
  [online : BOOLEAN, conn : BOOLEAN, up : BOOLEAN, hs : [1..MaxHandlers -> Handler],
   bsub : SUBSET Topic]
Unlinked ==
  [online |-> FALSE, conn |-> FALSE, up |-> FALSE, hs |-> NoHandlers, bsub |-> {}]

Delivery == [left : Nat, data : Data \cup {NoMsg}, i : Nat, last : Address \cup {NoAddress}]
NoDelivery == [left |-> 0, data |-> NoMsg, i |-> 0, last |-> NoAddress]

(***************************************************************************)
(* at: the phase of the thread.  op: the operation a wait or a remove loop *)
(* belongs to; pk, topic, tid, qos, res: its locals.  again: the packet is *)
(* to be handled a second time.  i, fin, last, off, beat, elapsed: locals  *)
(* of the loop over the clients (off: in the offline procedure).           *)
(***************************************************************************)
Control ==
  [at : {"down", "mqtt", "socket", "again", "core", "visit", "remove", "wait", "hung"},
   op : {"none", "publish", "predef", "subscribe", "unsubscribe", "connect", "will", "lost"},
   pk : Packets, topic : Name, tid : Nat, qos : {0, 1, 2, 255}, res : Result,
   again : BOOLEAN, i : Nat, fin : BOOLEAN, last : Address \cup {NoAddress}, off : BOOLEAN,
   beat : BOOLEAN, elapsed : Nat]

NoPacket == CHOOSE p \in Packets : TRUE
Idle ==
  [at |-> "mqtt", op |-> "none", pk |-> NoPacket, topic |-> Empty, tid |-> 0, qos |-> 0,
   res |-> "ZERO", again |-> FALSE, i |-> 0, fin |-> FALSE, last |-> NoAddress, off |-> FALSE,
   beat |-> FALSE, elapsed |-> 0]
Phase(at) == [Idle EXCEPT !.at = at]

SentTypes ==
  {"CONNACK", "DISCONNECT", "PINGRESP", "PUBACK", "PUBLISH", "PUBREC", "REGACK", "REGISTER",
   "SUBACK", "UNSUBACK", "WILLMSGREQ", "WILLTOPICREQ"}
Message ==
  [to : Address \cup {NoAddress, "broker"}, type : SentTypes, code : Code, tid : Nat, mid : Nat,
   qos : {0, 1, 2, 255},
   data : (Name \X (Payload \cup {NoMsg})) \cup {Damaged, NoMsg}]

Init ==
  /\ db = EmptyStore
  /\ k = Phase("down")
  /\ rx = NoDelivery
  /\ link = Unlinked
  /\ out = <<>>

---------------------------------------------------------------------------
(* The process: start, crash, exit. *)

\* The process is gone and leaves the files of store s.
Leave(s) ==
  /\ db' = begin(s) /\ k' = Phase("down") /\ rx' = NoDelivery /\ link' = Unlinked
  /\ out' = <<>>

Stopped == Leave(db)

Boot ==
  /\ k.at = "down"
  /\ k' = Phase("mqtt") /\ out' = <<>>
  /\ UNCHANGED <<db, rx, link>>

Crash == Crashes /\ k.at # "down" /\ Stopped

---------------------------------------------------------------------------
(* The MQTT side, see MqttLink and MqttService. *)

\* PahoMqttMessageHandler::loop without a connection: one attempt to connect.
Reconnect ==
  /\ k.at = "mqtt" /\ ~link.conn
  /\ \E ok \in BOOLEAN : link' = [link EXCEPT !.conn = ok, !.up = ok, !.online = @ \/ ok]
  /\ k' = Phase("socket") /\ out' = <<>>
  /\ UNCHANGED <<db, rx>>

\* ... and with one: yield returns when its time is over.
YieldDone ==
  /\ k.at = "mqtt" /\ link.conn /\ rx.left = 0
  /\ k' = Phase("socket") /\ out' = <<>>
  /\ UNCHANGED <<db, rx, link>>

\* The connection breaks; neither yield nor keepalive tells the client.
ConnectionLost ==
  /\ link.up
  /\ link' = [link EXCEPT !.up = FALSE, !.bsub = {}]
  /\ out' = <<>>
  /\ UNCHANGED <<db, k, rx>>

\* The broker acts on a SUBSCRIBE; its answer is still to be read.
BrokerSubscribes ==
  /\ k.at = "wait" /\ k.op = "subscribe" /\ link.up
  /\ link' = [link EXCEPT !.bsub = @ \cup {k.topic}]
  /\ out' = <<>>
  /\ UNCHANGED <<db, k, rx>>

\* Mutant of Blocking: messages are read during every call.
Blocking_always == k.at = "wait"

\* A QoS 1 publish, a subscribe and an unsubscribe wait for their acknowledgement.
Blocking ==
  /\ k.at = "wait"
  /\ k.op \in {"publish", "predef", "will"} => k.qos = 1

(***************************************************************************)
(* The broker sends a message of a topic it has a subscription for, and    *)
(* deliverMessage calls the core once for every handler whose filter       *)
(* matches.  CoreImpl::publish ends at once when the body is too long or   *)
(* no client is registered.                                                *)
(***************************************************************************)
Arrive(t, d) ==
  LET last == get_last_client_address(db)
      match == Matching(link.hs, db, t)
  IN /\ k.at = "mqtt" \/ Blocking
     /\ link.up /\ rx.left = 0 /\ t \in link.bsub
     /\ \A c \in DOMAIN db.clients : Len(db.clients[c].pub) < MaxQueue
     /\ match # {} /\ d \notin Oversized /\ last # NoAddress
     /\ rx' = [left |-> Cardinality(match), data |-> <<t, d>>, i |-> 1, last |-> last]
     /\ out' = <<>>
     /\ UNCHANGED <<db, k, link>>

\* One round of the loop of CoreImpl::publish; the loop also stops at a free slot.
Deliver ==
  LET next == get_nth_client(db, rx.i + 1).addr
  IN /\ rx.left > 0
     /\ db' = handle_receive_mqtt_publish_for_client(db, get_nth_client(db, rx.i).addr, rx.data)
     /\ rx' = IF next \notin {NoAddress, rx.last} THEN [rx EXCEPT !.i = @ + 1]
              ELSE IF rx.left > 1 THEN [rx EXCEPT !.left = @ - 1, !.i = 1]
              ELSE NoDelivery
     /\ out' = <<>>
     /\ UNCHANGED <<k, link>>

---------------------------------------------------------------------------
(* The MQTT-SN packets. *)

Connack(a, code) == [Sent(a, "CONNACK") EXCEPT !.code = code]
ToBroker(t, msg, qos) == [Sent("broker", "PUBLISH") EXCEPT !.qos = qos, !.data = <<t, msg>>]

\* The handler is through: new store, messages sent, on to core.loop.
Reply(s, msgs) ==
  /\ db' = s /\ out' = msgs /\ k' = Phase("core")
  /\ UNCHANGED <<rx, link>>

Received(type, p) == k.at = "socket" /\ p.type = type

(***************************************************************************)
(* No packet within 300 ms, or one that nothing comes of: too short, of a  *)
(* type without a handler, or a SEARCHGW, which is never answered because  *)
(* get_gateway_id leaves the id 0.                                         *)
(***************************************************************************)
ReceiveNothing == k.at = "socket" /\ Reply(db, <<>>)

\* The end of CoreImpl::add_client and of handle_connect.
FinishConnect(s, p) ==
  LET c == Commit(s)
      w == await_message(c.db, p.addr, "WILLTOPIC")
  IN IF c.res # "SUCCESS" THEN Reply(c.db, <<Connack(p.addr, "REJECTED_NOT_SUPPORTED")>>)
     ELSE IF ~p.will THEN Reply(c.db, <<Connack(p.addr, "ACCEPTED")>>)
     ELSE Reply(w.db, <<IF w.res = "SUCCESS" THEN Sent(p.addr, "WILLTOPICREQ")
                        ELSE Connack(p.addr, "REJECTED_NOT_SUPPORTED")>>)

ConnectOffline(p) ==
  /\ Received("CONNECT", p) /\ ~link.online
  /\ Reply(db, <<Connack(p.addr, "REJECTED_NOT_SUPPORTED")>>)

ConnectNew(p) ==
  LET o == start_by_id(db, p.id)
  IN /\ Received("CONNECT", p) /\ link.online /\ ~client_exist(o)
     /\ FinishConnect(add_client(o, p.id, p.addr, p.dur * 1000), p)

ConnectAgain(p) ==
  LET o == start_by_id(db, p.id)
  IN /\ Received("CONNECT", p) /\ link.online /\ client_exist(o) /\ ~p.clean
     /\ FinishConnect(reset_client(o, p.id, p.addr, p.dur * 1000), p)

ConnectClean(p) ==
  LET o == start_by_id(db, p.id)
  IN /\ Received("CONNECT", p) /\ link.online /\ client_exist(o) /\ p.clean
     /\ db' = o /\ out' = <<>>
     /\ k' = [Phase("remove") EXCEPT !.op = "connect", !.pk = p]
     /\ UNCHANGED <<rx, link>>

\* An empty WILLTOPIC deletes the will and is not answered.  The QoS goes into a uint8_t.
WillTopic(p) ==
  LET qos == IF p.qos = -1 THEN 255 ELSE p.qos
      a == add_will_topic(db, link.online, p.addr, p.topic, qos)
      w == await_message(a.db, p.addr, "WILLMSG")
  IN /\ Received("WILLTOPIC", p)
     /\ IF p.topic = Empty /\ p.qos = 0 THEN Reply(remove_will(db, p.addr).db, <<>>)
        ELSE IF a.res # "SUCCESS" THEN Reply(a.db, <<Connack(p.addr, "REJECTED_NOT_SUPPORTED")>>)
        ELSE Reply(w.db, <<IF w.res = "SUCCESS" THEN Sent(p.addr, "WILLMSGREQ")
                           ELSE Connack(p.addr, "REJECTED_NOT_SUPPORTED")>>)

WillMsg(p) ==
  LET m == add_will_msg(db, link.online, p.addr, p.msg)
  IN /\ Received("WILLMSG", p)
     /\ Reply(m.db, <<Connack(p.addr, IF m.res = "SUCCESS" THEN "ACCEPTED"
                                      ELSE "REJECTED_NOT_SUPPORTED")>>)

Register(p) ==
  LET r == register_topic(db, link.online, p.addr, p.topic)
      ack == [Sent(p.addr, "REGACK") EXCEPT !.mid = p.mid]
  IN /\ Received("REGISTER", p)
     /\ Reply(r.db, <<IF r.res = "SUCCESS" THEN [ack EXCEPT !.tid = r.tid]
                      ELSE [ack EXCEPT !.code = "REJECTED_NOT_SUPPORTED"]>>)

RegAck(p) ==
  /\ Received("REGACK", p)
  /\ \E r \in notify_regack_arrived(db, p.addr, p.mid, p.code) :
       Reply(r.db, IF r.res = "SUCCESS" THEN <<>> ELSE <<Sent(p.addr, "DISCONNECT")>>)

\* handle_puback takes (msg_id, topic_id) and is called with (topic_id, msg_id).
PubAck(p) ==
  LET r == notify_puback_arrived(db, p.addr, p.tid, p.code)
  IN /\ Received("PUBACK", p)
     /\ Reply(r.db, IF r.res = "SUCCESS" THEN <<>> ELSE <<Sent(p.addr, "DISCONNECT")>>)

PingReq(p) ==
  LET r == set_awake(db, p.addr)
  IN /\ Received("PINGREQ", p)
     /\ IF ~p.ext THEN Reply(db, <<Sent(p.addr, "PINGRESP")>>)
        ELSE Reply(r.db, IF r.res = "SUCCESS" THEN <<>> ELSE <<Sent(p.addr, "DISCONNECT")>>)

Disconnect(p) ==
  LET r == IF p.ext THEN set_asleep(db, link.online, p.addr) ELSE set_disconnected(db, p.addr)
  IN /\ Received("DISCONNECT", p)
     /\ Reply(r.db, IF p.ext \/ r.res = "SUCCESS" THEN <<Sent(p.addr, "DISCONNECT")>> ELSE <<>>)

---------------------------------------------------------------------------
(* PUBLISH.  parse_publish handles one with a normal topic id twice. *)

PublishLocals(p, again) == [Phase("wait") EXCEPT !.pk = p, !.again = again]

\* handle_publish after core->publish returned res.
AnswerPublish(s, p, res, again) ==
  LET w == await_message(s, p.addr, "PUBREL")
      ack(code) == [Sent(p.addr, "PUBACK") EXCEPT !.code = code, !.tid = p.tid, !.mid = p.mid]
      failed == res \notin {"SUCCESS", "TOPICIDNONEXISTENCE"}
  IN /\ db' = IF p.qos = 2 /\ ~failed THEN w.db ELSE s
     /\ out' = CASE p.qos = -1 -> <<>>
                 [] p.qos = 1 /\ failed -> <<ack("REJECTED_NOT_SUPPORTED")>>
                 [] p.qos \in {0, 2} /\ failed -> <<Sent(p.addr, "DISCONNECT")>>
                 [] p.qos \in {0, 1} /\ res = "TOPICIDNONEXISTENCE" -> <<ack("REJECTED_INVALID_TOPIC_ID")>>
                 [] p.qos = 0 /\ res = "SUCCESS" -> <<>>
                 [] p.qos = 1 /\ res = "SUCCESS" -> <<ack("ACCEPTED")>>
                 [] OTHER -> <<IF w.res = "SUCCESS" THEN [Sent(p.addr, "PUBREC") EXCEPT !.mid = p.mid]
                               ELSE Sent(p.addr, "DISCONNECT")>>
     /\ k' = IF again THEN [Phase("again") EXCEPT !.pk = p] ELSE Phase("core")

handle_publish(p, again) ==
  LET o == start_by_address(db, p.addr)
      short == p.form = "short"
      t == IF short THEN get_topic_name(o, p.tid) ELSE get_predefined_topic_name(o, p.tid)
      looked == IF short THEN touch_topic_name(o, p.tid) ELSE touch_predefined_topic_name(o, p.tid)
      gone == ~client_exist(o) \/ get_client_status(o) \in {"DISCONNECTED", "LOST"}
      free == p.qos = -1 /\ ~short
      c == Commit(IF gone /\ ~free THEN o ELSE looked)
      qos == IF p.qos = -1 THEN 0 ELSE p.qos
      send(s, op) ==
        /\ db' = s
        /\ k' = [PublishLocals(p, again) EXCEPT !.op = op, !.topic = t, !.qos = qos]
        /\ out' = IF link.conn THEN <<ToBroker(t, p.msg, qos)>> ELSE <<>>
  IN /\ UNCHANGED <<rx, link>>
     /\ CASE ~link.online -> AnswerPublish(db, p, "ZERO", again)
          [] link.online /\ gone /\ free /\ t # Null -> send(looked, "predef")
          [] link.online /\ gone /\ ~(free /\ t # Null) ->
               AnswerPublish(c.db, p, IF c.res = "SUCCESS" THEN "CLIENTNONEXISTENCE" ELSE "ZERO", again)
          [] link.online /\ ~gone /\ t = Null ->
               AnswerPublish(c.db, p, IF c.res = "SUCCESS" THEN "TOPICIDNONEXISTENCE" ELSE "ZERO", again)
          [] OTHER -> send(c.db, "publish")

\* parse_publish drops a message id on QoS 0 and -1.
Publish(p) ==
  /\ Received("PUBLISH", p)
  /\ p.qos \in {0, -1} => p.mid = 0
  /\ handle_publish(p, p.form = "normal")

PublishAgain == k.at = "again" /\ handle_publish(k.pk, FALSE)

---------------------------------------------------------------------------
(* SUBSCRIBE and UNSUBSCRIBE. *)

Suback(p, res, tid) ==
  LET ack == [Sent(p.addr, "SUBACK") EXCEPT !.mid = p.mid]
  IN IF res = "SUCCESS" THEN [ack EXCEPT !.tid = tid, !.qos = IF p.qos >= 1 THEN 1 ELSE 0]
     ELSE [ack EXCEPT !.code = "REJECTED_NOT_SUPPORTED"]

\* By name: the topic is registered first, in a transaction of its own.
Subscribe(p) ==
  LET r == register_topic(db, link.online, p.addr, p.topic)
      byName == p.form \in {"name", "normal"}
      l == lookup_subscription(IF byName THEN r.db ELSE db, link.online, p.addr,
                               IF byName THEN r.tid ELSE p.tid, p.form # "predef", p.qos)
  IN /\ Received("SUBSCRIBE", p) /\ p.qos # -1
     /\ IF byName /\ r.res # "SUCCESS"
        THEN Reply(r.db, <<[Suback(p, "ZERO", 0) EXCEPT !.qos = p.qos]>>)
        ELSE IF ~l.subscribe THEN Reply(l.db, <<Suback(p, l.res, l.tid)>>)
        ELSE /\ db' = l.db /\ out' = <<>>
             /\ k' = [Phase("wait") EXCEPT !.op = "subscribe", !.pk = p, !.topic = l.topic,
                                           !.tid = l.tid, !.res = l.res]
             /\ UNCHANGED <<rx, link>>

\* Every outcome but CLIENTNONEXISTENCE, which cannot occur, is answered with UNSUBACK.
Unsuback(p) == [Sent(p.addr, "UNSUBACK") EXCEPT !.mid = p.mid]

Unsubscribe(p) ==
  LET u == lookup_unsubscription(db, p.addr, IF p.form = "normal" THEN "name" ELSE p.form,
                                 p.tid, p.topic)
  IN /\ Received("UNSUBSCRIBE", p)
     /\ IF ~u.unsubscribe \/ u.topic \notin Topic THEN Reply(u.db, <<Unsuback(p)>>)
        ELSE /\ db' = u.db /\ out' = <<>>
             /\ k' = [Phase("wait") EXCEPT !.op = "unsubscribe", !.pk = p, !.topic = u.topic]
             /\ UNCHANGED <<rx, link>>

---------------------------------------------------------------------------
(* core.loop and the offline procedure: the loop over the clients. *)

calm == \A c \in DOMAIN db.clients : db.clients[c].timeout <= MaxTimeout

CoreLoopOnline ==
  LET last == get_last_client_address(db)
      visit == [Phase("visit") EXCEPT !.i = 1, !.last = last]
  IN /\ k.at = "core" /\ link.online
     /\ \/ last = NoAddress /\ k' = Phase("mqtt")
        \/ last # NoAddress /\ k' = visit
        \/ /\ last # NoAddress /\ calm
           /\ \E e \in Elapsed : k' = [visit EXCEPT !.beat = TRUE, !.elapsed = e]
     /\ out' = <<>>
     /\ UNCHANGED <<db, rx, link>>

\* Elapsed time is in seconds here, and is read in every loop, so that it is mostly 0.
CoreLoopOffline ==
  LET last == get_last_client_address(db)
      visit == [Phase("visit") EXCEPT !.i = 1, !.last = last, !.off = TRUE]
  IN /\ k.at = "core" /\ ~link.online
     /\ \/ last = NoAddress /\ Stopped
        \/ /\ last # NoAddress
           /\ \/ k' = visit
              \/ calm /\ \E e \in Elapsed : \E s \in {0, e \div 1000} :
                   k' = [visit EXCEPT !.beat = TRUE, !.elapsed = s]
           /\ out' = <<>>
           /\ UNCHANGED <<db, rx, link>>

(***************************************************************************)
(* After the visit of slot c.i with store s: core.loop ends at a free slot,*)
(* the offline procedure does not look for one and runs past the end of    *)
(* the registry for ever if the last address does not turn up.             *)
(***************************************************************************)
NextVisit(c, s) ==
  LET next == get_nth_client(s, c.i + 1).addr
  IN IF c.fin \/ (~c.off /\ next = NoAddress) THEN Phase("mqtt")
     ELSE IF c.off /\ next # c.last /\ c.i + 1 > Len(s.clients) THEN [c EXCEPT !.at = "hung", !.op = "none"]
     ELSE [c EXCEPT !.i = @ + 1, !.fin = (next = c.last), !.op = "none", !.at = "visit"]

\* The part of a visit before handle_timeout: the possible [db, out].
Served(r) ==
  {LET w == IF k.off THEN settle(h.db, r.status, r.addr, {"ACTIVE", "AWAKE"}, "DISCONNECTED", "DISCONNECT")
            ELSE settle(h.db, r.status, r.addr, {"AWAKE"}, "ASLEEP", "PINGRESP")
   IN [db |-> w.db, out |-> h.out \o w.out] :
     h \in handle_client_publishes(db, r.status, r.addr)}

Timed(r) == k.beat /\ r.status \in {"ACTIVE", "ASLEEP", "AWAKE"}
Expired(r) == r.timeout + k.elapsed > tolerance_timeout(r.duration)

Visit ==
  LET r == get_nth_client(db, k.i)
  IN /\ k.at = "visit" /\ ~Timed(r)
     /\ \E w \in Served(r) : db' = w.db /\ out' = w.out /\ k' = NextVisit(k, w.db)
     /\ UNCHANGED <<rx, link>>

VisitTimed ==
  LET r == get_nth_client(db, k.i)
  IN /\ k.at = "visit" /\ Timed(r)
     /\ \E w \in Served(r) :
          LET o == handle_timeout(w.db, r, k.elapsed)
              s == apply_transaction(o)
          IN /\ ~(Expired(r) /\ has_client_will(o))
             /\ db' = s /\ out' = w.out /\ k' = NextVisit(k, s)
     /\ UNCHANGED <<rx, link>>

\* The will is published with the transaction open; then the client is removed.
VisitWill ==
  LET r == get_nth_client(db, k.i)
  IN /\ k.at = "visit" /\ Timed(r) /\ Expired(r)
     /\ \E w \in Served(r) :
          LET o == handle_timeout(w.db, r, k.elapsed)
              will == get_client_will(o)
          IN /\ has_client_will(o)
             /\ db' = o
             /\ out' = w.out \o (IF link.conn /\ will.qos # 255
                                 THEN <<ToBroker(will.topic, will.msg, will.qos)>> ELSE <<>>)
             /\ k' = [k EXCEPT !.at = "wait", !.op = "will", !.topic = will.topic, !.qos = will.qos]
     /\ UNCHANGED <<rx, link>>

(***************************************************************************)
(* One round of remove_client_subscriptions: the id at position `count' is *)
(* deleted.  If that position is a hole nothing is deleted, and the loop   *)
(* never ends (the null topic name it passes on may also end the process). *)
(***************************************************************************)
RemoveStep ==
  LET tid == get_nth_subscribed_topic_id(db, get_client_subscription_count(db))
      t == get_topic_name(db, tid)
      s == decrement_global_subscription_count(
             delete_subscription(touch_topic_name(db, tid), tid), t)
  IN /\ k.at = "remove" /\ get_client_subscription_count(db) > 0
     /\ db' = s /\ out' = <<>>
     /\ k' = IF tid = 0 THEN [k EXCEPT !.at = "hung"]
             ELSE IF last_unsubscribed(s, t) /\ t \in Topic
             THEN [k EXCEPT !.at = "wait", !.topic = t] ELSE k
     /\ UNCHANGED <<rx, link>>

RemoveDoneConnect ==
  LET s == delete_client(db, k.pk.id)
  IN /\ k.at = "remove" /\ k.op = "connect" /\ get_client_subscription_count(db) = 0
     /\ FinishConnect(add_client(s, k.pk.id, k.pk.addr, k.pk.dur * 1000), k.pk)

RemoveDoneLost ==
  LET s == apply_transaction(delete_client(db, get_nth_client(db, k.i).id))
  IN /\ k.at = "remove" /\ k.op = "lost" /\ get_client_subscription_count(db) = 0
     /\ db' = s /\ out' = <<>> /\ k' = NextVisit(k, s)
     /\ UNCHANGED <<rx, link>>

---------------------------------------------------------------------------
(***************************************************************************)
(* A kill inside a handler.  Every operation of the database writes its    *)
(* file at once and a transaction undoes nothing, so the operations before *)
(* the kill are on the files and those after it are not.  Handlers with a  *)
(* single write, and the stores between two steps, are the case of Crash.  *)
(* A subscription deleted and not counted down makes the count too high    *)
(* for good, each time it happens: hence the bound MaxCount.               *)
(***************************************************************************)
KilledInSubscribe(p) ==
  LET r == register_topic(db, TRUE, p.addr, p.topic)
      byName == p.form \in {"name", "normal"}
  IN /\ Received("SUBSCRIBE", p) /\ p.qos # -1 /\ link.online
     /\ \E s \in half_subscribed(IF byName THEN r.db ELSE db, p.addr, IF byName THEN r.tid ELSE p.tid,
                                 p.form # "predef", p.qos) : Leave(s)

KilledInUnsubscribe(p) ==
  /\ Received("UNSUBSCRIBE", p) /\ p.form \in {"short", "predef"}
  /\ Leave(half_unsubscribed(db, p.addr, p.tid, p.form = "short"))

\* Between the deletion of a subscription and its count, or inside delete_client.
KilledInRemove ==
  LET n == get_client_subscription_count(db)
  IN /\ k.at = "remove"
     /\ \/ n > 0 /\ Leave(delete_subscription(db, get_nth_subscribed_topic_id(db, n)))
        \/ n = 0 /\ \E s \in half_deleted(db) : Leave(s)

\* After the timeout is written, before the client is marked as lost.
KilledInTimeout ==
  LET r == get_nth_client(db, k.i)
  IN /\ k.at = "visit" /\ Timed(r)
     /\ \E w \in Served(r) : Leave(set_timeout(start_by_address(w.db, r.addr), r.timeout + k.elapsed))

CrashInside ==
  /\ Crashes /\ \A t \in Topic : db.count[t] < MaxCount
  /\ \/ KilledInRemove \/ KilledInTimeout
     \/ \E p \in Packets : KilledInSubscribe(p) \/ KilledInUnsubscribe(p)

---------------------------------------------------------------------------
(* The broker call returns. *)

Returns(ops) == k.at = "wait" /\ k.op \in ops /\ rx.left = 0

\* Mutant of PublishDone: the result of the call is ignored.
PublishDoneBlindly ==
  /\ Returns({"publish"})
  /\ \E r \in publish_results(link, k.qos) : link' = r.link
  /\ AnswerPublish(db, k.pk, "SUCCESS", k.again)
  /\ UNCHANGED rx

PublishDone ==
  /\ Returns({"publish"})
  /\ \E r \in publish_results(link, k.qos) :
       /\ link' = r.link
       /\ AnswerPublish(db, k.pk, IF r.ok THEN "SUCCESS" ELSE "ZERO", k.again)
  /\ UNCHANGED rx

PredefDone ==
  LET s == apply_transaction(db)
  IN /\ Returns({"predef"})
     /\ \E r \in publish_results(link, k.qos) : link' = r.link
     /\ AnswerPublish(s, k.pk, "ZERO", k.again)
     /\ UNCHANGED rx

SubscribeDone ==
  /\ Returns({"subscribe"})
  /\ \E r \in subscribe_results(link, k.topic, IF k.pk.form = "predef" THEN "pre" ELSE "reg") :
       /\ link' = r.link
       /\ db' = IF r.ok THEN db ELSE decrement_global_subscription_count(db, k.topic)
       /\ out' = <<Suback(k.pk, IF r.ok THEN k.res ELSE "ZERO", k.tid)>>
  /\ k' = Phase("core")
  /\ UNCHANGED rx

UnsubscribeDone ==
  /\ Returns({"unsubscribe"})
  /\ \E r \in unsubscribe_results(link, k.topic, db) : link' = r.link
  /\ k' = Phase("core") /\ out' = <<Unsuback(k.pk)>>
  /\ UNCHANGED <<db, rx>>

\* Inside the remove loop the result is ignored.
RemovedDone ==
  /\ Returns({"connect", "lost"})
  /\ \E r \in unsubscribe_results(link, k.topic, db) : link' = r.link
  /\ k' = [k EXCEPT !.at = "remove", !.topic = Empty] /\ out' = <<>>
  /\ UNCHANGED <<db, rx>>

WillDone ==
  /\ Returns({"will"})
  /\ \E r \in publish_results(link, k.qos) : link' = r.link
  /\ k' = [k EXCEPT !.at = "remove", !.op = "lost", !.topic = Empty, !.qos = 0] /\ out' = <<>>
  /\ UNCHANGED <<db, rx>>

---------------------------------------------------------------------------
Handle(p) ==
  \/ ConnectOffline(p) \/ ConnectNew(p) \/ ConnectAgain(p) \/ ConnectClean(p)
  \/ WillTopic(p) \/ WillMsg(p) \/ Register(p) \/ RegAck(p) \/ PubAck(p)
  \/ PingReq(p) \/ Disconnect(p) \/ Publish(p) \/ Subscribe(p) \/ Unsubscribe(p)

CallDone ==
  PublishDone \/ PredefDone \/ SubscribeDone \/ UnsubscribeDone \/ RemovedDone \/ WillDone

Thread ==
  \/ Boot \/ Reconnect \/ YieldDone \/ Deliver \/ ReceiveNothing \/ PublishAgain
  \/ CoreLoopOnline \/ CoreLoopOffline \/ Visit \/ VisitTimed \/ VisitWill
  \/ RemoveStep \/ RemoveDoneConnect \/ RemoveDoneLost \/ CallDone

Next ==
  \/ Thread
  \/ Crash
  \/ CrashInside
  \/ ConnectionLost
  \/ BrokerSubscribes
  \/ \E p \in Packets : Handle(p)
  \/ \E t \in Topic, d \in Payload : Arrive(t, d)

Spec == Init /\ [][Next]_vars

---------------------------------------------------------------------------
(* Properties. *)

\* Type correctness: every variable stays in the set its declaration names.
TypeOK ==
  /\ db \in Store
  /\ k \in Control
  /\ rx \in Delivery
  /\ link \in Link
  /\ out \in Seq(Message)

(***************************************************************************)
(* start/apply_transaction are paired on every path: between two steps the *)
(* error flag is never left set, and a transaction is open only across a   *)
(* broker call made inside it (the will of a lost client, the clean        *)
(* CONNECT, a QoS -1 publish).  The transaction a clean CONNECT finds open *)
(* after such a call is the one of the connecting client.                  *)
(***************************************************************************)
TxDiscipline ==
  /\ ~db.error
  /\ db.started => k.at \in {"wait", "remove", "hung"} /\ k.op \in {"predef", "connect", "will", "lost"}
  /\ db.notin => k.op = "predef"
  /\ db.started /\ k.op = "connect" => Cur(db).id = k.pk.id

(***************************************************************************)
(* The files of a slot agree with each other whatever order the operations *)
(* came in: a subscription and a queued message carry the topic id under   *)
(* which their topic is registered, no topic is registered or subscribed   *)
(* twice, and a queued message knows its own position.                     *)
(***************************************************************************)
RefIntegrity ==
  \A c \in DOMAIN db.clients :
    LET r == db.clients[c]
    IN /\ \A i, j \in DOMAIN r.reg : r.reg[i] = r.reg[j] => i = j
       /\ \A i \in DOMAIN r.sub :
            IF r.sub[i].tid = 0 THEN r.sub[i].name = Empty
            ELSE /\ r.sub[i].tid \in DOMAIN r.reg
                 /\ r.reg[r.sub[i].tid] = r.sub[i].name
                 /\ \A j \in DOMAIN r.sub : r.sub[j].name = r.sub[i].name => i = j
       /\ \A i \in DOMAIN r.pub :
            r.pub[i].pid # 0 =>
              /\ r.pub[i].pid = i
              /\ r.pub[i].tid \in DOMAIN r.reg
              /\ r.pub[i].data # Damaged => r.reg[r.pub[i].tid] = r.pub[i].data[1]

\* No two slots of the registry belong to the same client id.
UniqueIds ==
  \A c, d \in DOMAIN db.clients :
    db.clients[c].id = db.clients[d].id /\ db.clients[c].id # NoId => c = d

(***************************************************************************)
(* A topic id handed to a client keeps its meaning, over reconnects and    *)
(* restarts: add_client_registration only ever appends.  The registrations *)
(* of a slot go away all at once, when delete_client removes the files.    *)
(***************************************************************************)
RegStable ==
  [][\A c \in DOMAIN db.clients :
       \/ IsPrefix(db.clients[c].reg, db'.clients[c].reg)
       \/ k.at = "remove" /\ db'.clients[c].reg = <<>>]_vars

Subscribers(t) == {c \in DOMAIN db.clients : \E j \in DOMAIN db.clients[c].sub : db.clients[c].sub[j].name = t}

(***************************************************************************)
(* The global count of a topic, which decides when the gateway subscribes  *)
(* and unsubscribes at the broker, never exceeds the number of clients     *)
(* subscribed to it: a count too high would keep the gateway subscribed    *)
(* for ever.  (With predefined ids that are also registered ids it does    *)
(* not hold: UNSUBSCRIBE then deletes one topic and counts down another.   *)
(* Nor does it after a kill between a deletion and its count.)             *)
(***************************************************************************)
CountBound == \A t \in Topic : db.count[t] <= Cardinality(Subscribers(t))

(***************************************************************************)
(* A subscription at the broker never outlives the gateway's interest: a   *)
(* topic with count 0 is unsubscribed, or the unsubscribe is under way,    *)
(* whatever calls failed before.                                           *)
(***************************************************************************)
NoOrphan ==
  \A t \in link.bsub :
    \/ db.count[t] > 0
    \/ k.at = "wait" /\ k.op \in {"unsubscribe", "connect", "lost"} /\ k.topic = t

(***************************************************************************)
(* A free slot has no subscription left, so that the client which gets it  *)
(* next does not start with those of its predecessor: the remove loop runs *)
(* to its end before delete_client blanks the row.                         *)
(***************************************************************************)
FreeSlotUnsubscribed ==
  \A c \in DOMAIN db.clients :
    db.clients[c].id = NoId => \A j \in DOMAIN db.clients[c].sub : db.clients[c].sub[j].tid = 0

(***************************************************************************)
(* Only a client that was lost, and whose will was handed to the broker,   *)
(* is forgotten, although broker messages are delivered between the loss   *)
(* and the removal; a clean CONNECT may move it to another slot, no more.  *)
(***************************************************************************)
ForgottenAfterWill ==
  [][\A c \in DOMAIN db.clients :
       db.clients[c].id # NoId /\ (\A d \in DOMAIN db.clients : db'.clients[d].id # db.clients[c].id) =>
         k.op = "lost" /\ db.clients[c].status = "LOST" /\ db.clients[c].will.set]_vars

\* The buffer the topic name of a waiting call was read from.
HeldIn(p) == IF p.type = "CONNECT" \/ p.form # "predef" THEN db.regbuf ELSE db.prebuf

(***************************************************************************)
(* The topic name of a SUBSCRIBE is a pointer into a buffer of the store,  *)
(* used again after the broker call (to count down on failure, and as the  *)
(* filter of the message handler).  Messages delivered during the call     *)
(* work on the same store and must not overwrite it.                       *)
(***************************************************************************)
BufferStable == k.at = "wait" /\ k.op = "subscribe" => HeldIn(k.pk) = k.topic

(***************************************************************************)
(* A PUBLISH of a client is acknowledged as accepted only after the broker *)
(* has acknowledged it on a connection that is still alive: not after a    *)
(* timeout, not while disconnected, not when the connection broke during   *)
(* the call.                                                               *)
(***************************************************************************)
AckedByBroker ==
  [][\A i \in DOMAIN out' :
       out'[i].type = "PUBACK" /\ out'[i].code = "ACCEPTED" =>
         /\ k.op = "publish" /\ out'[i].to = k.pk.addr /\ out'[i].mid = k.pk.mid
         /\ link.up /\ link' = link]_vars

(***************************************************************************)
(* A queued message reaches the client under the id the client knows for   *)
(* the topic it was published to, however long it was queued and whatever  *)
(* the client did since.                                                   *)
(***************************************************************************)
DeliveredUnderOwnId ==
  [][\A i \in DOMAIN out' :
       out'[i].type = "PUBLISH" /\ out'[i].to # "broker" /\ out'[i].data # Damaged =>
         \E c \in DOMAIN db.clients :
           /\ db.clients[c].addr = out'[i].to
           /\ out'[i].tid \in DOMAIN db.clients[c].reg
           /\ db.clients[c].reg[out'[i].tid] = out'[i].data[1]]_vars

\* Queued messages of a row, by position.
Queued(r) == {j \in DOMAIN r.pub : r.pub[j].pid # 0}

(***************************************************************************)
(* A client that is lost or disconnected is sent nothing and gets nothing  *)
(* queued until it comes back.  (Clients have addresses of their own.)     *)
(***************************************************************************)
SilentWhenGone ==
  [][\A c \in DOMAIN db.clients :
       db.clients[c].status \in {"LOST", "DISCONNECTED"} /\ db.clients[c].id # NoId =>
         /\ Queued(db'.clients[c]) \subseteq Queued(db.clients[c])
         /\ \A i \in DOMAIN out' : out'[i].to = db.clients[c].addr => out'[i].type # "PUBLISH"]_vars

\* Entry e is the message of entry d, its body perhaps damaged by a PUBACK.
SameMessage(d, e) == e.pid = d.pid /\ e.tid = d.tid /\ e.qos = d.qos /\ e.data \in {d.data, Damaged}

(***************************************************************************)
(* No queued message is lost: it stays at its position until it is sent to *)
(* its client, which only one of QoS 0 is done with, or its client is      *)
(* removed.  New messages, acknowledgements, sleep, reconnects to the same *)
(* session and failed calls take none away.  (A message that was sent in a *)
(* visit the process did not survive is not seen in out.)                  *)
(***************************************************************************)
QueuedUntilSent ==
  [][\A c \in DOMAIN db.clients :
       LET old == db.clients[c]
           new == db'.clients[c]
       IN \A j \in Queued(old) :
            \/ j \in Queued(new) /\ SameMessage(old.pub[j], new.pub[j])
            \/ old.pub[j].qos = 0
               /\ \/ \E i \in DOMAIN out' :
                       /\ out'[i].type = "PUBLISH" /\ out'[i].to = old.addr
                       /\ out'[i].tid = old.pub[j].tid /\ out'[i].data = old.pub[j].data
                  \/ k.at = "visit" /\ k'.at = "down"
            \/ k.at = "remove" /\ c = db.cur]_vars

---------------------------------------------------------------------------
(***************************************************************************)
(* Refinement.  The gateway's view of the MQTT side: it yields at the top  *)
(* of its loop, and every wait is a call.                                  *)
(***************************************************************************)
NamesView == [regbuf |-> db.regbuf, prebuf |-> db.prebuf]
LinkView == [conn |-> link.conn, up |-> link.up, hs |-> link.hs, bsub |-> link.bsub]
Called(op, t, buf, qos) == [op |-> op, topic |-> t, buf |-> buf, qos |-> qos]
CallView ==
  CASE k.at = "mqtt" /\ link.conn -> Called("yield", "", "none", 0)
    [] k.at = "wait" /\ k.op \in {"publish", "predef", "will"} -> Called("publish", "", "none", k.qos)
    [] k.at = "wait" /\ k.op = "subscribe" ->
         Called("subscribe", k.topic, IF k.pk.form = "predef" THEN "pre" ELSE "reg", 0)
    [] k.at = "wait" /\ k.op \in {"unsubscribe", "connect", "lost"} ->
         Called("unsubscribe", k.topic, "none", 0)
    [] OTHER -> Called("none", "", "none", 0)
CallbackView ==
  IF rx.left = 0 THEN [left |-> 0, topic |-> ""] ELSE [left |-> rx.left, topic |-> rx.data[1]]

Service ==
  INSTANCE MqttService WITH
    names <- NamesView, link <- LinkView, call <- CallView, cb <- CallbackView, MayStop <- TRUE

(***************************************************************************)
(* The gateway uses the MQTT side as MqttService, which PahoClient         *)
(* implements, provides it: it makes one call at a time, leaves the topic  *)
(* name buffers alone while a call reads the connection, and is called     *)
(* back only inside such a call.                                           *)
(***************************************************************************)
UsesService == Service!Spec

---------------------------------------------------------------------------
(***************************************************************************)
(* Fairness.  The thread never rests: in every phase the step that ends it *)
(* is taken, and a socket without packets times out.  The two places where *)
(* it waits for the broker have a timer (yield: 300 ms, a command:         *)
(* command_timeout_ms), so messages that keep arriving cannot hold it      *)
(* there for ever: strong fairness.                                        *)
(***************************************************************************)
FairSpec ==
  /\ Spec
  /\ SF_vars(YieldDone) /\ SF_vars(CallDone)
  /\ WF_vars(Boot) /\ WF_vars(Reconnect) /\ WF_vars(Deliver) /\ WF_vars(ReceiveNothing)
  /\ WF_vars(PublishAgain) /\ WF_vars(CoreLoopOnline) /\ WF_vars(CoreLoopOffline)
  /\ WF_vars(Visit) /\ WF_vars(VisitTimed) /\ WF_vars(VisitWill)
  /\ WF_vars(RemoveStep) /\ WF_vars(RemoveDoneConnect) /\ WF_vars(RemoveDoneLost)

\* The thread always comes back to mqtt.loop: no loop over clients or subscriptions runs for ever.
LoopReturns == []<>(k.at = "mqtt")

Arrived == rx.left = 0 /\ rx'.left > 0

(***************************************************************************)
(* A sleeping client that asked for its messages gets them and the         *)
(* PINGRESP after them, once the broker has no more of them to send.       *)
(***************************************************************************)
AwakeAnswered ==
  <>[][~Arrived]_vars =>
    \A id \in ClientId :
      (\E c \in DOMAIN db.clients : db.clients[c].id = id /\ db.clients[c].status = "AWAKE")
        ~> (\A c \in DOMAIN db.clients : db.clients[c].id = id => db.clients[c].status # "AWAKE")

===========================================================================
