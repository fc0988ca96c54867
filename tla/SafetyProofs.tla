---------------------------- MODULE SafetyProofs ----------------------------
(***************************************************************************)
(* The safety properties of the gateway that relate the files of the       *)
(* database to each other, to the broker and to the state of the thread,   *)
(* for every value of the constants.                                       *)
(*                                                                         *)
(* Almost every step is ordinary: it carries the rows of the registry over *)
(* (Carried of module RowProofs), loses no queued message and goes on with *)
(* the operation it found under way.  The first part shows this action by  *)
(* action, and with it that the gateway's interest in a topic is kept; the *)
(* second part treats the steps that are not ordinary: CONNECT, the        *)
(* removal of a client and the loss of one that has a will.  From the two  *)
(* follow the theorems about the registry, its files and the subscription  *)
(* counts.  The third part is about what a step sends and what it leaves   *)
(* in the queues, the last shows that the gateway refines MqttService.     *)
(***************************************************************************)
EXTENDS RowProofs

\* Every slot is free, or belongs to a client that sent a CONNECT from its address.
RowsProper(s) == \A c \in 1..Len(s.clients) : Proper(s.clients[c])

(***************************************************************************)
(* What NoOrphan and BufferStable need to be inductive: the topic a        *)
(* SUBSCRIBE waits for is counted already.                                 *)
(***************************************************************************)
Interest ==
  /\ NoOrphan
  /\ BufferStable
  /\ k.at = "wait" /\ k.op = "subscribe" => db.count[k.topic] > 0
  /\ k.at = "remove" => k.op \in {"connect", "lost"}

\* Every queued message has its position for its id.
AllNumbered(s) == \A c \in 1..Len(s.clients) : Numbered(s.clients[c])

(***************************************************************************)
(* What is queued stays queued or is sent; a process that is killed in a   *)
(* visit sends it before it ends.                                          *)
(***************************************************************************)
NothingLost ==
  AllNumbered(db) =>
    \E m : Delivered(db, db', m) /\ (m = out' \/ (k.at = "visit" /\ k'.at = "down"))

\* A step that keeps the rows and the operation under way.
Ordinary ==
  /\ Carried(db, db') /\ NothingLost
  /\ k'.op = "connect" => k'.pk.type = "CONNECT" \/ (k.op = "connect" /\ k'.pk = k.pk)
  /\ k'.op \in {"will", "lost"} =>
       /\ k.op \in {"will", "lost"} /\ k'.i = k.i /\ Still(db, db')
       /\ db'.started => db.started /\ db'.cur = db.cur

---------------------------------------------------------------------------
(* Shapes of steps. *)

\* Rows that keep what is queued.
LEMMA RetainedStep ==
  ASSUME Retained(db, db')
  PROVE  NothingLost
BY DEF Retained, RowRetained, Delivered, NothingLost

\* Rows that are kept.
LEMMA KeptStep ==
  ASSUME Kept(db, db')
  PROVE  Carried(db, db') /\ NothingLost
BY KeptCarried, RetainedStep

\* Outside the calls that wait, every topic the broker is subscribed to is counted.
LEMMA CalmStep ==
  ASSUME k.at # "wait" \/ k.op \in {"publish", "predef", "will"}, Interest,
         db'.count = db.count, link'.bsub \subseteq link.bsub,
         ~(k'.at = "wait" /\ k'.op = "subscribe"),
         k'.at = "remove" => k'.op \in {"connect", "lost"}
  PROVE  Interest'
BY DEF Interest, NoOrphan, BufferStable

\* A step beside the thread.
LEMMA AsideStep ==
  ASSUME Interest, db'.count = db.count, Held(db, db'), k' = k, link'.bsub \subseteq link.bsub
  PROVE  Interest'
BY DEF Interest, NoOrphan, BufferStable, HeldIn, Held

\* The process ends: nobody is subscribed any more and nothing is under way.
LEMMA LeaveStep ==
  ASSUME NEW s, Good(s), Leave(s)
  PROVE  /\ db' = begin(s) /\ k'.at = "down" /\ k'.op = "none" /\ Interest'
         /\ db'.clients = s.clients /\ db'.count = s.count
         /\ Kept(db, s) \/ (Carried(db, s) /\ Retained(db, s)) => Ordinary
         /\ \A m : Spent(db, s) /\ k.at = "visit" /\ (AllNumbered(db) => Delivered(db, s, m)) => Ordinary
         /\ (Quiet(db, s) => Quiet(db, db')) /\ (Spent(db, s) => Spent(db, db'))
<1>1. db' = begin(s) /\ k' = Phase("down") /\ link' = Unlinked BY DEF Leave
<1>2. k'.at = "down" /\ k'.op = "none" BY <1>1, PhaseType
<1>3. link'.bsub = {} BY <1>1 DEF Unlinked
<1>4. Interest' BY <1>2, <1>3 DEF Interest, NoOrphan, BufferStable
<1>5. db'.clients = s.clients /\ db'.count = s.count BY <1>1, FlagsOnly
<1>6. Kept(db, s) \/ (Carried(db, s) /\ Retained(db, s)) => Ordinary
  <2>1. Kept(db, s) \/ (Carried(db, s) /\ Retained(db, s)) => Carried(db, db') /\ Retained(db, db')
    BY <1>5, KeptCarried, QuietFiles
  <2> QED BY <1>2, <2>1, RetainedStep DEF Ordinary
<1>7. (Quiet(db, s) => Quiet(db, db')) /\ (Spent(db, s) => Spent(db, db')) BY <1>5, QuietFiles
<1>8. ASSUME NEW m, Spent(db, s), k.at = "visit", AllNumbered(db) => Delivered(db, s, m)
      PROVE  Ordinary
  <2>1. Carried(db, db') BY <1>7, <1>8, SpentCarried
  <2>2. AllNumbered(db) => Delivered(db, db', m) BY <1>5, <1>8, QuietFiles
  <2>3. NothingLost BY <1>2, <1>8, <2>2 DEF NothingLost
  <2> QED BY <1>2, <2>1, <2>3 DEF Ordinary
<1> QED BY <1>1, <1>2, <1>4, <1>5, <1>6, <1>7, <1>8

\* A handler that answers at once.
LEMMA ReplyStep ==
  ASSUME NEW s, NEW m, Reply(s, m), k.at # "wait"
  PROVE  /\ db' = s /\ k'.op = "none"
         /\ Kept(db, s) \/ (Carried(db, s) /\ Retained(db, s)) => Ordinary
         /\ Interest /\ s.count = db.count => Interest'
<1>1. db' = s /\ k' = Phase("core") /\ link' = link BY DEF Reply
<1>2. k'.at = "core" /\ k'.op = "none" BY <1>1, PhaseType
<1>3. Kept(db, s) \/ (Carried(db, s) /\ Retained(db, s)) => Ordinary
  BY <1>1, <1>2, KeptCarried, RetainedStep DEF Ordinary
<1>4. Interest /\ s.count = db.count => Interest' BY <1>1, <1>2, CalmStep
<1> QED BY <1>1, <1>2, <1>3, <1>4

---------------------------------------------------------------------------
(* The ordinary steps. *)

\* Start, crash, the connection and the phases of the loop that touch no database.
LEMMA ProcessStep ==
  ASSUME IInv, Boot \/ Crash \/ Reconnect \/ YieldDone \/ ConnectionLost \/ BrokerSubscribes
         \/ ReceiveNothing
  PROVE  Ordinary /\ Faithful(db, db') /\ (Interest => Interest')
<1>1. Good(db) BY DEF IInv, CtlOK
<1>2. /\ Quiet(db, db) /\ Kept(db, db) /\ Still(db, db)
      /\ \A t : Quiet(db, t) => Faithful(db, t)
  BY <1>1, QuietRefl, QuietFaithful
<1>3. CASE Boot \/ YieldDone \/ Reconnect
  <2>1. PICK at \in {"mqtt", "socket"} : k' = Phase(at) BY <1>3 DEF Boot, YieldDone, Reconnect
  <2>2. k'.at = at /\ k'.op = "none" BY <2>1, PhaseType
  <2>3. db' = db /\ k.at # "wait" BY <1>3 DEF Boot, YieldDone, Reconnect
  <2>4. link'.bsub = link.bsub
    <3>1. link \in Link BY DEF IInv
    <3> QED BY <1>3, <3>1 DEF Boot, YieldDone, Reconnect, Link
  <2>5. Ordinary BY <1>2, <2>2, <2>3, KeptStep DEF Ordinary
  <2>6. Interest => Interest' BY <2>2, <2>3, <2>4, CalmStep
  <2> QED BY <1>2, <2>3, <2>5, <2>6
<1>4. CASE Crash BY <1>1, <1>2, <1>4, LeaveStep DEF Crash, Stopped
<1>5. CASE ConnectionLost
  <2>1. link'.bsub = {} /\ db' = db /\ k' = k
    <3>1. link \in Link BY DEF IInv
    <3> QED BY <1>5, <3>1 DEF ConnectionLost, Link
  <2>2. Ordinary BY <1>2, <2>1, KeptStep DEF Ordinary
  <2>3. Interest => Interest' BY <2>1, AsideStep DEF Held
  <2> QED BY <1>2, <2>1, <2>2, <2>3
<1>6. CASE BrokerSubscribes
  <2>1. link'.bsub = link.bsub \cup {k.topic} /\ db' = db /\ k' = k /\ k.at = "wait" /\ k.op = "subscribe"
    <3>1. link \in Link BY DEF IInv
    <3> QED BY <1>6, <3>1 DEF BrokerSubscribes, Link
  <2>2. Ordinary BY <1>2, <2>1, KeptStep DEF Ordinary
  <2>3. Interest => Interest' BY <2>1 DEF Interest, NoOrphan, BufferStable, HeldIn
  <2> QED BY <1>2, <2>1, <2>2, <2>3
<1>7. CASE ReceiveNothing BY <1>2, <1>7, ReplyStep DEF ReceiveNothing
<1> QED BY <1>3, <1>4, <1>5, <1>6, <1>7

\* A message from the broker, also inside a call.
LEMMA DeliveryStep ==
  ASSUME IInv, Deliver \/ \E t \in Topic, d \in Payload : Arrive(t, d)
  PROVE  Ordinary /\ Faithful(db, db') /\ (Interest => Interest')
<1>1. Good(db) BY DEF IInv, CtlOK
<1>2. Kept(db, db) /\ Still(db, db) /\ Faithful(db, db) BY <1>1, QuietRefl, QuietFaithful
<1>3. CASE Deliver
  <2> DEFINE s == handle_receive_mqtt_publish_for_client(db, get_nth_client(db, rx.i).addr, rx.data)
  <2>1. db' = s /\ k' = k /\ link' = link BY <1>3 DEF Deliver
  <2>2. rx.data \in Data BY <1>3 DEF IInv, RxOK, Deliver
  <2>3. /\ Carried(db, s) /\ s.count = db.count /\ Held(db, s) /\ Still(db, s)
        /\ Loyal(db, s) /\ Retained(db, s)
    BY <1>1, <2>2, ReceiveQuiet
  <2>4. ~s.started BY <1>1, <2>2, ReceiveClosed DEF Closed
  <2> HIDE DEF s
  <2>5. Ordinary BY <2>1, <2>3, <2>4, RetainedStep DEF Ordinary
  <2>6. Interest => Interest' BY <2>1, <2>3, AsideStep
  <2>7. Faithful(db, db') BY <1>2, <2>1, <2>3 DEF Faithful
  <2> QED BY <2>5, <2>6, <2>7
<1>4. ASSUME NEW t \in Topic, NEW d \in Payload, Arrive(t, d) PROVE Ordinary /\ Faithful(db, db') /\ (Interest => Interest')
  <2>1. UNCHANGED <<db, k, link>> BY <1>4 DEF Arrive
  <2>2. Ordinary BY <1>2, <2>1, KeptStep DEF Ordinary
  <2>3. Interest => Interest' BY <2>1, AsideStep DEF Held
  <2> QED BY <1>2, <2>1, <2>2, <2>3
<1> QED BY <1>3, <1>4

\* WILLTOPIC, WILLMSG, REGISTER, REGACK, PUBACK, PINGREQ and DISCONNECT.
LEMMA PacketStep ==
  ASSUME IInv, NEW p \in Packets,
         \/ WillTopic(p) \/ WillMsg(p) \/ Register(p) \/ RegAck(p)
         \/ PubAck(p) \/ PingReq(p) \/ Disconnect(p)
  PROVE  Ordinary /\ Faithful(db, db') /\ (Interest => Interest')
<1>1. k.at = "socket"
  BY DEF WillTopic, WillMsg, Register, RegAck, PubAck, PingReq, Disconnect, Received
<1>2. Closed(db) BY <1>1, InvClosed DEF IInv
<1>3. /\ p.addr \in Address /\ p.addr # NoAddress /\ p.topic \in Name /\ p.tid \in Nat /\ p.mid \in Nat
      /\ p.msg \in Payload /\ p.qos \in {-1, 0, 1, 2}
  <2>1. p \in Packet BY PacketAssumption
  <2> QED BY <2>1, IdAssumption DEF Packet
<1>4. ASSUME NEW s, NEW m, Reply(s, m), Quiet(db, s) PROVE Ordinary /\ Faithful(db, db') /\ (Interest => Interest')
  BY <1>1, <1>2, <1>4, ReplyStep, QuietFaithful DEF Quiet, Closed
<1>5. Quiet(db, db) BY <1>2, QuietRefl DEF Closed
<1>6. CASE WillTopic(p)
  <2> DEFINE qos == IF p.qos = -1 THEN 255 ELSE p.qos
             a == add_will_topic(db, link.online, p.addr, p.topic, qos)
             w == await_message(a.db, p.addr, "WILLMSG")
             e == remove_will(db, p.addr)
  <2>1. \E m : Reply(e.db, m) \/ Reply(a.db, m) \/ Reply(w.db, m) BY <1>6 DEF WillTopic
  <2>2. qos \in WillQos BY <1>3 DEF WillQos
  <2> HIDE DEF qos
  <2>3. Quiet(db, e.db) BY <1>2, StateOpsQuiet DEF Awaited
  <2>4. Quiet(db, a.db) /\ Closed(a.db) BY <1>2, <1>3, <2>2, StateOpsQuiet, WillOpsClosed DEF Awaited
  <2> HIDE DEF a, e
  <2>5. Quiet(a.db, w.db) /\ Closed(w.db) BY <2>4, StateOpsQuiet, StateOpsClosed DEF Awaited
  <2> HIDE DEF w
  <2>6. Quiet(db, w.db) BY <1>2, <2>4, <2>5, KeptTrans DEF Quiet, Closed
  <2> QED BY <1>4, <2>1, <2>3, <2>4, <2>6
<1>7. CASE WillMsg(p)
  <2> DEFINE a == add_will_msg(db, link.online, p.addr, p.msg)
  <2>1. \E m : Reply(a.db, m) BY <1>7 DEF WillMsg
  <2>2. Quiet(db, a.db) BY <1>2, <1>3, StateOpsQuiet DEF Awaited
  <2> HIDE DEF a
  <2> QED BY <1>4, <2>1, <2>2
<1>8. CASE Register(p)
  <2> DEFINE a == register_topic(db, link.online, p.addr, p.topic)
  <2>1. \E m : Reply(a.db, m) BY <1>8 DEF Register
  <2>2. Quiet(db, a.db) BY <1>2, <1>3, RegisterQuiet
  <2> HIDE DEF a
  <2> QED BY <1>4, <2>1, <2>2
<1>9. CASE RegAck(p)
  <2>1. PICK r \in notify_regack_arrived(db, p.addr, p.mid, p.code) : \E m : Reply(r.db, m) BY <1>9 DEF RegAck
  <2>2. Quiet(db, r.db) BY <1>2, <1>3, RegisterQuiet
  <2> QED BY <1>4, <2>1, <2>2
<1>10. CASE PubAck(p)
  <2> DEFINE a == notify_puback_arrived(db, p.addr, p.tid, p.code)
  <2>1. \E m : Reply(a.db, m) BY <1>10 DEF PubAck
  <2>2. Quiet(db, a.db) BY <1>2, <1>3, RegisterQuiet
  <2> HIDE DEF a
  <2> QED BY <1>4, <2>1, <2>2
<1>11. CASE PingReq(p)
  <2> DEFINE a == set_awake(db, p.addr)
  <2>1. \E m : Reply(db, m) \/ Reply(a.db, m) BY <1>11 DEF PingReq
  <2>2. Quiet(db, a.db) BY <1>2, <1>3, StateOpsQuiet DEF Awaited
  <2> HIDE DEF a
  <2> QED BY <1>4, <1>5, <2>1, <2>2
<1>12. CASE Disconnect(p)
  <2> DEFINE a == set_asleep(db, link.online, p.addr)
             b == set_disconnected(db, p.addr)
  <2>1. \E m : Reply(a.db, m) \/ Reply(b.db, m) BY <1>12 DEF Disconnect
  <2>2. Quiet(db, a.db) /\ Quiet(db, b.db) BY <1>2, <1>3, StateOpsQuiet DEF Awaited
  <2> HIDE DEF a, b
  <2> QED BY <1>4, <2>1, <2>2
<1> QED BY <1>6, <1>7, <1>8, <1>9, <1>10, <1>11, <1>12

\* A quiet step that starts no operation of the kinds that matter here.
LEMMA QuietStep ==
  ASSUME Good(db), Quiet(db, db') \/ (Spent(db, db') /\ NothingLost),
         k'.op \notin {"connect", "will", "lost", "subscribe"}, k'.at # "remove",
         k.at # "wait" \/ k.op \in {"publish", "predef", "will"}, link'.bsub \subseteq link.bsub
  PROVE  Ordinary /\ Faithful(db, db') /\ (Interest => Interest')
<1>1. Ordinary BY KeptStep, SpentCarried DEF Ordinary, Quiet
<1>2. Interest => Interest' BY CalmStep DEF Quiet, Spent
<1>3. Faithful(db, db') BY QuietFaithful
<1> QED BY <1>1, <1>2, <1>3

\* The end of a PUBLISH of a client.
LEMMA AnswerPublishStep ==
  ASSUME Good(db), NEW s, Closed(s), Quiet(db, s), NEW p \in Packets, NEW res, NEW again,
         AnswerPublish(s, p, res, again),
         k.at # "wait" \/ k.op \in {"publish", "predef", "will"}, link'.bsub \subseteq link.bsub
  PROVE  Ordinary /\ Faithful(db, db') /\ (Interest => Interest')
<1> DEFINE w == await_message(s, p.addr, "PUBREL")
<1>1. Quiet(s, w.db) /\ Closed(w.db) BY StateOpsQuiet, StateOpsClosed DEF Awaited
<1>2. db' \in {w.db, s} BY DEF AnswerPublish
<1> HIDE DEF w
<1>3. Quiet(db, w.db) BY <1>1, KeptTrans DEF Quiet, Closed
<1>4. k'.op = "none" /\ k'.at \in {"again", "core"}
  <2>1. k' \in {[Phase("again") EXCEPT !.pk = p], Phase("core")} BY DEF AnswerPublish
  <2>2. /\ Phase("again") \in Control /\ Phase("again").op = "none" /\ Phase("again").at = "again"
        /\ Phase("core").op = "none" /\ Phase("core").at = "core"
    BY PhaseType
  <2> QED BY <2>1, <2>2 DEF Control
<1>5. Quiet(db, db') BY <1>2, <1>3
<1> QED BY <1>4, <1>5, QuietStep

\* A PUBLISH of a client up to the broker call.
LEMMA HandlePublishStep ==
  ASSUME Closed(db), k.at # "wait", NEW p \in Packets, NEW again \in BOOLEAN, handle_publish(p, again)
  PROVE  Ordinary /\ Faithful(db, db') /\ (Interest => Interest')
<1> DEFINE o == start_by_address(db, p.addr)
           short == p.form = "short"
           t == IF short THEN get_topic_name(o, p.tid) ELSE get_predefined_topic_name(o, p.tid)
           looked == IF short THEN touch_topic_name(o, p.tid) ELSE touch_predefined_topic_name(o, p.tid)
           gone == ~client_exist(o) \/ get_client_status(o) \in {"DISCONNECTED", "LOST"}
           free == p.qos = -1 /\ ~short
           c == Commit(IF gone /\ ~free THEN o ELSE looked)
           qos == IF p.qos = -1 THEN 0 ELSE p.qos
           send(s, op) ==
             /\ db' = s
             /\ k' = [PublishLocals(p, again) EXCEPT !.op = op, !.topic = t, !.qos = qos]
             /\ out' = IF link.conn THEN <<ToBroker(t, p.msg, qos)>> ELSE <<>>
<1>0. Good(db) BY DEF Closed
<1>1. Good(o) /\ o.clients = db.clients /\ o.count = db.count BY <1>0, OpenFiles
<1> HIDE DEF o
<1>2. Good(looked) /\ looked.clients = db.clients /\ looked.count = db.count
  <2>1. Good(looked) BY <1>1, TopicNameType, PredefinedNameType
  <2>2. looked.clients = o.clients /\ looked.count = o.count BY <1>1, FlagsOnly
  <2> HIDE DEF looked
  <2> QED BY <1>1, <2>1, <2>2
<1> HIDE DEF looked, t
<1>3. Closed(c.db) /\ Quiet(db, c.db)
  <2> DEFINE x == IF gone /\ ~free THEN o ELSE looked
  <2>1. Good(x) /\ x.clients = db.clients /\ x.count = db.count BY <1>1, <1>2
  <2> HIDE DEF x
  <2>2. Quiet(db, x) BY <1>0, <2>1, QuietRefl
  <2>3. Quiet(db, Commit(x).db) BY <2>1, <2>2, QuietCommit
  <2>4. Closed(Commit(x).db) BY <2>1, CommitClosed
  <2> QED BY <2>3, <2>4 DEF x
<1>4. Quiet(db, looked) /\ Quiet(db, db) BY <1>0, <1>2, QuietRefl
<1>5. link' = link BY DEF handle_publish
<1>6. \/ AnswerPublish(db, p, "ZERO", again)
      \/ send(looked, "predef")
      \/ \E res : AnswerPublish(c.db, p, res, again)
      \/ send(c.db, "publish")
  <2> DEFINE A(s, res) == AnswerPublish(s, p, res, again)
  <2>1. (CASE ~link.online -> A(db, "ZERO")
          [] link.online /\ gone /\ free /\ t # Null -> send(looked, "predef")
          [] link.online /\ gone /\ ~(free /\ t # Null) ->
               A(c.db, IF c.res = "SUCCESS" THEN "CLIENTNONEXISTENCE" ELSE "ZERO")
          [] link.online /\ ~gone /\ t = Null ->
               A(c.db, IF c.res = "SUCCESS" THEN "TOPICIDNONEXISTENCE" ELSE "ZERO")
          [] OTHER -> send(c.db, "publish"))
    BY DEF handle_publish, o, t, looked
  <2> HIDE DEF A, send, c, gone, free
  <2>2. A(db, "ZERO") \/ send(looked, "predef") \/ (\E res : A(c.db, res)) \/ send(c.db, "publish")
    <3>1. CASE ~link.online BY <2>1, <3>1
    <3>2. CASE link.online /\ gone /\ free /\ t # Null BY <2>1, <3>2
    <3>3. CASE link.online /\ gone /\ ~(free /\ t # Null) BY <2>1, <3>3
    <3>4. CASE link.online /\ ~gone /\ t = Null BY <2>1, <3>4
    <3>5. CASE link.online /\ ~gone /\ t # Null BY <2>1, <3>5
    <3> QED BY <3>1, <3>2, <3>3, <3>4, <3>5
  <2> QED BY <2>2 DEF A
<1> HIDE DEF c
<1>7. ASSUME NEW s, NEW op \in {"predef", "publish"}, send(s, op), Quiet(db, s)
      PROVE  Ordinary /\ Faithful(db, db') /\ (Interest => Interest')
  <2> DEFINE n == [PublishLocals(p, again) EXCEPT !.op = op, !.topic = t, !.qos = qos]
  <2>1. db' = s /\ k' = n BY <1>7
  <2>2. n.op = op /\ n.at = "wait"
    <3>1. Phase("wait") \in Control /\ Phase("wait").at = "wait" BY PhaseType
    <3>2. PublishLocals(p, again) \in Control /\ PublishLocals(p, again).at = "wait"
      BY <3>1, ZenonT(60) DEF PublishLocals, Control
    <3> HIDE DEF qos
    <3> QED BY <3>2, ZenonT(60) DEF Control
  <2> HIDE DEF n
  <2>3. Quiet(db, db') BY <1>7, <2>1
  <2> QED BY <1>0, <1>5, <2>1, <2>2, <2>3, QuietStep
<1>8. CASE AnswerPublish(db, p, "ZERO", again) BY <1>0, <1>4, <1>5, <1>8, AnswerPublishStep
<1>9. CASE send(looked, "predef") BY <1>4, <1>7, <1>9
<1>10. CASE \E res : AnswerPublish(c.db, p, res, again) BY <1>0, <1>3, <1>5, <1>10, AnswerPublishStep
<1>11. CASE send(c.db, "publish") BY <1>3, <1>7, <1>11
<1> QED BY <1>6, <1>8, <1>9, <1>10, <1>11

\* PUBLISH, handled for the first time or for the second.
LEMMA PublishStep ==
  ASSUME IInv, PublishAgain \/ \E p \in Packets : Publish(p)
  PROVE  Ordinary /\ Faithful(db, db') /\ (Interest => Interest')
<1>1. k.at \in {"socket", "again"} BY DEF Publish, PublishAgain, Received
<1>2. Closed(db) BY <1>1, InvClosed DEF IInv
<1>3. CASE PublishAgain
  <2>1. k.pk \in Packets BY DEF IInv, CtlOK, Control
  <2> QED BY <1>1, <1>2, <1>3, <2>1, HandlePublishStep DEF PublishAgain
<1>4. ASSUME NEW p \in Packets, Publish(p) PROVE Ordinary /\ Faithful(db, db') /\ (Interest => Interest')
  <2>1. (p.form = "normal") \in BOOLEAN OBVIOUS
  <2> QED BY <1>1, <1>2, <1>4, <2>1, HandlePublishStep DEF Publish
<1> QED BY <1>3, <1>4

\* SUBSCRIBE up to the broker call: the topic is counted before the broker is asked.
LEMMA SubscribeStep ==
  ASSUME IInv, NEW p \in Packets, Subscribe(p)
  PROVE  Ordinary /\ (Interest => Interest')
<1>1. k.at = "socket" /\ p.type = "SUBSCRIBE" BY DEF Subscribe, Received
<1>2. Closed(db) /\ Good(db) BY <1>1, InvClosed DEF IInv, Closed
<1>3. p.addr \in Address /\ p.addr # NoAddress /\ p.topic \in Name /\ p.tid \in Nat
  <2>1. p \in Packet BY PacketAssumption
  <2> QED BY <2>1, IdAssumption DEF Packet
<1> DEFINE r == register_topic(db, link.online, p.addr, p.topic)
           byName == p.form \in {"name", "normal"}
           s == IF byName THEN r.db ELSE db
           id == IF byName THEN r.tid ELSE p.tid
           short == p.form # "predef"
           l == lookup_subscription(s, link.online, p.addr, id, short, p.qos)
           n == [Phase("wait") EXCEPT !.op = "subscribe", !.pk = p, !.topic = l.topic, !.tid = l.tid, !.res = l.res]
<1>4. Closed(r.db) /\ r.tid \in Nat /\ Quiet(db, r.db)
  <2>1. Closed(r.db) /\ r.tid \in Nat BY <1>2, <1>3, RegisterClosed
  <2>2. Quiet(db, r.db) BY <1>2, <1>3, RegisterQuiet
  <2> QED BY <2>1, <2>2
<1>5. \/ \E m : Reply(r.db, m)
      \/ \E m : Reply(l.db, m)
      \/ l.subscribe /\ db' = l.db /\ k' = n /\ UNCHANGED link
  BY DEF Subscribe
<1> HIDE DEF r
<1>6. Closed(s) /\ id \in Nat /\ Quiet(db, s) BY <1>2, <1>3, <1>4, QuietRefl
<1> HIDE DEF s, id
<1>7. short \in BOOLEAN OBVIOUS
<1> HIDE DEF short
<1>8. /\ Closed(l.db)
      /\ Kept(s, l.db)
      /\ \A x \in Topic : l.db.count[x] = s.count[x] \/ l.db.count[x] = s.count[x] + 1
      /\ l.subscribe => /\ l.topic \in Topic /\ l.db.count[l.topic] = 1
                        /\ l.topic = IF short THEN l.db.regbuf ELSE l.db.prebuf
  <2>1. Closed(l.db) BY <1>6, LookupClosed
  <2> QED BY <1>3, <1>6, <1>7, <2>1, LookupKept
<1> HIDE DEF l
<1>9. Kept(db, l.db) BY <1>2, <1>6, <1>8, KeptTrans DEF Closed, Quiet
<1>10. \A x \in Topic : db.count[x] > 0 => l.db.count[x] > 0
  <2>1. db.count \in [Topic -> Nat] /\ l.db.count \in [Topic -> Nat] BY <1>2, <1>8 DEF Closed, Good, Store
  <2>2. s.count = db.count BY <1>6 DEF Quiet
  <2> QED BY <1>8, <2>1, <2>2
<1>11. link.bsub \subseteq Topic BY DEF IInv, Link
<1>12. CASE \E m : Reply(r.db, m) BY <1>1, <1>4, <1>12, ReplyStep DEF Quiet
<1>13. CASE \E m : Reply(l.db, m)
  <2>1. Ordinary /\ db' = l.db BY <1>1, <1>9, <1>13, ReplyStep
  <2>2. k' = Phase("core") /\ link' = link BY <1>13 DEF Reply
  <2>3. k'.at = "core" BY <2>2, PhaseType
  <2>4. Interest => Interest' BY <1>1, <1>10, <1>11, <2>1, <2>2, <2>3 DEF Interest, NoOrphan, BufferStable
  <2> QED BY <2>1, <2>4
<1>14. CASE l.subscribe /\ db' = l.db /\ k' = n /\ UNCHANGED link
  <2>1. k'.op = "subscribe" /\ k'.at = "wait" /\ k'.pk = p /\ k'.topic = l.topic
    <3>1. Phase("wait") \in Control /\ Phase("wait").at = "wait" BY PhaseType
    <3> QED BY <1>14, <3>1, ZenonT(60) DEF Control
  <2>2. Ordinary BY <1>9, <1>14, <2>1, KeptStep DEF Ordinary
  <2>3. BufferStable' BY <1>1, <1>8, <1>14, <2>1 DEF BufferStable, HeldIn, short
  <2>4. Interest => NoOrphan' BY <1>1, <1>10, <1>11, <1>14 DEF Interest, NoOrphan
  <2>5. db'.count[k'.topic] > 0 BY <1>8, <1>14, <2>1
  <2>6. Interest => Interest' BY <2>1, <2>3, <2>4, <2>5 DEF Interest
  <2> QED BY <2>2, <2>6
<1> QED BY <1>5, <1>12, <1>13, <1>14

\* UNSUBSCRIBE up to the broker call: a topic nobody is subscribed to any more is taken along.
LEMMA UnsubscribeStep ==
  ASSUME IInv, NEW p \in Packets, Unsubscribe(p)
  PROVE  Ordinary /\ (Interest => Interest')
<1>1. k.at = "socket" BY DEF Unsubscribe, Received
<1>2. Closed(db) /\ Good(db) BY <1>1, InvClosed DEF IInv, Closed
<1> DEFINE form == IF p.form = "normal" THEN "name" ELSE p.form
           u == lookup_unsubscription(db, p.addr, form, p.tid, p.topic)
           n == [Phase("wait") EXCEPT !.op = "unsubscribe", !.pk = p, !.topic = u.topic]
<1>3. \/ (~u.unsubscribe \/ u.topic \notin Topic) /\ \E m : Reply(u.db, m)
      \/ db' = u.db /\ k' = n /\ UNCHANGED link
  BY DEF Unsubscribe
<1> HIDE DEF form
<1>4. /\ Carried(db, u.db) /\ Retained(db, u.db)
      /\ \A x \in Topic : \/ u.db.count[x] = db.count[x] \/ u.db.count[x] > 0
                          \/ (x = u.topic /\ u.unsubscribe)
  BY <1>2, UnlookupCarried
<1> HIDE DEF u
<1>5. link.bsub \subseteq Topic BY DEF IInv, Link
<1>6. CASE (~u.unsubscribe \/ u.topic \notin Topic) /\ \E m : Reply(u.db, m)
  <2>1. Ordinary /\ db' = u.db BY <1>1, <1>4, <1>6, ReplyStep
  <2>2. k' = Phase("core") /\ link' = link BY <1>6 DEF Reply
  <2>3. k'.at = "core" BY <2>2, PhaseType
  <2>4. Interest => Interest'
    BY <1>1, <1>4, <1>5, <1>6, <2>1, <2>2, <2>3 DEF Interest, NoOrphan, BufferStable
  <2> QED BY <2>1, <2>4
<1>7. CASE db' = u.db /\ k' = n /\ UNCHANGED link
  <2>1. k'.op = "unsubscribe" /\ k'.at = "wait" /\ k'.topic = u.topic
    <3>1. Phase("wait") \in Control /\ Phase("wait").at = "wait" BY PhaseType
    <3> QED BY <1>7, <3>1, ZenonT(60) DEF Control
  <2>2. Ordinary BY <1>4, <1>7, <2>1, RetainedStep DEF Ordinary
  <2>3. Interest => Interest' BY <1>1, <1>4, <1>5, <1>7, <2>1 DEF Interest, NoOrphan, BufferStable
  <2> QED BY <2>2, <2>3
<1> QED BY <1>3, <1>6, <1>7

\* A CONNECT that is refused, and the start of a clean one.
LEMMA ConnectStep ==
  ASSUME IInv, NEW p \in Packets, ConnectOffline(p) \/ ConnectClean(p)
  PROVE  Ordinary /\ Faithful(db, db') /\ (Interest => Interest')
<1>1. k.at = "socket" /\ p.type = "CONNECT" BY DEF ConnectOffline, ConnectClean, Received
<1>2. Closed(db) /\ Good(db) BY <1>1, InvClosed DEF IInv, Closed
<1>3. CASE ConnectOffline(p)
  <2>1. Kept(db, db) /\ Faithful(db, db) BY <1>2, QuietRefl, QuietFaithful
  <2> QED BY <1>1, <1>3, <2>1, ReplyStep DEF ConnectOffline
<1>4. CASE ConnectClean(p)
  <2> DEFINE o == start_by_id(db, p.id)
             n == [Phase("remove") EXCEPT !.op = "connect", !.pk = p]
  <2>1. db' = o /\ k' = n /\ link' = link BY <1>4 DEF ConnectClean
  <2>2. o.clients = db.clients /\ o.count = db.count BY <1>2, FlagsOnly DEF start_by_id
  <2> HIDE DEF o
  <2>3. k'.at = "remove" /\ k'.op = "connect" /\ k'.pk = p
    <3>1. Phase("remove") \in Control /\ Phase("remove").at = "remove" BY PhaseType
    <3> QED BY <2>1, <3>1, ZenonT(60) DEF Control
  <2>4. Kept(db, o) /\ Faithful(db, o) BY <1>2, <2>2, QuietRefl, QuietFaithful
  <2>5. Ordinary BY <1>1, <2>1, <2>3, <2>4, KeptStep DEF Ordinary
  <2>6. Interest => Interest' BY <1>1, <2>1, <2>2, <2>3, CalmStep
  <2> QED BY <2>1, <2>4, <2>5, <2>6
<1> QED BY <1>3, <1>4

\* core.loop starts its loop over the clients, or the process ends.
LEMMA CoreLoopStep ==
  ASSUME IInv, CoreLoopOnline \/ CoreLoopOffline
  PROVE  Ordinary /\ Faithful(db, db') /\ (Interest => Interest')
<1>1. k.at = "core" BY DEF CoreLoopOnline, CoreLoopOffline
<1>2. Good(db) BY DEF IInv, CtlOK
<1>3. Quiet(db, db) BY <1>2, QuietRefl
<1>4. CASE CoreLoopOffline /\ Stopped
  BY <1>2, <1>3, <1>4, LeaveStep, QuietFaithful DEF Stopped, Quiet
<1>5. CASE ~(CoreLoopOffline /\ Stopped)
  <2>1. UNCHANGED <<db, link>> BY <1>5, ZenonT(60) DEF CoreLoopOnline, CoreLoopOffline
  <2>2. IInv' BY NextInv DEF Next, Thread
  <2>3. k'.at \in {"mqtt", "visit"}
    <3> DEFINE last == get_last_client_address(db)
               visit == [Phase("visit") EXCEPT !.i = 1, !.last = last]
               off == [Phase("visit") EXCEPT !.i = 1, !.last = last, !.off = TRUE]
    <3>1. /\ Phase("visit") \in Control /\ Phase("visit").at = "visit"
          /\ Phase("mqtt").at = "mqtt"
      BY PhaseType
    <3>2. last \in Address \cup {NoAddress} BY <1>2, LastAddressType
    <3>3. \/ k' = Phase("mqtt") \/ k' = visit \/ k' = off
          \/ \E e : k' = [visit EXCEPT !.beat = TRUE, !.elapsed = e]
          \/ \E e : k' = [off EXCEPT !.beat = TRUE, !.elapsed = e]
      <4> HIDE DEF visit, off
      <4>1. CASE CoreLoopOnline BY <4>1, ZenonT(60) DEF CoreLoopOnline, visit, last
      <4>2. CASE CoreLoopOffline BY <1>5, <4>2, ZenonT(60) DEF CoreLoopOffline, off, last
      <4> QED BY <4>1, <4>2
    <3> HIDE DEF last
    <3>4. visit \in Control /\ visit.at = "visit" /\ off \in Control /\ off.at = "visit"
      BY <3>1, <3>2, ZenonT(60) DEF Control
    <3> HIDE DEF visit, off
    <3>5. ASSUME NEW c \in Control, NEW e PROVE [c EXCEPT !.beat = TRUE, !.elapsed = e].at = c.at
      BY DEF Control
    <3> QED BY <3>1, <3>3, <3>4, <3>5
  <2>4. k'.op = "none" BY <2>2, <2>3 DEF IInv, CtlOK
  <2> QED BY <1>1, <1>2, <1>3, <2>1, <2>3, <2>4, QuietStep
<1> QED BY <1>4, <1>5

---------------------------------------------------------------------------
(* The visits. *)

\* A slot that is visited is free or belongs to a client with an address.
LEMMA VisitedProper ==
  ASSUME NEW s, Good(s), RowsProper(s), NEW n
  PROVE  get_nth_client(s, n) \in entry_client /\ Proper(get_nth_client(s, n))
<1>1. get_nth_client(s, n) \in entry_client BY NthClientType
<1>2. DOMAIN s.clients = 1..Len(s.clients) BY RowsType
<1>3. Proper(EmptyRow) BY DEF Proper, EmptyRow
<1> QED BY <1>1, <1>2, <1>3 DEF get_nth_client, RowsProper

\* The part of a visit before handle_timeout.
LEMMA ServedQuiet ==
  ASSUME Closed(db), NEW r \in entry_client, Proper(r), NEW w \in Served(r)
  PROVE  /\ Spent(db, w.db) /\ (AllNumbered(db) => Delivered(db, w.db, w.out))
         /\ (\A c \in DOMAIN db.clients : FilesOK(db.clients[c])) =>
              \A i \in DOMAIN w.out : w.out[i].to = r.addr /\ OwnId(db, r.addr, w.out[i])
<1>1. r.addr \in Address \cup {NoAddress} BY DEF entry_client
<1> DEFINE a(h) == settle(h.db, r.status, r.addr, {"ACTIVE", "AWAKE"}, "DISCONNECTED", "DISCONNECT")
           b(h) == settle(h.db, r.status, r.addr, {"AWAKE"}, "ASLEEP", "PINGRESP")
           S(h) == IF k.off THEN a(h) ELSE b(h)
<1>2. PICK h \in handle_client_publishes(db, r.status, r.addr) :
        w = [db |-> S(h).db, out |-> h.out \o S(h).out]
  BY DEF Served
<1>3. Closed(h.db) /\ h.out \in Seq(Message) BY <1>1, ClientPublishesClosed
<1>4. /\ Spent(db, h.db) /\ (AllNumbered(db) => Delivered(db, h.db, h.out))
      /\ (\A c \in DOMAIN db.clients : FilesOK(db.clients[c])) =>
           \A i \in DOMAIN h.out : h.out[i].to = r.addr /\ OwnId(db, r.addr, h.out[i])
  BY <1>1, ClientPublishesQuiet DEF AllNumbered
<1>5. r.status \in {"ACTIVE", "AWAKE"} => r.addr # NoAddress BY DEF Proper
<1>6. "DISCONNECTED" \in Status \ {"EMPTY"} /\ "ASLEEP" \in Status \ {"EMPTY"} BY DEF Status
<1>7. Quiet(h.db, a(h).db) /\ Quiet(h.db, b(h).db) BY <1>3, <1>5, <1>6, SettleQuiet
<1>8. /\ Closed(a(h).db) /\ a(h).out \in {<<>>, <<Sent(r.addr, "DISCONNECT")>>}
      /\ Closed(b(h).db) /\ b(h).out \in {<<>>, <<Sent(r.addr, "PINGRESP")>>}
  BY <1>3, <1>6, SettleClosed
<1>9. S(h) = a(h) \/ S(h) = b(h) OBVIOUS
<1> HIDE DEF S, a, b
<1>10. Quiet(h.db, S(h).db) /\ Closed(S(h).db) BY <1>7, <1>8, <1>9
<1>11. Spent(db, S(h).db) BY <1>3, <1>4, <1>10, SpentTrans DEF Closed
<1>12. S(h).out \in {<<>>, <<Sent(r.addr, "DISCONNECT")>>, <<Sent(r.addr, "PINGRESP")>>} BY <1>8, <1>9
<1>13. AllNumbered(db) => Delivered(db, S(h).db, h.out \o S(h).out)
  <2> DEFINE n == S(h).out
  <2>1. n \in Seq(Message)
    <3>1. "DISCONNECT" \in SentTypes /\ "PINGRESP" \in SentTypes BY DEF SentTypes
    <3>2. <<Sent(r.addr, "DISCONNECT")>> \in Seq(Message) /\ <<Sent(r.addr, "PINGRESP")>> \in Seq(Message)
      BY <1>1, <3>1, SentType
    <3>3. <<>> \in Seq(Message) OBVIOUS
    <3> QED BY <1>12, <3>2, <3>3, Zenon
  <2> HIDE DEF n
  <2>2. Within(h.out, h.out \o n) BY <1>3, <2>1, SentBefore
  <2>3. AllNumbered(db) => Delivered(db, S(h).db, h.out \o n) BY <1>4, <1>10, <2>2, DeliveredTrans
  <2> QED BY <2>3 DEF n
<1>14. ASSUME \A c \in DOMAIN db.clients : FilesOK(db.clients[c]), NEW i \in DOMAIN w.out
       PROVE  w.out[i].to = r.addr /\ OwnId(db, r.addr, w.out[i])
  <2> DEFINE d == Sent(r.addr, "DISCONNECT")
             g == Sent(r.addr, "PINGRESP")
  <2>1. d.to = r.addr /\ d.type = "DISCONNECT" /\ g.to = r.addr /\ g.type = "PINGRESP" BY DEF Sent
  <2>2. \/ i \in DOMAIN h.out /\ w.out[i] = h.out[i]
        \/ w.out[i] \in {d, g}
    <3>1. w.out = h.out \o S(h).out BY <1>2
    <3> HIDE DEF d, g
    <3>2. CASE S(h).out = <<>> BY <1>3, <1>14, <3>1, <3>2
    <3>3. CASE S(h).out = <<d>> BY <1>3, <1>14, <3>1, <3>3
    <3>4. CASE S(h).out = <<g>> BY <1>3, <1>14, <3>1, <3>4
    <3> QED BY <1>12, <3>2, <3>3, <3>4 DEF d, g
  <2>3. CASE i \in DOMAIN h.out /\ w.out[i] = h.out[i] BY <1>4, <1>14, <2>3
  <2>4. CASE w.out[i] \in {d, g} BY <2>1, <2>4 DEF OwnId
  <2> QED BY <2>2, <2>3, <2>4
<1>15. w.db = S(h).db /\ w.out = h.out \o S(h).out BY <1>2
<1> QED BY <1>11, <1>13, <1>14, <1>15

\* A visit without a will to publish.
LEMMA VisitStep ==
  ASSUME IInv, RowsProper(db), Visit \/ VisitTimed
  PROVE  Ordinary /\ Faithful(db, db') /\ (Interest => Interest')
<1> DEFINE r == get_nth_client(db, k.i)
<1>1. Closed(db) /\ Good(db) /\ k \in Control /\ k.elapsed \in Nat /\ k.at = "visit"
  <2>1. k.at = "visit" BY DEF Visit, VisitTimed
  <2>2. k \in Control BY DEF IInv, CtlOK
  <2> QED BY <2>1, <2>2, InvClosed DEF IInv, Control, Closed
<1>2. r \in entry_client /\ Proper(r) BY <1>1, VisitedProper
<1>3. \E w \in Served(r) :
        /\ out' = w.out
        /\ db' = w.db \/ (db' = apply_transaction(handle_timeout(w.db, r, k.elapsed)) /\ Timed(r))
  <2>1. CASE Visit BY <2>1 DEF Visit
  <2>2. CASE VisitTimed BY <2>2, ZenonT(60) DEF VisitTimed
  <2> QED BY <2>1, <2>2
<1>4. link' = link /\ \E s : k' = NextVisit(k, s) BY DEF Visit, VisitTimed
<1>5. k'.op = "none" /\ k'.at # "remove"
  <2>1. PICK s : k' = NextVisit(k, s) BY <1>4
  <2> DEFINE next == get_nth_client(s, k.i + 1).addr
             hung == [k EXCEPT !.at = "hung", !.op = "none"]
             go == [k EXCEPT !.i = @ + 1, !.fin = (next = k.last), !.op = "none", !.at = "visit"]
  <2>2. k' \in {Phase("mqtt"), hung, go} BY <2>1 DEF NextVisit
  <2> HIDE DEF next
  <2>3. hung.at = "hung" /\ hung.op = "none" BY <1>1 DEF Control
  <2>4. go.at = "visit" /\ go.op = "none" BY <1>1 DEF Control
  <2>5. Phase("mqtt").at = "mqtt" /\ Phase("mqtt").op = "none" BY PhaseType
  <2> HIDE DEF hung, go
  <2> QED BY <2>2, <2>3, <2>4, <2>5
<1>6. Spent(db, db') /\ NothingLost
  <2>1. PICK w \in Served(r) :
          /\ out' = w.out
          /\ db' = w.db \/ (db' = apply_transaction(handle_timeout(w.db, r, k.elapsed)) /\ Timed(r))
    BY <1>3
  <2> DEFINE o == handle_timeout(w.db, r, k.elapsed)
  <2>2. /\ Closed(w.db) /\ w.out \in Seq(Message)
        /\ Spent(db, w.db) /\ (AllNumbered(db) => Delivered(db, w.db, w.out))
    BY <1>1, <1>2, ServedOK, ServedQuiet
  <2>3. CASE db' = w.db BY <2>1, <2>2, <2>3 DEF NothingLost
  <2>4. CASE db' = apply_transaction(o) /\ Timed(r)
    <3>1. r.addr # NoAddress BY <1>2, <2>4 DEF Timed, Proper
    <3>2. Quiet(w.db, o) BY <1>1, <1>2, <2>2, <3>1, TimeoutQuiet
    <3>3. Good(o) BY <1>1, <1>2, <2>2, TimeoutOpen
    <3> HIDE DEF o
    <3>4. Quiet(w.db, apply_transaction(o)) BY <3>2, <3>3, QuietCommit
    <3>5. Good(apply_transaction(o)) BY <3>3, CommitClosed DEF Closed
    <3> HIDE DEF r
    <3> DEFINE v == apply_transaction(o)
    <3> HIDE DEF v
    <3>6. Spent(db, v) BY <1>1, <2>2, <3>4, <3>5, SpentTrans DEF Closed, v
    <3>7. AllNumbered(db) => Delivered(db, v, w.out)
      BY <2>2, <3>4, SentBefore, DeliveredTrans DEF v
    <3> QED BY <2>1, <2>4, <3>6, <3>7 DEF NothingLost, v
  <2> QED BY <2>1, <2>3, <2>4
<1> QED BY <1>1, <1>4, <1>5, <1>6, QuietStep

\* The client that handle_timeout marks is the first with the address of the visited slot.
LEMMA MarkedLost ==
  ASSUME NEW s, Closed(s), NEW r \in entry_client, NEW elapsed \in Nat,
         r.timeout + elapsed > tolerance_timeout(r.duration)
  PROVE  LET u == handle_timeout(s, r, elapsed)
         IN Usable(u) => /\ u.cur \in 1..Len(s.clients) /\ s.clients[u.cur].addr = r.addr
                         /\ Cur(u).addr = r.addr /\ Cur(u).status = "LOST"
<1> DEFINE b == start_by_address(s, r.addr)
           o == set_timeout(b, r.timeout + elapsed)
           l == set_client_state(o, "LOST")
<1>1. Good(b) /\ b.clients = s.clients /\ (Usable(b) => Cur(b).addr = r.addr)
  BY OpenFiles DEF Closed
<1>2. handle_timeout(s, r, elapsed) = l BY DEF handle_timeout
<1> HIDE DEF b
<1>3. r.timeout + elapsed \in Nat BY DEF entry_client
<1>4. Good(o) /\ SameTx(b, o) /\ Quiet(b, o) BY <1>1, <1>3, SetTimeoutGood, FieldsQuiet
<1> HIDE DEF o
<1> SUFFICES ASSUME Usable(l)
             PROVE  /\ l.cur \in 1..Len(s.clients) /\ s.clients[l.cur].addr = r.addr
                    /\ Cur(l).addr = r.addr /\ Cur(l).status = "LOST"
  BY <1>2
<1>5. SameTx(o, l) BY <1>4, SetStateGood DEF Status
<1>6. Usable(o) /\ Usable(b) /\ l.cur = b.cur /\ o.cur = b.cur BY <1>4, <1>5 DEF Usable, SameTx
<1>7. b.cur \in 1..Len(b.clients) BY <1>1, <1>6, CurType
<1>8. Cur(o).addr = r.addr
  <2>1. RowKept(b.clients[b.cur], o.clients[b.cur]) BY <1>4, <1>7 DEF Quiet, Kept
  <2> QED BY <1>1, <1>6, <2>1 DEF RowKept, RowSpent, RowCarried, Cur
<1>9. Cur(l) = [Cur(o) EXCEPT !.status = "LOST"]
  <2>1. Cur(o) \in entry_client BY <1>4, <1>6, CurType
  <2>2. [Cur(o) EXCEPT !.status = "LOST"] \in entry_client BY <2>1, ZenonT(60) DEF entry_client, Status
  <2> QED BY <1>4, <1>6, <2>2, PutGood DEF set_client_state
<1>10. Cur(o) \in entry_client BY <1>4, <1>6, CurType
<1>11. Cur(l).status = "LOST" /\ Cur(l).addr = Cur(o).addr BY <1>9, <1>10 DEF entry_client
<1> QED BY <1>1, <1>6, <1>7, <1>8, <1>11 DEF Cur

\* What the loss of a client with a will leaves.
WillFound ==
  /\ k'.op = "will" /\ k'.at = "wait" /\ k'.i = k.i
  /\ k.i \in 1..Len(db.clients) /\ db.clients[k.i].addr # NoAddress
  /\ db'.cur \in 1..Len(db.clients) /\ db'.clients[db'.cur].addr = db.clients[k.i].addr
  /\ db'.clients[db'.cur].status = "LOST" /\ db'.clients[db'.cur].will.set

\* A visit that finds a will to publish.
LEMMA VisitWillStep ==
  ASSUME IInv, RowsProper(db), VisitWill
  PROVE  Spent(db, db') /\ WillFound /\ NothingLost /\ (Interest => Interest')
<1> DEFINE r == get_nth_client(db, k.i)
           H(w) == handle_timeout(w.db, r, k.elapsed)
           L(o) == get_client_will(o)
           K(l) == [k EXCEPT !.at = "wait", !.op = "will", !.topic = l.topic, !.qos = l.qos]
           B(l) == ToBroker(l.topic, l.msg, l.qos)
<1>1. Closed(db) /\ Good(db) /\ k \in Control /\ k.elapsed \in Nat /\ k.at = "visit"
  <2>1. k.at = "visit" BY DEF VisitWill
  <2>2. k \in Control BY DEF IInv, CtlOK
  <2> QED BY <2>1, <2>2, InvClosed DEF IInv, Control, Closed
<1>2. r \in entry_client /\ Proper(r) BY <1>1, VisitedProper
<1>3. r.addr # NoAddress /\ r.timeout + k.elapsed > tolerance_timeout(r.duration)
  BY <1>2 DEF VisitWill, Timed, Expired, Proper
<1>4. k.i \in 1..Len(db.clients) /\ r = db.clients[k.i]
  <2>1. DOMAIN db.clients = 1..Len(db.clients) BY <1>1, RowsType
  <2>2. EmptyRow.addr = NoAddress BY DEF EmptyRow
  <2> QED BY <1>3, <2>1, <2>2 DEF get_nth_client
<1>5. PICK w \in Served(r) :
        /\ has_client_will(H(w)) /\ db' = H(w) /\ k' = K(L(H(w)))
        /\ \E b : \E n \in {<<>>, <<b>>} : out' = w.out \o n
  <2>1. PICK w \in Served(r) :
          /\ has_client_will(H(w)) /\ db' = H(w) /\ k' = K(L(H(w)))
          /\ out' = w.out \o (IF link.conn /\ L(H(w)).qos # 255 THEN <<B(L(H(w)))>> ELSE <<>>)
    BY ZenonT(60) DEF VisitWill
  <2> DEFINE c == link.conn /\ L(H(w)).qos # 255
             b == B(L(H(w)))
  <2>2. out' = w.out \o (IF c THEN <<b>> ELSE <<>>) BY <2>1
  <2> HIDE DEF c, b
  <2>3. \E n \in {<<>>, <<b>>} : out' = w.out \o n
    <3>1. CASE c BY <2>2, <3>1
    <3>2. CASE ~c BY <2>2, <3>2
    <3> QED BY <3>1, <3>2
  <2> QED BY <2>1, <2>3, Zenon
<1>6. link' = link BY ZenonT(60) DEF VisitWill
<1> DEFINE o == H(w)
<1>7. /\ Closed(w.db) /\ w.out \in Seq(Message)
      /\ Spent(db, w.db) /\ (AllNumbered(db) => Delivered(db, w.db, w.out))
  BY <1>1, <1>2, ServedOK, ServedQuiet
<1>8. Quiet(w.db, o) /\ Good(o) BY <1>1, <1>2, <1>3, <1>7, TimeoutQuiet, TimeoutOpen
<1>9. Usable(o) => /\ o.cur \in 1..Len(w.db.clients) /\ w.db.clients[o.cur].addr = r.addr
                   /\ Cur(o).addr = r.addr /\ Cur(o).status = "LOST"
  BY <1>1, <1>2, <1>3, <1>7, MarkedLost
<1>10. has_client_will(o) /\ db' = o /\ k' = K(L(o)) BY <1>5
<1> HIDE DEF H, o, L
<1>11. k'.op = "will" /\ k'.at = "wait" /\ k'.i = k.i BY <1>1, <1>10, ZenonT(60) DEF Control
<1> HIDE DEF K
<1>12. Spent(db, o) BY <1>1, <1>7, <1>8, SpentTrans DEF Closed
<1>13. Len(w.db.clients) = Len(db.clients) BY <1>7 DEF Spent
<1>14. Usable(o) /\ Cur(o).will.set BY <1>10 DEF has_client_will
<1> HIDE DEF r
<1>15. WillFound BY <1>3, <1>4, <1>9, <1>10, <1>11, <1>13, <1>14 DEF WillFound, Cur
<1>16. Interest => Interest' BY <1>1, <1>6, <1>10, <1>11, <1>12, CalmStep DEF Spent
<1>17. PICK b : \E n \in {<<>>, <<b>>} : out' = w.out \o n BY <1>5, Zenon
<1>18. Within(w.out, out')
  <2> DEFINE S == Message \cup {b}
  <2>1. w.out \in Seq(S) BY <1>7
  <2>2. b \in S OBVIOUS
  <2> HIDE DEF S
  <2>3. <<>> \in Seq(S) /\ <<b>> \in Seq(S) BY <2>2
  <2> QED BY <1>17, <2>1, <2>3, SentBefore
<1>19. NothingLost
  <2> HIDE DEF o
  <2>1. AllNumbered(db) => Delivered(db, o, out') BY <1>7, <1>8, <1>18, DeliveredTrans
  <2> QED BY <1>10, <2>1 DEF NothingLost
<1> QED BY <1>10, <1>12, <1>15, <1>16, <1>19

---------------------------------------------------------------------------
(* The remove loop, the ends of the broker calls and the kills. *)

\* One round of the remove loop: a topic that is counted down to 0 is unsubscribed next.
LEMMA RemoveStepStep ==
  ASSUME IInv, RemoveStep
  PROVE  Ordinary /\ (Interest => Interest')
<1> DEFINE tid == get_nth_subscribed_topic_id(db, get_client_subscription_count(db))
           t == get_topic_name(db, tid)
           u == touch_topic_name(db, tid)
           v == delete_subscription(u, tid)
           s == decrement_global_subscription_count(v, t)
           hung == [k EXCEPT !.at = "hung"]
           wait == [k EXCEPT !.at = "wait", !.topic = t]
<1>1. Good(db) /\ k \in Control BY DEF IInv, CtlOK
<1>2. Usable(db) BY DEF RemoveStep, get_client_subscription_count
<1>3. k.at = "remove" /\ db' = s /\ link' = link BY DEF RemoveStep
<1>4. k' = IF tid = 0 THEN hung ELSE IF last_unsubscribed(s, t) /\ t \in Topic THEN wait ELSE k
  BY DEF RemoveStep
<1>5. tid = 0 \/ \E j \in 1..Len(Cur(db).sub) : Cur(db).sub[j].tid = tid
  <2>1. Cur(db).sub \in Seq(entry_subscription) BY <1>1, <1>2, CurType DEF entry_client
  <2>2. DOMAIN Cur(db).sub = 1..Len(Cur(db).sub) BY <2>1
  <2> QED BY <2>2 DEF get_nth_subscribed_topic_id
<1>6. tid = 0 => t \notin Topic
  <2>1. Cur(db).reg \in Seq(Name) BY <1>1, <1>2, CurType DEF entry_client
  <2>2. 0 \notin DOMAIN Cur(db).reg BY <2>1
  <2> QED BY <2>2, TopicAssumption DEF get_topic_name
<1> HIDE DEF tid
<1>7. Good(u) /\ SameTx(db, u) /\ u.clients = db.clients /\ u.count = db.count
  BY <1>1, TopicNameType, FlagsOnly
<1> HIDE DEF u
<1>8. Cur(u) = Cur(db) /\ Usable(u) BY <1>2, <1>7 DEF Cur, SameTx, Usable
<1>9. Good(v) /\ SameTx(u, v) BY <1>5, <1>7, <1>8, DeleteSubscriptionGood
<1>10. Carried(u, v) /\ Retained(u, v) /\ v.count = u.count /\ Still(u, v)
  BY <1>7, DeleteSubscriptionRows
<1> HIDE DEF v, t
<1>11. SameTx(v, s) /\ s.clients = v.clients BY <1>9, CountGood
<1>12. \A x \in Topic : s.count[x] = v.count[x] \/ s.count[x] > 0 \/ (x = t /\ last_unsubscribed(s, t))
  BY <1>9, Counting
<1> HIDE DEF s
<1>13. Carried(db, s) /\ Retained(db, s) /\ Still(db, s)
  <2>1. Carried(u, s) /\ Retained(u, s) /\ Still(u, s) BY <1>10, <1>11 DEF Carried, Retained, Still
  <2> QED BY <1>7, <2>1 DEF Carried, Retained, Still
<1>14. v.count = db.count BY <1>7, <1>10
<1>15. s.started = db.started /\ s.cur = db.cur BY <1>7, <1>9, <1>11 DEF SameTx
<1>16. /\ k'.op = k.op /\ k'.pk = k.pk /\ k'.i = k.i
       /\ k'.at \in {"hung", "wait", "remove"}
       /\ tid # 0 /\ last_unsubscribed(s, t) /\ t \in Topic => k'.at = "wait" /\ k'.topic = t
  <2>1. hung.at = "hung" /\ hung.op = k.op /\ hung.pk = k.pk /\ hung.i = k.i BY <1>1 DEF Control
  <2>2. wait.at = "wait" /\ wait.op = k.op /\ wait.pk = k.pk /\ wait.i = k.i /\ wait.topic = t
    BY <1>1, ZenonT(60) DEF Control
  <2> HIDE DEF hung, wait
  <2> QED BY <1>3, <1>4, <2>1, <2>2
<1>17. Ordinary BY <1>3, <1>13, <1>15, <1>16, RetainedStep DEF Ordinary
<1>18. link.bsub \subseteq Topic BY DEF IInv, Link
<1>19. ASSUME Interest PROVE Interest'
  <2>1. k.op \in {"connect", "lost"} BY <1>3, <1>19 DEF Interest
  <2>2. \A x \in link.bsub : db.count[x] > 0 BY <1>3, <1>19 DEF Interest, NoOrphan
  <2>3. ASSUME NEW x \in link.bsub
        PROVE  db'.count[x] > 0 \/ (k'.at = "wait" /\ k'.topic = x)
    <3>1. s.count[x] = v.count[x] \/ s.count[x] > 0 \/ (x = t /\ last_unsubscribed(s, t)) BY <1>12, <1>18
    <3>2. x \in Topic BY <1>18
    <3> QED BY <1>3, <1>6, <1>14, <1>16, <2>2, <3>1, <3>2
  <2>4. NoOrphan' BY <1>3, <1>16, <2>1, <2>3 DEF NoOrphan
  <2> QED BY <1>16, <2>1, <2>4 DEF Interest, BufferStable
<1> QED BY <1>17, <1>19

\* What a call makes of the broker's subscriptions.
LEMMA CallResults ==
  ASSUME NEW l \in Link, NEW t, NEW qos, NEW buf, NEW s
  PROVE  /\ \A r \in publish_results(l, qos) : r.link.bsub \subseteq l.bsub
         /\ \A r \in subscribe_results(l, t, buf) :
              (r.ok => r.link.bsub = l.bsub) /\ (~r.ok => r.link.bsub = {})
         /\ \A r \in unsubscribe_results(l, t, s) : r.link.bsub \subseteq l.bsub \ {t}
<1>1. cleanSession(l).bsub = {} BY DEF cleanSession, Link
<1>2. \A hs : [l EXCEPT !.hs = hs].bsub = l.bsub BY DEF Link
<1>3. \A hs : [l EXCEPT !.hs = hs, !.bsub = @ \ {t}].bsub = l.bsub \ {t} BY DEF Link
<1>4. ASSUME NEW r \in publish_results(l, qos) PROVE r.link.bsub \subseteq l.bsub
  <2>1. r.link \in {l, cleanSession(l)} BY DEF publish_results
  <2> QED BY <1>1, <2>1
<1>5. ASSUME NEW r \in subscribe_results(l, t, buf)
      PROVE  (r.ok => r.link.bsub = l.bsub) /\ (~r.ok => r.link.bsub = {})
  <2> DEFINE g(hs) == [l EXCEPT !.hs = hs]
  <2>1. \/ r = [ok |-> FALSE, link |-> cleanSession(l)]
        \/ \E hs : r = [ok |-> TRUE, link |-> g(hs)]
    BY <1>5, Zenon DEF subscribe_results
  <2>2. \A hs : g(hs).bsub = l.bsub BY <1>2
  <2> HIDE DEF g
  <2> QED BY <1>1, <2>1, <2>2
<1>6. ASSUME NEW r \in unsubscribe_results(l, t, s) PROVE r.link.bsub \subseteq l.bsub \ {t}
  <2> DEFINE g(hs) == [l EXCEPT !.hs = hs, !.bsub = @ \ {t}]
  <2>1. \/ r = [ok |-> FALSE, link |-> cleanSession(l)]
        \/ \E hs : r = [ok |-> TRUE, link |-> g(hs)]
    BY <1>6, Zenon DEF unsubscribe_results
  <2>2. \A hs : g(hs).bsub = l.bsub \ {t} BY <1>3
  <2> HIDE DEF g
  <2> QED BY <1>1, <2>1, <2>2
<1> QED BY <1>4, <1>5, <1>6

\* A broker call returns, whatever was delivered during it.
LEMMA CallDoneStep ==
  ASSUME IInv, CallDone
  PROVE  Ordinary /\ Faithful(db, db') /\ (Interest => Interest')
<1>1. link \in Link /\ k \in Control /\ Good(db) /\ k.pk \in Packets /\ CtlOK(db, k)
  BY DEF IInv, CtlOK, Control
<1>2. /\ Quiet(db, db) /\ Kept(db, db) /\ Still(db, db) /\ Faithful(db, db)
      /\ db.count \in [Topic -> Nat]
  BY <1>1, QuietRefl, QuietFaithful DEF Good, Store
<1>3. CASE PublishDone
  <2>1. Closed(db) BY <1>1, <1>3, InvClosed DEF PublishDone, Returns
  <2>2. PICK r \in publish_results(link, k.qos) :
          link' = r.link /\ AnswerPublish(db, k.pk, IF r.ok THEN "SUCCESS" ELSE "ZERO", k.again)
    BY <1>3 DEF PublishDone
  <2>3. link'.bsub \subseteq link.bsub BY <1>1, <2>2, CallResults
  <2>4. k.op = "publish" BY <1>3 DEF PublishDone, Returns
  <2> QED BY <1>1, <1>2, <2>1, <2>2, <2>3, <2>4, AnswerPublishStep
<1>4. CASE PredefDone
  <2> DEFINE s == apply_transaction(db)
  <2>1. Closed(s) BY <1>1, CommitClosed
  <2>2. Quiet(db, s) BY <1>1, <1>2, QuietCommit
  <2>3. link'.bsub \subseteq link.bsub
    <3>1. PICK r \in publish_results(link, k.qos) : link' = r.link BY <1>4 DEF PredefDone
    <3> QED BY <1>1, <3>1, CallResults
  <2>4. AnswerPublish(s, k.pk, "ZERO", k.again) /\ k.op = "predef" BY <1>4 DEF PredefDone, Returns
  <2> HIDE DEF s
  <2> QED BY <1>1, <2>1, <2>2, <2>3, <2>4, AnswerPublishStep
<1>5. CASE SubscribeDone
  <2> DEFINE buf == IF k.pk.form = "predef" THEN "pre" ELSE "reg"
             d == decrement_global_subscription_count(db, k.topic)
  <2>1. PICK r \in subscribe_results(link, k.topic, buf) :
          link' = r.link /\ db' = IF r.ok THEN db ELSE d
    BY <1>5 DEF SubscribeDone
  <2>2. k' = Phase("core") /\ k.op = "subscribe" BY <1>5 DEF SubscribeDone, Returns
  <2>3. k'.at = "core" /\ k'.op = "none" BY <2>2, PhaseType
  <2>4. Kept(db, d) /\ Faithful(db, d)
    <3>1. d.clients = db.clients BY <1>1, CountGood
    <3>2. \A x \in Topic : \/ d.count[x] = db.count[x] \/ d.count[x] = db.count[x] - 1
                            \/ (d.count[x] = 0 /\ db.count[x] = 0)
      BY <1>1, Counting
    <3> HIDE DEF d
    <3>3. \A x \in Topic : d.count[x] <= db.count[x] BY <1>2, <3>2
    <3>4. Loyal(db, d) BY <1>1, <3>1, QuietRefl, QuietFaithful
    <3> QED BY <1>1, <3>1, <3>3, <3>4, QuietRefl DEF Faithful
  <2> HIDE DEF d, buf
  <2>5. Ordinary BY <1>2, <2>1, <2>3, <2>4, KeptStep DEF Ordinary
  <2>6. Interest => Interest'
    <3>1. (r.ok => link'.bsub = link.bsub /\ db' = db) /\ (~r.ok => link'.bsub = {})
      BY <1>1, <2>1, CallResults
    <3> QED BY <2>2, <2>3, <3>1 DEF Interest, NoOrphan, BufferStable
  <2> QED BY <1>2, <2>1, <2>4, <2>5, <2>6
<1>6. CASE UnsubscribeDone
  <2>1. db' = db /\ k' = Phase("core") BY <1>6 DEF UnsubscribeDone
  <2>2. k'.at = "core" /\ k'.op = "none" BY <2>1, PhaseType
  <2>3. link'.bsub \subseteq link.bsub \ {k.topic}
    <3>1. PICK r \in unsubscribe_results(link, k.topic, db) : link' = r.link BY <1>6 DEF UnsubscribeDone
    <3> QED BY <1>1, <3>1, CallResults
  <2>4. Ordinary BY <1>2, <2>1, <2>2, KeptStep DEF Ordinary
  <2>5. Interest => Interest' BY <2>1, <2>2, <2>3 DEF Interest, NoOrphan, BufferStable
  <2> QED BY <1>2, <2>1, <2>4, <2>5
<1>7. CASE RemovedDone
  <2>1. db' = db /\ k' = [k EXCEPT !.at = "remove", !.topic = Empty] /\ k.op \in {"connect", "lost"}
    BY <1>7 DEF RemovedDone, Returns
  <2>2. k'.at = "remove" /\ k'.op = k.op /\ k'.pk = k.pk /\ k'.i = k.i BY <1>1, <2>1, ZenonT(60) DEF Control
  <2>3. link'.bsub \subseteq link.bsub \ {k.topic}
    <3>1. PICK r \in unsubscribe_results(link, k.topic, db) : link' = r.link BY <1>7 DEF RemovedDone
    <3> QED BY <1>1, <3>1, CallResults
  <2>4. Ordinary BY <1>2, <2>1, <2>2, KeptStep DEF Ordinary
  <2>5. Interest => Interest' BY <2>1, <2>2, <2>3 DEF Interest, NoOrphan, BufferStable
  <2> QED BY <1>2, <2>1, <2>4, <2>5
<1>8. CASE WillDone
  <2>1. db' = db /\ k' = [k EXCEPT !.at = "remove", !.op = "lost", !.topic = Empty, !.qos = 0] /\ k.op = "will"
    BY <1>8 DEF WillDone, Returns
  <2>2. k'.at = "remove" /\ k'.op = "lost" /\ k'.i = k.i BY <1>1, <2>1, ZenonT(60) DEF Control
  <2>3. link'.bsub \subseteq link.bsub
    <3>1. PICK r \in publish_results(link, k.qos) : link' = r.link BY <1>8 DEF WillDone
    <3> QED BY <1>1, <3>1, CallResults
  <2>4. Ordinary BY <1>2, <2>1, <2>2, KeptStep DEF Ordinary
  <2>5. Interest => Interest' BY <2>1, <2>2, <2>3, CalmStep
  <2> QED BY <1>2, <2>1, <2>4, <2>5
<1> QED BY <1>3, <1>4, <1>5, <1>6, <1>7, <1>8 DEF CallDone

\* A kill inside SUBSCRIBE or handle_timeout.
LEMMA KilledQuietly ==
  ASSUME IInv, RowsProper(db), KilledInTimeout \/ \E p \in Packets : KilledInSubscribe(p)
  PROVE  Ordinary /\ Faithful(db, db') /\ Interest'
<1>1. Good(db) /\ k \in Control BY DEF IInv, CtlOK
<1>2. ASSUME KilledInTimeout PROVE Ordinary /\ Faithful(db, db') /\ Interest'
  <2> DEFINE r == get_nth_client(db, k.i)
             H(w) == set_timeout(start_by_address(w.db, r.addr), r.timeout + k.elapsed)
  <2>1. Closed(db) BY <1>2, InvClosed DEF IInv, KilledInTimeout
  <2>2. r \in entry_client /\ Proper(r) /\ k.elapsed \in Nat BY <1>1, VisitedProper DEF Control
  <2>3. PICK w \in Served(r) : Leave(H(w)) BY <1>2 DEF KilledInTimeout
  <2>4. r.addr # NoAddress BY <1>2, <2>2 DEF KilledInTimeout, Timed, Proper
  <2>5. /\ Closed(w.db) /\ w.out \in Seq(Message)
        /\ Spent(db, w.db) /\ (AllNumbered(db) => Delivered(db, w.db, w.out))
    BY <2>1, <2>2, ServedOK, ServedQuiet
  <2>6. Good(start_by_address(w.db, r.addr)) BY <2>5, StartByAddressGood DEF Closed
  <2>7. r.timeout + k.elapsed \in Nat BY <2>2 DEF entry_client
  <2>8. Good(H(w)) BY <2>6, <2>7, SetTimeoutGood
  <2>9. Quiet(w.db, H(w)) BY <2>2, <2>4, <2>5, TimeoutQuiet
  <2> HIDE DEF H
  <2>10. Spent(db, H(w)) BY <1>1, <2>5, <2>8, <2>9, SpentTrans DEF Closed
  <2>11. AllNumbered(db) => Delivered(db, H(w), w.out) BY <2>5, <2>9, SentBefore, DeliveredTrans
  <2>12. k.at = "visit" BY <1>2 DEF KilledInTimeout
  <2> QED BY <1>1, <2>3, <2>8, <2>10, <2>11, <2>12, LeaveStep, QuietFaithful
<1>3. ASSUME NEW p \in Packets, KilledInSubscribe(p) PROVE Ordinary /\ Faithful(db, db') /\ Interest'
  <2> DEFINE r == register_topic(db, TRUE, p.addr, p.topic)
             byName == p.form \in {"name", "normal"}
             d == IF byName THEN r.db ELSE db
             id == IF byName THEN r.tid ELSE p.tid
             short == p.form # "predef"
  <2>1. Closed(db) BY <1>3, InvClosed DEF IInv, KilledInSubscribe, Received
  <2>2. p.addr \in Address /\ p.addr # NoAddress /\ p.topic \in Name /\ p.tid \in Nat
    <3>1. p \in Packet BY PacketAssumption
    <3> QED BY <3>1, IdAssumption DEF Packet
  <2>3. Closed(r.db) /\ r.tid \in Nat BY <2>1, <2>2, RegisterClosed
  <2>4. Quiet(db, r.db) BY <2>1, <2>2, RegisterQuiet
  <2>5. PICK s \in half_subscribed(d, p.addr, id, short, p.qos) : Leave(s) BY <1>3 DEF KilledInSubscribe
  <2> HIDE DEF r
  <2>6. Closed(d) /\ id \in Nat /\ Quiet(db, d) BY <1>1, <2>1, <2>2, <2>3, <2>4, QuietRefl
  <2>7. short \in BOOLEAN OBVIOUS
  <2> HIDE DEF d, id, short
  <2>8. Good(s) BY <2>6, HalfSubscribedGood
  <2>9. Quiet(d, s) BY <2>2, <2>6, <2>7, HalfSubscribedQuiet
  <2>10. Quiet(db, s) BY <1>1, <2>6, <2>8, <2>9, KeptTrans DEF Quiet, Closed
  <2> QED BY <1>1, <2>5, <2>8, <2>10, LeaveStep, QuietFaithful DEF Quiet
<1> QED BY <1>2, <1>3

\* The process is killed in the loop that removes a client, or in UNSUBSCRIBE.
KilledDeleting == Crashes /\ (KilledInRemove \/ \E p \in Packets : KilledInUnsubscribe(p))

\* A kill between the deletion of a subscription and its count.
LEMMA KilledUncounted ==
  ASSUME IInv,
         \/ \E p \in Packets : KilledInUnsubscribe(p)
         \/ \E tid : Leave(delete_subscription(db, tid))
  PROVE  Ordinary /\ Interest'
<1>1. Good(db) /\ k \in Control BY DEF IInv, CtlOK
<1>2. ASSUME NEW tid, Leave(delete_subscription(db, tid)) PROVE Ordinary /\ Interest'
  <2>1. Good(delete_subscription(db, tid)) BY <1>1, DeleteSubscriptionGood
  <2>2. Carried(db, delete_subscription(db, tid)) /\ Retained(db, delete_subscription(db, tid))
    BY <1>1, DeleteSubscriptionRows
  <2> QED BY <1>2, <2>1, <2>2, LeaveStep
<1>3. ASSUME NEW p \in Packets, KilledInUnsubscribe(p) PROVE Ordinary /\ Interest'
  <2> DEFINE s == half_unsubscribed(db, p.addr, p.tid, p.form = "short")
  <2>1. Closed(db) BY <1>3, InvClosed DEF IInv, KilledInUnsubscribe, Received
  <2>2. Good(s) /\ Carried(db, s) /\ Retained(db, s)
    BY <2>1, HalfUnsubscribedGood, HalfUnsubscribedCarried
  <2>3. Leave(s) BY <1>3 DEF KilledInUnsubscribe
  <2> HIDE DEF s
  <2> QED BY <2>2, <2>3, LeaveStep
<1> QED BY <1>2, <1>3

---------------------------------------------------------------------------
(* The steps that are not ordinary: what they do to the rows. *)

\* Row q has the client of row r.
SameClient(r, q) == q.id = r.id /\ q.addr = r.addr /\ q.status = r.status
FreedRow(q) == q.id = NoId /\ q.addr = NoAddress /\ q.status = "EMPTY"

\* Row q has the files of row r.
SameFiles(r, q) == q.reg = r.reg /\ q.sub = r.sub /\ q.pub = r.pub
NoFiles(q) == q.reg = <<>> /\ q.sub = <<>> /\ q.pub = <<>>

\* Nothing is changed but the flags and what does not matter here.
Alike(s, t) ==
  /\ t.count = s.count /\ Len(t.clients) = Len(s.clients)
  /\ \A c \in 1..Len(s.clients) :
       SameClient(s.clients[c], t.clients[c]) /\ SameFiles(s.clients[c], t.clients[c])

\* Client id gets the first free slot, with the files it has, or a new one.
Added(s, t, id, a) ==
  \E i \in 1..(Len(s.clients) + 1) :
    /\ Len(t.clients) = IF i <= Len(s.clients) THEN Len(s.clients) ELSE i
    /\ \A c \in 1..Len(s.clients) : c # i => t.clients[c] = s.clients[c]
    /\ t.clients[i].id = id /\ t.clients[i].addr = a /\ t.clients[i].status = "ACTIVE"
    /\ IF i <= Len(s.clients) THEN s.clients[i].id = NoId /\ SameFiles(s.clients[i], t.clients[i])
       ELSE NoFiles(t.clients[i]) /\ \A c \in 1..Len(s.clients) : s.clients[c].id # NoId

\* A client with the id loses its slot, and the slot worked on its files, if no subscription is in them.
Removed(s, t, id) ==
  /\ Len(t.clients) = Len(s.clients)
  /\ \A c \in 1..Len(s.clients) :
       /\ \/ SameClient(s.clients[c], t.clients[c])
          \/ FreedRow(t.clients[c]) /\ s.clients[c].id = id
       /\ \/ SameFiles(s.clients[c], t.clients[c])
          \/ NoFiles(t.clients[c]) /\ Unsubscribed(s.clients[c]) /\ c = s.cur

\* A store with the same files.
LEMMA AlikeRefl ==
  ASSUME NEW s, NEW t, t.clients = s.clients, t.count = s.count
  PROVE  Alike(s, t)
BY DEF Alike, SameClient, SameFiles

\* await_message writes the awaited message only.
LEMMA AwaitAlike ==
  ASSUME NEW s, Closed(s), NEW a, NEW type \in Awaited
  PROVE  Alike(s, await_message(s, a, type).db)
<1> DEFINE o == start_by_address(s, a)
           u == set_client_await_message(o, type)
           row == [Cur(o) EXCEPT !.await = type]
<1>1. Good(o) /\ o.clients = s.clients /\ o.count = s.count BY OpenFiles DEF Closed
<1> HIDE DEF o
<1>2. Good(u) BY <1>1, SetAwaitGood
<1>3. Alike(s, u)
  <2>1. CASE ~Usable(o) BY <1>1, <2>1, AlikeRefl DEF set_client_await_message
  <2>2. CASE Usable(o)
    <3>1. Cur(o) \in entry_client BY <1>1, <2>2, CurType
    <3>2. row \in entry_client /\ SameClient(Cur(o), row) /\ SameFiles(Cur(o), row)
      BY <3>1 DEF entry_client, SameClient, SameFiles
    <3> HIDE DEF row
    <3>3. u = Put(o, row) BY <2>2 DEF set_client_await_message, row
    <3>4. /\ u.count = o.count /\ Len(u.clients) = Len(o.clients)
          /\ \A c \in 1..Len(o.clients) : u.clients[c] = IF c = o.cur THEN row ELSE o.clients[c]
      BY <1>1, <2>2, <3>2, <3>3, PutQuiet
    <3> QED BY <1>1, <3>2, <3>4 DEF Alike, SameClient, SameFiles, Cur
  <2> QED BY <2>1, <2>2
<1>4. Commit(u).db = apply_transaction(u) BY DEF Commit
<1>5. apply_transaction(u).clients = u.clients /\ apply_transaction(u).count = u.count BY <1>2, FlagsOnly
<1> HIDE DEF u
<1>6. Alike(s, Commit(u).db) BY <1>3, <1>4, <1>5 DEF Alike
<1> QED BY <1>6 DEF await_message, u, o

\* The end of a CONNECT.
LEMMA FinishConnectStep ==
  ASSUME NEW s, Good(s), NEW p \in Packets, FinishConnect(s, p)
  PROVE  Alike(s, db') /\ k'.op = "none" /\ k'.at = "core" /\ link' = link
<1> DEFINE c == Commit(s)
           w == await_message(c.db, p.addr, "WILLTOPIC")
<1>1. Closed(c.db) BY CommitClosed
<1>2. c.db = apply_transaction(s) BY DEF Commit
<1>3. c.db.clients = s.clients /\ c.db.count = s.count BY <1>2, FlagsOnly
<1>4. \E m : Reply(c.db, m) \/ Reply(w.db, m) BY DEF FinishConnect
<1> HIDE DEF c
<1>5. Alike(c.db, w.db) BY <1>1, AwaitAlike DEF Awaited
<1> HIDE DEF w
<1>6. Alike(s, c.db) /\ Alike(s, w.db) BY <1>3, <1>5, AlikeRefl DEF Alike
<1>7. db' \in {c.db, w.db} /\ k' = Phase("core") /\ link' = link BY <1>4 DEF Reply
<1> QED BY <1>6, <1>7, PhaseType

\* Overwriting a row of the registry.
LEMMA ReplaceRow ==
  ASSUME NEW q \in Seq(entry_client), NEW i \in 1..Len(q), NEW e \in entry_client,
         NEW n, n = ReplaceAt(q, i, e)
  PROVE  /\ n \in Seq(entry_client) /\ Len(n) = Len(q) /\ n[i] = e
         /\ \A c \in 1..Len(q) : c = i \/ n[c] = q[c]
<1>1. /\ ReplaceAt(q, i, e) \in Seq(entry_client)
      /\ Len(ReplaceAt(q, i, e)) = Len(q)
      /\ ReplaceAt(q, i, e)[i] = e
  BY ReplaceType
<1>2. i # 0 /\ i \in 0..Len(q) OBVIOUS
<1>3. \A c \in DOMAIN n : c = i \/ n[c] = q[c] BY <1>2, PlacedAt
<1>4. DOMAIN n = 1..Len(q) BY <1>1
<1> QED BY <1>1, <1>3, <1>4

\* add_client.
LEMMA AddRows ==
  ASSUME NEW s, Good(s), NEW id, id \in ClientId \/ s.error, NEW a \in Address, NEW d \in Nat
  PROVE  LET u == add_client(s, id, a, d)
         IN /\ u.count = s.count
            /\ IF s.started /\ ~s.error /\ s.notin THEN Added(s, u, id, a) ELSE u.clients = s.clients
<1> DEFINE I == {i \in 1..Len(s.clients) : s.clients[i].id = NoId}
           j == SelectInSeq(s.clients, LAMBDA r : r.id = NoId)
           q == s.clients
           i == find_empty_entry_space_in_registry(s)
           row(r) == [r EXCEPT !.id = id, !.addr = a, !.status = "ACTIVE", !.duration = d,
                               !.timeout = 0, !.await = "PINGREQ"]
           new == IF i > Len(q) THEN Append(q, row(EmptyRow)) ELSE ReplaceAt(q, i, row(Blank(q[i])))
           u == add_client(s, id, a, d)
<1>1. j = IF I # {} THEN Min(I) ELSE 0 BY DEF SelectInSeq
<1>2. Len(q) \in Nat /\ I \in SUBSET (1..Len(q)) /\ q \in Seq(entry_client) BY DEF Good, Store
<1>3. /\ j \in 0..Len(q)
      /\ j # 0 => q[j].id = NoId
      /\ j = 0 => \A c \in 1..Len(q) : q[c].id # NoId
  <2> HIDE DEF I
  <2>1. j \in 0..Len(q) /\ (I # {} => j \in I) BY <1>1, <1>2, FirstIn
  <2>2. I # {} => j # 0 BY <1>2, <2>1
  <2> QED BY <1>1, <2>1, <2>2 DEF I
<1> HIDE DEF I, j
<1>4. i = IF j = 0 THEN Len(q) + 1 ELSE j BY DEF find_empty_entry_space_in_registry, j
<1> HIDE DEF i
<1>5. i \in 1..(Len(q) + 1) BY <1>2, <1>3, <1>4
<1>6. CASE ~s.started \/ s.error BY <1>6 DEF add_client
<1>7. CASE s.started /\ ~s.error /\ ~s.notin BY <1>7, FlagsOnly DEF add_client
<1>8. CASE s.started /\ ~s.error /\ s.notin
  <2>1. ASSUME NEW r \in entry_client
        PROVE  /\ row(r) \in entry_client
               /\ row(r).id = id /\ row(r).addr = a /\ row(r).status = "ACTIVE" /\ SameFiles(r, row(r))
    BY <1>8 DEF entry_client, Status, Awaited, SameFiles
  <2> HIDE DEF row
  <2>2. EmptyRow \in entry_client /\ NoFiles(EmptyRow)
    <3>1. EmptyRow \in entry_client
      BY DEF EmptyRow, entry_client, Status, Awaited, NoWill, entry_will, WillQos, Name, NoMsg
    <3> QED BY <3>1 DEF EmptyRow, NoFiles
  <2>3. u = [s EXCEPT !.clients = new, !.notin = FALSE, !.cur = i]
    BY <1>8 DEF add_client, i, row
  <2>4. u.clients = new /\ u.count = s.count
    <3> HIDE DEF new, u
    <3> QED BY <2>3, ZenonT(60) DEF Good, Store
  <2>5. CASE i > Len(q)
    <3>1. new = Append(q, row(EmptyRow)) /\ i = Len(q) + 1 BY <1>2, <1>5, <2>5
    <3> DEFINE e == row(EmptyRow)
    <3>2. e \in entry_client /\ NoFiles(e) /\ e.id = id /\ e.addr = a /\ e.status = "ACTIVE"
      BY <2>1, <2>2 DEF SameFiles, NoFiles
    <3> HIDE DEF q, new, e
    <3>3. Len(new) = Len(q) + 1 /\ new[i] = e /\ \A c \in 1..Len(q) : new[c] = q[c]
      BY <1>2, <3>1, <3>2, AppendProperties DEF e
    <3>4. \A c \in 1..Len(q) : q[c].id # NoId BY <1>2, <1>3, <1>4, <3>1
    <3>5. ~(i <= Len(q)) BY <1>2, <1>5, <2>5
    <3>6. Added(s, u, id, a)
      BY <1>5, <2>4, <3>1, <3>2, <3>3, <3>4, <3>5 DEF Added, q
    <3> QED BY <1>8, <2>4, <3>6
  <2>6. CASE i <= Len(q)
    <3>1. i \in 1..Len(q) /\ q[i].id = NoId BY <1>2, <1>3, <1>4, <1>5, <2>6
    <3>2. q[i] \in entry_client BY <1>2, <3>1, ElementOfSeq
    <3> DEFINE e == row(Blank(q[i]))
    <3>3. e \in entry_client /\ SameFiles(q[i], e) /\ e.id = id /\ e.addr = a /\ e.status = "ACTIVE"
      <4>1. Blank(q[i]) \in entry_client BY <3>2, RowTypes
      <4>2. SameFiles(q[i], Blank(q[i])) BY DEF Blank, EmptyRow, SameFiles
      <4> QED BY <2>1, <4>1, <4>2 DEF SameFiles
    <3>4. new = ReplaceAt(q, i, e) BY <1>2, <2>6, <3>1
    <3> HIDE DEF q, new, e
    <3>5. /\ Len(new) = Len(q) /\ new[i] = e
          /\ \A c \in 1..Len(q) : c = i \/ new[c] = q[c]
      BY <1>2, <3>1, <3>3, <3>4, ReplaceRow DEF ReplaceAt
    <3>6. Added(s, u, id, a)
      BY <1>5, <2>4, <2>6, <3>1, <3>3, <3>5 DEF Added, q
    <3> QED BY <1>8, <2>4, <3>6
  <2> QED BY <1>2, <1>5, <2>5, <2>6
<1> QED BY <1>6, <1>7, <1>8

\* No subscription is counted: none is left.
LEMMA CountedNone ==
  ASSUME NEW s, Good(s), Usable(s), ~(get_client_subscription_count(s) > 0)
  PROVE  Unsubscribed(Cur(s))
<1> DEFINE S == {j \in DOMAIN Cur(s).sub : Cur(s).sub[j].tid # 0}
<1>1. Cur(s).sub \in Seq(entry_subscription) BY CurType DEF entry_client
<1>2. IsFiniteSet(S)
  <2>1. DOMAIN Cur(s).sub = 1..Len(Cur(s).sub) /\ Len(Cur(s).sub) \in Nat BY <1>1
  <2>2. IsFiniteSet(1..Len(Cur(s).sub)) BY <2>1, FS_Interval
  <2> QED BY <2>1, <2>2, FS_Subset
<1>3. get_client_subscription_count(s) = Cardinality(S) BY DEF get_client_subscription_count
<1> HIDE DEF S
<1>4. Cardinality(S) = 0 BY <1>2, <1>3, FS_CardinalityType
<1>5. S = {} BY <1>2, <1>4, FS_EmptySet
<1> QED BY <1>5 DEF S, Unsubscribed

\* delete_client.
LEMMA DeleteRows ==
  ASSUME NEW s, Good(s), NEW id
  PROVE  LET u == delete_client(s, id)
         IN /\ u.count = s.count /\ Removed(s, u, id)
            /\ u.started = s.started
            /\ u.clients = s.clients \/ (Usable(s) /\ Unsubscribed(Cur(s)))
            /\ Usable(s) /\ get_client_subscription_count(s) = 0 =>
                 /\ ~u.error /\ u.notin
                 /\ (\E c \in 1..Len(s.clients) : s.clients[c].id = id) =>
                      \E c \in 1..Len(s.clients) : s.clients[c].id = id /\ FreedRow(u.clients[c])
<1> DEFINE q == s.clients
           files == ReplaceAt(q, s.cur, FilesDeleted(Cur(s)))
           I == {n \in 1..Len(q) : q[n].id = id}
           i == SelectInSeq(q, LAMBDA r : r.id = id)
           new == IF i = 0 THEN files ELSE ReplaceAt(files, i, Blank(files[i]))
           u == delete_client(s, id)
<1>1. i = IF I # {} THEN Min(I) ELSE 0 BY DEF SelectInSeq
<1>2. q \in Seq(entry_client) /\ Len(q) \in Nat /\ I \in SUBSET (1..Len(q)) BY DEF Good, Store
<1>3. i \in 0..Len(q) /\ (I # {} => i \in I) /\ (i # 0 => q[i].id = id)
  <2> HIDE DEF I
  <2>1. i \in 0..Len(q) /\ (I # {} => i \in I) BY <1>1, <1>2, FirstIn
  <2>2. i # 0 => i \in I BY <1>1, <2>1
  <2> QED BY <2>1, <2>2 DEF I
<1>4. (\E c \in 1..Len(q) : q[c].id = id) => i # 0 BY <1>2, <1>3
<1> HIDE DEF I, i
<1>5. Removed(s, s, id) BY DEF Removed, SameClient, SameFiles
<1>6. CASE ~Usable(s) BY <1>5, <1>6 DEF delete_client
<1>7. CASE Usable(s) /\ get_client_subscription_count(s) > 0
  <2>1. u = Fail(s) BY <1>7 DEF delete_client
  <2>2. u.clients = s.clients /\ u.count = s.count BY <2>1, FlagsOnly
  <2>3. u.started = s.started BY <2>1, FailGood
  <2> HIDE DEF u
  <2>4. Removed(s, u, id) BY <1>5, <2>2 DEF Removed
  <2> QED BY <1>7, <2>2, <2>3, <2>4 DEF u
<1>8. CASE Usable(s) /\ ~(get_client_subscription_count(s) > 0)
  <2>1. Cur(s) \in entry_client /\ s.cur \in 1..Len(q) BY <1>8, CurType
  <2> DEFINE f == FilesDeleted(Cur(s))
  <2>2. f \in entry_client /\ SameClient(Cur(s), f) /\ (SameFiles(Cur(s), f) \/ NoFiles(f))
    <3>1. f \in entry_client BY <2>1, RowTypes
    <3> QED BY <2>1, <3>1 DEF FilesDeleted, SameClient, SameFiles, NoFiles, entry_client
  <2>3. files = ReplaceAt(q, s.cur, f) OBVIOUS
  <2>4. Cur(s) = q[s.cur] BY DEF Cur
  <2>5. u = [s EXCEPT !.clients = new, !.notin = TRUE] BY <1>8 DEF delete_client, i
  <2> HIDE DEF f, files
  <2>6. files \in Seq(entry_client) /\ Len(files) = Len(q) /\ files[s.cur] = f
    BY <1>2, <2>1, <2>2, <2>3, ReplaceRow DEF ReplaceAt
  <2>7. \A c \in 1..Len(q) : c = s.cur \/ files[c] = q[c] BY <1>2, <2>1, <2>2, <2>3, ReplaceRow DEF ReplaceAt
  <2>8. Unsubscribed(Cur(s)) BY <1>8, CountedNone
  <2>9. \A c \in 1..Len(q) : /\ SameClient(q[c], files[c])
                             /\ \/ SameFiles(q[c], files[c])
                                \/ NoFiles(files[c]) /\ Unsubscribed(q[c]) /\ c = s.cur
    BY <2>2, <2>4, <2>6, <2>7, <2>8 DEF SameClient, SameFiles
  <2>10. /\ new \in Seq(entry_client) /\ Len(new) = Len(q)
        /\ \A c \in 1..Len(q) : (c = i /\ new[c] = Blank(files[c])) \/ (c # i /\ new[c] = files[c])
    <3>1. CASE i = 0 BY <2>6, <3>1
    <3>2. CASE i # 0
      <4>1. i \in 1..Len(files) BY <1>2, <1>3, <2>6, <3>2
      <4> DEFINE b == Blank(files[i])
      <4>2. b \in entry_client BY <2>6, <4>1, ElementOfSeq, RowTypes
      <4>3. new = ReplaceAt(files, i, b) BY <3>2
      <4> HIDE DEF b, new
      <4>4. /\ new \in Seq(entry_client) /\ Len(new) = Len(files) /\ new[i] = b
            /\ \A c \in 1..Len(files) : c = i \/ new[c] = files[c]
        BY <2>6, <4>1, <4>2, <4>3, ReplaceRow DEF ReplaceAt
      <4> QED BY <2>6, <4>4 DEF b
    <3> QED BY <3>1, <3>2
  <2> HIDE DEF new
  <2>11. u.clients = new /\ u.count = s.count /\ u.started = s.started /\ u.error = s.error /\ u.notin
    <3> HIDE DEF u
    <3> QED BY <2>5, ZenonT(60) DEF Good, Store
  <2>12. \A r : FreedRow(Blank(r)) /\ SameFiles(r, Blank(r)) BY DEF FreedRow, Blank, EmptyRow, SameFiles
  <2>13. ASSUME NEW c \in 1..Len(q)
         PROVE  /\ SameClient(q[c], new[c]) \/ (FreedRow(new[c]) /\ q[c].id = id)
                /\ SameFiles(q[c], new[c]) \/ (NoFiles(new[c]) /\ Unsubscribed(q[c]) /\ c = s.cur)
    <3>1. /\ SameClient(q[c], files[c])
          /\ SameFiles(q[c], files[c]) \/ (NoFiles(files[c]) /\ Unsubscribed(q[c]) /\ c = s.cur)
      BY <2>9
    <3>2. CASE c # i /\ new[c] = files[c] BY <3>1, <3>2
    <3>3. CASE c = i /\ new[c] = Blank(files[c])
      <4>1. FreedRow(new[c]) /\ SameFiles(files[c], new[c]) BY <2>12, <3>3
      <4>2. q[c].id = id BY <1>2, <1>3, <3>3
      <4>3. SameFiles(q[c], new[c]) \/ (NoFiles(new[c]) /\ Unsubscribed(q[c]) /\ c = s.cur)
        BY <3>1, <4>1 DEF SameFiles, NoFiles
      <4> QED BY <4>1, <4>2, <4>3
    <3> QED BY <2>10, <3>2, <3>3
  <2>14. Removed(s, u, id) BY <2>10, <2>11, <2>13 DEF Removed
  <2>15. (\E c \in 1..Len(q) : q[c].id = id) => i \in 1..Len(q) /\ q[i].id = id /\ FreedRow(new[i])
    <3> SUFFICES ASSUME \E c \in 1..Len(q) : q[c].id = id
                 PROVE  i \in 1..Len(q) /\ q[i].id = id /\ FreedRow(new[i])
      OBVIOUS
    <3>1. i # 0 BY <1>4
    <3>2. i \in 1..Len(q) BY <1>2, <1>3, <3>1
    <3> QED BY <1>3, <2>10, <2>12, <3>1, <3>2
  <2>16. ~s.error BY <1>8 DEF Usable
  <2> QED BY <1>8, <2>11, <2>14, <2>15, <2>8, <2>16
<1> QED BY <1>6, <1>7, <1>8

---------------------------------------------------------------------------
(* The steps that are not ordinary: what they are. *)

\* A store with the same clients and files has its rows kept.
LEMMA AlikeKept ==
  ASSUME NEW s, Good(s), NEW t, Good(t), Alike(s, t)
  PROVE  Kept(s, t)
<1>1. ASSUME NEW c \in 1..Len(s.clients) PROVE RowKept(s.clients[c], t.clients[c])
  <2>1. s.clients[c] \in entry_client BY <1>1, RowsType
  <2>2. t.clients[c] \in entry_client BY <1>1, RowsType DEF Alike
  <2> QED BY <1>1, <2>1, <2>2, SameFilesKept DEF Alike, SameClient, SameFiles
<1> QED BY <1>1 DEF Alike, Kept

\* Looking for a client by its id.
LEMMA StartedById ==
  ASSUME NEW s, Closed(s), NEW id
  PROVE  LET o == start_by_id(s, id)
         IN /\ Good(o) /\ o.clients = s.clients /\ o.count = s.count
            /\ o.notin => o.error \/ \A c \in 1..Len(s.clients) : s.clients[c].id # id
            /\ Usable(o) => Cur(o).id = id /\ id \notin LongId
            /\ id \in LongId => o.error
<1> DEFINE o == start_by_id(s, id)
           i == SelectInSeq(s.clients, LAMBDA r : r.id = id)
           I == {n \in 1..Len(s.clients) : s.clients[n].id = id}
<1>1. Good(s) /\ ~s.started BY DEF Closed
<1>2. /\ Good(o) /\ (Usable(o) => Cur(o).id = id /\ id \notin LongId)
      /\ id \in LongId => o.error
  BY <1>1, StartByIdGood
<1>3. o.clients = s.clients /\ o.count = s.count BY <1>1, FlagsOnly DEF start_by_id
<1>4. ASSUME o.notin, ~o.error PROVE \A c \in 1..Len(s.clients) : s.clients[c].id # id
  <2>1. o = Opened(s, i) BY <1>1, <1>2, <1>4 DEF start_by_id
  <2>2. o.notin = (i = 0) BY <1>1, <2>1, ZenonT(60) DEF Opened, Good, Store
  <2>3. i = IF I # {} THEN Min(I) ELSE 0 BY DEF SelectInSeq
  <2>4. Len(s.clients) \in Nat /\ I \in SUBSET (1..Len(s.clients)) BY <1>1 DEF Good, Store
  <2> HIDE DEF I, i, o
  <2>5. i = 0 BY <1>4, <2>2
  <2>6. I # {} => i \in I BY <2>3, <2>4, FirstIn
  <2>7. I = {} BY <2>4, <2>5, <2>6
  <2> QED BY <2>7 DEF I
<1> QED BY <1>2, <1>3, <1>4

\* A CONNECT from a client whose id is not in the registry.
NewClient ==
  \E p \in Packets : \E s :
    /\ p.type = "CONNECT" /\ p.id \in ClientId
    /\ \A c \in 1..Len(db.clients) : db.clients[c].id # p.id
    /\ Added(db, s, p.id, p.addr) /\ Alike(s, db')

\* A CONNECT that keeps the session.
SameAgain ==
  \E p \in Packets : \E s :
    /\ p.type = "CONNECT" /\ p.id \in ClientId
    /\ Len(s.clients) = Len(db.clients)
    /\ \A c \in 1..Len(db.clients) :
         \/ s.clients[c] = db.clients[c]
         \/ /\ db.clients[c].id = p.id /\ SameFiles(db.clients[c], s.clients[c])
            /\ s.clients[c].id = p.id /\ s.clients[c].addr = p.addr /\ s.clients[c].status = "ACTIVE"
    /\ Alike(s, db')

\* The end of a clean CONNECT.
Cleaned ==
  /\ k.at = "remove" /\ k.op = "connect" /\ k.pk.id \in ClientId
  /\ Usable(db) /\ Cur(db).id = k.pk.id /\ Unsubscribed(Cur(db))
  /\ \E s, t :
       /\ Removed(db, s, k.pk.id)
       /\ \E c \in 1..Len(db.clients) : db.clients[c].id = k.pk.id /\ FreedRow(s.clients[c])
       /\ Added(s, t, k.pk.id, k.pk.addr) /\ Alike(t, db')

\* The removal of a lost client.
Forgotten ==
  /\ k.at = "remove" /\ k.op = "lost"
  /\ Removed(db, db', get_nth_client(db, k.i).id)
  /\ db'.clients = db.clients \/ (Usable(db) /\ Unsubscribed(Cur(db)))

\* A kill inside delete_client.
HalfGone ==
  /\ k.at = "remove" /\ KilledDeleting /\ Len(db'.clients) = Len(db.clients)
  /\ \A c \in 1..Len(db.clients) :
       LET r == db.clients[c]
           q == db'.clients[c]
       IN /\ SameClient(r, q)
          /\ q.reg \in {r.reg, <<>>} /\ q.sub \in {r.sub, <<>>} /\ q.pub \in {r.pub, <<>>}
          /\ (ExistsWorks /\ RemoveWorks) \/ SameFiles(r, q)
          /\ c = db.cur \/ SameFiles(r, q)

\* Nothing is under way any more and the counts are as before.
LEMMA EndStep ==
  ASSUME k.at # "wait", k'.op = "none", k'.at # "remove", db'.count = db.count, link' = link
  PROVE  Interest => Interest'
BY CalmStep

\* CONNECT without an old client, or with one whose session is kept.
LEMMA ConnectedStep ==
  ASSUME IInv, NEW p \in Packets, ConnectNew(p) \/ ConnectAgain(p)
  PROVE  /\ \/ Ordinary /\ Faithful(db, db')
            \/ k'.op = "none" /\ db'.count = db.count /\ (NewClient \/ SameAgain)
         /\ Interest => Interest'
<1> DEFINE o == start_by_id(db, p.id)
           d == p.dur * 1000
<1>1. k.at = "socket" /\ p.type = "CONNECT" BY DEF ConnectNew, ConnectAgain, Received
<1>2. Closed(db) /\ Good(db) BY <1>1, InvClosed DEF IInv, Closed
<1>3. p.id \in ClientId \cup LongId /\ p.addr \in Address /\ d \in Nat
  <2>1. p \in Packet BY PacketAssumption
  <2> QED BY <2>1 DEF Packet
<1>4. /\ Good(o) /\ o.clients = db.clients /\ o.count = db.count
      /\ o.notin => o.error \/ \A c \in 1..Len(db.clients) : db.clients[c].id # p.id
      /\ Usable(o) => Cur(o).id = p.id /\ p.id \notin LongId
      /\ p.id \in LongId => o.error
  BY <1>2, StartedById
<1>5. CASE ConnectNew(p)
  <2> DEFINE s == add_client(o, p.id, p.addr, d)
  <2>1. FinishConnect(s, p) BY <1>5 DEF ConnectNew
  <2> HIDE DEF o, d
  <2>2. p.id \in ClientId \/ o.error BY <1>3, <1>4
  <2>3. Good(s) BY <1>3, <1>4, <2>2, AddClientGood
  <2>4. /\ s.count = o.count
        /\ IF o.started /\ ~o.error /\ o.notin THEN Added(o, s, p.id, p.addr) ELSE s.clients = o.clients
    BY <1>3, <1>4, <2>2, AddRows
  <2> HIDE DEF s
  <2>5. Alike(s, db') /\ k'.op = "none" /\ k'.at = "core" /\ link' = link BY <2>1, <2>3, FinishConnectStep
  <2>6. IInv' BY <1>5, NextInv DEF Next, Handle
  <2>7. Good(db') BY <2>6 DEF IInv, CtlOK
  <2>8. Interest => Interest' BY <1>1, <1>4, <2>4, <2>5, EndStep DEF Alike
  <2>9. CASE o.started /\ ~o.error /\ o.notin
    <3>1. Added(db, s, p.id, p.addr)
      <4>1. Added(o, s, p.id, p.addr) BY <2>4, <2>9
      <4> QED BY <1>4, <4>1 DEF Added
    <3>2. p.id \in ClientId BY <1>3, <1>4, <2>9
    <3>3. NewClient BY <1>1, <1>4, <2>5, <2>9, <3>1, <3>2 DEF NewClient
    <3> QED BY <1>4, <2>4, <2>5, <2>8, <3>3 DEF Alike
  <2>10. CASE ~(o.started /\ ~o.error /\ o.notin)
    <3>1. s.clients = db.clients BY <1>4, <2>4, <2>10
    <3>2. Alike(db, db') BY <1>4, <2>4, <2>5, <3>1 DEF Alike
    <3>3. Ordinary /\ Faithful(db, db')
      <4>1. Quiet(db, db') BY <1>2, <2>7, <3>2, AlikeKept DEF Quiet, Alike
      <4> QED BY <1>2, <2>5, <4>1, QuietFaithful, KeptStep DEF Ordinary, Quiet
    <3> QED BY <2>8, <3>3
  <2> QED BY <2>9, <2>10
<1>6. CASE ConnectAgain(p)
  <2> DEFINE s == reset_client(o, p.id, p.addr, d)
             row == [Cur(o) EXCEPT !.addr = p.addr, !.status = "ACTIVE", !.duration = d,
                                   !.timeout = 0, !.await = "PINGREQ"]
  <2>1. FinishConnect(s, p) /\ client_exist(o) BY <1>6 DEF ConnectAgain
  <2> HIDE DEF o, d
  <2>2. Usable(o) BY <2>1 DEF client_exist, Usable
  <2>3. Good(s) BY <1>3, <1>4, ResetClientGood
  <2>4. s = Put(o, row) BY <1>4, <2>2 DEF reset_client
  <2>5. Cur(o) \in entry_client /\ o.cur \in 1..Len(o.clients) BY <1>4, <2>2, CurType
  <2>6. /\ row \in entry_client /\ SameFiles(Cur(o), row)
        /\ row.id = Cur(o).id /\ row.addr = p.addr /\ row.status = "ACTIVE"
    <3> DEFINE r == Cur(o)
    <3>1. r \in entry_client BY <2>5
    <3> HIDE DEF r
    <3>2. [r EXCEPT !.addr = p.addr, !.status = "ACTIVE", !.duration = d, !.timeout = 0,
                    !.await = "PINGREQ"] \in entry_client
      BY <1>3, <3>1, ZenonT(60) DEF entry_client, Status, Awaited
    <3> QED BY <1>3, <3>1, <3>2, ZenonT(60) DEF entry_client, SameFiles, r
  <2> HIDE DEF s, row
  <2>7. /\ s.count = o.count /\ Len(s.clients) = Len(o.clients)
        /\ \A c \in 1..Len(o.clients) : s.clients[c] = IF c = o.cur THEN row ELSE o.clients[c]
    BY <1>4, <2>2, <2>4, <2>6, PutQuiet
  <2>8. Alike(s, db') /\ k'.op = "none" /\ k'.at = "core" /\ link' = link BY <2>1, <2>3, FinishConnectStep
  <2>9. Interest => Interest' BY <1>1, <1>4, <2>7, <2>8, EndStep DEF Alike
  <2>10. p.id \in ClientId BY <1>3, <1>4, <2>2
  <2>11. Cur(o).id = p.id /\ Cur(o) = db.clients[o.cur] BY <1>4, <2>2 DEF Cur
  <2>12. \A c \in 1..Len(db.clients) :
           \/ s.clients[c] = db.clients[c]
           \/ /\ db.clients[c].id = p.id /\ SameFiles(db.clients[c], s.clients[c])
              /\ s.clients[c].id = p.id /\ s.clients[c].addr = p.addr /\ s.clients[c].status = "ACTIVE"
    BY <1>4, <2>6, <2>7, <2>11
  <2>13. SameAgain BY <1>1, <1>4, <2>7, <2>8, <2>10, <2>12 DEF SameAgain
  <2> QED BY <1>4, <2>7, <2>8, <2>9, <2>13 DEF Alike
<1> QED BY <1>5, <1>6

\* The clean CONNECT: the old client is deleted and the new one added.
LEMMA RemoveDoneConnectStep ==
  ASSUME IInv, RemoveDoneConnect
  PROVE  /\ \/ Ordinary /\ Faithful(db, db')
            \/ k'.op = "none" /\ db'.count = db.count /\ Cleaned
         /\ Interest => Interest'
<1> DEFINE id == k.pk.id
           a == k.pk.addr
           d == k.pk.dur * 1000
           s == delete_client(db, id)
           t == add_client(s, id, a, d)
<1>1. Good(db) /\ ~db.error /\ k \in Control /\ k.pk \in Packets BY DEF IInv, CtlOK, Control
<1>2. k.at = "remove" /\ k.op = "connect" /\ get_client_subscription_count(db) = 0 BY DEF RemoveDoneConnect
<1>3. id \in ClientId /\ ~db.notin /\ (db.started => Cur(db).id = id) BY <1>2 DEF IInv, CtlOK
<1>4. a \in Address /\ d \in Nat
  <2>1. k.pk \in Packet BY <1>1, PacketAssumption
  <2> QED BY <2>1 DEF Packet
<1>5. FinishConnect(t, k.pk) BY DEF RemoveDoneConnect
<1> HIDE DEF id, a, d
<1>6. Good(s) BY <1>1, DeleteClientGood
<1>7. /\ s.count = db.count /\ Removed(db, s, id) /\ s.started = db.started
      /\ Usable(db) /\ get_client_subscription_count(db) = 0 =>
           /\ ~s.error /\ s.notin
           /\ (\E c \in 1..Len(db.clients) : db.clients[c].id = id) =>
                \E c \in 1..Len(db.clients) : db.clients[c].id = id /\ FreedRow(s.clients[c])
  BY <1>1, DeleteRows
<1>8. ~db.started => s = db BY DEF delete_client, Usable
<1> HIDE DEF s
<1>9. Good(t) BY <1>3, <1>4, <1>6, AddClientGood
<1>10. /\ t.count = s.count
       /\ IF s.started /\ ~s.error /\ s.notin THEN Added(s, t, id, a) ELSE t.clients = s.clients
  BY <1>3, <1>4, <1>6, AddRows
<1> HIDE DEF t
<1>11. Alike(t, db') /\ k'.op = "none" /\ k'.at = "core" /\ link' = link BY <1>1, <1>5, <1>9, FinishConnectStep
<1>12. IInv' BY NextInv DEF Next, Thread
<1>13. Good(db') BY <1>12 DEF IInv, CtlOK
<1>14. Interest => Interest' BY <1>2, <1>7, <1>10, <1>11, EndStep DEF Alike
<1>15. CASE ~db.started
  <2>1. t.clients = db.clients /\ t.count = db.count BY <1>7, <1>8, <1>10, <1>15
  <2>2. Alike(db, db') BY <1>11, <2>1 DEF Alike
  <2>3. Ordinary /\ Faithful(db, db')
    <3>1. Quiet(db, db') BY <1>1, <1>13, <2>2, AlikeKept DEF Quiet, Alike
    <3> QED BY <1>1, <1>11, <3>1, QuietFaithful, KeptStep DEF Ordinary, Quiet
  <2> QED BY <1>14, <2>3
<1>16. CASE db.started
  <2>1. Usable(db) BY <1>1, <1>3, <1>16 DEF Usable
  <2>2. db.cur \in 1..Len(db.clients) /\ db.clients[db.cur].id = id BY <1>1, <1>3, <1>16, <2>1, CurType DEF Cur
  <2>3. \E c \in 1..Len(db.clients) : db.clients[c].id = id /\ FreedRow(s.clients[c]) BY <1>2, <1>7, <2>1, <2>2
  <2>4. Added(s, t, id, a) BY <1>2, <1>7, <1>10, <1>16, <2>1
  <2>5. Unsubscribed(Cur(db)) BY <1>1, <1>2, <2>1, CountedNone
  <2>6. Cleaned BY <1>2, <1>3, <1>7, <1>11, <1>16, <2>1, <2>3, <2>4, <2>5 DEF Cleaned, id, a
  <2> QED BY <1>7, <1>10, <1>11, <1>14, <1>16, <2>6 DEF Alike
<1> QED BY <1>15, <1>16

\* The loop over the clients goes on, ends or runs past the end.
LEMMA NextVisitEnds ==
  ASSUME k \in Control, NEW s
  PROVE  NextVisit(k, s).op = "none" /\ NextVisit(k, s).at # "remove"
<1> DEFINE next == get_nth_client(s, k.i + 1).addr
           hung == [k EXCEPT !.at = "hung", !.op = "none"]
           go == [k EXCEPT !.i = @ + 1, !.fin = (next = k.last), !.op = "none", !.at = "visit"]
<1>1. NextVisit(k, s) \in {Phase("mqtt"), hung, go} BY DEF NextVisit
<1> HIDE DEF next
<1>2. hung.at = "hung" /\ hung.op = "none" BY DEF Control
<1>3. go.at = "visit" /\ go.op = "none" BY DEF Control
<1>4. Phase("mqtt").at = "mqtt" /\ Phase("mqtt").op = "none" BY PhaseType
<1> HIDE DEF hung, go
<1> QED BY <1>1, <1>2, <1>3, <1>4

\* The removal of a lost client.
LEMMA RemoveDoneLostStep ==
  ASSUME IInv, RemoveDoneLost
  PROVE  /\ k'.op = "none" /\ db'.count = db.count /\ Forgotten
         /\ Interest => Interest'
<1> DEFINE id == get_nth_client(db, k.i).id
           s == delete_client(db, id)
           t == apply_transaction(s)
<1>1. Good(db) /\ k \in Control BY DEF IInv, CtlOK
<1>2. k.at = "remove" /\ k.op = "lost" /\ db' = t /\ k' = NextVisit(k, t) /\ link' = link
  BY DEF RemoveDoneLost
<1> HIDE DEF id
<1>3. Good(s) BY <1>1, DeleteClientGood
<1>4. /\ s.count = db.count /\ Removed(db, s, id)
      /\ s.clients = db.clients \/ (Usable(db) /\ Unsubscribed(Cur(db)))
  BY <1>1, DeleteRows
<1> HIDE DEF s
<1>5. t.clients = s.clients /\ t.count = s.count BY <1>3, FlagsOnly
<1> HIDE DEF t
<1>6. k'.op = "none" /\ k'.at # "remove" BY <1>1, <1>2, NextVisitEnds
<1>7. Removed(db, db', id) BY <1>2, <1>4, <1>5 DEF Removed
<1>8. Forgotten BY <1>2, <1>4, <1>5, <1>7 DEF Forgotten, id
<1>9. Interest => Interest' BY <1>2, <1>4, <1>5, <1>6, EndStep
<1> QED BY <1>2, <1>4, <1>5, <1>6, <1>8, <1>9

\* A kill inside delete_client: the files of the slot go one by one, if at all.
LEMMA HalfDeletedRows ==
  ASSUME NEW s, Good(s), NEW u \in half_deleted(s)
  PROVE  /\ Len(u.clients) = Len(s.clients)
         /\ \A c \in 1..Len(s.clients) :
              LET r == s.clients[c]
                  q == u.clients[c]
              IN /\ SameClient(r, q)
                 /\ q.reg \in {r.reg, <<>>} /\ q.sub \in {r.sub, <<>>} /\ q.pub \in {r.pub, <<>>}
                 /\ (ExistsWorks /\ RemoveWorks) \/ SameFiles(r, q)
                 /\ c = s.cur \/ SameFiles(r, q)
<1> DEFINE c == Cur(s)
           d == FilesDeleted(c)
           Gone(r, q) ==
             /\ SameClient(r, q)
             /\ q.reg \in {r.reg, <<>>} /\ q.sub \in {r.sub, <<>>} /\ q.pub \in {r.pub, <<>>}
             /\ (ExistsWorks /\ RemoveWorks) \/ SameFiles(r, q)
<1>0. \A r : Gone(r, r) /\ SameFiles(r, r) BY DEF SameClient, SameFiles
<1>1. CASE u = s BY <1>0, <1>1
<1>2. CASE Usable(s) /\ u # s
  <2>1. c \in entry_client BY <1>2, CurType
  <2>2. d \in entry_client BY <2>1, RowTypes
  <2>3. PICK e \in {[c EXCEPT !.reg = d.reg], [c EXCEPT !.reg = d.reg, !.sub = d.sub],
                    [c EXCEPT !.reg = d.reg, !.sub = d.sub, !.will = d.will], d} : u = Put(s, e)
    BY <1>2 DEF half_deleted
  <2>4. /\ SameClient(c, d) /\ d.reg \in {c.reg, <<>>} /\ d.sub \in {c.sub, <<>>} /\ d.pub \in {c.pub, <<>>}
        /\ (ExistsWorks /\ RemoveWorks) \/ SameFiles(c, d)
    <3>1. CASE ExistsWorks /\ RemoveWorks
      BY <2>1, <3>1, ZenonT(60) DEF FilesDeleted, entry_client, SameClient
    <3>2. CASE ~(ExistsWorks /\ RemoveWorks) BY <1>0, <3>2 DEF FilesDeleted
    <3> QED BY <3>1, <3>2
  <2> HIDE DEF c, d
  <2>5. e \in entry_client /\ Gone(c, e)
    <3> DEFINE x == [c EXCEPT !.reg = d.reg]
               y == [c EXCEPT !.reg = d.reg, !.sub = d.sub]
               z == [c EXCEPT !.reg = d.reg, !.sub = d.sub, !.will = d.will]
    <3>1. /\ x \in entry_client /\ x.reg = d.reg /\ x.sub = c.sub /\ x.pub = c.pub
          /\ x.id = c.id /\ x.addr = c.addr /\ x.status = c.status
      BY <2>1, <2>2 DEF entry_client
    <3>2. /\ y \in entry_client /\ y.reg = d.reg /\ y.sub = d.sub /\ y.pub = c.pub
          /\ y.id = c.id /\ y.addr = c.addr /\ y.status = c.status
      BY <2>1, <2>2 DEF entry_client
    <3>3. /\ z \in entry_client /\ z.reg = d.reg /\ z.sub = d.sub /\ z.pub = c.pub
          /\ z.id = c.id /\ z.addr = c.addr /\ z.status = c.status
      BY <2>1, <2>2 DEF entry_client
    <3>4. e \in {x, y, z, d} BY <2>3
    <3> HIDE DEF x, y, z
    <3>5. CASE e = x BY <2>4, <3>1, <3>5 DEF SameClient, SameFiles
    <3>6. CASE e = y BY <2>4, <3>2, <3>6 DEF SameClient, SameFiles
    <3>7. CASE e = z BY <2>4, <3>3, <3>7 DEF SameClient, SameFiles
    <3>8. CASE e = d BY <2>2, <2>4, <3>8
    <3> QED BY <3>4, <3>5, <3>6, <3>7, <3>8
  <2>6. /\ Len(u.clients) = Len(s.clients)
        /\ \A n \in 1..Len(s.clients) : u.clients[n] = IF n = s.cur THEN e ELSE s.clients[n]
    BY <1>2, <2>3, <2>5, PutQuiet
  <2>7. c = s.clients[s.cur] BY DEF Cur, c
  <2> HIDE DEF Gone
  <2>8. \A n \in 1..Len(s.clients) :
          Gone(s.clients[n], u.clients[n]) /\ (n = s.cur \/ SameFiles(s.clients[n], u.clients[n]))
    BY <1>0, <2>5, <2>6, <2>7
  <2> QED BY <2>6, <2>8 DEF Gone
<1>3. CASE ~Usable(s) BY <1>0, <1>3 DEF half_deleted
<1> QED BY <1>1, <1>2, <1>3

\* A kill in the remove loop, between a deletion and its count or inside delete_client.
LEMMA KilledInRemoveStep ==
  ASSUME IInv, RowsProper(db), Crashes, KilledInRemove
  PROVE  /\ Ordinary \/ (k'.op = "none" /\ HalfGone)
         /\ Interest'
<1>1. Good(db) /\ k.at = "remove" BY DEF IInv, CtlOK, KilledInRemove
<1>2. (\E tid : Leave(delete_subscription(db, tid))) \/ \E s \in half_deleted(db) : Leave(s)
  BY DEF KilledInRemove
<1>3. CASE \E tid : Leave(delete_subscription(db, tid)) BY <1>3, KilledUncounted
<1>4. ASSUME NEW s \in half_deleted(db), Leave(s) PROVE k'.op = "none" /\ HalfGone /\ Interest'
  <2>1. Good(s) BY <1>1, HalfDeletedGood
  <2>2. k'.op = "none" /\ Interest' /\ db'.clients = s.clients BY <1>4, <2>1, LeaveStep
  <2>3. HalfGone BY <1>1, <2>2, HalfDeletedRows DEF HalfGone, KilledDeleting
  <2> QED BY <2>2, <2>3
<1> QED BY <1>2, <1>3, <1>4

---------------------------------------------------------------------------
(* Every step is one of these. *)

\* The registry is orderly: rows are proper and ids are used once.
Orderly(s) ==
  /\ RowsProper(s)
  /\ \A c, d \in 1..Len(s.clients) :
       s.clients[c].id = s.clients[d].id /\ s.clients[c].id # NoId => c = d

(***************************************************************************)
(* What UniqueIds needs to be inductive: the packet of a clean CONNECT is  *)
(* kept while the old client is removed.                                   *)
(***************************************************************************)
Owned ==
  /\ Orderly(db)
  /\ k.op = "connect" => k.pk.type = "CONNECT"

\* A step that moves clients, and counts no subscription.
Moved == db'.count = db.count /\ (NewClient \/ SameAgain \/ Cleaned \/ Forgotten)

Special == k'.op = "none" /\ (Moved \/ HalfGone)

(***************************************************************************)
(* A step that takes no subscription away and counts none up.  The others  *)
(* are treated one by one where the counts are compared with the files.    *)
(***************************************************************************)
Counted ==
  \/ Faithful(db, db') \/ Moved \/ RemoveStep \/ KilledDeleting
  \/ \E p \in Packets : Subscribe(p) \/ Unsubscribe(p)

\* A step is ordinary, or finds a will, or ends one of the operations that move clients.
LEMMA Steps ==
  ASSUME IInv, Owned, [Next]_vars
  PROVE  /\ Interest => Interest'
         /\ Ordinary \/ (Spent(db, db') /\ WillFound /\ NothingLost) \/ Special
         /\ Counted
<1>0. RowsProper(db) /\ Good(db) BY DEF Owned, Orderly, IInv, CtlOK
<1>1. CASE Boot \/ Crash \/ Reconnect \/ YieldDone \/ ConnectionLost \/ BrokerSubscribes
           \/ ReceiveNothing
  BY <1>1, ProcessStep DEF Counted
<1>2. CASE Deliver \/ \E t \in Topic, d \in Payload : Arrive(t, d) BY <1>2, DeliveryStep DEF Counted
<1>3. CASE CoreLoopOnline \/ CoreLoopOffline BY <1>3, CoreLoopStep DEF Counted
<1>4. CASE Visit \/ VisitTimed BY <1>0, <1>4, VisitStep DEF Counted
<1>5. CASE VisitWill BY <1>0, <1>5, VisitWillStep, QuietFaithful DEF Counted
<1>6. CASE RemoveStep BY <1>6, RemoveStepStep DEF Counted
<1>7. CASE RemoveDoneConnect BY <1>7, RemoveDoneConnectStep DEF Special, Moved, Counted
<1>8. CASE RemoveDoneLost BY <1>8, RemoveDoneLostStep DEF Special, Moved, Counted
<1>9. CASE CallDone BY <1>9, CallDoneStep DEF Counted
<1>10. CASE PublishAgain BY <1>10, PublishStep DEF Counted
<1>11. ASSUME NEW p \in Packets, Handle(p)
       PROVE  (Interest => Interest') /\ (Ordinary \/ Special) /\ Counted
  <2>1. CASE ConnectOffline(p) \/ ConnectClean(p) BY <2>1, ConnectStep DEF Counted
  <2>2. CASE ConnectNew(p) \/ ConnectAgain(p) BY <2>2, ConnectedStep DEF Special, Moved, Counted
  <2>3. CASE \/ WillTopic(p) \/ WillMsg(p) \/ Register(p) \/ RegAck(p)
             \/ PubAck(p) \/ PingReq(p) \/ Disconnect(p)
    BY <2>3, PacketStep DEF Counted
  <2>4. CASE Publish(p) BY <2>4, PublishStep DEF Counted
  <2>5. CASE Subscribe(p) BY <2>5, SubscribeStep DEF Counted
  <2>6. CASE Unsubscribe(p) BY <2>6, UnsubscribeStep DEF Counted
  <2> QED BY <1>11, <2>1, <2>2, <2>3, <2>4, <2>5, <2>6 DEF Handle
<1>12. CASE CrashInside
  <2>1. CASE KilledInRemove
    BY <1>0, <1>12, <2>1, KilledInRemoveStep DEF CrashInside, KilledDeleting, Special, Counted
  <2>2. CASE KilledInTimeout \/ \E p \in Packets : KilledInSubscribe(p)
    BY <1>0, <2>2, KilledQuietly DEF Counted
  <2>3. CASE \E p \in Packets : KilledInUnsubscribe(p)
    BY <1>12, <2>3, KilledUncounted DEF CrashInside, KilledDeleting, Counted
  <2> QED BY <1>12, <2>1, <2>2, <2>3 DEF CrashInside
<1>13. CASE UNCHANGED vars
  <2>1. db' = db /\ k' = k /\ link' = link BY <1>13 DEF vars
  <2>2. Kept(db, db) /\ Still(db, db) BY <1>0, QuietRefl
  <2>3. Ordinary BY <2>1, <2>2, KeptStep DEF Ordinary
  <2>4. Interest => Interest' BY <2>1, AsideStep DEF Held
  <2>5. Counted BY <1>0, <2>1, QuietRefl, QuietFaithful DEF Counted
  <2> QED BY <2>3, <2>4, <2>5
<1> QED BY <1>1, <1>2, <1>3, <1>4, <1>5, <1>6, <1>7, <1>8, <1>9, <1>10, <1>11, <1>12, <1>13 DEF Next, Thread

---------------------------------------------------------------------------
(* The registry stays orderly. *)

\* Rows that keep their client.
LEMMA AlikeOrderly ==
  ASSUME NEW s, NEW t, Orderly(s), Alike(s, t)
  PROVE  Orderly(t)
<1>1. ASSUME NEW c \in 1..Len(s.clients) PROVE Proper(t.clients[c])
  <2>1. Proper(s.clients[c]) BY DEF Orderly, RowsProper
  <2> QED BY <2>1 DEF Alike, SameClient, Proper
<1> QED BY <1>1 DEF Orderly, RowsProper, Alike, SameClient

\* A row carried on is as proper as before and has the same id.
LEMMA CarriedOrderly ==
  ASSUME NEW s, NEW t, Orderly(s), Carried(s, t)
  PROVE  Orderly(t)
BY DEF Orderly, RowsProper, Carried, RowCarried

\* A new client.
LEMMA AddedOrderly ==
  ASSUME NEW s, Len(s.clients) \in Nat, NEW t, Orderly(s), NEW p \in Packets, p.type = "CONNECT",
         p.id \in ClientId, Added(s, t, p.id, p.addr),
         \A c \in 1..Len(s.clients) : s.clients[c].id # p.id
  PROVE  Orderly(t)
<1>1. Len(s.clients) \in Nat OBVIOUS
<1>2. p.addr \in Address /\ p.addr # NoAddress /\ p.id # NoId
  <2>1. p \in Packet BY PacketAssumption
  <2> QED BY <2>1, IdAssumption DEF Packet
<1>3. PICK i \in 1..(Len(s.clients) + 1) :
        /\ Len(t.clients) = IF i <= Len(s.clients) THEN Len(s.clients) ELSE i
        /\ \A c \in 1..Len(s.clients) : c # i => t.clients[c] = s.clients[c]
        /\ t.clients[i].id = p.id /\ t.clients[i].addr = p.addr /\ t.clients[i].status = "ACTIVE"
  BY DEF Added
<1>4. \A c \in 1..Len(t.clients) : c = i \/ (c \in 1..Len(s.clients) /\ t.clients[c] = s.clients[c])
  BY <1>1, <1>3
<1>5. Proper(t.clients[i]) BY <1>2, <1>3 DEF Proper
<1>6. RowsProper(t) BY <1>4, <1>5 DEF RowsProper, Orderly
<1>7. ASSUME NEW c \in 1..Len(t.clients), NEW d \in 1..Len(t.clients),
             t.clients[c].id = t.clients[d].id, t.clients[c].id # NoId
      PROVE  c = d
  BY <1>3, <1>4, <1>7 DEF Orderly
<1> QED BY <1>6, <1>7 DEF Orderly

\* A client that comes back.
LEMMA AgainOrderly ==
  ASSUME NEW s, NEW t, Orderly(s), NEW p \in Packets, p.type = "CONNECT", p.id \in ClientId,
         Len(t.clients) = Len(s.clients),
         \A c \in 1..Len(s.clients) :
           \/ t.clients[c] = s.clients[c]
           \/ /\ s.clients[c].id = p.id
              /\ t.clients[c].id = p.id /\ t.clients[c].addr = p.addr /\ t.clients[c].status = "ACTIVE"
  PROVE  Orderly(t)
<1>1. p.addr \in Address /\ p.addr # NoAddress /\ p.id # NoId
  <2>1. p \in Packet BY PacketAssumption
  <2> QED BY <2>1, IdAssumption DEF Packet
<1>2. ASSUME NEW c \in 1..Len(s.clients) PROVE Proper(t.clients[c])
  <2>1. Proper(s.clients[c]) BY DEF Orderly, RowsProper
  <2>2. CASE t.clients[c] = s.clients[c] BY <2>1, <2>2
  <2>3. CASE t.clients[c].id = p.id /\ t.clients[c].addr = p.addr /\ t.clients[c].status = "ACTIVE"
    BY <1>1, <2>3 DEF Proper
  <2> QED BY <2>2, <2>3
<1>3. \A c \in 1..Len(s.clients) : t.clients[c].id = s.clients[c].id OBVIOUS
<1> QED BY <1>2, <1>3 DEF Orderly, RowsProper

\* A removed client leaves an orderly registry without it.
LEMMA RemovedOrderly ==
  ASSUME NEW s, NEW t, Orderly(s), NEW id, Removed(s, t, id)
  PROVE  /\ Orderly(t)
         /\ id # NoId /\ (\E c \in 1..Len(s.clients) : s.clients[c].id = id /\ FreedRow(t.clients[c])) =>
              \A c \in 1..Len(t.clients) : t.clients[c].id # id
<1>1. Len(t.clients) = Len(s.clients) BY DEF Removed
<1>2. \A c \in 1..Len(s.clients) :
        t.clients[c].id = s.clients[c].id \/ (t.clients[c].id = NoId /\ s.clients[c].id = id)
  BY DEF Removed, SameClient, FreedRow
<1>3. ASSUME NEW c \in 1..Len(s.clients) PROVE Proper(t.clients[c])
  <2>1. Proper(s.clients[c]) BY DEF Orderly, RowsProper
  <2> QED BY <2>1 DEF Removed, SameClient, FreedRow, Proper
<1>4. Orderly(t) BY <1>1, <1>2, <1>3 DEF Orderly, RowsProper
<1>5. ASSUME id # NoId, NEW c \in 1..Len(s.clients), s.clients[c].id = id, FreedRow(t.clients[c])
      PROVE  \A d \in 1..Len(t.clients) : t.clients[d].id # id
  BY <1>1, <1>2, <1>5 DEF Orderly, FreedRow
<1> QED BY <1>4, <1>5

\* Every step leaves the registry orderly.
LEMMA OwnedNext ==
  ASSUME IInv, Owned, [Next]_vars
  PROVE  Owned'
<1>1. Ordinary \/ (Spent(db, db') /\ WillFound /\ NothingLost) \/ Special BY Steps
<1>2. Good(db) /\ Orderly(db) BY DEF IInv, CtlOK, Owned
<1>3. CASE Ordinary BY <1>2, <1>3, CarriedOrderly DEF Ordinary, Owned
<1>4. CASE Spent(db, db') /\ WillFound BY <1>2, <1>4, CarriedOrderly, SpentCarried DEF WillFound, Owned
<1>5. CASE Special
  <2>0. k'.op # "connect" BY <1>5 DEF Special, Moved
  <2>1. CASE NewClient
    <3>1. PICK p \in Packets : \E s :
            /\ p.type = "CONNECT" /\ p.id \in ClientId
            /\ \A c \in 1..Len(db.clients) : db.clients[c].id # p.id
            /\ Added(db, s, p.id, p.addr) /\ Alike(s, db')
      BY <2>1 DEF NewClient
    <3>2. PICK s : Added(db, s, p.id, p.addr) /\ Alike(s, db') BY <3>1
    <3>3. Orderly(s)
      <4>1. Len(db.clients) \in Nat BY <1>2, RowsType
      <4> QED BY <1>2, <3>1, <3>2, <4>1, AddedOrderly
    <3>4. Orderly(db') BY <3>2, <3>3, AlikeOrderly
    <3> QED BY <2>0, <3>4 DEF Owned
  <2>2. CASE SameAgain
    <3>1. PICK p \in Packets : \E s :
            /\ p.type = "CONNECT" /\ p.id \in ClientId
            /\ Len(s.clients) = Len(db.clients)
            /\ \A c \in 1..Len(db.clients) :
                 \/ s.clients[c] = db.clients[c]
                 \/ /\ db.clients[c].id = p.id
                    /\ s.clients[c].id = p.id /\ s.clients[c].addr = p.addr /\ s.clients[c].status = "ACTIVE"
            /\ Alike(s, db')
      BY <2>2 DEF SameAgain
    <3>2. PICK s :
            /\ Len(s.clients) = Len(db.clients)
            /\ \A c \in 1..Len(db.clients) :
                 \/ s.clients[c] = db.clients[c]
                 \/ /\ db.clients[c].id = p.id
                    /\ s.clients[c].id = p.id /\ s.clients[c].addr = p.addr /\ s.clients[c].status = "ACTIVE"
            /\ Alike(s, db')
      BY <3>1
    <3>3. Orderly(s) BY <1>2, <3>1, <3>2, AgainOrderly
    <3>4. Orderly(db') BY <3>2, <3>3, AlikeOrderly
    <3> QED BY <2>0, <3>4 DEF Owned
  <2>3. CASE Cleaned
    <3>1. k.pk \in Packets /\ k.pk.type = "CONNECT" /\ k.pk.id \in ClientId /\ k.pk.id # NoId
      BY <2>3, IdAssumption DEF Cleaned, Owned, IInv, CtlOK, Control
    <3>2. PICK s, t :
            /\ Removed(db, s, k.pk.id)
            /\ \E c \in 1..Len(db.clients) : db.clients[c].id = k.pk.id /\ FreedRow(s.clients[c])
            /\ Added(s, t, k.pk.id, k.pk.addr) /\ Alike(t, db')
      BY <2>3 DEF Cleaned
    <3>3. Orderly(s) /\ \A c \in 1..Len(s.clients) : s.clients[c].id # k.pk.id
      BY <1>2, <3>1, <3>2, RemovedOrderly
    <3>4. Len(s.clients) \in Nat BY <1>2, <3>2, RowsType DEF Removed
    <3>5. Orderly(t) BY <3>1, <3>2, <3>3, <3>4, AddedOrderly
    <3>6. Orderly(db') BY <3>2, <3>5, AlikeOrderly
    <3> QED BY <2>0, <3>6 DEF Owned
  <2>4. CASE Forgotten BY <1>2, <2>0, <2>4, RemovedOrderly DEF Forgotten, Owned
  <2>5. CASE HalfGone
    <3>1. Len(db'.clients) = Len(db.clients) /\ \A c \in 1..Len(db.clients) : SameClient(db.clients[c], db'.clients[c])
      BY <2>5 DEF HalfGone
    <3>2. ASSUME NEW c \in 1..Len(db.clients) PROVE Proper(db'.clients[c])
      <4>1. Proper(db.clients[c]) BY <1>2 DEF Orderly, RowsProper
      <4> QED BY <3>1, <4>1 DEF SameClient, Proper
    <3>3. Orderly(db') BY <1>2, <3>1, <3>2 DEF Orderly, RowsProper, SameClient
    <3> QED BY <2>0, <3>3 DEF Owned
  <2> QED BY <1>5, <2>1, <2>2, <2>3, <2>4, <2>5 DEF Special, Moved
<1> QED BY <1>1, <1>3, <1>4, <1>5

---------------------------------------------------------------------------
(* The theorems that need no hypothesis. *)

\* An empty gateway.
LEMMA InitOwned == Init => Owned /\ Interest
<1> SUFFICES ASSUME Init PROVE Owned /\ Interest OBVIOUS
<1>1. db.clients = <<>> /\ k = Phase("down") /\ link.bsub = {} BY DEF Init, EmptyStore, Unlinked
<1>2. k.at = "down" /\ k.op = "none" BY <1>1, PhaseType
<1>3. 1..Len(db.clients) = {} BY <1>1
<1>4. Owned BY <1>2, <1>3 DEF Owned, Orderly, RowsProper
<1>5. Interest BY <1>1, <1>2 DEF Interest, NoOrphan, BufferStable
<1> QED BY <1>4, <1>5

\* The strengthened invariant holds in every reachable state.
THEOREM Ownership == Spec => [](IInv /\ Owned /\ Interest)
<1>1. Init => IInv /\ Owned /\ Interest BY InitInv, InitOwned
<1>2. (IInv /\ Owned /\ Interest) /\ [Next]_vars => (IInv /\ Owned /\ Interest)'
  <2> SUFFICES ASSUME IInv, Owned, Interest, [Next]_vars PROVE IInv' /\ Owned' /\ Interest' OBVIOUS
  <2>1. IInv' BY NextInv
  <2>2. Owned' BY OwnedNext
  <2>3. Interest' BY Steps
  <2> QED BY <2>1, <2>2, <2>3
<1> QED BY <1>1, <1>2, PTL DEF Spec

(***************************************************************************)
(* A client id never has two slots, whatever clients connect, come back,   *)
(* are cleaned or lost, and wherever the process is killed.                *)
(***************************************************************************)
THEOREM OneSlotPerClient == Spec => []UniqueIds
<1>1. IInv /\ Owned => UniqueIds
  <2> SUFFICES ASSUME IInv, Owned PROVE UniqueIds OBVIOUS
  <2>1. DOMAIN db.clients = 1..Len(db.clients) BY RowsType DEF IInv, CtlOK
  <2> QED BY <2>1 DEF Owned, Orderly, UniqueIds
<1> QED BY <1>1, Ownership, PTL

(***************************************************************************)
(* A subscription at the broker never outlives the gateway's interest,     *)
(* whatever calls fail, connections break or kills happen.                 *)
(***************************************************************************)
THEOREM NoOrphanedSubscription == Spec => []NoOrphan
<1>1. Interest => NoOrphan BY DEF Interest
<1> QED BY <1>1, Ownership, PTL

(***************************************************************************)
(* The topic name a SUBSCRIBE uses after the broker call is the one it was *)
(* called with: no message delivered during the call overwrites it.        *)
(***************************************************************************)
THEOREM BufferKept == Spec => []BufferStable
<1>1. Interest => BufferStable BY DEF Interest
<1> QED BY <1>1, Ownership, PTL

\* What a step may do to the registrations of a slot.
RegStep ==
  \A c \in DOMAIN db.clients :
    \/ IsPrefix(db.clients[c].reg, db'.clients[c].reg)
    \/ k.at = "remove" /\ db'.clients[c].reg = <<>>

\* The rows of the next store that belong to old ones.
LEMMA RowsAfter ==
  ASSUME IInv, Owned, [Next]_vars
  PROVE  \A c \in 1..Len(db.clients) :
           /\ db.clients[c] \in entry_client /\ db'.clients[c] \in entry_client
           /\ \/ Grows(db.clients[c].reg, db'.clients[c].reg)
              \/ db'.clients[c].reg = db.clients[c].reg
              \/ k.at = "remove" /\ db'.clients[c].reg = <<>>
<1>1. Good(db) BY DEF IInv, CtlOK
<1>2. IInv' BY NextInv
<1>3. Good(db') BY <1>2 DEF IInv, CtlOK
<1>4. Len(db.clients) \in Nat /\ Len(db'.clients) \in Nat BY <1>1, <1>3, RowsType
<1>5. Ordinary \/ (Spent(db, db') /\ WillFound /\ NothingLost) \/ Special BY Steps
<1> DEFINE Reg(s) == \A c \in 1..Len(db.clients) :
                       \/ s.clients[c].reg = db.clients[c].reg
                       \/ k.at = "remove" /\ s.clients[c].reg = <<>>
<1>6. ASSUME NEW s, Len(s.clients) \in Nat, NEW t, NEW id, NEW a, Added(s, t, id, a), Len(s.clients) = Len(db.clients), Reg(s)
      PROVE  Len(t.clients) >= Len(db.clients) /\ Reg(t)
  <2>1. PICK i \in 1..(Len(s.clients) + 1) :
          /\ Len(t.clients) = IF i <= Len(s.clients) THEN Len(s.clients) ELSE i
          /\ \A c \in 1..Len(s.clients) : c # i => t.clients[c] = s.clients[c]
          /\ i <= Len(s.clients) => SameFiles(s.clients[i], t.clients[i])
    BY <1>6 DEF Added
  <2>2. \A c \in 1..Len(s.clients) : t.clients[c].reg = s.clients[c].reg BY <1>6, <2>1 DEF SameFiles
  <2> QED BY <1>6, <2>1, <2>2
<1>7. ASSUME NEW s, Alike(s, db'), Len(s.clients) \in Nat, Len(s.clients) >= Len(db.clients), Reg(s)
      PROVE  Len(db'.clients) >= Len(db.clients) /\ Reg(db')
  <2>1. \A c \in 1..Len(db.clients) : c \in 1..Len(s.clients) BY <1>4, <1>7
  <2>2. \A c \in 1..Len(db.clients) : db'.clients[c].reg = s.clients[c].reg BY <1>7, <2>1 DEF Alike, SameFiles
  <2>3. Len(db'.clients) = Len(s.clients) BY <1>7 DEF Alike
  <2> QED BY <1>7, <2>2, <2>3
<1>8. CASE Special
  <2>0. Reg(db) OBVIOUS
  <2>1. ASSUME NewClient PROVE Len(db'.clients) >= Len(db.clients) /\ Reg(db')
    <3>1. PICK p \in Packets : \E s : Added(db, s, p.id, p.addr) /\ Alike(s, db') BY <2>1 DEF NewClient
    <3>2. PICK s : Added(db, s, p.id, p.addr) /\ Alike(s, db') BY <3>1
    <3> HIDE DEF Reg
    <3>3. Len(s.clients) >= Len(db.clients) /\ Reg(s) BY <1>4, <1>6, <2>0, <3>2
    <3>4. Len(s.clients) \in Nat BY <1>4, <3>2 DEF Alike
    <3> QED BY <1>7, <3>2, <3>3, <3>4
  <2>2. ASSUME SameAgain PROVE Len(db'.clients) >= Len(db.clients) /\ Reg(db')
    <3>1. PICK s : /\ Len(s.clients) = Len(db.clients) /\ Alike(s, db')
                   /\ \A c \in 1..Len(db.clients) :
                        s.clients[c] = db.clients[c] \/ SameFiles(db.clients[c], s.clients[c])
      BY <2>2 DEF SameAgain
    <3>2. Reg(s) BY <3>1 DEF SameFiles
    <3> HIDE DEF Reg
    <3> QED BY <1>4, <1>7, <3>1, <3>2
  <2>3. ASSUME Cleaned PROVE Len(db'.clients) >= Len(db.clients) /\ Reg(db')
    <3>1. PICK s, t : Removed(db, s, k.pk.id) /\ Added(s, t, k.pk.id, k.pk.addr) /\ Alike(t, db')
      BY <2>3 DEF Cleaned
    <3>2. Reg(s) /\ Len(s.clients) = Len(db.clients) BY <2>3, <3>1 DEF Removed, SameFiles, NoFiles, Cleaned
    <3> HIDE DEF Reg
    <3>3. Len(t.clients) >= Len(db.clients) /\ Reg(t) BY <1>4, <1>6, <3>1, <3>2
    <3>4. Len(t.clients) \in Nat BY <1>4, <3>1 DEF Alike
    <3> QED BY <1>7, <3>1, <3>3, <3>4
  <2>4. ASSUME Forgotten PROVE Len(db'.clients) >= Len(db.clients) /\ Reg(db')
    BY <1>4, <2>4 DEF Forgotten, Removed, SameFiles, NoFiles
  <2>5. ASSUME HalfGone PROVE Len(db'.clients) >= Len(db.clients) /\ Reg(db')
    BY <1>4, <2>5 DEF HalfGone
  <2>6. Len(db'.clients) >= Len(db.clients) /\ Reg(db') BY <1>8, <2>1, <2>2, <2>3, <2>4, <2>5 DEF Special, Moved
  <2>7. \A c \in 1..Len(db.clients) : c \in 1..Len(db'.clients) BY <1>4, <2>6
  <2> QED BY <1>1, <1>3, <2>6, <2>7, RowsType
<1>9. CASE Carried(db, db') BY <1>1, <1>3, <1>9, RowsType DEF Carried, RowCarried
<1> QED BY <1>5, <1>8, <1>9, SpentCarried DEF Ordinary

(***************************************************************************)
(* A topic id keeps its meaning in every step of every behaviour: the      *)
(* registrations of a slot grow at the end, or go away all at once in the  *)
(* removal of the client.                                                  *)
(***************************************************************************)
THEOREM TopicIdsKept == Spec => RegStable
<1>1. IInv /\ Owned /\ [Next]_vars => RegStep
  <2> SUFFICES ASSUME IInv, Owned, [Next]_vars PROVE RegStep OBVIOUS
  <2>1. DOMAIN db.clients = 1..Len(db.clients) BY RowsType DEF IInv, CtlOK
  <2> SUFFICES ASSUME NEW c \in 1..Len(db.clients)
               PROVE  \/ IsPrefix(db.clients[c].reg, db'.clients[c].reg)
                      \/ k.at = "remove" /\ db'.clients[c].reg = <<>>
    BY <2>1 DEF RegStep
  <2>2. db.clients[c].reg \in Seq(Name) /\ db'.clients[c].reg \in Seq(Name)
    BY RowsAfter DEF entry_client
  <2>3. \/ Grows(db.clients[c].reg, db'.clients[c].reg)
        \/ db'.clients[c].reg = db.clients[c].reg
        \/ k.at = "remove" /\ db'.clients[c].reg = <<>>
    BY RowsAfter
  <2>4. Grows(db.clients[c].reg, db.clients[c].reg) BY <2>2, GrowsTrans
  <2> QED BY <2>2, <2>3, <2>4, GrowsPrefix
<1>2. RegStable <=> [][RegStep]_vars BY DEF RegStable, RegStep
<1> QED BY <1>1, <1>2, Ownership, PTL DEF Spec

---------------------------------------------------------------------------
(* The files of a slot agree. *)

AllFiles(s) == \A c \in 1..Len(s.clients) : FilesOK(s.clients[c])

\* delete_client is not killed between two files it really removes.
WholeDeletion == ~(Crashes /\ ExistsWorks /\ RemoveWorks)

\* Files carried over agree, and so do empty ones.
LEMMA CarriedFiles ==
  ASSUME NEW r, NEW q
  PROVE  (FilesOK(r) /\ SameFiles(r, q) => FilesOK(q)) /\ (NoFiles(q) => FilesOK(q))
BY DEF FilesOK, RegOK, SubOK, PubOK, SameFiles, NoFiles

\* The operations that move clients carry files over, or empty them.
LEMMA CarriedRows ==
  ASSUME NEW s, Len(s.clients) \in Nat, AllFiles(s), NEW t
  PROVE  /\ Alike(s, t) => AllFiles(t)
         /\ \A id : Removed(s, t, id) => AllFiles(t)
         /\ \A id, a : Added(s, t, id, a) => AllFiles(t)
<1>1. Alike(s, t) => AllFiles(t) BY CarriedFiles DEF Alike, AllFiles
<1>2. ASSUME NEW id, Removed(s, t, id) PROVE AllFiles(t) BY <1>2, CarriedFiles DEF Removed, AllFiles
<1>3. ASSUME NEW id, NEW a, Added(s, t, id, a) PROVE AllFiles(t)
  <2>1. PICK i \in 1..(Len(s.clients) + 1) :
          /\ Len(t.clients) = IF i <= Len(s.clients) THEN Len(s.clients) ELSE i
          /\ \A c \in 1..Len(s.clients) : c # i => t.clients[c] = s.clients[c]
          /\ IF i <= Len(s.clients) THEN SameFiles(s.clients[i], t.clients[i]) ELSE NoFiles(t.clients[i])
    BY <1>3 DEF Added
  <2>2. FilesOK(t.clients[i]) BY <2>1, CarriedFiles DEF AllFiles
  <2>3. \A c \in 1..Len(t.clients) : c = i \/ (c \in 1..Len(s.clients) /\ t.clients[c] = s.clients[c])
    BY <2>1
  <2> QED BY <2>2, <2>3 DEF AllFiles
<1> QED BY <1>1, <1>2, <1>3

\* Every step leaves files that agree.
LEMMA FilesNext ==
  ASSUME IInv, Owned, WholeDeletion \/ ~KilledDeleting, AllFiles(db), [Next]_vars
  PROVE  AllFiles(db')
<1>1. Len(db.clients) \in Nat BY RowsType DEF IInv, CtlOK
<1>2. Ordinary \/ (Spent(db, db') /\ WillFound /\ NothingLost) \/ Special BY Steps
<1>3. CASE Carried(db, db') BY <1>3 DEF Carried, RowCarried, AllFiles
<1>4. CASE NewClient
  <2>1. PICK p \in Packets : \E s : Added(db, s, p.id, p.addr) /\ Alike(s, db') BY <1>4 DEF NewClient
  <2>2. PICK s : Added(db, s, p.id, p.addr) /\ Alike(s, db') BY <2>1
  <2>3. AllFiles(s) BY <1>1, <2>2, CarriedRows
  <2>4. Len(s.clients) \in Nat BY <1>1, <2>2 DEF Added
  <2> QED BY <2>2, <2>3, <2>4, CarriedRows
<1>5. CASE SameAgain
  <2>1. PICK s : /\ Len(s.clients) = Len(db.clients) /\ Alike(s, db')
                 /\ \A c \in 1..Len(db.clients) :
                      s.clients[c] = db.clients[c] \/ SameFiles(db.clients[c], s.clients[c])
    BY <1>5 DEF SameAgain
  <2>2. AllFiles(s) BY <2>1, CarriedFiles DEF AllFiles
  <2> QED BY <1>1, <2>1, <2>2, CarriedRows
<1>6. CASE Cleaned
  <2>1. PICK s, t : Removed(db, s, k.pk.id) /\ Added(s, t, k.pk.id, k.pk.addr) /\ Alike(t, db')
    BY <1>6 DEF Cleaned
  <2>2. AllFiles(s) BY <1>1, <2>1, CarriedRows
  <2>3. Len(s.clients) \in Nat BY <1>1, <2>1 DEF Removed
  <2>4. AllFiles(t) BY <2>1, <2>2, <2>3, CarriedRows
  <2>5. Len(t.clients) \in Nat BY <2>1, <2>3 DEF Added
  <2> QED BY <2>1, <2>4, <2>5, CarriedRows
<1>7. CASE Forgotten BY <1>1, <1>7, CarriedRows DEF Forgotten
<1>8. CASE HalfGone
  <2>1. /\ Len(db'.clients) = Len(db.clients)
        /\ \A c \in 1..Len(db.clients) : SameFiles(db.clients[c], db'.clients[c])
    BY <1>8 DEF HalfGone, WholeDeletion, KilledDeleting
  <2> QED BY <2>1, CarriedFiles DEF AllFiles
<1> QED BY <1>2, <1>3, <1>4, <1>5, <1>6, <1>7, <1>8, SpentCarried DEF Special, Moved, Ordinary

\* They agree in every reachable state.
LEMMA FilesKept == ASSUME WholeDeletion PROVE Spec => []AllFiles(db)
<1>1. Init => AllFiles(db)
  <2> SUFFICES ASSUME Init PROVE AllFiles(db) OBVIOUS
  <2>1. db.clients = <<>> BY DEF Init, EmptyStore
  <2> QED BY <2>1 DEF AllFiles
<1>2. IInv /\ Owned /\ AllFiles(db) /\ [Next]_vars => AllFiles(db)'
  <2> SUFFICES ASSUME IInv, Owned, AllFiles(db), [Next]_vars PROVE AllFiles(db') BY DEF AllFiles
  <2> QED BY FilesNext
<1> QED BY <1>1, <1>2, Ownership, PTL DEF Spec

(***************************************************************************)
(* The files of a slot agree in every reachable state, unless the process  *)
(* is killed inside delete_client on a file system where exists and remove *)
(* both work: then the registrations may be gone and the queue left.       *)
(***************************************************************************)
THEOREM FilesAgree == ASSUME WholeDeletion PROVE Spec => []RefIntegrity
<1>1. IInv /\ AllFiles(db) => RefIntegrity
  <2> SUFFICES ASSUME IInv, AllFiles(db) PROVE RefIntegrity OBVIOUS
  <2>1. DOMAIN db.clients = 1..Len(db.clients) BY RowsType DEF IInv, CtlOK
  <2>2. ASSUME NEW c \in 1..Len(db.clients)
        PROVE  LET r == db.clients[c]
               IN /\ \A i, j \in DOMAIN r.reg : r.reg[i] = r.reg[j] => i = j
                  /\ \A i \in DOMAIN r.sub :
                       IF r.sub[i].tid = 0 THEN r.sub[i].name = Empty
                       ELSE /\ r.sub[i].tid \in DOMAIN r.reg
                            /\ r.reg[r.sub[i].tid] = r.sub[i].name
                            /\ \A j \in DOMAIN r.sub : r.sub[j].name = r.sub[i].name => i = j
                  /\ \A i \in DOMAIN r.pub :
                       r.pub[i].pid # 0 =>
                         /\ r.pub[i].pid = i
                         /\ r.pub[i].tid \in DOMAIN r.reg
                         /\ r.pub[i].data # Damaged => r.reg[r.pub[i].tid] = r.pub[i].data[1]
    BY <2>2 DEF AllFiles, FilesOK, RegOK, SubOK, PubOK
  <2> QED BY <2>1, <2>2 DEF RefIntegrity
<1> QED BY <1>1, Ownership, FilesKept, PTL

---------------------------------------------------------------------------
(* The counts of the subscriptions. *)

\* The rows whose clients are subscribed to x.
Members(s, x) == {c \in 1..Len(s.clients) : SubscribedTo(s.clients[c], x)}

\* No topic is counted more often than clients are subscribed to it.
Bounded(s) == \A x \in Topic : s.count[x] <= Cardinality(Members(s, x))

\* The registry is finite.
LEMMA MembersFinite ==
  ASSUME NEW s, Good(s), NEW x
  PROVE  IsFiniteSet(Members(s, x)) /\ Cardinality(Members(s, x)) \in Nat
<1>1. Len(s.clients) \in Nat BY RowsType
<1>2. IsFiniteSet(1..Len(s.clients)) BY <1>1, FS_Interval
<1>3. Members(s, x) \in SUBSET (1..Len(s.clients)) BY DEF Members
<1>4. IsFiniteSet(Members(s, x)) BY <1>2, <1>3, FS_Subset
<1> QED BY <1>4, FS_CardinalityType

\* A topic is counted up once at most, and only for a client that joins.
LEMMA LoyalBounded ==
  ASSUME NEW s, Good(s), NEW t, Good(t), Bounded(s), Loyal(s, t),
         \A x \in Topic : t.count[x] <= s.count[x] \/ (t.count[x] = s.count[x] + 1 /\ Joined(s, t, x))
  PROVE  Bounded(t)
<1> SUFFICES ASSUME NEW x \in Topic PROVE t.count[x] <= Cardinality(Members(t, x)) BY DEF Bounded
<1> DEFINE S == Members(s, x)
           T == Members(t, x)
<1>1. /\ IsFiniteSet(S) /\ Cardinality(S) \in Nat
      /\ IsFiniteSet(T) /\ Cardinality(T) \in Nat
  BY MembersFinite
<1>2. s.count[x] \in Nat /\ t.count[x] \in Nat BY DEF Good, Store
<1>3. s.count[x] <= Cardinality(S) BY DEF Bounded
<1>4. Len(s.clients) \in Nat /\ Len(t.clients) \in Nat /\ Len(s.clients) <= Len(t.clients)
  BY RowsType DEF Loyal
<1>5. S \subseteq T BY <1>4 DEF Members, Loyal, RowLoyal
<1>6. CASE t.count[x] <= s.count[x]
  <2> HIDE DEF S, T
  <2>1. Cardinality(S) <= Cardinality(T) BY <1>1, <1>5, FS_Subset
  <2> QED BY <1>1, <1>2, <1>3, <1>6, <2>1 DEF T
<1>7. CASE t.count[x] = s.count[x] + 1 /\ Joined(s, t, x)
  <2>1. PICK c \in 1..Len(s.clients) :
          ~SubscribedTo(s.clients[c], x) /\ SubscribedTo(t.clients[c], x)
    BY <1>7 DEF Joined
  <2>2. c \notin S /\ c \in T BY <1>4, <2>1 DEF Members
  <2> HIDE DEF S, T
  <2>3. Cardinality(S \cup {c}) = Cardinality(S) + 1 BY <1>1, <2>2, FS_AddElement
  <2>4. S \cup {c} \in SUBSET T BY <1>5, <2>2
  <2>5. Cardinality(S \cup {c}) <= Cardinality(T) BY <1>1, <2>4, FS_Subset
  <2> QED BY <1>1, <1>2, <1>3, <1>7, <2>3, <2>5 DEF T
<1> QED BY <1>6, <1>7

\* A step that takes no subscription away and counts none up.
LEMMA FaithfulBounded ==
  ASSUME NEW s, Good(s), NEW t, Good(t), Bounded(s), Faithful(s, t)
  PROVE  Bounded(t)
BY LoyalBounded DEF Faithful

\* In a file that agrees, a row without subscription ids has no subscription.
LEMMA UnsubscribedFiles ==
  ASSUME NEW r, FilesOK(r), Unsubscribed(r), NEW x \in Topic
  PROVE  ~SubscribedTo(r, x)
BY TopicAssumption DEF FilesOK, SubOK, Unsubscribed, SubscribedTo

\* The operations that move clients take no subscription away.
LEMMA LoyalRows ==
  ASSUME NEW s, Len(s.clients) \in Nat, NEW t
  PROVE  /\ Alike(s, t) => Loyal(s, t) /\ Len(t.clients) \in Nat
         /\ \A id : AllFiles(s) /\ Removed(s, t, id) => Loyal(s, t) /\ Len(t.clients) \in Nat
         /\ \A id, a : Added(s, t, id, a) => Loyal(s, t) /\ Len(t.clients) \in Nat
<1>1. \A r, q : SameFiles(r, q) => RowLoyal(r, q) BY DEF SameFiles, RowLoyal, SubscribedTo
<1>2. Alike(s, t) => Loyal(s, t) /\ Len(t.clients) \in Nat BY <1>1 DEF Alike, Loyal
<1>3. ASSUME NEW id, AllFiles(s), Removed(s, t, id) PROVE Loyal(s, t) /\ Len(t.clients) \in Nat
  <2>1. \A r, q : FilesOK(r) /\ Unsubscribed(r) => RowLoyal(r, q) BY UnsubscribedFiles DEF RowLoyal
  <2> QED BY <1>1, <1>3, <2>1 DEF AllFiles, Removed, Loyal
<1>4. ASSUME NEW id, NEW a, Added(s, t, id, a) PROVE Loyal(s, t) /\ Len(t.clients) \in Nat
  <2>1. PICK i \in 1..(Len(s.clients) + 1) :
          /\ Len(t.clients) = IF i <= Len(s.clients) THEN Len(s.clients) ELSE i
          /\ \A c \in 1..Len(s.clients) : c # i => t.clients[c] = s.clients[c]
          /\ i <= Len(s.clients) => SameFiles(s.clients[i], t.clients[i])
    BY <1>4 DEF Added
  <2>2. \A r : SameFiles(r, r) BY DEF SameFiles
  <2>3. \A c \in 1..Len(s.clients) : SameFiles(s.clients[c], t.clients[c]) BY <2>1, <2>2
  <2> QED BY <1>1, <2>1, <2>3 DEF Loyal
<1> QED BY <1>2, <1>3, <1>4

\* Being loyal is transitive.
LEMMA LoyalTrans ==
  ASSUME NEW s, Len(s.clients) \in Nat, NEW t, Len(t.clients) \in Nat, NEW u, Len(u.clients) \in Nat,
         Loyal(s, t), Loyal(t, u)
  PROVE  Loyal(s, u)
BY DEF Loyal, RowLoyal

\* CONNECT and the removal of a client lose no subscription.
LEMMA MovedLoyal ==
  ASSUME Good(db), AllFiles(db), NewClient \/ SameAgain \/ Cleaned \/ Forgotten
  PROVE  Loyal(db, db')
<1>1. Len(db.clients) \in Nat BY RowsType
<1>2. CASE NewClient
  <2>1. PICK s : (\E p \in Packets : Added(db, s, p.id, p.addr)) /\ Alike(s, db') BY <1>2 DEF NewClient
  <2>2. Loyal(db, s) /\ Len(s.clients) \in Nat BY <1>1, <2>1, LoyalRows
  <2>3. Loyal(s, db') /\ Len(db'.clients) \in Nat BY <2>1, <2>2, LoyalRows
  <2> QED BY <1>1, <2>2, <2>3, LoyalTrans
<1>3. CASE SameAgain
  <2>1. PICK s : /\ Len(s.clients) = Len(db.clients) /\ Alike(s, db')
                 /\ \A c \in 1..Len(db.clients) :
                      s.clients[c] = db.clients[c] \/ SameFiles(db.clients[c], s.clients[c])
    BY <1>3 DEF SameAgain
  <2>2. Loyal(db, s) BY <1>1, <2>1 DEF Loyal, RowLoyal, SameFiles, SubscribedTo
  <2>3. Loyal(s, db') /\ Len(db'.clients) \in Nat BY <1>1, <2>1, LoyalRows
  <2> QED BY <1>1, <2>1, <2>2, <2>3, LoyalTrans
<1>4. CASE Cleaned
  <2>1. PICK s, t : Removed(db, s, k.pk.id) /\ Added(s, t, k.pk.id, k.pk.addr) /\ Alike(t, db')
    BY <1>4 DEF Cleaned
  <2>2. Loyal(db, s) /\ Len(s.clients) \in Nat BY <1>1, <2>1, LoyalRows
  <2>3. Loyal(s, t) /\ Len(t.clients) \in Nat BY <2>1, <2>2, LoyalRows
  <2>4. Loyal(t, db') /\ Len(db'.clients) \in Nat BY <2>1, <2>3, LoyalRows
  <2>5. Loyal(db, t) BY <1>1, <2>2, <2>3, LoyalTrans
  <2> QED BY <1>1, <2>3, <2>4, <2>5, LoyalTrans
<1>5. CASE Forgotten BY <1>1, <1>5, LoyalRows DEF Forgotten
<1> QED BY <1>2, <1>3, <1>4, <1>5

\* The remove loop takes one subscription away and counts its topic down.
LEMMA RemoveBounded ==
  ASSUME IInv, AllFiles(db), Bounded(db), RemoveStep, Good(db')
  PROVE  Bounded(db')
<1> DEFINE tid == get_nth_subscribed_topic_id(db, get_client_subscription_count(db))
           t == get_topic_name(db, tid)
           u == touch_topic_name(db, tid)
           v == delete_subscription(u, tid)
           s == decrement_global_subscription_count(v, t)
<1>1. Good(db) BY DEF IInv, CtlOK
<1>2. Usable(db) BY DEF RemoveStep, get_client_subscription_count
<1>3. db' = s BY DEF RemoveStep
<1>4. tid = 0 \/ \E j \in 1..Len(Cur(db).sub) : Cur(db).sub[j].tid = tid
  <2>1. Cur(db).sub \in Seq(entry_subscription) BY <1>1, <1>2, CurType DEF entry_client
  <2>2. DOMAIN Cur(db).sub = 1..Len(Cur(db).sub) BY <2>1
  <2> QED BY <2>2 DEF get_nth_subscribed_topic_id
<1>5. t = get_topic_name(db, tid) OBVIOUS
<1> HIDE DEF tid
<1>6. Good(u) /\ SameTx(db, u) /\ u.clients = db.clients /\ u.count = db.count
  BY <1>1, TopicNameType, FlagsOnly
<1> HIDE DEF u, t
<1>7. Cur(u) = Cur(db) /\ Usable(u) BY <1>2, <1>6 DEF Cur, SameTx, Usable
<1>8. /\ Good(v) /\ SameTx(u, v) /\ v.count = u.count
      /\ \/ v.clients = u.clients
         \/ \E j \in DOMAIN Cur(u).sub :
              /\ tid # 0 /\ Cur(u).sub[j].tid = tid
              /\ \A c \in 1..Len(u.clients) :
                   IF c = u.cur
                   THEN \A x \in Topic : x # Cur(u).sub[j].name /\ SubscribedTo(Cur(u), x) =>
                                         SubscribedTo(v.clients[c], x)
                   ELSE v.clients[c] = u.clients[c]
      /\ Len(v.clients) = Len(u.clients)
  BY <1>4, <1>6, <1>7, DeleteSubscriptionGood, DeleteSubscriptionRows DEF Carried
<1> HIDE DEF v
<1>9. s.clients = v.clients BY <1>8, CountGood
<1>10. ~v.error BY <1>7, <1>8 DEF SameTx, Usable
<1>11. \A x \in Topic : \/ s.count[x] = v.count[x] /\ x # t
                        \/ x = t /\ (s.count[x] = v.count[x] - 1 \/ (s.count[x] = 0 /\ v.count[x] = 0))
  BY <1>8, <1>10, Counting
<1> HIDE DEF s
<1>12. \A x \in Topic : s.count[x] \in Nat /\ db.count[x] \in Nat BY <1>1, <1>3 DEF Good, Store
<1>13. \A x \in Topic : s.count[x] <= db.count[x] BY <1>6, <1>8, <1>11, <1>12
<1>14. CASE v.clients = u.clients
  <2>1. Loyal(db, s) BY <1>1, <1>6, <1>9, <1>14, QuietRefl, QuietFaithful
  <2> QED BY <1>1, <1>3, <1>13, <2>1, FaithfulBounded DEF Faithful
<1>15. ASSUME NEW j \in DOMAIN Cur(db).sub, tid # 0, Cur(db).sub[j].tid = tid,
              \A c \in 1..Len(db.clients) :
                IF c = db.cur
                THEN \A x \in Topic : x # Cur(db).sub[j].name /\ SubscribedTo(Cur(db), x) =>
                                      SubscribedTo(s.clients[c], x)
                ELSE s.clients[c] = db.clients[c]
       PROVE  Bounded(s)
  <2>1. db.cur \in 1..Len(db.clients) /\ Cur(db) = db.clients[db.cur] BY <1>1, <1>2, CurType DEF Cur
  <2>2. /\ tid \in DOMAIN Cur(db).reg /\ Cur(db).reg[tid] = Cur(db).sub[j].name
        /\ Cur(db).sub[j].name \in Topic
    BY <1>15, <2>1 DEF AllFiles, FilesOK, SubOK
  <2>3. t = Cur(db).sub[j].name BY <1>2, <1>5, <2>2 DEF get_topic_name
  <2>4. Len(s.clients) = Len(db.clients) BY <1>6, <1>8, <1>9
  <2> SUFFICES ASSUME NEW x \in Topic PROVE s.count[x] <= Cardinality(Members(s, x)) BY DEF Bounded
  <2> DEFINE S == Members(db, x)
             T == Members(s, x)
  <2>5. /\ IsFiniteSet(S) /\ Cardinality(S) \in Nat
        /\ IsFiniteSet(T) /\ Cardinality(T) \in Nat
    BY <1>1, <1>3, MembersFinite
  <2>6. db.count[x] <= Cardinality(S) BY DEF Bounded
  <2>7. S \ {db.cur} \subseteq T BY <1>15, <2>4 DEF Members
  <2>8. x # t => S \subseteq T BY <1>15, <2>1, <2>3, <2>4 DEF Members
  <2> HIDE DEF S, T
  <2>9. CASE x # t
    <3>1. Cardinality(S) <= Cardinality(T) BY <2>5, <2>8, <2>9, FS_Subset
    <3> QED BY <1>12, <1>13, <2>5, <2>6, <3>1 DEF T
  <2>10. CASE x = t
    <3>1. Cardinality(S \ {db.cur}) \in {Cardinality(S), Cardinality(S) - 1} BY <2>5, FS_RemoveElement
    <3>2. Cardinality(S \ {db.cur}) <= Cardinality(T) BY <2>5, <2>7, FS_Subset
    <3>3. s.count[x] = db.count[x] - 1 \/ s.count[x] = 0 BY <1>6, <1>8, <1>11, <2>10
    <3> QED BY <1>12, <2>5, <2>6, <3>1, <3>2, <3>3 DEF T
  <2> QED BY <2>9, <2>10
<1> QED BY <1>3, <1>6, <1>7, <1>8, <1>9, <1>14, <1>15 DEF SameTx

\* SUBSCRIBE counts the topic up for the client that joins.
LEMMA SubscribeBounded ==
  ASSUME IInv, NEW p \in Packets, Subscribe(p), Bounded(db)
  PROVE  Bounded(db')
<1>1. k.at = "socket" BY DEF Subscribe, Received
<1>2. Closed(db) /\ Good(db) BY <1>1, InvClosed DEF IInv, Closed
<1>3. p.addr \in Address /\ p.addr # NoAddress /\ p.topic \in Name /\ p.tid \in Nat
  <2>1. p \in Packet BY PacketAssumption
  <2> QED BY <2>1, IdAssumption DEF Packet
<1> DEFINE r == register_topic(db, link.online, p.addr, p.topic)
           byName == p.form \in {"name", "normal"}
           s == IF byName THEN r.db ELSE db
           id == IF byName THEN r.tid ELSE p.tid
           short == p.form # "predef"
           l == lookup_subscription(s, link.online, p.addr, id, short, p.qos)
<1>4. Closed(r.db) /\ r.tid \in Nat /\ Quiet(db, r.db)
  <2>1. Closed(r.db) /\ r.tid \in Nat BY <1>2, <1>3, RegisterClosed
  <2>2. Quiet(db, r.db) BY <1>2, <1>3, RegisterQuiet
  <2> QED BY <2>1, <2>2
<1>5. db' \in {r.db, l.db} BY DEF Subscribe, Reply
<1> HIDE DEF r
<1>6. Closed(s) /\ id \in Nat /\ Quiet(db, s) BY <1>2, <1>3, <1>4, QuietRefl
<1>7. short \in BOOLEAN OBVIOUS
<1> HIDE DEF s, id, short
<1>8. Bounded(r.db) /\ Bounded(s) BY <1>2, <1>4, <1>6, QuietFaithful, FaithfulBounded DEF Closed
<1>9. /\ Closed(l.db) /\ Kept(s, l.db)
      /\ \A x \in Topic : \/ l.db.count[x] = s.count[x]
                          \/ l.db.count[x] = s.count[x] + 1 /\ Joined(s, l.db, x)
  <2>1. Closed(l.db) BY <1>6, LookupClosed
  <2> QED BY <1>3, <1>6, <1>7, <2>1, LookupKept
<1> HIDE DEF l
<1>10. Bounded(l.db)
  <2>1. Loyal(s, l.db) BY <1>6, <1>9, QuietFaithful DEF Closed
  <2>2. \A x \in Topic : s.count[x] <= s.count[x]
    <3>1. s.count \in [Topic -> Nat] BY <1>6 DEF Closed, Good, Store
    <3> QED BY <3>1
  <2>3. \A x \in Topic : \/ l.db.count[x] <= s.count[x]
                         \/ l.db.count[x] = s.count[x] + 1 /\ Joined(s, l.db, x)
    BY <1>9, <2>2
  <2> QED BY <1>6, <1>8, <1>9, <2>1, <2>3, LoyalBounded DEF Closed
<1> QED BY <1>5, <1>8, <1>10

(***************************************************************************)
(* A client that unsubscribes from a predefined topic names an id that no  *)
(* topic is registered under: it is higher than the number of names.       *)
(***************************************************************************)
OwnPredefined ==
  /\ IsFiniteSet(Topic)
  /\ \A p \in Packets : p.type = "UNSUBSCRIBE" /\ p.form = "predef" => p.tid > Cardinality(Name)

\* No more ids are registered than there are names.
LEMMA RegisteredIds ==
  ASSUME IsFiniteSet(Topic), NEW reg \in Seq(Name), RegOK(reg)
  PROVE  Len(reg) <= Cardinality(Name) /\ Cardinality(Name) \in Nat
<1>1. IsFiniteSet(Name) BY FS_AddElement DEF Name
<1>2. Len(reg) \in Nat /\ DOMAIN reg = 1..Len(reg) OBVIOUS
<1>3. reg \in [1..Len(reg) -> Name] BY <1>2
<1>4. IsFiniteSet(1..Len(reg)) /\ Cardinality(1..Len(reg)) = Len(reg) BY <1>2, FS_Interval
<1>5. Cardinality(Name) \in Nat BY <1>1, FS_CardinalityType
<1>6. ~(Cardinality(Name) < Cardinality(1..Len(reg)))
  <2> SUFFICES ASSUME Cardinality(Name) < Cardinality(1..Len(reg)) PROVE FALSE OBVIOUS
  <2>1. \E i, j \in 1..Len(reg) : i # j /\ reg[i] = reg[j] BY <1>1, <1>3, <1>4, FS_PigeonHole
  <2> QED BY <1>2, <2>1 DEF RegOK
<1> QED BY <1>2, <1>4, <1>5, <1>6

\* UNSUBSCRIBE takes no subscription away.
LEMMA UnsubscribeBounded ==
  ASSUME IInv, AllFiles(db), OwnPredefined, NEW p \in Packets, Unsubscribe(p), Bounded(db), Good(db')
  PROVE  Bounded(db')
<1> DEFINE form == IF p.form = "normal" THEN "name" ELSE p.form
           u == lookup_unsubscription(db, p.addr, form, p.tid, p.topic)
<1>1. k.at = "socket" /\ p.type = "UNSUBSCRIBE" BY DEF Unsubscribe, Received
<1>2. Closed(db) /\ Good(db) BY <1>1, InvClosed DEF IInv, Closed
<1>3. db' = u.db BY DEF Unsubscribe, Reply
<1>4. p.form \in {"normal", "name", "short", "predef"} /\ p.tid \in Nat
  <2>1. p \in Packet BY PacketAssumption
  <2> QED BY <2>1 DEF Packet, Form
<1>5. form \in {"name", "short"} \/ p.form = "predef" BY <1>4
<1> HIDE DEF form
<1>6. ASSUME p.form = "predef", NEW c \in 1..Len(db.clients) PROVE p.tid \notin DOMAIN db.clients[c].reg
  <2>1. db.clients[c].reg \in Seq(Name) BY <1>2, RowsType DEF entry_client
  <2>2. RegOK(db.clients[c].reg) BY DEF AllFiles, FilesOK
  <2>3. p.tid > Cardinality(Name) BY <1>1, <1>6 DEF OwnPredefined
  <2>4. Len(db.clients[c].reg) <= Cardinality(Name) /\ Cardinality(Name) \in Nat
    BY <2>1, <2>2, RegisteredIds DEF OwnPredefined
  <2> QED BY <1>4, <2>1, <2>3, <2>4
<1>7. Faithful(db, u.db) BY <1>2, <1>5, <1>6, UnlookupFaithful DEF AllFiles
<1> HIDE DEF u
<1> QED BY <1>2, <1>3, <1>7, FaithfulBounded

\* Every step but a kill in the middle of a deletion keeps the counts bounded.
LEMMA BoundedNext ==
  ASSUME IInv, Owned, AllFiles(db), OwnPredefined, Bounded(db), [Next]_vars, ~KilledDeleting
  PROVE  Bounded(db')
<1>1. Counted BY Steps
<1>2. IInv' BY NextInv
<1>3. Good(db) /\ Good(db') BY <1>2 DEF IInv, CtlOK
<1>4. CASE Moved
  <2>1. Loyal(db, db') /\ db'.count = db.count BY <1>3, <1>4, MovedLoyal DEF Moved
  <2>2. Faithful(db, db) BY <1>3, QuietRefl, QuietFaithful
  <2> QED BY <1>3, <2>1, <2>2, FaithfulBounded DEF Faithful
<1> QED BY <1>1, <1>3, <1>4, FaithfulBounded, RemoveBounded, SubscribeBounded, UnsubscribeBounded DEF Counted

CountsOK == AllFiles(db) /\ Bounded(db)

(***************************************************************************)
(* The global count of a topic never exceeds the number of clients that    *)
(* are subscribed to it, as long as UNSUBSCRIBE names predefined topics by *)
(* ids of their own, and the process is not killed in the loop that        *)
(* removes a client or in UNSUBSCRIBE: between the deletion of a           *)
(* subscription and its count a kill leaves the count too high.  It may be *)
(* killed anywhere else, also in SUBSCRIBE.                                *)
(***************************************************************************)
THEOREM CountsBounded == ASSUME OwnPredefined PROVE Spec /\ [][~KilledDeleting]_vars => []CountBound
<1>1. Init => CountsOK
  <2> SUFFICES ASSUME Init PROVE CountsOK OBVIOUS
  <2>1. IInv BY InitInv
  <2>2. Good(db) BY <2>1 DEF IInv, CtlOK
  <2>3. db.clients = <<>> /\ \A x \in Topic : db.count[x] = 0 BY DEF Init, EmptyStore
  <2>4. AllFiles(db) BY <2>3 DEF AllFiles
  <2>5. Bounded(db)
    <3>1. \A x \in Topic : Cardinality(Members(db, x)) \in Nat BY <2>2, MembersFinite
    <3> QED BY <2>3, <3>1 DEF Bounded
  <2> QED BY <2>4, <2>5 DEF CountsOK
<1>2. IInv /\ Owned /\ CountsOK /\ [Next]_vars /\ [~KilledDeleting]_vars => CountsOK'
  <2> SUFFICES ASSUME IInv, Owned, CountsOK, [Next]_vars, [~KilledDeleting]_vars PROVE CountsOK' OBVIOUS
  <2>1. CASE ~KilledDeleting
    <3>1. AllFiles(db') BY <2>1, FilesNext DEF CountsOK
    <3>2. Bounded(db') BY <2>1, BoundedNext DEF CountsOK
    <3> QED BY <3>1, <3>2 DEF CountsOK, AllFiles, Bounded, Members
  <2>2. CASE UNCHANGED vars BY <2>2 DEF vars, CountsOK, AllFiles, Bounded, Members
  <2> QED BY <2>1, <2>2
<1>3. IInv /\ CountsOK => CountBound
  <2> SUFFICES ASSUME IInv, CountsOK, NEW x \in Topic PROVE db.count[x] <= Cardinality(Subscribers(x))
    BY DEF CountBound
  <2>1. DOMAIN db.clients = 1..Len(db.clients) BY RowsType DEF IInv, CtlOK
  <2>2. Subscribers(x) = Members(db, x) BY <2>1 DEF Subscribers, Members, SubscribedTo
  <2> QED BY <2>2 DEF CountsOK, Bounded
<1> QED BY <1>1, <1>2, <1>3, Ownership, PTL DEF Spec

\* Where the process is never killed the counts are bounded without more ado.
THEOREM CountsBoundedUnkilled == ASSUME OwnPredefined, ~Crashes PROVE Spec => []CountBound
<1>1. [Next]_vars => [~KilledDeleting]_vars BY DEF KilledDeleting
<1> QED BY <1>1, CountsBounded, PTL DEF Spec

---------------------------------------------------------------------------
(* Clients that are lost, and free slots. *)

\* Clients have addresses of their own: no two client ids CONNECT from the same one.
OwnAddresses ==
  \A p, q \in {r \in Packets : r.type = "CONNECT" /\ r.id \in ClientId} :
    p.addr = q.addr => p.id = q.id

\* The client whose will is published, and which is removed then, is the one that was lost.
LostOK ==
  k.op \in {"will", "lost"} =>
    /\ k.i \in 1..Len(db.clients)
    /\ db.clients[k.i].status = "LOST" /\ db.clients[k.i].will.set
    /\ db.started => db.cur = k.i

\* Free slots have no subscription.
AllVacant(s) == \A c \in 1..Len(s.clients) : Vacant(s.clients[c])

\* With addresses of their own, clients are told apart by them.
LEMMA OneAddress ==
  ASSUME OwnAddresses, NEW s, Good(s), Orderly(s), NEW c \in 1..Len(s.clients), NEW d \in 1..Len(s.clients),
         s.clients[c].addr = s.clients[d].addr, s.clients[c].addr # NoAddress
  PROVE  c = d
<1>1. Proper(s.clients[c]) /\ Proper(s.clients[d]) BY DEF Orderly, RowsProper
<1>2. s.clients[c].id # NoId /\ s.clients[d].id # NoId BY <1>1 DEF Proper
<1>3. PICK p \in Packets : p.type = "CONNECT" /\ p.id = s.clients[c].id /\ p.addr = s.clients[c].addr
  BY <1>1, <1>2 DEF Proper
<1>4. PICK q \in Packets : q.type = "CONNECT" /\ q.id = s.clients[d].id /\ q.addr = s.clients[d].addr
  BY <1>1, <1>2 DEF Proper
<1>5. s.clients[c].id \in ClientId /\ s.clients[d].id \in ClientId BY <1>2, RowsType DEF entry_client
<1>6. s.clients[c].id = s.clients[d].id BY <1>3, <1>4, <1>5 DEF OwnAddresses
<1> QED BY <1>2, <1>6 DEF Orderly

\* The lost client stays the one the thread works on.
LEMMA LostNext ==
  ASSUME IInv, Owned, OwnAddresses, LostOK, [Next]_vars
  PROVE  LostOK'
<1>1. Ordinary \/ (Spent(db, db') /\ WillFound /\ NothingLost) \/ Special BY Steps
<1>2. CASE Ordinary BY <1>2 DEF Ordinary, LostOK, Still
<1>3. CASE Spent(db, db') /\ WillFound
  <2>1. Orderly(db) /\ Good(db) BY DEF Owned, IInv, CtlOK
  <2>2. /\ Len(db'.clients) = Len(db.clients)
        /\ \A c \in 1..Len(db.clients) : db'.clients[c].addr = db.clients[c].addr
    BY <1>3 DEF Spent, RowSpent, RowCarried
  <2>3. /\ k.i \in 1..Len(db.clients) /\ db.clients[k.i].addr # NoAddress /\ k'.i = k.i
        /\ db'.cur \in 1..Len(db.clients) /\ db'.clients[db'.cur].addr = db.clients[k.i].addr
        /\ db'.clients[db'.cur].status = "LOST" /\ db'.clients[db'.cur].will.set
    BY <1>3 DEF WillFound
  <2>4. db'.cur = k.i BY <2>1, <2>2, <2>3, OneAddress
  <2> QED BY <2>2, <2>3, <2>4 DEF LostOK
<1>4. CASE Special BY <1>4 DEF Special, Moved, LostOK
<1> QED BY <1>1, <1>2, <1>3, <1>4

\* The row of a lost client that is being forgotten.
LEMMA ForgottenRow ==
  ASSUME IInv, Owned, LostOK, Forgotten, NEW c \in 1..Len(db.clients),
         ~SameClient(db.clients[c], db'.clients[c])
  PROVE  c = k.i /\ FreedRow(db'.clients[c])
<1>1. k.i \in 1..Len(db.clients) /\ db.clients[k.i].status = "LOST" BY DEF LostOK, Forgotten
<1>2. DOMAIN db.clients = 1..Len(db.clients) BY RowsType DEF IInv, CtlOK
<1>3. get_nth_client(db, k.i) = db.clients[k.i] BY <1>1, <1>2 DEF get_nth_client
<1>4. FreedRow(db'.clients[c]) /\ db.clients[c].id = db.clients[k.i].id BY <1>3 DEF Forgotten, Removed
<1>5. Proper(db.clients[k.i]) BY <1>1 DEF Owned, Orderly, RowsProper
<1>6. db.clients[k.i].id # NoId BY <1>1, <1>5 DEF Proper
<1> QED BY <1>1, <1>4, <1>6 DEF Owned, Orderly

\* What is left in a file that had no subscription.
LEMMA VacantFiles ==
  ASSUME NEW r, NEW q
  PROVE  /\ Unsubscribed(r) /\ SameFiles(r, q) => Unsubscribed(q)
         /\ NoFiles(q) => Unsubscribed(q)
         /\ Vacant(r) /\ SameClient(r, q) /\ (SameFiles(r, q) \/ NoFiles(q)) => Vacant(q)
BY DEF Vacant, Unsubscribed, SameFiles, NoFiles, SameClient

\* Adding a client or ending a CONNECT frees no slot.
LEMMA VacantRows ==
  ASSUME NEW s, Len(s.clients) \in Nat, AllVacant(s), NEW t
  PROVE  /\ Alike(s, t) => AllVacant(t)
         /\ \A id, a : id # NoId /\ Added(s, t, id, a) => AllVacant(t)
<1>1. Alike(s, t) => AllVacant(t) BY VacantFiles DEF Alike, AllVacant
<1>2. ASSUME NEW id, NEW a, id # NoId, Added(s, t, id, a) PROVE AllVacant(t)
  <2>1. PICK i \in 1..(Len(s.clients) + 1) :
          /\ Len(t.clients) = IF i <= Len(s.clients) THEN Len(s.clients) ELSE i
          /\ \A c \in 1..Len(s.clients) : c # i => t.clients[c] = s.clients[c]
          /\ t.clients[i].id = id
    BY <1>2 DEF Added
  <2>2. Vacant(t.clients[i]) BY <1>2, <2>1 DEF Vacant
  <2>3. \A c \in 1..Len(t.clients) : c = i \/ (c \in 1..Len(s.clients) /\ t.clients[c] = s.clients[c])
    BY <2>1
  <2> QED BY <2>2, <2>3 DEF AllVacant
<1> QED BY <1>1, <1>2

\* The slot that is freed is the one whose subscriptions the remove loop has deleted.
LEMMA VacantRemoved ==
  ASSUME NEW s, NEW t, NEW id, AllVacant(s), Removed(s, t, id),
         \A c \in 1..Len(s.clients) :
           ~SameClient(s.clients[c], t.clients[c]) => Unsubscribed(s.clients[c])
  PROVE  AllVacant(t)
<1>1. ASSUME NEW c \in 1..Len(s.clients) PROVE Vacant(t.clients[c])
  <2>1. SameFiles(s.clients[c], t.clients[c]) \/ NoFiles(t.clients[c]) BY DEF Removed
  <2>2. CASE SameClient(s.clients[c], t.clients[c]) BY <2>1, <2>2, VacantFiles DEF AllVacant
  <2>3. CASE Unsubscribed(s.clients[c])
    <3>1. Unsubscribed(t.clients[c]) BY <2>1, <2>3, VacantFiles
    <3> QED BY <3>1 DEF Vacant
  <2> QED BY <2>2, <2>3
<1> QED BY <1>1 DEF AllVacant, Removed

\* Every step leaves the free slots without subscriptions.
LEMMA VacantNext ==
  ASSUME IInv, Owned, LostOK, AllVacant(db), [Next]_vars
  PROVE  AllVacant(db')
<1>0. Good(db) BY DEF IInv, CtlOK
<1>1. Len(db.clients) \in Nat BY <1>0, RowsType
<1>2. Ordinary \/ (Spent(db, db') /\ WillFound /\ NothingLost) \/ Special BY Steps
<1>3. CASE Carried(db, db')
  <2>1. \A c \in 1..Len(db.clients) : Proper(db.clients[c]) BY DEF Owned, Orderly, RowsProper
  <2> QED BY <1>3, <2>1 DEF Carried, RowCarried, AllVacant
<1>4. CASE NewClient
  <2>1. PICK p \in Packets : p.id \in ClientId /\ \E s : Added(db, s, p.id, p.addr) /\ Alike(s, db')
    BY <1>4 DEF NewClient
  <2>2. PICK s : Added(db, s, p.id, p.addr) /\ Alike(s, db') BY <2>1
  <2>3. p.id # NoId BY <2>1, IdAssumption
  <2>4. AllVacant(s) BY <1>1, <2>2, <2>3, VacantRows
  <2>5. Len(s.clients) \in Nat BY <1>1, <2>2 DEF Added
  <2> QED BY <2>2, <2>4, <2>5, VacantRows
<1>5. CASE SameAgain
  <2>1. PICK p \in Packets : \E s :
          /\ p.id \in ClientId /\ Len(s.clients) = Len(db.clients) /\ Alike(s, db')
          /\ \A c \in 1..Len(db.clients) : s.clients[c] = db.clients[c] \/ s.clients[c].id = p.id
    BY <1>5 DEF SameAgain
  <2>2. PICK s :
          /\ Len(s.clients) = Len(db.clients) /\ Alike(s, db')
          /\ \A c \in 1..Len(db.clients) : s.clients[c] = db.clients[c] \/ s.clients[c].id = p.id
    BY <2>1
  <2>3. p.id # NoId BY <2>1, IdAssumption
  <2>4. AllVacant(s) BY <2>2, <2>3 DEF AllVacant, Vacant
  <2> QED BY <1>1, <2>2, <2>4, VacantRows
<1>6. CASE Cleaned
  <2>1. PICK s, t : Removed(db, s, k.pk.id) /\ Added(s, t, k.pk.id, k.pk.addr) /\ Alike(t, db')
    BY <1>6 DEF Cleaned
  <2>2. Usable(db) /\ Cur(db).id = k.pk.id /\ Unsubscribed(Cur(db)) /\ k.pk.id # NoId
    BY <1>6, IdAssumption DEF Cleaned
  <2>3. db.cur \in 1..Len(db.clients) /\ Cur(db) = db.clients[db.cur] BY <1>0, <2>2, CurType DEF Cur
  <2>4. ASSUME NEW c \in 1..Len(db.clients), ~SameClient(db.clients[c], s.clients[c])
        PROVE  Unsubscribed(db.clients[c])
    <3>1. db.clients[c].id = k.pk.id BY <2>1, <2>4 DEF Removed
    <3>2. c = db.cur BY <2>2, <2>3, <3>1 DEF Owned, Orderly
    <3> QED BY <2>2, <2>3, <3>2
  <2>5. AllVacant(s) BY <2>1, <2>4, VacantRemoved
  <2>6. Len(s.clients) \in Nat BY <1>1, <2>1 DEF Removed
  <2>7. AllVacant(t) BY <2>1, <2>2, <2>5, <2>6, VacantRows
  <2>8. Len(t.clients) \in Nat BY <2>1, <2>6 DEF Added
  <2> QED BY <2>1, <2>7, <2>8, VacantRows
<1>7. CASE Forgotten
  <2>1. CASE db'.clients = db.clients BY <2>1 DEF AllVacant
  <2>2. CASE Usable(db) /\ Unsubscribed(Cur(db))
    <3>1. db.cur = k.i BY <1>7, <2>2 DEF LostOK, Forgotten, Usable
    <3>2. \A c \in 1..Len(db.clients) :
            ~SameClient(db.clients[c], db'.clients[c]) => Unsubscribed(db.clients[c])
      BY <1>7, <2>2, <3>1, ForgottenRow DEF Cur
    <3> QED BY <1>7, <3>2, VacantRemoved DEF Forgotten
  <2> QED BY <1>7, <2>1, <2>2 DEF Forgotten
<1>8. CASE HalfGone
  <2>1. Len(db'.clients) = Len(db.clients) BY <1>8 DEF HalfGone
  <2>2. ASSUME NEW c \in 1..Len(db.clients) PROVE Vacant(db'.clients[c])
    <3>1. /\ db'.clients[c].id = db.clients[c].id
          /\ db'.clients[c].sub \in {db.clients[c].sub, <<>>}
      BY <1>8 DEF HalfGone, SameClient
    <3>2. Vacant(db.clients[c]) BY DEF AllVacant
    <3> QED BY <3>1, <3>2 DEF Vacant, Unsubscribed
  <2> QED BY <2>1, <2>2 DEF AllVacant
<1> QED BY <1>2, <1>3, <1>4, <1>5, <1>6, <1>7, <1>8, SpentCarried DEF Special, Moved, Ordinary

\* In an empty gateway nobody is lost and no slot is free.
LEMMA InitLost == Init => LostOK /\ AllVacant(db)
<1> SUFFICES ASSUME Init PROVE LostOK /\ AllVacant(db) OBVIOUS
<1>1. db.clients = <<>> /\ k = Phase("down") BY DEF Init, EmptyStore
<1>2. k.op = "none" BY <1>1, PhaseType
<1> QED BY <1>1, <1>2 DEF LostOK, AllVacant

\* The lost client is the one worked on, in every reachable state.
LEMMA Lost == ASSUME OwnAddresses PROVE Spec => []LostOK
<1>1. IInv /\ Owned /\ LostOK /\ [Next]_vars => LostOK' BY LostNext
<1> QED BY <1>1, InitLost, Ownership, PTL DEF Spec

(***************************************************************************)
(* A free slot has no subscription left, provided clients have addresses   *)
(* of their own: otherwise the will of one client is found under the       *)
(* address of another and the wrong files are cleared.                     *)
(***************************************************************************)
THEOREM FreeSlotsClean == ASSUME OwnAddresses PROVE Spec => []FreeSlotUnsubscribed
<1>1. IInv /\ Owned /\ LostOK /\ AllVacant(db) /\ [Next]_vars => AllVacant(db)'
  <2> SUFFICES ASSUME IInv, Owned, LostOK, AllVacant(db), [Next]_vars PROVE AllVacant(db')
    BY DEF AllVacant
  <2> QED BY VacantNext
<1>2. IInv /\ AllVacant(db) => FreeSlotUnsubscribed
  <2> SUFFICES ASSUME IInv, AllVacant(db) PROVE FreeSlotUnsubscribed OBVIOUS
  <2>1. DOMAIN db.clients = 1..Len(db.clients) BY RowsType DEF IInv, CtlOK
  <2> QED BY <2>1 DEF AllVacant, Vacant, Unsubscribed, FreeSlotUnsubscribed
<1>3. Spec => []LostOK BY Lost
<1> QED BY <1>1, <1>2, <1>3, InitLost, Ownership, PTL DEF Spec

\* What a step may do to the clients of the registry.
ForgetStep ==
  \A c \in DOMAIN db.clients :
    db.clients[c].id # NoId /\ (\A d \in DOMAIN db.clients : db'.clients[d].id # db.clients[c].id) =>
      k.op = "lost" /\ db.clients[c].status = "LOST" /\ db.clients[c].will.set

\* Only the lost client is forgotten.
LEMMA ForgetNext ==
  ASSUME IInv, Owned, LostOK, [Next]_vars
  PROVE  ForgetStep
<1>1. Good(db) BY DEF IInv, CtlOK
<1>2. Len(db.clients) \in Nat /\ DOMAIN db.clients = 1..Len(db.clients) BY <1>1, RowsType
<1>3. Ordinary \/ (Spent(db, db') /\ WillFound /\ NothingLost) \/ Special BY Steps
<1> SUFFICES ASSUME NEW c \in 1..Len(db.clients), db.clients[c].id # NoId,
                    \A d \in 1..Len(db.clients) : db'.clients[d].id # db.clients[c].id
             PROVE  k.op = "lost" /\ db.clients[c].status = "LOST" /\ db.clients[c].will.set
  BY <1>2 DEF ForgetStep
<1>4. CASE Carried(db, db') BY <1>4 DEF Carried, RowCarried
<1>5. CASE NewClient
  <2>1. PICK s : (\E p \in Packets : Added(db, s, p.id, p.addr)) /\ Alike(s, db') BY <1>5 DEF NewClient
  <2>2. c \in 1..Len(s.clients) /\ s.clients[c] = db.clients[c] BY <1>2, <2>1 DEF Added
  <2> QED BY <2>1, <2>2 DEF Alike, SameClient
<1>6. CASE SameAgain
  <2>1. PICK s : Len(s.clients) = Len(db.clients) /\ Alike(s, db') /\ s.clients[c].id = db.clients[c].id
    BY <1>6 DEF SameAgain
  <2> QED BY <2>1 DEF Alike, SameClient
<1>7. CASE Cleaned
  <2>1. PICK s, t : /\ Removed(db, s, k.pk.id) /\ Added(s, t, k.pk.id, k.pk.addr) /\ Alike(t, db')
                    /\ \E d \in 1..Len(db.clients) : db.clients[d].id = k.pk.id /\ FreedRow(s.clients[d])
    BY <1>7 DEF Cleaned
  <2>2. Len(s.clients) = Len(db.clients) BY <2>1 DEF Removed
  <2>3. PICK i \in 1..(Len(s.clients) + 1) :
          /\ Len(t.clients) = IF i <= Len(s.clients) THEN Len(s.clients) ELSE i
          /\ \A n \in 1..Len(s.clients) : n # i => t.clients[n] = s.clients[n]
          /\ t.clients[i].id = k.pk.id
          /\ IF i <= Len(s.clients) THEN s.clients[i].id = NoId
             ELSE \A n \in 1..Len(s.clients) : s.clients[n].id # NoId
    BY <2>1 DEF Added
  <2>4. i <= Len(s.clients) BY <2>1, <2>2, <2>3 DEF FreedRow
  <2>5. \A n \in 1..Len(db.clients) : db'.clients[n].id = t.clients[n].id
    BY <2>1, <2>2, <2>3, <2>4 DEF Alike, SameClient
  <2>6. s.clients[c].id = db.clients[c].id \/ db.clients[c].id = k.pk.id
    BY <2>1 DEF Removed, SameClient
  <2>7. CASE db.clients[c].id = k.pk.id BY <1>2, <2>2, <2>3, <2>4, <2>5, <2>7
  <2>8. CASE s.clients[c].id = db.clients[c].id BY <2>2, <2>3, <2>4, <2>5, <2>8
  <2> QED BY <2>6, <2>7, <2>8
<1>8. CASE Forgotten
  <2>1. ~SameClient(db.clients[c], db'.clients[c]) BY DEF SameClient
  <2>2. c = k.i BY <1>8, <2>1, ForgottenRow
  <2> QED BY <1>8, <2>2 DEF Forgotten, LostOK
<1>9. CASE HalfGone BY <1>9 DEF HalfGone, SameClient
<1> QED BY <1>3, <1>4, <1>5, <1>6, <1>7, <1>8, <1>9, SpentCarried DEF Special, Moved, Ordinary

(***************************************************************************)
(* Only a client that was lost, and whose will was handed to the broker,   *)
(* is forgotten, provided clients have addresses of their own: otherwise   *)
(* the will found may be that of another client with the address.          *)
(***************************************************************************)
THEOREM ForgottenOnlyWhenLost == ASSUME OwnAddresses PROVE Spec => ForgottenAfterWill
<1>1. IInv /\ Owned /\ LostOK /\ [Next]_vars => ForgetStep BY ForgetNext
<1>2. ForgottenAfterWill <=> [][ForgetStep]_vars BY DEF ForgottenAfterWill, ForgetStep
<1>3. Spec => []LostOK BY Lost
<1> QED BY <1>1, <1>2, <1>3, Ownership, PTL DEF Spec

---------------------------------------------------------------------------
(* What the gateway sends. *)

\* Neither a queued message nor the acknowledgement of a publish.
Plain(m) == /\ m.type = "PUBLISH" => m.to = "broker"
            /\ m.type = "PUBACK" => m.code # "ACCEPTED"

\* The QoS of a publish under way is that of its packet.
QosKept == k.op = "publish" /\ k.pk.qos = 1 => k.qos = 1

PlainStep == (\A i \in DOMAIN out' : Plain(out'[i])) /\ (QosKept => QosKept')

\* A step that sends one message at most, and begins no publish.
LEMMA SendsPlain ==
  ASSUME out' = <<>> \/ \E m : out' = <<m>> /\ Plain(m), k'.op # "publish" \/ k' = k
  PROVE  PlainStep
<1>1. DOMAIN <<>> = {} OBVIOUS
<1>2. ASSUME NEW m PROVE \A i \in DOMAIN <<m>> : <<m>>[i] = m OBVIOUS
<1>3. \A i \in DOMAIN out' : Plain(out'[i]) BY <1>1, <1>2
<1> QED BY <1>3 DEF PlainStep, QosKept

\* A handler that answers at once with such a message.
LEMMA ReplyPlain ==
  ASSUME NEW s, NEW o, Reply(s, o), o = <<>> \/ \E m : o = <<m>> /\ Plain(m)
  PROVE  PlainStep
<1>1. out' = o /\ k' = Phase("core") BY DEF Reply
<1>2. k'.op # "publish" BY <1>1, PhaseType
<1> QED BY <1>1, <1>2, SendsPlain

\* The answers.
LEMMA SentPlain ==
  ASSUME NEW a
  PROVE  /\ \A type \in SentTypes \ {"PUBACK", "PUBLISH"} : Plain(Sent(a, type))
         /\ \A code : Plain(Connack(a, code))
         /\ \A mid, tid, code : /\ Plain([[Sent(a, "REGACK") EXCEPT !.mid = mid] EXCEPT !.tid = tid])
                                /\ Plain([[Sent(a, "REGACK") EXCEPT !.mid = mid] EXCEPT !.code = code])
         /\ \A mid : Plain([Sent(a, "PUBREC") EXCEPT !.mid = mid])
BY DEF Plain, Sent, Connack, SentTypes

\* The end of a CONNECT.
LEMMA FinishConnectPlain ==
  ASSUME NEW s, NEW p, FinishConnect(s, p)
  PROVE  PlainStep
<1> DEFINE c == Commit(s)
           w == await_message(c.db, p.addr, "WILLTOPIC")
           q == Sent(p.addr, "WILLTOPICREQ")
<1>1. PICK m : (m = q \/ \E code : m = Connack(p.addr, code)) /\ (Reply(c.db, <<m>>) \/ Reply(w.db, <<m>>))
  BY DEF FinishConnect
<1>2. Plain(m) BY <1>1, SentPlain DEF SentTypes
<1> QED BY <1>1, <1>2, ReplyPlain

\* The packets that are answered at once.
LEMMA PacketPlain ==
  ASSUME NEW p \in Packets,
         \/ ConnectOffline(p) \/ ConnectNew(p) \/ ConnectAgain(p)
         \/ WillTopic(p) \/ WillMsg(p) \/ Register(p) \/ RegAck(p)
         \/ PubAck(p) \/ PingReq(p) \/ Disconnect(p)
  PROVE  PlainStep
<1> DEFINE Answered == \E s, o : Reply(s, o) /\ (o = <<>> \/ \E m : o = <<m>> /\ Plain(m))
<1>1. Answered => PlainStep BY ReplyPlain
<1>2. \A type \in {"WILLTOPICREQ", "WILLMSGREQ", "DISCONNECT", "PINGRESP"} : Plain(Sent(p.addr, type))
  BY SentPlain DEF SentTypes
<1>3. \A code : Plain(Connack(p.addr, code)) BY SentPlain
<1>4. CASE ConnectNew(p) \/ ConnectAgain(p) BY <1>4, FinishConnectPlain DEF ConnectNew, ConnectAgain
<1>5. CASE ConnectOffline(p)
  <2>1. Answered BY <1>3, <1>5 DEF ConnectOffline
  <2> QED BY <1>1, <2>1
<1>6. CASE WillTopic(p)
  <2> DEFINE c == Connack(p.addr, "REJECTED_NOT_SUPPORTED")
             q == Sent(p.addr, "WILLMSGREQ")
  <2>1. \E s : Reply(s, <<>>) \/ Reply(s, <<c>>) \/ Reply(s, <<q>>) BY <1>6 DEF WillTopic
  <2>2. Plain(c) /\ Plain(q) BY <1>2, <1>3
  <2> HIDE DEF c, q
  <2>3. Answered BY <2>1, <2>2
  <2> QED BY <1>1, <2>3
<1>7. CASE WillMsg(p)
  <2>1. \E s, code : Reply(s, <<Connack(p.addr, code)>>) BY <1>7 DEF WillMsg
  <2>2. Answered BY <1>3, <2>1
  <2> QED BY <1>1, <2>2
<1>8. CASE Register(p)
  <2> DEFINE r == register_topic(db, link.online, p.addr, p.topic)
             ack == [Sent(p.addr, "REGACK") EXCEPT !.mid = p.mid]
             ok == [ack EXCEPT !.tid = r.tid]
             no == [ack EXCEPT !.code = "REJECTED_NOT_SUPPORTED"]
  <2>1. Reply(r.db, <<ok>>) \/ Reply(r.db, <<no>>) BY <1>8 DEF Register
  <2>2. Plain(ok) /\ Plain(no) BY SentPlain
  <2> HIDE DEF ok, no, r
  <2>3. Answered BY <2>1, <2>2
  <2> QED BY <1>1, <2>3
<1>9. CASE RegAck(p)
  <2>1. \E s : Reply(s, <<>>) \/ Reply(s, <<Sent(p.addr, "DISCONNECT")>>) BY <1>9 DEF RegAck
  <2>2. Answered BY <1>2, <2>1
  <2> QED BY <1>1, <2>2
<1>10. CASE PubAck(p)
  <2>1. \E s : Reply(s, <<>>) \/ Reply(s, <<Sent(p.addr, "DISCONNECT")>>) BY <1>10 DEF PubAck
  <2>2. Answered BY <1>2, <2>1
  <2> QED BY <1>1, <2>2
<1>11. CASE PingReq(p)
  <2>1. \E s : Reply(s, <<>>) \/ Reply(s, <<Sent(p.addr, "DISCONNECT")>>) \/ Reply(s, <<Sent(p.addr, "PINGRESP")>>)
    BY <1>11 DEF PingReq
  <2>2. Answered BY <1>2, <2>1
  <2> QED BY <1>1, <2>2
<1>12. CASE Disconnect(p)
  <2>1. \E s : Reply(s, <<>>) \/ Reply(s, <<Sent(p.addr, "DISCONNECT")>>) BY <1>12 DEF Disconnect
  <2>2. Answered BY <1>2, <2>1
  <2> QED BY <1>1, <2>2
<1> QED BY <1>4, <1>5, <1>6, <1>7, <1>8, <1>9, <1>10, <1>11, <1>12

\* After a visit no operation is under way.
LEMMA NextVisitOp ==
  ASSUME k \in Control, NEW s
  PROVE  NextVisit(k, s).op = "none"
<1> DEFINE next == get_nth_client(s, k.i + 1).addr
           hung == [k EXCEPT !.at = "hung", !.op = "none"]
           go == [k EXCEPT !.i = @ + 1, !.fin = (next = k.last), !.op = "none", !.at = "visit"]
<1>1. NextVisit(k, s) \in {Phase("mqtt"), hung, go} BY DEF NextVisit
<1> HIDE DEF next
<1>2. hung.op = "none" /\ go.op = "none" BY DEF Control
<1>3. Phase("mqtt").op = "none" BY PhaseType
<1> HIDE DEF hung, go
<1> QED BY <1>1, <1>2, <1>3

\* The steps that send nothing.
LEMMA SilentPlain ==
  ASSUME IInv, Interest,
         \/ Boot \/ Crash \/ Reconnect \/ YieldDone \/ ConnectionLost \/ BrokerSubscribes \/ ReceiveNothing
         \/ Deliver \/ RemoveStep \/ RemoveDoneConnect \/ RemoveDoneLost \/ RemovedDone \/ WillDone
         \/ CrashInside \/ CoreLoopOnline \/ CoreLoopOffline
         \/ \E p \in Packets : ConnectClean(p)
         \/ \E t \in Topic, d \in Payload : Arrive(t, d)
  PROVE  PlainStep
<1>1. k \in Control BY DEF IInv, CtlOK
<1>2. ASSUME NEW s, Leave(s) PROVE PlainStep
  <2>1. out' = <<>> /\ k'.op = "none" BY <1>2, PhaseType DEF Leave
  <2> QED BY <2>1, SendsPlain
<1>3. CASE Boot \/ Reconnect \/ YieldDone
  <2>1. PICK at \in {"mqtt", "socket"} : k' = Phase(at) BY <1>3 DEF Boot, YieldDone, Reconnect
  <2>2. k'.op = "none" /\ out' = <<>> BY <1>3, <2>1, PhaseType DEF Boot, YieldDone, Reconnect
  <2> QED BY <2>2, SendsPlain
<1>4. CASE ConnectionLost \/ BrokerSubscribes \/ Deliver
  BY <1>4, SendsPlain DEF ConnectionLost, BrokerSubscribes, Deliver
<1>5. CASE ReceiveNothing BY <1>5, ReplyPlain DEF ReceiveNothing
<1>6. CASE Crash BY <1>2, <1>6 DEF Crash, Stopped
<1>7. CASE CrashInside
  <2>1. \E s : Leave(s)
    BY <1>7 DEF CrashInside, KilledInRemove, KilledInTimeout, KilledInSubscribe, KilledInUnsubscribe
  <2> QED BY <1>2, <2>1
<1>8. CASE RemoveStep
  <2> DEFINE hung == [k EXCEPT !.at = "hung"]
             wait(t) == [k EXCEPT !.at = "wait", !.topic = t]
  <2>1. out' = <<>> /\ k.at = "remove" /\ (k' = hung \/ k' = k \/ \E t : k' = wait(t)) BY <1>8 DEF RemoveStep
  <2>2. hung.op = k.op /\ \A t : wait(t).op = k.op BY <1>1 DEF Control
  <2> HIDE DEF hung, wait
  <2>3. k'.op = k.op /\ k.op \in {"connect", "lost"} BY <2>1, <2>2 DEF Interest
  <2> QED BY <2>1, <2>3, SendsPlain
<1>9. CASE RemoveDoneConnect BY <1>9, FinishConnectPlain DEF RemoveDoneConnect
<1>10. CASE RemoveDoneLost
  <2>1. out' = <<>> /\ \E s : k' = NextVisit(k, s) BY <1>10 DEF RemoveDoneLost
  <2> QED BY <1>1, <2>1, NextVisitOp, SendsPlain
<1>11. CASE RemovedDone
  <2>1. out' = <<>> /\ k' = [k EXCEPT !.at = "remove", !.topic = Empty] /\ k.op \in {"connect", "lost"}
    BY <1>11 DEF RemovedDone, Returns
  <2>2. k'.op = k.op BY <1>1, <2>1 DEF Control
  <2> QED BY <2>1, <2>2, SendsPlain
<1>12. CASE WillDone
  <2>1. out' = <<>> /\ k' = [k EXCEPT !.at = "remove", !.op = "lost", !.topic = Empty, !.qos = 0]
    BY <1>12 DEF WillDone
  <2>2. k'.op = "lost" BY <1>1, <2>1, ZenonT(60) DEF Control
  <2> QED BY <2>1, <2>2, SendsPlain
<1>13. CASE CoreLoopOnline \/ CoreLoopOffline
  <2>1. CASE \E s : Leave(s) BY <1>2, <2>1
  <2>2. CASE ~\E s : Leave(s)
    <3> DEFINE last == get_last_client_address(db)
               visit == [Phase("visit") EXCEPT !.i = 1, !.last = last]
               off == [Phase("visit") EXCEPT !.i = 1, !.last = last, !.off = TRUE]
    <3>1. Phase("visit") \in Control /\ Phase("visit").op = "none" /\ Phase("mqtt").op = "none" BY PhaseType
    <3>2. last \in Address \cup {NoAddress} BY LastAddressType DEF IInv, CtlOK
    <3>3. ~Stopped BY <2>2 DEF Stopped
    <3>4. out' = <<>>
      <4>1. CASE CoreLoopOnline BY <4>1, ZenonT(60) DEF CoreLoopOnline
      <4>2. CASE CoreLoopOffline BY <3>3, <4>2, ZenonT(60) DEF CoreLoopOffline
      <4> QED BY <1>13, <4>1, <4>2
    <3>5. \/ k' = Phase("mqtt") \/ k' = visit \/ k' = off
          \/ \E e : k' = [visit EXCEPT !.beat = TRUE, !.elapsed = e]
          \/ \E e : k' = [off EXCEPT !.beat = TRUE, !.elapsed = e]
      <4> HIDE DEF visit, off
      <4>1. CASE CoreLoopOnline BY <4>1, ZenonT(60) DEF CoreLoopOnline, visit, last
      <4>2. CASE CoreLoopOffline BY <3>3, <4>2, ZenonT(60) DEF CoreLoopOffline, off, last
      <4> QED BY <1>13, <4>1, <4>2
    <3> HIDE DEF last
    <3>6. visit \in Control /\ visit.op = "none" /\ off \in Control /\ off.op = "none"
      BY <3>1, <3>2, ZenonT(60) DEF Control
    <3> HIDE DEF visit, off
    <3>7. ASSUME NEW c \in Control, NEW e PROVE [c EXCEPT !.beat = TRUE, !.elapsed = e].op = c.op
      BY DEF Control
    <3>8. k'.op = "none" BY <3>1, <3>5, <3>6, <3>7
    <3> QED BY <3>4, <3>8, SendsPlain
  <2> QED BY <2>1, <2>2
<1>14. ASSUME NEW p \in Packets, ConnectClean(p) PROVE PlainStep
  <2>1. Phase("remove") \in Control BY PhaseType
  <2>2. out' = <<>> /\ k' = [Phase("remove") EXCEPT !.op = "connect", !.pk = p] BY <1>14 DEF ConnectClean
  <2>3. k'.op = "connect" BY <2>1, <2>2, ZenonT(60) DEF Control
  <2> QED BY <2>2, <2>3, SendsPlain
<1>15. ASSUME NEW t \in Topic, NEW d \in Payload, Arrive(t, d) PROVE PlainStep
  <2>1. out' = <<>> /\ k' = k BY <1>15 DEF Arrive
  <2> QED BY <2>1, SendsPlain
<1> QED BY <1>3, <1>4, <1>5, <1>6, <1>7, <1>8, <1>9, <1>10, <1>11, <1>12, <1>13, <1>14, <1>15

\* SUBSCRIBE and UNSUBSCRIBE, before the broker call and after it.
LEMMA SubscribePlain ==
  ASSUME IInv, SubscribeDone \/ UnsubscribeDone \/ \E p \in Packets : Subscribe(p) \/ Unsubscribe(p)
  PROVE  PlainStep
<1>1. \A p, res, tid : Plain(Suback(p, res, tid)) /\ Suback(p, res, tid).type = "SUBACK"
  BY DEF Suback, Sent, Plain
<1>2. \A p, q : Plain([Suback(p, "ZERO", 0) EXCEPT !.qos = q])
  BY <1>1 DEF Suback, Sent, Plain
<1>3. \A p : Plain(Unsuback(p)) BY DEF Unsuback, Sent, Plain
<1>4. Phase("wait") \in Control BY PhaseType
<1>5. CASE SubscribeDone
  <2>1. k' = Phase("core") /\ \E res, tid : out' = <<Suback(k.pk, res, tid)>> BY <1>5 DEF SubscribeDone
  <2>2. k'.op = "none" BY <2>1, PhaseType
  <2> QED BY <1>1, <2>1, <2>2, SendsPlain
<1>6. CASE UnsubscribeDone
  <2>1. k' = Phase("core") /\ out' = <<Unsuback(k.pk)>> BY <1>6 DEF UnsubscribeDone
  <2>2. k'.op = "none" BY <2>1, PhaseType
  <2> QED BY <1>3, <2>1, <2>2, SendsPlain
<1>7. ASSUME NEW p \in Packets, Subscribe(p) PROVE PlainStep
  <2> DEFINE bad == [Suback(p, "ZERO", 0) EXCEPT !.qos = p.qos]
             n(topic, tid, res) == [Phase("wait") EXCEPT !.op = "subscribe", !.pk = p, !.topic = topic,
                                                         !.tid = tid, !.res = res]
  <2>1. \/ \E s : Reply(s, <<bad>>)
        \/ \E s, res, tid : Reply(s, <<Suback(p, res, tid)>>)
        \/ out' = <<>> /\ \E topic, tid, res : k' = n(topic, tid, res)
    <3> DEFINE r == register_topic(db, link.online, p.addr, p.topic)
               byName == p.form \in {"name", "normal"}
               l == lookup_subscription(IF byName THEN r.db ELSE db, link.online, p.addr,
                                        IF byName THEN r.tid ELSE p.tid, p.form # "predef", p.qos)
    <3>1. \/ Reply(r.db, <<bad>>)
          \/ Reply(l.db, <<Suback(p, l.res, l.tid)>>)
          \/ out' = <<>> /\ k' = n(l.topic, l.tid, l.res)
      BY <1>7 DEF Subscribe
    <3> HIDE DEF r, l, n, bad
    <3> QED BY <3>1
  <2>2. \A topic, tid, res : n(topic, tid, res).op = "subscribe" BY <1>4, ZenonT(60) DEF Control
  <2>3. Plain(bad) BY <1>2
  <2> HIDE DEF n, bad
  <2>4. CASE \E s : Reply(s, <<bad>>) BY <2>3, <2>4, ReplyPlain
  <2>5. CASE \E s, res, tid : Reply(s, <<Suback(p, res, tid)>>) BY <1>1, <2>5, ReplyPlain
  <2>6. CASE out' = <<>> /\ \E topic, tid, res : k' = n(topic, tid, res)
    <3>1. k'.op = "subscribe" BY <2>2, <2>6
    <3> QED BY <2>6, <3>1, SendsPlain
  <2> QED BY <2>1, <2>4, <2>5, <2>6
<1>8. ASSUME NEW p \in Packets, Unsubscribe(p) PROVE PlainStep
  <2> DEFINE n(topic) == [Phase("wait") EXCEPT !.op = "unsubscribe", !.pk = p, !.topic = topic]
  <2>1. \/ \E s : Reply(s, <<Unsuback(p)>>)
        \/ out' = <<>> /\ \E topic : k' = n(topic)
    BY <1>8 DEF Unsubscribe
  <2>2. \A topic : n(topic).op = "unsubscribe" BY <1>4, ZenonT(60) DEF Control
  <2> HIDE DEF n
  <2>3. CASE \E s : Reply(s, <<Unsuback(p)>>) BY <1>3, <2>3, ReplyPlain
  <2>4. CASE out' = <<>> /\ \E topic : k' = n(topic)
    <3>1. k'.op = "unsubscribe" BY <2>2, <2>4
    <3> QED BY <2>4, <3>1, SendsPlain
  <2> QED BY <2>1, <2>3, <2>4
<1> QED BY <1>5, <1>6, <1>7, <1>8

\* The answer to a PUBLISH says ACCEPTED for a QoS 1 message the broker has taken, and no other.
LEMMA AnswerPublishSent ==
  ASSUME NEW s, NEW p \in Packets, NEW res, NEW again, AnswerPublish(s, p, res, again)
  PROVE  /\ k'.op # "publish"
         /\ out' = <<>> \/ \E m : /\ out' = <<m>>
                                  /\ \/ Plain(m)
                                     \/ /\ res = "SUCCESS" /\ p.qos = 1
                                        /\ m.type = "PUBACK" /\ m.to = p.addr /\ m.mid = p.mid
<1> DEFINE ack(code) == [Sent(p.addr, "PUBACK") EXCEPT !.code = code, !.tid = p.tid, !.mid = p.mid]
           rec == [Sent(p.addr, "PUBREC") EXCEPT !.mid = p.mid]
           dis == Sent(p.addr, "DISCONNECT")
           Fine(o) == o = <<>> \/ \E m : /\ o = <<m>>
                                         /\ \/ Plain(m)
                                            \/ /\ res = "SUCCESS" /\ p.qos = 1
                                               /\ m.type = "PUBACK" /\ m.to = p.addr /\ m.mid = p.mid
<1>1. k'.op # "publish"
  <2>1. k' \in {[Phase("again") EXCEPT !.pk = p], Phase("core")} BY DEF AnswerPublish
  <2>2. Phase("again") \in Control /\ Phase("again").op = "none" /\ Phase("core").op = "none" BY PhaseType
  <2> QED BY <2>1, <2>2 DEF Control
<1>2. \A code : /\ ack(code).type = "PUBACK" /\ ack(code).to = p.addr /\ ack(code).mid = p.mid
                /\ code # "ACCEPTED" => Plain(ack(code))
  BY DEF Sent, Plain
<1>3. Plain(rec) /\ Plain(dis) BY SentPlain DEF SentTypes
<1>4. \/ out' = <<>> \/ out' = <<dis>> \/ out' = <<rec>>
      \/ out' = <<ack("REJECTED_NOT_SUPPORTED")>> \/ out' = <<ack("REJECTED_INVALID_TOPIC_ID")>>
      \/ out' = <<ack("ACCEPTED")>> /\ res = "SUCCESS" /\ p.qos = 1
  <2> DEFINE w == await_message(s, p.addr, "PUBREL")
             failed == res \notin {"SUCCESS", "TOPICIDNONEXISTENCE"}
  <2>1. p.qos \in {-1, 0, 1, 2}
    <3>1. p \in Packet BY PacketAssumption
    <3> QED BY <3>1 DEF Packet
  <2>2. out' = CASE p.qos = -1 -> <<>>
                 [] p.qos = 1 /\ failed -> <<ack("REJECTED_NOT_SUPPORTED")>>
                 [] p.qos \in {0, 2} /\ failed -> <<dis>>
                 [] p.qos \in {0, 1} /\ res = "TOPICIDNONEXISTENCE" -> <<ack("REJECTED_INVALID_TOPIC_ID")>>
                 [] p.qos = 0 /\ res = "SUCCESS" -> <<>>
                 [] p.qos = 1 /\ res = "SUCCESS" -> <<ack("ACCEPTED")>>
                 [] OTHER -> <<IF w.res = "SUCCESS" THEN rec ELSE dis>>
    BY DEF AnswerPublish
  <2> HIDE DEF ack, rec, dis, w
  <2>3. CASE failed BY <2>1, <2>2, <2>3
  <2>4. CASE res = "TOPICIDNONEXISTENCE" BY <2>1, <2>2, <2>4
  <2>5. CASE res = "SUCCESS" BY <2>1, <2>2, <2>5
  <2> QED BY <2>3, <2>4, <2>5
<1> HIDE DEF ack, rec, dis
<1>5. Fine(out') BY <1>2, <1>3, <1>4
<1> QED BY <1>1, <1>5

\* The answer to one that failed.
LEMMA AnswerFailurePlain ==
  ASSUME NEW s, NEW p \in Packets, NEW res, NEW again, AnswerPublish(s, p, res, again), res # "SUCCESS"
  PROVE  PlainStep
BY AnswerPublishSent, SendsPlain

\* A PUBLISH of a client up to the broker call: it is answered only when it fails.
LEMMA HandlePublishPlain ==
  ASSUME NEW p \in Packets, NEW again \in BOOLEAN, handle_publish(p, again)
  PROVE  PlainStep
<1> DEFINE o == start_by_address(db, p.addr)
           short == p.form = "short"
           t == IF short THEN get_topic_name(o, p.tid) ELSE get_predefined_topic_name(o, p.tid)
           looked == IF short THEN touch_topic_name(o, p.tid) ELSE touch_predefined_topic_name(o, p.tid)
           gone == ~client_exist(o) \/ get_client_status(o) \in {"DISCONNECTED", "LOST"}
           free == p.qos = -1 /\ ~short
           c == Commit(IF gone /\ ~free THEN o ELSE looked)
           qos == IF p.qos = -1 THEN 0 ELSE p.qos
           n(op) == [PublishLocals(p, again) EXCEPT !.op = op, !.topic = t, !.qos = qos]
           Sends == \E op : k' = n(op) /\ out' = IF link.conn THEN <<ToBroker(t, p.msg, qos)>> ELSE <<>>
           Fails == \E s, res : AnswerPublish(s, p, res, again) /\ res # "SUCCESS"
<1>1. Sends \/ Fails
  <2> DEFINE A(s, res) == AnswerPublish(s, p, res, again)
             send(s, op) ==
               /\ db' = s
               /\ k' = n(op)
               /\ out' = IF link.conn THEN <<ToBroker(t, p.msg, qos)>> ELSE <<>>
  <2>1. (CASE ~link.online -> A(db, "ZERO")
          [] link.online /\ gone /\ free /\ t # Null -> send(looked, "predef")
          [] link.online /\ gone /\ ~(free /\ t # Null) ->
               A(c.db, IF c.res = "SUCCESS" THEN "CLIENTNONEXISTENCE" ELSE "ZERO")
          [] link.online /\ ~gone /\ t = Null ->
               A(c.db, IF c.res = "SUCCESS" THEN "TOPICIDNONEXISTENCE" ELSE "ZERO")
          [] OTHER -> send(c.db, "publish"))
    BY DEF handle_publish
  <2>2. \A s, res : A(s, res) /\ res # "SUCCESS" => Fails OBVIOUS
  <2>3. \A s, op : send(s, op) => Sends OBVIOUS
  <2> HIDE DEF A, send, c, gone, free, looked, t, Fails, Sends
  <2>4. CASE ~link.online BY <2>1, <2>2, <2>4
  <2>5. CASE link.online /\ gone /\ free /\ t # Null BY <2>1, <2>3, <2>5
  <2>6. CASE link.online /\ gone /\ ~(free /\ t # Null) BY <2>1, <2>2, <2>6
  <2>7. CASE link.online /\ ~gone /\ t = Null BY <2>1, <2>2, <2>7
  <2>8. CASE link.online /\ ~gone /\ t # Null BY <2>1, <2>3, <2>8
  <2> QED BY <2>4, <2>5, <2>6, <2>7, <2>8
<1>2. CASE Fails BY <1>2, AnswerFailurePlain
<1>3. CASE Sends
  <2> HIDE DEF t
  <2>1. PICK op : k' = n(op) /\ out' = IF link.conn THEN <<ToBroker(t, p.msg, qos)>> ELSE <<>> BY <1>3
  <2>2. n(op).pk = p /\ n(op).qos = qos
    <3>1. Phase("wait") \in Control BY PhaseType
    <3>2. PublishLocals(p, again) \in Control /\ PublishLocals(p, again).pk = p
      BY <3>1, ZenonT(60) DEF PublishLocals, Control
    <3> HIDE DEF qos
    <3> QED BY <3>2, ZenonT(60) DEF Control
  <2>3. Plain(ToBroker(t, p.msg, qos)) BY DEF ToBroker, Sent, Plain
  <2>4. QosKept' BY <2>1, <2>2 DEF QosKept
  <2>5. \A i \in DOMAIN out' : Plain(out'[i])
    <3>1. DOMAIN <<>> = {} OBVIOUS
    <3>2. ASSUME NEW m PROVE \A i \in DOMAIN <<m>> : <<m>>[i] = m OBVIOUS
    <3> HIDE DEF qos, n
    <3> QED BY <2>1, <2>3, <3>1, <3>2
  <2> QED BY <2>4, <2>5 DEF PlainStep
<1> QED BY <1>1, <1>2, <1>3

\* A visit acknowledges no publish, and sends messages to the client visited, if it is there.
LEMMA ServedSent ==
  ASSUME NEW r, NEW w \in Served(r)
  PROVE  \A i \in DOMAIN w.out :
           /\ w.out[i].type # "PUBACK"
           /\ w.out[i].type = "PUBLISH" => w.out[i].to = r.addr /\ r.status \in {"ACTIVE", "AWAKE"}
<1> DEFINE a(h) == settle(h.db, r.status, r.addr, {"ACTIVE", "AWAKE"}, "DISCONNECTED", "DISCONNECT")
           b(h) == settle(h.db, r.status, r.addr, {"AWAKE"}, "ASLEEP", "PINGRESP")
           S(h) == IF k.off THEN a(h) ELSE b(h)
           Good1(m) == /\ m.type # "PUBACK"
                       /\ m.type = "PUBLISH" => m.to = r.addr /\ r.status \in {"ACTIVE", "AWAKE"}
           Fine(o) == o = <<>> \/ \E m : o = <<m>> /\ Good1(m)
<1>1. PICK h \in handle_client_publishes(db, r.status, r.addr) :
        w = [db |-> S(h).db, out |-> h.out \o S(h).out]
  BY DEF Served
<1>2. Fine(S(h).out)
  <2>1. \A type \in {"DISCONNECT", "PINGRESP"} : Good1(Sent(r.addr, type)) BY DEF Sent
  <2>2. S(h).out \in {<<>>, <<Sent(r.addr, "DISCONNECT")>>, <<Sent(r.addr, "PINGRESP")>>} BY DEF settle
  <2> HIDE DEF Good1
  <2> QED BY <2>1, <2>2
<1>3. Fine(h.out)
  <2> DEFINE o == start_by_address(db, r.addr)
             e == get_next_publish(o)
             mid == get_client_await_msg_id(o) + 1
             done(y, m) == [db |-> apply_transaction(y), out |-> IF apply_result(y) = 1 THEN m ELSE <<>>]
             reg == [Sent(r.addr, "REGISTER") EXCEPT !.tid = e.tid, !.mid = mid]
             p0 == [Sent(r.addr, "PUBLISH") EXCEPT !.tid = e.tid, !.data = e.data]
             p1 == [Sent(r.addr, "PUBLISH") EXCEPT !.tid = e.tid, !.data = e.data, !.qos = 1, !.mid = mid]
  <2>1. r.status \in {"ACTIVE", "AWAKE"} => Good1(reg) /\ Good1(p0) /\ Good1(p1) BY DEF Sent
  <2>2. \/ h.out = <<>>
        \/ /\ r.status \in {"ACTIVE", "AWAKE"}
           /\ \E y : h = done(y, <<>>) \/ h = done(y, <<reg>>) \/ h = done(y, <<p0>>) \/ h = done(y, <<p1>>)
    BY DEF handle_client_publishes
  <2> HIDE DEF reg, p0, p1, Good1
  <2>3. h.out = <<>> \/ (r.status \in {"ACTIVE", "AWAKE"} /\ h.out \in {<<>>, <<reg>>, <<p0>>, <<p1>>}) BY <2>2
  <2> QED BY <2>1, <2>3
<1>4. w.out = h.out \o S(h).out BY <1>1
<1> HIDE DEF S, Good1
<1>5. ASSUME NEW x, NEW y, Fine(x), Fine(y) PROVE \A i \in DOMAIN (x \o y) : Good1((x \o y)[i])
  <2>1. CASE x = <<>> /\ y = <<>> BY <2>1
  <2>2. ASSUME NEW m, x = <<m>>, y = <<>>, Good1(m) PROVE \A i \in DOMAIN (x \o y) : Good1((x \o y)[i])
    BY <2>2
  <2>3. ASSUME NEW m, x = <<>>, y = <<m>>, Good1(m) PROVE \A i \in DOMAIN (x \o y) : Good1((x \o y)[i])
    BY <2>3
  <2>4. ASSUME NEW m, NEW n, x = <<m>>, y = <<n>>, Good1(m), Good1(n)
        PROVE \A i \in DOMAIN (x \o y) : Good1((x \o y)[i])
    BY <2>4
  <2> QED BY <1>5, <2>1, <2>2, <2>3, <2>4
<1>6. \A i \in DOMAIN w.out : Good1(w.out[i]) BY <1>2, <1>3, <1>4, <1>5
<1> QED BY <1>6 DEF Good1

\* What a visit sends: queued messages under ids their client knows, and perhaps a will.
LEMMA VisitSent ==
  ASSUME IInv, RowsProper(db), Visit \/ VisitTimed \/ VisitWill
  PROVE  /\ k'.op # "publish"
         /\ \A i \in DOMAIN out' :
              /\ out'[i].type # "PUBACK"
              /\ AllFiles(db) => out'[i].to = "broker" \/ OwnId(db, out'[i].to, out'[i])
              /\ out'[i].type = "PUBLISH" /\ out'[i].to # "broker" =>
                   LET r == get_nth_client(db, k.i) IN out'[i].to = r.addr /\ r.status \in {"ACTIVE", "AWAKE"}
<1> DEFINE r == get_nth_client(db, k.i)
           H(w) == handle_timeout(w.db, r, k.elapsed)
           L(o) == get_client_will(o)
           K(l) == [k EXCEPT !.at = "wait", !.op = "will", !.topic = l.topic, !.qos = l.qos]
           X(l) == IF link.conn /\ l.qos # 255 THEN <<ToBroker(l.topic, l.msg, l.qos)>> ELSE <<>>
           Fine(o) == \A i \in DOMAIN o :
                        /\ o[i].type # "PUBACK"
                        /\ AllFiles(db) => o[i].to = "broker" \/ OwnId(db, o[i].to, o[i])
                        /\ o[i].type = "PUBLISH" /\ o[i].to # "broker" =>
                             o[i].to = r.addr /\ r.status \in {"ACTIVE", "AWAKE"}
<1> SUFFICES k'.op # "publish" /\ Fine(out') OBVIOUS
<1>1. Closed(db) /\ Good(db) /\ k \in Control
  <2>1. k.at = "visit" BY DEF Visit, VisitTimed, VisitWill
  <2>2. k \in Control BY DEF IInv, CtlOK
  <2> QED BY <2>1, <2>2, InvClosed DEF IInv, Control, Closed
<1>2. r \in entry_client /\ Proper(r) BY <1>1, VisitedProper
<1>3. DOMAIN db.clients = 1..Len(db.clients) BY <1>1, RowsType
<1> HIDE DEF r
<1>4. ASSUME NEW w \in Served(r) PROVE Fine(w.out) /\ w.out \in Seq(Message)
  <2>1. AllFiles(db) => \A c \in DOMAIN db.clients : FilesOK(db.clients[c]) BY <1>3 DEF AllFiles
  <2>2. AllFiles(db) => \A i \in DOMAIN w.out : w.out[i].to = r.addr /\ OwnId(db, r.addr, w.out[i])
    BY <1>1, <1>2, <2>1, ServedQuiet
  <2>3. \A i \in DOMAIN w.out :
          /\ w.out[i].type # "PUBACK"
          /\ w.out[i].type = "PUBLISH" => w.out[i].to = r.addr /\ r.status \in {"ACTIVE", "AWAKE"}
    BY ServedSent
  <2>4. w.out \in Seq(Message) BY <1>1, <1>2, ServedOK
  <2> QED BY <2>2, <2>3, <2>4
<1>5. CASE Visit
  <2>1. PICK w \in Served(r) : out' = w.out /\ k' = NextVisit(k, w.db) BY <1>5 DEF Visit, r
  <2>2. k'.op = "none" BY <1>1, <2>1, NextVisitOp
  <2> QED BY <1>4, <2>1, <2>2
<1>6. CASE VisitTimed
  <2>1. PICK w \in Served(r) : out' = w.out /\ \E s : k' = NextVisit(k, s) BY <1>6, ZenonT(60) DEF VisitTimed, r
  <2>2. k'.op = "none" BY <1>1, <2>1, NextVisitOp
  <2> QED BY <1>4, <2>1, <2>2
<1>7. CASE VisitWill
  <2>1. PICK w \in Served(r) : out' = w.out \o X(L(H(w))) /\ k' = K(L(H(w)))
    BY <1>7, ZenonT(60) DEF VisitWill, r
  <2> HIDE DEF L, H
  <2>2. \A l : K(l).op = "will" BY <1>1, ZenonT(60) DEF Control
  <2> HIDE DEF K
  <2>3. ASSUME NEW l PROVE X(l) = <<>> \/ \E m : X(l) = <<m>> /\ m.type # "PUBACK" /\ m.to = "broker"
    <3>1. \A t, m, q : ToBroker(t, m, q).type = "PUBLISH" /\ ToBroker(t, m, q).to = "broker"
      BY DEF ToBroker, Sent
    <3>2. X(l) = <<>> \/ X(l) = <<ToBroker(l.topic, l.msg, l.qos)>> OBVIOUS
    <3> HIDE DEF X
    <3> QED BY <3>1, <3>2
  <2> HIDE DEF X
  <2>4. ASSUME NEW x, x = <<>> \/ \E m : x = <<m>> /\ m.type # "PUBACK" /\ m.to = "broker"
        PROVE  Fine(w.out \o x)
    <3>1. w.out \in Seq(Message) /\ Fine(w.out) BY <1>4
    <3>2. CASE x = <<>> BY <3>1, <3>2
    <3>3. ASSUME NEW m, x = <<m>>, m.type # "PUBACK", m.to = "broker" PROVE Fine(w.out \o x)
      <4> DEFINE o == w.out \o <<m>>
      <4>1. DOMAIN o = 1..(Len(w.out) + 1) /\ o[Len(w.out) + 1] = m /\ \A i \in 1..Len(w.out) : o[i] = w.out[i]
        BY <3>1
      <4>2. DOMAIN w.out = 1..Len(w.out) /\ Len(w.out) \in Nat BY <3>1
      <4> HIDE DEF o
      <4>3. Fine(o) BY <3>1, <3>3, <4>1, <4>2
      <4> QED BY <3>3, <4>3 DEF o
    <3> QED BY <2>4, <3>2, <3>3
  <2>5. Fine(out') BY <2>1, <2>3, <2>4
  <2> QED BY <2>1, <2>2, <2>5
<1> QED BY <1>5, <1>6, <1>7

---------------------------------------------------------------------------
(* Acknowledgements, and the ids of queued messages. *)

\* The end of a publish: it is accepted when the broker has taken a message of QoS 1.
LEMMA PublishDoneSent ==
  ASSUME IInv, QosKept, PublishDone
  PROVE  /\ QosKept'
         /\ \A i \in DOMAIN out' :
              \/ Plain(out'[i])
              \/ /\ k.op = "publish" /\ out'[i].type = "PUBACK"
                 /\ out'[i].to = k.pk.addr /\ out'[i].mid = k.pk.mid
                 /\ link.up /\ link' = link
<1>1. k.pk \in Packets /\ k.op = "publish" /\ link \in Link BY DEF IInv, CtlOK, Control, PublishDone, Returns
<1>2. PICK r \in publish_results(link, k.qos) :
        link' = r.link /\ AnswerPublish(db, k.pk, IF r.ok THEN "SUCCESS" ELSE "ZERO", k.again)
  BY DEF PublishDone
<1>3. r.ok /\ k.qos = 1 => link.up /\ link' = link BY <1>2 DEF publish_results
<1> DEFINE res == IF r.ok THEN "SUCCESS" ELSE "ZERO"
<1>4. res = "SUCCESS" => r.ok OBVIOUS
<1> HIDE DEF res
<1>5. /\ k'.op # "publish"
      /\ out' = <<>> \/ \E m : /\ out' = <<m>>
                               /\ \/ Plain(m)
                                  \/ /\ res = "SUCCESS" /\ k.pk.qos = 1
                                     /\ m.type = "PUBACK" /\ m.to = k.pk.addr /\ m.mid = k.pk.mid
  BY <1>1, <1>2, AnswerPublishSent DEF res
<1>6. res = "SUCCESS" /\ k.pk.qos = 1 => link.up /\ link' = link BY <1>1, <1>3, <1>4 DEF QosKept
<1>7. DOMAIN <<>> = {} OBVIOUS
<1>8. ASSUME NEW m PROVE \A i \in DOMAIN <<m>> : <<m>>[i] = m OBVIOUS
<1> QED BY <1>1, <1>5, <1>6, <1>7, <1>8 DEF QosKept

\* Every step sends plain messages, or is a visit, or is the end of a publish.
LEMMA SendingStep ==
  ASSUME IInv, Owned, Interest, QosKept, [Next]_vars
  PROVE  \/ UNCHANGED vars
         \/ PlainStep
         \/ Visit \/ VisitTimed \/ VisitWill
         \/ PublishDone
<1>1. ASSUME NEW p \in Packets, Handle(p) PROVE PlainStep
  <2>1. CASE ConnectClean(p) BY <2>1, SilentPlain
  <2>2. CASE Publish(p)
    <3>1. (p.form = "normal") \in BOOLEAN OBVIOUS
    <3> QED BY <2>2, <3>1, HandlePublishPlain DEF Publish
  <2>3. CASE Subscribe(p) \/ Unsubscribe(p) BY <2>3, SubscribePlain
  <2>4. CASE \/ ConnectOffline(p) \/ ConnectNew(p) \/ ConnectAgain(p)
             \/ WillTopic(p) \/ WillMsg(p) \/ Register(p) \/ RegAck(p)
             \/ PubAck(p) \/ PingReq(p) \/ Disconnect(p)
    BY <2>4, PacketPlain
  <2> QED BY <1>1, <2>1, <2>2, <2>3, <2>4 DEF Handle
<1>2. CASE PublishAgain
  <2>1. k.pk \in Packets BY DEF IInv, CtlOK, Control
  <2> QED BY <1>2, <2>1, HandlePublishPlain DEF PublishAgain
<1>3. CASE PredefDone
  <2>1. k.pk \in Packets BY DEF IInv, CtlOK, Control
  <2>2. \E s : AnswerPublish(s, k.pk, "ZERO", k.again) BY <1>3 DEF PredefDone
  <2> QED BY <2>1, <2>2, AnswerFailurePlain
<1>4. CASE \/ Boot \/ Crash \/ Reconnect \/ YieldDone \/ ConnectionLost \/ BrokerSubscribes \/ ReceiveNothing
           \/ Deliver \/ RemoveStep \/ RemoveDoneConnect \/ RemoveDoneLost \/ RemovedDone \/ WillDone
           \/ CrashInside \/ CoreLoopOnline \/ CoreLoopOffline
           \/ \E t \in Topic, d \in Payload : Arrive(t, d)
  BY <1>4, SilentPlain
<1>5. CASE SubscribeDone \/ UnsubscribeDone BY <1>5, SubscribePlain
<1> QED BY <1>1, <1>2, <1>3, <1>4, <1>5 DEF Next, Thread, CallDone

\* A step keeps the QoS of the publish under way.
LEMMA QosNext ==
  ASSUME IInv, Owned, Interest, QosKept, [Next]_vars
  PROVE  QosKept'
<1>1. CASE UNCHANGED vars BY <1>1 DEF vars, QosKept
<1>2. CASE PlainStep BY <1>2 DEF PlainStep
<1>3. CASE Visit \/ VisitTimed \/ VisitWill BY <1>3, VisitSent DEF QosKept, Owned, Orderly
<1>4. CASE PublishDone BY <1>4, PublishDoneSent
<1> QED BY <1>1, <1>2, <1>3, <1>4, SendingStep

\* The QoS is kept in every reachable state.
LEMMA QosAlways == Spec => []QosKept
<1>1. Init => QosKept
  <2> SUFFICES ASSUME Init PROVE QosKept OBVIOUS
  <2>1. k.op = "none" BY PhaseType DEF Init
  <2> QED BY <2>1 DEF QosKept
<1>2. IInv /\ Owned /\ Interest /\ QosKept /\ [Next]_vars => QosKept' BY QosNext
<1> QED BY <1>1, <1>2, Ownership, PTL DEF Spec

\* What an accepted publish says of the step it is sent in.
AckStep ==
  \A i \in DOMAIN out' :
    out'[i].type = "PUBACK" /\ out'[i].code = "ACCEPTED" =>
      /\ k.op = "publish" /\ out'[i].to = k.pk.addr /\ out'[i].mid = k.pk.mid
      /\ link.up /\ link' = link

(***************************************************************************)
(* A client is told that its PUBLISH is accepted in the step in which the  *)
(* broker's acknowledgement of that packet has come in, on a connection    *)
(* that is alive, and in no other.                                         *)
(***************************************************************************)
THEOREM AcceptedByBroker == Spec => AckedByBroker
<1>1. IInv /\ Owned /\ Interest /\ QosKept /\ [Next]_vars => [AckStep]_vars
  <2> SUFFICES ASSUME IInv, Owned, Interest, QosKept, [Next]_vars, ~UNCHANGED vars PROVE AckStep
    OBVIOUS
  <2>1. CASE PlainStep BY <2>1 DEF PlainStep, Plain, AckStep
  <2>2. CASE Visit \/ VisitTimed \/ VisitWill BY <2>2, VisitSent DEF AckStep, Owned, Orderly
  <2>3. CASE PublishDone BY <2>3, PublishDoneSent DEF Plain, AckStep
  <2> QED BY <2>1, <2>2, <2>3, SendingStep
<1>2. AckedByBroker <=> [][AckStep]_vars BY DEF AckedByBroker, AckStep
<1> QED BY <1>1, <1>2, Ownership, QosAlways, PTL DEF Spec

\* What a queued message that goes out says of the registrations.
OwnIdStep ==
  \A i \in DOMAIN out' :
    out'[i].type = "PUBLISH" /\ out'[i].to # "broker" /\ out'[i].data # Damaged =>
      \E c \in DOMAIN db.clients :
        /\ db.clients[c].addr = out'[i].to
        /\ out'[i].tid \in DOMAIN db.clients[c].reg
        /\ db.clients[c].reg[out'[i].tid] = out'[i].data[1]

(***************************************************************************)
(* A message goes out under the id its client has registered for the topic *)
(* of the message, unless delete_client was killed half way: then the      *)
(* queue may be left without the registrations it refers to.               *)
(***************************************************************************)
THEOREM SentUnderOwnId == ASSUME WholeDeletion PROVE Spec => DeliveredUnderOwnId
<1>1. IInv /\ Owned /\ Interest /\ QosKept /\ AllFiles(db) /\ [Next]_vars => [OwnIdStep]_vars
  <2> SUFFICES ASSUME IInv, Owned, Interest, QosKept, AllFiles(db), [Next]_vars, ~UNCHANGED vars
               PROVE  OwnIdStep
    OBVIOUS
  <2>1. CASE PlainStep BY <2>1 DEF PlainStep, Plain, OwnIdStep
  <2>2. CASE Visit \/ VisitTimed \/ VisitWill
    <3>1. \A i \in DOMAIN out' : out'[i].to = "broker" \/ OwnId(db, out'[i].to, out'[i])
      BY <2>2, VisitSent DEF Owned, Orderly
    <3> QED BY <3>1 DEF OwnId, OwnIdStep
  <2>3. CASE PublishDone BY <2>3, PublishDoneSent DEF Plain, OwnIdStep
  <2> QED BY <2>1, <2>2, <2>3, SendingStep
<1>2. Spec => []AllFiles(db) BY FilesKept
<1>3. DeliveredUnderOwnId <=> [][OwnIdStep]_vars BY DEF DeliveredUnderOwnId, OwnIdStep
<1> QED BY <1>1, <1>2, <1>3, Ownership, QosAlways, PTL DEF Spec

---------------------------------------------------------------------------
(* No queued message is lost. *)

(***************************************************************************)
(* The queue of a slot is kept, or emptied if it is the slot of the client *)
(* that is being removed; a new slot has nothing queued.                   *)
(***************************************************************************)
QueuesKept(s) ==
  /\ Len(s.clients) >= Len(db.clients)
  /\ \A c \in 1..Len(s.clients) :
       \/ c \in 1..Len(db.clients) /\ s.clients[c].pub = db.clients[c].pub
       \/ s.clients[c].pub = <<>> /\ (c \in 1..Len(db.clients) => k.at = "remove" /\ c = db.cur)

\* Queues stay with their slots when a client is added.
LEMMA MovedQueues ==
  ASSUME Len(db.clients) \in Nat, NEW s, Len(s.clients) \in Nat, QueuesKept(s), NEW t
  PROVE  /\ Alike(s, t) => QueuesKept(t)
         /\ \A id, a : Added(s, t, id, a) => QueuesKept(t) /\ Len(t.clients) \in Nat
<1>1. Alike(s, t) => QueuesKept(t) BY DEF Alike, SameFiles, QueuesKept
<1>2. ASSUME NEW id, NEW a, Added(s, t, id, a) PROVE QueuesKept(t) /\ Len(t.clients) \in Nat
  <2>1. PICK i \in 1..(Len(s.clients) + 1) :
          /\ Len(t.clients) = IF i <= Len(s.clients) THEN Len(s.clients) ELSE i
          /\ \A c \in 1..Len(s.clients) : c # i => t.clients[c] = s.clients[c]
          /\ IF i <= Len(s.clients) THEN SameFiles(s.clients[i], t.clients[i]) ELSE NoFiles(t.clients[i])
    BY <1>2 DEF Added
  <2>2. Len(t.clients) \in Nat /\ Len(t.clients) >= Len(s.clients) BY <2>1
  <2>3. \A c \in 1..Len(s.clients) : t.clients[c].pub = s.clients[c].pub BY <2>1 DEF SameFiles
  <2>4. \A c \in 1..Len(t.clients) :
          c \in 1..Len(s.clients) \/ (c \notin 1..Len(db.clients) /\ t.clients[c].pub = <<>>)
    <3> SUFFICES ASSUME NEW c \in 1..Len(t.clients), c \notin 1..Len(s.clients)
                 PROVE  c \notin 1..Len(db.clients) /\ t.clients[c].pub = <<>>
      OBVIOUS
    <3>1. c = i /\ ~(i <= Len(s.clients)) BY <2>1
    <3>2. Len(s.clients) >= Len(db.clients) BY DEF QueuesKept
    <3> QED BY <2>1, <3>1, <3>2 DEF NoFiles
  <2>5. Len(t.clients) >= Len(db.clients) BY <2>2 DEF QueuesKept
  <2> QED BY <2>2, <2>3, <2>4, <2>5 DEF QueuesKept
<1> QED BY <1>1, <1>2

\* CONNECT and the removal of a client, also one that is killed, keep the queues.
LEMMA SpecialQueues ==
  ASSUME IInv, Special
  PROVE  QueuesKept(db')
<1>1. Len(db.clients) \in Nat BY RowsType DEF IInv, CtlOK
<1>2. QueuesKept(db) BY <1>1 DEF QueuesKept
<1>3. ASSUME NEW s, NEW id, Removed(db, s, id), k.at = "remove" PROVE QueuesKept(s)
  BY <1>1, <1>3 DEF Removed, SameFiles, NoFiles, QueuesKept
<1>4. CASE NewClient
  <2>1. PICK p \in Packets : \E s : Added(db, s, p.id, p.addr) /\ Alike(s, db') BY <1>4 DEF NewClient
  <2>2. PICK s : Added(db, s, p.id, p.addr) /\ Alike(s, db') BY <2>1
  <2>3. QueuesKept(s) /\ Len(s.clients) \in Nat BY <1>1, <1>2, <2>2, MovedQueues
  <2> QED BY <1>1, <2>2, <2>3, MovedQueues
<1>5. CASE SameAgain
  <2>1. PICK s : /\ Len(s.clients) = Len(db.clients) /\ Alike(s, db')
                 /\ \A c \in 1..Len(db.clients) :
                      s.clients[c] = db.clients[c] \/ SameFiles(db.clients[c], s.clients[c])
    BY <1>5 DEF SameAgain
  <2>2. QueuesKept(s) BY <1>1, <2>1 DEF SameFiles, QueuesKept
  <2> QED BY <1>1, <2>1, <2>2, MovedQueues
<1>6. CASE Cleaned
  <2>1. PICK s, t : Removed(db, s, k.pk.id) /\ Added(s, t, k.pk.id, k.pk.addr) /\ Alike(t, db')
    BY <1>6 DEF Cleaned
  <2>2. QueuesKept(s) /\ Len(s.clients) \in Nat BY <1>1, <1>3, <1>6, <2>1 DEF Cleaned, Removed
  <2>3. QueuesKept(t) /\ Len(t.clients) \in Nat BY <1>1, <2>1, <2>2, MovedQueues
  <2> QED BY <1>1, <2>1, <2>3, MovedQueues
<1>7. CASE Forgotten BY <1>3, <1>7 DEF Forgotten
<1>8. CASE HalfGone
  <2>1. k.at = "remove" /\ Len(db'.clients) = Len(db.clients) BY <1>8 DEF HalfGone
  <2>2. ASSUME NEW c \in 1..Len(db.clients)
        PROVE  \/ db'.clients[c].pub = db.clients[c].pub
               \/ db'.clients[c].pub = <<>> /\ c = db.cur
    BY <1>8 DEF HalfGone, SameFiles
  <2> QED BY <1>1, <2>1, <2>2 DEF QueuesKept
<1> QED BY <1>4, <1>5, <1>6, <1>7, <1>8 DEF Special, Moved

\* Every step leaves the queued messages numbered.
LEMMA NumberedNext ==
  ASSUME IInv, Owned, AllNumbered(db), [Next]_vars
  PROVE  AllNumbered(db')
<1>1. Ordinary \/ (Spent(db, db') /\ WillFound /\ NothingLost) \/ Special BY Steps
<1>2. CASE Carried(db, db') BY <1>2 DEF Carried, RowCarried, AllNumbered
<1>3. CASE Special
  <2>1. QueuesKept(db') BY <1>3, SpecialQueues
  <2> SUFFICES ASSUME NEW c \in 1..Len(db'.clients) PROVE Numbered(db'.clients[c]) BY DEF AllNumbered
  <2>2. CASE c \in 1..Len(db.clients) /\ db'.clients[c].pub = db.clients[c].pub
    BY <2>2 DEF AllNumbered, Numbered
  <2>3. CASE db'.clients[c].pub = <<>> BY <2>3 DEF Numbered
  <2> QED BY <2>1, <2>2, <2>3 DEF QueuesKept
<1> QED BY <1>1, <1>2, <1>3, SpentCarried DEF Ordinary

\* Every queued message has its position for its id, in every reachable state.
LEMMA NumberedAlways == Spec => []AllNumbered(db)
<1>1. Init => AllNumbered(db)
  <2> SUFFICES ASSUME Init PROVE AllNumbered(db) OBVIOUS
  <2>1. db.clients = <<>> BY DEF Init, EmptyStore
  <2> QED BY <2>1 DEF AllNumbered
<1>2. IInv /\ Owned /\ AllNumbered(db) /\ [Next]_vars => AllNumbered(db)' BY NumberedNext
<1> QED BY <1>1, <1>2, Ownership, PTL DEF Spec

\* What a step may do to the messages that are queued.
QueueKeptStep ==
  \A c \in DOMAIN db.clients :
    LET old == db.clients[c]
        new == db'.clients[c]
    IN \A j \in Queued(old) :
         \/ j \in Queued(new) /\ SameMessage(old.pub[j], new.pub[j])
         \/ old.pub[j].qos = 0
            /\ \/ \E i \in DOMAIN out' :
                    /\ out'[i].type = "PUBLISH" /\ out'[i].to = old.addr
                    /\ out'[i].tid = old.pub[j].tid /\ out'[i].data = old.pub[j].data
               \/ k.at = "visit" /\ k'.at = "down"
         \/ k.at = "remove" /\ c = db.cur

\* Every step keeps what is queued, sends it or removes the client.
LEMMA QueueKeptNext ==
  ASSUME IInv, Owned, AllNumbered(db), [Next]_vars
  PROVE  QueueKeptStep
<1>1. DOMAIN db.clients = 1..Len(db.clients) /\ Len(db.clients) \in Nat BY RowsType DEF IInv, CtlOK
<1>2. Ordinary \/ (Spent(db, db') /\ WillFound /\ NothingLost) \/ Special BY Steps
<1>3. CASE NothingLost
  <2>1. PICK m : Delivered(db, db', m) /\ (m = out' \/ (k.at = "visit" /\ k'.at = "down"))
    BY <1>3 DEF NothingLost
  <2> QED BY <1>1, <2>1 DEF Delivered, SentIn, QueueKeptStep
<1>4. CASE Special
  <2>1. QueuesKept(db') BY <1>4, SpecialQueues
  <2>2. Len(db'.clients) \in Nat BY NextInv, RowsType DEF IInv, CtlOK
  <2>3. ASSUME NEW c \in 1..Len(db.clients)
        PROVE  db'.clients[c].pub = db.clients[c].pub \/ (k.at = "remove" /\ c = db.cur)
    BY <1>1, <2>1, <2>2 DEF QueuesKept
  <2> QED BY <1>1, <2>3 DEF QueueKeptStep, Queued, SameMessage
<1> QED BY <1>2, <1>3, <1>4 DEF Ordinary

(***************************************************************************)
(* No queued message is lost: it stays at its position until it is sent to *)
(* its client, or the client is removed.  add_client_publish takes a       *)
(* position that is free, PUBACKs and failed calls leave the entries of    *)
(* others alone, and the visit that sends a QoS 0 message takes away the   *)
(* very entry it sends, because an entry has its position for its id.      *)
(***************************************************************************)
THEOREM NoMessageLost == Spec => QueuedUntilSent
<1>1. IInv /\ Owned /\ AllNumbered(db) /\ [Next]_vars => QueueKeptStep BY QueueKeptNext
<1>2. QueuedUntilSent <=> [][QueueKeptStep]_vars BY DEF QueuedUntilSent, QueueKeptStep
<1> QED BY <1>1, <1>2, NumberedAlways, Ownership, PTL DEF Spec

---------------------------------------------------------------------------
(* Clients that are gone. *)

\* Nothing is queued in the row of a client that is not there.
LEMMA QueueStep ==
  ASSUME IInv, Owned, [Next]_vars, NEW c \in 1..Len(db.clients),
         db.clients[c].id # NoId, db.clients[c].status \notin Present
  PROVE  Queued(db'.clients[c]) \subseteq Queued(db.clients[c])
<1>1. Ordinary \/ (Spent(db, db') /\ WillFound /\ NothingLost) \/ Special BY Steps
<1>2. CASE Carried(db, db') BY <1>2 DEF Carried
<1>3. CASE Special
  <2>1. QueuesKept(db') BY <1>3, SpecialQueues
  <2>2. c \in 1..Len(db'.clients)
    <3>1. Len(db.clients) \in Nat /\ Len(db'.clients) \in Nat
      BY RowsType, NextInv DEF IInv, CtlOK
    <3> QED BY <2>1, <3>1 DEF QueuesKept
  <2>3. db'.clients[c].pub \in {db.clients[c].pub, <<>>} BY <2>1, <2>2 DEF QueuesKept
  <2> QED BY <2>3 DEF Queued
<1> QED BY <1>1, <1>2, <1>3, SpentCarried DEF Ordinary

\* A message goes out to the broker, or to a client that is there.
LEMMA SentToPresent ==
  ASSUME IInv, Owned, Interest, QosKept, OwnAddresses, [Next]_vars, ~UNCHANGED vars,
         NEW c \in 1..Len(db.clients), db.clients[c].id # NoId, db.clients[c].status \notin Present,
         NEW i \in DOMAIN out', out'[i].to = db.clients[c].addr
  PROVE  out'[i].type # "PUBLISH"
<1> DEFINE r == get_nth_client(db, k.i)
           a == db.clients[c].addr
<1>1. Good(db) /\ Orderly(db) /\ RowsProper(db) BY DEF IInv, CtlOK, Owned, Orderly
<1>2. a # NoAddress /\ a # "broker"
  <2>1. Proper(db.clients[c]) BY <1>1 DEF RowsProper
  <2>2. \E p \in Packets : p.addr = a BY <2>1 DEF Proper
  <2>3. a \in Address BY <2>2, PacketAssumption DEF Packet
  <2> QED BY <2>1, <2>3, BrokerAssumption DEF Proper
<1>3. CASE PlainStep BY <1>2, <1>3 DEF PlainStep, Plain
<1>4. CASE Visit \/ VisitTimed \/ VisitWill
  <2> SUFFICES ASSUME out'[i].type = "PUBLISH" PROVE FALSE OBVIOUS
  <2>1. a = r.addr /\ r.status \in {"ACTIVE", "AWAKE"} BY <1>1, <1>2, <1>4, VisitSent
  <2>2. k.i \in 1..Len(db.clients) /\ r = db.clients[k.i]
    <3>1. DOMAIN db.clients = 1..Len(db.clients) BY <1>1, RowsType
    <3>2. EmptyRow.addr = NoAddress BY DEF EmptyRow
    <3> QED BY <1>2, <2>1, <3>1, <3>2 DEF get_nth_client
  <2>3. k.i = c BY <1>1, <1>2, <2>1, <2>2, OneAddress
  <2> QED BY <2>1, <2>2, <2>3 DEF Present
<1>5. CASE PublishDone BY <1>2, <1>5, PublishDoneSent DEF Plain
<1> QED BY <1>3, <1>4, <1>5, SendingStep

\* What a step leaves alone of a client that is gone.
SilentStep ==
  \A c \in DOMAIN db.clients :
    db.clients[c].status \in {"LOST", "DISCONNECTED"} /\ db.clients[c].id # NoId =>
      /\ Queued(db'.clients[c]) \subseteq Queued(db.clients[c])
      /\ \A i \in DOMAIN out' : out'[i].to = db.clients[c].addr => out'[i].type # "PUBLISH"

(***************************************************************************)
(* A client that is lost or disconnected is sent nothing and gets nothing  *)
(* queued until it comes back.  With an address that clients share, what   *)
(* is sent to one that is there goes to the address of the others too.     *)
(***************************************************************************)
THEOREM SilentToTheGone == ASSUME OwnAddresses PROVE Spec => SilentWhenGone
<1>1. IInv /\ Owned /\ Interest /\ QosKept /\ [Next]_vars => [SilentStep]_vars
  <2> SUFFICES ASSUME IInv, Owned, Interest, QosKept, [Next]_vars, ~UNCHANGED vars PROVE SilentStep
    OBVIOUS
  <2>1. DOMAIN db.clients = 1..Len(db.clients) BY RowsType DEF IInv, CtlOK
  <2> SUFFICES ASSUME NEW c \in 1..Len(db.clients), db.clients[c].id # NoId,
                      db.clients[c].status \in {"LOST", "DISCONNECTED"}
               PROVE  /\ Queued(db'.clients[c]) \subseteq Queued(db.clients[c])
                      /\ \A i \in DOMAIN out' : out'[i].to = db.clients[c].addr => out'[i].type # "PUBLISH"
    BY <2>1 DEF SilentStep
  <2>2. db.clients[c].status \notin Present BY DEF Present
  <2> QED BY <2>2, QueueStep, SentToPresent
<1>2. SilentWhenGone <=> [][SilentStep]_vars BY DEF SilentWhenGone, SilentStep
<1> QED BY <1>1, <1>2, Ownership, QosAlways, PTL DEF Spec

---------------------------------------------------------------------------
(* The use of the service: its definitions are those of the gateway. *)

LinkRec(conn, up, hs, bsub) == [conn |-> conn, up |-> up, hs |-> hs, bsub |-> bsub]

\* What the service sees of a link.
Seen(l) == LinkRec(l.conn, l.up, l.hs, l.bsub)

\* A step of the service, or none.
ServiceStep == [Service!Next]_(Service!vars)

\* Updates of one field, as the service makes them.
SetConn(l, v) == [l EXCEPT !.conn = v]
SetUp(l, v) == [l EXCEPT !.up = v]
SetHs(l, v) == [l EXCEPT !.hs = v]
SetBsub(l, v) == [l EXCEPT !.bsub = v]
SetOp(c, v) == [c EXCEPT !.op = v]
SetTopic(c, v) == [c EXCEPT !.topic = v]
SetBuf(c, v) == [c EXCEPT !.buf = v]
SetQos(c, v) == [c EXCEPT !.qos = v]

LEMMA SameOperators ==
  /\ Service!NoHandlers = NoHandlers
  /\ \A hs, buf : Service!Attached(hs, buf) = Attached(hs, buf)
  /\ \A hs, s, t : s.regbuf = db.regbuf /\ s.prebuf = db.prebuf =>
       Service!Detached(hs, s, t) = Detached(hs, db, t) /\ Service!Matching(hs, s, t) = Matching(hs, db, t)
<1>1. Service!NoHandlers = NoHandlers BY DEF NoHandlers, Service!NoHandlers
<1>2. \A hs, buf : Service!Attached(hs, buf) = Attached(hs, buf)
  BY DEF Attached, Service!Attached, FirstHandler, Service!FirstHandler
<1> SUFFICES ASSUME NEW s, s.regbuf = db.regbuf, s.prebuf = db.prebuf, NEW hs, NEW t
             PROVE  /\ Service!Detached(hs, s, t) = Detached(hs, db, t)
                    /\ Service!Matching(hs, s, t) = Matching(hs, db, t)
  BY <1>1, <1>2
<1>3. \A h : Service!FilterOf(s, h) = FilterOf(db, h)
  BY DEF FilterOf, Service!FilterOf, NoFilter, Service!NoFilter
<1>4. Service!Detached(hs, s, t) = Detached(hs, db, t)
  BY <1>3 DEF Detached, Service!Detached, FirstHandler, Service!FirstHandler
<1>5. Service!Matching(hs, s, t) = Matching(hs, db, t)
  BY <1>3 DEF Matching, Service!Matching
<1> QED BY <1>4, <1>5

LEMMA SameCardinality == \A S : Service!Cardinality(S) = Cardinality(S)
BY Zenon DEF Cardinality, Service!Cardinality

LEMMA LinkSets ==
  ASSUME NEW a, NEW u, NEW h, NEW s, NEW v
  PROVE  /\ SetConn(LinkRec(a, u, h, s), v) = LinkRec(v, u, h, s)
         /\ SetUp(LinkRec(a, u, h, s), v) = LinkRec(a, v, h, s)
         /\ SetHs(LinkRec(a, u, h, s), v) = LinkRec(a, u, v, s)
         /\ SetBsub(LinkRec(a, u, h, s), v) = LinkRec(a, u, h, v)
<1>1. SetConn(LinkRec(a, u, h, s), v) = LinkRec(v, u, h, s) BY DEF LinkRec, SetConn
<1>2. SetUp(LinkRec(a, u, h, s), v) = LinkRec(a, v, h, s) BY DEF LinkRec, SetUp
<1>3. SetHs(LinkRec(a, u, h, s), v) = LinkRec(a, u, v, s) BY DEF LinkRec, SetHs
<1>4. SetBsub(LinkRec(a, u, h, s), v) = LinkRec(a, u, h, v) BY DEF LinkRec, SetBsub
<1> QED BY <1>1, <1>2, <1>3, <1>4

\* The changes of the link, as the service makes them.
LEMMA SeenUpdates ==
  ASSUME NEW l \in Link
  PROVE  /\ \A v : Seen([l EXCEPT !.hs = v]) = [Seen(l) EXCEPT !.hs = v]
         /\ \A v : Seen([l EXCEPT !.bsub = v]) = [Seen(l) EXCEPT !.bsub = v]
         /\ \A v, w : Seen([l EXCEPT !.hs = v, !.bsub = w]) = [Seen(l) EXCEPT !.hs = v, !.bsub = w]
         /\ \A v, w, o : Seen([l EXCEPT !.conn = v, !.up = w, !.online = o]) = LinkRec(v, w, l.hs, l.bsub)
         /\ \A v, w : Seen([l EXCEPT !.up = v, !.bsub = w]) = LinkRec(l.conn, v, l.hs, w)
         /\ Seen(cleanSession(l)) = LinkRec(FALSE, FALSE, NoHandlers, {})
         /\ Service!cleanSession(Seen(l)) = LinkRec(FALSE, FALSE, NoHandlers, {})
<1> DEFINE S == Seen(l)
<1>0. S = LinkRec(l.conn, l.up, l.hs, l.bsub) BY DEF Seen
<1>1. ASSUME NEW v PROVE Seen([l EXCEPT !.hs = v]) = [S EXCEPT !.hs = v]
  <2>1. Seen([l EXCEPT !.hs = v]) = LinkRec(l.conn, l.up, v, l.bsub) BY DEF Link, Seen
  <2> QED BY <1>0, <2>1, LinkSets DEF SetHs
<1>2. ASSUME NEW v PROVE Seen([l EXCEPT !.bsub = v]) = [S EXCEPT !.bsub = v]
  <2>1. Seen([l EXCEPT !.bsub = v]) = LinkRec(l.conn, l.up, l.hs, v) BY DEF Link, Seen
  <2> HIDE DEF S
  <2> QED BY <1>0, <2>1, LinkSets DEF SetBsub
<1>3. ASSUME NEW v, NEW w PROVE Seen([l EXCEPT !.hs = v, !.bsub = w]) = [S EXCEPT !.hs = v, !.bsub = w]
  <2>1. Seen([l EXCEPT !.hs = v, !.bsub = w]) = LinkRec(l.conn, l.up, v, w) BY DEF Link, Seen
  <2>2. [S EXCEPT !.hs = v, !.bsub = w] = SetBsub(SetHs(S, v), w) BY DEF SetHs, SetBsub
  <2> HIDE DEF S
  <2> QED BY <1>0, <2>1, <2>2, LinkSets
<1>4. ASSUME NEW v, NEW w, NEW o
      PROVE  Seen([l EXCEPT !.conn = v, !.up = w, !.online = o]) = LinkRec(v, w, l.hs, l.bsub)
  BY DEF Link, Seen
<1>5. ASSUME NEW v, NEW w PROVE Seen([l EXCEPT !.up = v, !.bsub = w]) = LinkRec(l.conn, v, l.hs, w)
  BY DEF Link, Seen
<1>6. Seen(cleanSession(l)) = LinkRec(FALSE, FALSE, NoHandlers, {})
  BY DEF Link, Seen, cleanSession
<1>7. Service!cleanSession(S) = LinkRec(FALSE, FALSE, NoHandlers, {})
  <2> DEFINE n == NoHandlers
             f == FALSE
             e == {}
  <2>1. Service!cleanSession(S) = SetBsub(SetHs(SetUp(SetConn(S, f), f), n), e)
    BY SameOperators DEF Service!cleanSession, SetBsub, SetHs, SetUp, SetConn
  <2> HIDE DEF S, n, f, e
  <2>2. Service!cleanSession(S) = LinkRec(f, f, n, e) BY <1>0, <2>1, LinkSets
  <2> QED BY <2>2 DEF n, f, e
<1> HIDE DEF S
<1>8. /\ \A v : Seen([l EXCEPT !.hs = v]) = [S EXCEPT !.hs = v]
      /\ \A v : Seen([l EXCEPT !.bsub = v]) = [S EXCEPT !.bsub = v]
      /\ \A v, w : Seen([l EXCEPT !.hs = v, !.bsub = w]) = [S EXCEPT !.hs = v, !.bsub = w]
  BY <1>1, <1>2, <1>3
<1> QED BY <1>4, <1>5, <1>6, <1>7, <1>8 DEF S

LEMMA CallSets ==
  ASSUME NEW o, NEW t, NEW b, NEW q, NEW v
  PROVE  /\ SetOp(Called(o, t, b, q), v) = Called(v, t, b, q)
         /\ SetTopic(Called(o, t, b, q), v) = Called(o, v, b, q)
         /\ SetBuf(Called(o, t, b, q), v) = Called(o, t, v, q)
         /\ SetQos(Called(o, t, b, q), v) = Called(o, t, b, v)
<1>1. SetOp(Called(o, t, b, q), v) = Called(v, t, b, q) BY DEF Called, SetOp
<1>2. SetTopic(Called(o, t, b, q), v) = Called(o, v, b, q) BY DEF Called, SetTopic
<1>3. SetBuf(Called(o, t, b, q), v) = Called(o, t, v, q) BY DEF Called, SetBuf
<1>4. SetQos(Called(o, t, b, q), v) = Called(o, t, b, v) BY DEF Called, SetQos
<1> QED BY <1>1, <1>2, <1>3, <1>4

\* The calls as the gateway writes them.
LEMMA CallRecs ==
  /\ Service!NoCall = Called("none", "", "none", 0)
  /\ Service!YieldCall = Called("yield", "", "none", 0)
  /\ \A q : Service!PublishCall(q) = Called("publish", "", "none", q)
  /\ \A t, b : Service!SubscribeCall(t, b) = Called("subscribe", t, b, 0)
  /\ \A t : Service!UnsubscribeCall(t) = Called("unsubscribe", t, "none", 0)
<1> DEFINE y == "yield"
           p == "publish"
           s == "subscribe"
           u == "unsubscribe"
           n == "none"
           e == ""
           z == 0
           N == Service!NoCall
<1>1. N = Called(n, e, n, z) BY DEF Service!NoCall, Called
<1>2. Service!YieldCall = SetOp(N, y) BY DEF Service!YieldCall, SetOp
<1>3. ASSUME NEW q PROVE Service!PublishCall(q) = SetQos(SetOp(N, p), q)
  BY DEF Service!PublishCall, SetOp, SetQos
<1>4. ASSUME NEW t, NEW b PROVE Service!SubscribeCall(t, b) = SetBuf(SetTopic(SetOp(N, s), t), b)
  BY DEF Service!SubscribeCall, SetOp, SetTopic, SetBuf
<1>5. ASSUME NEW t PROVE Service!UnsubscribeCall(t) = SetTopic(SetOp(N, u), t)
  BY DEF Service!UnsubscribeCall, SetOp, SetTopic
<1> HIDE DEF y, p, s, u, n, e, z, N
<1>6. Service!YieldCall = Called(y, e, n, z) BY <1>1, <1>2, CallSets
<1>7. ASSUME NEW q PROVE Service!PublishCall(q) = Called(p, e, n, q) BY <1>1, <1>3, CallSets
<1>8. ASSUME NEW t, NEW b PROVE Service!SubscribeCall(t, b) = Called(s, t, b, z) BY <1>1, <1>4, CallSets
<1>9. ASSUME NEW t PROVE Service!UnsubscribeCall(t) = Called(u, t, n, z) BY <1>1, <1>5, CallSets
<1> QED BY <1>1, <1>6, <1>7, <1>8, <1>9 DEF y, p, s, u, n, e, z, N

LEMMA CallSet ==
  /\ Service!YieldCall \in Service!Calls
  /\ \A q \in {0, 1, 2, 255} : Service!PublishCall(q) \in Service!Calls
  /\ \A t \in Topic : \A b \in {"reg", "pre"} : Service!SubscribeCall(t, b) \in Service!Calls
  /\ \A t \in Topic : Service!UnsubscribeCall(t) \in Service!Calls
<1> DEFINE P(q) == Service!PublishCall(q)
           S(t, b) == Service!SubscribeCall(t, b)
           U(t) == Service!UnsubscribeCall(t)
           H == Service!Handler \ {"none"}
           Q == {0, 1, 2, 255}
<1>1. Service!Calls =
        {Service!YieldCall} \cup {P(q) : q \in Q} \cup {S(t, b) : t \in Topic, b \in H} \cup {U(t) : t \in Topic}
  BY DEF Service!Calls
<1>2. {"reg", "pre"} \subseteq H BY DEF Service!Handler
<1> HIDE DEF P, S, U, H, Q
<1>3. Service!YieldCall \in Service!Calls BY <1>1
<1>4. \A q \in Q : P(q) \in Service!Calls BY <1>1
<1>5. \A t \in Topic : \A b \in H : S(t, b) \in Service!Calls BY <1>1
<1>6. \A t \in Topic : U(t) \in Service!Calls BY <1>1
<1> QED BY <1>2, <1>3, <1>4, <1>5, <1>6 DEF P, S, U, Q

---------------------------------------------------------------------------
(* What the service sees of the steps of the thread. *)

\* The call in progress when the thread is in state x, with a connection or not.
View(x, conn) ==
  CASE x.at = "mqtt" /\ conn -> Called("yield", "", "none", 0)
    [] x.at = "wait" /\ x.op \in {"publish", "predef", "will"} -> Called("publish", "", "none", x.qos)
    [] x.at = "wait" /\ x.op = "subscribe" ->
         Called("subscribe", x.topic, IF x.pk.form = "predef" THEN "pre" ELSE "reg", 0)
    [] x.at = "wait" /\ x.op \in {"unsubscribe", "connect", "lost"} ->
         Called("unsubscribe", x.topic, "none", 0)
    [] OTHER -> Called("none", "", "none", 0)

LEMMA Views ==
  /\ CallView = View(k, link.conn) /\ CallView' = View(k', link'.conn)
  /\ LinkView = Seen(link) /\ LinkView' = Seen(link')
  /\ UNCHANGED <<k, link>> => CallView' = CallView
  /\ UNCHANGED link => LinkView' = LinkView
  /\ UNCHANGED rx => CallbackView' = CallbackView
  /\ Held(db, db') => NamesView' = NamesView
  /\ NamesView.regbuf = db.regbuf /\ NamesView.prebuf = db.prebuf
<1>1. CallView = View(k, link.conn) /\ CallView' = View(k', link'.conn) BY Zenon DEF CallView, View
<1>2. LinkView = Seen(link) /\ LinkView' = Seen(link') BY Zenon DEF LinkView, Seen, LinkRec
<1>3. /\ UNCHANGED <<k, link>> => CallView' = CallView
      /\ UNCHANGED link => LinkView' = LinkView
  BY <1>1, <1>2
<1>4. UNCHANGED rx => CallbackView' = CallbackView BY DEF CallbackView
<1>5. Held(db, db') => NamesView' = NamesView BY DEF NamesView, Held
<1>6. NamesView.regbuf = db.regbuf /\ NamesView.prebuf = db.prebuf BY DEF NamesView
<1> QED BY <1>1, <1>2, <1>3, <1>4, <1>5, <1>6

LEMMA ViewOf ==
  ASSUME NEW x, NEW c
  PROVE  /\ x.at \notin {"mqtt", "wait"} \/ (x.at = "mqtt" /\ ~c) => View(x, c) = Service!NoCall
         /\ x.at = "mqtt" /\ c => View(x, c) = Service!YieldCall
         /\ x.at = "wait" /\ x.op \in {"publish", "predef", "will"} => View(x, c) = Service!PublishCall(x.qos)
         /\ x.at = "wait" /\ x.op = "subscribe" =>
              \E b \in {"reg", "pre"} : /\ b = (IF x.pk.form = "predef" THEN "pre" ELSE "reg")
                                        /\ View(x, c) = Service!SubscribeCall(x.topic, b)
         /\ x.at = "wait" /\ x.op \in {"unsubscribe", "connect", "lost"} =>
              View(x, c) = Service!UnsubscribeCall(x.topic)
<1> DEFINE b == IF x.pk.form = "predef" THEN "pre" ELSE "reg"
           P == {"publish", "predef", "will"}
           N == {"unsubscribe", "connect", "lost"}
<1>1. View(x, c) =
        CASE x.at = "mqtt" /\ c -> Service!YieldCall
          [] x.at = "wait" /\ x.op \in P -> Service!PublishCall(x.qos)
          [] x.at = "wait" /\ x.op = "subscribe" -> Service!SubscribeCall(x.topic, b)
          [] x.at = "wait" /\ x.op \in N -> Service!UnsubscribeCall(x.topic)
          [] OTHER -> Service!NoCall
  BY CallRecs DEF View
<1>2. x.op \in P => x.op # "subscribe" /\ x.op \notin N OBVIOUS
<1>3. x.op \in N => x.op # "subscribe" OBVIOUS
<1>4. b \in {"reg", "pre"} OBVIOUS
<1> HIDE DEF b, P, N
<1>5. /\ x.at \notin {"mqtt", "wait"} \/ (x.at = "mqtt" /\ ~c) => View(x, c) = Service!NoCall
      /\ x.at = "mqtt" /\ c => View(x, c) = Service!YieldCall
      /\ x.at = "wait" /\ x.op \in P => View(x, c) = Service!PublishCall(x.qos)
      /\ x.at = "wait" /\ x.op = "subscribe" => View(x, c) = Service!SubscribeCall(x.topic, b)
      /\ x.at = "wait" /\ x.op \in N => View(x, c) = Service!UnsubscribeCall(x.topic)
  BY <1>1, <1>2, <1>3
<1> QED BY <1>4, <1>5 DEF b, P, N

\* The kinds of calls differ.
LEMMA CallKinds ==
  /\ Service!NoCall.op = "none" /\ Service!YieldCall.op = "yield"
  /\ \A q : Service!PublishCall(q).op = "publish" /\ Service!PublishCall(q).qos = q
  /\ \A t, b : LET c == Service!SubscribeCall(t, b) IN c.op = "subscribe" /\ c.topic = t /\ c.buf = b
  /\ \A t : LET c == Service!UnsubscribeCall(t) IN c.op = "unsubscribe" /\ c.topic = t
<1>1. Service!NoCall.op = "none" /\ Service!YieldCall.op = "yield" BY CallRecs DEF Called
<1>2. ASSUME NEW q PROVE Service!PublishCall(q).op = "publish" /\ Service!PublishCall(q).qos = q
  BY CallRecs DEF Called
<1>3. ASSUME NEW t, NEW b PROVE LET c == Service!SubscribeCall(t, b) IN c.op = "subscribe" /\ c.topic = t /\ c.buf = b
  BY CallRecs DEF Called
<1>4. ASSUME NEW t PROVE LET c == Service!UnsubscribeCall(t) IN c.op = "unsubscribe" /\ c.topic = t
  BY CallRecs DEF Called
<1> QED BY <1>1, <1>2, <1>3, <1>4

(***************************************************************************)
(* What the use of the service needs to be inductive: only a connected     *)
(* client has a connection that is alive, and a wait is always a call.     *)
(***************************************************************************)
Calling(x) ==
  x.at = "wait" =>
    /\ x.op # "none"
    /\ x.op \in {"unsubscribe", "connect", "lost"} => x.topic \in Topic
Linked == (link.up => link.conn) /\ Calling(k)

\* A wait is one of the three kinds of calls, with a topic where it needs one.
LEMMA WaitKinds ==
  ASSUME NEW x, CtlOK(db, x) \/ CtlOK(db', x), Calling(x), x.at = "wait"
  PROVE  \/ x.op \in {"publish", "predef", "will"} /\ x.qos \in {0, 1, 2, 255}
         \/ x.op = "subscribe" /\ x.topic \in Topic
         \/ x.op \in {"unsubscribe", "connect", "lost"} /\ x.topic \in Topic
BY DEF CtlOK, Control, Calling

\* Between two calls the thread goes on, or begins a call.
LEMMA IdleStep ==
  ASSUME IInv, IInv', Linked', UNCHANGED <<rx, link>>, k.at \notin {"mqtt", "wait"}
  PROVE  ServiceStep
<1>1. CallView = Service!NoCall BY Views, ViewOf
<1>2. LinkView' = LinkView /\ CallbackView' = CallbackView BY Views
<1>3. CallView' = Service!NoCall \/ (CallView' \in Service!Calls /\ (CallView' = Service!YieldCall => link.conn))
  <2>1. CtlOK(db', k') /\ Calling(k') BY DEF IInv, Linked
  <2>2. CallView' = View(k', link'.conn) /\ link' = link BY Views
  <2>3. CASE k'.at \notin {"mqtt", "wait"} \/ (k'.at = "mqtt" /\ ~link'.conn) BY <2>2, <2>3, ViewOf
  <2>4. CASE k'.at = "mqtt" /\ link'.conn BY <2>2, <2>4, ViewOf, CallSet
  <2>5. CASE k'.at = "wait"
    <3>1. CASE k'.op \in {"publish", "predef", "will"} /\ k'.qos \in {0, 1, 2, 255}
      BY <2>2, <2>5, <3>1, ViewOf, CallSet, CallKinds
    <3>2. CASE k'.op = "subscribe" /\ k'.topic \in Topic
      BY <2>2, <2>5, <3>2, ViewOf, CallSet, CallKinds
    <3>3. CASE k'.op \in {"unsubscribe", "connect", "lost"} /\ k'.topic \in Topic
      BY <2>2, <2>5, <3>3, ViewOf, CallSet, CallKinds
    <3> QED BY <2>1, <2>5, <3>1, <3>2, <3>3, WaitKinds
  <2> QED BY <2>3, <2>4, <2>5
<1>4. LinkView.conn = link.conn BY Views DEF Seen, LinkRec
<1> QED BY <1>1, <1>2, <1>3, <1>4 DEF ServiceStep, Service!Next, Service!Use, Service!Start

\* The process ends.
LEMMA StopStep ==
  ASSUME NEW s, Leave(s)
  PROVE  ServiceStep /\ Linked'
<1>1. k' = Phase("down") /\ rx' = NoDelivery /\ link' = Unlinked BY DEF Leave
<1>2. k'.at = "down" BY <1>1, PhaseType
<1>3. CallView' = Service!NoCall BY <1>2, Views, ViewOf
<1>4. CallbackView' = Service!NoCallback
  BY <1>1 DEF CallbackView, NoDelivery, Service!NoCallback
<1>5. LinkView' = Service!Unlinked
  BY <1>1, Views, SameOperators DEF Unlinked, Service!Unlinked, Seen, LinkRec
<1>6. Linked' BY <1>1, <1>2 DEF Linked, Calling, Unlinked
<1> QED BY <1>3, <1>4, <1>5, <1>6 DEF ServiceStep, Service!Next, Service!Stop

---------------------------------------------------------------------------
(* The steps during a call. *)

\* The connection, and the steps of the broker.
LEMMA BrokerStep ==
  ASSUME IInv, Linked, Reconnect \/ ConnectionLost \/ BrokerSubscribes
  PROVE  ServiceStep /\ Linked'
<1>1. link \in Link /\ LinkView = Seen(link) /\ LinkView' = Seen(link') BY Views DEF IInv
<1>2. Seen(link) = LinkRec(link.conn, link.up, link.hs, link.bsub) BY DEF Seen
<1> DEFINE L == LinkView
<1>3. CASE Reconnect
  <2>1. PICK ok \in BOOLEAN : link' = [link EXCEPT !.conn = ok, !.up = ok, !.online = @ \/ ok]
    BY <1>3 DEF Reconnect
  <2>2. k.at = "mqtt" /\ ~link.conn /\ k' = Phase("socket") /\ UNCHANGED <<db, rx>> BY <1>3 DEF Reconnect
  <2>3. k'.at = "socket" BY <2>2, PhaseType
  <2>4. CallView = Service!NoCall /\ CallView' = Service!NoCall BY <2>2, <2>3, Views, ViewOf
  <2>5. NamesView' = NamesView /\ CallbackView' = CallbackView BY <2>2, Views DEF Held
  <2>6. link'.conn = ok /\ link'.up = ok BY <1>1, <2>1 DEF Link
  <2>7. Linked' BY <2>3, <2>6 DEF Linked, Calling
  <2>8. ~L.conn BY <1>1, <2>2 DEF Seen, LinkRec
  <2>9. LinkView' = LinkRec(ok, ok, link.hs, link.bsub)
    <3> DEFINE o == link.online \/ ok
    <3>1. link' = [link EXCEPT !.conn = ok, !.up = ok, !.online = o] BY <2>1
    <3> HIDE DEF o
    <3> QED BY <1>1, <3>1, SeenUpdates
  <2>10. CASE ok = TRUE
    <3>1. SetUp(SetConn(L, TRUE), TRUE) = LinkRec(TRUE, TRUE, link.hs, link.bsub)
      <4> DEFINE t == TRUE
      <4> HIDE DEF t
      <4>1. SetUp(SetConn(L, t), t) = LinkRec(t, t, link.hs, link.bsub) BY <1>1, <1>2, LinkSets
      <4> QED BY <4>1 DEF t
    <3>2. LinkView' = [L EXCEPT !.conn = TRUE, !.up = TRUE] BY <2>9, <2>10, <3>1 DEF SetUp, SetConn
    <3>3. Service!Connect BY <2>4, <2>5, <2>8, <3>2 DEF Service!Connect
    <3> QED BY <2>7, <3>3 DEF ServiceStep, Service!Next
  <2>11. CASE ok = FALSE
    <3>1. link.up = FALSE /\ link.conn = FALSE BY <1>1, <2>2 DEF Linked, Link
    <3>2. LinkView' = LinkView BY <1>1, <1>2, <2>9, <2>11, <3>1
    <3> QED BY <2>4, <2>5, <2>7, <3>2 DEF ServiceStep, Service!vars
  <2> QED BY <2>10, <2>11
<1>4. CASE ConnectionLost
  <2>1. link.up /\ link' = [link EXCEPT !.up = FALSE, !.bsub = {}] /\ UNCHANGED <<db, k, rx>>
    BY <1>4 DEF ConnectionLost
  <2>2. link'.conn = link.conn /\ link'.up = FALSE BY <1>1, <2>1 DEF Link
  <2>3. Linked' BY <2>1, <2>2 DEF Linked, Calling
  <2>4. CallView' = CallView /\ NamesView' = NamesView /\ CallbackView' = CallbackView
    BY <2>1, <2>2, Views DEF Held
  <2>5. LinkView' = LinkRec(link.conn, FALSE, link.hs, {})
    <3> DEFINE f == FALSE
               e == {}
    <3>1. link' = [link EXCEPT !.up = f, !.bsub = e] BY <2>1
    <3> HIDE DEF f, e
    <3>2. \A v, w : Seen([link EXCEPT !.up = v, !.bsub = w]) = LinkRec(link.conn, v, link.hs, w)
      BY <1>1, SeenUpdates, Zenon
    <3>3. Seen(link') = LinkRec(link.conn, f, link.hs, e) BY <3>1, <3>2, Zenon
    <3> QED BY <1>1, <3>3 DEF f, e
  <2>6. SetBsub(SetUp(L, FALSE), {}) = LinkRec(link.conn, FALSE, link.hs, {})
    <3> DEFINE f == FALSE
               e == {}
    <3> HIDE DEF f, e
    <3>1. SetBsub(SetUp(L, f), e) = LinkRec(link.conn, f, link.hs, e) BY <1>1, <1>2, LinkSets
    <3> QED BY <3>1 DEF f, e
  <2>7. LinkView' = [L EXCEPT !.up = FALSE, !.bsub = {}] BY <2>5, <2>6 DEF SetBsub, SetUp
  <2>8. L.up BY <1>1, <2>1 DEF Seen, LinkRec
  <2>9. Service!Lost BY <2>4, <2>7, <2>8 DEF Service!Lost
  <2> QED BY <2>3, <2>9 DEF ServiceStep, Service!Next
<1>5. CASE BrokerSubscribes
  <2>1. /\ k.at = "wait" /\ k.op = "subscribe" /\ link.up
        /\ link' = [link EXCEPT !.bsub = @ \cup {k.topic}] /\ UNCHANGED <<db, k, rx>>
    BY <1>5 DEF BrokerSubscribes
  <2> DEFINE n == link.bsub \cup {k.topic}
  <2>2. link' = [link EXCEPT !.bsub = n] BY <2>1
  <2>3. L.bsub = link.bsub /\ L.up BY <1>1, <2>1 DEF Seen, LinkRec
  <2>4. n = L.bsub \cup {k.topic} BY <2>3
  <2> HIDE DEF n
  <2>5. link'.conn = link.conn /\ link'.up = link.up BY <1>1, <2>2 DEF Link
  <2>6. Linked' BY <2>1, <2>5 DEF Linked, Calling
  <2>7. CallView' = CallView /\ NamesView' = NamesView /\ CallbackView' = CallbackView
    BY <2>1, <2>5, Views DEF Held
  <2>8. LinkView' = [L EXCEPT !.bsub = n] BY <1>1, <2>2, SeenUpdates
  <2>9. CallView.op = "subscribe" /\ CallView.topic = k.topic
    <3>1. PICK b : CallView = Service!SubscribeCall(k.topic, b) BY <2>1, Views, ViewOf
    <3> QED BY <3>1, CallKinds
  <2>10. LinkView' = [L EXCEPT !.bsub = @ \cup {CallView.topic}] BY <2>4, <2>8, <2>9
  <2>11. Service!BrokerSubscribes BY <2>3, <2>7, <2>9, <2>10 DEF Service!BrokerSubscribes
  <2> QED BY <2>6, <2>11 DEF ServiceStep, Service!Next
<1> QED BY <1>3, <1>4, <1>5

\* A message comes in during a call that reads the connection.
LEMMA ArriveStep ==
  ASSUME IInv, Linked, NEW t \in Topic, NEW d \in Payload, Arrive(t, d)
  PROVE  ServiceStep /\ Linked'
<1> DEFINE match == Matching(link.hs, db, t)
           n == Cardinality(match)
<1>1. /\ k.at = "mqtt" \/ Blocking
      /\ link.up /\ rx.left = 0 /\ t \in link.bsub /\ match # {}
      /\ rx'.left = n /\ rx'.data[1] = t
      /\ UNCHANGED <<db, k, link>>
  BY DEF Arrive
<1>2. n \in Nat \ {0}
  <2>1. IsFiniteSet(1..MaxHandlers) BY BoundAssumption, FS_Interval
  <2>2. match \subseteq 1..MaxHandlers BY DEF Matching
  <2>3. IsFiniteSet(match) BY <2>1, <2>2, FS_Subset
  <2> QED BY <1>1, <2>3, FS_CardinalityType, FS_EmptySet
<1>3. LinkView = Seen(link) /\ LinkView.up = link.up /\ LinkView.hs = link.hs /\ LinkView.bsub = link.bsub
  BY Views DEF Seen, LinkRec
<1>4. Service!Matching(LinkView.hs, NamesView, t) = match BY <1>3, Views, SameOperators
<1>5. Service!Cardinality(match) = n BY SameCardinality
<1>6. UNCHANGED <<NamesView, LinkView, CallView>> BY <1>1, Views DEF Held
<1>7. CallbackView = Service!NoCallback /\ CallbackView' = [left |-> n, topic |-> t]
  BY <1>1, <1>2 DEF CallbackView, Service!NoCallback
<1>8. Service!Reads
  <2>1. link.conn /\ Calling(k) /\ CtlOK(db, k) BY <1>1 DEF Linked, IInv
  <2>2. CallView = View(k, link.conn) BY Views
  <2>3. CASE k.at = "mqtt" BY <2>1, <2>2, <2>3, ViewOf, CallKinds DEF Service!Reads
  <2>4. CASE Blocking
    <3>1. k.at = "wait" /\ (k.op \in {"publish", "predef", "will"} => k.qos = 1) BY <2>4 DEF Blocking
    <3>2. CASE k.op \in {"publish", "predef", "will"} BY <2>2, <3>1, <3>2, ViewOf DEF Service!Reads
    <3>3. CASE k.op = "subscribe" BY <2>2, <3>1, <3>3, ViewOf, CallKinds DEF Service!Reads
    <3>4. CASE k.op \in {"unsubscribe", "connect", "lost"} BY <2>2, <3>1, <3>4, ViewOf, CallKinds DEF Service!Reads
    <3> QED BY <2>1, <3>1, <3>2, <3>3, <3>4, WaitKinds
  <2> QED BY <1>1, <2>3, <2>4
<1> HIDE DEF match, n
<1>9. Service!Arrive(t) BY <1>1, <1>3, <1>4, <1>5, <1>6, <1>7, <1>8 DEF Service!Arrive
<1>10. Linked' BY <1>1 DEF Linked, Calling
<1> QED BY <1>9, <1>10 DEF ServiceStep, Service!Next

\* A message is handed to the next client, or the next handler is called.
LEMMA CallbackStep ==
  ASSUME IInv, Linked, Deliver
  PROVE  ServiceStep /\ Linked'
<1> DEFINE s == handle_receive_mqtt_publish_for_client(db, get_nth_client(db, rx.i).addr, rx.data)
<1>1. rx.left > 0 /\ db' = s /\ UNCHANGED <<k, link>> BY DEF Deliver
<1>2. rx \in Delivery /\ rx.left \in Nat /\ rx.data \in Data /\ Good(db)
  BY <1>1 DEF IInv, RxOK, CtlOK, Delivery
<1>3. Held(db, db') BY <1>1, <1>2, ReceiveQuiet
<1>4. UNCHANGED <<NamesView, LinkView, CallView>> BY <1>1, <1>3, Views
<1>5. Linked' BY <1>1 DEF Linked, Calling
<1>a. rx.left # 0 BY <1>1, <1>2
<1>6. CallbackView = [left |-> rx.left, topic |-> rx.data[1]] BY <1>a, Zenon DEF CallbackView
<1>7. \/ rx' = [rx EXCEPT !.i = @ + 1]
      \/ rx.left > 1 /\ rx' = [rx EXCEPT !.left = @ - 1, !.i = 1]
      \/ ~(rx.left > 1) /\ rx' = NoDelivery
  BY DEF Deliver
<1>8. CASE rx' = [rx EXCEPT !.i = @ + 1]
  <2>1. rx'.left = rx.left /\ rx'.data = rx.data BY <1>2, <1>8 DEF Delivery
  <2>2. CallbackView' = CallbackView BY <2>1 DEF CallbackView
  <2> QED BY <1>4, <1>5, <2>2 DEF ServiceStep, Service!vars
<1>9. CASE rx.left > 1 /\ rx' = [rx EXCEPT !.left = @ - 1, !.i = 1]
  <2>1. rx'.left = rx.left - 1 /\ rx'.data = rx.data BY <1>2, <1>9 DEF Delivery
  <2>a. rx'.left # 0 BY <1>2, <1>9, <2>1
  <2>b. CallbackView' = [left |-> rx'.left, topic |-> rx'.data[1]] BY <2>a, Zenon DEF CallbackView
  <2>2. CallbackView' = [left |-> rx.left - 1, topic |-> rx.data[1]] BY <2>1, <2>b
  <2>3. CallbackView.left = rx.left /\ [CallbackView EXCEPT !.left = @ - 1] = [left |-> rx.left - 1, topic |-> rx.data[1]]
    BY <1>6
  <2>4. rx.left > 0 /\ rx.left # 1 BY <1>2, <1>9
  <2>5. Service!Callback BY <1>4, <2>2, <2>3, <2>4 DEF Service!Callback
  <2> QED BY <1>5, <2>5 DEF ServiceStep, Service!Next
<1>10. CASE ~(rx.left > 1) /\ rx' = NoDelivery
  <2>1. rx.left = 1 BY <1>1, <1>2, <1>10
  <2>2. CallbackView' = Service!NoCallback BY <1>10 DEF CallbackView, NoDelivery, Service!NoCallback
  <2>3. CallbackView.left = 1 BY <1>6, <2>1
  <2>4. Service!Callback BY <1>4, <2>2, <2>3 DEF Service!Callback
  <2> QED BY <1>5, <2>4 DEF ServiceStep, Service!Next
<1> QED BY <1>7, <1>8, <1>9, <1>10

\* What a call may return is what the service says it may.
LEMMA ResultsSeen ==
  ASSUME NEW l \in Link, l.up => l.conn
  PROVE  /\ \A qos : \A r \in publish_results(l, qos) :
              /\ \E q \in Service!publish_results(Seen(l), qos) : q.link = Seen(r.link)
              /\ r.link.up => r.link.conn
         /\ \A t, buf : \A r \in subscribe_results(l, t, buf) :
              /\ \E q \in Service!subscribe_results(Seen(l), t, buf) : q.link = Seen(r.link)
              /\ r.link.up => r.link.conn
         /\ \A t : \A r \in unsubscribe_results(l, t, db) :
              /\ \E q \in Service!unsubscribe_results(Seen(l), t, NamesView) : q.link = Seen(r.link)
              /\ r.link.up => r.link.conn
<1> DEFINE S == Seen(l)
           gone == cleanSession(l)
           sgone == Service!cleanSession(S)
           fail == [ok |-> FALSE, link |-> sgone]
<1>1. S.conn = l.conn /\ S.up = l.up /\ S.hs = l.hs /\ S.bsub = l.bsub BY DEF Seen, LinkRec
<1>2. sgone = Seen(gone) /\ ~gone.up
  <2>1. ~gone.up BY DEF cleanSession, Link
  <2>2. sgone = Seen(gone) BY SeenUpdates
  <2> QED BY <2>1, <2>2
<1>3. fail.link = Seen(gone) BY <1>2
<1> HIDE DEF S, gone, sgone
<1>4. ASSUME NEW qos, NEW r \in publish_results(l, qos)
      PROVE  /\ \E q \in Service!publish_results(S, qos) : q.link = Seen(r.link)
             /\ r.link.up => r.link.conn
  <2>1. CASE qos = 255 \/ ~l.conn
    <3>1. r = [ok |-> FALSE, link |-> l] BY <1>4, <2>1 DEF publish_results
    <3>2. [ok |-> FALSE, link |-> S] \in Service!publish_results(S, qos)
      BY <1>1, <2>1 DEF Service!publish_results
    <3> QED BY <3>1, <3>2 DEF S
  <2>2. CASE ~(qos = 255 \/ ~l.conn)
    <3>1. \/ r = [ok |-> FALSE, link |-> gone]
          \/ r = [ok |-> TRUE, link |-> l] /\ (l.up \/ qos # 1)
      BY <1>4, <2>2 DEF publish_results, gone
    <3>2. fail \in Service!publish_results(S, qos)
      BY <1>1, <2>2 DEF Service!publish_results, sgone
    <3>3. l.up \/ qos # 1 => [ok |-> TRUE, link |-> S] \in Service!publish_results(S, qos)
      BY <1>1, <2>2 DEF Service!publish_results
    <3> HIDE DEF fail
    <3>4. CASE r = [ok |-> FALSE, link |-> gone]
      <4>1. r.link = gone BY <3>4
      <4> QED BY <1>2, <1>3, <3>2, <4>1
    <3>5. CASE r = [ok |-> TRUE, link |-> l] /\ (l.up \/ qos # 1)
      <4>1. r.link = l BY <3>5
      <4> QED BY <3>3, <3>5, <4>1 DEF S
    <3> QED BY <3>1, <3>4, <3>5
  <2> QED BY <2>1, <2>2
<1>5. ASSUME NEW t, NEW buf, NEW r \in subscribe_results(l, t, buf)
      PROVE  /\ \E q \in Service!subscribe_results(S, t, buf) : q.link = Seen(r.link)
             /\ r.link.up => r.link.conn
  <2> DEFINE g(hs) == [l EXCEPT !.hs = hs]
             h(hs) == [S EXCEPT !.hs = hs]
             may == IF l.conn /\ l.up /\ t \in l.bsub THEN Attached(l.hs, buf) ELSE {}
  <2>1. \/ r = [ok |-> FALSE, link |-> gone]
        \/ \E hs \in may : r = [ok |-> TRUE, link |-> g(hs)]
    BY <1>5, Zenon DEF subscribe_results, gone
  <2>2. Service!subscribe_results(S, t, buf) = {fail} \cup {[ok |-> TRUE, link |-> h(hs)] : hs \in may}
    BY <1>1, SameOperators, Zenon DEF Service!subscribe_results, sgone
  <2>3. \A hs : h(hs) = Seen(g(hs)) BY SeenUpdates DEF S
  <2>4. \A hs : g(hs).up = l.up /\ g(hs).conn = l.conn BY DEF Link
  <2> HIDE DEF g, h, may, fail
  <2>5. CASE r = [ok |-> FALSE, link |-> gone]
    <3>1. r.link = gone BY <2>5
    <3> QED BY <1>2, <1>3, <2>2, <3>1
  <2>6. ASSUME NEW hs \in may, r = [ok |-> TRUE, link |-> g(hs)]
        PROVE  /\ \E q \in Service!subscribe_results(S, t, buf) : q.link = Seen(r.link)
               /\ r.link.up => r.link.conn
    <3>1. r.link = g(hs) BY <2>6
    <3>2. [ok |-> TRUE, link |-> h(hs)] \in Service!subscribe_results(S, t, buf) BY <2>2
    <3>3. [ok |-> TRUE, link |-> h(hs)].link = Seen(r.link) BY <2>3, <3>1
    <3> QED BY <2>4, <3>1, <3>2, <3>3
  <2> QED BY <2>1, <2>5, <2>6
<1>6. ASSUME NEW t, NEW r \in unsubscribe_results(l, t, db)
      PROVE  /\ \E q \in Service!unsubscribe_results(S, t, NamesView) : q.link = Seen(r.link)
             /\ r.link.up => r.link.conn
  <2> DEFINE b == l.bsub \ {t}
             g(hs) == [l EXCEPT !.hs = hs, !.bsub = b]
             h(hs) == [S EXCEPT !.hs = hs, !.bsub = b]
             may == IF l.conn /\ l.up THEN Detached(l.hs, db, t) ELSE {}
  <2>1. \/ r = [ok |-> FALSE, link |-> gone]
        \/ \E hs \in may : r = [ok |-> TRUE, link |-> g(hs)]
    BY <1>6, Zenon DEF unsubscribe_results, gone
  <2>2. Service!unsubscribe_results(S, t, NamesView) = {fail} \cup {[ok |-> TRUE, link |-> h(hs)] : hs \in may}
    <3>1. Service!Detached(S.hs, NamesView, t) = Detached(l.hs, db, t) BY <1>1, Views, SameOperators
    <3>2. Service!unsubscribe_results(S, t, NamesView) =
            {fail} \cup {[ok |-> TRUE, link |-> [S EXCEPT !.hs = hs, !.bsub = @ \ {t}]] : hs \in may}
      BY <1>1, <3>1, Zenon DEF Service!unsubscribe_results, sgone
    <3>3. \A hs : [S EXCEPT !.hs = hs, !.bsub = @ \ {t}] = h(hs) BY <1>1
    <3> HIDE DEF h, may, fail
    <3> QED BY <3>2, <3>3
  <2> HIDE DEF b
  <2>3. ASSUME NEW hs PROVE h(hs) = Seen(g(hs))
    <3>1. \A v, w : Seen([l EXCEPT !.hs = v, !.bsub = w]) = [Seen(l) EXCEPT !.hs = v, !.bsub = w]
      BY SeenUpdates, Zenon
    <3>2. Seen([l EXCEPT !.hs = hs, !.bsub = b]) = [Seen(l) EXCEPT !.hs = hs, !.bsub = b] BY <3>1, Zenon
    <3> QED BY <3>2, Zenon DEF S
  <2>4. \A hs : g(hs).up = l.up /\ g(hs).conn = l.conn BY DEF Link
  <2> HIDE DEF g, h, may, fail
  <2>5. CASE r = [ok |-> FALSE, link |-> gone]
    <3>1. r.link = gone BY <2>5
    <3> QED BY <1>2, <1>3, <2>2, <3>1
  <2>6. ASSUME NEW hs \in may, r = [ok |-> TRUE, link |-> g(hs)]
        PROVE  /\ \E q \in Service!unsubscribe_results(S, t, NamesView) : q.link = Seen(r.link)
               /\ r.link.up => r.link.conn
    <3>1. r.link = g(hs) BY <2>6
    <3>2. [ok |-> TRUE, link |-> h(hs)] \in Service!unsubscribe_results(S, t, NamesView) BY <2>2
    <3>3. [ok |-> TRUE, link |-> h(hs)].link = Seen(r.link) BY <2>3, <3>1
    <3> QED BY <2>4, <3>1, <3>2, <3>3
  <2> QED BY <2>1, <2>5, <2>6
<1> QED BY <1>4, <1>5, <1>6 DEF S

\* Awaiting a message leaves the topic name buffers alone.
LEMMA AwaitHeld ==
  ASSUME NEW s, Good(s), NEW a, NEW type
  PROVE  Held(s, await_message(s, a, type).db)
<1> DEFINE o == start_by_address(s, a)
           u == set_client_await_message(o, type)
<1>1. Good(o) /\ Held(s, o) BY OpenFiles
<1> HIDE DEF o
<1>2. Held(o, u)
  BY DEF set_client_await_message, Put, Held
<1>3. Commit(u).db = apply_transaction(u) BY DEF Commit
<1>4. Held(u, apply_transaction(u))
  BY DEF apply_transaction, Held
<1> HIDE DEF u
<1>5. Held(s, Commit(u).db) BY <1>1, <1>2, <1>3, <1>4 DEF Held
<1> QED BY <1>5 DEF await_message, u, o

\* A call returns one of the results of the service, and no message is half delivered.
LEMMA ReturnedStep ==
  ASSUME IInv, Linked, rx.left = 0, rx' = rx, Held(db, db'), k'.at \notin {"mqtt", "wait"},
         CallView # Service!NoCall, link'.up => link'.conn,
         NEW r \in Service!Results, r.link = Seen(link')
  PROVE  ServiceStep /\ Linked'
<1>1. CallView' = Service!NoCall BY Views, ViewOf
<1>2. CallbackView = Service!NoCallback
  <2>1. CallbackView = [left |-> 0, topic |-> ""] BY Zenon DEF CallbackView
  <2> QED BY <2>1 DEF Service!NoCallback
<1>3. UNCHANGED <<NamesView, CallbackView>> BY Views
<1>4. LinkView' = r.link BY Views
<1>5. Service!Return BY <1>1, <1>2, <1>3, <1>4 DEF Service!Return
<1>6. Linked' BY DEF Linked, Calling
<1> QED BY <1>5, <1>6 DEF ServiceStep, Service!Next

\* The results of each kind of call.
LEMMA ResultsOf ==
  /\ CallView = Service!YieldCall => LinkView \in {r.link : r \in Service!Results}
  /\ \A q : CallView = Service!PublishCall(q) => Service!Results = Service!publish_results(LinkView, q)
  /\ \A t, b : CallView = Service!SubscribeCall(t, b) =>
       Service!Results = Service!subscribe_results(LinkView, t, b)
  /\ \A t : CallView = Service!UnsubscribeCall(t) =>
       Service!Results = Service!unsubscribe_results(LinkView, t, NamesView)
<1>1. CallView = Service!YieldCall => LinkView \in {r.link : r \in Service!Results}
  <2> SUFFICES ASSUME CallView = Service!YieldCall PROVE LinkView \in {r.link : r \in Service!Results}
    OBVIOUS
  <2>1. CallView.op = "yield" BY CallKinds
  <2>2. Service!Results = {[ok |-> TRUE, link |-> LinkView]} BY <2>1 DEF Service!Results
  <2> QED BY <2>2
<1>2. ASSUME NEW q, CallView = Service!PublishCall(q)
      PROVE  Service!Results = Service!publish_results(LinkView, q)
  <2>1. CallView.op = "publish" /\ CallView.qos = q BY <1>2, CallKinds
  <2> QED BY <2>1 DEF Service!Results
<1>3. ASSUME NEW t, NEW b, CallView = Service!SubscribeCall(t, b)
      PROVE  Service!Results = Service!subscribe_results(LinkView, t, b)
  <2>1. CallView.op = "subscribe" /\ CallView.topic = t /\ CallView.buf = b BY <1>3, CallKinds
  <2> QED BY <2>1 DEF Service!Results
<1>4. ASSUME NEW t, CallView = Service!UnsubscribeCall(t)
      PROVE  Service!Results = Service!unsubscribe_results(LinkView, t, NamesView)
  <2>1. CallView.op = "unsubscribe" /\ CallView.topic = t BY <1>4, CallKinds
  <2> QED BY <2>1 DEF Service!Results
<1> QED BY <1>1, <1>2, <1>3, <1>4

\* The end of yield.
LEMMA YieldStep ==
  ASSUME IInv, Linked, YieldDone
  PROVE  ServiceStep /\ Linked'
<1>1. k.at = "mqtt" /\ link.conn /\ rx.left = 0 /\ k' = Phase("socket") /\ UNCHANGED <<db, rx, link>>
  BY DEF YieldDone
<1>2. k'.at = "socket" BY <1>1, PhaseType
<1>3. CallView = Service!YieldCall BY <1>1, Views, ViewOf
<1>4. CallView # Service!NoCall BY <1>3, CallKinds
<1>5. PICK r \in Service!Results : r.link = LinkView BY <1>3, ResultsOf
<1>6. r.link = Seen(link') BY <1>1, <1>5, Views
<1>7. link'.up => link'.conn BY <1>1 DEF Linked
<1>8. Held(db, db') /\ rx' = rx BY <1>1 DEF Held
<1> QED BY <1>1, <1>2, <1>4, <1>6, <1>7, <1>8, ReturnedStep

\* After a PUBLISH was answered.
LEMMA AnsweredAway ==
  ASSUME NEW s, Good(s), Held(db, s), NEW p \in Packets, NEW res, NEW again, AnswerPublish(s, p, res, again)
  PROVE  Held(db, db') /\ k'.at \in {"again", "core"}
<1> DEFINE w == await_message(s, p.addr, "PUBREL")
<1>1. db' \in {w.db, s} BY DEF AnswerPublish
<1>2. Held(s, w.db) BY AwaitHeld
<1> HIDE DEF w
<1>3. Held(db, db') BY <1>1, <1>2 DEF Held
<1>4. k' = [Phase("again") EXCEPT !.pk = p] \/ k' = Phase("core") BY DEF AnswerPublish
<1>5. /\ Phase("again") \in Control /\ Phase("again").at = "again" /\ Phase("core").at = "core"
  BY PhaseType
<1>6. [Phase("again") EXCEPT !.pk = p].at = "again" BY <1>5 DEF Control
<1> QED BY <1>3, <1>4, <1>5, <1>6

\* A waiting call returns.
LEMMA CallReturns ==
  ASSUME IInv, Linked, CallDone
  PROVE  ServiceStep /\ Linked'
<1>1. link \in Link /\ k \in Control /\ Good(db) /\ k.pk \in Packets /\ (link.up => link.conn)
  BY DEF IInv, CtlOK, Control, Linked
<1>2. k.at = "wait" /\ rx.left = 0 /\ rx' = rx
  BY DEF CallDone, PublishDone, PredefDone, SubscribeDone, UnsubscribeDone, RemovedDone, WillDone, Returns
<1>3. LinkView = Seen(link) /\ CallView = View(k, link.conn) BY Views
<1>4. CASE PublishDone \/ PredefDone \/ WillDone
  <2>1. PICK r \in publish_results(link, k.qos) : link' = r.link
    BY <1>4 DEF PublishDone, PredefDone, WillDone
  <2>2. k.op \in {"publish", "predef", "will"} BY <1>4 DEF PublishDone, PredefDone, WillDone, Returns
  <2>3. CallView = Service!PublishCall(k.qos) BY <1>2, <1>3, <2>2, ViewOf
  <2>4. CallView # Service!NoCall BY <2>3, CallKinds
  <2>5. /\ \E q \in Service!publish_results(Seen(link), k.qos) : q.link = Seen(link')
        /\ link'.up => link'.conn
    BY <1>1, <2>1, ResultsSeen
  <2>6. PICK q \in Service!Results : q.link = Seen(link') BY <1>3, <2>3, <2>5, ResultsOf
  <2>7. Held(db, db') /\ k'.at \notin {"mqtt", "wait"}
    <3>1. CASE PublishDone
      <4>1. Held(db, db) BY DEF Held
      <4>2. \E res : AnswerPublish(db, k.pk, res, k.again) BY <3>1 DEF PublishDone
      <4> QED BY <1>1, <4>1, <4>2, AnsweredAway
    <3>2. CASE PredefDone
      <4> DEFINE s == apply_transaction(db)
      <4>1. AnswerPublish(s, k.pk, "ZERO", k.again) BY <3>2 DEF PredefDone
      <4>2. Good(s) /\ Held(db, s) BY <1>1, ApplyGood, FlagsOnly
      <4> HIDE DEF s
      <4> QED BY <1>1, <4>1, <4>2, AnsweredAway
    <3>3. CASE WillDone
      <4>1. db' = db /\ k' = [k EXCEPT !.at = "remove", !.op = "lost", !.topic = Empty, !.qos = 0]
        BY <3>3 DEF WillDone
      <4>2. k'.at = "remove" BY <1>1, <4>1, ZenonT(60) DEF Control
      <4> QED BY <4>1, <4>2 DEF Held
    <3> QED BY <1>4, <3>1, <3>2, <3>3
  <2> QED BY <1>2, <2>4, <2>5, <2>6, <2>7, ReturnedStep
<1>5. CASE SubscribeDone
  <2> DEFINE d == decrement_global_subscription_count(db, k.topic)
  <2>1. k.op = "subscribe" /\ k' = Phase("core") BY <1>5 DEF SubscribeDone, Returns
  <2>2. PICK b \in {"reg", "pre"} : /\ b = (IF k.pk.form = "predef" THEN "pre" ELSE "reg")
                                     /\ CallView = Service!SubscribeCall(k.topic, b)
    BY <1>2, <1>3, <2>1, ViewOf
  <2>3. PICK r \in subscribe_results(link, k.topic, b) : link' = r.link /\ db' \in {db, d}
    BY <1>5, <2>2 DEF SubscribeDone
  <2>4. CallView # Service!NoCall BY <2>2, CallKinds
  <2>5. /\ \E q \in Service!subscribe_results(Seen(link), k.topic, b) : q.link = Seen(link')
        /\ link'.up => link'.conn
    BY <1>1, <2>3, ResultsSeen
  <2>6. PICK q \in Service!Results : q.link = Seen(link') BY <1>3, <2>2, <2>5, ResultsOf
  <2>7. Held(db, d) BY <1>1, Counting
  <2> HIDE DEF d
  <2>8. Held(db, db') BY <2>3, <2>7 DEF Held
  <2>9. k'.at = "core" BY <2>1, PhaseType
  <2> QED BY <1>2, <2>4, <2>5, <2>6, <2>8, <2>9, ReturnedStep
<1>6. CASE UnsubscribeDone \/ RemovedDone
  <2>1. k.op \in {"unsubscribe", "connect", "lost"} /\ db' = db
    BY <1>6 DEF UnsubscribeDone, RemovedDone, Returns
  <2>2. PICK r \in unsubscribe_results(link, k.topic, db) : link' = r.link
    BY <1>6 DEF UnsubscribeDone, RemovedDone
  <2>3. CallView = Service!UnsubscribeCall(k.topic) BY <1>2, <1>3, <2>1, ViewOf
  <2>4. CallView # Service!NoCall BY <2>3, CallKinds
  <2>5. /\ \E q \in Service!unsubscribe_results(Seen(link), k.topic, NamesView) : q.link = Seen(link')
        /\ link'.up => link'.conn
    BY <1>1, <2>2, ResultsSeen
  <2>6. PICK q \in Service!Results : q.link = Seen(link') BY <1>3, <2>3, <2>5, ResultsOf
  <2>7. k'.at \in {"core", "remove"}
    <3>1. CASE UnsubscribeDone BY <3>1, PhaseType DEF UnsubscribeDone
    <3>2. CASE RemovedDone
      <4>1. k' = [k EXCEPT !.at = "remove", !.topic = Empty] BY <3>2 DEF RemovedDone
      <4> QED BY <1>1, <4>1, ZenonT(60) DEF Control
    <3> QED BY <1>6, <3>1, <3>2
  <2>8. Held(db, db') BY <2>1 DEF Held
  <2> QED BY <1>2, <2>4, <2>5, <2>6, <2>7, <2>8, ReturnedStep
<1> QED BY <1>4, <1>5, <1>6 DEF CallDone

---------------------------------------------------------------------------
(* The steps between two calls. *)

\* The thread goes on, or begins a call, and leaves the MQTT side alone; or the process ends.
Between ==
  \/ \E s : Leave(s)
  \/ k.at \notin {"mqtt", "wait"} /\ UNCHANGED <<rx, link>> /\ Calling(k')

\* The thread is not at a call after a visit.
LEMMA VisitEnds ==
  ASSUME k \in Control, NEW s
  PROVE  NextVisit(k, s).at # "wait"
<1> DEFINE next == get_nth_client(s, k.i + 1).addr
           hung == [k EXCEPT !.at = "hung", !.op = "none"]
           go == [k EXCEPT !.i = @ + 1, !.fin = (next = k.last), !.op = "none", !.at = "visit"]
<1>1. NextVisit(k, s) \in {Phase("mqtt"), hung, go} BY DEF NextVisit
<1> HIDE DEF next
<1>2. hung.at = "hung" /\ go.at = "visit" BY DEF Control
<1>3. Phase("mqtt").at = "mqtt" BY PhaseType
<1> HIDE DEF hung, go
<1> QED BY <1>1, <1>2, <1>3

\* Handlers that answer at once.
LEMMA ReplyBetween ==
  ASSUME k.at \notin {"mqtt", "wait"}, NEW s, NEW m, Reply(s, m)
  PROVE  Between
<1>1. k' = Phase("core") /\ UNCHANGED <<rx, link>> BY DEF Reply
<1>2. k'.at = "core" BY <1>1, PhaseType
<1> QED BY <1>1, <1>2 DEF Between, Calling

LEMMA ConnectBetween ==
  ASSUME k.at \notin {"mqtt", "wait"}, NEW s, NEW p, FinishConnect(s, p)
  PROVE  Between
<1>1. \E u, m : Reply(u, m) BY DEF FinishConnect
<1> QED BY <1>1, ReplyBetween

LEMMA PacketBetween ==
  ASSUME NEW p \in Packets,
         \/ ConnectOffline(p) \/ ConnectNew(p) \/ ConnectAgain(p) \/ ConnectClean(p)
         \/ WillTopic(p) \/ WillMsg(p) \/ Register(p) \/ RegAck(p)
         \/ PubAck(p) \/ PingReq(p) \/ Disconnect(p)
  PROVE  Between
<1>1. k.at = "socket"
  BY DEF ConnectOffline, ConnectNew, ConnectAgain, ConnectClean, WillTopic, WillMsg, Register, RegAck,
         PubAck, PingReq, Disconnect, Received
<1>2. CASE ConnectNew(p) \/ ConnectAgain(p) BY <1>1, <1>2, ConnectBetween DEF ConnectNew, ConnectAgain
<1>3. CASE ConnectClean(p)
  <2>1. Phase("remove") \in Control BY PhaseType
  <2>2. k' = [Phase("remove") EXCEPT !.op = "connect", !.pk = p] /\ Phase("remove").at = "remove"
    BY <1>3, PhaseType DEF ConnectClean
  <2>3. k'.at = "remove" BY <2>1, <2>2, ZenonT(60) DEF Control
  <2>4. UNCHANGED <<rx, link>> BY <1>3 DEF ConnectClean
  <2> QED BY <1>1, <2>3, <2>4 DEF Between, Calling
<1>4. CASE \/ ConnectOffline(p) \/ WillTopic(p) \/ WillMsg(p) \/ Register(p) \/ RegAck(p)
           \/ PubAck(p) \/ PingReq(p) \/ Disconnect(p)
  <2>1. \E s, m : Reply(s, m)
    <3>1. CASE ConnectOffline(p) BY <3>1 DEF ConnectOffline
    <3>2. CASE WillTopic(p) BY <3>2 DEF WillTopic
    <3>3. CASE WillMsg(p) BY <3>3 DEF WillMsg
    <3>4. CASE Register(p) BY <3>4 DEF Register
    <3>5. CASE RegAck(p) BY <3>5 DEF RegAck
    <3>6. CASE PubAck(p) BY <3>6 DEF PubAck
    <3>7. CASE PingReq(p) BY <3>7 DEF PingReq
    <3>8. CASE Disconnect(p) BY <3>8 DEF Disconnect
    <3> QED BY <1>4, <3>1, <3>2, <3>3, <3>4, <3>5, <3>6, <3>7, <3>8
  <2> QED BY <1>1, <2>1, ReplyBetween
<1> QED BY <1>2, <1>3, <1>4

\* SUBSCRIBE and UNSUBSCRIBE begin a call on a topic of the gateway.
LEMMA SubscribeBetween ==
  ASSUME NEW p \in Packets, Subscribe(p) \/ Unsubscribe(p)
  PROVE  Between
<1>1. k.at = "socket" /\ Phase("wait") \in Control BY PhaseType DEF Subscribe, Unsubscribe, Received
<1>2. CASE Subscribe(p)
  <2> DEFINE n(topic, tid, res) == [Phase("wait") EXCEPT !.op = "subscribe", !.pk = p, !.topic = topic,
                                                         !.tid = tid, !.res = res]
  <2>1. \/ \E s, m : Reply(s, m)
        \/ UNCHANGED <<rx, link>> /\ \E topic, tid, res : k' = n(topic, tid, res)
    <3> DEFINE r == register_topic(db, link.online, p.addr, p.topic)
               byName == p.form \in {"name", "normal"}
               l == lookup_subscription(IF byName THEN r.db ELSE db, link.online, p.addr,
                                        IF byName THEN r.tid ELSE p.tid, p.form # "predef", p.qos)
               bad == [Suback(p, "ZERO", 0) EXCEPT !.qos = p.qos]
    <3>1. \/ Reply(r.db, <<bad>>)
          \/ Reply(l.db, <<Suback(p, l.res, l.tid)>>)
          \/ UNCHANGED <<rx, link>> /\ k' = n(l.topic, l.tid, l.res)
      BY <1>2 DEF Subscribe
    <3> HIDE DEF r, l, n, bad
    <3> QED BY <3>1
  <2>2. \A topic, tid, res : n(topic, tid, res).op = "subscribe" BY <1>1, ZenonT(60) DEF Control
  <2> HIDE DEF n
  <2>3. CASE \E s, m : Reply(s, m) BY <1>1, <2>3, ReplyBetween
  <2>4. CASE UNCHANGED <<rx, link>> /\ \E topic, tid, res : k' = n(topic, tid, res)
    <3>1. k'.op = "subscribe" BY <2>2, <2>4
    <3> QED BY <1>1, <2>4, <3>1 DEF Between, Calling
  <2> QED BY <2>1, <2>3, <2>4
<1>3. CASE Unsubscribe(p)
  <2> DEFINE n(topic) == [Phase("wait") EXCEPT !.op = "unsubscribe", !.pk = p, !.topic = topic]
  <2>1. \/ \E s, m : Reply(s, m)
        \/ UNCHANGED <<rx, link>> /\ \E topic \in Topic : k' = n(topic)
    <3> DEFINE u == lookup_unsubscription(db, p.addr, IF p.form = "normal" THEN "name" ELSE p.form,
                                          p.tid, p.topic)
    <3>1. \/ Reply(u.db, <<Unsuback(p)>>)
          \/ u.topic \in Topic /\ UNCHANGED <<rx, link>> /\ k' = n(u.topic)
      BY <1>3 DEF Unsubscribe
    <3> HIDE DEF u, n
    <3> QED BY <3>1
  <2>2. \A topic : n(topic).op = "unsubscribe" /\ n(topic).topic = topic BY <1>1, ZenonT(60) DEF Control
  <2> HIDE DEF n
  <2>3. CASE \E s, m : Reply(s, m) BY <1>1, <2>3, ReplyBetween
  <2>4. CASE UNCHANGED <<rx, link>> /\ \E topic \in Topic : k' = n(topic)
    <3>1. k'.op = "unsubscribe" /\ k'.topic \in Topic BY <2>2, <2>4
    <3> QED BY <1>1, <2>4, <3>1 DEF Between, Calling
  <2> QED BY <2>1, <2>3, <2>4
<1> QED BY <1>2, <1>3

\* A PUBLISH is answered, or begins a call.
LEMMA PublishBetween ==
  ASSUME k.at \notin {"mqtt", "wait"}, NEW p \in Packets, NEW again \in BOOLEAN, handle_publish(p, again)
  PROVE  Between
<1> DEFINE o == start_by_address(db, p.addr)
           short == p.form = "short"
           t == IF short THEN get_topic_name(o, p.tid) ELSE get_predefined_topic_name(o, p.tid)
           looked == IF short THEN touch_topic_name(o, p.tid) ELSE touch_predefined_topic_name(o, p.tid)
           gone == ~client_exist(o) \/ get_client_status(o) \in {"DISCONNECTED", "LOST"}
           free == p.qos = -1 /\ ~short
           c == Commit(IF gone /\ ~free THEN o ELSE looked)
           qos == IF p.qos = -1 THEN 0 ELSE p.qos
           n(op) == [PublishLocals(p, again) EXCEPT !.op = op, !.topic = t, !.qos = qos]
           Sends == \E op \in {"publish", "predef"} : k' = n(op)
           Fails == \E s, res : AnswerPublish(s, p, res, again)
<1>0. UNCHANGED <<rx, link>> BY DEF handle_publish
<1>1. Sends \/ Fails
  <2> DEFINE A(s, res) == AnswerPublish(s, p, res, again)
             send(s, op) ==
               /\ db' = s
               /\ k' = n(op)
               /\ out' = IF link.conn THEN <<ToBroker(t, p.msg, qos)>> ELSE <<>>
  <2>1. (CASE ~link.online -> A(db, "ZERO")
          [] link.online /\ gone /\ free /\ t # Null -> send(looked, "predef")
          [] link.online /\ gone /\ ~(free /\ t # Null) ->
               A(c.db, IF c.res = "SUCCESS" THEN "CLIENTNONEXISTENCE" ELSE "ZERO")
          [] link.online /\ ~gone /\ t = Null ->
               A(c.db, IF c.res = "SUCCESS" THEN "TOPICIDNONEXISTENCE" ELSE "ZERO")
          [] OTHER -> send(c.db, "publish"))
    BY DEF handle_publish
  <2>2. \A s, res : A(s, res) => Fails OBVIOUS
  <2>3. \A s : \A op \in {"publish", "predef"} : send(s, op) => Sends OBVIOUS
  <2> HIDE DEF A, send, c, gone, free, looked, t, Fails, Sends
  <2>4. CASE ~link.online BY <2>1, <2>2, <2>4
  <2>5. CASE link.online /\ gone /\ free /\ t # Null BY <2>1, <2>3, <2>5
  <2>6. CASE link.online /\ gone /\ ~(free /\ t # Null) BY <2>1, <2>2, <2>6
  <2>7. CASE link.online /\ ~gone /\ t = Null BY <2>1, <2>2, <2>7
  <2>8. CASE link.online /\ ~gone /\ t # Null BY <2>1, <2>3, <2>8
  <2> QED BY <2>4, <2>5, <2>6, <2>7, <2>8
<1>2. CASE Fails
  <2>1. k' = [Phase("again") EXCEPT !.pk = p] \/ k' = Phase("core") BY <1>2 DEF AnswerPublish
  <2>2. /\ Phase("again") \in Control /\ Phase("again").at = "again" /\ Phase("core").at = "core"
    BY PhaseType
  <2>3. [Phase("again") EXCEPT !.pk = p].at = "again" BY <2>2 DEF Control
  <2>4. k'.at # "wait" BY <2>1, <2>2, <2>3
  <2> QED BY <1>0, <2>4 DEF Between, Calling
<1>3. CASE Sends
  <2> HIDE DEF t, qos
  <2>1. PICK op \in {"publish", "predef"} : k' = n(op) BY <1>3
  <2>2. n(op).op = op
    <3>1. Phase("wait") \in Control BY PhaseType
    <3>2. PublishLocals(p, again) \in Control BY <3>1, ZenonT(60) DEF PublishLocals, Control
    <3> QED BY <3>2, ZenonT(60) DEF Control
  <2> HIDE DEF n
  <2>3. k'.op \in {"publish", "predef"} BY <2>1, <2>2
  <2> QED BY <1>0, <2>3 DEF Between, Calling
<1> QED BY <1>1, <1>2, <1>3

\* The loop over the clients.
LEMMA VisitBetween ==
  ASSUME k \in Control, Visit \/ VisitTimed \/ VisitWill \/ RemoveDoneLost
  PROVE  Between
<1> DEFINE r == get_nth_client(db, k.i)
           H(w) == handle_timeout(w.db, r, k.elapsed)
           L(o) == get_client_will(o)
           K(l) == [k EXCEPT !.at = "wait", !.op = "will", !.topic = l.topic, !.qos = l.qos]
<1>1. k.at \in {"visit", "remove"} /\ UNCHANGED <<rx, link>>
  BY DEF Visit, VisitTimed, VisitWill, RemoveDoneLost
<1>2. CASE Visit \/ VisitTimed \/ RemoveDoneLost
  <2>1. \E s : k' = NextVisit(k, s)
    <3>1. CASE Visit BY <3>1 DEF Visit
    <3>2. CASE VisitTimed BY <3>2, ZenonT(60) DEF VisitTimed
    <3>3. CASE RemoveDoneLost BY <3>3 DEF RemoveDoneLost
    <3> QED BY <1>2, <3>1, <3>2, <3>3
  <2>2. k'.at # "wait" BY <2>1, VisitEnds
  <2> QED BY <1>1, <2>2 DEF Between, Calling
<1>3. CASE VisitWill
  <2>1. PICK w \in Served(r) : k' = K(L(H(w))) BY <1>3, ZenonT(60) DEF VisitWill, r
  <2> HIDE DEF L, H
  <2>2. \A l : K(l).op = "will" BY ZenonT(60) DEF Control
  <2> HIDE DEF K
  <2>3. k'.op = "will" BY <2>1, <2>2
  <2> QED BY <1>1, <2>3 DEF Between, Calling
<1> QED BY <1>2, <1>3

\* core.loop itself.
LEMMA CoreLoopBetween ==
  ASSUME Good(db), CoreLoopOnline \/ CoreLoopOffline
  PROVE  Between
<1>1. CASE \E s : Leave(s) BY <1>1 DEF Between
<1>2. CASE ~\E s : Leave(s)
  <2> DEFINE last == get_last_client_address(db)
             visit == [Phase("visit") EXCEPT !.i = 1, !.last = last]
             off == [Phase("visit") EXCEPT !.i = 1, !.last = last, !.off = TRUE]
  <2>1. Phase("visit") \in Control /\ Phase("visit").at = "visit" /\ Phase("mqtt").at = "mqtt" BY PhaseType
  <2>2. last \in Address \cup {NoAddress} BY LastAddressType
  <2>3. ~Stopped BY <1>2 DEF Stopped
  <2>4. k.at = "core" /\ UNCHANGED <<rx, link>>
    <3>1. CASE CoreLoopOnline BY <3>1, ZenonT(60) DEF CoreLoopOnline
    <3>2. CASE CoreLoopOffline BY <2>3, <3>2, ZenonT(60) DEF CoreLoopOffline
    <3> QED BY <3>1, <3>2
  <2>5. \/ k' = Phase("mqtt") \/ k' = visit \/ k' = off
        \/ \E e : k' = [visit EXCEPT !.beat = TRUE, !.elapsed = e]
        \/ \E e : k' = [off EXCEPT !.beat = TRUE, !.elapsed = e]
    <3> HIDE DEF visit, off
    <3>1. CASE CoreLoopOnline BY <3>1, ZenonT(60) DEF CoreLoopOnline, visit, last
    <3>2. CASE CoreLoopOffline BY <2>3, <3>2, ZenonT(60) DEF CoreLoopOffline, off, last
    <3> QED BY <3>1, <3>2
  <2> HIDE DEF last
  <2>6. visit \in Control /\ visit.at = "visit" /\ off \in Control /\ off.at = "visit"
    BY <2>1, <2>2, ZenonT(60) DEF Control
  <2> HIDE DEF visit, off
  <2>7. ASSUME NEW c \in Control, NEW e PROVE [c EXCEPT !.beat = TRUE, !.elapsed = e].at = c.at
    BY DEF Control
  <2>8. k'.at \in {"mqtt", "visit"} BY <2>1, <2>5, <2>6, <2>7
  <2> QED BY <2>4, <2>8 DEF Between, Calling
<1> QED BY <1>1, <1>2

\* The remove loop begins a call on a topic of the gateway.
LEMMA RemoveBetween ==
  ASSUME k \in Control, Interest, RemoveStep
  PROVE  Between
<1> DEFINE t == get_topic_name(db, get_nth_subscribed_topic_id(db, get_client_subscription_count(db)))
           hung == [k EXCEPT !.at = "hung"]
           wait(x) == [k EXCEPT !.at = "wait", !.topic = x]
<1>1. k.at = "remove" /\ k.op \in {"connect", "lost"} /\ UNCHANGED <<rx, link>> BY DEF RemoveStep, Interest
<1>2. k' = hung \/ k' = k \/ (t \in Topic /\ k' = wait(t)) BY DEF RemoveStep
<1> HIDE DEF t
<1>3. hung.at = "hung" BY DEF Control
<1>4. \A x : wait(x).op = k.op /\ wait(x).topic = x BY ZenonT(60) DEF Control
<1> HIDE DEF hung, wait
<1>5. Calling(k') BY <1>1, <1>2, <1>3, <1>4 DEF Calling
<1> QED BY <1>1, <1>5 DEF Between

\* Every step is one of the service, or one between two calls.
LEMMA UseNext ==
  ASSUME IInv, Interest, Linked, [Next]_vars
  PROVE  ServiceStep /\ Linked'
<1>1. k \in Control /\ Good(db) /\ k.pk \in Packets /\ k.again \in BOOLEAN /\ IInv'
  BY NextInv DEF IInv, CtlOK, Control
<1>2. CASE Between
  <2>1. CASE \E s : Leave(s) BY <2>1, StopStep
  <2>2. CASE k.at \notin {"mqtt", "wait"} /\ UNCHANGED <<rx, link>> /\ Calling(k')
    <3>1. Linked' BY <2>2 DEF Linked
    <3> QED BY <1>1, <2>2, <3>1, IdleStep
  <2> QED BY <1>2, <2>1, <2>2 DEF Between
<1>3. CASE UNCHANGED vars
  <2>1. Linked' BY <1>3 DEF Linked, Calling, vars
  <2>2. CallView' = CallView /\ LinkView' = LinkView /\ NamesView' = NamesView /\ CallbackView' = CallbackView
    BY <1>3, Views DEF vars, Held
  <2> QED BY <2>1, <2>2 DEF ServiceStep, Service!vars
<1>4. CASE Boot
  <2>1. k.at = "down" /\ k' = Phase("mqtt") /\ UNCHANGED <<rx, link>> BY <1>4 DEF Boot
  <2>2. k'.at = "mqtt" BY <2>1, PhaseType
  <2>3. Between BY <2>1, <2>2 DEF Between, Calling
  <2> QED BY <1>2, <2>3
<1>5. CASE Reconnect \/ ConnectionLost \/ BrokerSubscribes BY <1>5, BrokerStep
<1>6. CASE YieldDone BY <1>6, YieldStep
<1>7. CASE Deliver BY <1>7, CallbackStep
<1>8. CASE ReceiveNothing
  <2>1. Between BY <1>8, ReplyBetween DEF ReceiveNothing
  <2> QED BY <1>2, <2>1
<1>9. CASE PublishAgain
  <2>1. k.at = "again" /\ handle_publish(k.pk, FALSE) BY <1>9 DEF PublishAgain
  <2>2. Between BY <1>1, <2>1, PublishBetween
  <2> QED BY <1>2, <2>2
<1>10. CASE CoreLoopOnline \/ CoreLoopOffline BY <1>1, <1>2, <1>10, CoreLoopBetween
<1>11. CASE Visit \/ VisitTimed \/ VisitWill \/ RemoveDoneLost BY <1>1, <1>2, <1>11, VisitBetween
<1>12. CASE RemoveStep BY <1>1, <1>2, <1>12, RemoveBetween
<1>13. CASE RemoveDoneConnect
  <2>1. k.at = "remove" /\ \E s : FinishConnect(s, k.pk) BY <1>13 DEF RemoveDoneConnect
  <2>2. Between BY <2>1, ConnectBetween
  <2> QED BY <1>2, <2>2
<1>14. CASE CallDone BY <1>14, CallReturns
<1>15. CASE Crash \/ CrashInside
  <2>1. \E s : Leave(s)
    BY <1>15 DEF Crash, Stopped, CrashInside, KilledInRemove, KilledInTimeout, KilledInSubscribe, KilledInUnsubscribe
  <2> QED BY <1>2, <2>1 DEF Between
<1>16. ASSUME NEW p \in Packets, Handle(p) PROVE ServiceStep /\ Linked'
  <2>1. CASE Publish(p)
    <3>1. k.at = "socket" /\ handle_publish(p, p.form = "normal") /\ (p.form = "normal") \in BOOLEAN
      BY <2>1 DEF Publish, Received
    <3>2. Between BY <3>1, PublishBetween
    <3> QED BY <1>2, <3>2
  <2>2. CASE Subscribe(p) \/ Unsubscribe(p) BY <1>2, <2>2, SubscribeBetween
  <2>3. CASE \/ ConnectOffline(p) \/ ConnectNew(p) \/ ConnectAgain(p) \/ ConnectClean(p)
             \/ WillTopic(p) \/ WillMsg(p) \/ Register(p) \/ RegAck(p)
             \/ PubAck(p) \/ PingReq(p) \/ Disconnect(p)
    BY <1>2, <2>3, PacketBetween
  <2> QED BY <1>16, <2>1, <2>2, <2>3 DEF Handle
<1>17. ASSUME NEW t \in Topic, NEW d \in Payload, Arrive(t, d) PROVE ServiceStep /\ Linked'
  BY <1>17, ArriveStep
<1> QED BY <1>3, <1>4, <1>5, <1>6, <1>7, <1>8, <1>9, <1>10, <1>11, <1>12, <1>13, <1>14, <1>15, <1>16, <1>17
        DEF Next, Thread

\* The gateway starts without a connection and without a call.
LEMMA UseInit == Init => Linked /\ Service!Init
<1> SUFFICES ASSUME Init PROVE Linked /\ Service!Init OBVIOUS
<1>1. k = Phase("down") /\ rx = NoDelivery /\ link = Unlinked BY DEF Init
<1>2. k.at = "down" BY <1>1, PhaseType
<1>3. CallView = Service!NoCall BY <1>2, Views, ViewOf
<1>4. CallbackView = Service!NoCallback BY <1>1 DEF CallbackView, NoDelivery, Service!NoCallback
<1>5. LinkView = Service!Unlinked
  BY <1>1, Views, SameOperators DEF Unlinked, Service!Unlinked, Seen, LinkRec
<1>6. Linked BY <1>1, <1>2 DEF Linked, Calling, Unlinked
<1> QED BY <1>3, <1>4, <1>5, <1>6 DEF Service!Init

(***************************************************************************)
(* The gateway uses the MQTT side as MqttService provides it: one call at  *)
(* a time, the topic name buffers left alone during a call, callbacks only *)
(* inside a call that reads the connection.  Every step of the gateway     *)
(* is a step of the service, or leaves what the service sees as it is.     *)
(***************************************************************************)
THEOREM GatewayUsesService == Spec => UsesService
<1>1. Spec => [](IInv /\ Interest)
  BY Ownership, PTL
<1>2. IInv /\ Interest /\ Linked /\ [Next]_vars => [Service!Next]_(Service!vars) /\ Linked'
  BY UseNext DEF ServiceStep
<1> QED BY <1>1, <1>2, UseInit, PTL DEF Spec, UsesService, Service!Spec

=============================================================================
