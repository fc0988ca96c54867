---------------------------- MODULE ServiceProofs ----------------------------
(***************************************************************************)
(* The Paho client implements the service the gateway relies on, for any   *)
(* number of topics, handlers and packet ids, as long as no read ends      *)
(* inside a packet.  Beyond PInv the argument needs what the packets on    *)
(* their way say of the broker's subscriptions (RInv): an acknowledgement  *)
(* is read only after the broker acted on the request, and a message of a  *)
(* topic that is being unsubscribed is read before its UNSUBACK.           *)
(***************************************************************************)
EXTENDS PahoProofs, FiniteSetTheorems

\* The callbacks still to be made for a message.
Delivery == [left : Nat \ {0}, topic : Topic \cup {""}]

(***************************************************************************)
(* What goes with every state of client c, call x, connection n, session b *)
(* and callbacks k: a client without a session has no handlers, a broken   *)
(* connection brings nothing, only an unsubscribe that waits has a mark in *)
(* the session, and callbacks are made while a message is delivered.       *)
(***************************************************************************)
Basic(c, x, n, b, k) ==
  /\ ~n.torn
  /\ ~c.isconnected => c.hs = NoHandlers
  /\ n.st \in {"dead", "eof"} => n.in = <<>>
  /\ b.had => x.op = "unsubscribe" /\ x.topic \in Topic /\ x.st \in {"read", "deliver"}
  /\ k = NoCallback \/ (k \in Delivery /\ x.st = "deliver")
  /\ x.st # "idle" => x.op # "none"
  /\ x.op = "publish" =>
       x.topic = "" /\ x.buf = "none" /\ (x.st \in {"read", "deliver"} => x.qos = 1)

\* What acknowledgement p says of the broker's subscriptions.
Tells(p, x, b) ==
  /\ p.type = "SUBACK" /\ p.qos # 128 => x.topic \in b.subs
  /\ p.type = "UNSUBACK" => x.topic \notin b.subs

\* What request p says of the call that sent it.
Serves(p, x, b) ==
  /\ p.type = "SUBSCRIBE" => x.op = "subscribe" /\ p.topic = x.topic
  /\ p.type = "UNSUBSCRIBE" =>
       x.op = "unsubscribe" /\ p.topic = x.topic /\ (b.had <=> x.topic \in b.subs)

\* The messages on their way are of topics the broker has a subscription for.
FromSubs(n, b) == \A i \in 1..Len(n.in) : n.in[i].type = "PUBLISH" => n.in[i].topic \in b.subs

(***************************************************************************)
(* What the packets on their way say in a session that goes on or is being *)
(* opened.  Messages of a topic that is being unsubscribed come before the *)
(* UNSUBACK.                                                               *)
(***************************************************************************)
Answering(x, n, b) ==
  /\ x.op = "connect" => b.subs = {}
  /\ b.owes.type # "PUBLISH"
  /\ \A i \in 1..Len(n.out) : Serves(n.out[i], x, b)
  /\ Tells(b.owes, x, b)
  /\ \A i \in 1..Len(n.in) : Tells(n.in[i], x, b)
  /\ \A i \in 1..Len(n.in) :
       n.in[i].type = "PUBLISH" =>
         \/ n.in[i].topic \in b.subs
         \/ b.had /\ n.in[i].topic = x.topic /\ \A j \in 1..(i - 1) : n.in[j].type # "UNSUBACK"

\* The inductive invariant of the refinement, beyond PInv.
RInv ==
  /\ Basic(cl, call, net, broker, cb)
  /\ cl.isconnected \/ call.op = "connect" => Answering(call, net, broker)

---------------------------------------------------------------------------
(* The service's definitions are those of the client. *)

LEMMA SameLink ==
  /\ Service!NoHandlers = NoHandlers
  /\ Service!NoCallback = NoCallback
  /\ \A hs, buf : Service!Attached(hs, buf) = Attached(hs, buf)
  /\ \A hs, s, t : Service!Detached(hs, s, t) = Detached(hs, s, t)
  /\ \A hs, s, t : Service!Matching(hs, s, t) = Matching(hs, s, t)
<1>1. Service!NoHandlers = NoHandlers BY DEF NoHandlers, Service!NoHandlers
<1>2. Service!NoCallback = NoCallback BY DEF NoCallback, Service!NoCallback
<1>3. \A hs, buf : Service!Attached(hs, buf) = Attached(hs, buf)
  BY DEF Attached, Service!Attached, FirstHandler, Service!FirstHandler
<1>4. \A s, h : Service!FilterOf(s, h) = FilterOf(s, h)
  BY DEF FilterOf, Service!FilterOf, NoFilter, Service!NoFilter
<1>5. \A hs, s, t : Service!Detached(hs, s, t) = Detached(hs, s, t)
  BY <1>4 DEF Detached, Service!Detached, FirstHandler, Service!FirstHandler
<1>6. \A hs, s, t : Service!Matching(hs, s, t) = Matching(hs, s, t)
  BY <1>4 DEF Matching, Service!Matching
<1> QED BY <1>1, <1>2, <1>3, <1>5, <1>6

LEMMA SameCardinality == \A S : Service!Cardinality(S) = Cardinality(S)
BY Zenon DEF Cardinality, Service!Cardinality

---------------------------------------------------------------------------
(* What the packets say, when packets are written and read. *)

\* Without anything due, any call may follow.
LEMMA Calm ==
  ASSUME NEW n, NEW b, NEW y, NothingDue(n, b.owes), FromSubs(n, b), b.owes.type # "PUBLISH",
         y.op = "connect" => b.subs = {}
  PROVE  Answering(y, n, b)
BY DEF NothingDue, FromSubs, Answering, Serves, Tells, Asks, Acks

\* Without an unsubscribe that waits, messages are of subscribed topics.
LEMMA Unmarked ==
  ASSUME NEW x, NEW n, NEW b, Answering(x, n, b), ~b.had
  PROVE  FromSubs(n, b)
BY DEF Answering, FromSubs

\* The call may go on in other respects than its operation and topic.
LEMMA SameRequest ==
  ASSUME NEW x, NEW y, NEW n, NEW b, Answering(x, n, b), x.op = y.op, x.topic = y.topic
  PROVE  Answering(y, n, b)
BY DEF Answering, Serves, Tells

LEMMA AnswerWrite ==
  ASSUME NEW n \in Connection, NEW p \in MqttPacket, NEW x, NEW b, Answering(x, n, b), Serves(p, x, b)
  PROVE  Answering(x, Write(n, p), b)
<1> DEFINE w == Write(n, p)
<1>1. /\ w.in = n.in /\ (n.st = "up" => w.out = Append(n.out, p)) /\ (n.st # "up" => w.out = n.out)
  BY WriteOut
<1> HIDE DEF w
<1>2. n.out \in Seq(MqttPacket) BY DEF Connection
<1>3. CASE n.st # "up" BY <1>1, <1>3 DEF Answering, w
<1>4. CASE n.st = "up"
  <2>1. w.out = Append(n.out, p) BY <1>1, <1>4
  <2>2. /\ Len(w.out) = Len(n.out) + 1 /\ Len(n.out) \in Nat
        /\ \A i \in 1..Len(n.out) : w.out[i] = n.out[i]
        /\ w.out[Len(n.out) + 1] = p
    BY <1>2, <2>1, AppendProperties
  <2>3. \A i \in 1..Len(w.out) : i \in 1..Len(n.out) \/ i = Len(n.out) + 1 BY <2>2
  <2>4. \A i \in 1..Len(w.out) : Serves(w.out[i], x, b) BY <2>2, <2>3 DEF Answering
  <2> QED BY <1>1, <2>4 DEF Answering, w
<1> QED BY <1>3, <1>4

LEMMA AnswerKeep ==
  ASSUME NEW c \in Client, NEW n \in Connection, NEW a \in keepalive(c, n), NEW x, NEW b
  PROVE  /\ Answering(x, n, b) => Answering(x, a.net, b)
         /\ FromSubs(n, b) => FromSubs(a.net, b)
<1>1. Pkt("PINGREQ") \in MqttPacket /\ Pkt("PINGREQ").type = "PINGREQ" BY PktType DEF PacketType
<1>2. Serves(Pkt("PINGREQ"), x, b) BY <1>1 DEF Serves
<1>3. /\ a.net.in = n.in
      /\ (a.cl = c /\ a.net = n) \/ a.net = Write(n, Pkt("PINGREQ"))
  BY Keepalive
<1>4. FromSubs(n, b) => FromSubs(a.net, b) BY <1>3 DEF FromSubs
<1>5. CASE a.net = n BY <1>4, <1>5
<1>6. CASE a.net = Write(n, Pkt("PINGREQ")) BY <1>1, <1>2, <1>4, <1>6, AnswerWrite
<1> QED BY <1>3, <1>5, <1>6

LEMMA AnswerTake ==
  ASSUME NEW n \in Connection, NEW t \in Connection, n.in # <<>>, t.out = n.out, t.in = Tail(n.in),
         NEW x, NEW b, Answering(x, n, b)
  PROVE  /\ Answering(x, t, b)
         /\ Tells(Head(n.in), x, b)
         /\ Head(n.in).type = "UNSUBACK" => FromSubs(t, b)
         /\ Head(n.in).type = "PUBLISH" =>
              Head(n.in).topic \in b.subs \/ (b.had /\ Head(n.in).topic = x.topic)
<1>1. n.in \in Seq(MqttPacket) BY DEF Connection
<1>2. /\ Len(t.in) = Len(n.in) - 1 /\ Len(n.in) \in Nat /\ 1 \in 1..Len(n.in) /\ Head(n.in) = n.in[1]
      /\ \A i \in 1..Len(t.in) : t.in[i] = n.in[i + 1]
  BY <1>1, HeadTailProperties
<1>3. \A i \in 1..Len(t.in) : i + 1 \in 1..Len(n.in) /\ 1 \in 1..((i + 1) - 1) BY <1>2
<1>4. \A i \in 1..Len(t.in) : Tells(t.in[i], x, b) BY <1>2, <1>3 DEF Answering
<1>5. ASSUME NEW i \in 1..Len(t.in), t.in[i].type = "PUBLISH", t.in[i].topic \notin b.subs
      PROVE  /\ b.had /\ t.in[i].topic = x.topic /\ \A j \in 1..(i - 1) : t.in[j].type # "UNSUBACK"
             /\ Head(n.in).type # "UNSUBACK"
  <2>1. /\ b.had /\ n.in[i + 1].topic = x.topic
        /\ \A j \in 1..((i + 1) - 1) : n.in[j].type # "UNSUBACK"
    BY <1>2, <1>3, <1>5 DEF Answering
  <2>2. \A j \in 1..(i - 1) : j \in 1..Len(t.in) /\ j + 1 \in 1..((i + 1) - 1) BY <1>2
  <2>3. \A j \in 1..(i - 1) : t.in[j].type # "UNSUBACK" BY <1>2, <2>1, <2>2
  <2> QED BY <1>2, <1>3, <2>1, <2>3
<1>6. Answering(x, t, b) BY <1>4, <1>5 DEF Answering
<1>7. Head(n.in).type = "UNSUBACK" => FromSubs(t, b) BY <1>5 DEF FromSubs
<1>8. Tells(Head(n.in), x, b) BY <1>2 DEF Answering
<1>9. Head(n.in).type = "PUBLISH" =>
        Head(n.in).topic \in b.subs \/ (b.had /\ Head(n.in).topic = x.topic)
  BY <1>2 DEF Answering
<1> QED BY <1>6, <1>7, <1>8, <1>9

---------------------------------------------------------------------------
(* Calls that return, and calls that go on. *)

LEMMA ReturnedR ==
  ASSUME Typed, PInv', NEW c \in Client, Returns(c), cb = NoCallback, cb' = cb, ~net'.torn,
         net'.st \in {"dead", "eof"} => net'.in = <<>>, ~c.isconnected => c.hs = NoHandlers,
         c.isconnected => FromSubs(net', broker) /\ broker.owes.type # "PUBLISH"
  PROVE  RInv'
<1>1. cl' = c /\ call' = Idle /\ broker' = [broker EXCEPT !.had = FALSE] BY Zenon DEF Returns
<1>2. broker' \in Session /\ broker'.owes = broker.owes /\ broker'.subs = broker.subs
  BY <1>1, SessionHad, Zenon DEF Typed
<1>3. ~broker'.had BY <1>1, Zenon DEF Typed, Session
<1>4. Basic(cl, call, net, broker, cb)' BY <1>1, <1>3, IdleCall DEF Basic
<1>5. ASSUME c.isconnected PROVE Answering(call', net', broker')
  <2>1. ~Waits(call') BY <1>1, IdleCall DEF Waits
  <2>2. NothingDue(net', broker'.owes) BY <1>1, <1>5, <2>1 DEF PInv, DueOf
  <2>3. FromSubs(net', broker') BY <1>2, <1>5 DEF FromSubs
  <2>4. call'.op # "connect" BY <1>1, IdleCall
  <2> QED BY <1>2, <1>5, <2>2, <2>3, <2>4, Calm
<1>6. call'.op # "connect" BY <1>1, IdleCall
<1> QED BY <1>1, <1>4, <1>5, <1>6 DEF RInv

LEMMA GoneOnR ==
  ASSUME NEW c \in Client, NEW n \in Connection, NEW x, GoOn(c, n, x),
         Basic(c, x, n, broker, cb'), c.isconnected \/ x.op = "connect" => Answering(x, n, broker)
  PROVE  RInv'
<1>1. PICK a \in keepalive(c, n) : cl' = a.cl /\ net' = a.net BY DEF GoOn
<1>2. call' = x /\ broker' = broker BY DEF GoOn
<1>3. /\ cl'.isconnected = c.isconnected /\ cl'.hs = c.hs
      /\ net'.st = n.st /\ net'.in = n.in /\ net'.torn = n.torn
  BY <1>1, Keepalive
<1>4. Basic(cl, call, net, broker, cb)' BY <1>2, <1>3 DEF Basic
<1>5. Answering(x, n, broker) => Answering(call, net, broker)' BY <1>1, <1>2, AnswerKeep
<1> QED BY <1>2, <1>3, <1>4, <1>5 DEF RInv

---------------------------------------------------------------------------
(* RInv is kept by every step. *)

\* A state between two calls: nothing is due.
LEMMA BetweenCalls ==
  ASSUME PInv, RInv, call.st \in {"idle", "send"}
  PROVE  /\ Typed /\ cl \in Client /\ call \in Call /\ net \in Connection /\ broker \in Session
         /\ ~broker.had /\ cb = NoCallback /\ ~net.torn /\ call.op # "connect"
         /\ ~cl.isconnected => cl.hs = NoHandlers
         /\ net.st \in {"dead", "eof"} => net.in = <<>>
         /\ cl.isconnected => /\ NothingDue(net, broker.owes) /\ FromSubs(net, broker)
                              /\ broker.owes.type # "PUBLISH" /\ Answering(call, net, broker)
<1>1. Typed /\ cl \in Client /\ call \in Call /\ net \in Connection /\ broker \in Session BY DEF PInv, Typed
<1>2. /\ ~broker.had /\ cb = NoCallback /\ ~net.torn
      /\ ~cl.isconnected => cl.hs = NoHandlers
      /\ net.st \in {"dead", "eof"} => net.in = <<>>
  BY DEF RInv, Basic
<1>3. call.op # "connect" BY IdleCall DEF PInv, PhaseOf
<1>4. ASSUME cl.isconnected
      PROVE  NothingDue(net, broker.owes) /\ Answering(call, net, broker)
  BY <1>2, <1>4 DEF PInv, DueOf, RInv, Waits
<1>5. ASSUME cl.isconnected
      PROVE  FromSubs(net, broker) /\ broker.owes.type # "PUBLISH"
  BY <1>2, <1>4, <1>5, Unmarked DEF Answering
<1> QED BY <1>1, <1>2, <1>3, <1>4, <1>5

\* A call begins.
LEMMA CalledR ==
  ASSUME PInv, RInv, call.st = "idle", UNCHANGED <<names, cl, cb, net, broker>>,
         call'.st # "deliver", call'.op \notin {"none", "connect"},
         call'.op = "publish" => call'.topic = "" /\ call'.buf = "none" /\ call'.st = "send"
  PROVE  RInv'
<1>1. /\ ~broker.had /\ cb = NoCallback /\ ~net.torn
      /\ ~cl.isconnected => cl.hs = NoHandlers
      /\ net.st \in {"dead", "eof"} => net.in = <<>>
      /\ cl.isconnected => /\ NothingDue(net, broker.owes) /\ FromSubs(net, broker)
                           /\ broker.owes.type # "PUBLISH"
  BY BetweenCalls
<1>2. Basic(cl, call, net, broker, cb)' BY <1>1 DEF Basic
<1>3. cl.isconnected => Answering(call', net, broker) BY <1>1, Calm
<1> QED BY <1>2, <1>3 DEF RInv

LEMMA CallerR == ASSUME PInv, RInv, Caller PROVE RInv'
<1>1. ASSUME UseBuffers PROVE RInv' BY <1>1 DEF UseBuffers, RInv
<1>2. ASSUME CallYield PROVE RInv'
  <2>1. /\ call.st = "idle" /\ UNCHANGED <<names, cl, cb, net, broker>>
        /\ call' = [Idle EXCEPT !.op = "yield", !.st = "read"]
    BY <1>2 DEF CallYield
  <2>2. call'.st = "read" /\ call'.op = "yield" BY <2>1 DEF Idle
  <2> QED BY <2>1, <2>2, CalledR
<1>3. ASSUME CallPublish PROVE RInv'
  <2>1. PICK q \in {0, 1, 2} : Begin([Idle EXCEPT !.op = "publish", !.qos = q]) BY <1>3 DEF CallPublish
  <2>2. /\ call.st = "idle" /\ UNCHANGED <<names, cl, cb, net, broker>>
        /\ call'.st = "send" /\ call'.op = "publish" /\ call'.topic = "" /\ call'.buf = "none"
    BY <2>1 DEF Begin, Idle
  <2> QED BY <2>2, CalledR
<1>4. ASSUME CallSubscribe PROVE RInv'
  <2>1. PICK b \in {"reg", "pre"} :
          Begin([Idle EXCEPT !.op = "subscribe", !.buf = b, !.topic = FilterOf(names, b)])
    BY <1>4 DEF CallSubscribe
  <2>2. /\ call.st = "idle" /\ UNCHANGED <<names, cl, cb, net, broker>>
        /\ call'.st = "send" /\ call'.op = "subscribe"
    BY <2>1 DEF Begin, Idle
  <2> QED BY <2>2, CalledR
<1>5. ASSUME CallUnsubscribe PROVE RInv'
  <2>1. PICK t \in Topic : Begin([Idle EXCEPT !.op = "unsubscribe", !.topic = t]) BY <1>5 DEF CallUnsubscribe
  <2>2. /\ call.st = "idle" /\ UNCHANGED <<names, cl, cb, net, broker>>
        /\ call'.st = "send" /\ call'.op = "unsubscribe"
    BY <2>1 DEF Begin, Idle
  <2> QED BY <2>2, CalledR
<1>6. ASSUME CallConnect PROVE RInv'
  <2>1. /\ call.st = "idle" /\ ~cl.isconnected /\ UNCHANGED <<names, cl, cb>> /\ broker' = NoSession
        /\ \/ /\ call' = [Idle EXCEPT !.op = "connect", !.st = "read"]
              /\ net' = [st |-> "up", out |-> <<Pkt("CONNECT")>>, in |-> <<>>, torn |-> FALSE]
           \/ /\ net' = [st |-> "dead", out |-> <<>>, in |-> <<>>, torn |-> FALSE]
              /\ UNCHANGED call
    BY <1>6 DEF CallConnect
  <2>2. cb = NoCallback /\ cl.hs = NoHandlers /\ call.op # "connect" BY <2>1, BetweenCalls
  <2>3. ~broker'.had /\ broker'.subs = {} /\ broker'.owes = NoPkt BY <2>1 DEF NoSession
  <2>4. CASE UNCHANGED call /\ net' = [st |-> "dead", out |-> <<>>, in |-> <<>>, torn |-> FALSE]
    <3>1. ~net'.torn /\ net'.in = <<>> BY <2>4, Zenon
    <3>2. call = Idle BY <2>1 DEF PInv, PhaseOf
    <3>3. Basic(cl, call, net, broker, cb)' BY <2>1, <2>2, <2>3, <2>4, <3>1, <3>2, IdleCall DEF Basic
    <3> QED BY <2>1, <2>2, <2>4, <3>3 DEF RInv
  <2>5. CASE /\ call' = [Idle EXCEPT !.op = "connect", !.st = "read"]
             /\ net' = [st |-> "up", out |-> <<Pkt("CONNECT")>>, in |-> <<>>, torn |-> FALSE]
    <3>1. call'.op = "connect" /\ call'.st = "read" BY <2>5 DEF Idle
    <3>2. ~net'.torn /\ net'.in = <<>> /\ net'.out = <<Pkt("CONNECT")>> BY <2>5
    <3>3. Basic(cl, call, net, broker, cb)' BY <2>1, <2>2, <2>3, <3>1, <3>2 DEF Basic
    <3>4. NothingDue(net', broker'.owes)
      <4>1. Len(net'.out) = 1 /\ net'.out[1] = Pkt("CONNECT") /\ Len(net'.in) = 0 BY <3>2
      <4>2. ~Asks(Pkt("CONNECT")) /\ ~Acks(NoPkt) BY DEF Asks, Acks, NoPkt, Pkt
      <4> QED BY <2>3, <4>1, <4>2 DEF NothingDue
    <3>5. FromSubs(net', broker') BY <3>2 DEF FromSubs
    <3>6. broker'.owes.type # "PUBLISH"
      <4>1. NoPkt.type = "NONE" BY DEF NoPkt, Pkt
      <4> QED BY <2>3, <4>1
    <3>7. Answering(call', net', broker') BY <2>3, <3>4, <3>5, <3>6, Calm
    <3> QED BY <3>3, <3>7 DEF RInv
  <2> QED BY <2>1, <2>4, <2>5
<1> QED BY <1>1, <1>2, <1>3, <1>4, <1>5, <1>6 DEF Caller

LEMMA SendsR == ASSUME PInv, RInv, PInv', SendRefused \/ Send PROVE RInv'
<1>1. call.st = "send" /\ cb' = cb BY DEF SendRefused, Send
<1>2. /\ Typed /\ cl \in Client /\ call \in Call /\ net \in Connection /\ broker \in Session
      /\ ~broker.had /\ cb = NoCallback /\ ~net.torn
      /\ ~cl.isconnected => cl.hs = NoHandlers
      /\ net.st \in {"dead", "eof"} => net.in = <<>>
      /\ cl.isconnected => /\ NothingDue(net, broker.owes) /\ FromSubs(net, broker)
                           /\ broker.owes.type # "PUBLISH" /\ Answering(call, net, broker)
  BY <1>1, BetweenCalls
<1>3. call.op \in {"publish", "subscribe", "unsubscribe"} BY <1>1 DEF PInv, PhaseOf
<1>4. \A c \in Client : /\ Failed(c) \in Client /\ ~Failed(c).isconnected /\ Failed(c).hs = NoHandlers
  BY <1>3, Forgotten DEF Failed, Forget, Client
<1>5. ASSUME SendRefused PROVE RInv'
  <2>1. Returns(Failed(cl)) /\ net' = net BY <1>5 DEF SendRefused
  <2> QED BY <1>1, <1>2, <1>4, <2>1, ReturnedR
<1>6. ASSUME Send PROVE RInv'
  <2> DEFINE mid == IF call.op = "publish" /\ call.qos = 0 THEN 0 ELSE getNext
             c == [cl EXCEPT !.next = IF mid = 0 THEN @ ELSE mid]
             waits == call.op = "publish" => call.qos = 1
             r == Request(mid)
             h == call.op = "unsubscribe" /\ call.topic \in broker.subs
  <2>1. /\ cl.isconnected
        /\ \/ Returns(Failed(c)) /\ net' = net
           \/ ~waits /\ Returns(c) /\ net' = Write(net, r)
           \/ /\ waits /\ cl' = c /\ net' = Write(net, r)
              /\ call' = [call EXCEPT !.st = "read", !.mid = mid]
              /\ broker' = [broker EXCEPT !.had = h]
    BY <1>6 DEF Send
  <2>2. MaxPacketId \in Nat \ {0} BY ClientAssumption, Zenon
  <2>3. mid \in 0..MaxPacketId BY <1>2, <2>2, NextId
  <2>4. c \in Client /\ c.isconnected = cl.isconnected /\ c.hs = cl.hs BY <1>2, <2>3 DEF Client
  <2>5. r \in MqttPacket BY <1>2, <2>3 DEF Request, MqttPacket, PacketType, Call
  <2>6. /\ r.topic = call.topic
        /\ r.type = "SUBSCRIBE" => call.op = "subscribe"
        /\ r.type = "UNSUBSCRIBE" => call.op = "unsubscribe"
    BY <1>3 DEF Request
  <2>7. h \in BOOLEAN /\ (h => call.op = "unsubscribe" /\ call.topic \in Topic)
        /\ (call.op = "unsubscribe" => (h <=> call.topic \in broker.subs))
    BY <1>2 DEF Session
  <2>8. waits /\ call.op = "publish" => call.qos = 1 OBVIOUS
  <2> HIDE DEF mid, c, waits, r, h
  <2>9. /\ Write(net, r) \in Connection /\ Write(net, r).torn = net.torn
        /\ Write(net, r).st = net.st /\ Write(net, r).in = net.in
    BY <1>2, <2>5, WriteOut
  <2>10. ASSUME Returns(Failed(c)), net' = net PROVE RInv' BY <1>1, <1>2, <1>4, <2>4, <2>10, ReturnedR
  <2>11. ASSUME Returns(c), net' = Write(net, r) PROVE RInv'
    <3>1. FromSubs(net', broker) BY <1>2, <2>1, <2>9, <2>11 DEF FromSubs
    <3> QED BY <1>1, <1>2, <2>1, <2>4, <2>9, <2>11, <3>1, ReturnedR
  <2>12. ASSUME waits, cl' = c, net' = Write(net, r), call' = [call EXCEPT !.st = "read", !.mid = mid],
                broker' = [broker EXCEPT !.had = h]
         PROVE  RInv'
    <3>1. /\ call'.st = "read" /\ call'.op = call.op /\ call'.topic = call.topic
          /\ call'.buf = call.buf /\ call'.qos = call.qos
      BY <1>2, <2>12 DEF Call
    <3>2. broker'.owes = broker.owes /\ broker'.subs = broker.subs
      BY <1>2, <2>7, <2>12, SessionHad, Zenon
    <3>3. broker'.had = h BY <1>2, <2>12, ZenonT(30) DEF Session
    <3>4. Basic(cl, call, net, broker, cb)'
      BY <1>1, <1>2, <1>3, <2>1, <2>4, <2>7, <2>8, <2>9, <2>12, <3>1, <3>2, <3>3 DEF RInv, Basic
    <3>5. NothingDue(net, broker'.owes) /\ FromSubs(net, broker') /\ broker'.owes.type # "PUBLISH"
      BY <1>2, <2>1, <3>2 DEF FromSubs
    <3>6. call'.op # "connect" BY <1>3, <3>1
    <3>7. Answering(call', net, broker') BY <3>5, <3>6, Calm
    <3>8. Serves(r, call', broker') BY <2>6, <2>7, <3>1, <3>2, <3>3 DEF Serves
    <3>9. Answering(call', net', broker') BY <1>2, <2>5, <2>12, <3>7, <3>8, AnswerWrite
    <3> QED BY <3>4, <3>9 DEF RInv
  <2> QED BY <2>1, <2>10, <2>11, <2>12
<1> QED BY <1>5, <1>6

\* A state in which the call reads or delivers a message.
LEMMA WhileReading ==
  ASSUME PInv, RInv, call.st \in {"read", "deliver"}
  PROVE  /\ Typed /\ cl \in Client /\ call \in Call /\ net \in Connection /\ broker \in Session
         /\ ~net.torn /\ Whole(net, broker.owes)
         /\ Basic(cl, call, net, broker, cb) /\ Answering(call, net, broker)
         /\ ~cl.isconnected => cl.hs = NoHandlers
         /\ net.st \in {"dead", "eof"} => net.in = <<>>
         /\ broker.owes.type # "PUBLISH"
         /\ call.st = "read" => cb = NoCallback
         /\ call.op \in {"yield", "publish", "subscribe", "unsubscribe", "connect"}
         /\ call.op = "connect" <=> ~cl.isconnected
<1>1. /\ Typed /\ cl \in Client /\ call \in Call /\ net \in Connection /\ broker \in Session
      /\ PhaseOf(cl, call) /\ (cl.isconnected \/ call.op = "connect")
      /\ ~net.torn => Whole(net, broker.owes)
  BY ReadingCall
<1>2. Basic(cl, call, net, broker, cb) /\ Answering(call, net, broker) BY <1>1 DEF RInv
<1>3. call.op \in {"yield", "publish", "subscribe", "unsubscribe", "connect"} BY <1>1, <1>2 DEF Basic, Call
<1> QED BY <1>1, <1>2, <1>3 DEF Basic, Answering, PhaseOf

\* Reading a packet.
LEMMA TakenR ==
  ASSUME PInv, RInv, call.st = "read", net.in # <<>>
  PROVE  /\ Taken \in Connection /\ Taken.st = net.st /\ Taken.torn = net.torn
         /\ Taken.out = net.out /\ Taken.in = Tail(net.in) /\ Head(net.in) \in MqttPacket
         /\ Taken.st \in {"up", "closing"}
         /\ Answering(call, Taken, broker) /\ Tells(Head(net.in), call, broker)
         /\ Head(net.in).type = "UNSUBACK" => FromSubs(Taken, broker)
         /\ Head(net.in).type = "PUBLISH" =>
              Head(net.in).topic \in broker.subs \/ (broker.had /\ Head(net.in).topic = call.topic)
         /\ ~Fragment(Head(net.in))
<1>1. /\ net \in Connection /\ Answering(call, net, broker) /\ Whole(net, broker.owes)
      /\ net.st \in {"dead", "eof"} => net.in = <<>>
  BY WhileReading
<1>2. /\ Taken \in Connection /\ Taken.st = net.st /\ Taken.torn = net.torn
      /\ Taken.out = net.out /\ Taken.in = Tail(net.in) /\ Head(net.in) \in MqttPacket
  BY <1>1, TakeIn
<1>3. net.st \in {"up", "closing"} BY <1>1 DEF Connection
<1> QED BY <1>1, <1>2, <1>3, AnswerTake, TakeDue

\* The handlers of a client after the packet it waited for.
LEMMA AckHandlers ==
  ASSUME NEW c \in Client, NEW p, ~c.isconnected => c.hs = NoHandlers,
         call.op = "connect" <=> ~c.isconnected
  PROVE  ~Acknowledged(c, p).isconnected => Acknowledged(c, p).hs = NoHandlers
<1> DEFINE attached == CHOOSE hs \in Attached(c.hs, call.buf) : TRUE
           detached == CHOOSE hs \in Detached(c.hs, names, call.topic) : TRUE
           A == Acknowledged(c, p)
<1>1. A = CASE call.op = "connect" -> [c EXCEPT !.isconnected = (p.qos = 0)]
            [] call.op = "subscribe" ->
                 IF p.qos = 128 \/ (p.qos # 0 /\ attached = c.hs) THEN Forget(c)
                 ELSE [c EXCEPT !.hs = attached]
            [] call.op = "unsubscribe" -> [c EXCEPT !.hs = detached]
            [] OTHER -> c
  BY DEF Acknowledged
<1>2. \A hs : [c EXCEPT !.hs = hs].isconnected = c.isconnected BY DEF Client
<1>3. \A v \in BOOLEAN : LET d == [c EXCEPT !.isconnected = v] IN d.hs = c.hs /\ d.isconnected = v
  BY ZenonT(30) DEF Client
<1>4. Forget(c).hs = NoHandlers BY ZenonT(30) DEF Forget, Client
<1> HIDE DEF attached, detached, A
<1>5. CASE call.op = "connect"
  <2> DEFINE v == p.qos = 0
  <2>1. A = [c EXCEPT !.isconnected = v] /\ v \in BOOLEAN BY <1>1, <1>5, Zenon
  <2> HIDE DEF v
  <2>2. A.hs = c.hs BY <1>3, <2>1, Zenon
  <2> QED BY <1>5, <2>2 DEF A
<1>6. CASE call.op = "subscribe"
  <2>1. A = Forget(c) \/ A = [c EXCEPT !.hs = attached] BY <1>1, <1>6, Zenon
  <2>2. A = [c EXCEPT !.hs = attached] => A.isconnected = c.isconnected BY <1>2, Zenon
  <2> QED BY <1>4, <1>6, <2>1, <2>2 DEF A
<1>7. CASE call.op = "unsubscribe"
  <2>1. A = [c EXCEPT !.hs = detached] BY <1>1, <1>7, Zenon
  <2>2. A.isconnected = c.isconnected BY <1>2, <2>1, Zenon
  <2> QED BY <1>7, <2>2 DEF A
<1>8. CASE call.op \notin {"connect", "subscribe", "unsubscribe"}
  <2>1. A = c BY <1>1, <1>8
  <2> QED BY <2>1 DEF A
<1> QED BY <1>5, <1>6, <1>7, <1>8

LEMMA ReadAckR == ASSUME PInv, RInv, PInv', ReadAck PROVE RInv'
<1> DEFINE p == Head(net.in)
<1>1. call.st = "read" /\ net.in # <<>> /\ p.type = Awaits /\ cb' = cb BY DEF ReadAck, Reading
<1>2. PICK a \in keepalive(cl, Taken) : net' = a.net /\ Returns(Acknowledged(a.cl, p)) BY DEF ReadAck
<1>3. /\ Typed /\ cl \in Client /\ call \in Call /\ ~net.torn /\ cb = NoCallback
      /\ Basic(cl, call, net, broker, cb)
      /\ ~cl.isconnected => cl.hs = NoHandlers
      /\ broker.owes.type # "PUBLISH" /\ (call.op = "connect" <=> ~cl.isconnected)
      /\ call.op = "connect" => ~cl.ping_outstanding
  BY <1>1, WhileReading, ReadingCall
<1>4. /\ Taken \in Connection /\ Taken.st = net.st /\ Taken.torn = net.torn
      /\ Taken.st \in {"up", "closing"} /\ Answering(call, Taken, broker)
      /\ p.type = "UNSUBACK" => FromSubs(Taken, broker)
  BY <1>1, TakenR
<1>5. /\ a.cl \in Client /\ a.net \in Connection /\ a.net.st = Taken.st /\ a.net.torn = Taken.torn
      /\ a.cl.isconnected = cl.isconnected /\ a.cl.hs = cl.hs /\ (call.op = "connect" => a.cl = cl)
  BY <1>3, <1>4, Keepalive
<1>6. FromSubs(Taken, broker)
  <2>1. CASE broker.had
    <3>1. Awaits = "UNSUBACK" BY <1>3, <2>1 DEF Basic, Awaits
    <3> QED BY <1>1, <1>4, <3>1
  <2>2. CASE ~broker.had BY <1>4, <2>2, Unmarked
  <2> QED BY <2>1, <2>2
<1>7. FromSubs(a.net, broker) BY <1>3, <1>4, <1>6, AnswerKeep
<1> DEFINE A == Acknowledged(a.cl, p)
<1>8. A \in Client BY <1>3, <1>5, AckClient
<1>9. ~A.isconnected => A.hs = NoHandlers BY <1>3, <1>5, AckHandlers
<1> HIDE DEF A, p
<1>10. Returns(A) /\ net' = a.net BY <1>2 DEF A
<1>11. ~net'.torn /\ net'.st \notin {"dead", "eof"} BY <1>3, <1>4, <1>5, <1>10
<1> QED BY <1>1, <1>3, <1>7, <1>8, <1>9, <1>10, <1>11, ReturnedR

LEMMA ReadOtherR == ASSUME PInv, RInv, ReadOther PROVE RInv'
<1> DEFINE c == [cl EXCEPT !.ping_outstanding = @ /\ Head(net.in).type # "PINGRESP"]
<1>1. call.st = "read" /\ net.in # <<>> /\ cb' = cb /\ GoOn(c, Taken, call) BY DEF ReadOther, Reading
<1>2. cl \in Client /\ Basic(cl, call, net, broker, cb) BY <1>1, WhileReading
<1>3. /\ Taken \in Connection /\ Taken.st = net.st /\ Taken.torn = net.torn
      /\ Taken.st \in {"up", "closing"} /\ Answering(call, Taken, broker)
  BY <1>1, TakenR
<1>4. c \in Client /\ c.isconnected = cl.isconnected /\ c.hs = cl.hs
  <2> DEFINE v == cl.ping_outstanding /\ Head(net.in).type # "PINGRESP"
  <2>1. c = [cl EXCEPT !.ping_outstanding = v] /\ v \in BOOLEAN BY Zenon
  <2> HIDE DEF v, c
  <2> QED BY <1>2, <2>1, ZenonT(30) DEF Client
<1> HIDE DEF c
<1>5. Basic(c, call, Taken, broker, cb') BY <1>1, <1>2, <1>3, <1>4 DEF Basic
<1> QED BY <1>1, <1>3, <1>4, <1>5, GoneOnR

\* The number of handlers that match.
LEMMA MatchCount ==
  ASSUME NEW hs, NEW s, NEW t
  PROVE  Matching(hs, s, t) # {} => Cardinality(Matching(hs, s, t)) \in Nat \ {0}
<1>1. IsFiniteSet(1..MaxHandlers)
  <2>1. MaxHandlers \in Nat BY ClientAssumption, Zenon
  <2> QED BY <2>1, FS_Interval
<1>2. Matching(hs, s, t) \subseteq 1..MaxHandlers BY DEF Matching
<1>3. IsFiniteSet(Matching(hs, s, t)) BY <1>1, <1>2, FS_Subset
<1> QED BY <1>3, FS_CardinalityType, FS_EmptySet

LEMMA ReadPublishR == ASSUME PInv, RInv, ReadPublish PROVE RInv'
<1> DEFINE p == Head(net.in)
           match == Matching(cl.hs, names, p.topic)
<1>1. /\ call.st = "read" /\ net.in # <<>> /\ net' = Taken
      /\ call' = [call EXCEPT !.st = "deliver", !.got = p]
      /\ cb' = IF match = {} THEN NoCallback ELSE [left |-> Cardinality(match), topic |-> p.topic]
      /\ UNCHANGED <<names, cl, broker>>
  BY DEF ReadPublish, Reading
<1>2. call \in Call /\ Basic(cl, call, net, broker, cb) BY <1>1, WhileReading
<1>3. /\ Taken.st = net.st /\ Taken.torn = net.torn
      /\ Taken.st \in {"up", "closing"} /\ Answering(call, Taken, broker)
  BY <1>1, TakenR
<1>4. /\ call'.st = "deliver" /\ call'.op = call.op /\ call'.topic = call.topic
      /\ call'.buf = call.buf /\ call'.qos = call.qos
  BY <1>1, <1>2 DEF Call
<1>5. cb' = NoCallback \/ cb' \in Delivery
  <2>1. p.topic \in Topic \cup {""} BY <1>1, TakenR DEF MqttPacket
  <2>2. match # {} => Cardinality(match) \in Nat \ {0} BY MatchCount
  <2> HIDE DEF match
  <2> QED BY <1>1, <2>1, <2>2 DEF Delivery
<1>6. Basic(cl, call, net, broker, cb)' BY <1>1, <1>2, <1>3, <1>4, <1>5 DEF Basic
<1>7. Answering(call', Taken, broker) BY <1>3, <1>4, SameRequest
<1> QED BY <1>1, <1>6, <1>7 DEF RInv

LEMMA CallbackR == ASSUME PInv, RInv, Callback PROVE RInv'
<1>1. /\ call.st = "deliver" /\ cb.left > 0 /\ UNCHANGED <<names, cl, call, net, broker>>
      /\ cb' = IF cb.left = 1 THEN NoCallback ELSE [cb EXCEPT !.left = @ - 1]
  BY DEF Callback
<1>2. Basic(cl, call, net, broker, cb) BY DEF RInv
<1>3. cb \in Delivery
  <2>1. NoCallback.left = 0 BY DEF NoCallback
  <2>2. cb # NoCallback BY <1>1, <2>1
  <2> QED BY <1>2, <2>2 DEF Basic
<1>4. cb' = NoCallback \/ cb' \in Delivery
  <2>1. CASE cb.left = 1 BY <1>1, <2>1
  <2>2. CASE cb.left # 1
    <3>1. cb' = [cb EXCEPT !.left = cb.left - 1] BY <1>1, <2>2
    <3>2. cb.left - 1 \in Nat \ {0}
      <4>1. cb.left \in Nat \ {0} BY <1>3, Zenon DEF Delivery
      <4> QED BY <2>2, <4>1
    <3> DEFINE l == cb.left - 1
    <3>3. cb' = [cb EXCEPT !.left = l] /\ l \in Nat \ {0} BY <3>1, <3>2
    <3> HIDE DEF l
    <3> QED BY <1>3, <3>3, ZenonT(30) DEF Delivery
  <2> QED BY <2>1, <2>2
<1>5. Basic(cl, call, net, broker, cb)' BY <1>1, <1>2, <1>4 DEF Basic
<1> QED BY <1>1, <1>5 DEF RInv

LEMMA AckMessageR == ASSUME PInv, RInv, AckMessage PROVE RInv'
<1> DEFINE again == [call EXCEPT !.st = "read", !.got = NoPkt]
           ack == [Pkt("PUBACK") EXCEPT !.mid = call.got.mid]
<1>1. /\ call.st = "deliver" /\ cb.left = 0 /\ cb' = cb
      /\ \/ GoOn(cl, net, again)
         \/ GoOn(cl, Write(net, ack), again)
         \/ /\ call' = IF call.op = "yield" THEN Idle ELSE again
            /\ UNCHANGED <<cl, net, broker>>
  BY DEF AckMessage
<1>2. /\ cl \in Client /\ call \in Call /\ net \in Connection /\ Answering(call, net, broker)
      /\ Basic(cl, call, net, broker, cb)
      /\ call.op = "connect" <=> ~cl.isconnected
  BY <1>1, WhileReading
<1>3. cb = NoCallback BY <1>1, <1>2 DEF Basic, Delivery
<1>4. /\ again.st = "read" /\ again.op = call.op /\ again.topic = call.topic
      /\ again.buf = call.buf /\ again.qos = call.qos
  BY <1>2 DEF Call
<1>5. ack \in MqttPacket /\ ack.type = "PUBACK"
  <2>1. Pkt("PUBACK") \in MqttPacket /\ Pkt("PUBACK").type = "PUBACK" BY PktType DEF PacketType
  <2>2. call.got.mid \in 0..MaxPacketId BY <1>2 DEF Call, MqttPacket
  <2> QED BY <2>1, <2>2 DEF MqttPacket
<1> HIDE DEF again, ack
<1>6. Basic(cl, again, net, broker, cb') BY <1>1, <1>2, <1>3, <1>4 DEF Basic
<1>7. Answering(again, net, broker) BY <1>2, <1>4, SameRequest
<1>8. ASSUME GoOn(cl, net, again) PROVE RInv' BY <1>2, <1>6, <1>7, <1>8, GoneOnR
<1>9. ASSUME GoOn(cl, Write(net, ack), again) PROVE RInv'
  <2>1. /\ Write(net, ack) \in Connection /\ Write(net, ack).torn = net.torn
        /\ Write(net, ack).st = net.st /\ Write(net, ack).in = net.in
    BY <1>2, <1>5, WriteOut
  <2>2. Serves(ack, again, broker) BY <1>5 DEF Serves
  <2>3. Answering(again, Write(net, ack), broker) BY <1>2, <1>5, <1>7, <2>2, AnswerWrite
  <2>4. Basic(cl, again, Write(net, ack), broker, cb') BY <1>6, <2>1 DEF Basic
  <2> QED BY <1>2, <1>9, <2>1, <2>3, <2>4, GoneOnR
<1>10. ASSUME call' = (IF call.op = "yield" THEN Idle ELSE again), UNCHANGED <<cl, net, broker>> PROVE RInv'
  <2>1. CASE call.op # "yield"
    <3>1. call' = again BY <1>10, <2>1
    <3> QED BY <1>6, <1>7, <1>10, <3>1 DEF RInv
  <2>2. CASE call.op = "yield"
    <3>1. call' = Idle /\ ~broker.had BY <1>2, <1>10, <2>2 DEF Basic
    <3>2. Basic(cl, Idle, net, broker, cb') BY <1>1, <1>2, <1>3, <3>1, IdleCall DEF Basic
    <3>3. NothingDue(net, broker.owes)
      <4>1. ~Waits(call) BY <2>2 DEF Waits
      <4> QED BY <1>1, <1>2, <4>1, ReadingCall DEF Basic
    <3>4. FromSubs(net, broker) /\ broker.owes.type # "PUBLISH" BY <1>2, <3>1, Unmarked DEF Answering
    <3>5. Answering(Idle, net, broker) BY <3>3, <3>4, Calm, IdleCall
    <3> QED BY <1>10, <3>1, <3>2, <3>5 DEF RInv
  <2> QED BY <2>1, <2>2
<1> QED BY <1>1, <1>8, <1>9, <1>10

LEMMA TimedOutR == ASSUME PInv, RInv, PInv', TimedOut PROVE RInv'
<1>1. call.st = "read" /\ cb' = cb BY DEF TimedOut, Reading
<1>2. PICK a \in keepalive(cl, net) : net' = a.net /\ Returns(Failed(a.cl)) BY DEF TimedOut
<1>3. /\ Typed /\ cl \in Client /\ call \in Call /\ net \in Connection /\ ~net.torn /\ cb = NoCallback
      /\ Answering(call, net, broker) /\ Basic(cl, call, net, broker, cb)
      /\ ~cl.isconnected => cl.hs = NoHandlers
      /\ net.st \in {"dead", "eof"} => net.in = <<>>
      /\ broker.owes.type # "PUBLISH"
  BY <1>1, WhileReading
<1>4. /\ a.cl \in Client /\ a.net.torn = net.torn /\ a.net.st = net.st /\ a.net.in = net.in
      /\ a.cl.isconnected = cl.isconnected /\ a.cl.hs = cl.hs
  BY <1>3, Keepalive
<1> DEFINE f == Failed(a.cl)
<1>5. /\ f \in Client /\ (call.op \in {"yield", "connect"} => f = a.cl)
      /\ call.op \notin {"yield", "connect"} => ~f.isconnected
  BY <1>4, FailedClient
<1>6. call.op \notin {"yield", "connect"} => f.hs = NoHandlers BY <1>4, ZenonT(30) DEF Failed, Forget, Client
<1> HIDE DEF f
<1>7. Returns(f) /\ net' = a.net BY <1>2 DEF f
<1>8. f.isconnected => FromSubs(net', broker)
  <2>1. f.isconnected => ~broker.had BY <1>3, <1>5 DEF Basic
  <2>2. f.isconnected => FromSubs(net, broker) BY <1>3, <2>1, Unmarked
  <2> QED BY <1>4, <1>7, <2>2 DEF FromSubs
<1> QED BY <1>1, <1>3, <1>4, <1>5, <1>6, <1>7, <1>8, ReturnedR

---------------------------------------------------------------------------
(* The broker. *)

\* The broker acts on the packet at the head of its queue: what it keeps and owes afterwards.
LEMMA ActsOn ==
  ASSUME PInv, BrokerActs
  PROVE  LET p == Head(net.out) IN
         /\ broker'.had = broker.had /\ broker'.owes.type # "PUBLISH"
         /\ broker'.owes.type = "SUBACK" => p.type = "SUBSCRIBE"
         /\ broker'.owes.type = "UNSUBACK" => p.type = "UNSUBSCRIBE"
         /\ p.type \notin {"SUBSCRIBE", "UNSUBSCRIBE"} => broker'.subs = broker.subs
         /\ p.type = "UNSUBSCRIBE" => broker'.subs = broker.subs \ {p.topic}
         /\ p.type = "SUBSCRIBE" =>
              \/ broker'.subs = broker.subs \cup {p.topic}
              \/ broker'.subs = broker.subs /\ broker'.owes.qos = 128
<1> DEFINE p == Head(net.out)
<1>1. broker \in Session /\ broker.owes = NoPkt BY DEF PInv, Typed, BrokerActs
<1>2. NoPkt.type = "NONE" BY DEF NoPkt, Pkt
<1>3. \A o, S : LET b == [broker EXCEPT !.owes = o, !.subs = S]
                IN b.owes = o /\ b.subs = S /\ b.had = broker.had
  BY <1>1, ZenonT(30) DEF Session
<1>4. \A o : LET b == [broker EXCEPT !.owes = o]
             IN b.owes = o /\ b.subs = broker.subs /\ b.had = broker.had
  BY <1>1, ZenonT(30) DEF Session
<1>5. \A type : Reply(p, type).type = type BY DEF Reply, Pkt
<1> HIDE DEF p
<1>6. \/ /\ p.type = "CONNECT"
         /\ \E rc \in {0, 5} : broker' = [broker EXCEPT !.owes = [Pkt("CONNACK") EXCEPT !.qos = rc]]
      \/ /\ p.type = "SUBSCRIBE"
         /\ \E rc \in {0, 1, 128} :
              broker' = [broker EXCEPT !.owes = [Reply(p, "SUBACK") EXCEPT !.qos = rc],
                                       !.subs = IF rc = 128 THEN @ ELSE @ \cup {p.topic}]
      \/ /\ p.type = "UNSUBSCRIBE"
         /\ broker' = [broker EXCEPT !.owes = Reply(p, "UNSUBACK"), !.subs = @ \ {p.topic}]
      \/ /\ p.type = "PUBLISH"
         /\ broker' = [broker EXCEPT !.owes = CASE p.qos = 1 -> Reply(p, "PUBACK")
                                                [] p.qos = 2 -> Reply(p, "PUBREC")
                                                [] OTHER -> NoPkt]
      \/ p.type = "PINGREQ" /\ broker' = [broker EXCEPT !.owes = Pkt("PINGRESP")]
      \/ p.type = "PUBACK" /\ UNCHANGED broker
  BY Zenon DEF BrokerActs, p
<1>7. CASE p.type = "CONNECT"
  <2>1. PICK rc \in {0, 5} : broker' = [broker EXCEPT !.owes = [Pkt("CONNACK") EXCEPT !.qos = rc]]
    BY <1>6, <1>7
  <2> DEFINE o == [Pkt("CONNACK") EXCEPT !.qos = rc]
  <2>2. o.type = "CONNACK" BY DEF Pkt
  <2> HIDE DEF o
  <2>3. broker'.owes = o /\ broker'.subs = broker.subs /\ broker'.had = broker.had BY <1>4, <2>1 DEF o
  <2> QED BY <1>7, <2>2, <2>3 DEF p
<1>8. CASE p.type = "SUBSCRIBE"
  <2>1. PICK rc \in {0, 1, 128} :
          broker' = [broker EXCEPT !.owes = [Reply(p, "SUBACK") EXCEPT !.qos = rc],
                                   !.subs = IF rc = 128 THEN @ ELSE @ \cup {p.topic}]
    BY <1>6, <1>8
  <2> DEFINE o == [Reply(p, "SUBACK") EXCEPT !.qos = rc]
             S == IF rc = 128 THEN broker.subs ELSE broker.subs \cup {p.topic}
  <2>2. o.type = "SUBACK" /\ o.qos = rc BY DEF Reply, Pkt
  <2>3. rc # 128 => S = broker.subs \cup {p.topic} OBVIOUS
  <2>4. rc = 128 => S = broker.subs OBVIOUS
  <2>5. broker' = [broker EXCEPT !.owes = o, !.subs = S] BY <2>1
  <2> HIDE DEF o, S
  <2>6. broker'.owes = o /\ broker'.subs = S /\ broker'.had = broker.had BY <1>3, <2>5
  <2> QED BY <1>8, <2>2, <2>3, <2>4, <2>6 DEF p
<1>9. CASE p.type = "UNSUBSCRIBE"
  <2> DEFINE o == Reply(p, "UNSUBACK")
             S == broker.subs \ {p.topic}
  <2>1. broker' = [broker EXCEPT !.owes = o, !.subs = S] BY <1>6, <1>9
  <2>2. o.type = "UNSUBACK" BY <1>5
  <2> HIDE DEF o, S
  <2>3. broker'.owes = o /\ broker'.subs = S /\ broker'.had = broker.had BY <1>3, <2>1
  <2> QED BY <1>9, <2>2, <2>3 DEF p, S
<1>10. CASE p.type = "PUBLISH"
  <2> DEFINE o == CASE p.qos = 1 -> Reply(p, "PUBACK") [] p.qos = 2 -> Reply(p, "PUBREC") [] OTHER -> NoPkt
  <2>1. o = Reply(p, "PUBACK") \/ o = Reply(p, "PUBREC") \/ o = NoPkt OBVIOUS
  <2>2. broker' = [broker EXCEPT !.owes = o] BY <1>6, <1>10
  <2> HIDE DEF o
  <2>3. o.type \in {"PUBACK", "PUBREC", "NONE"} BY <1>2, <1>5, <2>1
  <2>4. broker'.owes = o /\ broker'.subs = broker.subs /\ broker'.had = broker.had BY <1>4, <2>2
  <2> QED BY <1>10, <2>3, <2>4 DEF p
<1>11. CASE p.type = "PINGREQ"
  <2>1. Pkt("PINGRESP").type = "PINGRESP" BY DEF Pkt
  <2>2. broker' = [broker EXCEPT !.owes = Pkt("PINGRESP")] BY <1>6, <1>11
  <2>3. broker'.owes = Pkt("PINGRESP") /\ broker'.subs = broker.subs /\ broker'.had = broker.had
    BY <1>4, <2>2
  <2> QED BY <1>11, <2>1, <2>3 DEF p
<1>12. CASE p.type = "PUBACK" BY <1>1, <1>2, <1>6, <1>12 DEF p
<1> QED BY <1>6, <1>7, <1>8, <1>9, <1>10, <1>11, <1>12

LEMMA BrokerActsR == ASSUME PInv, RInv, BrokerActs PROVE RInv'
<1> DEFINE p == Head(net.out)
<1>1. /\ net.out # <<>> /\ broker.owes = NoPkt /\ net' = [net EXCEPT !.out = Tail(@)]
      /\ UNCHANGED <<names, cl, call, cb>>
  BY DEF BrokerActs
<1>2. net \in Connection BY DEF PInv, Typed
<1>3. /\ net'.in = net.in /\ net'.out = Tail(net.out) /\ net'.st = net.st /\ net'.torn = net.torn
  BY <1>1, <1>2, ZenonT(30) DEF Connection
<1>4. /\ broker'.had = broker.had /\ broker'.owes.type # "PUBLISH"
      /\ broker'.owes.type = "SUBACK" => p.type = "SUBSCRIBE"
      /\ broker'.owes.type = "UNSUBACK" => p.type = "UNSUBSCRIBE"
      /\ p.type \notin {"SUBSCRIBE", "UNSUBSCRIBE"} => broker'.subs = broker.subs
      /\ p.type = "UNSUBSCRIBE" => broker'.subs = broker.subs \ {p.topic}
      /\ p.type = "SUBSCRIBE" =>
           \/ broker'.subs = broker.subs \cup {p.topic}
           \/ broker'.subs = broker.subs /\ broker'.owes.qos = 128
  BY ActsOn
<1>5. Basic(cl, call, net, broker, cb)' BY <1>1, <1>3, <1>4 DEF RInv, Basic
<1>6. ASSUME cl.isconnected \/ call.op = "connect" PROVE Answering(call, net', broker')
  <2>1. net.out \in Seq(MqttPacket) BY <1>2 DEF Connection
  <2>2. /\ Len(net'.out) = Len(net.out) - 1 /\ Len(net.out) \in Nat /\ 1 \in 1..Len(net.out) /\ p = net.out[1]
        /\ \A i \in 1..Len(net'.out) : net'.out[i] = net.out[i + 1]
    BY <1>1, <1>3, <2>1, HeadTailProperties
  <2>3. \A i \in 1..Len(net'.out) : i + 1 \in 1..Len(net.out) /\ i + 1 # 1 BY <2>2
  <2> HIDE DEF p
  <2>4. Answering(call, net, broker) /\ Serves(p, call, broker) BY <1>6, <2>2 DEF RInv, Answering
  <2>5. \A i \in 1..Len(net'.out) : Serves(net'.out[i], call, broker) BY <2>2, <2>3, <2>4 DEF Answering
  <2>6. p.type \in {"SUBSCRIBE", "UNSUBSCRIBE"} =>
          /\ \A j \in 1..Len(net.in) : ~Acks(net.in[j])
          /\ \A i \in 1..Len(net'.out) : ~Asks(net'.out[i])
    <3> SUFFICES ASSUME Asks(p)
                 PROVE  /\ \A j \in 1..Len(net.in) : ~Acks(net.in[j])
                        /\ \A i \in 1..Len(net'.out) : ~Asks(net'.out[i])
      BY DEF Asks
    <3>1. ~NothingDue(net, broker.owes) BY <2>2 DEF NothingDue
    <3>2. OneDue(net, broker.owes, call.mid) BY <1>6, <3>1 DEF PInv, DueOf, RInv, Basic
    <3>3. \A j \in 1..Len(net.in) : ~Acks(net.in[j]) BY <2>2, <3>2 DEF OneDue
    <3>4. \A i \in 1..Len(net'.out) : ~Asks(net'.out[i]) BY <2>2, <2>3, <3>2 DEF OneDue
    <3> QED BY <3>3, <3>4
  <2>7. CASE p.type \notin {"SUBSCRIBE", "UNSUBSCRIBE"}
    <3>1. broker'.subs = broker.subs /\ broker'.owes.type \notin {"SUBACK", "UNSUBACK"} BY <1>4, <2>7
    <3> QED BY <1>3, <1>4, <2>4, <2>5, <3>1 DEF Answering, Serves, Tells
  <2>8. CASE p.type = "SUBSCRIBE"
    <3>1. call.op = "subscribe" /\ p.topic = call.topic BY <2>4, <2>8 DEF Serves
    <3>2. ~broker.had BY <3>1 DEF RInv, Basic
    <3>3. FromSubs(net, broker) BY <2>4, <3>2, Unmarked
    <3>4. \A i \in 1..Len(net.in) : net.in[i].type = "PUBLISH" => net.in[i].topic \in broker'.subs
      BY <1>4, <2>8, <3>3 DEF FromSubs
    <3>5. Tells(broker'.owes, call, broker') BY <1>4, <2>8, <3>1 DEF Tells
    <3>6. \A i \in 1..Len(net.in) : Tells(net.in[i], call, broker') BY <2>6, <2>8 DEF Tells, Acks
    <3>7. \A i \in 1..Len(net'.out) : Serves(net'.out[i], call, broker') BY <2>6, <2>8 DEF Serves, Asks
    <3> QED BY <1>3, <1>4, <3>1, <3>4, <3>5, <3>6, <3>7 DEF Answering
  <2>9. CASE p.type = "UNSUBSCRIBE"
    <3>1. call.op = "unsubscribe" /\ p.topic = call.topic /\ (broker.had <=> call.topic \in broker.subs)
      BY <2>4, <2>9 DEF Serves
    <3>2. broker'.subs = broker.subs \ {call.topic} BY <1>4, <2>9, <3>1
    <3>3. \A j \in 1..Len(net.in) : net.in[j].type # "UNSUBACK" BY <2>6, <2>9 DEF Acks
    <3>4. ASSUME NEW i \in 1..Len(net.in), net.in[i].type = "PUBLISH"
          PROVE  \/ net.in[i].topic \in broker'.subs
                 \/ /\ broker'.had /\ net.in[i].topic = call.topic
                    /\ \A j \in 1..(i - 1) : net.in[j].type # "UNSUBACK"
      <4>1. net.in \in Seq(MqttPacket) BY <1>2 DEF Connection
      <4>2. \A j \in 1..(i - 1) : j \in 1..Len(net.in) BY <4>1
      <4>3. \A j \in 1..(i - 1) : net.in[j].type # "UNSUBACK" BY <3>3, <4>2
      <4>4. net.in[i].topic \in broker.subs \/ (broker.had /\ net.in[i].topic = call.topic)
        BY <2>4, <3>4 DEF Answering
      <4> QED BY <1>4, <3>1, <3>2, <4>3, <4>4
    <3>5. Tells(broker'.owes, call, broker') BY <1>4, <2>9, <3>2 DEF Tells
    <3>6. \A i \in 1..Len(net.in) : Tells(net.in[i], call, broker') BY <2>6, <2>9 DEF Tells, Acks
    <3>7. \A i \in 1..Len(net'.out) : Serves(net'.out[i], call, broker') BY <2>6, <2>9 DEF Serves, Asks
    <3> QED BY <1>3, <1>4, <3>1, <3>4, <3>5, <3>6, <3>7 DEF Answering
  <2> QED BY <2>7, <2>8, <2>9
<1> QED BY <1>1, <1>5, <1>6 DEF RInv

\* The broker sends packet p: what the packets then say, with an answer or a message at the end.
LEMMA AnswerSent ==
  ASSUME NEW n \in Connection, NEW p, NEW t, t.in = Append(n.in, p), t.out = n.out,
         NEW x, NEW b, Answering(x, n, b), Tells(p, x, b),
         p.type = "PUBLISH" => p.topic \in b.subs
  PROVE  Answering(x, t, b)
<1>1. n.in \in Seq(MqttPacket) BY DEF Connection
<1>2. /\ Len(t.in) = Len(n.in) + 1 /\ Len(n.in) \in Nat
      /\ \A i \in 1..Len(n.in) : t.in[i] = n.in[i]
      /\ t.in[Len(n.in) + 1] = p
  BY <1>1
<1>3. \A i \in 1..Len(t.in) : (i \in 1..Len(n.in) /\ t.in[i] = n.in[i]) \/ t.in[i] = p
  BY <1>2
<1>4. \A i \in 1..Len(t.in) : Tells(t.in[i], x, b) BY <1>3 DEF Answering
<1>5. ASSUME NEW i \in 1..Len(t.in), t.in[i].type = "PUBLISH", t.in[i].topic \notin b.subs
      PROVE  b.had /\ t.in[i].topic = x.topic /\ \A j \in 1..(i - 1) : t.in[j].type # "UNSUBACK"
  <2>1. i \in 1..Len(n.in) /\ t.in[i] = n.in[i] BY <1>3, <1>5
  <2>2. \A j \in 1..(i - 1) : j \in 1..Len(n.in) /\ t.in[j] = n.in[j] BY <1>2, <2>1
  <2>3. b.had /\ n.in[i].topic = x.topic /\ \A j \in 1..(i - 1) : n.in[j].type # "UNSUBACK"
    BY <1>5, <2>1 DEF Answering
  <2> QED BY <2>1, <2>2, <2>3
<1> QED BY <1>4, <1>5 DEF Answering

LEMMA BrokerSendsR == ASSUME PInv, RInv, BrokerAnswers \/ BrokerPublishes PROVE RInv'
<1>1. net \in Connection /\ broker \in Session BY DEF PInv, Typed
<1>2. ASSUME BrokerAnswers PROVE RInv'
  <2>1. /\ net.st = "up" /\ net' = [net EXCEPT !.in = Append(@, broker.owes)]
        /\ broker' = [broker EXCEPT !.owes = NoPkt] /\ UNCHANGED <<names, cl, call, cb>>
    BY <1>2 DEF BrokerAnswers
  <2>2. /\ net'.in = Append(net.in, broker.owes) /\ net'.out = net.out
        /\ net'.st = net.st /\ net'.torn = net.torn
    BY <1>1, <2>1, ZenonT(30) DEF Connection
  <2>3. broker'.owes = NoPkt /\ broker'.subs = broker.subs /\ broker'.had = broker.had
    BY <1>1, <2>1, ZenonT(30) DEF Session
  <2>4. Basic(cl, call, net, broker, cb)' BY <2>1, <2>2, <2>3 DEF RInv, Basic
  <2>5. ASSUME cl.isconnected \/ call.op = "connect" PROVE Answering(call, net', broker')
    <3>1. Answering(call, net, broker) BY <2>5 DEF RInv
    <3>2. Tells(broker.owes, call, broker) /\ broker.owes.type # "PUBLISH" BY <3>1 DEF Answering
    <3>3. Answering(call, net', broker) BY <1>1, <2>2, <3>1, <3>2, AnswerSent
    <3>4. NoPkt.type = "NONE" BY DEF NoPkt, Pkt
    <3>5. Tells(NoPkt, call, broker') /\ NoPkt.type # "PUBLISH" BY <3>4 DEF Tells
    <3> QED BY <2>3, <3>3, <3>5 DEF Answering, Serves, Tells
  <2> QED BY <2>1, <2>4, <2>5 DEF RInv
<1>3. ASSUME BrokerPublishes PROVE RInv'
  <2>1. PICK t \in broker.subs, q \in {0, 1} :
          net' = [net EXCEPT !.in = Append(@, [type |-> "PUBLISH", topic |-> t, mid |-> q, qos |-> q])]
    BY <1>3 DEF BrokerPublishes
  <2> DEFINE p == [type |-> "PUBLISH", topic |-> t, mid |-> q, qos |-> q]
  <2>2. net.st = "up" /\ UNCHANGED <<names, cl, call, cb, broker>> BY <1>3 DEF BrokerPublishes
  <2>3. p.type = "PUBLISH" /\ p.topic = t OBVIOUS
  <2>4. net' = [net EXCEPT !.in = Append(@, p)] BY <2>1
  <2> HIDE DEF p
  <2>5. /\ net'.in = Append(net.in, p) /\ net'.out = net.out /\ net'.st = net.st /\ net'.torn = net.torn
    BY <1>1, <2>4, ZenonT(30) DEF Connection
  <2>6. Basic(cl, call, net, broker, cb)' BY <2>2, <2>5 DEF RInv, Basic
  <2>7. Tells(p, call, broker) BY <2>3 DEF Tells
  <2>8. Answering(call, net, broker) => Answering(call, net', broker) BY <1>1, <2>3, <2>5, <2>7, AnswerSent
  <2> QED BY <2>2, <2>6, <2>8 DEF RInv
<1> QED BY <1>2, <1>3

LEMMA BreaksR == ASSUME PInv, RInv, BrokerGone \/ ConnectionLost PROVE RInv'
<1>1. UNCHANGED <<names, cl, call, cb, broker>> BY DEF BrokerGone, ConnectionLost
<1>2. net \in Connection BY DEF PInv, Typed
<1>3. /\ net'.torn = net.torn /\ net'.st # "up"
      /\ net'.out \in {<<>>, net.out} /\ net'.in \in {<<>>, net.in}
      /\ net'.st \in {"dead", "eof"} => net'.in = <<>>
  <2>1. CASE BrokerGone
    <3>1. net' = [net EXCEPT !.st = "closing", !.out = <<>>] BY <2>1 DEF BrokerGone
    <3>2. net'.st = "closing" /\ net'.out = <<>> /\ net'.in = net.in /\ net'.torn = net.torn
      BY <1>2, <3>1, ZenonT(30) DEF Connection
    <3> QED BY <3>2
  <2>2. CASE net' = [net EXCEPT !.st = "dead", !.in = <<>>]
    <3>1. net'.st = "dead" /\ net'.out = net.out /\ net'.in = <<>> /\ net'.torn = net.torn
      BY <1>2, <2>2, ZenonT(30) DEF Connection
    <3> QED BY <3>1
  <2>3. CASE net.in = <<>> /\ net' = [net EXCEPT !.st = "eof"]
    <3>1. net'.st = "eof" /\ net'.out = net.out /\ net'.in = net.in /\ net'.torn = net.torn
      BY <1>2, <2>3, ZenonT(30) DEF Connection
    <3> QED BY <2>3, <3>1
  <2> QED BY <2>1, <2>2, <2>3 DEF ConnectionLost
<1>4. Basic(cl, call, net, broker, cb)' BY <1>1, <1>3 DEF RInv, Basic
<1>5. Len(<<>>) = 0 /\ \A i \in 1..Len(<<>>) : FALSE OBVIOUS
<1>6. Answering(call, net, broker) => Answering(call, net', broker) BY <1>3, <1>5 DEF Answering
<1> QED BY <1>1, <1>4, <1>6 DEF RInv

---------------------------------------------------------------------------
(* The views of the service. *)

LinkRec(conn, up, hs, bsub) == [conn |-> conn, up |-> up, hs |-> hs, bsub |-> bsub]
CallRec(op, topic, buf, qos) == [op |-> op, topic |-> topic, buf |-> buf, qos |-> qos]

\* No session.
Closed == LinkRec(FALSE, FALSE, NoHandlers, {})

\* The topics the broker has a subscription for, as the service sees them.
Seen == broker.subs \cup (IF broker.had THEN {call.topic} ELSE {})

\* A step of the service, or none.
ServiceStep == [Service!Next]_(Service!vars)

\* Updates of one field, as the service makes them.
SetConn(l, v) == [l EXCEPT !.conn = v]
SetUp(l, v) == [l EXCEPT !.up = v]
SetHs(l, v) == [l EXCEPT !.hs = v]
SetBsub(l, v) == [l EXCEPT !.bsub = v]
SetOp(c, v) == [c EXCEPT !.op = v]
SetTopic(c, v) == [c EXCEPT !.topic = v]
SetBuf(c, v) == [c EXCEPT !.buf = v]
SetQos(c, v) == [c EXCEPT !.qos = v]

LEMMA LinkFields ==
  ASSUME NEW a, NEW u, NEW h, NEW s
  PROVE  LET l == LinkRec(a, u, h, s) IN l.conn = a /\ l.up = u /\ l.hs = h /\ l.bsub = s
BY DEF LinkRec

LEMMA LinkSets ==
  ASSUME NEW a, NEW u, NEW h, NEW s, NEW v
  PROVE  /\ SetConn(LinkRec(a, u, h, s), v) = LinkRec(v, u, h, s)
         /\ SetUp(LinkRec(a, u, h, s), v) = LinkRec(a, v, h, s)
         /\ SetHs(LinkRec(a, u, h, s), v) = LinkRec(a, u, v, s)
         /\ SetBsub(LinkRec(a, u, h, s), v) = LinkRec(a, u, h, v)
<1>1. SetConn(LinkRec(a, u, h, s), v) = LinkRec(v, u, h, s) BY DEF LinkRec, SetConn
<1>2. SetUp(LinkRec(a, u, h, s), v) = LinkRec(a, v, h, s) BY DEF LinkRec, SetUp
<1>3. SetHs(LinkRec(a, u, h, s), v) = LinkRec(a, u, v, s) BY DEF LinkRec, SetHs
<1>4. SetBsub(LinkRec(a, u, h, s), v) = LinkRec(a, u, h, v) BY DEF LinkRec, SetBsub
<1> QED BY <1>1, <1>2, <1>3, <1>4

LEMMA CallFields ==
  ASSUME NEW o, NEW t, NEW b, NEW q
  PROVE  LET c == CallRec(o, t, b, q) IN c.op = o /\ c.topic = t /\ c.buf = b /\ c.qos = q
BY DEF CallRec

LEMMA CallSets ==
  ASSUME NEW o, NEW t, NEW b, NEW q, NEW v
  PROVE  /\ SetOp(CallRec(o, t, b, q), v) = CallRec(v, t, b, q)
         /\ SetTopic(CallRec(o, t, b, q), v) = CallRec(o, v, b, q)
         /\ SetBuf(CallRec(o, t, b, q), v) = CallRec(o, t, v, q)
         /\ SetQos(CallRec(o, t, b, q), v) = CallRec(o, t, b, v)
<1>1. SetOp(CallRec(o, t, b, q), v) = CallRec(v, t, b, q) BY DEF CallRec, SetOp
<1>2. SetTopic(CallRec(o, t, b, q), v) = CallRec(o, v, b, q) BY DEF CallRec, SetTopic
<1>3. SetBuf(CallRec(o, t, b, q), v) = CallRec(o, t, v, q) BY DEF CallRec, SetBuf
<1>4. SetQos(CallRec(o, t, b, q), v) = CallRec(o, t, b, v) BY DEF CallRec, SetQos
<1> QED BY <1>1, <1>2, <1>3, <1>4

LEMMA CallRecs ==
  /\ Service!NoCall = CallRec("none", "", "none", 0)
  /\ Service!YieldCall = CallRec("yield", "", "none", 0)
  /\ \A q : Service!PublishCall(q) = CallRec("publish", "", "none", q)
  /\ \A t, b : Service!SubscribeCall(t, b) = CallRec("subscribe", t, b, 0)
  /\ \A t : Service!UnsubscribeCall(t) = CallRec("unsubscribe", t, "none", 0)
<1> DEFINE y == "yield"
           p == "publish"
           s == "subscribe"
           u == "unsubscribe"
           n == "none"
           e == ""
           z == 0
           N == Service!NoCall
<1>1. N = CallRec(n, e, n, z) BY DEF Service!NoCall, CallRec
<1>2. Service!YieldCall = SetOp(N, y) BY DEF Service!YieldCall, SetOp
<1>3. ASSUME NEW q PROVE Service!PublishCall(q) = SetQos(SetOp(N, p), q)
  BY DEF Service!PublishCall, SetOp, SetQos
<1>4. ASSUME NEW t, NEW b PROVE Service!SubscribeCall(t, b) = SetBuf(SetTopic(SetOp(N, s), t), b)
  BY DEF Service!SubscribeCall, SetOp, SetTopic, SetBuf
<1>5. ASSUME NEW t PROVE Service!UnsubscribeCall(t) = SetTopic(SetOp(N, u), t)
  BY DEF Service!UnsubscribeCall, SetOp, SetTopic
<1> HIDE DEF y, p, s, u, n, e, z, N
<1>6. Service!YieldCall = CallRec(y, e, n, z) BY <1>1, <1>2, CallSets
<1>7. ASSUME NEW q PROVE Service!PublishCall(q) = CallRec(p, e, n, q) BY <1>1, <1>3, CallSets
<1>8. ASSUME NEW t, NEW b PROVE Service!SubscribeCall(t, b) = CallRec(s, t, b, z) BY <1>1, <1>4, CallSets
<1>9. ASSUME NEW t PROVE Service!UnsubscribeCall(t) = CallRec(u, t, n, z) BY <1>1, <1>5, CallSets
<1> QED BY <1>1, <1>6, <1>7, <1>8, <1>9 DEF y, p, s, u, n, e, z, N

LEMMA ViewRecs ==
  /\ LinkView = LinkRec(cl.isconnected, Alive, cl.hs, IF Alive THEN Seen ELSE {})
  /\ LinkView' = LinkRec(cl'.isconnected, Alive', cl'.hs, IF Alive' THEN Seen' ELSE {})
  /\ call.op # "connect" => CallView = CallRec(call.op, call.topic, call.buf, call.qos)
  /\ call.op = "connect" => CallView = Service!NoCall
  /\ call'.op # "connect" => CallView' = CallRec(call'.op, call'.topic, call'.buf, call'.qos)
  /\ call'.op = "connect" => CallView' = Service!NoCall
  /\ call = Idle => CallView = Service!NoCall
  /\ call' = Idle => CallView' = Service!NoCall
<1>1. LinkView = LinkRec(cl.isconnected, Alive, cl.hs, IF Alive THEN Seen ELSE {})
  BY Zenon DEF LinkView, LinkRec, Seen
<1>2. LinkView' = LinkRec(cl'.isconnected, Alive', cl'.hs, IF Alive' THEN Seen' ELSE {})
  BY Zenon DEF LinkView, LinkRec, Seen
<1>3. Service!NoCall = CallRec("none", "", "none", 0) BY CallRecs
<1>4. /\ call.op # "connect" => CallView = CallRec(call.op, call.topic, call.buf, call.qos)
      /\ call.op = "connect" => CallView = Service!NoCall
  BY <1>3 DEF CallView, CallRec
<1>5. /\ call'.op # "connect" => CallView' = CallRec(call'.op, call'.topic, call'.buf, call'.qos)
      /\ call'.op = "connect" => CallView' = Service!NoCall
  BY <1>3 DEF CallView, CallRec
<1>6. Idle.op = "none" /\ Idle.topic = "" /\ Idle.buf = "none" /\ Idle.qos = 0 BY DEF Idle
<1> QED BY <1>1, <1>2, <1>3, <1>4, <1>5, <1>6

\* The fields of the link.
LEMMA LinkIs ==
  /\ LinkView.conn = cl.isconnected /\ LinkView.up = Alive /\ LinkView.hs = cl.hs
  /\ LinkView.bsub = IF Alive THEN Seen ELSE {}
<1> DEFINE a == cl.isconnected
           u == Alive
           h == cl.hs
           s == IF Alive THEN Seen ELSE {}
           l == LinkView
<1>1. l = LinkRec(a, u, h, s) BY ViewRecs
<1> HIDE DEF a, u, h, s, l
<1>2. l.conn = a /\ l.up = u /\ l.hs = h /\ l.bsub = s BY <1>1, LinkFields
<1> QED BY <1>2 DEF a, u, h, s, l

\* Steps the service does not see.
LEMMA SameViews ==
  ASSUME cl \in Client, cl' \in Client, cl'.isconnected = cl.isconnected, cl'.hs = cl.hs,
         cl.isconnected => (net'.st \in {"up", "closing"} <=> net.st \in {"up", "closing"}) /\ Seen' = Seen
  PROVE  LinkView' = LinkView
<1>1. CASE cl.isconnected
  <2>1. Alive' <=> Alive BY <1>1 DEF Alive
  <2>2. Alive' = Alive BY <2>1, Zenon DEF Alive
  <2> QED BY <1>1, <2>2, ViewRecs
<1>2. CASE ~cl.isconnected
  <2>1. ~Alive /\ ~Alive' BY <1>2 DEF Alive
  <2>2. Alive = FALSE /\ Alive' = FALSE BY <2>1, Zenon DEF Alive
  <2> QED BY <2>1, <2>2, ViewRecs
<1> QED BY <1>1, <1>2

LEMMA Unseen ==
  ASSUME names' = names, cb' = cb, LinkView' = LinkView, CallView' = CallView
  PROVE  ServiceStep
BY DEF ServiceStep, Service!vars

LEMMA SameCalls ==
  ASSUME call'.op = call.op, call'.topic = call.topic, call'.buf = call.buf, call'.qos = call.qos
  PROVE  CallView' = CallView
BY DEF CallView

\* Without a session the link is closed, and cleaning one closes it.
LEMMA ClosedViews ==
  /\ cl \in Client /\ ~cl.isconnected /\ cl.hs = NoHandlers => LinkView = Closed
  /\ cl' \in Client /\ ~cl'.isconnected /\ cl'.hs = NoHandlers => LinkView' = Closed
  /\ Service!cleanSession(LinkView) = Closed
<1>1. ASSUME cl \in Client, ~cl.isconnected, cl.hs = NoHandlers PROVE LinkView = Closed
  <2>1. cl.isconnected = FALSE BY <1>1, Zenon DEF Client
  <2>2. Alive = FALSE BY <2>1, Zenon DEF Alive
  <2> QED BY <1>1, <2>1, <2>2, ViewRecs, Zenon DEF Closed
<1>2. ASSUME cl' \in Client, ~cl'.isconnected, cl'.hs = NoHandlers PROVE LinkView' = Closed
  <2>1. cl'.isconnected = FALSE BY <1>2, Zenon DEF Client
  <2>2. Alive' = FALSE BY <2>1, Zenon DEF Alive
  <2> QED BY <1>2, <2>1, <2>2, ViewRecs, Zenon DEF Closed
<1>3. Service!cleanSession(LinkView) = Closed
  <2> DEFINE a == cl.isconnected
             u == Alive
             h == cl.hs
             s == IF Alive THEN Seen ELSE {}
             f == FALSE
             e == {}
             l == LinkView
             n == NoHandlers
  <2>1. l = LinkRec(a, u, h, s) BY ViewRecs
  <2>2. Service!cleanSession(l) = SetBsub(SetHs(SetUp(SetConn(l, f), f), Service!NoHandlers), e)
    BY DEF Service!cleanSession, SetBsub, SetHs, SetUp, SetConn
  <2>3. Service!NoHandlers = n BY SameLink
  <2> HIDE DEF a, u, h, s, f, e, l, n
  <2>4. Service!cleanSession(l) = LinkRec(f, f, n, e) BY <2>1, <2>2, <2>3, LinkSets
  <2> QED BY <2>4 DEF f, e, l, n, Closed
<1> QED BY <1>1, <1>2, <1>3

---------------------------------------------------------------------------
(* What a call may return. *)

LEMMA ReturnStep ==
  ASSUME call.op \in {"yield", "publish", "subscribe", "unsubscribe"}, call' = Idle,
         cb = NoCallback, cb' = cb, names' = names,
         NEW ok, NEW x, [ok |-> ok, link |-> x] \in Service!Results, LinkView' = x
  PROVE  ServiceStep
<1>1. CallView # Service!NoCall
  <2>1. CallView = CallRec(call.op, call.topic, call.buf, call.qos) BY ViewRecs
  <2>2. CallView.op = call.op BY <2>1, CallFields
  <2>3. Service!NoCall.op = "none" BY DEF Service!NoCall
  <2> QED BY <2>2, <2>3
<1>2. CallView' = Service!NoCall BY ViewRecs
<1>3. \E r \in Service!Results : LinkView' = r.link
  <2>1. [ok |-> ok, link |-> x].link = x OBVIOUS
  <2> QED BY <2>1
<1>4. cb = Service!NoCallback BY SameLink
<1>5. Service!Return BY <1>1, <1>2, <1>3, <1>4 DEF Service!Return
<1> QED BY <1>5 DEF ServiceStep, Service!Next

LEMMA YieldResult ==
  ASSUME call.op = "yield"
  PROVE  [ok |-> TRUE, link |-> LinkView] \in Service!Results
<1>1. CallView = CallRec(call.op, call.topic, call.buf, call.qos) BY ViewRecs
<1>2. CallView.op = "yield" BY <1>1, CallFields
<1>3. Service!Results = {[ok |-> TRUE, link |-> LinkView]} BY <1>2 DEF Service!Results
<1> QED BY <1>3

LEMMA FailResult ==
  ASSUME call \in Call, call.op \in {"publish", "subscribe", "unsubscribe"},
         cl.isconnected \/ LinkView = Closed
  PROVE  [ok |-> FALSE, link |-> Closed] \in Service!Results
<1>1. CallView = CallRec(call.op, call.topic, call.buf, call.qos) BY ViewRecs
<1>2. CallView.op = call.op /\ CallView.qos = call.qos /\ CallView.topic = call.topic /\ CallView.buf = call.buf
  BY <1>1, CallFields
<1>3. LinkView.conn = cl.isconnected BY LinkIs
<1>4. call.qos # 255
  <2>1. call.qos \in {0, 1, 2} BY Zenon DEF Call
  <2> QED BY <2>1
<1>5. Service!cleanSession(LinkView) = Closed BY ClosedViews
<1>6. CASE call.op = "publish"
  <2>1. Service!Results = Service!publish_results(LinkView, call.qos)
    BY <1>2, <1>6 DEF Service!Results
  <2>2. CASE cl.isconnected
    <3>1. [ok |-> FALSE, link |-> Service!cleanSession(LinkView)]
            \in Service!publish_results(LinkView, call.qos)
      BY <1>3, <1>4, <2>2, Zenon DEF Service!publish_results
    <3> QED BY <1>5, <2>1, <3>1
  <2>3. CASE ~cl.isconnected
    <3>1. [ok |-> FALSE, link |-> LinkView] \in Service!publish_results(LinkView, call.qos)
      BY <1>3, <2>3, Zenon DEF Service!publish_results
    <3> QED BY <2>1, <2>3, <3>1
  <2> QED BY <2>2, <2>3
<1>7. CASE call.op = "subscribe"
  <2>1. Service!Results = Service!subscribe_results(LinkView, call.topic, call.buf)
    BY <1>2, <1>7 DEF Service!Results
  <2>2. [ok |-> FALSE, link |-> Service!cleanSession(LinkView)]
          \in Service!subscribe_results(LinkView, call.topic, call.buf)
    BY Zenon DEF Service!subscribe_results
  <2> QED BY <1>5, <2>1, <2>2
<1>8. CASE call.op = "unsubscribe"
  <2>1. Service!Results = Service!unsubscribe_results(LinkView, call.topic, names)
    BY <1>2, <1>8 DEF Service!Results
  <2>2. [ok |-> FALSE, link |-> Service!cleanSession(LinkView)]
          \in Service!unsubscribe_results(LinkView, call.topic, names)
    BY Zenon DEF Service!unsubscribe_results
  <2> QED BY <1>5, <2>1, <2>2
<1> QED BY <1>6, <1>7, <1>8

LEMMA PublishResult ==
  ASSUME call \in Call, call.op = "publish", cl.isconnected, Alive \/ call.qos # 1
  PROVE  [ok |-> TRUE, link |-> LinkView] \in Service!Results
<1>1. CallView = CallRec(call.op, call.topic, call.buf, call.qos) BY ViewRecs
<1>2. CallView.op = call.op /\ CallView.qos = call.qos BY <1>1, CallFields
<1>3. LinkView.conn = cl.isconnected /\ LinkView.up = Alive BY LinkIs
<1>4. call.qos # 255
  <2>1. call.qos \in {0, 1, 2} BY Zenon DEF Call
  <2> QED BY <2>1
<1>5. Service!Results = Service!publish_results(LinkView, call.qos) BY <1>2 DEF Service!Results
<1>6. [ok |-> TRUE, link |-> LinkView] \in Service!publish_results(LinkView, call.qos)
  BY <1>3, <1>4, Zenon DEF Service!publish_results
<1> QED BY <1>5, <1>6

LEMMA SubscribeResult ==
  ASSUME call.op = "subscribe", cl.isconnected, Alive, call.topic \in Seen,
         NEW hs \in Attached(cl.hs, call.buf)
  PROVE  [ok |-> TRUE, link |-> LinkRec(cl.isconnected, Alive, hs, Seen)] \in Service!Results
<1> DEFINE a == cl.isconnected
           u == Alive
           s == IF Alive THEN Seen ELSE {}
<1>1. CallView = CallRec(call.op, call.topic, call.buf, call.qos) BY ViewRecs
<1>2. CallView.op = call.op /\ CallView.topic = call.topic /\ CallView.buf = call.buf BY <1>1, CallFields
<1>3. LinkView = LinkRec(a, u, cl.hs, s) BY ViewRecs
<1>4. s = Seen OBVIOUS
<1>5. LinkView.conn = a /\ LinkView.up = u /\ LinkView.hs = cl.hs /\ LinkView.bsub = s BY LinkIs
<1> HIDE DEF a, u, s
<1>6. [LinkView EXCEPT !.hs = hs] = LinkRec(a, u, hs, s)
  <2>1. SetHs(LinkView, hs) = LinkRec(a, u, hs, s) BY <1>3, LinkSets
  <2> QED BY <2>1, Zenon DEF SetHs
<1>7. hs \in Service!Attached(LinkView.hs, call.buf) BY <1>5, SameLink
<1>8. LinkView.conn /\ LinkView.up /\ call.topic \in LinkView.bsub BY <1>4, <1>5 DEF a, u
<1>9. Service!Results = Service!subscribe_results(LinkView, call.topic, call.buf)
  BY <1>2 DEF Service!Results
<1>10. [ok |-> TRUE, link |-> [LinkView EXCEPT !.hs = hs]]
         \in Service!subscribe_results(LinkView, call.topic, call.buf)
  <2> DEFINE S == Service!Attached(LinkView.hs, call.buf)
             g(x) == [ok |-> TRUE, link |-> [LinkView EXCEPT !.hs = x]]
  <2>1. g(hs) \in {g(x) : x \in S} BY <1>7
  <2>2. Service!subscribe_results(LinkView, call.topic, call.buf) =
          {[ok |-> FALSE, link |-> Service!cleanSession(LinkView)]} \cup {g(x) : x \in S}
    BY <1>8 DEF Service!subscribe_results
  <2> HIDE DEF S
  <2> QED BY <2>1, <2>2, Zenon
<1> QED BY <1>4, <1>6, <1>9, <1>10 DEF a, u

LEMMA UnsubscribeResult ==
  ASSUME call.op = "unsubscribe", cl.isconnected, Alive, NEW hs \in Detached(cl.hs, names, call.topic)
  PROVE  [ok |-> TRUE, link |-> LinkRec(cl.isconnected, Alive, hs, Seen \ {call.topic})] \in Service!Results
<1> DEFINE a == cl.isconnected
           u == Alive
           s == IF Alive THEN Seen ELSE {}
<1>1. CallView = CallRec(call.op, call.topic, call.buf, call.qos) BY ViewRecs
<1>2. CallView.op = call.op /\ CallView.topic = call.topic BY <1>1, CallFields
<1>3. LinkView = LinkRec(a, u, cl.hs, s) BY ViewRecs
<1>4. s = Seen OBVIOUS
<1>5. LinkView.conn = a /\ LinkView.up = u /\ LinkView.hs = cl.hs /\ LinkView.bsub = s BY LinkIs
<1> HIDE DEF a, u, s
<1>6. [LinkView EXCEPT !.hs = hs, !.bsub = @ \ {call.topic}] = LinkRec(a, u, hs, s \ {call.topic})
  <2> DEFINE t == s \ {call.topic}
  <2>1. [LinkView EXCEPT !.hs = hs, !.bsub = @ \ {call.topic}] = SetBsub(SetHs(LinkView, hs), t)
    BY <1>5 DEF SetBsub, SetHs
  <2> HIDE DEF t
  <2>2. SetBsub(SetHs(LinkView, hs), t) = LinkRec(a, u, hs, t) BY <1>3, LinkSets
  <2> QED BY <2>1, <2>2 DEF t
<1>7. hs \in Service!Detached(LinkView.hs, names, call.topic) BY <1>5, SameLink
<1>8. LinkView.conn /\ LinkView.up BY <1>5 DEF a, u
<1>9. Service!Results = Service!unsubscribe_results(LinkView, call.topic, names)
  BY <1>2 DEF Service!Results
<1>10. [ok |-> TRUE, link |-> [LinkView EXCEPT !.hs = hs, !.bsub = @ \ {call.topic}]]
         \in Service!unsubscribe_results(LinkView, call.topic, names)
  <2> DEFINE S == Service!Detached(LinkView.hs, names, call.topic)
             g(x) == [ok |-> TRUE, link |-> [LinkView EXCEPT !.hs = x, !.bsub = @ \ {call.topic}]]
  <2>1. g(hs) \in {g(x) : x \in S} BY <1>7
  <2>2. Service!unsubscribe_results(LinkView, call.topic, names) =
          {[ok |-> FALSE, link |-> Service!cleanSession(LinkView)]} \cup {g(x) : x \in S}
    BY <1>8 DEF Service!unsubscribe_results
  <2> HIDE DEF S
  <2> QED BY <2>1, <2>2, Zenon
<1> QED BY <1>4, <1>6, <1>9, <1>10 DEF a, u

---------------------------------------------------------------------------
(* Every step of the client is a step of the service, or is not seen by it. *)

LEMMA SimUse == ASSUME PInv, RInv, UseBuffers PROVE ServiceStep
<1>1. call.st = "idle" /\ UNCHANGED <<cl, call, cb, net, broker>> BY DEF UseBuffers
<1>2. call = Idle BY <1>1 DEF PInv, PhaseOf
<1>3. CallView = Service!NoCall /\ CallView' = Service!NoCall BY <1>1, <1>2, ViewRecs
<1>4. LinkView' = LinkView BY <1>1 DEF LinkView, Alive
<1> QED BY <1>1, <1>3, <1>4 DEF ServiceStep, Service!Next, Service!Use

LEMMA SimConnect == ASSUME PInv, RInv, CallConnect PROVE ServiceStep
<1>1. /\ call.st = "idle" /\ ~cl.isconnected /\ UNCHANGED <<names, cl, cb>>
      /\ call' = [Idle EXCEPT !.op = "connect", !.st = "read"] \/ call' = call
  BY DEF CallConnect
<1>2. call = Idle /\ cl \in Client BY <1>1 DEF PInv, PhaseOf, Typed
<1>3. call'.op = "connect" \/ call' = Idle BY <1>1, <1>2 DEF Idle
<1>4. CallView = Service!NoCall /\ CallView' = Service!NoCall BY <1>2, <1>3, ViewRecs
<1>5. LinkView' = LinkView BY <1>1, <1>2, SameViews
<1> QED BY <1>1, <1>4, <1>5, Unseen

\* The calls.
LEMMA CallSet ==
  /\ \A q \in {0, 1, 2} : Service!PublishCall(q) \in Service!Calls
  /\ \A t \in Topic : \A b \in {"reg", "pre"} : Service!SubscribeCall(t, b) \in Service!Calls
  /\ \A t \in Topic : Service!UnsubscribeCall(t) \in Service!Calls
<1> DEFINE P(q) == Service!PublishCall(q)
           S(t, b) == Service!SubscribeCall(t, b)
           U(t) == Service!UnsubscribeCall(t)
           H == Service!Handler \ {"none"}
           Q == {0, 1, 2, 255}
<1>1. Service!Calls =
        {Service!YieldCall} \cup {P(q) : q \in Q} \cup {S(t, b) : t \in Topic, b \in H} \cup {U(t) : t \in Topic}
  BY DEF Service!Calls
<1>2. {0, 1, 2} \subseteq Q OBVIOUS
<1>3. {"reg", "pre"} \subseteq H BY DEF Service!Handler
<1> HIDE DEF P, S, U, H, Q
<1>4. \A q \in Q : P(q) \in Service!Calls BY <1>1
<1>5. \A t \in Topic : \A b \in H : S(t, b) \in Service!Calls BY <1>1
<1>6. \A t \in Topic : U(t) \in Service!Calls BY <1>1
<1> QED BY <1>2, <1>3, <1>4, <1>5, <1>6 DEF P, S, U

\* A call begins.
LEMMA SimStart ==
  ASSUME PInv, RInv, call.st = "idle", UNCHANGED <<cl, cb, net, broker>>,
         CallView' \in Service!Calls, CallView' = Service!YieldCall => cl.isconnected
  PROVE  ServiceStep
<1>1. call = Idle /\ cl \in Client /\ ~broker.had BY BetweenCalls DEF PInv, PhaseOf
<1>2. CallView = Service!NoCall BY <1>1, ViewRecs
<1>3. Seen' = Seen BY <1>1 DEF Seen
<1>4. LinkView' = LinkView BY <1>1, <1>3, SameViews
<1>5. LinkView.conn = cl.isconnected BY LinkIs
<1> QED BY <1>2, <1>4, <1>5 DEF ServiceStep, Service!Next, Service!Start

LEMMA SimCalls == ASSUME PInv, RInv, CallYield \/ CallPublish \/ CallSubscribe \/ CallUnsubscribe PROVE ServiceStep
<1>1. CASE CallYield
  <2>1. call' = [Idle EXCEPT !.op = "yield", !.st = "read"] BY <1>1 DEF CallYield
  <2>2. call'.op = "yield" /\ call'.topic = "" /\ call'.buf = "none" /\ call'.qos = 0 BY <2>1 DEF Idle
  <2>3. CallView' = Service!YieldCall BY <2>2, ViewRecs, CallRecs
  <2>4. CallView' \in Service!Calls BY <2>3 DEF Service!Calls
  <2> QED BY <1>1, <2>4, SimStart DEF CallYield
<1>2. CASE CallPublish
  <2>1. PICK q \in {0, 1, 2} : Begin([Idle EXCEPT !.op = "publish", !.qos = q]) BY <1>2 DEF CallPublish
  <2>2. call'.op = "publish" /\ call'.topic = "" /\ call'.buf = "none" /\ call'.qos = q
    BY <2>1 DEF Begin, Idle
  <2>3. CallView' = Service!PublishCall(q)
    <3>1. CallView' = CallRec("publish", "", "none", q) BY <2>2, ViewRecs
    <3> QED BY <3>1, CallRecs, Zenon
  <2>4. CallView' \in Service!Calls BY <2>3, CallSet
  <2>5. CallView' # Service!YieldCall
    <3>1. CallView'.op = "publish"
      <4>1. CallView' = CallRec(call'.op, call'.topic, call'.buf, call'.qos) BY <2>2, ViewRecs
      <4> QED BY <2>2, <4>1, Zenon DEF CallRec
    <3>2. Service!YieldCall.op = "yield" BY DEF Service!YieldCall, Service!NoCall
    <3> QED BY <3>1, <3>2
  <2> QED BY <2>1, <2>4, <2>5, SimStart DEF Begin
<1>3. CASE CallSubscribe
  <2>1. PICK b \in {"reg", "pre"} :
          /\ FilterOf(names, b) \in Topic
          /\ Begin([Idle EXCEPT !.op = "subscribe", !.buf = b, !.topic = FilterOf(names, b)])
    BY <1>3 DEF CallSubscribe
  <2> DEFINE t == FilterOf(names, b)
  <2>2. t \in Topic BY <2>1
  <2>3. call' = [Idle EXCEPT !.op = "subscribe", !.buf = b, !.topic = t, !.st = "send"]
    BY <2>1 DEF Begin, Idle
  <2> HIDE DEF t
  <2>4. call'.op = "subscribe" /\ call'.topic = t /\ call'.buf = b /\ call'.qos = 0 BY <2>3 DEF Idle
  <2>5. CallView' = CallRec(call'.op, call'.topic, call'.buf, call'.qos) BY <2>4, ViewRecs
  <2>6. CallView' = Service!SubscribeCall(t, b) BY <2>4, <2>5, CallRecs, Zenon
  <2>7. CallView' \in Service!Calls BY <2>2, <2>6, CallSet
  <2>8. CallView' # Service!YieldCall
    <3>1. CallView'.op = "subscribe" BY <2>4, <2>5, CallFields
    <3>2. Service!YieldCall.op = "yield" BY DEF Service!YieldCall, Service!NoCall
    <3> QED BY <3>1, <3>2
  <2> QED BY <2>1, <2>7, <2>8, SimStart DEF Begin
<1>4. CASE CallUnsubscribe
  <2>1. PICK t \in Topic : Begin([Idle EXCEPT !.op = "unsubscribe", !.topic = t]) BY <1>4 DEF CallUnsubscribe
  <2>2. call'.op = "unsubscribe" /\ call'.topic = t /\ call'.buf = "none" /\ call'.qos = 0
    BY <2>1 DEF Begin, Idle
  <2>3. CallView' = CallRec(call'.op, call'.topic, call'.buf, call'.qos) BY <2>2, ViewRecs
  <2>4. CallView' = Service!UnsubscribeCall(t) BY <2>2, <2>3, CallRecs, Zenon
  <2>5. CallView' \in Service!Calls BY <2>4, CallSet
  <2>6. CallView' # Service!YieldCall
    <3>1. CallView'.op = "unsubscribe" BY <2>2, <2>3, CallFields
    <3>2. Service!YieldCall.op = "yield" BY DEF Service!YieldCall, Service!NoCall
    <3> QED BY <3>1, <3>2
  <2> QED BY <2>1, <2>5, <2>6, SimStart DEF Begin
<1> QED BY <1>1, <1>2, <1>3, <1>4

\* A publish, subscribe or unsubscribe fails and forgets the session.
LEMMA SimFailed ==
  ASSUME RInv, call \in Call, call.op \in {"publish", "subscribe", "unsubscribe"}, cl \in Client,
         NEW c \in Client, Returns(Forget(c)), cb = NoCallback, cb' = cb, names' = names
  PROVE  ServiceStep
<1>1. cl' = Forget(c) /\ call' = Idle BY Zenon DEF Returns
<1>2. cl' \in Client /\ ~cl'.isconnected BY <1>1, Forgotten
<1>3. cl'.hs = NoHandlers BY <1>1, ZenonT(30) DEF Forget, Client
<1>4. LinkView' = Closed BY <1>2, <1>3, ClosedViews
<1>5. cl.isconnected \/ LinkView = Closed BY ClosedViews DEF RInv, Basic
<1>6. [ok |-> FALSE, link |-> Closed] \in Service!Results BY <1>5, FailResult
<1> DEFINE f == FALSE
           x == Closed
<1>7. [ok |-> f, link |-> x] \in Service!Results /\ LinkView' = x BY <1>4, <1>6
<1> HIDE DEF f, x
<1> QED BY <1>1, <1>7, ReturnStep

\* A publish that needs no answer, or has it, succeeds.
LEMMA SimPublished ==
  ASSUME call \in Call, call.op = "publish", cl.isconnected, Alive \/ call.qos # 1, call' = Idle,
         cb = NoCallback, cb' = cb, names' = names, LinkView' = LinkView
  PROVE  ServiceStep
<1> DEFINE k == TRUE
           x == LinkView
<1>1. [ok |-> k, link |-> x] \in Service!Results BY PublishResult
<1>2. LinkView' = x OBVIOUS
<1> HIDE DEF k, x
<1> QED BY <1>1, <1>2, ReturnStep

LEMMA SimSends == ASSUME PInv, RInv, SendRefused \/ Send PROVE ServiceStep
<1>1. call.st = "send" /\ cb' = cb /\ names' = names BY DEF SendRefused, Send
<1>2. /\ Typed /\ cl \in Client /\ call \in Call /\ net \in Connection /\ broker \in Session
      /\ ~broker.had /\ cb = NoCallback
  BY <1>1, BetweenCalls
<1>3. call.op \in {"publish", "subscribe", "unsubscribe"} BY <1>1 DEF PInv, PhaseOf
<1>4. \A c : Failed(c) = Forget(c) BY <1>3 DEF Failed
<1>5. ASSUME SendRefused PROVE ServiceStep
  <2>1. Returns(Forget(cl)) BY <1>4, <1>5 DEF SendRefused
  <2> QED BY <1>1, <1>2, <1>3, <2>1, SimFailed
<1>6. ASSUME Send PROVE ServiceStep
  <2> DEFINE mid == IF call.op = "publish" /\ call.qos = 0 THEN 0 ELSE getNext
             c == [cl EXCEPT !.next = IF mid = 0 THEN @ ELSE mid]
             waits == call.op = "publish" => call.qos = 1
             r == Request(mid)
             h == call.op = "unsubscribe" /\ call.topic \in broker.subs
  <2>1. /\ cl.isconnected
        /\ \/ Returns(Failed(c))
           \/ ~waits /\ Returns(c) /\ net' = Write(net, r)
           \/ /\ waits /\ cl' = c /\ net' = Write(net, r)
              /\ call' = [call EXCEPT !.st = "read", !.mid = mid]
              /\ broker' = [broker EXCEPT !.had = h]
    BY <1>6 DEF Send
  <2>2. MaxPacketId \in Nat \ {0} BY ClientAssumption, Zenon
  <2>3. mid \in 0..MaxPacketId BY <1>2, <2>2, NextId
  <2>4. c \in Client /\ c.isconnected = cl.isconnected /\ c.hs = cl.hs BY <1>2, <2>3 DEF Client
  <2>5. r \in MqttPacket BY <1>2, <2>3 DEF Request, MqttPacket, PacketType, Call
  <2>6. h \in BOOLEAN /\ (h => call.topic \in broker.subs) OBVIOUS
  <2>7. ~waits => call.op = "publish" /\ call.qos # 1 OBVIOUS
  <2> HIDE DEF mid, c, waits, r, h
  <2>8. Write(net, r).st = net.st BY <1>2, <2>5, WriteOut
  <2>9. ASSUME Returns(Failed(c)) PROVE ServiceStep
    <3>1. Returns(Forget(c)) BY <1>4, <2>9
    <3> QED BY <1>1, <1>2, <1>3, <2>4, <3>1, SimFailed
  <2>10. ASSUME ~waits, Returns(c), net' = Write(net, r) PROVE ServiceStep
    <3>1. cl' = c /\ call' = Idle /\ broker' = [broker EXCEPT !.had = FALSE] BY <2>10, Zenon DEF Returns
    <3>2. broker'.subs = broker.subs /\ ~broker'.had BY <1>2, <3>1, ZenonT(30) DEF Session
    <3>3. Seen' = Seen BY <1>2, <3>2 DEF Seen
    <3>4. LinkView' = LinkView BY <1>2, <2>4, <2>8, <2>10, <3>1, <3>3, SameViews
    <3> QED BY <1>1, <1>2, <2>1, <2>7, <2>10, <3>1, <3>4, SimPublished
  <2>11. ASSUME cl' = c, net' = Write(net, r), call' = [call EXCEPT !.st = "read", !.mid = mid],
                broker' = [broker EXCEPT !.had = h]
         PROVE  ServiceStep
    <3>1. /\ call'.op = call.op /\ call'.topic = call.topic
          /\ call'.buf = call.buf /\ call'.qos = call.qos
      BY <1>2, <2>11 DEF Call
    <3>2. broker'.subs = broker.subs BY <1>2, <2>6, <2>11, SessionHad, Zenon
    <3>3. broker'.had = h BY <1>2, <2>11, ZenonT(30) DEF Session
    <3>4. Seen' = Seen BY <1>2, <2>6, <3>1, <3>2, <3>3 DEF Seen
    <3>5. LinkView' = LinkView BY <1>2, <2>4, <2>8, <2>11, <3>4, SameViews
    <3>6. CallView' = CallView BY <3>1, SameCalls
    <3> QED BY <1>1, <3>5, <3>6, Unseen
  <2> QED BY <2>1, <2>9, <2>10, <2>11
<1> QED BY <1>5, <1>6

\* A call goes on after a cycle that changes nothing of the client but its ping.
LEMMA SimGoOn ==
  ASSUME cl \in Client, NEW c \in Client, c.isconnected = cl.isconnected, c.hs = cl.hs,
         NEW n \in Connection, n.st = net.st, NEW x, GoOn(c, n, x), x.op = call.op, x.topic = call.topic,
         x.buf = call.buf, x.qos = call.qos, names' = names, cb' = cb
  PROVE  ServiceStep
<1>1. PICK a \in keepalive(c, n) : cl' = a.cl /\ net' = a.net BY DEF GoOn
<1>2. call' = x /\ broker' = broker BY DEF GoOn
<1>3. /\ cl' \in Client /\ cl'.isconnected = c.isconnected /\ cl'.hs = c.hs /\ net'.st = n.st
  BY <1>1, Keepalive
<1>4. Seen' = Seen BY <1>2 DEF Seen
<1>5. LinkView' = LinkView BY <1>3, <1>4, SameViews
<1>6. CallView' = CallView BY <1>2, SameCalls
<1> QED BY <1>5, <1>6, Unseen

LEMMA SimOther == ASSUME PInv, RInv, ReadOther PROVE ServiceStep
<1> DEFINE c == [cl EXCEPT !.ping_outstanding = @ /\ Head(net.in).type # "PINGRESP"]
<1>1. call.st = "read" /\ net.in # <<>> /\ cb' = cb /\ names' = names /\ GoOn(c, Taken, call)
  BY DEF ReadOther, Reading
<1>2. cl \in Client BY DEF PInv, Typed
<1>3. Taken \in Connection /\ Taken.st = net.st BY <1>1, TakenR
<1>4. c \in Client /\ c.isconnected = cl.isconnected /\ c.hs = cl.hs
  <2> DEFINE v == cl.ping_outstanding /\ Head(net.in).type # "PINGRESP"
  <2>1. c = [cl EXCEPT !.ping_outstanding = v] /\ v \in BOOLEAN BY Zenon
  <2> HIDE DEF v, c
  <2> QED BY <1>2, <2>1, ZenonT(30) DEF Client
<1> HIDE DEF c
<1> QED BY <1>1, <1>2, <1>3, <1>4, SimGoOn

\* A yield returns.
LEMMA SimYielded ==
  ASSUME call.op = "yield", call' = Idle, cb = NoCallback, cb' = cb, names' = names, LinkView' = LinkView
  PROVE  ServiceStep
<1> DEFINE k == TRUE
           x == LinkView
<1>1. [ok |-> k, link |-> x] \in Service!Results BY YieldResult
<1>2. LinkView' = x OBVIOUS
<1> HIDE DEF k, x
<1> QED BY <1>1, <1>2, ReturnStep

LEMMA SimTimedOut == ASSUME PInv, RInv, TimedOut PROVE ServiceStep
<1>1. call.st = "read" /\ cb' = cb /\ names' = names BY DEF TimedOut, Reading
<1>2. PICK a \in keepalive(cl, net) : net' = a.net /\ Returns(Failed(a.cl)) BY DEF TimedOut
<1>3. /\ cl \in Client /\ call \in Call /\ net \in Connection /\ broker \in Session /\ cb = NoCallback
      /\ Basic(cl, call, net, broker, cb)
      /\ call.op \in {"yield", "publish", "subscribe", "unsubscribe", "connect"}
      /\ call.op = "connect" <=> ~cl.isconnected
  BY <1>1, WhileReading
<1>4. /\ a.cl \in Client /\ a.net.st = net.st
      /\ a.cl.isconnected = cl.isconnected /\ a.cl.hs = cl.hs
  BY <1>3, Keepalive
<1>5. CASE call.op \in {"publish", "subscribe", "unsubscribe"}
  <2>1. Returns(Forget(a.cl)) BY <1>2, <1>5 DEF Failed
  <2> QED BY <1>1, <1>3, <1>4, <1>5, <2>1, SimFailed
<1>6. CASE call.op \in {"yield", "connect"}
  <2>1. Returns(a.cl) BY <1>2, <1>6 DEF Failed
  <2>2. cl' = a.cl /\ call' = Idle /\ broker' = [broker EXCEPT !.had = FALSE] BY <2>1, Zenon DEF Returns
  <2>3. broker'.subs = broker.subs /\ ~broker'.had BY <1>3, <2>2, ZenonT(30) DEF Session
  <2>4. ~broker.had BY <1>3, <1>6 DEF Basic
  <2>5. Seen' = Seen BY <2>3, <2>4 DEF Seen
  <2>6. LinkView' = LinkView BY <1>2, <1>3, <1>4, <2>2, <2>5, SameViews
  <2>7. CASE call.op = "yield" BY <1>1, <1>3, <2>2, <2>6, <2>7, SimYielded
  <2>8. CASE call.op = "connect"
    <3>1. CallView' = CallView BY <2>2, <2>8, ViewRecs
    <3> QED BY <1>1, <2>6, <3>1, Unseen
  <2> QED BY <1>6, <2>7, <2>8
<1> QED BY <1>3, <1>5, <1>6

LEMMA SimCallback == ASSUME Callback PROVE ServiceStep
<1>1. /\ cb.left > 0 /\ UNCHANGED <<names, cl, call, net, broker>>
      /\ cb' = IF cb.left = 1 THEN NoCallback ELSE [cb EXCEPT !.left = @ - 1]
  BY DEF Callback
<1>2. LinkView' = LinkView BY <1>1 DEF LinkView, Alive
<1>3. CallView' = CallView BY <1>1 DEF CallView
<1>4. cb' = IF cb.left = 1 THEN Service!NoCallback ELSE [cb EXCEPT !.left = @ - 1] BY <1>1, SameLink
<1>5. Service!Callback BY <1>1, <1>2, <1>3, <1>4 DEF Service!Callback
<1> QED BY <1>5 DEF ServiceStep, Service!Next

LEMMA SimAckMessage == ASSUME PInv, RInv, AckMessage PROVE ServiceStep
<1> DEFINE again == [call EXCEPT !.st = "read", !.got = NoPkt]
           ack == [Pkt("PUBACK") EXCEPT !.mid = call.got.mid]
<1>1. /\ call.st = "deliver" /\ cb.left = 0 /\ cb' = cb /\ names' = names
      /\ \/ GoOn(cl, net, again)
         \/ GoOn(cl, Write(net, ack), again)
         \/ /\ call' = IF call.op = "yield" THEN Idle ELSE again
            /\ UNCHANGED <<cl, net, broker>>
  BY DEF AckMessage
<1>2. /\ cl \in Client /\ call \in Call /\ net \in Connection
      /\ Basic(cl, call, net, broker, cb)
  BY <1>1, WhileReading
<1>3. cb = NoCallback BY <1>1, <1>2 DEF Basic, Delivery
<1>4. /\ again.op = call.op /\ again.topic = call.topic
      /\ again.buf = call.buf /\ again.qos = call.qos
  BY <1>2 DEF Call
<1>5. ack \in MqttPacket
  <2>1. Pkt("PUBACK") \in MqttPacket /\ Pkt("PUBACK").type = "PUBACK" BY PktType DEF PacketType
  <2>2. call.got.mid \in 0..MaxPacketId BY <1>2 DEF Call, MqttPacket
  <2> QED BY <2>1, <2>2 DEF MqttPacket
<1> HIDE DEF again, ack
<1>6. ASSUME GoOn(cl, net, again) PROVE ServiceStep BY <1>1, <1>2, <1>4, <1>6, SimGoOn
<1>7. ASSUME GoOn(cl, Write(net, ack), again) PROVE ServiceStep
  <2>1. Write(net, ack) \in Connection /\ Write(net, ack).st = net.st BY <1>2, <1>5, WriteOut
  <2> QED BY <1>1, <1>2, <1>4, <1>7, <2>1, SimGoOn
<1>8. ASSUME call' = (IF call.op = "yield" THEN Idle ELSE again), UNCHANGED <<cl, net, broker>>
      PROVE  ServiceStep
  <2>1. CASE call.op # "yield"
    <3>1. call' = again BY <1>8, <2>1
    <3>2. Seen' = Seen BY <1>4, <1>8, <3>1 DEF Seen
    <3>3. LinkView' = LinkView BY <1>2, <1>8, <3>2, SameViews
    <3>4. CallView' = CallView BY <1>4, <3>1, SameCalls
    <3> QED BY <1>1, <3>3, <3>4, Unseen
  <2>2. CASE call.op = "yield"
    <3>1. call' = Idle /\ ~broker.had BY <1>2, <1>8, <2>2 DEF Basic
    <3>2. Seen' = Seen BY <1>8, <3>1 DEF Seen
    <3>3. LinkView' = LinkView BY <1>2, <1>8, <3>2, SameViews
    <3> QED BY <1>1, <1>3, <2>2, <3>1, <3>3, SimYielded
  <2> QED BY <2>1, <2>2
<1> QED BY <1>1, <1>6, <1>7, <1>8

LEMMA SimSpin == ASSUME Spin PROVE ServiceStep
BY DEF Spin, vars, ServiceStep, Service!vars, LinkView, CallView, Alive

LEMMA SimBrokerActs == ASSUME PInv, RInv, BrokerActs PROVE ServiceStep
<1> DEFINE p == Head(net.out)
<1>1. /\ net.out # <<>> /\ net' = [net EXCEPT !.out = Tail(@)] /\ UNCHANGED <<names, cl, call, cb>>
  BY DEF BrokerActs
<1>2. net \in Connection /\ cl \in Client BY DEF PInv, Typed
<1>3. net'.st = net.st BY <1>1, <1>2, ZenonT(30) DEF Connection
<1>4. CallView' = CallView BY <1>1 DEF CallView
<1>5. CASE ~cl.isconnected
  <2>1. LinkView' = LinkView BY <1>1, <1>2, <1>5, SameViews
  <2> QED BY <1>1, <1>4, <2>1, Unseen
<1>6. CASE cl.isconnected
  <2>1. /\ broker'.had = broker.had
        /\ p.type \notin {"SUBSCRIBE", "UNSUBSCRIBE"} => broker'.subs = broker.subs
        /\ p.type = "UNSUBSCRIBE" => broker'.subs = broker.subs \ {p.topic}
        /\ p.type = "SUBSCRIBE" => broker'.subs = broker.subs \cup {p.topic} \/ broker'.subs = broker.subs
    BY ActsOn
  <2>2. Serves(p, call, broker)
    <3>1. net.out \in Seq(MqttPacket) BY <1>2 DEF Connection
    <3>2. 1 \in 1..Len(net.out) /\ p = net.out[1] BY <1>1, <3>1, HeadTailProperties
    <3> QED BY <1>6, <3>2 DEF RInv, Answering
  <2> HIDE DEF p
  <2>3. CASE broker'.subs = broker.subs
    <3>1. Seen' = Seen BY <1>1, <2>1, <2>3 DEF Seen
    <3>2. LinkView' = LinkView BY <1>1, <1>2, <1>3, <3>1, SameViews
    <3> QED BY <1>1, <1>4, <3>2, Unseen
  <2>4. CASE p.type = "UNSUBSCRIBE"
    <3>1. p.topic = call.topic /\ (broker.had <=> call.topic \in broker.subs) BY <2>2, <2>4 DEF Serves
    <3>2. Seen' = Seen
      <4>1. CASE broker.had BY <1>1, <2>1, <2>4, <3>1, <4>1 DEF Seen
      <4>2. CASE ~broker.had
        <5>1. broker'.subs = broker.subs BY <2>1, <2>4, <3>1, <4>2
        <5> QED BY <1>1, <2>1, <5>1 DEF Seen
      <4> QED BY <4>1, <4>2
    <3>3. LinkView' = LinkView BY <1>1, <1>2, <1>3, <3>2, SameViews
    <3> QED BY <1>1, <1>4, <3>3, Unseen
  <2>5. CASE p.type = "SUBSCRIBE" /\ broker'.subs = broker.subs \cup {p.topic}
    <3>1. call.op = "subscribe" /\ p.topic = call.topic BY <2>2, <2>5 DEF Serves
    <3>2. ~broker.had BY <3>1 DEF RInv, Basic
    <3>3. Seen = broker.subs /\ Seen' = Seen \cup {call.topic} BY <1>1, <2>1, <2>5, <3>1, <3>2 DEF Seen
    <3>4. CASE ~Alive
      <4>1. Alive = FALSE /\ Alive' = FALSE BY <1>1, <1>3, <3>4, Zenon DEF Alive
      <4>2. LinkView' = LinkView BY <1>1, <4>1, ViewRecs
      <4> QED BY <1>1, <1>4, <4>2, Unseen
    <3>5. CASE Alive
      <4> DEFINE a == cl.isconnected
                 u == Alive
                 h == cl.hs
                 s == Seen
                 e == Seen \cup {call.topic}
                 l == LinkView
      <4>1. Alive' = Alive BY <1>1, <1>3, Zenon DEF Alive
      <4>2. l = LinkRec(a, u, h, s) /\ LinkView' = LinkRec(a, u, h, e)
        BY <1>1, <3>3, <3>5, <4>1, ViewRecs
      <4>3. l.up /\ l.bsub = s BY <3>5, LinkIs
      <4>4. CallView.op = "subscribe" /\ CallView.topic = call.topic
        <5>1. CallView = CallRec(call.op, call.topic, call.buf, call.qos) BY <3>1, ViewRecs
        <5> QED BY <3>1, <5>1, CallFields
      <4>5. [l EXCEPT !.bsub = @ \cup {CallView.topic}] = SetBsub(l, e)
        <5>1. l.bsub \cup {CallView.topic} = e BY <4>3, <4>4
        <5> HIDE DEF l, e
        <5> QED BY <5>1 DEF SetBsub
      <4>6. LinkView' = [LinkView EXCEPT !.bsub = @ \cup {CallView.topic}]
        <5> HIDE DEF a, u, h, s, e, l
        <5>1. SetBsub(l, e) = LinkRec(a, u, h, e) BY <4>2, LinkSets
        <5>2. LinkView' = [l EXCEPT !.bsub = @ \cup {CallView.topic}] BY <4>2, <4>5, <5>1
        <5> QED BY <5>2 DEF l
      <4>7. Service!BrokerSubscribes BY <1>1, <1>4, <4>3, <4>4, <4>6 DEF Service!BrokerSubscribes
      <4> QED BY <4>7 DEF ServiceStep, Service!Next
    <3> QED BY <3>4, <3>5
  <2> QED BY <2>1, <2>3, <2>4, <2>5
<1> QED BY <1>5, <1>6

LEMMA SimBrokerSends == ASSUME PInv, RInv, BrokerAnswers \/ BrokerPublishes PROVE ServiceStep
<1>1. net \in Connection /\ broker \in Session /\ cl \in Client BY DEF PInv, Typed
<1>2. UNCHANGED <<names, cl, call, cb>> BY DEF BrokerAnswers, BrokerPublishes
<1>3. net'.st = net.st BY <1>1, ZenonT(30) DEF Connection, BrokerAnswers, BrokerPublishes
<1>4. broker'.subs = broker.subs /\ broker'.had = broker.had
  BY <1>1, ZenonT(30) DEF Session, BrokerAnswers, BrokerPublishes
<1>5. Seen' = Seen BY <1>2, <1>4 DEF Seen
<1>6. LinkView' = LinkView BY <1>1, <1>2, <1>3, <1>5, SameViews
<1>7. CallView' = CallView BY <1>2 DEF CallView
<1> QED BY <1>2, <1>6, <1>7, Unseen

LEMMA SimBreaks == ASSUME PInv, RInv, BrokerGone \/ ConnectionLost PROVE ServiceStep
<1>1. net \in Connection /\ cl \in Client BY DEF PInv, Typed
<1>2. UNCHANGED <<names, cl, call, cb, broker>> BY DEF BrokerGone, ConnectionLost
<1>3. Seen' = Seen BY <1>2 DEF Seen
<1>4. CallView' = CallView BY <1>2 DEF CallView
<1>5. CASE BrokerGone
  <2>1. net.st = "up" /\ net' = [net EXCEPT !.st = "closing", !.out = <<>>] BY <1>5 DEF BrokerGone
  <2>2. net'.st = "closing" BY <1>1, <2>1, ZenonT(30) DEF Connection
  <2>3. LinkView' = LinkView BY <1>1, <1>2, <1>3, <2>1, <2>2, SameViews
  <2> QED BY <1>2, <1>4, <2>3, Unseen
<1>6. CASE ConnectionLost
  <2>1. net.st = "closing" /\ net'.st \in {"dead", "eof"}
    <3>1. CASE net' = [net EXCEPT !.st = "dead", !.in = <<>>]
      BY <1>1, <1>6, <3>1, ZenonT(30) DEF Connection, ConnectionLost
    <3>2. CASE net' = [net EXCEPT !.st = "eof"]
      BY <1>1, <1>6, <3>2, ZenonT(30) DEF Connection, ConnectionLost
    <3> QED BY <1>6, <3>1, <3>2 DEF ConnectionLost
  <2>2. CASE ~cl.isconnected
    <3>1. LinkView' = LinkView BY <1>1, <1>2, <2>2, SameViews
    <3> QED BY <1>2, <1>4, <3>1, Unseen
  <2>3. CASE cl.isconnected
    <3> DEFINE a == cl.isconnected
               u == Alive
               h == cl.hs
               s == IF Alive THEN Seen ELSE {}
               f == FALSE
               e == {}
               l == LinkView
    <3>1. Alive /\ ~Alive' BY <1>2, <2>1, <2>3 DEF Alive
    <3>2. Alive' = FALSE BY <3>1, Zenon DEF Alive
    <3>3. l = LinkRec(a, u, h, s) BY ViewRecs
    <3>4. LinkView' = LinkRec(a, f, h, e) BY <1>2, <3>2, ViewRecs
    <3>5. l.up BY <3>1, LinkIs
    <3>6. LinkView' = [LinkView EXCEPT !.up = FALSE, !.bsub = {}]
      <4>1. [l EXCEPT !.up = f, !.bsub = e] = SetBsub(SetUp(l, f), e) BY DEF SetBsub, SetUp
      <4> HIDE DEF a, u, h, s, f, e, l
      <4>2. SetUp(l, f) = LinkRec(a, f, h, s) BY <3>3, LinkSets
      <4>3. SetBsub(SetUp(l, f), e) = LinkRec(a, f, h, e) BY <4>2, LinkSets
      <4>4. LinkView' = [l EXCEPT !.up = f, !.bsub = e] BY <3>4, <4>1, <4>3
      <4> QED BY <4>4 DEF l, f, e
    <3>7. Service!Lost BY <1>2, <1>4, <3>5, <3>6 DEF Service!Lost
    <3> QED BY <3>7 DEF ServiceStep, Service!Next
  <2> QED BY <2>2, <2>3
<1> QED BY <1>5, <1>6

LEMMA SimReadPublish == ASSUME PInv, RInv, ReadPublish PROVE ServiceStep
<1> DEFINE p == Head(net.in)
           match == Matching(cl.hs, names, p.topic)
<1>1. /\ call.st = "read" /\ net.in # <<>> /\ net' = Taken /\ p.type = "PUBLISH"
      /\ call' = [call EXCEPT !.st = "deliver", !.got = p]
      /\ cb' = IF match = {} THEN NoCallback ELSE [left |-> Cardinality(match), topic |-> p.topic]
      /\ UNCHANGED <<names, cl, broker>>
  BY DEF ReadPublish, Reading
<1>2. /\ call \in Call /\ cl \in Client /\ broker \in Session /\ cb = NoCallback
      /\ Basic(cl, call, net, broker, cb) /\ Answering(call, net, broker)
      /\ call.op \in {"yield", "publish", "subscribe", "unsubscribe", "connect"}
      /\ call.op = "connect" <=> ~cl.isconnected
  BY <1>1, WhileReading
<1>3. /\ Taken.st = net.st /\ Taken.st \in {"up", "closing"}
      /\ p.topic \in broker.subs \/ (broker.had /\ p.topic = call.topic)
  BY <1>1, TakenR
<1>4. /\ call'.op = call.op /\ call'.topic = call.topic /\ call'.buf = call.buf /\ call'.qos = call.qos
  BY <1>1, <1>2 DEF Call
<1>5. Seen' = Seen BY <1>1, <1>4 DEF Seen
<1>6. LinkView' = LinkView BY <1>1, <1>2, <1>3, <1>5, SameViews
<1>7. CallView' = CallView BY <1>4, SameCalls
<1> HIDE DEF p
<1>8. p.topic \in Seen /\ p.topic \in Topic /\ call.op # "connect"
  <2>1. broker.subs \subseteq Topic BY <1>2 DEF Session
  <2>2. broker.had => call.op = "unsubscribe" /\ call.topic \in Topic BY <1>2 DEF Basic
  <2>3. call.op = "connect" => broker.subs = {} BY <1>2 DEF Answering
  <2> QED BY <1>3, <2>1, <2>2, <2>3 DEF Seen
<1>9. cl.isconnected /\ Alive BY <1>2, <1>3, <1>8 DEF Alive
<1>10. CASE match = {}
  <2>1. cb' = cb BY <1>1, <1>2, <1>10 DEF p
  <2> QED BY <1>1, <1>6, <1>7, <2>1, Unseen
<1>11. CASE match # {}
  <2>1. LinkView.up /\ p.topic \in LinkView.bsub /\ LinkView.hs = cl.hs BY <1>8, <1>9, LinkIs
  <2>2. Service!Matching(LinkView.hs, names, p.topic) = match BY <2>1, SameLink
  <2>3. CallView = CallRec(call.op, call.topic, call.buf, call.qos) BY <1>8, ViewRecs
  <2>4. CallView.op = call.op BY <2>3, CallFields
  <2>5. call.op = "publish" => CallView = Service!PublishCall(1)
    <3> DEFINE n == 1
    <3>1. call.op = "publish" => call.topic = "" /\ call.buf = "none" /\ call.qos = n
      BY <1>1, <1>2 DEF Basic
    <3>2. call.op = "publish" => CallView = CallRec("publish", "", "none", n) BY <2>3, <3>1
    <3> HIDE DEF n
    <3>3. call.op = "publish" => CallView = Service!PublishCall(n) BY <3>2, CallRecs, Zenon
    <3> QED BY <3>3 DEF n
  <2>6. Service!Reads BY <1>2, <1>8, <2>4, <2>5 DEF Service!Reads
  <2>7. cb' = [left |-> Cardinality(match), topic |-> p.topic] BY <1>1, <1>11 DEF p
  <2> HIDE DEF match
  <2>8. cb = Service!NoCallback BY <1>2, SameLink
  <2>9. Service!Matching(LinkView.hs, names, p.topic) # {} BY <1>11, <2>2
  <2>10. cb' = [left |-> Service!Cardinality(Service!Matching(LinkView.hs, names, p.topic)), topic |-> p.topic]
    BY <2>2, <2>7, SameCardinality
  <2>11. UNCHANGED <<names, LinkView, CallView>> BY <1>1, <1>6, <1>7
  <2>12. Service!Arrive(p.topic) BY <2>1, <2>6, <2>8, <2>9, <2>10, <2>11, Zenon DEF Service!Arrive
  <2> QED BY <1>8, <2>12 DEF ServiceStep, Service!Next
<1> QED BY <1>10, <1>11

\* The state in which the packet the call waits for is read.
LEMMA AckRead ==
  ASSUME PInv, RInv, ReadAck, NEW a \in keepalive(cl, Taken), net' = a.net
  PROVE  /\ cl \in Client /\ call \in Call /\ broker \in Session /\ cb = NoCallback
         /\ cb' = cb /\ names' = names
         /\ a.cl \in Client /\ a.cl.isconnected = cl.isconnected /\ a.cl.hs = cl.hs
         /\ net.st \in {"up", "closing"} /\ net'.st = net.st
         /\ Tells(Head(net.in), call, broker) /\ Head(net.in).type = Awaits
         /\ call.op \in {"publish", "subscribe", "unsubscribe", "connect"}
         /\ call.op = "connect" <=> ~cl.isconnected
         /\ broker.had => call.op = "unsubscribe"
         /\ call.op = "connect" => broker.subs = {}
<1>1. call.st = "read" /\ net.in # <<>> /\ Head(net.in).type = Awaits /\ cb' = cb /\ names' = names
  BY DEF ReadAck, Reading
<1>2. /\ cl \in Client /\ call \in Call /\ broker \in Session /\ cb = NoCallback
      /\ Basic(cl, call, net, broker, cb) /\ Answering(call, net, broker)
      /\ call.op \in {"yield", "publish", "subscribe", "unsubscribe", "connect"}
      /\ call.op = "connect" <=> ~cl.isconnected
  BY <1>1, WhileReading
<1>3. /\ Taken \in Connection /\ Taken.st = net.st /\ Taken.st \in {"up", "closing"}
      /\ Tells(Head(net.in), call, broker) /\ ~Fragment(Head(net.in))
  BY <1>1, TakenR
<1>4. a.cl \in Client /\ a.net.st = Taken.st /\ a.cl.isconnected = cl.isconnected /\ a.cl.hs = cl.hs
  BY <1>2, <1>3, Keepalive
<1>5. call.op # "yield"
  <2>1. call.op = "yield" => Awaits = "NONE" BY DEF Awaits
  <2> QED BY <1>1, <1>3, <2>1 DEF Fragment
<1> QED BY <1>1, <1>2, <1>3, <1>4, <1>5 DEF Basic, Answering

LEMMA SimReadAck == ASSUME PInv, RInv, ReadAck PROVE ServiceStep
<1> DEFINE p == Head(net.in)
<1>1. PICK a \in keepalive(cl, Taken) : net' = a.net /\ Returns(Acknowledged(a.cl, p)) BY DEF ReadAck
<1>2. /\ cl \in Client /\ call \in Call /\ broker \in Session /\ cb = NoCallback
      /\ cb' = cb /\ names' = names
      /\ a.cl \in Client /\ a.cl.isconnected = cl.isconnected /\ a.cl.hs = cl.hs
      /\ net.st \in {"up", "closing"} /\ net'.st = net.st
      /\ Tells(p, call, broker) /\ p.type = Awaits
      /\ call.op \in {"publish", "subscribe", "unsubscribe", "connect"}
      /\ call.op = "connect" <=> ~cl.isconnected
      /\ broker.had => call.op = "unsubscribe"
      /\ call.op = "connect" => broker.subs = {}
  BY <1>1, AckRead
<1> DEFINE attached == CHOOSE hs \in Attached(a.cl.hs, call.buf) : TRUE
           detached == CHOOSE hs \in Detached(a.cl.hs, names, call.topic) : TRUE
           A == Acknowledged(a.cl, p)
<1>3. A = CASE call.op = "connect" -> [a.cl EXCEPT !.isconnected = (p.qos = 0)]
            [] call.op = "subscribe" ->
                 IF p.qos = 128 \/ (p.qos # 0 /\ attached = a.cl.hs) THEN Forget(a.cl)
                 ELSE [a.cl EXCEPT !.hs = attached]
            [] call.op = "unsubscribe" -> [a.cl EXCEPT !.hs = detached]
            [] OTHER -> a.cl
  BY DEF Acknowledged
<1>4. attached \in Attached(cl.hs, call.buf) /\ detached \in Detached(cl.hs, names, call.topic)
  <2>1. a.cl.hs \in [1..MaxHandlers -> Handler] /\ call.buf \in Handler BY <1>2 DEF Client, Call
  <2> QED BY <1>2, <2>1, ChosenHandlers
<1>5. Returns(A) BY <1>1
<1> HIDE DEF A, attached, detached, p
<1>6. cl' = A /\ call' = Idle /\ broker' = [broker EXCEPT !.had = FALSE] BY <1>5, Zenon DEF Returns
<1>7. broker'.subs = broker.subs /\ ~broker'.had BY <1>2, <1>6, ZenonT(30) DEF Session
<1>8. Seen' = broker.subs BY <1>7 DEF Seen
<1>9. \A hs : LET d == [a.cl EXCEPT !.hs = hs] IN d.isconnected = cl.isconnected /\ d.hs = hs
  BY <1>2, ZenonT(30) DEF Client
<1>10. \A v \in BOOLEAN : LET d == [a.cl EXCEPT !.isconnected = v]
                          IN d \in Client /\ d.isconnected = v /\ d.hs = cl.hs
  BY <1>2, ZenonT(30) DEF Client
<1>11. cl'.isconnected = cl.isconnected => Alive' = Alive
  <2>1. cl'.isconnected = cl.isconnected => Alive' = (cl.isconnected /\ net.st \in {"up", "closing"})
    BY <1>2, Zenon DEF Alive
  <2> QED BY <2>1, Zenon DEF Alive
<1>12. CASE call.op = "connect"
  <2> DEFINE v == p.qos = 0
  <2>1. cl' = [a.cl EXCEPT !.isconnected = v] /\ v \in BOOLEAN BY <1>3, <1>6, <1>12, Zenon
  <2>2. CallView = Service!NoCall /\ CallView' = Service!NoCall BY <1>6, <1>12, ViewRecs
  <2>3. CASE ~v
    <3> HIDE DEF v
    <3>1. cl' \in Client /\ cl'.isconnected = FALSE /\ cl'.hs = cl.hs BY <1>10, <2>1, <2>3, Zenon
    <3>2. ~cl.isconnected BY <1>2, <1>12
    <3>3. cl'.isconnected = cl.isconnected BY <1>2, <3>1, <3>2 DEF Client
    <3>4. LinkView' = LinkView BY <1>2, <3>1, <3>2, <3>3, SameViews
    <3> QED BY <1>2, <2>2, <3>4, Unseen
  <2>4. CASE v
    <3> DEFINE h == cl.hs
               f == FALSE
               k == TRUE
               e == {}
               l == LinkView
    <3> HIDE DEF v
    <3>1. cl'.isconnected = k /\ cl'.hs = h BY <1>10, <2>1, <2>4, Zenon
    <3>2. cl.isconnected = f BY <1>2, <1>12, Zenon DEF Client
    <3>3. Alive = f BY <3>2, Zenon DEF Alive
    <3>4. Alive' = k BY <1>2, <3>1, Zenon DEF Alive
    <3>5. l = LinkRec(f, f, h, e) BY <3>2, <3>3, ViewRecs
    <3>6. LinkView' = LinkRec(k, k, h, e)
      <4>1. Seen' = e BY <1>2, <1>8, <1>12
      <4> QED BY <3>1, <3>4, <4>1, ViewRecs
    <3>7. [l EXCEPT !.conn = k, !.up = k] = SetUp(SetConn(l, k), k) BY DEF SetConn, SetUp
    <3>8. LinkView' = [LinkView EXCEPT !.conn = TRUE, !.up = TRUE]
      <4> HIDE DEF h, f, k, e, l
      <4>1. SetConn(l, k) = LinkRec(k, f, h, e) BY <3>5, LinkSets
      <4>2. SetUp(SetConn(l, k), k) = LinkRec(k, k, h, e) BY <4>1, LinkSets
      <4>3. LinkView' = [l EXCEPT !.conn = k, !.up = k] BY <3>6, <3>7, <4>2
      <4> QED BY <4>3 DEF l, k
    <3>9. ~LinkView.conn BY <3>2, LinkIs
    <3>10. Service!Connect BY <1>2, <2>2, <3>8, <3>9 DEF Service!Connect
    <3> QED BY <3>10 DEF ServiceStep, Service!Next
  <2> QED BY <2>3, <2>4
<1>13. CASE call.op # "connect"
  <2>1. cl.isconnected /\ Alive BY <1>2, <1>13 DEF Alive
  <2>2. CASE call.op = "publish"
    <3>1. cl' = a.cl BY <1>3, <1>6, <2>2
    <3>2. Seen' = Seen BY <1>2, <1>8, <2>2 DEF Seen
    <3>3. LinkView' = LinkView BY <1>2, <3>1, <3>2, SameViews
    <3> QED BY <1>2, <1>6, <2>1, <2>2, <3>3, SimPublished
  <2>3. CASE call.op = "subscribe"
    <3>1. CASE A = Forget(a.cl)
      <4>1. Returns(Forget(a.cl)) BY <1>5, <3>1
      <4> QED BY <1>2, <2>3, <4>1, SimFailed
    <3>2. CASE p.qos # 128 /\ A = [a.cl EXCEPT !.hs = attached]
      <4>1. p.type = "SUBACK" BY <1>2, <2>3 DEF Awaits
      <4>2. call.topic \in broker.subs BY <1>2, <3>2, <4>1 DEF Tells
      <4>3. Seen = broker.subs BY <1>2, <2>3 DEF Seen
      <4>4. cl'.isconnected = cl.isconnected /\ cl'.hs = attached BY <1>6, <1>9, <3>2, Zenon
      <4> DEFINE k == TRUE
                 x == LinkRec(cl.isconnected, Alive, attached, Seen)
      <4>5. LinkView' = x BY <1>8, <1>11, <2>1, <4>3, <4>4, ViewRecs
      <4>6. [ok |-> k, link |-> x] \in Service!Results BY <1>4, <2>1, <2>3, <4>2, <4>3, SubscribeResult
      <4> HIDE DEF k, x
      <4> QED BY <1>2, <1>6, <2>3, <4>5, <4>6, ReturnStep
    <3>3. A = Forget(a.cl) \/ (p.qos # 128 /\ A = [a.cl EXCEPT !.hs = attached]) BY <1>3, <2>3, Zenon
    <3> QED BY <3>1, <3>2, <3>3
  <2>4. CASE call.op = "unsubscribe"
    <3>1. A = [a.cl EXCEPT !.hs = detached] BY <1>3, <2>4, Zenon
    <3>2. p.type = "UNSUBACK" BY <1>2, <2>4 DEF Awaits
    <3>3. call.topic \notin broker.subs BY <1>2, <3>2 DEF Tells
    <3>4. Seen \ {call.topic} = broker.subs BY <3>3 DEF Seen
    <3>5. cl'.isconnected = cl.isconnected /\ cl'.hs = detached BY <1>6, <1>9, <3>1, Zenon
    <3> DEFINE k == TRUE
               x == LinkRec(cl.isconnected, Alive, detached, Seen \ {call.topic})
    <3>6. LinkView' = x BY <1>8, <1>11, <2>1, <3>4, <3>5, ViewRecs
    <3>7. [ok |-> k, link |-> x] \in Service!Results BY <1>4, <2>1, <2>4, UnsubscribeResult
    <3> HIDE DEF k, x
    <3> QED BY <1>2, <1>6, <2>4, <3>6, <3>7, ReturnStep
  <2> QED BY <1>2, <1>13, <2>2, <2>3, <2>4
<1> QED BY <1>12, <1>13

---------------------------------------------------------------------------
\* RInv holds, as long as no read ends inside a packet.
LEMMA Inductive == ASSUME ~TornReads, PInv, PInv', RInv, [Next]_vars PROVE RInv'
<1>1. ASSUME UNCHANGED vars PROVE RInv' BY <1>1 DEF vars, RInv
<1>2. ASSUME Caller PROVE RInv' BY <1>2, CallerR
<1>3. ASSUME Step PROVE RInv'
  <2>1. ~ReadTorn BY DEF ReadTorn
  <2>2. ~ReadJunk
    <3> SUFFICES ASSUME ReadJunk PROVE FALSE OBVIOUS
    <3>1. call.st = "read" /\ net.in # <<>> /\ Head(net.in).type = "JUNK" BY DEF ReadJunk, Reading
    <3> QED BY <3>1, TakenR DEF Fragment
  <2> QED BY <1>3, <2>1, <2>2, SendsR, ReadAckR, ReadOtherR, ReadPublishR, CallbackR, AckMessageR DEF Step
<1>4. ASSUME TimedOut PROVE RInv' BY <1>4, TimedOutR
<1>5. ASSUME Spin PROVE RInv' BY <1>5 DEF Spin, vars, RInv
<1>6. ASSUME Environment PROVE RInv' BY <1>6, BrokerActsR, BrokerSendsR, BreaksR DEF Environment
<1> QED BY <1>1, <1>2, <1>3, <1>4, <1>5, <1>6 DEF Next

\* Every step of the client is a step of the service, or is not seen by it.
LEMMA Simulates == ASSUME ~TornReads, PInv, RInv, [Next]_vars PROVE ServiceStep
<1>1. ASSUME UNCHANGED vars PROVE ServiceStep
  BY <1>1 DEF vars, ServiceStep, Service!vars, LinkView, CallView, Alive
<1>2. ASSUME Caller PROVE ServiceStep BY <1>2, SimUse, SimConnect, SimCalls DEF Caller
<1>3. ASSUME Step PROVE ServiceStep
  <2>1. ~ReadTorn BY DEF ReadTorn
  <2>2. ~ReadJunk
    <3> SUFFICES ASSUME ReadJunk PROVE FALSE OBVIOUS
    <3>1. call.st = "read" /\ net.in # <<>> /\ Head(net.in).type = "JUNK" BY DEF ReadJunk, Reading
    <3> QED BY <3>1, TakenR DEF Fragment
  <2> QED BY <1>3, <2>1, <2>2, SimSends, SimReadAck, SimOther, SimReadPublish, SimCallback, SimAckMessage
        DEF Step
<1>4. ASSUME TimedOut PROVE ServiceStep BY <1>4, SimTimedOut
<1>5. ASSUME Spin PROVE ServiceStep BY <1>5, SimSpin
<1>6. ASSUME Environment PROVE ServiceStep BY <1>6, SimBrokerActs, SimBrokerSends, SimBreaks DEF Environment
<1> QED BY <1>1, <1>2, <1>3, <1>4, <1>5, <1>6 DEF Next

\* The client starts as the service does.
LEMMA Starts == ASSUME Init PROVE RInv /\ Service!Init
<1>1. /\ cl = [isconnected |-> FALSE, hs |-> NoHandlers, ping_outstanding |-> FALSE, next |-> 0]
      /\ call = Idle /\ cb = NoCallback /\ broker = NoSession
      /\ net = [st |-> "dead", out |-> <<>>, in |-> <<>>, torn |-> FALSE]
  BY DEF Init
<1>2. ~cl.isconnected /\ cl.isconnected = FALSE /\ cl.hs = NoHandlers /\ ~net.torn /\ net.in = <<>> /\ ~broker.had
  BY <1>1 DEF NoSession
<1>3. Basic(cl, call, net, broker, cb) BY <1>1, <1>2, IdleCall DEF Basic
<1>4. RInv BY <1>1, <1>2, <1>3, IdleCall DEF RInv
<1>5. LinkView = Closed
  <2>1. Alive = FALSE BY <1>2, Zenon DEF Alive
  <2> QED BY <1>2, <2>1, ViewRecs DEF Closed
<1>6. Service!Unlinked = Closed
  <2>1. Service!NoHandlers = NoHandlers BY SameLink
  <2> QED BY <2>1 DEF Service!Unlinked, Closed, LinkRec
<1>7. CallView = Service!NoCall BY <1>1, ViewRecs
<1>8. cb = Service!NoCallback BY <1>1, SameLink
<1> QED BY <1>4, <1>5, <1>6, <1>7, <1>8 DEF Service!Init

(***************************************************************************)
(* What the gateway relies on holds of the client, its timers, pings and   *)
(* waits for acknowledgements, whatever the broker and the network do, as  *)
(* long as no read ends inside a packet: every behaviour of PahoClient is  *)
(* one of MqttService (waitfor, cycle and deliverMessage of MQTTClient.h). *)
(***************************************************************************)
THEOREM RefinesService ==
  ASSUME ~TornReads
  PROVE  Spec => ImplementsService
<1>1. Init => RInv /\ Service!Init BY Starts
<1>2. PInv /\ PInv' /\ RInv /\ [Next]_vars => RInv' BY Inductive
<1>3. PInv /\ RInv /\ [Next]_vars => [Service!Next]_(Service!vars) BY Simulates DEF ServiceStep
<1>4. Spec => []PInv BY ClientInvariant
<1> QED BY <1>1, <1>2, <1>3, <1>4, PTL DEF Spec, ImplementsService, Service!Spec
============================================================================
