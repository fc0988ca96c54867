----------------------------- MODULE PahoClient -----------------------------
(***************************************************************************)
(* The Paho client (MQTTClient.h, compiled with MQTTCLIENT_QOS1 and        *)
(* without MQTTCLIENT_QOS2) over the TCP connection of IPStack, and a      *)
(* broker.  A call of the gateway writes a request and reads packets until *)
(* the one it waits for comes or its timer expires; cycle handles every    *)
(* other packet on the way.  Acknowledgements are told apart by their type *)
(* alone.  A call that fails forgets the session, but leaves the socket    *)
(* open; the next connect opens a new one.  Every connect asks for a clean *)
(* session, so no publish is kept to be sent again.                        *)
(*                                                                         *)
(* Packets have the fields of all types.  Their bytes appear only in that  *)
(* a read may end inside a packet (TornReads): a timeout between two reads *)
(* of readPacket, or a packet longer than MAX_MQTT_PACKET_SIZE.  What is   *)
(* left of it is then read as the start of a packet.  The refinement and   *)
(* the matching of acknowledgements are claimed without torn reads.        *)
(***************************************************************************)
EXTENDS Integers, Sequences, FiniteSets

CONSTANTS
  Topic,          \* topic names
  MaxHandlers,    \* MAX_MESSAGE_HANDLERS
  MaxPacketId,    \* MAX_PACKET_ID, 65535 in the code
  Window,         \* bound: the broker sends no message when so many packets are unread
  PeerCloses,     \* may the broker close the connection (or does it only fall silent)?
  TornReads       \* may a read end inside a packet?

ASSUME ClientAssumption ==
  /\ MaxHandlers \in Nat /\ MaxPacketId \in Nat \ {0} /\ Window \in Nat
  /\ PeerCloses \in BOOLEAN /\ TornReads \in BOOLEAN
  /\ "" \notin Topic

VARIABLES
  names,   \* the gateway's topic name buffers
  cl,      \* the client: isconnected, handlers, ping_outstanding, the last packet id
  call,    \* the call in progress and its locals
  cb,      \* callbacks still to be made by deliverMessage
  net,     \* the connection: its state and the packets on their way
  broker   \* the broker: subscriptions of this session, the answer it owes

vars == <<names, cl, call, cb, net, broker>>

INSTANCE MqttLink

Pkt(type) == [type |-> type, topic |-> "", mid |-> 0, qos |-> 0]
NoPkt == Pkt("NONE")
NoCallback == [left |-> 0, topic |-> ""]

\* st: about to send the request, reading, or delivering the PUBLISH in got.
Idle ==
  [op |-> "none", topic |-> "", buf |-> "none", qos |-> 0, st |-> "idle", mid |-> 0, got |-> NoPkt]

NoSession == [subs |-> {}, owes |-> NoPkt, had |-> FALSE]

Init ==
  /\ names = [regbuf |-> "", prebuf |-> ""]
  /\ cl = [isconnected |-> FALSE, hs |-> NoHandlers, ping_outstanding |-> FALSE, next |-> 0]
  /\ call = Idle
  /\ cb = NoCallback
  /\ net = [st |-> "dead", out |-> <<>>, in |-> <<>>, torn |-> FALSE]
  /\ broker = NoSession

---------------------------------------------------------------------------
(* The calls of the gateway. *)

\* Topic name lookups between two calls.
UseBuffers ==
  /\ call.st = "idle"
  /\ \E b \in {"regbuf", "prebuf"}, t \in Topic : names' = [names EXCEPT ![b] = t]
  /\ UNCHANGED <<cl, call, cb, net, broker>>

Begin(c) ==
  /\ call.st = "idle" /\ Len(net.out) < Window /\ Len(net.in) < Window
  /\ call' = [c EXCEPT !.st = "send"]
  /\ UNCHANGED <<names, cl, cb, net, broker>>

CallYield ==
  /\ call.st = "idle" /\ cl.isconnected
  /\ call' = [Idle EXCEPT !.op = "yield", !.st = "read"]
  /\ UNCHANGED <<names, cl, cb, net, broker>>

CallPublish == \E q \in {0, 1, 2} : Begin([Idle EXCEPT !.op = "publish", !.qos = q])

CallSubscribe ==
  \E b \in {"reg", "pre"} :
    /\ FilterOf(names, b) \in Topic
    /\ Begin([Idle EXCEPT !.op = "subscribe", !.buf = b, !.topic = FilterOf(names, b)])

CallUnsubscribe == \E t \in Topic : Begin([Idle EXCEPT !.op = "unsubscribe", !.topic = t])

(***************************************************************************)
(* connect, after IPStack::connect has opened a new socket, whatever       *)
(* became of the old one.  Without a connection it fails at once.          *)
(***************************************************************************)
CallConnect ==
  /\ call.st = "idle" /\ ~cl.isconnected
  /\ \/ /\ call' = [Idle EXCEPT !.op = "connect", !.st = "read"]
        /\ net' = [st |-> "up", out |-> <<Pkt("CONNECT")>>, in |-> <<>>, torn |-> FALSE]
     \/ /\ net' = [st |-> "dead", out |-> <<>>, in |-> <<>>, torn |-> FALSE]
        /\ UNCHANGED call
  /\ broker' = NoSession
  /\ UNCHANGED <<names, cl, cb>>

---------------------------------------------------------------------------
(* Sending and returning. *)

\* Mutant of getNext: the wrap is forgotten.
getNext_unwrapped == cl.next + 1

getNext == IF cl.next = MaxPacketId THEN 1 ELSE cl.next + 1

\* The call returns and leaves client c; a call that failed has forgotten the session.
Returns(c) ==
  /\ cl' = c /\ call' = Idle
  /\ broker' = [broker EXCEPT !.had = FALSE]

\* Mutant of Forget: the outstanding ping is not forgotten.
Forget_keeping_ping(c) == [c EXCEPT !.isconnected = FALSE, !.hs = NoHandlers]

\* Mutant of Forget: the handlers are kept.
Forget_keeping_handlers(c) == [c EXCEPT !.isconnected = FALSE, !.ping_outstanding = FALSE]

\* cleanSession, as the client does it.
Forget(c) == [c EXCEPT !.isconnected = FALSE, !.hs = NoHandlers, !.ping_outstanding = FALSE]

\* Mutant of Failed: a publish that fails keeps its session.
Failed_keeping_session(c) == IF call.op \in {"yield", "connect", "publish"} THEN c ELSE Forget(c)

\* The client after a call that failed: yield and connect leave it as it is.
Failed(c) == IF call.op \in {"yield", "connect"} THEN c ELSE Forget(c)

\* sendPacket: what a dead connection takes is gone.
Write(n, p) == IF n.st = "up" THEN [n EXCEPT !.out = Append(@, p)] ELSE n

Request(mid) ==
  [type |-> CASE call.op = "subscribe" -> "SUBSCRIBE"
              [] call.op = "unsubscribe" -> "UNSUBSCRIBE"
              [] OTHER -> "PUBLISH",
   topic |-> call.topic, mid |-> mid, qos |-> call.qos]

SendRefused ==
  /\ call.st = "send" /\ ~cl.isconnected
  /\ Returns(Failed(cl))
  /\ UNCHANGED <<names, cb, net>>

\* The request, with a packet id unless it is a publish with QoS 0; QoS 0 and 2 do not wait.
Send ==
  LET mid == IF call.op = "publish" /\ call.qos = 0 THEN 0 ELSE getNext
      c == [cl EXCEPT !.next = IF mid = 0 THEN @ ELSE mid]
      waits == call.op = "publish" => call.qos = 1
  IN /\ call.st = "send" /\ cl.isconnected
     /\ \/ Returns(Failed(c)) /\ UNCHANGED net
        \/ ~waits /\ Returns(c) /\ net' = Write(net, Request(mid))
        \/ /\ waits /\ cl' = c /\ net' = Write(net, Request(mid))
           /\ call' = [call EXCEPT !.st = "read", !.mid = mid]
           /\ broker' = [broker EXCEPT !.had = call.op = "unsubscribe" /\ call.topic \in broker.subs]
     /\ UNCHANGED <<names, cb>>

---------------------------------------------------------------------------
(* cycle: one packet off the wire, then keepalive. *)

(***************************************************************************)
(* keepalive: a ping when none is outstanding and nothing was sent or      *)
(* received for the keep alive interval, which is longer than connect      *)
(* waits.  The possible [cl, net].                                         *)
(***************************************************************************)
keepalive(c, n) ==
  {[cl |-> c, net |-> n]}
  \cup (IF c.ping_outstanding \/ call.op = "connect" THEN {}
        ELSE {[cl |-> [c EXCEPT !.ping_outstanding = TRUE], net |-> Write(n, Pkt("PINGREQ"))]})

Awaits ==
  CASE call.op = "connect" -> "CONNACK"
    [] call.op = "subscribe" -> "SUBACK"
    [] call.op = "unsubscribe" -> "UNSUBACK"
    [] call.op = "publish" -> "PUBACK"
    [] OTHER -> "NONE"

Reading == call.st = "read" /\ net.st # "eof"
Taken == [net EXCEPT !.in = Tail(@)]

(***************************************************************************)
(* The client c after the packet p the call waited for: connected if the   *)
(* broker accepts; with a handler attached or detached.  The return code   *)
(* of a subscribe is the granted QoS until a free handler is found, which  *)
(* makes it 0; QoS 1 without a free handler is a failure.                  *)
(***************************************************************************)
Acknowledged(c, p) ==
  LET attached == CHOOSE hs \in Attached(c.hs, call.buf) : TRUE
      detached == CHOOSE hs \in Detached(c.hs, names, call.topic) : TRUE
  IN CASE call.op = "connect" -> [c EXCEPT !.isconnected = (p.qos = 0)]
       [] call.op = "subscribe" ->
            IF p.qos = 128 \/ (p.qos # 0 /\ attached = c.hs) THEN Forget(c)
            ELSE [c EXCEPT !.hs = attached]
       [] call.op = "unsubscribe" -> [c EXCEPT !.hs = detached]
       [] OTHER -> c

\* waitfor ends: the type of the packet is all that is compared.
ReadAck ==
  LET p == Head(net.in)
  IN /\ Reading /\ net.in # <<>> /\ p.type = Awaits
     /\ \E a \in keepalive(cl, Taken) : net' = a.net /\ Returns(Acknowledged(a.cl, p))
     /\ UNCHANGED <<names, cb>>

\* The rest of a cycle after which the call goes on as x.
GoOn(c, n, x) ==
  /\ \E a \in keepalive(c, n) : cl' = a.cl /\ net' = a.net
  /\ call' = x
  /\ UNCHANGED broker

ReadOther ==
  /\ Reading /\ net.in # <<>> /\ Head(net.in).type \notin {Awaits, "PUBLISH", "JUNK"}
  /\ GoOn([cl EXCEPT !.ping_outstanding = @ /\ Head(net.in).type # "PINGRESP"], Taken, call)
  /\ UNCHANGED <<names, cb>>

\* deliverMessage starts on the handlers whose filter matches.
ReadPublish ==
  LET p == Head(net.in)
      match == Matching(cl.hs, names, p.topic)
  IN /\ Reading /\ net.in # <<>> /\ p.type = "PUBLISH"
     /\ call' = [call EXCEPT !.st = "deliver", !.got = p]
     /\ cb' = IF match = {} THEN NoCallback ELSE [left |-> Cardinality(match), topic |-> p.topic]
     /\ net' = Taken
     /\ UNCHANGED <<names, cl, broker>>

\* messageArrived, which calls the core and returns.
Callback ==
  /\ call.st = "deliver" /\ cb.left > 0
  /\ cb' = IF cb.left = 1 THEN NoCallback ELSE [cb EXCEPT !.left = @ - 1]
  /\ UNCHANGED <<names, cl, call, net, broker>>

\* After the callbacks the PUBACK; when it cannot be sent the cycle fails, which ends a yield.
AckMessage ==
  LET p == call.got
      again == [call EXCEPT !.st = "read", !.got = NoPkt]
  IN /\ call.st = "deliver" /\ cb.left = 0
     /\ \/ p.qos = 0 /\ GoOn(cl, net, again)
        \/ p.qos = 1 /\ GoOn(cl, Write(net, [Pkt("PUBACK") EXCEPT !.mid = p.mid]), again)
        \/ /\ p.qos = 1
           /\ call' = IF call.op = "yield" THEN Idle ELSE again
           /\ UNCHANGED <<cl, net, broker>>
     /\ UNCHANGED <<names, cb>>

\* Mutant of TimedOut: the call starts its timer again.
TimedOut_restarting ==
  /\ Reading
  /\ GoOn(cl, net, call)
  /\ UNCHANGED <<names, cb>>

\* Nothing came in time, or the timer of the call has expired.
TimedOut ==
  /\ Reading
  /\ \E a \in keepalive(cl, net) : net' = a.net /\ Returns(Failed(a.cl))
  /\ UNCHANGED <<names, cb>>

\* A read that ends inside a packet: the rest of it stays in the stream.
ReadTorn ==
  /\ TornReads /\ Reading /\ net.in # <<>>
  /\ GoOn(cl, [net EXCEPT !.in = <<Pkt("JUNK")>> \o Tail(@), !.torn = TRUE],
          IF call.op = "yield" THEN Idle ELSE call)
  /\ UNCHANGED <<names, cb>>

\* ... and is taken for the packet the call waits for, or for any other.
ReadJunk ==
  LET p == [Pkt(Awaits) EXCEPT !.mid = MaxPacketId + 1]
  IN /\ Reading /\ net.in # <<>> /\ Head(net.in).type = "JUNK"
     /\ \/ /\ p.type # "NONE"
           /\ \E a \in keepalive(cl, Taken) : net' = a.net /\ Returns(Acknowledged(a.cl, p))
        \/ GoOn(cl, Taken, call)
     /\ UNCHANGED <<names, cb>>

\* IPStack::read on a connection the broker has closed: recv returns 0 for ever.
Spin ==
  /\ call.st = "read" /\ net.st = "eof"
  /\ UNCHANGED vars

---------------------------------------------------------------------------
(* The broker and the network. *)

Reply(p, type) == [Pkt(type) EXCEPT !.mid = p.mid]

\* The broker acts on a packet; the answer follows, perhaps after messages.
BrokerActs ==
  LET p == Head(net.out)
  IN /\ net.st = "up" /\ net.out # <<>> /\ broker.owes = NoPkt
     /\ net' = [net EXCEPT !.out = Tail(@)]
     /\ \/ /\ p.type = "CONNECT"
           /\ \E rc \in {0, 5} : broker' = [broker EXCEPT !.owes = [Pkt("CONNACK") EXCEPT !.qos = rc]]
        \/ /\ p.type = "SUBSCRIBE"
           /\ \E rc \in {0, 1, 128} :
                broker' = [broker EXCEPT !.owes = [Reply(p, "SUBACK") EXCEPT !.qos = rc],
                                         !.subs = IF rc = 128 THEN @ ELSE @ \cup {p.topic}]
        \/ /\ p.type = "UNSUBSCRIBE"
           /\ broker' = [broker EXCEPT !.owes = Reply(p, "UNSUBACK"), !.subs = @ \ {p.topic}]
        \/ /\ p.type = "PUBLISH"
           /\ broker' = [broker EXCEPT !.owes = CASE p.qos = 1 -> Reply(p, "PUBACK")
                                                  [] p.qos = 2 -> Reply(p, "PUBREC")
                                                  [] OTHER -> NoPkt]
        \/ p.type = "PINGREQ" /\ broker' = [broker EXCEPT !.owes = Pkt("PINGRESP")]
        \/ p.type = "PUBACK" /\ UNCHANGED broker
     /\ UNCHANGED <<names, cl, call, cb>>

BrokerAnswers ==
  /\ net.st = "up" /\ broker.owes # NoPkt
  /\ net' = [net EXCEPT !.in = Append(@, broker.owes)]
  /\ broker' = [broker EXCEPT !.owes = NoPkt]
  /\ UNCHANGED <<names, cl, call, cb>>

BrokerPublishes ==
  /\ net.st = "up" /\ Len(net.in) < Window /\ Len(net.out) < Window
  /\ \E t \in broker.subs, q \in {0, 1} :
       net' = [net EXCEPT !.in = Append(@, [type |-> "PUBLISH", topic |-> t, mid |-> q, qos |-> q])]
  /\ UNCHANGED <<names, cl, call, cb, broker>>

\* The broker goes away; what it sent may still arrive.
BrokerGone ==
  /\ net.st = "up"
  /\ net' = [net EXCEPT !.st = "closing", !.out = <<>>]
  /\ UNCHANGED <<names, cl, call, cb, broker>>

\* All has been read, or is lost; the end of the stream is seen or it is just silent.
ConnectionLost ==
  /\ net.st = "closing"
  /\ \/ net' = [net EXCEPT !.st = "dead", !.in = <<>>]
     \/ PeerCloses /\ net.in = <<>> /\ net' = [net EXCEPT !.st = "eof"]
  /\ UNCHANGED <<names, cl, call, cb, broker>>

---------------------------------------------------------------------------
Caller == UseBuffers \/ CallConnect \/ CallYield \/ CallPublish \/ CallSubscribe \/ CallUnsubscribe
Step ==
  SendRefused \/ Send \/ ReadAck \/ ReadOther \/ ReadPublish \/ Callback \/ AckMessage \/ ReadTorn \/ ReadJunk
Environment == BrokerActs \/ BrokerAnswers \/ BrokerPublishes \/ BrokerGone \/ ConnectionLost

Next == Caller \/ Step \/ TimedOut \/ Spin \/ Environment

Spec == Init /\ [][Next]_vars

---------------------------------------------------------------------------
(* Properties. *)

\* Type correctness of the client and of the connection.
ClientTypeOK ==
  /\ cl \in [isconnected : BOOLEAN, hs : [1..MaxHandlers -> Handler], ping_outstanding : BOOLEAN,
            next : 0..MaxPacketId]
  /\ call.st \in {"idle", "send", "read", "deliver"} /\ call.mid \in 0..MaxPacketId
  /\ broker.subs \subseteq Topic
  /\ net.st \in {"up", "closing", "dead", "eof"}

(***************************************************************************)
(* waitfor compares the type of an acknowledgement and nothing else, over  *)
(* any number of failed and repeated calls.  Yet the one that ends a call  *)
(* is the answer to its own request: a call that failed, whose answer may  *)
(* still come, is the last one on its connection.  (Not so once a read has *)
(* ended inside a packet, see ReadTorn.)                                   *)
(***************************************************************************)
AckIsOwn ==
  [][ReadAck /\ ~net.torn =>
       call.op = "connect" \/ (Head(net.in).mid = call.mid /\ call.mid # 0)]_vars

(***************************************************************************)
(* While a ping is marked outstanding no other is sent, so on a living     *)
(* connection the mark always belongs to a ping or an answer on its way;   *)
(* otherwise the client would never ping again and the broker drop it.     *)
(***************************************************************************)
PingPending ==
  cl.ping_outstanding /\ cl.isconnected /\ net.st = "up" /\ ~net.torn =>
    \/ \E i \in DOMAIN net.out : net.out[i].type = "PINGREQ"
    \/ broker.owes.type = "PINGRESP"
    \/ \E i \in DOMAIN net.in : net.in[i].type = "PINGRESP"

---------------------------------------------------------------------------
(***************************************************************************)
(* Refinement.  The service sees a subscription from the moment the broker *)
(* acts on it, and until the UNSUBACK has been read; connect is a step.    *)
(***************************************************************************)
Alive == cl.isconnected /\ net.st \in {"up", "closing"}
LinkView ==
  [conn |-> cl.isconnected, up |-> Alive, hs |-> cl.hs,
   bsub |-> IF Alive THEN broker.subs \cup (IF broker.had THEN {call.topic} ELSE {}) ELSE {}]
CallView ==
  IF call.op = "connect" THEN [op |-> "none", topic |-> "", buf |-> "none", qos |-> 0]
  ELSE [op |-> call.op, topic |-> call.topic, buf |-> call.buf, qos |-> call.qos]

Service == INSTANCE MqttService WITH link <- LinkView, call <- CallView, MayStop <- FALSE

(***************************************************************************)
(* The client, with its timers, pings, acknowledgements and packets read   *)
(* inside other calls, gives the gateway the service it relies on.         *)
(***************************************************************************)
ImplementsService == Service!Spec

---------------------------------------------------------------------------
(***************************************************************************)
(* Fairness: the client runs in the gateway's thread and never rests; a    *)
(* read has a timeout and the calls have timers, so packets that keep      *)
(* coming do not hold a call for ever.  Nothing is assumed of the broker.  *)
(***************************************************************************)
FairSpec == Spec /\ WF_vars(Step) /\ SF_vars(TimedOut)

(***************************************************************************)
(* A call comes to its end, whatever the broker and the network do: lost   *)
(* packets, a stream of messages, a broker that never answers or a read    *)
(* that ended inside a packet.  Only a connection the broker has closed    *)
(* holds it for ever (see Spin).                                           *)
(***************************************************************************)
CallReturns == call.st # "idle" ~> call.st = "idle" \/ net.st = "eof"

(***************************************************************************)
(* MQTTClient.h, readPacket: "@param timeout the max time to wait for the  *)
(* packet read to complete, in milliseconds".  So no read lasts for ever.  *)
(***************************************************************************)
ReadEnds == call.st = "read" ~> call.st # "read"

=============================================================================
