----------------------------- MODULE PahoProofs -----------------------------
(***************************************************************************)
(* The Paho client, for any number of topics, handlers and packet ids: its *)
(* types, the ping it waits for, and the acknowledgements it takes for its *)
(* own.  The inductive invariant PInv says what may be on its way between  *)
(* client and broker: at most one request that is to be acknowledged, or   *)
(* its acknowledgement, and only while the call that sent it waits.        *)
(***************************************************************************)
EXTENDS PahoClient, SequenceTheorems, TLAPS

PacketType ==
  {"NONE", "CONNECT", "CONNACK", "SUBSCRIBE", "SUBACK", "UNSUBSCRIBE", "UNSUBACK", "PUBLISH", "PUBACK",
   "PUBREC", "PINGREQ", "PINGRESP", "JUNK"}
MqttPacket ==
  {p \in [type : PacketType, topic : Topic \cup {""}, mid : 0..MaxPacketId, qos : {0, 1, 2, 5, 128}] :
     p.type = "SUBSCRIBE" => p.topic \in Topic}
Client ==
  [isconnected : BOOLEAN, hs : [1..MaxHandlers -> Handler], ping_outstanding : BOOLEAN,
   next : 0..MaxPacketId]
Call ==
  {x \in [op : {"none", "yield", "publish", "subscribe", "unsubscribe", "connect"},
          topic : Topic \cup {""}, buf : Handler, qos : {0, 1, 2},
          st : {"idle", "send", "read", "deliver"}, mid : 0..MaxPacketId, got : MqttPacket] :
     x.op = "subscribe" => x.topic \in Topic}
Connection ==
  [st : {"up", "closing", "dead", "eof"}, out : Seq(MqttPacket), in : Seq(MqttPacket), torn : BOOLEAN]
Session == [subs : SUBSET Topic, owes : MqttPacket, had : BOOLEAN]

\* Type invariant.
Typed ==
  /\ names \in [regbuf : Topic \cup {""}, prebuf : Topic \cup {""}]
  /\ cl \in Client /\ call \in Call /\ net \in Connection /\ broker \in Session

(***************************************************************************)
(* How the phases of call x go with the client c: a call that reads has a  *)
(* session or opens one, and a client without a session waits for no ping. *)
(***************************************************************************)
PhaseOf(c, x) ==
  /\ x.st = "idle" => x = Idle
  /\ x.st = "send" => x.op \in {"publish", "subscribe", "unsubscribe"}
  /\ x.op = "connect" => ~c.isconnected
  /\ x.st \in {"read", "deliver"} => x.op = "connect" \/ c.isconnected
  /\ ~c.isconnected => ~c.ping_outstanding

\* Requests that are acknowledged, and their acknowledgements.
Asks(p) == p.type \in {"SUBSCRIBE", "UNSUBSCRIBE"} \/ (p.type = "PUBLISH" /\ p.qos = 1)
Acks(p) == p.type \in {"SUBACK", "UNSUBACK", "PUBACK"}

\* Call x waits for the acknowledgement of its request.
Waits(x) == x.st \in {"read", "deliver"} /\ x.op \in {"publish", "subscribe", "unsubscribe"}

\* Nothing to be acknowledged is on its way on connection n to or from a broker that owes o.
NothingDue(n, o) ==
  /\ \A i \in 1..Len(n.out) : ~Asks(n.out[i])
  /\ ~Acks(o)
  /\ \A i \in 1..Len(n.in) : ~Acks(n.in[i])

\* At most one request or acknowledgement is, and it has the id m.
OneDue(n, o, m) ==
  /\ \A i \in 1..Len(n.out) : Asks(n.out[i]) => n.out[i].mid = m
  /\ Acks(o) => o.mid = m
  /\ \A i \in 1..Len(n.in) : Acks(n.in[i]) => n.in[i].mid = m
  /\ \A i, j \in 1..Len(n.out) : Asks(n.out[i]) /\ Asks(n.out[j]) => i = j
  /\ \A i, j \in 1..Len(n.in) : Acks(n.in[i]) /\ Acks(n.in[j]) => i = j
  /\ \A i \in 1..Len(n.out) : Asks(n.out[i]) => ~Acks(o) /\ \A j \in 1..Len(n.in) : ~Acks(n.in[j])
  /\ \A i \in 1..Len(n.in) : Acks(n.in[i]) => ~Acks(o)

\* A broker answers in packets, not in fragments.
Fragment(p) == p.type \in {"NONE", "JUNK"}
Whole(n, o) == (o = NoPkt \/ ~Fragment(o)) /\ \A i \in 1..Len(n.in) : ~Fragment(n.in[i])

(***************************************************************************)
(* What may be due in a session that goes on or is being opened, as long   *)
(* as no read ended inside a packet: while call x waits for an             *)
(* acknowledgement its own request or answer, otherwise nothing.           *)
(***************************************************************************)
DueOf(c, x, n, o) ==
  ~n.torn =>
    /\ Whole(n, o)
    /\ c.isconnected \/ x.op = "connect" =>
         IF Waits(x) THEN x.mid # 0 /\ OneDue(n, o, x.mid) ELSE NothingDue(n, o)

\* PingPending of client c.
PingOf(c, n, o) ==
  c.ping_outstanding /\ c.isconnected /\ n.st = "up" /\ ~n.torn =>
    \/ \E i \in 1..Len(n.out) : n.out[i].type = "PINGREQ"
    \/ o.type = "PINGRESP"
    \/ \E i \in 1..Len(n.in) : n.in[i].type = "PINGRESP"

\* The inductive invariant.
PInv ==
  /\ Typed
  /\ PhaseOf(cl, call)
  /\ DueOf(cl, call, net, broker.owes)
  /\ PingOf(cl, net, broker.owes)

---------------------------------------------------------------------------
(* Packets and connections. *)

\* A packet of a type.
LEMMA PktType ==
  ASSUME NEW type \in PacketType \ {"SUBSCRIBE"}
  PROVE  Pkt(type) \in MqttPacket /\ Pkt(type).type = type /\ Pkt(type).qos = 0
<1>1. MaxPacketId \in Nat \ {0} BY ClientAssumption, Zenon
<1>2. 0 \in 0..MaxPacketId BY <1>1
<1> QED BY <1>2 DEF Pkt, MqttPacket, PacketType

\* Writing to a connection appends, as long as it is up.
LEMMA WriteOut ==
  ASSUME NEW n \in Connection, NEW p \in MqttPacket
  PROVE  /\ Write(n, p) \in Connection
         /\ Write(n, p).st = n.st /\ Write(n, p).in = n.in /\ Write(n, p).torn = n.torn
         /\ n.st = "up" => Write(n, p).out = Append(n.out, p)
         /\ n.st # "up" => Write(n, p).out = n.out
<1>1. Append(n.out, p) \in Seq(MqttPacket) BY DEF Connection
<1> QED BY <1>1 DEF Write, Connection

\* Reading a packet takes it off the connection.
LEMMA TakeIn ==
  ASSUME net \in Connection, net.in # <<>>
  PROVE  /\ Taken \in Connection
         /\ Taken.st = net.st /\ Taken.out = net.out /\ Taken.torn = net.torn
         /\ Taken.in = Tail(net.in) /\ Head(net.in) \in MqttPacket
<1>1. Head(net.in) \in MqttPacket /\ Tail(net.in) \in Seq(MqttPacket)
  BY HeadTailProperties DEF Connection
<1> QED BY <1>1 DEF Taken, Connection

\* What is due when a packet is written.
LEMMA WriteDue ==
  ASSUME NEW n \in Connection, NEW p \in MqttPacket, NEW o, NEW m
  PROVE  /\ ~Asks(p) /\ NothingDue(n, o) => NothingDue(Write(n, p), o)
         /\ ~Asks(p) /\ OneDue(n, o, m) => OneDue(Write(n, p), o, m)
         /\ p.mid = m /\ NothingDue(n, o) => OneDue(Write(n, p), o, m)
         /\ Whole(n, o) => Whole(Write(n, p), o)
<1> DEFINE w == Write(n, p)
<1>1. /\ w.in = n.in /\ (n.st = "up" => w.out = Append(n.out, p)) /\ (n.st # "up" => w.out = n.out)
  BY WriteOut
<1> HIDE DEF w
<1>2. n.out \in Seq(MqttPacket) BY DEF Connection
<1>3. Whole(n, o) => Whole(w, o) BY <1>1 DEF Whole
<1>4. CASE n.st # "up" BY <1>1, <1>3, <1>4 DEF NothingDue, OneDue, w
<1>5. CASE n.st = "up"
  <2>1. w.out = Append(n.out, p) BY <1>1, <1>5
  <2>2. /\ Len(w.out) = Len(n.out) + 1 /\ Len(n.out) \in Nat
        /\ \A i \in 1..Len(n.out) : w.out[i] = n.out[i]
        /\ w.out[Len(n.out) + 1] = p
    BY <1>2, <2>1, AppendProperties
  <2>3. \A i \in 1..Len(w.out) : i \in 1..Len(n.out) \/ i = Len(n.out) + 1 BY <2>2
  <2>4. ~Asks(p) /\ NothingDue(n, o) => NothingDue(w, o) BY <1>1, <2>2, <2>3 DEF NothingDue
  <2>5. ~Asks(p) /\ OneDue(n, o, m) => OneDue(w, o, m)
    <3> SUFFICES ASSUME ~Asks(p), OneDue(n, o, m) PROVE OneDue(w, o, m) OBVIOUS
    <3>1. \A i \in 1..Len(w.out) : Asks(w.out[i]) => i \in 1..Len(n.out) /\ w.out[i] = n.out[i] BY <2>2, <2>3
    <3> QED BY <1>1, <3>1 DEF OneDue
  <2>6. p.mid = m /\ NothingDue(n, o) => OneDue(w, o, m)
    <3> SUFFICES ASSUME p.mid = m, NothingDue(n, o) PROVE OneDue(w, o, m) OBVIOUS
    <3>1. \A i \in 1..Len(w.out) : Asks(w.out[i]) => i = Len(n.out) + 1 /\ w.out[i] = p
      BY <2>2, <2>3 DEF NothingDue
    <3> QED BY <1>1, <3>1 DEF OneDue, NothingDue
  <2> QED BY <1>3, <2>4, <2>5, <2>6 DEF w
<1> QED BY <1>4, <1>5

\* What is due when a packet has been read, or is not read any more.
LEMMA TakeDue ==
  ASSUME NEW n \in Connection, NEW t \in Connection, n.in # <<>>, t.out = n.out, t.in = Tail(n.in),
         NEW o, NEW m
  PROVE  /\ NothingDue(n, o) => NothingDue(t, o)
         /\ OneDue(n, o, m) => OneDue(t, o, m)
         /\ OneDue(n, o, m) /\ Acks(Head(n.in)) => NothingDue(t, o) /\ Head(n.in).mid = m
         /\ Whole(n, o) => Whole(t, o) /\ ~Fragment(Head(n.in))
<1>1. n.in \in Seq(MqttPacket) BY DEF Connection
<1>2. /\ Len(t.in) = Len(n.in) - 1 /\ Len(n.in) \in Nat /\ 1 \in 1..Len(n.in) /\ Head(n.in) = n.in[1]
      /\ \A i \in 1..Len(t.in) : t.in[i] = n.in[i + 1]
  BY <1>1, HeadTailProperties
<1>3. \A i \in 1..Len(t.in) : i + 1 \in 1..Len(n.in) /\ i + 1 # 1 BY <1>2
<1>4. NothingDue(n, o) => NothingDue(t, o) BY <1>2, <1>3 DEF NothingDue
<1>5. OneDue(n, o, m) => OneDue(t, o, m)
  <2> SUFFICES ASSUME OneDue(n, o, m) PROVE OneDue(t, o, m) OBVIOUS
  <2>1. \A i, j \in 1..Len(t.in) : Acks(t.in[i]) /\ Acks(t.in[j]) => i = j
    <3> SUFFICES ASSUME NEW i \in 1..Len(t.in), NEW j \in 1..Len(t.in), Acks(t.in[i]), Acks(t.in[j])
                 PROVE  i = j
      OBVIOUS
    <3>1. i + 1 = j + 1 BY <1>2, <1>3 DEF OneDue
    <3> QED BY <1>2, <3>1
  <2> QED BY <1>2, <1>3, <2>1 DEF OneDue
<1>6. OneDue(n, o, m) /\ Acks(Head(n.in)) => NothingDue(t, o) /\ Head(n.in).mid = m
  <2> SUFFICES ASSUME OneDue(n, o, m), Acks(n.in[1]) PROVE NothingDue(t, o) /\ n.in[1].mid = m BY <1>2
  <2>1. \A i \in 1..Len(t.in) : ~Acks(t.in[i]) BY <1>2, <1>3 DEF OneDue
  <2> QED BY <1>2, <2>1 DEF OneDue, NothingDue
<1>7. Whole(n, o) => Whole(t, o) /\ ~Fragment(Head(n.in)) BY <1>2, <1>3 DEF Whole
<1> QED BY <1>4, <1>5, <1>6, <1>7

\* A written packet leaves the pings where they are; a PINGREQ is one.
LEMMA WritePing ==
  ASSUME NEW n \in Connection, NEW p \in MqttPacket, NEW o, NEW c
  PROVE  /\ PingOf(c, n, o) => PingOf(c, Write(n, p), o)
         /\ p.type = "PINGREQ" => PingOf(c, Write(n, p), o)
<1> DEFINE w == Write(n, p)
<1>1. /\ w.in = n.in /\ w.st = n.st /\ w.torn = n.torn
      /\ (n.st = "up" => w.out = Append(n.out, p)) /\ (n.st # "up" => w.out = n.out)
  BY WriteOut
<1> HIDE DEF w
<1>2. n.out \in Seq(MqttPacket) BY DEF Connection
<1>4. CASE n.st # "up" BY <1>1, <1>4 DEF PingOf, w
<1>5. CASE n.st = "up"
  <2>1. w.out = Append(n.out, p) BY <1>1, <1>5
  <2>2. /\ Len(w.out) = Len(n.out) + 1 /\ Len(n.out) \in Nat
        /\ \A i \in 1..Len(n.out) : w.out[i] = n.out[i]
        /\ w.out[Len(n.out) + 1] = p
    BY <1>2, <2>1, AppendProperties
  <2>3. /\ \A i \in 1..Len(n.out) : i \in 1..Len(w.out)
        /\ Len(n.out) + 1 \in 1..Len(w.out)
    BY <2>2
  <2>4. PingOf(c, n, o) => PingOf(c, w, o) BY <1>1, <2>2, <2>3 DEF PingOf
  <2>5. p.type = "PINGREQ" => PingOf(c, w, o) BY <1>1, <2>2, <2>3 DEF PingOf
  <2> QED BY <2>4, <2>5 DEF w
<1> QED BY <1>4, <1>5

\* Reading another packet does so too.
LEMMA TakePing ==
  ASSUME NEW n \in Connection, NEW t \in Connection, n.in # <<>>, t.out = n.out, t.in = Tail(n.in),
         t.st = n.st, t.torn = n.torn, Head(n.in).type # "PINGRESP", NEW o, NEW c, PingOf(c, n, o)
  PROVE  PingOf(c, t, o)
<1>1. n.in \in Seq(MqttPacket) BY DEF Connection
<1>2. /\ Len(t.in) = Len(n.in) - 1 /\ Len(n.in) \in Nat /\ Head(n.in) = n.in[1]
      /\ \A i \in 1..Len(t.in) : t.in[i] = n.in[i + 1]
  BY <1>1, HeadTailProperties
<1>3. \A i \in 1..Len(n.in) : i = 1 \/ (i - 1 \in 1..Len(t.in) /\ t.in[i - 1] = n.in[i])
  <2> TAKE i \in 1..Len(n.in)
  <2>1. i # 1 => i - 1 \in 1..Len(t.in) /\ (i - 1) + 1 = i BY <1>2
  <2> QED BY <1>2, <2>1
<1>4. (\E i \in 1..Len(n.in) : n.in[i].type = "PINGRESP") => \E i \in 1..Len(t.in) : t.in[i].type = "PINGRESP"
  <2> SUFFICES ASSUME NEW i \in 1..Len(n.in), n.in[i].type = "PINGRESP"
               PROVE  \E j \in 1..Len(t.in) : t.in[j].type = "PINGRESP"
    OBVIOUS
  <2>1. i # 1 BY <1>2
  <2>2. i - 1 \in 1..Len(t.in) /\ t.in[i - 1].type = "PINGRESP" BY <1>3, <2>1
  <2> QED BY <2>2
<1> QED BY <1>4 DEF PingOf

\* keepalive leaves client and connection as they are, or marks a ping and writes it.
LEMMA Keepalive ==
  ASSUME NEW c \in Client, NEW n \in Connection, NEW a \in keepalive(c, n)
  PROVE  /\ \/ a.cl = c /\ a.net = n
            \/ /\ call.op # "connect"
               /\ a.cl = [c EXCEPT !.ping_outstanding = TRUE] /\ a.net = Write(n, Pkt("PINGREQ"))
         /\ a.cl \in Client /\ a.net \in Connection
         /\ a.cl.isconnected = c.isconnected /\ a.cl.hs = c.hs
         /\ call.op = "connect" => a.cl = c
         /\ a.net.st = n.st /\ a.net.in = n.in /\ a.net.torn = n.torn
<1>1. \/ a.cl = c /\ a.net = n
      \/ /\ call.op # "connect"
         /\ a.cl = [c EXCEPT !.ping_outstanding = TRUE] /\ a.net = Write(n, Pkt("PINGREQ"))
  <2>1. \/ a = [cl |-> c, net |-> n]
        \/ /\ call.op # "connect"
           /\ a = [cl |-> [c EXCEPT !.ping_outstanding = TRUE], net |-> Write(n, Pkt("PINGREQ"))]
    BY Zenon DEF keepalive
  <2> DEFINE marked == [c EXCEPT !.ping_outstanding = TRUE]
  <2> HIDE DEF marked
  <2>2. a = [cl |-> c, net |-> n] => a.cl = c /\ a.net = n OBVIOUS
  <2>3. a = [cl |-> marked, net |-> Write(n, Pkt("PINGREQ"))]
          => a.cl = marked /\ a.net = Write(n, Pkt("PINGREQ"))
    OBVIOUS
  <2> QED BY <2>1, <2>2, <2>3, Zenon DEF marked
<1>2. Pkt("PINGREQ") \in MqttPacket BY PktType DEF PacketType
<1>3. [c EXCEPT !.ping_outstanding = TRUE] \in Client BY DEF Client
<1>4. CASE a.cl = c /\ a.net = n BY <1>1, <1>4
<1>5. CASE /\ call.op # "connect"
           /\ a.cl = [c EXCEPT !.ping_outstanding = TRUE] /\ a.net = Write(n, Pkt("PINGREQ"))
  <2>1. /\ a.net \in Connection /\ a.net.st = n.st /\ a.net.in = n.in /\ a.net.torn = n.torn
    BY <1>2, <1>5, WriteOut
  <2>2. a.cl.isconnected = c.isconnected /\ a.cl.hs = c.hs BY <1>5 DEF Client
  <2> QED BY <1>3, <1>5, <2>1, <2>2
<1> QED BY <1>1, <1>4, <1>5

\* ... which changes nothing of what is due, and the mark has its ping.
LEMMA KeepaliveDue ==
  ASSUME NEW c \in Client, NEW n \in Connection, NEW a \in keepalive(c, n), NEW o, NEW x
  PROVE  /\ DueOf(c, x, n, o) => DueOf(a.cl, x, a.net, o)
         /\ NothingDue(n, o) => NothingDue(a.net, o)
         /\ Whole(n, o) => Whole(a.net, o)
         /\ PingOf(c, n, o) => PingOf(a.cl, a.net, o)
<1>1. Pkt("PINGREQ") \in MqttPacket /\ Pkt("PINGREQ").type = "PINGREQ" BY PktType DEF PacketType
<1>2. ~Asks(Pkt("PINGREQ")) BY <1>1 DEF Asks
<1>3. /\ a.cl.isconnected = c.isconnected /\ a.net.torn = n.torn
      /\ (a.cl = c /\ a.net = n) \/ a.net = Write(n, Pkt("PINGREQ"))
  BY Keepalive
<1>4. CASE a.cl = c /\ a.net = n BY <1>4
<1>5. CASE a.net = Write(n, Pkt("PINGREQ"))
  <2>1. \A m : /\ NothingDue(n, o) => NothingDue(a.net, o)
               /\ OneDue(n, o, m) => OneDue(a.net, o, m)
               /\ Whole(n, o) => Whole(a.net, o)
    BY <1>1, <1>2, <1>5, WriteDue
  <2>2. PingOf(a.cl, a.net, o) BY <1>1, <1>5, WritePing
  <2> QED BY <1>3, <2>1, <2>2 DEF DueOf
<1> QED BY <1>3, <1>4, <1>5

---------------------------------------------------------------------------
(* Calls that return, and calls that go on. *)

\* An idle call is one.
LEMMA IdleCall == Idle \in Call /\ Idle.st = "idle" /\ Idle.op = "none" /\ NoPkt \in MqttPacket
<1>1. NoPkt \in MqttPacket BY PktType DEF NoPkt, PacketType
<1>2. MaxPacketId \in Nat \ {0} BY ClientAssumption, Zenon
<1>3. 0 \in 0..MaxPacketId BY <1>2
<1> QED BY <1>1, <1>3 DEF Idle, Call, Handler

\* The mark of an unsubscribe in the broker's session changes nothing else of it.
LEMMA SessionHad ==
  ASSUME NEW b \in Session, NEW h \in BOOLEAN
  PROVE  LET s == [b EXCEPT !.had = h] IN s \in Session /\ s.owes = b.owes /\ s.subs = b.subs
BY ZenonT(30) DEF Session

\* A client that has forgotten its session.
LEMMA Forgotten ==
  ASSUME NEW c \in Client
  PROVE  Forget(c) \in Client /\ ~Forget(c).isconnected /\ ~Forget(c).ping_outstanding
<1>1. NoHandlers \in [1..MaxHandlers -> Handler] BY DEF NoHandlers, Handler
<1> QED BY <1>1, ZenonT(30) DEF Forget, Client

\* A call returns.
LEMMA Returned ==
  ASSUME Typed, NEW c \in Client, Returns(c), net' \in Connection, names' = names,
         ~net'.torn => Whole(net', broker.owes) /\ (c.isconnected => NothingDue(net', broker.owes)),
         PingOf(c, net', broker.owes), ~c.isconnected => ~c.ping_outstanding
  PROVE  PInv'
<1>1. cl' = c /\ call' = Idle /\ broker' = [broker EXCEPT !.had = FALSE] BY Zenon DEF Returns
<1>2. broker' \in Session /\ broker'.owes = broker.owes BY <1>1, SessionHad, Zenon DEF Typed
<1>3. Typed' BY <1>1, <1>2, IdleCall DEF Typed
<1>4. PhaseOf(cl, call)' BY <1>1, IdleCall DEF PhaseOf
<1>5. ~Waits(Idle) BY IdleCall DEF Waits
<1>6. DueOf(cl, call, net, broker.owes)' BY <1>1, <1>2, <1>5, IdleCall DEF DueOf
<1>7. PingOf(cl, net, broker.owes)' BY <1>1, <1>2 DEF PingOf
<1> QED BY <1>3, <1>4, <1>6, <1>7 DEF PInv

\* A cycle ends and the call goes on.
LEMMA GoneOn ==
  ASSUME Typed, NEW c \in Client, NEW n \in Connection, NEW x \in Call, GoOn(c, n, x), names' = names,
         PhaseOf(c, x), c.isconnected \/ call.op = "connect",
         DueOf(c, x, n, broker.owes), PingOf(c, n, broker.owes)
  PROVE  PInv'
<1>1. PICK a \in keepalive(c, n) : cl' = a.cl /\ net' = a.net BY DEF GoOn
<1>2. call' = x /\ broker' = broker BY DEF GoOn
<1>3. /\ cl' \in Client /\ net' \in Connection /\ cl'.isconnected = c.isconnected
      /\ call.op = "connect" => cl' = c
  BY <1>1, Keepalive
<1>4. Typed' BY <1>2, <1>3 DEF Typed
<1>5. PhaseOf(cl, call)' BY <1>2, <1>3 DEF PhaseOf
<1>6. DueOf(cl, call, net, broker.owes)' /\ PingOf(cl, net, broker.owes)'
  BY <1>1, <1>2, KeepaliveDue
<1> QED BY <1>4, <1>5, <1>6 DEF PInv

---------------------------------------------------------------------------
(* The calls of the gateway. *)

LEMMA Lookups == ASSUME PInv, UseBuffers PROVE PInv'
<1>1. PICK b \in {"regbuf", "prebuf"}, t \in Topic : names' = [names EXCEPT ![b] = t] BY DEF UseBuffers
<1>2. UNCHANGED <<cl, call, cb, net, broker>> BY DEF UseBuffers
<1>3. names' \in [regbuf : Topic \cup {""}, prebuf : Topic \cup {""}] BY <1>1 DEF PInv, Typed
<1> QED BY <1>2, <1>3 DEF PInv, Typed

LEMMA Begun ==
  ASSUME PInv, NEW c \in Call, Begin(c), c.op \in {"publish", "subscribe", "unsubscribe"}
  PROVE  PInv'
<1>1. call.st = "idle" /\ call' = [c EXCEPT !.st = "send"] /\ UNCHANGED <<names, cl, cb, net, broker>>
  BY DEF Begin
<1>2. call = Idle BY <1>1 DEF PInv, PhaseOf
<1>3. call' \in Call /\ call'.st = "send" /\ call'.op = c.op BY <1>1 DEF Call
<1>4. Typed' BY <1>1, <1>3 DEF PInv, Typed
<1>5. PhaseOf(cl, call)' BY <1>1, <1>2, <1>3, IdleCall DEF PInv, PhaseOf
<1>6. ~Waits(call) /\ ~Waits(call') BY <1>1, <1>3 DEF Waits
<1>7. DueOf(cl, call, net, broker.owes)' BY <1>1, <1>2, <1>3, <1>6, IdleCall DEF PInv, DueOf
<1> QED BY <1>1, <1>4, <1>5, <1>7 DEF PInv, PingOf

LEMMA Requests == ASSUME PInv, CallPublish \/ CallSubscribe \/ CallUnsubscribe PROVE PInv'
<1>1. ASSUME CallPublish PROVE PInv'
  <2>1. PICK q \in {0, 1, 2} : Begin([Idle EXCEPT !.op = "publish", !.qos = q]) BY <1>1 DEF CallPublish
  <2> DEFINE c == [Idle EXCEPT !.op = "publish", !.qos = q]
  <2>2. c \in Call /\ c.op = "publish" BY IdleCall DEF Call
  <2> QED BY <2>1, <2>2, Begun
<1>2. ASSUME CallSubscribe PROVE PInv'
  <2>1. PICK b \in {"reg", "pre"} :
          /\ FilterOf(names, b) \in Topic
          /\ Begin([Idle EXCEPT !.op = "subscribe", !.buf = b, !.topic = FilterOf(names, b)])
    BY <1>2 DEF CallSubscribe
  <2> DEFINE c == [Idle EXCEPT !.op = "subscribe", !.buf = b, !.topic = FilterOf(names, b)]
  <2>2. c \in Call /\ c.op = "subscribe" BY <2>1, IdleCall DEF Call, Handler
  <2> QED BY <2>1, <2>2, Begun
<1>3. ASSUME CallUnsubscribe PROVE PInv'
  <2>1. PICK t \in Topic : Begin([Idle EXCEPT !.op = "unsubscribe", !.topic = t]) BY <1>3 DEF CallUnsubscribe
  <2> DEFINE c == [Idle EXCEPT !.op = "unsubscribe", !.topic = t]
  <2>2. c \in Call /\ c.op = "unsubscribe" BY IdleCall DEF Call
  <2> QED BY <2>1, <2>2, Begun
<1> QED BY <1>1, <1>2, <1>3

LEMMA Yields == ASSUME PInv, CallYield PROVE PInv'
<1>1. /\ call.st = "idle" /\ cl.isconnected /\ call' = [Idle EXCEPT !.op = "yield", !.st = "read"]
      /\ UNCHANGED <<names, cl, cb, net, broker>>
  BY DEF CallYield
<1>2. call = Idle BY <1>1 DEF PInv, PhaseOf
<1>3. call' \in Call /\ call'.st = "read" /\ call'.op = "yield" BY <1>1, IdleCall DEF Call
<1>4. Typed' BY <1>1, <1>3 DEF PInv, Typed
<1>5. PhaseOf(cl, call)' BY <1>1, <1>3 DEF PInv, PhaseOf
<1>6. ~Waits(call) /\ ~Waits(call') BY <1>1, <1>3 DEF Waits
<1>7. DueOf(cl, call, net, broker.owes)' BY <1>1, <1>3, <1>6 DEF PInv, DueOf
<1> QED BY <1>1, <1>4, <1>5, <1>7 DEF PInv, PingOf

LEMMA Connects == ASSUME PInv, CallConnect PROVE PInv'
<1>1. /\ call.st = "idle" /\ ~cl.isconnected /\ UNCHANGED <<names, cl, cb>> /\ broker' = NoSession
      /\ \/ /\ call' = [Idle EXCEPT !.op = "connect", !.st = "read"]
            /\ net' = [st |-> "up", out |-> <<Pkt("CONNECT")>>, in |-> <<>>, torn |-> FALSE]
         \/ /\ net' = [st |-> "dead", out |-> <<>>, in |-> <<>>, torn |-> FALSE]
            /\ UNCHANGED call
  BY DEF CallConnect
<1>2. call = Idle /\ ~cl.ping_outstanding BY <1>1 DEF PInv, PhaseOf
<1>3. broker' \in Session /\ broker'.owes = NoPkt BY <1>1, IdleCall DEF NoSession, Session
<1>4. Pkt("CONNECT") \in MqttPacket /\ Pkt("CONNECT").type = "CONNECT" BY PktType DEF PacketType
<1>5. ~Acks(NoPkt) BY DEF NoPkt, Pkt, Acks
<1>6. PingOf(cl, net, broker.owes)' BY <1>1, <1>2 DEF PingOf
<1>7. ASSUME net' = [st |-> "dead", out |-> <<>>, in |-> <<>>, torn |-> FALSE], UNCHANGED call PROVE PInv'
  <2>1. net' \in Connection BY <1>7 DEF Connection
  <2>2. Typed' BY <1>1, <1>3, <1>7, <2>1 DEF PInv, Typed
  <2>3. PhaseOf(cl, call)' BY <1>1, <1>7 DEF PInv, PhaseOf
  <2>4. Whole(net', NoPkt) BY <1>7 DEF Whole
  <2>5. DueOf(cl, call, net, broker.owes)' BY <1>1, <1>2, <1>3, <1>7, <2>4, IdleCall DEF DueOf
  <2> QED BY <1>6, <2>2, <2>3, <2>5 DEF PInv
<1>8. ASSUME call' = [Idle EXCEPT !.op = "connect", !.st = "read"],
             net' = [st |-> "up", out |-> <<Pkt("CONNECT")>>, in |-> <<>>, torn |-> FALSE]
      PROVE  PInv'
  <2>1. net' \in Connection BY <1>4, <1>8 DEF Connection
  <2>2. call' \in Call /\ call'.op = "connect" /\ call'.st = "read" BY <1>8, IdleCall DEF Call
  <2>3. Typed' BY <1>1, <1>3, <2>1, <2>2 DEF PInv, Typed
  <2>4. PhaseOf(cl, call)' BY <1>1, <2>2 DEF PInv, PhaseOf
  <2>5. Whole(net', NoPkt) BY <1>8 DEF Whole
  <2>6. NothingDue(net', NoPkt) BY <1>4, <1>5, <1>8 DEF NothingDue, Asks
  <2>7. DueOf(cl, call, net, broker.owes)' BY <1>1, <1>3, <2>2, <2>5, <2>6 DEF DueOf, Waits
  <2> QED BY <1>6, <2>3, <2>4, <2>7 DEF PInv
<1> QED BY <1>1, <1>7, <1>8

---------------------------------------------------------------------------
(* Sending and reading. *)

\* The client after a call that failed.
LEMMA FailedClient ==
  ASSUME NEW c \in Client
  PROVE  /\ Failed(c) \in Client
         /\ call.op \in {"yield", "connect"} => Failed(c) = c
         /\ call.op \notin {"yield", "connect"} =>
              ~Failed(c).isconnected /\ ~Failed(c).ping_outstanding
BY Forgotten DEF Failed

LEMMA Refuses == ASSUME PInv, SendRefused PROVE PInv'
<1>1. call.st = "send" /\ ~cl.isconnected /\ Returns(Failed(cl)) /\ names' = names /\ net' = net
  BY DEF SendRefused
<1>2. call.op \in {"publish", "subscribe", "unsubscribe"} BY <1>1 DEF PInv, PhaseOf
<1>3. Failed(cl) \in Client /\ ~Failed(cl).isconnected /\ ~Failed(cl).ping_outstanding
  BY <1>2, FailedClient DEF PInv, Typed
<1>4. PingOf(Failed(cl), net', broker.owes) BY <1>3 DEF PingOf
<1>5. ~net.torn => Whole(net, broker.owes) BY DEF PInv, DueOf
<1>6. Typed /\ net \in Connection BY DEF PInv, Typed
<1> QED BY <1>1, <1>3, <1>4, <1>5, <1>6, Returned

\* The next packet id is one, and never 0.
LEMMA NextId == ASSUME cl \in Client PROVE getNext \in 1..MaxPacketId
<1>1. MaxPacketId \in Nat \ {0} BY ClientAssumption, Zenon
<1>2. cl.next \in 0..MaxPacketId BY DEF Client
<1> QED BY <1>1, <1>2 DEF getNext

LEMMA Sends == ASSUME PInv, Send PROVE PInv'
<1> DEFINE mid == IF call.op = "publish" /\ call.qos = 0 THEN 0 ELSE getNext
           c == [cl EXCEPT !.next = IF mid = 0 THEN @ ELSE mid]
           waits == call.op = "publish" => call.qos = 1
           r == Request(mid)
<1>1. /\ call.st = "send" /\ cl.isconnected /\ names' = names
      /\ \/ Returns(Failed(c)) /\ net' = net
         \/ ~waits /\ Returns(c) /\ net' = Write(net, r)
         \/ /\ waits /\ cl' = c /\ net' = Write(net, r)
            /\ call' = [call EXCEPT !.st = "read", !.mid = mid]
            /\ broker' = [broker EXCEPT !.had = call.op = "unsubscribe" /\ call.topic \in broker.subs]
  BY DEF Send
<1>2. call.op \in {"publish", "subscribe", "unsubscribe"} BY <1>1 DEF PInv, PhaseOf
<1>3. cl \in Client /\ call \in Call /\ net \in Connection /\ broker \in Session /\ Typed BY DEF PInv, Typed
<1>4. MaxPacketId \in Nat \ {0} BY ClientAssumption, Zenon
<1>5. mid \in 0..MaxPacketId /\ (waits => mid # 0) BY <1>3, <1>4, NextId
<1>6. c \in Client /\ c.isconnected = cl.isconnected /\ c.ping_outstanding = cl.ping_outstanding
  BY <1>3, <1>5 DEF Client
<1>7. /\ r \in MqttPacket /\ r.mid = mid
      /\ ~waits => ~Asks(r)
  <2>1. r \in MqttPacket /\ r.mid = mid BY <1>3, <1>5 DEF Request, MqttPacket, PacketType, Call
  <2>2. ~waits => r.type = "PUBLISH" /\ r.qos # 1 BY <1>2 DEF Request
  <2> QED BY <2>1, <2>2 DEF Asks
<1>8. /\ ~net.torn => Whole(net, broker.owes) /\ NothingDue(net, broker.owes)
      /\ PingOf(c, net, broker.owes)
  BY <1>1, <1>6 DEF PInv, DueOf, PingOf, Waits
<1> HIDE DEF mid, c, waits, r
<1>9. /\ Write(net, r) \in Connection /\ Write(net, r).torn = net.torn
      /\ PingOf(c, Write(net, r), broker.owes)
      /\ ~net.torn => Whole(Write(net, r), broker.owes) /\ OneDue(Write(net, r), broker.owes, mid)
      /\ ~net.torn /\ ~waits => NothingDue(Write(net, r), broker.owes)
  BY <1>3, <1>7, <1>8, WriteOut, WriteDue, WritePing
<1>10. ASSUME Returns(Failed(c)), net' = net PROVE PInv'
  <2>1. Failed(c) \in Client /\ ~Failed(c).isconnected /\ ~Failed(c).ping_outstanding
    BY <1>2, <1>6, FailedClient
  <2>2. PingOf(Failed(c), net', broker.owes) BY <2>1 DEF PingOf
  <2> QED BY <1>1, <1>3, <1>8, <1>10, <2>1, <2>2, Returned
<1>11. ASSUME ~waits, Returns(c), net' = Write(net, r) PROVE PInv'
  BY <1>1, <1>3, <1>6, <1>9, <1>11, Returned
<1>12. ASSUME waits, cl' = c, net' = Write(net, r), call' = [call EXCEPT !.st = "read", !.mid = mid],
              broker' = [broker EXCEPT !.had = call.op = "unsubscribe" /\ call.topic \in broker.subs]
       PROVE  PInv'
  <2>1. call' \in Call /\ call'.st = "read" /\ call'.mid = mid /\ call'.op = call.op
    BY <1>3, <1>5, <1>12 DEF Call
  <2>2. broker' \in Session /\ broker'.owes = broker.owes
    <3> DEFINE h == call.op = "unsubscribe" /\ call.topic \in broker.subs
    <3>1. h \in BOOLEAN OBVIOUS
    <3>2. broker' = [broker EXCEPT !.had = h] BY <1>12
    <3> HIDE DEF h
    <3> QED BY <1>3, <3>1, <3>2, SessionHad, Zenon
  <2>3. Typed' BY <1>1, <1>3, <1>6, <1>9, <1>12, <2>1, <2>2 DEF Typed
  <2>4. PhaseOf(cl, call)' BY <1>1, <1>2, <1>6, <1>12, <2>1 DEF PInv, PhaseOf
  <2>5. Waits(call') BY <1>2, <2>1 DEF Waits
  <2>6. DueOf(cl, call, net, broker.owes)' BY <1>5, <1>9, <1>12, <2>1, <2>2, <2>5 DEF DueOf
  <2>7. PingOf(cl, net, broker.owes)' BY <1>9, <1>12, <2>2 DEF PingOf
  <2> QED BY <2>3, <2>4, <2>6, <2>7 DEF PInv
<1> QED BY <1>1, <1>10, <1>11, <1>12

\* Reading: the client has a session, or is about to open one.
LEMMA ReadingCall ==
  ASSUME PInv, call.st \in {"read", "deliver"}
  PROVE  /\ Typed /\ cl \in Client /\ call \in Call /\ net \in Connection /\ broker \in Session
         /\ PhaseOf(cl, call) /\ (cl.isconnected \/ call.op = "connect")
         /\ ~net.torn => Whole(net, broker.owes)
         /\ ~net.torn => IF Waits(call) THEN call.mid # 0 /\ OneDue(net, broker.owes, call.mid)
                         ELSE NothingDue(net, broker.owes)
         /\ PingOf(cl, net, broker.owes)
         /\ call.op = "connect" => ~cl.isconnected /\ ~cl.ping_outstanding
BY DEF PInv, Typed, PhaseOf, DueOf

\* The first handler to attach or to detach may be any one of the typed handlers.
LEMMA ChosenHandlers ==
  ASSUME NEW hs \in [1..MaxHandlers -> Handler], NEW buf \in Handler, NEW t
  PROVE  /\ (CHOOSE h \in Attached(hs, buf) : TRUE) \in [1..MaxHandlers -> Handler]
         /\ (CHOOSE h \in Attached(hs, buf) : TRUE) \in Attached(hs, buf)
         /\ (CHOOSE h \in Detached(hs, names, t) : TRUE) \in [1..MaxHandlers -> Handler]
         /\ (CHOOSE h \in Detached(hs, names, t) : TRUE) \in Detached(hs, names, t)
<1>1. \A n \in Attached(hs, buf) : n \in [1..MaxHandlers -> Handler]
  <2> TAKE n \in Attached(hs, buf)
  <2>1. n = hs \/ \E h : n = [hs EXCEPT ![h] = buf] BY Zenon DEF Attached
  <2> QED BY <2>1
<1>2. \A n \in Detached(hs, names, t) : n \in [1..MaxHandlers -> Handler]
  <2> TAKE n \in Detached(hs, names, t)
  <2>1. n = hs \/ \E h : n = [hs EXCEPT ![h] = "none"] BY Zenon DEF Detached
  <2> QED BY <2>1 DEF Handler
<1>3. \E n : n \in Attached(hs, buf)
  <2> DEFINE free == FirstHandler(hs, LAMBDA h : h = "none")
             g(h) == [hs EXCEPT ![h] = buf]
  <2>1. Attached(hs, buf) = IF free = {} THEN {hs} ELSE {g(h) : h \in free} BY DEF Attached
  <2> HIDE DEF free, g
  <2>2. CASE free = {} BY <2>1, <2>2
  <2>3. CASE free # {}
    <3>1. PICK h : h \in free BY <2>3
    <3> QED BY <2>1, <2>3, <3>1
  <2> QED BY <2>2, <2>3
<1>4. \E n : n \in Detached(hs, names, t)
  <2> DEFINE old == FirstHandler(hs, LAMBDA h : FilterOf(names, h) = t)
             g(h) == [hs EXCEPT ![h] = "none"]
  <2>1. Detached(hs, names, t) = IF old = {} THEN {hs} ELSE {g(h) : h \in old} BY DEF Detached
  <2> HIDE DEF old, g
  <2>2. CASE old = {} BY <2>1, <2>2
  <2>3. CASE old # {}
    <3>1. PICK h : h \in old BY <2>3
    <3> QED BY <2>1, <2>3, <3>1
  <2> QED BY <2>2, <2>3
<1>5. /\ (CHOOSE h \in Attached(hs, buf) : TRUE) \in Attached(hs, buf)
      /\ (CHOOSE h \in Detached(hs, names, t) : TRUE) \in Detached(hs, names, t)
  BY <1>3, <1>4
<1> QED BY <1>1, <1>2, <1>5

\* The client after the packet it waited for.
LEMMA AckClient ==
  ASSUME NEW c \in Client, call \in Call, NEW p, call.op = "connect" => ~c.ping_outstanding,
         call.op # "connect" => c.isconnected
  PROVE  /\ Acknowledged(c, p) \in Client
         /\ Acknowledged(c, p).ping_outstanding => c.ping_outstanding /\ c.isconnected
         /\ ~Acknowledged(c, p).isconnected => ~Acknowledged(c, p).ping_outstanding
<1> DEFINE attached == CHOOSE hs \in Attached(c.hs, call.buf) : TRUE
           detached == CHOOSE hs \in Detached(c.hs, names, call.topic) : TRUE
           A == Acknowledged(c, p)
<1>1. c.hs \in [1..MaxHandlers -> Handler] /\ call.buf \in Handler BY DEF Client, Call
<1>2. attached \in [1..MaxHandlers -> Handler] /\ detached \in [1..MaxHandlers -> Handler]
  BY <1>1, ChosenHandlers
<1>3. A = CASE call.op = "connect" -> [c EXCEPT !.isconnected = (p.qos = 0)]
            [] call.op = "subscribe" ->
                 IF p.qos = 128 \/ (p.qos # 0 /\ attached = c.hs) THEN Forget(c)
                 ELSE [c EXCEPT !.hs = attached]
            [] call.op = "unsubscribe" -> [c EXCEPT !.hs = detached]
            [] OTHER -> c
  BY DEF Acknowledged
<1>4. \A hs \in [1..MaxHandlers -> Handler] :
        LET d == [c EXCEPT !.hs = hs]
        IN d \in Client /\ d.isconnected = c.isconnected /\ d.ping_outstanding = c.ping_outstanding
  BY DEF Client
<1>5. \A v \in BOOLEAN :
        LET d == [c EXCEPT !.isconnected = v] IN d \in Client /\ d.ping_outstanding = c.ping_outstanding
  BY ZenonT(30) DEF Client
<1>6. Forget(c) \in Client /\ ~Forget(c).ping_outstanding BY Forgotten
<1> HIDE DEF attached, detached, A
<1>7. CASE call.op = "connect"
  <2> DEFINE v == p.qos = 0
  <2>1. A = [c EXCEPT !.isconnected = v] /\ v \in BOOLEAN BY <1>3, <1>7, Zenon
  <2> HIDE DEF v
  <2>2. A \in Client /\ A.ping_outstanding = c.ping_outstanding BY <1>5, <2>1, Zenon
  <2> QED BY <1>7, <2>2 DEF A
<1>8. CASE call.op = "subscribe"
  <2>1. A = Forget(c) \/ A = [c EXCEPT !.hs = attached] BY <1>3, <1>8, Zenon
  <2>2. ASSUME A = [c EXCEPT !.hs = attached]
        PROVE  A \in Client /\ A.isconnected = c.isconnected /\ A.ping_outstanding = c.ping_outstanding
    BY <1>2, <1>4, <2>2, Zenon
  <2> QED BY <1>6, <1>8, <2>1, <2>2 DEF A
<1>9. CASE call.op = "unsubscribe"
  <2>1. A = [c EXCEPT !.hs = detached] BY <1>3, <1>9, Zenon
  <2>2. A \in Client /\ A.isconnected = c.isconnected /\ A.ping_outstanding = c.ping_outstanding
    BY <1>2, <1>4, <2>1, Zenon
  <2> QED BY <1>9, <2>2 DEF A
<1>10. CASE call.op \notin {"connect", "subscribe", "unsubscribe"}
  <2>1. A = c BY <1>3, <1>10
  <2> QED BY <1>10, <2>1 DEF A
<1> QED BY <1>7, <1>8, <1>9, <1>10

(***************************************************************************)
(* A packet that ends the call: without torn reads, nothing is due after   *)
(* it, as it is the only acknowledgement on its way.                       *)
(***************************************************************************)
LEMMA Ends ==
  ASSUME PInv, call.st = "read", net.in # <<>>, Head(net.in).type # "PINGRESP", NEW p,
         \E a \in keepalive(cl, Taken) : net' = a.net /\ Returns(Acknowledged(a.cl, p)),
         names' = names, ~net.torn => ~Waits(call) \/ Acks(Head(net.in))
  PROVE  PInv'
<1>1. PICK a \in keepalive(cl, Taken) : net' = a.net /\ Returns(Acknowledged(a.cl, p)) OBVIOUS
<1>2. /\ Typed /\ cl \in Client /\ call \in Call /\ net \in Connection /\ (cl.isconnected \/ call.op = "connect")
      /\ ~net.torn => Whole(net, broker.owes)
      /\ ~net.torn => IF Waits(call) THEN call.mid # 0 /\ OneDue(net, broker.owes, call.mid)
                         ELSE NothingDue(net, broker.owes)
      /\ PingOf(cl, net, broker.owes)
      /\ call.op = "connect" => ~cl.isconnected /\ ~cl.ping_outstanding
  BY ReadingCall
<1>3. /\ Taken \in Connection /\ Taken.st = net.st /\ Taken.out = net.out /\ Taken.torn = net.torn
      /\ Taken.in = Tail(net.in)
  BY <1>2, TakeIn
<1>4. /\ ~net.torn => Whole(Taken, broker.owes) /\ NothingDue(Taken, broker.owes)
      /\ PingOf(cl, Taken, broker.owes)
  BY <1>2, <1>3, TakeDue, TakePing
<1>5. /\ a.cl \in Client /\ a.net \in Connection /\ a.net.torn = net.torn
      /\ a.cl.isconnected = cl.isconnected /\ (call.op = "connect" => a.cl = cl)
  BY <1>2, <1>3, Keepalive
<1>6. /\ ~net.torn => Whole(a.net, broker.owes) /\ NothingDue(a.net, broker.owes)
      /\ PingOf(a.cl, a.net, broker.owes)
  BY <1>2, <1>3, <1>4, KeepaliveDue
<1> DEFINE A == Acknowledged(a.cl, p)
<1>7. /\ A \in Client /\ (A.ping_outstanding => a.cl.ping_outstanding /\ a.cl.isconnected)
      /\ ~A.isconnected => ~A.ping_outstanding
  BY <1>2, <1>5, AckClient
<1> HIDE DEF A
<1>8. PingOf(A, a.net, broker.owes) BY <1>6, <1>7 DEF PingOf
<1> QED BY <1>1, <1>2, <1>5, <1>6, <1>7, <1>8, Returned DEF A

\* While a call waits, what it waits for is an acknowledgement.
LEMMA AwaitsAck ==
  ASSUME call \in Call
  PROVE  /\ Waits(call) => Awaits \in {"SUBACK", "UNSUBACK", "PUBACK"}
         /\ Awaits \in {"NONE", "CONNACK", "SUBACK", "UNSUBACK", "PUBACK"}
         /\ ~Waits(call) /\ call.st = "read" => Awaits \in {"NONE", "CONNACK"}
         /\ Awaits = "CONNACK" <=> call.op = "connect"
BY DEF Waits, Awaits, Call

LEMMA AcksRead == ASSUME PInv, ReadAck PROVE PInv'
<1>1. /\ call.st = "read" /\ net.in # <<>> /\ Head(net.in).type = Awaits /\ names' = names
      /\ \E a \in keepalive(cl, Taken) : net' = a.net /\ Returns(Acknowledged(a.cl, Head(net.in)))
  BY DEF ReadAck, Reading
<1>2. call \in Call BY DEF PInv, Typed
<1>3. Head(net.in).type # "PINGRESP" /\ (Waits(call) => Acks(Head(net.in))) BY <1>1, <1>2, AwaitsAck DEF Acks
<1> QED BY <1>1, <1>3, Ends

LEMMA JunkRead == ASSUME PInv, ReadJunk PROVE PInv'
<1> DEFINE p == [Pkt(Awaits) EXCEPT !.mid = MaxPacketId + 1]
<1>1. /\ call.st = "read" /\ net.in # <<>> /\ Head(net.in).type = "JUNK" /\ names' = names
      /\ \/ \E a \in keepalive(cl, Taken) : net' = a.net /\ Returns(Acknowledged(a.cl, p))
         \/ GoOn(cl, Taken, call)
  BY DEF ReadJunk, Reading
<1>2. /\ Typed /\ cl \in Client /\ call \in Call /\ net \in Connection /\ (cl.isconnected \/ call.op = "connect")
      /\ ~net.torn => Whole(net, broker.owes)
      /\ PhaseOf(cl, call) /\ PingOf(cl, net, broker.owes)
  BY <1>1, ReadingCall
<1>3. /\ Taken \in Connection /\ Taken.st = net.st /\ Taken.out = net.out /\ Taken.torn = net.torn
      /\ Taken.in = Tail(net.in)
  BY <1>1, <1>2, TakeIn
<1>4. net.torn
  <2>1. Whole(net, broker.owes) => ~Fragment(Head(net.in)) BY <1>1, <1>2, <1>3, TakeDue
  <2> QED BY <1>1, <1>2, <2>1 DEF Fragment
<1> HIDE DEF p
<1>5. ASSUME \E a \in keepalive(cl, Taken) : net' = a.net /\ Returns(Acknowledged(a.cl, p)) PROVE PInv'
  BY <1>1, <1>4, <1>5, Ends
<1>6. ASSUME GoOn(cl, Taken, call) PROVE PInv'
  <2>1. DueOf(cl, call, Taken, broker.owes) /\ PingOf(cl, Taken, broker.owes) BY <1>3, <1>4 DEF DueOf, PingOf
  <2> QED BY <1>1, <1>2, <1>3, <1>6, <2>1, GoneOn
<1> QED BY <1>1, <1>5, <1>6

LEMMA OthersRead == ASSUME PInv, ReadOther PROVE PInv'
<1> DEFINE c == [cl EXCEPT !.ping_outstanding = @ /\ Head(net.in).type # "PINGRESP"]
<1>1. /\ call.st = "read" /\ net.in # <<>> /\ names' = names
      /\ Head(net.in).type \notin {Awaits, "PUBLISH", "JUNK"} /\ GoOn(c, Taken, call)
  BY DEF ReadOther, Reading
<1>2. /\ Typed /\ cl \in Client /\ call \in Call /\ net \in Connection /\ (cl.isconnected \/ call.op = "connect")
      /\ ~net.torn => Whole(net, broker.owes)
      /\ ~net.torn => IF Waits(call) THEN call.mid # 0 /\ OneDue(net, broker.owes, call.mid)
                         ELSE NothingDue(net, broker.owes)
      /\ PhaseOf(cl, call) /\ PingOf(cl, net, broker.owes)
  BY <1>1, ReadingCall
<1>3. /\ Taken \in Connection /\ Taken.st = net.st /\ Taken.out = net.out /\ Taken.torn = net.torn
      /\ Taken.in = Tail(net.in)
  BY <1>1, <1>2, TakeIn
<1>4. /\ c \in Client /\ c.isconnected = cl.isconnected
      /\ c.ping_outstanding => cl.ping_outstanding /\ Head(net.in).type # "PINGRESP"
  <2> DEFINE v == cl.ping_outstanding /\ Head(net.in).type # "PINGRESP"
  <2>1. c = [cl EXCEPT !.ping_outstanding = v] /\ v \in BOOLEAN BY Zenon
  <2>2. v => cl.ping_outstanding /\ Head(net.in).type # "PINGRESP" OBVIOUS
  <2> HIDE DEF v, c
  <2>3. c \in Client /\ c.isconnected = cl.isconnected /\ c.ping_outstanding = v
    BY <1>2, <2>1, ZenonT(30) DEF Client
  <2> QED BY <2>2, <2>3
<1> HIDE DEF c
<1>5. PhaseOf(c, call) BY <1>2, <1>4 DEF PhaseOf
<1>6. DueOf(c, call, Taken, broker.owes)
  <2>1. \A m : /\ Whole(net, broker.owes) => Whole(Taken, broker.owes)
               /\ NothingDue(net, broker.owes) => NothingDue(Taken, broker.owes)
               /\ OneDue(net, broker.owes, m) => OneDue(Taken, broker.owes, m)
    BY <1>1, <1>2, <1>3, TakeDue
  <2> QED BY <1>2, <1>3, <2>1 DEF DueOf
<1>7. PingOf(c, Taken, broker.owes)
  <2>1. CASE Head(net.in).type = "PINGRESP" BY <1>4, <2>1 DEF PingOf
  <2>2. CASE Head(net.in).type # "PINGRESP"
    <3>1. PingOf(cl, Taken, broker.owes) BY <1>1, <1>2, <1>3, <2>2, TakePing
    <3> QED BY <1>4, <3>1 DEF PingOf
  <2> QED BY <2>1, <2>2
<1> QED BY <1>1, <1>2, <1>3, <1>4, <1>5, <1>6, <1>7, GoneOn

LEMMA PublishRead == ASSUME PInv, ReadPublish PROVE PInv'
<1>1. /\ call.st = "read" /\ net.in # <<>> /\ Head(net.in).type = "PUBLISH"
      /\ call' = [call EXCEPT !.st = "deliver", !.got = Head(net.in)] /\ net' = Taken
      /\ UNCHANGED <<names, cl, broker>>
  BY DEF ReadPublish, Reading
<1>2. /\ Typed /\ cl \in Client /\ call \in Call /\ net \in Connection
      /\ ~net.torn => Whole(net, broker.owes)
      /\ ~net.torn => IF Waits(call) THEN call.mid # 0 /\ OneDue(net, broker.owes, call.mid)
                         ELSE NothingDue(net, broker.owes)
      /\ PhaseOf(cl, call) /\ PingOf(cl, net, broker.owes)
  BY <1>1, ReadingCall
<1>3. /\ Taken \in Connection /\ Taken.st = net.st /\ Taken.out = net.out /\ Taken.torn = net.torn
      /\ Taken.in = Tail(net.in) /\ Head(net.in) \in MqttPacket
  BY <1>1, <1>2, TakeIn
<1>4. call' \in Call /\ call'.st = "deliver" /\ call'.op = call.op /\ call'.mid = call.mid
  BY <1>1, <1>2, <1>3 DEF Call
<1>5. Typed' BY <1>1, <1>2, <1>3, <1>4 DEF Typed
<1>6. PhaseOf(cl, call)' BY <1>1, <1>2, <1>4 DEF PhaseOf
<1>7. DueOf(cl, call, net, broker.owes)'
  <2>1. \A m : /\ Whole(net, broker.owes) => Whole(Taken, broker.owes)
               /\ NothingDue(net, broker.owes) => NothingDue(Taken, broker.owes)
               /\ OneDue(net, broker.owes, m) => OneDue(Taken, broker.owes, m)
    BY <1>1, <1>2, <1>3, TakeDue
  <2>2. Waits(call') <=> Waits(call) BY <1>1, <1>4 DEF Waits
  <2> QED BY <1>1, <1>2, <1>3, <1>4, <2>1, <2>2 DEF DueOf
<1>8. PingOf(cl, net, broker.owes)' BY <1>1, <1>2, <1>3, TakePing DEF PingOf
<1> QED BY <1>5, <1>6, <1>7, <1>8 DEF PInv

LEMMA CallbackMade == ASSUME PInv, Callback PROVE PInv'
BY DEF Callback, PInv, Typed, PhaseOf, DueOf, PingOf

LEMMA MessageAcked == ASSUME PInv, AckMessage PROVE PInv'
<1> DEFINE p == call.got
           again == [call EXCEPT !.st = "read", !.got = NoPkt]
           ack == [Pkt("PUBACK") EXCEPT !.mid = p.mid]
<1>1. /\ call.st = "deliver" /\ names' = names
      /\ \/ GoOn(cl, net, again)
         \/ GoOn(cl, Write(net, ack), again)
         \/ /\ call' = IF call.op = "yield" THEN Idle ELSE again
            /\ UNCHANGED <<cl, net, broker>>
  BY DEF AckMessage
<1>2. /\ Typed /\ cl \in Client /\ call \in Call /\ net \in Connection /\ (cl.isconnected \/ call.op = "connect")
      /\ ~net.torn => Whole(net, broker.owes)
      /\ ~net.torn => IF Waits(call) THEN call.mid # 0 /\ OneDue(net, broker.owes, call.mid)
                         ELSE NothingDue(net, broker.owes)
      /\ PhaseOf(cl, call) /\ PingOf(cl, net, broker.owes)
  BY <1>1, ReadingCall
<1>3. again \in Call /\ again.st = "read" /\ again.op = call.op /\ again.mid = call.mid
  BY <1>2, IdleCall DEF Call
<1>4. ack \in MqttPacket /\ ~Asks(ack)
  <2>1. Pkt("PUBACK") \in MqttPacket /\ Pkt("PUBACK").type = "PUBACK" BY PktType DEF PacketType
  <2>2. p.mid \in 0..MaxPacketId BY <1>2 DEF Call, MqttPacket
  <2> QED BY <2>1, <2>2 DEF MqttPacket, Asks
<1> HIDE DEF again, ack
<1>5. Waits(again) <=> Waits(call) BY <1>1, <1>3 DEF Waits
<1>6. PhaseOf(cl, again) BY <1>1, <1>2, <1>3 DEF PhaseOf
<1>7. DueOf(cl, again, net, broker.owes) BY <1>2, <1>3, <1>5 DEF DueOf
<1>8. ASSUME GoOn(cl, net, again) PROVE PInv' BY <1>1, <1>2, <1>3, <1>6, <1>7, <1>8, GoneOn
<1>9. ASSUME GoOn(cl, Write(net, ack), again) PROVE PInv'
  <2>1. /\ Write(net, ack) \in Connection /\ Write(net, ack).torn = net.torn
        /\ PingOf(cl, Write(net, ack), broker.owes)
    BY <1>2, <1>4, WriteOut, WritePing
  <2>2. DueOf(cl, again, Write(net, ack), broker.owes) BY <1>2, <1>4, <1>7, <2>1, WriteDue DEF DueOf
  <2> QED BY <1>1, <1>2, <1>3, <1>6, <1>9, <2>1, <2>2, GoneOn
<1>10. ASSUME call' = (IF call.op = "yield" THEN Idle ELSE again), UNCHANGED <<cl, net, broker>> PROVE PInv'
  <2>1. Typed' BY <1>1, <1>2, <1>3, <1>10, IdleCall DEF Typed
  <2>2. CASE call.op # "yield"
    <3>1. call' = again BY <1>10, <2>2
    <3> QED BY <1>2, <1>6, <1>7, <1>10, <2>1, <3>1 DEF PInv
  <2>3. CASE call.op = "yield"
    <3>1. call' = Idle BY <1>10, <2>3
    <3>2. PhaseOf(cl, call)' BY <1>2, <1>10, <2>3, <3>1, IdleCall DEF PhaseOf
    <3>3. ~Waits(call) /\ ~Waits(Idle) BY <2>3, IdleCall DEF Waits
    <3>4. DueOf(cl, call, net, broker.owes)' BY <1>2, <1>10, <3>1, <3>3, IdleCall DEF DueOf
    <3>5. PingOf(cl, net, broker.owes)' BY <1>2, <1>10 DEF PingOf
    <3> QED BY <2>1, <3>2, <3>4, <3>5 DEF PInv
  <2> QED BY <2>2, <2>3
<1> QED BY <1>1, <1>8, <1>9, <1>10

LEMMA TimeOuts == ASSUME PInv, TimedOut PROVE PInv'
<1>1. call.st = "read" /\ names' = names BY DEF TimedOut, Reading
<1>2. PICK a \in keepalive(cl, net) : net' = a.net /\ Returns(Failed(a.cl)) BY DEF TimedOut
<1>3. /\ Typed /\ cl \in Client /\ call \in Call /\ net \in Connection /\ (cl.isconnected \/ call.op = "connect")
      /\ ~net.torn => Whole(net, broker.owes)
      /\ ~net.torn => IF Waits(call) THEN call.mid # 0 /\ OneDue(net, broker.owes, call.mid)
                         ELSE NothingDue(net, broker.owes)
      /\ PingOf(cl, net, broker.owes)
      /\ call.op = "connect" => ~cl.isconnected /\ ~cl.ping_outstanding
  BY <1>1, ReadingCall
<1>4. /\ a.cl \in Client /\ a.net \in Connection /\ a.net.torn = net.torn
      /\ a.cl.isconnected = cl.isconnected /\ (call.op = "connect" => a.cl = cl)
  BY <1>3, Keepalive
<1>5. /\ Whole(net, broker.owes) => Whole(a.net, broker.owes)
      /\ NothingDue(net, broker.owes) => NothingDue(a.net, broker.owes)
      /\ PingOf(a.cl, a.net, broker.owes)
  BY <1>3, KeepaliveDue
<1> DEFINE f == Failed(a.cl)
<1>6. /\ f \in Client /\ (call.op \in {"yield", "connect"} => f = a.cl)
      /\ call.op \notin {"yield", "connect"} => ~f.isconnected /\ ~f.ping_outstanding
  BY <1>4, FailedClient
<1> HIDE DEF f
<1>7. PingOf(f, a.net, broker.owes) BY <1>5, <1>6 DEF PingOf
<1>8. ~f.isconnected => ~f.ping_outstanding BY <1>3, <1>4, <1>6
<1>9. f.isconnected => ~Waits(call) BY <1>6 DEF Waits
<1> QED BY <1>1, <1>2, <1>3, <1>4, <1>5, <1>6, <1>7, <1>8, <1>9, Returned DEF f

LEMMA TornRead == ASSUME PInv, ReadTorn PROVE PInv'
<1> DEFINE n == [net EXCEPT !.in = <<Pkt("JUNK")>> \o Tail(@), !.torn = TRUE]
           x == IF call.op = "yield" THEN Idle ELSE call
<1>1. call.st = "read" /\ net.in # <<>> /\ names' = names /\ GoOn(cl, n, x) BY DEF ReadTorn, Reading
<1>2. /\ Typed /\ cl \in Client /\ call \in Call /\ net \in Connection /\ (cl.isconnected \/ call.op = "connect")
      /\ PhaseOf(cl, call)
  BY <1>1, ReadingCall
<1>3. n \in Connection /\ n.torn
  <2> DEFINE s == <<Pkt("JUNK")>> \o Tail(net.in)
  <2>1. Pkt("JUNK") \in MqttPacket BY PktType DEF PacketType
  <2>2. Tail(net.in) \in Seq(MqttPacket) BY <1>1, <1>2, HeadTailProperties DEF Connection
  <2>3. s \in Seq(MqttPacket) BY <2>1, <2>2
  <2>4. n = [net EXCEPT !.in = s, !.torn = TRUE] OBVIOUS
  <2> HIDE DEF s, n
  <2> QED BY <1>2, <2>3, <2>4, ZenonT(60) DEF Connection
<1>4. x \in Call /\ PhaseOf(cl, x) BY <1>1, <1>2, IdleCall DEF PhaseOf
<1> HIDE DEF n, x
<1>5. DueOf(cl, x, n, broker.owes) /\ PingOf(cl, n, broker.owes) BY <1>3 DEF DueOf, PingOf
<1> QED BY <1>1, <1>2, <1>3, <1>4, <1>5, GoneOn

---------------------------------------------------------------------------
(* The broker and the network. *)

\* What is due when the broker acts on a packet and owes o afterwards.
LEMMA ActDue ==
  ASSUME NEW n \in Connection, NEW t \in Connection, n.out # <<>>, t.in = n.in, t.out = Tail(n.out),
         t.st = n.st, t.torn = n.torn, NEW o, NEW m, NEW c,
         Acks(o) => Asks(Head(n.out)) /\ o.mid = Head(n.out).mid,
         Head(n.out).type = "PINGREQ" => o.type = "PINGRESP"
  PROVE  /\ NothingDue(n, NoPkt) => NothingDue(t, o)
         /\ OneDue(n, NoPkt, m) => OneDue(t, o, m)
         /\ PingOf(c, n, NoPkt) => PingOf(c, t, o)
<1>1. n.out \in Seq(MqttPacket) BY DEF Connection
<1>2. /\ Len(t.out) = Len(n.out) - 1 /\ Len(n.out) \in Nat /\ 1 \in 1..Len(n.out) /\ Head(n.out) = n.out[1]
      /\ \A i \in 1..Len(t.out) : t.out[i] = n.out[i + 1]
  BY <1>1, HeadTailProperties
<1>3. \A i \in 1..Len(t.out) : i + 1 \in 1..Len(n.out) /\ i + 1 # 1 BY <1>2
<1>4. NothingDue(n, NoPkt) => NothingDue(t, o) BY <1>2, <1>3 DEF NothingDue
<1>5. OneDue(n, NoPkt, m) => OneDue(t, o, m)
  <2> SUFFICES ASSUME OneDue(n, NoPkt, m) PROVE OneDue(t, o, m) OBVIOUS
  <2>1. \A i, j \in 1..Len(t.out) : Asks(t.out[i]) /\ Asks(t.out[j]) => i = j
    <3> SUFFICES ASSUME NEW i \in 1..Len(t.out), NEW j \in 1..Len(t.out), Asks(t.out[i]), Asks(t.out[j])
                 PROVE  i = j
      OBVIOUS
    <3>1. i + 1 = j + 1 BY <1>2, <1>3 DEF OneDue
    <3> QED BY <1>2, <3>1
  <2>2. Acks(o) => /\ o.mid = m
                   /\ \A i \in 1..Len(t.out) : ~Asks(t.out[i])
                   /\ \A i \in 1..Len(t.in) : ~Acks(t.in[i])
    BY <1>2, <1>3 DEF OneDue
  <2>3. \A i \in 1..Len(t.out) : Asks(t.out[i]) => t.out[i].mid = m /\ \A j \in 1..Len(t.in) : ~Acks(t.in[j])
    BY <1>2, <1>3 DEF OneDue
  <2> QED BY <2>1, <2>2, <2>3 DEF OneDue
<1>6. PingOf(c, n, NoPkt) => PingOf(c, t, o)
  <2> SUFFICES ASSUME NEW i \in 1..Len(n.out), n.out[i].type = "PINGREQ"
               PROVE  o.type = "PINGRESP" \/ \E j \in 1..Len(t.out) : t.out[j].type = "PINGREQ"
    BY DEF PingOf, NoPkt, Pkt
  <2>1. CASE i = 1 BY <1>2, <2>1
  <2>2. CASE i # 1
    <3>1. i - 1 \in 1..Len(t.out) /\ (i - 1) + 1 = i BY <1>2, <2>2
    <3>2. t.out[i - 1] = n.out[i] BY <1>2, <3>1
    <3> QED BY <3>1, <3>2
  <2> QED BY <2>1, <2>2
<1> QED BY <1>4, <1>5, <1>6

\* What the broker owes after a packet p, and the subscriptions it keeps.
LEMMA Owed ==
  ASSUME PInv, BrokerActs
  PROVE  /\ broker' \in Session
         /\ Acks(broker'.owes) => Asks(Head(net.out)) /\ broker'.owes.mid = Head(net.out).mid
         /\ Head(net.out).type = "PINGREQ" => broker'.owes.type = "PINGRESP"
         /\ broker'.owes = NoPkt \/ ~Fragment(broker'.owes)
<1> DEFINE p == Head(net.out)
<1>1. net \in Connection /\ broker \in Session /\ net.out # <<>> /\ broker.owes = NoPkt
  BY DEF PInv, Typed, BrokerActs
<1>2. p \in MqttPacket BY <1>1, HeadTailProperties DEF Connection
<1>3. ~Acks(NoPkt) BY DEF NoPkt, Pkt, Acks
<1>4. \A o \in MqttPacket, S \in SUBSET Topic :
        LET b == [broker EXCEPT !.owes = o, !.subs = S] IN b \in Session /\ b.owes = o
  BY <1>1, ZenonT(30) DEF Session
<1>5. \A o \in MqttPacket :
        LET b == [broker EXCEPT !.owes = o] IN b \in Session /\ b.owes = o
  BY <1>1, ZenonT(30) DEF Session
<1>6. \A type \in PacketType \ {"SUBSCRIBE"} : LET r == Reply(p, type) IN
        r \in MqttPacket /\ r.type = type /\ r.mid = p.mid
  <2> TAKE type \in PacketType \ {"SUBSCRIBE"}
  <2>1. Pkt(type) \in MqttPacket /\ Pkt(type).type = type BY PktType
  <2>2. p.mid \in 0..MaxPacketId BY <1>2 DEF MqttPacket
  <2> QED BY <2>1, <2>2 DEF Reply, MqttPacket
<1> HIDE DEF p
<1>7. ASSUME p.type = "CONNECT", NEW rc \in {0, 5},
             broker' = [broker EXCEPT !.owes = [Pkt("CONNACK") EXCEPT !.qos = rc]]
      PROVE  broker' \in Session /\ broker'.owes.type = "CONNACK"
  <2> DEFINE o == [Pkt("CONNACK") EXCEPT !.qos = rc]
  <2>1. Pkt("CONNACK") \in MqttPacket /\ Pkt("CONNACK").type = "CONNACK" BY PktType DEF PacketType
  <2>2. o \in MqttPacket /\ o.type = "CONNACK" BY <2>1 DEF MqttPacket
  <2> HIDE DEF o
  <2> QED BY <1>5, <1>7, <2>2 DEF o
<1>8. ASSUME p.type = "SUBSCRIBE", NEW rc \in {0, 1, 128},
             broker' = [broker EXCEPT !.owes = [Reply(p, "SUBACK") EXCEPT !.qos = rc],
                                      !.subs = IF rc = 128 THEN @ ELSE @ \cup {p.topic}]
      PROVE  broker' \in Session /\ broker'.owes.type = "SUBACK" /\ broker'.owes.mid = p.mid
  <2> DEFINE o == [Reply(p, "SUBACK") EXCEPT !.qos = rc]
             S == IF rc = 128 THEN broker.subs ELSE broker.subs \cup {p.topic}
  <2>0. LET r == Reply(p, "SUBACK") IN r \in MqttPacket /\ r.type = "SUBACK" /\ r.mid = p.mid
    BY <1>6 DEF PacketType
  <2>1. o \in MqttPacket /\ o.type = "SUBACK" /\ o.mid = p.mid BY <2>0 DEF MqttPacket
  <2>2. S \in SUBSET Topic BY <1>1, <1>2, <1>8 DEF Session, MqttPacket
  <2>3. broker' = [broker EXCEPT !.owes = o, !.subs = S] BY <1>8
  <2> HIDE DEF o, S
  <2> QED BY <1>4, <2>1, <2>2, <2>3
<1>9. ASSUME p.type = "UNSUBSCRIBE",
             broker' = [broker EXCEPT !.owes = Reply(p, "UNSUBACK"), !.subs = @ \ {p.topic}]
      PROVE  broker' \in Session /\ broker'.owes.type = "UNSUBACK" /\ broker'.owes.mid = p.mid
  <2> DEFINE o == Reply(p, "UNSUBACK")
             S == broker.subs \ {p.topic}
  <2>1. o \in MqttPacket /\ o.type = "UNSUBACK" /\ o.mid = p.mid BY <1>6 DEF PacketType
  <2>2. S \in SUBSET Topic BY <1>1 DEF Session
  <2>3. broker' = [broker EXCEPT !.owes = o, !.subs = S] BY <1>9
  <2> HIDE DEF o, S
  <2> QED BY <1>4, <2>1, <2>2, <2>3
<1>10. ASSUME p.type = "PUBLISH",
              broker' = [broker EXCEPT !.owes = CASE p.qos = 1 -> Reply(p, "PUBACK")
                                                  [] p.qos = 2 -> Reply(p, "PUBREC")
                                                  [] OTHER -> NoPkt]
       PROVE  /\ broker' \in Session
              /\ \/ p.qos = 1 /\ broker'.owes.type = "PUBACK" /\ broker'.owes.mid = p.mid
                 \/ broker'.owes.type = "PUBREC" \/ broker'.owes = NoPkt
  <2> DEFINE o == CASE p.qos = 1 -> Reply(p, "PUBACK") [] p.qos = 2 -> Reply(p, "PUBREC") [] OTHER -> NoPkt
  <2>1. o \in MqttPacket /\ \/ p.qos = 1 /\ o.type = "PUBACK" /\ o.mid = p.mid
                            \/ o.type = "PUBREC" \/ o = NoPkt
    <3>1. CASE p.qos = 1
      <4>1. o = Reply(p, "PUBACK") BY <3>1
      <4> HIDE DEF o
      <4> QED BY <1>6, <3>1, <4>1 DEF PacketType
    <3>2. CASE p.qos = 2
      <4>1. o = Reply(p, "PUBREC") BY <3>2
      <4> HIDE DEF o
      <4> QED BY <1>6, <4>1 DEF PacketType
    <3>3. CASE p.qos \notin {1, 2}
      <4>1. o = NoPkt BY <3>3
      <4> QED BY <4>1, IdleCall
    <3> QED BY <3>1, <3>2, <3>3
  <2>2. broker' = [broker EXCEPT !.owes = o] BY <1>10
  <2> HIDE DEF o
  <2> QED BY <1>5, <2>1, <2>2
<1>11. ASSUME p.type = "PINGREQ", broker' = [broker EXCEPT !.owes = Pkt("PINGRESP")]
       PROVE  broker' \in Session /\ broker'.owes.type = "PINGRESP"
  <2>1. Pkt("PINGRESP") \in MqttPacket /\ Pkt("PINGRESP").type = "PINGRESP" BY PktType DEF PacketType
  <2> QED BY <1>5, <1>11, <2>1
<1>12. \/ /\ p.type = "CONNECT"
          /\ \E rc \in {0, 5} : broker' = [broker EXCEPT !.owes = [Pkt("CONNACK") EXCEPT !.qos = rc]]
       \/ /\ p.type = "SUBSCRIBE"
          /\ \E rc \in {0, 1, 128} :
               broker' = [broker EXCEPT !.owes = [Reply(p, "SUBACK") EXCEPT !.qos = rc],
                                        !.subs = IF rc = 128 THEN @ ELSE @ \cup {p.topic}]
       \/ /\ p.type = "UNSUBSCRIBE"
          /\ broker' = [broker EXCEPT !.owes = Reply(p, "UNSUBACK"), !.subs = @ \ {p.topic}]
       \/ /\ p.type = "PUBLISH"
          /\ broker' = [broker EXCEPT !.owes = CASE p.qos = 1 -> Reply(p, "PUBACK")
                                                 [] p.qos = 2 -> Reply(p, "PUBREC")
                                                 [] OTHER -> NoPkt]
       \/ p.type = "PINGREQ" /\ broker' = [broker EXCEPT !.owes = Pkt("PINGRESP")]
       \/ p.type = "PUBACK" /\ UNCHANGED broker
  BY Zenon DEF BrokerActs, p
<1>13. CASE p.type = "PUBACK" BY <1>1, <1>3, <1>12, <1>13 DEF p
<1>14. CASE p.type = "CONNECT" BY <1>7, <1>12, <1>14 DEF p, Acks, Fragment
<1>15. CASE p.type = "SUBSCRIBE" BY <1>8, <1>12, <1>15 DEF p, Acks, Asks, Fragment
<1>16. CASE p.type = "UNSUBSCRIBE" BY <1>9, <1>12, <1>16 DEF p, Acks, Asks, Fragment
<1>17. CASE p.type = "PUBLISH" BY <1>3, <1>10, <1>12, <1>17 DEF p, Acks, Asks, Fragment
<1>18. CASE p.type = "PINGREQ" BY <1>11, <1>12, <1>18 DEF p, Acks, Fragment
<1> QED BY <1>12, <1>13, <1>14, <1>15, <1>16, <1>17, <1>18

LEMMA Acts == ASSUME PInv, BrokerActs PROVE PInv'
<1>1. /\ net.out # <<>> /\ broker.owes = NoPkt /\ net' = [net EXCEPT !.out = Tail(@)]
      /\ UNCHANGED <<names, cl, call, cb>>
  BY DEF BrokerActs
<1>2. Typed /\ net \in Connection BY DEF PInv, Typed
<1>3. /\ net' \in Connection /\ net'.in = net.in /\ net'.out = Tail(net.out)
      /\ net'.st = net.st /\ net'.torn = net.torn
  <2>1. Tail(net.out) \in Seq(MqttPacket) BY <1>1, <1>2, HeadTailProperties DEF Connection
  <2> QED BY <1>1, <1>2, <2>1 DEF Connection
<1>4. /\ broker' \in Session
      /\ Acks(broker'.owes) => Asks(Head(net.out)) /\ broker'.owes.mid = Head(net.out).mid
      /\ Head(net.out).type = "PINGREQ" => broker'.owes.type = "PINGRESP"
      /\ broker'.owes = NoPkt \/ ~Fragment(broker'.owes)
  BY Owed
<1>5. Typed' BY <1>1, <1>2, <1>3, <1>4 DEF Typed
<1>6. \A m : /\ NothingDue(net, NoPkt) => NothingDue(net', broker'.owes)
             /\ OneDue(net, NoPkt, m) => OneDue(net', broker'.owes, m)
             /\ PingOf(cl, net, NoPkt) => PingOf(cl, net', broker'.owes)
  BY <1>1, <1>2, <1>3, <1>4, ActDue
<1>7. Whole(net, NoPkt) => Whole(net', broker'.owes) BY <1>3, <1>4 DEF Whole
<1>8. DueOf(cl, call, net, broker.owes)' BY <1>1, <1>3, <1>6, <1>7 DEF PInv, DueOf
<1> QED BY <1>1, <1>5, <1>6, <1>8 DEF PInv, PhaseOf

\* What is due when the broker sends p and owes o afterwards.
LEMMA SentDue ==
  ASSUME NEW n \in Connection, NEW p \in MqttPacket, NEW t \in Connection, t.in = Append(n.in, p),
         t.out = n.out, t.st = n.st, t.torn = n.torn, NEW b, NEW o, NEW m, NEW c,
         (p = b /\ o = NoPkt) \/ (o = b /\ p.type = "PUBLISH")
  PROVE  /\ NothingDue(n, b) => NothingDue(t, o)
         /\ OneDue(n, b, m) => OneDue(t, o, m)
         /\ Whole(n, b) /\ p # NoPkt => Whole(t, o)
         /\ PingOf(c, n, b) => PingOf(c, t, o)
<1>1. n.in \in Seq(MqttPacket) BY DEF Connection
<1>2. /\ Len(t.in) = Len(n.in) + 1 /\ Len(n.in) \in Nat
      /\ \A i \in 1..Len(n.in) : t.in[i] = n.in[i]
      /\ t.in[Len(n.in) + 1] = p
  BY <1>1, AppendProperties
<1>3. /\ \A i \in 1..Len(t.in) : (i \in 1..Len(n.in) /\ t.in[i] = n.in[i]) \/ (i = Len(n.in) + 1 /\ t.in[i] = p)
      /\ \A i \in 1..Len(n.in) : i \in 1..Len(t.in)
      /\ Len(n.in) + 1 \in 1..Len(t.in)
  BY <1>2
<1>4. ~Acks(NoPkt) /\ NoPkt.type # "PINGRESP" BY DEF NoPkt, Pkt, Acks
<1>5. p.type = "PUBLISH" => ~Acks(p) /\ ~Fragment(p) BY DEF Acks, Fragment
<1>6. NothingDue(n, b) => NothingDue(t, o) BY <1>3, <1>4, <1>5 DEF NothingDue
<1>7. Whole(n, b) /\ p # NoPkt => Whole(t, o) BY <1>3, <1>5 DEF Whole
<1>8. PingOf(c, n, b) => PingOf(c, t, o) BY <1>2, <1>3 DEF PingOf
<1>9. OneDue(n, b, m) => OneDue(t, o, m)
  <2>1. CASE o = b /\ p.type = "PUBLISH"
    <3>1. \A i \in 1..Len(t.in) : Acks(t.in[i]) => i \in 1..Len(n.in) /\ t.in[i] = n.in[i] BY <1>3, <1>5, <2>1
    <3> QED BY <2>1, <3>1 DEF OneDue
  <2>2. CASE p = b /\ o = NoPkt /\ ~Acks(p)
    <3>1. \A i \in 1..Len(t.in) : Acks(t.in[i]) => i \in 1..Len(n.in) /\ t.in[i] = n.in[i] BY <1>3, <2>2
    <3> QED BY <1>4, <2>2, <3>1 DEF OneDue
  <2>3. ASSUME p = b, o = NoPkt, Acks(p), OneDue(n, b, m) PROVE OneDue(t, o, m)
    <3>1. /\ \A i \in 1..Len(n.in) : ~Acks(n.in[i])
          /\ \A i \in 1..Len(t.out) : ~Asks(t.out[i])
          /\ p.mid = m
      BY <2>3 DEF OneDue
    <3>2. \A i \in 1..Len(t.in) : Acks(t.in[i]) => i = Len(n.in) + 1 /\ t.in[i] = p BY <1>3, <3>1
    <3> QED BY <1>4, <2>3, <3>1, <3>2 DEF OneDue
  <2> QED BY <2>1, <2>2, <2>3
<1> QED BY <1>6, <1>7, <1>8, <1>9

LEMMA Answers == ASSUME PInv, BrokerAnswers PROVE PInv'
<1>1. /\ broker.owes # NoPkt /\ net' = [net EXCEPT !.in = Append(@, broker.owes)]
      /\ broker' = [broker EXCEPT !.owes = NoPkt] /\ UNCHANGED <<names, cl, call, cb>>
  BY DEF BrokerAnswers
<1>2. Typed /\ net \in Connection /\ broker \in Session /\ broker.owes \in MqttPacket BY DEF PInv, Typed, Session
<1>3. /\ net' \in Connection /\ net'.in = Append(net.in, broker.owes) /\ net'.out = net.out
      /\ net'.st = net.st /\ net'.torn = net.torn
  <2>1. Append(net.in, broker.owes) \in Seq(MqttPacket) BY <1>2 DEF Connection
  <2> QED BY <1>1, <1>2, <2>1 DEF Connection
<1>4. broker' \in Session /\ broker'.owes = NoPkt BY <1>1, <1>2, IdleCall, ZenonT(30) DEF Session
<1>5. Typed' BY <1>1, <1>2, <1>3, <1>4 DEF Typed
<1>6. \A m : /\ NothingDue(net, broker.owes) => NothingDue(net', NoPkt)
             /\ OneDue(net, broker.owes, m) => OneDue(net', NoPkt, m)
             /\ Whole(net, broker.owes) => Whole(net', NoPkt)
             /\ PingOf(cl, net, broker.owes) => PingOf(cl, net', NoPkt)
  <2> TAKE m
  <2> DEFINE b == broker.owes
             t == net'
  <2>1. /\ t \in Connection /\ t.in = Append(net.in, b) /\ t.out = net.out
        /\ t.st = net.st /\ t.torn = net.torn /\ b \in MqttPacket /\ b # NoPkt
    BY <1>1, <1>2, <1>3
  <2> HIDE DEF b, t
  <2>2. /\ NothingDue(net, b) => NothingDue(t, NoPkt)
        /\ OneDue(net, b, m) => OneDue(t, NoPkt, m)
        /\ Whole(net, b) => Whole(t, NoPkt)
        /\ PingOf(cl, net, b) => PingOf(cl, t, NoPkt)
    BY <1>2, <2>1, SentDue
  <2> QED BY <2>2 DEF b, t
<1>7. DueOf(cl, call, net, broker.owes)' BY <1>1, <1>3, <1>4, <1>6 DEF PInv, DueOf
<1> QED BY <1>1, <1>4, <1>5, <1>6, <1>7 DEF PInv, PhaseOf

LEMMA Publishes == ASSUME PInv, BrokerPublishes PROVE PInv'
<1>1. PICK t \in broker.subs, q \in {0, 1} :
        net' = [net EXCEPT !.in = Append(@, [type |-> "PUBLISH", topic |-> t, mid |-> q, qos |-> q])]
  BY DEF BrokerPublishes
<1> DEFINE p == [type |-> "PUBLISH", topic |-> t, mid |-> q, qos |-> q]
<1>2. UNCHANGED <<names, cl, call, cb, broker>> BY DEF BrokerPublishes
<1>3. Typed /\ net \in Connection /\ broker \in Session BY DEF PInv, Typed
<1>4. p \in MqttPacket /\ p.type = "PUBLISH" /\ p # NoPkt
  <2>1. MaxPacketId \in Nat \ {0} BY ClientAssumption, Zenon
  <2>2. q \in 0..MaxPacketId /\ t \in Topic BY <1>3, <2>1 DEF Session
  <2> QED BY <2>2 DEF MqttPacket, PacketType, NoPkt, Pkt
<1>5. net' = [net EXCEPT !.in = Append(@, p)] BY <1>1
<1> HIDE DEF p
<1>6. /\ net' \in Connection /\ net'.in = Append(net.in, p) /\ net'.out = net.out
      /\ net'.st = net.st /\ net'.torn = net.torn
  <2>1. Append(net.in, p) \in Seq(MqttPacket) BY <1>3, <1>4 DEF Connection
  <2> QED BY <1>3, <1>5, <2>1 DEF Connection
<1>7. Typed' BY <1>2, <1>3, <1>6 DEF Typed
<1>8. \A m : /\ NothingDue(net, broker.owes) => NothingDue(net', broker.owes)
             /\ OneDue(net, broker.owes, m) => OneDue(net', broker.owes, m)
             /\ Whole(net, broker.owes) => Whole(net', broker.owes)
             /\ PingOf(cl, net, broker.owes) => PingOf(cl, net', broker.owes)
  <2> TAKE m
  <2> DEFINE b == broker.owes
             n == net'
  <2>1. /\ n \in Connection /\ n.in = Append(net.in, p) /\ n.out = net.out
        /\ n.st = net.st /\ n.torn = net.torn
    BY <1>6
  <2> HIDE DEF b, n
  <2>2. /\ NothingDue(net, b) => NothingDue(n, b)
        /\ OneDue(net, b, m) => OneDue(n, b, m)
        /\ Whole(net, b) => Whole(n, b)
        /\ PingOf(cl, net, b) => PingOf(cl, n, b)
    BY <1>3, <1>4, <2>1, SentDue
  <2> QED BY <2>2 DEF b, n
<1>9. DueOf(cl, call, net, broker.owes)' BY <1>2, <1>6, <1>8 DEF PInv, DueOf
<1> QED BY <1>2, <1>7, <1>8, <1>9 DEF PInv, PhaseOf

LEMMA Breaks == ASSUME PInv, BrokerGone \/ ConnectionLost PROVE PInv'
<1>1. UNCHANGED <<names, cl, call, cb, broker>> BY DEF BrokerGone, ConnectionLost
<1>2. Typed /\ net \in Connection BY DEF PInv, Typed
<1>3. /\ net' \in Connection /\ net'.torn = net.torn /\ net'.st # "up"
      /\ net'.out \in {<<>>, net.out} /\ net'.in \in {<<>>, net.in}
  <2>0. <<>> \in Seq(MqttPacket) OBVIOUS
  <2>1. CASE BrokerGone
    <3>1. net' = [net EXCEPT !.st = "closing", !.out = <<>>] BY <2>1 DEF BrokerGone
    <3> QED BY <1>2, <2>0, <3>1, ZenonT(60) DEF Connection
  <2>2. CASE ConnectionLost /\ net' = [net EXCEPT !.st = "dead", !.in = <<>>]
    BY <1>2, <2>0, <2>2, ZenonT(60) DEF Connection
  <2>3. CASE ConnectionLost /\ net' = [net EXCEPT !.st = "eof"]
    BY <1>2, <2>0, <2>3, ZenonT(60) DEF Connection
  <2> QED BY <2>1, <2>2, <2>3 DEF ConnectionLost
<1>4. Typed' BY <1>1, <1>2, <1>3 DEF Typed
<1>5. Len(<<>>) = 0 /\ \A i \in 1..Len(<<>>) : FALSE OBVIOUS
<1>6. \A o, m : /\ NothingDue(net, o) => NothingDue(net', o)
                /\ OneDue(net, o, m) => OneDue(net', o, m)
                /\ Whole(net, o) => Whole(net', o)
  BY <1>3, <1>5 DEF NothingDue, OneDue, Whole
<1>7. DueOf(cl, call, net, broker.owes)' BY <1>1, <1>3, <1>6 DEF PInv, DueOf
<1>8. PingOf(cl, net, broker.owes)' BY <1>3 DEF PingOf
<1> QED BY <1>1, <1>4, <1>7, <1>8 DEF PInv, PhaseOf

---------------------------------------------------------------------------
(* The theorems. *)

\* PInv is an inductive invariant of the Paho client.
THEOREM ClientInvariant == Spec => []PInv
<1>1. Init => PInv
  <2> SUFFICES ASSUME Init PROVE PInv OBVIOUS
  <2>1. cl \in Client /\ ~cl.isconnected /\ ~cl.ping_outstanding
    <3>1. NoHandlers \in [1..MaxHandlers -> Handler] BY DEF NoHandlers, Handler
    <3>2. MaxPacketId \in Nat \ {0} BY ClientAssumption, Zenon
    <3>3. 0 \in 0..MaxPacketId BY <3>2
    <3> QED BY <3>1, <3>3 DEF Init, Client
  <2>2. net \in Connection /\ net.st = "dead" /\ net.in = <<>>
    <3>1. <<>> \in Seq(MqttPacket) OBVIOUS
    <3>2. net = [st |-> "dead", out |-> <<>>, in |-> <<>>, torn |-> FALSE] BY DEF Init
    <3> QED BY <3>1, <3>2, ZenonT(30) DEF Connection
  <2>3. broker \in Session /\ broker.owes = NoPkt BY IdleCall DEF Init, NoSession, Session
  <2>4. call = Idle BY DEF Init
  <2>5. Typed BY <2>1, <2>2, <2>3, <2>4, IdleCall DEF Typed, Init
  <2>6. PhaseOf(cl, call) BY <2>1, <2>4, IdleCall DEF PhaseOf
  <2>7. Whole(net, broker.owes) BY <2>2, <2>3 DEF Whole
  <2>8. DueOf(cl, call, net, broker.owes) BY <2>1, <2>4, <2>7, IdleCall DEF DueOf
  <2>9. PingOf(cl, net, broker.owes) BY <2>1 DEF PingOf
  <2> QED BY <2>5, <2>6, <2>8, <2>9 DEF PInv
<1>2. PInv /\ [Next]_vars => PInv'
  <2> SUFFICES ASSUME PInv, [Next]_vars PROVE PInv' OBVIOUS
  <2>1. CASE Caller BY <2>1, Lookups, Connects, Yields, Requests DEF Caller
  <2>2. CASE Step
    BY <2>2, Refuses, Sends, AcksRead, OthersRead, PublishRead, CallbackMade, MessageAcked, TornRead, JunkRead
    DEF Step
  <2>3. CASE TimedOut BY <2>3, TimeOuts
  <2>4. CASE Environment BY <2>4, Acts, Answers, Publishes, Breaks DEF Environment
  <2>5. CASE Spin \/ UNCHANGED vars
    BY <2>5 DEF Spin, vars, PInv, Typed, PhaseOf, DueOf, PingOf
  <2> QED BY <2>1, <2>2, <2>3, <2>4, <2>5 DEF Next
<1> QED BY <1>1, <1>2, PTL DEF Spec

\* The client, the call, the connection and the broker's session keep their types.
THEOREM ClientTypes == Spec => []ClientTypeOK
<1>1. PInv => ClientTypeOK BY DEF PInv, Typed, ClientTypeOK, Client, Call, Session, Connection
<1> QED BY <1>1, ClientInvariant, PTL

(***************************************************************************)
(* A client that marks a ping as outstanding, and so sends no other, has a *)
(* PINGREQ or a PINGRESP on its way, as long as the connection lives.      *)
(***************************************************************************)
THEOREM PingIsPending == Spec => []PingPending
<1>1. PInv => PingPending
  <2> SUFFICES ASSUME PInv PROVE PingPending OBVIOUS
  <2>1. net.out \in Seq(MqttPacket) /\ net.in \in Seq(MqttPacket) BY DEF PInv, Typed, Connection
  <2>2. DOMAIN net.out = 1..Len(net.out) /\ DOMAIN net.in = 1..Len(net.in) BY <2>1
  <2> QED BY <2>2 DEF PInv, PingOf, PingPending
<1> QED BY <1>1, ClientInvariant, PTL

(***************************************************************************)
(* waitfor compares types only, but the acknowledgement that ends a call   *)
(* is the answer to its own request.                                       *)
(***************************************************************************)
THEOREM OwnAcknowledgement == Spec => AckIsOwn
<1>1. ASSUME PInv, ReadAck, ~net.torn
      PROVE  call.op = "connect" \/ (Head(net.in).mid = call.mid /\ call.mid # 0)
  <2>1. call.st = "read" /\ net.in # <<>> /\ Head(net.in).type = Awaits BY <1>1 DEF ReadAck, Reading
  <2>2. /\ call \in Call /\ net \in Connection /\ Whole(net, broker.owes)
        /\ Waits(call) => call.mid # 0 /\ OneDue(net, broker.owes, call.mid)
    BY <1>1, <2>1, ReadingCall
  <2>3. /\ Taken \in Connection /\ Taken.out = net.out /\ Taken.in = Tail(net.in)
    BY <2>1, <2>2, TakeIn
  <2>4. ~Fragment(Head(net.in)) /\ \A m : OneDue(net, broker.owes, m) /\ Acks(Head(net.in)) => Head(net.in).mid = m
    BY <2>1, <2>2, <2>3, TakeDue
  <2>5. CASE Waits(call)
    <3>1. Acks(Head(net.in)) BY <2>1, <2>2, <2>5, AwaitsAck DEF Acks
    <3> QED BY <2>2, <2>4, <2>5, <3>1
  <2>6. CASE ~Waits(call)
    <3>1. Awaits = "CONNACK" BY <2>1, <2>2, <2>4, <2>6, AwaitsAck DEF Fragment
    <3> QED BY <2>2, <3>1, AwaitsAck
  <2> QED BY <2>5, <2>6
<1>2. PInv => [ReadAck /\ ~net.torn =>
                 call.op = "connect" \/ (Head(net.in).mid = call.mid /\ call.mid # 0)]_vars
  BY <1>1
<1> QED BY <1>2, ClientInvariant, PTL DEF AckIsOwn
============================================================================
