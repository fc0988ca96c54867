----------------------------- MODULE RowProofs -----------------------------
(***************************************************************************)
(* What the operations do to the rows of the registry and to the files of  *)
(* a slot.  Almost every operation is quiet: it keeps the number of rows,  *)
(* their ids and addresses, the global counts and every queued message,    *)
(* appends to the registrations at most, takes no subscription away, and   *)
(* leaves the files of a slot in agreement.  A visit is spent: it also     *)
(* sends queued messages, and takes away only what it sends.  CONNECT, the *)
(* removal of a client or of a subscription and the counting of            *)
(* subscriptions are the exceptions; module SafetyProofs treats them one   *)
(* by one.                                                                 *)
(***************************************************************************)
EXTENDS GatewayProofs

\* r has the entries of q where q has them.
Grows(q, r) == Len(q) <= Len(r) /\ \A i \in 1..Len(q) : r[i] = q[i]

\* No topic is registered twice.
RegOK(reg) == \A i, j \in DOMAIN reg : reg[i] = reg[j] => i = j

\* A subscription has the id its topic is registered under, and no topic has two.
SubOK(reg, sub) ==
  \A i \in DOMAIN sub :
    IF sub[i].tid = 0 THEN sub[i].name = Empty
    ELSE /\ sub[i].name \in Topic
         /\ sub[i].tid \in DOMAIN reg
         /\ reg[sub[i].tid] = sub[i].name
         /\ \A j \in DOMAIN sub : sub[j].name = sub[i].name => i = j

\* A queued message has its position, and the id its topic is registered under.
PubOK(reg, pub) ==
  \A i \in DOMAIN pub :
    pub[i].pid # 0 =>
      /\ pub[i].pid = i
      /\ pub[i].tid \in DOMAIN reg
      /\ pub[i].data # Damaged => reg[pub[i].tid] = pub[i].data[1]

\* The files of the slot agree.
FilesOK(r) == RegOK(r.reg) /\ SubOK(r.reg, r.sub) /\ PubOK(r.reg, r.pub)

\* A slot is free or belongs to a client that connected from its address.
Proper(r) ==
  /\ r.id = NoId <=> r.addr = NoAddress
  /\ r.id = NoId <=> r.status = "EMPTY"
  /\ r.id # NoId => \E p \in Packets : p.type = "CONNECT" /\ p.id = r.id /\ p.addr = r.addr

\* No subscription is left in the file.
Unsubscribed(r) == \A j \in DOMAIN r.sub : r.sub[j].tid = 0
Vacant(r) == r.id = NoId => Unsubscribed(r)

\* A queued message has its position for its id.
Numbered(r) == \A i \in DOMAIN r.pub : r.pub[i].pid # 0 => r.pub[i].pid = i

\* What may become of the row r, also when a message is queued for its client.
RowCarried(r, q) ==
  /\ q.id = r.id /\ q.addr = r.addr
  /\ Grows(r.reg, q.reg)
  /\ Numbered(r) => Numbered(q)
  /\ FilesOK(r) => FilesOK(q)
  /\ Proper(r) => Proper(q)
  /\ Proper(r) /\ Vacant(r) => Vacant(q)

\* The client of the row r is subscribed to x, and to what it was subscribed in r.
SubscribedTo(r, x) == \E j \in DOMAIN r.sub : r.sub[j].name = x
RowLoyal(r, q) == \A x \in Topic : SubscribedTo(r, x) => SubscribedTo(q, x)

\* What is queued in r is still queued.
RowRetained(r, q) == \A j \in Queued(r) : j \in Queued(q) /\ SameMessage(r.pub[j], q.pub[j])

\* What a visit may make of the row r: nothing is queued, but a message may have been sent.
RowSpent(r, q) == RowCarried(r, q) /\ RowLoyal(r, q) /\ Queued(q) \subseteq Queued(r)

\* What any other operation on the client of the row r may make of it.
RowKept(r, q) == RowSpent(r, q) /\ RowRetained(r, q)

Kept(s, t) ==
  /\ Len(t.clients) = Len(s.clients)
  /\ \A c \in 1..Len(s.clients) : RowKept(s.clients[c], t.clients[c])

Quiet(s, t) == Kept(s, t) /\ t.count = s.count

Spent(s, t) ==
  /\ Len(t.clients) = Len(s.clients) /\ t.count = s.count
  /\ \A c \in 1..Len(s.clients) : RowSpent(s.clients[c], t.clients[c])

Retained(s, t) ==
  /\ Len(t.clients) = Len(s.clients)
  /\ \A c \in 1..Len(s.clients) : RowRetained(s.clients[c], t.clients[c])

\* Entry d, queued for the client with address a, is sent in m.
SentIn(a, d, m) ==
  /\ d.qos = 0
  /\ \E i \in DOMAIN m :
       m[i].type = "PUBLISH" /\ m[i].to = a /\ m[i].tid = d.tid /\ m[i].data = d.data

\* What is sent in m is sent in n.
Within(m, n) == \A i \in DOMAIN m : \E j \in DOMAIN n : n[j] = m[i]

\* What is queued in s is still queued in t or sent in m.
Delivered(s, t, m) ==
  /\ Len(t.clients) = Len(s.clients)
  /\ \A c \in 1..Len(s.clients) : \A j \in Queued(s.clients[c]) :
       LET r == s.clients[c]
           q == t.clients[c]
       IN \/ j \in Queued(q) /\ SameMessage(r.pub[j], q.pub[j])
          \/ SentIn(r.addr, r.pub[j], m)

\* The clients that are there: messages are queued for no others.
Present == {"ACTIVE", "ASLEEP", "AWAKE"}

Carried(s, t) ==
  /\ Len(t.clients) = Len(s.clients)
  /\ \A c \in 1..Len(s.clients) :
       /\ RowCarried(s.clients[c], t.clients[c])
       /\ \/ Queued(t.clients[c]) \subseteq Queued(s.clients[c])
          \/ s.clients[c].status \in Present

\* No client loses a subscription.
Loyal(s, t) ==
  /\ Len(s.clients) <= Len(t.clients)
  /\ \A c \in 1..Len(s.clients) : RowLoyal(s.clients[c], t.clients[c])

\* No client loses a subscription, and no topic is counted up.
Faithful(s, t) == Loyal(s, t) /\ \A x \in Topic : t.count[x] <= s.count[x]

\* A client that was not subscribed to x is now.
Joined(s, t, x) ==
  \E c \in 1..Len(s.clients) : ~SubscribedTo(s.clients[c], x) /\ SubscribedTo(t.clients[c], x)

\* The topic name buffers are left alone.
Held(s, t) == t.regbuf = s.regbuf /\ t.prebuf = s.prebuf

\* No client changes its status or its will.
Still(s, t) ==
  /\ Len(t.clients) = Len(s.clients)
  /\ \A c \in 1..Len(s.clients) :
       t.clients[c].status = s.clients[c].status /\ t.clients[c].will = s.clients[c].will

---------------------------------------------------------------------------
(* The relations. *)

\* Growing is reflexive and transitive.
LEMMA GrowsTrans ==
  ASSUME NEW S, NEW a \in Seq(S), NEW b \in Seq(S), NEW c \in Seq(S)
  PROVE  Grows(a, a) /\ (Grows(a, b) /\ Grows(b, c) => Grows(a, c))
<1>1. Len(a) \in Nat /\ Len(b) \in Nat /\ Len(c) \in Nat OBVIOUS
<1> QED BY <1>1 DEF Grows

\* Appending lets a sequence grow, and so does doing nothing.
LEMMA AppendGrows ==
  ASSUME NEW S, NEW a \in Seq(S), NEW e \in S
  PROVE  Grows(a, Append(a, e))
<1>1. Len(Append(a, e)) = Len(a) + 1 /\ \A i \in 1..Len(a) : Append(a, e)[i] = a[i] BY AppendProperties
<1>2. Len(a) \in Nat OBVIOUS
<1> QED BY <1>1, <1>2 DEF Grows

\* A sequence that grows has the old one as a prefix.
LEMMA GrowsPrefix ==
  ASSUME NEW S, NEW a \in Seq(S), NEW b \in Seq(S), Grows(a, b)
  PROVE  IsPrefix(a, b)
<1>1. Len(a) \in Nat /\ Len(b) \in Nat /\ Len(a) <= Len(b) BY DEF Grows
<1>2. SubSeq(a, 1, Len(a)) = [i \in 1..Len(a) |-> a[i]] BY <1>1
<1>3. SubSeq(b, 1, Len(a)) = [i \in 1..Len(a) |-> b[i]] BY <1>1
<1>4. [i \in 1..Len(a) |-> a[i]] = [i \in 1..Len(a) |-> b[i]] BY DEF Grows
<1> QED BY <1>1, <1>2, <1>3, <1>4 DEF IsPrefix

\* Keeping what is queued is reflexive and transitive.
LEMMA RetainedTrans ==
  ASSUME NEW a, NEW b, NEW c
  PROVE  RowRetained(a, a) /\ (RowRetained(a, b) /\ RowRetained(b, c) => RowRetained(a, c))
BY DEF RowRetained, SameMessage

\* Keeping a row is reflexive and transitive.
LEMMA RowKeptTrans ==
  ASSUME NEW a \in entry_client, NEW b \in entry_client, NEW c \in entry_client
  PROVE  /\ RowKept(a, a)
         /\ RowKept(a, b) /\ RowKept(b, c) => RowKept(a, c)
         /\ RowSpent(a, b) /\ RowSpent(b, c) => RowSpent(a, c)
<1>1. a.reg \in Seq(Name) /\ b.reg \in Seq(Name) /\ c.reg \in Seq(Name) BY DEF entry_client
<1>2. Grows(a.reg, a.reg) /\ (Grows(a.reg, b.reg) /\ Grows(b.reg, c.reg) => Grows(a.reg, c.reg))
  BY <1>1, GrowsTrans
<1>3. RowSpent(a, a) /\ (RowSpent(a, b) /\ RowSpent(b, c) => RowSpent(a, c))
  BY <1>2 DEF RowSpent, RowCarried, RowLoyal
<1> QED BY <1>3, RetainedTrans DEF RowKept

\* The rows of a good store.
LEMMA RowsType ==
  ASSUME NEW s, Good(s)
  PROVE  /\ Len(s.clients) \in Nat /\ DOMAIN s.clients = 1..Len(s.clients)
         /\ \A c \in 1..Len(s.clients) : s.clients[c] \in entry_client
<1>1. s.clients \in Seq(entry_client) BY DEF Good, Store
<1> QED BY <1>1, ElementOfSeq

\* A store with the same files is as good as the store itself.
LEMMA QuietRefl ==
  ASSUME NEW s, Good(s), NEW t, t.clients = s.clients
  PROVE  Kept(s, t) /\ (t.count = s.count => Quiet(s, t)) /\ Still(s, t)
<1>1. \A c \in 1..Len(s.clients) : RowKept(s.clients[c], s.clients[c])
  <2> SUFFICES ASSUME NEW c \in 1..Len(s.clients) PROVE RowKept(s.clients[c], s.clients[c]) OBVIOUS
  <2> QED BY RowsType, RowKeptTrans
<1> QED BY <1>1 DEF Kept, Quiet, Still

\* Operations in a row.
LEMMA KeptTrans ==
  ASSUME NEW s, Good(s), NEW t, Good(t), NEW u, Good(u), Kept(s, t), Kept(t, u)
  PROVE  Kept(s, u) /\ (u.count = s.count => Quiet(s, u))
<1> DEFINE q == s.clients
           r == t.clients
           v == u.clients
<1>1. ASSUME NEW c \in 1..Len(q) PROVE RowKept(q[c], v[c])
  <2>1. q[c] \in entry_client BY RowsType
  <2>2. c \in 1..Len(r) /\ c \in 1..Len(v) BY DEF Kept
  <2>3. r[c] \in entry_client /\ v[c] \in entry_client BY <2>2, RowsType
  <2>4. RowKept(q[c], r[c]) /\ RowKept(r[c], v[c]) BY <2>2 DEF Kept
  <2> HIDE DEF q, r, v
  <2> QED BY <2>1, <2>3, <2>4, RowKeptTrans
<1>2. Len(v) = Len(q) BY DEF Kept
<1> QED BY <1>1, <1>2 DEF Kept, Quiet

\* Being quiet is about the files only: the flags before and after do not matter.
LEMMA QuietFiles ==
  ASSUME NEW s, NEW t, NEW u, NEW v, u.clients = s.clients, u.count = s.count,
         v.clients = t.clients, v.count = t.count
  PROVE  /\ (Quiet(s, t) => Quiet(u, v)) /\ (Kept(s, t) => Kept(u, v)) /\ (Still(s, t) => Still(u, v))
         /\ Carried(s, t) => Carried(u, v)
         /\ (Loyal(s, t) => Loyal(u, v)) /\ (Spent(s, t) => Spent(u, v))
         /\ (Retained(s, t) => Retained(u, v)) /\ (\A m : Delivered(s, t, m) => Delivered(u, v, m))
BY DEF Quiet, Kept, Still, Carried, Loyal, Spent, Retained, Delivered

\* Nothing is queued in a kept row.
LEMMA KeptCarried ==
  ASSUME NEW s, NEW t, Kept(s, t)
  PROVE  Carried(s, t) /\ Retained(s, t) /\ \A m : Delivered(s, t, m)
<1>1. Retained(s, t) BY DEF Kept, RowKept, Retained
<1> QED BY <1>1 DEF Kept, RowKept, RowSpent, Carried, Retained, RowRetained, Delivered

\* ... nor in one that is visited.
LEMMA SpentCarried ==
  ASSUME NEW s, NEW t
  PROVE  (Quiet(s, t) => Spent(s, t)) /\ (Spent(s, t) => Carried(s, t))
BY DEF Quiet, Kept, RowKept, RowSpent, Spent, Carried

\* A visit goes on.
LEMMA SpentTrans ==
  ASSUME NEW s, Good(s), NEW t, Good(t), NEW u, Good(u), Spent(s, t), Quiet(t, u)
  PROVE  Spent(s, u)
<1> DEFINE q == s.clients
           r == t.clients
           v == u.clients
<1>1. Spent(t, u) BY SpentCarried
<1>2. ASSUME NEW c \in 1..Len(q) PROVE RowSpent(q[c], v[c])
  <2>1. q[c] \in entry_client BY RowsType
  <2>2. c \in 1..Len(r) /\ c \in 1..Len(v) BY <1>1 DEF Spent
  <2>3. r[c] \in entry_client /\ v[c] \in entry_client BY <2>2, RowsType
  <2>4. RowSpent(q[c], r[c]) /\ RowSpent(r[c], v[c]) BY <1>1, <2>2 DEF Spent
  <2> HIDE DEF q, r, v
  <2> QED BY <2>1, <2>3, <2>4, RowKeptTrans
<1> QED BY <1>1, <1>2 DEF Spent

\* More is sent.
LEMMA SentBefore ==
  ASSUME NEW S, NEW m \in Seq(S), NEW n \in Seq(S)
  PROVE  Within(m, m) /\ Within(m, m \o n)
<1>1. \A i \in DOMAIN m : i \in DOMAIN (m \o n) /\ (m \o n)[i] = m[i] OBVIOUS
<1> QED BY <1>1 DEF Within

\* What is still queued stays, and what is sent remains sent.
LEMMA DeliveredTrans ==
  ASSUME NEW s, NEW t, NEW u, NEW m, NEW n, Delivered(s, t, m), Quiet(t, u),
         Within(m, n)
  PROVE  Delivered(s, u, n)
<1>1. Retained(t, u) BY KeptCarried DEF Quiet
<1>2. \A a, d : SentIn(a, d, m) => SentIn(a, d, n) BY DEF SentIn, Within
<1>3. ASSUME NEW c \in 1..Len(s.clients), NEW j \in Queued(s.clients[c])
      PROVE  \/ /\ j \in Queued(u.clients[c])
                /\ SameMessage(s.clients[c].pub[j], u.clients[c].pub[j])
             \/ SentIn(s.clients[c].addr, s.clients[c].pub[j], n)
  <2>1. CASE SentIn(s.clients[c].addr, s.clients[c].pub[j], m) BY <1>2, <2>1
  <2>2. CASE ~SentIn(s.clients[c].addr, s.clients[c].pub[j], m)
    <3>1. j \in Queued(t.clients[c]) /\ SameMessage(s.clients[c].pub[j], t.clients[c].pub[j])
      BY <2>2 DEF Delivered
    <3>2. c \in 1..Len(t.clients) BY DEF Delivered
    <3>3. j \in Queued(u.clients[c]) /\ SameMessage(t.clients[c].pub[j], u.clients[c].pub[j])
      BY <1>1, <3>1, <3>2 DEF Retained, RowRetained
    <3> QED BY <3>1, <3>3 DEF SameMessage
  <2> QED BY <2>1, <2>2
<1> QED BY <1>1, <1>3 DEF Delivered, Retained

\* Rows that are kept keep their subscriptions.
LEMMA QuietFaithful ==
  ASSUME NEW s, Good(s), NEW t
  PROVE  (Kept(s, t) => Loyal(s, t)) /\ (Spent(s, t) => Faithful(s, t)) /\ (Quiet(s, t) => Faithful(s, t))
<1>1. Len(s.clients) \in Nat BY RowsType
<1>2. Kept(s, t) => Loyal(s, t) BY <1>1 DEF Kept, RowKept, RowSpent, Loyal
<1>3. Spent(s, t) => Loyal(s, t) BY <1>1 DEF Spent, RowSpent, Loyal
<1>4. \A x \in Topic : s.count[x] <= s.count[x]
  <2>1. s.count \in [Topic -> Nat] BY DEF Good, Store
  <2> QED BY <2>1
<1> QED BY <1>2, <1>4, <1>3 DEF Quiet, Spent, Faithful

\* A field that no file depends on.
LEMMA SameFilesKept ==
  ASSUME NEW r \in entry_client, NEW q \in entry_client,
         q.id = r.id, q.addr = r.addr, q.reg = r.reg, q.sub = r.sub, q.pub = r.pub,
         q.status = r.status \/ (q.status # "EMPTY" /\ r.addr # NoAddress)
  PROVE  RowKept(r, q)
<1>1. Grows(r.reg, q.reg)
  <2>1. r.reg \in Seq(Name) BY DEF entry_client
  <2> QED BY <2>1, GrowsTrans
<1>2. FilesOK(r) => FilesOK(q) BY DEF FilesOK
<1>3. Proper(r) => Proper(q) BY DEF Proper
<1>4. Vacant(r) => Vacant(q) BY DEF Vacant, Unsubscribed
<1>5. RowLoyal(r, q) BY DEF RowLoyal, SubscribedTo
<1>6. RowSpent(r, q) BY <1>1, <1>2, <1>3, <1>4, <1>5 DEF RowSpent, RowCarried, Queued, Numbered
<1>7. RowRetained(r, q) BY DEF RowRetained, Queued, SameMessage
<1> QED BY <1>6, <1>7 DEF RowKept

\* Writing a row back that is kept.
LEMMA PutQuiet ==
  ASSUME NEW s, Good(s), Usable(s), NEW row \in entry_client
  PROVE  /\ RowKept(Cur(s), row) => Quiet(s, Put(s, row))
         /\ RowCarried(Cur(s), row) /\ (Queued(row) \subseteq Queued(Cur(s)) \/ Cur(s).status \in Present) =>
              Carried(s, Put(s, row))
         /\ RowLoyal(Cur(s), row) => Loyal(s, Put(s, row))
         /\ RowRetained(Cur(s), row) => Retained(s, Put(s, row))
         /\ RowSpent(Cur(s), row) => Spent(s, Put(s, row))
         /\ row.status = Cur(s).status /\ row.will = Cur(s).will => Still(s, Put(s, row))
         /\ Held(s, Put(s, row)) /\ Put(s, row).count = s.count
         /\ Len(Put(s, row).clients) = Len(s.clients)
         /\ \A c \in 1..Len(s.clients) :
              Put(s, row).clients[c] = IF c = s.cur THEN row ELSE s.clients[c]
<1> DEFINE q == s.clients
           n == ReplaceAt(q, s.cur, row)
<1>1. q \in Seq(entry_client) /\ s.cur \in 1..Len(q) BY DEF Good, Store, Usable
<1>2. /\ Put(s, row).clients = n /\ Put(s, row).count = s.count
      /\ Put(s, row).regbuf = s.regbuf /\ Put(s, row).prebuf = s.prebuf
  BY DEF Put, Good, Store
<1>3. Len(n) = Len(q) /\ \A c \in 1..Len(q) : n[c] = IF c = s.cur THEN row ELSE q[c]
  BY <1>1 DEF ReplaceAt
<1>4. \A c \in 1..Len(q) : q[c] \in entry_client BY RowsType
<1> HIDE DEF n, q
<1>5. \A c \in 1..Len(q) : RowKept(q[c], q[c]) BY <1>4, RowKeptTrans
<1>6. RowKept(Cur(s), row) => \A c \in 1..Len(q) : RowKept(q[c], n[c]) BY <1>3, <1>5 DEF Cur, q
<1>7. ASSUME RowCarried(Cur(s), row), Queued(row) \subseteq Queued(Cur(s)) \/ Cur(s).status \in Present
      PROVE  Carried(s, Put(s, row))
  <2>1. ASSUME NEW c \in 1..Len(q)
        PROVE  RowCarried(q[c], n[c]) /\ (Queued(n[c]) \subseteq Queued(q[c]) \/ q[c].status \in Present)
    <3>1. CASE c = s.cur BY <1>3, <1>7, <3>1 DEF Cur, q
    <3>2. CASE c # s.cur BY <1>3, <1>5, <3>2 DEF RowKept, RowSpent
    <3> QED BY <3>1, <3>2
  <2> QED BY <1>2, <1>3, <2>1 DEF Carried, q
<1>8. row.status = Cur(s).status /\ row.will = Cur(s).will =>
        \A c \in 1..Len(q) : n[c].status = q[c].status /\ n[c].will = q[c].will
  BY <1>3 DEF Cur, q
<1>9. ASSUME RowLoyal(Cur(s), row) PROVE Loyal(s, Put(s, row))
  <2>1. \A c \in 1..Len(q) : RowLoyal(q[c], n[c]) BY <1>3, <1>9 DEF Cur, q, RowLoyal
  <2>2. Len(q) \in Nat BY <1>1
  <2> QED BY <1>2, <1>3, <2>1, <2>2 DEF Loyal, q
<1>10. RowRetained(Cur(s), row) => \A c \in 1..Len(q) : RowRetained(q[c], n[c])
  BY <1>3, <1>5 DEF Cur, q, RowKept
<1>11. RowSpent(Cur(s), row) => \A c \in 1..Len(q) : RowSpent(q[c], n[c])
  BY <1>3, <1>5 DEF Cur, q, RowKept
<1> QED BY <1>2, <1>3, <1>6, <1>8, <1>7, <1>9, <1>10, <1>11 DEF Quiet, Kept, Spent, Retained, Still, Held, q

---------------------------------------------------------------------------
(* The operations of the database. *)

\* Transactions and the reading of names do not write a file.
LEMMA FlagsOnly ==
  ASSUME NEW s, Good(s), NEW x
  PROVE  /\ apply_transaction(s).clients = s.clients /\ apply_transaction(s).count = s.count
         /\ begin(s).clients = s.clients /\ begin(s).count = s.count
         /\ Fail(s).clients = s.clients /\ Fail(s).count = s.count
         /\ Opened(s, x).clients = s.clients /\ Opened(s, x).count = s.count
         /\ touch_topic_name(s, x).clients = s.clients /\ touch_topic_name(s, x).count = s.count
         /\ touch_predefined_topic_name(s, x).clients = s.clients
         /\ touch_predefined_topic_name(s, x).count = s.count
         /\ Held(s, apply_transaction(s)) /\ Held(s, Fail(s)) /\ Held(s, Opened(s, x))
<1> USE DEF Good, Store, Held
<1>1. apply_transaction(s).clients = s.clients /\ apply_transaction(s).count = s.count
      /\ Held(s, apply_transaction(s))
  BY DEF apply_transaction
<1>2. begin(s).clients = s.clients /\ begin(s).count = s.count BY DEF begin
<1>3. Fail(s).clients = s.clients /\ Fail(s).count = s.count /\ Held(s, Fail(s)) BY DEF Fail
<1>4. Opened(s, x).clients = s.clients /\ Opened(s, x).count = s.count /\ Held(s, Opened(s, x))
  BY DEF Opened
<1>5. touch_topic_name(s, x).clients = s.clients /\ touch_topic_name(s, x).count = s.count
  BY DEF touch_topic_name
<1>6. touch_predefined_topic_name(s, x).clients = s.clients /\ touch_predefined_topic_name(s, x).count = s.count
  BY DEF touch_predefined_topic_name
<1> QED BY <1>1, <1>2, <1>3, <1>4, <1>5, <1>6

\* Opening a transaction writes nothing; one by address is on a client with that address.
LEMMA OpenFiles ==
  ASSUME NEW s, Good(s), NEW a
  PROVE  LET o == start_by_address(s, a) IN
           /\ Good(o) /\ o.clients = s.clients /\ o.count = s.count /\ Held(s, o)
           /\ Usable(o) => Cur(o).addr = a
<1>1. start_by_address(s, a) \in {Fail(s), Opened(s, SelectInSeq(s.clients, LAMBDA r : r.addr = a))}
  BY DEF start_by_address
<1> QED BY <1>1, FlagsOnly, StartByAddressGood

\* Committing, and the death of the process, after a quiet operation.
LEMMA QuietCommit ==
  ASSUME NEW s, NEW o, o.clients = s.clients, o.count = s.count, NEW t, Good(t), Quiet(o, t)
  PROVE  Quiet(s, t) /\ Quiet(s, apply_transaction(t)) /\ Quiet(s, Commit(t).db) /\ Quiet(s, begin(t))
<1>1. Commit(t).db = apply_transaction(t) BY DEF Commit
<1> QED BY <1>1, FlagsOnly, QuietFiles

\* Status, timeout, awaited message and will are not part of the files that must agree.
LEMMA FieldsQuiet ==
  ASSUME NEW s, Good(s)
  PROVE  /\ \A st \in Status \ {"EMPTY"} :
              (Usable(s) => Cur(s).addr # NoAddress) => Quiet(s, set_client_state(s, st))
         /\ \A n \in Nat : Quiet(s, set_timeout(s, n))
         /\ \A type \in Awaited : Quiet(s, set_client_await_message(s, type))
         /\ \A t \in Name, qos \in WillQos : Quiet(s, set_client_willtopic(s, t, qos))
         /\ \A msg \in Payload : Quiet(s, set_client_willmessage(s, msg))
         /\ Quiet(s, delete_will(s))
<1>1. CASE ~Usable(s)
  BY <1>1, QuietRefl DEF set_client_state, set_timeout, set_client_await_message, set_client_willtopic,
                         set_client_willmessage, delete_will
<1>2. CASE Usable(s)
  <2> DEFINE r == Cur(s)
  <2>1. r \in entry_client BY <1>2, CurType
  <2>2. ASSUME NEW st \in Status \ {"EMPTY"}, r.addr # NoAddress PROVE Quiet(s, set_client_state(s, st))
    <3> DEFINE q == [r EXCEPT !.status = st]
    <3>1. q \in entry_client BY <2>1 DEF entry_client
    <3>2. q.id = r.id /\ q.addr = r.addr /\ q.reg = r.reg /\ q.sub = r.sub /\ q.pub = r.pub /\ q.status # "EMPTY"
      BY <2>1 DEF entry_client
    <3>3. set_client_state(s, st) = Put(s, q) BY <1>2 DEF set_client_state
    <3> HIDE DEF r, q
    <3>4. RowKept(r, q) BY <2>1, <2>2, <3>1, <3>2, SameFilesKept
    <3> QED BY <1>2, <3>1, <3>3, <3>4, PutQuiet DEF r
  <2>3. ASSUME NEW q \in entry_client, q.id = r.id, q.addr = r.addr, q.reg = r.reg, q.sub = r.sub,
               q.pub = r.pub, q.status = r.status
        PROVE  Quiet(s, Put(s, q))
    <3> HIDE DEF r
    <3>1. RowKept(r, q) BY <2>1, <2>3, SameFilesKept
    <3> QED BY <1>2, <3>1, PutQuiet DEF r
  <2>4. ASSUME NEW n \in Nat PROVE Quiet(s, set_timeout(s, n))
    <3> DEFINE q == [r EXCEPT !.timeout = n]
    <3>1. q \in entry_client /\ q.id = r.id /\ q.addr = r.addr /\ q.reg = r.reg /\ q.sub = r.sub
          /\ q.pub = r.pub /\ q.status = r.status
      BY <2>1 DEF entry_client
    <3>2. set_timeout(s, n) = Put(s, q) BY <1>2 DEF set_timeout
    <3> HIDE DEF r, q
    <3> QED BY <2>3, <3>1, <3>2
  <2>5. ASSUME NEW type \in Awaited PROVE Quiet(s, set_client_await_message(s, type))
    <3> DEFINE q == [r EXCEPT !.await = type]
    <3>1. q \in entry_client /\ q.id = r.id /\ q.addr = r.addr /\ q.reg = r.reg /\ q.sub = r.sub
          /\ q.pub = r.pub /\ q.status = r.status
      BY <2>1 DEF entry_client
    <3>2. set_client_await_message(s, type) = Put(s, q) BY <1>2 DEF set_client_await_message
    <3> HIDE DEF r, q
    <3> QED BY <2>3, <3>1, <3>2
  <2>6. ASSUME NEW w \in entry_will PROVE Quiet(s, Put(s, [r EXCEPT !.will = w]))
    <3> DEFINE q == [r EXCEPT !.will = w]
    <3>1. q \in entry_client /\ q.id = r.id /\ q.addr = r.addr /\ q.reg = r.reg /\ q.sub = r.sub
          /\ q.pub = r.pub /\ q.status = r.status
      BY <2>1 DEF entry_client
    <3> HIDE DEF r, q
    <3>2. Quiet(s, Put(s, q)) BY <2>3, <3>1
    <3> QED BY <3>2 DEF q
  <2>7. r.will \in entry_will /\ NoWill \in entry_will
    BY <2>1 DEF entry_client, NoWill, entry_will, WillQos, Name, NoMsg
  <2>8. ASSUME NEW t \in Name, NEW qos \in WillQos PROVE Quiet(s, set_client_willtopic(s, t, qos))
    <3> DEFINE w == [r.will EXCEPT !.set = TRUE, !.topic = t, !.qos = qos]
    <3>1. w \in entry_will BY <2>7 DEF entry_will
    <3>2. set_client_willtopic(s, t, qos) = Put(s, [r EXCEPT !.will = w]) BY <1>2 DEF set_client_willtopic
    <3> HIDE DEF w, r
    <3> QED BY <2>6, <3>1, <3>2
  <2>9. ASSUME NEW msg \in Payload PROVE Quiet(s, set_client_willmessage(s, msg))
    <3> DEFINE w == [r.will EXCEPT !.set = TRUE, !.msg = msg]
    <3>1. w \in entry_will BY <2>7 DEF entry_will
    <3>2. set_client_willmessage(s, msg) = Put(s, [r EXCEPT !.will = w]) BY <1>2 DEF set_client_willmessage
    <3> HIDE DEF w, r
    <3> QED BY <2>6, <3>1, <3>2
  <2>10. Quiet(s, delete_will(s))
    <3>1. delete_will(s) = s \/ delete_will(s) = Put(s, [r EXCEPT !.will = NoWill]) BY DEF delete_will
    <3> QED BY <2>6, <2>7, <3>1, QuietRefl
  <2> QED BY <1>2, <2>2, <2>4, <2>5, <2>8, <2>9, <2>10
<1> QED BY <1>1, <1>2

\* Subscriptions and queued messages stay right when registrations are added.
LEMMA GrownFiles ==
  ASSUME NEW reg \in Seq(Name), NEW new \in Seq(Name), Grows(reg, new), NEW f
  PROVE  (SubOK(reg, f) => SubOK(new, f)) /\ (PubOK(reg, f) => PubOK(new, f))
<1>1. \A n \in DOMAIN reg : n \in DOMAIN new /\ new[n] = reg[n]
  <2>1. Len(reg) \in Nat /\ Len(new) \in Nat /\ DOMAIN reg = 1..Len(reg) /\ DOMAIN new = 1..Len(new) OBVIOUS
  <2> QED BY <2>1 DEF Grows
<1>2. SubOK(reg, f) => SubOK(new, f) BY <1>1 DEF SubOK
<1>3. PubOK(reg, f) => PubOK(new, f) BY <1>1 DEF PubOK
<1> QED BY <1>2, <1>3

(***************************************************************************)
(* add_client_registration appends a topic that is not there yet; the id   *)
(* it returns is the one under which the topic is then found.              *)
(***************************************************************************)
LEMMA RegistrationQuiet ==
  ASSUME NEW s, Good(s), NEW t \in Name
  PROVE  LET u == add_client_registration(s, t) IN
           /\ Quiet(s, u) /\ u.prebuf = s.prebuf /\ SameTx(s, u)
           /\ Usable(s) => /\ Cur(u).addr = Cur(s).addr /\ u.regbuf = t
                           /\ new_topic_id(s, t) \in DOMAIN Cur(u).reg
                           /\ Cur(u).reg[new_topic_id(s, t)] = t
<1>1. CASE ~Usable(s)
  BY <1>1, QuietRefl DEF add_client_registration, SameTx
<1>2. CASE Usable(s)
  <2> DEFINE r == Cur(s)
             reg == r.reg
             new == IF Contains(reg, t) THEN reg ELSE Append(reg, t)
             row == [r EXCEPT !.reg = new]
             v == Put(s, row)
             u == add_client_registration(s, t)
             id == new_topic_id(s, t)
             I == {i \in 1..Len(reg) : reg[i] = t}
  <2>1. r \in entry_client /\ reg \in Seq(Name) /\ Len(reg) \in Nat BY <1>2, CurType DEF entry_client
  <2>2. Contains(reg, t) <=> \E i \in 1..Len(reg) : reg[i] = t BY <2>1 DEF Contains
  <2>3. new \in Seq(Name) /\ Grows(reg, new)
    <3> HIDE DEF reg
    <3>1. Append(reg, t) \in Seq(Name) BY <2>1, AppendProperties
    <3> QED BY <2>1, <3>1, AppendGrows, GrowsTrans
  <2>4. RegOK(reg) => RegOK(new)
    <3>1. CASE Contains(reg, t) BY <3>1
    <3>2. CASE ~Contains(reg, t)
      <4> HIDE DEF reg
      <4>1. new = Append(reg, t) BY <3>2
      <4>2. Len(new) = Len(reg) + 1 /\ DOMAIN new = 1..(Len(reg) + 1) /\ DOMAIN reg = 1..Len(reg)
            /\ new[Len(reg) + 1] = t /\ \A i \in 1..Len(reg) : new[i] = reg[i]
        BY <2>1, <4>1, AppendProperties
      <4> HIDE DEF new
      <4>3. ASSUME RegOK(reg), NEW i \in DOMAIN new, NEW j \in DOMAIN new, new[i] = new[j] PROVE i = j
        <5>1. i \in 1..Len(reg) \/ i = Len(reg) + 1 BY <2>1, <4>2
        <5>2. j \in 1..Len(reg) \/ j = Len(reg) + 1 BY <2>1, <4>2
        <5> QED BY <2>2, <3>2, <4>2, <4>3, <5>1, <5>2 DEF RegOK
      <4> QED BY <4>3 DEF RegOK
    <3> QED BY <3>1, <3>2
  <2>5. id \in DOMAIN new /\ new[id] = t
    <3>1. CASE Contains(reg, t)
      <4>1. id = SelectInSeq(reg, LAMBDA n : n = t) BY <1>2, <3>1 DEF new_topic_id
      <4>2. SelectInSeq(reg, LAMBDA n : n = t) = IF I # {} THEN Min(I) ELSE 0 BY DEF SelectInSeq
      <4>3. I # {} /\ I \in SUBSET (1..Len(reg)) BY <2>2, <3>1
      <4> HIDE DEF I, reg, id
      <4>4. id \in I BY <2>1, <4>1, <4>2, <4>3, FirstIn
      <4> QED BY <2>1, <3>1, <4>4 DEF I
    <3>2. CASE ~Contains(reg, t)
      <4>1. id = Len(reg) + 1 /\ new = Append(reg, t) BY <1>2, <3>2 DEF new_topic_id
      <4> HIDE DEF reg, id, new
      <4> QED BY <2>1, <4>1, AppendProperties
    <3> QED BY <3>1, <3>2
  <2>6. u = [v EXCEPT !.regbuf = t] BY <1>2 DEF add_client_registration
  <2> HIDE DEF new, id
  <2>7. /\ row \in entry_client /\ row.id = r.id /\ row.addr = r.addr /\ row.reg = new /\ row.sub = r.sub
        /\ row.pub = r.pub /\ row.status = r.status
    BY <2>1, <2>3 DEF entry_client
  <2> HIDE DEF row
  <2>8. RowKept(r, row)
    <3>1. FilesOK(r) => FilesOK(row) BY <2>1, <2>3, <2>4, <2>7, GrownFiles DEF FilesOK
    <3>2. Proper(r) => Proper(row) BY <2>7 DEF Proper
    <3>3. Vacant(r) => Vacant(row) BY <2>7 DEF Vacant, Unsubscribed
    <3>4. RowLoyal(r, row) BY <2>7 DEF RowLoyal, SubscribedTo
    <3>5. RowSpent(r, row) BY <2>3, <2>7, <3>1, <3>2, <3>3, <3>4 DEF RowSpent, RowCarried, Queued, Numbered
    <3>6. RowRetained(r, row) BY <2>7 DEF RowRetained, Queued, SameMessage
    <3> QED BY <3>5, <3>6 DEF RowKept
  <2>9. Good(v) /\ SameTx(s, v) /\ Cur(v) = row BY <1>2, <2>7, PutGood
  <2>10. Quiet(s, v) /\ Held(s, v) BY <1>2, <2>7, <2>8, PutQuiet
  <2> HIDE DEF v, u, r
  <2>11. u.clients = v.clients /\ u.count = v.count /\ SameTx(v, u) /\ u.prebuf = v.prebuf /\ u.regbuf = t
    BY <2>6, <2>9 DEF Good, Store, SameTx
  <2>12. Quiet(s, u) BY <2>10, <2>11, QuietFiles
  <2>13. Cur(u) = row /\ SameTx(s, u) /\ u.prebuf = s.prebuf BY <2>9, <2>10, <2>11 DEF Cur, SameTx, Held
  <2> QED BY <2>5, <2>7, <2>11, <2>12, <2>13 DEF u, r, id
<1> QED BY <1>1, <1>2

---------------------------------------------------------------------------
(* Subscriptions. *)

\* An entry is overwritten, or appended at the position after the last one.
LEMMA PlacedAt ==
  ASSUME NEW S, NEW q \in Seq(S), NEW e \in S, NEW i \in 0..Len(q)
  PROVE  LET n == IF i = 0 THEN Append(q, e) ELSE ReplaceAt(q, i, e)
             p == IF i = 0 THEN Len(q) + 1 ELSE i
         IN /\ n \in Seq(S) /\ p \in DOMAIN n /\ n[p] = e /\ p \in Nat
            /\ \A j \in DOMAIN n : j = p \/ (j \in DOMAIN q /\ n[j] = q[j])
            /\ \A j \in DOMAIN q : j = p \/ (j \in DOMAIN n /\ n[j] = q[j])
<1>1. Len(q) \in Nat /\ DOMAIN q = 1..Len(q) OBVIOUS
<1>2. CASE i = 0
  <2> DEFINE n == Append(q, e)
  <2>1. n \in Seq(S) /\ Len(n) = Len(q) + 1 /\ n[Len(q) + 1] = e /\ \A j \in 1..Len(q) : n[j] = q[j]
    BY AppendProperties
  <2>2. DOMAIN n = 1..(Len(q) + 1) BY <2>1
  <2>3. \A j \in 1..(Len(q) + 1) : j = Len(q) + 1 \/ j \in 1..Len(q) BY <1>1
  <2>4. Len(q) + 1 \in 1..(Len(q) + 1) BY <1>1
  <2> HIDE DEF n
  <2>5. \A j \in DOMAIN n : j = Len(q) + 1 \/ (j \in DOMAIN q /\ n[j] = q[j]) BY <1>1, <2>1, <2>2, <2>3
  <2>6. \A j \in DOMAIN q : j \in DOMAIN n /\ n[j] = q[j] BY <1>1, <2>1, <2>2
  <2> QED BY <1>1, <1>2, <2>1, <2>2, <2>4, <2>5, <2>6 DEF n
<1>3. CASE i # 0
  <2> DEFINE n == ReplaceAt(q, i, e)
  <2>1. i \in 1..Len(q) BY <1>1, <1>3
  <2>2. n \in Seq(S) /\ Len(n) = Len(q) /\ n[i] = e BY <2>1, ReplaceType
  <2>3. \A j \in 1..Len(q) : j # i => n[j] = q[j] BY <2>1 DEF ReplaceAt
  <2>4. DOMAIN n = 1..Len(q) BY <2>2
  <2> HIDE DEF n
  <2> QED BY <1>1, <1>3, <2>1, <2>2, <2>3, <2>4 DEF n
<1> QED BY <1>2, <1>3

\* Writing a subscription file back; it is quiet if no name is lost.
LEMMA PutSubQuiet ==
  ASSUME NEW s, Good(s), Usable(s), NEW new \in Seq(entry_subscription),
         SubOK(Cur(s).reg, Cur(s).sub) => SubOK(Cur(s).reg, new),
         Cur(s).addr # NoAddress \/ \A j \in DOMAIN new :
           new[j].tid = 0 \/ (j \in DOMAIN Cur(s).sub /\ Cur(s).sub[j].tid # 0)
  PROVE  LET u == Put(s, [Cur(s) EXCEPT !.sub = new])
             kept == \A x \in Topic : SubscribedTo(Cur(s), x) => \E j \in DOMAIN new : new[j].name = x
         IN /\ Carried(s, u) /\ Retained(s, u) /\ u.count = s.count /\ (kept => Quiet(s, u))
            /\ Held(s, u) /\ Still(s, u) /\ SameTx(s, u)
<1> DEFINE r == Cur(s)
           q == [r EXCEPT !.sub = new]
<1>1. r \in entry_client BY CurType
<1>2. /\ q \in entry_client /\ q.id = r.id /\ q.addr = r.addr /\ q.reg = r.reg /\ q.sub = new
      /\ q.pub = r.pub /\ q.status = r.status /\ q.will = r.will
  BY <1>1 DEF entry_client
<1> HIDE DEF r, q
<1>3. Grows(r.reg, q.reg)
  <2>1. r.reg \in Seq(Name) BY <1>1 DEF entry_client
  <2> QED BY <1>2, <2>1, GrowsTrans
<1>4. FilesOK(r) => FilesOK(q) BY <1>2 DEF FilesOK, r
<1>5. Proper(r) => Proper(q) BY <1>2 DEF Proper
<1>6. Proper(r) /\ Vacant(r) => Vacant(q)
  <2>1. CASE Cur(s).addr # NoAddress BY <1>2, <2>1 DEF Proper, Vacant, r
  <2>2. CASE \A j \in DOMAIN new : new[j].tid = 0 \/ (j \in DOMAIN Cur(s).sub /\ Cur(s).sub[j].tid # 0)
    BY <1>2, <2>2 DEF Vacant, Unsubscribed, r
  <2> QED BY <2>1, <2>2
<1>7. RowCarried(r, q) /\ Queued(q) \subseteq Queued(r)
  BY <1>2, <1>3, <1>4, <1>5, <1>6 DEF RowCarried, Queued, Numbered
<1>8. RowRetained(r, q) BY <1>2 DEF RowRetained, Queued, SameMessage
<1>9. (\A x \in Topic : SubscribedTo(r, x) => \E j \in DOMAIN new : new[j].name = x) => RowKept(r, q)
  BY <1>2, <1>7, <1>8 DEF RowKept, RowSpent, RowLoyal, SubscribedTo
<1> QED BY <1>2, <1>7, <1>9, <1>8, PutQuiet, PutGood DEF r, q

\* A name that is not found is in no entry.
LEMMA NotFound ==
  ASSUME NEW s, Good(s), Usable(s), NEW t
  PROVE  /\ FindSub(s, t) = 0 => \A j \in DOMAIN Cur(s).sub : Cur(s).sub[j].name # t
         /\ FindSub(s, t) # 0 => /\ FindSub(s, t) \in DOMAIN Cur(s).sub
                                 /\ Cur(s).sub[FindSub(s, t)].name = t
<1> DEFINE q == Cur(s).sub
           I == {i \in 1..Len(q) : q[i].name = t}
<1>1. FindSub(s, t) = IF I # {} THEN Min(I) ELSE 0 BY DEF FindSub, SelectInSeq
<1>2. q \in Seq(entry_subscription) /\ Len(q) \in Nat /\ DOMAIN q = 1..Len(q) BY CurType DEF entry_client
<1>3. I \in SUBSET (1..Len(q)) OBVIOUS
<1>4. I = {} => \A j \in 1..Len(q) : q[j].name # t OBVIOUS
<1>5. \A j \in I : j \in 1..Len(q) /\ q[j].name = t OBVIOUS
<1> HIDE DEF I
<1>6. I # {} => FindSub(s, t) \in I
  <2> HIDE DEF q
  <2> QED BY <1>1, <1>2, <1>3, FirstIn
<1>7. I # {} => FindSub(s, t) # 0 BY <1>5, <1>6
<1>8. I = {} => FindSub(s, t) = 0 BY <1>1
<1> HIDE DEF q
<1> QED BY <1>2, <1>4, <1>5, <1>6, <1>7, <1>8 DEF q

(***************************************************************************)
(* add_subscription is called for a topic the client is not subscribed to, *)
(* with the id the topic is registered under.                              *)
(***************************************************************************)
LEMMA AddSubscriptionQuiet ==
  ASSUME NEW s, Good(s), NEW t, NEW tid \in Nat, NEW qos \in {0, 1}, ~is_subscribed(s, t),
         Usable(s) => Cur(s).addr # NoAddress,
         Usable(s) => tid \in DOMAIN Cur(s).reg /\ Cur(s).reg[tid] = t
  PROVE  LET u == add_subscription(s, t, tid, qos)
         IN /\ Quiet(s, u) /\ Held(s, u) /\ Still(s, u) /\ SameTx(s, u)
            /\ Usable(s) /\ t \in Topic => ~SubscribedTo(Cur(s), t) /\ SubscribedTo(Cur(u), t)
<1> DEFINE sub == Cur(s).sub
           reg == Cur(s).reg
           entry == [tid |-> tid, qos |-> qos, name |-> t]
           I == {i \in 1..Len(sub) : sub[i].tid = 0 /\ sub[i].name = Empty}
           hole == SelectLastInSeq(sub, LAMBDA e : e.tid = 0 /\ e.name = Empty)
           new == IF hole = 0 THEN Append(sub, entry) ELSE ReplaceAt(sub, hole, entry)
           u == add_subscription(s, t, tid, qos)
<1>1. CASE ~(Usable(s) /\ t \in Topic)
  <2>1. u = s BY <1>1 DEF add_subscription
  <2> QED BY <1>1, <2>1, QuietRefl DEF Held, SameTx
<1>2. CASE Usable(s) /\ t \in Topic
  <2>1. Usable(s) /\ t \in Topic /\ tid # 0 /\ u = Put(s, [Cur(s) EXCEPT !.sub = new])
    <3>1. tid # 0
      <4>1. Cur(s).reg \in Seq(Name) BY <1>2, CurType DEF entry_client
      <4> QED BY <1>2, <4>1
    <3>2. \A j \in DOMAIN sub : sub[j].name # t BY <1>2, NotFound DEF is_subscribed
    <3> QED BY <1>2, <3>1, <3>2 DEF add_subscription
  <2>2. sub \in Seq(entry_subscription) /\ Len(sub) \in Nat BY <2>1, CurType DEF entry_client
  <2>3. hole = IF I # {} THEN Max(I) ELSE 0 BY DEF SelectLastInSeq
  <2>4. I \in SUBSET (1..Len(sub)) OBVIOUS
  <2>5. entry \in entry_subscription BY <2>1 DEF entry_subscription, Name
  <2>6. entry.tid = tid /\ entry.name = t OBVIOUS
  <2>7. \A j \in DOMAIN sub : sub[j].name # t BY <2>1, NotFound DEF is_subscribed
  <2> HIDE DEF I, hole, entry, sub
  <2>8. hole \in 0..Len(sub) /\ (hole # 0 => sub[hole].name = Empty)
    <3>1. hole \in 0..Len(sub) /\ (I # {} => hole \in I) BY <2>2, <2>3, <2>4, LastIn
    <3>2. hole # 0 => hole \in I BY <2>3, <3>1
    <3> QED BY <3>1, <3>2 DEF I
  <2> DEFINE p == IF hole = 0 THEN Len(sub) + 1 ELSE hole
  <2>9. /\ new \in Seq(entry_subscription) /\ p \in DOMAIN new /\ new[p] = entry
        /\ \A j \in DOMAIN new : j = p \/ (j \in DOMAIN sub /\ new[j] = sub[j])
        /\ \A j \in DOMAIN sub : j = p \/ (j \in DOMAIN new /\ new[j] = sub[j])
    BY <2>2, <2>5, <2>8, PlacedAt
  <2>10. p \in DOMAIN sub => sub[p].name = Empty
    <3>1. DOMAIN sub = 1..Len(sub) BY <2>2
    <3> QED BY <2>2, <2>8, <3>1
  <2> HIDE DEF new, p
  <2>11. ASSUME SubOK(reg, sub) PROVE SubOK(reg, new)
    <3> SUFFICES ASSUME NEW i \in DOMAIN new
                 PROVE  IF new[i].tid = 0 THEN new[i].name = Empty
                        ELSE /\ new[i].name \in Topic /\ new[i].tid \in DOMAIN reg
                             /\ reg[new[i].tid] = new[i].name
                             /\ \A j \in DOMAIN new : new[j].name = new[i].name => i = j
      BY DEF SubOK
    <3>1. CASE i = p
      <4>1. \A j \in DOMAIN new : new[j].name = t => j = p BY <2>7, <2>9
      <4> QED BY <2>1, <2>6, <2>9, <3>1, <4>1
    <3>2. CASE i # p
      <4>1. i \in DOMAIN sub /\ new[i] = sub[i] /\ sub[i].name # t BY <2>7, <2>9, <3>2
      <4>2. \A j \in DOMAIN new : new[j].name = new[i].name => j \in DOMAIN sub /\ new[j] = sub[j]
        BY <2>6, <2>9, <4>1
      <4> QED BY <2>11, <4>1, <4>2 DEF SubOK
    <3> QED BY <3>1, <3>2
  <2>12. \A x \in Topic : SubscribedTo(Cur(s), x) => \E j \in DOMAIN new : new[j].name = x
    BY <2>9, <2>10, TopicAssumption DEF SubscribedTo, sub
  <2>13. Quiet(s, u) /\ Held(s, u) /\ Still(s, u) /\ SameTx(s, u)
    BY <2>1, <2>9, <2>11, <2>12, PutSubQuiet DEF sub
  <2>14. ~SubscribedTo(Cur(s), t) BY <2>7 DEF SubscribedTo, sub
  <2>15. SubscribedTo(Cur(u), t)
    <3> DEFINE row == [Cur(s) EXCEPT !.sub = new]
    <3>1. Cur(s) \in entry_client BY <2>1, CurType
    <3>2. row \in entry_client /\ row.sub = new BY <2>9, <3>1 DEF entry_client
    <3> HIDE DEF row
    <3>3. Cur(u) = row BY <2>1, <3>2, PutGood DEF row
    <3> QED BY <2>6, <2>9, <3>2, <3>3 DEF SubscribedTo
  <2> QED BY <2>13, <2>14, <2>15
<1> QED BY <1>1, <1>2

(***************************************************************************)
(* delete_subscription blanks the first entry with the id, sets the error  *)
(* or does nothing; the other names stay.                                  *)
(***************************************************************************)
LEMMA DeleteSubscriptionRows ==
  ASSUME NEW s, Good(s), NEW tid
  PROVE  LET u == delete_subscription(s, tid)
         IN /\ Carried(s, u) /\ Retained(s, u) /\ u.count = s.count /\ Held(s, u) /\ Still(s, u)
            /\ \/ u.clients = s.clients
               \/ \E j \in DOMAIN Cur(s).sub :
                    /\ Usable(s) /\ tid # 0 /\ Cur(s).sub[j].tid = tid
                    /\ \A c \in 1..Len(s.clients) :
                         IF c = s.cur
                         THEN \A x \in Topic : x # Cur(s).sub[j].name /\ SubscribedTo(Cur(s), x) =>
                                               SubscribedTo(u.clients[c], x)
                         ELSE u.clients[c] = s.clients[c]
<1> DEFINE sub == Cur(s).sub
           reg == Cur(s).reg
           I == {i \in 1..Len(sub) : sub[i].tid = tid}
           i == SelectInSeq(sub, LAMBDA e : e.tid = tid)
           new == ReplaceAt(sub, i, SubHole)
           u == delete_subscription(s, tid)
<1>1. CASE u \in {s, Fail(s)}
  <2>1. u.clients = s.clients /\ u.count = s.count /\ Held(s, u) BY <1>1, FlagsOnly DEF Held
  <2> HIDE DEF u
  <2>2. Carried(s, u) /\ Retained(s, u) /\ Still(s, u) BY <2>1, QuietRefl, KeptCarried
  <2> QED BY <2>1, <2>2 DEF u
<1>2. CASE u \notin {s, Fail(s)}
  <2>1. Usable(s) /\ i # 0 /\ tid # 0 /\ u = Put(s, [Cur(s) EXCEPT !.sub = new])
    <3>1. Usable(s) /\ i # 0 /\ tid # 0 BY <1>2 DEF delete_subscription, Usable
    <3> QED BY <1>2, <3>1 DEF delete_subscription, Usable
  <2>2. sub \in Seq(entry_subscription) /\ Len(sub) \in Nat /\ DOMAIN sub = 1..Len(sub)
    BY <2>1, CurType DEF entry_client
  <2>3. i = IF I # {} THEN Min(I) ELSE 0 BY DEF SelectInSeq
  <2>4. I \in SUBSET (1..Len(sub)) OBVIOUS
  <2>5. SubHole \in entry_subscription /\ SubHole.tid = 0 /\ SubHole.name = Empty
    BY DEF SubHole, entry_subscription, Name
  <2> HIDE DEF I, i, sub
  <2>6. i \in 1..Len(sub) /\ sub[i].tid = tid
    <3>1. i \in 0..Len(sub) /\ (I # {} => i \in I) BY <2>2, <2>3, <2>4, FirstIn
    <3>2. i \in I BY <2>1, <2>3, <3>1
    <3> QED BY <3>2 DEF I
  <2>7. new \in Seq(entry_subscription) /\ DOMAIN new = DOMAIN sub /\ new[i] = SubHole
    <3>1. new \in Seq(entry_subscription) /\ Len(new) = Len(sub) /\ new[i] = SubHole
      BY <2>2, <2>5, <2>6, ReplaceType
    <3> QED BY <2>2, <3>1
  <2>8. \A j \in DOMAIN sub : j # i => new[j] = sub[j] BY <2>2, <2>6 DEF ReplaceAt
  <2> HIDE DEF new
  <2>9. ASSUME SubOK(reg, sub) PROVE SubOK(reg, new)
    <3>1. \A j \in DOMAIN new : new[j].name \in Topic => j \in DOMAIN sub /\ new[j] = sub[j]
      BY <2>5, <2>7, <2>8, TopicAssumption
    <3>2. ASSUME NEW j \in DOMAIN new
          PROVE  IF new[j].tid = 0 THEN new[j].name = Empty
                 ELSE /\ new[j].name \in Topic /\ new[j].tid \in DOMAIN reg
                      /\ reg[new[j].tid] = new[j].name
                      /\ \A m \in DOMAIN new : new[m].name = new[j].name => j = m
      <4>1. CASE j = i BY <2>5, <2>7, <4>1
      <4>2. CASE j # i
        <5>1. j \in DOMAIN sub /\ new[j] = sub[j] BY <2>7, <2>8, <4>2
        <5> QED BY <2>9, <3>1, <5>1 DEF SubOK
      <4> QED BY <4>1, <4>2
    <3> QED BY <3>2 DEF SubOK
  <2>10. \A j \in DOMAIN new : new[j].tid = 0 \/ (j \in DOMAIN sub /\ sub[j].tid # 0)
    BY <2>5, <2>7, <2>8
  <2>11. Carried(s, u) /\ Retained(s, u) /\ u.count = s.count /\ Held(s, u) /\ Still(s, u)
    BY <2>1, <2>7, <2>9, <2>10, PutSubQuiet DEF sub
  <2> DEFINE row == [Cur(s) EXCEPT !.sub = new]
  <2>12. row \in entry_client /\ row.sub = new
    <3>1. Cur(s) \in entry_client BY <2>1, CurType
    <3> QED BY <2>7, <3>1 DEF entry_client
  <2>13. u = Put(s, row) BY <2>1
  <2> HIDE DEF row, u
  <2>14. \A c \in 1..Len(s.clients) : u.clients[c] = IF c = s.cur THEN row ELSE s.clients[c]
    BY <2>1, <2>12, <2>13, PutQuiet
  <2>15. \A x \in Topic : x # sub[i].name /\ SubscribedTo(Cur(s), x) => SubscribedTo(row, x)
    BY <2>7, <2>8, <2>12 DEF SubscribedTo, sub
  <2>16. i \in DOMAIN Cur(s).sub /\ Cur(s).sub[i].tid = tid BY <2>2, <2>6 DEF sub
  <2> QED BY <2>1, <2>11, <2>14, <2>15, <2>16 DEF u, sub
<1> QED BY <1>1, <1>2

---------------------------------------------------------------------------
(* The queue of publishes. *)

\* Writing a queue back.
LEMMA PutPubQuiet ==
  ASSUME NEW s, Good(s), Usable(s), NEW new \in Seq(entry_publish),
         FilesOK(Cur(s)) => PubOK(Cur(s).reg, new),
         Numbered(Cur(s)) => \A j \in DOMAIN new : new[j].pid # 0 => new[j].pid = j
  PROVE  LET u == Put(s, [Cur(s) EXCEPT !.pub = new])
             fewer == \A j \in DOMAIN new : new[j].pid # 0 => j \in DOMAIN Cur(s).pub /\ Cur(s).pub[j].pid # 0
             same == \A j \in DOMAIN Cur(s).pub : Cur(s).pub[j].pid # 0 =>
                       j \in DOMAIN new /\ new[j].pid # 0 /\ SameMessage(Cur(s).pub[j], new[j])
         IN /\ fewer => Spent(s, u)
            /\ same => Retained(s, u)
            /\ fewer /\ same => Quiet(s, u)
            /\ Cur(s).status \in Present => Carried(s, u)
            /\ Loyal(s, u) /\ u.count = s.count /\ Held(s, u) /\ Still(s, u) /\ SameTx(s, u)
<1> DEFINE r == Cur(s)
           q == [r EXCEPT !.pub = new]
<1>1. r \in entry_client BY CurType
<1>2. /\ q \in entry_client /\ q.id = r.id /\ q.addr = r.addr /\ q.reg = r.reg /\ q.sub = r.sub
      /\ q.pub = new /\ q.status = r.status /\ q.will = r.will
  BY <1>1 DEF entry_client
<1> HIDE DEF r, q
<1>3. Grows(r.reg, q.reg)
  <2>1. r.reg \in Seq(Name) BY <1>1 DEF entry_client
  <2> QED BY <1>2, <2>1, GrowsTrans
<1>4. FilesOK(r) => FilesOK(q) BY <1>2 DEF FilesOK, r
<1>5. Proper(r) => Proper(q) BY <1>2 DEF Proper
<1>6. Vacant(r) => Vacant(q) BY <1>2 DEF Vacant, Unsubscribed
<1>7. Numbered(r) => Numbered(q) BY <1>2 DEF Numbered, r
<1>8. RowCarried(r, q) BY <1>2, <1>3, <1>4, <1>5, <1>6, <1>7 DEF RowCarried
<1>9. RowLoyal(r, q) BY <1>2 DEF RowLoyal, SubscribedTo
<1>10. (\A j \in DOMAIN new : new[j].pid # 0 => j \in DOMAIN r.pub /\ r.pub[j].pid # 0) => RowSpent(r, q)
  BY <1>2, <1>8, <1>9 DEF RowSpent, Queued
<1>11. (\A j \in DOMAIN r.pub : r.pub[j].pid # 0 =>
          j \in DOMAIN new /\ new[j].pid # 0 /\ SameMessage(r.pub[j], new[j])) => RowRetained(r, q)
  BY <1>2 DEF RowRetained, Queued
<1> QED BY <1>2, <1>8, <1>9, <1>10, <1>11, PutQuiet, PutGood DEF RowKept, r, q

\* A message is queued under the topic id of the subscription it came for.
LEMMA AddPublishQuiet ==
  ASSUME NEW s, Good(s), NEW data \in Data, is_subscribed(s, data[1]), get_client_status(s) \in Present
  PROVE  LET u == add_client_publish(s, data, get_subscription_topic_id(s, data[1]),
                                     get_subscription_qos(s, data[1]))
         IN /\ Carried(s, u) /\ Retained(s, u)
            /\ Loyal(s, u) /\ u.count = s.count /\ Held(s, u) /\ Still(s, u)
<1> DEFINE t == data[1]
           tid == get_subscription_topic_id(s, t)
           qos == get_subscription_qos(s, t)
           r == Cur(s)
           pub == r.pub
           I == {j \in 1..Len(pub) : pub[j].pid = 0}
           hole == SelectLastInSeq(pub, LAMBDA e : e.pid = 0)
           i == IF hole = 0 THEN Len(pub) + 1 ELSE hole
           entry == [pid |-> i, tid |-> tid, qos |-> qos, mid |-> 0, data |-> data]
           new == IF hole = 0 THEN Append(pub, entry) ELSE ReplaceAt(pub, hole, entry)
           f == FindSub(s, t)
<1>1. Usable(s) /\ f # 0 /\ t \in Topic BY DEF is_subscribed
<1>2. f \in DOMAIN r.sub /\ r.sub[f].name = t BY <1>1, NotFound
<1>3. tid = r.sub[f].tid BY DEF get_subscription_topic_id
<1>4. tid \in Nat /\ qos \in {0, 1} BY SubscriptionType
<1>5. add_client_publish(s, data, tid, qos) = Put(s, [Cur(s) EXCEPT !.pub = new])
  BY <1>1 DEF add_client_publish
<1> HIDE DEF tid, qos, f, t
<1>6. FilesOK(r) => tid \in DOMAIN r.reg /\ r.reg[tid] = t
  <2>1. t # Empty BY <1>1, TopicAssumption
  <2> QED BY <1>2, <1>3, <2>1 DEF FilesOK, SubOK
<1>7. pub \in Seq(entry_publish) /\ Len(pub) \in Nat BY <1>1, CurType DEF entry_client
<1>8. hole = IF I # {} THEN Max(I) ELSE 0 BY DEF SelectLastInSeq
<1>9. I \in SUBSET (1..Len(pub)) OBVIOUS
<1>10. \A j \in I : pub[j].pid = 0 OBVIOUS
<1> HIDE DEF I, hole
<1>11. hole \in 0..Len(pub) /\ (hole # 0 => pub[hole].pid = 0)
  <2> HIDE DEF pub
  <2>1. hole \in 0..Len(pub) /\ (I # {} => hole \in I) BY <1>7, <1>8, <1>9, LastIn
  <2>2. hole # 0 => hole \in I BY <1>8, <2>1
  <2> QED BY <1>10, <2>1, <2>2
<1>12. i \in Nat BY <1>7, <1>11
<1> HIDE DEF i
<1>13. entry \in entry_publish /\ entry.pid = i /\ entry.tid = tid /\ entry.data = data
  BY <1>4, <1>12 DEF entry_publish
<1> HIDE DEF entry, pub
<1>14. /\ new \in Seq(entry_publish) /\ i \in DOMAIN new /\ new[i] = entry
       /\ \A j \in DOMAIN new : j = i \/ (j \in DOMAIN pub /\ new[j] = pub[j])
       /\ \A j \in DOMAIN pub : j = i \/ (j \in DOMAIN new /\ new[j] = pub[j])
  BY <1>7, <1>11, <1>13, PlacedAt DEF i
<1>15. i \in DOMAIN pub => pub[i].pid = 0
  <2>1. DOMAIN pub = 1..Len(pub) BY <1>7
  <2> QED BY <1>7, <1>11, <2>1 DEF i
<1> HIDE DEF new
<1>16. ASSUME FilesOK(r) PROVE PubOK(r.reg, new)
  <2>1. PubOK(r.reg, pub) BY <1>16 DEF FilesOK, pub
  <2>2. ASSUME NEW j \in DOMAIN new, new[j].pid # 0
        PROVE  /\ new[j].pid = j /\ new[j].tid \in DOMAIN r.reg
               /\ new[j].data # Damaged => r.reg[new[j].tid] = new[j].data[1]
    <3>1. CASE j = i BY <1>6, <1>13, <1>14, <1>16, <3>1 DEF t
    <3>2. CASE j # i BY <1>14, <2>1, <2>2, <3>2 DEF PubOK
    <3> QED BY <3>1, <3>2
  <2> QED BY <2>2 DEF PubOK
<1>17. r.status \in Present BY <1>1 DEF get_client_status, is_subscribed, Usable
<1>18. Numbered(r) => \A j \in DOMAIN new : new[j].pid # 0 => new[j].pid = j BY <1>13, <1>14 DEF Numbered, pub
<1>19. \A j \in DOMAIN r.pub : r.pub[j].pid # 0 =>
         j \in DOMAIN new /\ new[j].pid # 0 /\ SameMessage(r.pub[j], new[j])
  BY <1>14, <1>15 DEF SameMessage, pub
<1> QED BY <1>1, <1>5, <1>14, <1>16, <1>17, <1>18, <1>19, PutPubQuiet DEF tid, qos, t

\* Overwriting an entry of a queue.
LEMMA ReplaceEntry ==
  ASSUME NEW pub \in Seq(entry_publish), NEW i \in 1..Len(pub), NEW e \in entry_publish
  PROVE  /\ ReplaceAt(pub, i, e) \in Seq(entry_publish)
         /\ Len(ReplaceAt(pub, i, e)) = Len(pub)
         /\ ReplaceAt(pub, i, e)[i] = e
BY ReplaceType

\* e is a hole or the message of the entry d.
ForSame(e, d) == e.pid # 0 => SameMessage(d, e)

\* Overwriting an entry by a hole, or by one for the same message.
LEMMA PutEntryQuiet ==
  ASSUME NEW s, Good(s), Usable(s), NEW i \in DOMAIN Cur(s).pub, NEW e \in entry_publish,
         ForSame(e, Cur(s).pub[i])
  PROVE  LET u == Put(s, [Cur(s) EXCEPT !.pub = ReplaceAt(Cur(s).pub, i, e)])
         IN Spent(s, u) /\ (e.pid # 0 => Quiet(s, u))
<1> DEFINE r == Cur(s)
           pub == r.pub
           new == ReplaceAt(pub, i, e)
<1>1. pub \in Seq(entry_publish) /\ i \in 1..Len(pub) /\ DOMAIN pub = 1..Len(pub)
  BY CurType DEF entry_client
<1>2. ForSame(e, pub[i]) OBVIOUS
<1> HIDE DEF pub
<1>3. new \in Seq(entry_publish) /\ DOMAIN new = DOMAIN pub /\ new[i] = e
  <2>1. new \in Seq(entry_publish) /\ Len(new) = Len(pub) /\ new[i] = e BY <1>1, ReplaceEntry
  <2> QED BY <1>1, <2>1
<1>4. \A j \in DOMAIN pub : j # i => new[j] = pub[j] BY <1>1 DEF ReplaceAt
<1> HIDE DEF new
<1>5. ASSUME FilesOK(r) PROVE PubOK(r.reg, new)
  <2>1. PubOK(r.reg, pub) BY <1>5 DEF FilesOK, pub
  <2>2. ASSUME NEW j \in DOMAIN new, new[j].pid # 0
        PROVE  /\ new[j].pid = j /\ new[j].tid \in DOMAIN r.reg
               /\ new[j].data # Damaged => r.reg[new[j].tid] = new[j].data[1]
    <3>1. CASE j = i BY <1>2, <1>3, <2>1, <2>2, <3>1 DEF PubOK, ForSame, SameMessage
    <3>2. CASE j # i BY <1>3, <1>4, <2>1, <2>2, <3>2 DEF PubOK
    <3> QED BY <3>1, <3>2
  <2> QED BY <2>2 DEF PubOK
<1>6. \A j \in DOMAIN new : new[j].pid # 0 => j \in DOMAIN pub /\ pub[j].pid # 0
  BY <1>2, <1>3, <1>4 DEF ForSame, SameMessage
<1>7. Numbered(r) => \A j \in DOMAIN new : new[j].pid # 0 => new[j].pid = j
  BY <1>2, <1>3, <1>4 DEF ForSame, SameMessage, Numbered, pub
<1>8. e.pid # 0 => \A j \in DOMAIN pub : pub[j].pid # 0 =>
        j \in DOMAIN new /\ new[j].pid # 0 /\ SameMessage(pub[j], new[j])
  BY <1>2, <1>3, <1>4 DEF ForSame, SameMessage
<1> QED BY <1>3, <1>5, <1>6, <1>7, <1>8, PutPubQuiet DEF new, pub

\* Giving an entry a message id, blanking it, or damaging its body.
LEMMA QueueOpsQuiet ==
  ASSUME NEW s, Good(s), NEW pid, NEW mid \in Nat
  PROVE  /\ Quiet(s, set_publish_msg_id(s, pid, mid))
         /\ Quiet(s, remove_publish_by_msg_id(s, mid))
         /\ LET u == remove_publish_by_publish_id(s, pid) IN
              /\ Spent(s, u)
              /\ u.clients = s.clients \/ Usable(u)
              /\ \A c \in 1..Len(s.clients) : \A j \in Queued(s.clients[c]) :
                   \/ j \in Queued(u.clients[c]) /\ SameMessage(s.clients[c].pub[j], u.clients[c].pub[j])
                   \/ Usable(s) /\ c = s.cur /\ j = pid
<1> DEFINE r == Cur(s)
           pub == r.pub
<1>1. ASSUME Usable(s), NEW i \in DOMAIN pub, NEW e \in entry_publish, ForSame(e, pub[i])
      PROVE  LET u == Put(s, [Cur(s) EXCEPT !.pub = ReplaceAt(pub, i, e)])
             IN Spent(s, u) /\ (e.pid # 0 => Quiet(s, u))
  BY <1>1, PutEntryQuiet
<1>2. Quiet(s, s) /\ Quiet(s, Fail(s)) BY QuietRefl, FlagsOnly
<1>3. ASSUME Usable(s), NEW i \in DOMAIN pub PROVE pub[i] \in entry_publish
  <2>1. pub \in Seq(entry_publish) /\ i \in 1..Len(pub) BY <1>3, CurType DEF entry_client
  <2> QED BY <2>1, ElementOfSeq
<1>4. Quiet(s, set_publish_msg_id(s, pid, mid))
  <2>1. CASE Usable(s) /\ pid \in DOMAIN pub /\ pub[pid].pid = pid
    <3> DEFINE e == [pub[pid] EXCEPT !.mid = mid]
    <3>1. pub[pid] \in entry_publish BY <1>3, <2>1
    <3>2. /\ e \in entry_publish /\ e.pid = pub[pid].pid /\ e.tid = pub[pid].tid
          /\ e.qos = pub[pid].qos /\ e.data = pub[pid].data
      BY <3>1 DEF entry_publish
    <3>3. set_publish_msg_id(s, pid, mid) = Put(s, [Cur(s) EXCEPT !.pub = ReplaceAt(pub, pid, e)])
      BY <2>1 DEF set_publish_msg_id
    <3>4. ForSame(e, pub[pid]) BY <3>2 DEF ForSame, SameMessage
    <3>5. pid # 0
      <4>1. pub \in Seq(entry_publish) BY <2>1, CurType DEF entry_client
      <4> QED BY <2>1, <4>1
    <3> HIDE DEF e, pub
    <3> QED BY <1>1, <2>1, <3>2, <3>3, <3>4, <3>5
  <2>2. CASE ~(Usable(s) /\ pid \in DOMAIN pub /\ pub[pid].pid = pid)
    <3>1. set_publish_msg_id(s, pid, mid) \in {s, Fail(s)} BY <2>2 DEF set_publish_msg_id
    <3> QED BY <1>2, <3>1
  <2> QED BY <2>1, <2>2
<1>5. LET u == remove_publish_by_publish_id(s, pid) IN
        /\ Spent(s, u)
        /\ u.clients = s.clients \/ Usable(u)
        /\ \A c \in 1..Len(s.clients) : \A j \in Queued(s.clients[c]) :
             \/ j \in Queued(u.clients[c]) /\ SameMessage(s.clients[c].pub[j], u.clients[c].pub[j])
             \/ Usable(s) /\ c = s.cur /\ j = pid
  <2> DEFINE u == remove_publish_by_publish_id(s, pid)
  <2>1. CASE Usable(s) /\ pid \in DOMAIN pub /\ pub[pid].pid = pid
    <3> DEFINE new == ReplaceAt(pub, pid, PubHole)
               row == [Cur(s) EXCEPT !.pub = new]
    <3>1. PubHole \in entry_publish /\ PubHole.pid = 0 BY DEF PubHole, entry_publish
    <3>2. u = Put(s, row) BY <2>1 DEF remove_publish_by_publish_id
    <3>3. ForSame(PubHole, pub[pid]) BY <3>1 DEF ForSame
    <3>4. pub \in Seq(entry_publish) /\ pid \in 1..Len(pub) /\ DOMAIN pub = 1..Len(pub)
      BY <2>1, CurType DEF entry_client
    <3>5. Cur(s) \in entry_client BY <2>1, CurType
    <3> HIDE DEF pub
    <3>6. Spent(s, Put(s, row)) BY <1>1, <2>1, <3>1, <3>3
    <3>7. new \in Seq(entry_publish) /\ DOMAIN new = DOMAIN pub
          /\ \A j \in DOMAIN pub : j # pid => new[j] = pub[j]
      <4>1. new \in Seq(entry_publish) /\ Len(new) = Len(pub) BY <3>1, <3>4, ReplaceEntry
      <4>2. \A j \in DOMAIN pub : j # pid => new[j] = pub[j] BY <3>4 DEF ReplaceAt
      <4> QED BY <3>4, <4>1, <4>2
    <3> HIDE DEF new
    <3>8. row \in entry_client /\ row.pub = new BY <3>5, <3>7 DEF entry_client
    <3> HIDE DEF row, u
    <3>9. Usable(u)
      <4>1. SameTx(s, Put(s, row)) BY <2>1, <3>8, PutGood
      <4> QED BY <2>1, <3>2, <4>1 DEF Usable, SameTx
    <3>10. ASSUME NEW c \in 1..Len(s.clients), NEW j \in Queued(s.clients[c])
           PROVE  \/ j \in Queued(u.clients[c]) /\ SameMessage(s.clients[c].pub[j], u.clients[c].pub[j])
                  \/ c = s.cur /\ j = pid
      <4>1. u.clients[c] = IF c = s.cur THEN row ELSE s.clients[c] BY <2>1, <3>2, <3>8, PutQuiet
      <4>2. CASE c = s.cur BY <3>7, <3>8, <3>10, <4>1, <4>2 DEF Queued, SameMessage, pub, Cur
      <4>3. CASE c # s.cur BY <3>10, <4>1, <4>3 DEF SameMessage
      <4> QED BY <4>2, <4>3
    <3> QED BY <2>1, <3>2, <3>6, <3>9, <3>10 DEF u
  <2>2. CASE ~(Usable(s) /\ pid \in DOMAIN pub /\ pub[pid].pid = pid)
    <3>1. u \in {s, Fail(s)} BY <2>2 DEF remove_publish_by_publish_id
    <3>2. u.clients = s.clients /\ Quiet(s, u) BY <1>2, <3>1, FlagsOnly
    <3> HIDE DEF u
    <3>3. Spent(s, u) BY <3>2, SpentCarried
    <3> QED BY <3>2, <3>3 DEF SameMessage, u
  <2> QED BY <2>1, <2>2
<1>6. Quiet(s, remove_publish_by_msg_id(s, mid))
  <2>1. CASE ~Usable(s) BY <1>2, <2>1 DEF remove_publish_by_msg_id
  <2>2. CASE Usable(s)
    <3> DEFINE found == \E j \in DOMAIN pub : pub[j].mid = mid
               e == [pub[1] EXCEPT !.data = Damaged]
               hit == IF found /\ pub[1].pid # 0 THEN ReplaceAt(pub, 1, e) ELSE pub
               u == Put(s, [Cur(s) EXCEPT !.pub = hit])
    <3>1. pub \in Seq(entry_publish) BY <2>2, CurType DEF entry_client
    <3>2. Quiet(s, Put(s, [Cur(s) EXCEPT !.pub = pub]))
      <4>1. FilesOK(r) => PubOK(r.reg, pub) BY DEF FilesOK
      <4>2. \A j \in DOMAIN pub : pub[j].pid # 0 => j \in DOMAIN r.pub /\ r.pub[j].pid # 0 OBVIOUS
      <4>3. \A j \in DOMAIN r.pub : r.pub[j].pid # 0 =>
              j \in DOMAIN pub /\ pub[j].pid # 0 /\ SameMessage(r.pub[j], pub[j])
        BY DEF SameMessage
      <4>4. Numbered(r) => \A j \in DOMAIN pub : pub[j].pid # 0 => pub[j].pid = j BY DEF Numbered
      <4> HIDE DEF pub
      <4> QED BY <2>2, <3>1, <4>1, <4>2, <4>3, <4>4, PutPubQuiet
    <3>3. ASSUME found, pub[1].pid # 0 PROVE Quiet(s, Put(s, [Cur(s) EXCEPT !.pub = ReplaceAt(pub, 1, e)]))
      <4>1. 1 \in DOMAIN pub BY <3>1, <3>3
      <4>2. pub[1] \in entry_publish BY <1>3, <2>2, <4>1
      <4>3. /\ e \in entry_publish /\ e.pid = pub[1].pid /\ e.tid = pub[1].tid
            /\ e.qos = pub[1].qos /\ e.data = Damaged
        BY <4>2 DEF entry_publish
      <4>4. ForSame(e, pub[1]) BY <4>3 DEF ForSame, SameMessage
      <4> HIDE DEF e, pub
      <4> QED BY <1>1, <2>2, <3>3, <4>1, <4>3, <4>4
    <3>4. Quiet(s, u) BY <3>2, <3>3
    <3>5. Good(u)
      <4>1. remove_publish_by_msg_id(s, mid) = [u EXCEPT !.error = (mid = 0)] BY <2>2 DEF remove_publish_by_msg_id
      <4>2. hit \in Seq(entry_publish)
        <5>1. ASSUME found PROVE ReplaceAt(pub, 1, e) \in Seq(entry_publish)
          <6>1. 1 \in DOMAIN pub BY <3>1, <5>1
          <6>2. pub[1] \in entry_publish /\ 1 \in 1..Len(pub) BY <1>3, <2>2, <3>1, <6>1
          <6>3. e \in entry_publish BY <6>2 DEF entry_publish
          <6> HIDE DEF e, pub
          <6> QED BY <3>1, <6>2, <6>3, ReplaceType
        <5> QED BY <3>1, <5>1
      <4> HIDE DEF hit
      <4> QED BY <2>2, <4>2, PutQueueGood
    <3>6. remove_publish_by_msg_id(s, mid) = [u EXCEPT !.error = (mid = 0)] BY <2>2 DEF remove_publish_by_msg_id
    <3> HIDE DEF u
    <3>7. [u EXCEPT !.error = (mid = 0)].clients = u.clients /\ [u EXCEPT !.error = (mid = 0)].count = u.count
      BY <3>5 DEF Good, Store
    <3> QED BY <3>4, <3>6, <3>7, QuietFiles
  <2> QED BY <2>1, <2>2
<1> QED BY <1>4, <1>5, <1>6

---------------------------------------------------------------------------
(* The global counts. *)

\* Counting up and down one topic; a count that has come down to 0 is noticed by the caller.
LEMMA Counting ==
  ASSUME NEW s, Good(s), NEW t
  PROVE  /\ LET u == increment_global_subscription_count(s, t) IN
              /\ u.clients = s.clients /\ Held(s, u) /\ SameTx(s, u)
              /\ \A x \in Topic : u.count[x] = s.count[x] \/ (x = t /\ u.count[x] = s.count[x] + 1)
              /\ get_global_topic_subscription_count(u, t) = 1 => t \in Topic /\ u.count[t] = 1
         /\ LET d == decrement_global_subscription_count(s, t) IN
              /\ d.clients = s.clients /\ Held(s, d)
              /\ \A x \in Topic : \/ d.count[x] = s.count[x] \/ d.count[x] > 0
                                  \/ (x = t /\ last_unsubscribed(d, t))
              /\ \A x \in Topic : IF x # t \/ s.error THEN d.count[x] = s.count[x]
                                  ELSE d.count[x] = s.count[x] - 1 \/ (d.count[x] = 0 /\ s.count[x] = 0)
<1>1. s.count \in [Topic -> Nat] BY DEF Good, Store
<1>2. ASSUME NEW c \in [Topic -> Nat], NEW u, u = [s EXCEPT !.count = c]
      PROVE  u.clients = s.clients /\ Held(s, u) /\ SameTx(s, u) /\ u.count = c /\ u.error = s.error
  BY <1>2 DEF Good, Store, Held, SameTx
<1>3. LET u == increment_global_subscription_count(s, t) IN
        /\ u.clients = s.clients /\ Held(s, u) /\ SameTx(s, u)
        /\ \A x \in Topic : u.count[x] = s.count[x] \/ (x = t /\ u.count[x] = s.count[x] + 1)
        /\ get_global_topic_subscription_count(u, t) = 1 => t \in Topic /\ u.count[t] = 1
  <2> DEFINE u == increment_global_subscription_count(s, t)
             c == [s.count EXCEPT ![t] = @ + 1]
  <2>1. get_global_topic_subscription_count(u, t) = 1 => t \in Topic /\ u.count[t] = 1
    BY DEF get_global_topic_subscription_count
  <2>2. CASE s.error \/ t \notin Topic
    <3>1. u = s BY <2>2 DEF increment_global_subscription_count
    <3> QED BY <2>1, <3>1 DEF Held, SameTx
  <2>3. CASE ~(s.error \/ t \notin Topic)
    <3>1. /\ c \in [Topic -> Nat]
          /\ \A x \in Topic : c[x] = s.count[x] \/ (x = t /\ c[x] = s.count[x] + 1)
      BY <1>1, <2>3
    <3>2. u = [s EXCEPT !.count = c] BY <2>3 DEF increment_global_subscription_count
    <3> HIDE DEF c, u
    <3> QED BY <1>2, <2>1, <3>1, <3>2 DEF u
  <2> QED BY <2>2, <2>3
<1>4. LET d == decrement_global_subscription_count(s, t) IN
        /\ d.clients = s.clients /\ Held(s, d)
        /\ \A x \in Topic : \/ d.count[x] = s.count[x] \/ d.count[x] > 0
                            \/ (x = t /\ last_unsubscribed(d, t))
        /\ \A x \in Topic : IF x # t \/ s.error THEN d.count[x] = s.count[x]
                            ELSE d.count[x] = s.count[x] - 1 \/ (d.count[x] = 0 /\ s.count[x] = 0)
  <2> DEFINE d == decrement_global_subscription_count(s, t)
             c == [s.count EXCEPT ![t] = @ - 1]
  <2>1. CASE s.error \/ t \notin Topic \/ s.count[t] = 0
    <3>1. d = s BY <2>1 DEF decrement_global_subscription_count
    <3> QED BY <2>1, <3>1 DEF Held
  <2>2. CASE ~(s.error \/ t \notin Topic \/ s.count[t] = 0)
    <3>1. /\ c \in [Topic -> Nat]
          /\ \A x \in Topic : x # t => c[x] = s.count[x]
          /\ c[t] > 0 \/ c[t] = 0
          /\ c[t] = s.count[t] - 1
      BY <1>1, <2>2
    <3>2. d = [s EXCEPT !.count = c] BY <2>2 DEF decrement_global_subscription_count
    <3> HIDE DEF c, d
    <3>3. d.clients = s.clients /\ Held(s, d) /\ d.count = c BY <1>2, <3>1, <3>2
    <3>4. d.count[t] = 0 => last_unsubscribed(d, t)
      BY DEF last_unsubscribed, get_global_topic_subscription_count
    <3> QED BY <2>2, <3>1, <3>3, <3>4 DEF d
  <2> QED BY <2>1, <2>2
<1> QED BY <1>3, <1>4

---------------------------------------------------------------------------
(* The operations of the core. *)

\* await_message, and the changes of status and will.
LEMMA StateOpsQuiet ==
  ASSUME NEW s, Closed(s), NEW a, NEW type \in Awaited, NEW online
  PROVE  /\ Quiet(s, await_message(s, a, type).db)
         /\ Quiet(s, remove_will(s, a).db)
         /\ a # NoAddress => /\ Quiet(s, set_disconnected(s, a).db)
                             /\ Quiet(s, set_asleep(s, online, a).db)
                             /\ Quiet(s, set_awake(s, a).db)
         /\ \A t \in Name, qos \in WillQos : Quiet(s, add_will_topic(s, online, a, t, qos).db)
         /\ \A msg \in Payload : Quiet(s, add_will_msg(s, online, a, msg).db)
<1> DEFINE o == start_by_address(s, a)
<1>1. Good(o) /\ o.clients = s.clients /\ o.count = s.count /\ (Usable(o) => Cur(o).addr = a)
  BY OpenFiles DEF Closed
<1>2. Quiet(s, s) /\ Quiet(o, o) BY <1>1, QuietRefl DEF Closed
<1> HIDE DEF o
<1>3. ASSUME NEW u, Good(u), Quiet(o, u) PROVE Quiet(s, Commit(u).db) /\ Quiet(s, apply_transaction(u))
  BY <1>1, <1>3, QuietCommit
<1>4. Quiet(s, await_message(s, a, type).db)
  <2>1. Quiet(o, set_client_await_message(o, type)) BY <1>1, FieldsQuiet
  <2>2. Good(set_client_await_message(o, type)) BY <1>1, SetAwaitGood
  <2> QED BY <1>3, <2>1, <2>2 DEF await_message, o
<1>5. Quiet(s, remove_will(s, a).db)
  <2>1. Quiet(o, delete_will(o)) BY <1>1, FieldsQuiet
  <2>2. Good(delete_will(o)) BY <1>1, WillGood
  <2> QED BY <1>3, <2>1, <2>2 DEF remove_will, o
<1>6. ASSUME a # NoAddress, NEW st \in Status \ {"EMPTY"} PROVE Quiet(s, Commit(set_client_state(o, st)).db)
  <2>1. Quiet(o, set_client_state(o, st)) BY <1>1, <1>6, FieldsQuiet
  <2>2. Good(set_client_state(o, st)) BY <1>1, SetStateGood
  <2> QED BY <1>3, <2>1, <2>2
<1>7. a # NoAddress => /\ Quiet(s, set_disconnected(s, a).db)
                       /\ Quiet(s, set_asleep(s, online, a).db)
                       /\ Quiet(s, set_awake(s, a).db)
  <2>1. {"DISCONNECTED", "ASLEEP", "AWAKE"} \subseteq Status \ {"EMPTY"} BY DEF Status
  <2> QED BY <1>2, <1>6, <2>1 DEF set_disconnected, set_asleep, set_awake, Refuse, o
<1>8. ASSUME NEW t \in Name, NEW qos \in WillQos PROVE Quiet(s, add_will_topic(s, online, a, t, qos).db)
  <2>1. Quiet(o, set_client_willtopic(o, t, qos)) BY <1>1, FieldsQuiet
  <2>2. Good(set_client_willtopic(o, t, qos)) BY <1>1, WillGood
  <2>3. add_will_topic(s, online, a, t, qos)
          \in {Refuse(s), Refuse(apply_transaction(o)), Commit(set_client_willtopic(o, t, qos))}
    BY DEF add_will_topic, o
  <2> QED BY <1>1, <1>2, <1>3, <2>1, <2>2, <2>3 DEF Refuse
<1>9. ASSUME NEW msg \in Payload PROVE Quiet(s, add_will_msg(s, online, a, msg).db)
  <2>1. Quiet(o, set_client_willmessage(o, msg)) BY <1>1, FieldsQuiet
  <2>2. Good(set_client_willmessage(o, msg)) BY <1>1, WillGood
  <2>3. add_will_msg(s, online, a, msg)
          \in {Refuse(s), Refuse(apply_transaction(o)), Commit(set_client_willmessage(o, msg))}
    BY DEF add_will_msg, o
  <2> QED BY <1>1, <1>2, <1>3, <2>1, <2>2, <2>3 DEF Refuse
<1> QED BY <1>4, <1>5, <1>7, <1>8, <1>9

\* REGISTER, and the acknowledgements of the client.
LEMMA RegisterQuiet ==
  ASSUME NEW s, Closed(s), NEW online, NEW a, NEW t \in Name, NEW mid \in Nat, NEW code
  PROVE  /\ Quiet(s, register_topic(s, online, a, t).db)
         /\ \A r \in notify_regack_arrived(s, a, mid, code) : Quiet(s, r.db)
         /\ Quiet(s, notify_puback_arrived(s, a, mid, code).db)
<1> DEFINE o == start_by_address(s, a)
           g == add_client_registration(o, t)
           w == set_client_await_message(o, "PINGREQ")
           m == remove_publish_by_msg_id(o, mid)
<1>1. Good(o) /\ o.clients = s.clients /\ o.count = s.count /\ (Usable(o) => Cur(o).addr = a)
  BY OpenFiles DEF Closed
<1>2. Quiet(s, s) /\ Quiet(o, o) BY <1>1, QuietRefl DEF Closed
<1> HIDE DEF o
<1>3. ASSUME NEW u, Good(u), Quiet(o, u) PROVE Quiet(s, Commit(u).db) /\ Quiet(s, apply_transaction(u))
  BY <1>1, <1>3, QuietCommit
<1>4. Good(g) /\ Quiet(o, g) BY <1>1, RegistrationGood, RegistrationQuiet
<1>5. Good(w) /\ Quiet(o, w) BY <1>1, SetAwaitGood, FieldsQuiet DEF Awaited
<1>6. Good(m) /\ Quiet(o, m) BY <1>1, RemoveByMsgIdGood, QueueOpsQuiet
<1>7. register_topic(s, online, a, t).db \in {s, Commit(g).db} BY DEF register_topic, o
<1>8. ASSUME NEW r \in notify_regack_arrived(s, a, mid, code)
      PROVE  r.db \in {Commit(w).db, Commit(o).db, apply_transaction(o)}
  BY <1>8 DEF notify_regack_arrived, Refuse, o
<1>9. notify_puback_arrived(s, a, mid, code).db \in {apply_transaction(o), Commit(m).db}
  BY DEF notify_puback_arrived, Refuse, o
<1> HIDE DEF g, w, m
<1> QED BY <1>1, <1>2, <1>3, <1>4, <1>5, <1>6, <1>7, <1>8, <1>9

\* A message from the broker, also when it closes the transaction of the caller.
LEMMA ReceiveQuiet ==
  ASSUME NEW s, Good(s), NEW a, NEW data \in Data
  PROVE  LET u == handle_receive_mqtt_publish_for_client(s, a, data)
         IN /\ Carried(s, u) /\ Retained(s, u)
            /\ Loyal(s, u) /\ u.count = s.count /\ Held(s, u) /\ Still(s, u)
<1> DEFINE o == start_by_address(s, a)
           t == data[1]
           q == add_client_publish(o, data, get_subscription_topic_id(o, t), get_subscription_qos(o, t))
<1>1. Good(o) /\ o.clients = s.clients /\ o.count = s.count /\ Held(s, o) BY OpenFiles
<1>2. Carried(o, o) /\ Retained(o, o) /\ Loyal(o, o) /\ Still(o, o) /\ Held(o, o)
  BY <1>1, QuietRefl, KeptCarried, QuietFaithful DEF Held
<1> HIDE DEF o
<1>3. ASSUME is_subscribed(o, t), get_client_status(o) \in Present
      PROVE  /\ Good(q) /\ Carried(o, q) /\ Retained(o, q)
             /\ Loyal(o, q) /\ q.count = o.count /\ Held(o, q) /\ Still(o, q)
  <2>1. get_subscription_topic_id(o, t) \in Nat /\ get_subscription_qos(o, t) \in {0, 1}
    BY <1>1, <1>3, SubscriptionType
  <2>2. Good(q) BY <1>1, <2>1, AddPublishGood
  <2> QED BY <1>1, <1>3, <2>2, AddPublishQuiet
<1>4. \/ handle_receive_mqtt_publish_for_client(s, a, data) = apply_transaction(o)
      \/ /\ is_subscribed(o, t) /\ get_client_status(o) \in Present
         /\ handle_receive_mqtt_publish_for_client(s, a, data) = apply_transaction(q)
  BY DEF handle_receive_mqtt_publish_for_client, Present, o
<1>5. ASSUME NEW u, Good(u), Carried(o, u), Retained(o, u), Loyal(o, u), u.count = o.count,
             Held(o, u), Still(o, u)
      PROVE  LET v == apply_transaction(u)
             IN /\ Carried(s, v) /\ Retained(s, v)
                /\ Loyal(s, v) /\ v.count = s.count /\ Held(s, v) /\ Still(s, v)
  <2>1. /\ Carried(s, apply_transaction(u)) /\ Retained(s, apply_transaction(u))
        /\ Loyal(s, apply_transaction(u)) /\ apply_transaction(u).count = s.count
    BY <1>1, <1>5, FlagsOnly, QuietFiles
  <2>2. Still(s, apply_transaction(u)) /\ Held(s, apply_transaction(u))
    BY <1>1, <1>5, FlagsOnly, QuietFiles DEF Held
  <2> QED BY <2>1, <2>2
<1> HIDE DEF q
<1> QED BY <1>1, <1>2, <1>3, <1>4, <1>5

\* Finding the topic of a SUBSCRIBE with a registered id, and registering a predefined one.
LEMMA LookedUp ==
  ASSUME NEW s, Good(s), Usable(s), NEW tid \in Nat
  PROVE  /\ LET t == get_topic_name(s, tid)
                r == touch_topic_name(s, tid)
            IN t # Null => /\ tid \in DOMAIN Cur(s).reg /\ Cur(s).reg[tid] = t
                           /\ Usable(r) /\ Cur(r) = Cur(s) /\ r.regbuf = t
         /\ LET t == get_predefined_topic_name(s, tid)
                p == touch_predefined_topic_name(s, tid)
            IN t # Null => /\ Usable(p) /\ Cur(p) = Cur(s) /\ p.prebuf = t
                           /\ new_topic_id(p, t) = new_topic_id(s, t)
<1>1. LET t == get_topic_name(s, tid)
          r == touch_topic_name(s, tid)
      IN t # Null => /\ tid \in DOMAIN Cur(s).reg /\ Cur(s).reg[tid] = t
                     /\ Usable(r) /\ Cur(r) = Cur(s) /\ r.regbuf = t
  <2> DEFINE t == get_topic_name(s, tid)
             r == touch_topic_name(s, tid)
  <2> SUFFICES ASSUME t # Null
               PROVE  /\ tid \in DOMAIN Cur(s).reg /\ Cur(s).reg[tid] = t
                      /\ Usable(r) /\ Cur(r) = Cur(s) /\ r.regbuf = t
    OBVIOUS
  <2>1. tid \in DOMAIN Cur(s).reg /\ Cur(s).reg[tid] = t BY DEF get_topic_name
  <2>2. tid # 0
    <3>1. Cur(s).reg \in Seq(Name) BY CurType DEF entry_client
    <3> QED BY <2>1, <3>1
  <2>3. SameTx(s, r) /\ r.clients = s.clients BY TopicNameType
  <2>4. r = [s EXCEPT !.regbuf = t] BY <2>2 DEF touch_topic_name, Usable
  <2> HIDE DEF t, r
  <2>5. r.regbuf = t BY <2>4 DEF Good, Store
  <2> QED BY <2>1, <2>3, <2>5 DEF Usable, SameTx, Cur
<1>2. LET t == get_predefined_topic_name(s, tid)
          p == touch_predefined_topic_name(s, tid)
      IN t # Null => /\ Usable(p) /\ Cur(p) = Cur(s) /\ p.prebuf = t
                     /\ new_topic_id(p, t) = new_topic_id(s, t)
  <2> DEFINE t == get_predefined_topic_name(s, tid)
             p == touch_predefined_topic_name(s, tid)
  <2> SUFFICES ASSUME t # Null
               PROVE  Usable(p) /\ Cur(p) = Cur(s) /\ p.prebuf = t /\ new_topic_id(p, t) = new_topic_id(s, t)
    OBVIOUS
  <2>1. tid \in DOMAIN Predefined /\ t = Predefined[tid] BY DEF get_predefined_topic_name
  <2>2. p = [s EXCEPT !.prebuf = t] BY <2>1 DEF touch_predefined_topic_name, Usable
  <2>3. SameTx(s, p) /\ p.clients = s.clients BY PredefinedNameType
  <2> HIDE DEF t, p
  <2>4. p.prebuf = t BY <2>2 DEF Good, Store
  <2>5. Usable(p) /\ Cur(p) = Cur(s) BY <2>3 DEF Usable, SameTx, Cur
  <2> QED BY <2>4, <2>5 DEF new_topic_id
<1> QED BY <1>1, <1>2

(***************************************************************************)
(* SUBSCRIBE up to the broker call.  When it calls the broker the topic is *)
(* counted, and its name is in the buffer the pointer was taken from.  A   *)
(* topic is counted for a client that was not subscribed to it.            *)
(***************************************************************************)
LEMMA LookupKept ==
  ASSUME NEW s, Closed(s), NEW online, NEW a, a # NoAddress, NEW tid \in Nat, NEW short \in BOOLEAN, NEW qos
  PROVE  LET l == lookup_subscription(s, online, a, tid, short, qos)
         IN /\ Kept(s, l.db)
            /\ \A x \in Topic : \/ l.db.count[x] = s.count[x]
                                \/ l.db.count[x] = s.count[x] + 1 /\ Joined(s, l.db, x)
            /\ l.subscribe => /\ l.topic \in Topic /\ l.db.count[l.topic] = 1
                              /\ l.topic = IF short THEN l.db.regbuf ELSE l.db.prebuf
<1> DEFINE o == start_by_address(s, a)
           t == IF short THEN get_topic_name(o, tid) ELSE get_predefined_topic_name(o, tid)
           p == touch_predefined_topic_name(o, tid)
           r == IF short THEN touch_topic_name(o, tid)
                ELSE IF t = Null THEN p ELSE add_client_registration(p, t)
           id == IF short THEN tid ELSE new_topic_id(o, t)
           q == IF qos >= 1 THEN 1 ELSE 0
           v == add_subscription(r, t, id, q)
           i == increment_global_subscription_count(v, t)
           n == IF is_subscribed(r, t) THEN r ELSE i
           c == Commit(n)
           stop(x) == [db |-> x, res |-> "ZERO", tid |-> 0, topic |-> Empty, subscribe |-> FALSE]
           go == [db |-> c.db, res |-> c.res, tid |-> id, topic |-> t,
                  subscribe |-> ~is_subscribed(r, t) /\ get_global_topic_subscription_count(n, t) = 1]
<1>1. Good(o) /\ o.clients = s.clients /\ o.count = s.count /\ (Usable(o) => Cur(o).addr = a)
  BY OpenFiles DEF Closed
<1>2. \/ lookup_subscription(s, online, a, tid, short, qos) = stop(s)
      \/ lookup_subscription(s, online, a, tid, short, qos) = stop(apply_transaction(o))
      \/ t = Null /\ lookup_subscription(s, online, a, tid, short, qos) = stop(apply_transaction(r))
      \/ t # Null /\ Usable(o) /\ lookup_subscription(s, online, a, tid, short, qos) = go
  BY DEF lookup_subscription, client_exist, Usable
<1> HIDE DEF o
<1>3. ASSUME NEW y, y.clients = s.clients, y.count = s.count
      PROVE  /\ Kept(s, stop(y).db) /\ ~stop(y).subscribe
             /\ \A x \in Topic : stop(y).db.count[x] = s.count[x]
  <2>1. stop(y).db = y /\ ~stop(y).subscribe OBVIOUS
  <2> HIDE DEF stop
  <2> QED BY <1>3, <2>1, QuietRefl DEF Closed
<1>4. t = Null => /\ apply_transaction(r).clients = s.clients /\ apply_transaction(r).count = s.count
  <2>1. ASSUME t = Null PROVE r \in {touch_topic_name(o, tid), p} BY <2>1
  <2>2. /\ Good(touch_topic_name(o, tid)) /\ touch_topic_name(o, tid).clients = o.clients
        /\ touch_topic_name(o, tid).count = o.count
    BY <1>1, TopicNameType, FlagsOnly
  <2>3. Good(p) /\ p.clients = o.clients /\ p.count = o.count BY <1>1, PredefinedNameType, FlagsOnly
  <2> HIDE DEF r, p
  <2> QED BY <1>1, <2>1, <2>2, <2>3, FlagsOnly
<1>5. apply_transaction(o).clients = s.clients /\ apply_transaction(o).count = s.count BY <1>1, FlagsOnly
<1>6. ASSUME t # Null, Usable(o)
      PROVE  /\ Kept(s, go.db)
             /\ \A x \in Topic : \/ go.db.count[x] = s.count[x]
                                 \/ go.db.count[x] = s.count[x] + 1 /\ Joined(s, go.db, x)
             /\ go.subscribe => /\ go.topic \in Topic /\ go.db.count[go.topic] = 1
                                /\ go.topic = IF short THEN go.db.regbuf ELSE go.db.prebuf
  <2>1. t \in Name
    <3>1. t \in Name \cup {Null} BY <1>1, TopicNameType, PredefinedNameType DEF Name
    <3> QED BY <1>6, <3>1
  <2>2. /\ Good(r) /\ Kept(o, r) /\ r.count = o.count /\ Usable(r) /\ Cur(r).addr = a
        /\ id \in Nat /\ id \in DOMAIN Cur(r).reg /\ Cur(r).reg[id] = t
        /\ t = IF short THEN r.regbuf ELSE r.prebuf
    <3>1. CASE short
      <4>1. t = get_topic_name(o, tid) /\ r = touch_topic_name(o, tid) /\ id = tid BY <3>1
      <4> HIDE DEF t, r, id
      <4>2. Good(r) /\ r.clients = o.clients /\ r.count = o.count BY <1>1, <4>1, TopicNameType, FlagsOnly
      <4>3. /\ tid \in DOMAIN Cur(o).reg /\ Cur(o).reg[tid] = t
            /\ Usable(r) /\ Cur(r) = Cur(o) /\ r.regbuf = t
        BY <1>1, <1>6, <4>1, LookedUp
      <4>4. Kept(o, r) BY <1>1, <4>2, QuietRefl
      <4> QED BY <1>1, <1>6, <3>1, <4>1, <4>2, <4>3, <4>4
    <3>2. CASE ~short
      <4>1. t = get_predefined_topic_name(o, tid) /\ r = add_client_registration(p, t) /\ id = new_topic_id(o, t)
        BY <1>6, <3>2
      <4> HIDE DEF t, r, id
      <4>2. Good(p) /\ p.clients = o.clients /\ p.count = o.count BY <1>1, PredefinedNameType, FlagsOnly
      <4>3. Usable(p) /\ Cur(p) = Cur(o) /\ p.prebuf = t /\ new_topic_id(p, t) = id
        BY <1>1, <1>6, <4>1, LookedUp
      <4> HIDE DEF p
      <4>4. Good(r) /\ new_topic_id(p, t) \in Nat BY <2>1, <4>1, <4>2, RegistrationGood
      <4>5. /\ Quiet(p, r) /\ r.prebuf = p.prebuf /\ SameTx(p, r)
            /\ Cur(r).addr = Cur(p).addr
            /\ new_topic_id(p, t) \in DOMAIN Cur(r).reg /\ Cur(r).reg[new_topic_id(p, t)] = t
        BY <2>1, <4>1, <4>2, <4>3, RegistrationQuiet
      <4>6. Kept(o, r) /\ r.count = o.count
        <5>1. Kept(p, r) /\ r.count = p.count BY <4>5 DEF Quiet
        <5> QED BY <4>2, <5>1 DEF Kept
      <4>7. Usable(r) BY <4>3, <4>5 DEF Usable, SameTx
      <4> QED BY <1>1, <1>6, <3>2, <4>3, <4>4, <4>5, <4>6, <4>7
    <3> QED BY <3>1, <3>2
  <2>3. q \in {0, 1} OBVIOUS
  <2>4. go.db = c.db /\ go.topic = t
        /\ (go.subscribe => ~is_subscribed(r, t) /\ get_global_topic_subscription_count(n, t) = 1)
    OBVIOUS
  <2>5. c.db = apply_transaction(n) BY DEF Commit
  <2> HIDE DEF t, r, id, q, c, go
  <2>6. Kept(s, r) /\ r.count = s.count BY <1>1, <2>2 DEF Kept
  <2>7. CASE is_subscribed(r, t)
    <3>1. n = r BY <2>7
    <3>2. c.db.clients = r.clients /\ c.db.count = r.count BY <2>2, <2>5, <3>1, FlagsOnly
    <3>3. Kept(s, c.db) BY <2>6, <3>2 DEF Kept
    <3> QED BY <2>4, <2>6, <2>7, <3>2, <3>3
  <2>8. CASE ~is_subscribed(r, t)
    <3>1. n = i BY <2>8
    <3>2. Good(v) BY <2>2, <2>3, AddSubscriptionGood
    <3>3. /\ Quiet(r, v) /\ Held(r, v) /\ SameTx(r, v)
          /\ t \in Topic => ~SubscribedTo(Cur(r), t) /\ SubscribedTo(Cur(v), t)
      BY <1>6, <2>2, <2>3, <2>8, AddSubscriptionQuiet
    <3> HIDE DEF v, n
    <3>4. /\ Good(i) /\ i.clients = v.clients /\ Held(v, i)
          /\ \A x \in Topic : i.count[x] = v.count[x] \/ (x = t /\ i.count[x] = v.count[x] + 1)
          /\ get_global_topic_subscription_count(i, t) = 1 => t \in Topic /\ i.count[t] = 1
      BY <3>2, Counting, CountGood
    <3> HIDE DEF i
    <3>5. c.db.clients = i.clients /\ c.db.count = i.count /\ Held(i, c.db) BY <2>5, <3>1, <3>4, FlagsOnly
    <3>6. Kept(s, v)
      <4>1. Good(s) BY DEF Closed
      <4>2. Kept(r, v) BY <3>3 DEF Quiet
      <4> QED BY <2>2, <2>6, <3>2, <4>1, <4>2, KeptTrans
    <3>7. Kept(s, c.db) BY <3>4, <3>5, <3>6 DEF Kept
    <3>8. v.count = s.count BY <2>6, <3>3 DEF Quiet
    <3>9. c.db.regbuf = r.regbuf /\ c.db.prebuf = r.prebuf BY <3>3, <3>4, <3>5 DEF Held
    <3>10. ASSUME t \in Topic PROVE Joined(s, c.db, t)
      <4>1. r.cur \in 1..Len(r.clients) BY <2>2, CurType
      <4>2. r.cur \in 1..Len(s.clients) /\ RowLoyal(s.clients[r.cur], r.clients[r.cur])
        BY <2>6, <4>1 DEF Kept, RowKept, RowSpent
      <4>3. Cur(v) = c.db.clients[r.cur] BY <3>3, <3>4, <3>5 DEF Cur, SameTx
      <4> QED BY <3>3, <3>10, <4>2, <4>3 DEF Joined, RowLoyal, Cur
    <3> QED BY <2>2, <2>4, <3>1, <3>4, <3>5, <3>7, <3>8, <3>9, <3>10
  <2> QED BY <2>7, <2>8
<1> HIDE DEF stop, go, t, r
<1> QED BY <1>2, <1>3, <1>4, <1>5, <1>6

\* A kill between the writes of SUBSCRIBE: registered, or also subscribed.
LEMMA HalfSubscribedQuiet ==
  ASSUME NEW s, Closed(s), NEW a, a # NoAddress, NEW tid \in Nat, NEW short \in BOOLEAN, NEW qos,
         NEW u \in half_subscribed(s, a, tid, short, qos)
  PROVE  Quiet(s, u)
<1> DEFINE o == start_by_address(s, a)
           t == IF short THEN get_topic_name(o, tid) ELSE get_predefined_topic_name(o, tid)
           r == IF short \/ t = Null THEN o ELSE add_client_registration(o, t)
           id == IF short THEN tid ELSE new_topic_id(o, t)
           q == IF qos >= 1 THEN 1 ELSE 0
           v == add_subscription(r, t, id, q)
<1>1. Good(o) /\ o.clients = s.clients /\ o.count = s.count /\ (Usable(o) => Cur(o).addr = a)
  BY OpenFiles DEF Closed
<1>2. half_subscribed(s, a, tid, short, qos)
        = IF ~client_exist(o) \/ t = Null \/ is_subscribed(r, t) THEN {r} ELSE {r, v}
  BY Zenon DEF half_subscribed
<1> HIDE DEF o
<1>3. t \in Name \cup {Null} BY <1>1, TopicNameType, PredefinedNameType DEF Name
<1>4. Quiet(o, o) BY <1>1, QuietRefl
<1>5. Good(r) /\ Quiet(o, r)
  <2>1. CASE short \/ t = Null BY <1>1, <1>4, <2>1
  <2>2. CASE ~(short \/ t = Null)
    <3>1. t \in Name /\ r = add_client_registration(o, t) BY <1>3, <2>2
    <3> HIDE DEF t, r
    <3> QED BY <1>1, <3>1, RegistrationGood, RegistrationQuiet
  <2> QED BY <2>1, <2>2
<1>6. CASE u = r BY <1>1, <1>5, <1>6, QuietFiles
<1>7. CASE u # r
  <2>1. client_exist(o) /\ t # Null /\ ~is_subscribed(r, t) /\ u = v
    <3> HIDE DEF r, v, t
    <3> QED BY <1>2, <1>7
  <2>2. Usable(o) /\ t \in Name BY <1>3, <2>1 DEF client_exist, Usable
  <2>3. Cur(r).addr = a /\ id \in Nat /\ id \in DOMAIN Cur(r).reg /\ Cur(r).reg[id] = t
    <3>1. CASE short
      <4>1. t = get_topic_name(o, tid) /\ r = o /\ id = tid BY <3>1
      <4> HIDE DEF t, r, id
      <4> QED BY <1>1, <2>1, <2>2, <4>1, LookedUp
    <3>2. CASE ~short
      <4>1. r = add_client_registration(o, t) /\ id = new_topic_id(o, t) BY <2>1, <3>2
      <4> HIDE DEF t, r, id
      <4> QED BY <1>1, <2>2, <4>1, RegistrationGood, RegistrationQuiet
    <3> QED BY <3>1, <3>2
  <2>4. q \in {0, 1} OBVIOUS
  <2> HIDE DEF t, r, id, q
  <2>5. Good(v) BY <1>5, <2>3, <2>4, AddSubscriptionGood
  <2>6. Quiet(r, v) BY <1>5, <2>1, <2>3, <2>4, AddSubscriptionQuiet
  <2> HIDE DEF v
  <2>7. Quiet(o, v) BY <1>1, <1>5, <2>5, <2>6, KeptTrans DEF Quiet
  <2> QED BY <1>1, <2>1, <2>7, QuietFiles
<1> QED BY <1>6, <1>7

(***************************************************************************)
(* UNSUBSCRIBE up to the broker call: a count that comes down to 0 is that *)
(* of the topic, and the broker is to be told.                             *)
(***************************************************************************)
LEMMA UnlookupCarried ==
  ASSUME NEW s, Closed(s), NEW a, NEW form, NEW tid, NEW name
  PROVE  LET u == lookup_unsubscription(s, a, form, tid, name)
         IN /\ Carried(s, u.db) /\ Retained(s, u.db)
            /\ \A x \in Topic : \/ u.db.count[x] = s.count[x] \/ u.db.count[x] > 0
                                \/ (x = u.topic /\ u.unsubscribe)
<1> DEFINE o == start_by_address(s, a)
           t == CASE form = "name" -> name
                  [] form = "short" -> get_topic_name(o, tid)
                  [] OTHER -> get_predefined_topic_name(o, tid)
           r == CASE form = "name" -> o
                  [] form = "short" -> touch_topic_name(o, tid)
                  [] OTHER -> touch_predefined_topic_name(o, tid)
           id == IF form = "name" THEN get_topic_id(name) ELSE tid
           d == delete_subscription(r, id)
           m == decrement_global_subscription_count(d, t)
           n == IF is_subscribed(r, t) THEN r ELSE m
           u == lookup_unsubscription(s, a, form, tid, name)
<1>1. Good(o) /\ o.clients = s.clients /\ o.count = s.count BY OpenFiles DEF Closed
<1>2. u.db = apply_transaction(n) /\ u.topic = t
      /\ u.unsubscribe = (~is_subscribed(r, t) /\ last_unsubscribed(n, t))
  <2>1. u = [db |-> Commit(n).db, res |-> Commit(n).res, topic |-> t,
             unsubscribe |-> ~is_subscribed(r, t) /\ last_unsubscribed(n, t)]
    BY Zenon DEF lookup_unsubscription
  <2> HIDE DEF u, n, t, r
  <2> QED BY <2>1 DEF Commit
<1> HIDE DEF o, u
<1>3. Good(r) /\ r.clients = s.clients /\ r.count = s.count
  BY <1>1, TopicNameType, PredefinedNameType, FlagsOnly
<1> HIDE DEF r, id, t
<1>4. Good(s) BY DEF Closed
<1>5. CASE is_subscribed(r, t)
  <2>1. u.db.clients = s.clients /\ u.db.count = s.count BY <1>2, <1>3, <1>5, FlagsOnly
  <2> QED BY <1>4, <2>1, QuietRefl, KeptCarried DEF u
<1>6. CASE ~is_subscribed(r, t)
  <2>1. Good(d) /\ Carried(r, d) /\ Retained(r, d) /\ d.count = r.count
    BY <1>3, DeleteSubscriptionGood, DeleteSubscriptionRows
  <2>2. n = m BY <1>6
  <2> HIDE DEF d, n
  <2>3. /\ Good(m) /\ m.clients = d.clients
        /\ \A x \in Topic : m.count[x] = d.count[x] \/ m.count[x] > 0 \/ (x = t /\ last_unsubscribed(m, t))
    BY <2>1, CountGood, Counting
  <2> HIDE DEF m
  <2>4. u.db.clients = m.clients /\ u.db.count = m.count BY <1>2, <2>2, <2>3, FlagsOnly
  <2>5. Carried(s, u.db) /\ Retained(s, u.db) /\ d.count = s.count
    BY <1>3, <2>1, <2>3, <2>4 DEF Carried, Retained
  <2>6. last_unsubscribed(m, t) => u.unsubscribe BY <1>2, <1>6, <2>2
  <2> QED BY <1>2, <2>3, <2>4, <2>5, <2>6 DEF u
<1> QED BY <1>5, <1>6

(***************************************************************************)
(* The inverted test hides a subscription from UNSUBSCRIBE: by name there  *)
(* is no id to delete, and a registered id is that of the topic the client *)
(* was found not to be subscribed to.  Only an id that is both registered  *)
(* and predefined names two topics.                                        *)
(***************************************************************************)
LEMMA UnlookupFaithful ==
  ASSUME NEW s, Closed(s), NEW a, NEW form, NEW tid, NEW name,
         \A c \in 1..Len(s.clients) : FilesOK(s.clients[c]),
         form \in {"name", "short"} \/ \A c \in 1..Len(s.clients) : tid \notin DOMAIN s.clients[c].reg
  PROVE  Faithful(s, lookup_unsubscription(s, a, form, tid, name).db)
<1> DEFINE o == start_by_address(s, a)
           t == CASE form = "name" -> name
                  [] form = "short" -> get_topic_name(o, tid)
                  [] OTHER -> get_predefined_topic_name(o, tid)
           r == CASE form = "name" -> o
                  [] form = "short" -> touch_topic_name(o, tid)
                  [] OTHER -> touch_predefined_topic_name(o, tid)
           id == IF form = "name" THEN get_topic_id(name) ELSE tid
           d == delete_subscription(r, id)
           m == decrement_global_subscription_count(d, t)
           n == IF is_subscribed(r, t) THEN r ELSE m
           u == lookup_unsubscription(s, a, form, tid, name)
<1>1. Good(o) /\ o.clients = s.clients /\ o.count = s.count BY OpenFiles DEF Closed
<1>2. u.db = apply_transaction(n)
  <2>1. u = [db |-> Commit(n).db, res |-> Commit(n).res, topic |-> t,
             unsubscribe |-> ~is_subscribed(r, t) /\ last_unsubscribed(n, t)]
    BY Zenon DEF lookup_unsubscription
  <2> HIDE DEF u, n, t, r
  <2> QED BY <2>1 DEF Commit
<1> HIDE DEF o, u
<1>3. Good(r) /\ SameTx(o, r) /\ r.clients = s.clients /\ r.count = s.count
  <2>1. SameTx(o, o) BY DEF SameTx
  <2> QED BY <1>1, <2>1, TopicNameType, PredefinedNameType, FlagsOnly
<1>4. form = "name" => id = 0 BY DEF get_topic_id
<1>5. form = "short" => t = get_topic_name(o, tid) OBVIOUS
<1>6. form # "name" => id = tid OBVIOUS
<1> HIDE DEF r, id, t
<1>7. Good(s) BY DEF Closed
<1>8. \A x \in Topic : s.count[x] <= s.count[x]
  <2>1. s.count \in [Topic -> Nat] BY <1>7 DEF Good, Store
  <2> QED BY <2>1
<1>9. CASE is_subscribed(r, t)
  <2>1. u.db.clients = s.clients /\ u.db.count = s.count BY <1>2, <1>3, <1>9, FlagsOnly
  <2> QED BY <1>7, <2>1, QuietRefl, QuietFaithful DEF u
<1>10. CASE ~is_subscribed(r, t)
  <2>1. d.clients = r.clients
    <3> SUFFICES ASSUME NEW j \in DOMAIN Cur(r).sub, Usable(r), id # 0, Cur(r).sub[j].tid = id
                 PROVE  FALSE
      <4> HIDE DEF d
      <4> QED BY <1>3, DeleteSubscriptionRows DEF d
    <3>1. r.cur \in 1..Len(s.clients) /\ Cur(r) = s.clients[r.cur] BY <1>3, CurType DEF Cur
    <3>2. Usable(o) /\ Cur(o) = Cur(r) BY <1>1, <1>3 DEF SameTx, Usable, Cur
    <3>3. id = tid /\ form # "name" BY <1>4, <1>6
    <3>4. /\ tid \in DOMAIN Cur(r).reg /\ Cur(r).reg[tid] = Cur(r).sub[j].name
          /\ Cur(r).sub[j].name \in Topic
      BY <3>1, <3>3 DEF FilesOK, SubOK
    <3>5. form = "short" BY <3>1, <3>3, <3>4
    <3>6. t = Cur(r).sub[j].name BY <1>5, <3>2, <3>4, <3>5 DEF get_topic_name
    <3>7. is_subscribed(r, t) BY <1>3, <3>4, <3>6, NotFound DEF is_subscribed
    <3> QED BY <1>10, <3>7
  <2>2. Good(d) /\ d.count = r.count BY <1>3, DeleteSubscriptionGood, DeleteSubscriptionRows
  <2>3. n = m BY <1>10
  <2> HIDE DEF d, n
  <2>4. Good(m) /\ m.clients = d.clients BY <2>2, CountGood
  <2>5. \A x \in Topic : \/ m.count[x] = d.count[x] \/ m.count[x] = d.count[x] - 1
                          \/ (m.count[x] = 0 /\ d.count[x] = 0)
    BY <2>2, Counting
  <2> HIDE DEF m
  <2>6. u.db.clients = s.clients /\ u.db.count = m.count BY <1>2, <1>3, <2>1, <2>3, <2>4, FlagsOnly
  <2>7. \A x \in Topic : u.db.count[x] <= s.count[x]
    <3>1. s.count \in [Topic -> Nat] BY <1>7 DEF Good, Store
    <3> QED BY <1>3, <2>2, <2>5, <2>6, <3>1
  <2>8. Loyal(s, u.db) BY <1>7, <2>6, QuietRefl, QuietFaithful
  <2> QED BY <2>7, <2>8 DEF Faithful, u
<1> QED BY <1>9, <1>10

\* A kill between the deletion of a subscription and its count.
LEMMA HalfUnsubscribedCarried ==
  ASSUME NEW s, Closed(s), NEW a, NEW tid, NEW short
  PROVE  LET u == half_unsubscribed(s, a, tid, short) IN Carried(s, u) /\ Retained(s, u)
<1> DEFINE o == start_by_address(s, a)
           d == delete_subscription(o, tid)
<1>1. Good(o) /\ o.clients = s.clients /\ o.count = s.count BY OpenFiles DEF Closed
<1>2. half_unsubscribed(s, a, tid, short) \in {o, d} BY DEF half_unsubscribed
<1> HIDE DEF o
<1>3. Carried(o, o) /\ Retained(o, o) /\ Carried(o, d) /\ Retained(o, d)
  BY <1>1, QuietRefl, KeptCarried, DeleteSubscriptionRows
<1> HIDE DEF d
<1>4. Carried(s, o) /\ Retained(s, o) /\ Carried(s, d) /\ Retained(s, d) BY <1>1, <1>3 DEF Carried, Retained
<1> QED BY <1>2, <1>4

---------------------------------------------------------------------------
(* The visit of a client. *)

\* The next message of the queue is one of the client with the address, at its position.
LEMMA NextPublishOwn ==
  ASSUME NEW s, Good(s), has_client_publishes(s)
  PROVE  LET e == get_next_publish(s)
         IN /\ FilesOK(Cur(s)) => /\ e.tid \in DOMAIN Cur(s).reg
                                  /\ e.data # Damaged => Cur(s).reg[e.tid] = e.data[1]
            /\ Numbered(Cur(s)) => Cur(s).pub[e.pid] = e
<1> DEFINE q == Cur(s).pub
           I == {i \in 1..Len(q) : q[i].pid # 0}
<1>1. Usable(s) /\ LastPublish(s) # 0 BY DEF has_client_publishes
<1>2. q \in Seq(entry_publish) /\ Len(q) \in Nat /\ DOMAIN q = 1..Len(q) BY <1>1, CurType DEF entry_client
<1>3. LastPublish(s) = IF I # {} THEN Max(I) ELSE 0 BY DEF LastPublish, SelectLastInSeq
<1>4. I \in SUBSET (1..Len(q)) /\ \A i \in I : q[i].pid # 0 OBVIOUS
<1> HIDE DEF I
<1>5. LastPublish(s) \in I
  <2> HIDE DEF q
  <2> QED BY <1>1, <1>2, <1>3, <1>4, LastIn
<1>6. LastPublish(s) \in DOMAIN q /\ q[LastPublish(s)].pid # 0 BY <1>2, <1>4, <1>5
<1> QED BY <1>6 DEF get_next_publish, FilesOK, PubOK, Numbered

\* What is sent to the client of address a was queued for it under an id it knows.
OwnId(s, a, m) ==
  m.type = "PUBLISH" /\ m.data # Damaged =>
    \E c \in DOMAIN s.clients :
      /\ s.clients[c].addr = a
      /\ m.tid \in DOMAIN s.clients[c].reg
      /\ s.clients[c].reg[m.tid] = m.data[1]

\* handle_client_publishes: the writes, and the message that goes out.
LEMMA ClientPublishesQuiet ==
  ASSUME NEW s, Closed(s), NEW status, NEW a \in Address \cup {NoAddress},
         NEW x \in handle_client_publishes(s, status, a)
  PROVE  /\ Spent(s, x.db)
         /\ (\A c \in 1..Len(s.clients) : Numbered(s.clients[c])) => Delivered(s, x.db, x.out)
         /\ (\A c \in DOMAIN s.clients : FilesOK(s.clients[c])) =>
              \A i \in DOMAIN x.out : x.out[i].to = a /\ OwnId(s, a, x.out[i])
<1> DEFINE o == start_by_address(s, a)
           e == get_next_publish(o)
           kn == touch_topic_known(o, e.tid)
           rn == touch_topic_name(kn, e.tid)
           mid == get_client_await_msg_id(o) + 1
           done(y, m) == [db |-> apply_transaction(y), out |-> IF apply_result(y) = 1 THEN m ELSE <<>>]
           reg == [Sent(a, "REGISTER") EXCEPT !.tid = e.tid, !.mid = mid]
           p0 == [Sent(a, "PUBLISH") EXCEPT !.tid = e.tid, !.data = e.data]
           p1 == [Sent(a, "PUBLISH") EXCEPT !.tid = e.tid, !.data = e.data, !.qos = 1, !.mid = mid]
           w == set_client_await_message(kn, "PUBACK")
           s1 == set_client_await_message(rn, "REGACK")
           s2 == remove_publish_by_publish_id(kn, e.pid)
           s3 == set_publish_msg_id(w, e.pid, mid)
<1>1. Good(o) /\ o.clients = s.clients /\ o.count = s.count /\ (Usable(o) => Cur(o).addr = a)
  BY OpenFiles DEF Closed
<1>2. \/ x = [db |-> s, out |-> <<>>]
      \/ x = done(o, <<>>)
      \/ has_client_publishes(o) /\ x \in {done(rn, <<>>), done(s1, <<reg>>), done(s3, <<p1>>)}
      \/ has_client_publishes(o) /\ e.qos = 0 /\ x = done(s2, <<p0>>)
  BY DEF handle_client_publishes
<1> HIDE DEF o
<1>3. mid = 1 BY DEF get_client_await_msg_id
<1> HIDE DEF mid
<1>4. /\ reg.to = a /\ reg.type = "REGISTER"
      /\ p0.to = a /\ p0.type = "PUBLISH" /\ p0.tid = e.tid /\ p0.data = e.data
      /\ p1.to = a /\ p1.tid = e.tid /\ p1.data = e.data
  BY DEF Sent
<1> HIDE DEF reg, p0, p1, e
<1>5. Good(kn) /\ Quiet(o, kn) /\ kn.clients = o.clients /\ kn.count = o.count /\ (Usable(kn) => kn.cur = o.cur)
  <2>1. kn \in {o, Fail(o), touch_topic_name(o, e.tid)} BY DEF touch_topic_known
  <2>2. kn.clients = o.clients /\ kn.count = o.count BY <1>1, <2>1, FlagsOnly
  <2>3. Usable(kn) => kn.cur = o.cur BY <1>1, <2>1, FailGood, TopicNameType DEF Usable, SameTx
  <2> QED BY <1>1, <2>2, <2>3, TopicKnownGood, QuietRefl
<1> HIDE DEF kn
<1>6. Good(rn) /\ Quiet(o, rn)
  <2>1. Good(rn) /\ rn.clients = kn.clients /\ rn.count = kn.count BY <1>5, TopicNameType, FlagsOnly
  <2> QED BY <1>5, <2>1 DEF Quiet, Kept
<1> HIDE DEF rn
<1>7. ASSUME NEW y, Good(y), Quiet(o, y), NEW z, Good(z), Quiet(y, z) PROVE Quiet(o, z)
  BY <1>1, <1>7, KeptTrans DEF Quiet
<1>8. Good(s1) /\ Quiet(o, s1)
  <2>1. Good(s1) /\ Quiet(rn, s1) BY <1>6, SetAwaitGood, FieldsQuiet DEF Awaited
  <2> HIDE DEF s1
  <2> QED BY <1>6, <1>7, <2>1
<1>9. /\ Good(s2) /\ Spent(o, s2) /\ (s2.clients = o.clients \/ Usable(s2))
      /\ \A c \in 1..Len(o.clients) : \A j \in Queued(o.clients[c]) :
           \/ j \in Queued(s2.clients[c]) /\ SameMessage(o.clients[c].pub[j], s2.clients[c].pub[j])
           \/ c = o.cur /\ j = e.pid
  <2>1. /\ Good(s2) /\ Spent(kn, s2) /\ (s2.clients = kn.clients \/ Usable(s2))
        /\ \A c \in 1..Len(kn.clients) : \A j \in Queued(kn.clients[c]) :
             \/ j \in Queued(s2.clients[c]) /\ SameMessage(kn.clients[c].pub[j], s2.clients[c].pub[j])
             \/ Usable(kn) /\ c = kn.cur /\ j = e.pid
    BY <1>3, <1>5, QueueEntryGood, QueueOpsQuiet
  <2> HIDE DEF s2
  <2>2. Spent(o, s2) BY <1>5, <2>1 DEF Spent
  <2> QED BY <1>5, <2>1, <2>2
<1>10. Good(s3) /\ Quiet(o, s3)
  <2>1. Good(w) /\ Quiet(kn, w) BY <1>5, SetAwaitGood, FieldsQuiet DEF Awaited
  <2> HIDE DEF w
  <2>2. Good(s3) /\ Quiet(w, s3) BY <1>3, <2>1, QueueEntryGood, QueueOpsQuiet
  <2> HIDE DEF s3
  <2> QED BY <1>5, <1>7, <2>1, <2>2
<1> HIDE DEF s1, s2, s3, w
<1>11. ASSUME NEW y, Good(y), NEW m
       PROVE  /\ done(y, m).out = IF apply_result(y) = 1 THEN m ELSE <<>>
              /\ Spent(o, y) => Spent(s, done(y, m).db)
              /\ \A n : Delivered(o, y, n) => Delivered(s, done(y, m).db, n)
  <2>1. done(y, m).db = apply_transaction(y) /\ done(y, m).out = IF apply_result(y) = 1 THEN m ELSE <<>> OBVIOUS
  <2> HIDE DEF done
  <2>2. apply_transaction(y).clients = y.clients /\ apply_transaction(y).count = y.count BY <1>11, FlagsOnly
  <2>3. Spent(o, y) => Spent(s, apply_transaction(y)) BY <1>1, <2>2, QuietFiles
  <2>4. \A n : Delivered(o, y, n) => Delivered(s, apply_transaction(y), n) BY <1>1, <2>2, QuietFiles
  <2> QED BY <2>1, <2>3, <2>4
<1> HIDE DEF done
<1>12. Quiet(o, o) /\ Quiet(s, s) BY <1>1, QuietRefl DEF Closed
<1>13. ASSUME NEW y, Quiet(o, y) PROVE Spent(o, y) /\ \A n : Delivered(o, y, n)
  BY <1>13, SpentCarried, KeptCarried DEF Quiet
<1>14. Spent(s, s) /\ Delivered(s, s, <<>>) BY <1>12, SpentCarried, KeptCarried DEF Quiet
<1>15. Spent(s, x.db) BY <1>1, <1>2, <1>6, <1>8, <1>9, <1>10, <1>11, <1>12, <1>13, <1>14
<1>16. x.out = <<>> \/ (has_client_publishes(o) /\ x.out \in {<<reg>>, <<p0>>, <<p1>>})
  BY <1>1, <1>2, <1>6, <1>8, <1>9, <1>10, <1>11
<1>17. ASSUME \A c \in 1..Len(s.clients) : Numbered(s.clients[c]) PROVE Delivered(s, x.db, x.out)
  <2>1. CASE has_client_publishes(o) /\ e.qos = 0 /\ x = done(s2, <<p0>>)
    <3>1. Usable(o) BY <2>1 DEF has_client_publishes
    <3>2. o.cur \in 1..Len(s.clients) /\ Cur(o) = s.clients[o.cur] BY <1>1, <3>1, CurType DEF Cur
    <3>3. Cur(o).pub[e.pid] = e /\ Cur(o).addr = a BY <1>1, <1>17, <2>1, <3>1, <3>2, NextPublishOwn DEF e
    <3>4. CASE s2.clients = o.clients
      <4>1. Len(o.clients) = Len(s2.clients) BY <3>4
      <4>2. Delivered(o, s2, x.out) BY <3>4 DEF Delivered, SameMessage
      <4> QED BY <1>9, <1>11, <2>1, <4>2
    <3>5. CASE s2.clients # o.clients
      <4>1. Usable(s2) BY <1>9, <3>5
      <4>2. x.out = <<p0>>
        <5>1. apply_result(s2) = 1 BY <4>1 DEF apply_result, Usable
        <5> QED BY <1>9, <1>11, <2>1, <5>1
      <4>3. SentIn(a, e, <<p0>>)
        <5>1. 1 \in DOMAIN <<p0>> /\ <<p0>>[1] = p0 OBVIOUS
        <5> QED BY <1>4, <2>1, <5>1 DEF SentIn
      <4>4. Len(s2.clients) = Len(o.clients) BY <1>9 DEF Spent
      <4>5. Delivered(o, s2, <<p0>>) BY <1>9, <3>3, <4>3, <4>4 DEF Delivered, Cur
      <4> QED BY <1>9, <1>11, <2>1, <4>2, <4>5
    <3> QED BY <3>4, <3>5
  <2>2. CASE x \in {done(o, <<>>), done(rn, <<>>), done(s1, <<reg>>), done(s3, <<p1>>)}
    <3>1. PICK y \in {o, rn, s1, s3}, m \in {<<>>, <<reg>>, <<p1>>} : x = done(y, m) BY <2>2
    <3>2. Good(y) /\ Quiet(o, y) BY <1>1, <1>6, <1>8, <1>10, <1>12, <3>1
    <3> QED BY <1>11, <1>13, <3>1, <3>2
  <2>3. CASE x = [db |-> s, out |-> <<>>] BY <1>14, <2>3
  <2> QED BY <1>2, <2>1, <2>2, <2>3
<1>18. ASSUME \A c \in DOMAIN s.clients : FilesOK(s.clients[c]), has_client_publishes(o)
       PROVE  OwnId(s, a, p0) /\ OwnId(s, a, p1) /\ OwnId(s, a, reg)
  <2>1. Usable(o) BY <1>18 DEF has_client_publishes
  <2>2. o.cur \in DOMAIN s.clients /\ Cur(o) = s.clients[o.cur]
    BY <1>1, <2>1, CurType DEF Cur, Good, Store
  <2>3. e.tid \in DOMAIN Cur(o).reg /\ (e.data # Damaged => Cur(o).reg[e.tid] = e.data[1])
    BY <1>1, <1>18, <2>2, NextPublishOwn DEF e
  <2> QED BY <1>1, <1>4, <2>1, <2>2, <2>3 DEF OwnId
<1>19. ASSUME NEW m PROVE \A i \in DOMAIN <<m>> : <<m>>[i] = m OBVIOUS
<1>20. DOMAIN <<>> = {} OBVIOUS
<1>21. ASSUME \A c \in DOMAIN s.clients : FilesOK(s.clients[c]), NEW i \in DOMAIN x.out
       PROVE  x.out[i].to = a /\ OwnId(s, a, x.out[i])
  <2>1. has_client_publishes(o) /\ x.out \in {<<reg>>, <<p0>>, <<p1>>} BY <1>16, <1>20, <1>21
  <2>2. x.out[i] \in {reg, p0, p1} BY <1>19, <1>21, <2>1
  <2> QED BY <1>4, <1>18, <1>21, <2>1, <2>2
<1> QED BY <1>15, <1>21, <1>17

\* The answer to a client that has nothing queued; only a client that is there gets one.
LEMMA SettleQuiet ==
  ASSUME NEW s, Closed(s), NEW status, NEW a, NEW from, NEW to \in Status \ {"EMPTY"}, NEW answer,
         status \in from => a # NoAddress
  PROVE  Quiet(s, settle(s, status, a, from, to, answer).db)
<1> DEFINE o == start_by_address(s, a)
           u == set_client_state(o, to)
           w == settle(s, status, a, from, to, answer)
<1>1. Good(o) /\ o.clients = s.clients /\ o.count = s.count /\ (Usable(o) => Cur(o).addr = a)
  BY OpenFiles DEF Closed
<1>2. w.db = apply_transaction(o) \/ (status \in from /\ w.db = Commit(u).db) BY DEF settle
<1> HIDE DEF o, w
<1>3. Quiet(s, apply_transaction(o))
  <2>1. Quiet(o, o) BY <1>1, QuietRefl
  <2> QED BY <1>1, <2>1, QuietCommit
<1>4. ASSUME a # NoAddress PROVE Quiet(s, Commit(u).db)
  <2>1. Good(u) /\ Quiet(o, u) BY <1>1, <1>4, SetStateGood, FieldsQuiet
  <2> QED BY <1>1, <2>1, QuietCommit
<1> HIDE DEF u
<1> QED BY <1>2, <1>3, <1>4 DEF w

\* handle_timeout, and a kill inside it.
LEMMA TimeoutQuiet ==
  ASSUME NEW s, Closed(s), NEW r \in entry_client, NEW elapsed \in Nat, r.addr # NoAddress
  PROVE  /\ Quiet(s, handle_timeout(s, r, elapsed))
         /\ Quiet(s, set_timeout(start_by_address(s, r.addr), r.timeout + elapsed))
<1> DEFINE b == start_by_address(s, r.addr)
           o == set_timeout(b, r.timeout + elapsed)
           l == set_client_state(o, "LOST")
<1>1. Good(b) /\ b.clients = s.clients /\ b.count = s.count /\ (Usable(b) => Cur(b).addr = r.addr)
  BY OpenFiles DEF Closed
<1>2. handle_timeout(s, r, elapsed) \in {o, l} BY DEF handle_timeout
<1> HIDE DEF b
<1>3. r.timeout + elapsed \in Nat BY DEF entry_client
<1>4. Good(o) /\ Quiet(b, o) /\ SameTx(b, o) BY <1>1, <1>3, SetTimeoutGood, FieldsQuiet
<1> HIDE DEF o
<1>5. ASSUME Usable(o) PROVE Cur(o).addr # NoAddress
  <2>1. Usable(b) /\ o.cur = b.cur BY <1>4, <1>5 DEF Usable, SameTx
  <2>2. b.cur \in 1..Len(b.clients) BY <1>1, <2>1, CurType
  <2>3. RowKept(b.clients[b.cur], o.clients[b.cur]) BY <1>4, <2>2 DEF Quiet, Kept
  <2> QED BY <1>1, <2>1, <2>3 DEF RowKept, RowSpent, RowCarried, Cur
<1>6. Good(l) /\ Quiet(o, l) BY <1>4, <1>5, SetStateGood, FieldsQuiet DEF Status
<1> HIDE DEF l
<1>7. Quiet(b, l) BY <1>1, <1>4, <1>6, KeptTrans DEF Quiet
<1>8. Quiet(s, o) /\ Quiet(s, l) BY <1>1, <1>4, <1>7, QuietFiles
<1> QED BY <1>2, <1>8 DEF o, b
============================================================================
