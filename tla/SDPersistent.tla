--------------------------- MODULE SDPersistent ---------------------------
(***************************************************************************)
(* The client database (SDPersistentImpl on top of SDLinuxFake) as         *)
(* operators on a store record.  An operator has the name of the method it *)
(* models: one that changes the store returns the new store, one that only *)
(* answers returns the answer.  A method that does both is two operators,  *)
(* the answer under the method's name and the change under touch_<name>.   *)
(*                                                                         *)
(* A row of `clients' is one slot of the registry file together with the   *)
(* four files that belong to the slot number: registrations, subscriptions,*)
(* will and queued publishes.  Entries of those files are written at byte  *)
(* offsets and blanked in place, so a blanked entry stays as a hole.       *)
(*                                                                         *)
(* Left out: the empty client id (a CONNECT of 7 bytes), topic names of    *)
(* 255 characters or more (no packet can carry one), the retain and dup    *)
(* flags, and the wrap of the 16 bit ids.                                  *)
(***************************************************************************)
EXTENDS Integers, SequencesExt

CONSTANTS
  ClientId,      \* client ids shorter than MAXIMUM_CLIENT_ID_LENGTH
  LongId,        \* client ids the database refuses for their length
  Address,       \* device addresses of clients
  Topic,         \* non-empty topic names
  Payload,       \* message bodies
  Predefined,    \* content of TOPICS.PRE: topic id -> topic name
  ExistsWorks,   \* does SD.exists find a file that is there?
  RemoveWorks    \* does SD.remove remove it?

NoId == ""
NoAddress == "0.0.0.0"
Empty == ""                      \* the empty topic name
Null == "nullptr"                \* no topic name
NoMsg == "zeroes"                \* the body of a will that has none yet
Damaged == "damaged"             \* a queued body some bytes of which are gone

ASSUME IdAssumption ==
  /\ NoId \notin ClientId /\ ClientId \cap LongId = {}
  /\ NoAddress \notin Address
ASSUME TopicAssumption == Empty \notin Topic /\ Null \notin Topic
ASSUME PredefinedAssumption ==
  /\ DOMAIN Predefined \subseteq Nat
  /\ \A n \in DOMAIN Predefined : Predefined[n] \in Topic
ASSUME FileAssumption == ExistsWorks \in BOOLEAN /\ RemoveWorks \in BOOLEAN

Name == Topic \cup {Empty}
Status == {"EMPTY", "ACTIVE", "ASLEEP", "AWAKE", "DISCONNECTED", "LOST"}
Awaited == {"ADVERTISE", "PINGREQ", "WILLTOPIC", "WILLMSG", "REGACK", "PUBACK", "PUBREL"}
WillQos == {0, 1, 2, 255}        \* 255 is the uint8_t of QoS -1
Data == Topic \X Payload         \* a body, tagged with the topic it was published to

entry_subscription == [tid : Nat, qos : {0, 1}, name : Name]
entry_publish == [pid : Nat, tid : Nat, qos : {0, 1}, mid : Nat, data : Data \cup {Damaged, NoMsg}]
entry_will == [set : BOOLEAN, topic : Name, msg : Payload \cup {NoMsg}, qos : WillQos]
entry_client ==
  [id : ClientId \cup {NoId}, addr : Address \cup {NoAddress}, status : Status,
   duration : Nat, timeout : Nat, await : Awaited,
   reg : Seq(Name), sub : Seq(entry_subscription), will : entry_will, pub : Seq(entry_publish)]

SubHole == [tid |-> 0, qos |-> 0, name |-> Empty]
PubHole == [pid |-> 0, tid |-> 0, qos |-> 0, mid |-> 0, data |-> NoMsg]
NoWill == [set |-> FALSE, topic |-> Empty, msg |-> NoMsg, qos |-> 0]
EmptyRow ==
  [id |-> NoId, addr |-> NoAddress, status |-> "EMPTY", duration |-> 0, timeout |-> 0,
   await |-> "ADVERTISE", reg |-> <<>>, sub |-> <<>>, will |-> NoWill, pub |-> <<>>]

\* The registry entry of r blanked, the files of the slot kept.
Blank(r) == [EmptyRow EXCEPT !.reg = r.reg, !.sub = r.sub, !.will = r.will, !.pub = r.pub]

(***************************************************************************)
(* started, error, notin: the transaction flags.  cur: the slot loaded in  *)
(* _entry_client, 0 if none.  regbuf, prebuf: the topic names held in      *)
(* _registration_entry and _predefined_registration_entry; a topic name is *)
(* handed out as a pointer into one of the two.                            *)
(***************************************************************************)
Store ==
  [clients : Seq(entry_client), count : [Topic -> Nat],
   started : BOOLEAN, error : BOOLEAN, notin : BOOLEAN, cur : Nat,
   regbuf : Name, prebuf : Name]

EmptyStore ==
  [clients |-> <<>>, count |-> [t \in Topic |-> 0],
   started |-> FALSE, error |-> FALSE, notin |-> FALSE, cur |-> 0,
   regbuf |-> Empty, prebuf |-> Empty]

\* A new process: the files are as they were, the fields are zero.
begin(s) ==
  [s EXCEPT !.started = FALSE, !.error = FALSE, !.notin = FALSE, !.cur = 0,
            !.regbuf = Empty, !.prebuf = Empty]

Usable(s) == s.started /\ ~s.error /\ ~s.notin
Cur(s) == s.clients[s.cur]
Put(s, row) == [s EXCEPT !.clients = ReplaceAt(@, s.cur, row)]
Fail(s) == [s EXCEPT !.error = TRUE]

---------------------------------------------------------------------------
(* Transactions. *)

Opened(s, i) == [s EXCEPT !.started = TRUE, !.error = FALSE, !.notin = (i = 0), !.cur = i]

start_by_id(s, id) ==
  IF s.started \/ id \in LongId THEN Fail(s)
  ELSE Opened(s, SelectInSeq(s.clients, LAMBDA r : r.id = id))

start_by_address(s, a) ==
  IF s.started THEN Fail(s)
  ELSE Opened(s, SelectInSeq(s.clients, LAMBDA r : r.addr = a))

\* Mutant of apply_transaction: one flag is not reset.
apply_transaction_keeping_notin(s) ==
  [s EXCEPT !.started = FALSE, !.error = FALSE, !.cur = 0]

apply_transaction(s) ==
  [s EXCEPT !.started = FALSE, !.error = FALSE, !.notin = FALSE, !.cur = 0]

\* The uint8_t the call returns: -1 comes out as 255.
apply_result(s) == IF ~s.started \/ s.error THEN 0 ELSE IF s.notin THEN 255 ELSE 1

client_exist(s) == s.started /\ ~s.error /\ ~s.notin

---------------------------------------------------------------------------
(* The registry. *)

get_nth_client(s, n) == IF n \in DOMAIN s.clients THEN s.clients[n] ELSE EmptyRow

get_last_client_address(s) ==
  LET i == SelectLastInSeq(s.clients, LAMBDA r : r.status # "EMPTY")
  IN IF i = 0 THEN NoAddress ELSE s.clients[i].addr

get_client_status(s) == IF Usable(s) THEN Cur(s).status ELSE "LOST"
get_client_await_message_type(s) == IF Usable(s) THEN Cur(s).await ELSE "PINGREQ"

set_client_state(s, status) ==
  IF Usable(s) THEN Put(s, [Cur(s) EXCEPT !.status = status]) ELSE s

set_timeout(s, timeout) ==
  IF Usable(s) THEN Put(s, [Cur(s) EXCEPT !.timeout = timeout]) ELSE s

set_client_await_message(s, type) ==
  IF Usable(s) THEN Put(s, [Cur(s) EXCEPT !.await = type]) ELSE s

\* set_client_await_msg_id compares where it should assign, so the stored id stays 0.
get_client_await_msg_id(s) == 0

reset_client(s, id, a, duration) ==
  IF ~Usable(s) THEN s
  ELSE IF Cur(s).id # id THEN Fail(s)
  ELSE Put(s, [Cur(s) EXCEPT !.addr = a, !.status = "ACTIVE", !.duration = duration,
                             !.timeout = 0, !.await = "PINGREQ"])

find_empty_entry_space_in_registry(s) ==
  LET i == SelectInSeq(s.clients, LAMBDA r : r.id = NoId)
  IN IF i = 0 THEN Len(s.clients) + 1 ELSE i

add_client(s, id, a, duration) ==
  LET i == find_empty_entry_space_in_registry(s)
      row(r) == [r EXCEPT !.id = id, !.addr = a, !.status = "ACTIVE", !.duration = duration,
                          !.timeout = 0, !.await = "PINGREQ"]
  IN IF ~s.started \/ s.error THEN s
     ELSE IF ~s.notin THEN Fail(s)
     ELSE [s EXCEPT !.clients = IF i > Len(@) THEN Append(@, row(EmptyRow))
                                              ELSE ReplaceAt(@, i, row(Blank(@[i]))),
                    !.notin = FALSE, !.cur = i]

\* Mutant of get_client_subscription_count: the first entry is skipped.
get_client_subscription_count_from_two(s) ==
  IF Usable(s) THEN Cardinality({j \in DOMAIN Cur(s).sub : j > 1 /\ Cur(s).sub[j].tid # 0}) ELSE 0

get_client_subscription_count(s) ==
  IF Usable(s) THEN Cardinality({j \in DOMAIN Cur(s).sub : Cur(s).sub[j].tid # 0}) ELSE 0

\* delete_file removes a file only if exists() finds it.
FilesDeleted(r) ==
  IF ExistsWorks /\ RemoveWorks
  THEN [r EXCEPT !.reg = <<>>, !.sub = <<>>, !.will = NoWill, !.pub = <<>>] ELSE r

\* Mutant of delete_client: the row is not blanked.
delete_client_keeping_row(s, id) ==
  IF ~Usable(s) THEN s
  ELSE IF get_client_subscription_count(s) > 0 THEN Fail(s)
  ELSE [s EXCEPT !.clients = ReplaceAt(@, s.cur, FilesDeleted(Cur(s))), !.notin = TRUE]

\* The files removed are those of the loaded slot, the row blanked is the first with the id.
delete_client(s, id) ==
  LET files == ReplaceAt(s.clients, s.cur, FilesDeleted(Cur(s)))
      i == SelectInSeq(s.clients, LAMBDA r : r.id = id)
  IN IF ~Usable(s) THEN s
     ELSE IF get_client_subscription_count(s) > 0 THEN Fail(s)
     ELSE [s EXCEPT !.clients = IF i = 0 THEN files ELSE ReplaceAt(files, i, Blank(files[i])),
                    !.notin = TRUE]

\* What delete_client has done of it when the process is killed: the files go first, one by one.
half_deleted(s) ==
  LET d == FilesDeleted(Cur(s))
  IN IF ~Usable(s) \/ get_client_subscription_count(s) > 0 THEN {s}
     ELSE {Put(s, [Cur(s) EXCEPT !.reg = d.reg]),
           Put(s, [Cur(s) EXCEPT !.reg = d.reg, !.sub = d.sub]),
           Put(s, [Cur(s) EXCEPT !.reg = d.reg, !.sub = d.sub, !.will = d.will]),
           Put(s, d)}

---------------------------------------------------------------------------
(* Registrations.  Entries are only appended: a topic id is a position. *)

get_topic_name(s, tid) ==
  IF Usable(s) /\ tid \in DOMAIN Cur(s).reg THEN Cur(s).reg[tid] ELSE Null

touch_topic_name(s, tid) ==
  IF s.started /\ ~s.error /\ tid # 0
  THEN [s EXCEPT !.regbuf = IF get_topic_name(s, tid) = Null THEN Empty ELSE get_topic_name(s, tid)]
  ELSE s

get_predefined_topic_name(s, tid) ==
  IF ~s.error /\ tid \in DOMAIN Predefined THEN Predefined[tid] ELSE Null

touch_predefined_topic_name(s, tid) ==
  IF s.error THEN s
  ELSE [s EXCEPT !.prebuf = IF tid \in DOMAIN Predefined THEN Predefined[tid] ELSE Empty]

\* Mutants of add_client_registration: an entry is not looked for, or written one too early.
add_client_registration_twice(s, t) ==
  IF ~Usable(s) THEN s
  ELSE [Put(s, [Cur(s) EXCEPT !.reg = Append(@, t)]) EXCEPT !.regbuf = t]
add_client_registration_overwriting(s, t) ==
  IF ~Usable(s) THEN s
  ELSE [Put(s, [Cur(s) EXCEPT !.reg = IF Contains(@, t) THEN @
                                      ELSE IF @ = <<>> THEN <<t>> ELSE ReplaceAt(@, Len(@), t)])
          EXCEPT !.regbuf = t]

add_client_registration(s, t) ==
  IF ~Usable(s) THEN s
  ELSE [Put(s, [Cur(s) EXCEPT !.reg = IF Contains(@, t) THEN @ ELSE Append(@, t)])
          EXCEPT !.regbuf = t]

\* *new_topic_id after add_client_registration(s, t), which leaves it 0 when it returns early.
new_topic_id(s, t) ==
  IF ~Usable(s) THEN 0
  ELSE IF Contains(Cur(s).reg, t) THEN SelectInSeq(Cur(s).reg, LAMBDA n : n = t)
  ELSE Len(Cur(s).reg) + 1

\* The set of possible answers: the function ends without a return for an unknown id.
is_topic_known(s, tid) ==
  IF ~Usable(s) \/ tid = 0 THEN {FALSE}
  ELSE IF tid \in DOMAIN Cur(s).reg THEN {TRUE} ELSE BOOLEAN

touch_topic_known(s, tid) ==
  IF ~Usable(s) THEN s ELSE IF tid = 0 THEN Fail(s) ELSE touch_topic_name(s, tid)

---------------------------------------------------------------------------
(* Subscriptions of the client and the gateway-wide count per topic. *)

FindSub(s, t) == SelectInSeq(Cur(s).sub, LAMBDA e : e.name = t)
\* Mutant of is_subscribed: only the first entry is compared.
is_subscribed_first(s, t) == Usable(s) /\ t \in Topic /\ FindSub(s, t) = 1
is_subscribed(s, t) == Usable(s) /\ t \in Topic /\ FindSub(s, t) # 0
get_subscription_qos(s, t) == Cur(s).sub[FindSub(s, t)].qos
\* Mutant of get_subscription_topic_id: the position of the entry.
get_subscription_position(s, t) == FindSub(s, t)
get_subscription_topic_id(s, t) == Cur(s).sub[FindSub(s, t)].tid

\* The last hole is reused, otherwise the entry is appended.
add_subscription(s, t, tid, qos) ==
  LET sub == Cur(s).sub
      entry == [tid |-> tid, qos |-> qos, name |-> t]
      hole == SelectLastInSeq(sub, LAMBDA e : e.tid = 0 /\ e.name = Empty)
  IN IF ~Usable(s) \/ t \notin Topic \/ tid = 0 THEN s
     ELSE IF \E j \in DOMAIN sub : sub[j].tid = tid /\ sub[j].name = t THEN s
     ELSE Put(s, [Cur(s) EXCEPT !.sub = IF hole = 0 THEN Append(sub, entry)
                                                    ELSE ReplaceAt(sub, hole, entry)])

\* Reads the raw position n, which may be a hole.
get_nth_subscribed_topic_id(s, n) ==
  IF Usable(s) /\ n \in DOMAIN Cur(s).sub THEN Cur(s).sub[n].tid ELSE 0

\* Mutants of delete_subscription: nothing is written, or only the topic id is blanked.
delete_subscription_unwritten(s, tid) == s
delete_subscription_keeping_name(s, tid) ==
  LET i == SelectInSeq(Cur(s).sub, LAMBDA e : e.tid = tid)
  IN IF ~Usable(s) \/ tid = 0 THEN s
     ELSE IF i = 0 THEN Fail(s)
     ELSE Put(s, [Cur(s) EXCEPT !.sub = ReplaceAt(@, i, [@[i] EXCEPT !.tid = 0])])

delete_subscription(s, tid) ==
  LET i == SelectInSeq(Cur(s).sub, LAMBDA e : e.tid = tid)
  IN IF ~s.started \/ s.error \/ tid = 0 THEN s
     ELSE IF s.notin THEN Fail(s)
     ELSE IF i = 0 THEN Fail(s)
     ELSE Put(s, [Cur(s) EXCEPT !.sub = ReplaceAt(@, i, SubHole)])

get_topic_id(t) == 0

increment_global_subscription_count(s, t) ==
  IF s.error \/ t \notin Topic THEN s ELSE [s EXCEPT !.count[t] = @ + 1]

\* Mutant of decrement_global_subscription_count: no test for 0.
decrement_below_zero(s, t) ==
  IF s.error \/ t \notin Topic THEN s ELSE [s EXCEPT !.count[t] = @ - 1]

decrement_global_subscription_count(s, t) ==
  IF s.error \/ t \notin Topic \/ s.count[t] = 0 THEN s
  ELSE [s EXCEPT !.count[t] = @ - 1]

get_global_topic_subscription_count(s, t) ==
  IF s.error \/ t \notin Topic THEN 0 ELSE s.count[t]

---------------------------------------------------------------------------
(* The will of the client. *)

has_client_will(s) == Usable(s) /\ Cur(s).will.set
get_client_will(s) == Cur(s).will

set_client_willtopic(s, t, qos) ==
  IF Usable(s)
  THEN Put(s, [Cur(s) EXCEPT !.will = [@ EXCEPT !.set = TRUE, !.topic = t, !.qos = qos]])
  ELSE s

set_client_willmessage(s, msg) ==
  IF Usable(s) THEN Put(s, [Cur(s) EXCEPT !.will = [@ EXCEPT !.set = TRUE, !.msg = msg]]) ELSE s

\* Removes the file and creates it anew: when remove fails the old content stays.
delete_will(s) ==
  IF Usable(s) /\ RemoveWorks THEN Put(s, [Cur(s) EXCEPT !.will = NoWill]) ELSE s

---------------------------------------------------------------------------
(* The queue of publishes for the client.  A publish id is a position. *)

LastPublish(s) == SelectLastInSeq(Cur(s).pub, LAMBDA e : e.pid # 0)
has_client_publishes(s) == Usable(s) /\ LastPublish(s) # 0
get_next_publish(s) == Cur(s).pub[LastPublish(s)]

\* Mutant of add_client_publish: the last message is taken for the last hole.
add_client_publish_overwriting(s, data, tid, qos) ==
  LET pub == Cur(s).pub
      last == SelectLastInSeq(pub, LAMBDA e : e.pid # 0)
      i == IF last = 0 THEN Len(pub) + 1 ELSE last
      entry == [pid |-> i, tid |-> tid, qos |-> qos, mid |-> 0, data |-> data]
  IN IF ~Usable(s) THEN s
     ELSE Put(s, [Cur(s) EXCEPT !.pub = IF last = 0 THEN Append(pub, entry)
                                                    ELSE ReplaceAt(pub, last, entry)])

add_client_publish(s, data, tid, qos) ==
  LET pub == Cur(s).pub
      hole == SelectLastInSeq(pub, LAMBDA e : e.pid = 0)
      i == IF hole = 0 THEN Len(pub) + 1 ELSE hole
      entry == [pid |-> i, tid |-> tid, qos |-> qos, mid |-> 0, data |-> data]
  IN IF ~Usable(s) THEN s
     ELSE Put(s, [Cur(s) EXCEPT !.pub = IF hole = 0 THEN Append(pub, entry)
                                                    ELSE ReplaceAt(pub, hole, entry)])

set_publish_msg_id(s, pid, mid) ==
  IF ~Usable(s) \/ pid \notin DOMAIN Cur(s).pub THEN s
  ELSE IF Cur(s).pub[pid].pid # pid THEN Fail(s)
  ELSE Put(s, [Cur(s) EXCEPT !.pub = ReplaceAt(@, pid, [@[pid] EXCEPT !.mid = mid])])

\* Mutant of remove_publish_by_publish_id: nothing is written.
remove_publish_unwritten(s, pid) == s

remove_publish_by_publish_id(s, pid) ==
  IF ~Usable(s) \/ pid \notin DOMAIN Cur(s).pub THEN s
  ELSE IF Cur(s).pub[pid].pid # pid THEN Fail(s)
  ELSE Put(s, [Cur(s) EXCEPT !.pub = ReplaceAt(@, pid, PubHole)])

(***************************************************************************)
(* Offset and length are computed with sizeof(buffer_size), so the entry   *)
(* found stays, and two zero bytes land at 2 * (position - 1), inside the  *)
(* body of the first entry (of the first 127 positions; bodies are taken   *)
(* to reach that far).  A message id of 0 sets the error and goes on.      *)
(***************************************************************************)
remove_publish_by_msg_id(s, mid) ==
  LET pub == Cur(s).pub
      found == \E j \in DOMAIN pub : pub[j].mid = mid
      hit == IF found /\ pub[1].pid # 0
             THEN ReplaceAt(pub, 1, [pub[1] EXCEPT !.data = Damaged]) ELSE pub
  IN IF ~Usable(s) THEN s
     ELSE [Put(s, [Cur(s) EXCEPT !.pub = hit]) EXCEPT !.error = (mid = 0)]

===========================================================================
