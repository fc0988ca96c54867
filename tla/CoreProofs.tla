----------------------------- MODULE CoreProofs -----------------------------
(***************************************************************************)
(* The operations of CoreImpl that run to their end between two steps      *)
(* start from a closed store and leave a closed one, on every return path. *)
(* handle_timeout alone leaves its transaction open.                       *)
(***************************************************************************)
EXTENDS CoreImpl, StoreProofs

\* A store between two operations: no transaction is open and no flag is set.
Closed(s) == Good(s) /\ ~s.started /\ ~s.error /\ ~s.notin

\* Committing closes the transaction, whatever happened in it.
LEMMA CommitClosed ==
  ASSUME NEW s, Good(s)
  PROVE  Closed(Commit(s).db) /\ Closed(apply_transaction(s)) /\ Commit(s).res \in {"SUCCESS", "ZERO"}
<1>1. Closed(apply_transaction(s)) BY ApplyGood DEF Closed
<1> QED BY <1>1 DEF Commit

\* await_message, and the changes of the client's status.
LEMMA StateOpsClosed ==
  ASSUME NEW s, Closed(s), NEW a, NEW type \in Awaited, NEW online
  PROVE  /\ Closed(await_message(s, a, type).db)
         /\ Closed(set_disconnected(s, a).db)
         /\ Closed(set_asleep(s, online, a).db)
         /\ Closed(set_awake(s, a).db)
         /\ Closed(remove_will(s, a).db)
<1> DEFINE o == start_by_address(s, a)
<1>1. Good(o) BY StartByAddressGood DEF Closed
<1> HIDE DEF o
<1>2. Good(set_client_await_message(o, type)) BY <1>1, SetAwaitGood
<1>3. \A st \in Status : Good(set_client_state(o, st)) BY <1>1, SetStateGood
<1>4. Good(delete_will(o)) BY <1>1, WillGood
<1>5. Closed(await_message(s, a, type).db) BY <1>2, CommitClosed DEF await_message, o
<1>6. Closed(set_disconnected(s, a).db) BY <1>3, CommitClosed DEF set_disconnected, o, Status
<1>7. Closed(set_asleep(s, online, a).db) BY <1>3, CommitClosed DEF set_asleep, Refuse, o, Status
<1>8. Closed(set_awake(s, a).db) BY <1>3, CommitClosed DEF set_awake, o, Status
<1>9. Closed(remove_will(s, a).db) BY <1>4, CommitClosed DEF remove_will, o
<1> QED BY <1>5, <1>6, <1>7, <1>8, <1>9

\* The two halves of the will.
LEMMA WillOpsClosed ==
  ASSUME NEW s, Closed(s), NEW online, NEW a
  PROVE  /\ \A t \in Name, qos \in WillQos : Closed(add_will_topic(s, online, a, t, qos).db)
         /\ \A msg \in Payload : Closed(add_will_msg(s, online, a, msg).db)
<1> DEFINE o == start_by_address(s, a)
<1>1. Good(o) BY StartByAddressGood DEF Closed
<1> HIDE DEF o
<1>2. ASSUME NEW t \in Name, NEW qos \in WillQos PROVE Closed(add_will_topic(s, online, a, t, qos).db)
  <2>1. Good(set_client_willtopic(o, t, qos)) BY <1>1, WillGood
  <2>2. add_will_topic(s, online, a, t, qos)
          \in {Refuse(s), Refuse(apply_transaction(o)), Commit(set_client_willtopic(o, t, qos))}
    BY DEF add_will_topic, o
  <2> QED BY <1>1, <2>1, <2>2, CommitClosed DEF Refuse
<1>3. ASSUME NEW msg \in Payload PROVE Closed(add_will_msg(s, online, a, msg).db)
  <2>1. Good(set_client_willmessage(o, msg)) BY <1>1, WillGood
  <2>2. add_will_msg(s, online, a, msg)
          \in {Refuse(s), Refuse(apply_transaction(o)), Commit(set_client_willmessage(o, msg))}
    BY DEF add_will_msg, o
  <2> QED BY <1>1, <2>1, <2>2, CommitClosed DEF Refuse
<1> QED BY <1>2, <1>3

\* REGISTER, and the registration a SUBSCRIBE by name starts with.
LEMMA RegisterClosed ==
  ASSUME NEW s, Closed(s), NEW online, NEW a, NEW t \in Name
  PROVE  LET r == register_topic(s, online, a, t)
         IN Closed(r.db) /\ r.tid \in Nat /\ r.res \in {"SUCCESS", "ZERO"}
<1> DEFINE o == start_by_address(s, a)
<1>1. Good(o) BY StartByAddressGood DEF Closed
<1> HIDE DEF o
<1>2. Good(add_client_registration(o, t)) /\ new_topic_id(o, t) \in Nat BY <1>1, RegistrationGood
<1> DEFINE c == Commit(add_client_registration(o, t))
<1>3. Closed(c.db) /\ c.res \in {"SUCCESS", "ZERO"} BY <1>2, CommitClosed
<1>4. register_topic(s, online, a, t)
        \in {[db |-> s, res |-> "ZERO", tid |-> 0], [db |-> c.db, res |-> c.res, tid |-> new_topic_id(o, t)]}
  BY DEF register_topic, o
<1> HIDE DEF c
<1> QED BY <1>2, <1>3, <1>4

\* The acknowledgements of the client.
LEMMA AckClosed ==
  ASSUME NEW s, Closed(s), NEW a, NEW mid, NEW code
  PROVE  /\ \A r \in notify_regack_arrived(s, a, mid, code) : Closed(r.db)
         /\ Closed(notify_puback_arrived(s, a, mid, code).db)
<1> DEFINE o == start_by_address(s, a)
           expected == /\ get_client_await_message_type(o) = "REGACK"
                       /\ get_client_await_msg_id(o) = mid
           n == IF expected THEN set_client_await_message(o, "PINGREQ") ELSE o
           c == Commit(n)
<1>1. Good(o) BY StartByAddressGood DEF Closed
<1> HIDE DEF o
<1>2. Good(set_client_await_message(o, "PINGREQ")) BY <1>1, SetAwaitGood DEF Awaited
<1>3. Good(n) BY <1>1, <1>2
<1>4. Good(remove_publish_by_msg_id(o, mid)) BY <1>1, RemoveByMsgIdGood
<1>5. Closed(c.db) /\ Closed(apply_transaction(o)) BY <1>1, <1>3, CommitClosed
<1>6. ASSUME NEW r \in notify_regack_arrived(s, a, mid, code) PROVE Closed(r.db)
  <2>1. r.db \in {c.db, apply_transaction(o)}
    BY <1>6 DEF notify_regack_arrived, Refuse, o
  <2> QED BY <1>5, <2>1
<1>7. Closed(notify_puback_arrived(s, a, mid, code).db)
  BY <1>4, <1>5, CommitClosed DEF notify_puback_arrived, Refuse, o
<1> QED BY <1>6, <1>7

\* A broker message is queued or not; a transaction of the caller is closed on the way.
LEMMA ReceiveClosed ==
  ASSUME NEW s, Good(s), NEW a, NEW data \in Data
  PROVE  Closed(handle_receive_mqtt_publish_for_client(s, a, data))
<1> DEFINE o == start_by_address(s, a)
           t == data[1]
           q == add_client_publish(o, data, get_subscription_topic_id(o, t), get_subscription_qos(o, t))
<1>1. Good(o) BY StartByAddressGood
<1> HIDE DEF o
<1>2. ASSUME is_subscribed(o, t) PROVE Good(q)
  <2>1. get_subscription_topic_id(o, t) \in Nat /\ get_subscription_qos(o, t) \in {0, 1}
    BY <1>1, <1>2, SubscriptionType
  <2> QED BY <1>1, <2>1, AddPublishGood
<1>3. \/ handle_receive_mqtt_publish_for_client(s, a, data) = apply_transaction(o)
      \/ is_subscribed(o, t) /\ handle_receive_mqtt_publish_for_client(s, a, data) = apply_transaction(q)
  BY DEF handle_receive_mqtt_publish_for_client, o
<1> HIDE DEF q
<1> QED BY <1>1, <1>2, <1>3, CommitClosed

\* SUBSCRIBE up to the broker call: the topic to subscribe to is a topic name.
LEMMA LookupClosed ==
  ASSUME NEW s, Closed(s), NEW online, NEW a, NEW tid \in Nat, NEW short, NEW qos
  PROVE  LET l == lookup_subscription(s, online, a, tid, short, qos)
         IN /\ Closed(l.db) /\ l.tid \in Nat /\ l.topic \in Name /\ l.res \in {"SUCCESS", "ZERO"}
            /\ l.subscribe => l.topic \in Topic
<1> DEFINE o == start_by_address(s, a)
           t == IF short THEN get_topic_name(o, tid) ELSE get_predefined_topic_name(o, tid)
           p == touch_predefined_topic_name(o, tid)
           r == IF short THEN touch_topic_name(o, tid)
                ELSE IF t = Null THEN p ELSE add_client_registration(p, t)
           id == IF short THEN tid ELSE new_topic_id(o, t)
           q == IF qos >= 1 THEN 1 ELSE 0
           n == IF is_subscribed(r, t) THEN r
                ELSE increment_global_subscription_count(add_subscription(r, t, id, q), t)
           c == Commit(n)
           stop(x) == [db |-> x, res |-> "ZERO", tid |-> 0, topic |-> Empty, subscribe |-> FALSE]
           go == [db |-> c.db, res |-> c.res, tid |-> id, topic |-> t,
                  subscribe |-> ~is_subscribed(r, t) /\ get_global_topic_subscription_count(n, t) = 1]
<1>1. Good(o) BY StartByAddressGood DEF Closed
<1> HIDE DEF o
<1>2. t \in Name \cup {Null} BY <1>1, TopicNameType, PredefinedNameType DEF Name
<1>3. Good(p) BY <1>1, PredefinedNameType
<1> HIDE DEF p
<1>4. ASSUME t # Null PROVE t \in Name /\ Good(r) /\ id \in Nat
  <2>1. t \in Name BY <1>2, <1>4
  <2> HIDE DEF t
  <2>2. Good(touch_topic_name(o, tid)) BY <1>1, TopicNameType
  <2>3. Good(add_client_registration(p, t)) BY <1>3, <2>1, RegistrationGood
  <2>4. new_topic_id(o, t) \in Nat BY <1>1, <2>1, RegistrationGood
  <2> QED BY <1>4, <2>1, <2>2, <2>3, <2>4
<1>5. Good(r) BY <1>1, <1>3, <1>4, TopicNameType
<1>6. q \in {0, 1} OBVIOUS
<1> HIDE DEF t, r, id, q
<1>7. ASSUME t # Null PROVE Closed(c.db) /\ c.res \in {"SUCCESS", "ZERO"}
  <2>1. Good(add_subscription(r, t, id, q)) BY <1>4, <1>6, <1>7, AddSubscriptionGood
  <2>2. Good(increment_global_subscription_count(add_subscription(r, t, id, q), t)) BY <2>1, CountGood
  <2>3. Good(n) BY <1>5, <2>2, SMTT(30)
  <2> HIDE DEF n
  <2> QED BY <2>3, CommitClosed
<1>8. \/ lookup_subscription(s, online, a, tid, short, qos) = stop(s)
      \/ lookup_subscription(s, online, a, tid, short, qos) = stop(apply_transaction(o))
      \/ lookup_subscription(s, online, a, tid, short, qos) = stop(apply_transaction(r))
      \/ t # Null /\ lookup_subscription(s, online, a, tid, short, qos) = go
  BY DEF lookup_subscription, o, t, p, r, id, q
<1>9. Empty \in Name BY DEF Name
<1>10. Closed(apply_transaction(o)) /\ Closed(apply_transaction(r)) BY <1>1, <1>5, CommitClosed
<1>11. get_global_topic_subscription_count(n, t) = 1 => t \in Topic
  BY DEF get_global_topic_subscription_count
<1>12. /\ go.db = c.db /\ go.res = c.res /\ go.tid = id /\ go.topic = t
       /\ go.subscribe => t \in Topic
  BY <1>11
<1>13. ASSUME NEW x
       PROVE  stop(x).db = x /\ stop(x).res = "ZERO" /\ stop(x).tid = 0 /\ stop(x).topic = Empty
              /\ ~stop(x).subscribe
  OBVIOUS
<1> HIDE DEF c, n, go, stop
<1> QED BY <1>4, <1>7, <1>8, <1>9, <1>10, <1>12, <1>13

\* UNSUBSCRIBE up to the broker call.
LEMMA UnlookupClosed ==
  ASSUME NEW s, Closed(s), NEW a, NEW form, NEW tid, NEW name
  PROVE  Closed(lookup_unsubscription(s, a, form, tid, name).db)
<1> DEFINE o == start_by_address(s, a)
           t == CASE form = "name" -> name
                  [] form = "short" -> get_topic_name(o, tid)
                  [] OTHER -> get_predefined_topic_name(o, tid)
           r == CASE form = "name" -> o
                  [] form = "short" -> touch_topic_name(o, tid)
                  [] OTHER -> touch_predefined_topic_name(o, tid)
           id == IF form = "name" THEN get_topic_id(name) ELSE tid
           d == delete_subscription(r, id)
           n == IF is_subscribed(r, t) THEN r ELSE decrement_global_subscription_count(d, t)
<1>1. Good(o) BY StartByAddressGood DEF Closed
<1> HIDE DEF o
<1>2. Good(r) BY <1>1, TopicNameType, PredefinedNameType
<1> HIDE DEF r, id, t
<1>3. Good(d) BY <1>2, DeleteSubscriptionGood
<1> HIDE DEF d
<1>4. Good(n) BY <1>2, <1>3, CountGood
<1>5. lookup_unsubscription(s, a, form, tid, name).db = Commit(n).db
  BY DEF lookup_unsubscription, o, t, r, id, d
<1> HIDE DEF n
<1> QED BY <1>4, <1>5, CommitClosed

\* A kill between the writes of SUBSCRIBE.
LEMMA HalfSubscribedGood ==
  ASSUME NEW s, Closed(s), NEW a, NEW tid \in Nat, NEW short, NEW qos,
         NEW u \in half_subscribed(s, a, tid, short, qos)
  PROVE  Good(u)
<1> DEFINE o == start_by_address(s, a)
           t == IF short THEN get_topic_name(o, tid) ELSE get_predefined_topic_name(o, tid)
           r == IF short \/ t = Null THEN o ELSE add_client_registration(o, t)
           id == IF short THEN tid ELSE new_topic_id(o, t)
           q == IF qos >= 1 THEN 1 ELSE 0
<1>1. Good(o) BY StartByAddressGood DEF Closed
<1> HIDE DEF o
<1>2. t \in Name \cup {Null} BY <1>1, TopicNameType, PredefinedNameType DEF Name
<1> HIDE DEF t
<1>3. Good(r) BY <1>1, <1>2, RegistrationGood
<1>4. ASSUME t # Null PROVE id \in Nat BY <1>1, <1>2, <1>4, RegistrationGood
<1>5. q \in {0, 1} OBVIOUS
<1>6. u = r \/ (t # Null /\ u = add_subscription(r, t, id, q))
  <2>1. half_subscribed(s, a, tid, short, qos)
          = IF ~client_exist(o) \/ t = Null \/ is_subscribed(r, t) THEN {r}
            ELSE {r, add_subscription(r, t, id, q)}
    BY Zenon DEF half_subscribed, o, t
  <2> HIDE DEF r, id, q
  <2> QED BY <2>1
<1> HIDE DEF r, id, q
<1> QED BY <1>3, <1>4, <1>5, <1>6, AddSubscriptionGood

\* A kill between the deletion of a subscription and its count.
LEMMA HalfUnsubscribedGood ==
  ASSUME NEW s, Closed(s), NEW a, NEW tid, NEW short
  PROVE  Good(half_unsubscribed(s, a, tid, short))
<1> DEFINE o == start_by_address(s, a)
<1>1. Good(o) BY StartByAddressGood DEF Closed
<1> HIDE DEF o
<1>2. Good(delete_subscription(o, tid)) BY <1>1, DeleteSubscriptionGood
<1> QED BY <1>1, <1>2 DEF half_unsubscribed, o

\* The answer to a client that has nothing queued.
LEMMA SettleClosed ==
  ASSUME NEW s, Closed(s), NEW status, NEW a, NEW from, NEW to \in Status, NEW answer
  PROVE  LET w == settle(s, status, a, from, to, answer)
         IN Closed(w.db) /\ w.out \in {<<>>, <<Sent(a, answer)>>}
<1> DEFINE o == start_by_address(s, a)
           c == Commit(set_client_state(o, to))
<1>1. Good(o) BY StartByAddressGood DEF Closed
<1> HIDE DEF o
<1>2. Good(set_client_state(o, to)) BY <1>1, SetStateGood
<1>3. Closed(c.db) /\ Closed(apply_transaction(o)) BY <1>1, <1>2, CommitClosed
<1>4. settle(s, status, a, from, to, answer)
        \in {[db |-> c.db, out |-> <<Sent(a, answer)>>], [db |-> c.db, out |-> <<>>],
             [db |-> apply_transaction(o), out |-> <<>>]}
  BY DEF settle, o
<1> HIDE DEF c
<1> QED BY <1>3, <1>4

\* handle_timeout leaves the transaction on the client with that address open.
LEMMA TimeoutOpen ==
  ASSUME NEW s, Closed(s), NEW r \in entry_client, NEW elapsed \in Nat
  PROVE  LET o == handle_timeout(s, r, elapsed) IN Good(o) /\ o.started /\ ~o.error
<1> DEFINE b == start_by_address(s, r.addr)
           o == set_timeout(b, r.timeout + elapsed)
<1>1. Good(b) /\ b.started /\ ~b.error BY StartByAddressGood DEF Closed
<1> HIDE DEF b
<1>2. r.timeout + elapsed \in Nat BY DEF entry_client
<1>3. Good(o) /\ o.started /\ ~o.error BY <1>1, <1>2, SetTimeoutGood DEF SameTx
<1> HIDE DEF o
<1>4. LET l == set_client_state(o, "LOST") IN Good(l) /\ l.started /\ ~l.error
  BY <1>3, SetStateGood DEF SameTx, Status
<1>5. handle_timeout(s, r, elapsed) \in {o, set_client_state(o, "LOST")} BY DEF handle_timeout, o, b
<1> QED BY <1>3, <1>4, <1>5
=============================================================================
