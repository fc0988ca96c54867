----------------------------- MODULE CoreImpl -----------------------------
(***************************************************************************)
(* The operations of CoreImpl that run to their end without waiting for    *)
(* the broker, as operators on the store of SDPersistent.  Each returns    *)
(* [db, res]: the new store and the CORE_RESULT (register_topic and        *)
(* lookup_subscription also return a topic id).  The operations that call  *)
(* the broker in the middle are cut at that call; module Gateway puts the  *)
(* parts together.                                                         *)
(*                                                                         *)
(* apply_transaction returns 0, 1 or 255, so none of the comparisons with  *)
(* the negative results CLIENTNONEXISTENCE, CLIENTSUBSCRIPTIONFULL,        *)
(* TOPICIDNONEXISTENCE and FULL ever holds: Commit maps 1 to SUCCESS and   *)
(* every other value to ZERO.                                              *)
(***************************************************************************)
EXTENDS SDPersistent

Result == {"SUCCESS", "ZERO", "CLIENTNONEXISTENCE", "TOPICIDNONEXISTENCE"}

Commit(s) ==
  [db |-> apply_transaction(s), res |-> IF apply_result(s) = 1 THEN "SUCCESS" ELSE "ZERO"]

Refuse(s) == [db |-> s, res |-> "ZERO"]

---------------------------------------------------------------------------
(* State of the client. *)

await_message(s, a, type) == Commit(set_client_await_message(start_by_address(s, a), type))

set_disconnected(s, a) == Commit(set_client_state(start_by_address(s, a), "DISCONNECTED"))

\* set_client_duration has an empty body: the sleep duration is not kept.
set_asleep(s, online, a) ==
  IF online THEN Commit(set_client_state(start_by_address(s, a), "ASLEEP")) ELSE Refuse(s)

set_awake(s, a) == Commit(set_client_state(start_by_address(s, a), "AWAKE"))

remove_will(s, a) == Commit(delete_will(start_by_address(s, a)))

add_will_topic(s, online, a, t, qos) ==
  LET o == start_by_address(s, a)
  IN IF ~online THEN Refuse(s)
     ELSE IF get_client_await_message_type(o) # "WILLTOPIC" THEN Refuse(apply_transaction(o))
     ELSE Commit(set_client_willtopic(o, t, qos))

add_will_msg(s, online, a, msg) ==
  LET o == start_by_address(s, a)
  IN IF ~online THEN Refuse(s)
     ELSE IF get_client_await_message_type(o) # "WILLMSG" THEN Refuse(apply_transaction(o))
     ELSE Commit(set_client_willmessage(o, msg))

---------------------------------------------------------------------------
(* Registrations and acknowledgements. *)

register_topic(s, online, a, t) ==
  LET o == start_by_address(s, a)
      c == Commit(add_client_registration(o, t))
  IN IF ~online THEN [db |-> s, res |-> "ZERO", tid |-> 0]
     ELSE [db |-> c.db, res |-> c.res, tid |-> new_topic_id(o, t)]

(***************************************************************************)
(* A set: when the transaction does not succeed the function ends without  *)
(* a return statement.  set_topic_known has an empty body.                 *)
(***************************************************************************)
notify_regack_arrived(s, a, mid, code) ==
  LET o == start_by_address(s, a)
      expected == /\ get_client_await_message_type(o) = "REGACK"
                  /\ get_client_await_msg_id(o) = mid
      c == Commit(IF expected THEN set_client_await_message(o, "PINGREQ") ELSE o)
  IN IF expected /\ code \notin {"ACCEPTED", "REJECTED_CONGESTION"}
     THEN {Refuse(apply_transaction(o))}
     ELSE IF c.res = "SUCCESS" THEN {c}
     ELSE {[db |-> c.db, res |-> r] : r \in {"SUCCESS", "ZERO"}}

\* Every return code the protocol knows removes the publish; another one is refused.
notify_puback_arrived(s, a, mid, code) ==
  LET o == start_by_address(s, a)
  IN IF code = "RESERVED" THEN Refuse(apply_transaction(o))
     ELSE Commit(remove_publish_by_msg_id(o, mid))

---------------------------------------------------------------------------
\* Mutant of last_unsubscribed: one subscriber too early.
last_but_one_unsubscribed(s, t) == get_global_topic_subscription_count(s, t) = 1
\* Nobody is subscribed any more: the broker is to be told.
last_unsubscribed(s, t) == get_global_topic_subscription_count(s, t) = 0

(***************************************************************************)
(* add_subscription up to mqtt->subscribe.  subscribe: this client is the  *)
(* first of the gateway to subscribe to topic.  A registered id is looked  *)
(* up when the short-topic flag is set, otherwise a predefined one.        *)
(***************************************************************************)
lookup_subscription(s, online, a, tid, short, qos) ==
  LET o == start_by_address(s, a)
      t == IF short THEN get_topic_name(o, tid) ELSE get_predefined_topic_name(o, tid)
      r == IF short THEN touch_topic_name(o, tid)
           ELSE IF t = Null THEN touch_predefined_topic_name(o, tid)
           ELSE add_client_registration(touch_predefined_topic_name(o, tid), t)
      id == IF short THEN tid ELSE new_topic_id(o, t)
      n == IF is_subscribed(r, t) THEN r
           ELSE increment_global_subscription_count(
                  add_subscription(r, t, id, IF qos >= 1 THEN 1 ELSE 0), t)
      c == Commit(n)
      stop(x) == [db |-> x, res |-> "ZERO", tid |-> 0, topic |-> Empty, subscribe |-> FALSE]
  IN IF ~online THEN stop(s)
     ELSE IF ~client_exist(o) THEN stop(apply_transaction(o))
     ELSE IF t = Null THEN stop(apply_transaction(r))
     ELSE [db |-> c.db, res |-> c.res, tid |-> id, topic |-> t,
           subscribe |-> ~is_subscribed(r, t) /\ get_global_topic_subscription_count(n, t) = 1]

\* ... when the process is killed inside it: registered, or also subscribed, but not counted.
half_subscribed(s, a, tid, short, qos) ==
  LET o == start_by_address(s, a)
      t == IF short THEN get_topic_name(o, tid) ELSE get_predefined_topic_name(o, tid)
      r == IF short \/ t = Null THEN o ELSE add_client_registration(o, t)
      id == IF short THEN tid ELSE new_topic_id(o, t)
  IN IF ~client_exist(o) \/ t = Null \/ is_subscribed(r, t) THEN {r}
     ELSE {r, add_subscription(r, t, id, IF qos >= 1 THEN 1 ELSE 0)}

(***************************************************************************)
(* delete_subscription, both overloads, up to mqtt->unsubscribe.  The test *)
(* is inverted in the code: a client that IS subscribed is left as it is.  *)
(***************************************************************************)
lookup_unsubscription(s, a, form, tid, name) ==
  LET o == start_by_address(s, a)
      t == CASE form = "name" -> name
             [] form = "short" -> get_topic_name(o, tid)
             [] OTHER -> get_predefined_topic_name(o, tid)
      r == CASE form = "name" -> o
             [] form = "short" -> touch_topic_name(o, tid)
             [] OTHER -> touch_predefined_topic_name(o, tid)
      id == IF form = "name" THEN get_topic_id(name) ELSE tid
      n == IF is_subscribed(r, t) THEN r
           ELSE decrement_global_subscription_count(delete_subscription(r, id), t)
      c == Commit(n)
  IN [db |-> c.db, res |-> c.res, topic |-> t,
      unsubscribe |-> ~is_subscribed(r, t) /\ last_unsubscribed(n, t)]

\* ... when the process is killed inside it: deleted, but not counted down.
half_unsubscribed(s, a, tid, short) ==
  LET o == start_by_address(s, a)
      t == IF short THEN get_topic_name(o, tid) ELSE get_predefined_topic_name(o, tid)
  IN IF is_subscribed(o, t) THEN o ELSE delete_subscription(o, tid)

---------------------------------------------------------------------------
(* Messages from the broker to the clients. *)

\* Mutants of the next operator: no look at the status, or a look at the registration.
receive_in_any_state(s, a, data) ==
  LET o == start_by_address(s, a)
      t == data[1]
  IN apply_transaction(
       IF is_subscribed(o, t)
       THEN add_client_publish(o, data, get_subscription_topic_id(o, t), get_subscription_qos(o, t))
       ELSE o)
receive_by_registration(s, a, data) ==
  LET o == start_by_address(s, a)
      t == data[1]
  IN apply_transaction(
       IF get_client_status(o) \in {"ACTIVE", "ASLEEP", "AWAKE"} /\ is_subscribed(o, t)
       THEN add_client_publish(touch_topic_name(o, get_subscription_topic_id(o, t)), data,
                               get_subscription_topic_id(o, t), get_subscription_qos(o, t))
       ELSE o)

handle_receive_mqtt_publish_for_client(s, a, data) ==
  LET o == start_by_address(s, a)
      t == data[1]
  IN apply_transaction(
       IF get_client_status(o) \in {"ACTIVE", "ASLEEP", "AWAKE"} /\ is_subscribed(o, t)
       THEN add_client_publish(o, data, get_subscription_topic_id(o, t), get_subscription_qos(o, t))
       ELSE o)

Sent(a, type) ==
  [to |-> a, type |-> type, code |-> "ACCEPTED", tid |-> 0, mid |-> 0, qos |-> 0, data |-> NoMsg]

(***************************************************************************)
(* handle_client_publishes(status, address): at most one message of the    *)
(* queue goes out per call, the one at the highest position.  A set of     *)
(* [db, out], because of the missing return in is_topic_known.             *)
(***************************************************************************)
handle_client_publishes(s, status, a) ==
  LET o == start_by_address(s, a)
      e == get_next_publish(o)
      kn == touch_topic_known(o, e.tid)
      rn == touch_topic_name(kn, e.tid)
      mid == get_client_await_msg_id(o) + 1
      done(x, m) == [db |-> apply_transaction(x), out |-> IF apply_result(x) = 1 THEN m ELSE <<>>]
      register == IF get_topic_name(kn, e.tid) = Null THEN done(rn, <<>>)
                  ELSE done(set_client_await_message(rn, "REGACK"),
                            <<[Sent(a, "REGISTER") EXCEPT !.tid = e.tid, !.mid = mid]>>)
      send == IF e.qos = 0
              THEN done(remove_publish_by_publish_id(kn, e.pid),
                        <<[Sent(a, "PUBLISH") EXCEPT !.tid = e.tid, !.data = e.data]>>)
              ELSE done(set_publish_msg_id(set_client_await_message(kn, "PUBACK"), e.pid, mid),
                        <<[Sent(a, "PUBLISH") EXCEPT !.tid = e.tid, !.data = e.data,
                                                     !.qos = 1, !.mid = mid]>>)
  IN IF status \notin {"ACTIVE", "AWAKE"} THEN {[db |-> s, out |-> <<>>]}
     ELSE IF get_client_await_message_type(o) # "PINGREQ" \/ ~has_client_publishes(o)
     THEN {done(o, <<>>)}
     ELSE {IF known THEN send ELSE register : known \in is_topic_known(o, e.tid)}

\* The reaction to a client that has nothing queued, in loop and in the offline procedure.
settle(s, status, a, from, to, answer) ==
  LET o == start_by_address(s, a)
      c == Commit(set_client_state(o, to))
  IN IF status \in from /\ ~has_client_publishes(o)
     THEN [db |-> c.db, out |-> IF c.res = "SUCCESS" THEN <<Sent(a, answer)>> ELSE <<>>]
     ELSE [db |-> apply_transaction(o), out |-> <<>>]

\* Milliseconds of silence after which a client is lost.
tolerance_timeout(duration) ==
  IF duration > 60000 THEN duration + duration \div 10 ELSE duration + duration \div 2

\* Mutant of handle_timeout: the client is not marked.
handle_timeout_unmarked(s, r, elapsed) ==
  set_timeout(start_by_address(s, r.addr), r.timeout + elapsed)

\* handle_timeout up to the test for a will; the transaction is left open.
handle_timeout(s, r, elapsed) ==
  LET o == set_timeout(start_by_address(s, r.addr), r.timeout + elapsed)
  IN IF r.timeout + elapsed > tolerance_timeout(r.duration)
     THEN set_client_state(o, "LOST") ELSE o

===========================================================================
