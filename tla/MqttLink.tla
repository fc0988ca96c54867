------------------------------ MODULE MqttLink ------------------------------
(***************************************************************************)
(* The client side of the connection to the MQTT broker, as the gateway    *)
(* sees it: operators on a record l with the fields                        *)
(*   conn   isconnected of the Paho client,                                *)
(*   up     the connection still brings what the broker sends,             *)
(*   hs     the message handlers,                                          *)
(*   bsub   the topics the broker has a subscription for.                  *)
(* The gateway, the service it relies on and the Paho client itself share  *)
(* these definitions.                                                      *)
(***************************************************************************)
EXTENDS Integers

CONSTANT MaxHandlers      \* MAX_MESSAGE_HANDLERS of the Paho client

\* A handler is free or keeps a pointer into one of the two topic name buffers.
Handler == {"none", "reg", "pre"}
NoHandlers == [h \in 1..MaxHandlers |-> "none"]
NoFilter == "nullptr"

\* cleanSession: handlers forgotten, not connected; the broker drops the clean session.
cleanSession(l) ==
  [l EXCEPT !.conn = FALSE, !.up = FALSE, !.hs = NoHandlers, !.bsub = {}]

\* The filter of a handler is what the buffer it points to holds now.
FilterOf(s, h) == CASE h = "reg" -> s.regbuf [] h = "pre" -> s.prebuf [] OTHER -> NoFilter
Matching(hs, s, t) == {h \in 1..MaxHandlers : FilterOf(s, hs[h]) = t}

FirstHandler(hs, Test(_)) ==
  {h \in 1..MaxHandlers : Test(hs[h]) /\ \A g \in 1..(h - 1) : ~Test(hs[g])}

\* The handlers after a granted subscription; with none free they stay as they are.
Attached(hs, buf) ==
  LET free == FirstHandler(hs, LAMBDA h : h = "none")
  IN IF free = {} THEN {hs} ELSE {[hs EXCEPT ![h] = buf] : h \in free}

\* ... and after an unsubscribe, which detaches the first handler of the topic.
Detached(hs, s, t) ==
  LET old == FirstHandler(hs, LAMBDA h : FilterOf(s, h) = t)
  IN IF old = {} THEN {hs} ELSE {[hs EXCEPT ![h] = "none"] : h \in old}

(***************************************************************************)
(* What a call may return, and the link it leaves.  ok: the call returned  *)
(* 0.  Any of them may fail, by a timeout or because the broker refuses,   *)
(* and then forgets the session; a QoS 1 publish, a subscribe and an       *)
(* unsubscribe succeed only once the broker has acted on them.             *)
(***************************************************************************)
publish_results(l, qos) ==
  IF qos = 255 \/ ~l.conn THEN {[ok |-> FALSE, link |-> l]}
  ELSE {[ok |-> FALSE, link |-> cleanSession(l)]}
       \cup (IF l.up \/ qos # 1 THEN {[ok |-> TRUE, link |-> l]} ELSE {})

subscribe_results(l, t, buf) ==
  {[ok |-> FALSE, link |-> cleanSession(l)]}
  \cup {[ok |-> TRUE, link |-> [l EXCEPT !.hs = hs]] :
          hs \in IF l.conn /\ l.up /\ t \in l.bsub THEN Attached(l.hs, buf) ELSE {}}

unsubscribe_results(l, t, s) ==
  {[ok |-> FALSE, link |-> cleanSession(l)]}
  \cup {[ok |-> TRUE, link |-> [l EXCEPT !.hs = hs, !.bsub = @ \ {t}]] :
          hs \in IF l.conn /\ l.up THEN Detached(l.hs, s, t) ELSE {}}

=============================================================================
