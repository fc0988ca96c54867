---------------------------- MODULE MqttService ----------------------------
(***************************************************************************)
(* What the gateway relies on: one broker call at a time, which returns    *)
(* one of the results of MqttLink; while a call reads the connection,      *)
(* callbacks for messages of subscribed topics that a handler's filter     *)
(* matches, and never at another time.  PahoClient implements it, Gateway  *)
(* uses it: both are shown to refine this specification.                   *)
(***************************************************************************)
EXTENDS Integers, FiniteSets

CONSTANTS
  Topic,         \* topic names
  MaxHandlers,   \* MAX_MESSAGE_HANDLERS
  MayStop        \* may the process end?

VARIABLES
  names,   \* the caller's topic name buffers, which handlers point into
  link,    \* see MqttLink
  call,    \* the call in progress
  cb       \* callbacks still to be made for the message being delivered

vars == <<names, link, call, cb>>

INSTANCE MqttLink

NoCall == [op |-> "none", topic |-> "", buf |-> "none", qos |-> 0]
YieldCall == [NoCall EXCEPT !.op = "yield"]
PublishCall(qos) == [NoCall EXCEPT !.op = "publish", !.qos = qos]
SubscribeCall(t, buf) == [NoCall EXCEPT !.op = "subscribe", !.topic = t, !.buf = buf]
UnsubscribeCall(t) == [NoCall EXCEPT !.op = "unsubscribe", !.topic = t]

Calls ==
  {YieldCall} \cup {PublishCall(q) : q \in {0, 1, 2, 255}}
  \cup {SubscribeCall(t, b) : t \in Topic, b \in Handler \ {"none"}}
  \cup {UnsubscribeCall(t) : t \in Topic}

NoCallback == [left |-> 0, topic |-> ""]
Unlinked == [conn |-> FALSE, up |-> FALSE, hs |-> NoHandlers, bsub |-> {}]

\* Does the call read the connection while it waits?
Reads == call.op \in {"yield", "subscribe", "unsubscribe"} \/ call = PublishCall(1)

Init == link = Unlinked /\ call = NoCall /\ cb = NoCallback

\* Between two calls the caller reuses its buffers.
Use == call = NoCall /\ UNCHANGED <<link, call, cb>>

Start ==
  /\ call = NoCall /\ call' \in Calls
  /\ call' = YieldCall => link.conn
  /\ UNCHANGED <<link, cb>>

Connect ==
  /\ call = NoCall /\ ~link.conn
  /\ link' = [link EXCEPT !.conn = TRUE, !.up = TRUE]
  /\ UNCHANGED <<names, call, cb>>

\* The broker acts on a SUBSCRIBE before the client has read its answer.
BrokerSubscribes ==
  /\ call.op = "subscribe" /\ link.up
  /\ link' = [link EXCEPT !.bsub = @ \cup {call.topic}]
  /\ UNCHANGED <<names, call, cb>>

Lost ==
  /\ link.up
  /\ link' = [link EXCEPT !.up = FALSE, !.bsub = {}]
  /\ UNCHANGED <<names, call, cb>>

Arrive(t) ==
  /\ Reads /\ cb = NoCallback /\ link.up /\ t \in link.bsub
  /\ Matching(link.hs, names, t) # {}
  /\ cb' = [left |-> Cardinality(Matching(link.hs, names, t)), topic |-> t]
  /\ UNCHANGED <<names, link, call>>

Callback ==
  /\ cb.left > 0
  /\ cb' = IF cb.left = 1 THEN NoCallback ELSE [cb EXCEPT !.left = @ - 1]
  /\ UNCHANGED <<names, link, call>>

Results ==
  CASE call.op = "publish" -> publish_results(link, call.qos)
    [] call.op = "subscribe" -> subscribe_results(link, call.topic, call.buf)
    [] call.op = "unsubscribe" -> unsubscribe_results(link, call.topic, names)
    [] OTHER -> {[ok |-> TRUE, link |-> link]}

Return ==
  /\ call # NoCall /\ cb = NoCallback
  /\ \E r \in Results : link' = r.link
  /\ call' = NoCall
  /\ UNCHANGED <<names, cb>>

\* The process ends, whatever it was doing.
Stop == MayStop /\ link' = Unlinked /\ call' = NoCall /\ cb' = NoCallback

Next ==
  \/ Use \/ Start \/ Connect \/ BrokerSubscribes \/ Lost \/ Callback \/ Return \/ Stop
  \/ \E t \in Topic : Arrive(t)

Spec == Init /\ [][Next]_vars

=============================================================================
