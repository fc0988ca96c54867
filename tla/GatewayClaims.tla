--------------------------- MODULE GatewayClaims ---------------------------
(***************************************************************************)
(* What comments of the repository say of the gateway and the code does    *)
(* not do.  Each claim has a run of its own, in which TLC finds it         *)
(* violated.                                                               *)
(***************************************************************************)
EXTENDS MCGateway

(***************************************************************************)
(* CoreImpl.cpp, process_mqtt_offline_procedure: "afterwards we check if   *)
(* the we have connected clients, if not we shutdown the gateway."  So its *)
(* loop over the clients comes to an end.                                  *)
(***************************************************************************)
OfflineLoopEnds == k.at = "hung" => ~k.off

(***************************************************************************)
(* PersistentInterface.h, get_nth_subscribed_topic_id: "Get the i-th       *)
(* subscription of a short topic.  Can be used to iterate over all short   *)
(* topics": below the subscription count every index has a subscription.   *)
(***************************************************************************)
NthSubscriptionExists ==
  \A n \in 1..get_client_subscription_count(db) : get_nth_subscribed_topic_id(db, n) # 0

(***************************************************************************)
(* MQTTClient.h, subscribe: "mh - the callback function to be invoked when *)
(* a message is received for this subscription".  So when the gateway      *)
(* yields, every topic the broker has a subscription for has a handler.    *)
(***************************************************************************)
SubscribedTopicHasHandler ==
  k.at = "mqtt" /\ link.conn /\ link.up =>
    \A t \in link.bsub : Matching(link.hs, db, t) # {}

---------------------------------------------------------------------------
(* The packets of the runs. *)

ConnectOne == McConnect("a1", "c1", FALSE, FALSE)
SubscribeOne == McSubscribe("a1", "name", "t1", 0, 1)
PingPackets == {ConnectOne, Base("PINGREQ", "a1")}
CallbackPackets == {ConnectOne, SubscribeOne, [Base("REGISTER", "a1") EXCEPT !.topic = "t2"]}
IteratePackets ==
  {ConnectOne, McConnect("a1", "c1", TRUE, FALSE), SubscribeOne, McSubscribe("a1", "name", "t2", 0, 0)}

============================================================================
