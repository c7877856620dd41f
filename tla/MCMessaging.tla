----------------------------- MODULE MCMessaging -----------------------------
(* The messaging services share no state: one behaviour exercises one of them. *)
EXTENDS EventBus, DeadLetters, EventStream, WSHub, Notification, TLC

VARIABLE part

MCTopics == {<<"a">>, <<"a", "b">>}
MCPatterns == {<<"a">>, <<"a", "*">>, <<"a", "b">>}
MCUserOf == [c \in WSClients |-> IF c = "w1" THEN "ann" ELSE "bob"]
MCKindOf == [s \in NotifySenders |-> IF s = "log" THEN "log" ELSE "email"]
MCChannelOf == [s \in NotifySenders |-> "email"]

vars == <<part, busVars, dlqVars, streamVars, hubVars, notifyVars>>

Only(p) ==
  /\ part = p /\ UNCHANGED part
  /\ p # "bus" => UNCHANGED busVars
  /\ p # "dlq" => UNCHANGED dlqVars
  /\ p # "stream" => UNCHANGED streamVars
  /\ p # "hub" => UNCHANGED hubVars
  /\ p # "notify" => UNCHANGED notifyVars

Init ==
  /\ part \in {"bus", "dlq", "stream", "hub", "notify"}
  /\ BusInit /\ DlqInit /\ StreamInit /\ HubInit /\ NotifyInit
  /\ part # "dlq" => dlqKind = "memory"

Next ==
  \/ Only("bus") /\ BusNext
  \/ Only("dlq") /\ DlqNext
  \/ Only("stream") /\ StreamNext
  \/ Only("hub") /\ HubNext
  \/ Only("notify") /\ NotifyNext

Spec ==
  /\ Init /\ [][Next]_vars
  /\ \A c \in Consumers : WF_streamVars(StreamStep(c))
=============================================================================
