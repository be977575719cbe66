---------------------------- MODULE MCComponents ----------------------------
(***************************************************************************)
(* Channel, circuit breaker, task group, client pool, MQTT session, HTTP/2  *)
(* session and event loop for TLC.  They share no state, so a behaviour     *)
(* runs one of them, and the others rest in an initial state.               *)
(***************************************************************************)
EXTENDS Channel, CircuitBreaker, TaskGroup, ClientPool, MqttSession, Http2, EventLoop, TLC

CONSTANT Family  \* the components that may be under test
VARIABLE active  \* the one that is

MqttUse(out, inbound, qos, clean, conns, takeover, quota, bound) ==
    [out |-> out, inbound |-> inbound, qos |-> qos, clean |-> clean, quota |-> quota, ids |-> 3,
     conns |-> conns, takeover |-> takeover,
     bound |-> [e \in MqttEvents |-> IF e \in DOMAIN bound THEN bound[e] ELSE 0]]

(* Publishing through two losses with a retry, in a session that persists   *)
(* and in one that does not; two letters through one; being taken over,     *)
(* with a retry; at QoS 1.  Then the same for what the broker delivers.     *)
MCMqttSetups ==
    {MqttUse({"a"}, {}, 2, clean, 3, FALSE, 2, [cut |-> 2, clientRetry |-> 1]) : clean \in BOOLEAN}
    \cup {MqttUse({"a", "b"}, {}, 2, FALSE, 2, FALSE, 2, [cut |-> 1]),
          MqttUse({"a"}, {}, 2, FALSE, 2, TRUE, 2, [cut |-> 1, clientRetry |-> 1]),
          MqttUse({"a"}, {}, 1, FALSE, 2, FALSE, 2, [cut |-> 1, clientRetry |-> 2]),
          MqttUse({}, {"x"}, 2, FALSE, 3, FALSE, 2, [cut |-> 2]),
          MqttUse({}, {"x", "y"}, 2, FALSE, 2, FALSE, 1, [cut |-> 1]),
          MqttUse({}, {"x"}, 2, FALSE, 2, TRUE, 2, [cut |-> 1]),
          MqttUse({}, {"x"}, 2, FALSE, 2, FALSE, 2, [cut |-> 1, brokerRetry |-> 2]),
          MqttUse({}, {"x"}, 1, FALSE, 2, FALSE, 2, [cut |-> 1, brokerRetry |-> 2])}

(* One letter to a subscriber, at QoS 1 through the loss of a connection,   *)
(* and at QoS 2 through a connection that stays.                            *)
LostLetter == {MqttUse({}, {"x"}, 1, FALSE, 2, FALSE, 2, [cut |-> 1])}
RetriedLetter == {MqttUse({}, {"x"}, 2, FALSE, 1, FALSE, 2, [brokerRetry |-> 1])}

H2Use(bodies, routes, answers, sizes, sends, windows, resets, early) ==
    [bodies |-> bodies, routes |-> routes, limit |-> 1, answers |-> answers, sizes |-> sizes,
     sends |-> sends, windows |-> windows, resets |-> resets, early |-> early]

Requests(first, second) == 1 :> first @@ 3 :> second
Bare == {FALSE}
Body == {TRUE}
None == {}

(* Two responses that wait for windows, with SETTINGS and with a reset; a   *)
(* source; a body larger than the window; a buffered one, alone and with a  *)
(* bare request; two bodies that share the window of the connection.        *)
MCHttp2Setups ==
    {H2Use(Requests(Bare, Bare), {}, {"plain"}, {3}, 0, {1, 3}, {}, {}),
     H2Use(Requests(Bare, Bare), {}, {"plain"}, {0, 3}, 0, {}, {1}, {}),
     H2Use(Requests(Bare, None), {}, {"plain", "source"}, {0, 3}, 0, {1, 3}, {1}, {}),
     H2Use(Requests(Bare, Bare), {}, {"plain", "source"}, {2}, 0, {}, {}, {}),
     H2Use(Requests(Body, None), {"streaming", "buffered"}, {"plain"}, {1}, 3, {}, {1}, {"open"}),
     H2Use(Requests(Body, None), {"buffered"}, {"plain", "source"}, {1}, 1, {}, {}, {}),
     H2Use(Requests(Body, Bare), {"buffered"}, {"plain"}, {1}, 1, {}, {}, {}),
     H2Use(Requests(Body, Body), {"streaming"}, {"plain"}, {0}, 1, {}, {}, {})}

(* Credit for a stream that comes with the request.                         *)
EarlyUpdate == {H2Use(Requests(Bare, None), {}, {"plain"}, {3}, 0, {}, {}, {"done"})}

LoopUse(first, second, left, signals, cancels, moves, stop) ==
    [awaits |-> [first |-> first, second |-> second], left |-> left, signals |-> signals,
     cancels |-> cancels, moves |-> moves, stop |-> stop]

Operations(n, m) == [first |-> n, second |-> m]
WaitFor(f, d, cancellable) == [fd |-> f, dir |-> d, cancellable |-> cancellable]

(* Both directions of a descriptor, one cancelled, or both; a descriptor    *)
(* that is given up for another in the same batch; posting and file         *)
(* operations around a stop; a stop beside a cancellation.                  *)
MCLoopSetups ==
    {LoopUse({WaitFor(1, "in", TRUE)}, {WaitFor(1, "out", FALSE)}, Operations(1, 1),
             <<{"out", "hup"}, {}>>, {"first"}, FALSE, FALSE),
     LoopUse({WaitFor(1, "in", TRUE)}, {WaitFor(1, "out", TRUE)}, Operations(1, 1),
             <<{"in"}, {}>>, {"first", "second"}, FALSE, FALSE),
     LoopUse({WaitFor(1, "in", TRUE), WaitFor(2, "in", FALSE)}, {}, Operations(2, 0),
             <<{"in"}, {"in"}>>, {"first"}, FALSE, FALSE),
     LoopUse({}, {}, Operations(2, 1), <<{}, {}>>, {}, TRUE, TRUE),
     LoopUse({WaitFor(1, "in", TRUE)}, {}, Operations(1, 0), <<{"in"}, {}>>, {"first"}, FALSE, TRUE)}

allVars == <<active, chVars, cbVars, tgVars, cpVars, mqttVars, h2Vars, elVars>>

MCInit ==
    /\ active \in Family
    /\ ChInit /\ CbInit /\ TgInit /\ CpInit /\ MqttInit /\ H2Init /\ ElInit
    /\ active # "channel" => capacity = 0 /\ loops = 1
    /\ active # "mqtt" => mqPlan = CHOOSE p \in MqttSetups : TRUE
    /\ active # "http2" => plan = CHOOSE p \in Http2Setups : TRUE
    /\ active # "event_loop" => use = CHOOSE u \in LoopSetups : TRUE

MCNext ==
    \/ /\ active = "channel" /\ ChNext
       /\ UNCHANGED <<active, cbVars, tgVars, cpVars, mqttVars, h2Vars, elVars>>
    \/ /\ active = "breaker" /\ CbNext
       /\ UNCHANGED <<active, chVars, tgVars, cpVars, mqttVars, h2Vars, elVars>>
    \/ /\ active = "task_group" /\ TgNext
       /\ UNCHANGED <<active, chVars, cbVars, cpVars, mqttVars, h2Vars, elVars>>
    \/ /\ active = "client_pool" /\ CpNext
       /\ UNCHANGED <<active, chVars, cbVars, tgVars, mqttVars, h2Vars, elVars>>
    \/ /\ active = "mqtt" /\ MqttNext
       /\ UNCHANGED <<active, chVars, cbVars, tgVars, cpVars, h2Vars, elVars>>
    \/ /\ active = "http2" /\ H2Next
       /\ UNCHANGED <<active, chVars, cbVars, tgVars, cpVars, mqttVars, elVars>>
    \/ /\ active = "event_loop" /\ ElNext
       /\ UNCHANGED <<active, chVars, cbVars, tgVars, cpVars, mqttVars, h2Vars>>

(* The fairness of the component's own specification.                       *)
MCSpec ==
    /\ MCInit /\ [][MCNext]_allVars
    /\ \A c \in Children : WF_tgVars(active = "task_group" /\ ChildEnds(c))
    /\ \A s \in Sweepers : WF_tgVars(active = "task_group" /\ SweepStep(s))
    /\ WF_cpVars(active = "client_pool" /\ CpProgress)
    /\ WF_elVars(active = "event_loop" /\ LoopStep)
    /\ WF_elVars(active = "event_loop" /\ Wake)
    /\ \A j \in Jobs : WF_elVars(active = "event_loop" /\ CancellerStep(j))
=============================================================================
