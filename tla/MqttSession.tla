----------------------------- MODULE MqttSession -----------------------------
(***************************************************************************)
(* One MQTT session between the client and the broker of this repository:   *)
(* publishing and delivering at QoS 1 and 2, retries, loss of the           *)
(* connection, reconnect, resumption and takeover of the session            *)
(* (src/protocol/mqtt: client/connection.cpp, broker/runtime.cpp,           *)
(* broker/mqtt_session_state.cpp).                                          *)
(*                                                                          *)
(* Each connection is a pair of FIFO byte streams.  When it is lost, some   *)
(* suffix of what is on the way is lost with it, and the two sides notice   *)
(* at different times.  A coroutine of the client that awaits a write       *)
(* continues in the step that puts the packet on the wire; the broker's     *)
(* handlers wait for the writer's coroutine, and continue in a later step.  *)
(***************************************************************************)
EXTENDS Naturals, Sequences, FiniteSets, SequencesExt, FiniteSetsExt

CONSTANTS
    Letters,     \* payloads of PUBLISH packets
    MqttSetups   \* the bounds a behaviour may have, see mqPlan

MqttEvents == {"cut", "clientRetry", "brokerRetry"}

ASSUME MqttAssumption ==
    MqttSetups \subseteq
        [out : SUBSET Letters, inbound : SUBSET Letters, qos : {1, 2}, clean : BOOLEAN,
         quota : Nat, ids : Nat, conns : Nat, takeover : BOOLEAN, bound : [MqttEvents -> Nat]]

VARIABLES
    mqClient,    \* client::impl
    publishing,  \* publishing[m]: the publish() coroutine of letter m
    session,     \* the session_state of the client id
    onlineAt,    \* the connection in online_channels_, or 0
    conn,        \* conn[c]: conn_state and the coroutines of connection c
    stream,      \* stream[c]: what is on the way, and whether the connection is lost
    arrived,     \* history: letters of others that came for the session
    routed,      \* history: letters of the client that the broker has routed
    shown,       \* history: letters given to the client's message callback
    mqPlan,      \* letters each way, QoS, clean_session, receive_maximum,
                 \* number of packet ids, of connections, whether the client
                 \* may be back before the broker knows it was gone, bounds
    mqDone       \* how often each bounded event has happened

mqttVars == <<mqClient, publishing, session, onlineAt, conn, stream, arrived, routed, shown,
              mqPlan, mqDone>>

BrokerSide == <<session, onlineAt, arrived, routed>>

Conns == 1 .. mqPlan.conns
MqttEvent(e) == mqDone[e] < mqPlan.bound[e] /\ mqDone' = [mqDone EXCEPT ![e] = @ + 1]

NoLetter == "none"
Packet(t, pid, m) == [type |-> t, pid |-> pid, msg |-> m]
FirstAck == IF mqPlan.qos = 1 THEN "PUBACK" ELSE "PUBREC"

-----------------------------------------------------------------------------
(* Packet ids and the list of messages in flight, on either side.           *)
IdsFrom(next) == [k \in 1 .. mqPlan.ids |-> ((next - 2 + k) % mqPlan.ids) + 1]

(* alloc_packet_id(): the next id that is not in use, round and round.      *)
FreeId(next, used) ==
    LET s == IdsFrom(next)
        k == Min({j \in DOMAIN s : s[j] \notin used})
    IN [id |-> s[k], next |-> (s[k] % mqPlan.ids) + 1]

InFlight(pid, m, ack) == [pid |-> pid, msg |-> m, ack |-> ack]
FlightIds(fl) == {fl[i].pid : i \in DOMAIN fl}
Landed(fl, pid) == SelectSeq(fl, LAMBDA x : x.pid # pid)
AwaitComp(fl, pid) ==
    [i \in DOMAIN fl |-> IF fl[i].pid = pid THEN [fl[i] EXCEPT !.ack = "PUBCOMP"] ELSE fl[i]]

(* What is sent again for a message in flight.                              *)
Again(x) == IF x.ack = "PUBCOMP" THEN Packet("PUBREL", x.pid, NoLetter)
            ELSE Packet("PUBLISH", x.pid, x.msg)
AllAgain(fl) == [i \in DOMAIN fl |-> Again(fl[i])]

NoLetters == << >>
Hold(h, pid, m) == [p \in DOMAIN h \cup {pid} |-> IF p = pid THEN m ELSE h[p]]
Drop(h, pid) == [p \in DOMAIN h \ {pid} |-> h[p]]

-----------------------------------------------------------------------------
Fresh == [exists |-> FALSE, online |-> FALSE, subscribed |-> FALSE, next |-> 1, ids |-> {},
          flight |-> << >>, received |-> {}, held |-> NoLetters, offline |-> << >>]

MqttInit ==
    /\ mqPlan \in MqttSetups
    /\ mqClient = [phase |-> "down", conn |-> 0, topic |-> "none", next |-> 1,
                   flight |-> << >>, received |-> {}, held |-> NoLetters]
    /\ publishing = [m \in mqPlan.out |-> [at |-> "idle", pid |-> 0]]
    /\ session = Fresh
    /\ onlineAt = 0
    /\ conn = [c \in Conns |-> [phase |-> "none", live |-> FALSE, present |-> FALSE,
                                box |-> << >>, reply |-> << >>, rest |-> << >>,
                                queue |-> << >>]]
    /\ stream = [c \in Conns |-> [up |-> << >>, down |-> << >>, lost |-> FALSE]]
    /\ arrived = {}
    /\ routed = << >>
    /\ shown = << >>
    /\ mqDone = [e \in MqttEvents |-> 0]

(* The connection is lost, with what has not arrived.                       *)
Cut(c) ==
    /\ conn[c].phase # "none" /\ ~stream[c].lost
    /\ MqttEvent("cut")
    /\ \E i \in 0 .. Len(stream[c].up), j \in 0 .. Len(stream[c].down) :
          stream' = [stream EXCEPT ![c] = [up |-> SubSeq(@.up, 1, i),
                                           down |-> SubSeq(@.down, 1, j), lost |-> TRUE]]
    /\ UNCHANGED <<mqClient, publishing, conn, shown, BrokerSide>>

(* Writing to a lost connection fails or has no effect.                     *)
Up(s, c, ps) == IF s[c].lost THEN s ELSE [s EXCEPT ![c].up = @ \o ps]
Down(s, c, ps) == IF s[c].lost THEN s ELSE [s EXCEPT ![c].down = @ \o ps]

-----------------------------------------------------------------------------
(* The client.                                                              *)
(* connect(), and auto_reconnect_loop() once the connection has gone.       *)
Connect ==
    LET c == mqClient.conn + 1
    IN /\ mqClient.phase = "down" /\ c \in Conns
       /\ mqPlan.takeover \/ \A d \in Conns : conn[d].phase \in {"none", "gone"}
       /\ mqClient' = [mqClient EXCEPT !.phase = "connecting", !.conn = c]
       /\ conn' = [conn EXCEPT ![c].phase = "accepted"]
       /\ stream' = Up(stream, c, <<Packet("CONNECT", 0, NoLetter)>>)
       /\ UNCHANGED <<publishing, shown, mqDone, BrokerSide>>

Subscription == Packet("SUBSCRIBE", 0, NoLetter)

(* resend_inflight() when the broker knew the session; then the reconnect   *)
(* loop restores the subscription it has saved.                             *)
OnConnack ==
    LET c == mqClient.conn
        s == [stream EXCEPT ![c].down = Tail(@)]
        again == IF Head(stream[c].down).pid = 1 THEN AllAgain(mqClient.flight) ELSE << >>
        saved == IF mqClient.topic = "saved" THEN <<Subscription>> ELSE << >>
    IN /\ mqClient.phase = "connecting" /\ stream[c].down # << >>
       /\ mqClient' = [mqClient EXCEPT !.phase = "up"]
       /\ stream' = Up(s, c, again \o saved)
       /\ UNCHANGED <<publishing, conn, shown, mqDone, BrokerSide>>

(* The read loop's error, or connect()'s: everybody who waits is resumed    *)
(* and fails.                                                               *)
ConnectionLost ==
    LET c == mqClient.conn
    IN /\ mqClient.phase \in {"connecting", "up"} /\ stream[c].lost /\ stream[c].down = << >>
       /\ mqClient' = [mqClient EXCEPT !.phase = "down",
                                       !.topic = IF @ = "asked" THEN "none" ELSE @]
       /\ publishing' = [m \in mqPlan.out |->
              IF publishing[m].at \in {"first", "comp"} THEN [at |-> "failed", pid |-> 0]
              ELSE publishing[m]]
       /\ UNCHANGED <<conn, stream, shown, mqDone, BrokerSide>>

(* subscribe(), of one filter that all letters for the client match; its    *)
(* packet id is left out.                                                   *)
Subscribe ==
    /\ mqClient.phase = "up" /\ mqClient.topic = "none" /\ mqPlan.inbound # {}
    /\ \/ /\ mqClient' = [mqClient EXCEPT !.topic = "asked"]
          /\ stream' = Up(stream, mqClient.conn, <<Subscription>>)
       \/ stream[mqClient.conn].lost /\ UNCHANGED <<mqClient, stream>>
    /\ UNCHANGED <<publishing, conn, shown, mqDone, BrokerSide>>

(* publish() up to its first wait; a write that fails takes it back.  Over  *)
(* receive_maximum it waits, but for 30 s at most: then it publishes too.   *)
ClientPublish(m) ==
    LET used == FlightIds(mqClient.flight) \cup {publishing[x].pid : x \in mqPlan.out}
        f == FreeId(mqClient.next, used)
    IN /\ mqClient.phase = "up" /\ publishing[m].at = "idle"
       /\ \/ /\ mqClient' = [mqClient EXCEPT !.next = f.next,
                                             !.flight = Append(@, InFlight(f.id, m, FirstAck))]
             /\ publishing' = [publishing EXCEPT ![m] = [at |-> "first", pid |-> f.id]]
             /\ stream' = Up(stream, mqClient.conn, <<Packet("PUBLISH", f.id, m)>>)
          \/ /\ stream[mqClient.conn].lost
             /\ mqClient' = [mqClient EXCEPT !.next = f.next]
             /\ publishing' = [publishing EXCEPT ![m].at = "failed"]
             /\ UNCHANGED stream
       /\ UNCHANGED <<conn, shown, mqDone, BrokerSide>>

(* complete_pending() resumes the publish() that waits for this type.       *)
Awaiting(at, pid) == {m \in mqPlan.out : publishing[m] = [at |-> at, pid |-> pid]}

(* A read loop that finds connected_ false after a frame reads no other.    *)
Took(c) == [stream EXCEPT ![c].down = IF mqClient.phase = "up" THEN Tail(@) ELSE << >>]

OnPuback(p) ==
    /\ p.type = "PUBACK"
    /\ publishing' = [m \in mqPlan.out |->
           IF mqPlan.qos = 1 /\ m \in Awaiting("first", p.pid) THEN [at |-> "ok", pid |-> 0] ELSE publishing[m]]
    /\ mqClient' = [mqClient EXCEPT !.flight = Landed(@, p.pid)]
    /\ stream' = Took(mqClient.conn)
    /\ UNCHANGED shown

(* Fault: PUBREL goes out for whatever PUBREC asks, and PUBCOMP ends it.    *)
OnPubrecEager(p) ==
    /\ p.type = "PUBREC"
    /\ publishing' = [m \in mqPlan.out |->
           IF m \in Awaiting("first", p.pid) THEN [at |-> "ok", pid |-> 0] ELSE publishing[m]]
    /\ mqClient' = [mqClient EXCEPT !.flight = AwaitComp(@, p.pid)]
    /\ stream' = Up(Took(mqClient.conn), mqClient.conn, <<Packet("PUBREL", p.pid, NoLetter)>>)
    /\ UNCHANGED shown

(* A PUBREC that no publish() waits for is dropped.                         *)
OnPubrec(p) ==
    LET c == mqClient.conn
    IN /\ p.type = "PUBREC"
       /\ \/ /\ Awaiting("first", p.pid) = {}
             /\ stream' = Took(c)
             /\ UNCHANGED <<mqClient, publishing>>
          \/ \E m \in Awaiting("first", p.pid) :
                /\ \/ /\ mqClient.phase = "up"
                      /\ publishing' = [publishing EXCEPT ![m].at = "comp"]
                   \/ /\ stream[c].lost
                      /\ publishing' = [publishing EXCEPT ![m] = [at |-> "failed", pid |-> 0]]
                /\ mqClient' = [mqClient EXCEPT !.flight = AwaitComp(@, p.pid)]
                /\ stream' = Up(Took(c), c, <<Packet("PUBREL", p.pid, NoLetter)>>)
       /\ UNCHANGED shown

OnPubcomp(p) ==
    /\ p.type = "PUBCOMP"
    /\ publishing' = [m \in mqPlan.out |->
           IF m \in Awaiting("comp", p.pid) THEN [at |-> "ok", pid |-> 0] ELSE publishing[m]]
    /\ mqClient' = [mqClient EXCEPT !.flight = Landed(@, p.pid)]
    /\ stream' = Took(mqClient.conn)
    /\ UNCHANGED shown

(* Fault: a repeated PUBLISH is shown at once.                              *)
OnPublishShowing(p) ==
    LET c == mqClient.conn
    IN /\ p.type = "PUBLISH"
       /\ stream' = Up(Took(c), c, <<Packet(FirstAck, p.pid, NoLetter)>>)
       /\ shown' = Append(shown, p.msg)
       /\ UNCHANGED <<mqClient, publishing>>

(* handle_publish()                                                         *)
OnPublish(p) ==
    LET c == mqClient.conn
    IN /\ p.type = "PUBLISH"
       /\ stream' = Up(Took(c), c, <<Packet(FirstAck, p.pid, NoLetter)>>)
       /\ \/ /\ mqPlan.qos = 1
             /\ shown' = Append(shown, p.msg)
             /\ UNCHANGED mqClient
          \/ /\ mqPlan.qos = 2 /\ p.pid \in mqClient.received
             /\ UNCHANGED <<mqClient, shown>>
          \/ /\ mqPlan.qos = 2 /\ p.pid \notin mqClient.received
             /\ mqClient' = [mqClient EXCEPT !.received = @ \cup {p.pid},
                                             !.held = Hold(@, p.pid, p.msg)]
             /\ UNCHANGED shown
       /\ UNCHANGED publishing

OnPubrel(p) ==
    LET c == mqClient.conn
    IN /\ p.type = "PUBREL"
       /\ mqClient' = [mqClient EXCEPT !.received = @ \ {p.pid}, !.held = Drop(@, p.pid)]
       /\ shown' = IF p.pid \in DOMAIN mqClient.held THEN Append(shown, mqClient.held[p.pid]) ELSE shown
       /\ stream' = Up(Took(c), c, <<Packet("PUBCOMP", p.pid, NoLetter)>>)
       /\ UNCHANGED publishing

OnSuback(p) ==
    /\ p.type = "SUBACK"
    /\ mqClient' = [mqClient EXCEPT !.topic = IF @ = "asked" THEN "saved" ELSE @]
    /\ stream' = Took(mqClient.conn)
    /\ UNCHANGED <<publishing, shown>>

(* read_loop() and dispatch_frame().                                        *)
ClientDispatch ==
    /\ mqClient.phase \in {"up", "deaf"} /\ stream[mqClient.conn].down # << >>
    /\ LET p == Head(stream[mqClient.conn].down)
       IN OnPuback(p) \/ OnPubrec(p) \/ OnPubcomp(p) \/ OnPublish(p) \/ OnPubrel(p) \/ OnSuback(p)
    /\ UNCHANGED <<conn, mqDone, BrokerSide>>

(* retry_loop(), one message that has waited long enough; max_retries ones  *)
(* are given up.  A write that fails leaves the client deaf: connected_ is  *)
(* false, nobody who waits is resumed, and nothing connects again.          *)
ClientRetry ==
    \E i \in DOMAIN mqClient.flight :
        /\ mqClient.phase = "up"
        /\ MqttEvent("clientRetry")
        /\ \/ /\ stream' = Up(stream, mqClient.conn, <<Again(mqClient.flight[i])>>)
              /\ UNCHANGED mqClient
           \/ /\ mqDone["clientRetry"] + 1 = mqPlan.bound["clientRetry"]
              /\ mqClient' = [mqClient EXCEPT !.flight = Landed(@, mqClient.flight[i].pid)]
              /\ UNCHANGED stream
           \/ /\ stream[mqClient.conn].lost
              /\ mqClient' = [mqClient EXCEPT !.phase = "deaf"]
              /\ UNCHANGED stream
        /\ UNCHANGED <<publishing, conn, shown, BrokerSide>>

-----------------------------------------------------------------------------
(* The broker.                                                              *)
ClientSide == <<mqClient, publishing, shown, arrived>>

(* handle_connect(), under state_mtx_: the session is taken over, resumed,  *)
(* cleared or created.                                                      *)
Join(c) ==
    LET present == session.exists /\ ~mqPlan.clean
    IN /\ conn[c].phase = "accepted" /\ stream[c].up # << >>
       /\ session' = [(IF present THEN session ELSE Fresh) EXCEPT !.exists = TRUE, !.online = TRUE]
       /\ conn' = [conn EXCEPT ![c].phase = "joined", ![c].live = TRUE, ![c].present = present]
       /\ stream' = [stream EXCEPT ![c].up = Tail(@)]
       /\ UNCHANGED <<onlineAt, routed, mqDone, ClientSide>>

(* Under channels_rw_: the connection replaces the one that is registered   *)
(* and closes its channels and its socket.                                  *)
TakeOver(c) ==
    /\ conn[c].phase = "joined"
    /\ conn' = [conn EXCEPT ![c].phase = "registered"]
    /\ onlineAt' = c
    /\ stream' = IF onlineAt = 0 THEN stream
                 ELSE [stream EXCEPT ![onlineAt] = [@ EXCEPT !.lost = TRUE]]
    /\ UNCHANGED <<session, routed, mqDone, ClientSide>>

(* deliver_offline_queue(): every message gets an id and is in flight.      *)
Unpacked(s) ==
    FoldLeft(LAMBDA acc, m :
                LET f == FreeId(acc.next, acc.ids \cup acc.received)
                IN [acc EXCEPT !.next = f.next, !.ids = @ \cup {f.id},
                               !.flight = Append(@, InFlight(f.id, m, FirstAck))],
             [s EXCEPT !.offline = << >>], s.offline)

(* CONNACK, then what is in flight, then what was queued; the writes are    *)
(* awaited one by one.  A write that fails marks the connection; without    *)
(* CONNACK it ends here, and cleanup_connection() is not called.            *)
Welcome(c) ==
    LET s == Unpacked(session)
        fresh == SubSeq(s.flight, Len(session.flight) + 1, Len(s.flight))
        again == IF conn[c].present THEN AllAgain(session.flight) ELSE << >>
    IN /\ conn[c].phase = "registered"
       /\ \/ /\ stream[c].lost
             /\ \E phase \in {"gone", "serving"} :
                   conn' = [conn EXCEPT ![c].phase = phase, ![c].live = FALSE]
             /\ UNCHANGED <<session, stream>>
          \/ /\ session' = s
             /\ conn' = [conn EXCEPT ![c].phase = "serving"]
             /\ stream' = Down(stream, c,
                    <<Packet("CONNACK", IF conn[c].present THEN 1 ELSE 0, NoLetter)>>
                    \o again \o AllAgain(fresh))
       /\ UNCHANGED <<onlineAt, routed, mqDone, ClientSide>>

(* A frame of the client.  What follows the write of the answer is done     *)
(* after it, see AfterReply.                                                *)
Answering(c, t, p) == conn' = [conn EXCEPT ![c].reply = <<Packet(t, p.pid, p.msg)>>]

(* The reader is not inside a handler.                                      *)
BetweenFrames(c) == conn[c].reply = << >> /\ conn[c].rest = << >>

Handle(c) ==
    LET p == Head(stream[c].up)
    IN /\ conn[c].phase = "serving" /\ conn[c].live /\ BetweenFrames(c) /\ stream[c].up # << >>
       /\ stream' = [stream EXCEPT ![c].up = Tail(@)]
       /\ \/ /\ p.type = "PUBLISH" /\ mqPlan.qos = 1
             /\ Answering(c, "PUBACK", p)
             /\ UNCHANGED session
          \/ /\ p.type = "PUBLISH" /\ mqPlan.qos = 2
             /\ session' = [session EXCEPT !.received = @ \cup {p.pid}, !.held = Hold(@, p.pid, p.msg)]
             /\ Answering(c, "PUBREC", p)
          \/ /\ p.type \in {"PUBACK", "PUBCOMP"}
             /\ session' = [session EXCEPT !.ids = @ \ {p.pid}, !.flight = Landed(@, p.pid)]
             /\ UNCHANGED conn
          \/ /\ p.type = "PUBREC"
             /\ Answering(c, "PUBREL", p)
             /\ UNCHANGED session
          \/ /\ p.type = "PUBREL"
             /\ Answering(c, "PUBCOMP", p)
             /\ UNCHANGED session
          \/ /\ p.type = "SUBSCRIBE"
             /\ session' = [session EXCEPT !.subscribed = TRUE]
             /\ Answering(c, "SUBACK", p)
       /\ UNCHANGED <<onlineAt, routed, mqDone, ClientSide>>

OnTheWire(p) == [p EXCEPT !.msg = IF p.type = "PUBLISH" THEN @ ELSE NoLetter]

(* writer_loop(): answers go before letters.  A write that fails closes the *)
(* connection; the letter it was for is no longer in flight, unless it was  *)
(* sent again.                                                              *)
WriteReply(c) ==
    /\ conn[c].reply # << >>
    /\ stream' = Down(stream, c, <<OnTheWire(Head(conn[c].reply))>>)
    /\ \E ok \in {TRUE, ~stream[c].lost} :
          conn' = [conn EXCEPT ![c].reply = << >>, ![c].rest = conn[c].reply, ![c].live = @ /\ ok]
    /\ UNCHANGED <<session, onlineAt, routed, mqDone, ClientSide>>

(* The rest of handle_publish(), handle_pubrec() and handle_pubrel(), when  *)
(* the handler hears of its write, successful or not.                       *)
AfterReply(c) ==
    LET p == Head(conn[c].rest)
    IN /\ conn[c].rest # << >>
       /\ conn' = [conn EXCEPT ![c].rest = << >>]
       /\ session' = CASE p.type = "PUBREL" -> [session EXCEPT !.flight = AwaitComp(@, p.pid)]
                       [] p.type = "PUBCOMP" -> [session EXCEPT !.received = @ \ {p.pid},
                                                                !.held = Drop(@, p.pid)]
                       [] OTHER -> session
       /\ routed' = CASE p.type = "PUBACK" -> Append(routed, p.msg)
                      [] p.type = "PUBCOMP" /\ p.pid \in DOMAIN session.held ->
                             Append(routed, session.held[p.pid])
                      [] OTHER -> routed
       /\ UNCHANGED <<onlineAt, stream, mqDone, ClientSide>>

WriteLetter(c) ==
    LET q == Head(conn[c].queue)
    IN /\ conn[c].reply = << >> /\ conn[c].queue # << >>
       /\ \/ /\ stream' = Down(stream, c, <<Packet("PUBLISH", q.pid, q.msg)>>)
             /\ conn' = [conn EXCEPT ![c].queue = Tail(@)]
             /\ UNCHANGED session
          \/ /\ stream[c].lost
             /\ session' = IF q.again THEN session
                           ELSE [session EXCEPT !.ids = @ \ {q.pid}, !.flight = Landed(@, q.pid)]
             /\ conn' = [conn EXCEPT ![c].queue = Tail(@), ![c].live = FALSE]
             /\ UNCHANGED stream
       /\ UNCHANGED <<onlineAt, routed, mqDone, ClientSide>>

(* route_publish() of somebody's letter to the client, once sub_map_ has    *)
(* its subscription: to the registered connection, else to the queue of the *)
(* session.                                                                 *)
RouteTo(m) ==
    /\ session.subscribed /\ m \notin arrived
    /\ arrived' = arrived \cup {m}
    /\ IF onlineAt # 0 /\ conn[onlineAt].live
       THEN conn' = [conn EXCEPT ![onlineAt].box = Append(@, m)] /\ UNCHANGED session
       ELSE session' = [session EXCEPT !.offline = Append(@, m)] /\ UNCHANGED conn
    /\ UNCHANGED <<mqClient, publishing, shown, onlineAt, stream, routed, mqDone>>

(* delivery_loop(): over receive_maximum a letter goes to the queue.        *)
DeliverNext(c) ==
    LET m == Head(conn[c].box)
        f == FreeId(session.next, session.ids \cup session.received)
    IN /\ conn[c].phase = "serving" /\ conn[c].live /\ conn[c].box # << >>
       /\ ~ \E i \in DOMAIN conn[c].queue : ~conn[c].queue[i].again
       /\ \/ /\ Len(session.flight) >= mqPlan.quota
             /\ session' = [session EXCEPT !.offline = Append(@, m)]
             /\ conn' = [conn EXCEPT ![c].box = Tail(@)]
          \/ /\ Len(session.flight) < mqPlan.quota
             /\ session' = [session EXCEPT !.next = f.next, !.ids = @ \cup {f.id},
                                           !.flight = Append(@, InFlight(f.id, m, FirstAck))]
             /\ conn' = [conn EXCEPT ![c].box = Tail(@),
                                     ![c].queue = Append(@, [pid |-> f.id, msg |-> m, again |-> FALSE])]
       /\ UNCHANGED <<onlineAt, stream, routed, mqDone, ClientSide>>

(* retry_loop(): PUBLISH again, whatever is awaited; or the message is      *)
(* given up.                                                                *)
BrokerRetry(c) ==
    \E i \in DOMAIN session.flight :
        LET x == session.flight[i]
        IN /\ conn[c].phase = "serving" /\ conn[c].live
           /\ ~ \E j \in DOMAIN conn[c].queue : conn[c].queue[j].again
           /\ MqttEvent("brokerRetry")
           /\ \/ /\ conn' = [conn EXCEPT ![c].queue = Append(@, [pid |-> x.pid, msg |-> x.msg, again |-> TRUE])]
                 /\ UNCHANGED session
              \/ /\ mqDone["brokerRetry"] + 1 = mqPlan.bound["brokerRetry"]
                 /\ session' = [session EXCEPT !.ids = @ \ {x.pid}, !.flight = Landed(@, x.pid)]
                 /\ UNCHANGED conn
           /\ UNCHANGED <<onlineAt, stream, routed, ClientSide>>

(* The reader's end: of a lost connection, after handle_unexpected_         *)
(* disconnect(); of one that a failed write has marked, without it.         *)
ReaderEnds(c) ==
    /\ conn[c].phase = "serving" /\ BetweenFrames(c)
    /\ \/ /\ stream[c].lost /\ stream[c].up = << >>
          /\ conn' = [conn EXCEPT ![c].phase = "leaving", ![c].live = FALSE]
       \/ /\ ~conn[c].live
          /\ conn' = [conn EXCEPT ![c].phase = "gone"]
    /\ UNCHANGED <<session, onlineAt, stream, routed, mqDone, ClientSide>>

(* cleanup_connection(): three critical sections.                           *)
GoOffline(c) ==
    /\ conn[c].phase = "leaving"
    /\ conn' = [conn EXCEPT ![c].phase = "erasing"]
    /\ session' = [session EXCEPT !.online = FALSE]
    /\ UNCHANGED <<onlineAt, stream, routed, mqDone, ClientSide>>

Unregister(c) ==
    /\ conn[c].phase = "erasing"
    /\ conn' = [conn EXCEPT ![c].phase = "forgetting"]
    /\ onlineAt' = 0
    /\ UNCHANGED <<session, stream, routed, mqDone, ClientSide>>

Forget(c) ==
    /\ conn[c].phase = "forgetting"
    /\ conn' = [conn EXCEPT ![c].phase = "gone"]
    /\ session' = IF mqPlan.clean THEN Fresh ELSE session
    /\ UNCHANGED <<onlineAt, stream, routed, mqDone, ClientSide>>

-----------------------------------------------------------------------------
MqttStep ==
    \/ Connect \/ OnConnack \/ ConnectionLost \/ Subscribe \/ ClientDispatch \/ ClientRetry
    \/ \E m \in mqPlan.out : ClientPublish(m)
    \/ \E m \in mqPlan.inbound : RouteTo(m)
    \/ \E c \in Conns :
          \/ Cut(c) \/ Join(c) \/ TakeOver(c) \/ Welcome(c) \/ Handle(c)
          \/ WriteReply(c) \/ AfterReply(c) \/ WriteLetter(c) \/ DeliverNext(c) \/ BrokerRetry(c)
          \/ ReaderEnds(c) \/ GoOffline(c) \/ Unregister(c) \/ Forget(c)

MqttNext == MqttStep /\ UNCHANGED mqPlan

MqttSpec == MqttInit /\ [][MqttNext]_mqttVars

-----------------------------------------------------------------------------
Times(m, s) == Cardinality({i \in DOMAIN s : s[i] = m})

(* The rest of the handler that has acknowledged a letter will route it.    *)
AboutToRoute(m) ==
    \E c \in Conns : \E i \in DOMAIN conn[c].rest :
        LET p == conn[c].rest[i]
        IN \/ p.type = "PUBACK" /\ p.msg = m
           \/ p.type = "PUBCOMP" /\ p.pid \in DOMAIN session.held /\ session.held[p.pid] = m

(* A letter published at QoS 2 is routed at most once, however often it is  *)
(* sent again and the connection lost; when the session may be taken over,  *)
(* every retry of the client may cost one repetition more.  publish()       *)
(* succeeds, at QoS 1 too, only for letters that have been routed or that   *)
(* the handler which acknowledged them is about to route.                   *)
PublishedOnce ==
    \A m \in mqPlan.out :
        /\ mqPlan.qos = 2 =>
               Times(m, routed) <= 1 + (IF mqPlan.takeover THEN mqDone["clientRetry"] ELSE 0)
        /\ publishing[m].at = "ok" => m \in Range(routed) \/ AboutToRoute(m)

(* However often the connection is lost, the callback is given a QoS 2      *)
(* letter once; and once more at most for every time that the broker's      *)
(* retry loop was at work, and, when the session may be taken over, for     *)
(* every connection after the first.                                        *)
ShownOnce ==
    mqPlan.qos = 2 =>
        \A m \in Letters :
            Times(m, shown) <=
                (IF mqPlan.takeover THEN mqClient.conn ELSE 1) + mqDone["brokerRetry"]

(* The same without the exceptions (mqtt.md: "QoS 2: Exactly once").        *)
NothingTwice ==
    mqPlan.qos = 2 => \A m \in Letters : Times(m, shown) <= 1 /\ Times(m, routed) <= 1

(* A letter routed to a persistent session is shown to the client or still  *)
(* on its way: queued, in flight or with a connection that is served        *)
(* (mqtt.md: "QoS 1: At least once").                                       *)
OnItsWay ==
    Range(session.offline) \cup {session.flight[i].msg : i \in DOMAIN session.flight}
    \cup UNION {Range(conn[c].box) : c \in {d \in Conns : conn[d].phase # "gone"}}

NothingLost ==
    ~mqPlan.clean => \A m \in arrived : m \in Range(shown) \cup OnItsWay
=============================================================================
