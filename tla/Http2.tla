------------------------------- MODULE Http2 -------------------------------
(***************************************************************************)
(* The HTTP/2 server session (src/protocol/http/v2/session.cpp, stream.cpp, *)
(* flow_control.cpp) as http_server.cpp runs it, with a borrowed streaming  *)
(* handler: flow control in both directions, the reader that blocks while   *)
(* it dispatches, the tasks of the background group and the writer lock.    *)
(*                                                                          *)
(* Everything runs on the loop of the connection; an action is what runs    *)
(* between two suspensions.  Bytes are counted in units.  The frames that   *)
(* one call of queue_response_data() cuts at max_frame_size are one frame.  *)
(* The peer is external: it keeps to RFC 9113.                              *)
(***************************************************************************)
EXTENDS Integers, Sequences, FiniteSets, FiniteSetsExt, SequencesExt, Functions

CONSTANTS
    StreamIds,     \* the requests of the peer, opened in this order
    Window,        \* the initial size of every window
    Http2Setups    \* the uses of the session: a set of records
                   \*   bodies: may a request have a body, for each stream
                   \*   routes: {"streaming", "buffered"} for requests with one
                   \*   limit: a buffered body larger than this is streamed
                   \*   answers: {"plain", "source"}, sizes: units of a response
                   \*   sends: units of a request body
                   \*   windows: what SETTINGS may make of the initial window
                   \*   resets: the streams the peer may reset
                   \*   early: it may extend the window of a stream before any
                   \*          DATA while it is "open", or when it is "done"

H2Uses ==
    [bodies : [StreamIds -> SUBSET BOOLEAN], routes : SUBSET {"streaming", "buffered"},
     limit : Nat, answers : SUBSET {"plain", "source"}, sizes : SUBSET Nat, sends : Nat,
     windows : SUBSET Nat, resets : SUBSET StreamIds, early : SUBSET {"open", "done"}]

ASSUME H2Assumption ==
    /\ IsFiniteSet(StreamIds) /\ StreamIds \subseteq Nat \ {0}
    /\ Window \in Nat /\ Http2Setups \subseteq H2Uses

VARIABLES
    plan,        \* the setup
    srv,         \* [initial, sendW, recvW, streams, pending, out] of the session
    ready,       \* ready_requests_, or what dispatch_ready() took from it
    dispatching, \* dispatch_ready() is running
    batchCredit, \* consumed_connection_credit
    unread,      \* unread[id]: body units received and not consumed
    credits,     \* pending_flow_credit_, summed for each stream
    work,        \* work[id]: the background task that answers a stream
    writer,      \* who holds writer_mutex_: Free, the task of a stream, Another
    ended,       \* run() has returned after an error
    up, down,    \* the frames on the wire, in the two directions
    peer         \* the peer's windows and the states of its streams

h2Vars == <<plan, srv, ready, dispatching, batchCredit, unread, credits, work, writer, ended,
            up, down, peer>>

Free == 0
Another == -1

Live == DOMAIN srv.streams
Frame(type, id, n, end) == [type |-> type, id |-> id, n |-> n, end |-> end]
Without(map, id) == Restrict(map, DOMAIN map \ {id})
With(map, id, value) == [k \in DOMAIN map \cup {id} |-> IF k = id THEN value ELSE map[k]]

(* The units of the frames of a type for a stream (0: the connection).      *)
Units(frames, type, id) ==
    SumFunction([i \in DOMAIN frames |->
        IF frames[i].type = type /\ frames[i].id = id THEN frames[i].n ELSE 0])

H2Init ==
    /\ plan \in Http2Setups
    /\ srv = [initial |-> Window, sendW |-> Window, recvW |-> Window,
              streams |-> << >>, pending |-> << >>, out |-> << >>]
    /\ ready = << >> /\ dispatching = FALSE /\ batchCredit = 0
    /\ unread = [id \in StreamIds |-> 0] /\ credits = [id \in StreamIds |-> 0]
    /\ work = [id \in StreamIds |-> [at |-> "none", left |-> 0]]
    /\ writer = Free /\ ended = FALSE
    /\ up = << >> /\ down = << >>
    /\ peer = [initial |-> Window, sendW |-> Window, recvW |-> Window, changed |-> FALSE,
               streams |-> [id \in StreamIds |->
                   [at |-> "idle", sendW |-> Window, recvW |-> Window, left |-> plan.sends,
                    answered |-> FALSE]]]

NewStream(s, open) ==
    [sendW |-> s.initial, recvW |-> Window, open |-> open, streaming |-> FALSE]

-----------------------------------------------------------------------------
(* Sending.  queue_response_data(): as much as both windows allow.          *)
StreamWindow(s, id) == IF id \in DOMAIN s.streams THEN s.streams[id].sendW ELSE s.initial
Allowed(s, id, left) == Max({0, Min({left, s.sendW, StreamWindow(s, id)})})

QueueData(s, id, n, end) ==
    [s EXCEPT !.sendW = @ - n,
              !.streams = IF id \in DOMAIN s.streams THEN [s.streams EXCEPT ![id].sendW = @ - n]
                          ELSE s.streams,
              !.out = IF n > 0 THEN Append(@, Frame("DATA", id, n, end)) ELSE @]

(* queue_response(): what does not fit stays as a pending response, and a   *)
(* request that had no stream gets one then.                                *)
QueueResponse(s, id, left, detached) ==
    LET headed == [s EXCEPT !.out = Append(@, Frame("HEADERS", id, 0, left = 0))]
        n == Allowed(s, id, left)
        sent == QueueData(headed, id, n, n = left)
        opened == [NewStream(s, FALSE) EXCEPT !.sendW = @ - n]
    IN IF ~detached /\ id \notin DOMAIN s.streams THEN s
       ELSE IF n = left THEN [sent EXCEPT !.streams = Without(@, id)]
       ELSE [sent EXCEPT !.streams = IF id \in DOMAIN @ THEN @ ELSE With(@, id, opened),
                         !.pending = With(@, id, left - n)]

DrainOne(id, s) ==
    LET n == Allowed(s, id, s.pending[id])
        sent == QueueData(s, id, n, n = s.pending[id])
    IN IF n = s.pending[id]
       THEN [sent EXCEPT !.streams = Without(@, id), !.pending = Without(@, id)]
       ELSE [sent EXCEPT !.pending[id] = @ - n]

(* drain_pending_responses(), in whatever order the map has.                *)
Drained(s) == {FoldSeq(DrainOne, s, order) : order \in SetToSeqs(DOMAIN s.pending)}

(* The writer lock is taken for `who`, and write_outbound_locked() hands    *)
(* everything queued to the transport; it is held until that has finished.  *)
Write(who, s) ==
    /\ writer = Free /\ writer' = who
    /\ down' = down \o s.out
    /\ srv' = [s EXCEPT !.out = << >>]

Written ==
    /\ writer # Free /\ writer' = Free
    /\ UNCHANGED <<srv, ready, dispatching, batchCredit, unread, credits, work, ended, up, down, peer>>

(* flush_outbound(), from the task of flush_batched_outbound() or run().    *)
Flush ==
    /\ srv.out # << >> /\ Write(Another, srv)
    /\ UNCHANGED <<ready, dispatching, batchCredit, unread, credits, work, ended, up, peer>>

-----------------------------------------------------------------------------
(* The tasks of the background group.  They run while the reader waits for  *)
(* the transport or, inside dispatch_ready(), for a handler.                *)
At(id, at) == work' = [work EXCEPT ![id].at = at]
Suspended == dispatching \/ ready = << >>

(* The handler reads its body: schedule_flow_credit().                      *)
Consume(id) ==
    /\ Suspended /\ work[id].at = "handling" /\ unread[id] > 0
    /\ unread' = [unread EXCEPT ![id] = @ - 1]
    /\ credits' = [credits EXCEPT ![id] = @ + 1]
    /\ UNCHANGED <<srv, ready, dispatching, batchCredit, work, writer, ended, up, down, peer>>

(* The handler returns: write_response() begins, if the stream still is.    *)
Answer(id) ==
    /\ Suspended /\ work[id].at = "handling"
    /\ \E left \in plan.sizes, at \in plan.answers :
          work' = [work EXCEPT ![id] = IF id \in Live THEN [at |-> at, left |-> left]
                                       ELSE [at |-> "none", left |-> 0]]
    /\ UNCHANGED <<srv, ready, dispatching, batchCredit, unread, credits, writer, ended, up, down, peer>>

WritePlain(id) ==
    /\ Suspended /\ work[id].at = "plain"
    /\ Write(id, QueueResponse(srv, id, work[id].left, FALSE))
    /\ work' = [work EXCEPT ![id] = [at |-> "none", left |-> 0]]
    /\ UNCHANGED <<ready, dispatching, batchCredit, unread, credits, ended, up, peer>>

WriteHeaders(id) ==
    /\ Suspended /\ work[id].at = "source"
    /\ Write(id, [srv EXCEPT !.out = Append(@, Frame("HEADERS", id, 0, FALSE))])
    /\ At(id, "body")
    /\ UNCHANGED <<ready, dispatching, batchCredit, unread, credits, ended, up, peer>>

(* A chunk of the source; with a window closed the task polls for 1 ms.     *)
WriteChunk(id) ==
    LET n == Allowed(srv, id, work[id].left)
    IN /\ Suspended /\ work[id].at = "body" /\ writer # id /\ id \in Live /\ n > 0
       /\ Write(id, QueueData(srv, id, n, FALSE))
       /\ work' = [work EXCEPT ![id].left = @ - n]
       /\ UNCHANGED <<ready, dispatching, batchCredit, unread, credits, ended, up, peer>>

(* The stream was reset: the rest of the source is dropped.                 *)
GiveUp(id) ==
    /\ Suspended /\ work[id].at = "body" /\ writer # id /\ id \notin Live /\ work[id].left > 0
    /\ work' = [work EXCEPT ![id] = [at |-> "none", left |-> 0]]
    /\ UNCHANGED <<srv, ready, dispatching, batchCredit, unread, credits, writer, ended, up, down, peer>>

WriteEnd(id) ==
    /\ Suspended /\ work[id].at = "body" /\ work[id].left = 0
    /\ Write(id, [srv EXCEPT !.out = Append(@, Frame("DATA", id, 0, TRUE))])
    /\ At(id, "closing")
    /\ UNCHANGED <<ready, dispatching, batchCredit, unread, credits, ended, up, peer>>

Erase(id) ==
    /\ Suspended /\ work[id].at = "closing" /\ writer # id
    /\ srv' = [srv EXCEPT !.streams = Without(@, id)]
    /\ At(id, "none")
    /\ UNCHANGED <<ready, dispatching, batchCredit, unread, credits, writer, ended, up, down, peer>>

(* Fault: what was consumed from a stream that is gone is not returned.     *)
CreditableLive == {id \in StreamIds : credits[id] > 0 /\ id \in Live}

Creditable == {id \in StreamIds : credits[id] > 0}

(* return_flow_credit(): to the streams that remain, and the connection.    *)
ReturnFlowCredit ==
    LET live == {id \in Creditable : id \in Live}
        total == SumFunctionOnSet(credits, Creditable)
        update(id) == Frame("WINDOW_UPDATE", id, credits[id], FALSE)
        updates == [i \in 1 .. Cardinality(live) |-> update(SetToSeq(live)[i])]
        streams == [id \in Live |-> [srv.streams[id] EXCEPT
                                        !.recvW = @ + (IF id \in live THEN credits[id] ELSE 0)]]
    IN /\ Suspended /\ \E id \in StreamIds : credits[id] > 0
       /\ Write(Another, [srv EXCEPT !.recvW = @ + total, !.streams = streams,
                              !.out = (@ \o updates) \o <<Frame("WINDOW_UPDATE", 0, total, FALSE)>>])
       /\ credits' = [id \in StreamIds |-> 0]
       /\ UNCHANGED <<ready, dispatching, batchCredit, unread, work, ended, up, peer>>

-----------------------------------------------------------------------------
(* dispatch_ready(): one request at a time; the handler may suspend it.     *)
BeginDispatch ==
    /\ ready # << >> /\ ~dispatching
    /\ dispatching' = TRUE
    /\ UNCHANGED <<srv, ready, batchCredit, unread, credits, work, writer, ended, up, down, peer>>

(* A complete body: a synchronous route has consumed it, and the credit of  *)
(* the connection is returned with the batch; any other handler becomes a   *)
(* child, which owns the bytes.                                             *)
DispatchBody(id) ==
    \/ /\ batchCredit' = batchCredit + unread[id]
       /\ \E left \in plan.sizes :
             \/ /\ "plain" \in plan.answers
                /\ srv' = QueueResponse(srv, id, left, FALSE)
                /\ UNCHANGED work
             \/ /\ "source" \in plan.answers
                /\ work' = [work EXCEPT ![id] = [at |-> "source", left |-> left]]
                /\ UNCHANGED srv
       /\ UNCHANGED credits
    \/ /\ credits' = [credits EXCEPT ![id] = @ + unread[id]]
       /\ At(id, "handling")
       /\ UNCHANGED <<srv, batchCredit>>

(* No body: the handler answers here.  A source needs a stream to write to. *)
DispatchBare(id, detached) ==
    /\ \E left \in plan.sizes :
          \/ /\ "plain" \in plan.answers
             /\ srv' = QueueResponse(srv, id, left, detached)
             /\ UNCHANGED work
          \/ /\ "source" \in plan.answers
             /\ srv' = IF detached THEN [srv EXCEPT !.streams = With(@, id, NewStream(srv, FALSE))]
                       ELSE srv
             /\ work' = [work EXCEPT ![id] = [at |-> "source", left |-> left]]
    /\ UNCHANGED <<credits, batchCredit>>

DispatchOne ==
    LET id == Head(ready).id
    IN /\ dispatching /\ ready # << >>
       /\ ready' = Tail(ready)
       /\ IF unread[id] > 0 THEN DispatchBody(id) ELSE DispatchBare(id, Head(ready).detached)
       /\ unread' = [unread EXCEPT ![id] = 0]
       /\ UNCHANGED <<dispatching, writer, ended, up, down, peer>>

(* Fault: the window grows and the peer is not told.                        *)
EndDispatchSilently ==
    /\ dispatching /\ ready = << >>
    /\ dispatching' = FALSE /\ batchCredit' = 0
    /\ srv' = [srv EXCEPT !.recvW = @ + batchCredit]
    /\ UNCHANGED <<ready, unread, credits, work, writer, ended, up, down, peer>>

EndDispatch ==
    /\ dispatching /\ ready = << >>
    /\ dispatching' = FALSE /\ batchCredit' = 0
    /\ srv' = IF batchCredit = 0 THEN srv
              ELSE [srv EXCEPT !.recvW = @ + batchCredit,
                               !.out = Append(@, Frame("WINDOW_UPDATE", 0, batchCredit, FALSE))]
    /\ UNCHANGED <<ready, unread, credits, work, writer, ended, up, down, peer>>

-----------------------------------------------------------------------------
(* process_frame(), one operator for each type of frame.                    *)

(* Fault: the pending responses are not looked at.                          *)
OnSettingsOnly(f) ==
    LET s == [srv EXCEPT !.initial = f.n,
                 !.streams = [id \in Live |-> [srv.streams[id] EXCEPT !.sendW = @ + f.n - srv.initial]]]
    IN /\ srv' = s
       /\ UNCHANGED <<ready, unread, work, ended>>

(* Every open stream moves by the difference, below zero if need be.        *)
OnSettings(f) ==
    LET s == [srv EXCEPT !.initial = f.n,
                 !.streams = [id \in Live |-> [srv.streams[id] EXCEPT !.sendW = @ + f.n - srv.initial]]]
    IN /\ srv' \in Drained(s)
       /\ UNCHANGED <<ready, unread, work, ended>>

(* A request without a body needs no stream.  One with a body starts its    *)
(* handler, unless the route buffers complete requests.                     *)
OnHeaders(f) ==
    /\ UNCHANGED <<unread, ended>>
    /\ \/ /\ f.end
          /\ ready' = Append(ready, [id |-> f.id, detached |-> TRUE])
          /\ UNCHANGED <<srv, work>>
       \/ /\ ~f.end
          /\ \E route \in plan.routes :
                /\ srv' = [srv EXCEPT !.streams = With(@, f.id,
                              [NewStream(srv, TRUE) EXCEPT !.streaming = route = "streaming"])]
                /\ IF route = "streaming" THEN At(f.id, "handling") ELSE UNCHANGED work
          /\ UNCHANGED ready

Acceptable(f) ==
    /\ f.id \in Live /\ srv.streams[f.id].open
    /\ f.n <= srv.recvW /\ f.n <= srv.streams[f.id].recvW

(* DATA beyond a window, or for a stream that is not open: run() ends; as   *)
(* it does when body_stream_->push() refuses a chunk, because too many wait *)
(* or the body has become too long.  A buffered body that grows too large   *)
(* is streamed from here on.                                                *)
OnData(f) ==
    LET starts == ~srv.streams[f.id].streaming /\ unread[f.id] + f.n > plan.limit
        streaming == srv.streams[f.id].streaming \/ starts
    IN \/ /\ Acceptable(f) => streaming
          /\ ended' = TRUE
          /\ UNCHANGED <<srv, ready, unread, work>>
       \/ /\ Acceptable(f)
          /\ srv' = [srv EXCEPT !.recvW = @ - f.n,
                        !.streams[f.id] = [srv.streams[f.id] EXCEPT
                            !.recvW = @ - f.n, !.open = ~f.end, !.streaming = streaming]]
          /\ unread' = [unread EXCEPT ![f.id] = @ + f.n]
          /\ ready' = IF f.end /\ ~streaming
                      THEN Append(ready, [id |-> f.id, detached |-> FALSE]) ELSE ready
          /\ IF starts THEN At(f.id, "handling") ELSE UNCHANGED work
          /\ UNCHANGED ended

(* An update for a stream that has been retired is dropped.                 *)
OnWindowUpdate(f) ==
    LET s == IF f.id = 0 THEN [srv EXCEPT !.sendW = @ + f.n]
             ELSE IF f.id \in Live THEN [srv EXCEPT !.streams[f.id].sendW = @ + f.n]
             ELSE srv
    IN /\ srv' \in Drained(s)
       /\ UNCHANGED <<ready, unread, work, ended>>

(* std::erase_if() of what is queued for a stream.                          *)
Erased(queue, id) ==
    LET kept[n \in 0 .. Len(queue)] ==
            IF n = 0 THEN << >>
            ELSE IF queue[n].id = id THEN kept[n - 1] ELSE Append(kept[n - 1], queue[n])
    IN kept[Len(queue)]

(* The handler of a stream that was reset goes on; its body is closed.      *)
OnReset(f) ==
    /\ srv' = [srv EXCEPT !.streams = Without(@, f.id), !.pending = Without(@, f.id)]
    /\ ready' = Erased(ready, f.id)
    /\ UNCHANGED <<unread, work, ended>>

(* The reader takes the next frame of a read.                               *)
Receive ==
    /\ ~dispatching /\ up # << >>
    /\ up' = Tail(up)
    /\ LET f == Head(up)
       IN \/ f.type = "SETTINGS" /\ OnSettings(f)
          \/ f.type = "HEADERS" /\ OnHeaders(f)
          \/ f.type = "DATA" /\ OnData(f)
          \/ f.type = "WINDOW_UPDATE" /\ OnWindowUpdate(f)
          \/ f.type = "RST_STREAM" /\ OnReset(f)
    /\ UNCHANGED <<dispatching, batchCredit, credits, writer, down, peer>>

-----------------------------------------------------------------------------
(* The peer.                                                                *)
PeerOnly == UNCHANGED <<srv, ready, dispatching, batchCredit, unread, credits, work, writer, ended>>

PeerRequests(id) ==
    /\ peer.streams[id].at = "idle"
    /\ \A k \in StreamIds : k < id => peer.streams[k].at # "idle"
    /\ \E body \in plan.bodies[id] :
          /\ up' = Append(up, Frame("HEADERS", id, 0, ~body))
          /\ peer' = [peer EXCEPT !.streams[id].at = IF body THEN "open" ELSE "done",
                                  !.streams[id].recvW = peer.initial]
    /\ PeerOnly /\ UNCHANGED down

PeerSends(id) ==
    LET st == peer.streams[id]
    IN /\ st.at = "open"
       /\ \E n \in {0, 1}, end \in BOOLEAN :
             /\ n <= Min({st.left, st.sendW, peer.sendW}) /\ (n = 0 => end)
             /\ up' = Append(up, Frame("DATA", id, n, end))
             /\ peer' = [peer EXCEPT !.sendW = @ - n,
                            !.streams[id] = [st EXCEPT !.sendW = @ - n, !.left = @ - n,
                                                       !.at = IF end THEN "done" ELSE "open"]]
       /\ PeerOnly /\ UNCHANGED down

PeerResets(id) ==
    /\ id \in plan.resets /\ peer.streams[id].at \in {"open", "done"} /\ ~peer.streams[id].answered
    /\ up' = Append(up, Frame("RST_STREAM", id, 0, TRUE))
    /\ peer' = [peer EXCEPT !.streams[id].at = "reset"]
    /\ PeerOnly /\ UNCHANGED down

PeerChangesWindow ==
    /\ ~peer.changed
    /\ \E n \in plan.windows :
          /\ up' = Append(up, Frame("SETTINGS", 0, n, FALSE))
          /\ peer' = [peer EXCEPT !.initial = n, !.changed = TRUE,
                         !.streams = [id \in StreamIds |->
                             [peer.streams[id] EXCEPT !.recvW = @ + n - peer.initial]]]
    /\ PeerOnly /\ UNCHANGED down

PeerExtends(id) ==
    /\ peer.streams[id].at \in plan.early /\ peer.streams[id].recvW = peer.initial
    /\ ~peer.streams[id].answered
    /\ up' = Append(up, Frame("WINDOW_UPDATE", id, 1, FALSE))
    /\ peer' = [peer EXCEPT !.streams[id].recvW = @ + 1]
    /\ PeerOnly /\ UNCHANGED down

(* DATA is consumed at once and its credit goes back to the connection; the *)
(* peer may keep back that of the stream.                                   *)
PeerTakes(f, extend) ==
    LET back == f.type = "DATA" /\ f.n > 0
        more == back /\ extend /\ ~f.end /\ peer.streams[f.id].at # "reset"
    IN /\ up' = up \o (IF back THEN <<Frame("WINDOW_UPDATE", 0, f.n, FALSE)>> ELSE << >>)
                   \o (IF more THEN <<Frame("WINDOW_UPDATE", f.id, f.n, FALSE)>> ELSE << >>)
       /\ peer' = IF f.type = "WINDOW_UPDATE"
                  THEN IF f.id = 0 THEN [peer EXCEPT !.sendW = @ + f.n]
                       ELSE [peer EXCEPT !.streams[f.id].sendW = @ + f.n]
                  ELSE [peer EXCEPT !.streams[f.id].recvW = @ - (IF more THEN 0 ELSE f.n),
                                    !.streams[f.id].answered = @ \/ f.end]

PeerReceives ==
    /\ down # << >> /\ down' = Tail(down)
    /\ \E extend \in BOOLEAN : PeerTakes(Head(down), extend)
    /\ PeerOnly

Background(id) ==
    \/ Consume(id) \/ Answer(id) \/ WritePlain(id) \/ WriteHeaders(id)
    \/ WriteChunk(id) \/ GiveUp(id) \/ WriteEnd(id) \/ Erase(id)

Peer(id) == PeerRequests(id) \/ PeerSends(id) \/ PeerResets(id) \/ PeerExtends(id)

H2Next ==
    /\ ~ended /\ UNCHANGED plan
    /\ \/ \E id \in StreamIds : Background(id) \/ Peer(id)
       \/ ReturnFlowCredit \/ Flush \/ Written
       \/ BeginDispatch \/ DispatchOne \/ EndDispatch \/ Receive
       \/ PeerChangesWindow \/ PeerReceives

H2Spec == H2Init /\ [][H2Next]_h2Vars

-----------------------------------------------------------------------------
Sending == down \o srv.out

(* A request the server has not begun to answer.                            *)
Unanswered(id) ==
    \/ \E i \in DOMAIN up : up[i].type = "HEADERS" /\ up[i].id = id
    \/ \E i \in DOMAIN ready : ready[i].id = id

(* The two ends agree on every window, up to what is on the wire: the      *)
(* session charges what it sends, tells the peer what it returns, and keeps *)
(* both across SETTINGS, resets and responses that wait.                    *)
WindowsAgree ==
    LET changing == \E i \in DOMAIN up : up[i].type = "SETTINGS"
        delta == IF changing THEN peer.initial - srv.initial ELSE 0
    IN ~ended =>
       /\ srv.sendW + SumFunction([id \in StreamIds |->
              Units(Sending, "DATA", id)]) + Units(up, "WINDOW_UPDATE", 0) = peer.recvW
       /\ peer.sendW + Units(Sending, "WINDOW_UPDATE", 0)
              + SumFunction([id \in StreamIds |-> Units(up, "DATA", id)]) = srv.recvW
       /\ \A id \in StreamIds :
             /\ id \in Live \/ Unanswered(id) =>
                   StreamWindow(srv, id) + delta + Units(Sending, "DATA", id)
                       + Units(up, "WINDOW_UPDATE", id) = peer.streams[id].recvW
             /\ id \in Live /\ srv.streams[id].open =>
                   peer.streams[id].sendW + Units(Sending, "WINDOW_UPDATE", id)
                       + Units(up, "DATA", id) = srv.streams[id].recvW

(* A response waits only while a window is closed: whatever opens one also  *)
(* resumes every response it can.                                           *)
NoIdleWindow ==
    ~ended => \A id \in DOMAIN srv.pending : srv.sendW <= 0 \/ srv.streams[id].sendW <= 0

(* The connection's receive window is short of exactly the body units that  *)
(* are unread, or read and on their way back, whatever became of streams.   *)
CreditConserved ==
    srv.recvW + SumFunction(unread) + SumFunction(credits) + batchCredit = Window
=============================================================================
