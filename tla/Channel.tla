------------------------------- MODULE Channel -------------------------------
(***************************************************************************)
(* channel<T> (src/coro/channel.cppm): a bounded channel with waiter lists  *)
(* on both sides and direct hand-off.  Every guarded region is one action.  *)
(* co_await send()/receive() is two of them, await_ready and await_suspend; *)
(* when the coroutines run on several event loops another coroutine may act *)
(* in between, on a single loop it may not.                                 *)
(***************************************************************************)
EXTENDS Naturals, Sequences, SequencesExt

CONSTANTS
    Senders, Receivers,  \* the coroutines that call send() and receive()
    Capacities,          \* the capacities a channel may be constructed with
    MaxSends,            \* bound: values offered in all
    Loops,               \* how many event loops may run the coroutines
    Pending, Nullopt     \* result of a receive(): none yet, std::nullopt

ASSUME ChannelAssumption ==
    /\ Senders \cap Receivers = {}
    /\ Capacities \subseteq Nat /\ Loops \subseteq Nat \ {0} /\ MaxSends \in Nat
    /\ Pending \notin Nat /\ Nullopt \notin Nat /\ Pending # Nullopt

VARIABLES
    capacity,   \* capacity_, 0 for a rendezvous channel
    loops,      \* the number of event loops
    buffer,     \* the ring buffer's contents, oldest first
    sendq,      \* send_head_ .. send_tail_
    recvq,      \* recv_head_ .. recv_tail_
    closed,     \* closed_
    value,      \* value[s]: the value s is sending
    result,     \* result[r]: what the receive() of r has got
    chPc,
    offered,    \* values offered so far; a value is its serial number
    accepted,   \* history: values whose send succeeded, in that order
    delivered,  \* history: values taken out of the channel, in that order
    refused     \* history: values whose send returned false

chVars == <<capacity, loops, buffer, sendq, recvq, closed, value, result, chPc,
            offered, accepted, delivered, refused>>

Parties == Senders \cup Receivers

ChGoto(t, l) == chPc' = [chPc EXCEPT ![t] = l]

(* On one loop, nothing runs between a coroutine's await_ready() and its    *)
(* await_suspend().                                                         *)
MayRun == loops > 1 \/ \A t \in Parties : chPc[t] # "suspending"

ChInit ==
    /\ capacity \in Capacities /\ loops \in Loops
    /\ buffer = << >> /\ sendq = << >> /\ recvq = << >>
    /\ closed = FALSE
    /\ value = [s \in Senders |-> 0]
    /\ result = [r \in Receivers |-> Pending]
    /\ chPc = [t \in Parties |-> "idle"]
    /\ offered = 0
    /\ accepted = << >> /\ delivered = << >> /\ refused = {}

-----------------------------------------------------------------------------
(* A new value is offered.                                                  *)
Offer == MayRun /\ offered < MaxSends /\ offered' = offered + 1

(* Sending side, channel open: hand the values to the first waiting         *)
(* receivers and push the rest, as far as there is room.                    *)
CanAccept == Len(recvq) + (IF capacity > Len(buffer) THEN capacity - Len(buffer) ELSE 0)

Accept(vs) ==
    LET k == IF Len(vs) <= Len(recvq) THEN Len(vs) ELSE Len(recvq)
        handed == SubSeq(vs, 1, k)
        pushed == SubSeq(vs, k + 1, Len(vs))
        Index(r) == CHOOSE i \in 1 .. Len(recvq) : recvq[i] = r
        Served(r) == Contains(SubSeq(recvq, 1, k), r)
    IN /\ recvq' = SubSeq(recvq, k + 1, Len(recvq))
       /\ buffer' = buffer \o pushed
       /\ result' = [r \in Receivers |-> IF Served(r) THEN vs[Index(r)] ELSE result[r]]
       /\ chPc' = [t \in Parties |-> IF t \in Receivers /\ Served(t) THEN "granted" ELSE chPc[t]]
       /\ accepted' = accepted \o vs
       /\ delivered' = delivered \o handed

(* send(): await_ready().                                                   *)
SendReady(s) ==
    /\ chPc[s] = "idle"
    /\ Offer
    /\ value' = [value EXCEPT ![s] = offered + 1]
    /\ \/ /\ closed
          /\ refused' = refused \cup {offered + 1}
          /\ UNCHANGED <<buffer, recvq, result, chPc, accepted, delivered>>
       \/ /\ ~closed /\ CanAccept > 0
          /\ Accept(<<offered + 1>>)
          /\ UNCHANGED refused
       \/ /\ ~closed /\ CanAccept = 0
          /\ ChGoto(s, "suspending")
          /\ UNCHANGED <<buffer, recvq, result, accepted, delivered, refused>>
    /\ UNCHANGED <<sendq, closed>>

(* send(): await_suspend() looks again at closed_ only.                     *)
SendSuspend(s) ==
    /\ chPc[s] = "suspending"
    /\ IF closed
       THEN ChGoto(s, "idle") /\ refused' = refused \cup {value[s]} /\ UNCHANGED sendq
       ELSE ChGoto(s, "waiting") /\ sendq' = Append(sendq, s) /\ UNCHANGED refused
    /\ UNCHANGED <<buffer, recvq, closed, value, result, offered, accepted, delivered>>

(* try_send(), try_send_move(), try_send_deferred() (n = 1) and             *)
(* try_send_many_move(): accept as many as fit, in order.                   *)
TrySend(n) ==
    /\ MayRun
    /\ offered + n <= MaxSends
    /\ offered' = offered + n
    /\ LET batch == [i \in 1 .. n |-> offered + i]
           k == IF closed THEN 0 ELSE IF n <= CanAccept THEN n ELSE CanAccept
       IN /\ Accept(SubSeq(batch, 1, k))
          /\ refused' = refused \cup (offered + k + 1) .. (offered + n)
    /\ UNCHANGED <<sendq, closed, value>>

-----------------------------------------------------------------------------
(* Receiving side: the first n values leave the buffer and waiting senders  *)
(* refill it.                                                               *)
ChDrain(n) ==
    LET left == SubSeq(buffer, n + 1, Len(buffer))
        room == capacity - Len(left)
        k == IF Len(sendq) <= room THEN Len(sendq) ELSE room
        refill == [i \in 1 .. k |-> value[sendq[i]]]
    IN /\ buffer' = left \o refill
       /\ sendq' = SubSeq(sendq, k + 1, Len(sendq))
       /\ chPc' = [t \in Parties |-> IF Contains(SubSeq(sendq, 1, k), t) THEN "granted" ELSE chPc[t]]
       /\ accepted' = accepted \o refill
       /\ delivered' = delivered \o SubSeq(buffer, 1, n)

(* Fault: serving a waiting sender ahead of the buffer.                     *)
PopSenderFirst ==
    IF sendq = << >>
    THEN /\ delivered' = Append(delivered, Head(buffer))
         /\ buffer' = Tail(buffer)
         /\ UNCHANGED <<sendq, accepted, chPc>>
    ELSE /\ delivered' = Append(delivered, value[Head(sendq)])
         /\ accepted' = Append(accepted, value[Head(sendq)])
         /\ sendq' = Tail(sendq)
         /\ ChGoto(Head(sendq), "granted")
         /\ UNCHANGED buffer

(* The oldest value leaves the buffer and at most one waiting sender takes  *)
(* its place.                                                               *)
PopAndRefill ==
    /\ delivered' = Append(delivered, Head(buffer))
    /\ IF sendq = << >>
       THEN buffer' = Tail(buffer) /\ UNCHANGED <<sendq, accepted, chPc>>
       ELSE /\ buffer' = Append(Tail(buffer), value[Head(sendq)])
            /\ sendq' = Tail(sendq)
            /\ accepted' = Append(accepted, value[Head(sendq)])
            /\ ChGoto(Head(sendq), "granted")

(* Buffer empty: take the value straight from the first waiting sender.     *)
TakeFromSender ==
    LET v == value[Head(sendq)]
    IN /\ sendq' = Tail(sendq)
       /\ accepted' = Append(accepted, v)
       /\ delivered' = Append(delivered, v)
       /\ ChGoto(Head(sendq), "granted")
       /\ UNCHANGED buffer

(* receive(): await_ready().                                                *)
RecvReady(r) ==
    /\ chPc[r] = "idle" /\ MayRun
    /\ \/ /\ buffer # << >>
          /\ PopAndRefill
          /\ result' = [result EXCEPT ![r] = Head(buffer)]
       \/ /\ buffer = << >> /\ sendq # << >>
          /\ TakeFromSender
          /\ result' = [result EXCEPT ![r] = value[Head(sendq)]]
       \/ /\ buffer = << >> /\ sendq = << >> /\ closed
          /\ result' = [result EXCEPT ![r] = Nullopt]
          /\ UNCHANGED <<buffer, sendq, chPc, accepted, delivered>>
       \/ /\ buffer = << >> /\ sendq = << >> /\ ~closed
          /\ ChGoto(r, "suspending")
          /\ result' = [result EXCEPT ![r] = Pending]
          /\ UNCHANGED <<buffer, sendq, accepted, delivered>>
    /\ UNCHANGED <<recvq, closed, value, offered, refused>>

(* receive(): await_suspend() looks again at closed_ only.                  *)
RecvSuspend(r) ==
    /\ chPc[r] = "suspending"
    /\ IF closed
       THEN /\ ChGoto(r, "idle")
            /\ result' = [result EXCEPT ![r] = Nullopt]
            /\ UNCHANGED recvq
       ELSE /\ ChGoto(r, "waiting")
            /\ recvq' = Append(recvq, r)
            /\ UNCHANGED result
    /\ UNCHANGED <<buffer, sendq, closed, value, offered, accepted, delivered, refused>>

(* try_receive(); with direct = FALSE try_receive_buffered_refill(), which  *)
(* never takes a value straight from a sender.                              *)
TryReceive(direct) ==
    /\ MayRun
    /\ \/ buffer # << >> /\ PopAndRefill
       \/ direct /\ buffer = << >> /\ sendq # << >> /\ TakeFromSender
    /\ UNCHANGED <<recvq, closed, value, result, offered, refused>>

(* try_receive_many(): up to n buffered values, then refill all free slots. *)
TryReceiveMany(n) ==
    /\ MayRun
    /\ ChDrain(IF n <= Len(buffer) THEN n ELSE Len(buffer))
    /\ UNCHANGED <<recvq, closed, value, result, offered, refused>>

-----------------------------------------------------------------------------
(* Every waiter is resumed empty-handed.                                    *)
DismissWaiters ==
    /\ recvq' = << >>
    /\ refused' = refused \cup {value[s] : s \in {t \in Senders : Contains(sendq, t)}}
    /\ result' = [r \in Receivers |-> IF Contains(recvq, r) THEN Nullopt ELSE result[r]]
    /\ chPc' = [t \in Parties |-> IF Contains(sendq, t) \/ Contains(recvq, t)
                              THEN "granted" ELSE chPc[t]]
    /\ UNCHANGED <<buffer, value, offered, accepted, delivered>>

(* Faults: closed_ is not set; the list of senders is not emptied.          *)
CloseStaysOpen == MayRun /\ ~closed /\ UNCHANGED closed /\ sendq' = << >> /\ DismissWaiters
CloseKeepsSenders == MayRun /\ ~closed /\ closed' = TRUE /\ UNCHANGED sendq /\ DismissWaiters

(* close(): steal both lists and resume everybody.                          *)
Close ==
    /\ MayRun
    /\ ~closed
    /\ closed' = TRUE
    /\ sendq' = << >>
    /\ DismissWaiters

(* reopen(): the owner, alone with a closed channel nobody waits on, throws *)
(* away what is left in the buffer.                                         *)
Reopen ==
    /\ MayRun
    /\ closed
    /\ \A t \in Parties : chPc[t] = "idle"
    /\ sendq = << >> /\ recvq = << >>
    /\ closed' = FALSE
    /\ buffer' = << >>
    /\ accepted' = delivered
    /\ UNCHANGED <<sendq, recvq, value, result, chPc, offered, delivered, refused>>

(* resume_waiter(): after the guarded region the waiter is resumed here, or *)
(* posted, or (pending_resumption) resumed when the caller says so.         *)
Resume(t) ==
    /\ chPc[t] = "granted"
    /\ MayRun
    /\ ChGoto(t, "idle")
    /\ UNCHANGED <<buffer, sendq, recvq, closed, value, result, offered,
                   accepted, delivered, refused>>

-----------------------------------------------------------------------------
ChStep ==
    \/ \E s \in Senders : SendReady(s) \/ SendSuspend(s)
    \/ \E r \in Receivers : RecvReady(r) \/ RecvSuspend(r)
    \/ \E n \in 1 .. MaxSends : TrySend(n)
    \/ \E direct \in BOOLEAN : TryReceive(direct)
    \/ \E n \in 1 .. capacity : TryReceiveMany(n)
    \/ Close \/ Reopen
    \/ \E t \in Parties : Resume(t)

ChNext == ChStep /\ UNCHANGED <<capacity, loops>>

ChSpec == ChInit /\ [][ChNext]_chVars

-----------------------------------------------------------------------------
(* The invariants the class documents (channel.cppm:23-25), that nobody     *)
(* waits for a partner that waits as well, and that the ring buffer is not  *)
(* overrun.                                                                 *)
DocumentedInvariants ==
    /\ recvq # << >> => buffer = << >>
    /\ sendq # << >> => Len(buffer) = capacity
    /\ recvq = << >> \/ sendq = << >>
    /\ Len(buffer) <= capacity

(* On one loop the channel is the bounded FIFO queue it documents: the      *)
(* invariants hold, and what was accepted has been delivered or is          *)
(* buffered, in the order of acceptance.                                    *)
FifoDelivery == loops = 1 => DocumentedInvariants /\ accepted = delivered \o buffer

(* On any number of loops: a value whose send succeeded is delivered or     *)
(* buffered exactly once, and one whose send failed never is.               *)
ExactlyOnce ==
    /\ IsInjective(delivered \o buffer)
    /\ ToSet(accepted) = ToSet(delivered \o buffer)
    /\ ToSet(accepted) \cap refused = {}

(* "returns nullopt if closed and drained" (channel.cppm:530): on one loop  *)
(* a receive() that comes back empty leaves no value behind.                *)
NulloptOnlyWhenDrained ==
    [][\A r \in Receivers :
          loops = 1 /\ result'[r] = Nullopt /\ (result[r] # Nullopt \/ chPc[r] = "suspending")
              => closed' /\ buffer = << >>]_chVars
=============================================================================
