----------------------------- MODULE CancelToken -----------------------------
(***************************************************************************)
(* cancel_token (src/coro/cancel.cppm, cancel_impl.cpp): the state of one   *)
(* token and what each latched region or atomic operation does to it.  The  *)
(* modules that use tokens take the steps.                                  *)
(*                                                                          *)
(* callback_mode_ is op # Nobody: the two are set and cleared together.     *)
(***************************************************************************)
EXTENDS Coroutines

FreshToken == [reason |-> "none",    \* reason_
               cancelled |-> FALSE,  \* cancelled_
               dispatched |-> FALSE, \* cancel_dispatched_
               op |-> Nobody,        \* callback_operation_
               notify |-> FALSE]     \* callback_notify_ is set

(* request_cancel() and cancel_due_to_deadline(): only the first reason is  *)
(* recorded, and only whoever recorded it goes on to publish it.            *)
Reasoned(tok, reason) == IF tok.reason = "none" THEN [tok EXCEPT !.reason = reason] ELSE tok
Published(tok) == [tok EXCEPT !.cancelled = TRUE]

(* dispatch_cancel(): at most once.                                         *)
MayDispatch(tok) == tok.cancelled /\ ~tok.dispatched
Dispatched(tok) == [tok EXCEPT !.dispatched = TRUE]

(* dispatch_callback() tells the registered operation, once.                *)
Tells(tok) == tok.op # Nobody /\ tok.notify
Told(tok) == [tok EXCEPT !.notify = FALSE]

(* register_callback(): refused once cancelled.                             *)
Registered(tok, op) == IF tok.cancelled THEN tok ELSE [tok EXCEPT !.op = op, !.notify = TRUE]

(* complete_callback() wins when the operation has not been told.           *)
Completes(tok, op) == tok.op = op /\ tok.notify
Retired(tok, op) == IF tok.op = op THEN [tok EXCEPT !.op = Nobody, !.notify = FALSE] ELSE tok
=============================================================================
