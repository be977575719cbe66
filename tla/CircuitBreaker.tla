--------------------------- MODULE CircuitBreaker ---------------------------
(***************************************************************************)
(* circuit_breaker (src/coro/circuit_breaker.cppm, circuit_breaker_impl.cpp)*)
(* with callers that pass it, run their operation for any time and report   *)
(* the result later, in whatever state the breaker is by then.  Every       *)
(* latched region is one action; the clock is reduced to whether opts_      *)
(* .timeout has elapsed since open_time_.                                   *)
(***************************************************************************)
EXTENDS Coroutines, Naturals

CONSTANTS FailureThreshold, SuccessThreshold

ASSUME BreakerAssumption ==
    FailureThreshold \in Nat \ {0} /\ SuccessThreshold \in Nat \ {0}

VARIABLES
    circuit,    \* state_
    elapsed,    \* steady_clock::now() - open_time_ >= opts_.timeout
    failures,   \* failure_count_
    successes,  \* success_count_
    calling,    \* calling[t]: t awaits its operation
    proofs      \* history: successes reported since it last opened and the
                \* timeout elapsed, up to SuccessThreshold; reset() counts as all

cbVars == <<circuit, elapsed, failures, successes, calling, proofs>>

CbInit ==
    /\ circuit = "closed" /\ elapsed = FALSE
    /\ failures = 0 /\ successes = 0
    /\ calling = [t \in Tasks |-> FALSE]
    /\ proofs = 0

(* maybe_transition_state(), which begins every operation: the state and    *)
(* the successes that count.                                                *)
Effective == IF circuit = "open" /\ elapsed THEN "half_open" ELSE circuit

(* Fault: successes of an earlier half-open period still count.             *)
CountedKept == successes
Counted == IF circuit = "open" /\ elapsed THEN 0 ELSE successes

Elapse ==
    /\ circuit = "open" /\ ~elapsed
    /\ elapsed' = TRUE
    /\ UNCHANGED <<circuit, failures, successes, calling, proofs>>

(* pre_execute(), state(): rejected while open.                             *)
PreExecute(t) ==
    /\ ~calling[t]
    /\ calling' = [calling EXCEPT ![t] = Effective # "open"]
    /\ circuit' = Effective /\ successes' = Counted
    /\ UNCHANGED <<elapsed, failures, proofs>>

OpenNow == circuit' = "open" /\ elapsed' = FALSE /\ proofs' = 0
Proven == proofs' = IF proofs < SuccessThreshold THEN proofs + 1 ELSE proofs

Returned(t) == calling[t] /\ calling' = [calling EXCEPT ![t] = FALSE]

CloseNow == circuit' = "closed" /\ failures' = 0 /\ successes' = 0

OnSuccess(t) ==
    /\ Returned(t)
    /\ \/ /\ Effective = "half_open" /\ Counted + 1 >= SuccessThreshold
          /\ CloseNow /\ Proven
       \/ /\ Effective = "half_open" /\ Counted + 1 < SuccessThreshold
          /\ circuit' = Effective /\ successes' = Counted + 1 /\ Proven
          /\ UNCHANGED failures
       \/ /\ Effective = "closed"
          /\ failures' = 0
          /\ UNCHANGED <<circuit, successes, proofs>>
       \/ /\ Effective = "open"
          /\ UNCHANGED <<circuit, failures, successes, proofs>>
    /\ UNCHANGED elapsed

OnFailure(t) ==
    /\ Returned(t)
    /\ \/ /\ Effective = "half_open"
          /\ OpenNow /\ successes' = 0
          /\ UNCHANGED failures
       \/ /\ Effective = "closed"
          /\ failures' = failures + 1
          /\ IF failures + 1 >= FailureThreshold THEN OpenNow
             ELSE UNCHANGED <<circuit, elapsed, proofs>>
          /\ UNCHANGED successes
       \/ /\ Effective = "open"
          /\ UNCHANGED <<circuit, elapsed, failures, successes, proofs>>

Trip ==
    /\ OpenNow
    /\ UNCHANGED <<failures, successes, calling>>

Reset ==
    /\ CloseNow
    /\ proofs' = SuccessThreshold
    /\ UNCHANGED <<elapsed, calling>>

CbNext ==
    \/ \E t \in Tasks : PreExecute(t) \/ OnSuccess(t) \/ OnFailure(t)
    \/ Elapse \/ Trip \/ Reset

CbSpec == CbInit /\ [][CbNext]_cbVars

-----------------------------------------------------------------------------
(* Once open, whatever opened it, the breaker closes only on reset() or on  *)
(* SuccessThreshold successes reported since, after the timeout, with no    *)
(* failure and no trip() in between (circuit_breaker.cppm:42 "Successes in  *)
(* half_open before closing").  The calls they are from may be older.       *)
ClosesOnEvidence ==
    [][circuit # "closed" /\ circuit' = "closed" => proofs' >= SuccessThreshold]_cbVars
=============================================================================
