---------------------------- MODULE RpmbExchange ----------------------------
(***************************************************************************)
(* What OP-TEE's RPMB layer is promised by its transport (tee_rpmb_invoke): *)
(* one request at a time; the device executes it at most once, whatever    *)
(* fails on the way; success hands over the answer to this very request,   *)
(* of a request that was executed, or an empty frame, never an answer to   *)
(* another one.  After an error the request may or may not have been       *)
(* executed.  Power may be lost at any time.                               *)
(***************************************************************************)
EXTENDS Naturals

CONSTANTS Request,   \* the requests, records with a field id
          None,      \* no request
          NoId       \* the identity an empty frame answers

VARIABLES busy,      \* an exchange is in progress
          request,   \* its request
          executed,  \* how often the device has executed it
          answer,    \* the identity of the request the response answers
          result     \* "none", "ok" or "error"

exchangeVars == <<busy, request, executed, answer, result>>

Init ==
    /\ busy = FALSE
    /\ request = None
    /\ executed = 0
    /\ answer = NoId
    /\ result = "none"

Submit ==
    /\ ~busy
    /\ busy' = TRUE
    /\ request' \in Request
    /\ executed' = 0
    /\ answer' = NoId
    /\ result' = "none"

\* Nothing is sent.
Refuse ==
    /\ ~busy
    /\ request' \in Request
    /\ executed' = 0
    /\ answer' = NoId
    /\ result' = "error"
    /\ UNCHANGED busy

Execute ==
    /\ busy
    /\ executed = 0
    /\ executed' = 1
    /\ UNCHANGED <<busy, request, answer, result>>

Deliver ==
    /\ busy
    /\ busy' = FALSE
    /\ result' = "ok"
    /\ executed = 1
    /\ answer' \in {NoId, request.id}
    /\ UNCHANGED <<request, executed>>

GiveUp ==
    /\ busy
    /\ busy' = FALSE
    /\ result' = "error"
    /\ UNCHANGED <<request, executed, answer>>

PowerLoss ==
    /\ busy' = FALSE
    /\ request' = None
    /\ executed' = 0
    /\ answer' = NoId
    /\ result' = "none"

Next == Submit \/ Refuse \/ Execute \/ Deliver \/ GiveUp \/ PowerLoss

Spec == Init /\ [][Next]_exchangeVars
=============================================================================
