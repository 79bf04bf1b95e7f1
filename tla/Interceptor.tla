---------------------------- MODULE Interceptor ----------------------------
(***************************************************************************)
(* proxy/interceptor.go: what becomes of a client's payload, while other   *)
(* clients' payloads are on their way and the verifier moves the number in *)
(* the store.                                                              *)
(***************************************************************************)
EXTENDS TagReplacement

CONSTANTS
  Clients,        \* goroutines that each serve one payload at a time
  MaxNumber,      \* bound on the block number in the store
  maxBatchSize    \* --max-batch-size

ASSUME MaxNumberNatural == MaxNumber \in Nat

VARIABLES
  l2BlockNumber,  \* the number the store publishes, 0 while there is none
  highest,        \* the highest number a forwarded payload was resolved to (history)
  calls           \* calls[c]: the payload that c serves and how far it got

interceptorVars == <<l2BlockNumber, highest, calls>>

-----------------------------------------------------------------------------
\* The state of a client's goroutine: the payload, the number read from the
\* store, and what was sent to the full node.  seen and floor are history: the
\* store's number and highest when the payload arrived.
idle == [at |-> "idle", payload |-> [kind |-> "malformed", requests |-> <<>>],
         number |-> 0, sent |-> <<>>, seen |-> 0, floor |-> 0]

InterceptorInit ==
  /\ l2BlockNumber = 0
  /\ highest = 0
  /\ calls = [c \in Clients |-> idle]

\* Faulty variant of storePublishes: a smaller number is published.
publishesAny ==
  /\ l2BlockNumber' \in 0..MaxNumber
  /\ UNCHANGED <<highest, calls>>

\* The verifier publishes a greater number (EspressoStore).
storePublishes ==
  /\ l2BlockNumber' \in (l2BlockNumber + 1)..MaxNumber
  /\ UNCHANGED <<highest, calls>>

\* A payload arrives once the one before it was dealt with.
receive(c, payload) ==
  /\ calls[c].at = "idle"
  /\ calls' = [calls EXCEPT ![c] =
                 [idle EXCEPT !.at = "received", !.payload = payload,
                              !.seen = l2BlockNumber, !.floor = highest]]
  /\ UNCHANGED <<l2BlockNumber, highest>>

\* PerformRequestIntercept answers with an error: an empty payload, one that is
\* neither an object nor an array, one that does not decode.
parseFails(c) ==
  /\ calls[c].at = "received"
  /\ calls[c].payload.kind = "malformed"
  /\ calls' = [calls EXCEPT ![c].at = "refused"]
  /\ UNCHANGED <<l2BlockNumber, highest>>

\* The batch has more requests than the limit.
batchTooLarge(payload) == payload.kind = "batch" /\ Len(payload.requests) > maxBatchSize

batchRefused(c) ==
  /\ calls[c].at = "received"
  /\ batchTooLarge(calls[c].payload)
  /\ calls' = [calls EXCEPT ![c].at = "refused"]
  /\ UNCHANGED <<l2BlockNumber, highest>>

\* InterceptRequest and InterceptBatchRequests read the store, once, when the
\* payload was decoded and is within the limit.
getCurrentEspressoFinalizedBlockNumber(c) ==
  /\ calls[c].at = "received"
  /\ calls[c].payload.kind # "malformed"
  /\ ~batchTooLarge(calls[c].payload)
  /\ calls' = [calls EXCEPT ![c].at = "resolved", ![c].number = l2BlockNumber]
  /\ UNCHANGED <<l2BlockNumber, highest>>

\* There was no number: the payload goes to the full node as it came.
forwardRaw(c) ==
  /\ calls[c].at = "resolved"
  /\ calls[c].number = 0
  /\ calls' = [calls EXCEPT ![c].at = "forwarded", ![c].sent = calls[c].payload.requests]
  /\ UNCHANGED <<l2BlockNumber, highest>>

\* There was one: the payload is rewritten and forwarded, or refused.
intercept(c) ==
  /\ calls[c].at = "resolved"
  /\ calls[c].number # 0
  /\ LET r == replaceTags(calls[c].payload.requests, calls[c].number)
     IN IF r.failed
        THEN /\ calls' = [calls EXCEPT ![c].at = "refused"]
             /\ UNCHANGED highest
        ELSE /\ calls' = [calls EXCEPT ![c].at = "forwarded", ![c].sent = r.requests]
             /\ highest' = IF calls[c].number > highest THEN calls[c].number ELSE highest
  /\ UNCHANGED l2BlockNumber

\* The call is over, or its goroutine panicked and the panic was recovered.
finish(c) ==
  /\ calls[c].at # "idle"
  /\ calls' = [calls EXCEPT ![c] = idle]
  /\ UNCHANGED <<l2BlockNumber, highest>>

PerformRequestIntercept(c) ==
  \/ parseFails(c)
  \/ batchRefused(c)
  \/ getCurrentEspressoFinalizedBlockNumber(c)
  \/ forwardRaw(c)
  \/ intercept(c)

-----------------------------------------------------------------------------
\* The tag as clients see it never moves backwards: a payload that arrives after
\* another was forwarded is resolved to no smaller number, whichever client
\* either came from.
NeverBehindEarlierAnswer ==
  \A c \in Clients : calls[c].at = "forwarded" => calls[c].number >= calls[c].floor
=============================================================================
