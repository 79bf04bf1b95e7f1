---------------------------- MODULE HTTPHandlers ----------------------------
(***************************************************************************)
(* The handlers of the http package with what they are made of: the JSON-  *)
(* RPC chain of main.go over the real codec and tag replacement, and the   *)
(* CORS middleware, which main.go does not mount.  Which of the two is     *)
(* under way is fixed from the start: they share no state.                 *)
(***************************************************************************)
EXTENDS HTTPServer, CORS

\* The bodies that a client may send.
JSONObjects == [jsonrpc : STRING, id : JSONValues, method : STRING, params : JSONValues,
                extra : JSONValues]
Bodies == [first : {"{", "[", "other"}, broken : BOOLEAN, objects : Seq(JSONObjects)]

ASSUME RequestsHaveBodies ==
  /\ {absent, null} \subseteq JSONValues
  /\ \A c \in Clients : \A r \in HTTPRequests[c] : r.body \in Bodies

VARIABLE mounted    \* "rpc" or "cors"

vars == <<httpVars, corsVars, mounted>>

Init ==
  /\ mounted \in {"rpc", "cors"}
  /\ HTTPInit
  /\ IF mounted = "cors"
     THEN CORSInit
     ELSE /\ config = "none" /\ origin = "none" /\ wanted = "none" /\ permitted = {}
          /\ page = "idle"

rpcStep == mounted = "rpc" /\ HTTPNext /\ UNCHANGED <<corsVars, mounted>>

corsStep == mounted = "cors" /\ CORSNext /\ UNCHANGED <<httpVars, mounted>>

Next == rpcStep \/ corsStep

Spec == Init /\ [][Next]_vars

-----------------------------------------------------------------------------
\* What an object of the body becomes when its tags stand for block n: nothing of it
\* is lost but an explicit null for the params, a method is there in any case, and
\* before there is a number the params are as they came.
resolvedObject(o, n) ==
  [o EXCEPT
     !.method = IF o.method = "absent" THEN "" ELSE @,
     !.params = IF o.params = null THEN absent
                ELSE IF n = 0 \/ o.params = absent THEN @ ELSE resolve(@, n)]

\* What reaches the full node is the client's body with every tag, at any depth of
\* the params and in every request of a batch, replaced by one and the same number,
\* one that the store published while the request was served; before there is a
\* number no tag is replaced.  IDs, notifications and all other members are kept.
ResolvedAsOne ==
  \A c \in Clients :
    LET call == calls[c]
        body == exchange[c].request.body
    IN call.at = "forwarded" =>
         /\ call.number >= call.seen
         /\ call.number <= l2BlockNumber
         /\ newBody(c) = [body EXCEPT !.objects = [j \in DOMAIN @ |->
                                                     resolvedObject(@[j], call.number)]]

\* A body is refused for being malformed, for another version of the protocol, for
\* its number of requests or for the nesting of one of them, and for nothing else; a
\* body that has one of these faults is not forwarded, except that nesting does not
\* matter while there is no number.
RefusedForCause ==
  \A c \in Clients :
    LET call == calls[c]
        body == exchange[c].request.body
        tooDeep == \E j \in DOMAIN body.objects :
                     nesting(body.objects[j].params) > maxJSONDepth
        faulty == \/ body.broken \/ body.first = "other"
                  \/ \E j \in DOMAIN body.objects : body.objects[j].jsonrpc # "2.0"
                  \/ body.first = "[" /\ Len(body.objects) > maxBatchSize
                  \/ call.number # 0 /\ tooDeep
    IN /\ call.at = "refused" => faulty
       /\ call.at = "forwarded" => ~faulty

-----------------------------------------------------------------------------
\* A call past the decoder is neither malformed nor too large; what it sent is what
\* the replacement of its tags returned, and it was refused for one of the three.
Handled(call) ==
  LET payload == call.payload
      r == replaceTags(payload.requests, call.number)
  IN /\ call.at \in {"resolved", "forwarded"} =>
          payload.kind # "malformed" /\ ~batchTooLarge(payload)
     /\ call.at = "forwarded" =>
          IF call.number = 0 THEN call.sent = payload.requests
          ELSE ~r.failed /\ call.sent = r.requests
     /\ call.at = "refused" =>
          \/ payload.kind = "malformed" \/ batchTooLarge(payload)
          \/ call.number # 0 /\ r.failed

\* Every call under way has a request that its client may send, and was handled by the
\* rules.
AllHandled ==
  \A c \in Clients :
    calls[c].at # "idle" => exchange[c].request \in HTTPRequests[c] /\ Handled(calls[c])

\* Inductive invariant of the handlers, beside those of their parts.
HandlersInv ==
  /\ AllHandled
  /\ mounted \in {"rpc", "cors"}
  /\ IF mounted = "cors" THEN CORSInv ELSE page = "idle"
=============================================================================
