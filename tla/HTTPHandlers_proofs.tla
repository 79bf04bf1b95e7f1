------------------------- MODULE HTTPHandlers_proofs -------------------------
(***************************************************************************)
(* HTTPServer, TagReplacement, CORS and HTTPHandlers, for any number of    *)
(* clients, any requests and values, however deep, and any policy.         *)
(***************************************************************************)
EXTENDS HTTPHandlers, WellFoundedInduction, TLAPS

-----------------------------------------------------------------------------
\* The server, whatever the replacement of tags does to a request.

\* Before the first request everything is in order.
LEMMA InitInv == HTTPInit => HTTPInv
<1> SUFFICES ASSUME HTTPInit PROVE HTTPInv
  OBVIOUS
<1>1. Together(idle, noExchange, 0)
  BY DEF Together, IsCall, IsExchange, idle, noExchange
<1>2. \A c \in Clients : calls[c] = idle /\ exchange[c] = noExchange
  BY DEF HTTPInit, InterceptorInit
<1> QED
  BY <1>1, <1>2 DEF HTTPInit, InterceptorInit, HTTPInv

\* A step of one client leaves the others alone: it is enough that its own call and
\* exchange belong together afterwards.
LEMMA OneClient ==
  ASSUME HTTPInv, NEW c \in Clients, NEW call, NEW e,
         calls' = [calls EXCEPT ![c] = call],
         exchange' = [exchange EXCEPT ![c] = e],
         l2BlockNumber' = l2BlockNumber,
         highest' \in Nat, highest' <= l2BlockNumber,
         Together(call, e, l2BlockNumber)
  PROVE  HTTPInv'
<1>1. calls' = [d \in Clients |-> calls'[d]] /\ exchange' = [d \in Clients |-> exchange'[d]]
  BY Zenon DEF HTTPInv
<1>2. calls'[c] = call /\ exchange'[c] = e
  BY DEF HTTPInv
<1>3. \A d \in Clients : d # c => calls'[d] = calls[d] /\ exchange'[d] = exchange[d]
  BY DEF HTTPInv
<1>4. \A d \in Clients : Together(calls'[d], exchange'[d], l2BlockNumber)
  BY <1>2, <1>3 DEF HTTPInv
<1> QED
  BY <1>1, <1>4 DEF HTTPInv

\* The number in the store only grows.
LEMMA PublishInv == ASSUME HTTPInv, publishStep PROVE HTTPInv'
<1>1. /\ l2BlockNumber \in Nat /\ l2BlockNumber' \in Nat /\ l2BlockNumber <= l2BlockNumber'
      /\ UNCHANGED <<highest, calls, exchange>>
  BY MaxNumberNatural DEF HTTPInv, publishStep, storePublishes
<1>2. ASSUME NEW call, NEW e, Together(call, e, l2BlockNumber)
      PROVE  Together(call, e, l2BlockNumber')
  BY <1>1, <1>2 DEF Together
<1>3. \A c \in Clients : Together(calls'[c], exchange'[c], l2BlockNumber')
  BY <1>1, <1>2 DEF HTTPInv
<1> QED
  BY <1>1, <1>3 DEF HTTPInv

\* The requests that end before the interceptor sees them.
LEMMA OverInv ==
  ASSUME HTTPInv, NEW c \in Clients, NEW r, NEW answer, NEW fault, mayArrive(c),
         over(c, r, answer, fault),
         rightlyAnswered([at |-> "over", request |-> r, written |-> answer, fault |-> fault])
  PROVE  HTTPInv'
<1> DEFINE e == [at |-> "over", request |-> r, written |-> answer, fault |-> fault]
<1>1. UNCHANGED <<l2BlockNumber, highest, calls>> /\ exchange' = [exchange EXCEPT ![c] = e]
  BY DEF over, interceptorVars
<1>2. calls' = [calls EXCEPT ![c] = calls[c]]
  BY <1>1 DEF HTTPInv
<1>3. Together(calls[c], exchange[c], l2BlockNumber) /\ exchange[c].at = "none"
  BY DEF HTTPInv, mayArrive
<1>4. Together(calls[c], e, l2BlockNumber)
  BY <1>3 DEF Together, IsExchange
<1>5. highest' \in Nat /\ highest' <= l2BlockNumber
  BY <1>1 DEF HTTPInv
<1> QED
  BY <1>1, <1>2, <1>4, <1>5, OneClient, Zenon

LEMMA MiddlewareInv ==
  ASSUME HTTPInv, NEW c \in Clients, NEW r, middlewareRefuses(c, r) PROVE HTTPInv'
<1> DEFINE answer == HTTPRPCMiddlewares(r)
<1>1. \E s \in {"405", "413", "415"} : answer = <<httpError(s)>>
  BY DEF middlewareRefuses, HTTPRPCMiddlewares, MethodIs, RequestBodySizeLimiter,
         ContentTypeIsJSONRPC, passed
<1>2. rightlyAnswered([at |-> "over", request |-> r, written |-> answer, fault |-> "none"])
  BY <1>1 DEF rightlyAnswered, httpError, jsonRPCError
<1> QED
  BY <1>2, OverInv DEF middlewareRefuses

LEMMA ReadFailsInv ==
  ASSUME HTTPInv, NEW c \in Clients, NEW r, readBodyFails(c, r) PROVE HTTPInv'
<1> DEFINE answer == <<jsonRPCError(CodeParseError)>>
           fault == IF readsWhole(r) THEN "client" ELSE "none"
<1>1. rightlyAnswered([at |-> "over", request |-> r, written |-> answer, fault |-> fault])
  BY DEF rightlyAnswered, httpError, jsonRPCError, MarshalResponse, CreateGeneralErrorResponse,
         CodeParseError, CodeInvalidRequest, CodeInternalError
<1> QED
  BY <1>1, OverInv DEF readBodyFails

\* A request that passed the checks begins a call.
LEMMA ReadInv ==
  ASSUME HTTPInv, NEW c \in Clients, NEW r, readBody(c, r) PROVE HTTPInv'
<1> DEFINE call == [idle EXCEPT !.at = "received", !.payload = unmarshal(r.body),
                                !.seen = l2BlockNumber, !.floor = highest]
           e == [noExchange EXCEPT !.at = "handling", !.request = r]
<1>1. /\ calls' = [calls EXCEPT ![c] = call] /\ exchange' = [exchange EXCEPT ![c] = e]
      /\ UNCHANGED <<l2BlockNumber, highest>>
      /\ HTTPRPCMiddlewares(r) = passed /\ readsWhole(r)
  BY DEF readBody, receive
<1>2. l2BlockNumber \in Nat /\ highest \in Nat /\ highest <= l2BlockNumber
  BY DEF HTTPInv
<1>3. /\ IsCall(call) /\ call.at = "received" /\ call.payload = unmarshal(r.body)
      /\ call.number = 0 /\ call.seen = l2BlockNumber /\ call.floor = highest
  BY Zenon DEF idle, IsCall
<1>4. IsExchange(e) /\ e.at = "handling" /\ e.request = r /\ e.written = <<>> /\ e.fault = "none"
  BY Zenon DEF noExchange, IsExchange
<1> HIDE DEF call, e
<1>5. Together(call, e, l2BlockNumber)
  BY <1>1, <1>2, <1>3, <1>4 DEF Together
<1> QED
  BY <1>1, <1>2, <1>5, OneClient, Zenon

\* The steps of the interceptor.
LEMMA InterceptInv ==
  ASSUME HTTPInv, NEW c \in Clients, interceptStep(c) PROVE HTTPInv'
<1> DEFINE call == calls[c]
           e == exchange[c]
           Moved(at, number) ==
             /\ calls' = [d \in Clients |-> calls'[d]]
             /\ \A d \in Clients : d # c => calls'[d] = calls[d]
             /\ IsCall(calls'[c])
             /\ calls'[c].at = at /\ calls'[c].number = number
             /\ calls'[c].payload = call.payload
             /\ calls'[c].seen = call.seen /\ calls'[c].floor = call.floor
<1>1. /\ Together(call, e, l2BlockNumber) /\ UNCHANGED exchange
      /\ l2BlockNumber \in Nat /\ highest \in Nat /\ highest <= l2BlockNumber
  BY DEF HTTPInv, interceptStep
<1>2. /\ call.number \in Nat /\ call.seen \in Nat /\ IsCall(call) /\ call.seen <= l2BlockNumber
      /\ call.at = "resolved" => call.seen <= call.number /\ call.number <= l2BlockNumber
      /\ calls = [d \in Clients |-> calls[d]]
  BY <1>1 DEF Together, HTTPInv
<1>3. ASSUME NEW at \in {"resolved", "forwarded", "refused"}, NEW number \in Nat,
             Moved(at, number), call.at \in {"received", "resolved"}, UNCHANGED l2BlockNumber,
             highest' \in Nat, highest' <= l2BlockNumber,
             at # "refused" => call.seen <= number /\ number <= l2BlockNumber
      PROVE  HTTPInv'
  <2>1. PICK new : new = calls'[c]
    OBVIOUS
  <2>2. e.at = "handling"
    BY <1>1, <1>3 DEF Together
  <2>3. Together(new, e, l2BlockNumber)
    BY <1>1, <1>3, <2>1, <2>2 DEF Together
  <2>4. calls' = [calls EXCEPT ![c] = new] /\ exchange' = [exchange EXCEPT ![c] = e]
    BY <1>1, <1>2, <1>3, <2>1 DEF HTTPInv
  <2> QED
    BY <1>3, <2>3, <2>4, OneClient, Zenon
<1>7. ASSUME calls' = [calls EXCEPT ![c].at = "refused"] PROVE Moved("refused", call.number)
  BY <1>2, <1>7 DEF IsCall
<1>8. CASE parseFails(c) \/ batchRefused(c)
  <2>1. /\ Moved("refused", call.number)
        /\ call.at = "received" /\ UNCHANGED <<l2BlockNumber, highest>>
    BY <1>8, <1>7 DEF parseFails, batchRefused
  <2>2. /\ call.at \in {"received", "resolved"} /\ UNCHANGED l2BlockNumber
        /\ highest' \in Nat /\ highest' <= l2BlockNumber /\ call.number \in Nat
    BY <2>1, <1>1, <1>2
  <2> HIDE DEF Moved, call
  <2> QED
    BY <2>1, <2>2, <1>3
<1>9. CASE getCurrentEspressoFinalizedBlockNumber(c)
  <2>1. /\ calls' = [calls EXCEPT ![c].at = "resolved", ![c].number = l2BlockNumber]
        /\ call.at = "received" /\ UNCHANGED <<l2BlockNumber, highest>>
    BY <1>9 DEF getCurrentEspressoFinalizedBlockNumber
  <2>2. Moved("resolved", l2BlockNumber)
    BY <2>1, <1>2, Zenon DEF IsCall
  <2>3. /\ call.at \in {"received", "resolved"} /\ UNCHANGED l2BlockNumber
        /\ highest' \in Nat /\ highest' <= l2BlockNumber /\ l2BlockNumber \in Nat
        /\ call.seen <= l2BlockNumber /\ l2BlockNumber <= l2BlockNumber
    BY <2>1, <1>1, <1>2
  <2> HIDE DEF Moved, call
  <2> QED
    BY <2>2, <2>3, <1>3
<1>10. CASE forwardRaw(c)
  <2>1. /\ calls' = [calls EXCEPT ![c].at = "forwarded", ![c].sent = call.payload.requests]
        /\ call.at = "resolved" /\ UNCHANGED <<l2BlockNumber, highest>>
    BY <1>10 DEF forwardRaw
  <2>2. Moved("forwarded", call.number)
    BY <2>1, <1>2 DEF IsCall
  <2> HIDE DEF Moved, call
  <2> QED
    BY <2>1, <2>2, <1>1, <1>2, <1>3
<1>11. CASE intercept(c)
  <2> DEFINE r == replaceTags(call.payload.requests, call.number)
  <2>1. CASE r.failed
    <3>1. /\ Moved("refused", call.number)
          /\ call.at = "resolved" /\ UNCHANGED <<l2BlockNumber, highest>>
      BY <1>11, <2>1, <1>7 DEF intercept
    <3> HIDE DEF Moved, call
    <3> QED
      BY <3>1, <1>1, <1>2, <1>3
  <2>2. CASE ~r.failed
    <3>1. /\ calls' = [calls EXCEPT ![c].at = "forwarded", ![c].sent = r.requests]
          /\ call.at = "resolved" /\ UNCHANGED l2BlockNumber
          /\ highest' = highest \/ highest' = call.number
      BY <1>11, <2>2 DEF intercept
    <3> HIDE DEF r
    <3>2. Moved("forwarded", call.number)
      BY <3>1, <1>2 DEF IsCall
    <3> HIDE DEF Moved, call
    <3> QED
      BY <3>1, <3>2, <1>1, <1>2, <1>3
  <2> QED
    BY <2>1, <2>2
<1> QED
  BY <1>8, <1>9, <1>10, <1>11 DEF interceptStep, PerformRequestIntercept

\* A call and its exchange end together.
LEMMA FinishInv ==
  ASSUME HTTPInv, NEW c \in Clients, finish(c), NEW e,
         exchange' = [exchange EXCEPT ![c] = e],
         IsExchange(e), e.at = "over", rightlyAnswered(e)
  PROVE  HTTPInv'
<1>1. /\ calls' = [calls EXCEPT ![c] = idle] /\ UNCHANGED <<l2BlockNumber, highest>>
      /\ l2BlockNumber \in Nat /\ highest \in Nat /\ highest <= l2BlockNumber
  BY DEF finish, HTTPInv
<1>2. IsCall(idle) /\ idle.at = "idle" /\ idle.number = 0 /\ idle.seen = 0 /\ idle.floor = 0
  BY DEF idle, IsCall
<1>3. Together(idle, e, l2BlockNumber)
  BY <1>1, <1>2 DEF Together
<1> QED
  BY <1>1, <1>3, OneClient, Zenon

\* The answers differ from one another.
LEMMA AnswersDiffer ==
  /\ \A s, t \in {"500", "502"} : s # t => httpError(s) # httpError(t)
  /\ \A s \in {"500", "502"} : httpError(s) # nodeAnswer
  /\ \A code : \A s \in {"500", "502"} : httpError(s) # jsonRPCError(code)
  /\ \A code : jsonRPCError(code) # nodeAnswer
  /\ \A k, l : jsonRPCError(k) = jsonRPCError(l) => k = l
BY DEF httpError, jsonRPCError, nodeAnswer, MarshalResponse, CreateGeneralErrorResponse

\* What is known of an exchange whose call is under way.
LEMMA UnderWay ==
  ASSUME HTTPInv, NEW c \in Clients, exchange[c].at \in {"handling", "copying"}
  PROVE  /\ IsExchange(exchange[c]) /\ exchange = [d \in Clients |-> exchange[d]]
         /\ calls[c].at # "idle" /\ calls[c].payload = unmarshal(exchange[c].request.body)
         /\ exchange[c].fault = "none"
         /\ exchange[c].at = "handling" => exchange[c].written = <<>>
         /\ exchange[c].at = "copying" => exchange[c].written = <<nodeAnswer>>
BY DEF HTTPInv, Together

LEMMA WriteErrorInv ==
  ASSUME HTTPInv, NEW c \in Clients, writeError(c) PROVE HTTPInv'
<1> DEFINE code == interceptError(calls[c])
           answer == jsonRPCError(code)
<1>1. /\ exchange' = [exchange EXCEPT ![c].at = "over", ![c].written = <<answer>>]
      /\ finish(c) /\ exchange[c].at = "handling"
  BY DEF writeError
<1>2. /\ IsExchange(exchange[c]) /\ exchange = [d \in Clients |-> exchange[d]]
      /\ calls[c].payload = unmarshal(exchange[c].request.body) /\ exchange[c].fault = "none"
  BY <1>1, UnderWay
<1>3. /\ code = CodeInvalidRequest => batchTooLarge(calls[c].payload)
      /\ code = CodeInternalError =>
           calls[c].payload.kind # "malformed" /\ ~batchTooLarge(calls[c].payload)
  BY DEF interceptError, CodeParseError, CodeInvalidRequest, CodeInternalError
<1> HIDE DEF code
<1>4. /\ answer = jsonRPCError(CodeInvalidRequest) => batchTooLarge(calls[c].payload)
      /\ answer = jsonRPCError(CodeInternalError) =>
           calls[c].payload.kind # "malformed" /\ ~batchTooLarge(calls[c].payload)
      /\ answer # httpError("500") /\ answer # httpError("502")
  BY <1>3, AnswersDiffer
<1> HIDE DEF answer
<1>5. PICK e : e = exchange'[c]
  OBVIOUS
<1>6. /\ exchange' = [exchange EXCEPT ![c] = e] /\ IsExchange(e) /\ e.at = "over"
      /\ e.request = exchange[c].request /\ e.written = <<answer>> /\ e.fault = "none"
  BY <1>1, <1>2, <1>5, Zenon DEF IsExchange
<1>7. Len(e.written) = 1 /\ e.written[1] = answer
  BY <1>6
<1>8. rightlyAnswered(e)
  BY <1>2, <1>4, <1>6, <1>7 DEF rightlyAnswered
<1> QED
  BY <1>1, <1>6, <1>8, FinishInv, Zenon

\* The header of the full node's answer is written.
LEMMA NodeAnswersInv ==
  ASSUME HTTPInv, NEW c \in Clients, nodeAnswers(c) PROVE HTTPInv'
<1>1. /\ exchange' = [exchange EXCEPT ![c].at = "copying", ![c].written = <<nodeAnswer>>]
      /\ UNCHANGED <<l2BlockNumber, highest, calls>>
      /\ exchange[c].at = "handling" /\ calls[c].at = "forwarded"
  BY DEF nodeAnswers, interceptorVars
<1>2. /\ IsExchange(exchange[c]) /\ exchange = [d \in Clients |-> exchange[d]]
      /\ exchange[c].fault = "none"
  BY <1>1, UnderWay
<1>3. PICK e : e = exchange'[c]
  OBVIOUS
<1>4. /\ exchange' = [exchange EXCEPT ![c] = e] /\ IsExchange(e) /\ e.at = "copying"
      /\ e.request = exchange[c].request /\ e.written = <<nodeAnswer>> /\ e.fault = "none"
  BY <1>1, <1>2, <1>3, Zenon DEF IsExchange
<1>5. Together(calls[c], exchange[c], l2BlockNumber)
  BY DEF HTTPInv
<1>6. Together(calls[c], e, l2BlockNumber)
  BY <1>1, <1>4, <1>5 DEF Together
<1>7. calls' = [calls EXCEPT ![c] = calls[c]] /\ highest' \in Nat /\ highest' <= l2BlockNumber
  BY <1>1 DEF HTTPInv
<1> QED
  BY <1>1, <1>4, <1>6, <1>7, OneClient, Zenon

\* The full node could not be reached.
LEMMA BadGatewayInv ==
  ASSUME HTTPInv, NEW c \in Clients, badGateway(c) PROVE HTTPInv'
<1>1. /\ exchange' = [exchange EXCEPT ![c].at = "over", ![c].written = <<httpError("502")>>,
                                      ![c].fault = "node"]
      /\ finish(c) /\ exchange[c].at = "handling"
  BY DEF badGateway
<1>2. IsExchange(exchange[c]) /\ exchange = [d \in Clients |-> exchange[d]]
  BY <1>1, UnderWay
<1>3. PICK e : e = exchange'[c]
  OBVIOUS
<1>4. /\ exchange' = [exchange EXCEPT ![c] = e] /\ IsExchange(e) /\ e.at = "over"
      /\ e.written = <<httpError("502")>> /\ e.fault = "node"
  BY <1>1, <1>2, <1>3, Zenon DEF IsExchange
<1>5. Len(e.written) = 1 /\ e.written[1] = httpError("502")
  BY <1>4
<1>6. rightlyAnswered(e)
  BY <1>4, <1>5, AnswersDiffer DEF rightlyAnswered
<1> QED
  BY <1>1, <1>4, <1>6, FinishInv, Zenon

\* An exchange whose answer came from the full node is rightly answered.
LEMMA NodeAnswerIsRight ==
  ASSUME NEW e, e.written = <<nodeAnswer>> PROVE rightlyAnswered(e)
<1>1. Len(e.written) = 1 /\ e.written[1] = nodeAnswer
  OBVIOUS
<1> QED
  BY <1>1, AnswersDiffer DEF rightlyAnswered

LEMMA CopyEndsInv ==
  ASSUME HTTPInv, NEW c \in Clients, copyEnds(c) PROVE HTTPInv'
<1>1. /\ exchange' = [exchange EXCEPT ![c].at = "over"]
      /\ finish(c) /\ exchange[c].at = "copying"
  BY DEF copyEnds
<1>2. /\ IsExchange(exchange[c]) /\ exchange = [d \in Clients |-> exchange[d]]
      /\ exchange[c].written = <<nodeAnswer>>
  BY <1>1, UnderWay
<1>3. PICK e : e = exchange'[c]
  OBVIOUS
<1>4. /\ exchange' = [exchange EXCEPT ![c] = e] /\ IsExchange(e) /\ e.at = "over"
      /\ e.written = <<nodeAnswer>>
  BY <1>1, <1>2, <1>3 DEF IsExchange
<1> QED
  BY <1>1, <1>4, NodeAnswerIsRight, FinishInv, Zenon

\* The next request of a client begins with everything cleared.
LEMMA NextRequestInv ==
  ASSUME HTTPInv, NEW c \in Clients, nextRequest(c) PROVE HTTPInv'
<1>1. /\ exchange' = [exchange EXCEPT ![c] = noExchange]
      /\ UNCHANGED <<l2BlockNumber, highest, calls>> /\ exchange[c].at = "over"
  BY DEF nextRequest, interceptorVars
<1>2. IsExchange(noExchange) /\ noExchange.at = "none" /\ noExchange.written = <<>>
      /\ noExchange.fault = "none"
  BY DEF noExchange, IsExchange
<1>3. Together(calls[c], exchange[c], l2BlockNumber)
  BY DEF HTTPInv
<1>4. Together(calls[c], noExchange, l2BlockNumber)
  BY <1>1, <1>2, <1>3 DEF Together
<1>5. calls' = [calls EXCEPT ![c] = calls[c]] /\ highest' \in Nat /\ highest' <= l2BlockNumber
  BY <1>1 DEF HTTPInv
<1> QED
  BY <1>1, <1>4, <1>5, OneClient, Zenon

\* After a panic there is an answer: the recovery's, or the one that had begun.
LEMMA PanicsInv ==
  ASSUME HTTPInv, NEW c \in Clients, panics(c) PROVE HTTPInv'
<1> DEFINE written == recovers(exchange[c].written)
<1>1. /\ exchange' = [exchange EXCEPT ![c].at = "over", ![c].fault = "panic", ![c].written = written]
      /\ finish(c) /\ exchange[c].at \in {"handling", "copying"}
  BY DEF panics
<1>2. /\ IsExchange(exchange[c]) /\ exchange = [d \in Clients |-> exchange[d]]
      /\ exchange[c].at = "handling" => exchange[c].written = <<>>
      /\ exchange[c].at = "copying" => exchange[c].written = <<nodeAnswer>>
  BY <1>1, UnderWay
<1>3. written = <<httpError("500")>> \/ written = <<nodeAnswer>>
  BY <1>1, <1>2 DEF recovers
<1> HIDE DEF written
<1>4. PICK e : e = exchange'[c]
  OBVIOUS
<1>5. /\ exchange' = [exchange EXCEPT ![c] = e] /\ IsExchange(e) /\ e.at = "over"
      /\ e.written = written /\ e.fault = "panic"
  BY <1>1, <1>2, <1>4, Zenon DEF IsExchange
<1>6. CASE written = <<httpError("500")>>
  <2>1. Len(e.written) = 1 /\ e.written[1] = httpError("500")
    BY <1>5, <1>6
  <2>2. rightlyAnswered(e)
    BY <1>5, <2>1, AnswersDiffer DEF rightlyAnswered
  <2> QED
    BY <1>1, <1>5, <2>2, FinishInv, Zenon
<1>7. CASE written = <<nodeAnswer>>
  BY <1>1, <1>5, <1>7, NodeAnswerIsRight, FinishInv, Zenon
<1> QED
  BY <1>3, <1>6, <1>7

LEMMA NextInv == HTTPInv /\ [HTTPNext]_httpVars => HTTPInv'
<1> SUFFICES ASSUME HTTPInv, [HTTPNext]_httpVars PROVE HTTPInv'
  OBVIOUS
<1>1. CASE publishStep
  BY <1>1, PublishInv
<1>2. ASSUME NEW c \in Clients, httpStep(c) PROVE HTTPInv'
  <2>1. ASSUME NEW r, middlewareRefuses(c, r) \/ readBodyFails(c, r) \/ readBody(c, r)
        PROVE  HTTPInv'
    BY <2>1, MiddlewareInv, ReadFailsInv, ReadInv
  <2>2. CASE interceptStep(c)
    BY <2>2, InterceptInv
  <2>3. CASE writeError(c)
    BY <2>3, WriteErrorInv
  <2>4. CASE nodeAnswers(c)
    BY <2>4, NodeAnswersInv
  <2>5. CASE badGateway(c)
    BY <2>5, BadGatewayInv
  <2>6. CASE copyEnds(c)
    BY <2>6, CopyEndsInv
  <2>7. CASE nextRequest(c)
    BY <2>7, NextRequestInv
  <2>8. CASE panics(c)
    BY <2>8, PanicsInv
  <2> QED
    BY <1>2, <2>1, <2>2, <2>3, <2>4, <2>5, <2>6, <2>7, <2>8 DEF httpStep
<1>3. CASE UNCHANGED httpVars
  BY <1>3 DEF httpVars, interceptorVars, HTTPInv
<1> QED
  BY <1>1, <1>2, <1>3 DEF HTTPNext

\* The inductive invariant holds for any number of clients.
THEOREM HTTPInvariant == HTTPSpec => []HTTPInv
BY InitInv, NextInv, PTL DEF HTTPSpec

\* The tag never moves backwards for clients: InterceptRequest and
\* InterceptBatchRequests read the store when the payload is there, and the store's
\* number only grows.
THEOREM HTTPNeverBehind == HTTPSpec => []NeverBehindEarlierAnswer
<1>1. HTTPInv => NeverBehindEarlierAnswer
  BY DEF HTTPInv, Together, NeverBehindEarlierAnswer
<1> QED
  BY <1>1, HTTPInvariant, PTL

\* What reaches the full node passed every middleware, and MaxBytesReader too.
THEOREM HTTPOnlyChecked == HTTPSpec => []OnlyCheckedReachesNode
<1>1. ASSUME NEW r, HTTPRPCMiddlewares(r) = passed PROVE r.method = "POST" /\ r.contentType = "json"
  BY <1>1 DEF HTTPRPCMiddlewares, MethodIs, RequestBodySizeLimiter, ContentTypeIsJSONRPC, passed
<1>2. HTTPInv => OnlyCheckedReachesNode
  BY <1>1 DEF HTTPInv, Together, OnlyCheckedReachesNode, readsWhole
<1> QED
  BY <1>2, HTTPInvariant, PTL

\* Every exchange ends in one answer, and one that has its cause, whatever panics and
\* whatever fails.
THEOREM HTTPAnsweredOnce == HTTPSpec => []AnsweredOnce
<1>1. HTTPInv => AnsweredOnce
  BY DEF HTTPInv, Together, AnsweredOnce
<1> QED
  BY <1>1, HTTPInvariant, PTL

-----------------------------------------------------------------------------
\* Induction.

\* The naturals are well-founded, which stands in for induction.
LEMMA LeastNatural ==
  ASSUME NEW T, T \subseteq Nat, T # {}
  PROVE  \E x \in T : \A y \in T : x <= y
<1> DEFINE R == OpToRel(<, Nat)
<1>1. IsWellFoundedOn(R, Nat)
  BY NatLessThanWellFounded, Zenon
<1>2. R = {ss \in Nat \X Nat : ss[1] < ss[2]}
  BY Zenon DEF OpToRel
<1> HIDE DEF R
<1>3. PICK x \in T : \A y \in T : ~ (<<y, x>> \in R)
  BY <1>1, WFMin, Zenon
<1>4. ASSUME NEW y \in T PROVE x <= y
  <2>1. ~ (<<y, x>> \in {ss \in Nat \X Nat : ss[1] < ss[2]})
    BY <1>2, <1>3, Zenon
  <2>2. <<y, x>>[1] = y /\ <<y, x>>[2] = x /\ <<y, x>> \in Nat \X Nat
    OBVIOUS
  <2> QED
    BY <2>1, <2>2
<1> QED
  BY <1>4

-----------------------------------------------------------------------------
\* The recursive definitions have solutions.

\* The loop over the elements of an array comes to an end.
LEMMA CopyDefined ==
  ASSUME NEW items, NEW r, Len(items) \in Nat
  PROVE  copy(items, r) =
           [j \in 0..Len(items) |->
              IF j = 0 THEN <<>> ELSE replaceElement(items, r, copy(items, r)[j - 1], j)]
<1> DEFINE Loop(f, k) == f = [j \in 0..k |->
             IF j = 0 THEN <<>> ELSE replaceElement(items, r, f[j - 1], j)]
           T == {k \in Nat : ~\E f : Loop(f, k)}
<1>1. T = {}
  <2>1. SUFFICES ASSUME T # {} PROVE FALSE
    OBVIOUS
  <2>2. PICK k \in T : \A y \in T : k <= y
    <3>1. T \subseteq Nat
      OBVIOUS
    <3> HIDE DEF T
    <3> QED
      BY <2>1, <3>1, LeastNatural, Zenon
  <2>3. k \in Nat /\ ~\E f : Loop(f, k)
    OBVIOUS
  <2>4. CASE k = 0
    <3>1. Loop([j \in 0..0 |-> <<>>], k)
      BY <2>4
    <3> QED
      BY <2>3, <3>1, Zenon
  <2>5. CASE k # 0
    <3>1. PICK f : Loop(f, k - 1)
      <4>1. k - 1 \in Nat /\ ~(k <= k - 1)
        BY <2>3, <2>5
      <4> QED
        BY <2>2, <4>1, Zenon
    <3> DEFINE g == [j \in 0..k |->
                       IF j = k THEN replaceElement(items, r, f[k - 1], k) ELSE f[j]]
    <3>2. ASSUME NEW j \in 0..k
          PROVE  g[j] = IF j = 0 THEN <<>> ELSE replaceElement(items, r, g[j - 1], j)
      <4>1. CASE j = k
        BY <2>3, <2>5, <4>1
      <4>2. CASE j # k
        BY <2>3, <2>5, <3>1, <4>2
      <4> QED
        BY <4>1, <4>2
    <3>3. g = [j \in 0..k |->
                 IF j = 0 THEN <<>> ELSE replaceElement(items, r, g[j - 1], j)]
      <4>1. g = [j \in 0..k |-> g[j]]
        OBVIOUS
      <4> HIDE DEF g
      <4> QED
        BY <3>2, <4>1, Zenon
    <3> QED
      BY <2>3, <3>3, Zenon
  <2> QED
    BY <2>4, <2>5
<1>2. \E f : Loop(f, Len(items))
  BY <1>1
<1> QED
  BY <1>2, Zenon DEF copy

\* replaceTagInParams comes back from its recursion, which ends at the depth limit.
LEMMA ReplaceAtDefined ==
  ASSUME NEW n
  PROVE  replaceAt(n) =
           [depth \in 0..(maxJSONDepth + 1) |->
              [params \in JSONValues |->
                 replaceTagInParams(params, n, depth, replaceAt(n)[depth + 1])]]
<1> USE DepthNatural
<1> DEFINE last == maxJSONDepth + 1
           Level(f, depth) == [params \in JSONValues |->
                                 replaceTagInParams(params, n, depth, f[depth + 1])]
           Down(f, k) == f = [depth \in 0..last |->
                                IF depth + k >= last THEN Level(f, depth) ELSE <<>>]
           T == {k \in Nat : ~\E f : Down(f, k)}
<1>1. T = {}
  <2>1. SUFFICES ASSUME T # {} PROVE FALSE
    OBVIOUS
  <2>2. PICK k \in T : \A y \in T : k <= y
    <3>1. T \subseteq Nat
      OBVIOUS
    <3> HIDE DEF T
    <3> QED
      BY <2>1, <3>1, LeastNatural, Zenon
  <2>3. k \in Nat /\ ~\E f : Down(f, k)
    OBVIOUS
  <2>4. CASE k = 0
    <3> DEFINE g == [depth \in 0..last |->
                       IF depth = last THEN [params \in JSONValues |-> failure] ELSE <<>>]
    <3>1. Level(g, last) = [params \in JSONValues |-> failure]
      <4>1. \A params, deeper : replaceTagInParams(params, n, last, deeper) = failure
        BY DEF replaceTagInParams
      <4> HIDE DEF last
      <4> QED
        BY <4>1, Zenon
    <3>2. ASSUME NEW depth \in 0..last
          PROVE  g[depth] = IF depth + k >= last THEN Level(g, depth) ELSE <<>>
      <4>1. g[depth] = IF depth = last THEN [params \in JSONValues |-> failure] ELSE <<>>
        OBVIOUS
      <4>2. depth + k >= last <=> depth = last
        BY <2>4
      <4> HIDE DEF g, Level, last
      <4> QED
        BY <3>1, <4>1, <4>2, Zenon
    <3>3. g = [depth \in 0..last |-> g[depth]]
      OBVIOUS
    <3>4. Down(g, k)
      <4> HIDE DEF g, Level
      <4> QED
        BY <3>2, <3>3, Zenon
    <3> QED
      BY <2>3, <3>4, Zenon
  <2>5. CASE k # 0
    <3>1. PICK f : Down(f, k - 1)
      <4>1. k - 1 \in Nat /\ ~(k <= k - 1)
        BY <2>3, <2>5
      <4> QED
        BY <2>2, <4>1, Zenon
    <3>2. CASE k > last
      <4>1. Down(f, k)
        <5> HIDE DEF Level
        <5>1. \A depth \in 0..last : depth + k >= last /\ depth + (k - 1) >= last
          BY <2>3, <3>2
        <5> QED
          BY <3>1, <5>1, Zenon
      <4> QED
        BY <2>3, <4>1
    <3>3. CASE k <= last
      <4> DEFINE d == last - k
                 g == [f EXCEPT ![d] = Level(f, d)]
      <4>1. d \in 0..last /\ d + k = last /\ DOMAIN f = 0..last
        BY <2>3, <3>1, <3>3
      <4>2. \A depth \in 0..last : depth >= d => g[depth + 1] = f[depth + 1]
        BY <4>1
      <4>3. \A depth \in 0..last : depth >= d => Level(g, depth) = Level(f, depth)
        <5> HIDE DEF g, d, last
        <5> QED
          BY <4>2, Zenon
      <4>4. ASSUME NEW depth \in 0..last
            PROVE  g[depth] = IF depth + k >= last THEN Level(g, depth) ELSE <<>>
        <5> HIDE DEF Level
        <5>1. CASE depth = d
          BY <4>1, <4>3, <5>1
        <5>2. CASE depth # d
          <6>1. g[depth] = f[depth]
            BY <4>1, <5>2
          <6>2. depth + k >= last <=> depth + (k - 1) >= last
            BY <2>3, <4>1, <5>2
          <6>3. depth + k >= last => depth >= d
            BY <2>3, <4>1
          <6> HIDE DEF d, g
          <6> QED
            BY <3>1, <4>3, <6>1, <6>2, <6>3, Zenon
        <5> QED
          BY <5>1, <5>2
      <4>5. g = [depth \in 0..last |-> g[depth]]
        BY <4>1, Zenon
      <4>6. Down(g, k)
        <5> HIDE DEF g, Level, d
        <5> QED
          BY <4>4, <4>5, Zenon
      <4> QED
        BY <2>3, <4>6, Zenon
    <3> QED
      BY <2>3, <3>2, <3>3
  <2> QED
    BY <2>4, <2>5
<1>2. PICK f : Down(f, last)
  BY <1>1
<1>3. f = [depth \in 0..last |-> Level(f, depth)]
  <2>1. \A depth \in 0..last : depth + last >= last
    OBVIOUS
  <2> HIDE DEF Level
  <2> QED
    BY <1>2, <2>1, Zenon
<1>4. \E h : h = [depth \in 0..(maxJSONDepth + 1) |->
                   [params \in JSONValues |-> replaceTagInParams(params, n, depth, h[depth + 1])]]
  BY <1>3
<1> QED
  BY <1>4, Zenon DEF replaceAt

\* The reference is defined for every value: it goes no deeper than the value does.
ResolvedUpTo(n, k, f) ==
  f = [v \in JSONValues |->
         IF nesting(v) > k THEN v
         ELSE IF v = tag THEN hex(n)
         ELSE [v EXCEPT !.items = [i \in DOMAIN v.items |-> f[v.items[i]]]]]

LEMMA ItemsAreValues ==
  ASSUME NEW v \in JSONValues, NEW i \in DOMAIN v.items
  PROVE  v.items[i] \in JSONValues /\ nesting(v) \in Nat /\ nesting(v.items[i]) \in Nat
         /\ nesting(v.items[i]) < nesting(v)
<1>1. v \in [kind : STRING, number : Nat, items : Seq(JSONValues)]
  BY ValuesAreTrees
<1>2. v.items[i] \in JSONValues
  BY <1>1
<1> QED
  BY <1>2, ValuesAreTrees

\* Two solutions agree on what both resolve.
LEMMA ResolvedAgree ==
  ASSUME NEW n, NEW k \in Nat, NEW l \in Nat, k <= l, NEW f, NEW g,
         ResolvedUpTo(n, k, f), ResolvedUpTo(n, l, g)
  PROVE  \A v \in JSONValues : nesting(v) <= k => f[v] = g[v]
<1> DEFINE T == {m \in Nat : \E v \in JSONValues : nesting(v) = m /\ m <= k /\ f[v] # g[v]}
<1>1. SUFFICES ASSUME T # {} PROVE FALSE
  BY ValuesAreTrees
<1>2. PICK m \in T : \A y \in T : m <= y
  <2>1. T \subseteq Nat
    OBVIOUS
  <2> HIDE DEF T
  <2> QED
    BY <1>1, <2>1, LeastNatural, Zenon
<1>3. PICK v \in JSONValues : nesting(v) = m /\ m <= k /\ f[v] # g[v]
  OBVIOUS
<1>4. ASSUME NEW i \in DOMAIN v.items PROVE f[v.items[i]] = g[v.items[i]]
  <2>1. v.items[i] \in JSONValues /\ nesting(v.items[i]) \in Nat /\ nesting(v.items[i]) < m
    BY <1>3, ItemsAreValues
  <2>2. ~(m <= nesting(v.items[i])) /\ nesting(v.items[i]) <= k
    BY <1>3, <2>1
  <2> QED
    BY <1>2, <2>1, <2>2
<1>5. [i \in DOMAIN v.items |-> f[v.items[i]]] = [i \in DOMAIN v.items |-> g[v.items[i]]]
  BY <1>4, Zenon
<1>6. ~(nesting(v) > k) /\ ~(nesting(v) > l)
  BY <1>2, <1>3
<1>7. f[v] = IF v = tag THEN hex(n)
             ELSE [v EXCEPT !.items = [i \in DOMAIN v.items |-> f[v.items[i]]]]
  BY <1>6, Zenon DEF ResolvedUpTo
<1>8. g[v] = IF v = tag THEN hex(n)
             ELSE [v EXCEPT !.items = [i \in DOMAIN v.items |-> g[v.items[i]]]]
  BY <1>6, Zenon DEF ResolvedUpTo
<1> QED
  BY <1>3, <1>5, <1>7, <1>8, Zenon

LEMMA ResolvedUpToAll ==
  ASSUME NEW n
  PROVE  \A k \in Nat : \E f : ResolvedUpTo(n, k, f)
<1> DEFINE T == {k \in Nat : ~\E f : ResolvedUpTo(n, k, f)}
<1>1. SUFFICES ASSUME T # {} PROVE FALSE
  OBVIOUS
<1>2. PICK k \in T : \A y \in T : k <= y
  <2>1. T \subseteq Nat
    OBVIOUS
  <2> HIDE DEF T
  <2> QED
    BY <1>1, <2>1, LeastNatural, Zenon
<1>3. k \in Nat /\ ~\E f : ResolvedUpTo(n, k, f)
  OBVIOUS
<1> DEFINE next(f) == [v \in JSONValues |->
                         IF nesting(v) > k THEN v
                         ELSE IF v = tag THEN hex(n)
                         ELSE [v EXCEPT !.items = [i \in DOMAIN v.items |-> f[v.items[i]]]]]
<1>4. ASSUME NEW f, \A v \in JSONValues : nesting(v) < k => next(f)[v] = f[v]
      PROVE  FALSE
  <2> DEFINE g == next(f)
  <2>1. ASSUME NEW v \in JSONValues, ~(nesting(v) > k)
        PROVE  [i \in DOMAIN v.items |-> g[v.items[i]]] = [i \in DOMAIN v.items |-> f[v.items[i]]]
    <3>1. ASSUME NEW i \in DOMAIN v.items PROVE g[v.items[i]] = f[v.items[i]]
      <4>1. v.items[i] \in JSONValues /\ nesting(v.items[i]) < k
        BY <1>3, <2>1, ItemsAreValues
      <4> HIDE DEF next
      <4> QED
        BY <1>4, <4>1
    <3> HIDE DEF g
    <3> QED
      BY <3>1, Zenon
  <2>2. \A v \in JSONValues :
          g[v] = IF nesting(v) > k THEN v
                 ELSE IF v = tag THEN hex(n)
                 ELSE [v EXCEPT !.items = [i \in DOMAIN v.items |-> f[v.items[i]]]]
    BY Zenon
  <2>3. g = [v \in JSONValues |-> g[v]]
    BY Zenon
  <2> HIDE DEF g, next
  <2>4. \A v \in JSONValues :
          g[v] = IF nesting(v) > k THEN v
                 ELSE IF v = tag THEN hex(n)
                 ELSE [v EXCEPT !.items = [i \in DOMAIN v.items |-> g[v.items[i]]]]
    BY <2>1, <2>2, Zenon
  <2>5. ResolvedUpTo(n, k, g)
    BY <2>3, <2>4, Zenon DEF ResolvedUpTo
  <2> QED
    BY <1>3, <2>5
<1>5. CASE k = 0
  <2>1. ~\E v \in JSONValues : nesting(v) < k
    BY <1>5, ValuesAreTrees
  <2> HIDE DEF next
  <2> QED
    BY <1>4, <2>1, Zenon
<1>6. CASE k # 0
  <2>1. k - 1 \in Nat /\ ~(k <= k - 1) /\ k - 1 <= k
    BY <1>3, <1>6
  <2>2. PICK f : ResolvedUpTo(n, k - 1, f)
    BY <1>2, <2>1, Zenon
  <2>3. ASSUME NEW v \in JSONValues, nesting(v) < k PROVE next(f)[v] = f[v]
    <3>1. ~(nesting(v) > k) /\ ~(nesting(v) > k - 1)
      BY <1>3, <2>3, ValuesAreTrees
    <3>2. f[v] = IF v = tag THEN hex(n)
                 ELSE [v EXCEPT !.items = [i \in DOMAIN v.items |-> f[v.items[i]]]]
      BY <2>2, <3>1, Zenon DEF ResolvedUpTo
    <3> QED
      BY <3>1, <3>2, Zenon
  <2> HIDE DEF next
  <2> QED
    BY <1>4, <2>3, Zenon
<1> QED
  BY <1>5, <1>6

LEMMA ResolveDefined ==
  ASSUME NEW n, NEW v \in JSONValues
  PROVE  resolve(v, n) =
           IF v = tag THEN hex(n)
           ELSE [v EXCEPT !.items = [i \in DOMAIN v.items |-> resolve(v.items[i], n)]]
<1> DEFINE up(k) == CHOOSE f : ResolvedUpTo(n, k, f)
           F == [w \in JSONValues |-> up(nesting(w))[w]]
<1>1. \A k \in Nat : ResolvedUpTo(n, k, up(k))
  BY ResolvedUpToAll, Zenon
<1> HIDE DEF up
<1>2. ASSUME NEW w \in JSONValues
      PROVE  F[w] = IF w = tag THEN hex(n)
                    ELSE [w EXCEPT !.items = [i \in DOMAIN w.items |-> F[w.items[i]]]]
  <2> DEFINE f == up(nesting(w))
  <2>1. nesting(w) \in Nat /\ ~(nesting(w) > nesting(w))
    BY ValuesAreTrees
  <2>2. ResolvedUpTo(n, nesting(w), f)
    BY <1>1, <2>1, Zenon
  <2>3. ASSUME NEW i \in DOMAIN w.items PROVE F[w.items[i]] = f[w.items[i]]
    <3>1. /\ w.items[i] \in JSONValues /\ nesting(w.items[i]) \in Nat
          /\ nesting(w.items[i]) <= nesting(w) /\ nesting(w.items[i]) <= nesting(w.items[i])
      BY ItemsAreValues
    <3>2. ResolvedUpTo(n, nesting(w.items[i]), up(nesting(w.items[i])))
      BY <1>1, <3>1, Zenon
    <3>3. up(nesting(w.items[i]))[w.items[i]] = f[w.items[i]]
      <4> DEFINE k == nesting(w.items[i])
                 g == up(k)
      <4> HIDE DEF f, g
      <4>1. \A u \in JSONValues : nesting(u) <= k => g[u] = f[u]
        <5>1. k \in Nat /\ k <= nesting(w) /\ ResolvedUpTo(n, k, g)
          BY <3>1, <3>2 DEF g
        <5> HIDE DEF k
        <5> QED
          BY <2>1, <2>2, <5>1, ResolvedAgree
      <4>2. g[w.items[i]] = f[w.items[i]]
        BY <3>1, <4>1
      <4> QED
        BY <4>2 DEF g
    <3> HIDE DEF f
    <3> QED
      BY <3>1, <3>3, Zenon
  <2>4. F[w] = f[w]
    BY Zenon
  <2> HIDE DEF F, f
  <2>5. [i \in DOMAIN w.items |-> F[w.items[i]]] = [i \in DOMAIN w.items |-> f[w.items[i]]]
    BY <2>3, Zenon
  <2>6. f[w] = IF w = tag THEN hex(n)
               ELSE [w EXCEPT !.items = [i \in DOMAIN w.items |-> f[w.items[i]]]]
    BY <2>1, <2>2, Zenon DEF ResolvedUpTo
  <2> QED
    BY <2>4, <2>5, <2>6, Zenon
<1>3. F = [w \in JSONValues |-> F[w]]
  BY Zenon
<1> HIDE DEF F
<1>4. F = [w \in JSONValues |->
             IF w = tag THEN hex(n)
             ELSE [w EXCEPT !.items = [i \in DOMAIN w.items |-> F[w.items[i]]]]]
  BY <1>2, <1>3, Zenon
<1>5. \E f : f = [w \in JSONValues |->
             IF w = tag THEN hex(n)
             ELSE [w EXCEPT !.items = [i \in DOMAIN w.items |-> f[w.items[i]]]]]
  BY <1>4, Zenon
<1>6. resolveAll(n) = [w \in JSONValues |->
             IF w = tag THEN hex(n)
             ELSE [w EXCEPT !.items = [i \in DOMAIN w.items |-> resolveAll(n)[w.items[i]]]]]
  BY <1>5, Zenon DEF resolveAll
<1> QED
  BY <1>6, Zenon DEF resolve

-----------------------------------------------------------------------------
\* What the replacement returns.

\* The copy past element j: none before an element changed, and from then on every
\* element up to j is there, changed or not.
CopiedTo(items, r, j) ==
  IF \E i \in 1..j : r[i].changed
  THEN [i \in 1..Len(items) |->
          IF i > j THEN null ELSE IF r[i].changed THEN r[i].params ELSE items[i]]
  ELSE <<>>

LEMMA CopyNext ==
  ASSUME NEW items, NEW r, Len(items) \in Nat, NEW j \in 1..Len(items)
  PROVE  replaceElement(items, r, CopiedTo(items, r, j - 1), j) = CopiedTo(items, r, j)
<1> DEFINE before == \E i \in 1..(j - 1) : r[i].changed
           now == \E i \in 1..j : r[i].changed
           old == [i \in 1..Len(items) |->
                     IF i > j - 1 THEN null ELSE IF r[i].changed THEN r[i].params ELSE items[i]]
           new == [i \in 1..Len(items) |->
                     IF i > j THEN null ELSE IF r[i].changed THEN r[i].params ELSE items[i]]
           fresh == [i \in 1..Len(items) |-> IF i < j THEN items[i] ELSE null]
<1>1. now <=> before \/ r[j].changed
  OBVIOUS
<1>2. old # <<>>
  OBVIOUS
<1>a. \A i \in 1..Len(items) : i # j => (i > j - 1 <=> i > j) /\ (~(i > j) <=> i < j)
  OBVIOUS
<1>b. j \in 1..Len(items) /\ j > j - 1 /\ ~(j > j)
  OBVIOUS
<1>3. CASE before
  <2>1. CopiedTo(items, r, j - 1) = old /\ CopiedTo(items, r, j) = new
    BY <1>1, <1>3 DEF CopiedTo
  <2>2. CASE r[j].changed
    <3>1. [old EXCEPT ![j] = r[j].params] = new
      <4>1. \A i \in 1..Len(items) : [old EXCEPT ![j] = r[j].params][i] = new[i]
        BY <1>a, <1>b, <2>2
      <4> QED
        BY <4>1, Zenon
    <3> QED
      BY <1>2, <2>1, <2>2, <3>1, Zenon DEF replaceElement
  <2>3. CASE ~r[j].changed
    <3>1. [old EXCEPT ![j] = items[j]] = new
      <4>1. \A i \in 1..Len(items) : [old EXCEPT ![j] = items[j]][i] = new[i]
        BY <1>a, <1>b, <2>3
      <4> QED
        BY <4>1, Zenon
    <3> QED
      BY <1>2, <2>1, <2>3, <3>1 DEF replaceElement
  <2> QED
    BY <2>2, <2>3
<1>4. CASE ~before
  <2>1. CopiedTo(items, r, j - 1) = <<>>
    BY <1>4 DEF CopiedTo
  <2>2. CASE r[j].changed
    <3>1. CopiedTo(items, r, j) = new
      BY <1>1, <2>2 DEF CopiedTo
    <3>2. [fresh EXCEPT ![j] = r[j].params] = new
      <4>1. \A i \in 1..Len(items) : i # j /\ ~(i > j) => ~r[i].changed
        BY <1>4
      <4>2. \A i \in 1..Len(items) : [fresh EXCEPT ![j] = r[j].params][i] = new[i]
        BY <1>a, <1>b, <2>2, <4>1
      <4> QED
        BY <4>2, Zenon
    <3> QED
      BY <2>1, <2>2, <3>1, <3>2 DEF replaceElement
  <2>3. CASE ~r[j].changed
    <3>1. CopiedTo(items, r, j) = <<>>
      BY <1>1, <1>4, <2>3 DEF CopiedTo
    <3> QED
      BY <2>1, <2>3, <3>1 DEF replaceElement
  <2> QED
    BY <2>2, <2>3
<1> QED
  BY <1>3, <1>4

\* The loop leaves a copy with every element in its place, if one of them changed.
LEMMA CopyComplete ==
  ASSUME NEW items, NEW r, Len(items) \in Nat
  PROVE  copy(items, r)[Len(items)] = CopiedTo(items, r, Len(items))
<1> DEFINE T == {j \in Nat : j <= Len(items) /\ copy(items, r)[j] # CopiedTo(items, r, j)}
<1>1. SUFFICES ASSUME T # {} PROVE FALSE
  OBVIOUS
<1>2. PICK j \in T : \A y \in T : j <= y
  <2>1. T \subseteq Nat
    OBVIOUS
  <2> HIDE DEF T
  <2> QED
    BY <1>1, <2>1, LeastNatural, Zenon
<1>3. j \in Nat /\ j <= Len(items) /\ copy(items, r)[j] # CopiedTo(items, r, j)
  OBVIOUS
<1>4. copy(items, r)[j] =
        IF j = 0 THEN <<>> ELSE replaceElement(items, r, copy(items, r)[j - 1], j)
  <2>1. j \in 0..Len(items)
    BY <1>3
  <2> QED
    BY <2>1, CopyDefined
<1>5. CASE j = 0
  BY <1>3, <1>4, <1>5 DEF CopiedTo
<1>6. CASE j # 0
  <2>1. j - 1 \in Nat /\ j - 1 <= Len(items) /\ ~(j <= j - 1) /\ j \in 1..Len(items)
    BY <1>3, <1>6
  <2>2. copy(items, r)[j - 1] = CopiedTo(items, r, j - 1)
    <3>1. j - 1 \notin T
      BY <1>2, <2>1
    <3> QED
      BY <2>1, <3>1
  <2>3. copy(items, r)[j] = replaceElement(items, r, CopiedTo(items, r, j - 1), j)
    BY <1>4, <1>6, <2>2, Zenon
  <2> QED
    BY <1>3, <2>1, <2>3, CopyNext
<1> QED
  BY <1>5, <1>6

\* An array is replaced as an object is: the order of its elements makes no difference.
LEMMA ArrayReplaced ==
  ASSUME NEW items, NEW deeper, Len(items) \in Nat,
         \A i \in 1..Len(items) : ~deeper[items[i]].failed
  PROVE  replaceInArray(items, deeper) =
           IF \E i \in 1..Len(items) : deeper[items[i]].changed
           THEN replaced(array([i \in 1..Len(items) |->
                   IF deeper[items[i]].changed THEN deeper[items[i]].params ELSE items[i]]))
           ELSE unchanged(array(items))
<1> DEFINE r == [j \in 1..Len(items) |-> deeper[items[j]]]
           whole == [i \in 1..Len(items) |->
                       IF deeper[items[i]].changed THEN deeper[items[i]].params ELSE items[i]]
<1>1. \A i \in 1..Len(items) : r[i] = deeper[items[i]]
  OBVIOUS
<1> HIDE DEF r
<1>2. CopiedTo(items, r, Len(items)) =
        IF \E i \in 1..Len(items) : deeper[items[i]].changed THEN whole ELSE <<>>
  <2>1. [i \in 1..Len(items) |-> IF i > Len(items) THEN null
                                 ELSE IF r[i].changed THEN r[i].params ELSE items[i]] = whole
    BY <1>1
  <2> QED
    BY <1>1, <2>1 DEF CopiedTo
<1>3. (\E i \in 1..Len(items) : deeper[items[i]].changed) => whole # <<>>
  OBVIOUS
<1>4. replaceInArray(items, deeper) =
        IF CopiedTo(items, r, Len(items)) = <<>> THEN unchanged(array(items))
        ELSE replaced(array(CopiedTo(items, r, Len(items))))
  <2>1. copy(items, r)[Len(items)] = CopiedTo(items, r, Len(items))
    BY CopyComplete
  <2>2. ~\E j \in 1..Len(items) : r[j].failed
    BY <1>1
  <2> QED
    BY <2>1, <2>2, Zenon DEF replaceInArray, r
<1> QED
  BY <1>2, <1>3, <1>4

\* The replacement of a value at some depth is right: it fails if and only if the value
\* reaches below the limit, and otherwise what it returns is the value with every tag
\* in it resolved, or the word that there is none.
Rightly(result, v, n, depth) ==
  /\ result.failed <=> depth + nesting(v) > maxJSONDepth
  /\ ~result.failed => IF result.changed THEN result.params = resolve(v, n)
                       ELSE resolve(v, n) = v

\* The value with its items replaced, those that changed.
LEMMA ItemsResolved ==
  ASSUME NEW v \in JSONValues, v # tag, NEW n, NEW deeper,
         \A i \in DOMAIN v.items :
           IF deeper[v.items[i]].changed THEN deeper[v.items[i]].params = resolve(v.items[i], n)
           ELSE resolve(v.items[i], n) = v.items[i]
  PROVE  /\ resolve(v, n) = [v EXCEPT !.items = [i \in 1..Len(v.items) |->
                               IF deeper[v.items[i]].changed THEN deeper[v.items[i]].params
                               ELSE v.items[i]]]
         /\ (\A i \in 1..Len(v.items) : ~deeper[v.items[i]].changed) => resolve(v, n) = v
<1>1. v \in [kind : STRING, number : Nat, items : Seq(JSONValues)]
  BY ValuesAreTrees
<1>2. DOMAIN v.items = 1..Len(v.items) /\ v.items = [i \in 1..Len(v.items) |-> v.items[i]]
  BY <1>1
<1> DEFINE whole == [i \in 1..Len(v.items) |->
                       IF deeper[v.items[i]].changed THEN deeper[v.items[i]].params
                       ELSE v.items[i]]
<1>3. [i \in DOMAIN v.items |-> resolve(v.items[i], n)] = whole
  BY <1>2, Zenon
<1>4. resolve(v, n) = [v EXCEPT !.items = whole]
  <2>1. resolve(v, n) =
          [v EXCEPT !.items = [i \in DOMAIN v.items |-> resolve(v.items[i], n)]]
    BY ResolveDefined
  <2> HIDE DEF whole
  <2> QED
    BY <1>3, <2>1, Zenon
<1>5. ASSUME \A i \in 1..Len(v.items) : ~deeper[v.items[i]].changed PROVE resolve(v, n) = v
  <2>1. whole = v.items
    BY <1>2, <1>5, Zenon
  <2> HIDE DEF whole
  <2> QED
    BY <1>1, <1>4, <2>1
<1> QED
  BY <1>4, <1>5, Zenon

LEMMA ReplacedAtDepth ==
  ASSUME NEW depth \in 0..maxJSONDepth, NEW v \in JSONValues, NEW n, NEW deeper,
         \A w \in JSONValues : Rightly(deeper[w], w, n, depth + 1)
  PROVE  Rightly(replaceTagInParams(v, n, depth, deeper), v, n, depth)
<1> USE DepthNatural
<1> DEFINE result == replaceTagInParams(v, n, depth, deeper)
           items == v.items
           bad == \E i \in 1..Len(items) : deeper[items[i]].failed
           some == \E i \in 1..Len(items) : deeper[items[i]].changed
           whole == [i \in 1..Len(items) |->
                       IF deeper[items[i]].changed THEN deeper[items[i]].params ELSE items[i]]
<1>1. /\ v \in [kind : STRING, number : Nat, items : Seq(JSONValues)]
      /\ items # <<>> => v.kind \in {"array", "object"}
      /\ v.number # 0 => v.kind = "hex"
      /\ nesting(v) \in Nat
  BY ValuesAreTrees
<1>2. DOMAIN items = 1..Len(items) /\ Len(items) \in Nat
  BY <1>1
<1>3. ~(depth > maxJSONDepth)
  OBVIOUS
<1>4. ASSUME NEW i \in 1..Len(items)
      PROVE  items[i] \in JSONValues /\ nesting(items[i]) \in Nat /\ nesting(items[i]) < nesting(v)
  BY <1>2, ItemsAreValues
<1>5. bad <=> depth + nesting(v) > maxJSONDepth
  <2>1. ASSUME NEW i \in 1..Len(items), deeper[items[i]].failed
        PROVE  depth + nesting(v) > maxJSONDepth
    <3>1. depth + 1 + nesting(items[i]) > maxJSONDepth
      BY <1>4, <2>1 DEF Rightly
    <3> QED
      BY <1>1, <1>4, <3>1
  <2>2. ASSUME depth + nesting(v) > maxJSONDepth PROVE bad
    <3>1. nesting(v) # 0
      BY <2>2, <1>1
    <3>2. PICK i \in 1..Len(items) : nesting(v) = nesting(items[i]) + 1
      BY <1>2, <3>1, ValuesAreTrees, Zenon
    <3>3. depth + 1 + nesting(items[i]) > maxJSONDepth
      BY <1>4, <2>2, <3>2
    <3> QED
      BY <1>4, <3>3, Zenon DEF Rightly
  <2> QED
    BY <2>1, <2>2
<1>6. CASE v = tag
  <2>1. result = replaced(hex(n)) /\ resolve(v, n) = hex(n)
    BY <1>3, <1>6, ResolveDefined DEF replaceTagInParams
  <2>2. Len(items) = 0
    BY <1>6 DEF tag
  <2>3. ~bad
    BY <2>2
  <2> QED
    BY <1>5, <2>1, <2>3 DEF Rightly, replaced
<1>7. CASE v # tag /\ bad
  <2>1. items # <<>>
    BY <1>7
  <2>2. result = failure
    <3>1. v.kind = "object" => replaceInObject(items, deeper) = failure
      BY <1>7 DEF replaceInObject
    <3>2. v.kind = "array" => replaceInArray(items, deeper) = failure
      BY <1>7 DEF replaceInArray
    <3>3. v.kind = "array" \/ v.kind = "object"
      BY <1>1, <2>1
    <3>4. v # tag
      BY <1>7
    <3> HIDE DEF bad
    <3> QED
      BY <1>3, <3>1, <3>2, <3>3, <3>4, ZenonT(30) DEF replaceTagInParams
  <2> QED
    BY <1>5, <1>7, <2>2 DEF Rightly, failure
<1>8. CASE v # tag /\ ~bad
  <2>1. \A i \in DOMAIN items :
          IF deeper[items[i]].changed THEN deeper[items[i]].params = resolve(items[i], n)
          ELSE resolve(items[i], n) = items[i]
    BY <1>2, <1>4, <1>8 DEF Rightly
  <2>2. /\ resolve(v, n) = [v EXCEPT !.items = whole]
        /\ ~some => resolve(v, n) = v
    BY <1>8, <2>1, ItemsResolved
  <2>3. ASSUME v.kind \in {"array", "object"}
        PROVE  result = IF some THEN replaced([v EXCEPT !.items = whole]) ELSE unchanged(v)
    <3>1. [v EXCEPT !.items = whole] =
            IF v.kind = "array" THEN array(whole) ELSE object(whole)
      <4> HIDE DEF whole
      <4> QED
        BY <1>1, <2>3 DEF array, object
    <3>2. v = IF v.kind = "array" THEN array(items) ELSE object(items)
      BY <1>1, <2>3 DEF array, object
    <3>3. CASE v.kind = "array"
      <4>1. replaceInArray(items, deeper) =
              IF some THEN replaced(array(whole)) ELSE unchanged(array(items))
        BY <1>2, <1>8, ArrayReplaced
      <4>2. result = replaceInArray(items, deeper)
        BY <1>3, <1>8, <3>3 DEF replaceTagInParams
      <4> HIDE DEF result, some, whole, items
      <4> QED
        BY <3>1, <3>2, <3>3, <4>1, <4>2
    <3>4. CASE v.kind = "object"
      <4>1. replaceInObject(items, deeper) =
              IF some THEN replaced(object(whole)) ELSE unchanged(object(items))
        BY <1>2, <1>8, Zenon DEF replaceInObject
      <4>2. result = replaceInObject(items, deeper)
        BY <1>3, <1>8, <3>4 DEF replaceTagInParams
      <4> HIDE DEF result, some, whole, items
      <4> QED
        BY <3>1, <3>2, <3>4, <4>1, <4>2
    <3> QED
      BY <2>3, <3>3, <3>4
  <2>4. ASSUME v.kind \notin {"array", "object"}
        PROVE  result = unchanged(v) /\ ~some
    <3>1. result = unchanged(v)
      BY <1>3, <1>8, <2>4 DEF replaceTagInParams
    <3>2. items = <<>>
      BY <1>1, <2>4
    <3> QED
      BY <3>1, <3>2
  <2>5. Rightly(result, v, n, depth)
    <3> HIDE DEF result, whole, items, some, bad
    <3> QED
      BY <1>5, <1>8, <2>2, <2>3, <2>4 DEF Rightly, replaced, unchanged
  <2> QED
    BY <2>5
<1> QED
  BY <1>6, <1>7, <1>8

\* At every depth the recursion returns what it should.
THEOREM ReplacedEverywhere ==
  ASSUME NEW n
  PROVE  \A depth \in 0..(maxJSONDepth + 1) : \A v \in JSONValues :
           Rightly(replaceAt(n)[depth][v], v, n, depth)
<1> USE DepthNatural
<1> DEFINE last == maxJSONDepth + 1
           T == {k \in Nat : k <= last /\ \E v \in JSONValues :
                              ~Rightly(replaceAt(n)[last - k][v], v, n, last - k)}
<1>1. ASSUME T = {}, NEW depth \in 0..last, NEW v \in JSONValues
      PROVE  Rightly(replaceAt(n)[depth][v], v, n, depth)
  <2>1. last - depth \in Nat /\ last - depth <= last /\ last - (last - depth) = depth
    OBVIOUS
  <2> QED
    BY <1>1, <2>1, Zenon
<1>2. SUFFICES ASSUME T # {} PROVE FALSE
  BY <1>1
<1>3. PICK k \in T : \A y \in T : k <= y
  <2>1. T \subseteq Nat
    OBVIOUS
  <2> HIDE DEF T
  <2> QED
    BY <1>2, <2>1, LeastNatural, Zenon
<1> DEFINE d == last - k
<1>4. k \in Nat /\ k <= last /\ d \in 0..last
  OBVIOUS
<1>5. PICK v \in JSONValues : ~Rightly(replaceAt(n)[d][v], v, n, d)
  OBVIOUS
<1>6. replaceAt(n)[d][v] = replaceTagInParams(v, n, d, replaceAt(n)[d + 1])
  <2> HIDE DEF d
  <2>1. replaceAt(n) =
          [depth \in 0..last |->
             [params \in JSONValues |->
                replaceTagInParams(params, n, depth, replaceAt(n)[depth + 1])]]
    BY ReplaceAtDefined, Zenon
  <2> HIDE DEF last
  <2>2. replaceAt(n)[d] =
          [params \in JSONValues |-> replaceTagInParams(params, n, d, replaceAt(n)[d + 1])]
    BY <1>4, <2>1, Zenon
  <2> QED
    BY <2>2, Zenon
<1>7. CASE k = 0
  <2>1. d > maxJSONDepth
    BY <1>7
  <2>2. replaceAt(n)[d][v] = failure
    BY <1>6, <2>1 DEF replaceTagInParams
  <2>3. d + nesting(v) > maxJSONDepth
    BY <1>7, ValuesAreTrees
  <2> QED
    BY <1>5, <2>2, <2>3 DEF Rightly, failure
<1>8. CASE k # 0
  <2>1. k - 1 \in Nat /\ k - 1 <= last /\ ~(k <= k - 1) /\ last - (k - 1) = d + 1
        /\ d \in 0..maxJSONDepth
    BY <1>4, <1>8
  <2>2. \A w \in JSONValues : Rightly(replaceAt(n)[d + 1][w], w, n, d + 1)
    <3>1. k - 1 \notin T
      BY <1>3, <2>1
    <3> QED
      BY <2>1, <3>1
  <2>3. Rightly(replaceTagInParams(v, n, d, replaceAt(n)[d + 1]), v, n, d)
    <3> HIDE DEF d
    <3> QED
      BY <2>1, <2>2, ReplacedAtDepth
  <2> QED
    BY <1>5, <1>6, <2>3
<1> QED
  BY <1>7, <1>8

-----------------------------------------------------------------------------
\* The CORS middleware and the browser.

\* The answer to a preflight permits the request that the page wants to make.
Grants(answer) ==
  /\ corsCheck(answer.cors)
  /\ isSimpleMethod(wanted.method) \/ wanted.method \in answer.methods
  /\ wanted.headers \subseteq answer.headers

\* The page names a header that is not listed in an answer.
Unlisted == \E header \in wanted.headers : isSimpleHeader(header)

\* The answer to a preflight grants what is within the policy, and nothing else.
LEMMA PreflightByPolicy ==
  ASSUME CORSInv, NEW answer, answer = processPreflightRequest(origin, wanted.method, wanted.headers)
  PROVE  Grants(answer) <=> withinPolicy /\ ~Unlisted
<1>1. /\ config.credentials \in BOOLEAN /\ wanted.credentials \in BOOLEAN
      /\ origin # "none"
  BY PagesAndConfigs DEF CORSInv
<1>2. CASE /\ isOriginAllowed(origin) /\ isMethodAllowed(wanted.method)
           /\ \A header \in wanted.headers : isHeaderAllowed(header)
  <2>1. answer = [cors |-> appendAllowOrigin(origin),
                  methods |-> IF isSimpleMethod(wanted.method) THEN {}
                              ELSE IF config.methods = {} THEN {wanted.method} ELSE config.methods,
                  headers |-> {header \in wanted.headers : ~isSimpleHeader(header)}]
    BY <1>2 DEF processPreflightRequest
  <2>2. corsCheck(answer.cors) <=> (wanted.credentials => config.credentials)
    BY <1>1, <2>1 DEF corsCheck, appendAllowOrigin, corsWildcard
  <2>3. isSimpleMethod(wanted.method) \/ wanted.method \in answer.methods
    BY <1>2, <2>1 DEF isMethodAllowed
  <2>4. wanted.headers \subseteq answer.headers
          <=> ~\E header \in wanted.headers : isSimpleHeader(header)
    BY <2>1
  <2>5. (~\E header \in wanted.headers : isSimpleHeader(header)) =>
          config.headers = {} \/ wanted.headers \subseteq config.headers
    BY <1>2 DEF isHeaderAllowed
  <2>6. isSimpleMethod(wanted.method) \/ config.methods = {} \/ wanted.method \in config.methods
    BY <1>2 DEF isMethodAllowed
  <2> QED
    BY <1>2, <2>2, <2>3, <2>4, <2>5, <2>6 DEF withinPolicy, Grants, Unlisted
<1>3. CASE ~(/\ isOriginAllowed(origin) /\ isMethodAllowed(wanted.method)
             /\ \A header \in wanted.headers : isHeaderAllowed(header))
  <2>1. answer = noPermission
    BY <1>3 DEF processPreflightRequest
  <2>2. ~corsCheck(answer.cors)
    BY <1>1, <2>1 DEF corsCheck, noPermission, noHeaders, corsWildcard
  <2>3. ~withinPolicy
    BY <1>3 DEF withinPolicy, isMethodAllowed, isHeaderAllowed
  <2> QED
    BY <2>2, <2>3 DEF Grants
<1> QED
  BY <1>2, <1>3

\* The answer to any other request is shown to a page of an allowed origin, with
\* credentials if they are allowed.
LEMMA AnswerByPolicy ==
  ASSUME CORSInv
  PROVE  corsCheck(processSimpleCrossOriginRequest(origin))
           <=> isOriginAllowed(origin) /\ (wanted.credentials => config.credentials)
<1>1. /\ config.credentials \in BOOLEAN /\ wanted.credentials \in BOOLEAN
      /\ origin # "none"
  BY PagesAndConfigs DEF CORSInv
<1> QED
  BY <1>1 DEF corsCheck, processSimpleCrossOriginRequest, appendAllowOrigin, noHeaders, corsWildcard

\* Before the page does anything.
LEMMA CORSInitInv == CORSInit => CORSInv
<1> SUFFICES ASSUME CORSInit PROVE CORSInv
  OBVIOUS
<1>1. /\ config \in CORSConfigs /\ origin \in PageOrigins /\ permitted = {} /\ page = "idle"
      /\ wanted = [method |-> "GET", headers |-> {}, credentials |-> FALSE]
  BY DEF CORSInit
<1>2. wanted.credentials \in BOOLEAN
  BY <1>1
<1>3. PageServedByPolicy
  BY <1>1 DEF PageServedByPolicy
<1> QED
  BY <1>1, <1>2, <1>3 DEF CORSInv

\* A new request of the page: what it is permitted stays.
LEMMA PageFetchesInv ==
  ASSUME CORSInv, NEW request \in PageRequests, pageFetches(request) PROVE CORSInv'
<1>1. /\ UNCHANGED <<config, origin, permitted>> /\ wanted'.credentials \in BOOLEAN /\ page' = "asking"
  BY PagesAndConfigs DEF pageFetches
<1>2. isOriginAllowed(origin)' <=> isOriginAllowed(origin)
  BY <1>1 DEF isOriginAllowed
<1> QED
  BY <1>1, <1>2 DEF CORSInv, PageServedByPolicy

\* What the browser puts together from its cache is within the policy.
LEMMA SendsUnaskedInv == ASSUME CORSInv, sendsUnasked PROVE CORSInv'
<1>1. /\ UNCHANGED <<config, origin, wanted, permitted>> /\ page' = "sending"
      /\ isSimpleMethod(wanted.method) \/ <<wanted.credentials, "method", wanted.method>> \in permitted
      /\ \A header \in wanted.headers : <<wanted.credentials, "header", header>> \in permitted
  BY DEF sendsUnasked, unasked, cached
<1>2. /\ isOriginAllowed(origin)' <=> isOriginAllowed(origin)
      /\ withinPolicy' <=> withinPolicy
  BY <1>1 DEF isOriginAllowed, withinPolicy
<1>3. ~(isSimpleMethod(wanted.method) /\ wanted.headers = {}) => withinPolicy
  <2>1. ASSUME NEW kind, NEW name, <<wanted.credentials, kind, name>> \in permitted
        PROVE  /\ isOriginAllowed(origin) /\ (wanted.credentials => config.credentials)
               /\ kind = "method" => config.methods = {} \/ name \in config.methods
               /\ kind = "header" =>
                    ~isSimpleHeader(name) /\ (config.headers = {} \/ name \in config.headers)
    BY <2>1 DEF CORSInv
  <2>2. \A header \in wanted.headers :
          ~isSimpleHeader(header) /\ (config.headers = {} \/ header \in config.headers)
    BY <1>1, <2>1, Zenon
  <2>3. isSimpleMethod(wanted.method) \/ config.methods = {} \/ wanted.method \in config.methods
    BY <1>1, <2>1
  <2>4. ~(isSimpleMethod(wanted.method) /\ wanted.headers = {}) =>
          isOriginAllowed(origin) /\ (wanted.credentials => config.credentials)
    BY <1>1, <2>1, Zenon
  <2> QED
    BY <2>2, <2>3, <2>4 DEF withinPolicy
<1> QED
  BY <1>1, <1>2, <1>3 DEF CORSInv, PageServedByPolicy

\* A preflight is granted if and only if the request is within the policy, and what it
\* adds to the cache is within the policy too.
LEMMA ServeOptionsInv == ASSUME CORSInv, ServeOptions PROVE CORSInv'
<1>1. PICK answer : answer = processPreflightRequest(origin, wanted.method, wanted.headers)
  BY SMTT(30)
<1>2. /\ UNCHANGED <<config, origin, wanted>>
      /\ IF Grants(answer)
         THEN /\ page' = "sending"
              /\ permitted' = permitted
                   \cup {<<wanted.credentials, "method", m>> : m \in answer.methods}
                   \cup {<<wanted.credentials, "header", h>> : h \in answer.headers}
         ELSE page' = "blocked" /\ UNCHANGED permitted
  BY <1>1 DEF ServeOptions, Grants
<1>3. Grants(answer) <=> withinPolicy /\ ~Unlisted
  BY <1>1, PreflightByPolicy, ZenonT(30)
<1>4. /\ isOriginAllowed(origin)' <=> isOriginAllowed(origin)
      /\ withinPolicy' <=> withinPolicy
  BY <1>2, SMTT(30) DEF isOriginAllowed, withinPolicy
<1>5. CASE ~Grants(answer)
  BY <1>2, <1>3, <1>4, <1>5 DEF CORSInv, PageServedByPolicy, Unlisted
<1>6. CASE Grants(answer)
  <2>1. wanted.credentials \in BOOLEAN
    BY PagesAndConfigs DEF CORSInv
  <2>2. withinPolicy /\ ~Unlisted
    BY <1>3, <1>6, Zenon
  <2>3. /\ \A m \in answer.methods : config.methods = {} \/ m \in config.methods
        /\ answer.headers \subseteq wanted.headers
    BY <1>1, <2>1 DEF processPreflightRequest, noPermission
  <2>4. \A h \in answer.headers :
          ~isSimpleHeader(h) /\ (config.headers = {} \/ h \in config.headers)
    BY <2>1, <2>2, <2>3 DEF withinPolicy, Unlisted
  <2>5. isOriginAllowed(origin) /\ (wanted.credentials => config.credentials)
    BY <2>2 DEF withinPolicy
  <2>6. ASSUME NEW p \in permitted'
        PROVE  /\ p[1] => config.credentials
               /\ p[2] = "method" => config.methods = {} \/ p[3] \in config.methods
               /\ p[2] = "header" =>
                    ~isSimpleHeader(p[3]) /\ (config.headers = {} \/ p[3] \in config.headers)
    <3>1. CASE p \in permitted
      BY <3>1 DEF CORSInv
    <3>2. CASE \E m \in answer.methods : p = <<wanted.credentials, "method", m>>
      BY <2>1, <2>3, <2>5, <3>2
    <3>3. CASE \E h \in answer.headers : p = <<wanted.credentials, "header", h>>
      BY <2>1, <2>4, <2>5, <3>3
    <3> QED
      BY <1>2, <1>6, <2>6, <3>1, <3>2, <3>3
  <2>7. page' = "sending"
    BY <1>2, <1>6
  <2> QED
    BY <1>2, <1>4, <2>2, <2>5, <2>6, <2>7 DEF CORSInv, PageServedByPolicy, Unlisted
<1> QED
  BY <1>5, <1>6

\* The browser forgets what it was permitted, before or after it used it.
LEMMA PermissionExpiresInv == ASSUME CORSInv, permissionExpires PROVE CORSInv'
<1>1. UNCHANGED <<config, origin, wanted, page>> /\ permitted' = {}
  BY DEF permissionExpires
<1>2. withinPolicy' <=> withinPolicy
  BY <1>1 DEF isOriginAllowed, withinPolicy
<1> QED
  BY <1>1, <1>2 DEF CORSInv, PageServedByPolicy

\* The answer to the request proper: it is shown to the page, or withheld from it, by
\* the policy.
LEMMA ServeRequestInv == ASSUME CORSInv, ServeRequest PROVE CORSInv'
<1> DEFINE shown == isOriginAllowed(origin) /\ (wanted.credentials => config.credentials)
<1>1. /\ UNCHANGED <<config, origin, wanted, permitted>> /\ page = "sending"
      /\ page' = IF shown THEN "read" ELSE "blocked"
  BY AnswerByPolicy DEF ServeRequest
<1>2. /\ isOriginAllowed(origin)' <=> isOriginAllowed(origin)
      /\ withinPolicy' <=> withinPolicy
  BY <1>1 DEF isOriginAllowed, withinPolicy
<1>3. CASE isSimpleMethod(wanted.method) /\ wanted.headers = {}
  <2>1. shown <=> withinPolicy
    BY <1>3 DEF withinPolicy
  <2> QED
    BY <1>1, <1>2, <2>1 DEF CORSInv, PageServedByPolicy
<1>4. CASE ~(isSimpleMethod(wanted.method) /\ wanted.headers = {})
  <2>1. withinPolicy
    BY <1>1, <1>4 DEF CORSInv, PageServedByPolicy
  <2>2. shown
    BY <2>1 DEF withinPolicy
  <2> QED
    BY <1>1, <1>2, <2>1, <2>2 DEF CORSInv, PageServedByPolicy
<1> QED
  BY <1>3, <1>4

\* Every step of the browser and of the middleware keeps the policy.
LEMMA CORSNextInv == CORSInv /\ [CORSNext]_corsVars => CORSInv'
<1> SUFFICES ASSUME CORSInv, [CORSNext]_corsVars PROVE CORSInv'
  OBVIOUS
<1>1. CASE UNCHANGED corsVars
  <2>1. UNCHANGED <<config, origin, wanted, permitted, page>>
    BY <1>1 DEF corsVars
  <2>2. /\ isOriginAllowed(origin)' <=> isOriginAllowed(origin)
        /\ withinPolicy' <=> withinPolicy
    BY <2>1 DEF isOriginAllowed, withinPolicy
  <2>3. PageServedByPolicy'
    BY <2>1, <2>2 DEF CORSInv, PageServedByPolicy
  <2> QED
    BY <2>1, <2>2, <2>3 DEF CORSInv
<1>2. ASSUME NEW request \in PageRequests, pageFetches(request) PROVE CORSInv'
  BY <1>2, PageFetchesInv
<1>3. CASE sendsUnasked
  BY <1>3, SendsUnaskedInv
<1>4. CASE ServeOptions
  BY <1>4, ServeOptionsInv
<1>5. CASE ServeRequest
  BY <1>5, ServeRequestInv
<1>6. CASE permissionExpires
  BY <1>6, PermissionExpiresInv
<1> QED
  BY <1>1, <1>2, <1>3, <1>4, <1>5, <1>6, SMTT(30) DEF CORSNext

-----------------------------------------------------------------------------
\* Bodies through the decoder, the replacement of tags and the encoder.

\* A request as the decoder makes it.
IsRequest(q) ==
  /\ q = [id |-> q.id, method |-> q.method, params |-> q.params, extra |-> q.extra]
  /\ q.params \in JSONValues

\* A body that is not malformed, and its requests: one for each object, in their order.
LEMMA Unmarshalled ==
  ASSUME NEW body \in Bodies, unmarshal(body).kind # "malformed"
  PROVE  LET requests == unmarshal(body).requests IN
         /\ body.first \in {"{", "["} /\ ~body.broken
         /\ unmarshal(body).kind = IF body.first = "{" THEN "single" ELSE "batch"
         /\ Len(requests) = Len(body.objects) /\ Len(requests) \in Nat
         /\ DOMAIN requests = 1..Len(requests) /\ DOMAIN body.objects = 1..Len(requests)
         /\ \A j \in 1..Len(requests) :
              /\ body.objects[j] \in JSONObjects /\ body.objects[j].jsonrpc = Version
              /\ requests[j] = UnmarshalRequest(body.objects[j])
              /\ IsRequest(requests[j])
<1> DEFINE requests == unmarshal(body).requests
           objects == body.objects
<1>1. /\ body.first \in {"{", "["} /\ ~body.broken
      /\ \A j \in DOMAIN objects : objects[j].jsonrpc = Version
      /\ unmarshal(body).kind = IF body.first = "{" THEN "single" ELSE "batch"
      /\ requests = [j \in DOMAIN objects |-> UnmarshalRequest(objects[j])]
  BY Zenon DEF unmarshal
<1>2. objects \in Seq(JSONObjects)
  BY Zenon DEF Bodies
<1>3. Len(objects) \in Nat /\ DOMAIN objects = 1..Len(objects)
      /\ \A j \in 1..Len(objects) : objects[j] \in JSONObjects
  BY <1>2
<1>4. requests = [j \in 1..Len(objects) |-> UnmarshalRequest(objects[j])]
  BY <1>1, <1>3, Zenon
<1>5. Len(requests) = Len(objects) /\ DOMAIN requests = 1..Len(objects)
  BY <1>3, <1>4, SMTT(30)
<1>6. ASSUME NEW j \in 1..Len(objects) PROVE IsRequest(UnmarshalRequest(objects[j]))
  <2>1. objects[j].params \in JSONValues
    BY <1>3 DEF JSONObjects
  <2>2. nil \in JSONValues
    BY RequestsHaveBodies DEF nil, null
  <2> QED
    BY <2>1, <2>2 DEF IsRequest, UnmarshalRequest
<1>7. ASSUME NEW j \in 1..Len(requests)
      PROVE  /\ objects[j] \in JSONObjects /\ objects[j].jsonrpc = Version
             /\ requests[j] = UnmarshalRequest(objects[j])
             /\ IsRequest(requests[j])
  <2> HIDE DEF requests, objects
  <2> QED
    BY <1>1, <1>3, <1>4, <1>5, <1>6, Zenon
<1>8. Len(requests) = Len(objects) /\ Len(requests) \in Nat
      /\ DOMAIN requests = 1..Len(requests) /\ DOMAIN objects = 1..Len(requests)
  <2> HIDE DEF requests, objects
  <2> QED
    BY <1>3, <1>5
<1> QED
  BY <1>1, <1>7, <1>8, Zenon

\* The tags in the params of every request, or the failure of one of them.
LEMMA TagsReplaced ==
  ASSUME NEW requests, NEW n, Len(requests) \in Nat,
         \A j \in 1..Len(requests) : IsRequest(requests[j])
  PROVE  LET r == replaceTags(requests, n) IN
         /\ r.failed <=> \E j \in 1..Len(requests) : nesting(requests[j].params) > maxJSONDepth
         /\ ~r.failed => r.requests = [j \in 1..Len(requests) |->
                           [requests[j] EXCEPT !.params = resolve(requests[j].params, n)]]
<1> USE DepthNatural
<1> DEFINE r == [j \in 1..Len(requests) |-> replaceAt(n)[0][requests[j].params]]
           new == [j \in 1..Len(requests) |->
                     IF r[j].changed THEN [requests[j] EXCEPT !.params = r[j].params]
                     ELSE requests[j]]
<1>1. ASSUME NEW j \in 1..Len(requests) PROVE Rightly(r[j], requests[j].params, n, 0)
  <2>1. requests[j].params \in JSONValues
    BY Zenon DEF IsRequest
  <2>2. 0 \in 0..(maxJSONDepth + 1)
    OBVIOUS
  <2>3. Rightly(replaceAt(n)[0][requests[j].params], requests[j].params, n, 0)
    BY <2>1, <2>2, ReplacedEverywhere, Zenon
  <2> QED
    BY <2>3
<1>2. replaceTags(requests, n) =
        IF \E j \in 1..Len(requests) : r[j].failed
        THEN [failed |-> TRUE, requests |-> <<>>]
        ELSE [failed |-> FALSE, requests |-> new]
  BY Zenon DEF replaceTags
<1> HIDE DEF r
<1>3. ASSUME NEW j \in 1..Len(requests)
      PROVE  r[j].failed <=> nesting(requests[j].params) > maxJSONDepth
  <2>1. nesting(requests[j].params) \in Nat
    BY ValuesAreTrees, Zenon DEF IsRequest
  <2> QED
    BY <1>1, <2>1 DEF Rightly
<1>4. ASSUME NEW j \in 1..Len(requests), ~r[j].failed
      PROVE  new[j] = [requests[j] EXCEPT !.params = resolve(requests[j].params, n)]
  <2>1. IF r[j].changed THEN r[j].params = resolve(requests[j].params, n)
        ELSE resolve(requests[j].params, n) = requests[j].params
    BY <1>1, <1>4 DEF Rightly
  <2>2. [requests[j] EXCEPT !.params = requests[j].params] = requests[j]
    BY Zenon DEF IsRequest
  <2> QED
    BY <2>1, <2>2
<1>5. ASSUME ~\E j \in 1..Len(requests) : r[j].failed
      PROVE  new = [j \in 1..Len(requests) |->
                      [requests[j] EXCEPT !.params = resolve(requests[j].params, n)]]
  <2>1. new = [j \in 1..Len(requests) |-> new[j]]
    BY Zenon
  <2> HIDE DEF new
  <2> QED
    BY <1>4, <1>5, <2>1, Zenon
<1> HIDE DEF new
<1>6. CASE \E j \in 1..Len(requests) : r[j].failed
  BY <1>2, <1>3, <1>6
<1>7. CASE ~\E j \in 1..Len(requests) : r[j].failed
  <2>1. replaceTags(requests, n) = [failed |-> FALSE, requests |-> new]
    BY <1>2, <1>7
  <2>2. ~\E j \in 1..Len(requests) : nesting(requests[j].params) > maxJSONDepth
    BY <1>3, <1>7
  <2>3. replaceTags(requests, n).failed = FALSE /\ replaceTags(requests, n).requests = new
    BY <2>1
  <2> QED
    BY <1>5, <1>7, <2>2, <2>3, Zenon
<1> QED
  BY <1>6, <1>7

\* Only null resolves to null.
LEMMA NullStays ==
  ASSUME NEW v \in JSONValues, NEW n
  PROVE  resolve(v, n) = nil <=> v = nil
<1>1. v \in [kind : STRING, number : Nat, items : Seq(JSONValues)]
      /\ (v.items # <<>> => v.kind \in {"array", "object"}) /\ (v.number # 0 => v.kind = "hex")
  BY ValuesAreTrees
<1>2. CASE v = tag
  <2>1. resolve(v, n) = hex(n)
    BY <1>2, ResolveDefined
  <2> QED
    BY <1>2, <2>1 DEF hex, nil, tag
<1>3. CASE v # tag
  <2> DEFINE items == [i \in DOMAIN v.items |-> resolve(v.items[i], n)]
  <2>1. resolve(v, n) = [v EXCEPT !.items = items]
    BY <1>3, ResolveDefined
  <2>2. v.items = <<>> => items = <<>>
    OBVIOUS
  <2> HIDE DEF items
  <2>3. resolve(v, n).kind = v.kind
    BY <1>1, <2>1
  <2>4. v.kind = "null" => v = nil
    BY <1>1 DEF nil
  <2>5. v = nil => resolve(v, n) = nil
    BY <2>1, <2>2 DEF nil
  <2>6. nil.kind = "null"
    BY DEF nil
  <2> QED
    BY <2>3, <2>4, <2>5, <2>6
<1> QED
  BY <1>2, <1>3

\* An object through the decoder, the replacement and the encoder.
LEMMA ObjectResolved ==
  ASSUME NEW o \in JSONObjects, o.jsonrpc = Version, NEW n
  PROVE  LET q == UnmarshalRequest(o)
             sent == IF n = 0 THEN q ELSE [q EXCEPT !.params = resolve(q.params, n)]
         IN MarshalRequest(sent) = resolvedObject(o, n)
<1> DEFINE q == UnmarshalRequest(o)
           sent == IF n = 0 THEN q ELSE [q EXCEPT !.params = resolve(q.params, n)]
           params == IF n = 0 THEN q.params ELSE resolve(q.params, n)
<1>1. o.params \in JSONValues /\ nil \in JSONValues /\ q.params \in JSONValues /\ nil = null
  BY RequestsHaveBodies DEF JSONObjects, UnmarshalRequest, nil, null
<1>2. /\ sent.id = o.id /\ sent.method = (IF o.method = "absent" THEN "" ELSE o.method)
      /\ sent.params = params /\ sent.extra = o.extra
  BY DEF UnmarshalRequest, NotificationID
<1>3. params = nil <=> q.params = nil
  BY <1>1, NullStays
<1>4. (IF params = nil THEN absent ELSE params) =
        IF o.params = null THEN absent
        ELSE IF n = 0 \/ o.params = absent THEN o.params ELSE resolve(o.params, n)
  <2>1. q.params = IF o.params = absent THEN nil ELSE o.params
    BY DEF UnmarshalRequest
  <2> HIDE DEF q
  <2> QED
    BY <1>1, <1>3, <2>1
<1> HIDE DEF params, sent
<1>5. MarshalRequest(sent) =
        [jsonrpc |-> Version, id |-> o.id,
         method |-> IF o.method = "absent" THEN "" ELSE o.method,
         params |-> IF params = nil THEN absent ELSE params, extra |-> o.extra]
  BY <1>2, Zenon DEF MarshalRequest, NotificationID
<1>6. o = [jsonrpc |-> Version, id |-> o.id, method |-> o.method, params |-> o.params, extra |-> o.extra]
  BY DEF JSONObjects
<1>7. resolvedObject(o, n) =
        [o EXCEPT !.method = IF o.method = "absent" THEN "" ELSE o.method,
                  !.params = IF params = nil THEN absent ELSE params]
  BY <1>4, Zenon DEF resolvedObject
<1>8. ASSUME NEW m, NEW p
      PROVE  [o EXCEPT !.method = m, !.params = p] =
               [jsonrpc |-> Version, id |-> o.id, method |-> m, params |-> p, extra |-> o.extra]
  <2>1. [o EXCEPT !.method = m, !.params = p] = [[o EXCEPT !.method = m] EXCEPT !.params = p]
    BY Zenon
  <2>2. [o EXCEPT !.method = m] =
          [jsonrpc |-> Version, id |-> o.id, method |-> m, params |-> o.params, extra |-> o.extra]
    BY <1>6
  <2>3. ASSUME NEW w,
               w = [jsonrpc |-> Version, id |-> o.id, method |-> m, params |-> o.params,
                      extra |-> o.extra]
        PROVE  [w EXCEPT !.params = p] =
                 [jsonrpc |-> Version, id |-> o.id, method |-> m, params |-> p, extra |-> o.extra]
    BY <2>3
  <2> QED
    BY <2>1, <2>2, <2>3, Zenon
<1> QED
  BY <1>5, <1>7, <1>8, Zenon DEF sent

-----------------------------------------------------------------------------
\* The handlers, step by step.

\* A step of one client leaves the others alone.
LEMMA OneHandled ==
  ASSUME HTTPInv, AllHandled, NEW c \in Clients,
         \A d \in Clients : d # c => calls'[d] = calls[d] /\ exchange'[d] = exchange[d],
         calls'[c].at # "idle" =>
           exchange'[c].request \in HTTPRequests[c] /\ Handled(calls'[c])
  PROVE  AllHandled'
<1>1. ASSUME NEW d \in Clients, calls'[d].at # "idle"
      PROVE  exchange'[d].request \in HTTPRequests[d] /\ Handled(calls'[d])
  BY <1>1 DEF AllHandled
<1> QED
  BY <1>1, Zenon DEF AllHandled, Handled

\* A call that is neither forwarded nor refused, and has not come past the decoder.
LEMMA HandledSoFar == ASSUME NEW call, call.at = "received" PROVE Handled(call)
BY DEF Handled

\* The steps of the interceptor go by the rules.
LEMMA InterceptHandled ==
  ASSUME HTTPInv, AllHandled, NEW c \in Clients, interceptStep(c) PROVE AllHandled'
<1> DEFINE call == calls[c]
           requests == call.payload.requests
           r == replaceTags(requests, call.number)
           Moved(at) ==
             /\ \A d \in Clients : d # c => calls'[d] = calls[d]
             /\ calls'[c].at = at /\ calls'[c].payload = call.payload
<1>1. /\ IsCall(call) /\ calls = [d \in Clients |-> calls[d]] /\ UNCHANGED exchange
      /\ call.at \in {"received", "resolved"} =>
           exchange[c].request \in HTTPRequests[c] /\ Handled(call)
  BY DEF HTTPInv, Together, interceptStep, AllHandled
<1>2. ASSUME NEW at, Moved(at), Handled(calls'[c]), call.at \in {"received", "resolved"}
      PROVE  AllHandled'
  <2>1. /\ \A d \in Clients : d # c => calls'[d] = calls[d] /\ exchange'[d] = exchange[d]
        /\ exchange'[c].request \in HTTPRequests[c]
    BY <1>1, <1>2
  <2> QED
    BY <1>2, <2>1, OneHandled, Zenon
<1>3. ASSUME calls' = [calls EXCEPT ![c].at = "refused"]
      PROVE  Moved("refused") /\ calls'[c].number = call.number
  BY <1>1, <1>3 DEF IsCall
<1>4. CASE parseFails(c) \/ batchRefused(c)
  <2>1. /\ call.at = "received" /\ calls' = [calls EXCEPT ![c].at = "refused"]
        /\ call.payload.kind = "malformed" \/ batchTooLarge(call.payload)
    BY <1>4 DEF parseFails, batchRefused
  <2>2. Moved("refused")
    BY <1>3, <2>1
  <2>3. Handled(calls'[c])
    BY <2>1, <2>2 DEF Handled
  <2> HIDE DEF Moved, call
  <2> QED
    BY <1>2, <2>1, <2>2, <2>3
<1>5. CASE getCurrentEspressoFinalizedBlockNumber(c)
  <2>1. /\ call.at = "received" /\ call.payload.kind # "malformed" /\ ~batchTooLarge(call.payload)
        /\ calls' = [calls EXCEPT ![c].at = "resolved", ![c].number = l2BlockNumber]
    BY <1>5 DEF getCurrentEspressoFinalizedBlockNumber
  <2>2. Moved("resolved")
    BY <1>1, <2>1, Zenon DEF IsCall
  <2>3. Handled(calls'[c])
    BY <2>1, <2>2 DEF Handled
  <2> HIDE DEF Moved, call
  <2> QED
    BY <1>2, <2>1, <2>2, <2>3
<1>6. ASSUME call.at = "resolved", NEW sent,
             calls' = [calls EXCEPT ![c].at = "forwarded", ![c].sent = sent],
             IF call.number = 0 THEN sent = requests ELSE ~r.failed /\ sent = r.requests
      PROVE  AllHandled'
  <2>1. Moved("forwarded") /\ calls'[c].number = call.number /\ calls'[c].sent = sent
    BY <1>1, <1>6, Zenon DEF IsCall
  <2>2. call.payload.kind # "malformed" /\ ~batchTooLarge(call.payload)
    BY <1>1, <1>6 DEF Handled
  <2>3. Handled(calls'[c])
    BY <1>6, <2>1, <2>2 DEF Handled
  <2> HIDE DEF Moved, call
  <2> QED
    BY <1>2, <1>6, <2>1, <2>3
<1>7. CASE forwardRaw(c)
  <2>1. /\ call.at = "resolved" /\ call.number = 0
        /\ calls' = [calls EXCEPT ![c].at = "forwarded", ![c].sent = requests]
    BY <1>7 DEF forwardRaw
  <2> HIDE DEF call, requests, r
  <2> QED
    BY <1>6, <2>1, Zenon
<1>8. CASE intercept(c)
  <2>1. call.at = "resolved" /\ call.number # 0
    BY <1>8 DEF intercept
  <2>2. CASE r.failed
    <3>1. Moved("refused") /\ calls'[c].number = call.number
      BY <1>3, <1>8, <2>2, SMTT(30) DEF intercept
    <3>2. Handled(calls'[c])
      BY <2>1, <2>2, <3>1 DEF Handled
    <3> HIDE DEF Moved, call
    <3> QED
      BY <1>2, <2>1, <3>1, <3>2
  <2>3. CASE ~r.failed
    <3>1. calls' = [calls EXCEPT ![c].at = "forwarded", ![c].sent = r.requests]
      BY <1>8, <2>3 DEF intercept
    <3> HIDE DEF call, requests, r
    <3> QED
      BY <1>6, <2>1, <2>3, <3>1, Zenon
  <2> QED
    BY <2>2, <2>3
<1> QED
  BY <1>4, <1>5, <1>7, <1>8, SMTT(30) DEF interceptStep, PerformRequestIntercept

\* Every step of the server does.
LEMMA HTTPHandled == ASSUME HTTPInv, AllHandled, [HTTPNext]_httpVars PROVE AllHandled'
<1>1. /\ calls = [d \in Clients |-> calls[d]] /\ exchange = [d \in Clients |-> exchange[d]]
      /\ \A c \in Clients : IsExchange(exchange[c])
      /\ \A c \in Clients : exchange[c].at \in {"none", "over"} => calls[c].at = "idle"
  BY DEF HTTPInv, Together
<1>2. ASSUME UNCHANGED <<calls, exchange>> PROVE AllHandled'
  BY <1>2, Zenon DEF AllHandled, Handled
<1>3. CASE publishStep
  BY <1>2, <1>3 DEF publishStep, storePublishes
<1>4. ASSUME NEW c \in Clients, httpStep(c) PROVE AllHandled'
  <2>1. ASSUME NEW e, UNCHANGED calls, exchange' = [exchange EXCEPT ![c] = e],
               exchange[c].at \in {"none", "over"} \/ e.request = exchange[c].request
        PROVE  AllHandled'
    <3>1. /\ \A d \in Clients : d # c => calls'[d] = calls[d] /\ exchange'[d] = exchange[d]
          /\ exchange'[c] = e /\ calls'[c] = calls[c]
      BY <1>1, <2>1
    <3>2. calls[c].at # "idle" => exchange'[c].request \in HTTPRequests[c] /\ Handled(calls[c])
      BY <1>1, <2>1, <3>1 DEF AllHandled
    <3> QED
      BY <3>1, <3>2, OneHandled, Zenon
  <2>2. ASSUME NEW e, finish(c), exchange' = [exchange EXCEPT ![c] = e] PROVE AllHandled'
    <3>1. calls' = [calls EXCEPT ![c] = idle] /\ idle.at = "idle"
      BY <2>2 DEF finish, idle
    <3>2. /\ \A d \in Clients : d # c => calls'[d] = calls[d] /\ exchange'[d] = exchange[d]
          /\ calls'[c].at = "idle"
      BY <1>1, <2>2, <3>1
    <3> QED
      BY <3>2, OneHandled, Zenon
  <2>3. ASSUME NEW r \in HTTPRequests[c], middlewareRefuses(c, r) \/ readBodyFails(c, r)
        PROVE  AllHandled'
    <3>1. /\ UNCHANGED calls /\ exchange[c].at = "none"
          /\ \E e : exchange' = [exchange EXCEPT ![c] = e]
      BY <2>3, Zenon DEF middlewareRefuses, readBodyFails, over, mayArrive, interceptorVars
    <3> QED
      BY <2>1, <3>1, Zenon
  <2>4. ASSUME NEW r \in HTTPRequests[c], readBody(c, r) PROVE AllHandled'
    <3> DEFINE call == [idle EXCEPT !.at = "received", !.payload = unmarshal(r.body),
                                    !.seen = l2BlockNumber, !.floor = highest]
               e == [noExchange EXCEPT !.at = "handling", !.request = r]
    <3>1. calls' = [calls EXCEPT ![c] = call] /\ exchange' = [exchange EXCEPT ![c] = e]
      BY <2>4 DEF readBody, receive
    <3>2. call.at = "received" /\ e.request = r
      BY DEF idle, noExchange
    <3> HIDE DEF call, e
    <3>3. /\ \A d \in Clients : d # c => calls'[d] = calls[d] /\ exchange'[d] = exchange[d]
          /\ calls'[c] = call /\ exchange'[c] = e
      BY <1>1, <3>1
    <3> QED
      BY <3>2, <3>3, HandledSoFar, OneHandled, Zenon
  <2>5. CASE interceptStep(c)
    BY <2>5, InterceptHandled
  <2>6. CASE nodeAnswers(c)
    <3>1. /\ UNCHANGED calls
          /\ exchange' = [exchange EXCEPT ![c].at = "copying", ![c].written = <<nodeAnswer>>]
      BY <2>6 DEF nodeAnswers, interceptorVars
    <3> DEFINE e == [exchange[c] EXCEPT !.at = "copying", !.written = <<nodeAnswer>>]
    <3>2. exchange' = [exchange EXCEPT ![c] = e]
      BY <3>1, Zenon
    <3>3. e.request = exchange[c].request
      BY <1>1 DEF IsExchange
    <3> HIDE DEF e
    <3> QED
      BY <2>1, <3>1, <3>2, <3>3, Zenon
  <2>7. CASE writeError(c) \/ badGateway(c) \/ copyEnds(c) \/ panics(c)
    <3>1. finish(c) /\ \E e : exchange' = [exchange EXCEPT ![c] = e]
      BY <2>7, Zenon DEF writeError, badGateway, copyEnds, panics
    <3> QED
      BY <2>2, <3>1, Zenon
  <2>8. CASE nextRequest(c)
    BY <2>1, <2>8, Zenon DEF nextRequest, interceptorVars
  <2> QED
    BY <1>4, <2>3, <2>4, <2>5, <2>6, <2>7, <2>8, Zenon DEF httpStep
<1>5. CASE UNCHANGED httpVars
  BY <1>2, <1>5 DEF httpVars, interceptorVars
<1> QED
  BY <1>3, <1>4, <1>5 DEF HTTPNext

-----------------------------------------------------------------------------
\* The handlers as a whole.

\* A value that holds no other is not nested.
LEMMA NothingNested == nesting(nil) = 0 /\ nesting(absent) = 0
<1>1. nil \in JSONValues /\ absent \in JSONValues
  BY RequestsHaveBodies DEF nil, null
<1>2. nil.items = <<>> /\ absent.items = <<>>
  BY DEF nil, absent
<1>3. DOMAIN nil.items = {} /\ DOMAIN absent.items = {}
  BY <1>2
<1> QED
  BY <1>1, <1>3, ValuesAreTrees

\* No params are nil.
LEMMA ParamsUnmarshalled ==
  ASSUME NEW o PROVE UnmarshalRequest(o).params = IF o.params = absent THEN nil ELSE o.params
<1>1. \A a, b, p, e : [id |-> a, method |-> b, params |-> p, extra |-> e].params = p
  OBVIOUS
<1> QED
  BY <1>1, Zenon DEF UnmarshalRequest

\* What was sent for a body that is not malformed: its requests, or those that the
\* replacement of their tags returned.
SentFor(body, n, sent) ==
  LET requests == unmarshal(body).requests
      r == replaceTags(requests, n)
  IN /\ unmarshal(body).kind # "malformed"
     /\ IF n = 0 THEN sent = requests ELSE ~r.failed /\ sent = r.requests

ResolvedBody(body, n) ==
  [body EXCEPT !.objects = [j \in DOMAIN body.objects |-> resolvedObject(body.objects[j], n)]]

\* What is sent to the full node is the body with its tags resolved.
LEMMA BodyResolved ==
  ASSUME NEW body \in Bodies, NEW n, NEW sent, SentFor(body, n, sent)
  PROVE  marshal(unmarshal(body).kind, sent) = ResolvedBody(body, n)
<1> DEFINE requests == unmarshal(body).requests
           kind == unmarshal(body).kind
           objects == body.objects
           r == replaceTags(requests, n)
           resolved == [j \in DOMAIN objects |-> resolvedObject(objects[j], n)]
<1>1. /\ body.first \in {"{", "["} /\ ~body.broken
      /\ kind = IF body.first = "{" THEN "single" ELSE "batch"
      /\ Len(requests) \in Nat
      /\ DOMAIN requests = 1..Len(requests) /\ DOMAIN objects = 1..Len(requests)
      /\ \A j \in 1..Len(requests) :
           /\ objects[j] \in JSONObjects /\ objects[j].jsonrpc = Version
           /\ requests[j] = UnmarshalRequest(objects[j])
           /\ IsRequest(requests[j])
  BY Unmarshalled, Zenon DEF SentFor
<1>2. IF n = 0 THEN sent = requests ELSE ~r.failed /\ sent = r.requests
  BY Zenon DEF SentFor
<1>3. n # 0 => sent = [j \in 1..Len(requests) |->
                        [requests[j] EXCEPT !.params = resolve(requests[j].params, n)]]
  <2>1. ~r.failed => r.requests = [j \in 1..Len(requests) |->
                        [requests[j] EXCEPT !.params = resolve(requests[j].params, n)]]
    <3> HIDE DEF requests
    <3> QED
      BY <1>1, TagsReplaced, Zenon
  <2> HIDE DEF requests, r
  <2> QED
    BY <1>2, <2>1, Zenon
<1> HIDE DEF requests, r, kind, objects
<1>4. DOMAIN sent = 1..Len(requests)
  BY <1>1, <1>2, <1>3, Zenon
<1>5. ASSUME NEW j \in 1..Len(requests)
      PROVE  MarshalRequest(sent[j]) = resolvedObject(objects[j], n)
  <2> DEFINE q == UnmarshalRequest(objects[j])
             s == IF n = 0 THEN q ELSE [q EXCEPT !.params = resolve(q.params, n)]
  <2>1. sent[j] = s
    <3>1. requests[j] = q
      BY <1>1, Zenon
    <3> HIDE DEF q
    <3>2. CASE n = 0
      BY <1>2, <3>1, <3>2, Zenon
    <3>3. CASE n # 0
      BY <1>3, <3>1, <3>3, Zenon
    <3> QED
      BY <3>2, <3>3
  <2>2. MarshalRequest(s) = resolvedObject(objects[j], n)
    BY <1>1, ObjectResolved, Zenon
  <2> HIDE DEF s
  <2> QED
    BY <2>1, <2>2, Zenon
<1>6. [j \in DOMAIN sent |-> MarshalRequest(sent[j])] = resolved
  BY <1>1, <1>4, <1>5, Zenon
<1> HIDE DEF resolved
<1>7. marshal(kind, sent) = [first |-> body.first, broken |-> FALSE, objects |-> resolved]
  <2>1. (IF kind = "single" THEN "{" ELSE "[") = body.first
    BY <1>1, Zenon
  <2> QED
    BY <1>6, <2>1, Zenon DEF marshal
<1>8. [body EXCEPT !.objects = resolved] =
        [first |-> body.first, broken |-> FALSE, objects |-> resolved]
  <2>1. body = [first |-> body.first, broken |-> body.broken, objects |-> body.objects]
    BY Zenon DEF Bodies
  <2>2. body.broken = FALSE
    BY <1>1, Zenon DEF Bodies
  <2>3. [body EXCEPT !.objects = resolved] =
          [first |-> body.first, broken |-> body.broken, objects |-> resolved]
    BY <2>1
  <2> QED
    BY <2>2, <2>3, Zenon
<1> QED
  BY <1>7, <1>8 DEF kind, objects, resolved, ResolvedBody

\* A call of the body that its client sent.
LEMMA CallOfBody ==
  ASSUME HTTPInv, AllHandled, NEW c \in Clients, calls[c].at # "idle"
  PROVE  /\ exchange[c].request.body \in Bodies
         /\ calls[c].payload = unmarshal(exchange[c].request.body)
         /\ Handled(calls[c])
         /\ calls[c].at = "forwarded" => /\ calls[c].number >= calls[c].seen
                                        /\ calls[c].number <= l2BlockNumber
<1>1. /\ Together(calls[c], exchange[c], l2BlockNumber) /\ Handled(calls[c])
      /\ exchange[c].request \in HTTPRequests[c]
  BY DEF HTTPInv, AllHandled
<1>2. exchange[c].request.body \in Bodies
  BY <1>1, RequestsHaveBodies
<1> QED
  BY <1>1, <1>2, Zenon DEF Together

\* Whatever client c sent, what it has at the full node is resolved.
LEMMA Resolved == HTTPInv /\ AllHandled => ResolvedAsOne
<1> SUFFICES ASSUME HTTPInv, AllHandled, NEW c \in Clients, calls[c].at = "forwarded"
             PROVE  LET call == calls[c]
                        body == exchange[c].request.body
                    IN /\ call.number >= call.seen
                       /\ call.number <= l2BlockNumber
                       /\ newBody(c) = [body EXCEPT !.objects = [j \in DOMAIN @ |->
                                           resolvedObject(@[j], call.number)]]
  BY Zenon DEF ResolvedAsOne
<1> DEFINE call == calls[c]
           body == exchange[c].request.body
           n == call.number
           sent == call.sent
<1>1. /\ body \in Bodies /\ call.payload = unmarshal(body) /\ Handled(call)
      /\ call.number >= call.seen /\ call.number <= l2BlockNumber
  BY CallOfBody
<1>2. SentFor(body, n, sent)
  BY <1>1, Zenon DEF Handled, SentFor
<1>3. marshal(unmarshal(body).kind, sent) = ResolvedBody(body, n)
  <2> HIDE DEF body, n, sent
  <2> QED
    BY <1>1, <1>2, BodyResolved
<1>4. newBody(c) = marshal(unmarshal(body).kind, sent)
  BY <1>1, Zenon DEF newBody
<1> QED
  BY <1>1, <1>3, <1>4, Zenon DEF ResolvedBody

\* The three causes of a refusal are faults of the body, and there are no others.
LEMMA Refused == HTTPInv /\ AllHandled => RefusedForCause
<1> SUFFICES ASSUME HTTPInv, AllHandled, NEW c \in Clients,
                    calls[c].at \in {"refused", "forwarded"}
             PROVE  LET call == calls[c]
                        body == exchange[c].request.body
                        tooDeep == \E j \in DOMAIN body.objects :
                                     nesting(body.objects[j].params) > maxJSONDepth
                        faulty == \/ body.broken \/ body.first = "other"
                                  \/ \E j \in DOMAIN body.objects :
                                       body.objects[j].jsonrpc # "2.0"
                                  \/ body.first = "[" /\ Len(body.objects) > maxBatchSize
                                  \/ call.number # 0 /\ tooDeep
                    IN /\ call.at = "refused" => faulty
                       /\ call.at = "forwarded" => ~faulty
  BY Zenon DEF RefusedForCause
<1> DEFINE call == calls[c]
           body == exchange[c].request.body
           payload == unmarshal(body)
           requests == payload.requests
           tooDeep == \E j \in DOMAIN body.objects :
                        nesting(body.objects[j].params) > maxJSONDepth
           malformed == \/ body.broken \/ body.first = "other"
                        \/ \E j \in DOMAIN body.objects : body.objects[j].jsonrpc # "2.0"
           tooLarge == body.first = "[" /\ Len(body.objects) > maxBatchSize
<1>1. body \in Bodies /\ call.payload = payload /\ Handled(call)
  BY CallOfBody
<1>2. body.first \in {"{", "[", "other"}
  BY <1>1, Zenon DEF Bodies
<1>3. payload.kind = "malformed" <=> malformed
  BY <1>2, Zenon DEF unmarshal, Version
<1>4. ASSUME payload.kind # "malformed"
      PROVE  /\ batchTooLarge(payload) <=> tooLarge
             /\ replaceTags(requests, call.number).failed <=> tooDeep
  <2>1. /\ payload.kind = IF body.first = "{" THEN "single" ELSE "batch"
        /\ body.first \in {"{", "["}
        /\ Len(requests) = Len(body.objects) /\ Len(requests) \in Nat
        /\ DOMAIN body.objects = 1..Len(requests)
        /\ \A j \in 1..Len(requests) :
             /\ body.objects[j] \in JSONObjects
             /\ requests[j] = UnmarshalRequest(body.objects[j]) /\ IsRequest(requests[j])
    BY <1>1, <1>4, Unmarshalled, Zenon
  <2>2. batchTooLarge(payload) <=> tooLarge
    BY <2>1, Zenon DEF batchTooLarge
  <2>3. replaceTags(requests, call.number).failed
          <=> \E j \in 1..Len(requests) : nesting(requests[j].params) > maxJSONDepth
    <3> HIDE DEF requests, call
    <3> QED
      BY <2>1, TagsReplaced, Zenon
  <2>4. \A j \in 1..Len(requests) : nesting(requests[j].params) = nesting(body.objects[j].params)
    <3>1. ASSUME NEW j \in 1..Len(requests)
          PROVE  nesting(requests[j].params) = nesting(body.objects[j].params)
      <4> DEFINE o == body.objects[j]
      <4>1. requests[j] = UnmarshalRequest(o)
        BY <2>1, Zenon
      <4> HIDE DEF requests, o
      <4>2. requests[j].params = IF o.params = absent THEN nil ELSE o.params
        BY <4>1, ParamsUnmarshalled, Zenon
      <4>3. nesting(requests[j].params) = nesting(o.params)
        BY <4>2, NothingNested
      <4> QED
        BY <4>3 DEF o
    <3> QED
      BY <3>1, Zenon
  <2> QED
    BY <2>1, <2>2, <2>3, <2>4, Zenon
<1>5. call.at = "refused" =>
        \/ payload.kind = "malformed" \/ batchTooLarge(payload)
        \/ call.number # 0 /\ replaceTags(requests, call.number).failed
  BY <1>1, Zenon DEF Handled
<1>6. call.at = "forwarded" =>
        /\ payload.kind # "malformed" /\ ~batchTooLarge(payload)
        /\ call.number # 0 => ~replaceTags(requests, call.number).failed
  BY <1>1, Zenon DEF Handled
<1> QED
  BY <1>3, <1>4, <1>5, <1>6, Zenon

\* The server is one of the two handlers and the middleware is the other: a step of
\* either is none of the other's.
LEMMA InitOfParts == Init => HTTPInit /\ (mounted = "cors" => CORSInit)
BY DEF Init

\* A step of the whole is one of either part, or none.
LEMMA NextOfParts == [Next]_vars => [HTTPNext]_httpVars /\ [CORSNext]_corsVars /\ UNCHANGED mounted
BY DEF Next, vars, rpcStep, corsStep

\* The handlers implement the server and, where it is mounted, the middleware: what is
\* proved of either holds of the whole.
THEOREM HandlersAreBoth == Spec => HTTPSpec /\ (mounted = "cors" => CORSSpec)
BY InitOfParts, NextOfParts, PTL DEF Spec, HTTPSpec, CORSSpec

\* Whatever the page asks for and whatever the browser remembers, for every policy.
THEOREM CORSInvariant == CORSSpec => []CORSInv
BY CORSInitInv, CORSNextInv, PTL DEF CORSSpec

\* At the start nothing is under way.
LEMMA HandlersInitInv == Init => HandlersInv
<1> SUFFICES ASSUME Init PROVE HandlersInv
  OBVIOUS
<1>1. AllHandled
  <2>1. \A c \in Clients : calls[c].at = "idle"
    BY DEF Init, HTTPInit, InterceptorInit, idle
  <2> QED
    BY <2>1, Zenon DEF AllHandled
<1>2. /\ mounted \in {"rpc", "cors"}
      /\ IF mounted = "cors" THEN CORSInit ELSE page = "idle"
  BY Zenon DEF Init
<1> QED
  BY <1>1, <1>2, CORSInitInv, Zenon DEF HandlersInv

\* Every step goes by the rules.
LEMMA HandlersNextInv == HTTPInv /\ HandlersInv /\ [Next]_vars => HandlersInv'
<1> SUFFICES ASSUME HTTPInv, HandlersInv, [Next]_vars PROVE HandlersInv'
  OBVIOUS
<1>1. AllHandled'
  <2>1. AllHandled
    BY DEF HandlersInv, AllHandled
  <2> QED
    BY <2>1, NextOfParts, HTTPHandled
<1>2. UNCHANGED mounted
  BY NextOfParts
<1>3. mounted = "cors" => CORSInv'
  BY NextOfParts, CORSNextInv DEF HandlersInv
<1>4. mounted # "cors" => page' = "idle"
  BY DEF HandlersInv, Next, vars, rpcStep, corsStep, corsVars
<1> QED
  BY <1>1, <1>2, <1>3, <1>4, Zenon DEF HandlersInv, AllHandled

\* The inductive invariants hold for any number of clients.
THEOREM HandlersInvariant == Spec => [](HTTPInv /\ HandlersInv)
<1>1. Spec => []HTTPInv
  BY HandlersAreBoth, HTTPInvariant, PTL
<1>2. Init => HandlersInv
  BY HandlersInitInv
<1>3. HTTPInv /\ HandlersInv /\ [Next]_vars => HandlersInv'
  BY HandlersNextInv
<1> QED
  BY <1>1, <1>2, <1>3, PTL DEF Spec

\* Through Unmarshal, replaceTagInParams and Marshal a body keeps everything but its
\* tags, and every tag becomes the one number that was read, in params of any depth
\* and in batches of any length.
THEOREM HandlersResolvedAsOne == Spec => []ResolvedAsOne
<1>1. HTTPInv /\ HandlersInv => ResolvedAsOne
  BY Resolved DEF HandlersInv, AllHandled
<1> QED
  BY <1>1, HandlersInvariant, PTL

\* PerformRequestIntercept refuses a body for a fault that it has, and forwards none
\* that has one: the recursion of replaceTagInParams ends in an error if and only if
\* the params are nested more than maxJSONDepth deep.
THEOREM HandlersRefusedForCause == Spec => []RefusedForCause
<1>1. HTTPInv /\ HandlersInv => RefusedForCause
  BY Refused DEF HandlersInv, AllHandled
<1> QED
  BY <1>1, HandlersInvariant, PTL

\* What a page gets to read, and what the browser sends for it, is what the options of
\* NewCORSMiddleware allow, with preflights answered now or remembered.
THEOREM HandlersPageServedByPolicy == Spec => []PageServedByPolicy
<1>1. HandlersInv => PageServedByPolicy
  BY DEF HandlersInv, CORSInv, PageServedByPolicy
<1> QED
  BY <1>1, HandlersInvariant, PTL
=============================================================================
