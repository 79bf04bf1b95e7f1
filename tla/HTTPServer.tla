----------------------------- MODULE HTTPServer -----------------------------
(***************************************************************************)
(* The HTTP side of the proxy: the middlewares of the http package, the    *)
(* adapter adapters/interceptor_http.go around the Interceptor, and the    *)
(* reverse proxy to the full node behind it.  Every client's request is    *)
(* served by a goroutine of its own.                                       *)
(***************************************************************************)
EXTENDS Interceptor, JSONRPC

CONSTANTS
  HTTPRequests,         \* HTTPRequests[c]: the HTTP requests that client c may send
  maxRequestBodySize,   \* --max-request-body-size
  size(_)               \* the length of a body

VARIABLE exchange       \* exchange[c]: the HTTP request of c and what was answered

httpVars == <<interceptorVars, exchange>>

noRequest == [method |-> "none", contentType |-> "none", chunked |-> FALSE,
              body |-> [first |-> "none", broken |-> FALSE, objects |-> <<>>]]

\* written is what went into the ResponseWriter, one item for each writer; fault is
\* what failed, the client, the full node or a handler (history).
noExchange == [at |-> "none", request |-> noRequest, written |-> <<>>, fault |-> "none"]

HTTPInit ==
  /\ InterceptorInit
  /\ exchange = [c \in Clients |-> noExchange]

\* http.Error, the JSON-RPC error of WriteJSONRPCErrorToHTTPResponseWriter, and what
\* the full node answers.
httpError(status) == [status |-> status, body |-> [text |-> "http.Error"]]
jsonRPCError(code) == [status |-> "200", body |-> MarshalResponse(CreateGeneralErrorResponse(nil, code))]
nodeAnswer == [status |-> "node", body |-> [copied |-> "node"]]

-----------------------------------------------------------------------------
\* The middlewares, from the innermost: what a request is answered before it
\* reaches the adapter, or nothing.

passed == <<>>

\* Content-Length, or less than any length for a chunked body.
contentLength(r) == IF r.chunked THEN 0 ELSE size(r.body)

ContentTypeIsJSONRPC(r) ==
  IF r.contentType = "json" THEN passed ELSE <<httpError("415")>>

RequestBodySizeLimiter(r) ==
  IF maxRequestBodySize > 0 /\ contentLength(r) > maxRequestBodySize
  THEN <<httpError("413")>>
  ELSE ContentTypeIsJSONRPC(r)

MethodIs(r) ==
  IF r.method # "POST" THEN <<httpError("405")>> ELSE RequestBodySizeLimiter(r)

HTTPRPCMiddlewares(r) == MethodIs(r)

\* Faulty variant of readsWhole: no MaxBytesReader around the body.
readsAnyLength(r) == TRUE

\* io.ReadAll reads the body to its end: MaxBytesReader does not stop it before.
readsWhole(r) == maxRequestBodySize > 0 => size(r.body) <= maxRequestBodySize

-----------------------------------------------------------------------------
\* The steps of a goroutine that serves a request.

mayArrive(c) == exchange[c].at = "none"

over(c, r, answer, fault) ==
  /\ exchange' = [exchange EXCEPT ![c] = [at |-> "over", request |-> r, written |-> answer,
                                          fault |-> fault]]
  /\ UNCHANGED interceptorVars

\* A middleware answers.
middlewareRefuses(c, r) ==
  /\ mayArrive(c)
  /\ HTTPRPCMiddlewares(r) # passed
  /\ over(c, r, HTTPRPCMiddlewares(r), "none")

\* The body cannot be read: too long, or the client or the deadline ended it.
readBodyFails(c, r) ==
  /\ mayArrive(c)
  /\ HTTPRPCMiddlewares(r) = passed
  /\ over(c, r, <<jsonRPCError(CodeParseError)>>, IF readsWhole(r) THEN "client" ELSE "none")

\* The body was read, and goes to the interceptor.
readBody(c, r) ==
  /\ mayArrive(c)
  /\ HTTPRPCMiddlewares(r) = passed
  /\ readsWhole(r)
  /\ receive(c, unmarshal(r.body))
  /\ exchange' = [exchange EXCEPT ![c] = [noExchange EXCEPT !.at = "handling", !.request = r]]

interceptStep(c) == PerformRequestIntercept(c) /\ UNCHANGED exchange

\* The error of the interceptor: a JSON-RPC error is sent as it is, any other as an
\* internal error.
interceptError(call) ==
  IF call.payload.kind = "malformed" THEN CodeParseError
  ELSE IF batchTooLarge(call.payload) THEN CodeInvalidRequest
  ELSE CodeInternalError

writeError(c) ==
  /\ exchange[c].at = "handling"
  /\ calls[c].at = "refused"
  /\ finish(c)
  /\ exchange' = [exchange EXCEPT ![c].at = "over",
                                  ![c].written = <<jsonRPCError(interceptError(calls[c]))>>]

\* The body that replaces the request's; Content-Length is set to its length.
newBody(c) == marshal(calls[c].payload.kind, calls[c].sent)

\* The full node takes the request, and its header is copied to the client.
nodeAnswers(c) ==
  /\ exchange[c].at = "handling"
  /\ calls[c].at = "forwarded"
  /\ exchange' = [exchange EXCEPT ![c].at = "copying", ![c].written = <<nodeAnswer>>]
  /\ UNCHANGED interceptorVars

\* The transport fails: the ErrorHandler of the reverse proxy answers.
badGateway(c) ==
  /\ exchange[c].at = "handling"
  /\ calls[c].at = "forwarded"
  /\ finish(c)
  /\ exchange' = [exchange EXCEPT ![c].at = "over", ![c].written = <<httpError("502")>>,
                                  ![c].fault = "node"]

\* The answer was copied to its end.
copyEnds(c) ==
  /\ exchange[c].at = "copying"
  /\ finish(c)
  /\ exchange' = [exchange EXCEPT ![c].at = "over"]

\* The client has the answer, and may send its next request.
nextRequest(c) ==
  /\ exchange[c].at = "over"
  /\ exchange' = [exchange EXCEPT ![c] = noExchange]
  /\ UNCHANGED interceptorVars

\* Faulty variant of recovers: whether there is an answer already is not looked at.
recoversAlways(written) == Append(written, httpError("500"))

\* RecoveryMiddleware after a panic: what the response is then.
recovers(written) == IF written = <<>> THEN <<httpError("500")>> ELSE written

\* A handler panics: the reverse proxy does, with ErrAbortHandler, when the full
\* node's answer breaks off; anything else is a runtime panic.
panics(c) ==
  /\ exchange[c].at \in {"handling", "copying"}
  /\ finish(c)
  /\ exchange' = [exchange EXCEPT ![c].at = "over", ![c].fault = "panic",
                                  ![c].written = recovers(exchange[c].written)]

httpStep(c) ==
  \/ \E r \in HTTPRequests[c] : middlewareRefuses(c, r) \/ readBodyFails(c, r) \/ readBody(c, r)
  \/ interceptStep(c)
  \/ writeError(c)
  \/ nodeAnswers(c)
  \/ badGateway(c)
  \/ copyEnds(c)
  \/ nextRequest(c)
  \/ panics(c)

publishStep == storePublishes /\ UNCHANGED exchange

HTTPNext == publishStep \/ \E c \in Clients : httpStep(c)

HTTPSpec == HTTPInit /\ [][HTTPNext]_httpVars

-----------------------------------------------------------------------------
\* A call and an exchange, by their fields.
IsCall(call) ==
  /\ DOMAIN call = {"at", "payload", "number", "sent", "seen", "floor"}
  /\ call = [field \in DOMAIN call |-> call[field]]

IsExchange(e) ==
  /\ DOMAIN e = {"at", "request", "written", "fault"}
  /\ e = [field \in DOMAIN e |-> e[field]]

\* What an exchange that is over was answered: one answer and one only; 502 is for a
\* full node that failed, 500 for a panic before any answer, an invalid request for
\* a batch beyond the limit, and an internal error for a body that is neither
\* malformed nor such a batch.
rightlyAnswered(e) ==
  LET payload == unmarshal(e.request.body)
      answer == e.written[1]
  IN /\ Len(e.written) = 1
     /\ answer = httpError("502") => e.fault = "node"
     /\ answer = httpError("500") => e.fault = "panic"
     /\ e.fault = "panic" => answer \in {httpError("500"), nodeAnswer}
     /\ answer = jsonRPCError(CodeInvalidRequest) => batchTooLarge(payload)
     /\ answer = jsonRPCError(CodeInternalError) =>
          payload.kind # "malformed" /\ ~batchTooLarge(payload)

\* A call and its exchange belong together, n being the number in the store: they
\* begin and end together, a call's numbers are in the order they were read in, and
\* it has come past the checks that it must have passed.
Together(call, e, n) ==
  /\ IsCall(call) /\ IsExchange(e)
  /\ call.at \in {"idle", "received", "resolved", "forwarded", "refused"}
  /\ e.at \in {"none", "handling", "copying", "over"}
  /\ e.at \in {"handling", "copying"} <=> call.at # "idle"
  /\ call.floor \in Nat /\ call.seen \in Nat /\ call.number \in Nat
  /\ call.floor <= call.seen /\ call.seen <= n
  /\ call.at \in {"resolved", "forwarded"} => call.seen <= call.number /\ call.number <= n
  /\ call.at # "idle" => /\ HTTPRPCMiddlewares(e.request) = passed /\ readsWhole(e.request)
                        /\ call.payload = unmarshal(e.request.body)
  /\ e.at # "over" => e.fault = "none"
  /\ e.at \in {"none", "handling"} => e.written = <<>>
  /\ e.at = "copying" => call.at = "forwarded" /\ e.written = <<nodeAnswer>>
  /\ e.at = "over" => rightlyAnswered(e)

\* Inductive invariant of the server, with its types.
HTTPInv ==
  /\ l2BlockNumber \in Nat /\ highest \in Nat /\ highest <= l2BlockNumber
  /\ calls = [c \in Clients |-> calls[c]]
  /\ exchange = [c \in Clients |-> exchange[c]]
  /\ \A c \in Clients : Together(calls[c], exchange[c], l2BlockNumber)

\* What is sent to the full node came in a POST of a JSON media type, in a body that
\* was read whole and is within the limit whether or not its length was declared.
OnlyCheckedReachesNode ==
  \A c \in Clients :
    LET r == exchange[c].request IN
    calls[c].at = "forwarded" =>
      /\ r.method = "POST" /\ r.contentType = "json"
      /\ maxRequestBodySize > 0 => size(r.body) <= maxRequestBodySize
      /\ calls[c].payload = unmarshal(r.body)

\* Every request that came to an end was answered, by one writer and one only, also
\* when a handler panicked after the full node's answer had begun, and with a status
\* or an error code that has its cause.
AnsweredOnce == \A c \in Clients : exchange[c].at = "over" => rightlyAnswered(exchange[c])
=============================================================================
