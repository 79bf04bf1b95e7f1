---------------------------- MODULE ProxyProcess ----------------------------
(***************************************************************************)
(* main.go: the life of the process around the store.  The main goroutine  *)
(* creates the store, starts the verifier and the servers, waits for a     *)
(* signal or for the error of a server, and shuts everything down; the     *)
(* verifier updates the store; the servers' goroutines answer requests.    *)
(*                                                                         *)
(* The verifier appears by its calls of the store and by the end of its    *)
(* goroutines; Stop is the OP verifier's, without the message fetcher.     *)
(* Requests are /ready, JSON-RPC over HTTP, and WebSocket upgrades.        *)
(***************************************************************************)
EXTENDS EspressoStore

CONSTANTS
  Clients       \* each has one request at a time

Servers == {"http", "ws"}

VARIABLES
  main,        \* where the main goroutine is
  ctx,         \* the application's context: "live" or "cancelled"
  verifier,    \* the verifier's goroutine: "none", "running" or "returned"
  poller,      \* the finality poller's goroutine, likewise
  rpcClients,  \* the verifier's connections: "open" or "closed"
  server,      \* server[s]: the goroutine that serves, "nil" without configuration
  shut,        \* shut[s]: the goroutine that calls Shutdown
  expired,     \* the 30 seconds of the shutdown are over
  current,     \* the readiness handler's variable
  request,     \* request[c]: the request of a client and how far it got
  everReady    \* some /ready was answered with 200, since the first start (history)

lifeVars == <<main, ctx, verifier, poller, rpcClients>>
serverVars == <<server, shut, expired>>
requestVars == <<current, request, everReady>>
vars == <<storeVars, lifeVars, serverVars, requestVars>>

\* A request.  answer is the status of /ready or the number of a JSON-RPC
\* request, promised is everReady at its arrival (history).
Request ==
  [kind : {"none", "ready", "rpc", "upgrade"},
   at : {"idle", "accepted", "loaded", "forwarded", "answered", "hijacked"},
   handler : {"none", "checking", "ready"},
   answer : Nat,
   promised : BOOLEAN]

noRequest == [kind |-> "none", at |-> "idle", handler |-> "none", answer |-> 0, promised |-> FALSE]

\* What a process starts with.
blank ==
  /\ main' = "down"
  /\ ctx' = "live"
  /\ verifier' = "none"
  /\ poller' = "none"
  /\ rpcClients' = "closed"
  /\ server' = [s \in Servers |-> "nil"]
  /\ shut' = [s \in Servers |-> "none"]
  /\ expired' = FALSE
  /\ current' = "checking"
  /\ request' = [c \in Clients |-> noRequest]

Init ==
  /\ StoreInit
  /\ main = "down"
  /\ ctx = "live"
  /\ verifier = "none"
  /\ poller = "none"
  /\ rpcClients = "closed"
  /\ server = [s \in Servers |-> "nil"]
  /\ shut = [s \in Servers |-> "none"]
  /\ expired = FALSE
  /\ current = "checking"
  /\ request = [c \in Clients |-> noRequest]
  /\ everReady = FALSE

-----------------------------------------------------------------------------
\* The main goroutine, up to its select.

mustCreateEspressoStore ==
  /\ main = "down"
  /\ NewEspressoStore
  /\ main' = "verifier"
  /\ UNCHANGED <<ctx, verifier, poller, rpcClients, serverVars, requestVars>>

\* mustCreateVerifier and Start, which starts the poller as well.
mustCreateVerifier ==
  /\ main = "verifier"
  /\ rpcClients' = "open"
  /\ verifier' = "running"
  /\ poller' = "running"
  /\ main' = "serve"
  /\ UNCHANGED <<storeVars, ctx, serverVars, requestVars>>

\* A server that is not configured is nil.
startHTTPServers ==
  /\ main = "serve"
  /\ server' \in {f \in [Servers -> {"nil", "starting"}] : f["http"] = "starting"}
  /\ main' = "select"
  /\ UNCHANGED <<storeVars, ctx, verifier, poller, rpcClients, shut, expired, requestVars>>

\* The process is killed, exits by itself, or one of its starts fails.
processEnds ==
  /\ Crash
  /\ blank
  /\ UNCHANGED everReady

-----------------------------------------------------------------------------
\* The servers.

ListenAndServe(s) ==
  /\ server[s] = "starting"
  /\ server' = [server EXCEPT ![s] = "listening"]
  /\ UNCHANGED <<storeVars, lifeVars, shut, expired, requestVars>>

\* The address is taken, or accepting fails: the error goes to main.
listenFails(s) ==
  /\ server[s] \in {"starting", "listening"}
  /\ server' = [server EXCEPT ![s] = "failed"]
  /\ UNCHANGED <<storeVars, lifeVars, shut, expired, requestVars>>

\* The kinds of requests that a server takes.
kinds(s) == IF s = "http" THEN {"ready", "rpc"} ELSE {"upgrade"}

accept(c, s, kind) ==
  /\ server[s] = "listening"
  /\ kind \in kinds(s)
  /\ request[c].at = "idle"
  /\ request' = [request EXCEPT ![c] = [noRequest EXCEPT !.kind = kind, !.at = "accepted",
                                                         !.promised = everReady]]
  /\ UNCHANGED <<storeVars, lifeVars, serverVars, current, everReady>>

answered(c, answer) ==
  request' = [request EXCEPT ![c].at = "answered", ![c].answer = answer]

\* The readiness handler reads `current' without a lock while another request may
\* be writing it: it finds the old value or the new one.
loadCurrent(c) ==
  /\ request[c].kind = "ready"
  /\ request[c].at = "accepted"
  /\ \E h \in {"checking", current} :
       request' = [request EXCEPT ![c].at = "loaded", ![c].handler = h]
  /\ UNCHANGED <<storeVars, lifeVars, serverVars, current, everReady>>

\* Faulty variant of newReadinessHandler: a store that was created is ready.
readyWhenCreated(c) ==
  /\ request[c].at = "loaded"
  /\ IF request[c].handler = "checking" /\ state.FallbackHotshotHeight = 0
       THEN answered(c, 503) /\ UNCHANGED <<current, everReady>>
       ELSE /\ answered(c, 200)
            /\ current' = IF request[c].handler = "checking" THEN "ready" ELSE current
            /\ everReady' = TRUE
  /\ UNCHANGED <<storeVars, lifeVars, serverVars>>

\* The handler that was read answers: the first looks at the store and swaps
\* `current', the second always says yes.
newReadinessHandler(c) ==
  /\ request[c].at = "loaded"
  /\ IF request[c].handler = "checking" /\ state.L2BlockNumber = 0
       THEN answered(c, 503) /\ UNCHANGED <<current, everReady>>
       ELSE /\ answered(c, 200)
            /\ current' = IF request[c].handler = "checking" THEN "ready" ELSE current
            /\ everReady' = TRUE
  /\ UNCHANGED <<storeVars, lifeVars, serverVars>>

\* A JSON-RPC request reads the store and goes to the full node ...
interceptRPC(c) ==
  /\ request[c].kind = "rpc"
  /\ request[c].at = "accepted"
  /\ InterceptRequest
  /\ request' = [request EXCEPT ![c].at = "forwarded", ![c].answer = served']
  /\ UNCHANGED <<lifeVars, serverVars, current, everReady>>

\* ... whose answer, or the error of the reverse proxy, is passed on.
replyRPC(c) ==
  /\ request[c].at = "forwarded"
  /\ answered(c, request[c].answer)
  /\ UNCHANGED <<storeVars, lifeVars, serverVars, current, everReady>>

\* The connection is taken over from the server, which no longer knows of it.
upgrade(c) ==
  /\ request[c].kind = "upgrade"
  /\ request[c].at = "accepted"
  /\ request' = [request EXCEPT ![c].at = "hijacked"]
  /\ UNCHANGED <<storeVars, lifeVars, serverVars, current, everReady>>

\* The client is done with the answer or with the WebSocket connection.
done(c) ==
  /\ request[c].at \in {"answered", "hijacked"}
  /\ request' = [request EXCEPT ![c] = noRequest]
  /\ UNCHANGED <<storeVars, lifeVars, serverVars, current, everReady>>

-----------------------------------------------------------------------------
\* The verifier.

\* The call of the store, from the verifier's goroutine.
verifierUpdates(n, h) ==
  /\ verifier = "running"
  /\ UpdateIfGreater(n, h)
  /\ UNCHANGED <<lifeVars, serverVars, requestVars>>

updateProceeds ==
  /\ writeToDisk \/ writeFails \/ publish
  /\ UNCHANGED <<lifeVars, serverVars, requestVars>>

\* run finds the context cancelled, between two calls.
verifierReturns ==
  /\ verifier = "running"
  /\ ctx = "cancelled"
  /\ call.at = "none"
  /\ verifier' = "returned"
  /\ UNCHANGED <<storeVars, main, ctx, poller, rpcClients, serverVars, requestVars>>

\* So does the poller's run; its calls have a timeout.
pollerReturns ==
  /\ poller = "running"
  /\ ctx = "cancelled"
  /\ poller' = "returned"
  /\ UNCHANGED <<storeVars, main, ctx, verifier, rpcClients, serverVars, requestVars>>

-----------------------------------------------------------------------------
\* The main goroutine, from its select on.

\* Faulty variant of selectReturns: the error of a server is not waited for.
selectSignal ==
  /\ main = "select"
  /\ \A s \in Servers : server[s] # "failed"
  /\ ctx' = "cancelled"
  /\ main' = "shutdown"
  /\ UNCHANGED <<storeVars, verifier, poller, rpcClients, serverVars, requestVars>>

\* A signal or a server's error, and the cancellation.
selectReturns ==
  /\ main = "select"
  /\ ctx' = "cancelled"
  /\ main' = "shutdown"
  /\ UNCHANGED <<storeVars, verifier, poller, rpcClients, serverVars, requestVars>>

\* The requests that Shutdown waits for.
inFlight(s) ==
  {c \in Clients : request[c].kind \in kinds(s)
                     /\ request[c].at \in {"accepted", "loaded", "forwarded"}}

\* One goroutine for each server: the listener is closed ...
Shutdown(s) ==
  /\ main = "shutdown"
  /\ server[s] # "nil"
  /\ shut[s] = "none"
  /\ shut' = [shut EXCEPT ![s] = "waiting"]
  /\ server' = [server EXCEPT ![s] = IF @ = "failed" THEN @ ELSE "closed"]
  /\ UNCHANGED <<storeVars, lifeVars, expired, requestVars>>

\* Faulty variant of shutdownReturns: nothing is waited for.
shutdownAtOnce(s) ==
  /\ shut[s] = "waiting"
  /\ shut' = [shut EXCEPT ![s] = "returned"]
  /\ UNCHANGED <<storeVars, lifeVars, server, expired, requestVars>>

\* ... and its requests are waited for, as long as there is time.
shutdownReturns(s) ==
  /\ shut[s] = "waiting"
  /\ inFlight(s) = {} \/ expired
  /\ shut' = [shut EXCEPT ![s] = "returned"]
  /\ UNCHANGED <<storeVars, lifeVars, server, expired, requestVars>>

shutdownExpires ==
  /\ main = "shutdown"
  /\ expired' = TRUE
  /\ UNCHANGED <<storeVars, lifeVars, server, shut, requestVars>>

cleanHTTPServerShutdown ==
  /\ main = "shutdown"
  /\ \A s \in Servers : server[s] # "nil" => shut[s] = "returned"
  /\ main' = "stop"
  /\ UNCHANGED <<storeVars, ctx, verifier, poller, rpcClients, serverVars, requestVars>>

\* Faulty variant of Stop: the connections are closed before the poller ended.
stopClosesFirst ==
  /\ main = "stop"
  /\ verifier = "returned"
  /\ rpcClients' = "closed"
  /\ main' = "stopPoller"
  /\ UNCHANGED <<storeVars, ctx, verifier, poller, serverVars, requestVars>>

\* Stop: the verifier's goroutine is waited for, then the poller's ...
Stop ==
  /\ main = "stop"
  /\ verifier = "returned"
  /\ main' = "stopPoller"
  /\ UNCHANGED <<storeVars, ctx, verifier, poller, rpcClients, serverVars, requestVars>>

\* ... and the connections are closed.
stopPoller ==
  /\ main = "stopPoller"
  /\ poller = "returned"
  /\ rpcClients' = "closed"
  /\ main' = "exit"
  /\ UNCHANGED <<storeVars, ctx, verifier, poller, serverVars, requestVars>>

mainReturns ==
  /\ main = "exit"
  /\ processEnds

-----------------------------------------------------------------------------
requestStep(c) ==
  \/ loadCurrent(c)
  \/ newReadinessHandler(c)
  \/ interceptRPC(c)
  \/ replyRPC(c)
  \/ upgrade(c)
  \/ done(c)

mainStep ==
  \/ \E s \in Servers : Shutdown(s) \/ shutdownReturns(s)
  \/ cleanHTTPServerShutdown
  \/ Stop
  \/ stopPoller
  \/ mainReturns

Next ==
  \/ mustCreateEspressoStore
  \/ mustCreateVerifier
  \/ startHTTPServers
  \/ processEnds
  \/ \E s \in Servers : ListenAndServe(s) \/ listenFails(s)
  \/ \E c \in Clients, s \in Servers, kind \in {"ready", "rpc", "upgrade"} : accept(c, s, kind)
  \/ \E c \in Clients : requestStep(c)
  \/ \E n \in Numbers, h \in streamerHeights : verifierUpdates(n, h)
  \/ updateProceeds
  \/ verifierReturns
  \/ pollerReturns
  \/ selectReturns
  \/ shutdownExpires
  \/ mainStep

Spec == Init /\ [][Next]_vars

\* An error that was sent is received; the timer of the shutdown fires; main goes
\* on; writes to the disk return; select does not for ever prefer the ticker to a
\* cancelled context.  Requests and the full node may take for ever.
FairSpec ==
  /\ Spec
  /\ WF_vars(selectReturns /\ \E s \in Servers : server[s] = "failed")
  /\ WF_vars(shutdownExpires)
  /\ WF_vars(mainStep)
  /\ WF_vars(updateProceeds)
  /\ SF_vars(verifierReturns)
  /\ WF_vars(pollerReturns)

-----------------------------------------------------------------------------
\* Type invariant of the process.
ProcessTypeOK ==
  /\ main \in {"down", "verifier", "serve", "select", "shutdown", "stop", "stopPoller", "exit"}
  /\ ctx \in {"live", "cancelled"}
  /\ verifier \in {"none", "running", "returned"}
  /\ poller \in {"none", "running", "returned"}
  /\ rpcClients \in {"open", "closed"}
  /\ server \in [Servers -> {"nil", "starting", "listening", "failed", "closed"}]
  /\ shut \in [Servers -> {"none", "waiting", "returned"}]
  /\ expired \in BOOLEAN
  /\ current \in {"checking", "ready"}
  /\ request \in [Clients -> Request]
  /\ everReady \in BOOLEAN

\* "It returns 503 until the store has at least one verified block, then swaps
\* itself to a permanent 200 handler" (main.go), and the 200 is a promise: a
\* request that arrives after some /ready said 200 is never told 503 and never
\* goes to the full node unresolved, whichever value of `current' the racing
\* handlers read, and also after a crash and a restart.
ReadyIsForEver ==
  \A c \in Clients :
    request[c].at = "answered" /\ request[c].promised =>
      /\ request[c].kind = "ready" => request[c].answer = 200
      /\ request[c].kind = "rpc" => request[c].answer # 0

\* "Allowing any in-flight requests to complete before the servers are stopped"
\* (main.go): when main goes on to stop the verifier, every request that a server
\* accepted was answered, or the time was up; a server that was starting while the
\* signal came accepts none.  Connections that were upgraded are not waited for.
RequestsComplete ==
  main \in {"stop", "stopPoller", "exit"} /\ ~expired => \A s \in Servers : inFlight(s) = {}

\* The verifier's connections are closed only when neither its goroutine nor the
\* poller's can use them, and when no update of the store is half done: memory
\* and file agree when main returns.
StopsInOrder ==
  /\ rpcClients = "closed" => verifier # "running" /\ poller # "running"
  /\ main = "exit" => call.at = "none" /\ state = disk

\* The rest of the inductive invariant: what main's progress says of the others.
LifeInv ==
  /\ main = "down" <=> process = "down"
  /\ main = "down" => request = [c \in Clients |-> noRequest]
  /\ verifier = "none" <=> main \in {"down", "verifier"}
  /\ poller = "none" <=> main \in {"down", "verifier"}
  /\ main \in {"serve", "select", "shutdown", "stop", "stopPoller"} => rpcClients = "open"
  /\ call.at # "none" => verifier = "running"
  /\ main \in {"stopPoller", "exit"} => verifier = "returned"
  /\ main = "exit" => poller = "returned"

\* A request is in flight only at a server that had started, and one that Shutdown
\* has left behind has none.
ServerInv ==
  /\ main \in {"down", "verifier", "serve"} => \A s \in Servers : server[s] = "nil"
  /\ \A s \in Servers :
       /\ server[s] = "nil" => inFlight(s) = {}
       /\ shut[s] # "none" => server[s] \in {"failed", "closed"}
       /\ shut[s] = "returned" /\ ~expired => inFlight(s) = {}
       /\ main \in {"stop", "stopPoller", "exit"} /\ server[s] # "nil" => shut[s] = "returned"
       /\ shut[s] # "none" => main \in {"shutdown", "stop", "stopPoller", "exit"}

\* A 200 was given only when the store had a number, which the file then has for
\* ever.
ReadyInv ==
  /\ everReady => durableNumber # 0
  /\ process = "up" /\ everReady => state.L2BlockNumber # 0
  /\ current = "ready" => everReady
  /\ \A c \in Clients :
       /\ request[c].promised => everReady
       /\ request[c].handler = "ready" => everReady
       /\ request[c].at \in {"forwarded", "answered"} /\ request[c].kind = "rpc"
            /\ request[c].promised => request[c].answer # 0
       /\ request[c].at = "forwarded" => request[c].kind = "rpc"
       /\ request[c].at = "loaded" => request[c].kind = "ready" /\ request[c].handler # "none"

Inv ==
  /\ StoreInv
  /\ ProcessTypeOK
  /\ LifeInv
  /\ ServerInv
  /\ ReadyInv
  /\ ReadyIsForEver
  /\ RequestsComplete
  /\ StopsInOrder

\* "Any fatal listen error is sent to errCh so main() can trigger a graceful
\* shutdown" (main.go): a server that fails, like a signal, ends the process,
\* however long the full node takes to answer and wherever the verifier was.
ShutdownEnds ==
  (main = "shutdown" \/ \E s \in Servers : server[s] = "failed") ~> process = "down"
=============================================================================
