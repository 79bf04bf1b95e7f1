------------------------- MODULE ProxyProcess_proofs -------------------------
(***************************************************************************)
(* The process keeps the promises of its store, and adds its own: ready    *)
(* for ever, an orderly stop, and requests that complete, for any number   *)
(* of clients.                                                             *)
(***************************************************************************)
EXTENDS ProxyProcess, EspressoStore_proofs

\* Every step of the process is a step of the store or leaves it alone.
LEMMA ProcessIsStore == [Next]_vars => [StoreNext]_storeVars
<1> SUFFICES ASSUME [Next]_vars PROVE StoreNext \/ UNCHANGED storeVars
  OBVIOUS
<1>1. ASSUME NEW c \in Clients, requestStep(c) PROVE StoreNext \/ UNCHANGED storeVars
  BY <1>1 DEF requestStep, loadCurrent, newReadinessHandler, interceptRPC, replyRPC, upgrade, done, StoreNext
<1>2. CASE mainStep
  BY <1>2 DEF mainStep, Shutdown, shutdownReturns, cleanHTTPServerShutdown, Stop, stopPoller, mainReturns,
              processEnds, StoreNext
<1>3. CASE \E n \in Numbers, h \in streamerHeights : verifierUpdates(n, h)
  BY <1>3 DEF verifierUpdates, StoreNext
<1>4. CASE \E s \in Servers : ListenAndServe(s) \/ listenFails(s)
  BY <1>4 DEF ListenAndServe, listenFails
<1>5. CASE \E c \in Clients, s \in Servers, kind \in {"ready", "rpc", "upgrade"} : accept(c, s, kind)
  BY <1>5 DEF accept
<1>6. CASE \/ mustCreateEspressoStore \/ mustCreateVerifier \/ startHTTPServers \/ processEnds
           \/ updateProceeds \/ verifierReturns \/ pollerReturns \/ selectReturns \/ shutdownExpires
  BY <1>6 DEF mustCreateEspressoStore, mustCreateVerifier, startHTTPServers, processEnds, updateProceeds,
              verifierReturns, pollerReturns, selectReturns, shutdownExpires, StoreNext
<1>7. CASE UNCHANGED vars
  BY <1>7 DEF vars
<1> QED
  BY <1>1, <1>2, <1>3, <1>4, <1>5, <1>6, <1>7 DEF Next

\* What the store's invariant says at the places where the process looks at it.
LEMMA StoreFacts ==
  ASSUME StoreInv
  PROVE  /\ process \in {"up", "down"}
         /\ state.L2BlockNumber \in Nat
         /\ state.FallbackHotshotHeight \in Nat
         /\ served \in Nat
         /\ durableNumber \in Nat
         /\ state.L2BlockNumber <= durableNumber
         /\ process = "up" => state.FallbackHotshotHeight # 0
         /\ process = "up" /\ call.at = "none" => state = disk
         /\ process = "down" => call.at = "none" /\ state.L2BlockNumber = 0
  BY NoFileIsNoState, ZeroStateFacts, NoCallFacts
  DEF StoreInv, StoreTypeOK, NeverAheadOfDisk, MemoryIsFile, CallConsistent, durableNumber, EspressoState

\* A number other than 0, once in the file, stays, and so it does in memory unless
\* the process ends; a start takes it from the file.
LEMMA NumberStays ==
  ASSUME StoreInv, [StoreNext]_storeVars, durableNumber # 0
  PROVE  /\ durableNumber' # 0
         /\ process = "up" /\ process' = "up" /\ state.L2BlockNumber # 0 => state.L2BlockNumber' # 0
         /\ process = "down" /\ process' = "up" => state.L2BlockNumber' # 0
<1> USE HeightsNatural, NumbersNatural, NoFileIsNoState, ZeroStateFacts, NoCallFacts
<1> USE DEF StoreInv, StoreTypeOK, MemoryIsFile, CallConsistent, durableNumber, EspressoState
<1>1. ASSUME NEW h \in Heights, CreateFile(h) PROVE FALSE
  BY <1>1 DEF CreateFile
<1>2. CASE loadFromDisk
  BY <1>2 DEF loadFromDisk
<1>3. ASSUME NEW n \in Numbers, NEW h \in streamerHeights, UpdateIfGreater(n, h)
      PROVE UNCHANGED <<disk, state, process>>
  BY <1>3 DEF UpdateIfGreater
<1>4. CASE writeToDisk
  BY <1>4 DEF writeToDisk
<1>5. CASE publish
  BY <1>5 DEF publish
<1>6. CASE writeFails \/ InterceptRequest \/ UNCHANGED storeVars
  BY <1>6 DEF writeFails, InterceptRequest, storeVars
<1>7. CASE Crash
  BY <1>7 DEF Crash
<1> QED
  BY <1>1, <1>2, <1>3, <1>4, <1>5, <1>6, <1>7 DEF StoreNext, NewEspressoStore

\* A request record, field by field.
LEMMA NoRequestFacts ==
  /\ noRequest \in Request
  /\ noRequest.kind = "none"
  /\ noRequest.at = "idle"
  /\ noRequest.handler = "none"
  /\ noRequest.promised = FALSE
  BY DEF noRequest, Request

\* The requests' own steps keep their type.
LEMMA RequestTypeNext ==
  ASSUME ProcessTypeOK, served' \in Nat, NEW c \in Clients, requestStep(c)
  PROVE  request' \in [Clients -> Request] /\ current' \in {"checking", "ready"} /\ everReady' \in BOOLEAN
<1>0. /\ request \in [Clients -> Request]
      /\ current \in {"checking", "ready"}
      /\ everReady \in BOOLEAN
  BY DEF ProcessTypeOK
<1> DEFINE r == request[c]
<1>1. r \in Request
  BY <1>0
<1>2. CASE loadCurrent(c)
  <2>1. PICK h \in {"checking", current} :
           request' = [request EXCEPT ![c].at = "loaded", ![c].handler = h]
    BY <1>2 DEF loadCurrent
  <2>2. [r EXCEPT !.at = "loaded", !.handler = h] \in Request
    BY <1>0, <1>1 DEF Request
  <2>3. request' = [request EXCEPT ![c] = [r EXCEPT !.at = "loaded", !.handler = h]]
    BY <1>0, <2>1
  <2> QED BY <1>0, <1>2, <2>2, <2>3 DEF loadCurrent
<1>3. ASSUME NEW a \in Nat, answered(c, a) PROVE request' \in [Clients -> Request]
  <2>1. [r EXCEPT !.at = "answered", !.answer = a] \in Request
    BY <1>1 DEF Request
  <2>2. request' = [request EXCEPT ![c] = [r EXCEPT !.at = "answered", !.answer = a]]
    BY <1>0, <1>3 DEF answered
  <2> QED BY <1>0, <2>1, <2>2
<1>4. CASE newReadinessHandler(c)
  <2>1. answered(c, 200) \/ answered(c, 503)
    BY <1>4 DEF newReadinessHandler
  <2>2. request' \in [Clients -> Request]
    BY <1>3, <2>1
  <2>3. \/ UNCHANGED <<current, everReady>>
        \/ current' \in {"ready", current} /\ everReady' = TRUE
    BY <1>4 DEF newReadinessHandler
  <2> QED BY <1>0, <2>2, <2>3
<1>5. CASE interceptRPC(c)
  <2>1. [r EXCEPT !.at = "forwarded", !.answer = served'] \in Request
    BY <1>1 DEF Request
  <2>2. request' = [request EXCEPT ![c] = [r EXCEPT !.at = "forwarded", !.answer = served']]
    BY <1>0, <1>5 DEF interceptRPC
  <2> QED BY <1>0, <1>5, <2>1, <2>2 DEF interceptRPC
<1>6. CASE replyRPC(c)
  <2>1. r.answer \in Nat
    BY <1>1 DEF Request
  <2> QED BY <1>0, <1>3, <1>6, <2>1 DEF replyRPC
<1>7. CASE upgrade(c)
  BY <1>0, <1>1, <1>7 DEF upgrade, Request
<1>8. CASE done(c)
  BY <1>0, <1>8, NoRequestFacts DEF done
<1> QED
  BY <1>2, <1>4, <1>5, <1>6, <1>7, <1>8 DEF requestStep

\* Types.
LEMMA ProcessTypeNext == ProcessTypeOK /\ StoreInv /\ StoreInv' /\ [Next]_vars => ProcessTypeOK'
<1> SUFFICES ASSUME ProcessTypeOK, StoreInv, StoreInv', [Next]_vars PROVE ProcessTypeOK'
  OBVIOUS
<1> USE NoRequestFacts DEF ProcessTypeOK, Servers
<1>1. ASSUME NEW c \in Clients, requestStep(c) PROVE ProcessTypeOK'
  <2>1. served' \in Nat
    BY DEF StoreInv, StoreTypeOK
  <2>2. UNCHANGED <<lifeVars, serverVars>>
    BY <1>1 DEF requestStep, loadCurrent, newReadinessHandler, interceptRPC, replyRPC, upgrade, done
  <2> QED BY <1>1, <2>1, <2>2, RequestTypeNext DEF lifeVars, serverVars
<1>2. CASE mainStep
  <2>1. CASE \E s \in Servers : Shutdown(s) \/ shutdownReturns(s)
    BY <2>1 DEF Shutdown, shutdownReturns, lifeVars, requestVars
  <2>2. CASE cleanHTTPServerShutdown \/ Stop \/ stopPoller
    BY <2>2 DEF cleanHTTPServerShutdown, Stop, stopPoller, serverVars, requestVars
  <2>3. CASE mainReturns
    BY <2>3 DEF mainReturns, processEnds, blank
  <2> QED BY <1>2, <2>1, <2>2, <2>3 DEF mainStep
<1>3. CASE updateProceeds \/ \E n \in Numbers, h \in streamerHeights : verifierUpdates(n, h)
  BY <1>3 DEF verifierUpdates, updateProceeds, lifeVars, serverVars, requestVars
<1>4. CASE \E s \in Servers : ListenAndServe(s) \/ listenFails(s)
  BY <1>4 DEF ListenAndServe, listenFails, lifeVars, requestVars
<1>5. ASSUME NEW c \in Clients, NEW s \in Servers, NEW kind \in {"ready", "rpc", "upgrade"},
             accept(c, s, kind)
      PROVE ProcessTypeOK'
  <2>1. everReady \in BOOLEAN /\ request \in [Clients -> Request]
    OBVIOUS
  <2>2. [noRequest EXCEPT !.kind = kind, !.at = "accepted", !.promised = everReady] \in Request
    BY <2>1 DEF noRequest, Request
  <2>3. request' \in [Clients -> Request]
    BY <1>5, <2>1, <2>2 DEF accept
  <2> QED BY <1>5, <2>3 DEF accept, lifeVars, serverVars
<1>6. CASE mustCreateEspressoStore \/ mustCreateVerifier
  BY <1>6 DEF mustCreateEspressoStore, mustCreateVerifier, serverVars, requestVars
<1>7. CASE startHTTPServers \/ shutdownExpires
  <2>1. server' \in [Servers -> {"nil", "starting", "listening", "failed", "closed"}]
    <3>1. CASE startHTTPServers
      <4>1. server' \in [Servers -> {"nil", "starting"}]
        BY <3>1 DEF startHTTPServers
      <4> QED BY <4>1
    <3>2. CASE shutdownExpires
      BY <3>2 DEF shutdownExpires
    <3> QED BY <1>7, <3>1, <3>2
  <2> QED BY <1>7, <2>1 DEF startHTTPServers, shutdownExpires, lifeVars, requestVars
<1>8. CASE verifierReturns \/ pollerReturns \/ selectReturns
  BY <1>8 DEF verifierReturns, pollerReturns, selectReturns, serverVars, requestVars
<1>9. CASE processEnds
  BY <1>9 DEF processEnds, blank
<1>10. CASE UNCHANGED vars
  BY <1>10 DEF vars, lifeVars, serverVars, requestVars
<1> QED
  BY <1>1, <1>2, <1>3, <1>4, <1>5, <1>6, <1>7, <1>8, <1>9, <1>10 DEF Next

\* The order of main's steps, and the order of the stop with it.
LEMMA LifeNext ==
  ProcessTypeOK /\ StoreInv /\ StoreInv' /\ LifeInv /\ StopsInOrder /\ ServerInv /\ [Next]_vars
    => LifeInv' /\ StopsInOrder'
<1> SUFFICES ASSUME ProcessTypeOK, StoreInv, StoreInv', LifeInv, StopsInOrder, ServerInv, [Next]_vars
             PROVE LifeInv' /\ StopsInOrder'
  OBVIOUS
<1>0. /\ process = "up" /\ call.at = "none" => state = disk
      /\ process = "down" => call.at = "none"
      /\ (process = "up" /\ call.at = "none" => state = disk)'
      /\ process' \in {"up", "down"}
      /\ NoCall.at = "none"
      /\ call.at = "none" \/ call.at = "write" \/ call.at = "publish"
  BY StoreFacts, NoCallFacts DEF StoreInv, StoreTypeOK, MemoryIsFile
<1> USE DEF LifeInv, StopsInOrder
<1>1. ASSUME NEW c \in Clients, requestStep(c) PROVE LifeInv' /\ StopsInOrder'
  <2>0. request[c].at # "idle" => main # "down"
    BY NoRequestFacts
  <2>1. request[c].at # "idle"
    BY <1>1 DEF requestStep, loadCurrent, newReadinessHandler, interceptRPC, replyRPC, upgrade, done
  <2>2. UNCHANGED <<lifeVars, disk, state, call, process>>
    BY <1>1 DEF requestStep, loadCurrent, newReadinessHandler, interceptRPC, replyRPC, upgrade, done,
                InterceptRequest, storeVars
  <2> QED BY <2>0, <2>1, <2>2 DEF lifeVars
<1>2. CASE mainStep
  <2>1. CASE \E s \in Servers : Shutdown(s) \/ shutdownReturns(s)
    BY <2>1 DEF Shutdown, shutdownReturns, lifeVars, requestVars, storeVars
  <2>2. CASE cleanHTTPServerShutdown \/ Stop \/ stopPoller
    BY <2>2, <1>0 DEF cleanHTTPServerShutdown, Stop, stopPoller, serverVars, requestVars, storeVars
  <2>3. CASE mainReturns
    BY <2>3, <1>0 DEF mainReturns, processEnds, blank, Crash
  <2> QED BY <1>2, <2>1, <2>2, <2>3 DEF mainStep
<1>3. CASE \E n \in Numbers, h \in streamerHeights : verifierUpdates(n, h)
  BY <1>3, <1>0 DEF verifierUpdates, UpdateIfGreater, lifeVars, serverVars, requestVars
<1>4. CASE updateProceeds
  BY <1>4, <1>0 DEF updateProceeds, writeToDisk, writeFails, publish, lifeVars, serverVars, requestVars
<1>5. CASE \E s \in Servers : ListenAndServe(s) \/ listenFails(s)
  BY <1>5 DEF ListenAndServe, listenFails, lifeVars, requestVars, storeVars
<1>6. CASE mustCreateEspressoStore
  BY <1>6, <1>0 DEF mustCreateEspressoStore, NewEspressoStore, loadFromDisk, CreateFile, serverVars,
                    requestVars
<1>7. CASE mustCreateVerifier \/ startHTTPServers \/ shutdownExpires
  BY <1>7, <1>0 DEF mustCreateVerifier, startHTTPServers, shutdownExpires, lifeVars, requestVars, storeVars
<1>8. CASE verifierReturns \/ pollerReturns \/ selectReturns
  BY <1>8 DEF verifierReturns, pollerReturns, selectReturns, serverVars, requestVars, storeVars
<1>9. CASE processEnds
  BY <1>9, <1>0 DEF processEnds, blank, Crash
<1>10. CASE UNCHANGED vars
  BY <1>10 DEF vars, lifeVars, serverVars, requestVars, storeVars
<1>11. ASSUME NEW c \in Clients, NEW s \in Servers, NEW kind \in {"ready", "rpc", "upgrade"},
              accept(c, s, kind)
       PROVE LifeInv' /\ StopsInOrder'
  <2>1. main # "down"
    BY <1>11 DEF accept, ServerInv
  <2> QED BY <1>11, <2>1 DEF accept, lifeVars, storeVars
<1> QED
  BY <1>1, <1>2, <1>3, <1>4, <1>5, <1>6, <1>7, <1>8, <1>9, <1>10, <1>11 DEF Next

\* The requests in flight change only by the requests' own steps.
LEMMA InFlightStays ==
  ASSUME UNCHANGED request, NEW s \in Servers
  PROVE  inFlight(s)' = inFlight(s)
  BY DEF inFlight

\* A step of a request takes it out of flight or leaves it there.
LEMMA InFlightShrinks ==
  ASSUME ProcessTypeOK, NEW c \in Clients, requestStep(c), NEW s \in Servers
  PROVE  inFlight(s)' \subseteq inFlight(s)
<1> SUFFICES ASSUME NEW d \in Clients, d \in inFlight(s)' PROVE d \in inFlight(s)
  BY DEF inFlight
<1>1. request \in [Clients -> Request]
  BY DEF ProcessTypeOK
<1>2. CASE d # c
  BY <1>1, <1>2 DEF requestStep, loadCurrent, newReadinessHandler, interceptRPC, replyRPC, upgrade, done,
                    answered, inFlight, Request
<1>3. CASE d = c
  BY <1>1, <1>3, NoRequestFacts DEF requestStep, loadCurrent, newReadinessHandler, interceptRPC, replyRPC,
                    upgrade, done, answered, inFlight, Request
<1> QED BY <1>2, <1>3

\* No client, nothing in flight.
LEMMA InFlightNone ==
  ASSUME request' = [c \in Clients |-> noRequest], NEW s \in Servers
  PROVE  inFlight(s)' = {}
  BY NoRequestFacts DEF inFlight

\* The servers and what Shutdown waits for.
LEMMA ServerNext ==
  ProcessTypeOK /\ LifeInv /\ ServerInv /\ [Next]_vars => ServerInv'
<1> SUFFICES ASSUME ProcessTypeOK, LifeInv, ServerInv, [Next]_vars PROVE ServerInv'
  OBVIOUS
<1>0. /\ server \in [Servers -> {"nil", "starting", "listening", "failed", "closed"}]
      /\ shut \in [Servers -> {"none", "waiting", "returned"}]
  BY DEF ProcessTypeOK
<1>1. ASSUME NEW c \in Clients, requestStep(c) PROVE ServerInv'
  <2>1. UNCHANGED <<lifeVars, serverVars>>
    BY <1>1 DEF requestStep, loadCurrent, newReadinessHandler, interceptRPC, replyRPC, upgrade, done
  <2>2. \A s \in Servers : inFlight(s) = {} => inFlight(s)' = {}
    BY <1>1, InFlightShrinks
  <2> QED BY <2>1, <2>2 DEF ServerInv, lifeVars, serverVars
<1>2. CASE mainStep
  <2>1. CASE \E s \in Servers : Shutdown(s) \/ shutdownReturns(s)
    <3>1. \A s \in Servers : inFlight(s)' = inFlight(s)
      BY <2>1, InFlightStays DEF Shutdown, shutdownReturns, requestVars
    <3> QED BY <1>0, <2>1, <3>1 DEF Shutdown, shutdownReturns, ServerInv, lifeVars
  <2>2. CASE cleanHTTPServerShutdown \/ Stop \/ stopPoller
    <3>1. \A s \in Servers : inFlight(s)' = inFlight(s)
      BY <2>2, InFlightStays DEF cleanHTTPServerShutdown, Stop, stopPoller, requestVars
    <3> QED BY <2>2, <3>1 DEF cleanHTTPServerShutdown, Stop, stopPoller, ServerInv, serverVars
  <2>3. CASE mainReturns
    <3>1. \A s \in Servers : inFlight(s)' = {}
      BY <2>3, InFlightNone DEF mainReturns, processEnds, blank
    <3> QED BY <2>3, <3>1 DEF mainReturns, processEnds, blank, ServerInv
  <2> QED BY <1>2, <2>1, <2>2, <2>3 DEF mainStep
<1>3. CASE \/ \E n \in Numbers, h \in streamerHeights : verifierUpdates(n, h)
           \/ updateProceeds \/ verifierReturns \/ pollerReturns \/ UNCHANGED vars
  <2>1. UNCHANGED <<main, serverVars, request>>
    BY <1>3 DEF verifierUpdates, updateProceeds, verifierReturns, pollerReturns, vars, lifeVars, requestVars
  <2>2. \A s \in Servers : inFlight(s)' = inFlight(s)
    BY <2>1, InFlightStays
  <2> QED BY <2>1, <2>2 DEF ServerInv, serverVars
<1>4. CASE \/ \E s \in Servers : ListenAndServe(s) \/ listenFails(s)
           \/ mustCreateEspressoStore \/ mustCreateVerifier \/ startHTTPServers \/ shutdownExpires
           \/ selectReturns
  <2>1. \A s \in Servers : inFlight(s)' = inFlight(s)
    BY <1>4, InFlightStays DEF ListenAndServe, listenFails, mustCreateEspressoStore, mustCreateVerifier,
                               startHTTPServers, shutdownExpires, selectReturns, requestVars
  <2> QED
    BY <1>0, <1>4, <2>1 DEF ListenAndServe, listenFails, mustCreateEspressoStore, mustCreateVerifier,
                            startHTTPServers, shutdownExpires, selectReturns, ServerInv, lifeVars, serverVars
<1>5. ASSUME NEW c \in Clients, NEW s \in Servers, NEW kind \in {"ready", "rpc", "upgrade"},
             accept(c, s, kind)
      PROVE ServerInv'
  <2>1. \A t \in Servers : t # s => inFlight(t)' \subseteq inFlight(t)
    BY <1>5 DEF accept, inFlight, kinds, noRequest, ProcessTypeOK, Request, Servers
  <2> QED BY <1>5, <2>1 DEF accept, ServerInv, lifeVars, serverVars
<1>6. CASE processEnds
  <2>1. \A s \in Servers : inFlight(s)' = {}
    BY <1>6, InFlightNone DEF processEnds, blank
  <2> QED BY <1>6, <2>1 DEF processEnds, blank, ServerInv
<1> QED
  BY <1>1, <1>2, <1>3, <1>4, <1>5, <1>6 DEF Next

\* A step of one request leaves the others alone, and what its own record becomes.
LEMMA RequestChange ==
  ASSUME ProcessTypeOK, NEW c \in Clients, requestStep(c)
  PROVE  /\ \A d \in Clients \ {c} : request'[d] = request[d]
         /\ request'[c].promised => request[c].promised
         /\ request'[c].handler = "ready" => request[c].handler = "ready" \/ current = "ready"
         /\ request'[c].at # "idle" => request'[c].kind = request[c].kind
         /\ request'[c].at = "loaded" => request[c].kind = "ready" /\ request'[c].handler # "none"
         /\ request'[c].at = "forwarded" => request[c].kind = "rpc" /\ request'[c].answer = served'
                                              /\ InterceptRequest
         /\ request'[c].at = "answered" =>
              \/ newReadinessHandler(c)
              \/ request[c].at = "forwarded" /\ request'[c].answer = request[c].answer
         /\ request'[c].at \in {"idle", "loaded", "forwarded", "answered", "hijacked"}
<1>0. request \in [Clients -> Request] /\ request[c] \in Request
  BY DEF ProcessTypeOK
<1>1. CASE loadCurrent(c)
  <2>1. current # "none"
    BY DEF ProcessTypeOK
  <2> QED BY <1>0, <1>1, <2>1 DEF loadCurrent, Request
<1>2. CASE newReadinessHandler(c)
  BY <1>0, <1>2 DEF newReadinessHandler, answered, Request
<1>3. CASE interceptRPC(c)
  BY <1>0, <1>3 DEF interceptRPC, Request
<1>4. CASE replyRPC(c)
  BY <1>0, <1>4 DEF replyRPC, answered, Request
<1>5. CASE upgrade(c)
  BY <1>0, <1>5 DEF upgrade, Request
<1>6. CASE done(c)
  BY <1>0, <1>6, NoRequestFacts DEF done, Request
<1> QED
  BY <1>1, <1>2, <1>3, <1>4, <1>5, <1>6 DEF requestStep

\* The readiness handler: what it answers and what it remembers.
LEMMA ReadinessChange ==
  ASSUME ProcessTypeOK, ReadyInv, NEW c \in Clients, newReadinessHandler(c)
  PROVE  /\ request[c].kind = "ready"
         /\ request'[c].answer = 200 \/ (request'[c].answer = 503 /\ state.L2BlockNumber = 0)
         /\ everReady' => everReady \/ state.L2BlockNumber # 0
         /\ everReady => everReady'
         /\ current' = "ready" => everReady'
<1>0. request \in [Clients -> Request] /\ request[c] \in Request
  BY DEF ProcessTypeOK
<1>1. request[c].kind = "ready"
  BY DEF ReadyInv, newReadinessHandler
<1>2. request'[c].answer = 200 \/ (request'[c].answer = 503 /\ state.L2BlockNumber = 0)
  BY <1>0 DEF newReadinessHandler, answered, Request
<1>3. /\ everReady' => everReady \/ state.L2BlockNumber # 0
      /\ everReady => everReady'
      /\ current' = "ready" => everReady'
  <2>1. request[c].handler \in {"none", "checking", "ready"}
    BY <1>0 DEF Request
  <2>2. CASE request[c].handler = "checking" /\ state.L2BlockNumber = 0
    BY <2>2 DEF newReadinessHandler, ReadyInv
  <2>3. CASE request[c].handler = "checking" /\ state.L2BlockNumber # 0
    BY <2>3 DEF newReadinessHandler, ReadyInv
  <2>4. CASE request[c].handler = "ready"
    BY <2>4 DEF newReadinessHandler, ReadyInv
  <2>5. request[c].handler # "none"
    BY DEF newReadinessHandler, ReadyInv
  <2> QED BY <2>1, <2>2, <2>3, <2>4, <2>5
<1> QED BY <1>1, <1>2, <1>3

\* What the numbers of the store make of the promise, step by step.
LEMMA PromiseStays ==
  ASSUME StoreInv, [StoreNext]_storeVars, process' \in {"up", "down"}, ReadyInv, UNCHANGED everReady
  PROVE  /\ everReady' => durableNumber' # 0
         /\ process' = "up" /\ everReady' => state.L2BlockNumber' # 0
  BY NumberStays, StoreFacts DEF ReadyInv

\* The promise of /ready is kept.
LEMMA ReadyNext ==
  /\ ProcessTypeOK /\ StoreInv /\ StoreInv' /\ LifeInv /\ ReadyInv /\ ReadyIsForEver
  /\ [Next]_vars
  => ReadyInv' /\ ReadyIsForEver'
<1> SUFFICES ASSUME ProcessTypeOK, StoreInv, StoreInv', LifeInv, ReadyInv, ReadyIsForEver, [Next]_vars
             PROVE ReadyInv' /\ ReadyIsForEver'
  OBVIOUS
<1>0. [StoreNext]_storeVars /\ process' \in {"up", "down"}
  BY ProcessIsStore, StoreFacts DEF StoreInv, StoreTypeOK
<1>1. ASSUME NEW c \in Clients, requestStep(c) PROVE ReadyInv' /\ ReadyIsForEver'
  <2>1. process = "up" /\ UNCHANGED <<disk, state, process>>
    <3>1. request[c].at # "idle"
      BY <1>1 DEF requestStep, loadCurrent, newReadinessHandler, interceptRPC, replyRPC, upgrade, done
    <3>2. process = "up"
      BY <3>1, NoRequestFacts, StoreFacts DEF LifeInv
    <3>3. UNCHANGED <<disk, state, process>>
      BY <1>1 DEF requestStep, loadCurrent, newReadinessHandler, interceptRPC, replyRPC, upgrade, done,
                  InterceptRequest, storeVars
    <3> QED BY <3>2, <3>3
  <2>2. everReady => state.L2BlockNumber # 0
    BY <2>1 DEF ReadyInv
  <2>3. /\ everReady => everReady'
        /\ everReady' => everReady \/ state.L2BlockNumber # 0
        /\ current' = "ready" => everReady'
    <3>1. CASE newReadinessHandler(c)
      BY <3>1, ReadinessChange
    <3>2. CASE ~newReadinessHandler(c)
      <4>1. UNCHANGED <<current, everReady>>
        BY <1>1, <3>2 DEF requestStep, loadCurrent, interceptRPC, replyRPC, upgrade, done
      <4> QED BY <4>1 DEF ReadyInv
    <3> QED BY <3>1, <3>2
  <2>4. everReady' => durableNumber' # 0 /\ state'.L2BlockNumber # 0
    <3>1. durableNumber' = durableNumber /\ state.L2BlockNumber \in Nat /\ durableNumber \in Nat
            /\ state.L2BlockNumber <= durableNumber
      BY <2>1, StoreFacts DEF durableNumber
    <3> QED BY <2>1, <2>2, <2>3, <3>1
  <2>5. ASSUME NEW d \in Clients
        PROVE /\ request'[d].promised => everReady'
              /\ request'[d].handler = "ready" => everReady'
              /\ request'[d].at = "forwarded" => request'[d].kind = "rpc"
              /\ request'[d].at = "loaded" => request'[d].kind = "ready" /\ request'[d].handler # "none"
    <3>1. CASE d # c
      <4>1. request'[d] = request[d]
        BY <1>1, <3>1, RequestChange
      <4> QED BY <4>1, <2>3 DEF ReadyInv
    <3>2. CASE d = c
      BY <1>1, <3>2, <2>3, RequestChange DEF ReadyInv
    <3> QED BY <3>1, <3>2
  <2>6. request'[c].at = "forwarded" /\ request'[c].promised => request'[c].answer # 0
    <3>1. process = "up" => state.FallbackHotshotHeight # 0
      BY StoreFacts
    <3> QED BY <1>1, <2>1, <2>2, <3>1, RequestChange
         DEF InterceptRequest, currentEspressoFinalizedBlockNumber, ReadyInv
  <2>7. request'[c].at = "answered" /\ request'[c].promised =>
          /\ request'[c].kind = "rpc" => request'[c].answer # 0
          /\ request'[c].kind = "ready" => request'[c].answer = 200
    <3> SUFFICES ASSUME request'[c].at = "answered", request'[c].promised
                 PROVE  /\ request'[c].kind = "rpc" => request'[c].answer # 0
                        /\ request'[c].kind = "ready" => request'[c].answer = 200
      OBVIOUS
    <3>1. request[c].promised /\ request'[c].kind = request[c].kind /\ state.L2BlockNumber # 0
      BY <1>1, <2>2, RequestChange DEF ReadyInv
    <3>2. CASE newReadinessHandler(c)
      BY <3>1, <3>2, ReadinessChange
    <3>3. CASE request[c].at = "forwarded" /\ request'[c].answer = request[c].answer
      BY <3>1, <3>3 DEF ReadyInv
    <3> QED BY <1>1, <3>2, <3>3, RequestChange
  <2>8. ASSUME NEW d \in Clients, d # c PROVE request'[d] = request[d]
    BY <1>1, <2>8, RequestChange
  <2>9. ReadyIsForEver'
    BY <2>7, <2>8 DEF ReadyIsForEver
  <2>10. ReadyInv'
    BY <2>1, <2>3, <2>4, <2>5, <2>6, <2>7, <2>8, SMTT(30) DEF ReadyInv
  <2> QED BY <2>9, <2>10
<1>2. ASSUME UNCHANGED <<current, request, everReady>> PROVE ReadyInv' /\ ReadyIsForEver'
  BY <1>0, <1>2, PromiseStays, SMTT(30) DEF ReadyInv, ReadyIsForEver
<1>3. CASE processEnds
  <2>1. UNCHANGED everReady /\ current' = "checking" /\ \A c \in Clients : request'[c] = noRequest
    BY <1>3 DEF processEnds, blank
  <2> QED BY <1>0, <2>1, PromiseStays, NoRequestFacts DEF ReadyInv, ReadyIsForEver
<1>4. ASSUME NEW c \in Clients, NEW s \in Servers, NEW kind \in {"ready", "rpc", "upgrade"},
             accept(c, s, kind)
      PROVE ReadyInv' /\ ReadyIsForEver'
  <2>1. request \in [Clients -> Request] /\ everReady \in BOOLEAN
    BY DEF ProcessTypeOK
  <2>2. UNCHANGED <<current, everReady>>
    BY <1>4 DEF accept
  <2>3. /\ request'[c].at = "accepted"
        /\ request'[c].handler = "none"
        /\ request'[c].promised = everReady
    BY <1>4, <2>1 DEF accept, noRequest
  <2>4. \A d \in Clients \ {c} : request'[d] = request[d]
    BY <1>4, <2>1 DEF accept
  <2> QED BY <1>0, <2>2, <2>3, <2>4, PromiseStays, SMTT(30) DEF ReadyInv, ReadyIsForEver
<1>5. CASE mainStep
  BY <1>2, <1>3, <1>5 DEF mainStep, Shutdown, shutdownReturns, cleanHTTPServerShutdown, Stop, stopPoller,
                          mainReturns, requestVars
<1>6. CASE \/ \E n \in Numbers, h \in streamerHeights : verifierUpdates(n, h)
           \/ \E s \in Servers : ListenAndServe(s) \/ listenFails(s)
           \/ updateProceeds \/ verifierReturns \/ pollerReturns \/ UNCHANGED vars
           \/ mustCreateEspressoStore \/ mustCreateVerifier \/ startHTTPServers \/ shutdownExpires
           \/ selectReturns
  BY <1>2, <1>6 DEF verifierUpdates, ListenAndServe, listenFails, updateProceeds, verifierReturns,
                    pollerReturns, vars, mustCreateEspressoStore, mustCreateVerifier, startHTTPServers,
                    shutdownExpires, selectReturns, requestVars
<1> QED
  BY <1>1, <1>3, <1>4, <1>5, <1>6 DEF Next

-----------------------------------------------------------------------------
\* The first start satisfies the invariant.
LEMMA InitInv == Init => Inv
<1> SUFFICES ASSUME Init PROVE Inv
  OBVIOUS
<1>1. StoreInv
  BY StoreInitInv DEF Init
<1>2. ProcessTypeOK
  BY NoRequestFacts DEF Init, ProcessTypeOK, Servers
<1>3. \A s \in Servers : inFlight(s) = {}
  BY NoRequestFacts DEF Init, inFlight
<1>4. LifeInv /\ StopsInOrder /\ RequestsComplete
  BY NoCallFacts DEF Init, StoreInit, LifeInv, StopsInOrder, RequestsComplete
<1>5. ServerInv
  BY <1>3 DEF Init, ServerInv
<1>6. ReadyInv /\ ReadyIsForEver
  BY NoRequestFacts DEF Init, ReadyInv, ReadyIsForEver
<1> QED BY <1>1, <1>2, <1>4, <1>5, <1>6 DEF Inv

\* Every step preserves it.
LEMMA NextInv == Inv /\ [Next]_vars => Inv'
<1> SUFFICES ASSUME Inv, [Next]_vars PROVE Inv'
  OBVIOUS
<1>1. StoreInv'
  BY ProcessIsStore, StoreNextInv DEF Inv
<1>2. ProcessTypeOK'
  BY <1>1, ProcessTypeNext DEF Inv
<1>3. LifeInv' /\ StopsInOrder'
  BY <1>1, LifeNext DEF Inv
<1>4. ServerInv'
  BY ServerNext DEF Inv
<1>5. ReadyInv' /\ ReadyIsForEver'
  BY <1>1, ReadyNext DEF Inv
<1>6. RequestsComplete'
  BY <1>4 DEF ServerInv, RequestsComplete
<1> QED BY <1>1, <1>2, <1>3, <1>4, <1>5, <1>6 DEF Inv

\* The inductive invariant, for every number of clients.
THEOREM ProcessInvariant == Spec => []Inv
  BY InitInv, NextInv, PTL DEF Spec

\* After a /ready that said 200 no later /ready says 503 and no later request goes
\* to the full node unresolved, across the race for `current' and restarts.
THEOREM ProcessReadyIsForEver == Spec => []ReadyIsForEver
  BY ProcessInvariant, PTL DEF Inv

\* The requests a server accepted are answered before main stops the verifier,
\* unless the shutdown ran out of time.
THEOREM ProcessRequestsComplete == Spec => []RequestsComplete
  BY ProcessInvariant, PTL DEF Inv

\* The connections are closed after their users ended, and main returns with no
\* update half done.
THEOREM ProcessStopsInOrder == Spec => []StopsInOrder
  BY ProcessInvariant, PTL DEF Inv

\* The process implements the store and, with it, the cursor: what clients are
\* served never moves backwards, across signals, shutdowns, crashes and restarts.
THEOREM ProcessImplementsCursor == Spec => TagNeverMovesBackwards
<1>1. Init => StoreInit
  BY DEF Init
<1>2. Spec => StoreSpec
  BY <1>1, ProcessIsStore, PTL DEF Spec, StoreSpec
<1> QED BY <1>2, StoreImplementsCursor
=============================================================================
