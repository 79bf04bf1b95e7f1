--------------------------- MODULE WebSocketBridge ---------------------------
(***************************************************************************)
(* One WebSocket connection of a client: http/websocket_bridge.go,         *)
(* websocketutil and adapters/interceptor_websocket.go.  The handler's     *)
(* goroutine copies from the full node (upstream) to the client            *)
(* (downstream), a second one copies and rewrites the other way; each ends *)
(* by closing both connections.                                            *)
(***************************************************************************)
EXTENDS Naturals, Sequences, FiniteSetsExt

CONSTANTS
  Requests,      \* what a client may send
  Refused,       \* the requests that PerformRequestIntercept refuses
  Answers,       \* what the full node may send
  TooBig,        \* the messages above the read limit of the side they come from:
                 \* MaxRequestBodySize downstream, the library's default upstream
  Malformed,     \* the messages that break the protocol
  Statuses,      \* the statuses a peer may close with
  NoStatus,      \* no close frame
  NothingHeld,   \* no message in hand
  MaxMessages    \* bound on the messages of one peer

ASSUME RefusedAreRequests == Refused \subseteq Requests

\* The messages that the library does not return from a read.
Unreadable == TooBig \cup Malformed

Sides == {"upstream", "downstream"}
Loops == {"handler", "bridge"}

\* The statuses of the proxy's own and of its library.
StatusNormalClosure == "1000"
StatusProtocolError == "1002"
StatusMessageTooBig == "1009"
StatusInternalServerError == "1011"

VARIABLES
  conn,        \* conn[s]: "none", "open" or "closed"
  incoming,    \* incoming[s]: sent by the peer and not yet read
  peerClose,   \* peerClose[s]: the status of the peer's close frame, after these
  sent,        \* sent[s]: all that the peer sent (history)
  received,    \* received[s]: what the peer was sent
  closedWith,  \* closedWith[s]: the status the peer was sent
  pc,          \* pc[g]: where the goroutine is
  held,        \* held[g]: the message in its hands
  status,      \* status[g]: the status of the closeError in its hands
  ctx          \* the context of the request

peerVars == <<incoming, peerClose, sent>>
connVars == <<conn, closedWith>>
vars == <<connVars, peerVars, received, pc, held, status, ctx>>

\* The sides that a goroutine reads from and writes to.
source(g) == IF g = "handler" THEN "upstream" ELSE "downstream"
target(g) == IF g = "handler" THEN "downstream" ELSE "upstream"

\* The rewritten request, and the JSON-RPC error that answers a refused one, which
\* is told apart from whatever the full node answers.
intercepted(m) == [request |-> m]
errorResponse == [error |-> "refused"]

ASSUME ErrorIsTheProxys == errorResponse \notin Answers

Init ==
  /\ conn = [s \in Sides |-> "none"]
  /\ incoming = [s \in Sides |-> <<>>]
  /\ peerClose = [s \in Sides |-> NoStatus]
  /\ sent = [s \in Sides |-> <<>>]
  /\ received = [s \in Sides |-> <<>>]
  /\ closedWith = [s \in Sides |-> NoStatus]
  /\ pc = [g \in Loops |-> "down"]
  /\ held = [g \in Loops |-> NothingHeld]
  /\ status = [g \in Loops |-> NoStatus]
  /\ ctx = "live"

-----------------------------------------------------------------------------
\* The peers and the network.

send(s, m) ==
  /\ conn[s] = "open"
  /\ peerClose[s] = NoStatus
  /\ Len(sent[s]) < MaxMessages
  /\ m \in IF s = "downstream" THEN Requests ELSE Answers
  /\ incoming' = [incoming EXCEPT ![s] = Append(@, m)]
  /\ sent' = [sent EXCEPT ![s] = Append(@, m)]
  /\ UNCHANGED <<connVars, peerClose, received, pc, held, status, ctx>>

sendClose(s, st) ==
  /\ conn[s] = "open"
  /\ peerClose[s] = NoStatus
  /\ peerClose' = [peerClose EXCEPT ![s] = st]
  /\ UNCHANGED <<connVars, incoming, sent, received, pc, held, status, ctx>>

\* The connection breaks without a close frame.
lost(s) ==
  /\ conn[s] = "open"
  /\ conn' = [conn EXCEPT ![s] = "closed"]
  /\ UNCHANGED <<closedWith, peerVars, received, pc, held, status, ctx>>

\* Close of the adapter: the first one on an open connection sends its status, and
\* the connection is closed in any case.
Close(s, st) ==
  /\ conn' = [conn EXCEPT ![s] = "closed"]
  /\ closedWith' = IF conn[s] = "open" THEN [closedWith EXCEPT ![s] = st] ELSE closedWith

-----------------------------------------------------------------------------
\* ServeHTTP and Upgrade.

Upgrade ==
  /\ pc["handler"] = "down"
  /\ conn' = [conn EXCEPT !["downstream"] = "open"]
  /\ pc' = [pc EXCEPT !["handler"] = "dial"]
  /\ UNCHANGED <<closedWith, peerVars, received, held, status, ctx>>

\* The context of a request is cancelled when its handler returns.
upgradeFails ==
  /\ pc["handler"] = "down"
  /\ pc' = [pc EXCEPT !["handler"] = "done"]
  /\ ctx' = "cancelled"
  /\ UNCHANGED <<connVars, peerVars, received, held, status>>

Dial ==
  /\ pc["handler"] = "dial"
  /\ conn' = [conn EXCEPT !["upstream"] = "open"]
  /\ pc' = [g \in Loops |-> "loop"]
  /\ UNCHANGED <<closedWith, peerVars, received, held, status, ctx>>

\* Faulty variant of dialFails: the client's connection is left open.
dialFailsOnly ==
  /\ pc["handler"] = "dial"
  /\ pc' = [pc EXCEPT !["handler"] = "done"]
  /\ ctx' = "cancelled"
  /\ UNCHANGED <<connVars, peerVars, received, held, status>>

dialFails ==
  /\ pc["handler"] = "dial"
  /\ Close("downstream", StatusInternalServerError)
  /\ pc' = [pc EXCEPT !["handler"] = "done"]
  /\ ctx' = "cancelled"
  /\ UNCHANGED <<peerVars, received, held, status>>

-----------------------------------------------------------------------------
\* The loop of both goroutines: ReadAllMessages over teeReader.Read.

goto(g, l) == pc' = [pc EXCEPT ![g] = l]

ReadAllMessages(g) ==
  /\ pc[g] = "loop"
  /\ goto(g, IF ctx = "live" THEN "read" ELSE "closeUpstream")
  /\ UNCHANGED <<connVars, peerVars, received, held, status, ctx>>

\* A message was read; one of the client's was rewritten or refused.
Read(g) ==
  /\ pc[g] = "read"
  /\ conn[source(g)] = "open"
  /\ incoming[source(g)] # <<>>
  /\ Head(incoming[source(g)]) \notin Unreadable
  /\ LET m == Head(incoming[source(g)])
     IN  IF g = "bridge" /\ m \in Refused
           THEN goto(g, "refuse") /\ UNCHANGED held
           ELSE /\ goto(g, "write")
                /\ held' = [held EXCEPT ![g] = IF g = "bridge" THEN intercepted(m) ELSE m]
  /\ incoming' = [incoming EXCEPT ![source(g)] = Tail(@)]
  /\ UNCHANGED <<connVars, peerClose, sent, received, status, ctx>>

\* The library answers a message that is too big, or that breaks the protocol, with
\* a close frame of its own, and the read fails with an error that is no closeError.
readUnreadable(g) ==
  /\ pc[g] = "read"
  /\ conn[source(g)] = "open"
  /\ incoming[source(g)] # <<>>
  /\ Head(incoming[source(g)]) \in Unreadable
  /\ Close(source(g), IF Head(incoming[source(g)]) \in TooBig THEN StatusMessageTooBig
                                                              ELSE StatusProtocolError)
  /\ incoming' = [incoming EXCEPT ![source(g)] = Tail(@)]
  /\ goto(g, "closeUpstream")
  /\ UNCHANGED <<peerClose, sent, received, held, status, ctx>>

\* The error goes to the client, beside what the other goroutine writes there; the
\* request is the last one that is read.
WriteJSONRPCResponseToWebSocket ==
  /\ pc["bridge"] = "refuse"
  /\ conn["downstream"] = "open"
  /\ received' = [received EXCEPT !["downstream"] = Append(@, errorResponse)]
  /\ goto("bridge", "closeUpstream")
  /\ UNCHANGED <<connVars, peerVars, held, status, ctx>>

\* The write of the error failed, whatever it left of the connection.
responseFails ==
  /\ pc["bridge"] = "refuse"
  /\ Close("downstream", StatusProtocolError)
  /\ goto("bridge", "closeUpstream")
  /\ UNCHANGED <<peerVars, received, held, status, ctx>>

\* The peer's close frame was read, and is answered by the library.
readCloseError(g) ==
  /\ pc[g] = "read"
  /\ conn[source(g)] = "open"
  /\ incoming[source(g)] = <<>>
  /\ peerClose[source(g)] # NoStatus
  /\ Close(source(g), peerClose[source(g)])
  /\ status' = [status EXCEPT ![g] = peerClose[source(g)]]
  /\ goto(g, "forwardClose")
  /\ UNCHANGED <<peerVars, received, held, ctx>>

\* The other goroutine closed the connection, and the peer's answer is read.
readEcho(g) ==
  /\ pc[g] = "read"
  /\ conn[source(g)] = "closed"
  /\ closedWith[source(g)] # NoStatus
  /\ status' = [status EXCEPT ![g] = closedWith[source(g)]]
  /\ goto(g, "forwardClose")
  /\ UNCHANGED <<connVars, peerVars, received, held, ctx>>

\* The connection is closed or broken, or the context was cancelled, which breaks it.
readFails(g) ==
  /\ pc[g] = "read"
  /\ conn[source(g)] = "closed" \/ ctx = "cancelled"
  /\ conn' = [conn EXCEPT ![source(g)] = "closed"]
  /\ goto(g, "closeUpstream")
  /\ UNCHANGED <<closedWith, peerVars, received, held, status, ctx>>

\* Faulty variant of Write: the error of a closed connection is not looked at.
writeAnyway(g) ==
  /\ pc[g] = "write"
  /\ IF conn[target(g)] = "open"
       THEN received' = [received EXCEPT ![target(g)] = Append(@, held[g])]
       ELSE UNCHANGED received
  /\ held' = [held EXCEPT ![g] = NothingHeld]
  /\ goto(g, "loop")
  /\ UNCHANGED <<connVars, peerVars, status, ctx>>

Write(g) ==
  /\ pc[g] = "write"
  /\ conn[target(g)] = "open"
  /\ received' = [received EXCEPT ![target(g)] = Append(@, held[g])]
  /\ held' = [held EXCEPT ![g] = NothingHeld]
  /\ goto(g, "loop")
  /\ UNCHANGED <<connVars, peerVars, status, ctx>>

\* The write fails with the status that the connection was closed with.
writeCloseError(g) ==
  /\ pc[g] = "write"
  /\ conn[target(g)] = "closed"
  /\ closedWith[target(g)] # NoStatus
  /\ status' = [status EXCEPT ![g] = closedWith[target(g)]]
  /\ held' = [held EXCEPT ![g] = NothingHeld]
  /\ goto(g, "returnClose")
  /\ UNCHANGED <<connVars, peerVars, received, ctx>>

writeFails(g) ==
  /\ pc[g] = "write"
  /\ conn[target(g)] = "closed" \/ ctx = "cancelled"
  /\ conn' = [conn EXCEPT ![target(g)] = "closed"]
  /\ held' = [held EXCEPT ![g] = NothingHeld]
  /\ goto(g, "closeUpstream")
  /\ UNCHANGED <<closedWith, peerVars, received, status, ctx>>

\* Faulty variant of forwardClose: with a status of the proxy's own.
forwardInternalError(g) ==
  /\ pc[g] = "forwardClose"
  /\ Close(target(g), StatusInternalServerError)
  /\ goto(g, "closeUpstream")
  /\ UNCHANGED <<peerVars, received, held, status, ctx>>

\* teeReader.Read passes the status on to the side it writes to ...
forwardClose(g) ==
  /\ pc[g] = "forwardClose"
  /\ Close(target(g), status[g])
  /\ goto(g, "closeUpstream")
  /\ UNCHANGED <<peerVars, received, held, status, ctx>>

\* ... or back to the side it reads from.
returnClose(g) ==
  /\ pc[g] = "returnClose"
  /\ Close(source(g), status[g])
  /\ goto(g, "closeUpstream")
  /\ UNCHANGED <<peerVars, received, held, status, ctx>>

\* Faulty variant of closeUpstream: the second goroutine just ends.
bridgeJustEnds(g) ==
  /\ pc[g] = "closeUpstream"
  /\ IF g = "bridge"
       THEN goto(g, "done") /\ UNCHANGED connVars
       ELSE goto(g, "closeDownstream") /\ Close("upstream", StatusNormalClosure)
  /\ UNCHANGED <<peerVars, received, held, status, ctx>>

\* The deferred Close of both goroutines, of one connection and then of the other.
closeUpstream(g) ==
  /\ pc[g] = "closeUpstream"
  /\ Close("upstream", StatusNormalClosure)
  /\ goto(g, "closeDownstream")
  /\ UNCHANGED <<peerVars, received, held, status, ctx>>

closeDownstream(g) ==
  /\ pc[g] = "closeDownstream"
  /\ Close("downstream", StatusNormalClosure)
  /\ goto(g, "done")
  /\ ctx' = IF g = "handler" THEN "cancelled" ELSE ctx
  /\ UNCHANGED <<peerVars, received, held, status>>

-----------------------------------------------------------------------------
peerStep ==
  \E s \in Sides :
    \/ \E m \in Requests \cup Answers : send(s, m)
    \/ \E st \in Statuses : sendClose(s, st)
    \/ lost(s)

\* The steps of a goroutine that wait for no peer to read.
ownStep(g) ==
  \/ ReadAllMessages(g)
  \/ Read(g)
  \/ readUnreadable(g)
  \/ readCloseError(g)
  \/ readEcho(g)
  \/ readFails(g)
  \/ writeCloseError(g)
  \/ writeFails(g)
  \/ forwardClose(g)
  \/ returnClose(g)
  \/ closeUpstream(g)
  \/ closeDownstream(g)

loopStep(g) == ownStep(g) \/ Write(g)

refuseStep == WriteJSONRPCResponseToWebSocket \/ responseFails

Next ==
  \/ peerStep
  \/ Upgrade
  \/ upgradeFails
  \/ Dial
  \/ dialFails
  \/ \E g \in Loops : loopStep(g)
  \/ refuseStep

Spec == Init /\ [][Next]_vars

\* A read of what has arrived returns, reads and writes on a closed connection
\* return, and so does Close, which waits for the peer for a few seconds at most.  A
\* write on an open connection has no deadline and waits for a peer that may not read.
FairSpec ==
  /\ Spec
  /\ \A g \in Loops : WF_vars(ownStep(g))
  /\ WF_vars(conn["downstream"] = "closed" /\ responseFails)

-----------------------------------------------------------------------------
\* Type invariant of a bridged connection.
TypeOK ==
  /\ conn \in [Sides -> {"none", "open", "closed"}]
  /\ incoming \in [Sides -> Seq(Requests \cup Answers)]
  /\ peerClose \in [Sides -> Statuses \cup {NoStatus}]
  /\ pc \in [Loops -> {"down", "dial", "loop", "read", "refuse", "write", "forwardClose",
                       "returnClose", "closeUpstream", "closeDownstream", "done"}]
  /\ \A g \in Loops : held[g] # NothingHeld => pc[g] = "write"
  /\ \A g \in Loops : pc[g] \in {"forwardClose", "returnClose"} => status[g] # NoStatus
  /\ ctx \in {"live", "cancelled"}

\* What the peer of a goroutine's source sent, in the form in which it is passed on.
passedOn(g, msgs) == IF g = "bridge" THEN [i \in DOMAIN msgs |-> intercepted(msgs[i])] ELSE msgs

isPrefix(s, t) == Len(s) <= Len(t) /\ s = SubSeq(t, 1, Len(s))

\* A sequence without the first e in it.
removeFirst(s, e) ==
  LET at == {i \in DOMAIN s : s[i] = e}
  IN  IF at = {} THEN s ELSE SubSeq(s, 1, Min(at) - 1) \o SubSeq(s, Min(at) + 1, Len(s))

\* What arrived at its target from there: all but the error, which may stand among
\* the answers, once.
arrived(g) == removeFirst(received[target(g)], errorResponse)

\* The message in a goroutine's hands, on its way from the read to the write.
inHand(g) == IF pc[g] = "write" THEN <<held[g]>> ELSE <<>>

\* The bridge is transparent in both directions: what arrives is what was sent, in
\* its order and without a gap, also while the other goroutine writes to the same
\* client or closes either side, except for one error to the client; nothing is lost
\* as long as the goroutine goes on; and of a client's requests, neither a refused
\* one nor one after it reaches the full node.
Transparent ==
  \A g \in Loops :
    /\ isPrefix(arrived(g), passedOn(g, sent[source(g)]))
    /\ pc[g] \in {"loop", "read", "write"} =>
         passedOn(g, sent[source(g)])
           = arrived(g) \o inHand(g) \o passedOn(g, incoming[source(g)])
    /\ g = "bridge" => \A m \in Refused : intercepted(m) \notin Range(arrived(g))

\* No goroutine leaves a connection open when it ends, whichever way the upgrade,
\* the dial or the loop ended.
NothingLeftOpen ==
  \A g \in Loops : pc[g] = "done" => \A s \in Sides : conn[s] # "open"

\* The peer of a side sent one of these messages.
wasSent(s, msgs) == \E i \in DOMAIN sent[s] : sent[s][i] \in msgs

refusedSent == wasSent("downstream", Refused)

\* There is a reason to end the loops: a peer closed, a connection broke, or a message
\* was refused or could not be read.
endHasCause ==
  \/ \E p \in Sides : peerClose[p] # NoStatus \/ (conn[p] = "closed" /\ closedWith[p] = NoStatus)
  \/ refusedSent
  \/ \E p \in Sides : wasSent(p, Unreadable)

\* A status is one that a peer sent, or the proxy's own: normal when there was a reason
\* to end, internal error without an upstream, protocol error for a refused request;
\* or the library's, for a message that it could not read.
hasCause(st) ==
  \/ \E p \in Sides : st = peerClose[p]
  \/ st = StatusNormalClosure /\ endHasCause
  \/ st = StatusInternalServerError /\ conn["upstream"] = "none"
  \/ st = StatusProtocolError /\ (refusedSent \/ \E p \in Sides : wasSent(p, Malformed))
  \/ st = StatusMessageTooBig /\ \E p \in Sides : wasSent(p, TooBig)

\* A peer is closed with a status that a peer sent, or with the proxy's own or the
\* library's where it has its cause.
StatusHasCause == \A s \in Sides : closedWith[s] # NoStatus => hasCause(closedWith[s])

\* A goroutine waits in a write, for a peer that does not read.
stalled(g) ==
  \/ pc[g] = "write" /\ conn[target(g)] = "open"
  \/ pc[g] = "refuse" /\ conn["downstream"] = "open"

bothEnded ==
  /\ pc["handler"] = "done" /\ pc["bridge"] \in {"done", "down"}
  /\ \A s \in Sides : conn[s] # "open"

\* Both directions end together.  Once one goroutine has left its loop, both end and
\* nothing stays open, even if the other one waits in a write for a peer that does not
\* read.  Where no write waits forever, a connection that is closed, or a peer that
\* wants to close, has the same effect.
EndTogether ==
  /\ (\E g \in Loops : pc[g] \in {"forwardClose", "returnClose", "closeUpstream", "closeDownstream"})
       ~> bothEnded
  /\ (\A g \in Loops : []<>~stalled(g)) =>
       ((\E s \in Sides : pc["handler"] # "dial" /\ conn[s] # "none"
                            /\ (conn[s] = "closed" \/ peerClose[s] # NoStatus))
          ~> bothEnded)

\* Inductive invariant of the bridge: there is no second goroutine and nothing was
\* closed before the dial; both connections were opened once there is one; upstream
\* is closed before downstream; a status in hand has its cause, and so has a refusal
\* and the end of a loop; only the handler's return cancels the context.
BridgeInv ==
  /\ TypeOK
  /\ DOMAIN closedWith = Sides /\ DOMAIN status = Loops /\ DOMAIN held = Loops
  /\ sent \in [Sides -> Seq(Requests \cup Answers)]
  /\ pc["handler"] = "down" => \A s \in Sides : conn[s] = "none"
  /\ pc["handler"] \in {"down", "dial"} =>
       pc["bridge"] = "down" /\ \A s \in Sides : closedWith[s] = NoStatus
  /\ pc["handler"] = "dial" => conn["downstream"] # "none"
  /\ pc["bridge"] = "down" => pc["handler"] \in {"down", "dial", "done"} /\ conn["upstream"] = "none"
  /\ pc["bridge"] # "down" => \A s \in Sides : conn[s] # "none"
  /\ pc["bridge"] # "dial" /\ pc["handler"] # "refuse"
  /\ \A g \in Loops : pc[g] = "closeDownstream" => conn["upstream"] = "closed"
  /\ \A g \in Loops : pc[g] \in {"forwardClose", "returnClose"} => hasCause(status[g])
  /\ pc["bridge"] = "refuse" => refusedSent
  /\ \A g \in Loops : pc["bridge"] # "down" /\ pc[g] \in {"closeUpstream", "closeDownstream", "done"} =>
       endHasCause
  /\ ctx = "cancelled" => pc["handler"] = "done"
  /\ \A s \in Sides : \A i \in DOMAIN incoming[s] : \E j \in DOMAIN sent[s] : sent[s][j] = incoming[s][i]
  /\ NothingLeftOpen
  /\ StatusHasCause

\* What a goroutine may write to its target.
forwardable(g) ==
  IF g = "bridge" THEN {intercepted(m) : m \in Requests \ Refused} ELSE Answers

\* Inductive invariant of the messages in one direction: what was sent is what
\* arrived, what is in the goroutine's hands and what is still to be read, also
\* before the loops begin; from when the goroutine has given up a message on, what
\* arrived stays a prefix of what was sent.
Flow(g) ==
  /\ pc[g] = "write" => held[g] \in forwardable(g)
  /\ received[target(g)] \in Seq(forwardable(g) \cup {errorResponse})
  /\ arrived(g) \in Seq(forwardable(g))
  /\ isPrefix(arrived(g), passedOn(g, sent[source(g)]))
  /\ pc[g] \in {"down", "dial", "loop", "read", "write"} =>
       passedOn(g, sent[source(g)])
         = arrived(g) \o inHand(g) \o passedOn(g, incoming[source(g)])

\* Inductive invariant of the messages: each side sends its own, and no error was
\* written before the goroutine that writes it gave up its loop.
FlowInv ==
  /\ DOMAIN received = Sides
  /\ sent["downstream"] \in Seq(Requests) /\ incoming["downstream"] \in Seq(Requests)
  /\ sent["upstream"] \in Seq(Answers) /\ incoming["upstream"] \in Seq(Answers)
  /\ errorResponse \notin Range(received["upstream"])
  /\ pc["bridge"] \in {"down", "loop", "read", "write", "refuse"} =>
       errorResponse \notin Range(received["downstream"])
  /\ \A g \in Loops : Flow(g)
=============================================================================
