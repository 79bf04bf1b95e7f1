--------------------------- MODULE FeedConnection ---------------------------
(***************************************************************************)
(* verifier/nitro/feed_client/client.go: readLoop, which keeps a WebSocket *)
(* connection to the sequencer feed, over the buffer of FeedClient.  The   *)
(* verifier's goroutine drops messages from the buffer meanwhile, and may  *)
(* move it back to messages that were dropped.                             *)
(*                                                                         *)
(* External: the feed.  It publishes messages in order, keeps those from   *)
(* tail on, and on a new connection starts at the sequence number that the *)
(* client asked for, or at tail when it no longer has that one.            *)
(***************************************************************************)
EXTENDS FeedClient

CONSTANTS
  StartSeqNums,   \* what NewFeedClient may be given: 0 at the first start
  startBackOff,   \* seconds
  maxBackoff      \* seconds

\* The feed numbers its messages without a gap.
ASSUME PositionsContiguous == \A p \in Positions : 1..p \subseteq Positions

ASSUME StartsNatural == StartSeqNums \subseteq Nat

ASSUME BackoffPositive == startBackOff \in Nat /\ maxBackoff \in Nat /\ 0 < startBackOff /\ startBackOff < maxBackoff

VARIABLES
  pc,           \* where readLoop and readMessages are
  ctx,          \* "live" or "cancelled"
  backoff,      \* in readLoop
  requested,    \* the header Arbitrum-Requested-Sequence-Number of the last dial
  head,         \* the feed: the last position published, 0 for none
  tail,         \* the feed: the first position it still has
  sent,         \* the connection: the last position sent on it
  skipped,      \* the connection: a position after `requested' was not delivered
  passed,       \* the furthest that nextSeqNum was since the last dial (history)
  streamPos     \* the verifier: the position that the streamer looks for

loopVars == <<pc, ctx, backoff, requested>>
serverVars == <<head, tail>>
connVars == <<sent, skipped>>
vars == <<feedVars, loopVars, serverVars, connVars, passed, streamPos>>

Init ==
  /\ messages = [p \in Positions |-> NoMessage]
  /\ nextSeqNum \in StartSeqNums
  /\ pc = "loop"
  /\ ctx = "live"
  /\ backoff = startBackOff
  /\ requested = 0
  /\ head = 0
  /\ tail = 1
  /\ sent = 0
  /\ skipped = FALSE
  /\ passed = nextSeqNum
  /\ streamPos = nextSeqNum + 1

-----------------------------------------------------------------------------
\* readLoop.

\* Faulty variant of dial: it asks for the message after the next one.
dialPast ==
  /\ pc = "loop"
  /\ ctx = "live"
  /\ requested' = nextSeqNum + 1
  /\ passed' = nextSeqNum
  /\ pc' = "dialing"
  /\ UNCHANGED <<feedVars, ctx, backoff, serverVars, connVars, streamPos>>

\* The number to ask for is read, without the lock, and the connection is dialled;
\* the verifier may move it on or back before the feed sees the number.
dial ==
  /\ pc = "loop"
  /\ ctx = "live"
  /\ requested' = nextSeqNum
  /\ passed' = nextSeqNum
  /\ pc' = "dialing"
  /\ UNCHANGED <<feedVars, ctx, backoff, serverVars, connVars, streamPos>>

loopEnds ==
  /\ pc = "loop"
  /\ ctx = "cancelled"
  /\ pc' = "ended"
  /\ UNCHANGED <<feedVars, ctx, backoff, requested, serverVars, connVars, passed, streamPos>>

\* Faulty variant of dialFails: the loop gives up.
dialGivesUp ==
  /\ pc = "dialing"
  /\ pc' = "ended"
  /\ UNCHANGED <<feedVars, ctx, backoff, requested, serverVars, connVars, passed, streamPos>>

dialFails ==
  /\ pc = "dialing"
  /\ pc' = "sleeping"
  /\ UNCHANGED <<feedVars, ctx, backoff, requested, serverVars, connVars, passed, streamPos>>

\* Faulty variant of sleepEnds: the time doubles without a limit.
sleepAlwaysDoubles ==
  /\ pc = "sleeping"
  /\ backoff' = 2 * backoff
  /\ pc' = "loop"
  /\ UNCHANGED <<feedVars, ctx, requested, serverVars, connVars, passed, streamPos>>

sleepEnds ==
  /\ pc = "sleeping"
  /\ backoff' = IF backoff < maxBackoff THEN 2 * backoff ELSE backoff
  /\ pc' = "loop"
  /\ UNCHANGED <<feedVars, ctx, requested, serverVars, connVars, passed, streamPos>>

\* What the header Arbitrum-Chain-Id of the answer may hold: nothing, the
\* configured chain, another one, or no number.
Headers == {"", "chainID", "other", "malformed"}

verifyChainID(header) ==
  CASE header = "" -> "ErrMissingChainId"
    [] header = "malformed" -> "malformed header"
    [] header = "other" -> "ErrIncorrectChainId"
    [] header = "chainID" -> "nil"

\* The wrong chain, or none: Crit ends the process.
chainRefused(header) ==
  /\ pc = "dialing"
  /\ verifyChainID(header) \in {"ErrIncorrectChainId", "ErrMissingChainId"}
  /\ pc' = "exited"
  /\ UNCHANGED <<feedVars, ctx, backoff, requested, serverVars, connVars, passed, streamPos>>

\* Connected, also when the header is no number: the feed starts at the number that
\* was asked for, if it can.
connect(header) ==
  /\ pc = "dialing"
  /\ verifyChainID(header) \notin {"ErrIncorrectChainId", "ErrMissingChainId"}
  /\ backoff' = startBackOff
  /\ sent' = (IF tail > requested THEN tail ELSE requested) - 1
  /\ skipped' = (tail > requested /\ tail > 1)
  /\ pc' = "connected"
  /\ UNCHANGED <<feedVars, ctx, requested, serverVars, passed, streamPos>>

-----------------------------------------------------------------------------
\* readMessages.

\* The context is looked at before each read, and not during one.
readNext ==
  /\ pc = "connected"
  /\ pc' = IF ctx = "live" THEN "reading" ELSE "loop"
  /\ UNCHANGED <<feedVars, ctx, backoff, requested, serverVars, connVars, passed, streamPos>>

\* A message arrives and is kept unless it lies behind or its number is taken.
receive(content) ==
  /\ pc = "reading"
  /\ sent < head
  /\ sent' = sent + 1
  /\ readMessages(sent', content) \/ (~accepts(sent') /\ UNCHANGED feedVars)
  /\ pc' = "connected"
  /\ UNCHANGED <<ctx, backoff, requested, serverVars, skipped, passed, streamPos>>

\* The frame is not JSON or has another version: it is passed over.
receiveUnreadable ==
  /\ pc = "reading"
  /\ sent < head
  /\ sent' = sent + 1
  /\ skipped' = TRUE
  /\ pc' = "connected"
  /\ UNCHANGED <<feedVars, ctx, backoff, requested, serverVars, passed, streamPos>>

\* ReadMessage returns an error; the connection is closed and dialled again.
readFails ==
  /\ pc = "reading"
  /\ pc' = "loop"
  /\ UNCHANGED <<feedVars, ctx, backoff, requested, serverVars, connVars, passed, streamPos>>

-----------------------------------------------------------------------------
\* The verifier's goroutine and main.

\* The position that the feed client is at, as far as it has been.
notePosition == passed' = IF nextSeqNum' > passed THEN nextSeqNum' ELSE passed

\* The message at the streamer's position was verified.  The feed client may be one
\* position behind: it drops the message at its own.
verifierAdvances ==
  /\ streamPos \in Positions
  /\ GetMessage(streamPos) # NoMessage
  /\ streamPos' = streamPos + 1
  /\ Advance
  /\ notePosition
  /\ UNCHANGED <<loopVars, serverVars, connVars>>

\* advanceTo, to a position ahead or behind: the position after the block that is final
\* for the node, or the one after the stored number.  (The streamer's position is moved
\* first; only the verifier's goroutine reads it.)
verifierJumps(pos) ==
  /\ streamPos' = pos
  /\ AdvanceTo(pos)
  /\ notePosition
  /\ UNCHANGED <<loopVars, serverVars, connVars>>

Cancel ==
  /\ ctx = "live"
  /\ ctx' = "cancelled"
  /\ UNCHANGED <<feedVars, pc, backoff, requested, serverVars, connVars, passed, streamPos>>

\* The feed (external).

feedPublishes ==
  /\ head + 1 \in Positions
  /\ head' = head + 1
  /\ UNCHANGED <<feedVars, loopVars, tail, connVars, passed, streamPos>>

feedForgets ==
  /\ tail <= head
  /\ tail' = tail + 1
  /\ UNCHANGED <<feedVars, loopVars, head, connVars, passed, streamPos>>

-----------------------------------------------------------------------------
Next ==
  \/ dial \/ loopEnds \/ dialFails \/ sleepEnds
  \/ \E header \in Headers : chainRefused(header) \/ connect(header)
  \/ readNext \/ receiveUnreadable \/ readFails
  \/ \E content \in Contents : receive(content)
  \/ verifierAdvances
  \/ \E pos \in Positions : verifierJumps(pos)
  \/ Cancel
  \/ feedPublishes \/ feedForgets

Spec == Init /\ [][Next]_vars

\* The loop's goroutine runs; a feed that is dialled again and again is reached some
\* time, and connections that wait for a position again and again are not all lost before
\* it arrives.  Nothing is assumed of the verifier.
FairSpec ==
  /\ Spec
  /\ WF_vars(dial \/ sleepEnds \/ readNext \/ loopEnds)
  /\ SF_vars(connect("chainID"))
  /\ \A p \in Positions : SF_vars(sent + 1 = p /\ \E content \in Contents : receive(content))

-----------------------------------------------------------------------------
\* Type invariant.  The time between two attempts stays below twice maxBackoff.
TypeOK ==
  /\ FeedTypeOK
  /\ pc \in {"loop", "dialing", "sleeping", "connected", "reading", "ended", "exited"}
  /\ ctx \in {"live", "cancelled"}
  /\ backoff \in startBackOff..(2 * maxBackoff - 1)
  /\ requested \in Nat
  /\ head \in Positions \cup {0}
  /\ tail \in 1..(head + 1)
  /\ sent \in Nat
  /\ skipped \in BOOLEAN
  /\ passed \in Nat
  /\ streamPos \in Nat

\* The number that readLoop asks for is read without the lock and may be old when
\* the feed gets it, and the verifier drops messages while others arrive: still,
\* as long as nothing was skipped on the connection, every message from the furthest
\* that the verifier has been on it up to the last one sent is in the buffer.  What
\* lies before is gone when the verifier goes back, until the next connection.
NothingMissed ==
  pc \in {"connected", "reading"} /\ ~skipped =>
    \A p \in Positions : passed <= p /\ p <= sent => messages[p] # NoMessage

\* The buffer holds nothing behind the verifier: what is dropped or passed over is
\* gone, also when the feed sends it again.
NothingLeftBehind == \A p \in Positions : p < nextSeqNum => messages[p] = NoMessage

\* With them, the inductive invariant: what is asked for is never past what the
\* verifier had reached.
Inv ==
  /\ TypeOK
  /\ NothingMissed
  /\ NothingLeftBehind
  /\ requested <= passed
  /\ nextSeqNum <= passed

\* The verifier was moved back behind messages that it had dropped since the dial: the
\* feed does not send them again on this connection.
rewound == nextSeqNum < passed

\* What the feed publishes gets to the buffer, or the verifier is past it, across failed
\* dials, back-offs and lost connections, unless the feed itself left something out, the
\* verifier was moved back behind what it had dropped, the chain is not the configured
\* one, or the verifier is stopped.
FeedCatchesUp ==
  \A p \in Positions :
    head >= p ~> \/ messages[p] # NoMessage \/ streamPos > p
                 \/ skipped \/ rewound \/ pc = "exited" \/ ctx = "cancelled"
=============================================================================
