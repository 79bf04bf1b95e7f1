---------------------------- MODULE NitroVerifier ----------------------------
(***************************************************************************)
(* verifier/nitro/nitro_verifier.go with the store it writes, the feed     *)
(* client it reads, the finality poller, and its environment: HotShot and  *)
(* the Espresso streamer (an external library), the sequencer feed, and the*)
(* inbox on the parent chain that delayed messages come from.              *)
(*                                                                         *)
(* The delayed message fetcher appears by what it returns: an error, or the*)
(* data that the parent chain holds for the message at the time of the call*)
(* (it asks the chain again before it answers).                            *)
(***************************************************************************)
EXTENDS EspressoStore, FeedClient

CONSTANTS
  Height,         \* Height[p]: the HotShot block that holds the message at p
  Delayed,        \* the positions of delayed messages
  EspressoContent,\* the content that Espresso finalized, of every other position
  InitialHeight   \* --initial-hotshot-height

ASSUME NitroConstants ==
  /\ Positions \cup {0} \subseteq Numbers
  /\ Height \in [Positions -> Heights]
  /\ Delayed \subseteq Positions
  /\ EspressoContent \in Contents
  /\ InitialHeight \in Heights

VARIABLES
  confirmed,      \* positions whose message HotShot has finalized
  inbox,          \* inbox[p]: what the parent chain holds for a delayed message
  nitroFinalized, \* the node's finalized block
  broadcast,      \* <<position, content>> the feed ever sent (history)
  delivered,      \* <<position, content>> the inbox ever held (history)
  snapshot,       \* finalityPoller.finalitySnapshot, 0 while there is none
  ctx,            \* the context of run: "live" or "cancelled"
  pc,             \* where the verifier goroutine is
  streamPos,      \* the position the streamer looks for
  l2Msg,          \* l2Msg[p]: the L2msg of a delayed message, once it was filled in
  verifiedPos,    \* verifiedMsg.Pos, 0 for nil
  finalizedBlock  \* the local nitroFinalizedBlock

envVars == <<confirmed, inbox, nitroFinalized, broadcast, delivered>>
verifierVars == <<ctx, pc, streamPos, l2Msg, verifiedPos, finalizedBlock>>
vars == <<storeVars, feedVars, envVars, snapshot, verifierVars>>

noData == [p \in Delayed |-> NoMessage]

Init ==
  /\ StoreInit
  /\ messages = [p \in Positions |-> NoMessage]
  /\ nextSeqNum = 0
  /\ confirmed = {}
  /\ inbox \in [Delayed -> Contents]
  /\ nitroFinalized = 0
  /\ broadcast = {}
  /\ delivered = {<<p, inbox[p]>> : p \in Delayed}
  /\ snapshot = 0
  /\ ctx = "live"
  /\ pc = "down"
  /\ streamPos = 0
  /\ l2Msg = noData
  /\ verifiedPos = 0
  /\ finalizedBlock = 0

-----------------------------------------------------------------------------
\* The environment.

\* HotShot finalizes one more message, in the order of its blocks.
hotshotFinalizes ==
  \E p \in Positions \ confirmed :
    /\ \A q \in Positions : Height[q] < Height[p] => q \in confirmed
    /\ confirmed' = confirmed \cup {p}
    /\ UNCHANGED <<storeVars, feedVars, inbox, nitroFinalized, broadcast, delivered, snapshot,
                   verifierVars>>

\* The parent chain reorganises a delayed message that is not final.
parentChainReorgs ==
  \E p \in Delayed, c \in Contents :
    /\ p > nitroFinalized
    /\ inbox' = [inbox EXCEPT ![p] = c]
    /\ delivered' = delivered \cup {<<p, c>>}
    /\ UNCHANGED <<storeVars, feedVars, confirmed, nitroFinalized, broadcast, snapshot,
                   verifierVars>>

\* The node's finalized block moves on.
nodeFinalizes ==
  /\ nitroFinalized' \in {p \in Positions : p > nitroFinalized}
  /\ UNCHANGED <<storeVars, feedVars, confirmed, inbox, broadcast, delivered, snapshot,
                 verifierVars>>

\* The feed client receives a message.
feedSends(p, c) ==
  /\ process = "up"
  /\ readMessages(p, c)
  /\ broadcast' = broadcast \cup {<<p, c>>}
  /\ UNCHANGED <<storeVars, confirmed, inbox, nitroFinalized, delivered, snapshot, verifierVars>>

\* A client's request is resolved against the store.
clientRequest ==
  /\ InterceptRequest
  /\ UNCHANGED <<feedVars, envVars, snapshot, verifierVars>>

\* FinalityPoller.poll with fetchFinalitySnapshot; the node may lag.
poll ==
  /\ process = "up"
  /\ snapshot' \in {n \in Numbers : n <= nitroFinalized}
  /\ UNCHANGED <<storeVars, feedVars, envVars, verifierVars>>

-----------------------------------------------------------------------------
\* The life of the process.

\* NewNitroEspressoBatchVerifier and Start.  The streamer looks for the position
\* after the stored one, the feed client starts at the stored one.
NewNitroEspressoBatchVerifier ==
  /\ loadFromDisk \/ CreateFile(InitialHeight)
  /\ NewFeedClient(state'.L2BlockNumber)
  /\ pc' = "select"
  /\ streamPos' = state'.L2BlockNumber + 1
  /\ UNCHANGED <<envVars, snapshot, ctx, l2Msg, verifiedPos, finalizedBlock>>

\* The process ends, at any point.
processEnds ==
  /\ Crash
  /\ NewFeedClient(0)
  /\ snapshot' = 0
  /\ ctx' = "live"
  /\ pc' = "down"
  /\ streamPos' = 0
  /\ l2Msg' = noData
  /\ verifiedPos' = 0
  /\ finalizedBlock' = 0
  /\ UNCHANGED envVars

\* main receives a signal and cancels the context.
Cancel ==
  /\ process = "up"
  /\ ctx = "live"
  /\ ctx' = "cancelled"
  /\ UNCHANGED <<storeVars, feedVars, envVars, snapshot, pc, streamPos, l2Msg,
                 verifiedPos, finalizedBlock>>

\* Faulty variant of runReturns: break in the case of ctx.Done leaves the select only.
breakLeavesSelect ==
  /\ pc = "select"
  /\ ctx = "cancelled"
  /\ UNCHANGED vars

\* run leaves its loop.
runReturns ==
  /\ pc = "select"
  /\ ctx = "cancelled"
  /\ processEnds

-----------------------------------------------------------------------------
\* The verifier goroutine: drainAndVerifyMessages.

\* The ticker fires.
tick ==
  /\ pc = "select"
  /\ pc' = "drain"
  /\ UNCHANGED <<storeVars, feedVars, envVars, snapshot, ctx, streamPos, l2Msg,
                 verifiedPos, finalizedBlock>>

\* The streamer has the message it looks for, and the feed client has one for
\* the same position.
Peek ==
  /\ streamPos \in confirmed
  /\ Height[streamPos] >= startHeight
  /\ GetMessage(streamPos) # NoMessage

draining == pc = "drain" /\ ctx = "live"

\* The message is a delayed one that has no data yet.
needsData(p) == p \in Delayed /\ l2Msg[p] = NoMessage

\* verifyDelayedMessage fills the data in, in the message the streamer holds.
filled(p) == IF needsData(p) THEN [l2Msg EXCEPT ![p] = inbox[p]] ELSE l2Msg

\* What the feed's message is compared with.
espressoContent(p) == IF p \in Delayed THEN filled(p)[p] ELSE EspressoContent

\* Faulty variant of messagesMatch: delayed messages are not compared.
delayedMatchAlways(p) == p \in Delayed \/ GetMessage(p) = espressoContent(p)

\* ensureMessagesMatch
messagesMatch(p) == GetMessage(p) = espressoContent(p)

\* Faulty variant of verified: the position after the advance is reported.
verifiedNext ==
  /\ draining
  /\ Peek
  /\ messagesMatch(streamPos)
  /\ l2Msg' = filled(streamPos)
  /\ streamPos' = streamPos + 1
  /\ Advance
  /\ verifiedPos' = streamPos + 1
  /\ UNCHANGED <<storeVars, envVars, snapshot, ctx, pc, finalizedBlock>>

\* One iteration of the loop that verified a message, advance included.
verified ==
  /\ draining
  /\ Peek
  /\ messagesMatch(streamPos)
  /\ l2Msg' = filled(streamPos)
  /\ streamPos' = streamPos + 1
  /\ Advance
  /\ verifiedPos' = streamPos
  /\ UNCHANGED <<storeVars, envVars, snapshot, ctx, pc, finalizedBlock>>

\* A delayed message that was filled in and does not match keeps the data.
delayedMismatch ==
  /\ draining
  /\ Peek
  /\ needsData(streamPos)
  /\ ~messagesMatch(streamPos)
  /\ l2Msg' = filled(streamPos)
  /\ pc' = "sync"
  /\ UNCHANGED <<storeVars, feedVars, envVars, snapshot, ctx, streamPos,
                 verifiedPos, finalizedBlock>>

\* The loop ends: the streamer or the feed has no message yet, they differ, or
\* the fetcher does not have the data or cannot confirm it.
drained ==
  /\ draining
  /\ ~(Peek /\ ~needsData(streamPos) /\ messagesMatch(streamPos))
  /\ pc' = "sync"
  /\ UNCHANGED <<storeVars, feedVars, envVars, snapshot, ctx, streamPos, l2Msg,
                 verifiedPos, finalizedBlock>>

\* The context was cancelled, before the loop or after it.
drainCancelled ==
  /\ pc \in {"drain", "sync"}
  /\ ctx = "cancelled"
  /\ pc' = "select"
  /\ verifiedPos' = 0
  /\ UNCHANGED <<storeVars, feedVars, envVars, snapshot, ctx, streamPos, l2Msg,
                 finalizedBlock>>

-----------------------------------------------------------------------------
\* The verifier goroutine: the rest of verifyAndAdvance.

\* advanceTo moves the streamer first, to a position that may lie behind the one it
\* is at.  The feed client follows in a step of its own.
advanceTo(pos) ==
  /\ streamPos' = pos
  /\ UNCHANGED feedVars

\* Of the messages that the streamer sees, none after the position lies below the
\* height.
covers(pos, h) == \A p \in Positions : p > pos /\ Height[p] >= startHeight => Height[p] >= h

\* What the streamer reports as the earliest HotShot block to resume from once
\* the position is final.
GetCurrentEarliestHotShotBlockNumber(pos) ==
  {h \in streamerHeights : covers(pos, h)}

\* Faulty variant of syncEspressoStateWithNitroFinality: one block late.
syncOneLate ==
  /\ pc = "sync"
  /\ ctx = "live"
  /\ snapshot > state.L2BlockNumber + 1
  /\ \E h \in GetCurrentEarliestHotShotBlockNumber(snapshot) : UpdateIfGreater(snapshot, h)
  /\ finalizedBlock' = snapshot
  /\ pc' = "syncing"
  /\ UNCHANGED <<feedVars, envVars, snapshot, ctx, streamPos, l2Msg, verifiedPos>>

\* Nitro finality is ahead of the store: the store is to be moved to it.
syncEspressoStateWithNitroFinality ==
  /\ pc = "sync"
  /\ ctx = "live"
  /\ snapshot > state.L2BlockNumber
  /\ \E h \in GetCurrentEarliestHotShotBlockNumber(snapshot) : UpdateIfGreater(snapshot, h)
  /\ finalizedBlock' = snapshot
  /\ pc' = "syncing"
  /\ UNCHANGED <<feedVars, envVars, snapshot, ctx, streamPos, l2Msg, verifiedPos>>

nothingToSync ==
  /\ pc = "sync"
  /\ ctx = "live"
  /\ snapshot <= state.L2BlockNumber
  /\ pc' = "save"
  /\ UNCHANGED <<storeVars, feedVars, envVars, snapshot, ctx, streamPos, l2Msg,
                 verifiedPos, finalizedBlock>>

synced ==
  /\ pc = "syncing"
  /\ publish
  /\ advanceTo(finalizedBlock + 1)
  /\ finalizedBlock' = 0
  /\ pc' = "syncAdvance"
  /\ UNCHANGED <<envVars, snapshot, ctx, l2Msg, verifiedPos>>

nothingToSave ==
  /\ pc = "save"
  /\ verifiedPos = 0
  /\ pc' = "select"
  /\ UNCHANGED <<storeVars, feedVars, envVars, snapshot, ctx, streamPos, l2Msg,
                 verifiedPos, finalizedBlock>>

\* The store is updated once, to the last message verified.
verifyAndAdvance ==
  /\ pc = "save"
  /\ verifiedPos > state.L2BlockNumber
  /\ UpdateIfGreater(verifiedPos, Height[verifiedPos])
  /\ pc' = "saving"
  /\ UNCHANGED <<feedVars, envVars, snapshot, ctx, streamPos, l2Msg, verifiedPos,
                 finalizedBlock>>

\* The sync went past what was drained.
notGreater ==
  /\ pc = "save"
  /\ verifiedPos # 0
  /\ verifiedPos <= state.L2BlockNumber
  /\ advanceTo(state.L2BlockNumber + 1)
  /\ pc' = "saveAdvance"
  /\ verifiedPos' = 0
  /\ UNCHANGED <<storeVars, envVars, snapshot, ctx, l2Msg, finalizedBlock>>

saved ==
  /\ pc = "saving"
  /\ publish
  /\ pc' = "select"
  /\ verifiedPos' = 0
  /\ UNCHANGED <<feedVars, envVars, snapshot, ctx, streamPos, l2Msg, finalizedBlock>>

\* The streamer was moved and the feed client was not yet.
advancing == pc \in {"syncAdvance", "saveAdvance"}

\* The second call of advanceTo.  Messages that arrive between the two meet the
\* feed client's old position.
feedAdvances ==
  /\ advancing
  /\ AdvanceTo(streamPos)
  /\ pc' = IF pc = "syncAdvance" THEN "save" ELSE "select"
  /\ UNCHANGED <<storeVars, envVars, snapshot, ctx, streamPos, l2Msg, verifiedPos, finalizedBlock>>

\* Of either update: the file is replaced.
storeWrites ==
  /\ writeToDisk
  /\ UNCHANGED <<feedVars, envVars, snapshot, verifierVars>>

\* Of either update: the file is not replaced and verifyAndAdvance returns; the
\* streamer and the feed client stay where the drain left them.
storeWriteFails ==
  /\ writeFails
  /\ pc' = "select"
  /\ verifiedPos' = 0
  /\ finalizedBlock' = 0
  /\ UNCHANGED <<feedVars, envVars, snapshot, ctx, streamPos, l2Msg>>

-----------------------------------------------------------------------------
\* Any step of the verifier goroutine but the end of its loop.
verifierStep ==
  \/ tick
  \/ verified
  \/ delayedMismatch
  \/ drained
  \/ drainCancelled
  \/ syncEspressoStateWithNitroFinality
  \/ nothingToSync
  \/ synced
  \/ nothingToSave
  \/ verifyAndAdvance
  \/ notGreater
  \/ saved
  \/ feedAdvances
  \/ storeWrites
  \/ storeWriteFails

Next ==
  \/ hotshotFinalizes
  \/ parentChainReorgs
  \/ nodeFinalizes
  \/ \E p \in Positions, c \in Contents : feedSends(p, c)
  \/ clientRequest
  \/ NewNitroEspressoBatchVerifier
  \/ processEnds
  \/ Cancel
  \/ runReturns
  \/ poll
  \/ verifierStep

Spec == Init /\ [][Next]_vars

\* The tickers fire and the calls return; the disk does not refuse every write;
\* select does not for ever prefer the ticker to a cancelled context.
Fairness ==
  /\ WF_vars(poll /\ snapshot' = nitroFinalized)
  /\ WF_vars(verifierStep)
  /\ SF_vars(storeWrites)
  /\ SF_vars(runReturns)

FairSpec == Spec /\ Fairness

\* The best of conditions: the process is not stopped, every write succeeds and
\* the node reports its newest finalized block.  No client makes a request.
steadyStep ==
  /\ Next
  /\ process' = "up"
  /\ ctx' = "live"
  /\ ~storeWriteFails
  /\ snapshot' \in {snapshot, nitroFinalized}
  /\ UNCHANGED served

SteadySpec == Init /\ [][steadyStep]_vars /\ Fairness

-----------------------------------------------------------------------------
\* Type invariant of the verifier, the feed client and their environment.
TypeOK ==
  /\ StoreTypeOK
  /\ FeedTypeOK
  /\ confirmed \subseteq Positions
  /\ inbox \in [Delayed -> Contents]
  /\ nitroFinalized \in Numbers
  /\ broadcast \subseteq Positions \X Contents
  /\ delivered \subseteq Delayed \X Contents
  /\ snapshot \in Numbers
  /\ ctx \in {"live", "cancelled"}
  /\ pc \in {"down", "select", "drain", "sync", "syncing", "syncAdvance", "save", "saving",
             "saveAdvance"}
  /\ streamPos \in Nat
  /\ l2Msg \in [Delayed -> Contents \cup {NoMessage}]
  /\ verifiedPos \in Positions \cup {0}
  /\ finalizedBlock \in Numbers

\* The feed sent what Espresso finalized at this position, or, for a delayed
\* message, what the parent chain held for it.
matched(p) ==
  /\ p \in confirmed
  /\ IF p \in Delayed THEN \E c \in Contents : <<p, c>> \in broadcast \cap delivered
                      ELSE <<p, EspressoContent>> \in broadcast

backed(p) == p <= nitroFinalized \/ matched(p)

\* "It must only advance when the full node's state matches that of Espresso"
\* (README.md): every position up to the durable number is final for the node or
\* was matched with the feed.  The feed client starts one position behind the
\* streamer, both may be moved backwards, a delayed message is filled in before
\* it is compared and keeps the data over retries: none of it lets a position
\* through.
NoGap == \A p \in 1..durableNumber : backed(p)

\* What the streamer looks for is not behind what the feed client still accepts:
\* readMessages throws away no message that has yet to be verified, but in the window
\* between the two calls of an advanceTo that moves backwards.
FeedAcceptsWhatIsNext == process = "up" /\ ~advancing => nextSeqNum <= streamPos

\* FallbackHotshotHeight is "the minimum hotshot height which the proxy should start
\* syncing from in case of a shutdown" (store/espresso_store.go): a streamer started
\* from the stored height finds every finalized message that the stored number leaves
\* to verify.  Where a later message lies in an earlier HotShot block it does not: the
\* update after a drain stores the height of the message it verified last.
FallbackCoversRest ==
  disk # NoFile =>
    \A p \in confirmed : p > disk.L2BlockNumber => Height[p] >= disk.FallbackHotshotHeight

\* The rest of the inductive invariant.  The histories: where everything that the
\* verifier compares came from.
HistoryInv ==
  /\ snapshot <= nitroFinalized
  /\ finalizedBlock <= nitroFinalized
  /\ \A p \in Positions : messages[p] # NoMessage => <<p, messages[p]>> \in broadcast
  /\ \A p \in Delayed :
       /\ <<p, inbox[p]>> \in delivered
       /\ l2Msg[p] # NoMessage => <<p, l2Msg[p]>> \in delivered

\* The goroutine: which call of the store is in progress, and with what.
ControlInv ==
  /\ pc = "down" <=> process = "down"
  /\ pc = "down" => verifiedPos = 0
  /\ pc \notin {"syncing", "saving"} => call.at = "none"
  /\ pc = "syncing" => call.newState.L2BlockNumber = finalizedBlock
  /\ pc = "saving" => call.newState.L2BlockNumber = verifiedPos

\* The progress: everything below the streamer's position and everything up to
\* the message that is to be saved is backed.  They are two facts: the sync moves
\* the streamer back while the message to be saved stays.  That message came from a
\* HotShot block that the streamer reads.
ProgressInv ==
  /\ process = "up" => \A p \in 1..streamPos : p < streamPos => backed(p)
  /\ \A p \in 1..verifiedPos : backed(p)
  /\ verifiedPos # 0 => Height[verifiedPos] >= startHeight

Inv ==
  /\ StoreInv
  /\ TypeOK
  /\ NoGap
  /\ FeedAcceptsWhatIsNext
  /\ HistoryInv
  /\ ControlInv
  /\ ProgressInv

\* "When the feed has cleaned a message, it falls back to advancing on Nitro L2
\* finality" (nitro_verifier.go): wherever the drain is stuck, and however often
\* a write fails, the durable number reaches every block that is final for the
\* node, if the process stays up and the node does not for ever report an old
\* finalized block.
NitroFinalityWins ==
  /\ <>[](process = "up" /\ ctx = "live")
  /\ <>[][snapshot' # snapshot => snapshot' = nitroFinalized]_vars
  => \A p \in Positions : nitroFinalized >= p ~> durableNumber >= p

\* A cancelled context ends the goroutine of run wherever it was: the first wait of
\* Stop returns.
StopReturns == ctx = "cancelled" ~> process = "down"

\* Everything up to p was finalized by HotShot and received from the feed.
ready(p) == \A q \in 1..p : q \in confirmed /\ <<q, EspressoContent>> \in broadcast

\* "Clients always get Espresso's faster finality when it is ahead" (README.md):
\* the durable number reaches every position that HotShot finalized and the feed
\* client accepted, without waiting for Nitro finality.
EspressoLeads == \A p \in Positions : ready(p) ~> durableNumber >= p
=============================================================================
