----------------------- MODULE DelayedMessageFetcher -----------------------
(***************************************************************************)
(* verifier/nitro/delayed_message_fetcher: one goroutine scans the parent  *)
(* chain for delayed messages and caches them, another one (the Nitro      *)
(* verifier's) asks for them, rewinds the scan when a cached message has   *)
(* left the chain, drops what it has verified and at last stops the first. *)
(*                                                                         *)
(* Every call to the parent chain is a step of its own, and so is every    *)
(* critical section of the lock: the chain, the scan and the verifier      *)
(* interleave between them.                                                *)
(***************************************************************************)
EXTENDS Integers, FiniteSets

CONSTANTS
  Blocks,             \* the numbers of parent chain blocks
  Indices,            \* the indices of delayed messages
  Data,               \* what a delayed message may hold
  MaxPerBlock,        \* how many of them a block may add
  maxBlocksPerScan,
  startBlockLookback,
  waitForFinality,
  NoMessage           \* the nil of the cache

\* Blocks are numbered from 0, without a gap.
ASSUME BlocksNatural ==
  Blocks \subseteq Nat /\ 0 \in Blocks /\ \A b \in Blocks : \A a \in 0..b : a \in Blocks

ASSUME IndicesNatural == Indices \subseteq Nat

ASSUME ScanBounds == maxBlocksPerScan \in Nat \ {0} /\ startBlockLookback \in Nat

ASSUME WaitIsBoolean == waitForFinality \in BOOLEAN

\* A message as the parent chain has it.
Message == [messageIndex : Indices, parentBlock : Blocks, data : Data]

\* The cached form: with the block that was final when it was found.
delayedMessage ==
  [messageIndex : Indices, parentBlock : Blocks, data : Data, finalizedBlock : Blocks]

ASSUME NoMessageIsNone == NoMessage \notin delayedMessage

VARIABLES
  chain,             \* the delayed messages on the parent chain
  latest,            \* its latest block
  finalized,         \* its finalized block
  unsure,            \* blocks that no scan vouches for (history)
  parentBlockNumber, \* where the next scan starts
  delayedMessages,   \* the cache
  ctx,               \* the context of both goroutines: "live" or "cancelled"
  pc,                \* where the scanning goroutine is
  startBlock,        \* the locals of poll
  endBlock,
  finalizedAt,
  delivered,         \* the Bridge events of a scan
  logs,              \* the Inbox logs of a scan that are yet to be cached
  overtaken,         \* a rewind came after the scan read its start (history)
  at,                \* where the verifier's goroutine is
  asked,             \* the local delayedMsg of GetDelayedMessage
  next,              \* the first index that was not verified or passed
  window             \* the asked message's block was reorganised before ensureFinality (history)

chainVars == <<chain, latest, finalized>>
scanVars == <<startBlock, endBlock, finalizedAt, delivered, logs, overtaken>>
callVars == <<at, asked, next, window>>
cacheVars == <<parentBlockNumber, delayedMessages, unsure>>
vars == <<chainVars, cacheVars, ctx, pc, scanVars, callVars>>

noMessages == [i \in Indices |-> NoMessage]

Init ==
  /\ chain = {}
  /\ latest = 0
  /\ finalized = 0
  /\ unsure = {}
  /\ parentBlockNumber = 0
  /\ delayedMessages = noMessages
  /\ ctx = "live"
  /\ pc = "down"
  /\ startBlock = 0
  /\ endBlock = 0
  /\ finalizedAt = 0
  /\ delivered = {}
  /\ logs = {}
  /\ overtaken = FALSE
  /\ at = "down"
  /\ asked = NoMessage
  /\ next = 0
  /\ window = FALSE

-----------------------------------------------------------------------------
\* The parent chain.

\* The messages that a block may add to those below it: none, or the next ones.
additions(below, block) ==
  {new \in SUBSET [messageIndex : Indices, parentBlock : {block}, data : Data] :
     /\ Cardinality(new) <= MaxPerBlock
     /\ \A n \in new : \A m \in below : m.messageIndex < n.messageIndex
     /\ \A m, n \in new : m.messageIndex = n.messageIndex => m = n
     /\ \A n \in new : \A k \in 0..(n.messageIndex - 1) :
          \E m \in below \cup new : m.messageIndex = k}

parentChainGrows ==
  /\ latest + 1 \in Blocks
  /\ latest' = latest + 1
  /\ \E new \in additions(chain, latest + 1) : chain' = chain \cup new
  /\ UNCHANGED <<finalized, cacheVars, ctx, pc, scanVars, callVars>>

\* The blocks from r on give way to another block r; the rest of the new branch
\* follows.
parentChainReorgs ==
  \E r \in Blocks :
    /\ finalized < r /\ r <= latest
    /\ LET below == {m \in chain : m.parentBlock < r}
       IN  \E new \in additions(below, r) : chain' = below \cup new
    /\ latest' = r
    /\ unsure' = unsure \cup r..latest
    /\ window' = (window \/ (at = "finality" /\ r <= asked.parentBlock))
    /\ UNCHANGED <<finalized, parentBlockNumber, delayedMessages, ctx, pc, scanVars, at, asked, next>>

parentChainFinalizes ==
  /\ finalized' \in {b \in Blocks : finalized < b /\ b <= latest}
  /\ UNCHANGED <<chain, latest, cacheVars, ctx, pc, scanVars, callVars>>

-----------------------------------------------------------------------------
\* The life of the two goroutines.

\* newDelayedMessageFetcher and Start.
newDelayedMessageFetcher ==
  /\ pc = "down"
  /\ parentBlockNumber' = IF finalized > startBlockLookback THEN finalized - startBlockLookback ELSE 0
  /\ unsure' = {b \in Blocks : b < parentBlockNumber'}
  /\ pc' = "select"
  /\ at' = "ready"
  /\ UNCHANGED <<chainVars, delayedMessages, ctx, scanVars, asked, next, window>>

\* The verifier's context, from which the fetcher's derives, is cancelled.
Cancel ==
  /\ pc # "down"
  /\ ctx = "live"
  /\ ctx' = "cancelled"
  /\ UNCHANGED <<chainVars, cacheVars, pc, scanVars, callVars>>

\* The scanning goroutine finds the context cancelled.
runReturns ==
  /\ pc = "select"
  /\ ctx = "cancelled"
  /\ pc' = "returned"
  /\ UNCHANGED <<chainVars, cacheVars, ctx, scanVars, callVars>>

\* The verifier's goroutine has returned; its owner calls Stop, which takes the
\* lock and keeps it while it waits.
Stop ==
  /\ at = "ready"
  /\ ctx = "cancelled"
  /\ at' = "stopping"
  /\ UNCHANGED <<chainVars, cacheVars, ctx, pc, scanVars, asked, next, window>>

stopReturns ==
  /\ at = "stopping"
  /\ pc = "returned"
  /\ at' = "stopped"
  /\ UNCHANGED <<chainVars, cacheVars, ctx, pc, scanVars, asked, next, window>>

\* The lock can be taken.
unlocked == at # "stopping"

-----------------------------------------------------------------------------
\* The scanning goroutine: poll.

\* The ticker fires and the latest header arrives.
latestHeader ==
  /\ pc = "select"
  /\ ctx = "live"
  /\ endBlock' = latest
  /\ pc' = "finalized"
  /\ UNCHANGED <<chainVars, cacheVars, ctx, startBlock, finalizedAt, delivered, logs, overtaken,
                 callVars>>

finalizedHeader ==
  /\ pc = "finalized"
  /\ ctx = "live"
  /\ finalizedAt' = finalized
  /\ pc' = "start"
  /\ UNCHANGED <<chainVars, cacheVars, ctx, startBlock, endBlock, delivered, logs, overtaken,
                 callVars>>

\* poll returns, and its locals are gone.
pollReturns ==
  /\ pc' = "select"
  /\ startBlock' = 0
  /\ endBlock' = 0
  /\ finalizedAt' = 0
  /\ delivered' = {}
  /\ logs' = {}
  /\ overtaken' = FALSE

\* The start is ahead of the end: nothing to scan.
startAhead ==
  /\ pc = "start"
  /\ unlocked
  /\ parentBlockNumber > endBlock
  /\ pollReturns
  /\ UNCHANGED <<chainVars, cacheVars, ctx, callVars>>

\* Faulty variant of scanEnd: always a full range.
fullRange(start, end) == start + maxBlocksPerScan

\* The last block of a scan.
scanEnd(start, end) == IF end - start >= maxBlocksPerScan THEN start + maxBlocksPerScan ELSE end

\* The range is known.  The scan will vouch for its blocks, but for those that have
\* left the chain since the latest header was read.
poll ==
  /\ pc = "start"
  /\ unlocked
  /\ parentBlockNumber <= endBlock
  /\ startBlock' = parentBlockNumber
  /\ endBlock' = scanEnd(parentBlockNumber, endBlock)
  /\ unsure' = (unsure \ startBlock'..endBlock') \cup (latest + 1)..endBlock'
  /\ overtaken' = FALSE
  /\ pc' = "bridge"
  /\ UNCHANGED <<chainVars, parentBlockNumber, delayedMessages, ctx, finalizedAt, delivered, logs,
                 callVars>>

inRange(m) == startBlock <= m.parentBlock /\ m.parentBlock <= endBlock

\* The Bridge's events of the range; without one the Inbox is not asked.
fetchBridgeEvents ==
  /\ pc = "bridge"
  /\ ctx = "live"
  /\ delivered' = {m \in chain : inRange(m)}
  /\ pc' = IF delivered' = {} THEN "update" ELSE "inbox"
  /\ UNCHANGED <<chainVars, cacheVars, ctx, startBlock, endBlock, finalizedAt, logs, overtaken,
                 callVars>>

\* The Inbox's logs of the same range, for the indices of the events.  The chain
\* may have changed in between; without a log the scan counts as done.
fetchInboxData ==
  /\ pc = "inbox"
  /\ ctx = "live"
  /\ logs' = {m \in chain : inRange(m) /\ \E e \in delivered : e.messageIndex = m.messageIndex}
  /\ pc' = IF logs' = {} THEN "update" ELSE "extract"
  /\ UNCHANGED <<chainVars, cacheVars, ctx, startBlock, endBlock, finalizedAt, delivered,
                 overtaken, callVars>>

\* The log that is next, in the order of the chain.
firstLog(m) == m \in logs /\ \A l \in logs : m.messageIndex <= l.messageIndex

\* The event that the log belongs to commits to the same data.
hashMatches(m) == \E e \in delivered : e.messageIndex = m.messageIndex /\ e.data = m.data

cached(m, finalizedBlock) ==
  [messageIndex |-> m.messageIndex, parentBlock |-> m.parentBlock, data |-> m.data,
   finalizedBlock |-> finalizedBlock]

\* The message of one log enters the cache, over an older one.
extractInboxData ==
  \E m \in logs :
    /\ pc = "extract"
    /\ unlocked
    /\ firstLog(m)
    /\ hashMatches(m)
    /\ delayedMessages' = [delayedMessages EXCEPT ![m.messageIndex] = cached(m, finalizedAt)]
    /\ logs' = logs \ {m}
    /\ pc' = IF logs' = {} THEN "update" ELSE "extract"
    /\ UNCHANGED <<chainVars, parentBlockNumber, unsure, ctx, startBlock, endBlock, finalizedAt,
                   delivered, overtaken, callVars>>

\* The poll ends: a call fails, times out or is cancelled, or the data of a log is
\* not what the event commits to.  What was cached before stays.
pollFails ==
  /\ pc \in {"finalized", "bridge", "inbox", "extract"}
  /\ pollReturns
  /\ UNCHANGED <<chainVars, cacheVars, ctx, callVars>>

\* The next scan starts after this one, unless the start was moved meanwhile.
updateParentBlockNumber ==
  /\ pc = "update"
  /\ unlocked
  /\ IF parentBlockNumber = startBlock
       THEN /\ parentBlockNumber' = endBlock + 1
            /\ unsure' = IF overtaken THEN unsure \cup startBlock..endBlock ELSE unsure
       ELSE UNCHANGED <<parentBlockNumber, unsure>>
  /\ pollReturns
  /\ UNCHANGED <<chainVars, delayedMessages, ctx, callVars>>

-----------------------------------------------------------------------------
\* The verifier's goroutine: GetDelayedMessage and Advance.

\* The cache is read.  Without the message nothing changes.
GetDelayedMessage(i) ==
  /\ at = "ready"
  /\ ctx = "live"
  /\ i <= next
  /\ delayedMessages[i] # NoMessage
  /\ asked' = delayedMessages[i]
  /\ at' = "check"
  /\ UNCHANGED <<chainVars, cacheVars, ctx, pc, scanVars, next, window>>

\* The chain has the message, at the block where it was found.
onChain(e) ==
  \E m \in chain :
    m.messageIndex = e.messageIndex /\ m.parentBlock = e.parentBlock /\ m.data = e.data

verifyDelayedMessageOnParentChain ==
  /\ at = "check"
  /\ ctx = "live"
  /\ at' = IF ~onChain(asked) THEN "rewind" ELSE IF waitForFinality THEN "finality" ELSE "answered"
  /\ UNCHANGED <<chainVars, cacheVars, ctx, pc, scanVars, asked, next, window>>

\* Faulty variant of rewind: to the block of the message.
rewindToBlock ==
  /\ at = "rewind"
  /\ delayedMessages' = noMessages
  /\ parentBlockNumber' = asked.parentBlock
  /\ unsure' = {b \in unsure : b < asked.finalizedBlock}
  /\ overtaken' = TRUE
  /\ at' = "ready"
  /\ asked' = NoMessage
  /\ UNCHANGED <<chainVars, ctx, pc, startBlock, endBlock, finalizedAt, delivered, logs, next, window>>

\* Everything from the block that was final when the message was found is to be
\* scanned again.
rewind ==
  /\ at = "rewind"
  /\ delayedMessages' = noMessages
  /\ parentBlockNumber' = asked.finalizedBlock
  /\ unsure' = {b \in unsure : b < asked.finalizedBlock}
  /\ overtaken' = TRUE
  /\ at' = "ready"
  /\ asked' = NoMessage
  /\ UNCHANGED <<chainVars, ctx, pc, startBlock, endBlock, finalizedAt, delivered, logs, next, window>>

\* Faulty variant of ensureFinality: the block after the finalized one passes.
finalityOneOff ==
  /\ at = "finality"
  /\ ctx = "live"
  /\ asked.parentBlock <= finalized + 1
  /\ at' = "answered"
  /\ UNCHANGED <<chainVars, cacheVars, ctx, pc, scanVars, asked, next, window>>

ensureFinality ==
  /\ at = "finality"
  /\ ctx = "live"
  /\ asked.parentBlock <= finalized
  /\ at' = "answered"
  /\ UNCHANGED <<chainVars, cacheVars, ctx, pc, scanVars, asked, next, window>>

\* A call fails, or the message is not final; or the answer does not match the
\* feed.
getFails ==
  /\ at \in {"check", "finality", "answered"}
  /\ at' = "ready"
  /\ asked' = NoMessage
  /\ window' = FALSE
  /\ UNCHANGED <<chainVars, cacheVars, ctx, pc, scanVars, next>>

dropped(i) == [j \in Indices |-> IF j <= i THEN NoMessage ELSE delayedMessages[j]]

\* The verifier goes on to the message after the one it was given.
advanceVerified ==
  /\ at = "answered"
  /\ delayedMessages' = dropped(asked.messageIndex)
  /\ next' = IF asked.messageIndex = next THEN next + 1 ELSE next
  /\ at' = "ready"
  /\ asked' = NoMessage
  /\ window' = FALSE
  /\ UNCHANGED <<chainVars, parentBlockNumber, unsure, ctx, pc, scanVars>>

\* It verified a message that is not a delayed one: the index is that message's
\* DelayedMessagesRead - 1, below the messages that are yet to be read.  The count
\* includes the message that initialises the chain, so it is not 0, from where the
\* unsigned subtraction would wrap.
advanceOther(i) ==
  /\ at = "ready"
  /\ i < next
  /\ delayedMessages' = dropped(i)
  /\ UNCHANGED <<chainVars, parentBlockNumber, unsure, ctx, pc, scanVars, callVars>>

\* It fell back to Nitro finality, past some delayed messages.
passed(i) ==
  /\ at = "ready"
  /\ i > next
  /\ next' = i
  /\ UNCHANGED <<chainVars, cacheVars, ctx, pc, scanVars, at, asked, window>>

-----------------------------------------------------------------------------
scanStep ==
  \/ latestHeader
  \/ finalizedHeader
  \/ startAhead
  \/ poll
  \/ fetchBridgeEvents
  \/ fetchInboxData
  \/ extractInboxData
  \/ pollFails
  \/ updateParentBlockNumber

callStep ==
  \/ \E i \in Indices : GetDelayedMessage(i)
  \/ verifyDelayedMessageOnParentChain
  \/ rewind
  \/ ensureFinality
  \/ getFails
  \/ advanceVerified
  \/ \E i \in Indices : advanceOther(i)
  \/ \E i \in Indices : passed(i)

Next ==
  \/ parentChainGrows
  \/ parentChainReorgs
  \/ parentChainFinalizes
  \/ newDelayedMessageFetcher
  \/ Cancel
  \/ runReturns
  \/ Stop
  \/ stopReturns
  \/ scanStep
  \/ callStep

Spec == Init /\ [][Next]_vars

\* The ticker fires and calls end, with an answer or an error; Stop is called once
\* the context is cancelled; select does not for ever prefer the ticker.
Fairness ==
  /\ WF_vars(scanStep)
  /\ WF_vars(callStep)
  /\ SF_vars(runReturns)
  /\ SF_vars(Stop)
  /\ WF_vars(stopReturns)

FairSpec == Spec /\ Fairness

-----------------------------------------------------------------------------
\* Type invariant of the fetcher and of the parent chain.
TypeOK ==
  /\ chain \subseteq Message
  /\ latest \in Blocks
  /\ finalized \in Blocks
  /\ unsure \subseteq Nat
  /\ parentBlockNumber \in Nat
  /\ delayedMessages \in [Indices -> delayedMessage \cup {NoMessage}]
  /\ ctx \in {"live", "cancelled"}
  /\ pc \in {"down", "select", "finalized", "start", "bridge", "inbox", "extract", "update",
             "returned"}
  /\ startBlock \in Nat
  /\ endBlock \in Blocks
  /\ finalizedAt \in Blocks
  /\ delivered \subseteq Message
  /\ logs \subseteq Message
  /\ overtaken \in BOOLEAN
  /\ at \in {"down", "ready", "check", "rewind", "finality", "answered", "stopping", "stopped"}
  /\ asked \in delayedMessage \cup {NoMessage}
  /\ next \in Nat
  /\ window \in BOOLEAN

\* The message is in the cache as the chain has it, or was verified or passed.
kept(m) ==
  \/ m.messageIndex < next
  \/ LET e == delayedMessages[m.messageIndex]
     IN  e # NoMessage /\ e.parentBlock = m.parentBlock /\ e.data = m.data

\* The scan leaves nothing behind: a message of a block below the next start that
\* the verifier still needs is in the cache as it is on the chain, whatever failed
\* half way, was dropped, or was rewound.  Exempt are the blocks that were
\* reorganised after they were scanned ("currently code doesn't back track") and
\* those of a scan that a rewind overtook.
NothingSkipped ==
  \A m \in chain :
    m.parentBlock < parentBlockNumber /\ m.parentBlock \notin unsure => kept(m)

\* The rest of the inductive invariant.  The chain: indices and blocks rise together.
ChainInv ==
  /\ finalized <= latest
  /\ \A m \in chain : m.parentBlock <= latest
  /\ \A m, n \in chain :
       /\ m.messageIndex <= n.messageIndex => m.parentBlock <= n.parentBlock
       /\ m.messageIndex = n.messageIndex => m = n

\* A message that was found at a final block stays on the chain; one that was
\* found later comes after every message up to the block that was final.
entryOK(e) ==
  /\ e.finalizedBlock <= finalized
  /\ e.parentBlock <= e.finalizedBlock => onChain(e)
  /\ e.parentBlock > e.finalizedBlock =>
       \A m \in chain : m.parentBlock <= e.finalizedBlock => m.messageIndex < e.messageIndex

EntryInv ==
  /\ \A i \in Indices :
       delayedMessages[i] # NoMessage =>
         entryOK(delayedMessages[i]) /\ delayedMessages[i].messageIndex = i
  /\ \A l \in logs : entryOK(cached(l, finalizedAt))
  /\ finalizedAt <= finalized
  /\ at \in {"check", "rewind", "finality", "answered"} =>
       asked # NoMessage /\ entryOK(asked) /\ asked.messageIndex <= next
  /\ at = "rewind" => asked.parentBlock > asked.finalizedBlock

scanning == pc \in {"bridge", "inbox", "extract", "update"}

\* A scan in flight that no rewind overtook has, of the blocks it vouches for, all
\* messages where the next step takes them from.
ScanInv ==
  /\ logs # {} => pc = "extract"
  /\ scanning /\ ~overtaken =>
       /\ parentBlockNumber = startBlock /\ startBlock <= endBlock
       /\ \A b \in startBlock..endBlock : b > latest => b \in unsure
       /\ \A m \in chain :
            inRange(m) /\ m.parentBlock \notin unsure =>
              /\ pc = "inbox" => m \in delivered
              /\ pc = "extract" => m \in logs \/ kept(m)
              /\ pc = "update" => kept(m)
       /\ \A l \in logs, m \in chain :
            m.messageIndex = l.messageIndex =>
              m = l \/ m.parentBlock \in unsure \/ m.parentBlock > endBlock

\* A start that was rewound to leaves nothing behind that is still needed.
RewindInv ==
  /\ \A b \in 0..parentBlockNumber : latest < b /\ b < parentBlockNumber => b \in unsure
  /\ overtaken =>
       /\ parentBlockNumber <= finalized
       /\ \A m \in chain : m.parentBlock < parentBlockNumber => m.messageIndex < next
  /\ pc = "down" => parentBlockNumber = 0 /\ at = "down" /\ ~overtaken

\* "ensureFinality checks that the parent block containing the delayed message is
\* finalized": with waitForFinality a message that GetDelayedMessage returned is on
\* the chain and stays there, through every later reorganisation.  Whether the
\* message is still there and whether its block's number is final are two calls, one
\* after the other: exempt is a block that was reorganised in between.
AnswerIsFinal == waitForFinality /\ at = "answered" /\ ~window => onChain(asked)

\* What makes it so.
AnswerInv ==
  /\ at = "finality" /\ ~window => onChain(asked)
  /\ waitForFinality /\ at = "answered" => asked.parentBlock <= finalized

Inv ==
  /\ TypeOK
  /\ ChainInv
  /\ EntryInv
  /\ ScanInv
  /\ RewindInv
  /\ NothingSkipped

\* "Listen for termination signals to gracefully shut down the server" (main.go):
\* Stop, once called, returns.
StopReturns == at = "stopping" ~> at = "stopped"
=============================================================================
