----------------------------- MODULE OPVerifier -----------------------------
(***************************************************************************)
(* verifier/op/op_verifier.go with the store it writes, the finality poller*)
(* it reads, and its environment: the full node, which may reorganise every*)
(* block Ethereum has not finalized, Ethereum itself, and the Espresso     *)
(* streamer, an external library.                                          *)
(*                                                                         *)
(* The verifier goroutine is the only writer of the store.  The requests,  *)
(* the poller, the full node and a crash interleave with its steps: one    *)
(* step is what lies between two calls that leave the process or write     *)
(* what another goroutine reads.                                           *)
(***************************************************************************)
EXTENDS EspressoStore

CONSTANTS
  Block,        \* L2 blocks, named by their hash
  Genesis,      \* the block with number 0
  Number,       \* Number[b]: the number of b
  Parent,       \* Parent[b]: the block b builds on
  Batch,        \* the blocks that Espresso finalizes, sooner or later
  NoBlock       \* the zero hash, the nil batch, the absent snapshot

ASSUME BlockTree ==
  /\ Genesis \in Block
  /\ Number \in [Block -> Numbers]
  /\ Number[Genesis] = 0
  /\ Parent \in [Block \ {Genesis} -> Block]
  /\ \A b \in Block \ {Genesis} : Number[b] = Number[Parent[b]] + 1

\* Espresso finalizes batches of the rollup; the genesis block is in none.
ASSUME BatchesAreBlocks == Batch \subseteq Block \ {Genesis}

ASSUME NoBlockIsNoBlock == NoBlock \notin Block

VARIABLES
  nodeChain,      \* the blocks of the full node's canonical chain
  held,           \* every block that was on it at some time (history)
  finalized,      \* the blocks Ethereum has finalized
  snapshot,       \* finalityPoller.finalitySnapshot: the finalized L2 block
  ctx,            \* the context of run: "live" or "cancelled"
  pc,             \* where the verifier goroutine is
  target,         \* the snapshot that refresh is working with
  tip,            \* v.tip
  ethOrigin,      \* v.ethOrigin, named by the L2 block whose L1 origin it is
  verifiedBatch,  \* the local of drainAndVerifyBatches and verifyAndAdvance
  streamPos       \* the number of the last batch the streamer handed out

chainVars == <<nodeChain, held, finalized>>
verifierVars == <<ctx, pc, target, tip, ethOrigin, verifiedBatch, streamPos>>
vars == <<storeVars, chainVars, snapshot, verifierVars>>

Init ==
  /\ StoreInit
  /\ nodeChain = {Genesis}
  /\ held = {Genesis}
  /\ finalized = {Genesis}
  /\ snapshot = NoBlock
  /\ ctx = "live"
  /\ pc = "down"
  /\ target = NoBlock
  /\ tip = NoBlock
  /\ ethOrigin = NoBlock
  /\ verifiedBatch = NoBlock
  /\ streamPos = 0

-----------------------------------------------------------------------------
\* The environment.

\* Chains of blocks from genesis, one block for each number.
Chains ==
  {C \in SUBSET Block :
     /\ Genesis \in C
     /\ \A b \in C \ {Genesis} : Parent[b] \in C
     /\ \A b, c \in C : Number[b] = Number[c] => b = c}

\* The full node extends its chain or reorganises it, as far back as the
\* finalized head: the sequencer reorganised, or Ethereum did.
NodeFollows ==
  /\ nodeChain' \in {C \in Chains : finalized \subseteq C}
  /\ held' = held \cup nodeChain'
  /\ UNCHANGED <<storeVars, finalized, snapshot, verifierVars>>

\* Ethereum finalizes the data of one more block, and the full node agrees.
EthereumFinalizes ==
  \E b \in nodeChain \ finalized :
    /\ Parent[b] \in finalized
    /\ finalized' = finalized \cup {b}
    /\ UNCHANGED <<storeVars, nodeChain, held, snapshot, verifierVars>>

\* A client's request is resolved against the store.
clientRequest ==
  /\ InterceptRequest
  /\ UNCHANGED <<chainVars, snapshot, verifierVars>>

-----------------------------------------------------------------------------
\* The life of the process.

\* NewOPEspressoBatchVerifier and Start: the streamer is created at the stored
\* position, nothing is known of the chain below it.
NewOPEspressoBatchVerifier ==
  /\ NewEspressoStore
  /\ pc' = "select"
  /\ streamPos' = state'.L2BlockNumber
  /\ UNCHANGED <<chainVars, snapshot, ctx, target, tip, ethOrigin, verifiedBatch>>

\* Everything in memory is gone.
processEnds ==
  /\ Crash
  /\ snapshot' = NoBlock
  /\ ctx' = "live"
  /\ pc' = "down"
  /\ target' = NoBlock
  /\ tip' = NoBlock
  /\ ethOrigin' = NoBlock
  /\ verifiedBatch' = NoBlock
  /\ streamPos' = 0
  /\ UNCHANGED chainVars

\* main receives a signal and cancels the context; Stop cancels it again.
Cancel ==
  /\ process = "up"
  /\ ctx = "live"
  /\ ctx' = "cancelled"
  /\ UNCHANGED <<storeVars, chainVars, snapshot, pc, target, tip, ethOrigin, verifiedBatch,
                 streamPos>>

\* Faulty variant of Stop: break in the case of ctx.Done leaves the select only.
breakLeavesSelect ==
  /\ pc = "select"
  /\ ctx = "cancelled"
  /\ UNCHANGED vars

\* run leaves its loop, Stop's Wait returns, the process ends.
Stop ==
  /\ pc = "select"
  /\ ctx = "cancelled"
  /\ processEnds

\* FinalityPoller.poll with fetchFinalitySnapshot: what is stored was finalized
\* when it was fetched, and the node may lag behind what it said before.  A
\* fetch that fails, or that the context ended, keeps the last snapshot.
poll(b) ==
  /\ process = "up"
  /\ b \in finalized
  /\ snapshot' = b
  /\ UNCHANGED <<storeVars, chainVars, verifierVars>>

-----------------------------------------------------------------------------
\* The verifier goroutine: refresh.

\* Faulty variant of l1OriginFromL2Block: the number in place of the origin.
originIsNumber(b) == Number[b]

\* The L1 origin recorded in a block's first transaction; the genesis block has
\* none and yields the zero value.
l1OriginFromL2Block(b) == IF b = Genesis THEN NoBlock ELSE b

\* The ticker fires, verifyAndAdvance calls refresh and refresh finds a
\* snapshot.  Without one refresh fails and nothing changes.
lastSnapshot ==
  /\ pc = "select"
  /\ snapshot # NoBlock
  /\ target' = snapshot
  /\ UNCHANGED <<chainVars, snapshot, ctx, tip, ethOrigin, verifiedBatch, streamPos>>

\* Faulty variant of syncEspressoStateWithEthereumFinality: one block late.
syncOneLate ==
  /\ lastSnapshot
  /\ Number[snapshot] > state.L2BlockNumber + 1
  /\ \E h \in streamerHeights : UpdateIfGreater(Number[snapshot], h)
  /\ pc' = "sync"

\* Ethereum finality is ahead of the store: the store is to be moved to it.
syncEspressoStateWithEthereumFinality ==
  /\ lastSnapshot
  /\ Number[snapshot] > state.L2BlockNumber
  /\ \E h \in streamerHeights : UpdateIfGreater(Number[snapshot], h)
  /\ pc' = "sync"

\* It is not: refresh goes on with the stored position.
nothingToSync ==
  /\ lastSnapshot
  /\ Number[snapshot] <= state.L2BlockNumber
  /\ pc' = "refresh"
  /\ UNCHANGED storeVars

\* Faulty variant of synced: the L1 origin is not moved with the tip.
syncedKeepsOrigin ==
  /\ pc = "sync"
  /\ publish
  /\ tip' = target
  /\ pc' = "refresh"
  /\ UNCHANGED <<chainVars, snapshot, ctx, target, ethOrigin, verifiedBatch, streamPos>>

\* The store took the finalized block: the next batch must build on it.
synced ==
  /\ pc = "sync"
  /\ publish
  /\ tip' = target
  /\ ethOrigin' = l1OriginFromL2Block(target)
  /\ pc' = "refresh"
  /\ UNCHANGED <<chainVars, snapshot, ctx, target, verifiedBatch, streamPos>>

\* refresh calls the streamer with the stored position and the L1 origin.
callRefresh ==
  /\ pc = "refresh"
  /\ ethOrigin' = IF ethOrigin = NoBlock THEN l1OriginFromL2Block(target) ELSE ethOrigin
  /\ target' = NoBlock
  /\ UNCHANGED <<storeVars, chainVars, snapshot, ctx, tip, verifiedBatch>>

\* The streamer keeps its position or falls back to the one it is given.
refreshed ==
  /\ callRefresh
  /\ streamPos' \in {streamPos, state.L2BlockNumber}
  /\ pc' = "drain"

refreshFails ==
  /\ callRefresh
  /\ UNCHANGED streamPos
  /\ pc' = "select"

-----------------------------------------------------------------------------
\* The verifier goroutine: drainAndVerifyBatches.

\* The loop checks the context, then peeks.
draining == pc = "drain" /\ ctx = "live"

\* The streamer may hand out any batch that Espresso finalized for the number
\* after its position, of any fork.
Peek(b) == b \in Batch /\ Number[b] = streamPos + 1

\* Faulty variants of chainsOnTip: no check, and a check of the number alone.
chainsOnAnything(b) == TRUE

numberFollowsTip(b) == IF tip = NoBlock THEN TRUE ELSE Number[b] = Number[tip] + 1

\* Before a batch was verified there is no tip to chain on.
chainsOnTip(b) == tip = NoBlock \/ Parent[b] = tip

\* Faulty variant of VerifyNextBatch: the full node is not asked.
verifyWithoutNode(b) ==
  /\ Peek(b)
  /\ chainsOnTip(b)

\* VerifyNextBatch succeeds: the batch chains on the tip and the full node has
\* the same block at that number.
VerifyNextBatch(b) ==
  /\ Peek(b)
  /\ chainsOnTip(b)
  /\ b \in nodeChain

\* One iteration of the loop that verified a batch.
verified(b) ==
  /\ draining
  /\ VerifyNextBatch(b)
  /\ streamPos' = Number[b]
  /\ verifiedBatch' = b
  /\ tip' = b
  /\ ethOrigin' = b
  /\ UNCHANGED <<storeVars, chainVars, snapshot, ctx, pc, target>>

\* A batch of another fork: the streamer is sent back to the tip, the loop ends.
forkMismatch(b) ==
  /\ draining
  /\ Peek(b)
  /\ ~chainsOnTip(b)
  /\ streamPos' = Number[tip]
  /\ pc' = "save"
  /\ UNCHANGED <<storeVars, chainVars, snapshot, ctx, target, tip, ethOrigin, verifiedBatch>>

\* The loop ends without one: the streamer has none or fails, the full node
\* does not have the block yet, has another one, or fails.
drained ==
  /\ draining
  /\ pc' = "save"
  /\ UNCHANGED <<storeVars, chainVars, snapshot, ctx, target, tip, ethOrigin, verifiedBatch,
                 streamPos>>

\* The loop finds the context cancelled, and returns no batch.
drainCancelled ==
  /\ pc = "drain"
  /\ ctx = "cancelled"
  /\ pc' = "select"
  /\ verifiedBatch' = NoBlock
  /\ UNCHANGED <<storeVars, chainVars, snapshot, ctx, target, tip, ethOrigin, streamPos>>

-----------------------------------------------------------------------------
\* The verifier goroutine: the end of verifyAndAdvance.

\* Nothing was verified, or the context was cancelled meanwhile.
nothingToSave ==
  /\ pc = "save"
  /\ verifiedBatch = NoBlock \/ ctx = "cancelled"
  /\ pc' = "select"
  /\ verifiedBatch' = NoBlock
  /\ UNCHANGED <<storeVars, chainVars, snapshot, ctx, target, tip, ethOrigin, streamPos>>

\* The store is updated once, to the last batch verified.  The warning for a
\* number that is not greater drops the batch.
verifyAndAdvance ==
  /\ pc = "save"
  /\ verifiedBatch # NoBlock
  /\ ctx = "live"
  /\ IF Number[verifiedBatch] > state.L2BlockNumber
       THEN /\ \E h \in streamerHeights : UpdateIfGreater(Number[verifiedBatch], h)
            /\ pc' = "saving"
            /\ UNCHANGED verifiedBatch
       ELSE /\ pc' = "select"
            /\ verifiedBatch' = NoBlock
            /\ UNCHANGED storeVars
  /\ UNCHANGED <<chainVars, snapshot, ctx, target, tip, ethOrigin, streamPos>>

saved ==
  /\ pc = "saving"
  /\ publish
  /\ pc' = "select"
  /\ verifiedBatch' = NoBlock
  /\ UNCHANGED <<chainVars, snapshot, ctx, target, tip, ethOrigin, streamPos>>

\* Of either update: the file is replaced.
storeWrites ==
  /\ writeToDisk
  /\ UNCHANGED <<chainVars, snapshot, verifierVars>>

\* Of either update: the file is not replaced, verifyAndAdvance returns.  After
\* a drain the tip and the streamer stay ahead of the store.
storeWriteFails ==
  /\ writeFails
  /\ pc' = "select"
  /\ target' = NoBlock
  /\ verifiedBatch' = NoBlock
  /\ UNCHANGED <<chainVars, snapshot, ctx, tip, ethOrigin, streamPos>>

-----------------------------------------------------------------------------
Next ==
  \/ NodeFollows
  \/ EthereumFinalizes
  \/ clientRequest
  \/ NewOPEspressoBatchVerifier
  \/ processEnds
  \/ Cancel
  \/ Stop
  \/ \E b \in Block : poll(b)
  \/ syncEspressoStateWithEthereumFinality
  \/ nothingToSync
  \/ synced
  \/ refreshed
  \/ refreshFails
  \/ \E b \in Block : verified(b)
  \/ \E b \in Block : forkMismatch(b)
  \/ drained
  \/ drainCancelled
  \/ nothingToSave
  \/ verifyAndAdvance
  \/ saved
  \/ storeWrites
  \/ storeWriteFails

Spec == Init /\ [][Next]_vars

\* The block the execution node reports as finalized when it is up to date.
finalizedHead == CHOOSE b \in finalized : \A c \in finalized : Number[c] <= Number[b]

\* Any step of the verifier goroutine but the end of its loop.
verifierStep ==
  \/ syncEspressoStateWithEthereumFinality
  \/ nothingToSync
  \/ synced
  \/ refreshed
  \/ refreshFails
  \/ \E b \in Block : verified(b) \/ forkMismatch(b)
  \/ drained
  \/ drainCancelled
  \/ nothingToSave
  \/ verifyAndAdvance
  \/ saved
  \/ storeWrites
  \/ storeWriteFails

\* The tickers fire and the calls return; the disk does not refuse every write;
\* select does not for ever prefer the ticker to a cancelled context.
Fairness ==
  /\ WF_vars(poll(finalizedHead))
  /\ WF_vars(verifierStep)
  /\ SF_vars(storeWrites)
  /\ SF_vars(Stop)

FairSpec == Spec /\ Fairness

-----------------------------------------------------------------------------
\* Type invariant of the verifier and its environment.
TypeOK ==
  /\ StoreTypeOK
  /\ nodeChain \in SUBSET Block
  /\ held \in SUBSET Block
  /\ finalized \in SUBSET Block
  /\ snapshot \in Block \cup {NoBlock}
  /\ ctx \in {"live", "cancelled"}
  /\ pc \in {"down", "select", "sync", "refresh", "drain", "save", "saving"}
  /\ target \in Block \cup {NoBlock}
  /\ tip \in Block \cup {NoBlock}
  /\ ethOrigin \in Block \cup {NoBlock}
  /\ verifiedBatch \in Block \cup {NoBlock}
  /\ streamPos \in Nat

\* Number n has a block that the full node executed and that Espresso or
\* Ethereum finalized.
backed(n) == \E b \in held : Number[b] = n /\ (b \in Batch \/ b \in finalized)

\* "It must only advance when the full node's state matches that of Espresso"
\* (README.md): every number up to the durable one, and so every number ever
\* served, is backed.  Neither the batches drained at once, nor the jump to the
\* Ethereum-finalized block, nor a crash or a failed write in between leaves a
\* number out.
NoGap == \A n \in 1..durableNumber : backed(n)

\* What was drained is worth saving: when verifyAndAdvance reaches the store,
\* the batch is ahead of it.  The "not updating espresso state" warning and the
\* loss of verified progress behind it never happen.
SaveAdvances ==
  pc = "save" /\ verifiedBatch # NoBlock => Number[verifiedBatch] > state.L2BlockNumber

\* The streamer is refreshed with the L1 origin of the block that the next
\* batch must build on, whichever of the drain and the sync moved the tip last.
OriginFollowsTip == tip # NoBlock => ethOrigin = tip

\* The rest of the inductive invariant.  The chains: what Ethereum finalized has
\* no hole, and was executed by the full node.
ChainsInv ==
  /\ finalized \subseteq nodeChain
  /\ nodeChain \subseteq held
  /\ \A b \in finalized : \A n \in 1..Number[b] : \E c \in finalized : Number[c] = n
  /\ snapshot # NoBlock => snapshot \in finalized
  /\ target # NoBlock => target \in finalized

\* The goroutine: which call of the store is in progress, and for which block.
ControlInv ==
  /\ pc = "down" <=> process = "down"
  /\ pc = "down" => tip = NoBlock
  /\ pc \notin {"sync", "saving"} => call.at = "none"
  /\ pc = "sync" => target # NoBlock /\ call.newState.L2BlockNumber = Number[target]
  /\ pc = "saving" =>
       verifiedBatch # NoBlock /\ call.newState.L2BlockNumber = Number[verifiedBatch]

\* The progress: the store is never ahead of the tip, everything up to the tip
\* is backed, and without a tip the streamer is where the store is.
ProgressInv ==
  /\ tip # NoBlock =>
       /\ Number[tip] >= state.L2BlockNumber
       /\ \A n \in 1..Number[tip] : backed(n)
  /\ tip = NoBlock /\ process = "up" => streamPos = state.L2BlockNumber
  /\ verifiedBatch # NoBlock =>
       /\ pc \in {"drain", "save", "saving"}
       /\ verifiedBatch = tip
       /\ Number[verifiedBatch] > state.L2BlockNumber

Inv ==
  /\ StoreInv
  /\ TypeOK
  /\ NoGap
  /\ OriginFollowsTip
  /\ ChainsInv
  /\ ControlInv
  /\ ProgressInv

\* The tip stays, or moves to a child of it or to an Ethereum-finalized block.
tipStep ==
  tip # NoBlock /\ tip' # tip /\ process' = "up" => tip' \in finalized \/ Parent[tip'] = tip

\* VerifyNextBatch and the sync keep to one chain: while the process lives its tip
\* moves to a child of the tip or to a block that Ethereum finalized, whatever
\* forks the streamer and the node follow.
TipFollowsChain == [][tipStep]_vars

\* "Eventually the tag will be advanced after a batch is posted to Ethereum and
\* it finalizes": whatever batches the streamer withholds, whatever fork the
\* full node was on, and however often a write or a refresh fails, the durable
\* number reaches every block that Ethereum finalizes, if the process stays up
\* and the execution node does not for ever report an old finalized block.
EthereumFinalityWins ==
  /\ <>[](process = "up" /\ ctx = "live")
  /\ <>[][snapshot' # snapshot => snapshot' = finalizedHead]_vars
  => \A b \in Block : b \in finalized ~> durableNumber >= Number[b]

\* A cancelled context ends the goroutine wherever it was: Stop's Wait returns.
StopReturns == ctx = "cancelled" ~> process = "down"
=============================================================================
