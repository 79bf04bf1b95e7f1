-------------------- MODULE DelayedMessageFetcher_proofs --------------------
(***************************************************************************)
(* The invariant of the delayed message fetcher, for every set of blocks,  *)
(* indices and data, every scan range and every lookback.                  *)
(***************************************************************************)
EXTENDS DelayedMessageFetcher, TLAPS

\* The steps of the parent chain.
chainStep == parentChainGrows \/ parentChainReorgs \/ parentChainFinalizes

\* The initial states satisfy the invariant.
LEMMA InitInv == Init => Inv
<1> SUFFICES ASSUME Init PROVE Inv
  OBVIOUS
<1> USE BlocksNatural DEF Init
<1>1. TypeOK
  BY DEF TypeOK, noMessages
<1>2. ChainInv /\ NothingSkipped
  BY DEF ChainInv, NothingSkipped
<1>3. EntryInv
  BY DEF EntryInv, noMessages
<1>4. ScanInv /\ RewindInv
  BY DEF ScanInv, RewindInv, scanning
<1> QED
  BY <1>1, <1>2, <1>3, <1>4 DEF Inv

\* What a block adds is of that block and after all others, one message per index.
LEMMA AdditionsFacts ==
  ASSUME NEW below \in SUBSET Message, NEW block \in Blocks, NEW new \in additions(below, block)
  PROVE  /\ new \subseteq Message
         /\ \A n \in new : n.parentBlock = block /\ \A m \in below : m.messageIndex < n.messageIndex
         /\ \A m, n \in new : m.messageIndex = n.messageIndex => m = n
  BY DEF additions, Message

\* The types of the fields of a message.
LEMMA MessageFacts ==
  \A m \in Message :
    /\ m.messageIndex \in Indices /\ m.messageIndex \in Nat
    /\ m.parentBlock \in Blocks /\ m.parentBlock \in Nat
    /\ m.data \in Data
  BY BlocksNatural, IndicesNatural DEF Message

\* Indices and blocks rise together in a set of messages.
inOrder(S) ==
  \A m, n \in S :
    /\ m.messageIndex <= n.messageIndex => m.parentBlock <= n.parentBlock
    /\ m.messageIndex = n.messageIndex => m = n

\* The order survives the addition of later messages.
LEMMA OrderKept ==
  ASSUME NEW below \in SUBSET Message, NEW new \in SUBSET Message, NEW block \in Nat,
         inOrder(below),
         \A m \in below : m.parentBlock <= block,
         \A n \in new : n.parentBlock = block /\ \A m \in below : m.messageIndex < n.messageIndex,
         \A m, n \in new : m.messageIndex = n.messageIndex => m = n
  PROVE  inOrder(below \cup new)
<1> SUFFICES ASSUME NEW m \in below \cup new, NEW n \in below \cup new
             PROVE  /\ m.messageIndex <= n.messageIndex => m.parentBlock <= n.parentBlock
                    /\ m.messageIndex = n.messageIndex => m = n
  BY DEF inOrder
<1>1. /\ m.messageIndex \in Nat /\ n.messageIndex \in Nat
      /\ m.parentBlock \in Nat /\ n.parentBlock \in Nat
  BY MessageFacts
<1>2. CASE m \in below /\ n \in below
  BY <1>2 DEF inOrder
<1>3. CASE m \in below /\ n \in new
  BY <1>1, <1>3
<1>4. CASE m \in new /\ n \in below
  BY <1>1, <1>4
<1>5. CASE m \in new /\ n \in new
  BY <1>1, <1>5
<1> QED
  BY <1>2, <1>3, <1>4, <1>5

\* What a step of the parent chain does, as far as the fetcher can tell: what is
\* final stays, and what is new is above the old tip or in a block that was
\* reorganised.
LEMMA ChainMoves ==
  ASSUME TypeOK, ChainInv, chainStep
  PROVE  /\ chain' \subseteq Message
         /\ latest' \in Blocks /\ finalized' \in Blocks /\ finalized <= finalized'
         /\ unsure' \subseteq Nat /\ unsure \subseteq unsure'
         /\ \A m \in chain : m.parentBlock <= finalized => m \in chain'
         /\ \A m \in chain' :
              \/ m \in chain
              \/ m.parentBlock > finalized /\ (m.parentBlock > latest \/ m.parentBlock \in unsure')
         /\ \A b \in Nat : b > latest' => b > latest \/ b \in unsure'
         /\ ChainInv'
<1>1. /\ chain \in SUBSET Message /\ unsure \subseteq Nat
      /\ latest \in Blocks /\ finalized \in Blocks /\ latest \in Nat /\ finalized \in Nat
      /\ \A m \in chain : m.parentBlock \in Nat
  BY BlocksNatural, MessageFacts DEF TypeOK
<1>2. /\ finalized <= latest
      /\ \A m \in chain : m.parentBlock <= latest
      /\ inOrder(chain)
  BY DEF ChainInv, inOrder
<1>3. ASSUME finalized' <= latest', \A m \in chain' : m.parentBlock <= latest', inOrder(chain')
      PROVE  ChainInv'
  BY <1>3 DEF ChainInv, inOrder
<1>4. CASE parentChainGrows
  <2>1. PICK new \in additions(chain, latest + 1) : chain' = chain \cup new
    BY <1>4 DEF parentChainGrows
  <2>2. /\ latest + 1 \in Blocks /\ latest + 1 \in Nat /\ latest' = latest + 1
        /\ UNCHANGED <<finalized, unsure>>
    BY <1>1, <1>4 DEF parentChainGrows, cacheVars
  <2>3. /\ new \in SUBSET Message
        /\ \A n \in new : n.parentBlock = latest + 1 /\ \A m \in chain : m.messageIndex < n.messageIndex
        /\ \A m, n \in new : m.messageIndex = n.messageIndex => m = n
    BY <1>1, <2>2, AdditionsFacts
  <2>4. \A m \in chain : m.parentBlock <= latest + 1
    BY <1>1, <1>2
  <2>5. inOrder(chain')
    BY <1>1, <1>2, <2>1, <2>2, <2>3, <2>4, OrderKept
  <2>6. ChainInv'
    BY <1>1, <1>2, <1>3, <2>1, <2>2, <2>3, <2>4, <2>5
  <2> QED
    BY <1>1, <1>2, <2>1, <2>2, <2>3, <2>6
<1>5. CASE parentChainReorgs
  <2>1. PICK r \in Blocks :
          /\ finalized < r /\ r <= latest
          /\ \E new \in additions({m \in chain : m.parentBlock < r}, r) :
               chain' = {m \in chain : m.parentBlock < r} \cup new
          /\ latest' = r /\ unsure' = unsure \cup r..latest /\ finalized' = finalized
    BY <1>5 DEF parentChainReorgs
  <2> DEFINE below == {m \in chain : m.parentBlock < r}
  <2>2. PICK new \in additions(below, r) : chain' = below \cup new
    BY <2>1
  <2>3. r \in Nat /\ below \in SUBSET Message /\ \A m \in below : m \in chain /\ m.parentBlock < r
    BY <1>1, BlocksNatural
  <2>4. \A m \in chain : m.parentBlock <= finalized => m \in below
    BY <1>1, <2>1, <2>3
  <2> HIDE DEF below
  <2>5. /\ new \in SUBSET Message
        /\ \A n \in new : n.parentBlock = r /\ \A m \in below : m.messageIndex < n.messageIndex
        /\ \A m, n \in new : m.messageIndex = n.messageIndex => m = n
    BY <2>3, AdditionsFacts
  <2>6. inOrder(below) /\ \A m \in below : m.parentBlock <= r
    BY <1>1, <1>2, <2>3 DEF inOrder
  <2>7. inOrder(chain')
    BY <2>2, <2>3, <2>5, <2>6, OrderKept
  <2>8. ChainInv'
    BY <1>1, <1>3, <2>1, <2>2, <2>3, <2>5, <2>6, <2>7
  <2> QED
    BY <1>1, <2>1, <2>2, <2>3, <2>4, <2>5, <2>8
<1>6. CASE parentChainFinalizes
  <2>1. /\ UNCHANGED <<chain, latest, unsure>>
        /\ finalized' \in Blocks /\ finalized < finalized' /\ finalized' <= latest
    BY <1>6 DEF parentChainFinalizes, cacheVars
  <2> QED
    BY <1>1, <1>2, <1>3, <2>1, BlocksNatural
<1> QED
  BY <1>4, <1>5, <1>6 DEF chainStep

\* What the fetcher and its caller do leaves the parent chain alone.
LEMMA ChainStays ==
  ASSUME [Next]_vars, ~chainStep
  PROVE  UNCHANGED chainVars
<1>1. CASE scanStep
  BY <1>1 DEF scanStep, latestHeader, finalizedHeader, startAhead, poll, fetchBridgeEvents,
    fetchInboxData, extractInboxData, pollFails, updateParentBlockNumber, chainVars
<1>2. CASE callStep
  BY <1>2 DEF callStep, GetDelayedMessage, verifyDelayedMessageOnParentChain, rewind,
    ensureFinality, getFails, advanceVerified, advanceOther, passed, chainVars
<1>3. CASE newDelayedMessageFetcher \/ Cancel \/ runReturns \/ Stop \/ stopReturns
  BY <1>3 DEF newDelayedMessageFetcher, Cancel, runReturns, Stop, stopReturns, chainVars
<1>4. CASE UNCHANGED vars
  BY <1>4 DEF vars, chainVars
<1> QED
  BY <1>1, <1>2, <1>3, <1>4 DEF Next, chainStep

\* The range of a scan ends at a block of the chain, not below its start.
LEMMA ScanEndFacts ==
  ASSUME NEW start \in Nat, NEW end \in Blocks, start <= end
  PROVE  scanEnd(start, end) \in Blocks /\ start <= scanEnd(start, end)
<1>1. end \in Nat /\ maxBlocksPerScan \in Nat
  BY BlocksNatural, ScanBounds
<1>2. scanEnd(start, end) \in 0..end /\ start <= scanEnd(start, end)
  BY <1>1 DEF scanEnd
<1> QED
  BY <1>2, BlocksNatural

\* The type of the fetcher and of the parent chain, in every step.
LEMMA NextTypeOK ==
  ASSUME TypeOK, ChainInv, EntryInv, [Next]_vars
  PROVE  TypeOK'
<1>1. CASE chainStep
  <2>1. /\ chain' \subseteq Message /\ latest' \in Blocks /\ finalized' \in Blocks
        /\ unsure' \subseteq Nat
    BY <1>1, ChainMoves
  <2>2. UNCHANGED <<parentBlockNumber, delayedMessages, ctx, pc, scanVars, at, asked, next>>
    BY <1>1 DEF chainStep, parentChainGrows, parentChainReorgs, parentChainFinalizes, cacheVars,
      callVars
  <2>3. window' \in BOOLEAN
    <3>1. CASE parentChainReorgs
      BY <3>1 DEF parentChainReorgs
    <3>2. CASE ~parentChainReorgs
      <4>1. window' = window
        BY <1>1, <3>2 DEF chainStep, parentChainGrows, parentChainFinalizes, callVars
      <4> QED
        BY <4>1 DEF TypeOK
    <3> QED
      BY <3>1, <3>2
  <2> QED
    BY <2>1, <2>2, <2>3 DEF TypeOK, scanVars
<1>2. CASE newDelayedMessageFetcher
  <2>1. parentBlockNumber' \in Nat
    BY <1>2, BlocksNatural, ScanBounds DEF newDelayedMessageFetcher, TypeOK
  <2> QED
    BY <1>2, <2>1, BlocksNatural
    DEF newDelayedMessageFetcher, TypeOK, chainVars, scanVars, callVars
<1>3. CASE Cancel \/ runReturns \/ Stop \/ stopReturns \/ UNCHANGED vars
  <2>1. /\ UNCHANGED <<chainVars, cacheVars, scanVars, asked, next, window>>
        /\ ctx' \in {ctx, "cancelled"} /\ pc' \in {pc, "returned"} /\ at' \in {at, "stopping", "stopped"}
    BY <1>3 DEF Cancel, runReturns, Stop, stopReturns, vars, callVars
  <2> QED
    BY <2>1 DEF TypeOK, chainVars, cacheVars, scanVars
<1>4. CASE latestHeader \/ finalizedHeader
  BY <1>4 DEF latestHeader, finalizedHeader, TypeOK, chainVars, cacheVars, callVars
<1>5. CASE startAhead \/ pollFails
  BY <1>5, BlocksNatural DEF startAhead, pollFails, pollReturns, TypeOK, chainVars, cacheVars,
    callVars
<1>6. CASE poll
  <2>1. startBlock' \in Nat /\ endBlock' \in Blocks
    BY <1>6, ScanEndFacts DEF poll, TypeOK
  <2>2. unsure' \subseteq Nat
    <3>1. unsure \subseteq Nat /\ latest + 1 \in Nat /\ endBlock' \in Nat
      BY <2>1, BlocksNatural DEF TypeOK
    <3>2. (latest + 1)..endBlock' \subseteq Nat
      BY <3>1
    <3>3. unsure' = (unsure \ startBlock'..endBlock') \cup (latest + 1)..endBlock'
      BY <1>6 DEF poll
    <3> QED
      BY <3>1, <3>2, <3>3
  <2> QED
    BY <1>6, <2>1, <2>2 DEF poll, TypeOK, chainVars, callVars
<1>7. CASE fetchBridgeEvents \/ fetchInboxData
  BY <1>7 DEF fetchBridgeEvents, fetchInboxData, TypeOK, chainVars, cacheVars, callVars
<1>8. CASE extractInboxData
  <2>1. PICK m \in logs :
          /\ delayedMessages' = [delayedMessages EXCEPT ![m.messageIndex] = cached(m, finalizedAt)]
          /\ logs' = logs \ {m} /\ pc' = IF logs' = {} THEN "update" ELSE "extract"
    BY <1>8 DEF extractInboxData
  <2>2. cached(m, finalizedAt) \in delayedMessage
    BY MessageFacts DEF cached, delayedMessage, TypeOK
  <2>3. delayedMessages' \in [Indices -> delayedMessage \cup {NoMessage}]
    BY <2>1, <2>2 DEF TypeOK
  <2> QED
    BY <1>8, <2>1, <2>3 DEF extractInboxData, TypeOK, chainVars, callVars
<1>9. CASE updateParentBlockNumber
  <2>1. /\ unsure \subseteq Nat /\ startBlock \in Nat /\ endBlock \in Nat
        /\ parentBlockNumber \in Nat
    BY BlocksNatural DEF TypeOK
  <2>2. startBlock..endBlock \subseteq Nat
    BY <2>1
  <2>3. parentBlockNumber' \in Nat /\ unsure' \subseteq Nat
    <3>1. CASE parentBlockNumber = startBlock
      <4>1. /\ parentBlockNumber' = endBlock + 1
            /\ unsure' = unsure \cup startBlock..endBlock \/ unsure' = unsure
        BY <1>9, <3>1 DEF updateParentBlockNumber
      <4>2. unsure' \subseteq Nat
        BY <2>1, <2>2, <4>1, Zenon
      <4>3. parentBlockNumber' \in Nat
        BY <2>1, <4>1
      <4> QED
        BY <4>2, <4>3
    <3>2. CASE parentBlockNumber # startBlock
      BY <1>9, <2>1, <3>2 DEF updateParentBlockNumber
    <3> QED
      BY <3>1, <3>2
  <2> QED
    BY <1>9, <2>3, BlocksNatural
    DEF updateParentBlockNumber, pollReturns, TypeOK, chainVars, callVars
<1>10. ASSUME NEW i \in Indices, GetDelayedMessage(i) PROVE TypeOK'
  BY <1>10 DEF GetDelayedMessage, TypeOK, chainVars, cacheVars, scanVars
<1>11. CASE verifyDelayedMessageOnParentChain \/ ensureFinality \/ getFails
  BY <1>11 DEF verifyDelayedMessageOnParentChain, ensureFinality, getFails, TypeOK, chainVars,
    cacheVars, scanVars
<1>12. CASE rewind
  <2>1. asked.finalizedBlock \in Nat
    BY <1>12, BlocksNatural DEF rewind, EntryInv, TypeOK, delayedMessage
  <2> QED
    BY <1>12, <2>1 DEF rewind, noMessages, TypeOK, chainVars
<1>13. CASE advanceVerified
  <2>1. delayedMessages' \in [Indices -> delayedMessage \cup {NoMessage}]
    BY <1>13 DEF advanceVerified, dropped, TypeOK
  <2>2. window' = FALSE /\ next' \in Nat
    BY <1>13 DEF advanceVerified, TypeOK
  <2>3. window' \in BOOLEAN
    BY <2>2
  <2>4. UNCHANGED <<chain, latest, finalized, parentBlockNumber, unsure, ctx, pc, scanVars>>
          /\ at' = "ready" /\ asked' = NoMessage
    BY <1>13 DEF advanceVerified, chainVars
  <2> QED
    BY <2>1, <2>2, <2>3, <2>4 DEF TypeOK, scanVars
<1>14. ASSUME NEW i \in Indices, advanceOther(i) \/ passed(i) PROVE TypeOK'
  <2>1. delayedMessages' \in [Indices -> delayedMessage \cup {NoMessage}]
    BY <1>14 DEF advanceOther, passed, dropped, cacheVars, TypeOK
  <2> QED
    BY <1>14, <2>1, IndicesNatural DEF advanceOther, passed, TypeOK, chainVars, cacheVars,
      scanVars, callVars
<1> QED
  BY <1>1, <1>2, <1>3, <1>4, <1>5, <1>6, <1>7, <1>8, <1>9, <1>10, <1>11, <1>12, <1>13, <1>14
  DEF Next, chainStep, scanStep, callStep

\* The order of the parent chain, in every step.
LEMMA NextChainInv ==
  ASSUME TypeOK, ChainInv, [Next]_vars
  PROVE  ChainInv'
<1>1. CASE chainStep
  BY <1>1, ChainMoves
<1>2. CASE ~chainStep
  BY <1>2, ChainStays DEF ChainInv, chainVars
<1> QED
  BY <1>1, <1>2

\* The types of the fields of a cached message.
LEMMA CachedFacts ==
  \A e \in delayedMessage :
    /\ e.messageIndex \in Indices /\ e.messageIndex \in Nat
    /\ e.parentBlock \in Nat
    /\ e.finalizedBlock \in Nat
  BY BlocksNatural, IndicesNatural DEF delayedMessage

\* What is true of a cached message stays true, whatever the parent chain does.
LEMMA EntryStable ==
  ASSUME TypeOK, ChainInv, [Next]_vars, NEW e \in delayedMessage, entryOK(e)
  PROVE  entryOK(e)'
<1>1. CASE chainStep
  <2>1. /\ finalized \in Nat /\ finalized' \in Nat /\ finalized <= finalized'
        /\ \A m \in chain : m.parentBlock <= finalized => m \in chain'
        /\ \A m \in chain' : m \in chain \/ m.parentBlock > finalized
        /\ \A m \in chain' : m.parentBlock \in Nat
    BY <1>1, ChainMoves, MessageFacts, BlocksNatural DEF TypeOK
  <2>2. e.parentBlock \in Nat /\ e.finalizedBlock \in Nat
    BY CachedFacts
  <2>3. e.finalizedBlock <= finalized'
    BY <2>1, <2>2 DEF entryOK
  <2>4. ASSUME e.parentBlock <= e.finalizedBlock PROVE onChain(e)'
    <3>1. PICK m \in chain :
            m.messageIndex = e.messageIndex /\ m.parentBlock = e.parentBlock /\ m.data = e.data
      BY <2>4 DEF entryOK, onChain
    <3>2. m \in chain'
      BY <2>1, <2>2, <2>4, <3>1 DEF entryOK
    <3> QED
      BY <3>1, <3>2 DEF onChain
  <2>5. ASSUME e.parentBlock > e.finalizedBlock,
               NEW m \in chain', m.parentBlock <= e.finalizedBlock
        PROVE  m.messageIndex < e.messageIndex
    BY <2>1, <2>2, <2>5 DEF entryOK
  <2> QED
    BY <2>3, <2>4, <2>5 DEF entryOK
<1>2. CASE ~chainStep
  BY <1>2, ChainStays DEF entryOK, onChain, chainVars
<1> QED
  BY <1>1, <1>2

\* What a scan finds on the chain meets the condition on cached messages.
LEMMA FoundOK ==
  ASSUME TypeOK, ChainInv, finalizedAt <= finalized, NEW l \in chain
  PROVE  entryOK(cached(l, finalizedAt))
<1>1. /\ finalizedAt \in Nat /\ l.parentBlock \in Nat /\ l.messageIndex \in Nat
      /\ \A m \in chain : m.parentBlock \in Nat /\ m.messageIndex \in Nat
  BY MessageFacts, BlocksNatural DEF TypeOK
<1>2. onChain(cached(l, finalizedAt))
  BY DEF onChain, cached
<1>3. ASSUME l.parentBlock > finalizedAt, NEW m \in chain, m.parentBlock <= finalizedAt
      PROVE  m.messageIndex < l.messageIndex
  BY <1>1, <1>3 DEF ChainInv
<1> QED
  BY <1>2, <1>3 DEF entryOK, cached

\* The verifier's goroutine holds a cached message.
holding == {"check", "rewind", "finality", "answered"}

\* The conditions on the cache, on the logs of a scan and on the message that the
\* verifier's goroutine holds, in every step.
LEMMA NextEntryInv ==
  ASSUME TypeOK, ChainInv, EntryInv, ScanInv, [Next]_vars
  PROVE  EntryInv'
<1> DEFINE cacheOK == \A i \in Indices :
             delayedMessages[i] # NoMessage =>
               entryOK(delayedMessages[i]) /\ delayedMessages[i].messageIndex = i
           logsOK == (\A l \in logs : entryOK(cached(l, finalizedAt))) /\ finalizedAt <= finalized
           askedOK == /\ at \in holding =>
                           asked # NoMessage /\ entryOK(asked) /\ asked.messageIndex <= next
                      /\ at = "rewind" => asked.parentBlock > asked.finalizedBlock
<1>1. cacheOK /\ logsOK /\ askedOK
  BY DEF EntryInv, holding
<1>2. \A e \in delayedMessage : entryOK(e) => entryOK(e)'
  BY EntryStable
<1>3. /\ \A i \in Indices : delayedMessages[i] # NoMessage => delayedMessages[i] \in delayedMessage
      /\ \A l \in Message : cached(l, finalizedAt) \in delayedMessage
      /\ asked # NoMessage => asked \in delayedMessage
      /\ logs \subseteq Message /\ delayedMessages \in [Indices -> delayedMessage \cup {NoMessage}]
  BY DEF TypeOK, cached, Message, delayedMessage
<1>4. finalized \in Nat /\ finalized' \in Nat /\ finalized <= finalized' /\ finalizedAt \in Nat
  <2>1. CASE chainStep
    BY <2>1, ChainMoves, BlocksNatural DEF TypeOK
  <2>2. CASE ~chainStep
    BY <2>2, ChainStays, BlocksNatural DEF TypeOK, chainVars
  <2> QED
    BY <2>1, <2>2
<1>5. ASSUME UNCHANGED delayedMessages PROVE cacheOK'
  BY <1>1, <1>2, <1>3, <1>5
<1>6. ASSUME UNCHANGED <<logs, finalizedAt>> PROVE logsOK'
  <2>1. finalizedAt' <= finalized'
    BY <1>1, <1>4, <1>6
  <2>2. ASSUME NEW l \in logs PROVE entryOK(cached(l, finalizedAt))'
    BY <1>1, <1>2, <1>3, <1>6 DEF cached
  <2> QED
    BY <1>6, <2>1, <2>2
<1>7. ASSUME UNCHANGED callVars PROVE askedOK'
  BY <1>1, <1>2, <1>3, <1>7 DEF callVars, holding
<1>71. ASSUME UNCHANGED <<at, asked, next>> PROVE askedOK'
  BY <1>1, <1>2, <1>3, <1>71 DEF holding
<1>8. ASSUME logs' = {}, finalizedAt' = 0 PROVE logsOK'
  BY <1>4, <1>8
<1>9. ASSUME at' \notin holding PROVE askedOK'
  BY <1>9 DEF holding
<1> SUFFICES cacheOK' /\ logsOK' /\ askedOK'
  BY DEF EntryInv, holding
<1> HIDE DEF cacheOK, logsOK, askedOK
<1>10. CASE chainStep
  <2>1. UNCHANGED <<delayedMessages, logs, finalizedAt, at, asked, next>>
    BY <1>10 DEF chainStep, parentChainGrows, parentChainReorgs, parentChainFinalizes, cacheVars,
      scanVars, callVars
  <2> QED
    BY <1>5, <1>6, <1>71, <2>1
<1>11. CASE Cancel \/ runReturns \/ UNCHANGED vars
  BY <1>5, <1>6, <1>7, <1>11 DEF Cancel, runReturns, vars, cacheVars, scanVars
<1>12. CASE newDelayedMessageFetcher \/ Stop \/ stopReturns
  BY <1>5, <1>6, <1>9, <1>12 DEF newDelayedMessageFetcher, Stop, stopReturns, cacheVars, scanVars,
    holding
<1>13. CASE latestHeader \/ poll \/ fetchBridgeEvents
  BY <1>5, <1>6, <1>7, <1>13 DEF latestHeader, poll, fetchBridgeEvents, cacheVars, scanVars
<1>14. CASE startAhead \/ pollFails \/ updateParentBlockNumber
  BY <1>5, <1>7, <1>8, <1>14 DEF startAhead, pollFails, updateParentBlockNumber, pollReturns,
    cacheVars
<1>15. ASSUME NEW i \in Indices, passed(i) PROVE cacheOK' /\ logsOK' /\ askedOK'
  BY <1>5, <1>6, <1>9, <1>15 DEF passed, cacheVars, scanVars, holding
<1>16. CASE getFails
  BY <1>5, <1>6, <1>9, <1>16 DEF getFails, cacheVars, scanVars, holding
<1>17. CASE finalizedHeader
  <2>1. logs' = {} /\ finalizedAt' = finalized /\ finalized' = finalized
    BY <1>17 DEF finalizedHeader, ScanInv, chainVars
  <2>2. logsOK'
    BY <1>4, <2>1 DEF logsOK
  <2> QED
    BY <1>5, <1>7, <1>17, <2>2 DEF finalizedHeader, cacheVars
<1>18. CASE fetchInboxData
  <2>1. logs' \subseteq chain /\ UNCHANGED <<chain, finalized, finalizedAt>>
    BY <1>18 DEF fetchInboxData, chainVars
  <2>2. finalizedAt <= finalized /\ \A l \in chain : entryOK(cached(l, finalizedAt))
    BY <1>1, FoundOK DEF logsOK
  <2>3. logsOK'
    BY <2>1, <2>2 DEF logsOK, entryOK, onChain, cached
  <2> QED
    BY <1>5, <1>7, <1>18, <2>3 DEF fetchInboxData, cacheVars
<1>19. CASE extractInboxData
  <2>1. PICK m \in logs :
          /\ delayedMessages' = [delayedMessages EXCEPT ![m.messageIndex] = cached(m, finalizedAt)]
          /\ logs' = logs \ {m}
    BY <1>19 DEF extractInboxData
  <2>2. UNCHANGED <<finalizedAt, callVars>>
    BY <1>19 DEF extractInboxData
  <2>3. \A l \in logs : cached(l, finalizedAt) \in delayedMessage /\ entryOK(cached(l, finalizedAt))'
    <3>1. \A l \in logs : cached(l, finalizedAt) \in delayedMessage /\ entryOK(cached(l, finalizedAt))
      BY <1>1, <1>3 DEF logsOK
    <3> QED
      BY <1>2, <2>2, <3>1 DEF cached
  <2>4. logsOK'
    BY <1>1, <1>4, <2>1, <2>2, <2>3 DEF logsOK
  <2>5. ASSUME NEW i \in Indices, delayedMessages'[i] # NoMessage
        PROVE  entryOK(delayedMessages[i])' /\ delayedMessages'[i].messageIndex = i
    <3>1. CASE i = m.messageIndex
      <4>1. delayedMessages'[i] = cached(m, finalizedAt)
        BY <1>3, <2>1, <3>1
      <4>2. entryOK(cached(m, finalizedAt))'
        BY <2>3
      <4> QED
        BY <2>2, <3>1, <4>1, <4>2, SMTT(30) DEF cached
    <3>2. CASE i # m.messageIndex
      <4>1. delayedMessages'[i] = delayedMessages[i]
        BY <1>3, <2>1, <3>2
      <4> QED
        BY <1>1, <1>2, <1>3, <2>5, <4>1 DEF cacheOK
    <3> QED
      BY <3>1, <3>2
  <2>6. cacheOK'
    BY <2>5 DEF cacheOK
  <2> QED
    BY <1>7, <2>2, <2>4, <2>6
<1>20. ASSUME NEW i \in Indices, GetDelayedMessage(i) PROVE cacheOK' /\ logsOK' /\ askedOK'
  <2>1. /\ delayedMessages[i] # NoMessage /\ asked' = delayedMessages[i] /\ at' = "check"
        /\ i <= next /\ next' = next
    BY <1>20 DEF GetDelayedMessage
  <2>2. entryOK(asked)' /\ asked'.messageIndex <= next'
    BY <1>1, <1>2, <1>3, <2>1 DEF cacheOK
  <2>3. askedOK'
    BY <2>1, <2>2 DEF askedOK
  <2> QED
    BY <1>5, <1>6, <1>20, <2>3 DEF GetDelayedMessage, cacheVars, scanVars
<1>21. CASE verifyDelayedMessageOnParentChain \/ ensureFinality
  <2>1. at \in holding /\ UNCHANGED <<asked, next>>
    BY <1>21 DEF verifyDelayedMessageOnParentChain, ensureFinality, holding
  <2>2. asked # NoMessage /\ entryOK(asked) /\ asked.messageIndex <= next
    BY <1>1, <2>1 DEF askedOK
  <2>3. entryOK(asked)'
    BY <1>2, <1>3, <2>1, <2>2
  <2>4. ASSUME at' = "rewind" PROVE asked.parentBlock > asked.finalizedBlock
    <3>1. ~onChain(asked)
      BY <1>21, <2>4 DEF verifyDelayedMessageOnParentChain, ensureFinality
    <3>2. asked.parentBlock \in Nat /\ asked.finalizedBlock \in Nat
      BY <1>3, <2>2, CachedFacts
    <3> QED
      BY <2>2, <3>1, <3>2 DEF entryOK
  <2>5. askedOK'
    BY <2>1, <2>2, <2>3, <2>4 DEF askedOK
  <2> QED
    BY <1>5, <1>6, <1>21, <2>5
    DEF verifyDelayedMessageOnParentChain, ensureFinality, cacheVars, scanVars
<1>22. CASE rewind
  <2>1. cacheOK'
    BY <1>22 DEF rewind, noMessages, cacheOK
  <2> QED
    BY <1>6, <1>9, <1>22, <2>1 DEF rewind, holding
<1>23. ASSUME NEW i, delayedMessages' = dropped(i) PROVE cacheOK'
  <2>1. \A j \in Indices : delayedMessages'[j] # NoMessage => delayedMessages'[j] = delayedMessages[j]
    BY <1>23 DEF dropped
  <2> QED
    BY <1>1, <1>2, <1>3, <2>1 DEF cacheOK
<1>24. CASE advanceVerified
  BY <1>6, <1>9, <1>23, <1>24 DEF advanceVerified, scanVars, holding
<1>25. ASSUME NEW i \in Indices, advanceOther(i) PROVE cacheOK' /\ logsOK' /\ askedOK'
  BY <1>6, <1>7, <1>23, <1>25 DEF advanceOther, scanVars
<1> QED
  BY <1>10, <1>11, <1>12, <1>13, <1>14, <1>15, <1>16, <1>17, <1>18, <1>19, <1>20, <1>21, <1>22,
     <1>24, <1>25
  DEF Next, chainStep, scanStep, callStep

\* The condition on the start of the next scan, in every step.
LEMMA NextRewindInv ==
  ASSUME TypeOK, ChainInv, EntryInv, ScanInv, RewindInv, [Next]_vars
  PROVE  RewindInv'
<1>1. /\ parentBlockNumber \in Nat /\ latest \in Nat /\ finalized \in Nat /\ next \in Nat
      /\ startBlock \in Nat /\ endBlock \in Nat /\ finalized <= latest
      /\ overtaken \in BOOLEAN
      /\ \A m \in chain : m.parentBlock \in Nat /\ m.messageIndex \in Nat
  BY MessageFacts, BlocksNatural DEF TypeOK, ChainInv
<1>2. ASSUME UNCHANGED <<parentBlockNumber, unsure, latest, finalized, chain>>,
             next' \in Nat, next <= next', overtaken' = overtaken \/ overtaken' = FALSE,
             pc' # "down"
      PROVE  RewindInv'
  <2>1. ASSUME overtaken', NEW m \in chain, m.parentBlock < parentBlockNumber
        PROVE  m.messageIndex < next'
    <3>1. overtaken
      BY <1>2, <2>1
    <3>2. m.messageIndex < next
      BY <2>1, <3>1 DEF RewindInv
    <3> QED
      BY <1>1, <1>2, <3>2
  <2>2. ASSUME overtaken' PROVE parentBlockNumber <= finalized
    BY <1>2, <2>2 DEF RewindInv
  <2>3. \A b \in 0..parentBlockNumber : latest < b /\ b < parentBlockNumber => b \in unsure
    BY DEF RewindInv
  <2> QED
    BY <1>2, <2>1, <2>2, <2>3 DEF RewindInv
<1>3. CASE chainStep
  <2>1. /\ \A m \in chain' : m \in chain \/ m.parentBlock > finalized
        /\ \A m \in chain' : m.parentBlock \in Nat
        /\ \A b \in Nat : b > latest' => b > latest \/ b \in unsure'
        /\ unsure \subseteq unsure' /\ finalized <= finalized' /\ finalized' \in Nat
        /\ latest' \in Nat
    BY <1>3, ChainMoves, MessageFacts, BlocksNatural
  <2>2. UNCHANGED <<parentBlockNumber, pc, overtaken, at, next>>
    BY <1>3 DEF chainStep, parentChainGrows, parentChainReorgs, parentChainFinalizes, cacheVars,
      scanVars, callVars
  <2>3. ASSUME NEW b \in 0..parentBlockNumber, latest' < b, b < parentBlockNumber
        PROVE  b \in unsure'
    BY <1>1, <2>1, <2>3 DEF RewindInv
  <2>4. ASSUME overtaken
        PROVE  /\ parentBlockNumber <= finalized'
               /\ \A m \in chain' : m.parentBlock < parentBlockNumber => m.messageIndex < next
    BY <1>1, <2>1, <2>4 DEF RewindInv
  <2>5. pc = "down" => parentBlockNumber = 0 /\ at = "down" /\ ~overtaken
    BY DEF RewindInv
  <2> QED
    BY <2>2, <2>3, <2>4, <2>5 DEF RewindInv
<1>4. CASE newDelayedMessageFetcher
  <2>1. parentBlockNumber' \in Nat /\ parentBlockNumber' <= finalized
    BY <1>1, <1>4, ScanBounds DEF newDelayedMessageFetcher
  <2>2. ~overtaken' /\ latest' = latest /\ pc' # "down"
    BY <1>4 DEF newDelayedMessageFetcher, RewindInv, scanVars, chainVars
  <2> QED
    BY <1>1, <2>1, <2>2 DEF RewindInv
<1>5. CASE UNCHANGED vars
  BY <1>5 DEF RewindInv, vars, chainVars, cacheVars, scanVars, callVars
<1>6. CASE Cancel \/ runReturns \/ Stop \/ stopReturns
  <2>1. pc' # "down"
    BY <1>6 DEF Cancel, runReturns, Stop, stopReturns, RewindInv
  <2>2. UNCHANGED <<parentBlockNumber, unsure, latest, finalized, chain, next, overtaken>>
    BY <1>6 DEF Cancel, runReturns, Stop, stopReturns, chainVars, cacheVars, scanVars, callVars
  <2>3. next' \in Nat /\ next <= next'
    BY <1>1, <2>2
  <2> QED
    BY <1>2, <2>1, <2>2, <2>3
<1>7. CASE latestHeader \/ finalizedHeader \/ startAhead \/ fetchBridgeEvents \/ fetchInboxData
           \/ extractInboxData \/ pollFails
  <2>1. /\ UNCHANGED <<parentBlockNumber, unsure, latest, finalized, chain, next>>
        /\ overtaken' = overtaken \/ overtaken' = FALSE
        /\ pc' # "down"
    BY <1>7 DEF latestHeader, finalizedHeader, startAhead, fetchBridgeEvents, fetchInboxData,
      extractInboxData, pollFails, pollReturns, chainVars, cacheVars, callVars
  <2>2. next' \in Nat /\ next <= next'
    BY <1>1, <2>1
  <2> QED
    BY <1>2, <2>1, <2>2
<1>8. CASE poll
  <2>1. /\ startBlock' = parentBlockNumber /\ overtaken' = FALSE /\ pc' = "bridge"
        /\ UNCHANGED <<parentBlockNumber, latest>>
        /\ unsure' = (unsure \ startBlock'..endBlock') \cup (latest + 1)..endBlock'
    BY <1>8 DEF poll, chainVars
  <2>2. ASSUME NEW b \in 0..parentBlockNumber, latest < b, b < parentBlockNumber
        PROVE  b \in unsure'
    <3>1. b \in unsure /\ b \in Nat
      BY <1>1, <2>2 DEF RewindInv
    <3>2. b \notin startBlock'..endBlock'
      BY <1>1, <2>1, <2>2, <3>1
    <3> QED
      BY <2>1, <3>1, <3>2
  <2> QED
    BY <2>1, <2>2 DEF RewindInv
<1>9. CASE updateParentBlockNumber
  <2>1. pc = "update" /\ overtaken' = FALSE /\ pc' = "select" /\ UNCHANGED <<latest, next, chainVars>>
    BY <1>9 DEF updateParentBlockNumber, pollReturns, chainVars, callVars
  <2>2. CASE parentBlockNumber = startBlock
    <3>1. /\ parentBlockNumber' = endBlock + 1
          /\ unsure' = IF overtaken THEN unsure \cup startBlock..endBlock ELSE unsure
      BY <1>9, <2>2 DEF updateParentBlockNumber
    <3>2. ASSUME NEW b \in 0..(endBlock + 1), latest < b, b < endBlock + 1
          PROVE  b \in unsure'
      <4>1. CASE b < startBlock
        <5>1. b \in unsure
          BY <1>1, <2>2, <3>2, <4>1 DEF RewindInv
        <5> QED
          BY <3>1, <5>1
      <4>2. CASE b >= startBlock
        <5>1. b \in startBlock..endBlock
          BY <1>1, <3>2, <4>2
        <5>2. overtaken \/ b \in unsure
          BY <1>1, <2>1, <3>2, <5>1 DEF ScanInv, scanning
        <5> QED
          BY <3>1, <5>1, <5>2
      <4> QED
        BY <1>1, <4>1, <4>2
    <3> QED
      BY <2>1, <3>1, <3>2 DEF RewindInv
  <2>3. CASE parentBlockNumber # startBlock
    <3>1. UNCHANGED <<parentBlockNumber, unsure>>
      BY <1>9, <2>3 DEF updateParentBlockNumber
    <3> QED
      BY <2>1, <3>1 DEF RewindInv
  <2> QED
    BY <2>2, <2>3
<1>10. CASE rewind
  <2>1. /\ asked \in delayedMessage /\ entryOK(asked) /\ asked.messageIndex <= next
        /\ asked.parentBlock > asked.finalizedBlock
    BY <1>10 DEF rewind, EntryInv, TypeOK
  <2>2. asked.finalizedBlock \in Nat /\ asked.messageIndex \in Nat
    BY <2>1, CachedFacts
  <2>3. /\ parentBlockNumber' = asked.finalizedBlock /\ pc' = pc /\ pc # "down"
        /\ UNCHANGED <<latest, finalized, chain, next>>
    BY <1>10 DEF rewind, RewindInv, chainVars
  <2>4. asked.finalizedBlock <= finalized
    BY <2>1 DEF entryOK
  <2>5. \A m \in chain : m.parentBlock < asked.finalizedBlock => m.messageIndex < next
    BY <1>1, <2>1, <2>2 DEF entryOK
  <2> QED
    BY <1>1, <2>2, <2>3, <2>4, <2>5 DEF RewindInv
<1>11. ASSUME callStep, ~rewind PROVE RewindInv'
  <2>1. pc' = pc /\ at # "down"
    BY <1>11 DEF callStep, GetDelayedMessage, verifyDelayedMessageOnParentChain, ensureFinality,
      getFails, advanceVerified, advanceOther, passed
  <2>2. pc' # "down"
    BY <2>1 DEF RewindInv
  <2>3. next' \in Nat /\ next <= next'
    BY <1>1, <1>11, IndicesNatural, SMTT(30) DEF callStep, GetDelayedMessage,
      verifyDelayedMessageOnParentChain, ensureFinality, getFails, advanceVerified, advanceOther,
      passed, callVars
  <2>4. UNCHANGED <<parentBlockNumber, unsure, latest, finalized, chain, overtaken>>
    BY <1>11 DEF callStep, GetDelayedMessage, verifyDelayedMessageOnParentChain, ensureFinality,
      getFails, advanceVerified, advanceOther, passed, chainVars, cacheVars, scanVars
  <2> QED
    BY <1>2, <2>2, <2>3, <2>4
<1> QED
  BY <1>3, <1>4, <1>5, <1>6, <1>7, <1>8, <1>9, <1>10, <1>11 DEF Next, chainStep, scanStep

\* A message that is cached or not needed stays so, but for a rewind, or a scan that
\* caches another one with the same index.
LEMMA KeptStays ==
  ASSUME TypeOK, EntryInv, [Next]_vars, ~rewind, ~extractInboxData, NEW m \in Message, kept(m)
  PROVE  kept(m)'
<1>1. m.messageIndex \in Indices /\ m.messageIndex \in Nat /\ next \in Nat
  BY MessageFacts DEF TypeOK
<1>2. ASSUME UNCHANGED delayedMessages, next' \in Nat, next <= next' PROVE kept(m)'
  BY <1>1, <1>2 DEF kept
<1>3. ASSUME NEW i \in Nat, delayedMessages' = dropped(i), next' \in Nat, next <= next', i < next'
      PROVE  kept(m)'
  <2>1. CASE m.messageIndex <= i
    BY <1>1, <1>3, <2>1, SMTT(30) DEF kept
  <2>2. CASE m.messageIndex > i
    <3>1. delayedMessages'[m.messageIndex] = delayedMessages[m.messageIndex]
      BY <1>1, <1>3, <2>2 DEF dropped
    <3> QED
      BY <1>1, <1>3, <3>1 DEF kept
  <2> QED
    BY <1>1, <1>3, <2>1, <2>2
<1>4. CASE advanceVerified
  <2>1. asked \in delayedMessage /\ asked.messageIndex <= next
    BY <1>4 DEF advanceVerified, EntryInv, TypeOK
  <2>2. asked.messageIndex \in Nat
    BY <2>1, CachedFacts
  <2>3. next' \in Nat /\ next <= next' /\ asked.messageIndex < next'
    BY <1>1, <1>4, <2>1, <2>2 DEF advanceVerified
  <2> QED
    BY <1>3, <1>4, <2>2, <2>3 DEF advanceVerified
<1>5. ASSUME NEW i \in Indices, advanceOther(i) PROVE kept(m)'
  BY <1>1, <1>3, <1>5, IndicesNatural DEF advanceOther, callVars
<1>6. ASSUME NEW i \in Indices, passed(i) PROVE kept(m)'
  <2>1. UNCHANGED delayedMessages /\ next' \in Nat /\ next <= next'
    BY <1>1, <1>6, IndicesNatural DEF passed, cacheVars
  <2> QED
    BY <1>2, <2>1
<1>7. ASSUME UNCHANGED <<delayedMessages, next>> PROVE kept(m)'
  BY <1>1, <1>2, <1>7
<1>8. CASE chainStep
  BY <1>7, <1>8 DEF chainStep, parentChainGrows, parentChainReorgs, parentChainFinalizes,
    cacheVars, callVars
<1>9. CASE newDelayedMessageFetcher \/ Cancel \/ runReturns \/ Stop \/ stopReturns \/ UNCHANGED vars
  BY <1>7, <1>9, SMTT(30) DEF newDelayedMessageFetcher, Cancel, runReturns, Stop, stopReturns, vars,
    cacheVars, callVars
<1>10. CASE scanStep
  BY <1>7, <1>10, SMTT(30) DEF scanStep, latestHeader, finalizedHeader, startAhead, poll, fetchBridgeEvents,
    fetchInboxData, pollFails, updateParentBlockNumber, cacheVars, callVars
<1>11. ASSUME \/ \E i \in Indices : GetDelayedMessage(i)
              \/ verifyDelayedMessageOnParentChain \/ ensureFinality \/ getFails
       PROVE  kept(m)'
  BY <1>7, <1>11 DEF GetDelayedMessage, verifyDelayedMessageOnParentChain, ensureFinality, getFails,
    cacheVars
<1> QED
  BY <1>4, <1>5, <1>6, <1>8, <1>9, <1>10, <1>11 DEF Next, chainStep, callStep

\* What is cached from a log is kept, and so is what has another index.
LEMMA KeptExtract ==
  ASSUME TypeOK, NEW m \in logs, NEW n \in Message, UNCHANGED next,
         delayedMessages' = [delayedMessages EXCEPT ![m.messageIndex] = cached(m, finalizedAt)]
  PROVE  /\ n = m => kept(n)'
         /\ n.messageIndex # m.messageIndex /\ kept(n) => kept(n)'
         /\ n.messageIndex < next => kept(n)'
<1>1. /\ m \in Message /\ m.messageIndex \in Indices /\ n.messageIndex \in Indices
      /\ finalizedAt \in Blocks
      /\ delayedMessages \in [Indices -> delayedMessage \cup {NoMessage}]
  BY MessageFacts DEF TypeOK
<1>2. cached(m, finalizedAt) \in delayedMessage
  BY <1>1 DEF cached, Message, delayedMessage
<1>3. cached(m, finalizedAt) # NoMessage
  BY <1>2, NoMessageIsNone
<1>4. delayedMessages'[m.messageIndex] = cached(m, finalizedAt)
  BY <1>1
<1>5. n = m => kept(n)'
  BY <1>3, <1>4 DEF kept, cached
<1>6. n.messageIndex # m.messageIndex /\ kept(n) => kept(n)'
  BY <1>1 DEF kept
<1> QED
  BY <1>5, <1>6 DEF kept

\* The fetcher leaves nothing behind, in every step.
LEMMA NextNothingSkipped ==
  ASSUME Inv, [Next]_vars
  PROVE  NothingSkipped'
<1>0. TypeOK /\ ChainInv /\ EntryInv /\ ScanInv /\ RewindInv /\ NothingSkipped
  BY DEF Inv
<1>1. /\ parentBlockNumber \in Nat /\ latest \in Nat /\ startBlock \in Nat /\ endBlock \in Nat
      /\ overtaken \in BOOLEAN
      /\ \A m \in chain : m \in Message /\ m.parentBlock \in Nat /\ m.messageIndex \in Nat
  BY <1>0, MessageFacts, BlocksNatural DEF TypeOK
<1>2. ASSUME ~rewind, ~extractInboxData PROVE \A m \in Message : kept(m) => kept(m)'
  BY <1>0, <1>2, KeptStays
<1>3. CASE rewind
  <2>1. RewindInv' /\ overtaken' = TRUE
    BY <1>0, <1>3, NextRewindInv DEF rewind
  <2> QED
    BY <2>1 DEF RewindInv, NothingSkipped, kept
<1>4. CASE extractInboxData
  <2>1. PICK m \in logs :
          delayedMessages' = [delayedMessages EXCEPT ![m.messageIndex] = cached(m, finalizedAt)]
    BY <1>4 DEF extractInboxData
  <2>2. UNCHANGED <<chain, parentBlockNumber, unsure, next>> /\ pc = "extract"
    BY <1>4 DEF extractInboxData, chainVars, callVars
  <2>3. ASSUME NEW n \in chain, n.parentBlock < parentBlockNumber, n.parentBlock \notin unsure
        PROVE  kept(n)'
    <3>1. kept(n)
      BY <1>0, <2>3 DEF NothingSkipped
    <3>2. CASE n.messageIndex # m.messageIndex
      BY <1>0, <1>1, <2>1, <2>2, <3>1, <3>2, KeptExtract
    <3>3. CASE n.messageIndex = m.messageIndex /\ overtaken
      <4>1. n.messageIndex < next
        BY <1>0, <2>3, <3>3 DEF RewindInv
      <4> QED
        BY <1>0, <1>1, <2>1, <2>2, <4>1, KeptExtract
    <3>4. CASE n.messageIndex = m.messageIndex /\ ~overtaken
      <4>1. /\ parentBlockNumber = startBlock /\ startBlock <= endBlock
            /\ n = m \/ n.parentBlock \in unsure \/ n.parentBlock > endBlock
        BY <1>0, <2>2, <3>4 DEF ScanInv, scanning
      <4>2. n = m
        BY <1>1, <2>3, <4>1
      <4> QED
        BY <1>0, <1>1, <2>1, <2>2, <4>2, KeptExtract
    <3> QED
      BY <3>2, <3>3, <3>4
  <2> QED
    BY <2>2, <2>3 DEF NothingSkipped
<1>5. ASSUME ~rewind, ~extractInboxData PROVE NothingSkipped'
  <2>1. \A m \in Message : kept(m) => kept(m)'
    BY <1>2, <1>5
  <2>2. ASSUME UNCHANGED <<chain, parentBlockNumber, unsure>> PROVE NothingSkipped'
    BY <1>0, <1>1, <2>1, <2>2 DEF NothingSkipped
  <2>3. CASE chainStep
    <3>1. /\ \A m \in chain' :
               m \in chain \/ m.parentBlock > latest \/ m.parentBlock \in unsure'
          /\ chain' \subseteq Message /\ \A m \in chain' : m.parentBlock \in Nat
          /\ unsure \subseteq unsure'
      BY <1>0, <2>3, ChainMoves, MessageFacts
    <3>2. UNCHANGED parentBlockNumber
      BY <2>3 DEF chainStep, parentChainGrows, parentChainReorgs, parentChainFinalizes, cacheVars
    <3>3. ASSUME NEW m \in chain', m.parentBlock < parentBlockNumber, m.parentBlock \notin unsure'
          PROVE  kept(m)'
      <4>1. m.parentBlock \in 0..parentBlockNumber /\ m.parentBlock \notin unsure
        BY <1>1, <3>1, <3>3
      <4>2. ~(m.parentBlock > latest)
        BY <1>0, <1>1, <3>1, <3>3, <4>1 DEF RewindInv
      <4>3. kept(m)
        BY <1>0, <3>1, <3>3, <4>1, <4>2 DEF NothingSkipped
      <4> QED
        BY <2>1, <3>1, <4>3
    <3> QED
      BY <3>2, <3>3 DEF NothingSkipped
  <2>4. CASE newDelayedMessageFetcher
    <3>1. chain' = chain /\ unsure' = {b \in Blocks : b < parentBlockNumber'}
      BY <2>4 DEF newDelayedMessageFetcher, chainVars
    <3>2. \A m \in chain : m.parentBlock \in Blocks
      BY <1>0, MessageFacts DEF TypeOK
    <3> QED
      BY <3>1, <3>2 DEF NothingSkipped
  <2>5. CASE poll
    <3>1. /\ UNCHANGED <<chain, parentBlockNumber>> /\ startBlock' = parentBlockNumber
          /\ unsure' = (unsure \ startBlock'..endBlock') \cup (latest + 1)..endBlock'
      BY <2>5 DEF poll, chainVars
    <3>2. ASSUME NEW m \in chain, m.parentBlock < parentBlockNumber, m.parentBlock \notin unsure'
          PROVE  kept(m)'
      <4>1. m.parentBlock \notin startBlock'..endBlock'
        BY <1>1, <3>1, <3>2
      <4>2. m.parentBlock \notin unsure
        BY <3>1, <3>2, <4>1
      <4> QED
        BY <1>0, <1>1, <2>1, <3>2, <4>2 DEF NothingSkipped
    <3> QED
      BY <3>1, <3>2 DEF NothingSkipped
  <2>6. CASE updateParentBlockNumber
    <3>1. pc = "update" /\ chain' = chain
      BY <2>6 DEF updateParentBlockNumber, chainVars
    <3>2. CASE parentBlockNumber # startBlock
      BY <2>2, <2>6, <3>1, <3>2 DEF updateParentBlockNumber
    <3>3. CASE parentBlockNumber = startBlock
      <4>1. /\ parentBlockNumber' = endBlock + 1
            /\ unsure' = IF overtaken THEN unsure \cup startBlock..endBlock ELSE unsure
        BY <2>6, <3>3 DEF updateParentBlockNumber
      <4>2. ASSUME NEW m \in chain, m.parentBlock < endBlock + 1, m.parentBlock \notin unsure'
            PROVE  kept(m)
        <5>1. m.parentBlock \notin unsure
          BY <4>1, <4>2
        <5>2. CASE m.parentBlock < startBlock
          BY <1>0, <3>3, <5>1, <5>2 DEF NothingSkipped
        <5>3. CASE m.parentBlock >= startBlock
          <6>1. inRange(m) /\ m.parentBlock \in startBlock..endBlock
            BY <1>1, <4>2, <5>3 DEF inRange
          <6>2. ~overtaken
            BY <4>1, <4>2, <6>1
          <6> QED
            BY <1>0, <3>1, <5>1, <6>1, <6>2 DEF ScanInv, scanning
        <5> QED
          BY <1>1, <5>2, <5>3
      <4> QED
        BY <1>1, <2>1, <3>1, <4>1, <4>2 DEF NothingSkipped
    <3> QED
      BY <3>2, <3>3
  <2>7. CASE Cancel \/ runReturns \/ Stop \/ stopReturns \/ UNCHANGED vars
    BY <2>2, <2>7 DEF Cancel, runReturns, Stop, stopReturns, vars, chainVars, cacheVars
  <2>8. CASE latestHeader \/ finalizedHeader \/ startAhead \/ fetchBridgeEvents
             \/ fetchInboxData \/ pollFails
    BY <2>2, <2>8, SMTT(30) DEF latestHeader, finalizedHeader, startAhead, fetchBridgeEvents,
      fetchInboxData, pollFails, chainVars, cacheVars
  <2>9. CASE callStep
    BY <1>5, <2>2, <2>9 DEF callStep, GetDelayedMessage, verifyDelayedMessageOnParentChain,
      ensureFinality, getFails, advanceVerified, advanceOther, passed, chainVars, cacheVars
  <2> QED
    BY <1>5, <2>3, <2>4, <2>5, <2>6, <2>7, <2>8, <2>9 DEF Next, chainStep, scanStep
<1> QED
  BY <1>3, <1>4, <1>5

\* The condition on a scan in flight, in every step.
LEMMA NextScanInv ==
  ASSUME Inv, [Next]_vars
  PROVE  ScanInv'
<1>0. TypeOK /\ ChainInv /\ EntryInv /\ ScanInv /\ RewindInv
  BY DEF Inv
<1>1. /\ parentBlockNumber \in Nat /\ latest \in Nat /\ startBlock \in Nat /\ endBlock \in Nat
      /\ overtaken \in BOOLEAN /\ chain \subseteq Message /\ logs \subseteq Message
      /\ \A m \in chain : m.parentBlock \in Nat
  BY <1>0, MessageFacts, BlocksNatural DEF TypeOK
<1>2. ASSUME logs' = {}, ~scanning' PROVE ScanInv'
  BY <1>2 DEF ScanInv
<1>3. CASE rewind
  BY <1>0, <1>3 DEF rewind, ScanInv
<1>4. CASE extractInboxData
  <2>1. PICK m \in logs :
          /\ delayedMessages' = [delayedMessages EXCEPT ![m.messageIndex] = cached(m, finalizedAt)]
          /\ logs' = logs \ {m} /\ pc' = IF logs' = {} THEN "update" ELSE "extract"
    BY <1>4 DEF extractInboxData
  <2>2. /\ UNCHANGED <<chain, latest, parentBlockNumber, unsure, next, startBlock, endBlock, overtaken>>
        /\ pc = "extract"
    BY <1>4 DEF extractInboxData, chainVars, callVars
  <2>3. CASE overtaken
    BY <2>1, <2>2, <2>3 DEF ScanInv
  <2>4. CASE ~overtaken
    <3>1. /\ parentBlockNumber = startBlock /\ startBlock <= endBlock
          /\ \A b \in startBlock..endBlock : b > latest => b \in unsure
          /\ \A n \in chain : inRange(n) /\ n.parentBlock \notin unsure => n \in logs \/ kept(n)
          /\ \A l \in logs, n \in chain :
               n.messageIndex = l.messageIndex =>
                 n = l \/ n.parentBlock \in unsure \/ n.parentBlock > endBlock
      BY <1>0, <2>2, <2>4 DEF ScanInv, scanning
    <3>2. ASSUME NEW n \in chain, inRange(n), n.parentBlock \notin unsure
          PROVE  n \in logs' \/ kept(n)'
      <4>1. CASE n = m
        BY <1>0, <1>1, <2>1, <2>2, <4>1, KeptExtract
      <4>2. CASE n # m /\ n \in logs
        BY <2>1, <4>2
      <4>3. CASE n # m /\ kept(n)
        <5>1. ~(n.parentBlock > endBlock)
          BY <1>1, <3>2 DEF inRange
        <5>2. n.messageIndex # m.messageIndex
          BY <3>1, <3>2, <4>3, <5>1
        <5> QED
          BY <1>0, <1>1, <2>1, <2>2, <4>3, <5>2, KeptExtract
      <4> QED
        BY <3>1, <3>2, <4>1, <4>2, <4>3
    <3>3. \A n : inRange(n)' <=> inRange(n)
      BY <2>2 DEF inRange
    <3>4. logs' # {} => pc' = "extract"
      BY <2>1
    <3>5. /\ pc' # "inbox"
          /\ pc' = "update" => logs' = {}
      BY <2>1
    <3> QED
      BY <2>1, <2>2, <3>1, <3>2, <3>3, <3>4, <3>5 DEF ScanInv
  <2> QED
    BY <1>1, <2>3, <2>4
<1>5. ASSUME ~rewind, ~extractInboxData PROVE ScanInv'
  <2>1. \A m \in Message : kept(m) => kept(m)'
    BY <1>0, <1>5, KeptStays
  <2>2. ASSUME UNCHANGED <<chain, latest, parentBlockNumber, unsure, pc, scanVars>> PROVE ScanInv'
    <3>1. UNCHANGED <<chain, latest, parentBlockNumber, unsure, pc, startBlock, endBlock, delivered,
                      logs, overtaken>>
      BY <2>2 DEF scanVars
    <3>2. scanning' = scanning /\ \A n : inRange(n)' <=> inRange(n)
      BY <3>1 DEF scanning, inRange
    <3>3. CASE scanning /\ ~overtaken
      <4>1. \A m \in chain : kept(m) => kept(m)'
        BY <1>1, <2>1
      <4> QED
        BY <1>0, <3>1, <3>2, <3>3, <4>1 DEF ScanInv
    <3>4. CASE ~(scanning /\ ~overtaken)
      BY <1>0, <3>1, <3>2, <3>4 DEF ScanInv
    <3> QED
      BY <3>3, <3>4
  <2>3. CASE chainStep
    <3>1. /\ \A m \in chain' :
               m \in chain \/ m.parentBlock > latest \/ m.parentBlock \in unsure'
          /\ chain' \subseteq Message /\ \A m \in chain' : m.parentBlock \in Nat
          /\ unsure \subseteq unsure'
          /\ \A b \in Nat : b > latest' => b > latest \/ b \in unsure'
      BY <1>0, <2>3, ChainMoves, MessageFacts
    <3>2. UNCHANGED <<parentBlockNumber, pc, startBlock, endBlock, delivered, logs, overtaken>>
      BY <2>3 DEF chainStep, parentChainGrows, parentChainReorgs, parentChainFinalizes, cacheVars,
        scanVars
    <3>3. scanning' = scanning /\ \A n : inRange(n)' <=> inRange(n)
      BY <3>2 DEF scanning, inRange
    <3>4. ASSUME scanning, ~overtaken
          PROVE  /\ \A b \in startBlock..endBlock : b > latest' => b \in unsure'
                 /\ \A m \in chain' :
                      m \in chain \/ m.parentBlock \in unsure' \/ m.parentBlock > endBlock
      <4>1. /\ parentBlockNumber = startBlock
            /\ \A b \in startBlock..endBlock : b > latest => b \in unsure
        BY <1>0, <3>4 DEF ScanInv
      <4>2. ASSUME NEW b \in startBlock..endBlock, b > latest' PROVE b \in unsure'
        BY <1>1, <3>1, <4>1, <4>2
      <4>3. ASSUME NEW m \in chain', m.parentBlock > latest, ~(m.parentBlock > endBlock)
            PROVE  m.parentBlock \in unsure'
        <5>1. CASE m.parentBlock < startBlock
          <6>1. m.parentBlock \in 0..parentBlockNumber
            BY <1>1, <3>1, <4>1, <5>1
          <6>2. m.parentBlock \in unsure
            BY <1>0, <1>1, <3>1, <4>1, <4>3, <5>1, <6>1 DEF RewindInv
          <6> QED
            BY <3>1, <6>2
        <5>2. CASE m.parentBlock >= startBlock
          BY <1>1, <3>1, <4>1, <4>3, <5>2
        <5> QED
          BY <1>1, <3>1, <5>1, <5>2
      <4> QED
        BY <3>1, <4>2, <4>3
    <3>5. CASE scanning /\ ~overtaken
      <4>1. \A m \in chain : kept(m) => kept(m)'
        BY <1>1, <2>1
      <4>2. \A m : inRange(m) => ~(m.parentBlock > endBlock) \/ m.parentBlock \notin Nat
        BY <1>1 DEF inRange
      <4>3. ASSUME NEW m \in chain', inRange(m), m.parentBlock \notin unsure'
            PROVE  m \in chain /\ m.parentBlock \notin unsure
        BY <3>1, <3>4, <3>5, <4>2, <4>3
      <4> QED
        BY <1>0, <3>1, <3>2, <3>3, <3>4, <3>5, <4>1, <4>3 DEF ScanInv
    <3>6. CASE ~(scanning /\ ~overtaken)
      BY <1>0, <3>2, <3>3, <3>6 DEF ScanInv
    <3> QED
      BY <3>5, <3>6
  <2>4. CASE newDelayedMessageFetcher \/ runReturns \/ latestHeader \/ finalizedHeader
    <3>1. logs = {} /\ logs' = logs /\ ~scanning'
      BY <1>0, <2>4 DEF newDelayedMessageFetcher, runReturns, latestHeader, finalizedHeader, ScanInv,
        scanning, scanVars
    <3> QED
      BY <1>2, <3>1
  <2>5. CASE startAhead \/ pollFails \/ updateParentBlockNumber
    <3>1. logs' = {} /\ ~scanning'
      BY <2>5 DEF startAhead, pollFails, updateParentBlockNumber, pollReturns, scanning
    <3> QED
      BY <1>2, <3>1
  <2>6. CASE Cancel \/ Stop \/ stopReturns \/ UNCHANGED vars
    BY <2>2, <2>6, SMTT(30) DEF Cancel, Stop, stopReturns, vars, chainVars, cacheVars
  <2>7. CASE callStep
    BY <1>5, <2>2, <2>7 DEF callStep, GetDelayedMessage, verifyDelayedMessageOnParentChain,
      ensureFinality, getFails, advanceVerified, advanceOther, passed, chainVars, cacheVars
  <2>8. CASE poll
    <3>1. /\ logs' = {} /\ pc' = "bridge" /\ latest' = latest
          /\ startBlock' = parentBlockNumber /\ parentBlockNumber' = parentBlockNumber
          /\ unsure' = (unsure \ startBlock'..endBlock') \cup (latest + 1)..endBlock'
      BY <1>0, <2>8 DEF poll, ScanInv, chainVars
    <3>2. startBlock' <= endBlock' /\ endBlock' \in Nat
      BY <1>0, <1>1, <2>8, ScanEndFacts, BlocksNatural DEF poll, TypeOK
    <3>3. ASSUME NEW b \in startBlock'..endBlock', b > latest PROVE b \in unsure'
      <4>1. b \in (latest + 1)..endBlock'
        BY <1>1, <3>1, <3>2, <3>3
      <4> QED
        BY <3>1, <4>1
    <3> QED
      BY <3>1, <3>2, <3>3 DEF ScanInv
  <2>9. CASE fetchBridgeEvents
    <3>1. /\ UNCHANGED <<chain, latest, parentBlockNumber, unsure, startBlock, endBlock, overtaken, logs>>
          /\ pc = "bridge" /\ logs = {} /\ delivered' = {m \in chain : inRange(m)}
          /\ pc' = IF delivered' = {} THEN "update" ELSE "inbox"
      BY <1>0, <2>9 DEF fetchBridgeEvents, ScanInv, chainVars, cacheVars
    <3>2. \A m \in chain : inRange(m) => m \in delivered' /\ pc' = "inbox"
      BY <3>1
    <3>3. \A n : inRange(n)' <=> inRange(n)
      BY <3>1 DEF inRange
    <3> QED
      BY <1>0, <3>1, <3>2, <3>3 DEF ScanInv, scanning
  <2>10. CASE fetchInboxData
    <3>1. /\ UNCHANGED <<chain, latest, parentBlockNumber, unsure, startBlock, endBlock, overtaken>>
          /\ pc = "inbox"
          /\ logs' = {m \in chain :
                        inRange(m) /\ \E e \in delivered : e.messageIndex = m.messageIndex}
          /\ pc' = IF logs' = {} THEN "update" ELSE "extract"
      BY <2>10 DEF fetchInboxData, chainVars, cacheVars
    <3>2. \A m \in chain : inRange(m) /\ m \in delivered => m \in logs' /\ pc' = "extract"
      BY <3>1
    <3>3. \A l \in logs', m \in chain : m.messageIndex = l.messageIndex => m = l
      BY <1>0, <3>1 DEF ChainInv
    <3>4. (logs' # {} => pc' = "extract") /\ pc' \in {"extract", "update"}
      BY <3>1
    <3>5. \A n : inRange(n)' <=> inRange(n)
      BY <3>1 DEF inRange
    <3>6. ASSUME ~overtaken
          PROVE  /\ parentBlockNumber = startBlock /\ startBlock <= endBlock
                 /\ \A b \in startBlock..endBlock : b > latest => b \in unsure
                 /\ \A m \in chain : inRange(m) /\ m.parentBlock \notin unsure => m \in delivered
      BY <1>0, <3>1, <3>6 DEF ScanInv, scanning
    <3> QED
      BY <3>1, <3>2, <3>3, <3>4, <3>5, <3>6, SMTT(30) DEF ScanInv
  <2> QED
    BY <1>5, <2>3, <2>4, <2>5, <2>6, <2>7, <2>8, <2>9, <2>10 DEF Next, chainStep, scanStep
<1> QED
  BY <1>3, <1>4, <1>5

\* The inductive invariant of poll, GetDelayedMessage, rewind and Advance holds in
\* every reachable state.
THEOREM InvHolds == Spec => []Inv
<1>1. Inv /\ [Next]_vars => Inv'
  <2> SUFFICES ASSUME Inv, [Next]_vars PROVE Inv'
    OBVIOUS
  <2>1. TypeOK /\ ChainInv /\ EntryInv /\ ScanInv /\ RewindInv
    BY DEF Inv
  <2>2. TypeOK' /\ ChainInv'
    BY <2>1, NextTypeOK, NextChainInv
  <2>3. EntryInv' /\ RewindInv'
    BY <2>1, NextEntryInv, NextRewindInv
  <2>4. ScanInv' /\ NothingSkipped'
    BY NextScanInv, NextNothingSkipped
  <2> QED
    BY <2>2, <2>3, <2>4 DEF Inv
<1> QED
  BY <1>1, InitInv, PTL DEF Spec

\* A step of the parent chain keeps a message that is on it, but for a reorganisation
\* of its block.
LEMMA OnChainStays ==
  ASSUME TypeOK, ChainInv, chainStep, NEW e \in delayedMessage, onChain(e),
         \/ e.parentBlock <= finalized
         \/ ~\E r \in Blocks : r <= e.parentBlock /\ r <= latest /\ finalized < r /\ latest' = r
                               /\ parentChainReorgs
  PROVE  onChain(e)'
<1>1. PICK m \in chain :
        m.messageIndex = e.messageIndex /\ m.parentBlock = e.parentBlock /\ m.data = e.data
  BY DEF onChain
<1>2. m.parentBlock \in Nat /\ e.parentBlock \in Nat /\ finalized \in Nat
  BY MessageFacts, CachedFacts, BlocksNatural DEF TypeOK
<1>3. m \in chain'
  <2>1. CASE e.parentBlock <= finalized
    BY <1>1, <1>2, <2>1, ChainMoves
  <2>2. CASE parentChainGrows \/ parentChainFinalizes
    BY <2>2 DEF parentChainGrows, parentChainFinalizes
  <2>3. CASE parentChainReorgs /\ ~(e.parentBlock <= finalized)
    <3>1. PICK r \in Blocks :
            /\ finalized < r /\ r <= latest
            /\ {n \in chain : n.parentBlock < r} \subseteq chain'
            /\ latest' = r
      BY <2>3 DEF parentChainReorgs
    <3>2. r \in Nat
      BY BlocksNatural
    <3>3. ~(r <= e.parentBlock)
      BY <2>3, <3>1
    <3> QED
      BY <1>1, <1>2, <3>1, <3>2, <3>3
  <2> QED
    BY <2>1, <2>2, <2>3 DEF chainStep
<1> QED
  BY <1>1, <1>3 DEF onChain

\* What was asked for is on the chain until its block is reorganised, and when its
\* block is final it stays.
LEMMA NextAnswerInv ==
  ASSUME Inv, AnswerInv, AnswerIsFinal, [Next]_vars
  PROVE  AnswerInv' /\ AnswerIsFinal'
<1>0. /\ TypeOK /\ ChainInv
      /\ at \in {"check", "finality", "answered"} => asked \in delayedMessage
  BY SMTT(30) DEF Inv, EntryInv, TypeOK
<1>1. CASE chainStep
  <2>1. UNCHANGED <<at, asked>> /\ (window => window')
    <3>1. UNCHANGED <<at, asked>>
      BY <1>1 DEF chainStep, parentChainGrows, parentChainReorgs, parentChainFinalizes, callVars
    <3>2. CASE parentChainReorgs
      BY <3>1, <3>2 DEF parentChainReorgs
    <3>3. CASE ~parentChainReorgs
      <4>1. window' = window
        BY <1>1, <3>3 DEF chainStep, parentChainGrows, parentChainFinalizes, callVars
      <4> QED
        BY <3>1, <4>1
    <3> QED
      BY <3>2, <3>3
  <2>2. ASSUME at = "finality", ~window' PROVE onChain(asked)'
    <3>1. onChain(asked)
      BY <2>1, <2>2 DEF AnswerInv
    <3>2. ASSUME NEW r \in Blocks, r <= asked.parentBlock, latest' = r, parentChainReorgs PROVE FALSE
      BY <2>2, <3>2 DEF parentChainReorgs
    <3>3. PICK e \in delayedMessage : e = asked /\ e = asked'
      BY <1>0, <2>1, <2>2
    <3>4. onChain(e)
      BY <3>1, <3>3
    <3>5. onChain(e)'
      BY <1>0, <1>1, <3>2, <3>3, <3>4, OnChainStays
    <3> QED
      BY <3>3, <3>5 DEF onChain
  <2>3. ASSUME waitForFinality, at = "answered"
        PROVE  asked.parentBlock <= finalized' /\ (~window' => onChain(asked)')
    <3>1. asked.parentBlock <= finalized
      BY <2>3 DEF AnswerInv
    <3>2. /\ asked.parentBlock \in Nat /\ finalized \in Nat /\ finalized' \in Nat
          /\ finalized <= finalized'
      BY <1>0, <1>1, <2>3, CachedFacts, ChainMoves, BlocksNatural DEF TypeOK
    <3>3. ~window' => onChain(asked)
      BY <2>1, <2>3 DEF AnswerIsFinal
    <3>4. asked.parentBlock <= finalized'
      BY <3>1, <3>2
    <3>5. PICK e \in delayedMessage : e = asked /\ e = asked'
      BY <1>0, <2>1, <2>3
    <3>6. ASSUME ~window' PROVE onChain(asked)'
      <4>1. onChain(e)
        BY <3>3, <3>5, <3>6
      <4>2. onChain(e)'
        BY <1>0, <1>1, <3>1, <3>5, <4>1, OnChainStays
      <4> QED
        BY <3>5, <4>2 DEF onChain
    <3> QED
      BY <3>4, <3>6
  <2> QED
    BY <2>1, <2>2, <2>3 DEF AnswerInv, AnswerIsFinal, onChain
<1>2. CASE ~chainStep
  <2>1. UNCHANGED <<chain, finalized>>
    BY <1>2, ChainStays DEF chainVars
  <2>2. \/ UNCHANGED <<at, asked, window>>
        \/ at' \notin {"finality", "answered"}
        \/ verifyDelayedMessageOnParentChain
        \/ ensureFinality
    <3>1. CASE scanStep
      BY <3>1, SMTT(30) DEF scanStep, latestHeader, finalizedHeader, startAhead, poll, fetchBridgeEvents,
        fetchInboxData, extractInboxData, pollFails, updateParentBlockNumber, callVars
    <3>2. CASE callStep
      BY <3>2 DEF callStep, GetDelayedMessage, rewind, getFails, advanceVerified, advanceOther, passed,
        callVars
    <3>3. CASE newDelayedMessageFetcher \/ Cancel \/ runReturns \/ Stop \/ stopReturns \/ UNCHANGED vars
      BY <3>3, SMTT(30) DEF newDelayedMessageFetcher, Cancel, runReturns, Stop, stopReturns, vars, callVars
    <3> QED
      BY <1>2, <3>1, <3>2, <3>3, SMTT(30) DEF Next, chainStep
  <2>3. CASE UNCHANGED <<at, asked, window>>
    BY <2>1, <2>3 DEF AnswerInv, AnswerIsFinal, onChain
  <2>4. CASE at' \notin {"finality", "answered"}
    BY <2>4 DEF AnswerInv, AnswerIsFinal
  <2>5. CASE verifyDelayedMessageOnParentChain
    <3>1. UNCHANGED <<asked, window>>
            /\ at' = IF ~onChain(asked) THEN "rewind" ELSE IF waitForFinality THEN "finality" ELSE "answered"
      BY <2>5 DEF verifyDelayedMessageOnParentChain
    <3>2. onChain(asked)' <=> onChain(asked)
      BY <2>1, <3>1 DEF onChain
    <3> QED
      BY <3>1, <3>2 DEF AnswerInv, AnswerIsFinal
  <2>6. CASE ensureFinality
    <3>1. at = "finality" /\ at' = "answered" /\ UNCHANGED <<asked, window>> /\ asked.parentBlock <= finalized
      BY <2>6 DEF ensureFinality
    <3>2. onChain(asked)' <=> onChain(asked)
      BY <2>1, <3>1 DEF onChain
    <3> QED
      BY <2>1, <3>1, <3>2 DEF AnswerInv, AnswerIsFinal
  <2> QED
    BY <2>2, <2>3, <2>4, <2>5, <2>6
<1> QED
  BY <1>1, <1>2

\* With waitForFinality, what GetDelayedMessage returns is on the parent chain and
\* no later reorganisation takes it away, unless its block was reorganised between
\* the two calls.
THEOREM AnswerStaysFinal == Spec => []AnswerIsFinal
<1>1. Init => AnswerInv /\ AnswerIsFinal
  BY DEF Init, AnswerInv, AnswerIsFinal
<1>2. Inv /\ AnswerInv /\ AnswerIsFinal /\ [Next]_vars => AnswerInv' /\ AnswerIsFinal'
  BY NextAnswerInv
<1> QED
  BY <1>1, <1>2, InvHolds, PTL DEF Spec

\* The fetcher's state keeps its type: every scan ends at a block of the chain.
THEOREM TypeCorrect == Spec => []TypeOK
<1>1. Inv => TypeOK
  BY DEF Inv
<1> QED
  BY <1>1, InvHolds, PTL

\* The scan leaves no delayed message behind, whatever the parent chain, failing
\* calls, rewinds and the verifier's Advance do in between.
THEOREM NothingIsSkipped == Spec => []NothingSkipped
<1>1. Inv => NothingSkipped
  BY DEF Inv
<1> QED
  BY <1>1, InvHolds, PTL
=============================================================================
