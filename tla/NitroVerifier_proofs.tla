------------------------ MODULE NitroVerifier_proofs ------------------------
(***************************************************************************)
(* The invariant of the Nitro verifier, for every set of positions and     *)
(* contents, every choice of delayed messages and every assignment of      *)
(* messages to HotShot blocks, in the order of their positions or not.     *)
(***************************************************************************)
EXTENDS NitroVerifier, EspressoStore_proofs

\* Every step of the verifier and its environment is a step of the store or
\* leaves the store alone: the verifier is the store's only writer.
LEMMA StepIsStoreStep == TypeOK /\ ProgressInv /\ [Next]_vars => [StoreNext]_storeVars
<1> SUFFICES ASSUME TypeOK, ProgressInv, [Next]_vars PROVE [StoreNext]_storeVars
  OBVIOUS
<1> USE DEF StoreNext
<1>1. CASE syncEspressoStateWithNitroFinality
  BY <1>1 DEF syncEspressoStateWithNitroFinality, GetCurrentEarliestHotShotBlockNumber, TypeOK
<1>2. CASE verifyAndAdvance
  <2>1. verifiedPos \in Numbers /\ Height[verifiedPos] \in streamerHeights
    <3>1. state.L2BlockNumber \in Nat
      BY DEF TypeOK, StoreTypeOK, EspressoState
    <3>2. verifiedPos # 0
      BY <1>2, <3>1 DEF verifyAndAdvance
    <3> QED
      BY <3>2, NitroConstants DEF TypeOK, ProgressInv, streamerHeights
  <2> QED
    BY <1>2, <2>1 DEF verifyAndAdvance
<1>3. CASE NewNitroEspressoBatchVerifier
  BY <1>3, NitroConstants DEF NewNitroEspressoBatchVerifier, NewEspressoStore
<1>4. CASE clientRequest \/ processEnds \/ runReturns
  BY <1>4 DEF clientRequest, processEnds, runReturns
<1>5. CASE synced \/ saved \/ storeWrites \/ storeWriteFails
  BY <1>5 DEF synced, saved, storeWrites, storeWriteFails
<1>6. CASE hotshotFinalizes \/ parentChainReorgs \/ nodeFinalizes \/ Cancel \/ poll
  BY <1>6 DEF hotshotFinalizes, parentChainReorgs, nodeFinalizes, Cancel, poll
<1>7. CASE \E p \in Positions, c \in Contents : feedSends(p, c)
  BY <1>7 DEF feedSends
<1>8. CASE tick \/ verified \/ delayedMismatch \/ drained \/ drainCancelled
  BY <1>8 DEF tick, verified, delayedMismatch, drained, drainCancelled
<1>9. CASE nothingToSync \/ nothingToSave \/ notGreater \/ feedAdvances \/ UNCHANGED vars
  BY <1>9 DEF nothingToSync, nothingToSave, notGreater, feedAdvances, vars
<1> QED
  BY <1>1, <1>2, <1>3, <1>4, <1>5, <1>6, <1>7, <1>8, <1>9 DEF Next, verifierStep

\* The initial states satisfy the invariant.
LEMMA InitInv == Init => Inv
<1> SUFFICES ASSUME Init PROVE Inv
  OBVIOUS
<1>1. StoreInv
  BY StoreInitInv DEF Init
<1>2. durableNumber = 0 /\ call.at = "none" /\ process = "down"
  BY NoCallFacts DEF Init, StoreInit, durableNumber
<1>3. TypeOK
  BY <1>1, NitroConstants DEF StoreInv, Init, TypeOK, FeedTypeOK, noData
<1>4. NoGap /\ FeedAcceptsWhatIsNext
  BY <1>2 DEF NoGap, FeedAcceptsWhatIsNext
<1>5. HistoryInv
  BY DEF HistoryInv, Init, noData
<1>6. ControlInv /\ ProgressInv
  BY <1>2 DEF ControlInv, ProgressInv, Init
<1> QED
  BY <1>1, <1>3, <1>4, <1>5, <1>6 DEF Inv

\* The type of the verifier and its environment, in every step.
LEMMA NextTypeOK ==
  ASSUME TypeOK, StoreTypeOK', [Next]_vars
  PROVE  TypeOK'
<1> USE NitroConstants, NumbersNatural, PositionsNatural
    DEF TypeOK, FeedTypeOK, envVars, feedVars, verifierVars
<1>1. CASE hotshotFinalizes
  BY <1>1 DEF hotshotFinalizes
<1>2. CASE parentChainReorgs
  BY <1>2 DEF parentChainReorgs
<1>3. CASE nodeFinalizes
  BY <1>3 DEF nodeFinalizes
<1>4. ASSUME NEW p \in Positions, NEW c \in Contents, feedSends(p, c) PROVE TypeOK'
  BY <1>4 DEF feedSends, readMessages
<1>5. CASE NewNitroEspressoBatchVerifier
  <2>1. state'.L2BlockNumber \in Nat /\ state'.FallbackHotshotHeight \in Nat
    BY DEF StoreTypeOK, EspressoState
  <2> QED
    BY <1>5, <2>1 DEF NewNitroEspressoBatchVerifier, NewFeedClient
<1>6. CASE processEnds \/ runReturns
  BY <1>6 DEF runReturns, processEnds, NewFeedClient, noData
<1>7. CASE poll \/ clientRequest \/ Cancel \/ UNCHANGED vars
  BY <1>7 DEF poll, clientRequest, Cancel, vars
<1>8. CASE verified
  <2>1. FeedTypeOK'
    BY <1>8 DEF verified, Advance
  <2>2. l2Msg' \in [Delayed -> Contents \cup {NoMessage}]
    BY <1>8 DEF verified, filled
  <2> QED
    BY <1>8, <2>1, <2>2 DEF verified, Peek
<1>9. CASE delayedMismatch
  BY <1>9 DEF delayedMismatch, filled
<1>10. CASE tick \/ drained \/ drainCancelled \/ nothingToSync \/ nothingToSave
  BY <1>10 DEF tick, drained, drainCancelled, nothingToSync, nothingToSave
<1>11. CASE syncEspressoStateWithNitroFinality \/ verifyAndAdvance
  BY <1>11 DEF syncEspressoStateWithNitroFinality, verifyAndAdvance
<1>12. CASE synced
  <2>1. finalizedBlock + 1 \in Nat
    OBVIOUS
  <2> QED
    BY <1>12, <2>1 DEF synced, advanceTo
<1>13. CASE notGreater
  <2>1. state.L2BlockNumber \in Nat
    BY DEF StoreTypeOK, EspressoState
  <2> QED
    BY <1>13, <2>1 DEF notGreater, advanceTo
<1>14. CASE saved \/ storeWrites \/ storeWriteFails
  BY <1>14 DEF saved, storeWrites, storeWriteFails
<1>15. CASE feedAdvances
  BY <1>15 DEF feedAdvances, AdvanceTo
<1> QED
  BY <1>1, <1>2, <1>3, <1>4, <1>5, <1>6, <1>7, <1>8, <1>9, <1>10, <1>11, <1>12, <1>13, <1>14, <1>15
  DEF Next, verifierStep

\* The environment only adds to the histories and to what is final.
LEMMA NextGrows ==
  ASSUME TypeOK, [Next]_vars
  PROVE  /\ confirmed \subseteq confirmed'
         /\ broadcast \subseteq broadcast'
         /\ delivered \subseteq delivered'
         /\ nitroFinalized <= nitroFinalized'
<1>1. nitroFinalized \in Nat /\ \A p \in Positions : p \in Nat
  BY NitroConstants, NumbersNatural, PositionsNatural DEF TypeOK
<1> USE <1>1 DEF envVars
<1>2. CASE hotshotFinalizes
  BY <1>2 DEF hotshotFinalizes
<1>3. CASE parentChainReorgs
  BY <1>3 DEF parentChainReorgs
<1>4. CASE nodeFinalizes
  BY <1>4 DEF nodeFinalizes
<1>5. CASE \E p \in Positions, c \in Contents : feedSends(p, c)
  BY <1>5 DEF feedSends
<1>6. CASE clientRequest \/ NewNitroEspressoBatchVerifier \/ processEnds \/ Cancel \/ runReturns
  BY <1>6 DEF clientRequest, NewNitroEspressoBatchVerifier, processEnds, Cancel, runReturns
<1>7. CASE poll \/ tick \/ verified \/ delayedMismatch \/ drained \/ drainCancelled
  BY <1>7 DEF poll, tick, verified, delayedMismatch, drained, drainCancelled
<1>8. CASE syncEspressoStateWithNitroFinality \/ nothingToSync \/ synced \/ nothingToSave
  BY <1>8 DEF syncEspressoStateWithNitroFinality, nothingToSync, synced, nothingToSave
<1>9. CASE verifyAndAdvance \/ notGreater \/ feedAdvances \/ saved \/ storeWrites \/ storeWriteFails
  BY <1>9 DEF verifyAndAdvance, notGreater, feedAdvances, saved, storeWrites, storeWriteFails
<1>10. CASE UNCHANGED vars
  BY <1>10 DEF vars
<1> QED
  BY <1>2, <1>3, <1>4, <1>5, <1>6, <1>7, <1>8, <1>9, <1>10 DEF Next, verifierStep

\* What is backed stays backed.
LEMMA BackedForGood ==
  ASSUME TypeOK, TypeOK', [Next]_vars, NEW p \in Nat, backed(p)
  PROVE  backed(p)'
<1>1. nitroFinalized \in Nat /\ nitroFinalized' \in Nat
  BY NumbersNatural DEF TypeOK
<1> QED
  BY <1>1, NextGrows DEF backed, matched

\* Where what is compared came from, in every step.
LEMMA NextHistory ==
  ASSUME TypeOK, TypeOK', HistoryInv, [Next]_vars
  PROVE  HistoryInv'
<1>1. nitroFinalized \in Nat /\ nitroFinalized' \in Nat /\ snapshot \in Nat /\ finalizedBlock \in Nat
  BY NumbersNatural DEF TypeOK
<1>2. /\ broadcast \subseteq broadcast' /\ delivered \subseteq delivered'
      /\ nitroFinalized <= nitroFinalized'
  BY NextGrows
<1> USE <1>1, <1>2, NoMessageIsNoContent DEF HistoryInv, envVars, feedVars, verifierVars
<1>3. CASE parentChainReorgs
  BY <1>3 DEF parentChainReorgs, TypeOK
<1>4. CASE hotshotFinalizes \/ nodeFinalizes
  BY <1>4 DEF hotshotFinalizes, nodeFinalizes
<1>5. ASSUME NEW p \in Positions, NEW c \in Contents, feedSends(p, c) PROVE HistoryInv'
  BY <1>5 DEF feedSends, readMessages, TypeOK, FeedTypeOK
<1>6. CASE NewNitroEspressoBatchVerifier
  BY <1>6 DEF NewNitroEspressoBatchVerifier, NewFeedClient
<1>7. CASE processEnds \/ runReturns
  <2>1. processEnds
    BY <1>7 DEF runReturns
  <2>2. \A p \in Delayed : l2Msg'[p] = NoMessage
    BY <2>1 DEF processEnds, noData
  <2>3. \A p \in Positions : messages'[p] = NoMessage
    BY <2>1 DEF processEnds, NewFeedClient
  <2>4. snapshot' <= nitroFinalized' /\ finalizedBlock' <= nitroFinalized'
    BY <2>1 DEF processEnds
  <2>5. \A p \in Delayed : <<p, inbox'[p]>> \in delivered'
    BY <2>1 DEF processEnds
  <2> QED
    BY <2>2, <2>3, <2>4, <2>5
<1>8. CASE poll \/ clientRequest \/ Cancel \/ UNCHANGED vars
  BY <1>8 DEF poll, clientRequest, Cancel, vars
<1>9. CASE verified
  BY <1>9 DEF verified, Advance, filled, TypeOK
<1>10. CASE delayedMismatch
  BY <1>10 DEF delayedMismatch, filled, TypeOK
<1>11. CASE tick \/ drained \/ drainCancelled \/ nothingToSync \/ nothingToSave
  BY <1>11 DEF tick, drained, drainCancelled, nothingToSync, nothingToSave
<1>12. CASE syncEspressoStateWithNitroFinality \/ verifyAndAdvance
  BY <1>12 DEF syncEspressoStateWithNitroFinality, verifyAndAdvance
<1>13. CASE synced \/ notGreater \/ feedAdvances
  BY <1>13 DEF synced, notGreater, feedAdvances, advanceTo, AdvanceTo
<1>14. CASE saved \/ storeWrites \/ storeWriteFails
  BY <1>14 DEF saved, storeWrites, storeWriteFails
<1> QED
  BY <1>3, <1>4, <1>5, <1>6, <1>7, <1>8, <1>9, <1>10, <1>11, <1>12, <1>13, <1>14
  DEF Next, verifierStep

\* Where the goroutine is and which call it has made, in every step; and the
\* feed client stays at or behind the streamer.
LEMMA NextControl ==
  ASSUME Inv, [Next]_vars
  PROVE  ControlInv' /\ FeedAcceptsWhatIsNext'
<1>1. state.L2BlockNumber \in Nat /\ nextSeqNum \in Nat /\ streamPos \in Nat /\ finalizedBlock \in Nat
  BY NumbersNatural DEF Inv, TypeOK, FeedTypeOK, StoreTypeOK, EspressoState
<1> USE <1>1, NoCallFacts
    DEF Inv, ControlInv, FeedAcceptsWhatIsNext, advancing, envVars, feedVars, verifierVars
<1>2. CASE hotshotFinalizes \/ parentChainReorgs \/ nodeFinalizes \/ Cancel \/ poll
  BY <1>2 DEF hotshotFinalizes, parentChainReorgs, nodeFinalizes, Cancel, poll, storeVars
<1>3. ASSUME NEW p \in Positions, NEW c \in Contents, feedSends(p, c)
      PROVE  ControlInv' /\ FeedAcceptsWhatIsNext'
  BY <1>3 DEF feedSends, readMessages, storeVars
<1>4. CASE NewNitroEspressoBatchVerifier
  <2>1. state'.L2BlockNumber \in Nat
    BY StepIsStoreStep, StoreNextInv DEF StoreInv, StoreTypeOK, EspressoState
  <2> QED
    BY <1>4, <2>1 DEF NewNitroEspressoBatchVerifier, CreateFile, loadFromDisk, NewFeedClient
<1>5. CASE processEnds \/ runReturns
  BY <1>5 DEF runReturns, processEnds, Crash
<1>6. CASE verified
  BY <1>6 DEF verified, draining, Advance, storeVars
<1>7. CASE tick \/ delayedMismatch \/ drained \/ drainCancelled
  BY <1>7 DEF tick, delayedMismatch, drained, draining, drainCancelled, storeVars
<1>8. CASE nothingToSync \/ nothingToSave
  BY <1>8 DEF nothingToSync, nothingToSave, storeVars
<1>9. CASE syncEspressoStateWithNitroFinality
  BY <1>9 DEF syncEspressoStateWithNitroFinality, UpdateIfGreater
<1>10. CASE verifyAndAdvance
  BY <1>10 DEF verifyAndAdvance, UpdateIfGreater
<1>11. CASE synced
  BY <1>11 DEF synced, publish, advanceTo
<1>12. CASE notGreater \/ feedAdvances
  BY <1>12 DEF notGreater, feedAdvances, advanceTo, AdvanceTo, storeVars
<1>13. CASE saved
  BY <1>13 DEF saved, publish
<1>14. CASE storeWrites
  BY <1>14 DEF storeWrites, writeToDisk, StoreInv, StoreTypeOK
<1>15. CASE storeWriteFails
  BY <1>15 DEF storeWriteFails, writeFails
<1>16. CASE clientRequest \/ UNCHANGED vars
  BY <1>16 DEF clientRequest, InterceptRequest, vars, storeVars
<1> QED
  BY <1>2, <1>3, <1>4, <1>5, <1>6, <1>7, <1>8, <1>9, <1>10, <1>11, <1>12, <1>13, <1>14, <1>15,
     <1>16
  DEF Next, verifierStep

\* The durable number is that of the state in memory or of the call that wrote it.
LEMMA StateIsDurable == StoreInv => state.L2BlockNumber \in Nat /\ 1..state.L2BlockNumber \subseteq 1..durableNumber
  BY DEF StoreInv, StoreTypeOK, EspressoState, NeverAheadOfDisk, durableNumber

\* The message that one iteration of the drain verified is backed.
LEMMA VerifiedIsBacked ==
  ASSUME TypeOK, HistoryInv, verified
  PROVE  backed(streamPos)
<1>1. /\ streamPos \in confirmed
      /\ streamPos \in Positions
      /\ messages[streamPos] # NoMessage
      /\ messages[streamPos] = espressoContent(streamPos)
  BY DEF verified, Peek, messagesMatch, GetMessage, TypeOK
<1>2. <<streamPos, messages[streamPos]>> \in broadcast /\ messages[streamPos] \in Contents
  BY <1>1 DEF HistoryInv, TypeOK, FeedTypeOK
<1>3. CASE streamPos \in Delayed
  <2>1. <<streamPos, filled(streamPos)[streamPos]>> \in delivered
    <3>1. CASE needsData(streamPos)
      BY <1>3, <3>1 DEF filled, HistoryInv, TypeOK
    <3>2. CASE ~needsData(streamPos)
      BY <1>3, <3>2 DEF filled, needsData, HistoryInv
    <3> QED
      BY <3>1, <3>2
  <2> QED
    BY <1>1, <1>2, <1>3, <2>1 DEF espressoContent, backed, matched
<1>4. CASE streamPos \notin Delayed
  BY <1>1, <1>2, <1>4 DEF espressoContent, backed, matched
<1> QED
  BY <1>3, <1>4

\* Everything behind the streamer and everything to be saved stays backed.
LEMMA NextProgress ==
  ASSUME Inv, TypeOK', [Next]_vars
  PROVE  ProgressInv'
<1>1. \A p \in Nat : backed(p) => backed(p)'
  BY BackedForGood DEF Inv
<1>2. /\ state.L2BlockNumber \in Nat
      /\ \A p \in 1..state.L2BlockNumber : backed(p)
  BY StateIsDurable DEF Inv, NoGap
<1>3. streamPos \in Nat /\ verifiedPos \in Nat /\ finalizedBlock \in Nat /\ nitroFinalized \in Nat
  BY NitroConstants, NumbersNatural, PositionsNatural DEF Inv, TypeOK
<1> USE <1>1, <1>2, <1>3 DEF Inv, ProgressInv, ControlInv, envVars, verifierVars
<1>4. CASE UNCHANGED <<process, startHeight, streamPos, verifiedPos>>
  BY <1>4
<1>5. CASE NewNitroEspressoBatchVerifier
  <2>1. streamPos' = state'.L2BlockNumber + 1 /\ verifiedPos' = 0
    BY <1>5 DEF NewNitroEspressoBatchVerifier, CreateFile, loadFromDisk
  <2>2. StoreInv' /\ durableNumber' \in Nat
    BY StepIsStoreStep, StoreNextInv
    DEF StoreInv, StoreTypeOK, EspressoState, durableNumber
  <2>3. state'.L2BlockNumber \in Nat /\ state'.L2BlockNumber \in {0, durableNumber}
    BY <1>5 DEF NewNitroEspressoBatchVerifier, CreateFile, loadFromDisk, durableNumber, StoreInv,
                StoreTypeOK, EspressoState
  <2> QED
    BY <2>1, <2>3 DEF NoGap
<1>6. CASE processEnds \/ runReturns
  BY <1>6 DEF runReturns, processEnds, Crash
<1>7. CASE verified
  <2>1. /\ streamPos' = streamPos + 1 /\ verifiedPos' = streamPos /\ process = "up"
        /\ UNCHANGED <<process, startHeight>> /\ Height[streamPos] >= startHeight
    BY <1>7 DEF verified, Peek, draining, StoreInv, StoreTypeOK, storeVars
  <2>2. \A p \in 1..streamPos : backed(p)
    BY <1>7, <2>1, VerifiedIsBacked
  <2> QED
    BY <2>1, <2>2
<1>8. CASE synced
  <2>1. streamPos' = finalizedBlock + 1 /\ UNCHANGED <<verifiedPos, startHeight>>
    BY <1>8 DEF synced, advanceTo, publish
  <2>2. \A p \in 1..finalizedBlock : backed(p)
    BY DEF HistoryInv, backed
  <2> QED
    BY <2>1, <2>2
<1>9. CASE notGreater
  <2>1. streamPos' = state.L2BlockNumber + 1 /\ verifiedPos' = 0
    BY <1>9 DEF notGreater, advanceTo
  <2> QED
    BY <2>1
<1>10. CASE drainCancelled \/ saved \/ storeWriteFails
  BY <1>10 DEF drainCancelled, saved, publish, storeWriteFails, writeFails, storeVars
<1>11. ASSUME NEW p \in Positions, NEW c \in Contents, feedSends(p, c) PROVE ProgressInv'
  BY <1>4, <1>11 DEF feedSends, storeVars
<1>12. CASE hotshotFinalizes \/ parentChainReorgs \/ nodeFinalizes \/ Cancel \/ poll
  BY <1>4, <1>12 DEF hotshotFinalizes, parentChainReorgs, nodeFinalizes, Cancel, poll, storeVars
<1>13. CASE tick \/ delayedMismatch \/ drained \/ nothingToSync \/ nothingToSave \/ feedAdvances
  BY <1>4, <1>13 DEF tick, delayedMismatch, drained, nothingToSync, nothingToSave, feedAdvances,
                     storeVars
<1>14. CASE syncEspressoStateWithNitroFinality \/ verifyAndAdvance
  BY <1>4, <1>14 DEF syncEspressoStateWithNitroFinality, verifyAndAdvance, UpdateIfGreater
<1>15. CASE storeWrites \/ clientRequest \/ UNCHANGED vars
  BY <1>4, <1>15 DEF storeWrites, writeToDisk, clientRequest, InterceptRequest, vars, storeVars
<1> QED
  BY <1>5, <1>6, <1>7, <1>8, <1>9, <1>10, <1>11, <1>12, <1>13, <1>14, <1>15 DEF Next, verifierStep

\* The file changes in a write and when it is created, and in no other step.
LEMMA DiskSteps ==
  ASSUME [Next]_vars, ~storeWrites, ~NewNitroEspressoBatchVerifier
  PROVE  UNCHANGED disk
<1>1. CASE syncEspressoStateWithNitroFinality \/ verifyAndAdvance
  BY <1>1 DEF syncEspressoStateWithNitroFinality, verifyAndAdvance, UpdateIfGreater
<1>2. CASE synced \/ saved \/ storeWriteFails \/ clientRequest \/ processEnds \/ runReturns
  BY <1>2 DEF synced, saved, storeWriteFails, clientRequest, processEnds, runReturns, publish,
              writeFails, InterceptRequest, Crash
<1>3. CASE hotshotFinalizes \/ parentChainReorgs \/ nodeFinalizes \/ Cancel \/ poll
  BY <1>3 DEF hotshotFinalizes, parentChainReorgs, nodeFinalizes, Cancel, poll, storeVars
<1>4. CASE \E p \in Positions, c \in Contents : feedSends(p, c)
  BY <1>4 DEF feedSends, storeVars
<1>5. CASE tick \/ verified \/ delayedMismatch \/ drained \/ drainCancelled
  BY <1>5 DEF tick, verified, delayedMismatch, drained, drainCancelled, storeVars
<1>6. CASE nothingToSync \/ nothingToSave \/ notGreater \/ feedAdvances \/ UNCHANGED vars
  BY <1>6 DEF nothingToSync, nothingToSave, notGreater, feedAdvances, storeVars, vars
<1> QED
  BY <1>1, <1>2, <1>3, <1>4, <1>5, <1>6 DEF Next, verifierStep

\* What a write makes durable is backed.
LEMMA NextNoGap ==
  ASSUME Inv, TypeOK', [Next]_vars
  PROVE  NoGap'
<1>1. \A p \in Nat : backed(p) => backed(p)'
  BY BackedForGood DEF Inv
<1>2. CASE UNCHANGED disk
  BY <1>1, <1>2 DEF Inv, NoGap, durableNumber
<1>3. CASE storeWrites
  <2>1. call.at = "write" /\ disk' = call.newState
    BY <1>3 DEF storeWrites, writeToDisk
  <2>2. durableNumber' = call.newState.L2BlockNumber
    BY <2>1, NoFileIsNoState DEF durableNumber, Inv, StoreInv, StoreTypeOK
  <2>3. CASE pc = "syncing"
    <3>1. finalizedBlock \in Nat /\ nitroFinalized \in Nat
      BY NumbersNatural DEF Inv, TypeOK
    <3>2. \A p \in 1..finalizedBlock : backed(p)
      BY <3>1 DEF Inv, HistoryInv, backed
    <3> QED
      BY <1>1, <2>2, <2>3, <3>2 DEF Inv, ControlInv, NoGap
  <2>4. CASE pc = "saving"
    BY <1>1, <2>2, <2>4 DEF Inv, ControlInv, ProgressInv, NoGap
  <2> QED
    BY <2>1, <2>3, <2>4 DEF Inv, ControlInv
<1>4. CASE NewNitroEspressoBatchVerifier
  <2>1. CASE CreateFile(InitialHeight)
    <3>1. durableNumber' = 0
      BY <2>1 DEF CreateFile, durableNumber
    <3> QED
      BY <3>1 DEF NoGap
  <2>2. CASE loadFromDisk
    BY <1>2, <2>2 DEF loadFromDisk
  <2> QED
    BY <1>4, <2>1, <2>2 DEF NewNitroEspressoBatchVerifier
<1> QED
  BY <1>2, <1>3, <1>4, DiskSteps

\* Every step preserves the invariant.
LEMMA NextInv == Inv /\ [Next]_vars => Inv'
<1> SUFFICES ASSUME Inv, [Next]_vars PROVE Inv'
  OBVIOUS
<1>1. StoreInv'
  BY StepIsStoreStep, StoreNextInv DEF Inv
<1>2. TypeOK'
  BY <1>1, NextTypeOK DEF Inv, StoreInv
<1>3. HistoryInv'
  BY <1>2, NextHistory DEF Inv
<1> QED
  BY <1>1, <1>2, <1>3, NextControl, NextProgress, NextNoGap DEF Inv

\* Type correctness of the verifier, the feed client and their environment.
THEOREM TypeCorrect == Spec => []TypeOK
  BY InitInv, NextInv, PTL DEF Spec, Inv

\* For every interleaving, every parent-chain reorganisation and every crash:
\* each position up to the durable number is final for the node, or the feed
\* sent what Espresso finalized (or the parent chain held) at it.
THEOREM DurableIsBacked == Spec => []NoGap
  BY InitInv, NextInv, PTL DEF Spec, Inv

\* The feed client drops, as old, no message that has yet to be verified, but between
\* the two calls of an advanceTo that moves backwards.
THEOREM FeedAlwaysAcceptsWhatIsNext == Spec => []FeedAcceptsWhatIsNext
  BY InitInv, NextInv, PTL DEF Spec, Inv

\* The tag, driven by the Nitro verifier, is a FinalityCursor.
THEOREM VerifierImplementsCursor == Spec => TagNeverMovesBackwards
<1>1. Inv /\ [Next]_vars => [Cursor!Next]_(Cursor!vars)
  BY StepIsStoreStep, CursorNext DEF Inv
<1>2. Init => Cursor!Init
  BY CursorInit DEF Init
<1> QED
  BY <1>1, <1>2, InitInv, NextInv, PTL DEF Spec, TagNeverMovesBackwards, Cursor!Spec
=============================================================================
