-------------------------- MODULE OPVerifier_proofs --------------------------
(***************************************************************************)
(* The invariant of the OP verifier, for every block tree, every set of    *)
(* batches and every set of fallback heights.                              *)
(***************************************************************************)
EXTENDS OPVerifier, EspressoStore_proofs

\* Every step of the verifier and its environment is a step of the store or
\* leaves the store alone: the verifier is the store's only writer.
LEMMA StepIsStoreStep == TypeOK /\ [Next]_vars => [StoreNext]_storeVars
<1> SUFFICES ASSUME TypeOK, [Next]_vars PROVE [StoreNext]_storeVars
  OBVIOUS
<1> USE DEF StoreNext
<1>1. CASE syncEspressoStateWithEthereumFinality
  <2>1. Number[snapshot] \in Numbers
    BY <1>1, BlockTree DEF syncEspressoStateWithEthereumFinality, lastSnapshot, TypeOK
  <2> QED
    BY <1>1, <2>1 DEF syncEspressoStateWithEthereumFinality
<1>2. CASE verifyAndAdvance
  <2>1. Number[verifiedBatch] \in Numbers
    BY <1>2, BlockTree DEF verifyAndAdvance, TypeOK
  <2> QED
    BY <1>2, <2>1 DEF verifyAndAdvance
<1>3. CASE clientRequest \/ NewOPEspressoBatchVerifier \/ processEnds \/ Stop
  BY <1>3 DEF clientRequest, NewOPEspressoBatchVerifier, processEnds, Stop
<1>4. CASE synced \/ saved \/ storeWrites \/ storeWriteFails
  BY <1>4 DEF synced, saved, storeWrites, storeWriteFails
<1>5. CASE NodeFollows \/ EthereumFinalizes \/ Cancel \/ \E b \in Block : poll(b)
  BY <1>5 DEF NodeFollows, EthereumFinalizes, Cancel, poll
<1>6. CASE nothingToSync \/ refreshed \/ refreshFails
  BY <1>6 DEF nothingToSync, refreshed, refreshFails, callRefresh
<1>7. CASE (\E b \in Block : verified(b)) \/ (\E b \in Block : forkMismatch(b))
  BY <1>7 DEF verified, forkMismatch
<1>8. CASE drained \/ drainCancelled \/ nothingToSave
  BY <1>8 DEF drained, drainCancelled, nothingToSave
<1>9. CASE UNCHANGED vars
  BY <1>9 DEF vars
<1> QED
  BY <1>1, <1>2, <1>3, <1>4, <1>5, <1>6, <1>7, <1>8, <1>9 DEF Next

\* The initial states satisfy the invariant.
LEMMA InitInv == Init => Inv
<1> SUFFICES ASSUME Init PROVE Inv
  OBVIOUS
<1>1. StoreInv
  BY StoreInitInv DEF Init
<1>2. durableNumber = 0 /\ state.L2BlockNumber = 0 /\ call.at = "none" /\ process = "down"
  BY NoCallFacts, ZeroStateFacts DEF Init, StoreInit, durableNumber
<1>3. TypeOK
  BY <1>1, BlockTree DEF StoreInv, Init, TypeOK
<1>4. NoGap /\ OriginFollowsTip
  BY <1>2 DEF NoGap, OriginFollowsTip, Init
<1>5. ChainsInv
  BY BlockTree DEF ChainsInv, Init
<1>6. ControlInv /\ ProgressInv
  BY <1>2 DEF ControlInv, ProgressInv, Init
<1> QED
  BY <1>1, <1>3, <1>4, <1>5, <1>6 DEF Inv

\* The full node and Ethereum only add: what is backed stays backed.
LEMMA BackedForGood ==
  ASSUME held \subseteq held', finalized \subseteq finalized', NEW n, backed(n)
  PROVE  backed(n)'
  BY DEF backed

\* A number up to that of a block Ethereum finalized is backed.
LEMMA FinalizedIsBacked ==
  ASSUME ChainsInv, NEW b \in finalized, NEW n \in 1..Number[b]
  PROVE  backed(n)
  BY DEF ChainsInv, backed

\* The chains and the snapshots taken of them, in every step.
LEMMA NextChains ==
  ASSUME TypeOK, ChainsInv, [Next]_vars
  PROVE  ChainsInv' /\ held \subseteq held' /\ finalized \subseteq finalized'
<1> USE DEF ChainsInv
<1>1. CASE NodeFollows
  BY <1>1 DEF NodeFollows, verifierVars
<1>2. CASE EthereumFinalizes
  <2> PICK b \in nodeChain \ finalized :
        /\ Parent[b] \in finalized
        /\ finalized' = finalized \cup {b}
        /\ UNCHANGED <<storeVars, nodeChain, held, snapshot, verifierVars>>
    BY <1>2 DEF EthereumFinalizes
  <2>1. b \in Block
    BY DEF TypeOK
  <2>2. \A n \in 1..Number[b] : \E c \in finalized' : Number[c] = n
    <3> SUFFICES ASSUME NEW n \in 1..Number[b] PROVE \E c \in finalized' : Number[c] = n
      OBVIOUS
    <3>1. CASE n = Number[b]
      BY <3>1
    <3>2. CASE n # Number[b]
      <4>1. b # Genesis
        BY BlockTree
      <4>2. Number[b] = Number[Parent[b]] + 1 /\ Number[Parent[b]] \in Nat
        BY <2>1, <4>1, BlockTree, NumbersNatural
      <4>3. n \in 1..Number[Parent[b]]
        BY <3>2, <4>2
      <4> QED
        BY <4>3
    <3> QED
      BY <3>1, <3>2
  <2> QED
    BY <2>2 DEF verifierVars
<1>3. CASE NewOPEspressoBatchVerifier
  BY <1>3 DEF NewOPEspressoBatchVerifier, chainVars
<1>4. CASE processEnds \/ Stop
  BY <1>4 DEF Stop, processEnds, chainVars
<1>5. ASSUME NEW b \in Block, poll(b) PROVE ChainsInv' /\ UNCHANGED chainVars
  BY <1>5 DEF poll, chainVars, verifierVars
<1>6. CASE syncEspressoStateWithEthereumFinality \/ nothingToSync
  BY <1>6 DEF syncEspressoStateWithEthereumFinality, nothingToSync, lastSnapshot, chainVars
<1>7. CASE synced \/ saved \/ storeWrites \/ storeWriteFails
  BY <1>7 DEF synced, saved, storeWrites, storeWriteFails, chainVars, verifierVars
<1>8. CASE refreshed \/ refreshFails
  BY <1>8 DEF refreshed, refreshFails, callRefresh, chainVars
<1>9. CASE (\E b \in Block : verified(b)) \/ (\E b \in Block : forkMismatch(b))
  BY <1>9 DEF verified, forkMismatch, chainVars
<1>10. CASE drained \/ drainCancelled \/ nothingToSave \/ verifyAndAdvance
  BY <1>10 DEF drained, drainCancelled, nothingToSave, verifyAndAdvance, chainVars
<1>11. CASE clientRequest \/ Cancel \/ UNCHANGED vars
  BY <1>11 DEF clientRequest, Cancel, vars, chainVars, verifierVars
<1> QED
  BY <1>1, <1>2, <1>3, <1>4, <1>5, <1>6, <1>7, <1>8, <1>9, <1>10, <1>11 DEF Next, chainVars

\* The type of the verifier and its environment, in every step.
LEMMA NextTypeOK ==
  ASSUME TypeOK, StoreTypeOK', [Next]_vars
  PROVE  TypeOK'
<1> USE BlockTree, NumbersNatural, BatchesAreBlocks DEF TypeOK, chainVars, verifierVars
<1>1. CASE NodeFollows
  BY <1>1 DEF NodeFollows, Chains
<1>2. CASE EthereumFinalizes
  BY <1>2 DEF EthereumFinalizes
<1>3. CASE NewOPEspressoBatchVerifier
  <2>1. state'.L2BlockNumber \in Nat
    BY DEF StoreTypeOK, EspressoState
  <2> QED
    BY <1>3, <2>1 DEF NewOPEspressoBatchVerifier
<1>4. CASE processEnds \/ Stop
  BY <1>4 DEF Stop, processEnds
<1>5. ASSUME NEW b \in Block, poll(b) PROVE TypeOK'
  BY <1>5 DEF poll
<1>6. CASE syncEspressoStateWithEthereumFinality \/ nothingToSync
  BY <1>6 DEF syncEspressoStateWithEthereumFinality, nothingToSync, lastSnapshot
<1>7. CASE synced \/ saved \/ storeWrites \/ storeWriteFails
  BY <1>7 DEF synced, saved, storeWrites, storeWriteFails, l1OriginFromL2Block
<1>8. CASE refreshed \/ refreshFails
  <2>1. state.L2BlockNumber \in Nat
    BY DEF StoreTypeOK, EspressoState
  <2> QED
    BY <1>8, <2>1 DEF refreshed, refreshFails, callRefresh, l1OriginFromL2Block
<1>9. ASSUME NEW b \in Block, verified(b) PROVE TypeOK'
  BY <1>9 DEF verified
<1>10. ASSUME NEW b \in Block, forkMismatch(b) PROVE TypeOK'
  BY <1>10 DEF forkMismatch, chainsOnTip
<1>11. CASE drained \/ drainCancelled \/ nothingToSave \/ verifyAndAdvance
  BY <1>11 DEF drained, drainCancelled, nothingToSave, verifyAndAdvance
<1>12. CASE clientRequest \/ Cancel \/ UNCHANGED vars
  BY <1>12 DEF clientRequest, Cancel, vars
<1> QED
  BY <1>1, <1>2, <1>3, <1>4, <1>5, <1>6, <1>7, <1>8, <1>9, <1>10, <1>11, <1>12 DEF Next

\* Where the goroutine is and which call it has made, in every step.
LEMMA NextControl ==
  ASSUME Inv, [Next]_vars
  PROVE  ControlInv' /\ OriginFollowsTip'
<1> USE NoCallFacts DEF Inv, ControlInv, OriginFollowsTip, chainVars, verifierVars
<1>1. CASE NodeFollows \/ EthereumFinalizes \/ Cancel \/ \E b \in Block : poll(b)
  BY <1>1 DEF NodeFollows, EthereumFinalizes, Cancel, poll, storeVars
<1>2. CASE NewOPEspressoBatchVerifier
  BY <1>2 DEF NewOPEspressoBatchVerifier, NewEspressoStore, CreateFile, loadFromDisk
<1>3. CASE processEnds \/ Stop
  BY <1>3 DEF Stop, processEnds, Crash
<1>4. CASE syncEspressoStateWithEthereumFinality
  BY <1>4 DEF syncEspressoStateWithEthereumFinality, lastSnapshot, UpdateIfGreater
<1>5. CASE nothingToSync
  BY <1>5 DEF nothingToSync, lastSnapshot, storeVars
<1>6. CASE synced
  <2>1. tip' # Genesis
    BY <1>6, BlockTree DEF synced, publish, StoreInv, StoreTypeOK, CallConsistent, EspressoState
  <2> QED
    BY <1>6, <2>1 DEF synced, publish, l1OriginFromL2Block
<1>7. CASE refreshed \/ refreshFails
  BY <1>7, NoBlockIsNoBlock DEF refreshed, refreshFails, callRefresh, storeVars, TypeOK
<1>8. CASE (\E b \in Block : verified(b)) \/ (\E b \in Block : forkMismatch(b))
  BY <1>8 DEF verified, forkMismatch, draining, storeVars
<1>9. CASE drained \/ drainCancelled \/ nothingToSave
  BY <1>9 DEF drained, draining, drainCancelled, nothingToSave, storeVars
<1>10. CASE verifyAndAdvance
  BY <1>10 DEF verifyAndAdvance, UpdateIfGreater, storeVars
<1>11. CASE saved
  BY <1>11 DEF saved, publish
<1>12. CASE storeWrites
  BY <1>12 DEF storeWrites, writeToDisk, StoreInv, StoreTypeOK
<1>13. CASE storeWriteFails
  BY <1>13 DEF storeWriteFails, writeFails
<1>14. CASE clientRequest \/ UNCHANGED vars
  BY <1>14 DEF clientRequest, InterceptRequest, vars, storeVars
<1> QED
  BY <1>1, <1>2, <1>3, <1>4, <1>5, <1>6, <1>7, <1>8, <1>9, <1>10, <1>11, <1>12, <1>13, <1>14
  DEF Next

\* The tip stays at or ahead of the store and backed, in every step.
LEMMA NextProgress ==
  ASSUME Inv, [Next]_vars
  PROVE  ProgressInv'
<1>1. \A n : backed(n) => backed(n)'
  BY NextChains, BackedForGood DEF Inv
<1>2. state.L2BlockNumber \in Nat /\ \A b \in Block : Number[b] \in Nat
  BY BlockTree, NumbersNatural DEF Inv, StoreInv, StoreTypeOK, EspressoState
<1> USE <1>1, <1>2, NoBlockIsNoBlock
    DEF Inv, ProgressInv, ControlInv, TypeOK, chainVars, verifierVars
<1>3. CASE NodeFollows \/ EthereumFinalizes \/ Cancel \/ \E b \in Block : poll(b)
  BY <1>3 DEF NodeFollows, EthereumFinalizes, Cancel, poll, storeVars
<1>4. CASE NewOPEspressoBatchVerifier
  BY <1>4 DEF NewOPEspressoBatchVerifier, NewEspressoStore, CreateFile, loadFromDisk
<1>5. CASE processEnds \/ Stop
  BY <1>5 DEF Stop, processEnds, Crash
<1>6. CASE syncEspressoStateWithEthereumFinality
  BY <1>6 DEF syncEspressoStateWithEthereumFinality, lastSnapshot, UpdateIfGreater
<1>7. CASE nothingToSync
  BY <1>7 DEF nothingToSync, lastSnapshot, storeVars
<1>8. CASE synced
  <2>1. tip' \in finalized /\ state'.L2BlockNumber = Number[tip']
    BY <1>8 DEF synced, publish, ChainsInv
  <2>2. \A n \in 1..Number[tip'] : backed(n)
    BY <2>1, FinalizedIsBacked
  <2> QED
    BY <1>8, <2>1, <2>2 DEF synced
<1>9. CASE refreshed \/ refreshFails
  BY <1>9 DEF refreshed, refreshFails, callRefresh, storeVars
<1>10. ASSUME NEW b \in Block, verified(b) PROVE ProgressInv'
  <2>1. b \in Batch /\ b \in held /\ b # Genesis /\ UNCHANGED storeVars
    BY <1>10, BatchesAreBlocks DEF verified, VerifyNextBatch, Peek, ChainsInv
  <2>2. backed(Number[b])
    BY <2>1 DEF backed
  <2>3. /\ Number[b] > state.L2BlockNumber
        /\ \A n \in 1..Number[b] : n # Number[b] => backed(n)
    <3>1. CASE tip = NoBlock
      <4>1. Number[b] = state.L2BlockNumber + 1
        BY <1>10, <3>1 DEF verified, VerifyNextBatch, Peek, draining, StoreTypeOK
      <4>2. state.L2BlockNumber <= durableNumber /\ durableNumber \in Nat
        BY DEF StoreInv, NeverAheadOfDisk, StoreTypeOK, EspressoState, durableNumber
      <4>3. \A n \in 1..Number[b] : n # Number[b] => n \in 1..durableNumber
        BY <4>1, <4>2
      <4> QED
        BY <4>1, <4>3 DEF NoGap
    <3>2. CASE tip # NoBlock
      <4>1. Parent[b] = tip
        BY <1>10, <3>2 DEF verified, VerifyNextBatch, chainsOnTip
      <4>2. Number[b] = Number[tip] + 1
        BY <2>1, <4>1, BlockTree
      <4>3. \A n \in 1..Number[b] : n # Number[b] => n \in 1..Number[tip]
        BY <3>2, <4>2
      <4> QED
        BY <3>2, <4>2, <4>3
    <3> QED
      BY <3>1, <3>2
  <2> QED
    BY <1>10, <2>1, <2>2, <2>3 DEF verified, draining, storeVars
<1>11. ASSUME NEW b \in Block, forkMismatch(b) PROVE ProgressInv'
  BY <1>11 DEF forkMismatch, draining, chainsOnTip, storeVars
<1>12. CASE drained \/ drainCancelled \/ nothingToSave
  BY <1>12 DEF drained, draining, drainCancelled, nothingToSave, storeVars
<1>13. CASE verifyAndAdvance
  BY <1>13 DEF verifyAndAdvance, UpdateIfGreater, storeVars
<1>14. CASE saved
  BY <1>14 DEF saved, publish
<1>15. CASE storeWrites
  BY <1>15 DEF storeWrites, writeToDisk
<1>16. CASE storeWriteFails
  BY <1>16 DEF storeWriteFails, writeFails
<1>17. CASE clientRequest \/ UNCHANGED vars
  BY <1>17 DEF clientRequest, InterceptRequest, vars, storeVars
<1> QED
  BY <1>3, <1>4, <1>5, <1>6, <1>7, <1>8, <1>9, <1>10, <1>11, <1>12, <1>13, <1>14, <1>15,
     <1>16, <1>17
  DEF Next

\* Only a write moves the durable number, and what it writes is backed.
LEMMA NextNoGap ==
  ASSUME Inv, [Next]_vars
  PROVE  NoGap'
<1>1. \A n : backed(n) => backed(n)'
  BY NextChains, BackedForGood DEF Inv
<1>2. CASE UNCHANGED disk
  BY <1>1, <1>2 DEF Inv, NoGap, durableNumber
<1>3. CASE storeWrites
  <2>1. call.at = "write" /\ disk' = call.newState /\ UNCHANGED <<chainVars, target, tip>>
    BY <1>3 DEF storeWrites, writeToDisk, verifierVars
  <2>2. durableNumber' = call.newState.L2BlockNumber
    BY <2>1, NoFileIsNoState DEF durableNumber, Inv, StoreInv, StoreTypeOK
  <2>3. CASE pc = "sync"
    BY <1>1, <2>2, <2>3, FinalizedIsBacked DEF Inv, NoGap, ControlInv, ChainsInv
  <2>4. CASE pc = "saving"
    BY <1>1, <2>2, <2>4 DEF Inv, NoGap, ControlInv, ProgressInv
  <2> QED
    BY <2>1, <2>3, <2>4 DEF Inv, ControlInv
<1>4. CASE NewOPEspressoBatchVerifier
  <2>1. CASE \E h \in Heights : CreateFile(h)
    <3>1. durableNumber' = 0
      BY <2>1 DEF CreateFile, durableNumber
    <3> QED
      BY <3>1 DEF NoGap
  <2>2. CASE loadFromDisk
    BY <1>2, <2>2 DEF loadFromDisk
  <2> QED
    BY <1>4, <2>1, <2>2 DEF NewOPEspressoBatchVerifier, NewEspressoStore
<1>5. ASSUME [Next]_vars, ~storeWrites, ~NewOPEspressoBatchVerifier PROVE UNCHANGED disk
  <2>1. CASE syncEspressoStateWithEthereumFinality \/ verifyAndAdvance
    BY <2>1 DEF syncEspressoStateWithEthereumFinality, verifyAndAdvance, UpdateIfGreater, storeVars
  <2>2. CASE synced \/ saved \/ storeWriteFails \/ clientRequest \/ processEnds \/ Stop
    BY <2>2 DEF synced, saved, storeWriteFails, clientRequest, processEnds, Stop, publish,
                writeFails, InterceptRequest, Crash
  <2>3. CASE NodeFollows \/ EthereumFinalizes \/ Cancel \/ \E b \in Block : poll(b)
    BY <2>3 DEF NodeFollows, EthereumFinalizes, Cancel, poll, storeVars
  <2>4. CASE nothingToSync \/ refreshed \/ refreshFails
    BY <2>4 DEF nothingToSync, refreshed, refreshFails, callRefresh, storeVars
  <2>5. CASE (\E b \in Block : verified(b)) \/ (\E b \in Block : forkMismatch(b))
    BY <2>5 DEF verified, forkMismatch, storeVars
  <2>6. CASE drained \/ drainCancelled \/ nothingToSave \/ UNCHANGED vars
    BY <2>6 DEF drained, drainCancelled, nothingToSave, storeVars, vars
  <2> QED
    BY <1>5, <2>1, <2>2, <2>3, <2>4, <2>5, <2>6 DEF Next
<1> QED
  BY <1>2, <1>3, <1>4, <1>5

\* Every step preserves the invariant.
LEMMA NextInv == Inv /\ [Next]_vars => Inv'
<1> SUFFICES ASSUME Inv, [Next]_vars PROVE Inv'
  OBVIOUS
<1>1. StoreInv'
  BY StepIsStoreStep, StoreNextInv DEF Inv
<1>2. TypeOK'
  BY <1>1, NextTypeOK DEF Inv, StoreInv
<1>3. ChainsInv'
  BY NextChains DEF Inv
<1> QED
  BY <1>1, <1>2, <1>3, NextControl, NextProgress, NextNoGap DEF Inv

\* Type correctness of the verifier and its environment.
THEOREM TypeCorrect == Spec => []TypeOK
  BY InitInv, NextInv, PTL DEF Spec, Inv

\* For every block tree, set of batches and interleaving: each number up to the
\* durable one is that of a block which the full node executed and which
\* Espresso or Ethereum finalized.
THEOREM DurableIsBacked == Spec => []NoGap
  BY InitInv, NextInv, PTL DEF Spec, Inv

\* A drained batch that verifyAndAdvance brings to the store is ahead of it.
THEOREM SaveAlwaysAdvances == Spec => []SaveAdvances
<1>1. Inv => SaveAdvances
  BY DEF Inv, ProgressInv, SaveAdvances
<1> QED
  BY <1>1, InitInv, NextInv, PTL DEF Spec

\* The streamer is refreshed with the L1 origin of the tip.
THEOREM OriginAlwaysFollowsTip == Spec => []OriginFollowsTip
  BY InitInv, NextInv, PTL DEF Spec, Inv

\* The tag, driven by the verifier, is a FinalityCursor.
THEOREM VerifierImplementsCursor == Spec => TagNeverMovesBackwards
<1>1. Inv /\ [Next]_vars => [Cursor!Next]_(Cursor!vars)
  BY StepIsStoreStep, CursorNext DEF Inv
<1>2. Init => Cursor!Init
  BY CursorInit DEF Init
<1> QED
  BY <1>1, <1>2, InitInv, NextInv, PTL DEF Spec, TagNeverMovesBackwards, Cursor!Spec

\* The verified chain never jumps to another fork while the process lives.
THEOREM TipAlwaysFollowsChain == Spec => TipFollowsChain
<1>1. Inv /\ [Next]_vars => [tipStep]_vars
  <2> SUFFICES ASSUME Inv, [Next]_vars PROVE [tipStep]_vars
    OBVIOUS
  <2> USE DEF tipStep
  <2>1. CASE synced
    BY <2>1 DEF synced, Inv, ControlInv, ChainsInv
  <2>2. ASSUME NEW b \in Block, verified(b) PROVE tipStep
    BY <2>2 DEF verified, VerifyNextBatch, chainsOnTip
  <2>3. CASE processEnds \/ Stop
    BY <2>3 DEF processEnds, Stop, Crash
  <2>4. CASE ~synced /\ ~(\E b \in Block : verified(b)) /\ ~processEnds /\ ~Stop
    <3> USE DEF verifierVars
    <3>1. CASE syncEspressoStateWithEthereumFinality \/ nothingToSync
      BY <3>1 DEF syncEspressoStateWithEthereumFinality, nothingToSync, lastSnapshot
    <3>2. CASE refreshed \/ refreshFails
      BY <3>2 DEF refreshed, refreshFails, callRefresh
    <3>3. CASE drained \/ drainCancelled \/ \E b \in Block : forkMismatch(b)
      BY <3>3 DEF drained, drainCancelled, forkMismatch
    <3>4. CASE nothingToSave \/ verifyAndAdvance \/ saved \/ storeWrites \/ storeWriteFails
      BY <3>4 DEF nothingToSave, verifyAndAdvance, saved, storeWrites, storeWriteFails
    <3>5. CASE NodeFollows \/ EthereumFinalizes \/ clientRequest \/ Cancel
      BY <3>5 DEF NodeFollows, EthereumFinalizes, clientRequest, Cancel
    <3>6. CASE NewOPEspressoBatchVerifier \/ \E b \in Block : poll(b)
      BY <3>6 DEF NewOPEspressoBatchVerifier, poll
    <3> QED
      BY <2>4, <3>1, <3>2, <3>3, <3>4, <3>5, <3>6 DEF Next
  <2> QED
    BY <2>1, <2>2, <2>3, <2>4
<1> QED
  BY <1>1, InitInv, NextInv, PTL DEF Spec, TipFollowsChain
=============================================================================
