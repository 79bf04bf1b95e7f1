------------------------ MODULE EspressoStore_proofs ------------------------
(***************************************************************************)
(* The store's invariant, and that the store implements FinalityCursor,    *)
(* for every set of block numbers and of fallback heights.                 *)
(***************************************************************************)
EXTENDS EspressoStore, TLAPS

\* The zero value of the Go struct.
LEMMA ZeroStateFacts ==
  /\ ZeroState \in EspressoState
  /\ ZeroState.L2BlockNumber = 0
  BY DEF ZeroState, EspressoState

\* No call is in progress.
LEMMA NoCallFacts ==
  /\ NoCall \in [at : {"none", "write", "publish"}, newState : EspressoState]
  /\ NoCall.at = "none"
  BY ZeroStateFacts DEF NoCall

\* The fresh store satisfies the invariant.
LEMMA StoreInitInv == StoreInit => StoreInv
  BY ZeroStateFacts, NoCallFacts
  DEF StoreInit, StoreInv, StoreTypeOK, RestartAccepted, NeverAheadOfDisk, MemoryIsFile, CallConsistent,
      durableNumber

\* Every step of the process, the clients and the crashes preserves it.
LEMMA StoreNextInv == StoreInv /\ [StoreNext]_storeVars => StoreInv'
<1> SUFFICES ASSUME StoreInv, [StoreNext]_storeVars PROVE StoreInv'
  OBVIOUS
<1> USE HeightsNatural, NumbersNatural, NoFileIsNoState, ZeroStateFacts, NoCallFacts
<1> USE DEF StoreInv, StoreTypeOK, RestartAccepted, NeverAheadOfDisk, MemoryIsFile, CallConsistent,
            durableNumber, EspressoState
<1>1. ASSUME NEW h \in Heights, CreateFile(h) PROVE StoreInv'
  BY <1>1 DEF CreateFile
<1>2. CASE loadFromDisk
  BY <1>2 DEF loadFromDisk
<1>3. ASSUME NEW n \in Numbers, NEW h \in streamerHeights, UpdateIfGreater(n, h) PROVE StoreInv'
  BY <1>3 DEF UpdateIfGreater, streamerHeights
<1>4. CASE writeToDisk
  BY <1>4 DEF writeToDisk
<1>5. CASE writeFails
  BY <1>5 DEF writeFails
<1>6. CASE publish
  BY <1>6 DEF publish
<1>7. CASE InterceptRequest
  BY <1>7 DEF InterceptRequest, currentEspressoFinalizedBlockNumber
<1>8. CASE Crash
  BY <1>8 DEF Crash
<1>9. CASE UNCHANGED storeVars
  BY <1>9 DEF storeVars
<1> QED
  BY <1>1, <1>2, <1>3, <1>4, <1>5, <1>6, <1>7, <1>8, <1>9 DEF StoreNext, NewEspressoStore

\* StoreTypeOK, for every reachable state.
THEOREM StoreTypeCorrect == StoreSpec => []StoreTypeOK
  BY StoreInitInv, StoreNextInv, PTL DEF StoreSpec, StoreInv

\* A file that NewEspressoStore or UpdateIfGreater wrote is accepted by
\* loadFromDisk at the next start, whenever the process ended.
THEOREM StoreRestartAccepted == StoreSpec => []RestartAccepted
  BY StoreInitInv, StoreNextInv, PTL DEF StoreSpec, StoreInv

\* No reader sees, and no client was served, a number the file does not hold.
THEOREM StoreNeverAheadOfDisk == StoreSpec => []NeverAheadOfDisk
  BY StoreInitInv, StoreNextInv, PTL DEF StoreSpec, StoreInv

\* Memory and file agree except between the rename and the publication.
THEOREM StoreMemoryIsFile == StoreSpec => []MemoryIsFile
  BY StoreInitInv, StoreNextInv, PTL DEF StoreSpec, StoreInv

\* The initial states of the store are initial states of the cursor.
LEMMA CursorInit == StoreInit => Cursor!Init
  BY DEF StoreInit, Cursor!Init, durableNumber

\* Every step of the store is a step of the cursor or leaves it alone: only
\* CreateFile and writeToDisk move the durable number, only InterceptRequest
\* moves what was served.
LEMMA CursorNext == StoreInv /\ [StoreNext]_storeVars => [Cursor!Next]_(Cursor!vars)
<1> SUFFICES ASSUME StoreInv, [StoreNext]_storeVars PROVE [Cursor!Next]_(Cursor!vars)
  OBVIOUS
<1> USE NoFileIsNoState
<1> USE DEF Cursor!vars, Cursor!Next, durableNumber
<1>1. ASSUME NEW h \in Heights, CreateFile(h) PROVE UNCHANGED Cursor!vars
  BY <1>1, HeightsNatural DEF CreateFile, EspressoState
<1>2. CASE writeToDisk
  <2>1. Cursor!Advance
    BY <1>2, NoCallFacts DEF writeToDisk, StoreInv, StoreTypeOK, CallConsistent, MemoryIsFile, EspressoState,
                Cursor!Advance
  <2> QED BY <2>1
<1>3. CASE InterceptRequest
  <2>1. Cursor!Resolve
    BY <1>3 DEF InterceptRequest, currentEspressoFinalizedBlockNumber, StoreInv, StoreTypeOK,
                RestartAccepted, NeverAheadOfDisk, MemoryIsFile, CallConsistent, EspressoState,
                Cursor!Resolve
  <2> QED BY <2>1
<1>4. CASE loadFromDisk \/ writeFails \/ publish \/ Crash \/ UNCHANGED storeVars
  BY <1>4 DEF loadFromDisk, writeFails, publish, Crash, storeVars
<1>5. ASSUME NEW n \in Numbers, NEW h \in streamerHeights, UpdateIfGreater(n, h)
      PROVE UNCHANGED Cursor!vars
  BY <1>5 DEF UpdateIfGreater
<1> QED
  BY <1>1, <1>2, <1>3, <1>4, <1>5 DEF StoreNext, NewEspressoStore

\* The store implements the cursor: across updates, failed writes, crashes and
\* restarts the durable number and the numbers served never move backwards.
THEOREM StoreImplementsCursor == StoreSpec => TagNeverMovesBackwards
<1>1. StoreInv /\ [][StoreNext]_storeVars => [][Cursor!Next]_(Cursor!vars)
  BY StoreNextInv, CursorNext, PTL
<1> QED
  BY <1>1, StoreInitInv, CursorInit, PTL DEF StoreSpec, TagNeverMovesBackwards, Cursor!Spec
=============================================================================
