---------------------------- MODULE EspressoStore ----------------------------
(***************************************************************************)
(* store/espresso_store.go: the file that holds the Espresso-finalized L2  *)
(* block number, its copy in memory, the one writer (the verifier          *)
(* goroutine) and the readers (the interceptor, one goroutine per request).*)
(* A crash may happen between any two steps.                               *)
(*                                                                         *)
(* UpdatedAt is left out: every state that is written carries time.Now(),  *)
(* so the tests of it against the zero time never fail on their own.       *)
(***************************************************************************)
EXTENDS Naturals

CONSTANTS
  Numbers,      \* L2 block numbers the writer may pass to UpdateIfGreater
  Heights,      \* HotShot heights, of the flag and of the streamers
  NoFile        \* the state file does not exist

ASSUME HeightsNatural == Heights \subseteq Nat

ASSUME NumbersNatural == Numbers \subseteq Nat

EspressoState == [L2BlockNumber : Nat, FallbackHotshotHeight : Nat]

ASSUME NoFileIsNoState == NoFile \notin EspressoState

VARIABLES
  disk,         \* contents of the state file, or NoFile
  state,        \* es.state
  call,         \* the UpdateIfGreater call in progress and its newState
  process,      \* "up" once NewEspressoStore has returned, "down" before and after
  served,       \* what the last request was resolved to; 0 is "forwarded raw"
  startHeight   \* the height that the verifier started its streamer from

storeVars == <<disk, state, call, process, served, startHeight>>

\* The zero value of the Go struct: what memory holds before NewEspressoStore.
ZeroState == [L2BlockNumber |-> 0, FallbackHotshotHeight |-> 0]

\* No UpdateIfGreater call is in progress.
NoCall == [at |-> "none", newState |-> ZeroState]

StoreInit ==
  /\ disk = NoFile
  /\ state = ZeroState
  /\ call = NoCall
  /\ process = "down"
  /\ served = 0
  /\ startHeight = 0

-----------------------------------------------------------------------------
\* Faulty variant of CreateFile: an existing file is overwritten.
recreateFile(height) ==
  /\ process = "down"
  /\ height # 0
  /\ disk' = [L2BlockNumber |-> 0, FallbackHotshotHeight |-> height]
  /\ state' = disk'
  /\ startHeight' = height
  /\ process' = "up"
  /\ UNCHANGED <<call, served>>

\* mustCreateEspressoStore and NewEspressoStore on a fresh start: main exits when
\* --initial-hotshot-height is 0; the initial state is written first.  A write that
\* fails ends the process, which changes nothing.
CreateFile(height) ==
  /\ process = "down"
  /\ disk = NoFile
  /\ height # 0
  /\ disk' = [L2BlockNumber |-> 0, FallbackHotshotHeight |-> height]
  /\ state' = disk'
  /\ startHeight' = height
  /\ process' = "up"
  /\ UNCHANGED <<call, served>>

\* NewEspressoStore with a state file.  A file without a fallback height is
\* refused and the process exits: it never gets past this point again.
loadFromDisk ==
  /\ process = "down"
  /\ disk # NoFile
  /\ disk.FallbackHotshotHeight # 0
  /\ state' = disk
  /\ startHeight' = disk.FallbackHotshotHeight
  /\ process' = "up"
  /\ UNCHANGED <<disk, call, served>>

NewEspressoStore == loadFromDisk \/ \E h \in Heights : CreateFile(h)

\* Faulty variants of UpdateIfGreater: without the comparison, without the
\* height, and with the assignment to es.state before the write.
updateAlways(number, height) ==
  /\ process = "up"
  /\ call.at = "none"
  /\ call' = [at |-> "write",
              newState |-> [L2BlockNumber |-> number, FallbackHotshotHeight |-> height]]
  /\ UNCHANGED <<disk, state, process, served, startHeight>>

updateWithoutHeight(number, height) ==
  /\ process = "up"
  /\ call.at = "none"
  /\ state.L2BlockNumber < number
  /\ call' = [at |-> "write",
              newState |-> [L2BlockNumber |-> number, FallbackHotshotHeight |-> 0]]
  /\ UNCHANGED <<disk, state, process, served, startHeight>>

publishFirst(number, height) ==
  /\ process = "up"
  /\ call.at = "none"
  /\ state.L2BlockNumber < number
  /\ state' = [L2BlockNumber |-> number, FallbackHotshotHeight |-> height]
  /\ call' = [at |-> "write", newState |-> state']
  /\ UNCHANGED <<disk, process, served, startHeight>>

\* UpdateIfGreater up to its early return: the state is read under the read
\* lock, the lock is released, and the new state is prepared from what was
\* read.  A number that is not greater returns false and changes nothing.
UpdateIfGreater(number, height) ==
  /\ process = "up"
  /\ call.at = "none"
  /\ state.L2BlockNumber < number
  /\ call' = [at |-> "write",
              newState |-> [L2BlockNumber |-> number, FallbackHotshotHeight |-> height]]
  /\ UNCHANGED <<disk, state, process, served, startHeight>>

\* Faulty variant of writeToDisk: the old height is written with the new number.
writeNumberOnly ==
  /\ call.at = "write"
  /\ disk' = [disk EXCEPT !.L2BlockNumber = call.newState.L2BlockNumber]
  /\ call' = [call EXCEPT !.at = "publish"]
  /\ UNCHANGED <<state, process, served, startHeight>>

\* writeToDisk: a temporary file, then an atomic rename.  A crash before the
\* rename leaves the old contents, so the rename is the only step there is.
writeToDisk ==
  /\ call.at = "write"
  /\ disk' = call.newState
  /\ call' = [call EXCEPT !.at = "publish"]
  /\ UNCHANGED <<state, process, served, startHeight>>

\* Any of the calls of writeToDisk fails: UpdateIfGreater returns the error and
\* leaves the state in memory alone.
writeFails ==
  /\ call.at = "write"
  /\ call' = NoCall
  /\ UNCHANGED <<disk, state, process, served, startHeight>>

\* The rest of UpdateIfGreater: the new state becomes visible to the readers.
publish ==
  /\ call.at = "publish"
  /\ state' = call.newState
  /\ call' = NoCall
  /\ UNCHANGED <<disk, process, served, startHeight>>

\* getCurrentEspressoFinalizedBlockNumber: 0 stands for the error that makes
\* the interceptor forward the request as it came.
currentEspressoFinalizedBlockNumber ==
  IF state.FallbackHotshotHeight = 0 THEN 0 ELSE state.L2BlockNumber

\* A client request or batch: the state is read once, under the read lock.
InterceptRequest ==
  /\ process = "up"
  /\ served' = currentEspressoFinalizedBlockNumber
  /\ UNCHANGED <<disk, state, call, process, startHeight>>

\* The process ends, at any point: everything but the file is lost.
Crash ==
  /\ process = "up"
  /\ process' = "down"
  /\ state' = ZeroState
  /\ call' = NoCall
  /\ startHeight' = 0
  /\ UNCHANGED <<disk, served>>

\* The heights that a streamer (external) may report: the HotShot blocks that it has
\* seen are those from the height it was started from on.  Nothing in the store
\* refuses the height 0.
streamerHeights == {h \in Heights : h >= startHeight}

-----------------------------------------------------------------------------
StoreNext ==
  \/ NewEspressoStore
  \/ \E n \in Numbers, h \in streamerHeights : UpdateIfGreater(n, h)
  \/ writeToDisk
  \/ writeFails
  \/ publish
  \/ InterceptRequest
  \/ Crash

StoreSpec == StoreInit /\ [][StoreNext]_storeVars

-----------------------------------------------------------------------------
\* The block number a restart would resume from.
durableNumber == IF disk = NoFile THEN 0 ELSE disk.L2BlockNumber

\* Type invariant of the store: the file, the copy in memory and the call.
StoreTypeOK ==
  /\ disk \in EspressoState \cup {NoFile}
  /\ state \in EspressoState
  /\ call \in [at : {"none", "write", "publish"}, newState : EspressoState]
  /\ process \in {"up", "down"}
  /\ served \in Nat
  /\ startHeight \in Nat

\* Once a file exists a restart accepts it: loadFromDisk's check of the required
\* fields never refuses what an earlier process wrote, although UpdateIfGreater
\* writes the height it is given.  It rests on main's check of the flag, on the check
\* at the last load, and on the streamer, which starts from the height in the file.
RestartAccepted == disk # NoFile => disk.FallbackHotshotHeight # 0

\* UpdateIfGreater writes the file before it publishes: readers never see a
\* number the file does not hold, and no client was ever given one.
NeverAheadOfDisk ==
  /\ state.L2BlockNumber <= durableNumber
  /\ served <= durableNumber

\* Except between the rename and the assignment to es.state, the copy in memory
\* is the file, both fields of it: a write that fails leaves neither half of the
\* new state behind.
MemoryIsFile == process = "up" /\ call.at # "publish" => state = disk

\* What a call in progress knows, and what memory holds while the process is
\* down: with the properties above, the inductive invariant of the store.
CallConsistent ==
  /\ process = "up" =>
       /\ disk # NoFile
       /\ state.FallbackHotshotHeight # 0
       /\ startHeight # 0
       /\ served <= state.L2BlockNumber
  /\ process = "down" => state = ZeroState /\ call = NoCall
  /\ call.at # "none" =>
       /\ call.newState.L2BlockNumber > state.L2BlockNumber
       /\ call.newState.FallbackHotshotHeight # 0
  /\ call.at = "publish" => disk = call.newState

StoreInv == StoreTypeOK /\ RestartAccepted /\ NeverAheadOfDisk /\ MemoryIsFile /\ CallConsistent

\* The promise of README.md ("it will never move backwards, even across
\* restarts"): the file and what clients are served implement FinalityCursor.
Cursor == INSTANCE FinalityCursor WITH finalized <- durableNumber

TagNeverMovesBackwards == Cursor!Spec
=============================================================================
