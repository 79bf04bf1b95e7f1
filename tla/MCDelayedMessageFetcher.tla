---------------------- MODULE MCDelayedMessageFetcher ----------------------
(***************************************************************************)
(* Instances of DelayedMessageFetcher.                                     *)
(***************************************************************************)
EXTENDS DelayedMessageFetcher, TLC

CONSTANTS MaxBlock, MaxIndex

MCBlocks == 0..MaxBlock

MCIndices == 0..MaxIndex

\* Data is only compared for equality.
DataSymmetry == Permutations(Data)
=============================================================================
