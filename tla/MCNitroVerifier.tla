--------------------------- MODULE MCNitroVerifier ---------------------------
(***************************************************************************)
(* Instances of NitroVerifier.                                             *)
(***************************************************************************)
EXTENDS NitroVerifier

CONSTANTS MaxPos

MCPositions == 1..MaxPos

MCNumbers == 0..MaxPos

\* One HotShot block for each message, in the order of the messages.
inOrder == [p \in 1..MaxPos |-> p]

\* The messages in the opposite order: the last one in the first HotShot block.
reversed == [p \in 1..MaxPos |-> MaxPos + 1 - p]
=============================================================================
