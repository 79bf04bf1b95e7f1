---------------------------- MODULE MCOPVerifier ----------------------------
(***************************************************************************)
(* OPVerifier for TLC.  The block tree is a chain and one fork that leaves *)
(* it after its first block:                                               *)
(*                                                                         *)
(*     g - a1 - a2 - a3                                                    *)
(*           \- b2                                                         *)
(***************************************************************************)
EXTENDS OPVerifier, TLC

CONSTANTS g, a1, a2, a3, b2

MCBlock == {g, a1, a2, a3, b2}

MCNumber == g :> 0 @@ a1 :> 1 @@ a2 :> 2 @@ a3 :> 3 @@ b2 :> 2

MCParent == a1 :> g @@ a2 :> a1 @@ a3 :> a2 @@ b2 :> a1
=============================================================================
