--------------------------- MODULE MCProxyProcess ---------------------------
(***************************************************************************)
(* ProxyProcess for TLC: the verifier may pass any of the block numbers,   *)
(* smaller ones than it passed before included, with any of the heights.   *)
(***************************************************************************)
EXTENDS ProxyProcess

CONSTANTS MaxNumber, MaxHeight

MCNumbers == 0..MaxNumber

MCHeights == 0..MaxHeight
=============================================================================
