--------------------------- MODULE FinalityCursor ---------------------------
(***************************************************************************)
(* What the proxy promises its clients, with nothing said of how: a        *)
(* cursor into the L2 chain.  `finalized' is the block number that survives *)
(* a restart of the process; `served' is the number that the most recent   *)
(* request was resolved to, 0 when that request was forwarded unresolved.  *)
(* Both only move forward, and no client is ever given a number that a     *)
(* restart could take back.                                                *)
(***************************************************************************)
EXTENDS Naturals

VARIABLES finalized, served

vars == <<finalized, served>>

Init ==
  /\ finalized = 0
  /\ served = 0

\* The durable block number grows, by any amount.
Advance ==
  /\ finalized' \in Nat
  /\ finalized' > finalized
  /\ UNCHANGED served

\* A request is resolved: never to less than an earlier request was, never to
\* more than is durable.
Resolve ==
  /\ served' \in Nat
  /\ served' >= served
  /\ served' <= finalized
  /\ UNCHANGED finalized

Next == Advance \/ Resolve

Spec == Init /\ [][Next]_vars
=============================================================================
