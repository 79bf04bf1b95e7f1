-------------------------- MODULE MCFeedConnection --------------------------
(***************************************************************************)
(* FeedConnection for TLC: a feed of a few messages, client.go's times.    *)
(***************************************************************************)
EXTENDS FeedConnection

CONSTANTS MaxPosition

MCPositions == 1..MaxPosition
=============================================================================
