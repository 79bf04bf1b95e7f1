----------------------------- MODULE FeedClient -----------------------------
(***************************************************************************)
(* verifier/nitro/feed_client/client.go: the messages of the sequencer feed*)
(* by sequence number.  The read loop's goroutine adds them, the verifier  *)
(* goroutine looks them up and drops them; each operation holds the lock.  *)
(*                                                                         *)
(* Here a message may arrive at any time, in any order, more than once and *)
(* with different contents, as after a reconnect; FeedConnection has the   *)
(* connection itself.                                                      *)
(***************************************************************************)
EXTENDS Naturals

CONSTANTS
  Positions,    \* the sequence numbers that occur, a set of numbers
  Contents,     \* the messages' contents
  NoMessage     \* the nil message

ASSUME PositionsNatural == Positions \subseteq Nat \ {0}

ASSUME NoMessageIsNoContent == NoMessage \notin Contents

VARIABLES
  messages,     \* fc.messages
  nextSeqNum    \* fc.nextSeqNum

feedVars == <<messages, nextSeqNum>>

FeedTypeOK ==
  /\ messages \in [Positions -> Contents \cup {NoMessage}]
  /\ nextSeqNum \in Nat

NewFeedClient(startSeqNum) ==
  /\ messages' = [p \in Positions |-> NoMessage]
  /\ nextSeqNum' = startSeqNum

GetMessage(seqNum) == messages[seqNum]

\* Faulty variant of AdvanceTo: the position itself is passed over.
advancePast(seqNum) ==
  /\ messages' = [p \in Positions |->
                    IF nextSeqNum <= p /\ p < seqNum THEN NoMessage ELSE messages[p]]
  /\ nextSeqNum' = seqNum + 1

AdvanceTo(seqNum) ==
  /\ messages' = [p \in Positions |->
                    IF nextSeqNum <= p /\ p < seqNum THEN NoMessage ELSE messages[p]]
  /\ nextSeqNum' = seqNum

Advance ==
  /\ messages' = [p \in Positions |-> IF p = nextSeqNum THEN NoMessage ELSE messages[p]]
  /\ nextSeqNum' = nextSeqNum + 1

\* Faulty variant of accepts: a message that lies behind is kept as well.
acceptsBehind(seqNum) == messages[seqNum] = NoMessage

\* readMessages: a message is kept unless it lies behind or its number is taken.
accepts(seqNum) == seqNum >= nextSeqNum /\ messages[seqNum] = NoMessage

readMessages(seqNum, content) ==
  /\ accepts(seqNum)
  /\ messages' = [messages EXCEPT ![seqNum] = content]
  /\ UNCHANGED nextSeqNum
=============================================================================
