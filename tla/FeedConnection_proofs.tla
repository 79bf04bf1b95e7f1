------------------------ MODULE FeedConnection_proofs ------------------------
(***************************************************************************)
(* Nothing that the feed sent is missing from the buffer, and nothing stays*)
(* behind in it, for every feed and every pair of back-off times.          *)
(***************************************************************************)
EXTENDS FeedConnection, TLAPS

\* The loop starts with the invariant.
LEMMA InitInv == Init => Inv
<1> SUFFICES ASSUME Init PROVE Inv
  OBVIOUS
<1>1. startBackOff \in startBackOff..(2 * maxBackoff - 1)
  BY BackoffPositive
<1>2. TypeOK
  <2>1. tail \in 1..(head + 1)
    BY DEF Init
  <2>2. nextSeqNum \in Nat /\ passed \in Nat /\ streamPos \in Nat
    BY StartsNatural DEF Init
  <2> QED BY <1>1, <2>1, <2>2 DEF Init, TypeOK, FeedTypeOK
<1>3. NothingMissed /\ NothingLeftBehind
  BY DEF Init, NothingMissed, NothingLeftBehind
<1> QED BY <1>2, <1>3, StartsNatural DEF Init, Inv

\* The sequence numbers in the invariant are numbers.
LEMMA Numbers ==
  ASSUME TypeOK
  PROVE  /\ head \in Nat /\ tail \in Nat /\ sent \in Nat /\ nextSeqNum \in Nat /\ requested \in Nat
         /\ passed \in Nat /\ streamPos \in Nat
         /\ tail > 0 /\ tail <= head + 1
         /\ backoff \in Nat /\ startBackOff <= backoff /\ backoff < 2 * maxBackoff
         /\ messages \in [Positions -> Contents \cup {NoMessage}]
         /\ \A p \in Positions : p \in Nat /\ p > 0
  BY PositionsNatural, BackoffPositive DEF TypeOK, FeedTypeOK

\* The steps that leave buffer, feed and connection alone.
LEMMA LoopNext ==
  ASSUME Inv, \/ dial \/ loopEnds \/ dialFails \/ sleepEnds \/ readNext \/ readFails \/ Cancel
              \/ \E header \in Headers : chainRefused(header)
  PROVE  Inv'
<1>1. UNCHANGED <<feedVars, serverVars, connVars, streamPos>>
  BY DEF dial, loopEnds, dialFails, sleepEnds, readNext, readFails, Cancel, chainRefused
<1>2. \/ requested' = requested /\ passed' = passed
      \/ requested' = nextSeqNum /\ passed' = nextSeqNum /\ pc' = "dialing"
  BY DEF dial, loopEnds, dialFails, sleepEnds, readNext, readFails, Cancel, chainRefused, loopVars
<1>3. /\ pc' \in {"loop", "dialing", "sleeping", "connected", "reading", "ended", "exited"}
      /\ ctx' \in {"live", "cancelled"}
  BY DEF dial, loopEnds, dialFails, sleepEnds, readNext, readFails, Cancel, chainRefused, Inv, TypeOK
<1>4. backoff' \in startBackOff..(2 * maxBackoff - 1)
  <2>1. backoff' \in {backoff, IF backoff < maxBackoff THEN 2 * backoff ELSE backoff}
    BY DEF dial, loopEnds, dialFails, sleepEnds, readNext, readFails, Cancel, chainRefused
  <2> QED BY <2>1, Numbers, BackoffPositive DEF Inv
<1>5. pc' \in {"connected", "reading"} => pc \in {"connected", "reading"}
  BY DEF dial, loopEnds, dialFails, sleepEnds, readNext, readFails, Cancel, chainRefused
<1>7. TypeOK'
  BY <1>1, <1>2, <1>3, <1>4, Numbers DEF Inv, TypeOK, FeedTypeOK, feedVars, serverVars, connVars
<1>8. NothingMissed' /\ NothingLeftBehind'
  BY <1>1, <1>2, <1>5 DEF Inv, NothingMissed, NothingLeftBehind, feedVars, connVars
<1>9. requested' <= passed' /\ nextSeqNum' <= passed'
  BY <1>1, <1>2, Numbers DEF Inv, feedVars
<1> QED BY <1>7, <1>8, <1>9 DEF Inv

\* A new connection: what it starts with lies behind what the verifier needs.
LEMMA ConnectNext ==
  ASSUME Inv, NEW header \in Headers, connect(header)
  PROVE  Inv'
<1>1. /\ ~skipped' => tail <= requested \/ tail <= 1
      /\ sent' = (IF tail > requested THEN tail ELSE requested) - 1
      /\ sent' \in Nat /\ skipped' \in BOOLEAN
  <2>1. tail \in Nat /\ requested \in Nat /\ tail > 0
    BY Numbers DEF Inv
  <2>2. /\ sent' = (IF tail > requested THEN tail ELSE requested) - 1
        /\ skipped' = (tail > requested /\ tail > 1)
    BY DEF connect
  <2>3. sent' \in Nat
    BY <2>1, <2>2
  <2>4. skipped' \in BOOLEAN /\ (~skipped' => ~(tail > requested /\ tail > 1))
    BY <2>2, Zenon
  <2>5. ~(tail > requested /\ tail > 1) => tail <= requested \/ tail <= 1
    BY <2>1
  <2> QED BY <2>2, <2>3, <2>4, <2>5, Zenon
<1>2. UNCHANGED <<messages, nextSeqNum, ctx, requested, head, tail, passed, streamPos>> /\ pc' = "connected"
        /\ backoff' = startBackOff
  BY DEF connect, feedVars, serverVars
<1>3. startBackOff \in startBackOff..(2 * maxBackoff - 1)
  BY BackoffPositive
<1>4. TypeOK'
  BY <1>1, <1>2, <1>3 DEF Inv, TypeOK, FeedTypeOK
<1>5. NothingMissed'
  BY <1>1, <1>2, Numbers DEF Inv, NothingMissed
<1> QED BY <1>2, <1>4, <1>5 DEF Inv, NothingLeftBehind

\* A message is kept, is behind, or has its number taken.
LEMMA ReceiveNext ==
  ASSUME Inv, NEW content \in Contents, receive(content)
  PROVE  Inv'
<1>1. sent' = sent + 1 /\ sent' \in Positions /\ pc = "reading"
  <2>1. sent + 1 \in 1..head /\ head \in Positions
    BY Numbers DEF Inv, receive, TypeOK
  <2> QED BY <2>1, PositionsContiguous DEF receive
<1>2. UNCHANGED <<nextSeqNum, ctx, backoff, requested, head, tail, skipped, passed, streamPos>>
        /\ pc' = "connected"
  BY DEF receive, readMessages, feedVars, serverVars
<1>3. \/ /\ accepts(sent')
         /\ messages' = [messages EXCEPT ![sent'] = content]
      \/ /\ ~accepts(sent')
         /\ messages' = messages
  BY DEF receive, readMessages, feedVars
<1>4. TypeOK'
  BY <1>1, <1>2, <1>3, Numbers DEF Inv, TypeOK, FeedTypeOK
<1>5. \A p \in Positions : p # sent' => messages'[p] = messages[p]
  BY <1>1, <1>3, Numbers DEF Inv
<1>6. nextSeqNum <= sent' => messages'[sent'] # NoMessage
  BY <1>1, <1>3, Numbers, NoMessageIsNoContent DEF Inv, accepts
<1>7. sent' < nextSeqNum => messages'[sent'] = messages[sent']
  BY <1>1, <1>3, Numbers DEF Inv, accepts
<1>8. NothingMissed'
  <2> SUFFICES ASSUME ~skipped, NEW p \in Positions, passed <= p, p <= sent'
               PROVE  messages'[p] # NoMessage
    BY <1>2 DEF NothingMissed
  <2>1. CASE p = sent'
    BY <2>1, <1>6, Numbers DEF Inv
  <2>2. CASE p # sent'
    BY <2>2, <1>1, <1>5, Numbers DEF Inv, NothingMissed
  <2> QED BY <2>1, <2>2
<1>9. NothingLeftBehind'
  BY <1>1, <1>2, <1>5, <1>7 DEF Inv, NothingLeftBehind
<1> QED BY <1>2, <1>4, <1>8, <1>9 DEF Inv

\* The verifier goes on by one, or to any position.
LEMMA VerifierNext ==
  ASSUME Inv, verifierAdvances \/ \E pos \in Positions : verifierJumps(pos)
  PROVE  Inv'
<1>1. PICK to \in Nat :
        /\ nextSeqNum' = to
        /\ messages' = [p \in Positions |->
                          IF nextSeqNum <= p /\ p < to THEN NoMessage ELSE messages[p]]
  <2>1. CASE verifierAdvances
    <3>1. nextSeqNum' = nextSeqNum + 1 /\ nextSeqNum + 1 \in Nat
      BY <2>1, Numbers DEF Inv, verifierAdvances, Advance
    <3>2. \A p \in Positions : nextSeqNum <= p /\ p < nextSeqNum + 1 <=> p = nextSeqNum
      <4> SUFFICES ASSUME NEW p \in Positions
                   PROVE nextSeqNum <= p /\ p < nextSeqNum + 1 <=> p = nextSeqNum
        OBVIOUS
      <4>1. p \in Nat /\ nextSeqNum \in Nat
        BY Numbers DEF Inv
      <4> QED BY <4>1
    <3>3. messages' = [p \in Positions |->
                         IF nextSeqNum <= p /\ p < nextSeqNum + 1 THEN NoMessage ELSE messages[p]]
      <4> DEFINE drop(p) == IF p = nextSeqNum THEN NoMessage ELSE messages[p]
                 clear(p) == IF nextSeqNum <= p /\ p < nextSeqNum + 1 THEN NoMessage ELSE messages[p]
      <4>1. \A p \in Positions : drop(p) = clear(p)
        BY <3>2
      <4>2. messages' = [p \in Positions |-> drop(p)]
        BY <2>1 DEF verifierAdvances, Advance
      <4> HIDE DEF drop, clear
      <4>3. messages' = [p \in Positions |-> clear(p)]
        BY <4>1, <4>2
      <4> QED BY <4>3 DEF clear
    <3> QED BY <3>1, <3>3
  <2>2. CASE \E pos \in Positions : verifierJumps(pos)
    BY <2>2, Numbers DEF Inv, verifierJumps, AdvanceTo
  <2> QED BY <2>1, <2>2
<1>2. /\ UNCHANGED <<loopVars, serverVars, connVars>>
      /\ streamPos' \in Nat
      /\ passed' = IF nextSeqNum' > passed THEN nextSeqNum' ELSE passed
  BY Numbers DEF Inv, verifierAdvances, verifierJumps, notePosition
<1>3. passed' \in Nat /\ passed <= passed' /\ nextSeqNum' <= passed'
  BY <1>1, <1>2, Numbers DEF Inv
<1>4. TypeOK'
  BY <1>1, <1>2, <1>3, Numbers DEF Inv, TypeOK, FeedTypeOK, loopVars, serverVars, connVars
<1>5. NothingMissed'
  BY <1>1, <1>2, <1>3, Numbers DEF Inv, NothingMissed, loopVars, connVars
<1>6. NothingLeftBehind'
  BY <1>1, Numbers DEF Inv, NothingLeftBehind
<1> QED BY <1>2, <1>3, <1>4, <1>5, <1>6, Numbers DEF Inv, loopVars

\* Every step preserves the invariant.
LEMMA NextInv == Inv /\ [Next]_vars => Inv'
<1> SUFFICES ASSUME Inv, [Next]_vars PROVE Inv'
  OBVIOUS
<1>1. CASE receiveUnreadable
  BY <1>1, Numbers DEF receiveUnreadable, Inv, TypeOK, FeedTypeOK, NothingMissed, NothingLeftBehind,
                       feedVars, serverVars
<1>2. CASE feedPublishes \/ feedForgets
  BY <1>2, Numbers DEF feedPublishes, feedForgets, Inv, TypeOK, FeedTypeOK, NothingMissed,
                       NothingLeftBehind, feedVars, loopVars, connVars
<1>3. CASE UNCHANGED vars
  BY <1>3 DEF vars, feedVars, loopVars, serverVars, connVars, Inv, TypeOK, FeedTypeOK, NothingMissed,
              NothingLeftBehind
<1> QED
  BY <1>1, <1>2, <1>3, LoopNext, ConnectNext, ReceiveNext, VerifierNext DEF Next

\* The inductive invariant.
THEOREM FeedInvariant == Spec => []Inv
  BY InitInv, NextInv, PTL DEF Spec

\* TypeOK, and with it that readLoop never waits as long as twice maxBackoff.
THEOREM FeedTypeCorrect == Spec => []TypeOK
  BY FeedInvariant, PTL DEF Inv

\* Every message that was sent and that lies at or past the furthest the verifier has
\* been since the dial is in the buffer, however old the number was that readLoop
\* asked for and wherever the verifier was moved.
THEOREM FeedNothingMissed == Spec => []NothingMissed
  BY FeedInvariant, PTL DEF Inv

\* Nothing behind the verifier is in the buffer.
THEOREM FeedNothingLeftBehind == Spec => []NothingLeftBehind
  BY FeedInvariant, PTL DEF Inv
=============================================================================
