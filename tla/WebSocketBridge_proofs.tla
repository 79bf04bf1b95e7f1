------------------------ MODULE WebSocketBridge_proofs ------------------------
(***************************************************************************)
(* WebSocketBridge, for any messages and statuses and any number of        *)
(* messages: its types, that nothing stays open, that every status that a  *)
(* peer is sent has its cause, and that the bridge is transparent.         *)
(***************************************************************************)
EXTENDS WebSocketBridge, SequenceTheorems, WellFoundedInduction, TLAPS

LEMMA InitInv == Init => BridgeInv
BY DEF Init, BridgeInv, TypeOK, NothingLeftOpen, StatusHasCause, Sides, Loops

\* What was sent and closed stays so; a cause, once it is there, stays a cause.
CausesStay ==
  /\ \A p \in Sides : \A msgs : wasSent(p, msgs) => wasSent(p, msgs)'
  /\ \A p \in Sides : peerClose[p] # NoStatus => peerClose'[p] = peerClose[p]
  /\ \A p \in Sides : conn[p] = "closed" /\ closedWith[p] = NoStatus =>
                        conn'[p] = "closed" /\ closedWith'[p] = NoStatus

LEMMA EndCauseStays == ASSUME CausesStay, endHasCause PROVE endHasCause'
BY DEF CausesStay, endHasCause, refusedSent, Sides

LEMMA CauseStays ==
  ASSUME CausesStay, conn["upstream"] = "none" => conn'["upstream"] = "none",
         NEW st, st # NoStatus, hasCause(st)
  PROVE  hasCause(st)'
<1>1. CASE st = StatusNormalClosure /\ endHasCause
  BY <1>1, EndCauseStays DEF hasCause, StatusNormalClosure
<1>2. CASE ~(st = StatusNormalClosure /\ endHasCause)
  BY <1>2 DEF CausesStay, hasCause, refusedSent, Sides
<1> QED
  BY <1>1, <1>2

\* Once there are two loops, a status in hand is one to end for, and so is a closed
\* connection.
LEMMA StatusIsCause ==
  ASSUME BridgeInv, pc["bridge"] # "down", NEW st, st # NoStatus, hasCause(st)
  PROVE  endHasCause
BY DEF BridgeInv, hasCause, endHasCause, wasSent, Unreadable, Sides

LEMMA ClosedForCause ==
  ASSUME BridgeInv, pc["bridge"] # "down", NEW s \in Sides, conn[s] = "closed"
  PROVE  endHasCause
<1>1. CASE closedWith[s] = NoStatus
  BY <1>1 DEF endHasCause
<1>2. CASE closedWith[s] # NoStatus
  BY <1>2, StatusIsCause DEF BridgeInv, StatusHasCause
<1> QED
  BY <1>1, <1>2

\* A message in the queue was sent.
LEMMA QueuedWasSent ==
  ASSUME BridgeInv, NEW s \in Sides, incoming[s] # <<>>, NEW msgs, Head(incoming[s]) \in msgs
  PROVE  wasSent(s, msgs)
<1>1. incoming[s] \in Seq(Requests \cup Answers)
  BY DEF BridgeInv, TypeOK
<1>2. 1 \in DOMAIN incoming[s] /\ Head(incoming[s]) = incoming[s][1]
  BY <1>1
<1> QED
  BY <1>2 DEF BridgeInv, wasSent

\* A step of a loop, which sends nothing for a peer and reopens nothing.
LEMMA LoopCausesStay ==
  ASSUME UNCHANGED <<peerClose, sent>>,
         \A p \in Sides : conn[p] = "closed" /\ closedWith[p] = NoStatus =>
                            conn'[p] = "closed" /\ closedWith'[p] = NoStatus
  PROVE  CausesStay
BY DEF CausesStay, wasSent

\* A step of a peer: no goroutine moves and nothing is closed by the proxy.
LEMMA KeptInv ==
  ASSUME BridgeInv, CausesStay, UNCHANGED <<closedWith, incoming, sent, received, pc, held, status, ctx>>,
         peerClose' \in [Sides -> Statuses \cup {NoStatus}],
         conn' \in [Sides -> {"none", "open", "closed"}],
         \A p \in Sides : conn'[p] = conn[p] \/ (conn[p] = "open" /\ conn'[p] = "closed")
  PROVE  BridgeInv'
<1>1. (endHasCause => endHasCause') /\ (refusedSent => refusedSent')
  BY EndCauseStays DEF refusedSent, CausesStay, Sides
<1>2. \A st : st # NoStatus /\ hasCause(st) => hasCause(st)'
  BY CauseStays DEF Sides
<1>3. TypeOK' /\ NothingLeftOpen'
  BY DEF BridgeInv, TypeOK, NothingLeftOpen
<1>4. StatusHasCause' /\ \A g \in Loops : pc'[g] \in {"forwardClose", "returnClose"} => hasCause(status[g])'
  BY <1>2 DEF BridgeInv, TypeOK, StatusHasCause
<1> QED
  BY <1>1, <1>3, <1>4 DEF BridgeInv, Sides

\* The peers: a message is queued behind the others and was sent; a status, once it
\* was sent, stays; a connection that was open is lost.
LEMMA SendInv == ASSUME BridgeInv, NEW s \in Sides, NEW m, send(s, m) PROVE BridgeInv'
<1>1. /\ m \in Requests \cup Answers
      /\ incoming \in [Sides -> Seq(Requests \cup Answers)] /\ sent \in [Sides -> Seq(Requests \cup Answers)]
      /\ incoming' = [incoming EXCEPT ![s] = Append(@, m)]
      /\ sent' = [sent EXCEPT ![s] = Append(@, m)]
      /\ UNCHANGED <<conn, closedWith, peerClose, received, pc, held, status, ctx>>
  BY DEF send, BridgeInv, TypeOK, connVars, peerVars
<1>2. /\ incoming' \in [Sides -> Seq(Requests \cup Answers)]
      /\ sent' \in [Sides -> Seq(Requests \cup Answers)]
  BY <1>1
<1>3. ASSUME NEW p \in Sides, NEW i \in DOMAIN sent[p]
      PROVE  i \in DOMAIN sent'[p] /\ sent'[p][i] = sent[p][i]
  BY <1>1
<1>4. ASSUME NEW p \in Sides
      PROVE  \A i \in DOMAIN incoming'[p] : \E j \in DOMAIN sent'[p] : sent'[p][j] = incoming'[p][i]
  <2>1. CASE s # p
    BY <1>1, <2>1 DEF BridgeInv
  <2>2. CASE s = p
    <3> DEFINE q == incoming[p]
               l == sent[p]
    <3>1. q \in Seq(Requests \cup Answers) /\ l \in Seq(Requests \cup Answers)
      BY <1>1
    <3>2. incoming'[p] = Append(q, m) /\ sent'[p] = Append(l, m)
      BY <1>1, <2>2
    <3>3. \A i \in DOMAIN q : \E j \in DOMAIN l : l[j] = q[i]
      BY DEF BridgeInv
    <3> HIDE DEF q, l
    <3>4. Len(l) + 1 \in DOMAIN Append(l, m) /\ Append(l, m)[Len(l) + 1] = m
      BY <1>1, <3>1
    <3>5. \A j \in DOMAIN l : j \in DOMAIN Append(l, m) /\ Append(l, m)[j] = l[j]
      BY <1>1, <3>1
    <3>6. ASSUME NEW i \in DOMAIN Append(q, m)
          PROVE  \E j \in DOMAIN Append(l, m) : Append(l, m)[j] = Append(q, m)[i]
      <4>1. (i \in DOMAIN q /\ Append(q, m)[i] = q[i]) \/ Append(q, m)[i] = m
        BY <1>1, <3>1
      <4> QED
        BY <4>1, <3>3, <3>4, <3>5
    <3> QED
      BY <3>2, <3>6
  <2> QED
    BY <2>1, <2>2
<1>5. \A p \in Sides : \A msgs : wasSent(p, msgs) => wasSent(p, msgs)'
  BY <1>3 DEF wasSent
<1>6. CausesStay
  BY <1>1, <1>5 DEF CausesStay
<1>7. TypeOK' /\ NothingLeftOpen'
  BY <1>1, <1>2 DEF BridgeInv, TypeOK, NothingLeftOpen
<1>8. StatusHasCause'
  BY <1>1, <1>6, CauseStays DEF BridgeInv, StatusHasCause
<1>9. \A g \in Loops : pc'[g] \in {"forwardClose", "returnClose"} => hasCause(status[g])'
  BY <1>1, <1>6, CauseStays DEF BridgeInv, TypeOK
<1>10. (endHasCause => endHasCause') /\ (refusedSent => refusedSent')
  BY <1>5, <1>6, EndCauseStays DEF refusedSent, Sides
<1> QED
  BY <1>1, <1>2, <1>4, <1>7, <1>8, <1>9, <1>10, Zenon DEF BridgeInv

LEMMA PeerInv == ASSUME BridgeInv, peerStep PROVE BridgeInv'
<1>1. ASSUME NEW s \in Sides, NEW st \in Statuses, sendClose(s, st) PROVE BridgeInv'
  <2>1. /\ peerClose[s] = NoStatus /\ peerClose' = [peerClose EXCEPT ![s] = st]
        /\ UNCHANGED <<conn, closedWith, incoming, sent, received, pc, held, status, ctx>>
    BY <1>1 DEF sendClose, connVars
  <2>2. CausesStay
    BY <2>1 DEF CausesStay, wasSent, BridgeInv, TypeOK
  <2> QED
    BY <1>1, <2>1, <2>2, KeptInv DEF BridgeInv, TypeOK
<1>2. ASSUME NEW s \in Sides, lost(s) PROVE BridgeInv'
  <2>1. /\ conn[s] = "open" /\ conn' = [conn EXCEPT ![s] = "closed"]
        /\ UNCHANGED <<closedWith, peerClose, incoming, sent, received, pc, held, status, ctx>>
    BY <1>2 DEF lost, peerVars
  <2>2. CausesStay
    BY <2>1, LoopCausesStay DEF BridgeInv, TypeOK
  <2> QED
    BY <1>2, <2>1, <2>2, KeptInv DEF BridgeInv, TypeOK, Sides
<1> QED
  BY <1>1, <1>2, SendInv, SMTT(30) DEF peerStep

\* ServeHTTP before the loops begin.
LEMMA UpgradeInv == ASSUME BridgeInv, Upgrade \/ upgradeFails PROVE BridgeInv'
BY DEF Upgrade, upgradeFails, BridgeInv, TypeOK, NothingLeftOpen, StatusHasCause, hasCause,
       refusedSent, Sides, Loops, connVars, peerVars

LEMMA DialInv == ASSUME BridgeInv, Dial PROVE BridgeInv'
<1>1. /\ pc["handler"] = "dial" /\ conn' = [conn EXCEPT !["upstream"] = "open"]
      /\ pc' = [g \in Loops |-> "loop"]
      /\ UNCHANGED <<closedWith, incoming, peerClose, sent, received, held, status, ctx>>
  BY DEF Dial, peerVars
<1>2. /\ pc["bridge"] = "down" /\ \A s \in Sides : closedWith[s] = NoStatus
      /\ \A g \in Loops : held[g] = NothingHeld
  BY <1>1 DEF BridgeInv, TypeOK, Loops
<1>3. conn["downstream"] # "none"
  BY <1>1 DEF BridgeInv
<1>4. /\ conn' \in [Sides -> {"none", "open", "closed"}] /\ \A s \in Sides : conn'[s] # "none"
      /\ \A g \in Loops : pc'[g] = "loop"
  BY <1>1, <1>3 DEF BridgeInv, TypeOK, Sides
<1>5. TypeOK'
  BY <1>1, <1>2, <1>4 DEF BridgeInv, TypeOK
<1>6. NothingLeftOpen' /\ StatusHasCause'
  BY <1>1, <1>2, <1>4, SMTT(30) DEF NothingLeftOpen, StatusHasCause
<1> QED
  BY <1>1, <1>4, <1>5, <1>6 DEF BridgeInv, Loops

LEMMA DialFailsInv == ASSUME BridgeInv, dialFails PROVE BridgeInv'
BY SMTT(30) DEF dialFails, Close, BridgeInv, TypeOK, NothingLeftOpen, StatusHasCause, hasCause, refusedSent,
       Sides, Loops, connVars, peerVars

\* A step of a goroutine in its loop, to the label l: what it closes, it closes with a
\* status that has its cause, and it gives up for a cause.
LEMMA GoroutineInv ==
  ASSUME BridgeInv, NEW g \in Loops, NEW l, pc["bridge"] # "down",
         pc[g] \notin {"down", "dial", "done"}, pc' = [pc EXCEPT ![g] = l],
         l \in {"loop", "read", "refuse", "write", "forwardClose", "returnClose",
               "closeUpstream", "closeDownstream", "done"},
         UNCHANGED <<peerClose, sent>>,
         incoming' = incoming \/ \E s \in Sides :
                       incoming[s] # <<>> /\ incoming' = [incoming EXCEPT ![s] = Tail(@)],
         conn' \in [Sides -> {"none", "open", "closed"}],
         DOMAIN closedWith' = Sides, DOMAIN status' = Loops, DOMAIN held' = Loops,
         \A s \in Sides : conn'[s] = conn[s] \/ conn'[s] = "closed",
         \A s \in Sides : \/ closedWith'[s] = closedWith[s]
                          \/ conn[s] = "open" /\ hasCause(closedWith'[s]),
         \A h \in Loops : held'[h] # NothingHeld => pc'[h] = "write",
         \A h \in Loops : h # g => status'[h] = status[h],
         l \in {"forwardClose", "returnClose"} => status'[g] # NoStatus /\ hasCause(status'[g]),
         l \in {"closeUpstream", "closeDownstream", "done"} => endHasCause,
         l = "refuse" => g = "bridge" /\ refusedSent,
         l \in {"closeDownstream", "done"} => conn'["upstream"] = "closed",
         l = "done" => conn'["downstream"] = "closed",
         ctx' = ctx \/ (g = "handler" /\ l = "done" /\ ctx' = "cancelled")
  PROVE  BridgeInv'
<1>1. /\ \A h \in Loops : pc'[h] = IF h = g THEN l ELSE pc[h]
      /\ pc'["bridge"] # "down" /\ "bridge" \in Loops /\ "handler" \in Loops
      /\ pc["handler"] \notin {"down", "dial"} /\ pc'["handler"] \notin {"down", "dial"}
  BY DEF BridgeInv, TypeOK, Loops
<1>2. CausesStay
  BY LoopCausesStay DEF Sides
<1>3. (endHasCause => endHasCause') /\ (refusedSent => refusedSent')
  BY <1>2, EndCauseStays DEF refusedSent, CausesStay, Sides
<1>4. \A st : st # NoStatus /\ hasCause(st) => hasCause(st)'
  BY <1>2, CauseStays DEF BridgeInv, Sides
<1>5. /\ incoming' \in [Sides -> Seq(Requests \cup Answers)]
      /\ \A s \in Sides : \A i \in DOMAIN incoming'[s] : \E j \in DOMAIN sent[s] : sent[s][j] = incoming'[s][i]
  <2>1. incoming \in [Sides -> Seq(Requests \cup Answers)]
    BY DEF BridgeInv, TypeOK
  <2>2. \A s \in Sides : \A i \in DOMAIN incoming[s] : \E j \in DOMAIN sent[s] : sent[s][j] = incoming[s][i]
    BY DEF BridgeInv
  <2>3. CASE incoming' = incoming
    BY <2>1, <2>2, <2>3
  <2>4. ASSUME NEW s \in Sides, incoming[s] # <<>>, incoming' = [incoming EXCEPT ![s] = Tail(@)]
        PROVE  <1>5!:
    <3> DEFINE q == incoming[s]
    <3>1. /\ Tail(q) \in Seq(Requests \cup Answers)
          /\ \A i \in DOMAIN Tail(q) : i + 1 \in DOMAIN q /\ Tail(q)[i] = q[i + 1]
      BY <2>1, <2>4
    <3>2. incoming'[s] = Tail(q) /\ \A p \in Sides : p # s => incoming'[p] = incoming[p]
      BY <2>1, <2>4
    <3>3. incoming' \in [Sides -> Seq(Requests \cup Answers)]
      BY <2>1, <2>4, <3>1
    <3>4. ASSUME NEW p \in Sides, NEW i \in DOMAIN incoming'[p]
          PROVE  \E j \in DOMAIN sent[p] : sent[p][j] = incoming'[p][i]
      <4>1. CASE p = s
        <5>1. i + 1 \in DOMAIN q /\ incoming'[p][i] = q[i + 1]
          BY <3>1, <3>2, <3>4, <4>1, ZenonT(30)
        <5> QED
          BY <2>2, <4>1, <5>1
      <4>2. CASE p # s
        BY <2>2, <3>2, <3>4, <4>2
      <4> QED
        BY <4>1, <4>2
    <3> QED
      BY <3>3, <3>4
  <2> QED
    BY <2>3, <2>4, Zenon
<1>6. TypeOK'
  <2>1. pc' \in [Loops -> {"down", "dial", "loop", "read", "refuse", "write", "forwardClose",
                          "returnClose", "closeUpstream", "closeDownstream", "done"}]
    BY DEF BridgeInv, TypeOK
  <2>2. \A h \in Loops : pc'[h] \in {"forwardClose", "returnClose"} => status'[h] # NoStatus
    BY <1>1 DEF BridgeInv, TypeOK
  <2> QED
    BY <1>5, <2>1, <2>2 DEF BridgeInv, TypeOK
<1>7. NothingLeftOpen'
  BY <1>1 DEF BridgeInv, NothingLeftOpen, Sides
<1>8. StatusHasCause'
  BY <1>4, SMTT(30) DEF BridgeInv, StatusHasCause
<1>9. \A h \in Loops : pc'[h] \in {"forwardClose", "returnClose"} => hasCause(status[h])'
  BY <1>1, <1>4, SMTT(30) DEF BridgeInv, TypeOK
<1>10. \A h \in Loops : pc'["bridge"] # "down" /\ pc'[h] \in {"closeUpstream", "closeDownstream", "done"} =>
         endHasCause'
  BY <1>1, <1>3, SMTT(30) DEF BridgeInv
<1>11. /\ \A h \in Loops : pc'[h] = "closeDownstream" => conn'["upstream"] = "closed"
       /\ \A s \in Sides : conn'[s] # "none"
       /\ ctx' = "cancelled" => pc'["handler"] = "done"
       /\ pc'["bridge"] # "dial" /\ pc'["handler"] # "refuse" /\ (pc'["bridge"] = "refuse" => refusedSent')
  BY <1>1, <1>3, SMTT(30) DEF BridgeInv, Sides
<1>12. sent' \in [Sides -> Seq(Requests \cup Answers)] /\ pc'["handler"] # "dial"
  BY <1>1 DEF BridgeInv
<1>13. \A s \in Sides : \A i \in DOMAIN incoming'[s] : \E j \in DOMAIN sent'[s] : sent'[s][j] = incoming'[s][i]
  <2>1. sent' = sent
    OBVIOUS
  <2> QED
    BY <1>5, <2>1, SMTT(30)
<1> QED
  BY <1>1, <1>6, <1>7, <1>8, <1>9, <1>10, <1>11, <1>12, <1>13, ZenonT(30) DEF BridgeInv

\* The hypotheses of GoroutineInv that a goroutine in its loop fulfils, and those that
\* a step fulfils that closes a connection or none.
LEMMA InTheLoop ==
  ASSUME BridgeInv, NEW g \in Loops, pc[g] \notin {"down", "dial", "done"}
  PROVE  pc["bridge"] # "down" /\ source(g) \in Sides /\ target(g) \in Sides
BY DEF BridgeInv, Loops, Sides, source, target

LEMMA ClosingInv ==
  ASSUME BridgeInv, NEW g \in Loops, NEW l, NEW s \in Sides, NEW st,
         pc[g] \notin {"down", "dial", "done"}, goto(g, l),
         l \in {"forwardClose", "closeUpstream", "closeDownstream", "done"},
         Close(s, st), hasCause(st), endHasCause,
         UNCHANGED <<peerClose, sent, held>>, pc[g] # "write",
         incoming' = incoming \/ (incoming[s] # <<>> /\ incoming' = [incoming EXCEPT ![s] = Tail(@)]),
         \/ status' = status
         \/ status' = [status EXCEPT ![g] = st] /\ st # NoStatus,
         l = "forwardClose" => status'[g] = st /\ st # NoStatus,
         l = "closeDownstream" => s = "upstream",
         l = "done" => s = "downstream" /\ pc[g] = "closeDownstream",
         ctx' = ctx \/ (g = "handler" /\ l = "done" /\ ctx' = "cancelled")
  PROVE  BridgeInv'
<1>1. pc["bridge"] # "down"
  BY InTheLoop
<1>2. /\ conn' \in [Sides -> {"none", "open", "closed"}] /\ DOMAIN closedWith' = Sides
      /\ conn'[s] = "closed" /\ \A p \in Sides : p # s => conn'[p] = conn[p] /\ closedWith'[p] = closedWith[p]
      /\ closedWith'[s] = closedWith[s] \/ (conn[s] = "open" /\ closedWith'[s] = st)
  BY SMTT(30) DEF Close, BridgeInv, TypeOK
<1>3. /\ DOMAIN status' = Loops /\ DOMAIN held' = Loops
      /\ \A h \in Loops : h # g => status'[h] = status[h]
      /\ \A h \in Loops : held'[h] # NothingHeld => pc'[h] = "write"
  BY SMTT(30) DEF BridgeInv, TypeOK, goto
<1>4. l \in {"closeDownstream", "done"} => conn'["upstream"] = "closed"
  BY <1>2, ZenonT(30) DEF BridgeInv, Sides
<1>5. \A p \in Sides : conn'[p] = conn[p] \/ conn'[p] = "closed"
  BY <1>2, Zenon
<1>6. \A p \in Sides : closedWith'[p] = closedWith[p] \/ (conn[p] = "open" /\ hasCause(closedWith'[p]))
  BY <1>2, Zenon
<1>7. l \in {"forwardClose", "returnClose"} => status'[g] # NoStatus /\ hasCause(status'[g])
  OBVIOUS
<1>8. l = "done" => conn'["downstream"] = "closed"
  BY <1>2, Zenon
<1>9. pc' = [pc EXCEPT ![g] = l]
  BY DEF goto
<1>10. l # "refuse" /\ l \in {"loop", "read", "refuse", "write", "forwardClose", "returnClose",
                             "closeUpstream", "closeDownstream", "done"}
  OBVIOUS
<1>11. incoming' = incoming \/ \E p \in Sides :
         incoming[p] # <<>> /\ incoming' = [incoming EXCEPT ![p] = Tail(@)]
  OBVIOUS
<1> QED
  BY <1>1, <1>2, <1>3, <1>4, <1>5, <1>6, <1>7, <1>8, <1>9, <1>10, <1>11, GoroutineInv, Zenon

\* A step that closes nothing with a status; it may find a connection broken.
LEMMA PlainInv ==
  ASSUME BridgeInv, NEW g \in Loops, NEW l, pc[g] \notin {"down", "dial", "done"}, goto(g, l),
         l \in {"loop", "read", "refuse", "write", "forwardClose", "returnClose", "closeUpstream"},
         UNCHANGED <<closedWith, peerClose, sent, ctx>>,
         incoming' = incoming \/ (incoming[source(g)] # <<>> /\ incoming' = [incoming EXCEPT ![source(g)] = Tail(@)]),
         conn' = conn \/ \E s \in Sides : conn' = [conn EXCEPT ![s] = "closed"],
         (held' = held /\ pc[g] # "write") \/ (held' = [held EXCEPT ![g] = NothingHeld])
           \/ (l = "write" /\ \E m : held' = [held EXCEPT ![g] = m]),
         status' = status \/ \E st : status' = [status EXCEPT ![g] = st],
         l \in {"forwardClose", "returnClose"} => status'[g] # NoStatus /\ hasCause(status'[g]),
         l = "closeUpstream" => endHasCause,
         l = "refuse" => g = "bridge" /\ refusedSent
  PROVE  BridgeInv'
<1>1. pc["bridge"] # "down" /\ source(g) \in Sides
  BY InTheLoop
<1>2. /\ conn' \in [Sides -> {"none", "open", "closed"}] /\ DOMAIN closedWith' = Sides
      /\ \A p \in Sides : conn'[p] = conn[p] \/ conn'[p] = "closed"
  BY DEF BridgeInv, TypeOK
<1>3. /\ DOMAIN status' = Loops /\ DOMAIN held' = Loops
      /\ \A h \in Loops : h # g => status'[h] = status[h]
  BY SMTT(30) DEF BridgeInv
<1>4. \A h \in Loops : held'[h] # NothingHeld => pc'[h] = "write"
  BY DEF BridgeInv, TypeOK, goto
<1>5. pc' = [pc EXCEPT ![g] = l] /\ l \notin {"closeDownstream", "done"}
  BY DEF goto
<1>6. l \in {"loop", "read", "refuse", "write", "forwardClose", "returnClose",
            "closeUpstream", "closeDownstream", "done"}
  OBVIOUS
<1>7. incoming' = incoming \/ \E p \in Sides :
        incoming[p] # <<>> /\ incoming' = [incoming EXCEPT ![p] = Tail(@)]
  BY <1>1
<1>8. \A p \in Sides : closedWith'[p] = closedWith[p]
  OBVIOUS
<1> QED
  BY <1>1, <1>2, <1>3, <1>4, <1>5, <1>6, <1>7, <1>8, GoroutineInv, ZenonT(30)

\* The loops: a message that is read was in the queue.
LEMMA ReadInv == ASSUME BridgeInv, NEW g \in Loops, Read(g) PROVE BridgeInv'
<1>1. /\ pc[g] = "read" /\ incoming[source(g)] # <<>>
      /\ incoming' = [incoming EXCEPT ![source(g)] = Tail(@)]
      /\ UNCHANGED <<conn, closedWith, peerClose, sent, status, ctx>>
  BY DEF Read, connVars
<1>2. CASE g = "bridge" /\ Head(incoming[source(g)]) \in Refused
  <2>1. goto(g, "refuse") /\ UNCHANGED held
    BY <1>2 DEF Read
  <2>2. refusedSent
    BY <1>1, <1>2, QueuedWasSent DEF refusedSent, source, Sides
  <2> QED
    BY <1>1, <1>2, <2>1, <2>2, PlainInv, Zenon
<1>3. CASE ~(g = "bridge" /\ Head(incoming[source(g)]) \in Refused)
  <2>1. goto(g, "write") /\ \E m : held' = [held EXCEPT ![g] = m]
    BY <1>3 DEF Read
  <2> QED
    BY <1>1, <2>1, PlainInv, Zenon
<1> QED
  BY <1>2, <1>3

LEMMA ReadUnreadableInv == ASSUME BridgeInv, NEW g \in Loops, readUnreadable(g) PROVE BridgeInv'
<1> DEFINE m == Head(incoming[source(g)])
           st == IF m \in TooBig THEN StatusMessageTooBig ELSE StatusProtocolError
<1>1. /\ pc[g] = "read" /\ incoming[source(g)] # <<>> /\ m \in Unreadable
      /\ Close(source(g), st) /\ goto(g, "closeUpstream")
      /\ incoming' = [incoming EXCEPT ![source(g)] = Tail(@)]
      /\ UNCHANGED <<peerClose, sent, held, status, ctx>>
  BY DEF readUnreadable
<1>2. source(g) \in Sides
  BY <1>1, InTheLoop
<1>3. wasSent(source(g), Unreadable)
  BY <1>1, <1>2, QueuedWasSent
<1>4. IF m \in TooBig THEN wasSent(source(g), TooBig) ELSE wasSent(source(g), Malformed)
  BY <1>1, <1>2, QueuedWasSent DEF Unreadable
<1>5. hasCause(st) /\ endHasCause
  BY <1>2, <1>3, <1>4 DEF hasCause, endHasCause
<1> QED
  BY <1>1, <1>2, <1>5, ClosingInv, Zenon

LEMMA ReadFailsInv ==
  ASSUME BridgeInv, NEW g \in Loops, readCloseError(g) \/ readEcho(g) \/ readFails(g) PROVE BridgeInv'
<1>1. pc[g] = "read" /\ pc["bridge"] # "down" /\ source(g) \in Sides
  BY InTheLoop DEF readCloseError, readEcho, readFails
<1>2. CASE readCloseError(g)
  <2> DEFINE st == peerClose[source(g)]
  <2>1. /\ Close(source(g), st) /\ goto(g, "forwardClose") /\ st # NoStatus
        /\ status' = [status EXCEPT ![g] = st] /\ UNCHANGED <<peerClose, sent, incoming, held, ctx>>
    BY <1>2 DEF readCloseError, peerVars
  <2>2. hasCause(st) /\ endHasCause /\ status'[g] = st
    BY <1>1, <2>1, Zenon DEF hasCause, endHasCause, BridgeInv
  <2> HIDE DEF st
  <2> QED
    BY <1>1, <2>1, <2>2, ClosingInv, Zenon
<1>3. CASE readEcho(g)
  <2>1. /\ goto(g, "forwardClose") /\ closedWith[source(g)] # NoStatus
        /\ status' = [status EXCEPT ![g] = closedWith[source(g)]]
        /\ UNCHANGED <<conn, closedWith, peerClose, sent, incoming, held, ctx>>
    BY <1>3, SMTT(30) DEF readEcho, peerVars, connVars
  <2>2. hasCause(closedWith[source(g)]) /\ status'[g] = closedWith[source(g)]
    BY <1>1, <2>1 DEF BridgeInv, StatusHasCause
  <2> QED
    BY <1>1, <2>1, <2>2, PlainInv, Zenon
<1>4. CASE readFails(g)
  <2>1. endHasCause
    BY <1>1, <1>4, ClosedForCause, ZenonT(30) DEF readFails, BridgeInv, Loops
  <2> QED
    BY <1>1, <1>4, <2>1, PlainInv, ZenonT(30) DEF readFails, peerVars
<1> QED
  BY <1>2, <1>3, <1>4

LEMMA WriteInv ==
  ASSUME BridgeInv, NEW g \in Loops, Write(g) \/ writeCloseError(g) \/ writeFails(g) PROVE BridgeInv'
<1>1. pc[g] = "write" /\ pc["bridge"] # "down" /\ target(g) \in Sides
  BY InTheLoop DEF Write, writeCloseError, writeFails
<1>2. CASE Write(g)
  BY <1>1, <1>2, PlainInv, Zenon DEF Write, peerVars, connVars
<1>3. CASE writeCloseError(g)
  <2>1. /\ goto(g, "returnClose") /\ closedWith[target(g)] # NoStatus
        /\ status' = [status EXCEPT ![g] = closedWith[target(g)]]
        /\ held' = [held EXCEPT ![g] = NothingHeld]
        /\ UNCHANGED <<conn, closedWith, peerClose, sent, incoming, ctx>>
    BY <1>3, ZenonT(30) DEF writeCloseError, peerVars, connVars
  <2>2. hasCause(closedWith[target(g)]) /\ status'[g] = closedWith[target(g)]
    BY <1>1, <2>1, Zenon DEF BridgeInv, StatusHasCause
  <2> QED
    BY <1>1, <2>1, <2>2, PlainInv, ZenonT(30)
<1>4. CASE writeFails(g)
  <2>1. endHasCause
    BY <1>1, <1>4, ClosedForCause DEF writeFails, BridgeInv, Loops
  <2> QED
    BY <1>1, <1>4, <2>1, PlainInv, Zenon DEF writeFails, peerVars
<1> QED
  BY <1>2, <1>3, <1>4

LEMMA CloseInv ==
  ASSUME BridgeInv, NEW g \in Loops,
         forwardClose(g) \/ returnClose(g) \/ closeUpstream(g) \/ closeDownstream(g)
  PROVE  BridgeInv'
<1>1. /\ pc[g] \in {"forwardClose", "returnClose", "closeUpstream", "closeDownstream"}
      /\ pc["bridge"] # "down" /\ source(g) \in Sides /\ target(g) \in Sides
      /\ UNCHANGED <<peerClose, sent, incoming, held, status>>
  BY InTheLoop, SMTT(30) DEF forwardClose, returnClose, closeUpstream, closeDownstream, peerVars
<1>2. endHasCause /\ (pc[g] \in {"forwardClose", "returnClose"} => hasCause(status[g]))
  <2>1. pc[g] \in {"forwardClose", "returnClose"} => hasCause(status[g]) /\ status[g] # NoStatus
    BY Zenon DEF BridgeInv, TypeOK
  <2> QED
    BY <1>1, <2>1, StatusIsCause DEF BridgeInv
<1>3. hasCause(StatusNormalClosure)
  BY <1>2, Zenon DEF hasCause
<1>4. CASE forwardClose(g)
  BY <1>1, <1>2, <1>4, ClosingInv DEF forwardClose
<1>5. CASE returnClose(g)
  BY <1>1, <1>2, <1>5, ClosingInv DEF returnClose
<1>6. CASE closeUpstream(g)
  BY <1>1, <1>2, <1>3, <1>6, ClosingInv DEF closeUpstream, Sides
<1>7. CASE closeDownstream(g)
  <2>1. ctx' = ctx \/ (g = "handler" /\ ctx' = "cancelled")
    BY <1>7 DEF closeDownstream
  <2> QED
    BY <1>1, <1>2, <1>3, <1>7, <2>1, ClosingInv DEF closeDownstream, Sides
<1> QED
  BY <1>4, <1>5, <1>6, <1>7

LEMMA LoopInv == ASSUME BridgeInv, NEW g \in Loops, loopStep(g) PROVE BridgeInv'
<1>1. CASE ReadAllMessages(g)
  <2>1. /\ pc[g] = "loop" /\ goto(g, IF ctx = "live" THEN "read" ELSE "closeUpstream")
        /\ UNCHANGED <<conn, closedWith, peerClose, sent, incoming, held, status, ctx>>
    BY <1>1 DEF ReadAllMessages, peerVars, connVars
  <2>2. pc["bridge"] # "down"
    BY <2>1, InTheLoop, SMTT(30)
  <2>3. ctx # "live" => endHasCause
    BY <2>2 DEF BridgeInv, TypeOK, Loops
  <2> QED
    BY <2>1, <2>3, PlainInv
<1> QED
  BY <1>1, ReadInv, ReadUnreadableInv, ReadFailsInv, WriteInv, CloseInv, Zenon DEF loopStep, ownStep

\* A refused request is answered with an error.
LEMMA RefuseInv == ASSUME BridgeInv, refuseStep PROVE BridgeInv'
<1>1. pc["bridge"] = "refuse" /\ "bridge" \in Loops /\ "downstream" \in Sides
  BY SMTT(30) DEF refuseStep, WriteJSONRPCResponseToWebSocket, responseFails, Loops, Sides
<1>2. refusedSent /\ endHasCause /\ hasCause(StatusProtocolError)
  BY <1>1 DEF BridgeInv, endHasCause, hasCause
<1>3. CASE WriteJSONRPCResponseToWebSocket
  BY <1>1, <1>2, <1>3, PlainInv DEF WriteJSONRPCResponseToWebSocket, peerVars, connVars
<1>4. CASE responseFails
  BY <1>1, <1>2, <1>4, ClosingInv DEF responseFails, peerVars
<1> QED
  BY <1>3, <1>4 DEF refuseStep

LEMMA NextInv == BridgeInv /\ [Next]_vars => BridgeInv'
<1> SUFFICES ASSUME BridgeInv, [Next]_vars PROVE BridgeInv'
  OBVIOUS
<1>1. CASE UNCHANGED vars
  <2>1. UNCHANGED <<conn, closedWith, incoming, peerClose, sent, received, pc, held, status, ctx>>
    BY <1>1, SMTT(30) DEF vars, connVars, peerVars
  <2>2. TypeOK' /\ NothingLeftOpen'
    BY <2>1 DEF BridgeInv, TypeOK, NothingLeftOpen
  <2>3. CausesStay
    BY <2>1, LoopCausesStay
  <2> QED
    BY <2>1, <2>2, <2>3, KeptInv DEF TypeOK
<1> QED
  BY <1>1, PeerInv, UpgradeInv, DialInv, DialFailsInv, LoopInv, RefuseInv DEF Next

\* The inductive invariant of a bridged connection.
THEOREM BridgeInvariant == Spec => []BridgeInv
BY InitInv, NextInv, PTL DEF Spec

\* A goroutine holds a message only between a read and its write, and a status only
\* when teeReader.Read has one to pass on.
THEOREM BridgeTypeCorrect == Spec => []TypeOK
<1>1. BridgeInv => TypeOK
  BY DEF BridgeInv
<1> QED
  BY <1>1, BridgeInvariant, PTL

\* However the upgrade, the dial or the loops of ServeHTTP end, the deferred calls of
\* Close leave neither connection open.
THEOREM BridgeNothingLeftOpen == Spec => []NothingLeftOpen
<1>1. BridgeInv => NothingLeftOpen
  BY DEF BridgeInv
<1> QED
  BY <1>1, BridgeInvariant, PTL

\* Whichever goroutine closes first, the status that a peer is sent is the other
\* peer's, or one of the proxy's own that has its cause.
THEOREM BridgeStatusHasCause == Spec => []StatusHasCause
<1>1. BridgeInv => StatusHasCause
  BY DEF BridgeInv
<1> QED
  BY <1>1, BridgeInvariant, PTL

-----------------------------------------------------------------------------
\* Sequences: what is appended to, or taken from, a concatenation of three, and what
\* removeFirst leaves.

LEMMA AppendToConcat ==
  ASSUME NEW S, NEW s \in Seq(S), NEW t \in Seq(S), NEW e \in S
  PROVE  Append(s \o t, e) = s \o Append(t, e)
OBVIOUS

\* What arrived, what is in hand and what is still to be read.
joined(s, t, u) == s \o t \o u

LEMMA AppendToJoined ==
  ASSUME NEW S, NEW s \in Seq(S), NEW t \in Seq(S), NEW u \in Seq(S), NEW e \in S
  PROVE  Append(joined(s, t, u), e) = joined(s, t, Append(u, e))
BY SMTT(60) DEF joined

LEMMA ConcatHead ==
  ASSUME NEW S, NEW s \in Seq(S), NEW t \in Seq(S), t # <<>>
  PROVE  s \o <<>> \o t = s \o <<Head(t)>> \o Tail(t)
OBVIOUS

LEMMA ConcatAppend ==
  ASSUME NEW S, NEW s \in Seq(S), NEW t \in Seq(S), NEW e \in S
  PROVE  s \o <<e>> \o t = Append(s, e) \o <<>> \o t
OBVIOUS

LEMMA PrefixOfConcat ==
  ASSUME NEW S, NEW s \in Seq(S), NEW t \in Seq(S)
  PROVE  isPrefix(s, s \o t)
BY DEF isPrefix

LEMMA PrefixOfAppend ==
  ASSUME NEW S, NEW s \in Seq(S), NEW t \in Seq(S), NEW e \in S, isPrefix(s, t)
  PROVE  isPrefix(s, Append(t, e))
BY DEF isPrefix

LEMMA NothingToRemove ==
  ASSUME NEW S, NEW s \in Seq(S), NEW e, e \notin Range(s)
  PROVE  removeFirst(s, e) = s
BY DEF removeFirst, Range

\* The naturals are well-founded, which stands in for induction.
LEMMA LeastNatural ==
  ASSUME NEW T, T \subseteq Nat, T # {}
  PROVE  \E x \in T : \A y \in T : x <= y
<1> DEFINE R == OpToRel(<, Nat)
<1>1. IsWellFoundedOn(R, Nat)
  BY NatLessThanWellFounded, Zenon
<1>2. R = {ss \in Nat \X Nat : ss[1] < ss[2]}
  BY Zenon DEF OpToRel
<1> HIDE DEF R
<1>3. PICK x \in T : \A y \in T : ~ (<<y, x>> \in R)
  BY <1>1, WFMin, Zenon
<1>4. ASSUME NEW y \in T PROVE x <= y
  <2>1. ~ (<<y, x>> \in {ss \in Nat \X Nat : ss[1] < ss[2]})
    BY <1>2, <1>3, Zenon
  <2>2. <<y, x>>[1] = y /\ <<y, x>>[2] = x /\ <<y, x>> \in Nat \X Nat
    OBVIOUS
  <2> QED
    BY <2>1, <2>2
<1> QED
  BY <1>4

\* removeFirst splits a sequence at the first occurrence, so that it neither sees what
\* is appended after one nor leaves the only one.
LEMMA RemoveFirstAt ==
  ASSUME NEW S, NEW s \in Seq(S), NEW e, NEW k \in 1..Len(s), s[k] = e,
         \A i \in 1..Len(s) : s[i] = e => k <= i
  PROVE  removeFirst(s, e) = SubSeq(s, 1, k - 1) \o SubSeq(s, k + 1, Len(s))
<1> DEFINE at == {i \in DOMAIN s : s[i] = e}
<1>1. at \subseteq Nat /\ k \in at /\ \A i \in at : k <= i
  OBVIOUS
<1>2. Min(at) = k
  <2> HIDE DEF at
  <2>1. Min(at) \in at /\ \A i \in at : Min(at) <= i
    BY <1>1, Zenon DEF Min
  <2>2. Min(at) <= k /\ k <= Min(at) /\ Min(at) \in Nat /\ k \in Nat
    BY <1>1, <2>1, Zenon
  <2> QED
    BY <2>2
<1>3. removeFirst(s, e) = IF at = {} THEN s ELSE SubSeq(s, 1, Min(at) - 1) \o SubSeq(s, Min(at) + 1, Len(s))
  BY Zenon DEF removeFirst
<1> HIDE DEF at
<1> QED
  BY <1>1, <1>2, <1>3, Zenon

LEMMA RemoveLast ==
  ASSUME NEW S, NEW s \in Seq(S), NEW e \in S, e \notin Range(s)
  PROVE  removeFirst(Append(s, e), e) = s
<1> DEFINE r == Append(s, e)
<1>1. r \in Seq(S) /\ Len(r) = Len(s) + 1 /\ r[Len(s) + 1] = e /\ \A i \in 1..Len(s) : r[i] = s[i]
  OBVIOUS
<1>2. \A i \in 1..Len(r) : r[i] = e => Len(s) + 1 <= i
  BY <1>1 DEF Range
<1> DEFINE k == Len(s) + 1
<1> HIDE DEF r
<1>3. k \in 1..Len(r) /\ r[k] = e
  BY <1>1
<1> HIDE DEF k
<1>4. removeFirst(r, e) = SubSeq(r, 1, k - 1) \o SubSeq(r, k + 1, Len(r))
  <2>1. \A i \in 1..Len(r) : r[i] = e => k <= i
    BY <1>2 DEF k
  <2> QED
    BY <1>1, <1>3, <2>1, RemoveFirstAt, Zenon
<1>5. SubSeq(r, 1, k - 1) = s /\ SubSeq(r, k + 1, Len(r)) = <<>>
  BY <1>1 DEF k
<1>6. s \o <<>> = s
  OBVIOUS
<1> QED
  BY <1>4, <1>5, <1>6, Zenon DEF r

LEMMA RemoveBefore ==
  ASSUME NEW S, NEW s \in Seq(S), NEW e, NEW m \in S, m # e
  PROVE  removeFirst(Append(s, m), e) = Append(removeFirst(s, e), m)
<1> DEFINE T == {i \in 1..Len(s) : s[i] = e}
           r == Append(s, m)
<1>1. r \in Seq(S) /\ Len(r) = Len(s) + 1 /\ r[Len(s) + 1] = m /\ \A i \in 1..Len(s) : r[i] = s[i]
  OBVIOUS
<1>2. CASE T = {}
  <2>1. e \notin Range(s) /\ e \notin Range(r)
    BY <1>1, <1>2 DEF Range
  <2> QED
    BY <1>1, <2>1, NothingToRemove, Zenon
<1>3. CASE T # {}
  <2>1. PICK k \in T : \A i \in T : k <= i
    <3>1. T \subseteq Nat
      OBVIOUS
    <3> HIDE DEF T
    <3> QED
      BY <1>3, <3>1, LeastNatural, Zenon
  <2>2. k \in 1..Len(s) /\ s[k] = e /\ \A i \in 1..Len(s) : s[i] = e => k <= i
    BY <2>1
  <2>3. k \in 1..Len(r) /\ r[k] = e /\ \A i \in 1..Len(r) : r[i] = e => k <= i
    BY <1>1, <2>2
  <2> HIDE DEF r, T
  <2> DEFINE a == SubSeq(s, 1, k - 1)
             b == SubSeq(s, k + 1, Len(s))
  <2>4. removeFirst(s, e) = a \o b
    BY <2>2, RemoveFirstAt, Zenon
  <2>5. removeFirst(r, e) = SubSeq(r, 1, k - 1) \o SubSeq(r, k + 1, Len(r))
    BY <1>1, <2>3, RemoveFirstAt, Zenon
  <2>6. SubSeq(r, 1, k - 1) = a
    BY <1>1, <2>2
  <2>7. a \in Seq(S) /\ b \in Seq(S)
    BY <2>2
  <2>8. SubSeq(r, k + 1, Len(r)) = Append(b, m)
    <3> DEFINE t == SubSeq(r, k + 1, Len(r))
    <3>1. t \in Seq(S) /\ Len(t) = Len(r) - k /\ \A i \in 1..Len(t) : t[i] = r[k + i]
      BY <1>1, <2>2
    <3>2. b \in Seq(S) /\ Len(b) = Len(s) - k /\ \A i \in 1..Len(b) : b[i] = s[k + i]
      BY <1>1, <2>2
    <3> HIDE DEF t, b
    <3>3. /\ Append(b, m) \in Seq(S) /\ Len(Append(b, m)) = Len(s) - k + 1
          /\ \A i \in 1..Len(b) : Append(b, m)[i] = b[i]
          /\ Append(b, m)[Len(b) + 1] = m
      BY <3>2
    <3>4. Len(t) = Len(b) + 1 /\ \A i \in 1..Len(b) : t[i] = b[i]
      <4>1. Len(t) = Len(b) + 1
        BY <1>1, <2>2, <3>1, <3>2
      <4>2. ASSUME NEW i \in 1..Len(b) PROVE t[i] = b[i]
        <5>1. i \in 1..Len(t) /\ k + i \in 1..Len(s)
          BY <2>2, <3>2, <4>1
        <5> QED
          BY <1>1, <3>1, <3>2, <5>1
      <4> QED
        BY <4>1, <4>2
    <3>5. t[Len(b) + 1] = m
      BY <1>1, <2>2, <3>1, <3>2
    <3>6. \A i \in 1..Len(t) : t[i] = Append(b, m)[i]
      BY <3>2, <3>3, <3>4, <3>5
    <3>7. t = Append(b, m)
      BY <3>1, <3>2, <3>3, <3>4, <3>6, SeqEqual
    <3> QED
      BY <3>7, Zenon DEF t
  <2> HIDE DEF a, b
  <2>9. removeFirst(r, e) = a \o Append(b, m)
    BY <2>5, <2>6, <2>8, Zenon
  <2>10. a \o Append(b, m) = Append(a \o b, m)
    BY <2>7, AppendToConcat
  <2> QED
    BY <2>4, <2>9, <2>10 DEF r
<1> QED
  BY <1>2, <1>3

-----------------------------------------------------------------------------
\* One direction: what its source sends, what of it is passed on, and how each step
\* moves it.

Sendable(g) == IF g = "bridge" THEN Requests ELSE Answers
Passable(g) == IF g = "bridge" THEN {intercepted(m) : m \in Requests} ELSE Answers
passed(g, m) == IF g = "bridge" THEN intercepted(m) ELSE m

LEMMA PassedOnType ==
  ASSUME NEW g, NEW s \in Seq(Sendable(g))
  PROVE  passedOn(g, s) \in Seq(Passable(g)) /\ Len(passedOn(g, s)) = Len(s)
<1>1. CASE g # "bridge"
  BY <1>1 DEF passedOn, Sendable, Passable
<1>2. CASE g = "bridge"
  <2>1. s \in Seq(Requests) /\ passedOn(g, s) = [i \in 1..Len(s) |-> intercepted(s[i])]
    BY <1>2 DEF passedOn, Sendable
  <2>2. \A i \in 1..Len(s) : intercepted(s[i]) \in {intercepted(m) : m \in Requests}
    BY <2>1
  <2> QED
    BY <1>2, <2>1, <2>2 DEF Passable
<1> QED
  BY <1>1, <1>2

LEMMA PassedOnAppend ==
  ASSUME NEW g, NEW s \in Seq(Sendable(g)), NEW m \in Sendable(g)
  PROVE  passedOn(g, Append(s, m)) = Append(passedOn(g, s), passed(g, m))
<1>1. CASE g # "bridge"
  BY <1>1 DEF passedOn, passed
<1>2. CASE g = "bridge"
  BY <1>2 DEF passedOn, passed, Sendable
<1> QED
  BY <1>1, <1>2

LEMMA PassedOnHead ==
  ASSUME NEW g, NEW s \in Seq(Sendable(g)), s # <<>>
  PROVE  /\ passedOn(g, s) # <<>>
         /\ Head(passedOn(g, s)) = passed(g, Head(s))
         /\ Tail(passedOn(g, s)) = passedOn(g, Tail(s))
<1>1. CASE g # "bridge"
  BY <1>1 DEF passedOn, passed
<1>2. CASE g = "bridge"
  BY <1>2 DEF passedOn, passed, Sendable
<1> QED
  BY <1>1, <1>2

\* Where a goroutine is as long as it may go on.
active == {"down", "dial", "loop", "read", "write"}

\* What a goroutine may have passed on is what its source may have sent, passed on.
LEMMA ForwardablePassable == ASSUME NEW g PROVE forwardable(g) \subseteq Passable(g)
BY DEF forwardable, Passable

LEMMA ErrorNotForwardable == ASSUME NEW g PROVE errorResponse \notin forwardable(g)
<1>1. ASSUME NEW m PROVE errorResponse # intercepted(m)
  BY DEF errorResponse, intercepted
<1> QED
  BY <1>1, ErrorIsTheProxys DEF forwardable

\* The direction of g does not move: no message was sent, read or written in it, and
\* g, if it goes on, holds what it held.
LEMMA FlowKept ==
  ASSUME NEW g \in Loops, Flow(g),
         received'[target(g)] = received[target(g)],
         sent'[source(g)] = sent[source(g)],
         pc'[g] \in active => incoming'[source(g)] = incoming[source(g)],
         \/ pc'[g] = pc[g] /\ held'[g] = held[g]
         \/ pc'[g] \notin active
         \/ pc[g] \in active \ {"write"} /\ pc'[g] \in active \ {"write"}
  PROVE  Flow(g)'
<1>1. arrived(g)' = arrived(g)
  BY SMTT(30) DEF arrived
<1>2. /\ passedOn(g, sent[source(g)])' = passedOn(g, sent[source(g)])
      /\ pc'[g] \in active =>
           passedOn(g, incoming[source(g)])' = passedOn(g, incoming[source(g)])
  BY DEF passedOn
<1>3. pc'[g] \in active => pc[g] \in active /\ inHand(g)' = inHand(g)
  BY DEF inHand, active
<1>4. pc'[g] = "write" => pc[g] = "write" /\ held'[g] = held[g]
  BY DEF active
<1>5. forwardable(g)' = forwardable(g)
  BY DEF forwardable
<1> QED
  BY <1>1, <1>2, <1>3, <1>4, <1>5, Zenon DEF Flow, active

\* A message is sent.
LEMMA FlowSent ==
  ASSUME NEW g \in Loops, Flow(g), NEW m \in Sendable(g),
         sent[source(g)] \in Seq(Sendable(g)), incoming[source(g)] \in Seq(Sendable(g)),
         sent'[source(g)] = Append(sent[source(g)], m),
         incoming'[source(g)] = Append(incoming[source(g)], m),
         received'[target(g)] = received[target(g)], pc'[g] = pc[g], held'[g] = held[g]
  PROVE  Flow(g)'
<1> DEFINE P == Passable(g)
           A == arrived(g)
           H == inHand(g)
           I == passedOn(g, incoming[source(g)])
           S == passedOn(g, sent[source(g)])
           e == passed(g, m)
<1>1. e \in P
  BY DEF passed, Passable, Sendable
<1>2. A \in Seq(P) /\ H \in Seq(P) /\ I \in Seq(P) /\ S \in Seq(P)
  <2>1. A \in Seq(forwardable(g)) /\ (pc[g] = "write" => held[g] \in forwardable(g))
    BY SMTT(30) DEF Flow
  <2>2. A \in Seq(P) /\ I \in Seq(P) /\ S \in Seq(P)
    BY <2>1, PassedOnType, ForwardablePassable, SeqMonotonic, SMTT(30)
  <2>3. pc[g] = "write" => held[g] \in P
    BY <2>1, ForwardablePassable, SMTT(30)
  <2>4. H \in Seq(P)
    BY <2>3 DEF inHand
  <2> HIDE DEF P, A, H, I, S
  <2> QED
    BY <2>2, <2>4, SMTT(30)
<1>3. arrived(g)' = A /\ inHand(g)' = H /\ forwardable(g)' = forwardable(g)
  BY DEF arrived, inHand, forwardable
<1>4. /\ passedOn(g, sent[source(g)])' = Append(S, e)
      /\ passedOn(g, incoming[source(g)])' = Append(I, e)
  <2>1. /\ passedOn(g, Append(sent[source(g)], m)) = Append(S, e)
        /\ passedOn(g, Append(incoming[source(g)], m)) = Append(I, e)
    BY PassedOnAppend, SMTT(30)
  <2> QED
    BY <2>1, Zenon DEF passedOn
<1>5. isPrefix(A, S) /\ (pc[g] \in active => S = A \o H \o I)
  BY DEF Flow, active
<1> HIDE DEF P, A, H, I, S, e
<1>6. isPrefix(A, Append(S, e))
  BY <1>1, <1>2, <1>5, PrefixOfAppend, ZenonT(30)
<1>7. Append(joined(A, H, I), e) = joined(A, H, Append(I, e))
  <2>1. A \in Seq(P)
    BY <1>2
  <2>2. H \in Seq(P)
    BY <1>2
  <2>3. I \in Seq(P)
    BY <1>2
  <2>4. \A s, t, u \in Seq(P) : \A x \in P : Append(joined(s, t, u), x) = joined(s, t, Append(u, x))
    BY AppendToJoined, SMTT(30)
  <2> QED
    BY <1>1, <2>1, <2>2, <2>3, <2>4, Zenon
<1>8. pc[g] \in active => Append(S, e) = A \o H \o Append(I, e)
  BY <1>5, <1>7, Zenon DEF joined
<1> QED
  BY <1>3, <1>4, <1>6, <1>8, Zenon DEF Flow, active, A

\* A message is read, and passed on.
LEMMA FlowRead ==
  ASSUME NEW g \in Loops, Flow(g),
         sent[source(g)] \in Seq(Sendable(g)), incoming[source(g)] \in Seq(Sendable(g)),
         incoming[source(g)] # <<>>,
         pc[g] = "read", pc'[g] = "write",
         held'[g] = passed(g, Head(incoming[source(g)])), held'[g] \in forwardable(g),
         incoming'[source(g)] = Tail(incoming[source(g)]),
         sent'[source(g)] = sent[source(g)], received'[target(g)] = received[target(g)]
  PROVE  Flow(g)'
<1> DEFINE P == Passable(g)
           A == arrived(g)
           I == passedOn(g, incoming[source(g)])
           S == passedOn(g, sent[source(g)])
<1>1. A \in Seq(P) /\ I \in Seq(P) /\ S \in Seq(P)
  <2>1. A \in Seq(forwardable(g))
    BY ZenonT(30) DEF Flow
  <2> QED
    BY <2>1, PassedOnType, ForwardablePassable, SeqMonotonic
<1>2. arrived(g)' = A /\ inHand(g)' = <<held'[g]>> /\ forwardable(g)' = forwardable(g)
  BY Zenon DEF arrived, inHand, forwardable
<1>3. I # <<>> /\ Head(I) = held'[g] /\ Tail(I) = passedOn(g, incoming[source(g)])'
  BY PassedOnHead, SMTT(30) DEF passedOn
<1>4. passedOn(g, sent[source(g)])' = S
  BY SMTT(30) DEF passedOn
<1>5. isPrefix(A, S) /\ S = A \o <<>> \o I
  BY Zenon DEF Flow, inHand
<1> HIDE DEF P, A, I, S
<1>6. S = A \o <<held'[g]>> \o Tail(I)
  BY <1>1, <1>3, <1>5, ConcatHead, SMTT(30)
<1> QED
  BY <1>2, <1>3, <1>4, <1>5, <1>6, Zenon DEF Flow, A

\* The message in hand is written.
LEMMA FlowWritten ==
  ASSUME NEW g \in Loops, Flow(g),
         sent[source(g)] \in Seq(Sendable(g)), incoming[source(g)] \in Seq(Sendable(g)),
         pc[g] = "write", pc'[g] = "loop",
         received'[target(g)] = Append(received[target(g)], held[g]),
         incoming'[source(g)] = incoming[source(g)], sent'[source(g)] = sent[source(g)]
  PROVE  Flow(g)'
<1> DEFINE P == Passable(g)
           A == arrived(g)
           I == passedOn(g, incoming[source(g)])
           S == passedOn(g, sent[source(g)])
           h == held[g]
<1>1. h \in forwardable(g) /\ A \in Seq(forwardable(g))
  BY ZenonT(30) DEF Flow
<1>2. h \in P /\ A \in Seq(P) /\ I \in Seq(P) /\ S \in Seq(P)
  BY <1>1, PassedOnType, ForwardablePassable, SeqMonotonic, SMTT(30)
<1>3. arrived(g)' = Append(A, h)
  <2>1. /\ received[target(g)] \in Seq(forwardable(g) \cup {errorResponse})
        /\ h \in forwardable(g) \cup {errorResponse} /\ h # errorResponse
    BY <1>1, ErrorNotForwardable, SMTT(30) DEF Flow
  <2> QED
    BY <2>1, RemoveBefore, SMTT(30) DEF arrived
<1>4. received'[target(g)] \in Seq(forwardable(g) \cup {errorResponse})
  BY <1>1, SMTT(30) DEF Flow
<1>5. inHand(g)' = <<>> /\ forwardable(g)' = forwardable(g)
  BY SMTT(30) DEF inHand, forwardable
<1>6. /\ passedOn(g, sent[source(g)])' = S
      /\ passedOn(g, incoming[source(g)])' = I
  BY Zenon DEF passedOn
<1>7. S = A \o <<h>> \o I
  BY Zenon DEF Flow, inHand
<1> HIDE DEF P, A, I, S, h
<1>8. S = Append(A, h) \o <<>> \o I
  BY <1>2, <1>7, ConcatAppend, SMTT(30)
<1>9. isPrefix(Append(A, h), S) /\ Append(A, h) \in Seq(forwardable(g))
  <2>1. Append(A, h) \in Seq(P) /\ Append(A, h) \o <<>> = Append(A, h)
    BY <1>2
  <2>2. isPrefix(Append(A, h), Append(A, h) \o I)
    BY <1>2, <2>1, PrefixOfConcat, Zenon
  <2> QED
    BY <1>1, <1>8, <2>1, <2>2, SMTT(30)
<1> QED
  BY <1>3, <1>4, <1>5, <1>6, <1>8, <1>9, Zenon DEF Flow

\* The error is written among the answers.
LEMMA FlowError ==
  ASSUME Flow("handler"), errorResponse \notin Range(received["downstream"]),
         received'["downstream"] = Append(received["downstream"], errorResponse),
         sent'["upstream"] = sent["upstream"], incoming'["upstream"] = incoming["upstream"],
         pc'["handler"] = pc["handler"], held'["handler"] = held["handler"]
  PROVE  Flow("handler")'
<1> DEFINE R == received["downstream"]
           F == Answers \cup {errorResponse}
<1>1. R \in Seq(F) /\ arrived("handler") = removeFirst(R, errorResponse)
  BY DEF Flow, forwardable, arrived, target
<1>2. removeFirst(R, errorResponse) = R
  BY <1>1, NothingToRemove
<1>3. removeFirst(Append(R, errorResponse), errorResponse) = R
  BY <1>1, RemoveLast
<1>4. arrived("handler")' = arrived("handler")
  BY <1>1, <1>2, <1>3, Zenon DEF arrived, target
<1>5. received'["downstream"] \in Seq(F)
  BY <1>1
<1> QED
  BY <1>4, <1>5, ZenonT(30) DEF Flow, inHand, forwardable, passedOn, source, target

-----------------------------------------------------------------------------
\* Both directions: what each can carry, and that every step keeps FlowInv.

LEMMA FlowTypes ==
  ASSUME FlowInv, NEW g \in Loops
  PROVE  sent[source(g)] \in Seq(Sendable(g)) /\ incoming[source(g)] \in Seq(Sendable(g))
BY DEF FlowInv, Loops, source, Sendable

LEMMA InitFlow == Init => FlowInv
<1> SUFFICES ASSUME Init PROVE FlowInv
  OBVIOUS
<1>1. /\ DOMAIN received = Sides /\ \A s \in Sides : received[s] = <<>>
      /\ \A s \in Sides : sent[s] = <<>> /\ incoming[s] = <<>>
      /\ \A g \in Loops : pc[g] = "down"
  BY DEF Init
<1>2. ASSUME NEW g \in Loops PROVE Flow(g)
  <2>1. /\ received[target(g)] = <<>> /\ sent[source(g)] = <<>> /\ incoming[source(g)] = <<>>
        /\ pc[g] = "down"
    BY <1>1 DEF source, target, Sides
  <2>2. arrived(g) = <<>> /\ inHand(g) = <<>>
    BY <2>1 DEF arrived, inHand, removeFirst
  <2>3. passedOn(g, <<>>) = <<>>
    BY DEF passedOn
  <2>4. isPrefix(<<>>, <<>>) /\ <<>> = <<>> \o <<>> \o <<>>
    BY DEF isPrefix
  <2> QED
    BY <2>1, <2>2, <2>3, <2>4 DEF Flow
<1>3. \A s \in Sides : errorResponse \notin Range(received[s])
  BY <1>1 DEF Range
<1>4. \A S : <<>> \in Seq(S)
  OBVIOUS
<1> QED
  BY <1>1, <1>2, <1>3, <1>4, Zenon DEF FlowInv, Sides

\* A step that moves no message.
LEMMA FlowStays ==
  ASSUME FlowInv, UNCHANGED <<sent, incoming, received>>,
         pc'["bridge"] \in {"down", "loop", "read", "write", "refuse"} =>
           pc["bridge"] \in {"down", "loop", "read", "write", "refuse"},
         \A g \in Loops :
           \/ pc'[g] = pc[g] /\ held'[g] = held[g]
           \/ pc'[g] \notin active
           \/ pc[g] \in active \ {"write"} /\ pc'[g] \in active \ {"write"}
  PROVE  FlowInv'
<1>1. \A g \in Loops : Flow(g)'
  BY FlowKept DEF FlowInv
<1> QED
  BY <1>1, SMTT(30) DEF FlowInv, Sides

LEMMA FlowSend == ASSUME BridgeInv, FlowInv, NEW s \in Sides, NEW m, send(s, m) PROVE FlowInv'
<1>1. /\ m \in IF s = "downstream" THEN Requests ELSE Answers
      /\ incoming' = [incoming EXCEPT ![s] = Append(@, m)]
      /\ sent' = [sent EXCEPT ![s] = Append(@, m)]
      /\ UNCHANGED <<received, pc, held>>
  BY SMTT(30) DEF send
<1>2. incoming \in [Sides -> Seq(Requests \cup Answers)] /\ sent \in [Sides -> Seq(Requests \cup Answers)]
  BY DEF BridgeInv, TypeOK
<1>3. ASSUME NEW g \in Loops PROVE Flow(g)'
  <2>1. CASE source(g) = s
    <3>1. m \in Sendable(g)
      BY <1>1, <2>1 DEF source, Sendable, Loops
    <3>2. /\ sent'[source(g)] = Append(sent[source(g)], m)
          /\ incoming'[source(g)] = Append(incoming[source(g)], m)
      BY <1>1, <1>2, <2>1
    <3>3. Flow(g)
      BY DEF FlowInv
    <3> QED
      BY <1>1, <3>1, <3>2, <3>3, FlowTypes, FlowSent, Zenon
  <2>2. CASE source(g) # s
    <3>1. sent'[source(g)] = sent[source(g)] /\ incoming'[source(g)] = incoming[source(g)]
      BY <1>1, <1>2, <2>2 DEF source, Sides
    <3> QED
      BY <1>1, <3>1, FlowKept DEF FlowInv
  <2> QED
    BY <2>1, <2>2
<1>4. /\ sent'["downstream"] \in Seq(Requests) /\ incoming'["downstream"] \in Seq(Requests)
      /\ sent'["upstream"] \in Seq(Answers) /\ incoming'["upstream"] \in Seq(Answers)
  BY <1>1, <1>2 DEF FlowInv, Sides
<1> QED
  BY <1>1, <1>3, <1>4 DEF FlowInv

\* The three steps that move a message within the bridge; the other direction, and the
\* error that is not among the requests, are not touched.
LEMMA FlowReads == ASSUME BridgeInv, FlowInv, NEW g \in Loops, Read(g) PROVE FlowInv'
<1> DEFINE q == incoming[source(g)]
           m == Head(q)
<1>1. /\ pc[g] = "read" /\ q # <<>>
      /\ incoming' = [incoming EXCEPT ![source(g)] = Tail(q)]
      /\ UNCHANGED <<sent, received>>
  BY DEF Read
<1>2. /\ IF g = "bridge" /\ m \in Refused
         THEN pc' = [pc EXCEPT ![g] = "refuse"] /\ UNCHANGED held
         ELSE /\ pc' = [pc EXCEPT ![g] = "write"]
              /\ held' = [held EXCEPT ![g] = passed(g, m)]
      /\ DOMAIN pc = Loops /\ DOMAIN held = Loops
  BY ZenonT(30) DEF Read, goto, BridgeInv, TypeOK, passed
<1>3. incoming \in [Sides -> Seq(Requests \cup Answers)] /\ source(g) \in Sides
  BY DEF BridgeInv, TypeOK, source, Sides
<1>4. Flow(g) /\ sent[source(g)] \in Seq(Sendable(g)) /\ q \in Seq(Sendable(g))
  BY FlowTypes, SMTT(30) DEF FlowInv
<1>5. m \in Sendable(g) /\ Tail(q) \in Seq(Sendable(g))
  BY <1>1, <1>4
<1>6. incoming'[source(g)] = Tail(q)
  BY <1>1, <1>3
<1> HIDE DEF q, m
<1>7. Flow(g)'
  <2>1. CASE g = "bridge" /\ m \in Refused
    <3>1. pc'[g] \notin active
      BY <1>2, <2>1 DEF active
    <3> QED
      BY <1>1, <1>4, <3>1, FlowKept, Zenon
  <2>2. CASE ~(g = "bridge" /\ m \in Refused)
    <3>1. pc'[g] = "write" /\ held'[g] = passed(g, m)
      BY <1>2, <2>2
    <3>2. held'[g] \in forwardable(g)
      BY <1>5, <2>2, <3>1 DEF passed, forwardable, Sendable
    <3> QED
      BY <1>1, <1>4, <1>6, <3>1, <3>2, FlowRead, Zenon DEF q, m
  <2> QED
    BY <2>1, <2>2
<1>8. ASSUME NEW h \in Loops, h # g PROVE Flow(h)'
  <2>1. pc'[h] = pc[h] /\ held'[h] = held[h]
    BY <1>2, <1>8
  <2>2. incoming'[source(h)] = incoming[source(h)]
    BY <1>1, <1>3, <1>8 DEF source, Loops, Sides
  <2> QED
    BY <1>1, <2>1, <2>2, FlowKept, Zenon DEF FlowInv
<1>9. incoming'["downstream"] \in Seq(Requests) /\ incoming'["upstream"] \in Seq(Answers)
  <2>1. incoming["downstream"] \in Seq(Requests) /\ incoming["upstream"] \in Seq(Answers)
    BY DEF FlowInv
  <2>2. \A s \in Sides : s # source(g) => incoming'[s] = incoming[s]
    BY <1>1, <1>3
  <2>3. CASE g = "bridge"
    <3>1. incoming'["downstream"] \in Seq(Requests)
      BY <1>5, <1>6, <2>3 DEF source, Sendable
    <3> QED
      BY <2>1, <2>2, <2>3, <3>1 DEF source, Sides
  <2>4. CASE g = "handler"
    <3>1. incoming'["upstream"] \in Seq(Answers)
      BY <1>5, <1>6, <2>4 DEF source, Sendable
    <3> QED
      BY <2>1, <2>2, <2>4, <3>1 DEF source, Sides
  <2> QED
    BY <2>3, <2>4 DEF Loops
<1>10. pc'["bridge"] \in {"down", "loop", "read", "write", "refuse"} =>
         pc["bridge"] \in {"down", "loop", "read", "write", "refuse"}
  BY <1>1, <1>2 DEF Loops
<1> QED
  BY <1>1, <1>7, <1>8, <1>9, <1>10, SMTT(30) DEF FlowInv

\* A message that cannot be read is taken from the queue by a goroutine that gives up.
LEMMA FlowDropped ==
  ASSUME BridgeInv, FlowInv, NEW g \in Loops, pc[g] = "read", incoming[source(g)] # <<>>,
         pc' = [pc EXCEPT ![g] = "closeUpstream"],
         incoming' = [incoming EXCEPT ![source(g)] = Tail(@)],
         UNCHANGED <<sent, received, held>>
  PROVE  FlowInv'
<1>1. DOMAIN pc = Loops /\ incoming \in [Sides -> Seq(Requests \cup Answers)] /\ source(g) \in Sides
  BY DEF BridgeInv, TypeOK, source, Sides
<1>2. ASSUME NEW h \in Loops PROVE Flow(h)'
  <2>1. CASE h = g
    BY <1>1, <2>1, FlowKept, SMTT(30) DEF FlowInv, active
  <2>2. CASE h # g
    <3>1. pc'[h] = pc[h] /\ incoming'[source(h)] = incoming[source(h)]
      BY <1>1, <2>2 DEF source, Loops, Sides
    <3> QED
      BY <3>1, FlowKept DEF FlowInv
  <2> QED
    BY <2>1, <2>2
<1>3. incoming'["downstream"] \in Seq(Requests) /\ incoming'["upstream"] \in Seq(Answers)
  <2>1. incoming["downstream"] \in Seq(Requests) /\ incoming["upstream"] \in Seq(Answers)
    BY DEF FlowInv
  <2>2. \A s \in Sides : incoming'[s] = incoming[s] \/ (incoming[s] # <<>> /\ incoming'[s] = Tail(incoming[s]))
    BY <1>1
  <2>3. \A S : \A q \in Seq(S) : q # <<>> => Tail(q) \in Seq(S)
    OBVIOUS
  <2> QED
    BY <2>1, <2>2, <2>3, Zenon DEF Sides
<1>4. pc'["bridge"] \in {"down", "loop", "read", "write", "refuse"} =>
        pc["bridge"] \in {"down", "loop", "read", "write", "refuse"}
  BY <1>1 DEF Loops
<1> QED
  BY <1>2, <1>3, <1>4, SMTT(30) DEF FlowInv

LEMMA FlowWrites == ASSUME BridgeInv, FlowInv, NEW g \in Loops, Write(g) PROVE FlowInv'
<1>1. /\ pc[g] = "write"
      /\ received' = [received EXCEPT ![target(g)] = Append(@, held[g])]
      /\ held' = [held EXCEPT ![g] = NothingHeld] /\ pc' = [pc EXCEPT ![g] = "loop"]
      /\ UNCHANGED <<sent, incoming>>
  BY SMTT(30) DEF Write, goto, peerVars
<1>2. DOMAIN received = Sides /\ DOMAIN pc = Loops /\ DOMAIN held = Loops /\ target(g) \in Sides
  BY DEF FlowInv, BridgeInv, TypeOK, target, Sides
<1>3. Flow(g)'
  <2>1. pc'[g] = "loop" /\ received'[target(g)] = Append(received[target(g)], held[g])
    BY <1>1, <1>2
  <2>2. Flow(g)
    BY DEF FlowInv
  <2> QED
    BY <1>1, <2>1, <2>2, FlowTypes, FlowWritten, Zenon
<1>4. ASSUME NEW h \in Loops, h # g PROVE Flow(h)'
  <2>1. pc'[h] = pc[h] /\ held'[h] = held[h]
    BY <1>1, <1>2, <1>4
  <2>2. received'[target(h)] = received[target(h)]
    BY <1>1, <1>2, <1>4 DEF target, Loops, Sides
  <2> QED
    BY <1>1, <2>1, <2>2, FlowKept, Zenon DEF FlowInv
<1>5. held[g] \in forwardable(g) /\ held[g] # errorResponse
  BY <1>1, ErrorNotForwardable, Zenon DEF FlowInv, Flow
<1>6. ASSUME NEW s \in Sides, errorResponse \notin Range(received[s])
      PROVE  errorResponse \notin Range(received'[s])
  <2>1. CASE s # target(g)
    BY <1>1, <1>2, <1>6, <2>1, SMTT(30)
  <2>2. CASE s = target(g)
    <3> DEFINE R == received[s]
    <3>1. R \in Seq(forwardable(g) \cup {errorResponse})
      BY <2>2, Zenon DEF FlowInv, Flow
    <3>2. received'[s] = Append(R, held[g])
      BY <1>1, <1>2, <2>2, SMTT(30)
    <3> HIDE DEF R
    <3>3. \A i \in DOMAIN Append(R, held[g]) :
            (i \in DOMAIN R /\ Append(R, held[g])[i] = R[i]) \/ Append(R, held[g])[i] = held[g]
      BY <1>5, <3>1, SMTT(30)
    <3>4. \A i \in DOMAIN R : R[i] # errorResponse
      BY <1>6 DEF Range, R
    <3> QED
      BY <1>5, <3>2, <3>3, <3>4 DEF Range
  <2> QED
    BY <2>1, <2>2
<1>7. pc'["bridge"] \in {"down", "loop", "read", "write", "refuse"} =>
        pc["bridge"] \in {"down", "loop", "read", "write", "refuse"}
  BY <1>1, <1>2 DEF Loops
<1>8. DOMAIN received' = Sides
  BY <1>1, <1>2
<1> QED
  BY <1>1, <1>3, <1>4, <1>6, <1>7, <1>8 DEF FlowInv, Sides

LEMMA FlowErrors ==
  ASSUME BridgeInv, FlowInv, WriteJSONRPCResponseToWebSocket PROVE FlowInv'
<1>1. /\ pc["bridge"] = "refuse"
      /\ received' = [received EXCEPT !["downstream"] = Append(@, errorResponse)]
      /\ pc' = [pc EXCEPT !["bridge"] = "closeUpstream"]
      /\ UNCHANGED <<sent, incoming, held>>
  BY SMTT(30) DEF WriteJSONRPCResponseToWebSocket, goto, peerVars
<1>2. DOMAIN received = Sides /\ DOMAIN pc = Loops
  BY DEF FlowInv, BridgeInv, TypeOK
<1>3. /\ received'["downstream"] = Append(received["downstream"], errorResponse)
      /\ received'["upstream"] = received["upstream"] /\ DOMAIN received' = Sides
      /\ pc'["bridge"] = "closeUpstream" /\ pc'["handler"] = pc["handler"]
  BY <1>1, <1>2 DEF Sides, Loops
<1>4. errorResponse \notin Range(received["downstream"])
  BY <1>1 DEF FlowInv
<1>5. Flow("handler")'
  BY <1>1, <1>3, <1>4, FlowError, SMTT(30) DEF FlowInv, Loops
<1>6. Flow("bridge")'
  BY <1>1, <1>3, FlowKept DEF FlowInv, Loops, target, active
<1> QED
  BY <1>1, <1>3, <1>5, <1>6 DEF FlowInv, Loops

LEMMA NextFlow == BridgeInv /\ FlowInv /\ [Next]_vars => FlowInv'
<1> SUFFICES ASSUME BridgeInv, FlowInv, [Next]_vars PROVE FlowInv'
  BY SMTT(30)
<1>1. DOMAIN pc = Loops /\ DOMAIN held = Loops
  BY DEF BridgeInv, TypeOK
<1>2. CASE UNCHANGED vars
  BY <1>2, FlowStays DEF vars, peerVars
<1>3. CASE peerStep
  <2>1. ASSUME NEW s \in Sides, NEW st \in Statuses, sendClose(s, st) PROVE FlowInv'
    BY <2>1, FlowStays DEF sendClose
  <2>2. ASSUME NEW s \in Sides, lost(s) PROVE FlowInv'
    BY <2>2, FlowStays DEF lost, peerVars
  <2> QED
    BY <1>3, <2>1, <2>2, FlowSend DEF peerStep
<1>4. CASE Upgrade \/ upgradeFails \/ dialFails
  <2>1. /\ UNCHANGED <<sent, incoming, received, held>> /\ pc'["bridge"] = pc["bridge"]
        /\ pc'["handler"] = "done" \/ (pc["handler"] = "down" /\ pc'["handler"] = "dial")
    BY <1>1, <1>4 DEF Upgrade, upgradeFails, dialFails, peerVars, Loops
  <2> QED
    BY <2>1, FlowStays DEF Loops, active
<1>5. CASE Dial
  <2>1. /\ UNCHANGED <<sent, incoming, received, held>>
        /\ pc["handler"] = "dial" /\ pc["bridge"] = "down" /\ \A g \in Loops : pc'[g] = "loop"
    BY <1>5 DEF Dial, BridgeInv, peerVars
  <2> QED
    BY <2>1, FlowStays, SMTT(30) DEF Loops, active
<1>6. ASSUME NEW g \in Loops, loopStep(g), ~Read(g), ~readUnreadable(g), ~Write(g) PROVE FlowInv'
  <2> DEFINE moved == pc' = [pc EXCEPT ![g] = pc'[g]]
                        /\ (\/ pc[g] = "loop" /\ pc'[g] = "read"
                            \/ pc'[g] \in {"forwardClose", "returnClose", "closeUpstream",
                                          "closeDownstream", "done"})
             kept == UNCHANGED <<sent, incoming, received>>
                       /\ \A h \in Loops : h # g => held'[h] = held[h]
  <2>1. ASSUME ReadAllMessages(g) PROVE moved /\ kept
    BY <1>1, <2>1 DEF ReadAllMessages, goto, peerVars
  <2>2. ASSUME readCloseError(g) PROVE moved /\ kept
    BY <1>1, <2>2 DEF readCloseError, goto, peerVars
  <2>3. ASSUME readEcho(g) PROVE moved /\ kept
    BY <1>1, <2>3 DEF readEcho, goto, peerVars
  <2>4. ASSUME readFails(g) PROVE moved /\ kept
    BY <1>1, <2>4 DEF readFails, goto, peerVars
  <2>5. ASSUME writeCloseError(g) PROVE moved /\ kept
    BY <1>1, <2>5 DEF writeCloseError, goto, peerVars
  <2>6. ASSUME writeFails(g) PROVE moved /\ kept
    BY <1>1, <2>6 DEF writeFails, goto, peerVars
  <2>7. ASSUME forwardClose(g) PROVE moved /\ kept
    BY <1>1, <2>7 DEF forwardClose, goto, peerVars
  <2>8. ASSUME returnClose(g) PROVE moved /\ kept
    BY <1>1, <2>8 DEF returnClose, goto, peerVars
  <2>9. ASSUME closeUpstream(g) PROVE moved /\ kept
    BY <1>1, <2>9 DEF closeUpstream, goto, peerVars
  <2>10. ASSUME closeDownstream(g) PROVE moved /\ kept
    BY <1>1, <2>10 DEF closeDownstream, goto, peerVars
  <2>11. moved /\ kept
    BY <1>6, <2>1, <2>2, <2>3, <2>4, <2>5, <2>6, <2>7, <2>8, <2>9, <2>10, Zenon DEF loopStep, ownStep
  <2>12. \A h \in Loops : h # g => pc'[h] = pc[h] /\ held'[h] = held[h]
    BY <1>1, <2>11
  <2> QED
    BY <2>11, <2>12, FlowStays DEF Loops, active
<1>7. CASE responseFails
  <2>1. /\ UNCHANGED <<sent, incoming, received, held>>
        /\ pc'["bridge"] = "closeUpstream" /\ pc'["handler"] = pc["handler"]
    BY <1>1, <1>7 DEF responseFails, goto, peerVars, Loops
  <2> QED
    BY <2>1, FlowStays DEF Loops, active
<1>8. ASSUME NEW g \in Loops, readUnreadable(g) PROVE FlowInv'
  <2>1. /\ pc[g] = "read" /\ incoming[source(g)] # <<>> /\ pc' = [pc EXCEPT ![g] = "closeUpstream"]
        /\ incoming' = [incoming EXCEPT ![source(g)] = Tail(@)]
        /\ UNCHANGED <<sent, received, held>>
    BY <1>8 DEF readUnreadable, goto
  <2> QED
    BY <1>1, <2>1, FlowDropped, Zenon
<1> QED
  BY <1>2, <1>3, <1>4, <1>5, <1>6, <1>7, <1>8, FlowReads, FlowWrites, FlowErrors, SMTT(30) DEF Next, refuseStep

\* Whatever the two loops of ServeHTTP and the peers do, each side receives the messages
\* of the other in their order and without a gap, and the full node none that
\* the interceptor refused.
THEOREM BridgeTransparent == Spec => []Transparent
<1>1. FlowInv => Transparent
  <2> SUFFICES ASSUME FlowInv, NEW g \in Loops
               PROVE /\ isPrefix(arrived(g), passedOn(g, sent[source(g)]))
                     /\ pc[g] \in {"loop", "read", "write"} =>
                          passedOn(g, sent[source(g)])
                            = arrived(g) \o inHand(g) \o passedOn(g, incoming[source(g)])
                     /\ g = "bridge" => \A m \in Refused : intercepted(m) \notin Range(arrived(g))
    BY DEF Transparent
  <2>1. Flow(g)
    BY DEF FlowInv
  <2>2. ASSUME g = "bridge", NEW m \in Refused PROVE intercepted(m) \notin Range(arrived(g))
    <3>1. intercepted(m) \notin forwardable(g)
      BY <2>2, ZenonT(30) DEF forwardable, intercepted
    <3>2. \A i \in DOMAIN arrived(g) : arrived(g)[i] \in forwardable(g)
      BY <2>1 DEF Flow
    <3> QED
      BY <3>1, <3>2 DEF Range
  <2> QED
    BY <2>1, <2>2 DEF Flow
<1> QED
  BY <1>1, InitFlow, NextFlow, BridgeInvariant, PTL DEF Spec
=============================================================================
