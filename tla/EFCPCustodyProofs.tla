-------------------------- MODULE EFCPCustodyProofs --------------------------
(***************************************************************************)
(* With retransmission control, no allowed gap and no expired inactivity   *)
(* timer no SDU vanishes, whatever the path loses or reorders.             *)
(*                                                                         *)
(* The argument: PDUs are numbered like the SDUs they carry; the left edge *)
(* of the receiver's window passes a number only when its SDU is handed    *)
(* up in the same handler; an acknowledgement never tells more than the    *)
(* left edge; so what an acknowledgement removes from rxQ is with the user.*)
(***************************************************************************)
EXTENDS EFCPProofs

-----------------------------------------------------------------------------
\* A PDU of a sender that has put n SDUs into PDUs.
GoodPDU(p, n) == p.sdu = p.seq /\ p.seq \in 1..n /\ (p.drf => p.seq = 1)

\* The PDUs that wait for the window or for an acknowledgement.
Held(s) == {s.closedWindowQ[i] : i \in 1..Len(s.closedWindowQ)} \cup {x.pdu : x \in s.rxQ}

\* The sender's half of an EFCPI has numbered PDUs in the order of the SDUs.
Numbers(s, sent) ==
    /\ s.sdus = sent
    /\ s.nextSeqNumToSend = sent + 1
    /\ s.setDRFFlag => sent = 0
    /\ \A p \in Held(s) \cup s.outData : GoodPDU(p, sent)

\* It keeps every SDU that is not among those the peer's user has got.
Keeps(s, got) ==
    1..s.sdus \subseteq {p.sdu : p \in Held(s)} \cup s.gaveUp \cup got

\* The fragments of the receiver's half come from a peer that has sent n SDUs.
Fragments(s, n) ==
    \A f \in s.reassemblyPDUQ \cup s.toUser : f.sdu = f.seq /\ f.seq \in 1..n

\* What the user has got by the end of the handler, and what delimiting would add.
Up(s, got) == got \cup {f.sdu : f \in s.toUser}
Due(s, got) ==
    Up(s, got) \cup {f.sdu : f \in {g \in s.reassemblyPDUQ : g.seq <= s.rcvLeftWinEdge}}

\* Neither the left edge nor an acknowledgement is ahead of what is in the set.
EdgeBehind(s, set) == 1..s.rcvLeftWinEdge \subseteq set
AcksBehind(s, set) == \A c \in s.outCtrl : 1..c.ack \subseteq set

Receives(s, n, got) ==
    /\ Fragments(s, n)
    /\ EdgeBehind(s, Up(s, got))
    /\ AcksBehind(s, Up(s, got))

\* An EFCPI that has put sent SDUs into PDUs and whose user has got those in own; its
\* peer has sent n and handed up those in others.
Honest(s, sent, n, own, others) == Numbers(s, sent) /\ Keeps(s, others) /\ Receives(s, n, own)

CustodyInv ==
    /\ idle = 0
    /\ \A e \in End :
         /\ efcpi[e].sdus <= MaxSdu
         /\ efcpi[e].outData = {} /\ efcpi[e].outCtrl = {} /\ efcpi[e].toUser = {}
         /\ Honest(efcpi[e], efcpi[e].sdus, efcpi[Peer(e)].sdus, Received(e), Received(Peer(e)))
         /\ \A p \in dataNet[e] : GoodPDU(p, efcpi[Peer(e)].sdus)
         /\ \A c \in ctrlNet[e] : 1..c.ack \subseteq Received(Peer(e))

-----------------------------------------------------------------------------
\* Frames

SameSender(s, t) ==
    /\ t.nextSeqNumToSend = s.nextSeqNumToSend
    /\ t.setDRFFlag = s.setDRFFlag
    /\ t.closedWindowQ = s.closedWindowQ
    /\ t.rxQ = s.rxQ
    /\ t.outData = s.outData
    /\ t.sdus = s.sdus
    /\ t.gaveUp = s.gaveUp

SameQueue(s, t) == t.reassemblyPDUQ = s.reassemblyPDUQ /\ t.toUser = s.toUser

\* t differs from s in control PDUs, none of which acknowledges more than the edge.
Announces(s, t) ==
    /\ SameSender(s, t)
    /\ SameQueue(s, t)
    /\ t.rcvLeftWinEdge = s.rcvLeftWinEdge
    /\ \A c \in t.outCtrl : c \in s.outCtrl \/ c.ack = 0 \/ c.ack = s.rcvLeftWinEdge

\* t differs from s in what neither half of the invariant speaks about.
Same(s, t) ==
    /\ SameSender(s, t)
    /\ SameQueue(s, t)
    /\ t.rcvLeftWinEdge = s.rcvLeftWinEdge
    /\ t.outCtrl = s.outCtrl

\* Between updateRcvLWE and delimitFromRMT the edge may be ahead of what the user has
\* got by the fragments about to be delimited.
Pending(s, sent, n, own, others) ==
    /\ Numbers(s, sent) /\ Keeps(s, others) /\ Fragments(s, n)
    /\ EdgeBehind(s, Due(s, own))
    /\ AcksBehind(s, Due(s, own))

LEMMA SenderFrame ==
    ASSUME NEW s, NEW t, SameSender(s, t)
    PROVE  /\ \A sent : Numbers(s, sent) => Numbers(t, sent)
           /\ \A got : Keeps(s, got) => Keeps(t, got)
BY DEF SameSender, Numbers, Keeps, Held

LEMMA Announce ==
    ASSUME NEW s, NEW t, Announces(s, t), NEW sent, NEW n, NEW own, NEW others
    PROVE  /\ Honest(s, sent, n, own, others) => Honest(t, sent, n, own, others)
           /\ Pending(s, sent, n, own, others) => Pending(t, sent, n, own, others)
<1>1. SameSender(s, t) /\ (Fragments(s, n) => Fragments(t, n))
  BY DEF Announces, SameQueue, Fragments
<1>2. Up(t, own) = Up(s, own) /\ Due(t, own) = Due(s, own)
  BY DEF Announces, SameQueue, Up, Due
<1>3. ASSUME NEW set, EdgeBehind(s, set), AcksBehind(s, set)
      PROVE  EdgeBehind(t, set) /\ AcksBehind(t, set)
  <2>1. 1..0 = {}
    OBVIOUS
  <2> QED BY <1>3, <2>1 DEF Announces, EdgeBehind, AcksBehind
<1> QED BY <1>1, <1>2, <1>3, SenderFrame DEF Honest, Pending, Receives

LEMMA SameHonest ==
    ASSUME NEW s, NEW t, Same(s, t), NEW sent, NEW n, NEW own, NEW others
    PROVE  Honest(s, sent, n, own, others) => Honest(t, sent, n, own, others)
<1>1. Announces(s, t)
  BY DEF Same, Announces
<1> QED BY <1>1, Announce

LEMMA SendCtrlAnnounces ==
    ASSUME NEW s, Sound(s), NEW type, NEW rwe, NEW ack \in {0, s.rcvLeftWinEdge}
    PROVE  Announces(s, SendCtrl(s, type, ack, rwe))
BY DEF Sound, EFCPI, SendCtrl, Announces, SameSender, SameQueue

LEMMA SendAckFlowPDUAnnounces ==
    ASSUME NEW s, Sound(s)
    PROVE  /\ Announces(s, SendAckFlowPDU(s))
           /\ Announces(s, SendFCOnlyPDU(s))
           /\ Announces(s, SendControlAckPDU(s))
<1>1. Announces(s, s)
  BY DEF Announces, SameSender, SameQueue
<1> QED BY <1>1, SendCtrlAnnounces DEF SendAckFlowPDU, SendFCOnlyPDU, SendControlAckPDU

-----------------------------------------------------------------------------
\* The receiver's window

\* Without an allowed gap, what updateRcvLWE moves the left edge over is all on the
\* queue.
LEMMA ReachedHasNoHole ==
    ASSUME MaxAllowGap = 0,
           NEW q \in SUBSET Fragment, NEW edge \in Nat, NEW n \in Reached(q, edge),
           NEW k \in Nat, edge < k, k <= n
    PROVE  k \in Seqs(q)
<1> DEFINE above == {m \in Seqs(q) : k <= m}
<1>1. Seqs(q) \in SUBSET Nat /\ n \in Seqs(q)
  BY DEF Seqs, Fragment, Reached
<1>2. above \in SUBSET Nat /\ n \in above
  BY <1>1
<1>3. PICK m \in above : \A j \in above : m <= j
  BY <1>2, LeastNat
<1>4. SUFFICES ASSUME m # k
               PROVE  FALSE
  BY <1>3
<1> DEFINE below == {j \in Seqs(q) : j < m}
<1>5. m \in Seqs(q) /\ m \in Nat /\ k < m /\ m <= n
  BY <1>1, <1>2, <1>3, <1>4
<1>6. EdgeBefore(m, q, edge) + 1 + 0 >= m
  BY <1>5 DEF Reached
<1>7. CASE below = {}
  <2>1. EdgeBefore(m, q, edge) = edge
    BY <1>7 DEF EdgeBefore
  <2> QED BY <1>5, <1>6, <2>1
<1>8. CASE below # {}
  <2>1. below \in SUBSET Nat /\ \A j \in below : j <= m
    BY <1>1, <1>5
  <2>2. Max(below) \in below
    BY <1>5, <1>8, <2>1, MaxBounded
  <2>3. EdgeBefore(m, q, edge) = Max(below)
    BY <1>8 DEF EdgeBefore
  <2> HIDE DEF below
  <2>4. Max(below) \in Seqs(q) /\ Max(below) < m /\ Max(below) \in Nat
    BY <1>1, <2>2 DEF below
  <2>5. Max(below) < k
    BY <1>3, <1>5, <2>4
  <2> QED BY <1>5, <1>6, <2>3, <2>4, <2>5
<1> QED BY <1>7, <1>8

LEMMA UpdateRcvLWEPends ==
    ASSUME MaxAllowGap = 0, NEW s, Sound(s), NEW sent, NEW n, NEW own, NEW others,
           Honest(s, sent, n, own, others)
    PROVE  Pending(UpdateRcvLWE(s), sent, n, own, others)
<1> DEFINE reached == Reached(s.reassemblyPDUQ, s.rcvLeftWinEdge)
           edge == IF reached = {} THEN s.rcvLeftWinEdge ELSE Max(reached)
           t == [s EXCEPT !.rcvLeftWinEdge = edge]
<1>1. s.reassemblyPDUQ \in SUBSET Fragment /\ s.rcvLeftWinEdge \in Nat
  BY DEF Sound, EFCPI
<1>2. reached \in SUBSET Nat
  BY <1>1 DEF Reached, Seqs, Fragment
<1>3. PICK b \in Nat : \A m \in reached : m <= b
  BY DEF Sound, Bounded, Reached, Seqs
<1>4. edge \in Nat /\ (edge = s.rcvLeftWinEdge \/ edge \in reached)
  BY <1>1, <1>2, <1>3, MaxBounded
<1>5. ASSUME NEW k \in Nat, s.rcvLeftWinEdge < k, k <= edge
      PROVE  k \in Seqs(s.reassemblyPDUQ)
  <2> HIDE DEF edge
  <2>1. edge \in reached
    BY <1>1, <1>4, <1>5
  <2> QED BY <1>1, <1>5, <2>1, ReachedHasNoHole
<1>6. UpdateRcvLWE(s) = t
  BY DEF UpdateRcvLWE
<1> HIDE DEF edge, reached
<1>7. /\ SameSender(s, t) /\ SameQueue(s, t) /\ t.outCtrl = s.outCtrl
      /\ t.rcvLeftWinEdge = edge
  BY DEF Sound, EFCPI, SameSender, SameQueue
<1> HIDE DEF t
<1>8. Fragments(s, n) /\ Fragments(t, n) /\ Up(s, own) \subseteq Due(t, own)
  BY <1>7 DEF Honest, Receives, Fragments, SameQueue, Up, Due
<1>9. ASSUME NEW k \in 1..t.rcvLeftWinEdge
      PROVE  k \in Due(t, own)
  <2>1. CASE k <= s.rcvLeftWinEdge
    <3>1. k \in 1..s.rcvLeftWinEdge
      BY <1>1, <1>4, <1>7, <1>9, <2>1
    <3> QED BY <1>8, <3>1 DEF Honest, Receives, EdgeBehind
  <2>2. CASE s.rcvLeftWinEdge < k
    <3>1. k \in Nat /\ k <= edge /\ k \in Seqs(s.reassemblyPDUQ)
      BY <1>4, <1>5, <1>7, <1>9, <2>2
    <3>2. PICK f \in s.reassemblyPDUQ : f.seq = k
      BY <3>1 DEF Seqs
    <3>3. f \in t.reassemblyPDUQ /\ f.sdu = k /\ f.seq <= t.rcvLeftWinEdge
      BY <1>7, <1>8, <3>1, <3>2 DEF SameQueue, Fragments
    <3> QED BY <3>3 DEF Due
  <2> QED BY <1>1, <1>4, <1>7, <2>1, <2>2
<1>10. EdgeBehind(t, Due(t, own)) /\ AcksBehind(t, Due(t, own))
  BY <1>7, <1>8, <1>9 DEF EdgeBehind, AcksBehind, Honest, Receives
<1> QED BY <1>6, <1>7, <1>8, <1>10, SenderFrame DEF Honest, Pending

LEMMA DelimitFromRMTSettles ==
    ASSUME NEW s, Sound(s), NEW sent, NEW n, NEW own, NEW others, Pending(s, sent, n, own, others)
    PROVE  Honest(DelimitFromRMT(s), sent, n, own, others)
<1> DEFINE t == DelimitFromRMT(s)
           complete == {f \in s.reassemblyPDUQ : f.seq <= s.rcvLeftWinEdge}
<1>1. /\ SameSender(s, t) /\ t.outCtrl = s.outCtrl
      /\ t.rcvLeftWinEdge = s.rcvLeftWinEdge
      /\ t.toUser = s.toUser \cup complete
      /\ t.reassemblyPDUQ = s.reassemblyPDUQ \ complete
  BY DEF Sound, EFCPI, DelimitFromRMT, SameSender
<1> HIDE DEF t
<1>2. Fragments(t, n) /\ Up(t, own) = Due(s, own)
  BY <1>1 DEF Pending, Fragments, Up, Due
<1>3. EdgeBehind(t, Up(t, own)) /\ AcksBehind(t, Up(t, own))
  BY <1>1, <1>2 DEF Pending, EdgeBehind, AcksBehind
<1>4. Honest(t, sent, n, own, others)
  BY <1>1, <1>2, <1>3, SenderFrame DEF Pending, Honest, Receives
<1> QED BY <1>4 DEF t

\* svUpdate once the left edge has been moved, and the delimiting that follows it.
LEMMA SvUpdateSettles ==
    ASSUME RxPresent, NEW s, Sound(s), NEW sent, NEW n, NEW own, NEW others,
           Pending(UpdateRcvLWE(s), sent, n, own, others), NEW onATimer \in BOOLEAN
    PROVE  Honest(DelimitFromRMT(SvUpdate(s, onATimer)), sent, n, own, others)
<1> DEFINE left == UpdateRcvLWE(s)
           right == IF WinBased THEN RcvrFC(left) ELSE left
           acked == RcvrAck(right, onATimer)
<1>1. Sound(left)
  BY UpdateRcvLWESound
<1>2. Sound(right) /\ Pending(right, sent, n, own, others)
  <2> HIDE DEF left
  <2>1. Sound(RcvrFC(left))
    BY <1>1, RcvrFCSound
  <2>2. Announces(left, RcvrFC(left))
    BY <1>1 DEF Sound, EFCPI, RcvrFC, Announces, SameSender, SameQueue
  <2>3. Pending(RcvrFC(left), sent, n, own, others)
    BY <2>2, Announce DEF left
  <2> QED BY <1>1, <2>1, <2>3 DEF left
<1> HIDE DEF left, right
<1>3. Sound(acked) /\ Pending(acked, sent, n, own, others)
  <2>1. Sound(acked)
    BY <1>2, RcvrAckSound
  <2>2. Announces(right, acked)
    <3> DEFINE announced == SendAckFlowPDU(right)
    <3>1. Announces(right, announced) /\ Sound(announced)
      BY <1>2, SendAckFlowPDUAnnounces, SendAckFlowPDUSound
    <3>2. Announces(right, [right EXCEPT !.aTimer = TRUE])
      BY <1>2 DEF Sound, EFCPI, Announces, SameSender, SameQueue
    <3> HIDE DEF announced
    <3>3. Announces(right, [announced EXCEPT !.aTimer = FALSE])
      BY <3>1 DEF Sound, EFCPI, Announces, SameSender, SameQueue
    <3> QED BY <3>2, <3>3 DEF RcvrAck, announced
  <2> QED BY <1>2, <2>1, <2>2, Announce
<1>4. SvUpdate(s, onATimer) = acked
  BY DEF SvUpdate, acked, right, left
<1> HIDE DEF acked
<1> QED BY <1>3, <1>4, DelimitFromRMTSettles

LEMMA AcceptSettles ==
    ASSUME RxPresent, NEW s, Sound(s), NEW sent, NEW n, NEW own, NEW others,
           Pending(UpdateRcvLWE(s), sent, n, own, others), NEW edge \in Nat
    PROVE  Honest(Accept(s, edge), sent, n, own, others)
<1> DEFINE t == DelimitFromRMT(SvUpdate(s, FALSE))
<1>1. Sound(t) /\ Honest(t, sent, n, own, others)
  BY SvUpdateSound, DelimitFromRMTSound, SvUpdateSettles
<1>2. Accept(s, edge) = [t EXCEPT !.rcvrTimer = TRUE]
  BY DEF Accept, DtcpPresent
<1> HIDE DEF t
<1>3. Same(t, [t EXCEPT !.rcvrTimer = TRUE])
  BY <1>1 DEF Sound, EFCPI, Same, SameSender, SameQueue
<1> QED BY <1>1, <1>2, <1>3, SameHonest

-----------------------------------------------------------------------------
\* Receiving data

\* A PDU with DRF is the first one: the queue is flushed and the edge is 1.
LEMMA RcvDRFHonest ==
    ASSUME RxPresent, MaxAllowGap = 0, NEW s, Sound(s),
           NEW sent, NEW n \in Nat, NEW own, NEW others,
           Honest(s, sent, n, own, others), NEW pdu \in DataPDU, GoodPDU(pdu, n), pdu.drf
    PROVE  Honest(RcvDRF(s, pdu), sent, n, own, others)
<1> DEFINE delimited == DelimitFromRMT(s)
           flushed == [delimited EXCEPT !.reassemblyPDUQ = {}]
           newRun == SetMaxSeqNumRcvd(flushed, pdu.seq)
           edge == [newRun EXCEPT !.rcvLeftWinEdge = newRun.maxSeqNumRcvd]
           first == [seq |-> 1, sdu |-> 1]
           added == AddPDUToReassemblyQ(edge, pdu)
           t == UpdateRcvLWE(added)
<1>1. pdu.seq = 1 /\ pdu.sdu = 1 /\ 1 \in 1..n /\ pdu.seq \in Nat
  BY DEF GoodPDU
<1>2. Pending(s, sent, n, own, others)
  <2>1. Up(s, own) \subseteq Due(s, own)
    BY DEF Due
  <2> QED BY <2>1 DEF Honest, Receives, Pending, EdgeBehind, AcksBehind
<1>3. Sound(delimited) /\ Honest(delimited, sent, n, own, others)
  BY <1>2, DelimitFromRMTSound, DelimitFromRMTSettles
<1> HIDE DEF delimited
<1>4. /\ Sound(flushed)
      /\ SameSender(delimited, flushed)
      /\ flushed.reassemblyPDUQ = {}
      /\ flushed.toUser = delimited.toUser
      /\ flushed.outCtrl = delimited.outCtrl
  BY <1>3 DEF Sound, EFCPI, Bounded, SameSender
<1> HIDE DEF flushed
<1>5. Sound(newRun)
  BY <1>1, <1>4, SetMaxSeqNumRcvdSound
<1>6. Same(flushed, newRun)
  BY <1>4 DEF SetMaxSeqNumRcvd, Sound, EFCPI, Same, SameSender, SameQueue
<1> HIDE DEF newRun
<1>7. newRun.maxSeqNumRcvd \in Nat
  BY <1>5 DEF Sound, EFCPI
<1>8. /\ Sound(edge)
      /\ SameSender(newRun, edge) /\ SameQueue(newRun, edge)
      /\ edge.outCtrl = newRun.outCtrl
      /\ edge.rcvLeftWinEdge \in Nat
  BY <1>5, <1>7 DEF Sound, EFCPI, SameSender, SameQueue
<1> HIDE DEF edge
<1>9. /\ SameSender(edge, added) /\ added.toUser = edge.toUser
      /\ added.reassemblyPDUQ = {first}
      /\ added.outCtrl = edge.outCtrl
      /\ added.rcvLeftWinEdge = edge.rcvLeftWinEdge
  <2>1. edge.reassemblyPDUQ = {}
    BY <1>4, <1>6, <1>8 DEF Same, SameQueue
  <2>2. added = [edge EXCEPT !.reassemblyPDUQ = {} \cup {first}]
    BY <1>1, <2>1 DEF AddPDUToReassemblyQ, Seqs
  <2> QED BY <1>8, <2>2 DEF Sound, EFCPI, SameSender
<1>10. Sound(added)
  BY <1>8, AddPDUToReassemblyQSound
<1> HIDE DEF added
<1>11. t = [added EXCEPT !.rcvLeftWinEdge = 1]
  <2>1. Seqs(added.reassemblyPDUQ) = {1}
    BY <1>9 DEF Seqs
  <2>2. EdgeBefore(1, added.reassemblyPDUQ, added.rcvLeftWinEdge) = added.rcvLeftWinEdge
    BY <2>1 DEF EdgeBefore
  <2>3. added.rcvLeftWinEdge + 1 + 0 >= 1
    BY <1>8, <1>9
  <2>4. Reached(added.reassemblyPDUQ, added.rcvLeftWinEdge) = {1}
    BY <2>1, <2>2, <2>3 DEF Reached
  <2>5. Max({1}) = 1
    BY MaxBounded, 1 \in Nat
  <2> QED BY <2>4, <2>5 DEF UpdateRcvLWE
<1>12. /\ SameSender(added, t) /\ SameQueue(added, t)
       /\ t.outCtrl = added.outCtrl /\ t.rcvLeftWinEdge = 1
  BY <1>10, <1>11 DEF Sound, EFCPI, SameSender, SameQueue
<1> HIDE DEF t
<1>13. SameSender(delimited, t)
  BY <1>4, <1>6, <1>8, <1>9, <1>12 DEF SameSender, Same
<1>14. /\ t.reassemblyPDUQ = {first}
       /\ t.toUser = delimited.toUser
       /\ t.outCtrl = delimited.outCtrl
  BY <1>4, <1>6, <1>8, <1>9, <1>12 DEF SameQueue, Same
<1>15. Up(delimited, own) \subseteq Due(t, own) /\ 1 \in Due(t, own)
  <2>1. first \in {g \in t.reassemblyPDUQ : g.seq <= t.rcvLeftWinEdge} /\ first.sdu = 1
    BY <1>12, <1>14
  <2>2. Up(delimited, own) = Up(t, own)
    BY <1>14 DEF Up
  <2> QED BY <2>1, <2>2 DEF Due
<1>16. EdgeBehind(t, Due(t, own)) /\ AcksBehind(t, Due(t, own))
  <2>1. \A k \in 1..1 : k = 1
    OBVIOUS
  <2> QED BY <1>3, <1>12, <1>14, <1>15, <2>1 DEF EdgeBehind, AcksBehind, Honest, Receives
<1>17. Fragments(t, n)
  BY <1>1, <1>3, <1>14 DEF Fragments, Honest, Receives
<1>18. Pending(t, sent, n, own, others)
  BY <1>3, <1>13, <1>16, <1>17, SenderFrame DEF Honest, Pending
<1>19. Honest(Accept(added, pdu.seq), sent, n, own, others)
  BY <1>1, <1>10, <1>18, AcceptSettles DEF t
<1> QED BY <1>19 DEF RcvDRF, added, edge, newRun, flushed, delimited

LEMMA RcvNextHonest ==
    ASSUME RxPresent, MaxAllowGap = 0, NEW s, Sound(s),
           NEW sent, NEW n \in Nat, NEW own, NEW others,
           Honest(s, sent, n, own, others), NEW pdu \in DataPDU, GoodPDU(pdu, n)
    PROVE  Honest(RcvNext(s, pdu), sent, n, own, others)
<1> DEFINE rcvd == SetMaxSeqNumRcvd(s, pdu.seq)
           new == [seq |-> pdu.seq, sdu |-> pdu.sdu]
           added == AddPDUToReassemblyQ(rcvd, pdu)
           edge == IF pdu.seq > s.maxSeqNumRcvd + 1 THEN s.rcvLeftWinEdge
                   ELSE rcvd.maxSeqNumRcvd
<1>1. pdu.seq \in Nat
  BY DEF DataPDU
<1>2. Sound(rcvd)
  BY <1>1, SetMaxSeqNumRcvdSound
<1>3. Honest(rcvd, sent, n, own, others)
  <2>1. Same(s, rcvd)
    BY DEF SetMaxSeqNumRcvd, Sound, EFCPI, Same, SameSender, SameQueue
  <2> QED BY <2>1, SameHonest
<1>4. edge \in Nat
  BY <1>2 DEF Sound, EFCPI
<1> HIDE DEF rcvd, edge
<1>5. Sound(added)
  BY <1>2, AddPDUToReassemblyQSound
<1>6. /\ SameSender(rcvd, added) /\ added.toUser = rcvd.toUser
      /\ added.outCtrl = rcvd.outCtrl
      /\ added.rcvLeftWinEdge = rcvd.rcvLeftWinEdge
      /\ added.reassemblyPDUQ \subseteq rcvd.reassemblyPDUQ \cup {new}
  BY <1>2 DEF AddPDUToReassemblyQ, Sound, EFCPI, SameSender
<1> HIDE DEF added
<1>7. Honest(added, sent, n, own, others)
  <2>1. new.sdu = new.seq /\ new.seq \in 1..n
    BY DEF GoodPDU
  <2>2. Fragments(added, n) /\ Up(added, own) = Up(rcvd, own)
    BY <1>3, <1>6, <2>1 DEF Fragments, Up, Honest, Receives
  <2> QED BY <1>3, <1>6, <2>2, SenderFrame DEF Honest, Receives, EdgeBehind, AcksBehind
<1>8. Pending(UpdateRcvLWE(added), sent, n, own, others)
  BY <1>5, <1>7, UpdateRcvLWEPends
<1>9. Honest(Accept(added, edge), sent, n, own, others)
  BY <1>4, <1>5, <1>8, AcceptSettles
<1> QED BY <1>9 DEF RcvNext, added, rcvd, edge

LEMMA HandleDataTransferPDUFromRMTHonest ==
    ASSUME RxPresent, MaxAllowGap = 0, NEW s, Sound(s),
           NEW sent, NEW n \in Nat, NEW own, NEW others,
           Honest(s, sent, n, own, others), NEW pdu \in DataPDU, GoodPDU(pdu, n)
    PROVE  Honest(HandleDataTransferPDUFromRMT(s, pdu), sent, n, own, others)
<1> DEFINE overrun == [s EXCEPT !.rcvrTimer = TRUE]
           drops == s.dropDup \cup {pdu.sdu}
           dropped == [s EXCEPT !.dropDup = drops, !.rcvrTimer = FALSE]
<1>1. drops \in SUBSET Nat
  BY DEF Sound, EFCPI, DataPDU
<1> HIDE DEF drops
<1>2. Sound(overrun) /\ Same(s, overrun)
  BY DEF Sound, EFCPI, Same, SameSender, SameQueue
<1>3. Sound(dropped) /\ Same(s, dropped)
  BY <1>1 DEF Sound, EFCPI, Same, SameSender, SameQueue
<1>4. DropDuplicate(s, pdu) = SendAckFlowPDU(dropped)
  BY DEF DropDuplicate, drops
<1> HIDE DEF overrun, dropped
<1>5. /\ Honest(SendAckFlowPDU(overrun), sent, n, own, others)
      /\ Honest(SendAckFlowPDU(dropped), sent, n, own, others)
  BY <1>2, <1>3, SameHonest, SendAckFlowPDUAnnounces, Announce
<1> QED BY <1>4, <1>5, RcvDRFHonest, RcvNextHonest DEF HandleDataTransferPDUFromRMT, overrun

LEMMA HandleDTPATimerHonest ==
    ASSUME RxPresent, MaxAllowGap = 0, NEW s, Sound(s),
           NEW sent, NEW n \in Nat, NEW own, NEW others, Honest(s, sent, n, own, others)
    PROVE  Honest(HandleDTPATimer(s), sent, n, own, others)
<1> DEFINE t == DelimitFromRMT(SvUpdate(s, TRUE))
<1>1. Sound(t)
  BY SvUpdateSound, DelimitFromRMTSound
<1>2. Honest(t, sent, n, own, others)
  BY UpdateRcvLWEPends, SvUpdateSettles
<1> HIDE DEF t
<1>3. Same(t, [t EXCEPT !.senderTimer = TRUE])
  BY <1>1 DEF Sound, EFCPI, Same, SameSender, SameQueue
<1> QED BY <1>2, <1>3, SameHonest DEF HandleDTPATimer, t

-----------------------------------------------------------------------------
\* Sending

\* t differs from s in what only the sender's half is about.
SameReceiver(s, t) ==
    /\ SameQueue(s, t)
    /\ t.rcvLeftWinEdge = s.rcvLeftWinEdge
    /\ t.outCtrl = s.outCtrl

LEMMA ReceiverFrame ==
    ASSUME NEW s, NEW t, SameReceiver(s, t), NEW sent, NEW n, NEW own, Receives(s, n, own)
    PROVE  Receives(t, n, own)
BY DEF SameReceiver, SameQueue, Receives, Fragments, Up, EdgeBehind, AcksBehind

\* The next SDU is put into a PDU that is kept.
LEMMA NewHeld ==
    ASSUME NEW s, Sound(s), NEW t, NEW sent, NEW others,
           Numbers(s, sent), Keeps(s, others),
           t.nextSeqNumToSend = s.nextSeqNumToSend + 1, t.sdus = s.sdus + 1,
           t.setDRFFlag = FALSE, t.gaveUp = s.gaveUp,
           Held(t) = Held(s) \cup {NextPDU(s)},
           t.outData \subseteq s.outData \cup {NextPDU(s)}
    PROVE  Numbers(t, sent + 1) /\ Keeps(t, others)
<1> DEFINE pdu == NextPDU(s)
<1>1. s.sdus \in Nat /\ s.sdus = sent /\ s.nextSeqNumToSend = s.sdus + 1
  BY DEF Sound, EFCPI, Numbers
<1>2. pdu.seq = s.sdus + 1 /\ pdu.sdu = s.sdus + 1 /\ pdu.drf = s.setDRFFlag
  BY <1>1 DEF NextPDU
<1>3. GoodPDU(pdu, t.sdus)
  BY <1>1, <1>2 DEF GoodPDU, Numbers
<1>4. ASSUME NEW p, GoodPDU(p, s.sdus)
      PROVE  GoodPDU(p, t.sdus)
  BY <1>1, <1>4 DEF GoodPDU
<1> HIDE DEF pdu
<1>5. Numbers(t, sent + 1)
  BY <1>1, <1>3, <1>4 DEF Numbers, pdu
<1>6. Keeps(t, others)
  <2>1. 1..t.sdus \subseteq 1..s.sdus \cup {pdu.sdu}
    BY <1>1, <1>2
  <2> QED BY <2>1 DEF Keeps, pdu
<1> QED BY <1>5, <1>6

\* What is held may be sent (again) in any copy.
LEMMA SameHeld ==
    ASSUME NEW s, NEW t, NEW sent, NEW others,
           Numbers(s, sent), Keeps(s, others),
           t.nextSeqNumToSend = s.nextSeqNumToSend, t.sdus = s.sdus,
           t.setDRFFlag = s.setDRFFlag, t.gaveUp = s.gaveUp,
           Held(t) = Held(s),
           \A p \in t.outData : p \in s.outData \/ GoodPDU(p, s.sdus)
    PROVE  Numbers(t, sent) /\ Keeps(t, others)
BY DEF Numbers, Keeps

\* A PDU that is held no longer has been given up, or its SDU is with the peer's user.
LEMMA LessHeld ==
    ASSUME NEW s, NEW t, NEW sent, NEW others,
           Numbers(s, sent), Keeps(s, others),
           t.nextSeqNumToSend = s.nextSeqNumToSend, t.sdus = s.sdus,
           t.setDRFFlag = s.setDRFFlag, s.gaveUp \subseteq t.gaveUp,
           Held(t) \subseteq Held(s), t.outData = s.outData,
           \A p \in Held(s) : p \in Held(t) \/ p.sdu \in t.gaveUp \/ p.sdu \in others
    PROVE  Numbers(t, sent) /\ Keeps(t, others)
BY DEF Numbers, Keeps

LEMMA PostNextHonest ==
    ASSUME RxPresent, NEW s, Sound(s), NEW sent, NEW n, NEW own, NEW others,
           Honest(s, sent, n, own, others)
    PROVE  LET t == PostPDU(TookPDU(s), NextPDU(s))
           IN  Honest(t, sent + 1, n, own, others)
<1> DEFINE took == TookPDU(s)
           pdu == NextPDU(s)
           entry == [pdu |-> pdu, expiryCount |-> 0, pos |-> took.pushed + 1]
           kept == PushBackToRxQ(took, pdu)
           t == PostPDU(took, pdu)
<1>1. Sound(took)
  BY TookPDUSound
<1>2. /\ took.nextSeqNumToSend = s.nextSeqNumToSend + 1
      /\ took.sdus = s.sdus + 1 /\ took.setDRFFlag = FALSE
      /\ took.closedWindowQ = s.closedWindowQ /\ took.rxQ = s.rxQ
      /\ took.outData = s.outData /\ took.gaveUp = s.gaveUp
      /\ SameReceiver(s, took)
  BY DEF TookPDU, DtcpPresent, Sound, EFCPI, SameReceiver, SameQueue
<1>3. t = [kept EXCEPT !.outData = @ \cup {pdu}]
  BY DEF PostPDU
<1>4. kept = [took EXCEPT !.rxQ = took.rxQ \cup {entry}, !.pushed = took.pushed + 1]
  BY DEF PushBackToRxQ
<1> HIDE DEF took, pdu
<1>5. entry.pdu = pdu
  OBVIOUS
<1> HIDE DEF entry, kept
<1>6. /\ SameReceiver(took, t)
      /\ t.closedWindowQ = took.closedWindowQ /\ t.rxQ = took.rxQ \cup {entry}
      /\ t.outData = took.outData \cup {pdu} /\ t.gaveUp = took.gaveUp
      /\ t.nextSeqNumToSend = took.nextSeqNumToSend
      /\ t.sdus = took.sdus /\ t.setDRFFlag = took.setDRFFlag
  BY <1>1, <1>3, <1>4 DEF Sound, EFCPI, SameReceiver, SameQueue
<1> HIDE DEF t
<1>7. Held(t) = Held(s) \cup {pdu}
  BY <1>2, <1>5, <1>6 DEF Held
<1>8. Numbers(t, sent + 1) /\ Keeps(t, others)
  BY <1>2, <1>6, <1>7, NewHeld DEF Honest, pdu
<1>9. Receives(t, n, own)
  BY <1>2, <1>6, ReceiverFrame DEF Honest
<1> QED BY <1>8, <1>9 DEF Honest, t, took, pdu

LEMMA HandleMsgFromUpHonest ==
    ASSUME RxPresent, NEW s, Sound(s), NEW sent, NEW n, NEW own, NEW others,
           Honest(s, sent, n, own, others)
    PROVE  LET t == HandleMsgFromUp(s)
           IN  Honest(t, sent + 1, n, own, others)
<1> DEFINE took == TookPDU(s)
           pdu == NextPDU(s)
           posted == PostPDU(took, pdu)
           waits == WinBased /\ (pdu.seq > took.sndRightWinEdge \/ took.closedWindow)
           queue == Append(took.closedWindowQ, pdu)
           t == TrySendGenPDU(took, pdu)
<1>1. Sound(took) /\ pdu \in DataPDU
  BY TookPDUSound, NextPDUType
<1>2. Sound(posted)
  BY <1>1, PostPDUSound
<1>3. ASSUME waits
      PROVE  Honest(t, sent + 1, n, own, others)
  <2>1. \E blocked \in BOOLEAN : t = [took EXCEPT !.closedWindow = TRUE, !.closedWindowQ = queue,
                                                  !.blockingPort = blocked]
    <3>1. took.blockingPort \in BOOLEAN
      BY <1>1 DEF Sound, EFCPI
    <3>2. (took.blockingPort \/ Len(took.closedWindowQ) >= MaxClosedWinQueLen - 1) \in BOOLEAN
      BY <3>1, Zenon
    <3> QED BY <1>3, <3>2, Zenon DEF TrySendGenPDU
  <2>2. /\ took.nextSeqNumToSend = s.nextSeqNumToSend + 1
        /\ took.sdus = s.sdus + 1 /\ took.setDRFFlag = FALSE
        /\ took.closedWindowQ = s.closedWindowQ /\ took.rxQ = s.rxQ
        /\ took.outData = s.outData /\ took.gaveUp = s.gaveUp
        /\ SameReceiver(s, took)
    BY DEF TookPDU, DtcpPresent, Sound, EFCPI, SameReceiver, SameQueue
  <2> HIDE DEF took, pdu, queue, t
  <2>3. /\ SameReceiver(took, t)
        /\ t.closedWindowQ = queue /\ t.rxQ = took.rxQ
        /\ t.outData = took.outData /\ t.gaveUp = took.gaveUp
        /\ t.nextSeqNumToSend = took.nextSeqNumToSend
        /\ t.sdus = took.sdus /\ t.setDRFFlag = took.setDRFFlag
    BY <1>1, <2>1 DEF Sound, EFCPI, SameReceiver, SameQueue
  <2>4. {queue[i] : i \in 1..Len(queue)} =
          {s.closedWindowQ[i] : i \in 1..Len(s.closedWindowQ)} \cup {pdu}
    <3>1. took.closedWindowQ \in Seq(DataPDU)
      BY <1>1 DEF Sound, EFCPI
    <3>2. /\ Len(took.closedWindowQ) \in Nat
          /\ Len(queue) = Len(took.closedWindowQ) + 1
          /\ \A i \in 1..Len(took.closedWindowQ) : queue[i] = took.closedWindowQ[i]
          /\ queue[Len(took.closedWindowQ) + 1] = pdu
      BY <1>1, <3>1 DEF queue
    <3> QED BY <2>2, <3>2
  <2>5. Held(t) = Held(s) \cup {pdu}
    <3>1. Held(t) = {queue[i] : i \in 1..Len(queue)} \cup {x.pdu : x \in s.rxQ}
      BY <2>2, <2>3, Zenon DEF Held
    <3> QED BY <2>4, <3>1, Zenon DEF Held
  <2>6. Numbers(t, sent + 1) /\ Keeps(t, others)
    BY <2>2, <2>3, <2>5, NewHeld DEF Honest, pdu
  <2>7. Receives(t, n, own)
    BY <2>2, <2>3, ReceiverFrame DEF Honest
  <2> QED BY <2>6, <2>7 DEF Honest
<1>4. ASSUME ~waits
      PROVE  Honest(t, sent + 1, n, own, others)
  <2>1. Honest(posted, sent + 1, n, own, others)
    BY PostNextHonest
  <2>2. \E closed : t = [posted EXCEPT !.closedWindow = closed]
    BY <1>4, Zenon DEF TrySendGenPDU
  <2> HIDE DEF posted, t
  <2>3. Same(posted, t)
    BY <1>2, <2>2 DEF Sound, EFCPI, Same, SameSender, SameQueue
  <2> QED BY <2>1, <2>3, SameHonest
<1>5. Sound(t) /\ Honest(t, sent + 1, n, own, others)
  <2>1. Sound(t)
    BY <1>1, TrySendGenPDUSound
  <2> HIDE DEF t
  <2> QED BY <1>3, <1>4, <2>1
<1>6. HandleMsgFromUp(s) = [t EXCEPT !.senderTimer = TRUE]
  BY DEF HandleMsgFromUp
<1> HIDE DEF t
<1>7. Same(t, [t EXCEPT !.senderTimer = TRUE])
  BY <1>5 DEF Sound, EFCPI, Same, SameSender, SameQueue
<1> QED BY <1>5, <1>6, <1>7, SameHonest

\* The front of closedWindowQ that the window admits moves to rxQ.
LEMMA TrySendClosedWindowQHonest ==
    ASSUME RxPresent, NEW s, Sound(s), NEW sent, NEW n, NEW own, NEW others,
           Honest(s, sent, n, own, others)
    PROVE  Honest(TrySendClosedWindowQ(s), sent, n, own, others)
<1> DEFINE q == s.closedWindowQ
           k == Postable(s)
           rest == SubSeq(q, k + 1, Len(q))
           posted == {q[i] : i \in 1..k}
           moved == {[pdu |-> q[i], expiryCount |-> 0, pos |-> s.pushed + i] : i \in 1..k}
           closed == rest # <<>>
           blocking == s.blockingPort /\ Len(rest) >= MaxClosedWinQueLen
           t == TrySendClosedWindowQ(s)
<1>1. q \in Seq(DataPDU) /\ k \in 0..Len(q)
  BY PostableDef DEF Sound, EFCPI
<1>2. t = [s EXCEPT !.outData = s.outData \cup posted, !.rxQ = s.rxQ \cup moved,
                    !.pushed = s.pushed + k, !.closedWindowQ = rest,
                    !.closedWindow = closed, !.blockingPort = blocking]
  BY Zenon DEF TrySendClosedWindowQ
<1>3. {x.pdu : x \in moved} = posted
  <2>1. ASSUME NEW i \in 1..k
        PROVE  [pdu |-> q[i], expiryCount |-> 0, pos |-> s.pushed + i].pdu = q[i]
    OBVIOUS
  <2> HIDE DEF q, k
  <2> QED BY <2>1
<1> HIDE DEF k, posted, moved, closed, blocking, rest, t
<1>4. /\ SameReceiver(s, t)
      /\ t.closedWindowQ = rest /\ t.rxQ = s.rxQ \cup moved
      /\ t.outData = s.outData \cup posted /\ t.gaveUp = s.gaveUp
      /\ t.nextSeqNumToSend = s.nextSeqNumToSend
      /\ t.sdus = s.sdus /\ t.setDRFFlag = s.setDRFFlag
  BY <1>2 DEF Sound, EFCPI, SameReceiver, SameQueue
<1> HIDE DEF q
<1>5. posted \cup {rest[i] : i \in 1..Len(rest)} = {q[i] : i \in 1..Len(q)}
  <2>1. Len(q) \in Nat /\ \A i \in 1..Len(q) : q[i] \in DataPDU
    BY <1>1
  <2>2. /\ Len(rest) = Len(q) - k
        /\ \A i \in 1..Len(rest) : rest[i] = q[k + i]
    BY <1>1, <2>1, SubSeqProperties DEF rest
  <2>3. ASSUME NEW i \in 1..Len(q), i > k
        PROVE  \E j \in 1..Len(rest) : rest[j] = q[i]
    <3>1. i - k \in 1..Len(rest) /\ k + (i - k) = i
      BY <1>1, <2>1, <2>2, <2>3
    <3> QED BY <2>2, <3>1
  <2>4. ASSUME NEW i \in 1..Len(rest)
        PROVE  k + i \in 1..Len(q) /\ rest[i] = q[k + i]
    BY <1>1, <2>1, <2>2
  <2>5. 1..k \subseteq 1..Len(q) /\ \A i \in 1..Len(q) : i \in 1..k \/ i > k
    BY <1>1, <2>1
  <2>6. posted = {q[i] : i \in 1..k}
    BY DEF posted
  <2>7. ASSUME NEW p \in posted \cup {rest[i] : i \in 1..Len(rest)}
        PROVE  \E i \in 1..Len(q) : p = q[i]
    BY <2>4, <2>5, <2>6
  <2>8. ASSUME NEW i \in 1..Len(q)
        PROVE  q[i] \in posted \cup {rest[j] : j \in 1..Len(rest)}
    <3>1. CASE i \in 1..k
      BY <2>6, <3>1
    <3>2. CASE i > k
      BY <2>3, <3>2
    <3> QED BY <2>5, <3>1, <3>2
  <2> QED BY <2>7, <2>8, Zenon
<1>6. Held(t) = Held(s) /\ posted \subseteq Held(s)
  BY <1>3, <1>4, <1>5 DEF Held, q
<1>7. Numbers(t, sent) /\ Keeps(t, others)
  BY <1>4, <1>6, SameHeld DEF Honest, Numbers
<1>8. Receives(t, n, own)
  BY <1>4, ReceiverFrame DEF Honest
<1> QED BY <1>7, <1>8 DEF Honest, t

-----------------------------------------------------------------------------
\* Receiving control

\* What an acknowledgement removes from rxQ, the peer's user has got.
LEMMA AckPDUHonest ==
    ASSUME NEW s, Sound(s), NEW sent, NEW n, NEW own, NEW others,
           Honest(s, sent, n, own, others),
           NEW ack \in Int, 1..ack \subseteq others
    PROVE  Honest(AckPDU(s, ack), sent, n, own, others)
<1> DEFINE t == AckPDU(s, ack)
<1>1. /\ SameReceiver(s, t)
      /\ t.rxQ = {x \in s.rxQ : x.pdu.seq > ack}
      /\ t.closedWindowQ = s.closedWindowQ
      /\ t.outData = s.outData /\ t.gaveUp = s.gaveUp
      /\ t.nextSeqNumToSend = s.nextSeqNumToSend
      /\ t.sdus = s.sdus /\ t.setDRFFlag = s.setDRFFlag
  BY DEF AckPDU, Sound, EFCPI, SameReceiver, SameQueue
<1> HIDE DEF t
<1>2. ASSUME NEW p \in Held(s)
      PROVE  p \in Held(t) \/ p.sdu \in others
  <2>1. CASE p \in {s.closedWindowQ[i] : i \in 1..Len(s.closedWindowQ)}
    BY <1>1, <2>1 DEF Held
  <2>2. ASSUME NEW x \in s.rxQ, p = x.pdu
        PROVE  p \in Held(t) \/ p.sdu \in others
    <3>1. CASE x.pdu.seq > ack
      BY <1>1, <2>2, <3>1 DEF Held
    <3>2. CASE ~(x.pdu.seq > ack)
      <4>1. p.sdu = p.seq /\ p.seq \in 1..sent
        BY DEF Honest, Numbers, GoodPDU
      <4>2. p.seq \in 1..ack
        BY <2>2, <3>2, <4>1
      <4> QED BY <4>1, <4>2
    <3> QED BY <3>1, <3>2
  <2> QED BY <2>1, <2>2 DEF Held
<1>3. Held(t) \subseteq Held(s)
  BY <1>1 DEF Held
<1>4. Numbers(t, sent) /\ Keeps(t, others)
  BY <1>1, <1>2, <1>3, LessHeld DEF Honest
<1>5. Receives(t, n, own)
  BY <1>1, ReceiverFrame DEF Honest
<1> QED BY <1>4, <1>5 DEF Honest, t

LEMMA UpdateSndLWEHonest ==
    ASSUME NEW s, Sound(s), NEW sent, NEW n, NEW own, NEW others,
           Honest(s, sent, n, own, others), NEW edge \in Nat
    PROVE  Honest(UpdateSndLWE(s, edge), sent, n, own, others)
<1>1. \E v : UpdateSndLWE(s, edge) = [s EXCEPT !.sndLeftWinEdge = v]
  BY DEF UpdateSndLWE
<1>2. Same(s, UpdateSndLWE(s, edge))
  BY <1>1 DEF Sound, EFCPI, Same, SameSender, SameQueue
<1> QED BY <1>2, SameHonest

LEMMA SenderAckHonest ==
    ASSUME NEW s, Sound(s), NEW sent, NEW n, NEW own, NEW others,
           Honest(s, sent, n, own, others),
           NEW pdu \in CtrlPDU, 1..pdu.ack \subseteq others
    PROVE  Honest(SenderAck(s, pdu), sent, n, own, others)
<1>1. pdu.ack \in Int /\ pdu.ack + 1 \in Nat
  BY DEF CtrlPDU
<1> QED BY <1>1, AckPDUSound, AckPDUHonest, UpdateSndLWEHonest DEF SenderAck

LEMMA RcvrControlAckHonest ==
    ASSUME NEW s, Sound(s), NEW sent, NEW n, NEW own, NEW others,
           Honest(s, sent, n, own, others),
           NEW pdu \in CtrlPDU, 1..pdu.ack \subseteq others
    PROVE  Honest(RcvrControlAck(s, pdu), sent, n, own, others)
<1> DEFINE acked == IF pdu.ack > s.sndLeftWinEdge
                    THEN UpdateSndLWE(AckPDU(s, pdu.ack - 1), pdu.ack)
                    ELSE s
           t == [acked EXCEPT !.sndRightWinEdge = pdu.rwe]
<1>1. pdu.ack \in Nat /\ pdu.ack - 1 \in Int /\ pdu.rwe \in Nat
  BY DEF CtrlPDU
<1>2. 1..(pdu.ack - 1) \subseteq others
  BY <1>1
<1>3. Sound(acked) /\ Honest(acked, sent, n, own, others)
  BY <1>1, <1>2, AckPDUSound, AckPDUHonest, UpdateSndLWESound, UpdateSndLWEHonest
<1> HIDE DEF acked
<1>4. Sound(t) /\ Same(acked, t)
  BY <1>1, <1>3 DEF Sound, EFCPI, Same, SameSender, SameQueue
<1> HIDE DEF t
<1>5. Honest(SendAckFlowPDU(t), sent, n, own, others)
  BY <1>3, <1>4, SameHonest, SendAckFlowPDUAnnounces, Announce
<1> QED BY <1>5 DEF RcvrControlAck, acked, t

\* A control PDU that reveals a lost one has an empty SDU sent.
LEMMA CommonRcvControlHonest ==
    ASSUME RxPresent, NEW s, Sound(s), NEW sent, NEW n, NEW own, NEW others,
           Honest(s, sent, n, own, others), NEW pdu \in CtrlPDU
    PROVE  Honest(CommonRcvControl(s, pdu),
                  IF IsLost(s, pdu) THEN sent + 1 ELSE sent, n, own, others)
<1> DEFINE asked == SendControlAckPDU(s)
           posted == PostPDU(TookPDU(asked), NextPDU(asked))
           t == IF IsLost(s, pdu) THEN LostControlPDU(s) ELSE s
           now == IF IsLost(s, pdu) THEN sent + 1 ELSE sent
<1>1. Sound(asked) /\ Honest(asked, sent, n, own, others)
  BY SendControlAckPDUSound, SendAckFlowPDUAnnounces, Announce
<1> HIDE DEF asked
<1>2. Sound(posted) /\ Honest(posted, sent + 1, n, own, others)
  BY <1>1, PostNextHonest, TookPDUSound, NextPDUType, PostPDUSound
<1>3. \E v : LostControlPDU(s) = [posted EXCEPT !.empty = v]
  BY DEF LostControlPDU, SendEmptyDTPDU, asked
<1> HIDE DEF posted
<1>4. Same(posted, LostControlPDU(s))
  BY <1>2, <1>3 DEF Sound, EFCPI, Same, SameSender, SameQueue
<1>5. Sound(LostControlPDU(s)) /\ Honest(LostControlPDU(s), sent + 1, n, own, others)
  BY <1>1, <1>2, <1>4, SameHonest, SendEmptyDTPDUSound DEF LostControlPDU, asked
<1>6. Sound(t) /\ Honest(t, now, n, own, others)
  BY <1>5
<1>7. CommonRcvControl(s, pdu) = [t EXCEPT !.lastControlSeqNumRcv = pdu.seq]
  BY DEF CommonRcvControl
<1> HIDE DEF t, now
<1>8. Same(t, [t EXCEPT !.lastControlSeqNumRcv = pdu.seq])
  BY <1>6 DEF Sound, EFCPI, Same, SameSender, SameQueue
<1>9. Honest(CommonRcvControl(s, pdu), now, n, own, others)
  BY <1>6, <1>7, <1>8, SameHonest
<1> QED BY <1>9 DEF now

LEMMA RcvFlowControlHonest ==
    ASSUME RxPresent, NEW s, Sound(s), NEW sent, NEW n, NEW own, NEW others,
           Honest(s, sent, n, own, others), NEW pdu \in CtrlPDU
    PROVE  Honest(RcvFlowControl(s, pdu), sent, n, own, others)
<1> DEFINE edge == [s EXCEPT !.sndRightWinEdge = pdu.rwe]
<1>1. Sound(edge) /\ Same(s, edge)
  BY DEF Sound, EFCPI, CtrlPDU, Same, SameSender, SameQueue
<1> HIDE DEF edge
<1>2. Honest(edge, sent, n, own, others)
  BY <1>1, SameHonest
<1> QED BY <1>1, <1>2, TrySendClosedWindowQHonest DEF RcvFlowControl, edge

LEMMA HandleControlPDUFromRMTHonest ==
    ASSUME RxPresent, NEW s, Sound(s), NEW sent \in Nat, NEW n, NEW own, NEW others,
           Honest(s, sent, n, own, others),
           NEW pdu \in CtrlPDU, 1..pdu.ack \subseteq others
    PROVE  Honest(HandleControlPDUFromRMT(s, pdu),
                  IF IsLost(s, pdu) THEN sent + 1 ELSE sent, n, own, others)
<1> DEFINE c == CommonRcvControl(s, pdu)
           now == IF IsLost(s, pdu) THEN sent + 1 ELSE sent
           old == pdu.seq <= s.lastControlSeqNumRcv
           new == pdu.seq > s.lastControlSeqNumRcv
<1>1. /\ old \/ new
      /\ ~(old /\ new)
      /\ old => now = sent
      /\ pdu.type \in {"ack", "fc", "ackflow", "controlack"}
  BY DEF Sound, EFCPI, CtrlPDU, CtrlType, IsLost
<1>2. Sound(c) /\ Honest(c, now, n, own, others)
  BY CommonRcvControlSound, CommonRcvControlHonest
<1>3. HandleControlPDUFromRMT(s, pdu) =
        CASE old -> s
          [] new /\ pdu.type = "controlack" -> RcvrControlAck(c, pdu)
          [] new /\ pdu.type = "ack" -> SenderAck(c, pdu)
          [] new /\ pdu.type = "fc" -> RcvFlowControl(c, pdu)
          [] new /\ pdu.type = "ackflow" -> RcvFlowControl(SenderAck(c, pdu), pdu)
  BY Zenon DEF HandleControlPDUFromRMT
<1> HIDE DEF c
<1>4. /\ Honest(RcvrControlAck(c, pdu), now, n, own, others)
      /\ Honest(SenderAck(c, pdu), now, n, own, others)
      /\ Honest(RcvFlowControl(c, pdu), now, n, own, others)
      /\ Honest(RcvFlowControl(SenderAck(c, pdu), pdu), now, n, own, others)
  BY <1>2, RcvrControlAckHonest, SenderAckSound, SenderAckHonest, RcvFlowControlHonest
<1> HIDE DEF now, old, new
<1>5. Honest(HandleControlPDUFromRMT(s, pdu), now, n, own, others)
  BY <1>1, <1>3, <1>4
<1> QED BY <1>5 DEF now

-----------------------------------------------------------------------------
\* The retransmission timer

LEMMA RxTimerExpiryHonest ==
    ASSUME NEW s, Sound(s), NEW sent, NEW n, NEW own, NEW others,
           Honest(s, sent, n, own, others), NEW x \in s.rxQ
    PROVE  Honest(RxTimerExpiry(s, x), sent, n, own, others)
<1> DEFINE rest == s.rxQ \ {x}
           again == [x EXCEPT !.expiryCount = x.expiryCount + 1]
           copy == [x.pdu EXCEPT !.copy = x.expiryCount + 1]
           given == s.gaveUp \cup {x.pdu.sdu}
           quits == [s EXCEPT !.rxQ = rest, !.gaveUp = given]
           retries == [s EXCEPT !.rxQ = rest \cup {again}, !.outData = s.outData \cup {copy}]
<1>1. x \in RxEntry /\ x.pdu \in DataPDU
  BY DEF Sound, EFCPI, RxEntry
<1>2. /\ again.pdu = x.pdu
      /\ copy.seq = x.pdu.seq /\ copy.sdu = x.pdu.sdu /\ copy.drf = x.pdu.drf
  BY <1>1 DEF RxEntry, DataPDU
<1>3. RxTimerExpiry(s, x) = quits \/ RxTimerExpiry(s, x) = retries
  BY DEF RxTimerExpiry
<1> HIDE DEF rest, again, copy, given
<1>4. /\ SameReceiver(s, quits)
      /\ quits.rxQ = rest /\ quits.closedWindowQ = s.closedWindowQ
      /\ quits.outData = s.outData /\ quits.gaveUp = given
      /\ quits.nextSeqNumToSend = s.nextSeqNumToSend
      /\ quits.sdus = s.sdus /\ quits.setDRFFlag = s.setDRFFlag
  BY DEF Sound, EFCPI, SameReceiver, SameQueue
<1>5. /\ SameReceiver(s, retries)
      /\ retries.rxQ = rest \cup {again} /\ retries.closedWindowQ = s.closedWindowQ
      /\ retries.outData = s.outData \cup {copy} /\ retries.gaveUp = s.gaveUp
      /\ retries.nextSeqNumToSend = s.nextSeqNumToSend
      /\ retries.sdus = s.sdus /\ retries.setDRFFlag = s.setDRFFlag
  BY DEF Sound, EFCPI, SameReceiver, SameQueue
<1> HIDE DEF quits, retries
<1>6. Honest(quits, sent, n, own, others)
  <2>1. Held(quits) \subseteq Held(s)
    BY <1>4 DEF Held, rest
  <2>2. \A p \in Held(s) : p \in Held(quits) \/ p.sdu \in quits.gaveUp
    BY <1>4 DEF Held, rest, given
  <2>3. Numbers(quits, sent) /\ Keeps(quits, others)
    BY <1>4, <2>1, <2>2, LessHeld DEF Honest, given
  <2> QED BY <1>4, <2>3, ReceiverFrame DEF Honest
<1>7. Honest(retries, sent, n, own, others)
  <2>1. Held(retries) = Held(s)
    BY <1>2, <1>5 DEF Held, rest
  <2>2. GoodPDU(copy, s.sdus)
    BY <1>2 DEF Honest, Numbers, Held, GoodPDU
  <2>3. Numbers(retries, sent) /\ Keeps(retries, others)
    BY <1>5, <2>1, <2>2, SameHeld DEF Honest
  <2> QED BY <1>5, <2>3, ReceiverFrame DEF Honest
<1> QED BY <1>3, <1>6, <1>7

-----------------------------------------------------------------------------
\* The connection

LEMMA Bounds == MaxSdu \in Nat /\ MaxWrite \in Nat /\ MaxWrite <= MaxSdu
BY ConnectionAssumption

\* What is true of an EFCPI stays true when its peer sends and hands up more.
LEMMA HonestGrows ==
    ASSUME NEW s, NEW sent, NEW n \in Nat, NEW m \in Nat, n <= m,
           NEW own, NEW others, NEW more, others \subseteq more,
           Honest(s, sent, n, own, others)
    PROVE  Honest(s, sent, m, own, more)
<1>1. \A k \in 1..n : k \in 1..m
  OBVIOUS
<1>2. Fragments(s, m)
  BY <1>1 DEF Honest, Receives, Fragments
<1>3. Keeps(s, more)
  BY DEF Honest, Keeps
<1> QED BY <1>2, <1>3 DEF Honest, Receives

LEMMA GoodPDUGrows ==
    ASSUME NEW p, NEW n \in Nat, NEW m \in Nat, n <= m, GoodPDU(p, n)
    PROVE  GoodPDU(p, m)
BY DEF GoodPDU

\* An event at e: its handler leaves s, and what s sent and handed up is where Handle
\* puts it.
LEMMA HandleCustody ==
    ASSUME SoundInv, CustodyInv, NEW e \in End, NEW s, Sound(s),
           NEW data \in SUBSET dataNet[e], NEW ctrl \in SUBSET ctrlNet[e],
           efcpi[e].sdus <= s.sdus, s.sdus <= MaxSdu,
           Honest(s, s.sdus, efcpi[Peer(e)].sdus, Received(e), Received(Peer(e))),
           Handle(e, s, data, ctrl), idle' = idle
    PROVE  CustodyInv'
<1> DEFINE o == Peer(e)
           n == efcpi[o].sdus
           t == [s EXCEPT !.outData = {}, !.outCtrl = {}, !.toUser = {}]
           handed == {f.sdu : f \in s.toUser}
           count == [k \in 1..MaxSdu |->
                       delivered[e][k] + IF \E f \in s.toUser : f.sdu = k THEN 1 ELSE 0]
<1>1. /\ efcpi \in [End -> EFCPI]
      /\ dataNet \in [End -> SUBSET DataPDU]
      /\ ctrlNet \in [End -> SUBSET CtrlPDU]
      /\ delivered \in [End -> [1..MaxSdu -> Nat]]
  BY DEF SoundInv, TypeOK
<1>2. o \in End /\ o # e /\ Peer(o) = e /\ \A d \in End : d = e \/ d = o
  BY DEF End, Peer
<1>3. /\ efcpi' = [efcpi EXCEPT ![e] = t]
      /\ dataNet' = [dataNet EXCEPT ![e] = data, ![o] = @ \cup s.outData]
      /\ ctrlNet' = [ctrlNet EXCEPT ![e] = ctrl, ![o] = @ \cup s.outCtrl]
  BY DEF Handle
<1>4. delivered' = [delivered EXCEPT ![e] = count]
  BY <1>1 DEF Handle
<1> HIDE DEF t, count, o
<1>5. /\ efcpi'[e] = t /\ efcpi'[o] = efcpi[o]
      /\ dataNet'[e] = data /\ dataNet'[o] = dataNet[o] \cup s.outData
      /\ ctrlNet'[e] = ctrl /\ ctrlNet'[o] = ctrlNet[o] \cup s.outCtrl
      /\ delivered'[e] = count /\ delivered'[o] = delivered[o]
  BY <1>1, <1>2, <1>3, <1>4
<1>6. /\ SameSender(s, [t EXCEPT !.outData = s.outData])
      /\ t.sdus = s.sdus /\ t.reassemblyPDUQ = s.reassemblyPDUQ
      /\ t.rcvLeftWinEdge = s.rcvLeftWinEdge
      /\ t.nextSeqNumToSend = s.nextSeqNumToSend /\ t.setDRFFlag = s.setDRFFlag
      /\ t.gaveUp = s.gaveUp /\ Held(t) = Held(s)
      /\ t.outData = {} /\ t.outCtrl = {} /\ t.toUser = {}
  BY DEF t, Sound, EFCPI, SameSender, Held
<1>7. efcpi[e].sdus \in Nat /\ s.sdus \in Nat /\ n \in Nat /\ n <= MaxSdu
  BY <1>1, <1>2 DEF Sound, EFCPI, CustodyInv
<1>8. Received(o)' = Received(o)
  BY <1>5 DEF Received
<1>9. Received(e)' = Up(s, Received(e))
  <2>1. \A f \in s.toUser : f.sdu \in 1..MaxSdu
    <3>1. Fragments(s, n)
      BY DEF Honest, Receives, o
    <3> HIDE DEF n
    <3>2. \A k \in 1..n : k \in 1..MaxSdu
      BY <1>7, Bounds
    <3> QED BY <3>1, <3>2 DEF Fragments
  <2>2. \A k \in 1..MaxSdu : delivered[e][k] \in Nat
    BY <1>1
  <2>3. \A k \in 1..MaxSdu : count[k] > 0 <=> delivered[e][k] > 0 \/ k \in handed
    BY <2>2 DEF count
  <2>4. handed \subseteq 1..MaxSdu
    BY <2>1
  <2>5. Received(e)' = {k \in 1..MaxSdu : count[k] > 0}
    BY <1>5 DEF Received
  <2> HIDE DEF handed
  <2>6. Received(e)' = Received(e) \cup handed
    BY <2>3, <2>4, <2>5 DEF Received
  <2> QED BY <2>6 DEF Up, handed
<1>10. Received(e) \subseteq Received(e)'
  BY <1>9 DEF Up
<1> HIDE DEF handed
<1>11. Honest(t, t.sdus, n, Received(e)', Received(o)')
  <2>1. Up(t, Received(e)') = Up(s, Received(e))
    BY <1>6, <1>9 DEF Up
  <2>2. Receives(t, n, Received(e)')
    BY <1>6, <2>1 DEF Honest, Receives, Fragments, EdgeBehind, AcksBehind, n, o
  <2>3. Numbers(t, t.sdus)
    BY <1>6 DEF Honest, Numbers
  <2>4. Keeps(t, Received(o)')
    BY <1>6, <1>8 DEF Honest, Keeps, o
  <2> QED BY <2>2, <2>3, <2>4 DEF Honest
<1>12. Honest(efcpi[o], n, t.sdus, Received(o)', Received(e)')
  <2>1. Honest(efcpi[o], n, efcpi[e].sdus, Received(o), Received(e))
    BY <1>2 DEF CustodyInv
  <2> HIDE DEF n
  <2> QED BY <1>6, <1>7, <1>8, <1>10, <2>1, HonestGrows
<1>13. \A p \in dataNet'[e] : GoodPDU(p, n)
  BY <1>5 DEF CustodyInv, n, o
<1>14. \A p \in dataNet'[o] : GoodPDU(p, t.sdus)
  <2>1. \A p \in dataNet[o] : GoodPDU(p, efcpi[e].sdus)
    BY <1>2 DEF CustodyInv
  <2>2. \A p \in s.outData : GoodPDU(p, s.sdus)
    BY DEF Honest, Numbers
  <2> QED BY <1>5, <1>6, <1>7, <2>1, <2>2, GoodPDUGrows
<1>15. \A c \in ctrlNet'[e] : 1..c.ack \subseteq Received(o)'
  BY <1>5, <1>8 DEF CustodyInv, o
<1>16. \A c \in ctrlNet'[o] : 1..c.ack \subseteq Received(e)'
  <2>1. \A c \in ctrlNet[o] : 1..c.ack \subseteq Received(e)
    BY <1>2 DEF CustodyInv
  <2>2. \A c \in s.outCtrl : 1..c.ack \subseteq Received(e)'
    BY <1>9 DEF Honest, Receives, AcksBehind
  <2> QED BY <1>5, <1>10, <2>1, <2>2
<1>17. efcpi[o].outData = {} /\ efcpi[o].outCtrl = {} /\ efcpi[o].toUser = {}
  BY <1>2 DEF CustodyInv
<1> DEFINE Good(d) ==
         /\ efcpi'[d].sdus <= MaxSdu
         /\ efcpi'[d].outData = {} /\ efcpi'[d].outCtrl = {} /\ efcpi'[d].toUser = {}
         /\ Honest(efcpi'[d], efcpi'[d].sdus, efcpi'[Peer(d)].sdus,
                   Received(d)', Received(Peer(d))')
         /\ \A p \in dataNet'[d] : GoodPDU(p, efcpi'[Peer(d)].sdus)
         /\ \A c \in ctrlNet'[d] : 1..c.ack \subseteq Received(Peer(d))'
<1>18. Good(e)
  <2>1. Peer(e) = o
    BY DEF o
  <2> QED BY <1>5, <1>6, <1>7, <1>11, <1>13, <1>15, <2>1
<1>19. Good(o)
  BY <1>2, <1>5, <1>6, <1>7, <1>12, <1>14, <1>16, <1>17
<1>20. \A d \in End : Good(d)
  BY <1>2, <1>18, <1>19
<1>21. idle' = 0
  BY DEF CustodyInv
<1> HIDE DEF o
<1> QED BY <1>20, <1>21 DEF CustodyInv

LEMMA CustodyInit == Init => CustodyInv
<1> SUFFICES ASSUME Init PROVE CustodyInv
  OBVIOUS
<1> DEFINE s == InitEFCPI
<1>1. 1..0 = {}
  OBVIOUS
<1>2. \A e \in End : /\ efcpi[e] = s
                     /\ dataNet[e] = {} /\ ctrlNet[e] = {}
  BY DEF Init
<1>3. /\ s.sdus = 0 /\ s.nextSeqNumToSend = 1 /\ s.rcvLeftWinEdge = 0
      /\ s.closedWindowQ = <<>> /\ s.rxQ = {} /\ s.reassemblyPDUQ = {}
      /\ s.outData = {} /\ s.outCtrl = {} /\ s.toUser = {}
  BY DEF InitEFCPI
<1> HIDE DEF s
<1>4. Held(s) = {}
  BY <1>1, <1>3 DEF Held
<1>5. ASSUME NEW own, NEW others
      PROVE  Honest(s, 0, 0, own, others)
  BY <1>1, <1>3, <1>4
     DEF Honest, Numbers, Keeps, Receives, Fragments, EdgeBehind, AcksBehind
<1>6. idle = 0
  BY DEF Init
<1>7. ASSUME NEW e \in End
      PROVE  /\ efcpi[e] = s /\ efcpi[Peer(e)] = s /\ dataNet[e] = {} /\ ctrlNet[e] = {}
             /\ 0 <= MaxSdu
             /\ Honest(s, 0, 0, Received(e), Received(Peer(e)))
  <2>1. efcpi[e] = s /\ efcpi[Peer(e)] = s /\ dataNet[e] = {} /\ ctrlNet[e] = {}
    BY <1>2, PeerType
  <2> QED BY <1>5, <2>1, Bounds
<1> QED BY <1>3, <1>6, <1>7 DEF CustodyInv

LEMMA CustodyNext ==
    ASSUME RxPresent, MaxAllowGap = 0, MaxIdle = 0
    PROVE  SoundInv /\ CustodyInv /\ [Next]_vars => CustodyInv'
<1> SUFFICES ASSUME SoundInv, CustodyInv, [Next]_vars
             PROVE  CustodyInv'
  OBVIOUS
<1>1. ASSUME NEW e \in End
      PROVE  /\ Sound(efcpi[e])
             /\ dataNet[e] \in SUBSET DataPDU /\ ctrlNet[e] \in SUBSET CtrlPDU
             /\ efcpi[e].sdus \in Nat /\ efcpi[Peer(e)].sdus \in Nat
             /\ efcpi[e].sdus <= MaxSdu
             /\ Honest(efcpi[e], efcpi[e].sdus, efcpi[Peer(e)].sdus,
                       Received(e), Received(Peer(e)))
  BY <1>1, PeerType DEF SoundInv, TypeOK, Sound, EFCPI, CustodyInv
<1>2. ASSUME NEW e \in End, NEW s, Sound(s), NEW sent \in Nat,
             efcpi[e].sdus <= sent, sent <= MaxSdu,
             Honest(s, sent, efcpi[Peer(e)].sdus, Received(e), Received(Peer(e))),
             NEW data \in SUBSET dataNet[e], NEW ctrl \in SUBSET ctrlNet[e],
             Handle(e, s, data, ctrl), UNCHANGED <<lost, idle>>
      PROVE  CustodyInv'
  <2>1. s.sdus = sent
    BY <1>2 DEF Honest, Numbers
  <2> QED BY <1>2, <2>1, HandleCustody
<1>3. ASSUME NEW e \in End, Write(e)
      PROVE  CustodyInv'
  <2> DEFINE s == HandleMsgFromUp(efcpi[e])
             sent == efcpi[e].sdus + 1
  <2>1. Sound(s)
    BY <1>1, HandleMsgFromUpSound
  <2>2. Honest(s, sent, efcpi[Peer(e)].sdus, Received(e), Received(Peer(e)))
    BY <1>1, HandleMsgFromUpHonest
  <2>3. sent \in Nat /\ efcpi[e].sdus <= sent /\ sent <= MaxSdu
    BY <1>1, <1>3, Bounds DEF Write
  <2>4. Handle(e, s, dataNet[e], ctrlNet[e]) /\ UNCHANGED <<lost, idle>>
    BY <1>3 DEF Write
  <2> HIDE DEF s, sent
  <2> QED BY <1>2, <2>1, <2>2, <2>3, <2>4
<1>4. ASSUME NEW e \in End, NEW p \in dataNet[e], RcvData(e, p)
      PROVE  CustodyInv'
  <2> DEFINE s == HandleDataTransferPDUFromRMT(efcpi[e], p)
  <2>1. p \in DataPDU /\ GoodPDU(p, efcpi[Peer(e)].sdus)
    BY <1>1 DEF CustodyInv
  <2>2. Sound(s)
    BY <1>1, <2>1, HandleDataTransferPDUFromRMTSound
  <2>3. Honest(s, efcpi[e].sdus, efcpi[Peer(e)].sdus, Received(e), Received(Peer(e)))
    BY <1>1, <2>1, HandleDataTransferPDUFromRMTHonest
  <2>4. Handle(e, s, dataNet[e] \ {p}, ctrlNet[e]) /\ UNCHANGED <<lost, idle>>
    BY <1>4 DEF RcvData
  <2> HIDE DEF s
  <2> QED BY <1>1, <1>2, <2>2, <2>3, <2>4
<1>5. ASSUME NEW e \in End, NEW p \in ctrlNet[e], RcvCtrl(e, p)
      PROVE  CustodyInv'
  <2> DEFINE s == HandleControlPDUFromRMT(efcpi[e], p)
             sent == IF IsLost(efcpi[e], p) THEN efcpi[e].sdus + 1 ELSE efcpi[e].sdus
  <2>1. p \in CtrlPDU /\ 1..p.ack \subseteq Received(Peer(e))
    BY <1>1 DEF CustodyInv
  <2>2. Sound(s)
    BY <1>1, <2>1, HandleControlPDUFromRMTSound
  <2>3. Honest(s, sent, efcpi[Peer(e)].sdus, Received(e), Received(Peer(e)))
    BY <1>1, <2>1, HandleControlPDUFromRMTHonest
  <2>4. sent \in Nat /\ efcpi[e].sdus <= sent /\ sent <= MaxSdu
    BY <1>1, <1>5, Bounds DEF RcvCtrl
  <2>5. Handle(e, s, dataNet[e], ctrlNet[e] \ {p}) /\ UNCHANGED <<lost, idle>>
    BY <1>5 DEF RcvCtrl
  <2> HIDE DEF s, sent
  <2> QED BY <1>2, <2>2, <2>3, <2>4, <2>5
<1>6. ASSUME NEW e \in End, NEW x \in efcpi[e].rxQ, RxTimer(e, x)
      PROVE  CustodyInv'
  <2> DEFINE s == RxTimerExpiry(efcpi[e], x)
  <2>1. Sound(s)
    BY <1>1, RxTimerExpirySound
  <2>2. Honest(s, efcpi[e].sdus, efcpi[Peer(e)].sdus, Received(e), Received(Peer(e)))
    BY <1>1, RxTimerExpiryHonest
  <2>3. Handle(e, s, dataNet[e], ctrlNet[e]) /\ UNCHANGED <<lost, idle>>
    BY <1>6 DEF RxTimer
  <2> HIDE DEF s
  <2> QED BY <1>1, <1>2, <2>1, <2>2, <2>3
<1>7. ASSUME NEW e \in End, ATimer(e)
      PROVE  CustodyInv'
  <2> DEFINE s == HandleDTPATimer(efcpi[e])
  <2>1. Sound(s)
    BY <1>1, HandleDTPATimerSound
  <2>2. Honest(s, efcpi[e].sdus, efcpi[Peer(e)].sdus, Received(e), Received(Peer(e)))
    BY <1>1, HandleDTPATimerHonest
  <2>3. Handle(e, s, dataNet[e], ctrlNet[e]) /\ UNCHANGED <<lost, idle>>
    BY <1>7 DEF ATimer
  <2> HIDE DEF s
  <2> QED BY <1>1, <1>2, <2>1, <2>2, <2>3
<1>8. ASSUME NEW e \in End, RcvrInactivityTimer(e) \/ SenderInactivityTimer(e)
      PROVE  FALSE
  BY <1>8 DEF RcvrInactivityTimer, SenderInactivityTimer, CustodyInv
<1>9. ASSUME NEW e \in End, Lose(e)
      PROVE  CustodyInv'
  <2>1. efcpi' = efcpi /\ delivered' = delivered /\ idle' = idle
    BY <1>9 DEF Lose
  <2>2. \A d \in End : dataNet'[d] \subseteq dataNet[d] /\ ctrlNet'[d] \subseteq ctrlNet[d]
    BY <1>9 DEF Lose, SoundInv, TypeOK
  <2>3. \A d : Received(d)' = Received(d)
    BY <2>1 DEF Received
  <2> QED BY <2>1, <2>2, <2>3 DEF CustodyInv
<1>10. CASE UNCHANGED vars
  <2>1. \A d : Received(d)' = Received(d)
    BY <1>10 DEF vars, Received
  <2> QED BY <1>10, <2>1 DEF vars, CustodyInv
<1> QED BY <1>3, <1>4, <1>5, <1>6, <1>7, <1>8, <1>9, <1>10 DEF Next

\* Whatever the path loses and in whatever order PDUs, acknowledgements and timers
\* come, an SDU stays with its sender until the user at the other end has got it, or
\* until its last retransmission: for every window, credit, queue length and
\* acknowledgement delay.
THEOREM NothingVanishes ==
    ASSUME RxPresent, MaxAllowGap = 0, MaxIdle = 0
    PROVE  Spec => []NoSilentLoss
<1>1. CustodyInv => NoSilentLoss
  <2> SUFFICES ASSUME CustodyInv, NEW e \in End
               PROVE  1..efcpi[e].sdus \subseteq
                        Waiting(e) \cup Unacked(e) \cup efcpi[e].gaveUp \cup Received(Peer(e))
    BY DEF NoSilentLoss
  <2>1. Keeps(efcpi[e], Received(Peer(e)))
    BY DEF CustodyInv, Honest
  <2>2. {p.sdu : p \in Held(efcpi[e])} \subseteq Waiting(e) \cup Unacked(e)
    <3>1. \A i \in 1..Len(efcpi[e].closedWindowQ) : i \in DOMAIN efcpi[e].closedWindowQ
      OBVIOUS
    <3> QED BY <3>1 DEF Held, Waiting, Unacked
  <2> QED BY <2>1, <2>2 DEF Keeps
<1>2. Init => SoundInv /\ CustodyInv
  BY SoundInit, CustodyInit
<1>3. SoundInv /\ CustodyInv /\ [Next]_vars => (SoundInv /\ CustodyInv)'
  BY SoundNext, CustodyNext
<1> QED BY <1>1, <1>2, <1>3, PTL DEF Spec
=============================================================================
