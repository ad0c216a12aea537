----------------------------- MODULE EFCPProofs -----------------------------
(***************************************************************************)
(* Theorems about an EFCP connection, for every value of the constants.    *)
(***************************************************************************)
EXTENDS EFCPConnection, TLAPS, WellFoundedInduction, SequenceTheorems, FiniteSetTheorems

USE EFCPAssumption, ConnectionAssumption

-----------------------------------------------------------------------------
\* A nonempty set of natural numbers has a least one.
LEMMA LeastNat ==
    ASSUME NEW S \in SUBSET Nat, S # {}
    PROVE  \E n \in S : \A m \in S : n <= m
<1> DEFINE less == OpToRel(<, Nat)
<1>1. IsWellFoundedOn(less, Nat)
  BY NatLessThanWellFounded
<1>2. ASSUME NEW m \in Nat, NEW n \in Nat, m < n
      PROVE  <<m, n>> \in less
  BY <1>2 DEF OpToRel
<1> HIDE DEF less
<1>3. PICK n \in S : \A m \in S : ~(<<m, n>> \in less)
  BY <1>1, WFMin, Zenon
<1>4. ASSUME NEW m \in S, ~(n <= m)
      PROVE  FALSE
  <2>1. m \in Nat /\ n \in Nat /\ m < n
    BY <1>4
  <2>2. <<m, n>> \in less
    BY <1>2, <2>1
  <2> QED BY <1>3, <2>2
<1> QED BY <1>4

\* A bounded nonempty set of natural numbers has a greatest one, and Max is it.
LEMMA MaxBounded ==
    ASSUME NEW S \in SUBSET Nat, S # {},
           NEW b \in Nat, \A n \in S : n <= b
    PROVE  /\ Max(S) \in S
           /\ \A n \in S : n <= Max(S)
<1> DEFINE T == {b - n : n \in S}
<1>1. T \in SUBSET Nat /\ T # {}
  <2>1. \A n \in S : b - n \in Nat
    OBVIOUS
  <2>2. PICK n \in S : TRUE
    OBVIOUS
  <2>3. b - n \in T
    OBVIOUS
  <2> QED BY <2>1, <2>3
<1>2. PICK t \in T : \A u \in T : t <= u
  BY <1>1, LeastNat
<1>3. PICK x \in S : t = b - x
  OBVIOUS
<1>4. \A n \in S : x >= n
  BY <1>2, <1>3
<1> QED BY <1>4 DEF Max

-----------------------------------------------------------------------------
\* The states of an EFCPI: of their type, and with a bounded reassembly queue, so
\* that the left edge updateRcvLWE finds on the queue is a sequence number.
Bounded(q) == \E b \in Nat : \A f \in q : f.seq <= b

Sound(s) == s \in EFCPI /\ Bounded(s.reassemblyPDUQ)

LEMMA InitSound == Sound(InitEFCPI)
BY DEF Sound, Bounded, InitEFCPI, EFCPI, DtcpPresent

LEMMA UpdateRcvLWESound ==
    ASSUME NEW s, Sound(s)
    PROVE  Sound(UpdateRcvLWE(s))
<1> DEFINE reached == Reached(s.reassemblyPDUQ, s.rcvLeftWinEdge)
<1>1. /\ s \in EFCPI
      /\ s.reassemblyPDUQ \in SUBSET Fragment
      /\ s.rcvLeftWinEdge \in Nat
  BY DEF Sound, EFCPI
<1>2. reached \in SUBSET Nat
  BY <1>1 DEF Reached, Seqs, Fragment
<1>3. PICK b \in Nat : \A n \in reached : n <= b
  BY DEF Sound, Bounded, Reached, Seqs
<1>4. (IF reached = {} THEN s.rcvLeftWinEdge ELSE Max(reached)) \in Nat
  BY <1>1, <1>2, <1>3, MaxBounded
<1> HIDE DEF reached
<1> QED BY <1>1, <1>4 DEF Sound, EFCPI, UpdateRcvLWE, reached

LEMMA SendCtrlSound ==
    ASSUME NEW s, Sound(s), NEW type \in CtrlType, NEW ack \in Nat, NEW rwe \in Nat
    PROVE  Sound(SendCtrl(s, type, ack, rwe))
<1> DEFINE next == s.nextSenderControlSeqNum + 1
           out == s.outCtrl \cup {[type |-> type, seq |-> s.nextSenderControlSeqNum,
                                   ack |-> ack, rwe |-> rwe]}
<1>1. next \in Nat /\ out \in SUBSET CtrlPDU
  BY DEF Sound, EFCPI, CtrlPDU
<1>2. SendCtrl(s, type, ack, rwe) =
        [s EXCEPT !.nextSenderControlSeqNum = next, !.outCtrl = out]
  BY DEF SendCtrl
<1> HIDE DEF next, out
<1>3. Sound([s EXCEPT !.nextSenderControlSeqNum = next, !.outCtrl = out])
  BY <1>1 DEF Sound, EFCPI
<1> QED BY <1>2, <1>3

LEMMA SendAckFlowPDUSound ==
    ASSUME NEW s, Sound(s)
    PROVE  Sound(SendAckFlowPDU(s))
<1>1. s.rcvLeftWinEdge \in Nat /\ s.rcvRightWinEdge \in Nat
  BY DEF Sound, EFCPI
<1> QED BY <1>1, SendCtrlSound DEF SendAckFlowPDU, SendFCOnlyPDU, CtrlType

LEMMA SendControlAckPDUSound ==
    ASSUME NEW s, Sound(s)
    PROVE  Sound(SendControlAckPDU(s))
<1>1. s.rcvLeftWinEdge \in Nat /\ s.rcvRightWinEdge \in Nat
  BY DEF Sound, EFCPI
<1> QED BY <1>1, SendCtrlSound DEF SendControlAckPDU, CtrlType

LEMMA NextPDUType ==
    ASSUME NEW s, Sound(s)
    PROVE  NextPDU(s) \in DataPDU
<1>1. s.sdus + 1 \in Nat /\ s.nextSeqNumToSend \in Nat /\ s.setDRFFlag \in BOOLEAN
  BY DEF Sound, EFCPI
<1> QED BY <1>1 DEF NextPDU, DataPDU

LEMMA TookPDUSound ==
    ASSUME NEW s, Sound(s)
    PROVE  Sound(TookPDU(s))
<1>1. s.sdus + 1 \in Nat /\ s.nextSeqNumToSend + 1 \in Nat
  BY DEF Sound, EFCPI
<1>2. (~DtcpPresent) \in BOOLEAN
  BY DEF DtcpPresent
<1> QED BY <1>1, <1>2 DEF Sound, EFCPI, TookPDU

LEMMA PostPDUSound ==
    ASSUME NEW s, Sound(s), NEW pdu \in DataPDU
    PROVE  Sound(PostPDU(s, pdu))
<1> DEFINE entry == [pdu |-> pdu, expiryCount |-> 0, pos |-> s.pushed + 1]
<1>1. s.pushed + 1 \in Nat
  BY DEF Sound, EFCPI
<1>2. s.rxQ \cup {entry} \in SUBSET RxEntry
  BY <1>1 DEF Sound, EFCPI, RxEntry
<1>3. PushBackToRxQ(s, pdu) = [s EXCEPT !.rxQ = s.rxQ \cup {entry}, !.pushed = s.pushed + 1]
  BY DEF PushBackToRxQ
<1> HIDE DEF entry
<1>4. Sound(PushBackToRxQ(s, pdu))
  BY <1>1, <1>2, <1>3, ZenonT(60) DEF Sound, EFCPI
<1>5. ASSUME NEW t, Sound(t)
      PROVE  Sound([t EXCEPT !.outData = @ \cup {pdu}])
  <2>1. t.outData \cup {pdu} \in SUBSET DataPDU
    BY <1>5 DEF Sound, EFCPI
  <2> QED BY <1>5, <2>1 DEF Sound, EFCPI
<1> QED BY <1>4, <1>5 DEF PostPDU

LEMMA SendEmptyDTPDUSound ==
    ASSUME NEW s, Sound(s)
    PROVE  Sound(SendEmptyDTPDU(s))
<1> DEFINE t == PostPDU(TookPDU(s), NextPDU(s))
<1>1. Sound(t)
  BY NextPDUType, TookPDUSound, PostPDUSound
<1>2. s.sdus + 1 \in Nat
  BY DEF Sound, EFCPI
<1>3. t.empty \cup {s.sdus + 1} \in SUBSET Nat
  BY <1>1, <1>2 DEF Sound, EFCPI
<1>4. SendEmptyDTPDU(s) = [t EXCEPT !.empty = t.empty \cup {s.sdus + 1}]
  BY DEF SendEmptyDTPDU
<1> HIDE DEF t
<1> QED BY <1>1, <1>3, <1>4 DEF Sound, EFCPI

LEMMA TrySendGenPDUSound ==
    ASSUME NEW s, Sound(s), NEW pdu \in DataPDU
    PROVE  Sound(TrySendGenPDU(s, pdu))
<1> DEFINE waits == WinBased /\ (pdu.seq > s.sndRightWinEdge \/ s.closedWindow)
           queue == Append(s.closedWindowQ, pdu)
           blocking == s.blockingPort \/ Len(s.closedWindowQ) >= MaxClosedWinQueLen - 1
           posted == PostPDU(s, pdu)
           closed == posted.closedWindow \/ (WinBased /\ IsClosedWinQClosed(s))
<1>1. queue \in Seq(DataPDU)
  BY DEF Sound, EFCPI
<1>2. blocking \in BOOLEAN /\ closed \in BOOLEAN
  <2>1. s.blockingPort \in BOOLEAN /\ posted.closedWindow \in BOOLEAN
    BY PostPDUSound DEF Sound, EFCPI
  <2> QED BY <2>1, Zenon
<1>3. Sound(posted)
  BY PostPDUSound
<1>4. TrySendGenPDU(s, pdu) =
        IF waits THEN [s EXCEPT !.closedWindow = TRUE, !.closedWindowQ = queue,
                                !.blockingPort = blocking]
        ELSE [posted EXCEPT !.closedWindow = closed]
  BY Zenon DEF TrySendGenPDU
<1> HIDE DEF waits, queue, blocking, posted, closed
<1>5. Sound([s EXCEPT !.closedWindow = TRUE, !.closedWindowQ = queue, !.blockingPort = blocking])
  BY <1>1, <1>2 DEF Sound, EFCPI
<1>6. Sound([posted EXCEPT !.closedWindow = closed])
  BY <1>2, <1>3 DEF Sound, EFCPI
<1> QED BY <1>4, <1>5, <1>6, Zenon

LEMMA HandleMsgFromUpSound ==
    ASSUME NEW s, Sound(s)
    PROVE  Sound(HandleMsgFromUp(s))
<1> DEFINE t == TrySendGenPDU(TookPDU(s), NextPDU(s))
<1>1. Sound(t)
  BY NextPDUType, TookPDUSound, TrySendGenPDUSound
<1> HIDE DEF t
<1>2. Sound([t EXCEPT !.senderTimer = TRUE])
  BY <1>1 DEF Sound, EFCPI
<1> QED BY <1>2 DEF HandleMsgFromUp, t

\* The PDUs TxControl takes from the queue are its longest front the window admits.
LEMMA PostableDef ==
    ASSUME NEW s, Sound(s)
    PROVE  LET q == s.closedWindowQ
               k == Postable(s)
           IN  /\ k \in 0..Len(q)
               /\ \A i \in 1..k : q[i].seq <= s.sndRightWinEdge
               /\ k < Len(q) => q[k + 1].seq > s.sndRightWinEdge
<1> DEFINE q == s.closedWindowQ
           edge == s.sndRightWinEdge
           stops == {k \in 0..Len(q) : k < Len(q) => q[k + 1].seq > edge}
<1>1. /\ q \in Seq(DataPDU)
      /\ Len(q) \in Nat
      /\ edge \in Nat
      /\ \A i \in 1..Len(q) : q[i].seq \in Nat
  <2>1. q \in Seq(DataPDU) /\ edge \in Nat
    BY DEF Sound, EFCPI
  <2> HIDE DEF q, edge
  <2>2. \A i \in 1..Len(q) : q[i] \in DataPDU
    BY <2>1
  <2>3. \A pdu \in DataPDU : pdu.seq \in Nat
    BY DEF DataPDU
  <2> QED BY <2>1, <2>2, <2>3
<1>2. stops \in SUBSET Nat /\ Len(q) \in stops
  BY <1>1
<1>3. PICK k \in stops : \A m \in stops : k <= m
  BY <1>2, LeastNat
<1>4. \A i \in 1..k : q[i].seq <= edge
  <2> SUFFICES ASSUME NEW i \in 1..k
               PROVE  q[i].seq <= edge
    OBVIOUS
  <2>1. i - 1 \in 0..Len(q) /\ i - 1 < Len(q) /\ i - 1 < k /\ i \in 1..Len(q)
    BY <1>1
  <2>2. i - 1 \notin stops
    BY <1>3, <2>1
  <2>3. ~(q[(i - 1) + 1].seq > edge)
    BY <2>1, <2>2
  <2>4. (i - 1) + 1 = i
    OBVIOUS
  <2> QED BY <1>1, <2>1, <2>3, <2>4
<1>5. k \in 0..Len(q) /\ (k < Len(q) => q[k + 1].seq > edge)
  OBVIOUS
<1> HIDE DEF q, edge
<1> DEFINE P(n) == /\ \A i \in 1..n : q[i].seq <= edge
                   /\ n < Len(q) => q[n + 1].seq > edge
<1>6. \E n \in 0..Len(q) : P(n)
  BY <1>4, <1>5
<1>7. Postable(s) = CHOOSE n \in 0..Len(q) : P(n)
  BY DEF Postable, q, edge
<1>8. Postable(s) \in 0..Len(q) /\ P(Postable(s))
  BY <1>6, <1>7, Zenon
<1> QED BY <1>8 DEF q, edge

LEMMA TrySendClosedWindowQSound ==
    ASSUME NEW s, Sound(s)
    PROVE  Sound(TrySendClosedWindowQ(s))
<1> DEFINE q == s.closedWindowQ
           k == Postable(s)
           rest == SubSeq(q, k + 1, Len(q))
           out == s.outData \cup {q[i] : i \in 1..k}
           entries == IF RxPresent
                      THEN s.rxQ \cup {[pdu |-> q[i], expiryCount |-> 0, pos |-> s.pushed + i] :
                                       i \in 1..k}
                      ELSE s.rxQ
           pushed == IF RxPresent THEN s.pushed + k ELSE s.pushed
           closed == rest # <<>>
           blocking == s.blockingPort /\ Len(rest) >= MaxClosedWinQueLen
<1>1. /\ s.outData \in SUBSET DataPDU
      /\ s.rxQ \in SUBSET RxEntry
      /\ s.pushed \in Nat
      /\ s.blockingPort \in BOOLEAN
      /\ q \in Seq(DataPDU)
  BY DEF Sound, EFCPI
<1>2. k \in 0..Len(q)
  BY PostableDef
<1>3. TrySendClosedWindowQ(s) =
        [s EXCEPT !.outData = out, !.rxQ = entries, !.pushed = pushed,
                  !.closedWindowQ = rest, !.closedWindow = closed, !.blockingPort = blocking]
  BY Zenon DEF TrySendClosedWindowQ
<1> HIDE DEF q, k
<1>4. \A i \in 1..Len(q) : q[i] \in DataPDU
  BY <1>1
<1>5. rest \in Seq(DataPDU)
  BY <1>1, <1>2, <1>4, SubSeqProperties
<1>6. out \in SUBSET DataPDU /\ pushed \in Nat
  BY <1>1, <1>2, <1>4
<1>7. entries \in SUBSET RxEntry
  BY <1>1, <1>2, <1>4 DEF RxEntry
<1>8. closed \in BOOLEAN /\ blocking \in BOOLEAN
  BY <1>1, Zenon
<1> HIDE DEF rest, out, entries, pushed, closed, blocking
<1>9. Sound([s EXCEPT !.outData = out, !.rxQ = entries, !.pushed = pushed,
                      !.closedWindowQ = rest, !.closedWindow = closed, !.blockingPort = blocking])
  BY <1>5, <1>6, <1>7, <1>8 DEF Sound, EFCPI
<1> QED BY <1>3, <1>9

LEMMA DelimitFromRMTSound ==
    ASSUME NEW s, Sound(s)
    PROVE  Sound(DelimitFromRMT(s))
<1> DEFINE complete == {f \in s.reassemblyPDUQ : f.seq <= s.rcvLeftWinEdge}
           user == s.toUser \cup complete
           queue == s.reassemblyPDUQ \ complete
<1>1. /\ user \in SUBSET Fragment
      /\ queue \in SUBSET Fragment
      /\ Bounded(queue)
  BY DEF Sound, EFCPI, Bounded
<1>2. DelimitFromRMT(s) = [s EXCEPT !.toUser = user, !.reassemblyPDUQ = queue]
  BY DEF DelimitFromRMT
<1> HIDE DEF user, queue
<1>3. Sound([s EXCEPT !.toUser = user, !.reassemblyPDUQ = queue])
  BY <1>1 DEF Sound, EFCPI
<1> QED BY <1>2, <1>3

LEMMA RcvrFCSound ==
    ASSUME NEW s, Sound(s)
    PROVE  Sound(RcvrFC(s))
<1>1. s.rcvLeftWinEdge + RcvCredit \in Nat
  BY DEF Sound, EFCPI
<1> QED BY <1>1 DEF Sound, EFCPI, RcvrFC

LEMMA RcvrAckSound ==
    ASSUME NEW s, Sound(s), NEW onATimer \in BOOLEAN
    PROVE  Sound(RcvrAck(s, onATimer))
<1>1. ASSUME NEW t, Sound(t), NEW b \in BOOLEAN
      PROVE  Sound([t EXCEPT !.aTimer = b])
  BY <1>1 DEF Sound, EFCPI
<1> QED BY <1>1, SendAckFlowPDUSound DEF RcvrAck

LEMMA SvUpdateSound ==
    ASSUME NEW s, Sound(s), NEW onATimer \in BOOLEAN
    PROVE  Sound(SvUpdate(s, onATimer))
<1>1. ASSUME NEW t, Sound(t)
      PROVE  Sound(SendFCOnlyPDU(t))
  <2>1. t.rcvRightWinEdge \in Nat
    BY <1>1 DEF Sound, EFCPI
  <2> QED BY <1>1, <2>1, SendCtrlSound DEF SendFCOnlyPDU, CtrlType
<1> QED BY <1>1, UpdateRcvLWESound, RcvrFCSound, RcvrAckSound DEF SvUpdate

LEMMA AcceptSound ==
    ASSUME NEW s, Sound(s), NEW edge \in Nat
    PROVE  Sound(Accept(s, edge))
<1>1. Sound([s EXCEPT !.rcvLeftWinEdge = edge])
  BY DEF Sound, EFCPI
<1>2. ASSUME NEW t, Sound(t)
      PROVE  Sound([t EXCEPT !.rcvrTimer = TRUE])
  BY <1>2 DEF Sound, EFCPI
<1> QED BY <1>1, <1>2, SvUpdateSound, DelimitFromRMTSound DEF Accept

LEMMA SetMaxSeqNumRcvdSound ==
    ASSUME NEW s, Sound(s), NEW n \in Nat
    PROVE  Sound(SetMaxSeqNumRcvd(s, n))
<1> DEFINE max == IF s.maxSeqNumRcvd > n THEN s.maxSeqNumRcvd ELSE n
<1>1. max \in Nat
  BY DEF Sound, EFCPI
<1>2. SetMaxSeqNumRcvd(s, n) = [s EXCEPT !.maxSeqNumRcvd = max]
  BY DEF SetMaxSeqNumRcvd
<1> HIDE DEF max
<1>3. Sound([s EXCEPT !.maxSeqNumRcvd = max])
  BY <1>1 DEF Sound, EFCPI
<1> QED BY <1>2, <1>3

LEMMA AddPDUToReassemblyQSound ==
    ASSUME NEW s, Sound(s), NEW pdu \in DataPDU
    PROVE  Sound(AddPDUToReassemblyQ(s, pdu))
<1> DEFINE new == [seq |-> pdu.seq, sdu |-> pdu.sdu]
           queue == s.reassemblyPDUQ \cup {new}
<1>1. pdu.seq \in Nat /\ new \in Fragment /\ new.seq = pdu.seq
  BY DEF DataPDU, Fragment
<1>2. s \in EFCPI /\ s.reassemblyPDUQ \in SUBSET Fragment
  BY DEF Sound, EFCPI
<1>3. queue \in SUBSET Fragment
  BY <1>1, <1>2
<1>4. Bounded(queue)
  <2>1. PICK b \in Nat : \A f \in s.reassemblyPDUQ : f.seq <= b
    BY DEF Sound, Bounded
  <2>2. \A f \in s.reassemblyPDUQ : f.seq \in Nat
    BY <1>2 DEF Fragment
  <2>3. b + pdu.seq \in Nat /\ \A f \in queue : f.seq <= b + pdu.seq
    BY <1>1, <2>1, <2>2
  <2> QED BY <2>3 DEF Bounded
<1>5. AddPDUToReassemblyQ(s, pdu) =
        IF pdu.seq \in Seqs(s.reassemblyPDUQ) THEN [s EXCEPT !.error = TRUE]
        ELSE [s EXCEPT !.reassemblyPDUQ = queue]
  BY DEF AddPDUToReassemblyQ
<1> HIDE DEF queue
<1>6. Sound([s EXCEPT !.error = TRUE])
  BY DEF Sound, EFCPI
<1>7. Sound([s EXCEPT !.reassemblyPDUQ = queue])
  BY <1>2, <1>3, <1>4 DEF Sound, EFCPI
<1> QED BY <1>5, <1>6, <1>7

LEMMA RcvDRFSound ==
    ASSUME NEW s, Sound(s), NEW pdu \in DataPDU
    PROVE  Sound(RcvDRF(s, pdu))
<1> DEFINE delimited == DelimitFromRMT(s)
           flushed == [delimited EXCEPT !.reassemblyPDUQ = {}]
           newRun == SetMaxSeqNumRcvd(flushed, pdu.seq)
           edge == [newRun EXCEPT !.rcvLeftWinEdge = newRun.maxSeqNumRcvd]
<1>1. pdu.seq \in Nat
  BY DEF DataPDU
<1>2. Sound(delimited)
  BY DelimitFromRMTSound
<1> HIDE DEF delimited
<1>3. Sound(flushed)
  BY <1>2 DEF Sound, EFCPI, Bounded
<1> HIDE DEF flushed
<1>4. Sound(newRun)
  BY <1>1, <1>3, SetMaxSeqNumRcvdSound
<1> HIDE DEF newRun
<1>5. newRun.maxSeqNumRcvd \in Nat
  BY <1>4 DEF Sound, EFCPI
<1>6. Sound(edge)
  BY <1>4, <1>5 DEF Sound, EFCPI
<1> HIDE DEF edge
<1>7. Sound(Accept(AddPDUToReassemblyQ(edge, pdu), pdu.seq))
  BY <1>1, <1>6, AddPDUToReassemblyQSound, AcceptSound
<1> QED BY <1>7 DEF RcvDRF, edge, newRun, flushed, delimited

LEMMA DropDuplicateSound ==
    ASSUME NEW s, Sound(s), NEW pdu \in DataPDU
    PROVE  Sound(DropDuplicate(s, pdu))
<1> DEFINE drops == s.dropDup \cup {pdu.sdu}
<1>1. drops \in SUBSET Nat
  BY DEF Sound, EFCPI, DataPDU
<1>2. DropDuplicate(s, pdu) = SendAckFlowPDU([s EXCEPT !.dropDup = drops, !.rcvrTimer = FALSE])
  BY DEF DropDuplicate
<1> HIDE DEF drops
<1>3. Sound([s EXCEPT !.dropDup = drops, !.rcvrTimer = FALSE])
  BY <1>1 DEF Sound, EFCPI
<1> QED BY <1>2, <1>3, SendAckFlowPDUSound

LEMMA RcvNextSound ==
    ASSUME NEW s, Sound(s), NEW pdu \in DataPDU
    PROVE  Sound(RcvNext(s, pdu))
<1> DEFINE rcvd == SetMaxSeqNumRcvd(s, pdu.seq)
           edge == IF pdu.seq > s.maxSeqNumRcvd + 1 THEN s.rcvLeftWinEdge
                   ELSE rcvd.maxSeqNumRcvd
<1>1. Sound(rcvd)
  BY SetMaxSeqNumRcvdSound DEF DataPDU
<1>2. s.rcvLeftWinEdge \in Nat /\ rcvd.maxSeqNumRcvd \in Nat
  BY <1>1 DEF Sound, EFCPI
<1>3. edge \in Nat
  BY <1>2
<1> HIDE DEF rcvd, edge
<1>4. Sound(Accept(AddPDUToReassemblyQ(rcvd, pdu), edge))
  BY <1>1, <1>3, AddPDUToReassemblyQSound, AcceptSound
<1> QED BY <1>4 DEF RcvNext, rcvd, edge

LEMMA HandleDataTransferPDUFromRMTSound ==
    ASSUME NEW s, Sound(s), NEW pdu \in DataPDU
    PROVE  Sound(HandleDataTransferPDUFromRMT(s, pdu))
<1>1. Sound([s EXCEPT !.rcvrTimer = TRUE])
  BY DEF Sound, EFCPI
<1> QED BY <1>1, SendAckFlowPDUSound, RcvDRFSound, DropDuplicateSound, RcvNextSound
        DEF HandleDataTransferPDUFromRMT

LEMMA AckPDUSound ==
    ASSUME NEW s, Sound(s), NEW n
    PROVE  Sound(AckPDU(s, n))
<1> DEFINE entries == {x \in s.rxQ : x.pdu.seq > n}
<1>1. entries \in SUBSET RxEntry
  BY DEF Sound, EFCPI
<1> HIDE DEF entries
<1>2. Sound([s EXCEPT !.rxQ = entries])
  BY <1>1 DEF Sound, EFCPI
<1> QED BY <1>2 DEF AckPDU, entries

LEMMA UpdateSndLWESound ==
    ASSUME NEW s, Sound(s), NEW n \in Nat
    PROVE  Sound(UpdateSndLWE(s, n))
<1> DEFINE P(x) == \A y \in s.rxQ : x.pos <= y.pos
           front == CHOOSE x \in s.rxQ : P(x)
           edge == IF s.rxQ = {} THEN n ELSE front.pdu.seq
<1>1. s.rxQ \in SUBSET RxEntry
  BY DEF Sound, EFCPI
<1>2. ASSUME s.rxQ # {}
      PROVE  front.pdu.seq \in Nat
  <2> DEFINE ranks == {x.pos : x \in s.rxQ}
  <2>1. ranks \in SUBSET Nat /\ ranks # {}
    BY <1>1, <1>2 DEF RxEntry
  <2>2. PICK p \in ranks : \A r \in ranks : p <= r
    BY <2>1, LeastNat
  <2>3. \E x \in s.rxQ : P(x)
    BY <2>2
  <2>4. front \in s.rxQ
    BY <2>3, Zenon
  <2> HIDE DEF front
  <2> QED BY <1>1, <2>4 DEF RxEntry, DataPDU
<1>3. edge \in Nat
  BY <1>2
<1>4. UpdateSndLWE(s, n) = [s EXCEPT !.sndLeftWinEdge = edge]
  BY DEF UpdateSndLWE
<1> HIDE DEF edge
<1>5. Sound([s EXCEPT !.sndLeftWinEdge = edge])
  BY <1>3 DEF Sound, EFCPI
<1> QED BY <1>4, <1>5

LEMMA SenderAckSound ==
    ASSUME NEW s, Sound(s), NEW pdu \in CtrlPDU
    PROVE  Sound(SenderAck(s, pdu))
<1>1. pdu.ack + 1 \in Nat
  BY DEF CtrlPDU
<1> QED BY <1>1, AckPDUSound, UpdateSndLWESound DEF SenderAck

LEMMA RcvrControlAckSound ==
    ASSUME NEW s, Sound(s), NEW pdu \in CtrlPDU
    PROVE  Sound(RcvrControlAck(s, pdu))
<1> DEFINE acked == IF pdu.ack > s.sndLeftWinEdge
                    THEN UpdateSndLWE(AckPDU(s, pdu.ack - 1), pdu.ack)
                    ELSE s
<1>1. pdu.ack \in Nat /\ pdu.rwe \in Nat
  BY DEF CtrlPDU
<1>2. Sound(acked)
  BY <1>1, AckPDUSound, UpdateSndLWESound
<1> HIDE DEF acked
<1>3. Sound([acked EXCEPT !.sndRightWinEdge = pdu.rwe])
  BY <1>1, <1>2 DEF Sound, EFCPI
<1> QED BY <1>3, SendAckFlowPDUSound DEF RcvrControlAck, acked

LEMMA CommonRcvControlSound ==
    ASSUME NEW s, Sound(s), NEW pdu \in CtrlPDU
    PROVE  Sound(CommonRcvControl(s, pdu))
<1> DEFINE t == IF IsLost(s, pdu) THEN LostControlPDU(s) ELSE s
<1>1. Sound(t)
  BY SendControlAckPDUSound, SendEmptyDTPDUSound DEF LostControlPDU
<1>2. pdu.seq \in Nat
  BY DEF CtrlPDU
<1> HIDE DEF t
<1>3. Sound([t EXCEPT !.lastControlSeqNumRcv = pdu.seq])
  BY <1>1, <1>2 DEF Sound, EFCPI
<1> QED BY <1>3 DEF CommonRcvControl, t

LEMMA RcvFlowControlSound ==
    ASSUME NEW s, Sound(s), NEW pdu \in CtrlPDU
    PROVE  Sound(RcvFlowControl(s, pdu))
<1>1. Sound([s EXCEPT !.sndRightWinEdge = pdu.rwe])
  BY DEF Sound, EFCPI, CtrlPDU
<1> QED BY <1>1, TrySendClosedWindowQSound DEF RcvFlowControl

LEMMA HandleControlPDUFromRMTSound ==
    ASSUME NEW s, Sound(s), NEW pdu \in CtrlPDU
    PROVE  Sound(HandleControlPDUFromRMT(s, pdu))
<1> DEFINE c == CommonRcvControl(s, pdu)
           old == pdu.seq <= s.lastControlSeqNumRcv
           new == pdu.seq > s.lastControlSeqNumRcv
<1>1. /\ old \/ new
      /\ ~(old /\ new)
      /\ pdu.type \in {"ack", "fc", "ackflow", "controlack"}
  BY DEF Sound, EFCPI, CtrlPDU, CtrlType
<1>2. Sound(c)
  BY CommonRcvControlSound
<1>3. /\ Sound(RcvrControlAck(c, pdu))
      /\ Sound(SenderAck(c, pdu))
      /\ Sound(RcvFlowControl(c, pdu))
      /\ Sound(RcvFlowControl(SenderAck(c, pdu), pdu))
  BY <1>2, RcvrControlAckSound, SenderAckSound, RcvFlowControlSound
<1>4. HandleControlPDUFromRMT(s, pdu) =
        CASE old -> s
          [] new /\ pdu.type = "controlack" -> RcvrControlAck(c, pdu)
          [] new /\ pdu.type = "ack" -> SenderAck(c, pdu)
          [] new /\ pdu.type = "fc" -> RcvFlowControl(c, pdu)
          [] new /\ pdu.type = "ackflow" -> RcvFlowControl(SenderAck(c, pdu), pdu)
  BY Zenon DEF HandleControlPDUFromRMT
<1> HIDE DEF c, old, new
<1> QED BY <1>1, <1>3, <1>4

-----------------------------------------------------------------------------
\* Timers

LEMMA RxTimerExpirySound ==
    ASSUME NEW s, Sound(s), NEW x \in s.rxQ
    PROVE  Sound(RxTimerExpiry(s, x))
<1> DEFINE rest == s.rxQ \ {x}
           entries == rest \cup {[x EXCEPT !.expiryCount = x.expiryCount + 1]}
           out == s.outData \cup {[x.pdu EXCEPT !.copy = x.expiryCount + 1]}
           given == s.gaveUp \cup {x.pdu.sdu}
<1>1. /\ s.rxQ \in SUBSET RxEntry
      /\ s.outData \in SUBSET DataPDU
      /\ s.gaveUp \in SUBSET Nat
      /\ x \in RxEntry
  BY DEF Sound, EFCPI
<1>2. x.pdu \in DataPDU /\ x.expiryCount + 1 \in Nat
  BY <1>1 DEF RxEntry
<1>3. rest \in SUBSET RxEntry
  BY <1>1
<1>4. entries \in SUBSET RxEntry
  BY <1>1, <1>2, <1>3 DEF RxEntry
<1>5. out \in SUBSET DataPDU /\ given \in SUBSET Nat
  BY <1>1, <1>2 DEF DataPDU
<1>6. RxTimerExpiry(s, x) =
        IF x.expiryCount = DataReXmitMax + 1
        THEN [s EXCEPT !.rxQ = rest, !.gaveUp = given]
        ELSE [s EXCEPT !.rxQ = entries, !.outData = out]
  BY DEF RxTimerExpiry
<1> HIDE DEF rest, entries, out, given
<1>7. Sound([s EXCEPT !.rxQ = rest, !.gaveUp = given])
  BY <1>3, <1>5 DEF Sound, EFCPI
<1>8. Sound([s EXCEPT !.rxQ = entries, !.outData = out])
  BY <1>4, <1>5 DEF Sound, EFCPI
<1> QED BY <1>6, <1>7, <1>8

LEMMA HandleDTPATimerSound ==
    ASSUME NEW s, Sound(s)
    PROVE  Sound(HandleDTPATimer(s))
<1> DEFINE t == DelimitFromRMT(SvUpdate(s, TRUE))
<1>1. Sound(t)
  BY SvUpdateSound, DelimitFromRMTSound
<1> HIDE DEF t
<1>2. Sound([t EXCEPT !.senderTimer = TRUE])
  BY <1>1 DEF Sound, EFCPI
<1> QED BY <1>2 DEF HandleDTPATimer, t

LEMMA InactivitySound ==
    ASSUME NEW s, Sound(s)
    PROVE  Sound(RcvrInactivity(s)) /\ Sound(SenderInactivity(s))
<1>1. Sound(ResetRcvVars(s)) /\ Sound(ResetSndVars(s))
  BY DEF Sound, EFCPI, ResetRcvVars, ResetSndVars
<1>2. ASSUME NEW t, Sound(t)
      PROVE  Sound([t EXCEPT !.rcvrTimer = FALSE]) /\ Sound([t EXCEPT !.senderTimer = FALSE])
  BY <1>2 DEF Sound, EFCPI
<1> QED BY <1>1, <1>2 DEF RcvrInactivity, SenderInactivity

-----------------------------------------------------------------------------
\* The inductive invariant behind TypeOK.  The type of the queue alone does not make
\* TypeOK inductive: on an unbounded queue updateRcvLWE would have no edge to find.
SoundInv == TypeOK /\ \A e \in End : Bounded(efcpi[e].reassemblyPDUQ)

LEMMA PeerType == \A e \in End : Peer(e) \in End /\ Peer(e) # e /\ Peer(Peer(e)) = e
BY DEF End, Peer

LEMMA HandleSound ==
    ASSUME SoundInv, NEW e \in End, NEW s, Sound(s),
           NEW data \in SUBSET DataPDU, NEW ctrl \in SUBSET CtrlPDU,
           Handle(e, s, data, ctrl), lost' \in Nat, idle' \in Nat
    PROVE  SoundInv'
<1> DEFINE t == [s EXCEPT !.outData = {}, !.outCtrl = {}, !.toUser = {}]
           count == [n \in 1..MaxSdu |->
                       delivered[e][n] + IF \E f \in s.toUser : f.sdu = n THEN 1 ELSE 0]
<1>1. /\ efcpi \in [End -> EFCPI]
      /\ dataNet \in [End -> SUBSET DataPDU]
      /\ ctrlNet \in [End -> SUBSET CtrlPDU]
      /\ delivered \in [End -> [1..MaxSdu -> Nat]]
  BY DEF SoundInv, TypeOK
<1>2. t \in EFCPI /\ t.reassemblyPDUQ = s.reassemblyPDUQ
  BY DEF Sound, EFCPI
<1>3. s.outData \in SUBSET DataPDU /\ s.outCtrl \in SUBSET CtrlPDU
  BY DEF Sound, EFCPI
<1>4. count \in [1..MaxSdu -> Nat]
  BY <1>1
<1>5. efcpi' = [efcpi EXCEPT ![e] = t]
  BY DEF Handle
<1>6. dataNet' = [dataNet EXCEPT ![e] = data, ![Peer(e)] = @ \cup s.outData]
  BY DEF Handle
<1>7. ctrlNet' = [ctrlNet EXCEPT ![e] = ctrl, ![Peer(e)] = @ \cup s.outCtrl]
  BY DEF Handle
<1>8. delivered' = [delivered EXCEPT ![e] = count]
  BY <1>1 DEF Handle
<1> HIDE DEF t, count
<1>9. dataNet' \in [End -> SUBSET DataPDU]
  BY <1>1, <1>3, <1>6, PeerType
<1>10. ctrlNet' \in [End -> SUBSET CtrlPDU]
  BY <1>1, <1>3, <1>7, PeerType
<1>11. efcpi' \in [End -> EFCPI] /\ delivered' \in [End -> [1..MaxSdu -> Nat]]
  BY <1>1, <1>2, <1>4, <1>5, <1>8
<1>12. \A d \in End : Bounded(efcpi'[d].reassemblyPDUQ)
  BY <1>1, <1>2, <1>5 DEF SoundInv, Sound
<1> QED BY <1>9, <1>10, <1>11, <1>12 DEF SoundInv, TypeOK

LEMMA SoundInit == Init => SoundInv
<1> SUFFICES ASSUME Init PROVE SoundInv
  OBVIOUS
<1>1. InitEFCPI \in EFCPI /\ Bounded(InitEFCPI.reassemblyPDUQ)
  BY InitSound DEF Sound
<1> QED BY <1>1 DEF Init, SoundInv, TypeOK

LEMMA SoundNext == SoundInv /\ [Next]_vars => SoundInv'
<1> SUFFICES ASSUME SoundInv, [Next]_vars
             PROVE  SoundInv'
  OBVIOUS
<1>1. /\ \A e \in End : Sound(efcpi[e])
      /\ \A e \in End : dataNet[e] \in SUBSET DataPDU
      /\ \A e \in End : ctrlNet[e] \in SUBSET CtrlPDU
      /\ lost \in Nat /\ idle \in Nat
  BY DEF SoundInv, TypeOK, Sound
<1>2. ASSUME NEW e \in End, Write(e)
      PROVE  SoundInv'
  BY <1>1, <1>2, HandleMsgFromUpSound, HandleSound DEF Write
<1>3. ASSUME NEW e \in End, NEW p \in dataNet[e], RcvData(e, p)
      PROVE  SoundInv'
  <2>1. p \in DataPDU /\ dataNet[e] \ {p} \in SUBSET DataPDU
    BY <1>1
  <2> QED BY <1>1, <1>3, <2>1, HandleDataTransferPDUFromRMTSound, HandleSound DEF RcvData
<1>4. ASSUME NEW e \in End, NEW p \in ctrlNet[e], RcvCtrl(e, p)
      PROVE  SoundInv'
  <2>1. p \in CtrlPDU /\ ctrlNet[e] \ {p} \in SUBSET CtrlPDU
    BY <1>1
  <2> QED BY <1>1, <1>4, <2>1, HandleControlPDUFromRMTSound, HandleSound DEF RcvCtrl
<1>5. ASSUME NEW e \in End, NEW x \in efcpi[e].rxQ, RxTimer(e, x)
      PROVE  SoundInv'
  BY <1>1, <1>5, RxTimerExpirySound, HandleSound DEF RxTimer
<1>6. ASSUME NEW e \in End, ATimer(e)
      PROVE  SoundInv'
  BY <1>1, <1>6, HandleDTPATimerSound, HandleSound DEF ATimer
<1>7. ASSUME NEW e \in End, RcvrInactivityTimer(e)
      PROVE  SoundInv'
  BY <1>1, <1>7, InactivitySound, HandleSound DEF RcvrInactivityTimer
<1>8. ASSUME NEW e \in End, SenderInactivityTimer(e)
      PROVE  SoundInv'
  BY <1>1, <1>8, InactivitySound, HandleSound DEF SenderInactivityTimer
<1>9. ASSUME NEW e \in End, Lose(e)
      PROVE  SoundInv'
  <2>1. UNCHANGED <<efcpi, delivered, idle>> /\ lost' \in Nat
    BY <1>1, <1>9 DEF Lose
  <2>2. ASSUME NEW p \in dataNet[e], dataNet' = [dataNet EXCEPT ![e] = @ \ {p}]
        PROVE  dataNet' \in [End -> SUBSET DataPDU]
    BY <2>2 DEF SoundInv, TypeOK
  <2>3. ASSUME NEW p \in ctrlNet[e], ctrlNet' = [ctrlNet EXCEPT ![e] = @ \ {p}]
        PROVE  ctrlNet' \in [End -> SUBSET CtrlPDU]
    BY <2>3 DEF SoundInv, TypeOK
  <2>4. dataNet' \in [End -> SUBSET DataPDU] /\ ctrlNet' \in [End -> SUBSET CtrlPDU]
    BY <1>9, <2>2, <2>3 DEF Lose, SoundInv, TypeOK
  <2> QED BY <2>1, <2>4 DEF SoundInv, TypeOK
<1>10. CASE UNCHANGED vars
  BY <1>10 DEF vars, SoundInv, TypeOK
<1> QED BY <1>2, <1>3, <1>4, <1>5, <1>6, <1>7, <1>8, <1>9, <1>10 DEF Next

\* Whatever the path does to PDUs and whichever timers expire, the state of both
\* EFCPIs and what is on the path stay of their types: every edge that is computed
\* from a queue (updateRcvLWE, updateSndLWE) or from a received PDU is a number.
THEOREM TypeCorrect == Spec => []TypeOK
<1>1. SoundInv => TypeOK
  BY DEF SoundInv
<1> QED BY <1>1, SoundInit, SoundNext, PTL DEF Spec

-----------------------------------------------------------------------------
(***************************************************************************)
(* The windows of an EFCPI.  The queue of PDUs that wait for the sender's  *)
(* window: no SDU overtakes one that is on it, and the user is stopped     *)
(* exactly while it is full.  The receiver's window: no more PDUs are kept *)
(* than it gave credit for.                                                *)
(*                                                                         *)
(* The arguments look at one EFCPI.  PDUs wait only while the window is    *)
(* closed, in the order of their SDUs, and a waiting SDU has behind it     *)
(* only SDUs that wait too, or empty ones: a handler adds at the end, when *)
(* the window is closed, or takes from the front.                          *)
(***************************************************************************)

\* The waiting SDUs are in order, and every SDU after one of them waits or is empty.
QueueInOrder(q) == \A i, j \in 1..Len(q) : i < j => q[i].sdu < q[j].sdu
NoneBetween(q, sdus, empty) ==
    \A i \in 1..Len(q) : \A m \in q[i].sdu..sdus :
        m \in empty \/ \E j \in 1..Len(q) : q[j].sdu = m

InLine(s) ==
    /\ s.closedWindowQ # <<>> => WinBased /\ s.closedWindow = TRUE
    /\ QueueInOrder(s.closedWindowQ)
    /\ \A i \in 1..Len(s.closedWindowQ) : s.closedWindowQ[i].sdu <= s.sdus
    /\ NoneBetween(s.closedWindowQ, s.sdus, s.empty)

\* The user is stopped exactly when the queue is full.
Stopped(s) ==
    /\ s.blockingPort = TRUE <=> Len(s.closedWindowQ) = MaxClosedWinQueLen
    /\ Len(s.closedWindowQ) <= MaxClosedWinQueLen

LineInv == \A e \in End : InLine(efcpi[e])
StoppedInv == \A e \in End : Stopped(efcpi[e])

LEMMA QueueType ==
    ASSUME NEW q \in Seq(DataPDU)
    PROVE  Len(q) \in Nat /\ \A i \in 1..Len(q) : q[i] \in DataPDU /\ q[i].sdu \in Nat
<1>1. \A i \in 1..Len(q) : q[i] \in DataPDU
  OBVIOUS
<1>2. \A pdu \in DataPDU : pdu.sdu \in Nat
  BY DEF DataPDU
<1> QED BY <1>1, <1>2

-----------------------------------------------------------------------------
\* Handlers that leave the queue alone

SameLine(s, t) ==
    /\ t.closedWindowQ = s.closedWindowQ
    /\ t.closedWindow = s.closedWindow
    /\ t.blockingPort = s.blockingPort
    /\ t.sdus = s.sdus
    /\ t.empty = s.empty

LEMMA LineFrame ==
    ASSUME NEW s, NEW t, SameLine(s, t)
    PROVE  (InLine(s) => InLine(t)) /\ (Stopped(s) => Stopped(t))
BY DEF SameLine, InLine, Stopped

LEMMA SendCtrlLine ==
    ASSUME NEW s, Sound(s)
    PROVE  /\ \A type, ack, rwe : SameLine(s, SendCtrl(s, type, ack, rwe))
           /\ SameLine(s, SendFCOnlyPDU(s))
           /\ SameLine(s, SendAckFlowPDU(s))
           /\ SameLine(s, SendControlAckPDU(s))
<1>1. \A type, ack, rwe : SameLine(s, SendCtrl(s, type, ack, rwe))
  BY DEF Sound, EFCPI, SendCtrl, SameLine
<1>2. SameLine(s, s)
  BY DEF SameLine
<1> QED BY <1>1, <1>2 DEF SendFCOnlyPDU, SendAckFlowPDU, SendControlAckPDU

LEMMA SvUpdateLine ==
    ASSUME NEW s, Sound(s), NEW onATimer \in BOOLEAN
    PROVE  SameLine(s, SvUpdate(s, onATimer))
<1> DEFINE left == UpdateRcvLWE(s)
           right == IF WinBased THEN RcvrFC(left) ELSE left
<1>1. Sound(left) /\ SameLine(s, left)
  <2> DEFINE edge == IF Reached(s.reassemblyPDUQ, s.rcvLeftWinEdge) = {} THEN s.rcvLeftWinEdge
                     ELSE Max(Reached(s.reassemblyPDUQ, s.rcvLeftWinEdge))
  <2>1. left = [s EXCEPT !.rcvLeftWinEdge = edge]
    BY DEF UpdateRcvLWE
  <2> HIDE DEF edge, left
  <2>2. SameLine(s, left)
    BY <2>1 DEF Sound, EFCPI, SameLine
  <2> QED BY <2>2, UpdateRcvLWESound DEF left
<1> HIDE DEF left
<1>2. Sound(right) /\ SameLine(s, right)
  <2>1. SameLine(left, RcvrFC(left))
    BY <1>1 DEF Sound, EFCPI, SameLine, RcvrFC
  <2> QED BY <1>1, <2>1, RcvrFCSound DEF SameLine
<1>3. SvUpdate(s, onATimer) = IF RxPresent THEN RcvrAck(right, onATimer) ELSE SendFCOnlyPDU(right)
  BY DEF SvUpdate, left
<1> HIDE DEF right
<1>4. SameLine(right, RcvrAck(right, onATimer))
  <2>1. SameLine(right, [right EXCEPT !.aTimer = TRUE])
    BY <1>2 DEF Sound, EFCPI, SameLine
  <2> DEFINE acked == SendAckFlowPDU(right)
  <2>2. Sound(acked) /\ SameLine(right, acked)
    BY <1>2, SendAckFlowPDUSound, SendCtrlLine
  <2> HIDE DEF acked
  <2>3. SameLine(right, [acked EXCEPT !.aTimer = FALSE])
    BY <2>2 DEF Sound, EFCPI, SameLine
  <2> QED BY <2>1, <2>3 DEF RcvrAck, acked
<1>5. SameLine(right, SendFCOnlyPDU(right))
  BY <1>2, SendCtrlLine
<1> QED BY <1>2, <1>3, <1>4, <1>5 DEF SameLine

LEMMA DelimitLine ==
    ASSUME NEW s, Sound(s)
    PROVE  SameLine(s, DelimitFromRMT(s))
BY DEF Sound, EFCPI, SameLine, DelimitFromRMT

LEMMA AcceptLine ==
    ASSUME NEW s, Sound(s), NEW edge \in Nat
    PROVE  SameLine(s, Accept(s, edge))
<1> DEFINE updated == IF DtcpPresent THEN SvUpdate(s, FALSE) ELSE [s EXCEPT !.rcvLeftWinEdge = edge]
           t == DelimitFromRMT(updated)
<1>1. Sound(updated) /\ SameLine(s, updated)
  <2>1. Sound([s EXCEPT !.rcvLeftWinEdge = edge]) /\ SameLine(s, [s EXCEPT !.rcvLeftWinEdge = edge])
    BY DEF Sound, EFCPI, SameLine
  <2> QED BY <2>1, SvUpdateSound, SvUpdateLine
<1>2. Accept(s, edge) = [t EXCEPT !.rcvrTimer = TRUE]
  BY DEF Accept
<1> HIDE DEF updated
<1>3. Sound(t) /\ SameLine(s, t)
  BY <1>1, DelimitFromRMTSound, DelimitLine DEF SameLine
<1> HIDE DEF t
<1> QED BY <1>2, <1>3 DEF Sound, EFCPI, SameLine

LEMMA AddPDULine ==
    ASSUME NEW s, Sound(s), NEW pdu \in DataPDU
    PROVE  /\ Sound(SetMaxSeqNumRcvd(s, pdu.seq)) /\ SameLine(s, SetMaxSeqNumRcvd(s, pdu.seq))
           /\ Sound(AddPDUToReassemblyQ(s, pdu)) /\ SameLine(s, AddPDUToReassemblyQ(s, pdu))
<1>1. pdu.seq \in Nat
  BY DEF DataPDU
<1>2. SameLine(s, SetMaxSeqNumRcvd(s, pdu.seq)) /\ SameLine(s, AddPDUToReassemblyQ(s, pdu))
  BY DEF Sound, EFCPI, SameLine, SetMaxSeqNumRcvd, AddPDUToReassemblyQ
<1> QED BY <1>1, <1>2, SetMaxSeqNumRcvdSound, AddPDUToReassemblyQSound

\* What comes from the path as data never touches the queue.
LEMMA HandleDataTransferPDUFromRMTLine ==
    ASSUME NEW s, Sound(s), NEW pdu \in DataPDU
    PROVE  SameLine(s, HandleDataTransferPDUFromRMT(s, pdu))
<1> DEFINE flushed == [DelimitFromRMT(s) EXCEPT !.reassemblyPDUQ = {}]
           newRun == SetMaxSeqNumRcvd(flushed, pdu.seq)
           edge == [newRun EXCEPT !.rcvLeftWinEdge = newRun.maxSeqNumRcvd]
           rcvd == SetMaxSeqNumRcvd(s, pdu.seq)
           next == IF pdu.seq > s.maxSeqNumRcvd + 1 THEN s.rcvLeftWinEdge ELSE rcvd.maxSeqNumRcvd
<1>1. pdu.seq \in Nat
  BY DEF DataPDU
<1>2. SameLine(s, RcvDRF(s, pdu))
  <2>1. Sound(flushed) /\ SameLine(s, flushed)
    <3> DEFINE d == DelimitFromRMT(s)
    <3>1. Sound(d) /\ SameLine(s, d)
      BY DelimitFromRMTSound, DelimitLine
    <3> HIDE DEF d
    <3>2. [d EXCEPT !.reassemblyPDUQ = {}] \in EFCPI /\ SameLine(s, [d EXCEPT !.reassemblyPDUQ = {}])
      BY <3>1 DEF Sound, EFCPI, SameLine
    <3>3. Bounded([d EXCEPT !.reassemblyPDUQ = {}].reassemblyPDUQ)
      BY <3>1 DEF Sound, EFCPI, Bounded
    <3> QED BY <3>2, <3>3 DEF Sound, d
  <2> HIDE DEF flushed
  <2>2. Sound(newRun) /\ SameLine(s, newRun)
    BY <2>1, AddPDULine DEF SameLine
  <2> HIDE DEF newRun
  <2>3. Sound(edge) /\ SameLine(s, edge)
    BY <2>2 DEF Sound, EFCPI, SameLine
  <2>4. RcvDRF(s, pdu) = Accept(AddPDUToReassemblyQ(edge, pdu), pdu.seq)
    BY DEF RcvDRF, edge, newRun, flushed
  <2> HIDE DEF edge
  <2>5. Sound(AddPDUToReassemblyQ(edge, pdu)) /\ SameLine(s, AddPDUToReassemblyQ(edge, pdu))
    BY <2>3, AddPDULine DEF SameLine
  <2>6. SameLine(AddPDUToReassemblyQ(edge, pdu), Accept(AddPDUToReassemblyQ(edge, pdu), pdu.seq))
    BY <1>1, <2>5, AcceptLine
  <2> QED BY <2>4, <2>5, <2>6 DEF SameLine
<1>3. SameLine(s, DropDuplicate(s, pdu))
  <2> DEFINE t == [s EXCEPT !.dropDup = @ \cup {pdu.sdu}, !.rcvrTimer = FALSE]
  <2>1. Sound(t) /\ SameLine(s, t)
    BY DEF Sound, EFCPI, SameLine, DataPDU
  <2>2. DropDuplicate(s, pdu) = SendAckFlowPDU(t)
    BY DEF DropDuplicate
  <2> HIDE DEF t
  <2> QED BY <2>1, <2>2, SendCtrlLine DEF SameLine
<1>4. SameLine(s, RcvNext(s, pdu))
  <2>1. Sound(rcvd) /\ SameLine(s, rcvd)
    BY AddPDULine
  <2>2. RcvNext(s, pdu) = Accept(AddPDUToReassemblyQ(rcvd, pdu), next)
    BY DEF RcvNext
  <2> HIDE DEF rcvd
  <2>3. Sound(AddPDUToReassemblyQ(rcvd, pdu)) /\ SameLine(s, AddPDUToReassemblyQ(rcvd, pdu))
    BY <2>1, AddPDULine DEF SameLine
  <2>4. next \in Nat
    BY <2>1 DEF Sound, EFCPI
  <2> HIDE DEF next
  <2>5. SameLine(AddPDUToReassemblyQ(rcvd, pdu), Accept(AddPDUToReassemblyQ(rcvd, pdu), next))
    BY <2>3, <2>4, AcceptLine
  <2> QED BY <2>2, <2>3, <2>5 DEF SameLine
<1>5. SameLine(s, SendAckFlowPDU([s EXCEPT !.rcvrTimer = TRUE]))
  <2> DEFINE t == [s EXCEPT !.rcvrTimer = TRUE]
  <2>1. Sound(t) /\ SameLine(s, t)
    BY DEF Sound, EFCPI, SameLine
  <2> HIDE DEF t
  <2>2. SameLine(s, SendAckFlowPDU(t))
    BY <2>1, SendCtrlLine DEF SameLine
  <2> QED BY <2>2 DEF t
<1> QED BY <1>2, <1>3, <1>4, <1>5 DEF HandleDataTransferPDUFromRMT

LEMMA TimersLine ==
    ASSUME NEW s, Sound(s)
    PROVE  /\ SameLine(s, HandleDTPATimer(s))
           /\ SameLine(s, RcvrInactivity(s))
           /\ SameLine(s, SenderInactivity(s))
           /\ \A x \in s.rxQ : SameLine(s, RxTimerExpiry(s, x))
<1>1. SameLine(s, HandleDTPATimer(s))
  <2> DEFINE t == SvUpdate(s, TRUE)
             d == DelimitFromRMT(t)
  <2>1. Sound(t) /\ SameLine(s, t)
    BY SvUpdateSound, SvUpdateLine
  <2> HIDE DEF t
  <2>2. Sound(d) /\ SameLine(s, d)
    BY <2>1, DelimitFromRMTSound, DelimitLine DEF SameLine
  <2>3. HandleDTPATimer(s) = [d EXCEPT !.senderTimer = TRUE]
    BY DEF HandleDTPATimer, t
  <2> HIDE DEF d
  <2> QED BY <2>2, <2>3 DEF Sound, EFCPI, SameLine
<1>2. SameLine(s, RcvrInactivity(s)) /\ SameLine(s, SenderInactivity(s))
  BY DEF Sound, EFCPI, SameLine, RcvrInactivity, ResetRcvVars, SenderInactivity, ResetSndVars
<1>3. \A x \in s.rxQ : SameLine(s, RxTimerExpiry(s, x))
  BY DEF Sound, EFCPI, SameLine, RxTimerExpiry
<1> QED BY <1>1, <1>2, <1>3

-----------------------------------------------------------------------------
\* Handlers that send

LEMMA PostLine ==
    ASSUME NEW s, Sound(s), NEW pdu
    PROVE  SameLine(s, PostPDU(s, pdu))
<1> DEFINE entry == [pdu |-> pdu, expiryCount |-> 0, pos |-> s.pushed + 1]
           kept == [s EXCEPT !.rxQ = s.rxQ \cup {entry}, !.pushed = s.pushed + 1]
<1>1. PushBackToRxQ(s, pdu) = kept
  BY DEF PushBackToRxQ
<1>2. kept.outData = s.outData /\ SameLine(s, [s EXCEPT !.outData = s.outData \cup {pdu}])
      /\ SameLine(s, [kept EXCEPT !.outData = s.outData \cup {pdu}])
  BY DEF Sound, EFCPI, SameLine
<1> HIDE DEF kept
<1> QED BY <1>1, <1>2 DEF PostPDU

LEMMA TookLine ==
    ASSUME NEW s, Sound(s)
    PROVE  LET t == TookPDU(s)
           IN  /\ t.closedWindowQ = s.closedWindowQ
               /\ t.closedWindow = s.closedWindow
               /\ t.blockingPort = s.blockingPort
               /\ t.sdus = s.sdus + 1
               /\ t.empty = s.empty
BY DEF Sound, EFCPI, TookPDU

\* An empty SDU may overtake.
LEMMA SendEmptyDTPDULine ==
    ASSUME NEW s, Sound(s)
    PROVE  /\ InLine(s) => InLine(SendEmptyDTPDU(s))
           /\ Stopped(s) => Stopped(SendEmptyDTPDU(s))
<1> DEFINE took == TookPDU(s)
           posted == PostPDU(took, NextPDU(s))
           t == SendEmptyDTPDU(s)
<1>1. Sound(posted) /\ SameLine(took, posted)
  BY TookPDUSound, NextPDUType, PostPDUSound, PostLine
<1>2. t = [posted EXCEPT !.empty = posted.empty \cup {s.sdus + 1}]
  BY DEF SendEmptyDTPDU
<1> HIDE DEF posted, t
<1>3. /\ t.closedWindowQ = s.closedWindowQ /\ t.closedWindow = s.closedWindow
      /\ t.blockingPort = s.blockingPort /\ t.sdus = s.sdus + 1
      /\ t.empty = s.empty \cup {s.sdus + 1}
  BY <1>1, <1>2, TookLine DEF Sound, EFCPI, SameLine
<1>4. s.sdus \in Nat /\ s.closedWindowQ \in Seq(DataPDU)
  BY DEF Sound, EFCPI
<1>5. \A i \in 1..Len(s.closedWindowQ) : s.closedWindowQ[i].sdu \in Nat
  BY <1>4, QueueType
<1>6. ASSUME InLine(s)
      PROVE  InLine(t)
  <2>1. ASSUME NEW i \in 1..Len(s.closedWindowQ), NEW m \in s.closedWindowQ[i].sdu..s.sdus + 1
        PROVE  \/ m \in s.empty \cup {s.sdus + 1}
               \/ \E j \in 1..Len(s.closedWindowQ) : s.closedWindowQ[j].sdu = m
    <3>1. m = s.sdus + 1 \/ m \in s.closedWindowQ[i].sdu..s.sdus
      BY <1>4, <1>5
    <3> QED BY <1>6, <3>1 DEF InLine, NoneBetween
  <2> QED BY <1>3, <1>4, <1>5, <1>6, <2>1 DEF InLine, NoneBetween
<1> QED BY <1>3, <1>6 DEF Stopped, t

\* An SDU is written: it goes to the end of the queue, or nothing is on the queue.
LEMMA HandleMsgFromUpLine ==
    ASSUME NEW s, Sound(s)
    PROVE  /\ InLine(s) => InLine(HandleMsgFromUp(s))
           /\ Stopped(s) /\ s.blockingPort # TRUE => Stopped(HandleMsgFromUp(s))
<1> DEFINE took == TookPDU(s)
           pdu == NextPDU(s)
           posted == PostPDU(took, pdu)
           waits == WinBased /\ (pdu.seq > took.sndRightWinEdge \/ took.closedWindow)
           queue == Append(took.closedWindowQ, pdu)
           full == took.blockingPort \/ Len(took.closedWindowQ) >= MaxClosedWinQueLen - 1
           closed == posted.closedWindow \/ (WinBased /\ IsClosedWinQClosed(took))
           t == HandleMsgFromUp(s)
           q == s.closedWindowQ
<1>1. Sound(took) /\ pdu \in DataPDU /\ pdu.sdu = s.sdus + 1
  BY TookPDUSound, NextPDUType DEF NextPDU
<1>2. Sound(posted) /\ SameLine(took, posted)
  BY <1>1, PostPDUSound, PostLine
<1>3. /\ s.sdus \in Nat /\ q \in Seq(DataPDU) /\ Len(q) \in Nat
      /\ s.closedWindow \in BOOLEAN /\ s.blockingPort \in BOOLEAN
      /\ MaxClosedWinQueLen \in Nat
  BY EFCPAssumption DEF Sound, EFCPI
<1>4. \A i \in 1..Len(q) : q[i] \in DataPDU /\ q[i].sdu \in Nat
  BY <1>3, QueueType
<1>5. /\ took.closedWindowQ = q /\ took.closedWindow = s.closedWindow
      /\ took.blockingPort = s.blockingPort /\ took.sdus = s.sdus + 1 /\ took.empty = s.empty
  BY TookLine
<1>6. TrySendGenPDU(took, pdu) =
        IF waits THEN [took EXCEPT !.closedWindow = TRUE, !.closedWindowQ = queue,
                                   !.blockingPort = full]
        ELSE [posted EXCEPT !.closedWindow = closed]
  BY Zenon DEF TrySendGenPDU
<1>7. t = [TrySendGenPDU(took, pdu) EXCEPT !.senderTimer = TRUE]
  BY DEF HandleMsgFromUp
<1>8. CASE waits
  <2>1. WinBased
    BY <1>8
  <2>2. full <=> s.blockingPort \/ Len(q) >= MaxClosedWinQueLen - 1
    BY <1>5
  <2>3. /\ t.closedWindowQ = Append(q, pdu) /\ t.closedWindow = TRUE
        /\ t.blockingPort = full /\ t.sdus = s.sdus + 1 /\ t.empty = s.empty
    <3> HIDE DEF took, pdu, full
    <3> QED BY <1>1, <1>5, <1>6, <1>7, <1>8 DEF Sound, EFCPI
  <2> HIDE DEF t, full, took, pdu, waits, q
  <2>4. /\ Len(Append(q, pdu)) = Len(q) + 1
        /\ \A i \in 1..Len(q) : Append(q, pdu)[i] = q[i]
        /\ Append(q, pdu)[Len(q) + 1] = pdu
    BY <1>1, <1>3
  <2>5. \A i \in 1..Len(q) + 1 : i \in 1..Len(q) \/ i = Len(q) + 1
    BY <1>3
  <2>6. ASSUME InLine(s)
        PROVE  InLine(t)
    <3>1. /\ QueueInOrder(q) /\ NoneBetween(q, s.sdus, s.empty)
          /\ \A i \in 1..Len(q) : q[i].sdu <= s.sdus
      BY <2>6 DEF InLine, q
    <3>2. QueueInOrder(t.closedWindowQ)
      BY <1>1, <1>3, <1>4, <2>3, <2>4, <2>5, <3>1 DEF QueueInOrder
    <3>3. \A i \in 1..Len(t.closedWindowQ) : t.closedWindowQ[i].sdu <= t.sdus
      BY <1>1, <1>3, <1>4, <2>3, <2>4, <2>5, <3>1
    <3>4. NoneBetween(t.closedWindowQ, t.sdus, t.empty)
      <4> SUFFICES ASSUME NEW i \in 1..Len(q) + 1,
                          NEW m \in t.closedWindowQ[i].sdu..s.sdus + 1
                   PROVE  \/ m \in s.empty
                          \/ \E j \in 1..Len(q) + 1 : t.closedWindowQ[j].sdu = m
        BY <2>3, <2>4 DEF NoneBetween
      <4>1. CASE m = s.sdus + 1
        BY <1>1, <1>3, <2>3, <2>4, <4>1
      <4>2. CASE m # s.sdus + 1
        <5>1. i \in 1..Len(q) /\ m \in q[i].sdu..s.sdus
          BY <1>1, <1>3, <1>4, <2>3, <2>4, <2>5, <4>2
        <5>2. m \in s.empty \/ \E j \in 1..Len(q) : q[j].sdu = m
          BY <3>1, <5>1 DEF NoneBetween
        <5> QED BY <1>3, <2>3, <2>4, <5>2
      <4> QED BY <4>1, <4>2
    <3> QED BY <2>1, <2>3, <3>2, <3>3, <3>4 DEF InLine
  <2>7. ASSUME Stopped(s), s.blockingPort # TRUE
        PROVE  Stopped(t)
    <3>1. Len(q) < MaxClosedWinQueLen
      <4>1. Len(q) # MaxClosedWinQueLen /\ Len(q) <= MaxClosedWinQueLen
        BY <2>7 DEF Stopped, q
      <4>2. Len(q) \in Nat /\ MaxClosedWinQueLen \in Nat
        BY <1>3
      <4> QED BY <4>1, <4>2
    <3>2. t.blockingPort = TRUE <=> Len(q) >= MaxClosedWinQueLen - 1
      <4>1. full <=> Len(q) >= MaxClosedWinQueLen - 1
        BY <1>3, <2>2, <2>7, Zenon
      <4> QED BY <2>3, <4>1
    <3> QED BY <1>3, <2>3, <2>4, <3>1, <3>2 DEF Stopped
  <2> QED BY <2>6, <2>7 DEF t
<1>9. CASE ~waits
  <2>1. InLine(s) => q = <<>>
    BY <1>5, <1>9 DEF InLine
  <2>2. /\ t.closedWindowQ = q /\ t.blockingPort = s.blockingPort
    <3> HIDE DEF posted, closed
    <3> QED BY <1>2, <1>5, <1>6, <1>7, <1>9 DEF Sound, EFCPI, SameLine
  <2> HIDE DEF t
  <2>3. InLine(s) => InLine(t)
    BY <2>1, <2>2 DEF InLine, QueueInOrder, NoneBetween
  <2> QED BY <2>2, <2>3 DEF Stopped, t
<1> QED BY <1>8, <1>9

\* The window opens: the front of the queue is sent.
LEMMA TrySendClosedWindowQLine ==
    ASSUME NEW s, Sound(s)
    PROVE  /\ InLine(s) => InLine(TrySendClosedWindowQ(s))
           /\ Stopped(s) => Stopped(TrySendClosedWindowQ(s))
<1> DEFINE q == s.closedWindowQ
           k == Postable(s)
           rest == SubSeq(q, k + 1, Len(q))
           out == s.outData \cup {q[i] : i \in 1..k}
           entries == IF RxPresent
                      THEN s.rxQ \cup {[pdu |-> q[i], expiryCount |-> 0, pos |-> s.pushed + i] :
                                       i \in 1..k}
                      ELSE s.rxQ
           pushed == IF RxPresent THEN s.pushed + k ELSE s.pushed
           closed == rest # <<>>
           blocking == s.blockingPort /\ Len(rest) >= MaxClosedWinQueLen
           t == TrySendClosedWindowQ(s)
<1>1. /\ q \in Seq(DataPDU) /\ Len(q) \in Nat /\ s.sdus \in Nat
      /\ s.blockingPort \in BOOLEAN /\ MaxClosedWinQueLen \in Nat
  BY EFCPAssumption DEF Sound, EFCPI
<1>2. k \in 0..Len(q)
  BY PostableDef
<1>3. t = [s EXCEPT !.outData = out, !.rxQ = entries, !.pushed = pushed,
                    !.closedWindowQ = rest, !.closedWindow = closed, !.blockingPort = blocking]
  BY Zenon DEF TrySendClosedWindowQ
<1> HIDE DEF q, k, rest, out, entries, pushed, closed, blocking, t
<1>4. /\ t.closedWindowQ = rest /\ t.closedWindow = closed /\ t.blockingPort = blocking
      /\ t.sdus = s.sdus /\ t.empty = s.empty
  BY <1>3 DEF Sound, EFCPI
<1>5. /\ Len(rest) = Len(q) - k
      /\ \A i \in 1..Len(rest) : rest[i] = q[k + i]
  <2>1. k + 1 \in 1..Len(q) + 1 /\ Len(q) \in 0..Len(q)
    BY <1>1, <1>2
  <2>2. \A i \in 1..Len(q) : q[i] \in DataPDU
    BY <1>1
  <2>3. /\ Len(rest) = IF k + 1 <= Len(q) THEN Len(q) - (k + 1) + 1 ELSE 0
        /\ \A i \in 1..Len(q) - (k + 1) + 1 : rest[i] = q[(k + 1) + i - 1]
    BY <1>1, <1>2, SubSeqProperties DEF rest
  <2>4. Len(rest) = Len(q) - k
    BY <1>1, <1>2, <2>3
  <2>5. ASSUME NEW i \in 1..Len(rest)
        PROVE  rest[i] = q[k + i]
    <3>1. i \in 1..Len(q) - (k + 1) + 1 /\ (k + 1) + i - 1 = k + i
      BY <1>1, <1>2, <2>4
    <3> QED BY <2>3, <3>1
  <2> QED BY <2>4, <2>5
<1>6. \A i \in 1..Len(rest) : k + i \in 1..Len(q)
  BY <1>1, <1>2, <1>5
<1>7. \A i \in 1..Len(q) : q[i].sdu \in Nat
  BY <1>1, QueueType
<1>8. ASSUME InLine(s)
      PROVE  InLine(t)
  <2>1. /\ QueueInOrder(q) /\ NoneBetween(q, s.sdus, s.empty)
        /\ \A i \in 1..Len(q) : q[i].sdu <= s.sdus
        /\ q # <<>> => WinBased
    BY <1>8 DEF InLine, q
  <2>2. rest # <<>> => WinBased /\ closed = TRUE
    <3>1. q = <<>> => rest = <<>>
      BY <1>1, <1>2 DEF rest
    <3>2. closed <=> rest # <<>>
      BY DEF closed
    <3> QED BY <2>1, <3>1, <3>2 DEF closed
  <2>3. QueueInOrder(rest)
    <3> SUFFICES ASSUME NEW i \in 1..Len(rest), NEW j \in 1..Len(rest), i < j
                 PROVE  rest[i].sdu < rest[j].sdu
      BY DEF QueueInOrder
    <3>1. k + i < k + j /\ k + i \in 1..Len(q) /\ k + j \in 1..Len(q)
      BY <1>1, <1>2, <1>6
    <3> QED BY <1>5, <2>1, <3>1 DEF QueueInOrder
  <2>4. \A i \in 1..Len(rest) : rest[i].sdu <= s.sdus
    BY <1>5, <1>6, <2>1
  <2>5. NoneBetween(rest, s.sdus, s.empty)
    <3> SUFFICES ASSUME NEW i \in 1..Len(rest), NEW m \in rest[i].sdu..s.sdus, m \notin s.empty
                 PROVE  \E j \in 1..Len(rest) : rest[j].sdu = m
      BY DEF NoneBetween
    <3>1. k + i \in 1..Len(q) /\ rest[i] = q[k + i]
      BY <1>5, <1>6
    <3>2. PICK j \in 1..Len(q) : q[j].sdu = m
      BY <2>1, <3>1 DEF NoneBetween
    <3>3. ~(j < k + i)
      BY <1>7, <2>1, <3>1, <3>2 DEF QueueInOrder
    <3>4. j - k \in 1..Len(rest) /\ k + (j - k) = j
      BY <1>1, <1>2, <1>5, <3>1, <3>3
    <3> QED BY <1>5, <3>2, <3>4
  <2> QED BY <1>4, <2>2, <2>3, <2>4, <2>5 DEF InLine
<1>9. ASSUME Stopped(s)
      PROVE  Stopped(t)
  <2>1. blocking <=> s.blockingPort = TRUE /\ Len(rest) >= MaxClosedWinQueLen
    BY <1>1, Zenon DEF blocking
  <2>2. /\ s.blockingPort = TRUE <=> Len(q) = MaxClosedWinQueLen
        /\ Len(q) <= MaxClosedWinQueLen
    BY <1>9 DEF Stopped, q
  <2>3. blocking <=> Len(rest) = MaxClosedWinQueLen
    BY <1>1, <1>2, <1>5, <2>1, <2>2
  <2>4. Len(rest) <= MaxClosedWinQueLen
    BY <1>1, <1>2, <1>5, <2>2
  <2>5. (blocking = TRUE) <=> blocking
    BY DEF blocking
  <2> QED BY <1>4, <2>3, <2>4, <2>5 DEF Stopped
<1> QED BY <1>8, <1>9 DEF t

\* What a control PDU does: it may have an empty SDU sent, and may open the window.
LEMMA HandleControlPDUFromRMTLine ==
    ASSUME NEW s, Sound(s), NEW pdu \in CtrlPDU
    PROVE  /\ InLine(s) => InLine(HandleControlPDUFromRMT(s, pdu))
           /\ Stopped(s) => Stopped(HandleControlPDUFromRMT(s, pdu))
<1> DEFINE Fine(t) == (InLine(s) => InLine(t)) /\ (Stopped(s) => Stopped(t))
           c == CommonRcvControl(s, pdu)
           heard == IF IsLost(s, pdu) THEN LostControlPDU(s) ELSE s
           announced == SendControlAckPDU(s)
<1>1. pdu.ack \in Nat /\ pdu.rwe \in Nat /\ pdu.seq \in Nat
  BY DEF CtrlPDU
<1>2. ASSUME NEW t, Fine(t), NEW u, SameLine(t, u)
      PROVE  Fine(u)
  BY <1>2, LineFrame
<1>3. Sound(heard) /\ Fine(heard)
  <2>1. Sound(announced) /\ Fine(announced)
    BY SendControlAckPDUSound, SendCtrlLine, LineFrame
  <2> HIDE DEF announced
  <2>2. Sound(SendEmptyDTPDU(announced)) /\ Fine(SendEmptyDTPDU(announced))
    BY <2>1, SendEmptyDTPDUSound, SendEmptyDTPDULine
  <2> QED BY <2>2 DEF LostControlPDU, announced
<1>4. Sound(c) /\ Fine(c)
  <2>1. c = [heard EXCEPT !.lastControlSeqNumRcv = pdu.seq]
    BY DEF CommonRcvControl
  <2> HIDE DEF heard, Fine
  <2>2. SameLine(heard, [heard EXCEPT !.lastControlSeqNumRcv = pdu.seq])
    BY <1>3 DEF Sound, EFCPI, SameLine
  <2> QED BY <1>2, <1>3, <2>1, <2>2, CommonRcvControlSound
<1> HIDE DEF c
<1>5. ASSUME NEW t, Sound(t), NEW n \in Nat
      PROVE  SameLine(t, AckPDU(t, n)) /\ SameLine(t, UpdateSndLWE(t, n))
  BY <1>5 DEF Sound, EFCPI, SameLine, AckPDU, UpdateSndLWE
<1>6. ASSUME NEW t, Sound(t), NEW m \in Nat, NEW n \in Nat
      PROVE  SameLine(t, UpdateSndLWE(AckPDU(t, m), n)) /\ Sound(UpdateSndLWE(AckPDU(t, m), n))
  <2>1. Sound(AckPDU(t, m)) /\ SameLine(t, AckPDU(t, m))
    BY <1>5, <1>6, AckPDUSound
  <2>2. SameLine(AckPDU(t, m), UpdateSndLWE(AckPDU(t, m), n))
    BY <1>5, <1>6, <2>1
  <2> QED BY <1>6, <2>1, <2>2, UpdateSndLWESound DEF SameLine
<1>7. Sound(SenderAck(c, pdu)) /\ Fine(SenderAck(c, pdu))
  <2>1. SameLine(c, SenderAck(c, pdu))
    BY <1>1, <1>4, <1>6 DEF SenderAck
  <2> QED BY <1>2, <1>4, <2>1, SenderAckSound
<1>8. Fine(RcvrControlAck(c, pdu))
  <2> DEFINE acked == IF pdu.ack > c.sndLeftWinEdge
                      THEN UpdateSndLWE(AckPDU(c, pdu.ack - 1), pdu.ack) ELSE c
             edge == [acked EXCEPT !.sndRightWinEdge = pdu.rwe]
  <2>1. Sound(acked) /\ SameLine(c, acked)
    <3>1. pdu.ack > c.sndLeftWinEdge => pdu.ack - 1 \in Nat
      <4>1. Sound(c)
        BY <1>4
      <4>2. c.sndLeftWinEdge \in Nat
        BY <4>1 DEF Sound, EFCPI
      <4> QED BY <1>1, <4>2
    <3>2. CASE pdu.ack > c.sndLeftWinEdge
      <4>1. acked = UpdateSndLWE(AckPDU(c, pdu.ack - 1), pdu.ack)
        BY <3>2
      <4> HIDE DEF acked
      <4> QED BY <1>1, <1>4, <1>6, <3>1, <3>2, <4>1
    <3>3. CASE ~(pdu.ack > c.sndLeftWinEdge)
      <4>1. acked = c
        BY <3>3
      <4> HIDE DEF acked
      <4> QED BY <1>4, <4>1 DEF SameLine
    <3> QED BY <3>2, <3>3
  <2>2. RcvrControlAck(c, pdu) = SendAckFlowPDU(edge)
    BY DEF RcvrControlAck
  <2> HIDE DEF acked
  <2>3. Sound(edge) /\ SameLine(c, edge)
    BY <1>1, <2>1 DEF Sound, EFCPI, SameLine
  <2> HIDE DEF edge
  <2>4. SameLine(c, SendAckFlowPDU(edge))
    BY <2>3, SendCtrlLine DEF SameLine
  <2> QED BY <1>2, <1>4, <2>2, <2>4
<1>9. ASSUME NEW t, Sound(t), Fine(t)
      PROVE  Fine(RcvFlowControl(t, pdu))
  <2> DEFINE edge == [t EXCEPT !.sndRightWinEdge = pdu.rwe]
  <2>1. Sound(edge) /\ SameLine(t, edge)
    BY <1>1, <1>9 DEF Sound, EFCPI, SameLine
  <2>2. RcvFlowControl(t, pdu) = IF t.closedWindowQ = <<>> THEN edge ELSE TrySendClosedWindowQ(edge)
    BY DEF RcvFlowControl
  <2> HIDE DEF edge
  <2>3. Fine(edge)
    BY <1>2, <1>9, <2>1
  <2>4. Fine(TrySendClosedWindowQ(edge))
    BY <2>1, <2>3, TrySendClosedWindowQLine
  <2> HIDE DEF Fine
  <2> QED BY <2>2, <2>3, <2>4
<1>10. Fine(s)
  OBVIOUS
<1>11. Fine(RcvFlowControl(c, pdu)) /\ Fine(RcvFlowControl(SenderAck(c, pdu), pdu))
  BY <1>4, <1>7, <1>9
<1> DEFINE old == pdu.seq <= s.lastControlSeqNumRcv
           new == pdu.seq > s.lastControlSeqNumRcv
<1>12. /\ old \/ new
       /\ ~(old /\ new)
       /\ pdu.type \in {"ack", "fc", "ackflow", "controlack"}
  BY DEF Sound, EFCPI, CtrlPDU, CtrlType
<1>13. HandleControlPDUFromRMT(s, pdu) =
        CASE old -> s
          [] new /\ pdu.type = "controlack" -> RcvrControlAck(c, pdu)
          [] new /\ pdu.type = "ack" -> SenderAck(c, pdu)
          [] new /\ pdu.type = "fc" -> RcvFlowControl(c, pdu)
          [] new /\ pdu.type = "ackflow" -> RcvFlowControl(SenderAck(c, pdu), pdu)
  BY Zenon DEF HandleControlPDUFromRMT, c
<1> HIDE DEF Fine, old, new
<1>14. Fine(HandleControlPDUFromRMT(s, pdu))
  BY <1>7, <1>8, <1>10, <1>11, <1>12, <1>13
<1> QED BY <1>14 DEF Fine

-----------------------------------------------------------------------------
\* The handler that runs, and what it leaves of the EFCPI it runs at.
LEMMA OneHandler ==
    ASSUME SoundInv, [Next]_vars, NEW d \in End
    PROVE  \/ SameLine(efcpi[d], efcpi'[d])
           \/ \E t : /\ SameLine(t, efcpi'[d])
                     /\ \/ /\ t = HandleMsgFromUp(efcpi[d])
                           /\ HonourBlock => efcpi[d].blockingPort # TRUE
                        \/ \E p \in CtrlPDU : t = HandleControlPDUFromRMT(efcpi[d], p)
<1>1. /\ \A e \in End : Sound(efcpi[e])
      /\ \A e \in End : dataNet[e] \in SUBSET DataPDU
      /\ \A e \in End : ctrlNet[e] \in SUBSET CtrlPDU
      /\ efcpi \in [End -> EFCPI]
  BY DEF SoundInv, TypeOK, Sound
<1>2. ASSUME NEW e \in End, NEW s, Sound(s), NEW data, NEW ctrl, Handle(e, s, data, ctrl)
      PROVE  /\ d # e => SameLine(efcpi[d], efcpi'[d])
             /\ d = e => SameLine(s, efcpi'[d])
  <2> DEFINE t == [s EXCEPT !.outData = {}, !.outCtrl = {}, !.toUser = {}]
  <2>1. SameLine(s, t)
    BY <1>2 DEF Sound, EFCPI, SameLine
  <2>2. efcpi' = [efcpi EXCEPT ![e] = t]
    BY <1>2 DEF Handle
  <2> HIDE DEF t
  <2> QED BY <1>1, <2>1, <2>2 DEF SameLine
<1>3. ASSUME NEW e \in End, NEW s, Sound(s), NEW data, NEW ctrl, Handle(e, s, data, ctrl),
             SameLine(efcpi[e], s)
      PROVE  SameLine(efcpi[d], efcpi'[d])
  BY <1>2, <1>3 DEF SameLine
<1>4. ASSUME NEW e \in End, Write(e)
      PROVE  \/ SameLine(efcpi[d], efcpi'[d])
             \/ /\ SameLine(HandleMsgFromUp(efcpi[d]), efcpi'[d])
                /\ HonourBlock => efcpi[d].blockingPort # TRUE
  <2>1. /\ Handle(e, HandleMsgFromUp(efcpi[e]), dataNet[e], ctrlNet[e])
        /\ HonourBlock => efcpi[e].blockingPort # TRUE
    BY <1>4 DEF Write
  <2> QED BY <1>1, <1>2, <2>1, HandleMsgFromUpSound
<1>5. ASSUME NEW e \in End, NEW p \in dataNet[e], RcvData(e, p)
      PROVE  SameLine(efcpi[d], efcpi'[d])
  <2> DEFINE s == HandleDataTransferPDUFromRMT(efcpi[e], p)
  <2>1. Sound(s) /\ SameLine(efcpi[e], s)
    BY <1>1, HandleDataTransferPDUFromRMTSound, HandleDataTransferPDUFromRMTLine
  <2>2. Handle(e, s, dataNet[e] \ {p}, ctrlNet[e])
    BY <1>5 DEF RcvData
  <2> HIDE DEF s
  <2> QED BY <1>3, <2>1, <2>2
<1>6. ASSUME NEW e \in End, NEW p \in ctrlNet[e], RcvCtrl(e, p)
      PROVE  \/ SameLine(efcpi[d], efcpi'[d])
             \/ /\ p \in CtrlPDU
                /\ SameLine(HandleControlPDUFromRMT(efcpi[d], p), efcpi'[d])
  <2>1. Handle(e, HandleControlPDUFromRMT(efcpi[e], p), dataNet[e], ctrlNet[e] \ {p})
    BY <1>6 DEF RcvCtrl
  <2> QED BY <1>1, <1>2, <2>1, HandleControlPDUFromRMTSound
<1>7. ASSUME NEW e \in End, NEW x \in efcpi[e].rxQ, RxTimer(e, x)
      PROVE  SameLine(efcpi[d], efcpi'[d])
  BY <1>1, <1>3, <1>7, RxTimerExpirySound, TimersLine DEF RxTimer
<1>8. ASSUME NEW e \in End, ATimer(e)
      PROVE  SameLine(efcpi[d], efcpi'[d])
  BY <1>1, <1>3, <1>8, HandleDTPATimerSound, TimersLine DEF ATimer
<1>9. ASSUME NEW e \in End, RcvrInactivityTimer(e) \/ SenderInactivityTimer(e)
      PROVE  SameLine(efcpi[d], efcpi'[d])
  BY <1>1, <1>3, <1>9, InactivitySound, TimersLine DEF RcvrInactivityTimer, SenderInactivityTimer
<1>10. ASSUME efcpi' = efcpi
       PROVE  SameLine(efcpi[d], efcpi'[d])
  BY <1>10 DEF SameLine
<1> QED BY <1>4, <1>5, <1>6, <1>7, <1>8, <1>9, <1>10 DEF Next, Lose, vars

\* An SDU that waits for the window is never overtaken, and the window stays closed until
\* the last of them has been sent: for every window, queue length and credit, also when
\* inactivity timers expire and PDUs are lost, late or reordered.
THEOREM NeverOvertaken == Spec => []NoOvertaking
<1>1. SoundInv /\ LineInv => NoOvertaking
  <2> SUFFICES ASSUME SoundInv, LineInv,
                      NEW e \in End, NEW n \in Waiting(e), NEW m \in n..efcpi[e].sdus
               PROVE  m \in Waiting(e) \cup efcpi[e].empty
    BY DEF NoOvertaking
  <2> DEFINE q == efcpi[e].closedWindowQ
  <2>1. q \in Seq(DataPDU) /\ DOMAIN q = 1..Len(q)
    BY DEF SoundInv, TypeOK, EFCPI
  <2>2. PICK i \in 1..Len(q) : q[i].sdu = n
    BY <2>1 DEF Waiting
  <2>3. m \in efcpi[e].empty \/ \E j \in 1..Len(q) : q[j].sdu = m
    BY <2>2 DEF LineInv, InLine, NoneBetween
  <2> QED BY <2>1, <2>3 DEF Waiting
<1>2. Init => LineInv
  BY DEF Init, LineInv, InitEFCPI, InLine, QueueInOrder, NoneBetween
<1>3. SoundInv /\ LineInv /\ [Next]_vars => LineInv'
  <2> SUFFICES ASSUME SoundInv, LineInv, [Next]_vars, NEW d \in End
               PROVE  InLine(efcpi'[d])
    BY DEF LineInv
  <2>1. Sound(efcpi[d]) /\ InLine(efcpi[d])
    BY DEF SoundInv, TypeOK, Sound, LineInv
  <2>2. CASE SameLine(efcpi[d], efcpi'[d])
    BY <2>1, <2>2, LineFrame
  <2>3. ASSUME NEW t, SameLine(t, efcpi'[d]),
               \/ t = HandleMsgFromUp(efcpi[d])
               \/ \E p \in CtrlPDU : t = HandleControlPDUFromRMT(efcpi[d], p)
        PROVE  InLine(efcpi'[d])
    <3>1. InLine(t)
      BY <2>1, <2>3, HandleMsgFromUpLine, HandleControlPDUFromRMTLine
    <3> QED BY <2>3, <3>1, LineFrame
  <2> QED BY <2>2, <2>3, OneHandler
<1> QED BY <1>1, <1>2, <1>3, SoundInit, SoundNext, PTL DEF Spec

\* A user that writes only while it is not stopped is stopped exactly while the queue is
\* full, which never gets longer than maxClosedWinQueLen: whatever the peer's window does.
THEOREM StoppedWhileFull ==
    ASSUME HonourBlock
    PROVE  Spec => []PortBlockedIffQueueFull
<1>1. SoundInv /\ StoppedInv => PortBlockedIffQueueFull
  <2> SUFFICES ASSUME SoundInv, StoppedInv, NEW e \in End
               PROVE  /\ efcpi[e].blockingPort <=>
                            Len(efcpi[e].closedWindowQ) = MaxClosedWinQueLen
                      /\ Len(efcpi[e].closedWindowQ) <= MaxClosedWinQueLen
    BY DEF PortBlockedIffQueueFull
  <2>1. efcpi[e].blockingPort \in BOOLEAN
    BY DEF SoundInv, TypeOK, EFCPI
  <2>2. Stopped(efcpi[e])
    BY DEF StoppedInv
  <2> QED BY <2>1, <2>2, Zenon DEF Stopped
<1>2. Init => StoppedInv
  <2>1. MaxClosedWinQueLen \in Nat /\ MaxClosedWinQueLen # 0
    BY EFCPAssumption
  <2> QED BY <2>1 DEF Init, StoppedInv, InitEFCPI, Stopped
<1>3. SoundInv /\ StoppedInv /\ [Next]_vars => StoppedInv'
  <2> SUFFICES ASSUME SoundInv, StoppedInv, [Next]_vars, NEW d \in End
               PROVE  Stopped(efcpi'[d])
    BY DEF StoppedInv
  <2>1. Sound(efcpi[d]) /\ Stopped(efcpi[d])
    BY DEF SoundInv, TypeOK, Sound, StoppedInv
  <2>2. CASE SameLine(efcpi[d], efcpi'[d])
    BY <2>1, <2>2, LineFrame
  <2>3. ASSUME NEW t, SameLine(t, efcpi'[d]),
               \/ /\ t = HandleMsgFromUp(efcpi[d])
                  /\ HonourBlock => efcpi[d].blockingPort # TRUE
               \/ \E p \in CtrlPDU : t = HandleControlPDUFromRMT(efcpi[d], p)
        PROVE  Stopped(efcpi'[d])
    <3>1. Stopped(t)
      BY <2>1, <2>3, HandleMsgFromUpLine, HandleControlPDUFromRMTLine
    <3> QED BY <2>3, <3>1, LineFrame
  <2> QED BY <2>2, <2>3, OneHandler
<1> QED BY <1>1, <1>2, <1>3, SoundInit, SoundNext, PTL DEF Spec

-----------------------------------------------------------------------------
\* The receiver's window.  A PDU is kept only below the right edge, but for the first
\* one after the edge was not known yet; and the number after the left edge is never
\* kept, as the edge would have moved over it.
Beyond(s, n) == n > s.rcvLeftWinEdge + RcvCredit

WithinCredit(s) ==
    LET q == s.reassemblyPDUQ
    IN  /\ q # {} => s.rcvRightWinEdge = s.rcvLeftWinEdge + RcvCredit
        /\ \A f \in q : f.seq > s.rcvLeftWinEdge + 1
        /\ \A f, g \in q : f.seq = g.seq => f = g
        /\ \A f, g \in q : Beyond(s, f.seq) /\ Beyond(s, g.seq) => f = g

CreditInv == idle = 0 => \A e \in End : WithinCredit(efcpi[e])

\* The same after a PDU has been put on the queue and before the edges have moved.
Kept(s) ==
    LET q == s.reassemblyPDUQ
    IN  /\ \A f \in q : f.seq > s.rcvLeftWinEdge
        /\ \A f, g \in q : f.seq = g.seq => f = g
        /\ \A f, g \in q : Beyond(s, f.seq) /\ Beyond(s, g.seq) => f = g

SameWindow(s, t) ==
    /\ t.rcvLeftWinEdge = s.rcvLeftWinEdge
    /\ t.rcvRightWinEdge = s.rcvRightWinEdge
    /\ t.reassemblyPDUQ = s.reassemblyPDUQ

LEMMA WindowFrame ==
    ASSUME NEW s, NEW t, SameWindow(s, t)
    PROVE  WithinCredit(s) => WithinCredit(t)
BY DEF SameWindow, WithinCredit, Beyond

\* The PDUs that are kept fit in the credit: one for each number from the second after the
\* left edge to the right edge, and one beyond.
LEMMA CreditCounts ==
    ASSUME NEW s, Sound(s), WithinCredit(s)
    PROVE  Cardinality(s.reassemblyPDUQ) <= RcvCredit
<1> DEFINE q == s.reassemblyPDUQ
           left == s.rcvLeftWinEdge
           below == {f \in q : ~Beyond(s, f.seq)}
           past == {f \in q : Beyond(s, f.seq)}
           numbers == (left + 2)..(left + RcvCredit)
<1>1. left \in Nat /\ q \in SUBSET Fragment /\ RcvCredit \in Nat /\ RcvCredit >= 1
  BY EFCPAssumption DEF Sound, EFCPI
<1>2. \A f \in q : f.seq \in Nat
  BY <1>1 DEF Fragment
<1>3. IsFiniteSet(numbers) /\ Cardinality(numbers) = RcvCredit - 1
  <2> DEFINE a == left + 2
             b == left + RcvCredit
  <2>1. a \in Int /\ b \in Int /\ (IF a > b THEN 0 ELSE b - a + 1) = RcvCredit - 1
    BY <1>1
  <2> HIDE DEF a, b
  <2>2. IsFiniteSet(a..b) /\ Cardinality(a..b) = IF a > b THEN 0 ELSE b - a + 1
    BY <2>1, FS_Interval
  <2> QED BY <2>1, <2>2 DEF a, b
<1>4. IsFiniteSet(below) /\ Cardinality(below) <= RcvCredit - 1
  <2> DEFINE number == [f \in below |-> f.seq]
  <2>1. \A f \in below : f.seq \in numbers
    BY <1>1, <1>2 DEF WithinCredit, Beyond
  <2>2. \A f, g \in below : f.seq = g.seq => f = g
    BY DEF WithinCredit
  <2> HIDE DEF below, numbers
  <2>3. number \in Injection(below, numbers)
    BY <2>1, <2>2 DEF Injection, IsInjective
  <2> QED BY <1>1, <1>3, <2>3, FS_Injection
<1>5. IsFiniteSet(past) /\ Cardinality(past) <= 1
  <2>1. CASE past = {}
    BY <2>1, FS_EmptySet
  <2>2. ASSUME NEW f \in past
        PROVE  IsFiniteSet(past) /\ Cardinality(past) = 1
    <3>1. past = {f}
      BY <2>2 DEF WithinCredit
    <3>2. IsFiniteSet({f}) /\ Cardinality({f}) = 1
      BY FS_Singleton
    <3> HIDE DEF past
    <3> QED BY <3>1, <3>2
  <2> QED BY <2>1, <2>2
<1>6. q = below \cup past
  OBVIOUS
<1> HIDE DEF below, past
<1>7. /\ Cardinality(q) = Cardinality(below) + Cardinality(past) - Cardinality(below \cap past)
      /\ Cardinality(below \cap past) \in Nat
  <2>1. IsFiniteSet(below \cap past)
    BY <1>4, FS_Subset
  <2> QED BY <1>4, <1>5, <1>6, <2>1, FS_Union, FS_CardinalityType
<1>8. Cardinality(below) \in Nat /\ Cardinality(past) \in Nat
  BY <1>4, <1>5, FS_CardinalityType
<1> QED BY <1>1, <1>4, <1>5, <1>7, <1>8 DEF q

\* updateRcvLWE leaves the number after the edge to be received.
LEMMA NextIsMissing ==
    ASSUME NEW s, Sound(s), \A f \in s.reassemblyPDUQ : f.seq > s.rcvLeftWinEdge
    PROVE  LET t == UpdateRcvLWE(s)
           IN  /\ t.rcvLeftWinEdge \in Nat /\ t.rcvLeftWinEdge >= s.rcvLeftWinEdge
               /\ \A f \in s.reassemblyPDUQ : f.seq # t.rcvLeftWinEdge + 1
               /\ t.reassemblyPDUQ = s.reassemblyPDUQ
               /\ t.rcvRightWinEdge = s.rcvRightWinEdge
<1> DEFINE q == s.reassemblyPDUQ
           left == s.rcvLeftWinEdge
           reached == Reached(q, left)
           edge == IF reached = {} THEN left ELSE Max(reached)
           t == UpdateRcvLWE(s)
<1>1. q \in SUBSET Fragment /\ left \in Nat /\ MaxAllowGap \in Nat
  BY EFCPAssumption DEF Sound, EFCPI
<1>2. Seqs(q) \in SUBSET Nat /\ reached \subseteq Seqs(q)
  BY <1>1 DEF Reached, Seqs, Fragment
<1>3. PICK b \in Nat : \A m \in Seqs(q) : m <= b
  BY DEF Sound, Bounded, Seqs
<1>4. reached # {} => edge \in reached /\ \A m \in reached : m <= edge
  BY <1>2, <1>3, MaxBounded
<1>5. \A m \in Seqs(q) : m > left
  BY DEF Seqs
<1>6. t = [s EXCEPT !.rcvLeftWinEdge = edge]
  BY DEF UpdateRcvLWE
<1> HIDE DEF edge
<1>7. reached = {} => edge = left
  BY DEF edge
<1>8. edge \in Nat /\ edge >= left
  BY <1>1, <1>2, <1>4, <1>5, <1>7
<1>9. edge + 1 \notin Seqs(q)
  <2> SUFFICES ASSUME edge + 1 \in Seqs(q)
               PROVE  edge + 1 \in reached
    BY <1>4, <1>7, <1>5, <1>8
  <2> DEFINE n == edge + 1
             below == {m \in Seqs(q) : m < n}
  <2>1. \A m \in below : m <= edge
    BY <1>2, <1>8
  <2>2. reached # {} => edge \in Seqs(q)
    BY <1>2, <1>4
  <2>3. EdgeBefore(n, q, left) = edge
    <3>1. CASE reached = {}
      <4>1. below = {}
        <5>1. \A m \in Seqs(q) : m > edge
          BY <1>5, <1>7, <3>1
        <5> QED BY <1>2, <1>8, <2>1, <5>1
      <4> QED BY <1>7, <3>1, <4>1 DEF EdgeBefore
    <3>2. CASE reached # {}
      <4>1. edge \in below /\ below \in SUBSET Nat
        BY <1>2, <1>8, <2>2, <3>2
      <4>2. Max(below) \in below /\ \A m \in below : m <= Max(below)
        BY <1>8, <2>1, <4>1, MaxBounded
      <4>3. EdgeBefore(n, q, left) = Max(below)
        BY <4>1 DEF EdgeBefore
      <4> DEFINE max == Max(below)
      <4>4. max \in Nat /\ max <= edge /\ edge <= max
        <5> HIDE DEF below
        <5> QED BY <2>1, <4>1, <4>2
      <4> HIDE DEF max
      <4>5. max = edge
        BY <1>8, <4>4
      <4> QED BY <4>3, <4>5 DEF max
    <3> QED BY <3>1, <3>2
  <2>4. ASSUME NEW m \in Seqs(q), m <= n
        PROVE  EdgeBefore(m, q, left) + 1 + MaxAllowGap >= m
    <3>1. CASE m = n
      BY <1>1, <1>8, <2>3, <3>1
    <3>2. CASE m <= edge
      <4>1. edge \in reached
        BY <1>1, <1>2, <1>4, <1>5, <1>7, <3>2
      <4> HIDE DEF reached
      <4>2. \A x \in reached : \A y \in Seqs(q) :
                y <= x => EdgeBefore(y, q, left) + 1 + MaxAllowGap >= y
        BY DEF reached, Reached
      <4> QED BY <3>2, <4>1, <4>2
    <3> QED BY <1>2, <1>8, <2>4, <3>1, <3>2
  <2> QED BY <2>4 DEF Reached
<1>10. /\ t.rcvLeftWinEdge = edge /\ t.reassemblyPDUQ = q
       /\ t.rcvRightWinEdge = s.rcvRightWinEdge
  BY <1>6 DEF Sound, EFCPI
<1> HIDE DEF t
<1>11. \A f \in q : f.seq # edge + 1
  BY <1>9 DEF Seqs
<1> QED BY <1>8, <1>10, <1>11 DEF t, q, left

LEMMA SendCtrlWindow ==
    ASSUME NEW s, Sound(s)
    PROVE  /\ \A type, ack, rwe : SameWindow(s, SendCtrl(s, type, ack, rwe))
           /\ SameWindow(s, SendFCOnlyPDU(s))
           /\ SameWindow(s, SendAckFlowPDU(s))
           /\ SameWindow(s, SendControlAckPDU(s))
<1>1. \A type, ack, rwe : SameWindow(s, SendCtrl(s, type, ack, rwe))
  BY DEF Sound, EFCPI, SendCtrl, SameWindow
<1>2. SameWindow(s, s)
  BY DEF SameWindow
<1> QED BY <1>1, <1>2 DEF SendFCOnlyPDU, SendAckFlowPDU, SendControlAckPDU

\* SvUpdate and DelimitFromRMT move both edges and hand up what is below the left one.
LEMMA NewWindow ==
    ASSUME NEW s, Sound(s), WinBased, NEW onATimer \in BOOLEAN
    PROVE  LET t == DelimitFromRMT(SvUpdate(s, onATimer))
               edge == UpdateRcvLWE(s).rcvLeftWinEdge
           IN  /\ t.rcvLeftWinEdge = edge
               /\ t.rcvRightWinEdge = edge + RcvCredit
               /\ t.reassemblyPDUQ = {f \in s.reassemblyPDUQ : ~(f.seq <= edge)}
<1> DEFINE left == UpdateRcvLWE(s)
           right == RcvrFC(left)
           told == SvUpdate(s, onATimer)
           t == DelimitFromRMT(told)
<1>1. Sound(left) /\ left.reassemblyPDUQ = s.reassemblyPDUQ
  <2> DEFINE edge == IF Reached(s.reassemblyPDUQ, s.rcvLeftWinEdge) = {} THEN s.rcvLeftWinEdge
                     ELSE Max(Reached(s.reassemblyPDUQ, s.rcvLeftWinEdge))
  <2>1. left = [s EXCEPT !.rcvLeftWinEdge = edge]
    BY DEF UpdateRcvLWE
  <2> HIDE DEF edge, left
  <2>2. left.reassemblyPDUQ = s.reassemblyPDUQ
    BY <2>1 DEF Sound, EFCPI
  <2> QED BY <2>2, UpdateRcvLWESound DEF left
<1>2. told = IF RxPresent THEN RcvrAck(right, onATimer) ELSE SendFCOnlyPDU(right)
  BY DEF SvUpdate
<1> HIDE DEF left, told
<1>3. Sound(right)
  BY <1>1, RcvrFCSound
<1>4. /\ right.rcvLeftWinEdge = left.rcvLeftWinEdge
      /\ right.rcvRightWinEdge = left.rcvLeftWinEdge + RcvCredit
      /\ right.reassemblyPDUQ = s.reassemblyPDUQ
  BY <1>1 DEF Sound, EFCPI, RcvrFC
<1> HIDE DEF right
<1>5. Sound(told) /\ SameWindow(right, told)
  <2>1. Sound(told)
    BY SvUpdateSound DEF told
  <2>2. SameWindow(right, [right EXCEPT !.aTimer = TRUE])
    BY <1>3 DEF Sound, EFCPI, SameWindow
  <2> DEFINE acked == SendAckFlowPDU(right)
  <2>3. Sound(acked) /\ SameWindow(right, acked)
    BY <1>3, SendAckFlowPDUSound, SendCtrlWindow
  <2> HIDE DEF acked
  <2>4. SameWindow(right, [acked EXCEPT !.aTimer = FALSE])
    BY <2>3 DEF Sound, EFCPI, SameWindow
  <2>5. SameWindow(right, RcvrAck(right, onATimer))
    BY <2>2, <2>4 DEF RcvrAck, acked
  <2> QED BY <1>2, <1>3, <2>1, <2>5, SendCtrlWindow
<1>6. /\ t.rcvLeftWinEdge = told.rcvLeftWinEdge
      /\ t.rcvRightWinEdge = told.rcvRightWinEdge
      /\ t.reassemblyPDUQ = {f \in told.reassemblyPDUQ : ~(f.seq <= told.rcvLeftWinEdge)}
  BY <1>5 DEF Sound, EFCPI, DelimitFromRMT
<1> HIDE DEF t
<1> QED BY <1>4, <1>5, <1>6 DEF SameWindow, t, told, left

LEMMA WindowMoves ==
    ASSUME NEW s, Sound(s), Kept(s), WinBased, NEW onATimer \in BOOLEAN
    PROVE  WithinCredit(DelimitFromRMT(SvUpdate(s, onATimer)))
<1> DEFINE t == DelimitFromRMT(SvUpdate(s, onATimer))
           edge == UpdateRcvLWE(s).rcvLeftWinEdge
           q == s.reassemblyPDUQ
<1>1. /\ t.rcvLeftWinEdge = edge /\ t.rcvRightWinEdge = edge + RcvCredit
      /\ t.reassemblyPDUQ = {f \in q : ~(f.seq <= edge)}
  BY NewWindow
<1>2. /\ edge \in Nat /\ edge >= s.rcvLeftWinEdge
      /\ \A f \in q : f.seq # edge + 1
  BY NextIsMissing DEF Kept
<1>3. /\ s.rcvLeftWinEdge \in Nat /\ RcvCredit \in Nat
      /\ \A f \in q : f.seq \in Nat
  BY EFCPAssumption DEF Sound, EFCPI, Fragment
<1> HIDE DEF edge, t
<1>4. \A f \in t.reassemblyPDUQ : f.seq > edge + 1
  BY <1>1, <1>2, <1>3
<1>5. \A f \in t.reassemblyPDUQ : f \in q /\ (Beyond(t, f.seq) => Beyond(s, f.seq))
  BY <1>1, <1>2, <1>3 DEF Beyond
<1> QED BY <1>1, <1>4, <1>5 DEF WithinCredit, Kept, t

LEMMA AcceptWindow ==
    ASSUME NEW s, Sound(s), Kept(s), WinBased, NEW edge \in Nat
    PROVE  WithinCredit(Accept(s, edge))
<1> DEFINE t == DelimitFromRMT(SvUpdate(s, FALSE))
<1>1. Sound(t) /\ WithinCredit(t)
  BY SvUpdateSound, DelimitFromRMTSound, WindowMoves
<1>2. Accept(s, edge) = [t EXCEPT !.rcvrTimer = TRUE]
  BY DEF Accept, DtcpPresent
<1> HIDE DEF t
<1>3. SameWindow(t, [t EXCEPT !.rcvrTimer = TRUE])
  BY <1>1 DEF Sound, EFCPI, SameWindow
<1> QED BY <1>1, <1>2, <1>3, WindowFrame

\* A PDU with DRF is handed up at once, and nothing is kept.
LEMMA RcvDRFWindow ==
    ASSUME NEW s, Sound(s), NEW pdu \in DataPDU, WinBased
    PROVE  WithinCredit(RcvDRF(s, pdu))
<1> DEFINE delimited == DelimitFromRMT(s)
           flushed == [delimited EXCEPT !.reassemblyPDUQ = {}]
           newRun == SetMaxSeqNumRcvd(flushed, pdu.seq)
           edge == [newRun EXCEPT !.rcvLeftWinEdge = newRun.maxSeqNumRcvd]
           new == [seq |-> pdu.seq, sdu |-> pdu.sdu]
           added == AddPDUToReassemblyQ(edge, pdu)
           moved == DelimitFromRMT(SvUpdate(added, FALSE))
<1>1. pdu.seq \in Nat /\ new.seq = pdu.seq /\ new \in Fragment
  BY DEF DataPDU, Fragment
<1>2. Sound(flushed) /\ flushed.reassemblyPDUQ = {}
  <2>1. Sound(delimited)
    BY DelimitFromRMTSound
  <2> HIDE DEF delimited
  <2>2. flushed \in EFCPI /\ flushed.reassemblyPDUQ = {}
    BY <2>1 DEF Sound, EFCPI
  <2>3. Bounded({})
    <3>1. 0 \in Nat
      OBVIOUS
    <3> QED BY <3>1 DEF Bounded
  <2> QED BY <2>2, <2>3 DEF Sound
<1>3. RcvDRF(s, pdu) = Accept(added, pdu.seq)
  BY DEF RcvDRF
<1> HIDE DEF flushed
<1>4. /\ Sound(newRun) /\ newRun.reassemblyPDUQ = {}
      /\ newRun.maxSeqNumRcvd >= pdu.seq
  <2>1. Sound(newRun)
    BY <1>1, <1>2, SetMaxSeqNumRcvdSound
  <2> DEFINE max == IF flushed.maxSeqNumRcvd > pdu.seq THEN flushed.maxSeqNumRcvd ELSE pdu.seq
  <2>2. newRun = [flushed EXCEPT !.maxSeqNumRcvd = max]
    BY DEF SetMaxSeqNumRcvd
  <2>3. max >= pdu.seq
    <3>1. flushed.maxSeqNumRcvd \in Nat
      BY <1>2 DEF Sound, EFCPI
    <3> QED BY <1>1, <3>1
  <2> HIDE DEF max, newRun
  <2>4. newRun.reassemblyPDUQ = {} /\ newRun.maxSeqNumRcvd = max
    BY <1>2, <2>2 DEF Sound, EFCPI
  <2> QED BY <2>1, <2>3, <2>4
<1> HIDE DEF newRun
<1>5. /\ Sound(edge) /\ edge.reassemblyPDUQ = {}
      /\ edge.rcvLeftWinEdge \in Nat /\ edge.rcvLeftWinEdge >= pdu.seq
  BY <1>4 DEF Sound, EFCPI
<1> HIDE DEF edge
<1>6. /\ Sound(added) /\ added.reassemblyPDUQ = {new}
      /\ added.rcvLeftWinEdge = edge.rcvLeftWinEdge
  <2>1. Sound(added)
    BY <1>5, AddPDUToReassemblyQSound
  <2>2. added = [edge EXCEPT !.reassemblyPDUQ = {new}]
    BY <1>5 DEF AddPDUToReassemblyQ, Seqs
  <2> HIDE DEF added, new
  <2>3. added.reassemblyPDUQ = {new} /\ added.rcvLeftWinEdge = edge.rcvLeftWinEdge
    BY <1>5, <2>2 DEF Sound, EFCPI
  <2> QED BY <2>1, <2>3
<1> HIDE DEF added
<1>7. UpdateRcvLWE(added).rcvLeftWinEdge = pdu.seq
  <2> DEFINE left == added.rcvLeftWinEdge
             n == pdu.seq
  <2>1. Seqs(added.reassemblyPDUQ) = {n}
    BY <1>1, <1>6 DEF Seqs
  <2>2. EdgeBefore(n, added.reassemblyPDUQ, left) = left
    <3>1. {m \in {n} : m < n} = {}
      BY <1>1
    <3> QED BY <2>1, <3>1 DEF EdgeBefore
  <2>3. left + 1 + MaxAllowGap >= n
    BY <1>1, <1>5, <1>6, EFCPAssumption
  <2>4. Reached(added.reassemblyPDUQ, left) = {n}
    <3> HIDE DEF n, left
    <3> QED BY <2>1, <2>2, <2>3 DEF Reached
  <2>5. Max({n}) = n
    <3>1. Max({n}) \in {n}
      BY <1>1, MaxBounded
    <3> QED BY <3>1
  <2>6. UpdateRcvLWE(added) = [added EXCEPT !.rcvLeftWinEdge = n]
    BY <2>4, <2>5 DEF UpdateRcvLWE
  <2> QED BY <1>6, <2>6 DEF Sound, EFCPI
<1>8. Sound(moved) /\ moved.reassemblyPDUQ = {}
  <2>1. Sound(moved)
    BY <1>6, SvUpdateSound, DelimitFromRMTSound
  <2>2. moved.reassemblyPDUQ =
            {f \in added.reassemblyPDUQ : ~(f.seq <= UpdateRcvLWE(added).rcvLeftWinEdge)}
    BY <1>6, NewWindow
  <2> HIDE DEF new, moved
  <2>3. moved.reassemblyPDUQ = {}
    BY <1>1, <1>6, <1>7, <2>2
  <2> QED BY <2>1, <2>3
<1>9. Accept(added, pdu.seq) = [moved EXCEPT !.rcvrTimer = TRUE]
  BY DEF Accept, DtcpPresent
<1> HIDE DEF moved
<1>10. Accept(added, pdu.seq).reassemblyPDUQ = {}
  BY <1>8, <1>9 DEF Sound, EFCPI
<1> QED BY <1>3, <1>10 DEF WithinCredit

\* A PDU that is kept is above the left edge, and beyond the right one only if the
\* queue was empty.
LEMMA RcvNextWindow ==
    ASSUME NEW s, Sound(s), WithinCredit(s), NEW pdu \in DataPDU, WinBased,
           ~(pdu.seq > s.rcvRightWinEdge), ~(pdu.seq <= s.rcvLeftWinEdge)
    PROVE  WithinCredit(RcvNext(s, pdu))
<1> DEFINE rcvd == SetMaxSeqNumRcvd(s, pdu.seq)
           next == IF pdu.seq > s.maxSeqNumRcvd + 1 THEN s.rcvLeftWinEdge ELSE rcvd.maxSeqNumRcvd
           new == [seq |-> pdu.seq, sdu |-> pdu.sdu]
           added == AddPDUToReassemblyQ(rcvd, pdu)
<1>1. pdu.seq \in Nat /\ new.seq = pdu.seq
  BY DEF DataPDU
<1>2. RcvNext(s, pdu) = Accept(added, next)
  BY DEF RcvNext
<1>3. Sound(rcvd) /\ SameWindow(s, rcvd) /\ rcvd.maxSeqNumRcvd \in Nat
  <2>1. Sound(rcvd)
    BY <1>1, SetMaxSeqNumRcvdSound
  <2>2. SameWindow(s, rcvd)
    BY DEF Sound, EFCPI, SameWindow, SetMaxSeqNumRcvd
  <2> HIDE DEF rcvd
  <2> QED BY <2>1, <2>2 DEF Sound, EFCPI
<1>4. next \in Nat
  BY <1>3 DEF Sound, EFCPI
<1> HIDE DEF rcvd, next
<1>5. Sound(added)
  BY <1>3, AddPDUToReassemblyQSound
<1>6. /\ added.rcvLeftWinEdge = s.rcvLeftWinEdge
      /\ \/ added.reassemblyPDUQ = s.reassemblyPDUQ
         \/ /\ added.reassemblyPDUQ = s.reassemblyPDUQ \cup {new}
            /\ pdu.seq \notin Seqs(s.reassemblyPDUQ)
  <2> HIDE DEF new
  <2> QED BY <1>3 DEF Sound, EFCPI, SameWindow, AddPDUToReassemblyQ, new
<1> HIDE DEF added
<1>7. Kept(added)
  <2> DEFINE q == s.reassemblyPDUQ
             left == s.rcvLeftWinEdge
  <2>1. /\ left \in Nat /\ s.rcvRightWinEdge \in Nat /\ RcvCredit \in Nat
        /\ \A f \in q : f.seq \in Nat
    BY EFCPAssumption DEF Sound, EFCPI, Fragment
  <2>2. \A n : Beyond(added, n) <=> Beyond(s, n)
    BY <1>6 DEF Beyond
  <2>3. Kept(s)
    BY <2>1 DEF WithinCredit, Kept
  <2>4. CASE added.reassemblyPDUQ = q
    BY <1>6, <2>2, <2>3, <2>4 DEF Kept
  <2>5. CASE added.reassemblyPDUQ = q \cup {new} /\ pdu.seq \notin Seqs(q)
    <3>1. \A f \in q : f.seq # new.seq
      BY <1>1, <2>5 DEF Seqs
    <3>2. new.seq > left
      BY <1>1, <2>1
    <3>3. q # {} => ~Beyond(s, new.seq)
      BY <1>1, <2>1 DEF Beyond, WithinCredit
    <3> HIDE DEF new
    <3>4. \A f \in added.reassemblyPDUQ : f.seq > added.rcvLeftWinEdge
      BY <1>6, <2>3, <2>5, <3>2 DEF Kept
    <3>5. ASSUME NEW f \in added.reassemblyPDUQ, NEW g \in added.reassemblyPDUQ
          PROVE  /\ f.seq = g.seq => f = g
                 /\ Beyond(added, f.seq) /\ Beyond(added, g.seq) => f = g
      <4>1. CASE f \in q /\ g \in q
        BY <2>2, <2>3, <4>1 DEF Kept
      <4>2. CASE f = new /\ g \in q
        BY <2>2, <3>1, <3>3, <4>2
      <4>3. CASE f \in q /\ g = new
        BY <2>2, <3>1, <3>3, <4>3
      <4>4. CASE f = new /\ g = new
        BY <4>4
      <4> QED BY <2>5, <4>1, <4>2, <4>3, <4>4
    <3> QED BY <3>4, <3>5 DEF Kept
  <2> QED BY <1>6, <2>4, <2>5
<1> QED BY <1>2, <1>4, <1>5, <1>7, AcceptWindow

LEMMA HandleDataTransferPDUFromRMTWindow ==
    ASSUME NEW s, Sound(s), WithinCredit(s), NEW pdu \in DataPDU, WinBased
    PROVE  WithinCredit(HandleDataTransferPDUFromRMT(s, pdu))
<1>1. WithinCredit(SendAckFlowPDU([s EXCEPT !.rcvrTimer = TRUE]))
  <2> DEFINE t == [s EXCEPT !.rcvrTimer = TRUE]
  <2>1. Sound(t) /\ SameWindow(s, t)
    BY DEF Sound, EFCPI, SameWindow
  <2> HIDE DEF t
  <2>2. WithinCredit(SendAckFlowPDU(t))
    BY <2>1, SendCtrlWindow, WindowFrame
  <2> QED BY <2>2 DEF t
<1>2. WithinCredit(DropDuplicate(s, pdu))
  <2> DEFINE t == [s EXCEPT !.dropDup = @ \cup {pdu.sdu}, !.rcvrTimer = FALSE]
  <2>1. Sound(t) /\ SameWindow(s, t)
    BY DEF Sound, EFCPI, SameWindow, DataPDU
  <2>2. DropDuplicate(s, pdu) = SendAckFlowPDU(t)
    BY DEF DropDuplicate
  <2> HIDE DEF t
  <2> QED BY <2>1, <2>2, SendCtrlWindow, WindowFrame
<1> QED BY <1>1, <1>2, RcvDRFWindow, RcvNextWindow DEF HandleDataTransferPDUFromRMT, IsDuplicate

LEMMA HandleDTPATimerWindow ==
    ASSUME NEW s, Sound(s), WithinCredit(s), WinBased
    PROVE  WithinCredit(HandleDTPATimer(s))
<1> DEFINE t == DelimitFromRMT(SvUpdate(s, TRUE))
<1>1. Kept(s)
  <2>1. s.rcvLeftWinEdge \in Nat /\ \A f \in s.reassemblyPDUQ : f.seq \in Nat
    BY DEF Sound, EFCPI, Fragment
  <2> QED BY <2>1 DEF WithinCredit, Kept
<1>2. Sound(t) /\ WithinCredit(t)
  BY <1>1, SvUpdateSound, DelimitFromRMTSound, WindowMoves
<1>3. HandleDTPATimer(s) = [t EXCEPT !.senderTimer = TRUE]
  BY DEF HandleDTPATimer
<1> HIDE DEF t
<1>4. SameWindow(t, [t EXCEPT !.senderTimer = TRUE])
  BY <1>2 DEF Sound, EFCPI, SameWindow
<1> QED BY <1>2, <1>3, <1>4, WindowFrame

\* What sends, or hears from the peer, leaves the receiver's window alone.
LEMMA PostWindow ==
    ASSUME NEW s, Sound(s), NEW pdu
    PROVE  SameWindow(s, PostPDU(s, pdu)) /\ SameWindow(s, TookPDU(s))
<1> DEFINE entry == [pdu |-> pdu, expiryCount |-> 0, pos |-> s.pushed + 1]
           kept == [s EXCEPT !.rxQ = s.rxQ \cup {entry}, !.pushed = s.pushed + 1]
<1>1. PushBackToRxQ(s, pdu) = kept
  BY DEF PushBackToRxQ
<1>2. kept.outData = s.outData /\ SameWindow(s, [s EXCEPT !.outData = s.outData \cup {pdu}])
      /\ SameWindow(s, [kept EXCEPT !.outData = s.outData \cup {pdu}])
  BY DEF Sound, EFCPI, SameWindow
<1> HIDE DEF kept
<1>3. SameWindow(s, TookPDU(s))
  BY DEF Sound, EFCPI, SameWindow, TookPDU
<1> QED BY <1>1, <1>2, <1>3 DEF PostPDU

LEMMA SendEmptyDTPDUWindow ==
    ASSUME NEW s, Sound(s)
    PROVE  SameWindow(s, SendEmptyDTPDU(s))
<1> DEFINE posted == PostPDU(TookPDU(s), NextPDU(s))
<1>1. Sound(posted) /\ SameWindow(s, posted)
  BY TookPDUSound, NextPDUType, PostPDUSound, PostWindow DEF SameWindow
<1>2. SendEmptyDTPDU(s) = [posted EXCEPT !.empty = posted.empty \cup {s.sdus + 1}]
  BY DEF SendEmptyDTPDU
<1> HIDE DEF posted
<1> QED BY <1>1, <1>2 DEF Sound, EFCPI, SameWindow

LEMMA HandleMsgFromUpWindow ==
    ASSUME NEW s, Sound(s)
    PROVE  SameWindow(s, HandleMsgFromUp(s))
<1> DEFINE took == TookPDU(s)
           pdu == NextPDU(s)
           posted == PostPDU(took, pdu)
           waits == WinBased /\ (pdu.seq > took.sndRightWinEdge \/ took.closedWindow)
           queue == Append(took.closedWindowQ, pdu)
           full == took.blockingPort \/ Len(took.closedWindowQ) >= MaxClosedWinQueLen - 1
           closed == posted.closedWindow \/ (WinBased /\ IsClosedWinQClosed(took))
<1>1. Sound(took) /\ SameWindow(s, took)
  BY TookPDUSound, PostWindow
<1>2. Sound(posted) /\ SameWindow(s, posted)
  BY <1>1, NextPDUType, PostPDUSound, PostWindow DEF SameWindow
<1>3. TrySendGenPDU(took, pdu) =
        IF waits THEN [took EXCEPT !.closedWindow = TRUE, !.closedWindowQ = queue,
                                   !.blockingPort = full]
        ELSE [posted EXCEPT !.closedWindow = closed]
  BY Zenon DEF TrySendGenPDU
<1>4. HandleMsgFromUp(s) = [TrySendGenPDU(took, pdu) EXCEPT !.senderTimer = TRUE]
  BY DEF HandleMsgFromUp
<1> HIDE DEF took, pdu, posted, waits, queue, full, closed
<1> QED BY <1>1, <1>2, <1>3, <1>4 DEF Sound, EFCPI, SameWindow

LEMMA TrySendClosedWindowQWindow ==
    ASSUME NEW s, Sound(s)
    PROVE  SameWindow(s, TrySendClosedWindowQ(s))
<1> DEFINE q == s.closedWindowQ
           k == Postable(s)
           rest == SubSeq(q, k + 1, Len(q))
           out == s.outData \cup {q[i] : i \in 1..k}
           entries == IF RxPresent
                      THEN s.rxQ \cup {[pdu |-> q[i], expiryCount |-> 0, pos |-> s.pushed + i] :
                                       i \in 1..k}
                      ELSE s.rxQ
           pushed == IF RxPresent THEN s.pushed + k ELSE s.pushed
           closed == rest # <<>>
           blocked == s.blockingPort /\ Len(rest) >= MaxClosedWinQueLen
<1>1. TrySendClosedWindowQ(s) =
        [s EXCEPT !.outData = out, !.rxQ = entries, !.pushed = pushed,
                  !.closedWindowQ = rest, !.closedWindow = closed, !.blockingPort = blocked]
  BY Zenon DEF TrySendClosedWindowQ
<1> HIDE DEF q, k, rest, out, entries, pushed, closed, blocked
<1> QED BY <1>1 DEF Sound, EFCPI, SameWindow

LEMMA HandleControlPDUFromRMTWindow ==
    ASSUME NEW s, Sound(s), NEW pdu \in CtrlPDU
    PROVE  SameWindow(s, HandleControlPDUFromRMT(s, pdu))
<1> DEFINE c == CommonRcvControl(s, pdu)
           heard == IF IsLost(s, pdu) THEN LostControlPDU(s) ELSE s
           announced == SendControlAckPDU(s)
<1>1. pdu.ack \in Nat /\ pdu.rwe \in Nat
  BY DEF CtrlPDU
<1>2. Sound(heard) /\ SameWindow(s, heard)
  <2>1. Sound(announced) /\ SameWindow(s, announced)
    BY SendControlAckPDUSound, SendCtrlWindow
  <2> HIDE DEF announced
  <2>2. Sound(SendEmptyDTPDU(announced)) /\ SameWindow(s, SendEmptyDTPDU(announced))
    BY <2>1, SendEmptyDTPDUSound, SendEmptyDTPDUWindow DEF SameWindow
  <2> QED BY <2>2 DEF LostControlPDU, announced, SameWindow
<1>3. Sound(c) /\ SameWindow(s, c)
  <2>1. c = [heard EXCEPT !.lastControlSeqNumRcv = pdu.seq]
    BY DEF CommonRcvControl
  <2> HIDE DEF heard
  <2>2. SameWindow(heard, [heard EXCEPT !.lastControlSeqNumRcv = pdu.seq])
    BY <1>2 DEF Sound, EFCPI, SameWindow
  <2> QED BY <1>2, <2>1, <2>2, CommonRcvControlSound DEF SameWindow
<1> HIDE DEF c
<1>4. ASSUME NEW t, Sound(t), NEW m \in Nat, NEW n \in Nat
      PROVE  SameWindow(t, UpdateSndLWE(AckPDU(t, m), n)) /\ Sound(UpdateSndLWE(AckPDU(t, m), n))
  <2> DEFINE acked == AckPDU(t, m)
  <2>1. SameWindow(t, acked) /\ Sound(acked)
    BY <1>4, AckPDUSound DEF Sound, EFCPI, SameWindow, AckPDU
  <2> HIDE DEF acked
  <2>2. SameWindow(t, UpdateSndLWE(acked, n))
    BY <2>1 DEF Sound, EFCPI, SameWindow, UpdateSndLWE
  <2> QED BY <1>4, <2>1, <2>2, UpdateSndLWESound DEF acked
<1>5. Sound(SenderAck(c, pdu)) /\ SameWindow(s, SenderAck(c, pdu))
  <2>1. SameWindow(c, SenderAck(c, pdu))
    BY <1>1, <1>3, <1>4 DEF SenderAck
  <2> QED BY <1>3, <2>1, SenderAckSound DEF SameWindow
<1>6. SameWindow(s, RcvrControlAck(c, pdu))
  <2> DEFINE acked == IF pdu.ack > c.sndLeftWinEdge
                      THEN UpdateSndLWE(AckPDU(c, pdu.ack - 1), pdu.ack) ELSE c
             edge == [acked EXCEPT !.sndRightWinEdge = pdu.rwe]
  <2>1. Sound(acked) /\ SameWindow(s, acked)
    <3>1. c.sndLeftWinEdge \in Nat
      BY <1>3 DEF Sound, EFCPI
    <3>2. pdu.ack > c.sndLeftWinEdge => pdu.ack - 1 \in Nat
      BY <1>1, <3>1
    <3>3. CASE pdu.ack > c.sndLeftWinEdge
      <4>1. acked = UpdateSndLWE(AckPDU(c, pdu.ack - 1), pdu.ack)
        BY <3>3
      <4> HIDE DEF acked
      <4>2. Sound(acked) /\ SameWindow(c, acked)
        BY <1>1, <1>3, <1>4, <3>2, <3>3, <4>1
      <4> QED BY <1>3, <4>2 DEF SameWindow
    <3>4. CASE ~(pdu.ack > c.sndLeftWinEdge)
      <4>1. acked = c
        BY <3>4
      <4> HIDE DEF acked
      <4> QED BY <1>3, <4>1
    <3> QED BY <3>3, <3>4
  <2>2. RcvrControlAck(c, pdu) = SendAckFlowPDU(edge)
    BY DEF RcvrControlAck
  <2> HIDE DEF acked
  <2>3. Sound(edge) /\ SameWindow(s, edge)
    BY <1>1, <2>1 DEF Sound, EFCPI, SameWindow
  <2> HIDE DEF edge
  <2> QED BY <2>2, <2>3, SendCtrlWindow DEF SameWindow
<1>7. ASSUME NEW t, Sound(t), SameWindow(s, t)
      PROVE  SameWindow(s, RcvFlowControl(t, pdu))
  <2> DEFINE edge == [t EXCEPT !.sndRightWinEdge = pdu.rwe]
  <2>1. Sound(edge) /\ SameWindow(s, edge)
    BY <1>1, <1>7 DEF Sound, EFCPI, SameWindow
  <2>2. RcvFlowControl(t, pdu) = IF t.closedWindowQ = <<>> THEN edge ELSE TrySendClosedWindowQ(edge)
    BY DEF RcvFlowControl
  <2> HIDE DEF edge
  <2>3. SameWindow(s, TrySendClosedWindowQ(edge))
    BY <2>1, TrySendClosedWindowQWindow DEF SameWindow
  <2> QED BY <2>1, <2>2, <2>3
<1>8. SameWindow(s, s)
  BY DEF SameWindow
<1>9. SameWindow(s, RcvFlowControl(c, pdu)) /\ SameWindow(s, RcvFlowControl(SenderAck(c, pdu), pdu))
  BY <1>3, <1>5, <1>7
<1> DEFINE old == pdu.seq <= s.lastControlSeqNumRcv
           new == pdu.seq > s.lastControlSeqNumRcv
<1>10. /\ old \/ new
       /\ ~(old /\ new)
       /\ pdu.type \in {"ack", "fc", "ackflow", "controlack"}
  BY DEF Sound, EFCPI, CtrlPDU, CtrlType
<1>11. HandleControlPDUFromRMT(s, pdu) =
        CASE old -> s
          [] new /\ pdu.type = "controlack" -> RcvrControlAck(c, pdu)
          [] new /\ pdu.type = "ack" -> SenderAck(c, pdu)
          [] new /\ pdu.type = "fc" -> RcvFlowControl(c, pdu)
          [] new /\ pdu.type = "ackflow" -> RcvFlowControl(SenderAck(c, pdu), pdu)
  BY Zenon DEF HandleControlPDUFromRMT, c
<1> HIDE DEF old, new
<1> QED BY <1>5, <1>6, <1>8, <1>9, <1>10, <1>11

LEMMA RxTimerExpiryWindow ==
    ASSUME NEW s, Sound(s), NEW x \in s.rxQ
    PROVE  SameWindow(s, RxTimerExpiry(s, x))
BY DEF Sound, EFCPI, SameWindow, RxTimerExpiry

LEMMA CreditNext ==
    ASSUME WinBased
    PROVE  SoundInv /\ CreditInv /\ [Next]_vars => CreditInv'
<1> SUFFICES ASSUME SoundInv, CreditInv, [Next]_vars, idle' = 0, NEW d \in End
             PROVE  WithinCredit(efcpi'[d])
  BY DEF CreditInv
<1>1. /\ \A e \in End : Sound(efcpi[e])
      /\ \A e \in End : dataNet[e] \in SUBSET DataPDU
      /\ \A e \in End : ctrlNet[e] \in SUBSET CtrlPDU
      /\ efcpi \in [End -> EFCPI] /\ idle \in Nat
  BY DEF SoundInv, TypeOK, Sound
<1>2. idle = 0
  <2>1. \A e \in End : RcvrInactivityTimer(e) \/ SenderInactivityTimer(e) => idle' = idle + 1
    BY DEF RcvrInactivityTimer, SenderInactivityTimer
  <2>2. \A e \in End : \A p : Write(e) \/ RcvData(e, p) \/ RcvCtrl(e, p) \/ RxTimer(e, p)
                              \/ ATimer(e) \/ Lose(e) => idle' = idle
    BY DEF Write, RcvData, RcvCtrl, RxTimer, ATimer, Lose
  <2>3. idle' = idle \/ idle' = idle + 1
    BY <2>1, <2>2 DEF Next, vars
  <2> QED BY <1>1, <2>3
<1>3. \A e \in End : WithinCredit(efcpi[e])
  BY <1>2 DEF CreditInv
<1>4. ASSUME NEW e \in End, NEW s, Sound(s), NEW data, NEW ctrl, Handle(e, s, data, ctrl),
             WithinCredit(s)
      PROVE  WithinCredit(efcpi'[d])
  <2> DEFINE t == [s EXCEPT !.outData = {}, !.outCtrl = {}, !.toUser = {}]
  <2>1. SameWindow(s, t)
    BY <1>4 DEF Sound, EFCPI, SameWindow
  <2>2. efcpi' = [efcpi EXCEPT ![e] = t]
    BY <1>4 DEF Handle
  <2> HIDE DEF t
  <2>3. WithinCredit(t)
    BY <1>4, <2>1, WindowFrame
  <2> QED BY <1>1, <1>3, <2>2, <2>3
<1>5. ASSUME NEW e \in End, Write(e)
      PROVE  WithinCredit(efcpi'[d])
  <2> DEFINE s == HandleMsgFromUp(efcpi[e])
  <2>1. Sound(s) /\ WithinCredit(s)
    BY <1>1, <1>3, HandleMsgFromUpSound, HandleMsgFromUpWindow, WindowFrame
  <2>2. Handle(e, s, dataNet[e], ctrlNet[e])
    BY <1>5 DEF Write
  <2> HIDE DEF s
  <2> QED BY <1>4, <2>1, <2>2
<1>6. ASSUME NEW e \in End, NEW p \in dataNet[e], RcvData(e, p)
      PROVE  WithinCredit(efcpi'[d])
  <2> DEFINE s == HandleDataTransferPDUFromRMT(efcpi[e], p)
  <2>1. Sound(s) /\ WithinCredit(s)
    BY <1>1, <1>3, HandleDataTransferPDUFromRMTSound, HandleDataTransferPDUFromRMTWindow
  <2>2. Handle(e, s, dataNet[e] \ {p}, ctrlNet[e])
    BY <1>6 DEF RcvData
  <2> HIDE DEF s
  <2> QED BY <1>4, <2>1, <2>2
<1>7. ASSUME NEW e \in End, NEW p \in ctrlNet[e], RcvCtrl(e, p)
      PROVE  WithinCredit(efcpi'[d])
  <2> DEFINE s == HandleControlPDUFromRMT(efcpi[e], p)
  <2>1. Sound(s) /\ WithinCredit(s)
    BY <1>1, <1>3, HandleControlPDUFromRMTSound, HandleControlPDUFromRMTWindow, WindowFrame
  <2>2. Handle(e, s, dataNet[e], ctrlNet[e] \ {p})
    BY <1>7 DEF RcvCtrl
  <2> HIDE DEF s
  <2> QED BY <1>4, <2>1, <2>2
<1>8. ASSUME NEW e \in End, NEW x \in efcpi[e].rxQ, RxTimer(e, x)
      PROVE  WithinCredit(efcpi'[d])
  <2> DEFINE s == RxTimerExpiry(efcpi[e], x)
  <2>1. Sound(s) /\ WithinCredit(s)
    BY <1>1, <1>3, RxTimerExpirySound, RxTimerExpiryWindow, WindowFrame
  <2>2. Handle(e, s, dataNet[e], ctrlNet[e])
    BY <1>8 DEF RxTimer
  <2> HIDE DEF s
  <2> QED BY <1>4, <2>1, <2>2
<1>9. ASSUME NEW e \in End, ATimer(e)
      PROVE  WithinCredit(efcpi'[d])
  <2> DEFINE s == HandleDTPATimer(efcpi[e])
  <2>1. Sound(s) /\ WithinCredit(s)
    BY <1>1, <1>3, HandleDTPATimerSound, HandleDTPATimerWindow
  <2>2. Handle(e, s, dataNet[e], ctrlNet[e])
    BY <1>9 DEF ATimer
  <2> HIDE DEF s
  <2> QED BY <1>4, <2>1, <2>2
<1>10. ASSUME NEW e \in End, RcvrInactivityTimer(e) \/ SenderInactivityTimer(e)
       PROVE  FALSE
  BY <1>1, <1>10 DEF RcvrInactivityTimer, SenderInactivityTimer
<1>11. CASE efcpi' = efcpi
  BY <1>3, <1>11
<1> QED BY <1>5, <1>6, <1>7, <1>8, <1>9, <1>10, <1>11 DEF Next, Lose, vars

\* Until an inactivity timer expires, the receiver never holds more PDUs than it gave
\* credit for, whatever the path loses or reorders and however many the peer sends: for
\* every credit, allowed gap and window of the sender, with or without retransmission.
THEOREM NeverMoreThanCredit ==
    ASSUME WinBased
    PROVE  Spec => [](idle = 0 => ReassemblyBound)
<1>1. SoundInv /\ CreditInv => (idle = 0 => ReassemblyBound)
  <2> SUFFICES ASSUME SoundInv, CreditInv, idle = 0, NEW e \in End
               PROVE  Cardinality(efcpi[e].reassemblyPDUQ) <= RcvCredit
    BY DEF ReassemblyBound
  <2>1. Sound(efcpi[e]) /\ WithinCredit(efcpi[e])
    BY DEF SoundInv, TypeOK, Sound, CreditInv
  <2> QED BY <2>1, CreditCounts
<1>2. Init => CreditInv
  BY DEF Init, CreditInv, InitEFCPI, WithinCredit
<1> QED BY <1>1, <1>2, CreditNext, SoundInit, SoundNext, PTL DEF Spec
=============================================================================
