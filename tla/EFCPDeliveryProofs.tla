-------------------------- MODULE EFCPDeliveryProofs -------------------------
(***************************************************************************)
(* What delimitFromRMT hands up, on a flow with DTCP whose first PDU is    *)
(* safe: no SDU twice, never more than MaxAllowGap missing in a row, and   *)
(* without an allowed gap exactly the SDUs up to the left edge.            *)
(*                                                                         *)
(* The argument: PDUs are numbered like the SDUs they carry; only the      *)
(* first has DRF, and nothing has been received before it has; from then   *)
(* on what waits on the reassembly queue is above the left edge, what has  *)
(* been handed up is not, and the edge never passes a gap that is too      *)
(* large.  A PDU is dropped only below the edge or when it is queued.      *)
(***************************************************************************)
EXTENDS EFCPProofs

-----------------------------------------------------------------------------
\* A PDU of a sender that has put n SDUs into PDUs; the one with DRF is sent once.
OwnPDU(p, n) ==
    /\ p.sdu = p.seq /\ p.seq \in 1..n
    /\ p.drf = TRUE => p.seq = 1 /\ p.copy = 0

\* The sender's half has put sent SDUs into PDUs, and had put was at the start of the
\* handler.  The PDU with DRF never waits for the window.
Sends(s, was, sent) ==
    /\ s.sdus = sent /\ s.nextSeqNumToSend = sent + 1
    /\ was <= sent
    /\ s.setDRFFlag = TRUE => sent = 0
    /\ s.closedWindow = TRUE => s.closedWindowQ # <<>>
    /\ \A i \in 1..Len(s.closedWindowQ) :
          OwnPDU(s.closedWindowQ[i], sent) /\ s.closedWindowQ[i].drf = FALSE
    /\ \A x \in s.rxQ : OwnPDU(x.pdu, sent)
    /\ \A p \in s.outData : OwnPDU(p, sent) /\ (p.drf = TRUE => was = 0)

\* The window is open at least for the first PDU.
Credits(s) ==
    /\ s.sndRightWinEdge >= 1 /\ s.rcvRightWinEdge >= 1
    /\ \A c \in s.outCtrl : c.type = "ack" \/ c.rwe >= 1

\* What the user has got by the end of the handler, and what delimiting would add.
Up(s, got) == got \cup {f.sdu : f \in s.toUser}
Due(s, got) ==
    Up(s, got) \cup {f.sdu : f \in {g \in s.reassemblyPDUQ : g.seq <= s.rcvLeftWinEdge}}

\* Never more than MaxAllowGap in a row are missing up to the edge, and the last is not.
NoGap(left, set) ==
    /\ left = 0 \/ left \in set
    /\ \A m \in 1..left : m + MaxAllowGap <= left =>
          \E k \in m..(m + MaxAllowGap) : k \in set

\* The reassembly queue holds SDUs of a peer that has sent n, the newest one if that is
\* not below the left edge.
Queued(s, n) ==
    /\ s.rcvLeftWinEdge <= s.maxSeqNumRcvd /\ s.maxSeqNumRcvd <= n
    /\ \A f \in s.reassemblyPDUQ : f.sdu = f.seq /\ f.seq \in 1..s.maxSeqNumRcvd
    /\ s.maxSeqNumRcvd > s.rcvLeftWinEdge => s.maxSeqNumRcvd \in Seqs(s.reassemblyPDUQ)

\* What is dropped has been handed up or is queued.
Drops(s, got) == MaxAllowGap = 0 => s.dropDup \subseteq Up(s, got) \cup Seqs(s.reassemblyPDUQ)

HandsUp(s, got) ==
    /\ \A f \in s.toUser : f.sdu = f.seq /\ f.sdu \notin got
    /\ Up(s, got) \subseteq 1..s.rcvLeftWinEdge
    /\ Drops(s, got)

Receives(s, n, got) ==
    /\ Queued(s, n) /\ HandsUp(s, got)
    /\ \A f \in s.reassemblyPDUQ : f.seq > s.rcvLeftWinEdge
    /\ NoGap(s.rcvLeftWinEdge, Up(s, got))

\* Between updateRcvLWE and delimitFromRMT.
Pending(s, n, got) ==
    /\ Queued(s, n) /\ HandsUp(s, got)
    /\ \A f \in s.reassemblyPDUQ : f.sdu \notin Up(s, got)
    /\ NoGap(s.rcvLeftWinEdge, Due(s, got))

Settled(s, was, sent, n, got) == Sends(s, was, sent) /\ Credits(s) /\ Receives(s, n, got)
Unsettled(s, was, sent, n, got) == Sends(s, was, sent) /\ Credits(s) /\ Pending(s, n, got)

\* Between two handlers.  A PDU with DRF is on the path only before any PDU has been
\* received.
Orderly(e) ==
    /\ efcpi[e].sdus <= MaxSdu
    /\ efcpi[e].outData = {} /\ efcpi[e].outCtrl = {} /\ efcpi[e].toUser = {}
    /\ Settled(efcpi[e], efcpi[e].sdus, efcpi[e].sdus, efcpi[Peer(e)].sdus, Received(e))
    /\ \A p \in dataNet[e] : OwnPDU(p, efcpi[Peer(e)].sdus)
    /\ (\E p \in dataNet[e] : p.drf = TRUE) => efcpi[e].maxSeqNumRcvd = 0
    /\ \A c \in ctrlNet[e] : c.type = "ack" \/ c.rwe >= 1
    /\ \A n \in 1..MaxSdu : delivered[e][n] <= 1

DeliveryInv == idle = 0 /\ \A e \in End : Orderly(e)

-----------------------------------------------------------------------------
\* Frames

SameSends(s, t) ==
    /\ t.sdus = s.sdus
    /\ t.nextSeqNumToSend = s.nextSeqNumToSend
    /\ t.setDRFFlag = s.setDRFFlag
    /\ t.closedWindow = s.closedWindow
    /\ t.closedWindowQ = s.closedWindowQ
    /\ t.rxQ = s.rxQ
    /\ t.outData = s.outData

SameCredits(s, t) ==
    /\ t.sndRightWinEdge = s.sndRightWinEdge
    /\ t.rcvRightWinEdge = s.rcvRightWinEdge
    /\ t.outCtrl = s.outCtrl

SameReceives(s, t) ==
    /\ t.rcvLeftWinEdge = s.rcvLeftWinEdge
    /\ t.maxSeqNumRcvd = s.maxSeqNumRcvd
    /\ t.reassemblyPDUQ = s.reassemblyPDUQ
    /\ t.toUser = s.toUser
    /\ t.dropDup = s.dropDup

\* t differs from s in control PDUs with credit, or in what no part speaks about.
Quiet(s, t) == SameSends(s, t) /\ (Credits(s) => Credits(t)) /\ SameReceives(s, t)

LEMMA SendsFrame ==
    ASSUME NEW s, NEW t, SameSends(s, t), NEW was, NEW sent, Sends(s, was, sent)
    PROVE  Sends(t, was, sent)
BY DEF SameSends, Sends

LEMMA CreditsFrame ==
    ASSUME NEW s, NEW t, SameCredits(s, t), Credits(s)
    PROVE  Credits(t)
BY DEF SameCredits, Credits

LEMMA ReceivesFrame ==
    ASSUME NEW s, NEW t, SameReceives(s, t), NEW n, NEW got
    PROVE  (Receives(s, n, got) => Receives(t, n, got)) /\ (Pending(s, n, got) => Pending(t, n, got))
<1>1. Up(t, got) = Up(s, got) /\ Due(t, got) = Due(s, got)
  BY DEF SameReceives, Up, Due
<1>2. (Queued(s, n) => Queued(t, n)) /\ (HandsUp(s, got) => HandsUp(t, got))
  BY <1>1 DEF SameReceives, Queued, HandsUp, Drops
<1> QED BY <1>1, <1>2 DEF SameReceives, Receives, Pending

LEMMA QuietFrame ==
    ASSUME NEW s, NEW t, Quiet(s, t), NEW was, NEW sent, NEW n, NEW got
    PROVE  /\ Settled(s, was, sent, n, got) => Settled(t, was, sent, n, got)
           /\ Unsettled(s, was, sent, n, got) => Unsettled(t, was, sent, n, got)
BY SendsFrame, ReceivesFrame DEF Quiet, Settled, Unsettled

LEMMA SendCtrlQuiet ==
    ASSUME NEW s, Sound(s), NEW type, NEW ack, NEW rwe, Credits(s) => type = "ack" \/ rwe >= 1
    PROVE  Quiet(s, SendCtrl(s, type, ack, rwe))
<1> DEFINE t == SendCtrl(s, type, ack, rwe)
           new == [type |-> type, seq |-> s.nextSenderControlSeqNum, ack |-> ack, rwe |-> rwe]
<1>1. SameSends(s, t) /\ SameReceives(s, t)
  BY DEF Sound, EFCPI, SendCtrl, SameSends, SameReceives
<1>2. /\ t.sndRightWinEdge = s.sndRightWinEdge /\ t.rcvRightWinEdge = s.rcvRightWinEdge
      /\ t.outCtrl = s.outCtrl \cup {new}
  BY DEF Sound, EFCPI, SendCtrl
<1> HIDE DEF t
<1>3. new.type = type /\ new.rwe = rwe
  OBVIOUS
<1> HIDE DEF new
<1>4. Credits(s) => Credits(t)
  BY <1>2, <1>3 DEF Credits
<1> QED BY <1>1, <1>4 DEF Quiet, t

LEMMA AnnouncementsQuiet ==
    ASSUME NEW s, Sound(s)
    PROVE  /\ Quiet(s, SendAckFlowPDU(s))
           /\ Quiet(s, SendFCOnlyPDU(s))
           /\ Quiet(s, SendControlAckPDU(s))
<1>1. Quiet(s, s)
  BY DEF Quiet, SameSends, SameReceives
<1>2. Credits(s) => s.rcvRightWinEdge >= 1
  BY DEF Credits
<1> QED BY <1>1, <1>2, SendCtrlQuiet DEF SendAckFlowPDU, SendFCOnlyPDU, SendControlAckPDU

-----------------------------------------------------------------------------
\* The receiver's window

\* What updateRcvLWE moves the left edge over leaves no larger gap than is allowed.
LEMMA ReachedLeavesNoGap ==
    ASSUME NEW q \in SUBSET Fragment, NEW edge \in Nat, NEW n \in Reached(q, edge),
           NEW m \in Nat, edge < m, m + MaxAllowGap <= n
    PROVE  \E k \in m..(m + MaxAllowGap) : k \in Seqs(q)
<1> DEFINE above == {x \in Seqs(q) : m <= x}
           below(x) == {j \in Seqs(q) : j < x}
<1>1. Seqs(q) \in SUBSET Nat /\ n \in Seqs(q) /\ MaxAllowGap \in Nat
  BY EFCPAssumption DEF Seqs, Fragment, Reached
<1>2. above \in SUBSET Nat /\ n \in above
  BY <1>1
<1>3. PICK x \in above : \A y \in above : x <= y
  BY <1>2, LeastNat
<1>4. x \in Seqs(q) /\ x \in Nat /\ m <= x /\ x <= n
  BY <1>1, <1>2, <1>3
<1>5. EdgeBefore(x, q, edge) + 1 + MaxAllowGap >= x
  BY <1>4 DEF Reached
<1>6. EdgeBefore(x, q, edge) \in Nat /\ EdgeBefore(x, q, edge) < m
  <2>1. CASE below(x) = {}
    <3>1. EdgeBefore(x, q, edge) = edge
      BY <2>1 DEF EdgeBefore
    <3> QED BY <3>1
  <2>2. CASE below(x) # {}
    <3>1. below(x) \in SUBSET Nat /\ \A j \in below(x) : j <= x
      BY <1>1, <1>4
    <3>2. Max(below(x)) \in below(x)
      BY <1>4, <2>2, <3>1, MaxBounded
    <3>3. EdgeBefore(x, q, edge) = Max(below(x))
      BY <2>2 DEF EdgeBefore
    <3> DEFINE b == Max(below(x))
    <3>4. b \in Seqs(q) /\ b < x /\ b \in Nat
      BY <1>1, <3>2
    <3> HIDE DEF b
    <3>5. b < m
      BY <1>3, <1>4, <3>4
    <3> QED BY <3>3, <3>4, <3>5 DEF b
  <2> QED BY <2>1, <2>2
<1>7. x \in m..(m + MaxAllowGap)
  BY <1>1, <1>4, <1>5, <1>6
<1> QED BY <1>4, <1>7

LEMMA UpdateRcvLWEPends ==
    ASSUME NEW s, Sound(s), NEW was, NEW sent, NEW n, NEW got, Settled(s, was, sent, n, got)
    PROVE  Unsettled(UpdateRcvLWE(s), was, sent, n, got)
<1> DEFINE q == s.reassemblyPDUQ
           left == s.rcvLeftWinEdge
           reached == Reached(q, left)
           edge == IF reached = {} THEN left ELSE Max(reached)
           t == [s EXCEPT !.rcvLeftWinEdge = edge]
<1>1. q \in SUBSET Fragment /\ left \in Nat /\ s.maxSeqNumRcvd \in Nat /\ MaxAllowGap \in Nat
  BY EFCPAssumption DEF Sound, EFCPI
<1>2. reached \in SUBSET Nat
  BY <1>1 DEF Reached, Seqs, Fragment
<1>3. PICK b \in Nat : \A m \in reached : m <= b
  BY DEF Sound, Bounded, Reached, Seqs
<1>4. edge \in Nat /\ (edge = left \/ edge \in reached)
  BY <1>1, <1>2, <1>3, MaxBounded
<1>5. UpdateRcvLWE(s) = t
  BY DEF UpdateRcvLWE
<1>6. edge \in reached => edge \in Seqs(q)
  BY DEF Reached
<1> HIDE DEF edge
<1>7. ASSUME NEW m \in Nat, left < m, m + MaxAllowGap <= edge
      PROVE  \E k \in m..(m + MaxAllowGap) : k \in Seqs(q)
  <2>1. edge \in reached
    BY <1>1, <1>4, <1>7
  <2> QED BY <1>1, <1>7, <2>1, ReachedLeavesNoGap
<1> HIDE DEF reached
<1>8. /\ SameSends(s, t) /\ SameCredits(s, t)
      /\ t.rcvLeftWinEdge = edge /\ t.maxSeqNumRcvd = s.maxSeqNumRcvd
      /\ t.reassemblyPDUQ = q /\ t.toUser = s.toUser /\ t.dropDup = s.dropDup
  BY DEF Sound, EFCPI, SameSends, SameCredits
<1> HIDE DEF t, left
<1>9. /\ \A f \in q : f.sdu = f.seq /\ f.seq \in 1..s.maxSeqNumRcvd /\ f.seq > left
      /\ left <= s.maxSeqNumRcvd
      /\ Up(s, got) \subseteq 1..left /\ Up(t, got) = Up(s, got)
  BY <1>8 DEF Settled, Receives, Queued, HandsUp, Up, left, q
<1>10. left <= edge /\ edge <= s.maxSeqNumRcvd
  <2>1. edge \in Seqs(q) => \E f \in q : f.seq = edge
    BY DEF Seqs
  <2> HIDE DEF q
  <2> QED BY <1>1, <1>4, <1>6, <1>9, <2>1
<1>11. Queued(t, n)
  <2>1. s.maxSeqNumRcvd > edge => s.maxSeqNumRcvd > left
    BY <1>1, <1>4, <1>10
  <2> QED BY <1>8, <1>9, <1>10, <2>1 DEF Settled, Receives, Queued, left, q
<1>12. HandsUp(t, got)
  <2>1. Up(t, got) \subseteq 1..edge
    <3>1. \A k \in 1..left : k \in 1..edge
      BY <1>1, <1>4, <1>10
    <3> QED BY <1>9, <3>1
  <2>2. /\ \A f \in t.toUser : f.sdu = f.seq /\ f.sdu \notin got
        /\ Drops(t, got)
    BY <1>8, <1>9 DEF Settled, Receives, HandsUp, Drops
  <2> QED BY <1>8, <2>1, <2>2 DEF HandsUp
<1>13. \A f \in t.reassemblyPDUQ : f.sdu \notin Up(t, got)
  <2>1. \A f \in q : f.sdu \notin 1..left
    BY <1>1, <1>9
  <2> QED BY <1>8, <1>9, <2>1
<1>14. \A k \in Seqs(q) : k <= edge => k \in Due(t, got)
  <2> SUFFICES ASSUME NEW k \in Seqs(q), k <= edge
               PROVE  k \in Due(t, got)
    OBVIOUS
  <2>1. PICK f \in q : f.seq = k
    BY DEF Seqs
  <2>2. f.sdu = k /\ f \in t.reassemblyPDUQ /\ f.seq <= t.rcvLeftWinEdge
    BY <1>8, <1>9, <2>1
  <2> QED BY <2>2 DEF Due
<1>15. NoGap(edge, Due(t, got))
  <2>1. NoGap(left, Up(s, got)) /\ Up(s, got) \subseteq Due(t, got)
    BY <1>9 DEF Settled, Receives, left, Due
  <2>2. edge = 0 \/ edge \in Due(t, got)
    <3>1. CASE edge = left
      BY <2>1, <3>1 DEF NoGap
    <3>2. CASE edge \in Seqs(q)
      BY <1>4, <1>14, <3>2
    <3> QED BY <1>4, <1>6, <3>1, <3>2
  <2>3. ASSUME NEW m \in 1..edge, m + MaxAllowGap <= edge
        PROVE  \E k \in m..(m + MaxAllowGap) : k \in Due(t, got)
    <3>1. m \in Nat /\ m >= 1 /\ m <= edge
      BY <1>4
    <3>2. CASE m <= left /\ m + MaxAllowGap <= left
      <4>1. m \in 1..left
        BY <1>1, <3>1, <3>2
      <4> QED BY <2>1, <3>2, <4>1 DEF NoGap
    <3>3. CASE m <= left /\ ~(m + MaxAllowGap <= left)
      <4>1. left \in m..(m + MaxAllowGap) /\ left # 0
        BY <1>1, <3>1, <3>3
      <4> QED BY <2>1, <4>1 DEF NoGap
    <3>4. CASE left < m
      <4>1. PICK k \in m..(m + MaxAllowGap) : k \in Seqs(q)
        BY <1>7, <2>3, <3>1, <3>4
      <4>2. k <= edge
        BY <1>1, <1>4, <2>3, <3>1
      <4> QED BY <1>14, <4>1, <4>2
    <3> QED BY <1>1, <3>1, <3>2, <3>3, <3>4
  <2> QED BY <2>2, <2>3 DEF NoGap
<1>16. Pending(t, n, got)
  BY <1>8, <1>11, <1>12, <1>13, <1>15 DEF Pending
<1>17. Sends(t, was, sent) /\ Credits(t)
  BY <1>8, SendsFrame, CreditsFrame DEF Settled
<1> QED BY <1>5, <1>16, <1>17 DEF Unsettled

LEMMA DelimitFromRMTSettles ==
    ASSUME NEW s, Sound(s), NEW was, NEW sent, NEW n, NEW got, Unsettled(s, was, sent, n, got)
    PROVE  Settled(DelimitFromRMT(s), was, sent, n, got)
<1> DEFINE t == DelimitFromRMT(s)
           complete == {f \in s.reassemblyPDUQ : f.seq <= s.rcvLeftWinEdge}
<1>1. /\ SameSends(s, t) /\ SameCredits(s, t)
      /\ t.rcvLeftWinEdge = s.rcvLeftWinEdge /\ t.maxSeqNumRcvd = s.maxSeqNumRcvd
      /\ t.dropDup = s.dropDup
      /\ t.toUser = s.toUser \cup complete
      /\ t.reassemblyPDUQ = s.reassemblyPDUQ \ complete
  BY DEF Sound, EFCPI, DelimitFromRMT, SameSends, SameCredits
<1>2. s.rcvLeftWinEdge \in Nat /\ s.maxSeqNumRcvd \in Nat
  BY DEF Sound, EFCPI
<1> HIDE DEF t
<1>3. Queued(s, n) /\ HandsUp(s, got) /\ \A f \in s.reassemblyPDUQ : f.sdu \notin Up(s, got)
  BY DEF Unsettled, Pending
<1>4. Up(t, got) = Due(s, got)
  BY <1>1 DEF Up, Due
<1>5. \A f \in complete : f.sdu = f.seq /\ f.seq \in 1..s.rcvLeftWinEdge /\ f.sdu \notin got
  BY <1>2, <1>3 DEF Queued, Up
<1>6. Queued(t, n)
  <2>1. \A f \in s.reassemblyPDUQ : f.seq > s.rcvLeftWinEdge => f \notin complete
    BY <1>2, <1>3 DEF Queued
  <2>2. s.maxSeqNumRcvd > s.rcvLeftWinEdge => s.maxSeqNumRcvd \in Seqs(t.reassemblyPDUQ)
    BY <1>1, <1>3, <2>1 DEF Queued, Seqs
  <2> QED BY <1>1, <1>3, <2>2 DEF Queued
<1>7. HandsUp(t, got)
  <2>1. Due(s, got) \subseteq 1..s.rcvLeftWinEdge
    BY <1>3, <1>5 DEF Due, HandsUp
  <2>2. \A f \in t.toUser : f.sdu = f.seq /\ f.sdu \notin got
    BY <1>1, <1>3, <1>5 DEF HandsUp
  <2>3. Seqs(s.reassemblyPDUQ) \subseteq Due(s, got) \cup Seqs(t.reassemblyPDUQ)
    <3> SUFFICES ASSUME NEW f \in s.reassemblyPDUQ
                 PROVE  f.seq \in Due(s, got) \cup Seqs(t.reassemblyPDUQ)
      BY DEF Seqs
    <3>1. CASE f \in complete
      BY <1>5, <3>1 DEF Due
    <3>2. CASE f \notin complete
      BY <1>1, <3>2 DEF Seqs
    <3> QED BY <3>1, <3>2
  <2>4. Drops(t, got)
    <3>1. Up(s, got) \subseteq Due(s, got)
      BY DEF Due
    <3> QED BY <1>1, <1>3, <1>4, <2>3, <3>1 DEF Drops, HandsUp
  <2> QED BY <1>1, <1>4, <2>1, <2>2, <2>4 DEF HandsUp
<1>8. \A f \in t.reassemblyPDUQ : f.seq > t.rcvLeftWinEdge
  BY <1>1, <1>2, <1>3 DEF Queued
<1>9. Receives(t, n, got)
  BY <1>1, <1>4, <1>6, <1>7, <1>8 DEF Receives, Unsettled, Pending
<1>10. Sends(t, was, sent) /\ Credits(t)
  BY <1>1, SendsFrame, CreditsFrame DEF Unsettled
<1> QED BY <1>9, <1>10 DEF Settled, t

LEMMA RcvrFCPends ==
    ASSUME NEW s, Sound(s), NEW was, NEW sent, NEW n, NEW got, Unsettled(s, was, sent, n, got)
    PROVE  Unsettled(RcvrFC(s), was, sent, n, got)
<1> DEFINE right == s.rcvLeftWinEdge + RcvCredit
           t == [s EXCEPT !.rcvRightWinEdge = right]
<1>1. right \in Nat /\ right >= 1
  <2>1. s.rcvLeftWinEdge \in Nat
    BY DEF Sound, EFCPI
  <2> QED BY <2>1, EFCPAssumption
<1>2. RcvrFC(s) = t
  BY DEF RcvrFC
<1> HIDE DEF right
<1>3. /\ SameSends(s, t) /\ SameReceives(s, t)
      /\ t.sndRightWinEdge = s.sndRightWinEdge /\ t.rcvRightWinEdge = right
      /\ t.outCtrl = s.outCtrl
  BY DEF Sound, EFCPI, SameSends, SameReceives
<1> HIDE DEF t
<1>4. Credits(s) => Credits(t)
  BY <1>1, <1>3 DEF Credits
<1> QED BY <1>2, <1>3, <1>4, QuietFrame DEF Quiet

LEMMA SvUpdatePends ==
    ASSUME NEW s, Sound(s), NEW was, NEW sent, NEW n, NEW got, NEW onATimer \in BOOLEAN,
           Unsettled(UpdateRcvLWE(s), was, sent, n, got)
    PROVE  Unsettled(SvUpdate(s, onATimer), was, sent, n, got)
<1> DEFINE left == UpdateRcvLWE(s)
           right == IF WinBased THEN RcvrFC(left) ELSE left
<1>1. Sound(left) /\ Sound(right)
  BY UpdateRcvLWESound, RcvrFCSound
<1>2. Unsettled(right, was, sent, n, got)
  BY <1>1, RcvrFCPends
<1>3. SvUpdate(s, onATimer) = IF RxPresent THEN RcvrAck(right, onATimer) ELSE SendFCOnlyPDU(right)
  BY DEF SvUpdate
<1> HIDE DEF left, right
<1>4. Unsettled(SendFCOnlyPDU(right), was, sent, n, got)
  BY <1>1, <1>2, AnnouncementsQuiet, QuietFrame
<1>5. ASSUME NEW t, Sound(t), NEW b
      PROVE  Quiet(t, [t EXCEPT !.aTimer = b])
  BY <1>5 DEF Sound, EFCPI, Quiet, SameSends, Credits, SameReceives
<1>6. Unsettled([right EXCEPT !.aTimer = TRUE], was, sent, n, got)
  BY <1>1, <1>2, <1>5, QuietFrame
<1>7. Unsettled([SendAckFlowPDU(right) EXCEPT !.aTimer = FALSE], was, sent, n, got)
  <2>1. Unsettled(SendAckFlowPDU(right), was, sent, n, got)
    BY <1>1, <1>2, AnnouncementsQuiet, QuietFrame
  <2>2. Sound(SendAckFlowPDU(right))
    BY <1>1, SendAckFlowPDUSound
  <2> QED BY <1>5, <2>1, <2>2, QuietFrame
<1> QED BY <1>3, <1>4, <1>6, <1>7 DEF RcvrAck

LEMMA AcceptSettles ==
    ASSUME NEW s, Sound(s), NEW was, NEW sent, NEW n, NEW got, NEW edge, DtcpPresent,
           Unsettled(UpdateRcvLWE(s), was, sent, n, got)
    PROVE  Settled(Accept(s, edge), was, sent, n, got)
<1> DEFINE updated == SvUpdate(s, FALSE)
           delimited == DelimitFromRMT(updated)
<1>1. Sound(updated) /\ Unsettled(updated, was, sent, n, got)
  BY SvUpdateSound, SvUpdatePends
<1> HIDE DEF updated
<1>2. Sound(delimited) /\ Settled(delimited, was, sent, n, got)
  BY <1>1, DelimitFromRMTSound, DelimitFromRMTSettles
<1>3. Accept(s, edge) = [delimited EXCEPT !.rcvrTimer = TRUE]
  BY DEF Accept, updated
<1> HIDE DEF delimited
<1>4. Quiet(delimited, [delimited EXCEPT !.rcvrTimer = TRUE])
  BY <1>2 DEF Sound, EFCPI, Quiet, SameSends, Credits, SameReceives
<1> QED BY <1>2, <1>3, <1>4, QuietFrame

\* The first PDU of the run: nothing has been received before it.
LEMMA RcvDRFSettles ==
    ASSUME NEW s, Sound(s), NEW was, NEW sent, NEW n \in Nat, NEW got, DtcpPresent,
           Settled(s, was, sent, n, got),
           NEW pdu \in DataPDU, OwnPDU(pdu, n), pdu.drf = TRUE, s.maxSeqNumRcvd = 0
    PROVE  Settled(RcvDRF(s, pdu), was, sent, n, got)
<1> DEFINE delimited == DelimitFromRMT(s)
           flushed == [delimited EXCEPT !.reassemblyPDUQ = {}]
           newRun == SetMaxSeqNumRcvd(flushed, pdu.seq)
           edge == [newRun EXCEPT !.rcvLeftWinEdge = newRun.maxSeqNumRcvd]
           new == [seq |-> pdu.seq, sdu |-> pdu.sdu]
           t == AddPDUToReassemblyQ(edge, pdu)
           u == UpdateRcvLWE(t)
<1>1. pdu.seq = 1 /\ pdu.sdu = 1 /\ 1 <= n
  BY DEF OwnPDU
<1>2. Receives(s, n, got) /\ s.rcvLeftWinEdge \in Nat /\ s.maxSeqNumRcvd \in Nat /\ MaxAllowGap \in Nat
  BY EFCPAssumption DEF Settled, Sound, EFCPI
<1>3. s.rcvLeftWinEdge = 0 /\ s.reassemblyPDUQ = {}
  BY <1>2 DEF Receives, Queued
<1>4. Up(s, got) = {} /\ got = {} /\ s.toUser = {}
  BY <1>2, <1>3 DEF Receives, HandsUp, Up
<1>5. MaxAllowGap = 0 => s.dropDup = {}
  BY <1>2, <1>3, <1>4 DEF Receives, HandsUp, Drops, Seqs
<1>6. Sound(delimited)
  BY DelimitFromRMTSound
<1>7. /\ SameSends(s, delimited) /\ SameCredits(s, delimited)
      /\ delimited.toUser = {} /\ delimited.dropDup = s.dropDup /\ delimited.maxSeqNumRcvd = 0
  BY <1>3, <1>4 DEF Sound, EFCPI, DelimitFromRMT, SameSends, SameCredits
<1> HIDE DEF delimited
<1>8. Sound(flushed)
  BY <1>6 DEF Sound, EFCPI, Bounded
<1>9. /\ SameSends(delimited, flushed) /\ SameCredits(delimited, flushed)
      /\ flushed.toUser = {} /\ flushed.dropDup = s.dropDup /\ flushed.maxSeqNumRcvd = 0
      /\ flushed.reassemblyPDUQ = {}
  BY <1>6, <1>7 DEF Sound, EFCPI, SameSends, SameCredits
<1> HIDE DEF flushed
<1>10. Sound(newRun)
  BY <1>1, <1>8, SetMaxSeqNumRcvdSound
<1>11. newRun = [flushed EXCEPT !.maxSeqNumRcvd = 1]
  BY <1>1, <1>9 DEF SetMaxSeqNumRcvd
<1>12. /\ SameSends(flushed, newRun) /\ SameCredits(flushed, newRun)
       /\ newRun.toUser = {} /\ newRun.dropDup = s.dropDup /\ newRun.maxSeqNumRcvd = 1
       /\ newRun.reassemblyPDUQ = {}
  BY <1>8, <1>9, <1>11, ZenonT(60) DEF Sound, EFCPI, SameSends, SameCredits
<1> HIDE DEF newRun
<1>13. Sound(edge)
  BY <1>10, <1>12 DEF Sound, EFCPI
<1>14. /\ SameSends(newRun, edge) /\ SameCredits(newRun, edge)
       /\ edge.toUser = {} /\ edge.dropDup = s.dropDup /\ edge.maxSeqNumRcvd = 1
       /\ edge.reassemblyPDUQ = {} /\ edge.rcvLeftWinEdge = 1
  BY <1>10, <1>12 DEF Sound, EFCPI, SameSends, SameCredits
<1> HIDE DEF edge
<1>15. Sound(t)
  BY <1>13, AddPDUToReassemblyQSound
<1>16. t = [edge EXCEPT !.reassemblyPDUQ = {new}]
  BY <1>14 DEF AddPDUToReassemblyQ, Seqs
<1>17. new.seq = 1 /\ new.sdu = 1
  BY <1>1
<1> HIDE DEF new
<1>18. /\ SameSends(edge, t) /\ SameCredits(edge, t)
       /\ t.toUser = {} /\ t.dropDup = s.dropDup /\ t.maxSeqNumRcvd = 1
       /\ t.reassemblyPDUQ = {new} /\ t.rcvLeftWinEdge = 1
  BY <1>13, <1>14, <1>16 DEF Sound, EFCPI, SameSends, SameCredits
<1> HIDE DEF t
<1>19. u = [t EXCEPT !.rcvLeftWinEdge = 1]
  <2> DEFINE reached == Reached({new}, 1)
  <2>1. Seqs({new}) = {1}
    BY <1>17 DEF Seqs
  <2>2. reached = {} \/ reached = {1}
    BY <2>1 DEF Reached
  <2>3. Max({1}) = 1
    BY MaxBounded
  <2>4. u = [t EXCEPT !.rcvLeftWinEdge = IF reached = {} THEN t.rcvLeftWinEdge ELSE Max(reached)]
    BY <1>18 DEF UpdateRcvLWE
  <2> HIDE DEF reached
  <2> QED BY <1>18, <2>2, <2>3, <2>4
<1> HIDE DEF u
<1>20. /\ SameSends(t, u) /\ SameCredits(t, u)
       /\ u.toUser = {} /\ u.dropDup = s.dropDup /\ u.maxSeqNumRcvd = 1
       /\ u.reassemblyPDUQ = {new} /\ u.rcvLeftWinEdge = 1
  BY <1>15, <1>18, <1>19 DEF Sound, EFCPI, SameSends, SameCredits
<1>21. Sends(u, was, sent) /\ Credits(u)
  <2>1. SameSends(s, u)
    BY <1>7, <1>9, <1>12, <1>14, <1>18, <1>20 DEF SameSends
  <2>2. SameCredits(s, u)
    BY <1>7, <1>9, <1>12, <1>14, <1>18, <1>20 DEF SameCredits
  <2> QED BY <2>1, <2>2, SendsFrame, CreditsFrame DEF Settled
<1>22. Up(u, got) = {} /\ Due(u, got) = {1}
  BY <1>4, <1>17, <1>20 DEF Up, Due
<1>23. Queued(u, n) /\ HandsUp(u, got)
  <2>1. Queued(u, n)
    BY <1>1, <1>17, <1>20 DEF Queued, Seqs
  <2>2. Drops(u, got)
    BY <1>5, <1>20 DEF Drops
  <2> QED BY <1>20, <1>22, <2>1, <2>2 DEF HandsUp
<1>24. NoGap(1, {1})
  BY <1>2 DEF NoGap
<1>25. Pending(u, n, got)
  BY <1>20, <1>22, <1>23, <1>24 DEF Pending
<1>26. Settled(Accept(t, pdu.seq), was, sent, n, got)
  BY <1>15, <1>21, <1>25, AcceptSettles DEF u, Unsettled
<1> QED BY <1>26 DEF RcvDRF, t, edge, newRun, flushed, delimited

\* A PDU that is not a duplicate, wherever it goes.
LEMMA RcvNextSettles ==
    ASSUME NEW s, Sound(s), NEW was, NEW sent, NEW n \in Nat, NEW got, DtcpPresent,
           Settled(s, was, sent, n, got),
           NEW pdu \in DataPDU, OwnPDU(pdu, n), ~IsDuplicate(s, pdu)
    PROVE  Settled(RcvNext(s, pdu), was, sent, n, got)
<1> DEFINE seq == pdu.seq
           q == s.reassemblyPDUQ
           max == IF s.maxSeqNumRcvd > seq THEN s.maxSeqNumRcvd ELSE seq
           rcvd == SetMaxSeqNumRcvd(s, seq)
           new == [seq |-> pdu.seq, sdu |-> pdu.sdu]
           t == AddPDUToReassemblyQ(rcvd, pdu)
           edge == IF pdu.seq > s.maxSeqNumRcvd + 1 THEN s.rcvLeftWinEdge
                   ELSE rcvd.maxSeqNumRcvd
<1>1. seq \in 1..n /\ seq \in Nat /\ new.seq = seq /\ new.sdu = seq
  BY DEF OwnPDU
<1>2. s.rcvLeftWinEdge \in Nat /\ s.maxSeqNumRcvd \in Nat
  BY DEF Sound, EFCPI
<1>3. Queued(s, n) /\ HandsUp(s, got) /\ NoGap(s.rcvLeftWinEdge, Up(s, got))
      /\ \A f \in q : f.seq > s.rcvLeftWinEdge
  BY DEF Settled, Receives
<1>4. seq > s.rcvLeftWinEdge /\ seq # s.maxSeqNumRcvd
      /\ ~(seq < s.maxSeqNumRcvd /\ seq \in Seqs(q))
  BY <1>1, <1>2 DEF IsDuplicate
<1>5. seq \notin Seqs(q)
  <2> SUFFICES ASSUME NEW f \in q, f.seq = seq
               PROVE  FALSE
    BY DEF Seqs
  <2>1. seq \in Seqs(q) /\ seq \in 1..s.maxSeqNumRcvd
    BY <1>3 DEF Seqs, Queued
  <2> QED BY <1>1, <1>2, <1>4, <2>1
<1>6. max \in Nat /\ max \in 1..n /\ s.maxSeqNumRcvd <= max /\ seq <= max
      /\ (max = seq \/ max = s.maxSeqNumRcvd)
  BY <1>1, <1>2, <1>3 DEF Queued
<1>7. rcvd = [s EXCEPT !.maxSeqNumRcvd = max]
  BY DEF SetMaxSeqNumRcvd
<1>8. Sound(rcvd) /\ Sound(t)
  BY <1>1, SetMaxSeqNumRcvdSound, AddPDUToReassemblyQSound
<1> HIDE DEF max
<1>9. /\ SameSends(s, rcvd) /\ SameCredits(s, rcvd)
      /\ rcvd.rcvLeftWinEdge = s.rcvLeftWinEdge /\ rcvd.maxSeqNumRcvd = max
      /\ rcvd.reassemblyPDUQ = q /\ rcvd.toUser = s.toUser /\ rcvd.dropDup = s.dropDup
  BY <1>7 DEF Sound, EFCPI, SameSends, SameCredits
<1> HIDE DEF rcvd
<1>10. t = [rcvd EXCEPT !.reassemblyPDUQ = q \cup {new}]
  BY <1>5, <1>9 DEF AddPDUToReassemblyQ
<1> HIDE DEF new, t
<1>11. /\ SameSends(rcvd, t) /\ SameCredits(rcvd, t)
       /\ t.rcvLeftWinEdge = s.rcvLeftWinEdge /\ t.maxSeqNumRcvd = max
       /\ t.reassemblyPDUQ = q \cup {new} /\ t.toUser = s.toUser /\ t.dropDup = s.dropDup
  BY <1>8, <1>9, <1>10 DEF Sound, EFCPI, SameSends, SameCredits
<1>12. Sends(t, was, sent) /\ Credits(t)
  BY <1>9, <1>11, SendsFrame, CreditsFrame DEF Settled
<1>13. Up(t, got) = Up(s, got) /\ Seqs(t.reassemblyPDUQ) = Seqs(q) \cup {seq}
  BY <1>1, <1>11 DEF Up, Seqs
<1>14. Queued(t, n)
  <2>1. t.rcvLeftWinEdge <= t.maxSeqNumRcvd /\ t.maxSeqNumRcvd <= n
    BY <1>2, <1>3, <1>6, <1>11 DEF Queued
  <2>2. ASSUME NEW f \in q
        PROVE  f.sdu = f.seq /\ f.seq \in 1..max
    <3>1. f.sdu = f.seq /\ f.seq \in 1..s.maxSeqNumRcvd
      BY <1>3 DEF Queued
    <3> QED BY <1>2, <1>6, <3>1
  <2>3. new.sdu = new.seq /\ new.seq \in 1..max
    BY <1>1, <1>6
  <2>4. max > s.rcvLeftWinEdge => max \in Seqs(t.reassemblyPDUQ)
    BY <1>3, <1>6, <1>13 DEF Queued
  <2> QED BY <1>11, <2>1, <2>2, <2>3, <2>4 DEF Queued
<1>15. HandsUp(t, got)
  BY <1>3, <1>11, <1>13 DEF HandsUp, Drops
<1>16. \A f \in t.reassemblyPDUQ : f.seq > t.rcvLeftWinEdge
  BY <1>1, <1>3, <1>4, <1>11
<1>17. Settled(t, was, sent, n, got)
  BY <1>3, <1>11, <1>12, <1>13, <1>14, <1>15, <1>16 DEF Settled, Receives
<1>18. Settled(Accept(t, edge), was, sent, n, got)
  BY <1>8, <1>17, UpdateRcvLWEPends, AcceptSettles
<1> QED BY <1>18 DEF RcvNext, t, rcvd

LEMMA DropDuplicateSettles ==
    ASSUME NEW s, Sound(s), NEW was, NEW sent, NEW n \in Nat, NEW got,
           Settled(s, was, sent, n, got),
           NEW pdu \in DataPDU, OwnPDU(pdu, n), IsDuplicate(s, pdu)
    PROVE  Settled(DropDuplicate(s, pdu), was, sent, n, got)
<1> DEFINE drops == s.dropDup \cup {pdu.sdu}
           t == [s EXCEPT !.dropDup = drops, !.rcvrTimer = FALSE]
<1>1. drops \in SUBSET Nat /\ pdu.sdu = pdu.seq /\ pdu.seq \in Nat /\ pdu.seq >= 1
  BY DEF Sound, EFCPI, OwnPDU, DataPDU
<1>2. MaxAllowGap = 0 => pdu.sdu \in Up(s, got) \cup Seqs(s.reassemblyPDUQ)
  <2> SUFFICES ASSUME MaxAllowGap = 0
               PROVE  pdu.seq \in Up(s, got) \cup Seqs(s.reassemblyPDUQ)
    BY <1>1
  <2>1. s.rcvLeftWinEdge \in Nat /\ s.maxSeqNumRcvd \in Nat
    BY DEF Sound, EFCPI
  <2>2. Queued(s, n) /\ NoGap(s.rcvLeftWinEdge, Up(s, got))
    BY DEF Settled, Receives
  <2>3. CASE pdu.seq <= s.rcvLeftWinEdge
    <3>1. pdu.seq \in 1..s.rcvLeftWinEdge /\ pdu.seq + MaxAllowGap <= s.rcvLeftWinEdge
      BY <1>1, <2>1, <2>3
    <3>2. PICK k \in pdu.seq..(pdu.seq + MaxAllowGap) : k \in Up(s, got)
      BY <2>2, <3>1 DEF NoGap
    <3>3. k = pdu.seq
      BY <1>1, <3>2
    <3> QED BY <3>2, <3>3
  <2>4. CASE pdu.seq > s.rcvLeftWinEdge /\ pdu.seq = s.maxSeqNumRcvd
    BY <2>2, <2>4 DEF Queued
  <2> QED BY <1>1, <2>1, <2>3, <2>4 DEF IsDuplicate
<1> HIDE DEF drops
<1>3. Sound(t)
  BY <1>1 DEF Sound, EFCPI
<1>4. /\ SameSends(s, t) /\ SameCredits(s, t)
      /\ t.rcvLeftWinEdge = s.rcvLeftWinEdge /\ t.maxSeqNumRcvd = s.maxSeqNumRcvd
      /\ t.reassemblyPDUQ = s.reassemblyPDUQ /\ t.toUser = s.toUser /\ t.dropDup = drops
  BY DEF Sound, EFCPI, SameSends, SameCredits
<1>5. DropDuplicate(s, pdu) = SendAckFlowPDU(t)
  BY DEF DropDuplicate, drops
<1> HIDE DEF t
<1>6. Up(t, got) = Up(s, got)
  BY <1>4 DEF Up
<1>7. Drops(t, got)
  BY <1>2, <1>4, <1>6 DEF Settled, Receives, HandsUp, Drops, drops
<1>8. Receives(t, n, got)
  BY <1>4, <1>6, <1>7 DEF Settled, Receives, Queued, HandsUp
<1>9. Settled(t, was, sent, n, got)
  BY <1>4, <1>8, SendsFrame, CreditsFrame DEF Settled
<1> QED BY <1>3, <1>5, <1>9, AnnouncementsQuiet, QuietFrame

LEMMA HandleDataTransferPDUFromRMTSettles ==
    ASSUME NEW s, Sound(s), NEW was, NEW sent, NEW n \in Nat, NEW got, DtcpPresent,
           Settled(s, was, sent, n, got),
           NEW pdu \in DataPDU, OwnPDU(pdu, n), pdu.drf = TRUE => s.maxSeqNumRcvd = 0
    PROVE  Settled(HandleDataTransferPDUFromRMT(s, pdu), was, sent, n, got)
<1> DEFINE t == [s EXCEPT !.rcvrTimer = TRUE]
<1>1. Sound(t) /\ Quiet(s, t)
  BY DEF Sound, EFCPI, Quiet, SameSends, Credits, SameReceives
<1>2. Settled(SendAckFlowPDU(t), was, sent, n, got)
  BY <1>1, AnnouncementsQuiet, QuietFrame
<1>3. pdu.drf \in BOOLEAN
  BY DEF DataPDU
<1> HIDE DEF t
<1>4. CASE WinBased /\ pdu.seq > s.rcvRightWinEdge
  BY <1>2, <1>4 DEF HandleDataTransferPDUFromRMT, t
<1>5. CASE ~(WinBased /\ pdu.seq > s.rcvRightWinEdge) /\ pdu.drf = TRUE
  <2>1. HandleDataTransferPDUFromRMT(s, pdu) = RcvDRF(s, pdu)
    BY <1>5 DEF HandleDataTransferPDUFromRMT
  <2> QED BY <1>5, <2>1, RcvDRFSettles
<1>6. CASE ~(WinBased /\ pdu.seq > s.rcvRightWinEdge) /\ pdu.drf = FALSE /\ IsDuplicate(s, pdu)
  <2>1. HandleDataTransferPDUFromRMT(s, pdu) = DropDuplicate(s, pdu)
    BY <1>6 DEF HandleDataTransferPDUFromRMT
  <2> QED BY <1>6, <2>1, DropDuplicateSettles
<1>7. CASE ~(WinBased /\ pdu.seq > s.rcvRightWinEdge) /\ pdu.drf = FALSE /\ ~IsDuplicate(s, pdu)
  <2>1. HandleDataTransferPDUFromRMT(s, pdu) = RcvNext(s, pdu)
    BY <1>7 DEF HandleDataTransferPDUFromRMT
  <2> QED BY <1>7, <2>1, RcvNextSettles
<1> QED BY <1>3, <1>4, <1>5, <1>6, <1>7

LEMMA HandleDTPATimerSettles ==
    ASSUME NEW s, Sound(s), NEW was, NEW sent, NEW n, NEW got, Settled(s, was, sent, n, got)
    PROVE  Settled(HandleDTPATimer(s), was, sent, n, got)
<1> DEFINE updated == SvUpdate(s, TRUE)
           t == DelimitFromRMT(updated)
<1>1. Sound(updated) /\ Unsettled(updated, was, sent, n, got)
  BY SvUpdateSound, UpdateRcvLWEPends, SvUpdatePends
<1> HIDE DEF updated
<1>2. Sound(t) /\ Settled(t, was, sent, n, got)
  BY <1>1, DelimitFromRMTSound, DelimitFromRMTSettles
<1>3. HandleDTPATimer(s) = [t EXCEPT !.senderTimer = TRUE]
  BY DEF HandleDTPATimer, updated
<1> HIDE DEF t
<1>4. Quiet(t, [t EXCEPT !.senderTimer = TRUE])
  BY <1>2 DEF Sound, EFCPI, Quiet, SameSends, Credits, SameReceives
<1> QED BY <1>2, <1>3, <1>4, QuietFrame

-----------------------------------------------------------------------------
\* The sender

LEMMA OwnPDUGrows ==
    ASSUME NEW m \in Nat, NEW n \in Nat, m <= n, NEW p, OwnPDU(p, m)
    PROVE  OwnPDU(p, n)
BY DEF OwnPDU

\* The next PDU; it has DRF only if no SDU was put into a PDU before.
LEMMA NextPDUOwn ==
    ASSUME NEW s, Sound(s), NEW was \in Nat, NEW sent, Sends(s, was, sent)
    PROVE  /\ OwnPDU(NextPDU(s), sent + 1)
           /\ NextPDU(s).seq = sent + 1
           /\ NextPDU(s).drf = TRUE => sent = 0 /\ was = 0
           /\ sent \in Nat
<1> DEFINE pdu == NextPDU(s)
<1>1. sent = s.sdus /\ s.sdus \in Nat /\ s.nextSeqNumToSend = sent + 1 /\ was <= sent
  BY DEF Sound, EFCPI, Sends
<1>2. pdu.seq = sent + 1 /\ pdu.sdu = sent + 1 /\ pdu.copy = 0 /\ pdu.drf = s.setDRFFlag
  BY <1>1 DEF NextPDU
<1> HIDE DEF pdu
<1>3. pdu.drf = TRUE => sent = 0
  BY <1>2 DEF Sends
<1> QED BY <1>1, <1>2, <1>3 DEF OwnPDU, pdu

LEMMA TookPDUSends ==
    ASSUME NEW s, Sound(s), NEW was \in Nat, NEW sent, Sends(s, was, sent), DtcpPresent
    PROVE  /\ Sends(TookPDU(s), was, sent + 1)
           /\ SameCredits(s, TookPDU(s)) /\ SameReceives(s, TookPDU(s))
           /\ TookPDU(s).closedWindowQ = s.closedWindowQ
           /\ TookPDU(s).closedWindow = s.closedWindow
<1> DEFINE t == TookPDU(s)
<1>1. sent = s.sdus /\ s.sdus \in Nat /\ s.nextSeqNumToSend = sent + 1 /\ was <= sent
  BY DEF Sound, EFCPI, Sends
<1>2. t = [s EXCEPT !.nextSeqNumToSend = sent + 2, !.sdus = sent + 1, !.setDRFFlag = FALSE]
  <2>1. (sent + 1) + 1 = sent + 2
    BY <1>1
  <2> QED BY <1>1, <2>1 DEF TookPDU
<1>3. /\ t.sdus = sent + 1 /\ t.nextSeqNumToSend = sent + 2 /\ t.setDRFFlag = FALSE
      /\ t.closedWindow = s.closedWindow /\ t.closedWindowQ = s.closedWindowQ
      /\ t.rxQ = s.rxQ /\ t.outData = s.outData
      /\ SameCredits(s, t) /\ SameReceives(s, t)
  BY <1>2 DEF Sound, EFCPI, SameCredits, SameReceives
<1> HIDE DEF t
<1>4. \A p : OwnPDU(p, sent) => OwnPDU(p, sent + 1)
  BY <1>1, OwnPDUGrows
<1>5. Sends(t, was, sent + 1)
  <2>1. was <= sent + 1 /\ t.nextSeqNumToSend = (sent + 1) + 1
    BY <1>1, <1>3
  <2>2. \A i \in 1..Len(t.closedWindowQ) :
          OwnPDU(t.closedWindowQ[i], sent + 1) /\ t.closedWindowQ[i].drf = FALSE
    BY <1>3, <1>4 DEF Sends
  <2>3. \A x \in t.rxQ : OwnPDU(x.pdu, sent + 1)
    BY <1>3, <1>4 DEF Sends
  <2>4. \A p \in t.outData : OwnPDU(p, sent + 1) /\ (p.drf = TRUE => was = 0)
    BY <1>3, <1>4 DEF Sends
  <2> QED BY <1>3, <2>1, <2>2, <2>3, <2>4 DEF Sends
<1> QED BY <1>3, <1>5 DEF t

LEMMA PostPDUSends ==
    ASSUME NEW s, Sound(s), NEW was, NEW sent, Sends(s, was, sent),
           NEW pdu \in DataPDU, OwnPDU(pdu, sent), pdu.drf = TRUE => was = 0
    PROVE  /\ Sends(PostPDU(s, pdu), was, sent)
           /\ SameCredits(s, PostPDU(s, pdu)) /\ SameReceives(s, PostPDU(s, pdu))
           /\ PostPDU(s, pdu).closedWindowQ = s.closedWindowQ
           /\ PostPDU(s, pdu).closedWindow = s.closedWindow
<1> DEFINE entry == [pdu |-> pdu, expiryCount |-> 0, pos |-> s.pushed + 1]
           rx == IF RxPresent THEN s.rxQ \cup {entry} ELSE s.rxQ
           pushed == IF RxPresent THEN s.pushed + 1 ELSE s.pushed
           out == s.outData \cup {pdu}
           t == [s EXCEPT !.rxQ = rx, !.pushed = pushed, !.outData = out]
<1>1. entry.pdu = pdu
  OBVIOUS
<1>2. PostPDU(s, pdu) = t
  <2>1. PushBackToRxQ(s, pdu) = [s EXCEPT !.rxQ = s.rxQ \cup {entry}, !.pushed = s.pushed + 1]
    BY DEF PushBackToRxQ
  <2>2. s.outData \in SUBSET DataPDU
    BY DEF Sound, EFCPI
  <2> HIDE DEF entry
  <2>3. CASE RxPresent
    BY <2>1, <2>3 DEF Sound, EFCPI, PostPDU
  <2>4. CASE ~RxPresent
    BY <2>4 DEF Sound, EFCPI, PostPDU
  <2> QED BY <2>3, <2>4
<1>3. /\ \A x \in rx : OwnPDU(x.pdu, sent)
      /\ \A p \in out : OwnPDU(p, sent) /\ (p.drf = TRUE => was = 0)
  BY <1>1 DEF Sends
<1> HIDE DEF rx, pushed, out
<1>4. /\ t.sdus = s.sdus /\ t.nextSeqNumToSend = s.nextSeqNumToSend
      /\ t.setDRFFlag = s.setDRFFlag
      /\ t.closedWindow = s.closedWindow /\ t.closedWindowQ = s.closedWindowQ
      /\ t.rxQ = rx /\ t.outData = out
      /\ SameCredits(s, t) /\ SameReceives(s, t)
  BY DEF Sound, EFCPI, SameCredits, SameReceives
<1> HIDE DEF t
<1>5. Sends(t, was, sent)
  BY <1>3, <1>4 DEF Sends
<1> QED BY <1>2, <1>4, <1>5

LEMMA SendEmptyDTPDUSettles ==
    ASSUME NEW s, Sound(s), NEW was \in Nat, NEW sent, NEW n, NEW got, DtcpPresent,
           Settled(s, was, sent, n, got)
    PROVE  /\ Settled(SendEmptyDTPDU(s), was, sent + 1, n, got)
           /\ SendEmptyDTPDU(s).toUser = s.toUser
<1> DEFINE took == TookPDU(s)
           t == PostPDU(took, NextPDU(s))
           empty == t.empty \cup {s.sdus + 1}
<1>1. Sends(s, was, sent) /\ Credits(s) /\ Receives(s, n, got)
  BY DEF Settled
<1>2. Sound(took) /\ NextPDU(s) \in DataPDU
  BY TookPDUSound, NextPDUType
<1>3. Sends(took, was, sent + 1) /\ SameCredits(s, took) /\ SameReceives(s, took)
  BY <1>1, TookPDUSends
<1>4. OwnPDU(NextPDU(s), sent + 1) /\ (NextPDU(s).drf = TRUE => was = 0)
  BY <1>1, NextPDUOwn
<1> HIDE DEF took
<1>5. Sound(t)
  BY <1>2, PostPDUSound
<1>6. Sends(t, was, sent + 1) /\ SameCredits(took, t) /\ SameReceives(took, t)
  BY <1>2, <1>3, <1>4, PostPDUSends
<1>7. SendEmptyDTPDU(s) = [t EXCEPT !.empty = empty]
  BY DEF SendEmptyDTPDU, took
<1> HIDE DEF t, empty
<1>8. Settled(t, was, sent + 1, n, got)
  BY <1>1, <1>3, <1>6, CreditsFrame, ReceivesFrame DEF Settled
<1>9. Quiet(t, [t EXCEPT !.empty = empty])
  BY <1>5 DEF Sound, EFCPI, Quiet, SameSends, Credits, SameReceives
<1>10. t.toUser = s.toUser
  BY <1>3, <1>6 DEF SameReceives
<1>11. [t EXCEPT !.empty = empty].toUser = s.toUser
  BY <1>9, <1>10 DEF Quiet, SameReceives
<1> QED BY <1>7, <1>8, <1>9, <1>11, QuietFrame

LEMMA HandleMsgFromUpSettles ==
    ASSUME NEW s, Sound(s), NEW was \in Nat, NEW sent, NEW n, NEW got, DtcpPresent,
           Settled(s, was, sent, n, got)
    PROVE  /\ Settled(HandleMsgFromUp(s), was, sent + 1, n, got)
           /\ HandleMsgFromUp(s).toUser = s.toUser
<1> DEFINE took == TookPDU(s)
           pdu == NextPDU(s)
           t == TrySendGenPDU(took, pdu)
           waits == WinBased /\ (pdu.seq > took.sndRightWinEdge \/ took.closedWindow)
           queue == Append(took.closedWindowQ, pdu)
           blocking == took.blockingPort \/ Len(took.closedWindowQ) >= MaxClosedWinQueLen - 1
           posted == PostPDU(took, pdu)
           closed == posted.closedWindow \/ (WinBased /\ IsClosedWinQClosed(took))
<1>1. Sends(s, was, sent) /\ Credits(s) /\ Receives(s, n, got)
  BY DEF Settled
<1>2. Sound(took) /\ pdu \in DataPDU
  BY TookPDUSound, NextPDUType
<1>3. /\ Sends(took, was, sent + 1) /\ SameCredits(s, took) /\ SameReceives(s, took)
      /\ took.closedWindowQ = s.closedWindowQ /\ took.closedWindow = s.closedWindow
  BY <1>1, TookPDUSends
<1>4. /\ OwnPDU(pdu, sent + 1) /\ pdu.seq = sent + 1
      /\ (pdu.drf = TRUE => sent = 0 /\ was = 0) /\ sent \in Nat
  BY <1>1, NextPDUOwn
<1>5. Sound(t)
  BY <1>2, TrySendGenPDUSound
<1>6. t = IF waits THEN [took EXCEPT !.closedWindow = TRUE, !.closedWindowQ = queue,
                                     !.blockingPort = blocking]
          ELSE [posted EXCEPT !.closedWindow = closed]
  BY Zenon DEF TrySendGenPDU
<1>7. /\ took.closedWindowQ \in Seq(DataPDU) /\ took.sndRightWinEdge \in Nat
      /\ took.closedWindow \in BOOLEAN /\ pdu.drf \in BOOLEAN /\ pdu.seq \in Nat
  BY <1>2 DEF Sound, EFCPI, DataPDU
\* The PDU with DRF finds an empty queue and an open window.
<1>8. waits => pdu.drf = FALSE
  <2> SUFFICES ASSUME waits, pdu.drf = TRUE
               PROVE  FALSE
    BY <1>7
  <2>1. sent = 0
    BY <1>4
  <2>2. took.closedWindowQ = <<>>
    <3>1. \A i \in 1..Len(took.closedWindowQ) : OwnPDU(took.closedWindowQ[i], 0)
      BY <1>1, <1>3, <2>1 DEF Sends
    <3>2. ~(\E i \in 1..Len(took.closedWindowQ) : TRUE)
      BY <3>1 DEF OwnPDU
    <3> HIDE DEF took
    <3>3. Len(took.closedWindowQ) \in Nat
      BY <1>7
    <3>4. Len(took.closedWindowQ) = 0
      <4>1. CASE Len(took.closedWindowQ) >= 1
        <5>1. 1 \in 1..Len(took.closedWindowQ)
          BY <3>3, <4>1
        <5> QED BY <3>2, <5>1
      <4> QED BY <3>3, <4>1
    <3> QED BY <1>7, <3>4
  <2>3. took.closedWindow # TRUE
    BY <1>3, <2>2 DEF Sends
  <2>4. took.sndRightWinEdge >= 1
    BY <1>1, <1>3 DEF SameCredits, Credits
  <2>5. ~(pdu.seq > took.sndRightWinEdge)
    BY <1>4, <1>7, <2>1, <2>4
  <2> HIDE DEF pdu, took
  <2> QED BY <2>3, <2>5, <1>7, Zenon
<1>9. /\ Sound(posted) /\ Sends(posted, was, sent + 1)
      /\ SameCredits(took, posted) /\ SameReceives(took, posted)
      /\ posted.closedWindow = took.closedWindow /\ posted.closedWindowQ = took.closedWindowQ
  BY <1>2, <1>3, <1>4, PostPDUSound, PostPDUSends
<1>10. closed = TRUE => posted.closedWindowQ # <<>>
  <2>1. CASE posted.closedWindow = TRUE
    BY <1>9, <2>1 DEF Sends
  <2>2. CASE IsClosedWinQClosed(took)
    <3>1. Len(took.closedWindowQ) >= 1
      BY <1>7, <2>2, EFCPAssumption DEF IsClosedWinQClosed
    <3> QED BY <1>7, <1>9, <3>1
  <2>3. posted.closedWindow \in BOOLEAN
    BY <1>7, <1>9
  <2> QED BY <2>1, <2>2, <2>3, Zenon
<1>11. /\ queue # <<>>
       /\ \A i \in 1..Len(queue) : \/ i \in 1..Len(took.closedWindowQ)
                                      /\ queue[i] = took.closedWindowQ[i]
                                   \/ queue[i] = pdu
  <2> DEFINE q == took.closedWindowQ
  <2>1. q \in Seq(DataPDU) /\ Len(q) \in Nat
    BY <1>7
  <2> HIDE DEF q
  <2>2. /\ Len(Append(q, pdu)) = Len(q) + 1
        /\ \A i \in 1..(Len(q) + 1) : Append(q, pdu)[i] = IF i <= Len(q) THEN q[i] ELSE pdu
    BY <1>2, <2>1
  <2>3. Append(q, pdu) # <<>>
    <3>1. Len(<<>>) = 0
      OBVIOUS
    <3> QED BY <2>1, <2>2, <3>1
  <2>4. ASSUME NEW i \in 1..Len(Append(q, pdu))
        PROVE  \/ i \in 1..Len(q) /\ Append(q, pdu)[i] = q[i]
               \/ Append(q, pdu)[i] = pdu
    BY <2>1, <2>2
  <2> QED BY <2>3, <2>4 DEF q
<1> HIDE DEF took, pdu, t, queue, blocking, posted, closed
<1>12. ASSUME waits
       PROVE  Settled(t, was, sent + 1, n, got) /\ t.toUser = s.toUser
  <2> DEFINE u == [took EXCEPT !.closedWindow = TRUE, !.closedWindowQ = queue,
                               !.blockingPort = blocking]
  <2>1. t = u
    BY <1>6, <1>12
  <2>2. /\ u.sdus = took.sdus /\ u.nextSeqNumToSend = took.nextSeqNumToSend
        /\ u.setDRFFlag = took.setDRFFlag /\ u.closedWindow = TRUE /\ u.closedWindowQ = queue
        /\ u.rxQ = took.rxQ /\ u.outData = took.outData
        /\ SameCredits(took, u) /\ SameReceives(took, u)
    BY <1>2 DEF Sound, EFCPI, SameCredits, SameReceives
  <2> HIDE DEF u
  <2>3. \A i \in 1..Len(queue) : OwnPDU(queue[i], sent + 1) /\ queue[i].drf = FALSE
    BY <1>3, <1>4, <1>8, <1>11, <1>12 DEF Sends
  <2>4. Sends(u, was, sent + 1)
    BY <1>3, <1>11, <2>2, <2>3 DEF Sends
  <2>5. Credits(u) /\ Receives(u, n, got)
    BY <1>1, <1>3, <2>2, CreditsFrame, ReceivesFrame
  <2>6. u.toUser = s.toUser
    BY <1>3, <2>2 DEF SameReceives
  <2> QED BY <2>1, <2>4, <2>5, <2>6 DEF Settled
<1>13. ASSUME ~waits
       PROVE  Settled(t, was, sent + 1, n, got) /\ t.toUser = s.toUser
  <2> DEFINE u == [posted EXCEPT !.closedWindow = closed]
  <2>1. t = u
    BY <1>6, <1>13
  <2>2. /\ u.sdus = posted.sdus /\ u.nextSeqNumToSend = posted.nextSeqNumToSend
        /\ u.setDRFFlag = posted.setDRFFlag /\ u.closedWindow = closed
        /\ u.closedWindowQ = posted.closedWindowQ
        /\ u.rxQ = posted.rxQ /\ u.outData = posted.outData
        /\ SameCredits(posted, u) /\ SameReceives(posted, u)
    BY <1>9 DEF Sound, EFCPI, SameCredits, SameReceives
  <2> HIDE DEF u
  <2>3. Sends(u, was, sent + 1)
    BY <1>9, <1>10, <2>2 DEF Sends
  <2>4. Credits(u) /\ Receives(u, n, got)
    BY <1>1, <1>3, <1>9, <2>2, CreditsFrame, ReceivesFrame
  <2>5. u.toUser = s.toUser
    BY <1>3, <1>9, <2>2 DEF SameReceives
  <2> QED BY <2>1, <2>3, <2>4, <2>5 DEF Settled
<1>14. Settled(t, was, sent + 1, n, got) /\ t.toUser = s.toUser
  BY <1>12, <1>13
<1>15. Quiet(t, [t EXCEPT !.senderTimer = TRUE])
  BY <1>5 DEF Sound, EFCPI, Quiet, SameSends, Credits, SameReceives
<1>16. HandleMsgFromUp(s) = [t EXCEPT !.senderTimer = TRUE]
  BY DEF HandleMsgFromUp, t, took, pdu
<1>17. [t EXCEPT !.senderTimer = TRUE].toUser = s.toUser
  BY <1>14, <1>15 DEF Quiet, SameReceives
<1> QED BY <1>14, <1>15, <1>16, <1>17, QuietFrame

\* The PDUs the window admits are taken from the front of closedWindowQ.
LEMMA TrySendClosedWindowQSettles ==
    ASSUME NEW s, Sound(s), NEW was, NEW sent, NEW n, NEW got, Settled(s, was, sent, n, got)
    PROVE  /\ Settled(TrySendClosedWindowQ(s), was, sent, n, got)
           /\ TrySendClosedWindowQ(s).toUser = s.toUser
<1> DEFINE q == s.closedWindowQ
           k == Postable(s)
           rest == SubSeq(q, k + 1, Len(q))
           out == s.outData \cup {q[i] : i \in 1..k}
           entry(i) == [pdu |-> q[i], expiryCount |-> 0, pos |-> s.pushed + i]
           entries == IF RxPresent THEN s.rxQ \cup {entry(i) : i \in 1..k} ELSE s.rxQ
           pushed == IF RxPresent THEN s.pushed + k ELSE s.pushed
           closed == rest # <<>>
           blocking == s.blockingPort /\ Len(rest) >= MaxClosedWinQueLen
           t == [s EXCEPT !.outData = out, !.rxQ = entries, !.pushed = pushed,
                          !.closedWindowQ = rest, !.closedWindow = closed,
                          !.blockingPort = blocking]
<1>1. Sends(s, was, sent) /\ Credits(s) /\ Receives(s, n, got)
  BY DEF Settled
<1>2. q \in Seq(DataPDU) /\ Len(q) \in Nat
  BY DEF Sound, EFCPI
<1>3. k \in 0..Len(q)
  BY PostableDef
<1>4. TrySendClosedWindowQ(s) = t
  BY Zenon DEF TrySendClosedWindowQ
<1>5. \A i \in 1..Len(q) : OwnPDU(q[i], sent) /\ q[i].drf = FALSE
  BY <1>1 DEF Sends
<1>6. \A x \in s.rxQ : OwnPDU(x.pdu, sent)
  BY <1>1 DEF Sends
<1>7. \A p \in s.outData : OwnPDU(p, sent) /\ (p.drf = TRUE => was = 0)
  BY <1>1 DEF Sends
<1>8. \A i \in 1..k : entry(i).pdu = q[i]
  OBVIOUS
<1> HIDE DEF q, k, entry
<1>9. \A i \in 1..k : i \in 1..Len(q)
  BY <1>2, <1>3
<1>10. \A p \in out : OwnPDU(p, sent) /\ (p.drf = TRUE => was = 0)
  BY <1>5, <1>7, <1>9
<1>11. \A x \in entries : OwnPDU(x.pdu, sent)
  BY <1>5, <1>6, <1>8, <1>9
<1>12. \A i \in 1..Len(rest) : OwnPDU(rest[i], sent) /\ rest[i].drf = FALSE
  <2>1. \A i \in 1..Len(q) : q[i] \in DataPDU
    BY <1>2
  <2>2. /\ Len(rest) = Len(q) - k
        /\ \A i \in 1..(Len(q) - k) : rest[i] = q[k + i]
    BY <1>2, <1>3, <2>1, SubSeqProperties
  <2>3. \A i \in 1..(Len(q) - k) : k + i \in 1..Len(q)
    BY <1>2, <1>3
  <2> HIDE DEF rest
  <2> QED BY <1>5, <2>2, <2>3
<1>13. closed = TRUE => rest # <<>>
  OBVIOUS
<1> HIDE DEF rest, out, entries, pushed, closed, blocking
<1>14. /\ t.sdus = s.sdus /\ t.nextSeqNumToSend = s.nextSeqNumToSend
       /\ t.setDRFFlag = s.setDRFFlag
       /\ t.closedWindow = closed /\ t.closedWindowQ = rest
       /\ t.rxQ = entries /\ t.outData = out
       /\ SameCredits(s, t) /\ SameReceives(s, t)
  BY DEF Sound, EFCPI, SameCredits, SameReceives
<1> HIDE DEF t
<1>15. Sends(t, was, sent)
  BY <1>1, <1>10, <1>11, <1>12, <1>13, <1>14 DEF Sends
<1>16. Credits(t) /\ Receives(t, n, got)
  BY <1>1, <1>14, CreditsFrame, ReceivesFrame
<1>17. t.toUser = s.toUser
  BY <1>14 DEF SameReceives
<1> QED BY <1>4, <1>15, <1>16, <1>17 DEF Settled

\* What leaves out entries of rxQ, or moves the left edge of the sender's window.
LEMMA AckSettles ==
    ASSUME NEW s, Sound(s), NEW was, NEW sent, NEW n, NEW got, Settled(s, was, sent, n, got),
           NEW m, NEW k \in Nat
    PROVE  /\ Settled(UpdateSndLWE(AckPDU(s, m), k), was, sent, n, got)
           /\ UpdateSndLWE(AckPDU(s, m), k).toUser = s.toUser
<1> DEFINE entries == {x \in s.rxQ : x.pdu.seq > m}
           t == [s EXCEPT !.rxQ = entries]
           edge == IF t.rxQ = {} THEN k
                   ELSE (CHOOSE x \in t.rxQ : \A y \in t.rxQ : x.pos <= y.pos).pdu.seq
           u == [t EXCEPT !.sndLeftWinEdge = edge]
<1>1. Sends(s, was, sent) /\ Credits(s) /\ Receives(s, n, got)
  BY DEF Settled
<1>2. entries \subseteq s.rxQ
  OBVIOUS
<1>3. AckPDU(s, m) = t
  BY DEF AckPDU
<1> HIDE DEF entries, t
<1>4. Sound(t)
  BY <1>3, AckPDUSound
<1>5. UpdateSndLWE(t, k) = u
  BY DEF UpdateSndLWE
<1>6. /\ t.sdus = s.sdus /\ t.nextSeqNumToSend = s.nextSeqNumToSend
      /\ t.setDRFFlag = s.setDRFFlag
      /\ t.closedWindow = s.closedWindow /\ t.closedWindowQ = s.closedWindowQ
      /\ t.rxQ = entries /\ t.outData = s.outData
      /\ SameCredits(s, t) /\ SameReceives(s, t)
  BY DEF Sound, EFCPI, SameCredits, SameReceives, t
<1> HIDE DEF edge
<1>7. Sends(t, was, sent)
  BY <1>1, <1>2, <1>6 DEF Sends
<1>8. Settled(t, was, sent, n, got)
  BY <1>1, <1>6, <1>7, CreditsFrame, ReceivesFrame DEF Settled
<1>9. Quiet(t, u)
  BY <1>4 DEF Sound, EFCPI, Quiet, SameSends, Credits, SameReceives
<1>10. u.toUser = s.toUser
  BY <1>6, <1>9 DEF Quiet, SameReceives
<1>11. Settled(u, was, sent, n, got)
  BY <1>8, <1>9, QuietFrame
<1> QED BY <1>3, <1>5, <1>10, <1>11

LEMMA SenderAckSettles ==
    ASSUME NEW s, Sound(s), NEW was, NEW sent, NEW n, NEW got, Settled(s, was, sent, n, got),
           NEW pdu \in CtrlPDU
    PROVE  Settled(SenderAck(s, pdu), was, sent, n, got) /\ SenderAck(s, pdu).toUser = s.toUser
<1>1. pdu.ack + 1 \in Nat
  BY DEF CtrlPDU
<1> QED BY <1>1, AckSettles DEF SenderAck

\* A PDU that carries credit opens the window at least for the first PDU.
LEMMA NewEdgeSettles ==
    ASSUME NEW s, Sound(s), NEW was, NEW sent, NEW n, NEW got, Settled(s, was, sent, n, got),
           NEW rwe \in Nat, rwe >= 1
    PROVE  /\ Sound([s EXCEPT !.sndRightWinEdge = rwe])
           /\ Settled([s EXCEPT !.sndRightWinEdge = rwe], was, sent, n, got)
           /\ [s EXCEPT !.sndRightWinEdge = rwe].toUser = s.toUser
<1> DEFINE t == [s EXCEPT !.sndRightWinEdge = rwe]
<1>1. /\ SameSends(s, t) /\ SameReceives(s, t)
      /\ t.sndRightWinEdge = rwe /\ t.rcvRightWinEdge = s.rcvRightWinEdge
      /\ t.outCtrl = s.outCtrl
  BY DEF Sound, EFCPI, SameSends, SameReceives
<1>2. Sound(t)
  BY DEF Sound, EFCPI
<1> HIDE DEF t
<1>3. Credits(s) => Credits(t)
  BY <1>1 DEF Credits
<1>4. Settled(t, was, sent, n, got)
  BY <1>1, <1>3, QuietFrame DEF Quiet
<1>5. t.toUser = s.toUser
  BY <1>1 DEF SameReceives
<1> QED BY <1>2, <1>4, <1>5 DEF t

LEMMA RcvFlowControlSettles ==
    ASSUME NEW s, Sound(s), NEW was, NEW sent, NEW n, NEW got, Settled(s, was, sent, n, got),
           NEW pdu \in CtrlPDU, pdu.rwe >= 1
    PROVE  /\ Settled(RcvFlowControl(s, pdu), was, sent, n, got)
           /\ RcvFlowControl(s, pdu).toUser = s.toUser
<1>1. pdu.rwe \in Nat
  BY DEF CtrlPDU
<1> DEFINE t == [s EXCEPT !.sndRightWinEdge = pdu.rwe]
<1>2. Sound(t) /\ Settled(t, was, sent, n, got) /\ t.toUser = s.toUser
  BY <1>1, NewEdgeSettles
<1>3. RcvFlowControl(s, pdu) = IF s.closedWindowQ = <<>> THEN t ELSE TrySendClosedWindowQ(t)
  BY DEF RcvFlowControl
<1> HIDE DEF t
<1> QED BY <1>2, <1>3, TrySendClosedWindowQSettles

LEMMA RcvrControlAckSettles ==
    ASSUME NEW s, Sound(s), NEW was, NEW sent, NEW n, NEW got, Settled(s, was, sent, n, got),
           NEW pdu \in CtrlPDU, pdu.rwe >= 1
    PROVE  /\ Settled(RcvrControlAck(s, pdu), was, sent, n, got)
           /\ RcvrControlAck(s, pdu).toUser = s.toUser
<1> DEFINE acked == IF pdu.ack > s.sndLeftWinEdge
                    THEN UpdateSndLWE(AckPDU(s, pdu.ack - 1), pdu.ack)
                    ELSE s
           t == [acked EXCEPT !.sndRightWinEdge = pdu.rwe]
<1>1. pdu.ack \in Nat /\ pdu.rwe \in Nat
  BY DEF CtrlPDU
<1>2. Sound(acked)
  BY <1>1, AckPDUSound, UpdateSndLWESound
<1>3. Settled(acked, was, sent, n, got) /\ acked.toUser = s.toUser
  BY <1>1, AckSettles
<1>4. RcvrControlAck(s, pdu) = SendAckFlowPDU(t)
  BY DEF RcvrControlAck
<1> HIDE DEF acked
<1>5. Sound(t) /\ Settled(t, was, sent, n, got) /\ t.toUser = s.toUser
  BY <1>1, <1>2, <1>3, NewEdgeSettles
<1> HIDE DEF t
<1>6. Quiet(t, SendAckFlowPDU(t))
  BY <1>5, AnnouncementsQuiet
<1>7. SendAckFlowPDU(t).toUser = s.toUser
  BY <1>5, <1>6 DEF Quiet, SameReceives
<1> QED BY <1>4, <1>5, <1>6, <1>7, QuietFrame

\* A control PDU that reveals a lost one is answered, with an SDU of the EFCPI's own.
LEMMA CommonRcvControlSettles ==
    ASSUME NEW s, Sound(s), NEW was \in Nat, NEW n, NEW got, DtcpPresent,
           Settled(s, was, s.sdus, n, got), NEW pdu
    PROVE  LET sent == IF IsLost(s, pdu) THEN s.sdus + 1 ELSE s.sdus
           IN  /\ Settled(CommonRcvControl(s, pdu), was, sent, n, got)
               /\ CommonRcvControl(s, pdu).toUser = s.toUser
<1> DEFINE sent == IF IsLost(s, pdu) THEN s.sdus + 1 ELSE s.sdus
           told == SendControlAckPDU(s)
           t == IF IsLost(s, pdu) THEN SendEmptyDTPDU(told) ELSE s
<1>1. Sound(told) /\ Settled(told, was, s.sdus, n, got) /\ told.toUser = s.toUser
  <2>1. Sound(told) /\ Quiet(s, told)
    BY SendControlAckPDUSound, AnnouncementsQuiet
  <2> HIDE DEF told
  <2>2. told.toUser = s.toUser
    BY <2>1 DEF Quiet, SameReceives
  <2> QED BY <2>1, <2>2, QuietFrame
<1> HIDE DEF told
<1>2. Sound(t) /\ Settled(t, was, sent, n, got) /\ t.toUser = s.toUser
  BY <1>1, SendEmptyDTPDUSound, SendEmptyDTPDUSettles
<1>3. CommonRcvControl(s, pdu) = [t EXCEPT !.lastControlSeqNumRcv = pdu.seq]
  BY DEF CommonRcvControl, LostControlPDU, told
<1> HIDE DEF t, sent
<1>4. Quiet(t, [t EXCEPT !.lastControlSeqNumRcv = pdu.seq])
  BY <1>2 DEF Sound, EFCPI, Quiet, SameSends, Credits, SameReceives
<1>5. /\ Settled(CommonRcvControl(s, pdu), was, sent, n, got)
      /\ CommonRcvControl(s, pdu).toUser = s.toUser
  <2> DEFINE u == [t EXCEPT !.lastControlSeqNumRcv = pdu.seq]
  <2> HIDE DEF u
  <2>1. Quiet(t, u)
    BY <1>4 DEF u
  <2>2. u.toUser = s.toUser
    BY <1>2, <2>1 DEF Quiet, SameReceives
  <2>3. Settled(u, was, sent, n, got)
    BY <1>2, <2>1, QuietFrame
  <2> QED BY <1>3, <2>2, <2>3 DEF u
<1> QED BY <1>5 DEF sent

LEMMA HandleControlPDUFromRMTSettles ==
    ASSUME NEW s, Sound(s), NEW was \in Nat, NEW n, NEW got, DtcpPresent,
           Settled(s, was, s.sdus, n, got),
           NEW pdu \in CtrlPDU, pdu.type = "ack" \/ pdu.rwe >= 1
    PROVE  /\ \E sent \in Nat :
                 /\ sent = s.sdus \/ (IsLost(s, pdu) /\ sent = s.sdus + 1)
                 /\ Settled(HandleControlPDUFromRMT(s, pdu), was, sent, n, got)
           /\ HandleControlPDUFromRMT(s, pdu).toUser = s.toUser
<1> DEFINE c == CommonRcvControl(s, pdu)
           after == IF IsLost(s, pdu) THEN s.sdus + 1 ELSE s.sdus
           old == pdu.seq <= s.lastControlSeqNumRcv
           new == pdu.seq > s.lastControlSeqNumRcv
           t == HandleControlPDUFromRMT(s, pdu)
<1>1. /\ old \/ new
      /\ ~(old /\ new)
      /\ pdu.type \in {"ack", "fc", "ackflow", "controlack"}
      /\ s.sdus \in Nat
  BY DEF Sound, EFCPI, CtrlPDU, CtrlType
<1>2. Sound(c) /\ Settled(c, was, after, n, got) /\ c.toUser = s.toUser
  BY CommonRcvControlSound, CommonRcvControlSettles
<1>3. after \in Nat /\ (after = s.sdus \/ (IsLost(s, pdu) /\ after = s.sdus + 1))
  BY <1>1
<1>4. t = CASE old -> s
            [] new /\ pdu.type = "controlack" -> RcvrControlAck(c, pdu)
            [] new /\ pdu.type = "ack" -> SenderAck(c, pdu)
            [] new /\ pdu.type = "fc" -> RcvFlowControl(c, pdu)
            [] new /\ pdu.type = "ackflow" -> RcvFlowControl(SenderAck(c, pdu), pdu)
  BY Zenon DEF HandleControlPDUFromRMT
<1> HIDE DEF c, after, old, new, t
<1>5. CASE old
  <2>1. t = s
    BY <1>1, <1>4, <1>5
  <2> QED BY <1>1, <2>1 DEF t
<1>6. CASE new
  <2>1. /\ Settled(SenderAck(c, pdu), was, after, n, got) /\ Sound(SenderAck(c, pdu))
        /\ SenderAck(c, pdu).toUser = s.toUser
    BY <1>2, SenderAckSound, SenderAckSettles
  <2>2. pdu.type # "ack" => pdu.rwe >= 1
    OBVIOUS
  <2>3. pdu.type # "ack" =>
          /\ Settled(RcvrControlAck(c, pdu), was, after, n, got)
          /\ Settled(RcvFlowControl(c, pdu), was, after, n, got)
          /\ Settled(RcvFlowControl(SenderAck(c, pdu), pdu), was, after, n, got)
          /\ RcvrControlAck(c, pdu).toUser = s.toUser
          /\ RcvFlowControl(c, pdu).toUser = s.toUser
          /\ RcvFlowControl(SenderAck(c, pdu), pdu).toUser = s.toUser
    BY <1>2, <2>1, <2>2, RcvrControlAckSettles, RcvFlowControlSettles
  <2>4. \/ pdu.type = "controlack" /\ t = RcvrControlAck(c, pdu)
        \/ pdu.type = "ack" /\ t = SenderAck(c, pdu)
        \/ pdu.type = "fc" /\ t = RcvFlowControl(c, pdu)
        \/ pdu.type = "ackflow" /\ t = RcvFlowControl(SenderAck(c, pdu), pdu)
    BY <1>1, <1>4, <1>6
  <2>5. Settled(t, was, after, n, got) /\ t.toUser = s.toUser
    BY <2>1, <2>3, <2>4
  <2> QED BY <1>3, <2>5 DEF t
<1> QED BY <1>1, <1>5, <1>6

\* A PDU is sent again with what it carried; the first one has been acknowledged.
LEMMA RxTimerExpirySettles ==
    ASSUME NEW s, Sound(s), NEW was, NEW sent, NEW n, NEW got, Settled(s, was, sent, n, got),
           NEW x \in s.rxQ, x.pdu.drf # TRUE
    PROVE  Settled(RxTimerExpiry(s, x), was, sent, n, got)
<1> DEFINE rest == s.rxQ \ {x}
           again == [x EXCEPT !.expiryCount = x.expiryCount + 1]
           copy == [x.pdu EXCEPT !.copy = x.expiryCount + 1]
           entries == rest \cup {again}
           out == s.outData \cup {copy}
           given == s.gaveUp \cup {x.pdu.sdu}
           t == [s EXCEPT !.rxQ = rest, !.gaveUp = given]
           u == [s EXCEPT !.rxQ = entries, !.outData = out]
<1>1. Sends(s, was, sent) /\ Credits(s) /\ Receives(s, n, got)
  BY DEF Settled
<1>2. RxTimerExpiry(s, x) = IF x.expiryCount = DataReXmitMax + 1 THEN t ELSE u
  BY DEF RxTimerExpiry
<1>3. x \in RxEntry /\ x.pdu \in DataPDU
  BY DEF Sound, EFCPI, RxEntry
<1>4. again.pdu = x.pdu /\ copy.sdu = x.pdu.sdu /\ copy.seq = x.pdu.seq /\ copy.drf = x.pdu.drf
  BY <1>3 DEF RxEntry, DataPDU
<1> HIDE DEF again, copy
<1>5. OwnPDU(x.pdu, sent) /\ OwnPDU(copy, sent)
  <2>1. OwnPDU(x.pdu, sent)
    BY <1>1 DEF Sends
  <2> QED BY <1>4, <2>1 DEF OwnPDU
<1>6. /\ \A y \in rest : OwnPDU(y.pdu, sent)
      /\ \A y \in entries : OwnPDU(y.pdu, sent)
      /\ \A p \in out : OwnPDU(p, sent) /\ (p.drf = TRUE => was = 0)
  BY <1>1, <1>4, <1>5 DEF Sends
<1> HIDE DEF rest, entries, out, given
<1>7. Settled(t, was, sent, n, got)
  <2>1. /\ t.sdus = s.sdus /\ t.nextSeqNumToSend = s.nextSeqNumToSend
        /\ t.setDRFFlag = s.setDRFFlag
        /\ t.closedWindow = s.closedWindow /\ t.closedWindowQ = s.closedWindowQ
        /\ t.rxQ = rest /\ t.outData = s.outData
        /\ SameCredits(s, t) /\ SameReceives(s, t)
    BY DEF Sound, EFCPI, SameCredits, SameReceives
  <2> HIDE DEF t
  <2>2. Sends(t, was, sent)
    BY <1>1, <1>6, <2>1 DEF Sends
  <2> QED BY <1>1, <2>1, <2>2, CreditsFrame, ReceivesFrame DEF Settled
<1>8. Settled(u, was, sent, n, got)
  <2>1. /\ u.sdus = s.sdus /\ u.nextSeqNumToSend = s.nextSeqNumToSend
        /\ u.setDRFFlag = s.setDRFFlag
        /\ u.closedWindow = s.closedWindow /\ u.closedWindowQ = s.closedWindowQ
        /\ u.rxQ = entries /\ u.outData = out
        /\ SameCredits(s, u) /\ SameReceives(s, u)
    BY DEF Sound, EFCPI, SameCredits, SameReceives
  <2> HIDE DEF u
  <2>2. Sends(u, was, sent)
    BY <1>1, <1>6, <2>1 DEF Sends
  <2> QED BY <1>1, <2>1, <2>2, CreditsFrame, ReceivesFrame DEF Settled
<1> HIDE DEF t, u
<1> QED BY <1>2, <1>7, <1>8

-----------------------------------------------------------------------------
\* The connection

\* One SDU more is written at e, or any number is handed up there.
Wrote(e) ==
    /\ efcpi[e].sdus < MaxSdu /\ efcpi'[e].sdus = efcpi[e].sdus + 1
    /\ efcpi'[Peer(e)].sdus = efcpi[Peer(e)].sdus
    /\ delivered' = delivered

Got(e) ==
    /\ \A d \in End : efcpi'[d].sdus = efcpi[d].sdus
    /\ delivered'[Peer(e)] = delivered[Peer(e)]
    /\ \A n \in 1..MaxSdu : delivered[e][n] <= delivered'[e][n]

LEMMA ReceivesGrows ==
    ASSUME NEW s, Sound(s), NEW m \in Nat, NEW n \in Nat, m <= n, NEW got, Receives(s, m, got)
    PROVE  Receives(s, n, got)
<1>1. s.maxSeqNumRcvd \in Nat
  BY DEF Sound, EFCPI
<1>2. Queued(s, n)
  BY <1>1 DEF Receives, Queued
<1> QED BY <1>2 DEF Receives

\* What a handler leaves when its PDUs are on the path and its SDUs with the user.
LEMMA EmptiedSettles ==
    ASSUME NEW s, Sound(s), NEW was, NEW sent \in Nat, NEW n, NEW got,
           Settled(s, was, sent, n, got)
    PROVE  LET t == [s EXCEPT !.outData = {}, !.outCtrl = {}, !.toUser = {}]
           IN  /\ Settled(t, sent, sent, n, Up(s, got))
               /\ t.outData = {} /\ t.outCtrl = {} /\ t.toUser = {}
               /\ t.sdus = s.sdus /\ t.maxSeqNumRcvd = s.maxSeqNumRcvd
<1> DEFINE t == [s EXCEPT !.outData = {}, !.outCtrl = {}, !.toUser = {}]
<1>1. /\ t.outData = {} /\ t.outCtrl = {} /\ t.toUser = {}
      /\ t.sdus = s.sdus /\ t.nextSeqNumToSend = s.nextSeqNumToSend
      /\ t.setDRFFlag = s.setDRFFlag
      /\ t.closedWindow = s.closedWindow /\ t.closedWindowQ = s.closedWindowQ
      /\ t.rxQ = s.rxQ
      /\ t.sndRightWinEdge = s.sndRightWinEdge /\ t.rcvRightWinEdge = s.rcvRightWinEdge
      /\ t.rcvLeftWinEdge = s.rcvLeftWinEdge /\ t.maxSeqNumRcvd = s.maxSeqNumRcvd
      /\ t.reassemblyPDUQ = s.reassemblyPDUQ /\ t.dropDup = s.dropDup
  BY DEF Sound, EFCPI
<1> HIDE DEF t
<1>2. Sends(t, sent, sent)
  BY <1>1 DEF Settled, Sends
<1>3. Credits(t)
  BY <1>1 DEF Settled, Credits
<1>4. Up(t, Up(s, got)) = Up(s, got)
  BY <1>1 DEF Up
<1>5. Receives(s, n, got)
  BY DEF Settled
<1>6. Queued(t, n)
  BY <1>1, <1>5 DEF Receives, Queued
<1>7. HandsUp(t, Up(s, got))
  BY <1>1, <1>4, <1>5 DEF Receives, HandsUp, Drops
<1>8. Receives(t, n, Up(s, got))
  BY <1>1, <1>4, <1>5, <1>6, <1>7 DEF Receives
<1> QED BY <1>1, <1>2, <1>3, <1>8 DEF Settled, t

\* What Handle makes of the counts of one end.
LEMMA CountType ==
    ASSUME NEW old \in [1..MaxSdu -> Nat], NEW set
    PROVE  [n \in 1..MaxSdu |-> old[n] + IF \E f \in set : f.sdu = n THEN 1 ELSE 0]
              \in [1..MaxSdu -> Nat]
OBVIOUS

LEMMA HandleDelivery ==
    ASSUME SoundInv, DeliveryInv, NEW e \in End, NEW s, Sound(s),
           NEW sent \in Nat, sent <= MaxSdu,
           Settled(s, efcpi[e].sdus, sent, efcpi[Peer(e)].sdus, Received(e)),
           NEW data \in SUBSET dataNet[e], NEW ctrl \in SUBSET ctrlNet[e],
           (\E p \in data : p.drf = TRUE) => s.maxSeqNumRcvd = 0,
           Handle(e, s, data, ctrl), idle' = idle
    PROVE  /\ DeliveryInv'
           /\ sent = efcpi[e].sdus => Got(e)
           /\ sent = efcpi[e].sdus + 1 /\ s.toUser = {} => Wrote(e)
<1> DEFINE p == Peer(e)
           n == efcpi[p].sdus
           was == efcpi[e].sdus
           got == Received(e)
           t == [s EXCEPT !.outData = {}, !.outCtrl = {}, !.toUser = {}]
           count == [k \in 1..MaxSdu |->
                       delivered[e][k] + IF \E f \in s.toUser : f.sdu = k THEN 1 ELSE 0]
<1>1. /\ efcpi \in [End -> EFCPI]
      /\ dataNet \in [End -> SUBSET DataPDU]
      /\ ctrlNet \in [End -> SUBSET CtrlPDU]
      /\ delivered \in [End -> [1..MaxSdu -> Nat]]
  BY DEF SoundInv, TypeOK
<1>2. p \in End /\ p # e /\ Peer(p) = e /\ \A d \in End : d = e \/ d = p
  BY DEF Peer, End
<1>3. Sound(efcpi[e]) /\ Sound(efcpi[p]) /\ was \in Nat /\ n \in Nat
  <2>1. Sound(efcpi[e]) /\ Sound(efcpi[p])
    BY <1>1, <1>2 DEF SoundInv, Sound
  <2> QED BY <2>1 DEF Sound, EFCPI
<1>4. Orderly(e) /\ Orderly(p) /\ idle = 0
  BY <1>2 DEF DeliveryInv
<1>5. efcpi' = [efcpi EXCEPT ![e] = t]
  BY DEF Handle
<1>6. dataNet' = [dataNet EXCEPT ![e] = data, ![p] = @ \cup s.outData]
  BY DEF Handle
<1>7. ctrlNet' = [ctrlNet EXCEPT ![e] = ctrl, ![p] = @ \cup s.outCtrl]
  BY DEF Handle
<1>8. delivered' = [delivered EXCEPT ![e] = count]
  BY <1>1 DEF Handle
<1>9. Sends(s, was, sent) /\ Credits(s) /\ Receives(s, n, got)
  BY DEF Settled
<1>10. s.sdus = sent /\ was <= sent
  BY <1>9 DEF Sends
<1>11. /\ Settled(t, sent, sent, n, Up(s, got))
       /\ t.outData = {} /\ t.outCtrl = {} /\ t.toUser = {}
       /\ t.sdus = sent /\ t.maxSeqNumRcvd = s.maxSeqNumRcvd
  BY <1>10, EmptiedSettles
<1>12. \A k \in 1..MaxSdu :
          /\ count[k] = delivered[e][k] + IF \E f \in s.toUser : f.sdu = k THEN 1 ELSE 0
          /\ delivered[e][k] \in Nat
          /\ delivered[e][k] <= 1
          /\ k \in got <=> delivered[e][k] > 0
  BY <1>1, <1>4 DEF Orderly, Received
<1>13. got \subseteq 1..MaxSdu /\ count \in [1..MaxSdu -> Nat]
  <2>1. got \subseteq 1..MaxSdu
    BY DEF Received
  <2>2. count \in [1..MaxSdu -> Nat]
    BY <1>1, CountType
  <2> QED BY <2>1, <2>2, Zenon
<1> HIDE DEF p, t, count, got
<1>14. /\ efcpi'[e] = t /\ efcpi'[p] = efcpi[p]
       /\ dataNet'[e] = data /\ dataNet'[p] = dataNet[p] \cup s.outData
       /\ ctrlNet'[e] = ctrl /\ ctrlNet'[p] = ctrlNet[p] \cup s.outCtrl
       /\ delivered'[e] = count /\ delivered'[p] = delivered[p]
  BY <1>1, <1>2, <1>5, <1>6, <1>7, <1>8
<1>15. \A f \in s.toUser : f.sdu \notin got /\ f.sdu \in 1..MaxSdu
  <2>1. s.maxSeqNumRcvd \in Nat /\ s.rcvLeftWinEdge \in Nat /\ MaxSdu \in Nat
    BY ConnectionAssumption DEF Sound, EFCPI
  <2>2. s.rcvLeftWinEdge <= MaxSdu
    <3>1. s.rcvLeftWinEdge <= s.maxSeqNumRcvd /\ s.maxSeqNumRcvd <= n
      BY <1>9 DEF Receives, Queued
    <3>2. n <= MaxSdu
      BY <1>4 DEF Orderly
    <3> QED BY <1>3, <2>1, <3>1, <3>2
  <2>3. \A f \in s.toUser : f.sdu \notin got /\ f.sdu \in 1..s.rcvLeftWinEdge
    BY <1>9 DEF Receives, HandsUp, Up
  <2> QED BY <2>1, <2>2, <2>3
<1>16. Received(e)' = Up(s, got)
  <2>1. Received(e)' = {k \in 1..MaxSdu : count[k] > 0}
    BY <1>14 DEF Received
  <2>2. ASSUME NEW k \in 1..MaxSdu
        PROVE  count[k] > 0 <=> k \in got \/ \E f \in s.toUser : f.sdu = k
    <3>1. CASE \E f \in s.toUser : f.sdu = k
      BY <1>12, <3>1
    <3>2. CASE ~\E f \in s.toUser : f.sdu = k
      BY <1>12, <3>2
    <3> QED BY <3>1, <3>2
  <2> HIDE DEF count
  <2> QED BY <1>13, <1>15, <2>1, <2>2 DEF Up
<1>17. \A k \in 1..MaxSdu : count[k] <= 1 /\ delivered[e][k] <= count[k]
  <2> SUFFICES ASSUME NEW k \in 1..MaxSdu
               PROVE  count[k] <= 1 /\ delivered[e][k] <= count[k]
    OBVIOUS
  <2>1. CASE \E f \in s.toUser : f.sdu = k
    <3>1. k \notin got
      BY <1>15, <2>1
    <3> QED BY <1>12, <2>1, <3>1
  <2>2. CASE ~\E f \in s.toUser : f.sdu = k
    BY <1>12, <2>2
  <2> QED BY <2>1, <2>2
<1>18. Orderly(e)'
  <2>1. \A d \in data : OwnPDU(d, n)
    BY <1>4 DEF Orderly, p
  <2>2. \A c \in ctrl : c.type = "ack" \/ c.rwe >= 1
    BY <1>4 DEF Orderly
  <2>3. Settled(efcpi'[e], efcpi'[e].sdus, efcpi'[e].sdus, efcpi'[p].sdus, Received(e)')
    BY <1>11, <1>14, <1>16
  <2>4. \A k \in 1..MaxSdu : delivered'[e][k] <= 1
    BY <1>14, <1>17
  <2>5. /\ efcpi'[e].sdus <= MaxSdu
        /\ efcpi'[e].outData = {} /\ efcpi'[e].outCtrl = {} /\ efcpi'[e].toUser = {}
    BY <1>11, <1>14
  <2>6. /\ \A d \in dataNet'[e] : OwnPDU(d, efcpi'[p].sdus)
        /\ (\E d \in dataNet'[e] : d.drf = TRUE) => efcpi'[e].maxSeqNumRcvd = 0
        /\ \A c \in ctrlNet'[e] : c.type = "ack" \/ c.rwe >= 1
    BY <1>11, <1>14, <2>1, <2>2
  <2> QED BY <2>3, <2>4, <2>5, <2>6 DEF Orderly, p
<1>19. Orderly(p)'
  <2> DEFINE q == efcpi[p]
  <2>1. Settled(q, q.sdus, q.sdus, was, Received(p)) /\ Received(p)' = Received(p)
    BY <1>2, <1>4, <1>14 DEF Orderly, Received
  <2>2. Settled(q, q.sdus, q.sdus, sent, Received(p))
    BY <1>3, <1>10, <2>1, ReceivesGrows DEF Settled
  <2>3. Settled(efcpi'[p], efcpi'[p].sdus, efcpi'[p].sdus, efcpi'[e].sdus, Received(p)')
    BY <1>11, <1>14, <2>1, <2>2
  <2>4. \A d \in dataNet[p] \cup s.outData : OwnPDU(d, sent)
    <3>1. \A d \in dataNet[p] : OwnPDU(d, was)
      BY <1>2, <1>4 DEF Orderly
    <3>2. \A d \in s.outData : OwnPDU(d, sent)
      BY <1>9 DEF Sends
    <3> QED BY <1>3, <1>10, <3>1, <3>2, OwnPDUGrows
  \* A PDU with DRF is sent only when nothing was sent before.
  <2>5. (\E d \in dataNet[p] \cup s.outData : d.drf = TRUE) => q.maxSeqNumRcvd = 0
    <3>1. CASE \E d \in dataNet[p] : d.drf = TRUE
      BY <1>4, <3>1 DEF Orderly
    <3>2. CASE \E d \in s.outData : d.drf = TRUE
      <4>1. was = 0
        BY <1>9, <3>2 DEF Sends
      <4>2. q.maxSeqNumRcvd <= 0
        BY <2>1, <4>1 DEF Settled, Receives, Queued
      <4>3. q.maxSeqNumRcvd \in Nat
        BY <1>3 DEF Sound, EFCPI
      <4> QED BY <4>2, <4>3
    <3> QED BY <3>1, <3>2
  <2>6. \A c \in ctrlNet[p] \cup s.outCtrl : c.type = "ack" \/ c.rwe >= 1
    BY <1>4, <1>9 DEF Orderly, Credits
  <2>7. /\ q.sdus <= MaxSdu /\ q.outData = {} /\ q.outCtrl = {} /\ q.toUser = {}
        /\ \A k \in 1..MaxSdu : delivered[p][k] <= 1
    BY <1>4 DEF Orderly
  <2>8. efcpi'[e].sdus = sent
    BY <1>11, <1>14
  <2> QED BY <1>2, <1>14, <2>3, <2>4, <2>5, <2>6, <2>7, <2>8 DEF Orderly
<1>20. DeliveryInv'
  BY <1>2, <1>4, <1>18, <1>19 DEF DeliveryInv
<1>21. sent = was => Got(e)
  BY <1>2, <1>11, <1>14, <1>17 DEF Got, p
<1>22. ASSUME sent = was + 1, s.toUser = {}
       PROVE  Wrote(e)
  <2>1. count = delivered[e]
    <3>1. \A k \in 1..MaxSdu : count[k] = delivered[e][k]
      BY <1>12, <1>22
    <3>2. delivered[e] = [k \in 1..MaxSdu |-> delivered[e][k]]
      BY <1>1
    <3>3. count = [k \in 1..MaxSdu |-> count[k]]
      BY <1>13
    <3> QED BY <3>1, <3>2, <3>3, Zenon
  <2>2. delivered' = delivered
    BY <1>1, <1>8, <2>1
  <2>3. was < MaxSdu
    BY <1>3, <1>22, ConnectionAssumption
  <2> QED BY <1>11, <1>14, <1>22, <2>2, <2>3 DEF Wrote, p
<1> QED BY <1>20, <1>21, <1>22

-----------------------------------------------------------------------------
\* One run of a flow with DTCP whose first PDU is safe: no inactivity timer expires,
\* and the sender starts with some credit.
SafeRun == DtcpPresent /\ DRFPduSafe /\ SndCredit # 0 /\ UIntMax # 0 /\ MaxIdle = 0

LEMMA DeliveryInit == ASSUME SafeRun PROVE Init => DeliveryInv
<1> SUFFICES ASSUME Init PROVE DeliveryInv
  OBVIOUS
<1> DEFINE s == InitEFCPI
<1>1. /\ s.sdus = 0 /\ s.nextSeqNumToSend = 1 /\ s.closedWindow = FALSE /\ s.closedWindowQ = <<>>
      /\ s.rxQ = {} /\ s.outData = {} /\ s.outCtrl = {} /\ s.toUser = {}
      /\ s.sndRightWinEdge = SndCredit /\ s.rcvRightWinEdge = UIntMax
      /\ s.rcvLeftWinEdge = 0 /\ s.maxSeqNumRcvd = 0 /\ s.reassemblyPDUQ = {} /\ s.dropDup = {}
  BY DEF InitEFCPI
<1> HIDE DEF s
<1>2. Sends(s, 0, 0)
  BY <1>1 DEF Sends
<1>3. Credits(s)
  BY <1>1, EFCPAssumption DEF SafeRun, Credits
<1>4. Up(s, {}) = {}
  BY <1>1 DEF Up
<1>5. Receives(s, 0, {})
  BY <1>1, <1>4 DEF Receives, Queued, HandsUp, Drops, NoGap
<1>6. Settled(s, 0, 0, 0, {})
  BY <1>2, <1>3, <1>5 DEF Settled
<1>7. ASSUME NEW e \in End
      PROVE  Orderly(e)
  <2>1. efcpi[e] = s /\ efcpi[Peer(e)] = s /\ dataNet[e] = {} /\ ctrlNet[e] = {}
    BY <1>7, PeerType DEF Init, s
  <2>2. \A n \in 1..MaxSdu : delivered[e][n] = 0
    BY <1>7 DEF Init
  <2>3. Received(e) = {}
    BY <2>2 DEF Received
  <2> QED BY <1>1, <1>6, <2>1, <2>2, <2>3, ConnectionAssumption DEF Orderly
<1> QED BY <1>7 DEF Init, DeliveryInv

LEMMA DeliveryNext ==
    ASSUME SafeRun, SoundInv, DeliveryInv, [Next]_vars
    PROVE  DeliveryInv' /\ \E e \in End : Got(e) \/ Wrote(e)
<1>1. /\ \A e \in End : Sound(efcpi[e])
      /\ \A e \in End : efcpi[e].sdus \in Nat
      /\ \A e \in End : dataNet[e] \in SUBSET DataPDU
      /\ \A e \in End : ctrlNet[e] \in SUBSET CtrlPDU
      /\ delivered \in [End -> [1..MaxSdu -> Nat]]
  <2>1. \A e \in End : Sound(efcpi[e])
    BY DEF SoundInv, TypeOK, Sound
  <2>2. \A e \in End : efcpi[e].sdus \in Nat
    BY <2>1 DEF Sound, EFCPI
  <2> QED BY <2>1, <2>2 DEF SoundInv, TypeOK
<1>2. \A e \in End : /\ efcpi[e].sdus <= MaxSdu /\ efcpi[e].toUser = {}
                     /\ Settled(efcpi[e], efcpi[e].sdus, efcpi[e].sdus, efcpi[Peer(e)].sdus,
                                Received(e))
                     /\ (\E p \in dataNet[e] : p.drf = TRUE) => efcpi[e].maxSeqNumRcvd = 0
  BY DEF DeliveryInv, Orderly
<1>3. ASSUME NEW e \in End, Write(e)
      PROVE  DeliveryInv' /\ Wrote(e)
  <2> DEFINE s == HandleMsgFromUp(efcpi[e])
             sent == efcpi[e].sdus + 1
  <2>1. /\ Sound(s) /\ s.toUser = {}
        /\ Settled(s, efcpi[e].sdus, sent, efcpi[Peer(e)].sdus, Received(e))
    BY <1>1, <1>2, HandleMsgFromUpSound, HandleMsgFromUpSettles DEF SafeRun
  <2>2. s.maxSeqNumRcvd = efcpi[e].maxSeqNumRcvd \/ ~(\E p \in dataNet[e] : p.drf = TRUE)
    <3> SUFFICES ASSUME \E p \in dataNet[e] : p.drf = TRUE
                 PROVE  s.maxSeqNumRcvd = 0
      BY <1>2
    <3>1. efcpi[e].maxSeqNumRcvd = 0
      BY <1>2
    <3>2. Settled(efcpi[e], efcpi[e].sdus, efcpi[e].sdus, 0, Received(e))
      BY <1>2, <3>1 DEF Settled, Receives, Queued
    <3>3. Settled(s, efcpi[e].sdus, sent, 0, Received(e))
      BY <1>1, <3>2, HandleMsgFromUpSettles DEF SafeRun
    <3>4. s.maxSeqNumRcvd <= 0 /\ s.maxSeqNumRcvd \in Nat
      BY <2>1, <3>3 DEF Settled, Receives, Queued, Sound, EFCPI
    <3> QED BY <3>4
  <2>3. sent \in Nat /\ sent <= MaxSdu
    BY <1>1, <1>3, ConnectionAssumption DEF Write
  <2>4. Handle(e, s, dataNet[e], ctrlNet[e]) /\ idle' = idle
    BY <1>3 DEF Write
  <2>5. (\E p \in dataNet[e] : p.drf = TRUE) => s.maxSeqNumRcvd = 0
    BY <1>2, <2>2
  <2> HIDE DEF s
  <2> QED BY <2>1, <2>3, <2>4, <2>5, HandleDelivery
<1>4. ASSUME NEW e \in End, NEW p \in dataNet[e], RcvData(e, p)
      PROVE  DeliveryInv' /\ Got(e)
  <2> DEFINE s == HandleDataTransferPDUFromRMT(efcpi[e], p)
             n == efcpi[Peer(e)].sdus
             left == dataNet[e] \ {p}
  <2>1. p \in DataPDU /\ left \in SUBSET dataNet[e] /\ n \in Nat
    BY <1>1, PeerType
  <2>2. \A d \in dataNet[e] : OwnPDU(d, n)
    BY DEF DeliveryInv, Orderly
  <2>3. p.drf = TRUE => efcpi[e].maxSeqNumRcvd = 0
    BY <1>2
  <2>4. Sound(s) /\ Settled(s, efcpi[e].sdus, efcpi[e].sdus, n, Received(e))
    BY <1>1, <1>2, <2>1, <2>2, <2>3, HandleDataTransferPDUFromRMTSound,
       HandleDataTransferPDUFromRMTSettles DEF SafeRun
  \* The PDU with DRF comes before the rest, and there is one.
  <2>5. ASSUME NEW d \in left, d.drf = TRUE
        PROVE  FALSE
    <3>1. p.drf = TRUE
      BY <1>4, <2>5 DEF RcvData, SafeRun
    <3>2. d \in DataPDU /\ OwnPDU(d, n) /\ OwnPDU(p, n)
      BY <1>1, <2>2
    <3>3. /\ d.seq = p.seq /\ d.sdu = p.sdu /\ d.copy = p.copy /\ d.drf = p.drf
      BY <2>5, <3>1, <3>2 DEF OwnPDU
    <3>4. d = p
      BY <2>1, <3>2, <3>3 DEF DataPDU
    <3> QED BY <3>4
  <2>6. Handle(e, s, left, ctrlNet[e]) /\ idle' = idle
    BY <1>4 DEF RcvData
  <2> HIDE DEF s, left
  <2> QED BY <1>1, <1>2, <2>1, <2>4, <2>5, <2>6, HandleDelivery
<1>5. ASSUME NEW e \in End, NEW p \in ctrlNet[e], RcvCtrl(e, p)
      PROVE  DeliveryInv' /\ (Got(e) \/ Wrote(e))
  <2> DEFINE s == HandleControlPDUFromRMT(efcpi[e], p)
             rest == ctrlNet[e] \ {p}
  <2>1. p \in CtrlPDU /\ rest \in SUBSET ctrlNet[e] /\ (p.type = "ack" \/ p.rwe >= 1)
    BY <1>1 DEF DeliveryInv, Orderly
  <2>2. Sound(s) /\ s.toUser = {}
    BY <1>1, <1>2, <2>1, HandleControlPDUFromRMTSound, HandleControlPDUFromRMTSettles, ZenonT(60)
       DEF SafeRun
  <2>3. PICK sent \in Nat :
          /\ sent = efcpi[e].sdus \/ (IsLost(efcpi[e], p) /\ sent = efcpi[e].sdus + 1)
          /\ Settled(s, efcpi[e].sdus, sent, efcpi[Peer(e)].sdus, Received(e))
    BY <1>1, <1>2, <2>1, HandleControlPDUFromRMTSettles DEF SafeRun
  <2>4. (\E d \in dataNet[e] : d.drf = TRUE) => s.maxSeqNumRcvd = 0
    <3> SUFFICES ASSUME \E d \in dataNet[e] : d.drf = TRUE
                 PROVE  s.maxSeqNumRcvd = 0
      OBVIOUS
    <3>1. efcpi[e].maxSeqNumRcvd = 0
      BY <1>2
    <3>2. Settled(efcpi[e], efcpi[e].sdus, efcpi[e].sdus, 0, Received(e))
      BY <1>2, <3>1 DEF Settled, Receives, Queued
    <3>3. PICK k \in Nat : Settled(s, efcpi[e].sdus, k, 0, Received(e))
      BY <1>1, <2>1, <3>2, HandleControlPDUFromRMTSettles DEF SafeRun
    <3> HIDE DEF s
    <3>4. s.maxSeqNumRcvd <= 0 /\ s.maxSeqNumRcvd \in Nat
      BY <2>2, <3>3 DEF Settled, Receives, Queued, Sound, EFCPI
    <3> QED BY <3>4
  <2>5. sent <= MaxSdu
    BY <1>1, <1>2, <1>5, <2>3, ConnectionAssumption DEF RcvCtrl
  <2>6. Handle(e, s, dataNet[e], rest) /\ idle' = idle
    BY <1>5 DEF RcvCtrl
  <2> HIDE DEF s, rest
  <2>7. /\ DeliveryInv'
        /\ sent = efcpi[e].sdus => Got(e)
        /\ sent = efcpi[e].sdus + 1 => Wrote(e)
    BY <2>1, <2>2, <2>3, <2>4, <2>5, <2>6, HandleDelivery
  <2> QED BY <2>3, <2>7
<1>6. ASSUME NEW e \in End, NEW x \in efcpi[e].rxQ, RxTimer(e, x)
      PROVE  DeliveryInv' /\ Got(e)
  <2> DEFINE s == RxTimerExpiry(efcpi[e], x)
  <2>1. x.pdu.drf # TRUE
    BY <1>6 DEF RxTimer, SafeRun
  <2>2. Sound(s) /\ Settled(s, efcpi[e].sdus, efcpi[e].sdus, efcpi[Peer(e)].sdus, Received(e))
    BY <1>1, <1>2, <2>1, RxTimerExpirySound, RxTimerExpirySettles
  <2>3. s.maxSeqNumRcvd = efcpi[e].maxSeqNumRcvd
    BY <1>1 DEF RxTimerExpiry, Sound, EFCPI
  <2>4. Handle(e, s, dataNet[e], ctrlNet[e]) /\ idle' = idle
    BY <1>6 DEF RxTimer
  <2> HIDE DEF s
  <2> QED BY <1>1, <1>2, <2>2, <2>3, <2>4, HandleDelivery
<1>7. ASSUME NEW e \in End, ATimer(e)
      PROVE  DeliveryInv' /\ Got(e)
  <2> DEFINE s == HandleDTPATimer(efcpi[e])
  <2>1. Sound(s) /\ Settled(s, efcpi[e].sdus, efcpi[e].sdus, efcpi[Peer(e)].sdus, Received(e))
    BY <1>1, <1>2, HandleDTPATimerSound, HandleDTPATimerSettles
  <2>2. (\E d \in dataNet[e] : d.drf = TRUE) => s.maxSeqNumRcvd = 0
    <3> SUFFICES ASSUME \E d \in dataNet[e] : d.drf = TRUE
                 PROVE  s.maxSeqNumRcvd = 0
      OBVIOUS
    <3>1. efcpi[e].maxSeqNumRcvd = 0
      BY <1>2
    <3>2. Settled(efcpi[e], efcpi[e].sdus, efcpi[e].sdus, 0, Received(e))
      BY <1>2, <3>1 DEF Settled, Receives, Queued
    <3>3. Settled(s, efcpi[e].sdus, efcpi[e].sdus, 0, Received(e))
      BY <1>1, <3>2, HandleDTPATimerSettles
    <3> HIDE DEF s
    <3>4. s.maxSeqNumRcvd <= 0 /\ s.maxSeqNumRcvd \in Nat
      BY <2>1, <3>3 DEF Settled, Receives, Queued, Sound, EFCPI
    <3> QED BY <3>4
  <2>3. Handle(e, s, dataNet[e], ctrlNet[e]) /\ idle' = idle
    BY <1>7 DEF ATimer
  <2> HIDE DEF s
  <2> QED BY <1>1, <1>2, <2>1, <2>2, <2>3, HandleDelivery
<1>8. ASSUME NEW e \in End, RcvrInactivityTimer(e) \/ SenderInactivityTimer(e)
      PROVE  FALSE
  BY <1>8 DEF RcvrInactivityTimer, SenderInactivityTimer, SafeRun, DeliveryInv
<1>9. ASSUME NEW e \in End, Lose(e)
      PROVE  DeliveryInv' /\ Got(e)
  <2>1. efcpi' = efcpi /\ delivered' = delivered /\ idle' = idle
    BY <1>9 DEF Lose
  <2>2. \A d \in End : dataNet'[d] \subseteq dataNet[d] /\ ctrlNet'[d] \subseteq ctrlNet[d]
    BY <1>9 DEF Lose, SoundInv, TypeOK
  <2>3. \A d \in End : Orderly(d)'
    BY <2>1, <2>2 DEF DeliveryInv, Orderly, Received
  <2>4. Got(e)
    <3>1. \A n \in 1..MaxSdu : delivered[e][n] \in Nat
      BY <1>1
    <3> QED BY <2>1, <3>1 DEF Got
  <2> QED BY <2>1, <2>3, <2>4 DEF DeliveryInv
<1>10. ASSUME UNCHANGED vars
       PROVE  DeliveryInv' /\ Got(1)
  <2>1. UNCHANGED <<efcpi, dataNet, ctrlNet, delivered, idle>>
    BY <1>10 DEF vars
  <2>2. DeliveryInv'
    BY <2>1 DEF DeliveryInv, Orderly, Received
  <2>3. Got(1)
    <3>1. 1 \in End
      BY DEF End
    <3>2. \A n \in 1..MaxSdu : delivered[1][n] \in Nat
      BY <1>1, <3>1
    <3> QED BY <2>1, <3>2 DEF Got
  <2> QED BY <2>2, <2>3
<1> QED BY <1>3, <1>4, <1>5, <1>6, <1>7, <1>8, <1>9, <1>10 DEF Next, End

-----------------------------------------------------------------------------
LEMMA DeliveryHolds == ASSUME SafeRun PROVE Spec => [](SoundInv /\ DeliveryInv)
<1>1. Init => SoundInv /\ DeliveryInv
  BY SoundInit, DeliveryInit
<1>2. SoundInv /\ DeliveryInv /\ [Next]_vars => (SoundInv /\ DeliveryInv)'
  BY SoundNext, DeliveryNext
<1> QED BY <1>1, <1>2, PTL DEF Spec

\* What Orderly says of the counts.
LEMMA OrderlyCounts ==
    ASSUME SoundInv, DeliveryInv, NEW e \in End
    PROVE  /\ \A n \in 1..MaxSdu : /\ delivered[e][n] \in Nat /\ delivered[e][n] <= 1
                                   /\ delivered[e][n] > 0 => n <= efcpi[e].rcvLeftWinEdge
           /\ NoGap(efcpi[e].rcvLeftWinEdge, Received(e))
           /\ efcpi[e].rcvLeftWinEdge \in Nat /\ efcpi[e].rcvLeftWinEdge <= efcpi[Peer(e)].sdus
<1>1. /\ efcpi[e].rcvLeftWinEdge \in Nat /\ efcpi[e].maxSeqNumRcvd \in Nat
      /\ efcpi[Peer(e)].sdus \in Nat
  <2>1. Sound(efcpi[e]) /\ Sound(efcpi[Peer(e)])
    BY PeerType DEF SoundInv, TypeOK, Sound
  <2> QED BY <2>1 DEF Sound, EFCPI
<1>2. Orderly(e) /\ delivered[e] \in [1..MaxSdu -> Nat]
  BY DEF DeliveryInv, SoundInv, TypeOK
<1>3. /\ Up(efcpi[e], Received(e)) = Received(e)
      /\ Receives(efcpi[e], efcpi[Peer(e)].sdus, Received(e))
  BY <1>2 DEF Orderly, Up, Settled
<1>4. \A n \in Received(e) : n <= efcpi[e].rcvLeftWinEdge
  BY <1>1, <1>3 DEF Receives, HandsUp
<1>5. NoGap(efcpi[e].rcvLeftWinEdge, Received(e))
  BY <1>3 DEF Receives
<1>6. efcpi[e].rcvLeftWinEdge <= efcpi[Peer(e)].sdus
  BY <1>1, <1>3 DEF Receives, Queued
<1>7. ASSUME NEW n \in 1..MaxSdu
      PROVE  /\ delivered[e][n] \in Nat /\ delivered[e][n] <= 1
             /\ delivered[e][n] > 0 => n <= efcpi[e].rcvLeftWinEdge
  BY <1>2, <1>4 DEF Orderly, Received
<1> QED BY <1>1, <1>5, <1>6, <1>7

LEMMA InOrder ==
    ASSUME SoundInv, DeliveryInv, MaxAllowGap = 0, NEW e \in End, NEW n \in 1..MaxSdu
    PROVE  delivered[e][n] = IF n <= efcpi[e].rcvLeftWinEdge THEN 1 ELSE 0
<1>1. /\ delivered[e][n] \in Nat /\ delivered[e][n] <= 1
      /\ delivered[e][n] > 0 => n <= efcpi[e].rcvLeftWinEdge
      /\ efcpi[e].rcvLeftWinEdge \in Nat
      /\ NoGap(efcpi[e].rcvLeftWinEdge, Received(e))
  BY OrderlyCounts
<1>2. ASSUME n <= efcpi[e].rcvLeftWinEdge
      PROVE  delivered[e][n] > 0
  <2>1. n \in 1..efcpi[e].rcvLeftWinEdge /\ n + MaxAllowGap <= efcpi[e].rcvLeftWinEdge
    BY <1>1, <1>2
  <2>2. PICK k \in n..(n + MaxAllowGap) : k \in Received(e)
    BY <1>1, <2>1 DEF NoGap
  <2>3. k = n
    BY <2>2
  <2> QED BY <2>2, <2>3 DEF Received
<1> QED BY <1>1, <1>2

\* Whatever the path loses and reorders, no SDU is handed up twice, and never more than
\* MaxAllowGap in a row are missing below the left edge that updateRcvLWE moves.
THEOREM UserMissesFew == ASSUME SafeRun PROVE Spec => []GapRespected
<1>1. ASSUME SoundInv, DeliveryInv
      PROVE  GapRespected
  <2> SUFFICES ASSUME NEW e \in End
               PROVE  /\ \A n \in 1..MaxSdu : delivered[e][n] <= 1
                      /\ \A n \in 1..MaxSdu :
                           n + MaxAllowGap <= efcpi[e].rcvLeftWinEdge =>
                               \E m \in n..(n + MaxAllowGap) : delivered[e][m] > 0
    BY DEF GapRespected
  <2>1. /\ \A n \in 1..MaxSdu : delivered[e][n] <= 1
        /\ NoGap(efcpi[e].rcvLeftWinEdge, Received(e))
        /\ efcpi[e].rcvLeftWinEdge \in Nat
    BY <1>1, OrderlyCounts
  <2>2. ASSUME NEW n \in 1..MaxSdu, n + MaxAllowGap <= efcpi[e].rcvLeftWinEdge
        PROVE  \E m \in n..(n + MaxAllowGap) : delivered[e][m] > 0
    <3>1. n \in 1..efcpi[e].rcvLeftWinEdge
      BY <2>1, <2>2, EFCPAssumption
    <3>2. PICK m \in n..(n + MaxAllowGap) : m \in Received(e)
      BY <2>1, <2>2, <3>1 DEF NoGap
    <3> QED BY <3>2 DEF Received
  <2> QED BY <2>1, <2>2
<1> QED BY <1>1, DeliveryHolds, PTL

\* When the user tolerates no gap, delimitFromRMT has handed up exactly the SDUs up to
\* the left edge, each once.
THEOREM DeliversInOrder ==
    ASSUME SafeRun, MaxAllowGap = 0
    PROVE  Spec => []InOrderDelivery
<1>1. ASSUME SoundInv, DeliveryInv
      PROVE  InOrderDelivery
  BY <1>1, InOrder DEF InOrderDelivery
<1> QED BY <1>1, DeliveryHolds, PTL

\* The duplicate tests of cases 2 and 3 of handleDataTransferPDUFromRMT drop nothing
\* that has neither been handed up nor waits on the reassembly queue.
THEOREM NothingNewDropped ==
    ASSUME SafeRun, MaxAllowGap = 0
    PROVE  Spec => []DropsOnlyDuplicates
<1>1. ASSUME SoundInv, DeliveryInv
      PROVE  DropsOnlyDuplicates
  <2> SUFFICES ASSUME NEW e \in End, NEW n \in efcpi[e].dropDup
               PROVE  delivered[e][n] > 0 \/ \E f \in efcpi[e].reassemblyPDUQ : f.sdu = n
    BY DEF DropsOnlyDuplicates
  <2>1. Orderly(e)
    BY <1>1 DEF DeliveryInv
  <2>2. /\ Up(efcpi[e], Received(e)) = Received(e)
        /\ Receives(efcpi[e], efcpi[Peer(e)].sdus, Received(e))
    BY <2>1 DEF Orderly, Up, Settled
  <2>3. n \in Received(e) \/ n \in Seqs(efcpi[e].reassemblyPDUQ)
    BY <2>2 DEF Receives, HandsUp, Drops
  <2>4. n \in Seqs(efcpi[e].reassemblyPDUQ) => \E f \in efcpi[e].reassemblyPDUQ : f.sdu = n
    BY <2>2 DEF Receives, Queued, Seqs
  <2> QED BY <2>3, <2>4 DEF Received
<1> QED BY <1>1, DeliveryHolds, PTL

InOrderOfWritten ==
    /\ TypeOK /\ InOrderDelivery
    /\ \A e \in End : /\ efcpi[e].rcvLeftWinEdge \in Nat
                      /\ efcpi[e].rcvLeftWinEdge <= efcpi[Peer(e)].sdus

\* The handlers of the two EFCPIs and the path between them implement the flow their
\* users are promised: a handler is one Put, one Get, or invisible.
THEOREM FlowImplemented ==
    ASSUME SafeRun, MaxAllowGap = 0
    PROVE  Spec => ImplementsReliableFlow
<1> DEFINE written == [e \in End |-> efcpi[e].sdus]
<1>1. Init => Flow!Init
  <2> SUFFICES ASSUME Init PROVE Flow!Init
    OBVIOUS
  <2>1. \A e \in End : efcpi[e].sdus = 0
    BY DEF Init, InitEFCPI
  <2>2. \A n \in 1..MaxSdu : ~(n <= 0)
    OBVIOUS
  <2>3. [n \in 1..MaxSdu |-> 0] = Flow!Prefix(0)
    BY <2>2 DEF Flow!Prefix
  <2> QED BY <2>1, <2>3 DEF Init, Flow!Init, Flow!End, End
<1>2. ASSUME SoundInv, DeliveryInv, InOrderOfWritten, InOrderOfWritten', [Next]_vars
      PROVE  [Flow!Next]_(<<written, delivered>>)
  <2>1. PICK e \in End : Got(e) \/ Wrote(e)
    BY <1>2, DeliveryNext
  <2>2. Peer(e) \in End /\ Peer(e) # e /\ Peer(e) = 3 - e /\ \A d \in End : d = e \/ d = Peer(e)
    BY DEF Peer, End
  <2>3. CASE Wrote(e)
    <3>1. written[e] < MaxSdu /\ written' = [written EXCEPT ![e] = @ + 1]
      BY <2>2, <2>3 DEF Wrote
    <3>2. delivered' = delivered
      BY <2>3 DEF Wrote
    <3> HIDE DEF written
    <3>3. Flow!Put(e)
      BY <3>1 DEF Flow!Put, written
    <3> QED BY <3>2, <3>3 DEF Flow!Next, Flow!End, End
  <2>4. CASE Got(e)
    <3> DEFINE m == efcpi[e].rcvLeftWinEdge
               k == efcpi'[e].rcvLeftWinEdge
    <3>1. /\ delivered \in [End -> [1..MaxSdu -> Nat]]
          /\ delivered' \in [End -> [1..MaxSdu -> Nat]]
      BY <1>2 DEF InOrderOfWritten, TypeOK
    <3>2. written' = written
      BY <2>4 DEF Got
    <3>3. m \in Nat /\ m <= written[Peer(e)] /\ written[Peer(e)] <= MaxSdu
      BY <1>2, <2>2, OrderlyCounts DEF DeliveryInv, Orderly
    <3>4. written[Peer(e)] \in Nat
      <4>1. Sound(efcpi[Peer(e)])
        BY <1>2, <2>2 DEF SoundInv, TypeOK, Sound
      <4> QED BY <2>2, <4>1 DEF Sound, EFCPI
    <3>5. k \in Nat /\ k <= written[Peer(e)]
      <4>1. k \in Nat /\ k <= efcpi'[Peer(e)].sdus
        BY <1>2 DEF InOrderOfWritten
      <4>2. efcpi'[Peer(e)].sdus = efcpi[Peer(e)].sdus
        BY <2>2, <2>4 DEF Got
      <4> QED BY <2>2, <4>1, <4>2
    <3>6. \A n \in 1..MaxSdu : delivered[e][n] = IF n <= m THEN 1 ELSE 0
      BY <1>2 DEF InOrderOfWritten, InOrderDelivery
    <3>7. \A n \in 1..MaxSdu : delivered'[e][n] = IF n <= k THEN 1 ELSE 0
      BY <1>2 DEF InOrderOfWritten, InOrderDelivery
    <3> HIDE DEF written, m, k
    <3>8. delivered[e] = Flow!Prefix(m) /\ delivered'[e] = Flow!Prefix(k)
      BY <3>1, <3>6, <3>7 DEF Flow!Prefix
    <3>9. delivered' = [delivered EXCEPT ![e] = Flow!Prefix(k)]
      <4>1. \A d \in End : delivered'[d] = [delivered EXCEPT ![e] = Flow!Prefix(k)][d]
        BY <2>2, <2>4, <3>1, <3>8 DEF Got
      <4> QED BY <3>1, <4>1
    <3>10. m <= k
      <4>1. CASE m > k
        <5>1. m \in 1..MaxSdu
          BY <3>3, <3>4, <3>5, <4>1, ConnectionAssumption
        <5>2. delivered[e][m] = 1 /\ delivered'[e][m] = 0
          BY <3>3, <3>5, <3>6, <3>7, <4>1, <5>1
        <5> QED BY <2>4, <5>1, <5>2 DEF Got
      <4> QED BY <3>3, <3>5, <4>1
    <3>11. CASE m = k
      <4>1. delivered' = delivered
        BY <3>1, <3>8, <3>9, <3>11
      <4> QED BY <3>2, <4>1
    <3>12. CASE m < k
      <4>1. m \in 0..written[3 - e] /\ k \in 0..written[3 - e]
        BY <2>2, <3>3, <3>4, <3>5
      <4>2. Flow!Get(e)
        BY <3>8, <3>9, <3>12, <4>1 DEF Flow!Get, written
      <4> QED BY <3>2, <4>2 DEF Flow!Next, Flow!End, End, written
    <3> QED BY <3>3, <3>5, <3>10, <3>11, <3>12
  <2> QED BY <2>1, <2>3, <2>4
<1> HIDE DEF written
<1>3. ASSUME SoundInv, DeliveryInv
      PROVE  InOrderOfWritten
  BY <1>3, InOrder, OrderlyCounts DEF InOrderOfWritten, InOrderDelivery, SoundInv
<1> QED BY <1>1, <1>2, <1>3, DeliveryHolds, PTL DEF Spec, ImplementsReliableFlow, Flow!Spec, written
=============================================================================
