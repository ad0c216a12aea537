-------------------------------- MODULE DTP --------------------------------
(***************************************************************************)
(* The handlers of one EFCP instance: DTP (data transfer), DTCP (data      *)
(* transfer control) and the default policies they call.  Each operator    *)
(* maps the state record before the code runs to the one after.  The flow  *)
(* is not rate based and rendezvousEnabled has its default FALSE, so no    *)
(* RendezvousPDU is sent and rendezvousCondition returns at once.          *)
(***************************************************************************)
EXTENDS EFCPState

\* ----- Sending ------------------------------------------------------------

SendCtrl(s, type, ack, rwe) ==
    [s EXCEPT !.nextSenderControlSeqNum = @ + 1,
              !.outCtrl = @ \cup {[type |-> type, seq |-> s.nextSenderControlSeqNum,
                                   ack |-> ack, rwe |-> rwe]}]

SendFCOnlyPDU(s) == SendCtrl(s, "fc", 0, s.rcvRightWinEdge)

\* Mutant: the highest number received is acknowledged, not the left edge.
SendAckFlowPDU_AcksMax(s) ==
    SendCtrl(s, IF WinBased THEN "ackflow" ELSE "ack", s.maxSeqNumRcvd, s.rcvRightWinEdge)

SendAckFlowPDU(s) ==
    CASE RxPresent /\ WinBased   -> SendCtrl(s, "ackflow", s.rcvLeftWinEdge, s.rcvRightWinEdge)
      [] ~RxPresent /\ WinBased  -> SendFCOnlyPDU(s)
      [] RxPresent /\ ~WinBased  -> SendCtrl(s, "ack", s.rcvLeftWinEdge, 0)
      [] ~RxPresent /\ ~WinBased -> s

SendControlAckPDU(s) ==
    SendCtrl(s, "controlack", s.rcvLeftWinEdge, s.rcvRightWinEdge)

\* The end of trySendGenPDUs for one postable PDU: a copy is kept on rxQ when
\* retransmission control is on, and the PDU goes to the RMT.
PostPDU(s, pdu) ==
    LET kept == IF RxPresent THEN PushBackToRxQ(s, pdu) ELSE s
    IN  [kept EXCEPT !.outData = @ \cup {pdu}]

\* An empty PDU takes a sequence number of the data stream and is sent whatever
\* the window.
SendEmptyDTPDU(s) ==
    [PostPDU(TookPDU(s), NextPDU(s)) EXCEPT !.empty = @ \cup {s.sdus + 1}]

\* Mutant: only the window's edge is looked at, not whether PDUs are waiting.
TrySendGenPDU_EdgeOnly(s, pdu) ==
    IF WinBased /\ pdu.seq > s.sndRightWinEdge
    THEN [s EXCEPT !.closedWindow = TRUE,
                   !.closedWindowQ = Append(@, pdu),
                   !.blockingPort = @ \/ Len(s.closedWindowQ) >= MaxClosedWinQueLen - 1]
    ELSE PostPDU(s, pdu)

\* trySendGenPDUs for the PDU just generated: TxControl posts it when the window is
\* open; otherwise the window closes and the PDU waits on closedWindowQ, the last
\* place of which is filled by SndFCOverrun, which stops the user.
TrySendGenPDU(s, pdu) ==
    IF WinBased /\ (pdu.seq > s.sndRightWinEdge \/ s.closedWindow)
    THEN [s EXCEPT !.closedWindow = TRUE,
                   !.closedWindowQ = Append(@, pdu),
                   !.blockingPort = @ \/ Len(s.closedWindowQ) >= MaxClosedWinQueLen - 1]
    ELSE [PostPDU(s, pdu) EXCEPT
            !.closedWindow = @ \/ (WinBased /\ IsClosedWinQClosed(s))]

\* How many PDUs at the front of closedWindowQ the window admits.
Postable(s) ==
    LET q == s.closedWindowQ
    IN  CHOOSE k \in 0..Len(q) :
          /\ \A i \in 1..k : q[i].seq <= s.sndRightWinEdge
          /\ k < Len(q) => q[k + 1].seq > s.sndRightWinEdge

\* Mutant: the window opens and nothing is sent.
TrySendClosedWindowQ_Keeps(s) == [s EXCEPT !.closedWindow = FALSE]

\* Mutant: the user is told to go on without a look at how long the queue still is.
TrySendClosedWindowQ_Unblocks(s) == [s EXCEPT !.blockingPort = FALSE]

\* trySendGenPDUs for closedWindowQ, and the notifyStartSending that follows it.
TrySendClosedWindowQ(s) ==
    LET q == s.closedWindowQ
        k == Postable(s)
        posted == {q[i] : i \in 1..k}
        rest == SubSeq(q, k + 1, Len(q))
    IN  [s EXCEPT
          !.outData = @ \cup posted,
          !.rxQ = IF RxPresent
                  THEN @ \cup {[pdu |-> q[i], expiryCount |-> 0, pos |-> s.pushed + i] : i \in 1..k}
                  ELSE @,
          !.pushed = IF RxPresent THEN @ + k ELSE @,
          !.closedWindowQ = rest,
          !.closedWindow = rest # <<>>,
          !.blockingPort = @ /\ Len(rest) >= MaxClosedWinQueLen]

HandleMsgFromUp(s) ==
    [TrySendGenPDU(TookPDU(s), NextPDU(s)) EXCEPT !.senderTimer = TRUE]

\* ----- Receiving data -----------------------------------------------------

\* Mutant: what has been handed up stays on the queue.
DelimitFromRMT_Keeps(s) ==
    [s EXCEPT !.toUser = @ \cup {f \in s.reassemblyPDUQ : f.seq <= s.rcvLeftWinEdge}]

DelimitFromRMT(s) ==
    LET complete == {f \in s.reassemblyPDUQ : f.seq <= s.rcvLeftWinEdge}
    IN  [s EXCEPT !.toUser = @ \cup complete, !.reassemblyPDUQ = @ \ complete]

\* Mutant: credit is counted from the highest number received.
RcvrFC_FromMax(s) == [s EXCEPT !.rcvRightWinEdge = s.maxSeqNumRcvd + RcvCredit]

RcvrFC(s) == [s EXCEPT !.rcvRightWinEdge = s.rcvLeftWinEdge + RcvCredit]

\* RcvrAck policy.  With A > 0 the first PDU starts the one A-timer and the
\* acknowledgement waits for its expiry (onATimer).
RcvrAck(s, onATimer) ==
    IF ATime /\ ~onATimer
    THEN [s EXCEPT !.aTimer = TRUE]
    ELSE [SendAckFlowPDU(s) EXCEPT !.aTimer = FALSE]

SvUpdate(s, onATimer) ==
    LET left  == UpdateRcvLWE(s)
        right == IF WinBased THEN RcvrFC(left) ELSE left
    IN  IF RxPresent THEN RcvrAck(right, onATimer) ELSE SendFCOnlyPDU(right)

\* The end of every branch that keeps the PDU: update the window or, without DTCP,
\* move the left edge; hand up what is complete; restart the inactivity timer.
Accept(s, edgeWithoutDTCP) ==
    LET updated == IF DtcpPresent THEN SvUpdate(s, FALSE)
                   ELSE [s EXCEPT !.rcvLeftWinEdge = edgeWithoutDTCP]
    IN  [DelimitFromRMT(updated) EXCEPT !.rcvrTimer = TRUE]

\* Case 1: DRF is set - either first PDU or new run.
RcvDRF(s, pdu) ==
    LET flushed == [DelimitFromRMT(s) EXCEPT !.reassemblyPDUQ = {}]
        newRun  == SetMaxSeqNumRcvd(flushed, pdu.seq)
        edge    == [newRun EXCEPT !.rcvLeftWinEdge = newRun.maxSeqNumRcvd]
    IN  Accept(AddPDUToReassemblyQ(edge, pdu), pdu.seq)

\* Cases 2 and 3: a duplicate is dropped and the current window is sent again.  The
\* inactivity timer, cancelled when the PDU came in, is not restarted.
DropDuplicate(s, pdu) ==
    SendAckFlowPDU([s EXCEPT !.dropDup = @ \cup {pdu.sdu}, !.rcvrTimer = FALSE])

\* Mutant: a PDU below the left edge is not recognised.
IsDuplicate_NotBelowEdge(s, pdu) ==
    \/ pdu.seq = s.maxSeqNumRcvd
    \/ pdu.seq < s.maxSeqNumRcvd /\ pdu.seq \in Seqs(s.reassemblyPDUQ)

\* Mutant: every PDU older than the newest one is taken for a duplicate.
IsDuplicate_Gaps(s, pdu) == pdu.seq <= s.maxSeqNumRcvd

IsDuplicate(s, pdu) ==
    \/ pdu.seq <= s.rcvLeftWinEdge
    \/ pdu.seq = s.maxSeqNumRcvd
    \/ pdu.seq < s.maxSeqNumRcvd /\ pdu.seq \in Seqs(s.reassemblyPDUQ)

\* Cases 3 (goes in a gap), 4 (in order) and 5 (out of order).
RcvNext(s, pdu) ==
    LET rcvd == SetMaxSeqNumRcvd(s, pdu.seq)
        edge == IF pdu.seq > s.maxSeqNumRcvd + 1 THEN s.rcvLeftWinEdge
                ELSE rcvd.maxSeqNumRcvd
    IN  Accept(AddPDUToReassemblyQ(rcvd, pdu), edge)

HandleDataTransferPDUFromRMT(s, pdu) ==
    IF WinBased /\ pdu.seq > s.rcvRightWinEdge
    THEN SendAckFlowPDU([s EXCEPT !.rcvrTimer = TRUE])      \* RcvFCOverrun policy
    ELSE IF pdu.drf THEN RcvDRF(s, pdu)
    ELSE IF IsDuplicate(s, pdu) THEN DropDuplicate(s, pdu)
    ELSE RcvNext(s, pdu)

\* ----- Receiving control --------------------------------------------------

AckPDU(s, n) == [s EXCEPT !.rxQ = {x \in @ : x.pdu.seq > n}]

SenderAck(s, pdu) == UpdateSndLWE(AckPDU(s, pdu.ack), pdu.ack + 1)

RcvrControlAck(s, pdu) ==
    LET acked == IF pdu.ack > s.sndLeftWinEdge
                 THEN UpdateSndLWE(AckPDU(s, pdu.ack - 1), pdu.ack)
                 ELSE s
    IN  SendAckFlowPDU([acked EXCEPT !.sndRightWinEdge = pdu.rwe])

LostControlPDU(s) == SendEmptyDTPDU(SendControlAckPDU(s))

IsLost(s, pdu) == pdu.seq > s.lastControlSeqNumRcv + 1

CommonRcvControl(s, pdu) ==
    [(IF IsLost(s, pdu) THEN LostControlPDU(s) ELSE s)
        EXCEPT !.lastControlSeqNumRcv = pdu.seq]

\* The flow control part of an FC or ACK/FC PDU.
RcvFlowControl(s, pdu) ==
    LET edge == [s EXCEPT !.sndRightWinEdge = pdu.rwe]
    IN  IF s.closedWindowQ = <<>> THEN edge ELSE TrySendClosedWindowQ(edge)

HandleControlPDUFromRMT(s, pdu) ==
    LET c == CommonRcvControl(s, pdu)
    IN  CASE pdu.seq <= s.lastControlSeqNumRcv -> s
          [] pdu.seq > s.lastControlSeqNumRcv /\ pdu.type = "controlack" ->
                RcvrControlAck(c, pdu)
          [] pdu.seq > s.lastControlSeqNumRcv /\ pdu.type = "ack" ->
                SenderAck(c, pdu)
          [] pdu.seq > s.lastControlSeqNumRcv /\ pdu.type = "fc" ->
                RcvFlowControl(c, pdu)
          [] pdu.seq > s.lastControlSeqNumRcv /\ pdu.type = "ackflow" ->
                RcvFlowControl(SenderAck(c, pdu), pdu)

\* ----- Timers -------------------------------------------------------------

\* Mutant: the expiry count runs down.
RxTimerExpiry_CountsDown(s, x) ==
    IF x.expiryCount = DataReXmitMax + 1
    THEN [s EXCEPT !.rxQ = @ \ {x}, !.gaveUp = @ \cup {x.pdu.sdu}]
    ELSE [s EXCEPT !.rxQ = (@ \ {x}) \cup {[x EXCEPT !.expiryCount = @ - 1]},
                   !.outData = @ \cup {[x.pdu EXCEPT !.copy = x.expiryCount + 1]}]

\* RxTimerExpiry policy for the entry x of rxQ.
RxTimerExpiry(s, x) ==
    IF x.expiryCount = DataReXmitMax + 1
    THEN [s EXCEPT !.rxQ = @ \ {x}, !.gaveUp = @ \cup {x.pdu.sdu}]
    ELSE [s EXCEPT !.rxQ = (@ \ {x}) \cup {[x EXCEPT !.expiryCount = @ + 1]},
                   !.outData = @ \cup {[x.pdu EXCEPT !.copy = x.expiryCount + 1]}]

\* SendingAck policy.
HandleDTPATimer(s) ==
    [DelimitFromRMT(SvUpdate(s, TRUE)) EXCEPT !.senderTimer = TRUE]

RcvrInactivity(s) == [ResetRcvVars(s) EXCEPT !.rcvrTimer = FALSE]

SenderInactivity(s) == [ResetSndVars(s) EXCEPT !.senderTimer = FALSE]

=============================================================================
