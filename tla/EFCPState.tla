----------------------------- MODULE EFCPState -----------------------------
(***************************************************************************)
(* The state of one EFCP instance (EFCPI): the state vectors DTPState and  *)
(* DTCPState, the PDUs an EFCPI exchanges with its peer, and the methods   *)
(* of the two state vectors.                                               *)
(*                                                                         *)
(* A handler of DTP or DTCP is a function from a state record to a state   *)
(* record: the fields outData, outCtrl and toUser collect what the handler *)
(* sends south to the RMT and north to Delimiting, and are empty between   *)
(* two handlers.  A field keeps the name of the member it stands for.      *)
(***************************************************************************)
EXTENDS Integers, Sequences, FiniteSetsExt

CONSTANTS
    RxPresent,          \* QoSCube: retransmission control is on
    WinBased,           \* QoSCube: window based flow control is on
    ATime,              \* QoSCube: the acknowledgement delay A is positive
    MaxAllowGap,        \* QoSCube: SDUs the flow's user can do without in a row
    SndCredit,          \* DTCP parameter initialSenderCredit
    RcvCredit,          \* DTCP parameter rcvCredit
    MaxClosedWinQueLen, \* DTCP parameter maxClosedWinQueLen
    DataReXmitMax,      \* DTCP parameter dataReXmitMax
    UIntMax             \* UINT_MAX: the right window edge "not known yet"

ASSUME EFCPAssumption ==
    /\ RxPresent \in BOOLEAN
    /\ WinBased \in BOOLEAN
    /\ ATime \in BOOLEAN
    /\ MaxAllowGap \in Nat
    /\ SndCredit \in Nat
    /\ RcvCredit \in Nat \ {0}
    /\ MaxClosedWinQueLen \in Nat \ {0}
    /\ DataReXmitMax \in Nat
    /\ UIntMax \in Nat

-----------------------------------------------------------------------------
\* An SDU is named by its rank among the user data fields the EFCPI has put
\* into PDUs; copy is 0 for the first transmission of a PDU, n for the n-th
\* retransmission.
DataPDU == [seq : Nat, drf : BOOLEAN, copy : Nat, sdu : Nat]

\* ack is AckNackSeqNum (SndLeftWinEdge in a CONTROL_ACK_PDU), rwe is
\* RcvRightWinEdge (SndRightWinEdge in a CONTROL_ACK_PDU).  The other fields of
\* these PDUs never change the state of the EFCPI that receives them.
CtrlType == {"ack", "fc", "ackflow", "controlack"}
CtrlPDU == [type : CtrlType, seq : Nat, ack : Nat, rwe : Nat]

\* An entry of the reassembly queue.  The queue is sorted by sequence number and
\* never holds one number twice, so it is modelled as a set.
Fragment == [seq : Nat, sdu : Nat]

\* An entry of the retransmission queue: the PDU and its timer's expiry count.
\* pos is the rank in which entries were pushed; the front has the least.
RxEntry == [pdu : DataPDU, expiryCount : Nat, pos : Nat]

EFCPI == [nextSeqNumToSend : Nat, setDRFFlag : BOOLEAN,
          closedWindowQ : Seq(DataPDU), closedWindow : BOOLEAN,
          blockingPort : BOOLEAN,
          rxQ : SUBSET RxEntry, pushed : Nat,
          sndLeftWinEdge : Nat, sndRightWinEdge : Nat,
          rcvLeftWinEdge : Nat, maxSeqNumRcvd : Nat,
          reassemblyPDUQ : SUBSET Fragment, rcvRightWinEdge : Nat,
          aTimer : BOOLEAN, senderTimer : BOOLEAN, rcvrTimer : BOOLEAN,
          lastControlSeqNumRcv : Nat, nextSenderControlSeqNum : Nat,
          outData : SUBSET DataPDU, outCtrl : SUBSET CtrlPDU,
          toUser : SUBSET Fragment,
          \* What the code does not keep: SDUs put into PDUs so far, the ones that
          \* are empty, given up by retransmission control, dropped as duplicates
          \* by the receiver, and whether an exception has been thrown.
          sdus : Nat, empty : SUBSET Nat, gaveUp : SUBSET Nat,
          dropDup : SUBSET Nat, error : BOOLEAN]

InitEFCPI ==
    [nextSeqNumToSend |-> 1, setDRFFlag |-> TRUE,
     closedWindowQ |-> <<>>, closedWindow |-> FALSE,
     blockingPort |-> FALSE,
     rxQ |-> {}, pushed |-> 0,
     sndLeftWinEdge |-> 0, sndRightWinEdge |-> SndCredit,
     rcvLeftWinEdge |-> 0, maxSeqNumRcvd |-> 0,
     reassemblyPDUQ |-> {}, rcvRightWinEdge |-> UIntMax,
     aTimer |-> FALSE, senderTimer |-> FALSE, rcvrTimer |-> FALSE,
     lastControlSeqNumRcv |-> 0, nextSenderControlSeqNum |-> 1,
     outData |-> {}, outCtrl |-> {}, toUser |-> {},
     sdus |-> 0, empty |-> {}, gaveUp |-> {}, dropDup |-> {}, error |-> FALSE]

DtcpPresent == RxPresent \/ WinBased

-----------------------------------------------------------------------------
\* DTPState

Seqs(q) == {f.seq : f \in q}

\* Where the left edge stands before entry n of the queue is looked at, when every
\* entry below n has been reached.
EdgeBefore(n, q, edge) ==
    LET below == {m \in Seqs(q) : m < n}
    IN  IF below = {} THEN edge ELSE Max(below)

\* Mutant: the gap allowed is counted from the number after the next one.
Reached_OneMore(q, edge) ==
    {n \in Seqs(q) : \A m \in Seqs(q) :
        m <= n => EdgeBefore(m, q, edge) + 2 + MaxAllowGap >= m}

\* The entries the loop of updateRcvLWE moves the left edge to.
Reached(q, edge) ==
    {n \in Seqs(q) : \A m \in Seqs(q) :
        m <= n => EdgeBefore(m, q, edge) + 1 + MaxAllowGap >= m}

UpdateRcvLWE(s) ==
    LET reached == Reached(s.reassemblyPDUQ, s.rcvLeftWinEdge)
    IN  [s EXCEPT !.rcvLeftWinEdge = IF reached = {} THEN @ ELSE Max(reached)]

SetMaxSeqNumRcvd(s, n) ==
    [s EXCEPT !.maxSeqNumRcvd = IF @ > n THEN @ ELSE n]

\* A second entry with the same number is an exception, which ends the simulation.
AddPDUToReassemblyQ(s, pdu) ==
    IF pdu.seq \in Seqs(s.reassemblyPDUQ)
    THEN [s EXCEPT !.error = TRUE]
    ELSE [s EXCEPT !.reassemblyPDUQ = @ \cup {[seq |-> pdu.seq, sdu |-> pdu.sdu]}]

\* The SDUs that are put into PDUs are numbered in that order.
NextPDU(s) ==
    [seq |-> s.nextSeqNumToSend, drf |-> s.setDRFFlag, copy |-> 0, sdu |-> s.sdus + 1]

\* generatePDUsnew: the flag is cleared by the PDU that carries it, and set again
\* at once on a flow without DTCP.
TookPDU(s) ==
    [s EXCEPT !.nextSeqNumToSend = @ + 1, !.sdus = @ + 1, !.setDRFFlag = ~DtcpPresent]

\* The timer of a PDU that is never acknowledged is not reset here, nor are the
\* reassembly queue and the A-timers.
ResetRcvVars(s) ==
    [s EXCEPT !.rcvLeftWinEdge = 0, !.maxSeqNumRcvd = 0,
              !.rcvRightWinEdge = UIntMax, !.sndRightWinEdge = SndCredit,
              !.lastControlSeqNumRcv = 0]

\* Mutant: the new run does not start with DRF.
ResetSndVars_NoDRF(s) == [s EXCEPT !.nextSeqNumToSend = 1, !.sndLeftWinEdge = 0]

ResetSndVars(s) ==
    [s EXCEPT !.setDRFFlag = TRUE, !.nextSeqNumToSend = 1, !.sndLeftWinEdge = 0]

-----------------------------------------------------------------------------
\* DTCPState

PushBackToRxQ(s, pdu) ==
    [s EXCEPT !.rxQ = @ \cup {[pdu |-> pdu, expiryCount |-> 0, pos |-> s.pushed + 1]},
              !.pushed = @ + 1]

\* The left edge of the sender's window is the number at the front of rxQ.
UpdateSndLWE(s, n) ==
    [s EXCEPT !.sndLeftWinEdge =
        IF s.rxQ = {} THEN n
        ELSE (CHOOSE x \in s.rxQ : \A y \in s.rxQ : x.pos <= y.pos).pdu.seq]

IsClosedWinQClosed(s) == Len(s.closedWindowQ) >= MaxClosedWinQueLen

=============================================================================
