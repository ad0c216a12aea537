--------------------------- MODULE EFCPConnection ---------------------------
(***************************************************************************)
(* An EFCP connection: the EFCP instances at the two ends of a flow and    *)
(* the path between them.  The path (RMTs, relays and channels of the DIFs *)
(* below) may lose and reorder PDUs; it never duplicates one.  Every       *)
(* handler of an EFCPI runs to completion, as an event of the simulation   *)
(* does, and each is one action.                                           *)
(***************************************************************************)
EXTENDS DTP, FiniteSets

CONSTANTS
    Writers,      \* the ends whose user writes SDUs
    HonourBlock,  \* the user stops writing when told to (an (N)-RMT port does)
    DRFPduSafe,   \* the path delivers a PDU with DRF before the rest of its run, and its
                  \* acknowledgement before its timer expires
    MaxWrite,     \* bound: no write once the EFCPI has sent this many SDUs
    MaxSdu,       \* bound: SDUs, empty ones included, that an EFCPI sends
    MaxEmpty,     \* bound: empty SDUs the two EFCPIs send
    MaxLoss,      \* bound: PDUs the path loses
    MaxIdle       \* bound: expiries of inactivity timers

ASSUME ConnectionAssumption ==
    /\ Writers \subseteq 1..2
    /\ HonourBlock \in BOOLEAN
    /\ DRFPduSafe \in BOOLEAN
    /\ MaxWrite \in 0..MaxSdu
    /\ MaxSdu \in Nat
    /\ MaxEmpty \in Nat
    /\ MaxLoss \in Nat
    /\ MaxIdle \in Nat

VARIABLES
    efcpi,      \* efcpi[e]: the state of the EFCPI at end e
    dataNet,    \* dataNet[e]: data transfer PDUs on the path to e
    ctrlNet,    \* ctrlNet[e]: control PDUs on the path to e
    delivered,  \* delivered[e][n]: how often SDU n was handed to the user of e
    lost,       \* how many PDUs the path has lost
    idle        \* how many inactivity timers have expired

vars == <<efcpi, dataNet, ctrlNet, delivered, lost, idle>>

End == 1..2
Peer(e) == 3 - e

Init ==
    /\ efcpi = [e \in End |-> InitEFCPI]
    /\ dataNet = [e \in End |-> {}]
    /\ ctrlNet = [e \in End |-> {}]
    /\ delivered = [e \in End |-> [n \in 1..MaxSdu |-> 0]]
    /\ lost = 0
    /\ idle = 0

\* No event follows an exception.
Running == \A e \in End : ~efcpi[e].error

\* The EFCPI at e runs a handler that leaves s: what it sent goes on the path to the
\* peer, what it handed up is with the user.  data and ctrl are what is left on the
\* path to e.
Handle(e, handled, data, ctrl) ==
    \E s \in {handled} :
      /\ efcpi' = [efcpi EXCEPT ![e] =
                     [s EXCEPT !.outData = {}, !.outCtrl = {}, !.toUser = {}]]
      /\ dataNet' = [dataNet EXCEPT ![e] = data, ![Peer(e)] = @ \cup s.outData]
      /\ ctrlNet' = [ctrlNet EXCEPT ![e] = ctrl, ![Peer(e)] = @ \cup s.outCtrl]
      /\ delivered' = [delivered EXCEPT ![e] =
            [n \in 1..MaxSdu |-> @[n] + IF \E f \in s.toUser : f.sdu = n THEN 1 ELSE 0]]

\* The user of e writes an SDU.
Write(e) ==
    /\ Running
    /\ e \in Writers
    /\ HonourBlock => ~efcpi[e].blockingPort
    /\ efcpi[e].sdus < MaxWrite
    /\ Handle(e, HandleMsgFromUp(efcpi[e]), dataNet[e], ctrlNet[e])
    /\ UNCHANGED <<lost, idle>>

RcvData(e, pdu) ==
    /\ Running
    /\ DRFPduSafe => pdu.drf \/ \A p \in dataNet[e] : ~p.drf
    /\ Handle(e, HandleDataTransferPDUFromRMT(efcpi[e], pdu), dataNet[e] \ {pdu}, ctrlNet[e])
    /\ UNCHANGED <<lost, idle>>

\* A control PDU that reveals a lost one makes the EFCPI send an empty SDU.
RcvCtrl(e, pdu) ==
    /\ Running
    /\ IsLost(efcpi[e], pdu) =>
          /\ efcpi[e].sdus < MaxSdu
          /\ Cardinality(efcpi[1].empty) + Cardinality(efcpi[2].empty) < MaxEmpty
    /\ Handle(e, HandleControlPDUFromRMT(efcpi[e], pdu), dataNet[e], ctrlNet[e] \ {pdu})
    /\ UNCHANGED <<lost, idle>>

\* The timer of an entry of rxQ expires, whatever the path did with the PDU.
RxTimer(e, x) ==
    /\ Running
    /\ DRFPduSafe => ~x.pdu.drf
    /\ Handle(e, RxTimerExpiry(efcpi[e], x), dataNet[e], ctrlNet[e])
    /\ UNCHANGED <<lost, idle>>

ATimer(e) ==
    /\ Running
    /\ efcpi[e].aTimer
    /\ Handle(e, HandleDTPATimer(efcpi[e]), dataNet[e], ctrlNet[e])
    /\ UNCHANGED <<lost, idle>>

\* 2(MPL+R+A) without a data PDU: none is on the path, and the peer has none to
\* retransmit.
RcvrInactivityTimer(e) ==
    /\ Running
    /\ idle < MaxIdle
    /\ efcpi[e].rcvrTimer /\ ~efcpi[e].aTimer
    /\ dataNet[e] = {} /\ efcpi[Peer(e)].rxQ = {}
    /\ Handle(e, RcvrInactivity(efcpi[e]), dataNet[e], ctrlNet[e])
    /\ idle' = idle + 1
    /\ UNCHANGED lost

\* 3(MPL+R+A) without a write: nothing of the run is left on the path or on rxQ, and
\* the peer's timer, if it was running, has expired before.
SenderInactivityTimer(e) ==
    /\ Running
    /\ idle < MaxIdle
    /\ efcpi[e].senderTimer
    /\ efcpi[e].rxQ = {} /\ dataNet[Peer(e)] = {} /\ ctrlNet[e] = {}
    /\ ~efcpi[Peer(e)].rcvrTimer
    /\ Handle(e, SenderInactivity(efcpi[e]), dataNet[e], ctrlNet[e])
    /\ idle' = idle + 1
    /\ UNCHANGED lost

Lose(e) ==
    /\ Running
    /\ lost < MaxLoss
    /\ \/ \E p \in dataNet[e] :
            /\ DRFPduSafe => ~p.drf
            /\ dataNet' = [dataNet EXCEPT ![e] = @ \ {p}]
            /\ UNCHANGED ctrlNet
       \/ \E p \in ctrlNet[e] :
            /\ DRFPduSafe => \A x \in efcpi[e].rxQ : ~x.pdu.drf
            /\ ctrlNet' = [ctrlNet EXCEPT ![e] = @ \ {p}]
            /\ UNCHANGED dataNet
    /\ lost' = lost + 1
    /\ UNCHANGED <<efcpi, delivered, idle>>

Next ==
    \E e \in End :
        \/ Write(e)
        \/ \E p \in dataNet[e] : RcvData(e, p)
        \/ \E p \in ctrlNet[e] : RcvCtrl(e, p)
        \/ \E x \in efcpi[e].rxQ : RxTimer(e, x)
        \/ ATimer(e)
        \/ RcvrInactivityTimer(e)
        \/ SenderInactivityTimer(e)
        \/ Lose(e)

Spec == Init /\ [][Next]_vars

\* A control PDU that reveals a lost one, held back by the bounds.
HeldBack(e, pdu) ==
    /\ IsLost(efcpi[e], pdu)
    /\ \/ efcpi[e].sdus >= MaxSdu
       \/ Cardinality(efcpi[1].empty) + Cardinality(efcpi[2].empty) >= MaxEmpty

\* An event of e is scheduled: a PDU arrives, or a timer that is not cancelled expires.
Scheduled(e) ==
    /\ Running
    /\ \/ dataNet[e] # {}
       \/ \E p \in ctrlNet[e] : ~HeldBack(e, p)
       \/ \E x \in efcpi[e].rxQ : DRFPduSafe => ~x.pdu.drf
       \/ efcpi[e].aTimer

\* The simulation goes on as long as an event is scheduled.  Users write, timers of
\* inactivity expire and PDUs are lost a bounded number of times, so what goes on
\* without a loss or such a timer is in the end events only.
Fairness ==
    \/ []<>~(\E e \in End : Scheduled(e))
    \/ []<><<UNCHANGED <<lost, idle>>>>_vars

FairSpec == Spec /\ Fairness

-----------------------------------------------------------------------------
\* Types; above all no counter, window edge or sequence number is taken below zero.
TypeOK ==
    /\ efcpi \in [End -> EFCPI]
    /\ dataNet \in [End -> SUBSET DataPDU]
    /\ ctrlNet \in [End -> SUBSET CtrlPDU]
    /\ delivered \in [End -> [1..MaxSdu -> Nat]]
    /\ lost \in Nat
    /\ idle \in Nat

Waiting(e) == {efcpi[e].closedWindowQ[i].sdu : i \in DOMAIN efcpi[e].closedWindowQ}
Unacked(e) == {x.pdu.sdu : x \in efcpi[e].rxQ}
Received(e) == {n \in 1..MaxSdu : delivered[e][n] > 0}

\* No SDU vanishes without notice: an SDU that was written waits for the window, or
\* for an acknowledgement, or has been given up after the last retransmission, or
\* has been handed to the user at the other end.
NoSilentLoss ==
    \A e \in End : 1..efcpi[e].sdus
        \subseteq Waiting(e) \cup Unacked(e) \cup efcpi[e].gaveUp \cup Received(Peer(e))

\* What delimitFromRMT hands up is, after every event, the SDUs 1..n in order and
\* each exactly once, n being the left edge of the receiver's window.
InOrderDelivery ==
    \A e \in End : \A n \in 1..MaxSdu :
        delivered[e][n] = IF n <= efcpi[e].rcvLeftWinEdge THEN 1 ELSE 0

\* Whatever the receiver drops as a duplicate, it has delivered or still keeps.
DropsOnlyDuplicates ==
    \A e \in End : \A n \in efcpi[e].dropDup :
        delivered[e][n] > 0 \/ \E f \in efcpi[e].reassemblyPDUQ : f.sdu = n

\* No SDU that was written overtakes one that waits for the window.
NoOvertaking ==
    \A e \in End : \A n \in Waiting(e) :
        n..efcpi[e].sdus \subseteq Waiting(e) \cup efcpi[e].empty

\* The user is stopped exactly when the queue is full, and a user that stops never
\* makes it longer.
PortBlockedIffQueueFull ==
    \A e \in End :
        /\ efcpi[e].blockingPort <=> Len(efcpi[e].closedWindowQ) = MaxClosedWinQueLen
        /\ Len(efcpi[e].closedWindowQ) <= MaxClosedWinQueLen

\* The receiver never has to hold more than it gave credit for.
ReassemblyBound ==
    \A e \in End : Cardinality(efcpi[e].reassemblyPDUQ) <= RcvCredit

\* The connection implements the flow its users are promised.
Flow == INSTANCE ReliableFlow WITH
            written <- [e \in End |-> efcpi[e].sdus],
            handedUp <- delivered

ImplementsReliableFlow == Flow!Spec

\* The bounds keep an end from answering a control PDU that reveals a lost one.
BoundReached == \E e \in End : \E p \in ctrlNet[e] : HeldBack(e, p)

\* SDU n waits for credit that the peer will not give, as it misses an earlier SDU
\* that was given up and of which no copy is on the path.
CutOff(e, n) ==
    /\ \E i \in DOMAIN efcpi[e].closedWindowQ :
          /\ efcpi[e].closedWindowQ[i].sdu = n
          /\ efcpi[e].closedWindowQ[i].seq > efcpi[Peer(e)].rcvRightWinEdge
    /\ \E m \in efcpi[e].gaveUp :
          /\ m < n
          /\ delivered[Peer(e)][m] = 0
          /\ \A p \in dataNet[Peer(e)] : p.sdu # m

\* SDU n waits for credit that the peer has given, but as many PDUs were lost as a PDU
\* is sent times, and nothing is left that would make the peer tell of it again.
CreditLost(e, n) ==
    /\ n \in Waiting(e)
    /\ lost >= DataReXmitMax + 2
    /\ efcpi[e].sndRightWinEdge < efcpi[Peer(e)].rcvRightWinEdge
    /\ efcpi[e].rxQ = {} /\ dataNet[Peer(e)] = {} /\ ctrlNet[e] = {}
    /\ ~efcpi[Peer(e)].aTimer

\* Every SDU that was written is handed up, or is itself given up after its last
\* retransmission; one that waits on the closed window queue gets out of it, unless the
\* peer misses an earlier SDU for good or the credit it gave was lost.  The users write
\* so many SDUs and no more, so that each must be resolved for all to be.
Resolved(e, n) ==
    \/ delivered[Peer(e)][n] > 0
    \/ n \in efcpi[e].gaveUp
    \/ CutOff(e, n)
    \/ CreditLost(e, n)

EventuallyResolved ==
    []<>(BoundReached \/ \A e \in End : \A n \in 1..efcpi[e].sdus : Resolved(e, n))

\* Without retransmission no SDU is handed up twice, and the user never misses more
\* than MaxAllowGap SDUs in a row below the left edge.
GapRespected ==
    \A e \in End :
        /\ \A n \in 1..MaxSdu : delivered[e][n] <= 1
        /\ \A n \in 1..MaxSdu :
             n + MaxAllowGap <= efcpi[e].rcvLeftWinEdge =>
                 \E m \in n..(n + MaxAllowGap) : delivered[e][m] > 0
=============================================================================
