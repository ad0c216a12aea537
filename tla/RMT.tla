-------------------------------- MODULE RMT ---------------------------------
(***************************************************************************)
(* The relaying and multiplexing task of an IPC process: its ports with    *)
(* their input and output queues, the scheduling, queue monitoring and     *)
(* maximum queue policies that the queues' events call, the ports' timers, *)
(* and what the resource allocator does to the ports when the DIF below    *)
(* wants a flow to stop sending or to start again.                         *)
(*                                                                         *)
(* A policy is called from inside a queue's event, changes ports, and so   *)
(* may set off further reads.  Handlers are therefore operators on the     *)
(* state of the task, a record, and each event applies one of them.        *)
(***************************************************************************)
EXTENDS Naturals, Sequences, SequencesExt, FiniteSets, FiniteSetsExt

CONSTANTS
    Ports,
    Interface,      \* the port to the medium, the only one of a task that is on the wire
    QueueIds,       \* a sequence, the order in which each port's queues are created
    Flows,
    Source,         \* Source[f], the port at which the PDUs of f arrive, or "efcp"
    Route,          \* Route[f], the ports to which f is forwarded, empty when it ends here
    QueueId,        \* QueueId[f], the queue that the queue id generator names for f
    Urgency,        \* Urgency[q], of queue q for DLMonitor; all alike for BEMonitor
    Cherish,        \* Cherish[q], where DLMonitor drops; MaxLength for BEMonitor
    Policies,       \* the sets of policies, one record for each case
    MaxLength, ThreshLength,    \* of each queue
    StopAt, RestartAt,          \* of IterativeStopMonitor
    Sends,          \* Sends[f], the number of PDUs of f
    MaxSignals      \* how many stop and spurious start signals a port gets

Directions == {"in", "out"}
Qids == Range(QueueIds)
Exits == Ports \cup {"efcp"}

ASSUME RMTAssumption ==
    /\ IsFiniteSet(Ports) /\ Interface \in Ports /\ "efcp" \notin Ports
    /\ QueueIds \in Seq(Qids) /\ QueueIds # <<>> /\ IsInjective(QueueIds)
    /\ Source \in [Flows -> Exits]
    /\ Route \in [Flows -> Seq(Ports)] /\ \A f \in Flows : IsInjective(Route[f])
    /\ QueueId \in [Flows -> Qids]
    /\ Urgency \in [Qids -> Nat] /\ Cherish \in [Qids -> Nat]
    /\ Policies \subseteq
          [flows : SUBSET Flows,
           scheduler : {"LongestQFirst", "IterativeScheduling", "DumbSch"},
           maxQ : {"TailDrop", "REDDropper", "ReadRateReducer", "DumbMaxQ"},
           stop : BOOLEAN, onWire : BOOLEAN, relayOn : BOOLEAN]
    \* On the wire a PDU is for this IPC process or leaves through the interface.
    /\ \A c \in Policies : c.onWire =>
          \A f \in c.flows :
            Route[f] = <<Interface>> \/ Route[f] = <<>>
    /\ MaxLength \in Nat \ {0} /\ ThreshLength \in Nat \ {0}
    /\ StopAt \in Nat /\ RestartAt \in Nat /\ RestartAt < StopAt
    /\ Sends \in [Flows -> Nat] /\ MaxSignals \in Nat

VARIABLES
    policy,     \* the policies of this task
    rmt,        \* the ports, their queues, and what the policies keep about them
    signals,    \* signals[p], the signals that port p has got from below
    given,      \* given[f], how many PDUs of f have been given to the task
    left        \* left[f][x], the last PDU of f that has left through x

vars == <<policy, rmt, signals, given, left>>

PDU == [flow : Flows, n : Nat \ {0}]

Task ==
    [queue : [Ports -> [Directions -> [Qids -> Seq(PDU)]]],
     waiting : [Ports -> [Directions -> Nat]],    \* waitingOnInput and waitingOnOutput
     ready : [Ports -> [Directions -> BOOLEAN]],
     blocked : [Ports -> [Directions -> BOOLEAN]],
     wake : [Ports -> [Directions -> Nat]],       \* readyToServe and readyForRead events
     relay : [Ports -> Seq(PDU)],    \* released by input queues, on the way to the task
     protect : [Ports -> Seq(PDU)],  \* released by output queues, in SDU protection
     sending : [Ports -> BOOLEAN],   \* the channel transmits, portTransmitEnd will follow
     tokens : [Ports -> [Directions -> Seq(Qids)]],   \* turns, of BE- and DLMonitor
     lastQ : [Ports -> DOMAIN QueueIds],            \* of IterativeScheduling
     stopped : SUBSET (Ports \X Qids),  \* queues whose flow has been told to stop
     up : SUBSET Ports,
     aborted : {"no", "channel", "lookup"}]

Init ==
    /\ policy \in Policies
    /\ LET all(v) == [p \in Ports |-> [d \in Directions |-> v]]
           atStart == IF policy.onWire THEN {Interface} ELSE {}
       IN  rmt = [queue |-> all([q \in Qids |-> <<>>]),
                  waiting |-> all(0), wake |-> all(0), tokens |-> all(<<>>),
                  ready |-> [p \in Ports |-> [d \in Directions |-> p \in atStart]],
                  blocked |-> all(FALSE),
                  relay |-> [p \in Ports |-> <<>>], protect |-> [p \in Ports |-> <<>>],
                  sending |-> [p \in Ports |-> FALSE], lastQ |-> [p \in Ports |-> 1],
                  stopped |-> {}, up |-> atStart, aborted |-> "no"]
    /\ signals = [p \in Ports |-> 0]
    /\ given = [f \in Flows |-> 0]
    /\ left = [f \in Flows |-> [x \in Exits |-> 0]]

\* Whether PDUs of f are for this IPC process.
MatchesThisIPC(f) == Route[f] = <<>>

FwTableLookup(f) == IF policy.onWire THEN <<Interface>> ELSE Route[f]

----------------------------------------------------------------------------
(* A PDU leaves a queue.  That may unblock an input, which is read at once.  What such *)
(* a nested read does is the parameter read, a function of the task and the port.       *)

UnblockInput(read, s, p) ==
    LET unblocked == [s EXCEPT !.blocked[p]["in"] = FALSE, !.ready[p]["in"] = TRUE]
    IN  IF s.blocked[p]["in"] THEN read[unblocked][p] ELSE s

\* With none or a local PDU left in the queue there is no port to look at: the
\* code takes the front of an empty vector.
ReadRateReducer_OnQueueLengthDrop(read, s, p, d, q) ==
    LET rest == s.queue[p][d][q]
        ports == IF rest = <<>> THEN <<>> ELSE FwTableLookup(Last(rest).flow)
    IN  IF ports = <<>> THEN [s EXCEPT !.aborted = "lookup"]
        ELSE UnblockInput(read, s, Head(ports))

IterativeStop_PostPDURelease(s, p, d, q) ==
    IF policy.stop /\ d = "out" /\ Len(s.queue[p][d][q]) <= RestartAt
    THEN [s EXCEPT !.stopped = @ \ {<<p, q>>}] ELSE s

\* Mutant: the policy is notified on the wrong side of the threshold.
BackUnder_Over(length) == length = ThreshLength + 1

\* The length has just gone back under the threshold.
BackUnder(length) == length = ThreshLength - 1

PostQueueDeparture(read, s, p, d, q) ==
    LET counted == [IterativeStop_PostPDURelease(s, p, d, q) EXCEPT !.waiting[p][d] = @ - 1]
        dropped == IF policy.maxQ = "ReadRateReducer" /\ BackUnder(Len(s.queue[p][d][q]))
                   THEN ReadRateReducer_OnQueueLengthDrop(read, counted, p, d, q)
                   ELSE counted
    IN  [dropped EXCEPT !.ready[p][d] = FALSE,
                        !.wake[p][d] = IF d = "in" THEN @ + 1 ELSE @]

\* Mutant: the queue sends the PDU that came last.
SendFirst_Last(s, p, d, q) ==
    LET pdus == s.queue[p][d][q]
        popped == [s EXCEPT !.queue[p][d][q] = Front(pdus)]
    IN  IF d = "in"
        THEN [popped EXCEPT !.relay[p] = Append(@, Last(pdus))]
        ELSE [popped EXCEPT !.protect[p] = Append(@, Last(pdus))]

SendFirst(s, p, d, q) ==
    LET pdus == s.queue[p][d][q]
        popped == [s EXCEPT !.queue[p][d][q] = Tail(pdus)]
    IN  IF d = "in"
        THEN [popped EXCEPT !.relay[p] = Append(@, Head(pdus))]
        ELSE [popped EXCEPT !.protect[p] = Append(@, Head(pdus))]

ReleasePDU(read, s, p, d, q) ==
    IF s.queue[p][d][q] = <<>> THEN s
    ELSE PostQueueDeparture(read, SendFirst(s, p, d, q), p, d, q)

----------------------------------------------------------------------------
(* The scheduling policies. *)

\* The first of the longest queues.
GetLongestQueue(s, p, d) ==
    LET Length(i) == Len(s.queue[p][d][QueueIds[i]])
        longest == Max({Length(i) : i \in DOMAIN QueueIds})
    IN  QueueIds[Min({i \in DOMAIN QueueIds : Length(i) = longest})]

\* The index of the queue that is next in turn and not empty.
IterativeScheduling_Next(s, p) ==
    LET after(k) == IF s.lastQ[p] + k <= Len(QueueIds) THEN s.lastQ[p] + k
                    ELSE s.lastQ[p] + k - Len(QueueIds)
        steps == {k \in 0 .. Len(QueueIds) - 1 :
                    s.queue[p]["out"][QueueIds[after(k)]] # <<>>}
    IN  after(Min(steps))

\* The place of the first turn among those of the most urgent queues; input queues
\* are served in the order of arrival.
NextToken(s, p, d) ==
    LET turns == s.tokens[p][d]
        urgent == Max({Urgency[turns[i]] : i \in DOMAIN turns})
    IN  IF d = "in" THEN 1 ELSE Min({i \in DOMAIN turns : Urgency[turns[i]] = urgent})

DumbSch(read, s, p, d) ==
    LET turn == NextToken(s, p, d)
    IN  ReleasePDU(read, [s EXCEPT !.tokens[p][d] = RemoveAt(@, turn)],
                   p, d, s.tokens[p][d][turn])

IterativeScheduling(read, s, p) ==
    LET turn == IterativeScheduling_Next(s, p)
        moved == [s EXCEPT !.lastQ[p] = IF turn = Len(QueueIds) THEN 1 ELSE turn + 1]
    IN  ReleasePDU(read, moved, p, "out", QueueIds[turn])

\* The scheduler has a ready port release one PDU of the queue it prefers.
Schedule(read, s, p, d) ==
    IF ~s.ready[p][d] \/ s.waiting[p][d] = 0 THEN s
    ELSE IF policy.scheduler = "DumbSch" THEN DumbSch(read, s, p, d)
    ELSE IF policy.scheduler = "IterativeScheduling" /\ d = "out"
         THEN IterativeScheduling(read, s, p)
    ELSE ReleasePDU(read, s, p, d, GetLongestQueue(s, p, d))

\* Reads nested n deep.  Each unblocks an input, so that they end at the latest when
\* there are as many of them as ports.
Reads[n \in 0 .. Cardinality(Ports)] ==
    [s \in Task |-> [p \in Ports |->
        IF n = 0 THEN s ELSE Schedule(Reads[n - 1], s, p, "in")]]

ProcessQueues(s, p, d) == Schedule(Reads[Cardinality(Ports)], s, p, d)

----------------------------------------------------------------------------
(* A PDU enters a queue. *)

\* Whether the maximum queue policy drops the last PDU; a REDDropper goes by an average
\* and by chance.
Drops(s, p, d, q, chance) ==
    LET length == Len(s.queue[p][d][q])
    IN  /\ length >= ThreshLength
        /\ \/ policy.maxQ = "TailDrop" /\ length >= MaxLength
           \/ /\ policy.maxQ = "DumbMaxQ"
              /\ Len(s.tokens[p][d]) >= IF d = "in" THEN MaxLength ELSE Cherish[q]
           \/ policy.maxQ = "REDDropper" /\ chance

\* The port that is blocked is the one through which the last PDU is to leave.
ReadRateReducer_Run(s, p, d, q) ==
    LET pdus == s.queue[p][d][q]
        first == Head(FwTableLookup(Last(pdus).flow))
    IN  IF /\ policy.maxQ = "ReadRateReducer" /\ d = "out"
           /\ Len(pdus) >= MaxLength /\ Len(pdus) >= ThreshLength
        THEN [s EXCEPT !.blocked[first]["in"] = TRUE]
        ELSE s

PostPDUInsertion(s, p, d, q) ==
    [s EXCEPT
       !.tokens[p][d] = IF policy.scheduler = "DumbSch" THEN Append(@, q) ELSE @,
       !.stopped = IF policy.stop /\ d = "out" /\ Len(s.queue[p][d][q]) >= StopAt
                   THEN @ \cup {<<p, q>>} ELSE @]

\* Mutant: a dropped PDU is taken off the count that it has not entered.
DropLast_CountsDown(s, p, d, q) ==
    [s EXCEPT !.queue[p][d][q] = Front(@), !.waiting[p][d] = @ - 1,
              !.tokens[p][d] = IF policy.scheduler = "DumbSch" THEN Front(@) ELSE @]

\* Mutant: the monitor is not told of the drop.
DropLast_KeepsTurn(s, p, d, q) ==
    [s EXCEPT !.queue[p][d][q] = Front(@),
              !.tokens[p][d] = @]

\* The monitor forgets the turn that it has just given.
DropLast(s, p, d, q) ==
    [s EXCEPT !.queue[p][d][q] = Front(@),
              !.tokens[p][d] = IF policy.scheduler = "DumbSch" THEN Front(@) ELSE @]

EnqueuePDU(s, p, d, pdu, chance) ==
    LET q == QueueId[pdu.flow]
        queued == PostPDUInsertion([s EXCEPT !.queue[p][d][q] = Append(@, pdu)], p, d, q)
        waiting == [ReadRateReducer_Run(queued, p, d, q) EXCEPT !.waiting[p][d] = @ + 1]
    IN  IF Drops(queued, p, d, q, chance) THEN DropLast(queued, p, d, q)
        ELSE ProcessQueues(waiting, p, d)

\* A PDU that is forwarded nowhere is deleted, one with several ports is copied.
RelayPDUToPort(s, pdu, chance) ==
    LET ports == FwTableLookup(pdu.flow)
        relayed[i \in 0 .. Len(ports)] ==
            IF i = 0 THEN s ELSE EnqueuePDU(relayed[i - 1], ports[i], "out", pdu, chance)
    IN  relayed[Len(ports)]

----------------------------------------------------------------------------
(* The events. *)

Chance == IF policy.maxQ = "REDDropper" THEN BOOLEAN ELSE {FALSE}

Running == rmt.aborted = "no" /\ UNCHANGED policy

GivenPDU(f) == [flow |-> f, n |-> given[f] + 1]

IsGiven(f) ==
    /\ Running
    /\ f \in policy.flows
    /\ given[f] < Sends[f]
    /\ given' = [given EXCEPT ![f] = @ + 1]
    /\ UNCHANGED signals

\* To the EFCP instance of the PDU, if there is one; otherwise the PDU is set aside.
RelayPDUToEFCPI(pdu) == left' \in {left, [left EXCEPT ![pdu.flow]["efcp"] = pdu.n]}

\* From below, through SDU protection, into an input queue; a PDU that the channel has
\* damaged does not stay there.
Arrive(f) ==
    /\ Source[f] # "efcp"
    /\ policy.onWire => Source[f] = Interface
    /\ IsGiven(f)
    /\ \/ \E chance \in Chance :
            rmt' = EnqueuePDU(rmt, Source[f], "in", GivenPDU(f), chance)
       \/ policy.onWire /\ UNCHANGED rmt
    /\ UNCHANGED left

\* From an EFCP instance of this IPC process, to another one of it or to another process.
Write(f) ==
    /\ Source[f] = "efcp"
    /\ IsGiven(f)
    /\ IF MatchesThisIPC(f)
       THEN RelayPDUToEFCPI(GivenPDU(f)) /\ UNCHANGED rmt
       ELSE /\ \E chance \in Chance : rmt' = RelayPDUToPort(rmt, GivenPDU(f), chance)
            /\ UNCHANGED left

\* A PDU released by an input queue comes to the task.
ProcessMessage(p) ==
    /\ Running
    /\ rmt.relay[p] # <<>>
    /\ LET pdu == Head(rmt.relay[p])
           taken == [rmt EXCEPT !.relay[p] = Tail(@)]
       IN  IF MatchesThisIPC(pdu.flow)
           THEN RelayPDUToEFCPI(pdu) /\ rmt' = taken
           ELSE /\ \E chance \in Chance :
                     rmt' = IF policy.relayOn THEN RelayPDUToPort(taken, pdu, chance)
                            ELSE taken
                /\ UNCHANGED left
    /\ UNCHANGED <<signals, given>>

\* Mutant: the next write is scheduled while the channel transmits.
Transmit_ReadyAtOnce(p) ==
    /\ Running
    /\ rmt.protect[p] # <<>>
    /\ LET pdu == Head(rmt.protect[p])
           busy == [rmt EXCEPT !.protect[p] = Tail(@), !.ready[p]["out"] = FALSE]
       IN  /\ left' = [left EXCEPT ![pdu.flow][p] = pdu.n]
           /\ rmt' = IF ~policy.onWire
                     THEN ProcessQueues([busy EXCEPT !.wake[p]["out"] = @ + 1], p, "out")
                     ELSE IF rmt.sending[p] THEN [busy EXCEPT !.aborted = "channel"]
                     ELSE [busy EXCEPT !.sending[p] = TRUE, !.wake[p]["out"] = @ + 1]
    /\ UNCHANGED <<signals, given>>

\* A protected PDU is sent to the DIF below, which takes it at once, or to the channel,
\* which refuses it while it transmits another one.
Transmit(p) ==
    /\ Running
    /\ rmt.protect[p] # <<>>
    /\ LET pdu == Head(rmt.protect[p])
           busy == [rmt EXCEPT !.protect[p] = Tail(@), !.ready[p]["out"] = FALSE]
       IN  /\ left' = [left EXCEPT ![pdu.flow][p] = pdu.n]
           /\ rmt' = IF ~policy.onWire
                     THEN ProcessQueues([busy EXCEPT !.wake[p]["out"] = @ + 1], p, "out")
                     ELSE IF rmt.sending[p] THEN [busy EXCEPT !.aborted = "channel"]
                     ELSE [busy EXCEPT !.sending[p] = TRUE]
    /\ UNCHANGED <<signals, given>>

PortTransmitEnd(p) ==
    /\ Running
    /\ rmt.sending[p]
    /\ rmt' = [rmt EXCEPT !.sending[p] = FALSE, !.wake[p]["out"] = @ + 1]
    /\ UNCHANGED <<signals, given, left>>

\* Mutant: a blocked port becomes ready.
SetReady_Always(s, p, d) ==
    ProcessQueues([s EXCEPT !.ready[p][d] = TRUE], p, d)

\* setOutputReady and setInputReady: a blocked port stays as it is.
SetReady(s, p, d) ==
    IF s.blocked[p][d] THEN s
    ELSE ProcessQueues([s EXCEPT !.ready[p][d] = TRUE], p, d)

\* readyToServe and readyForRead.
Wake(p, d) ==
    /\ Running
    /\ rmt.wake[p][d] > 0
    /\ rmt' = SetReady([rmt EXCEPT !.wake[p][d] = @ - 1], p, d)
    /\ UNCHANGED <<signals, given, left>>

\* The (N-1)-flow of the port is established.
PostNM1FlowAllocation(p) ==
    /\ Running
    /\ ~policy.onWire
    /\ p \notin rmt.up
    /\ rmt' = SetReady(SetReady([rmt EXCEPT !.up = @ \cup {p}], p, "out"), p, "in")
    /\ UNCHANGED <<signals, given, left>>

BlockOutput(p) ==
    /\ Running
    /\ p \in rmt.up /\ ~policy.onWire
    /\ signals[p] < MaxSignals
    /\ signals' = [signals EXCEPT ![p] = @ + 1]
    /\ rmt' = [rmt EXCEPT !.blocked[p]["out"] = TRUE, !.ready[p]["out"] = FALSE]
    /\ UNCHANGED <<given, left>>

\* Mutant: the port is unblocked and not made ready.
UnblockOutput_StaysBusy(p) ==
    /\ Running
    /\ p \in rmt.up /\ ~policy.onWire
    /\ IF rmt.blocked[p]["out"] THEN UNCHANGED signals
       ELSE signals[p] < MaxSignals /\ signals' = [signals EXCEPT ![p] = @ + 1]
    /\ rmt' = [rmt EXCEPT !.blocked[p]["out"] = FALSE]
    /\ UNCHANGED <<given, left>>

\* A monitor below says that the flow may start also when it has not been stopped.
UnblockOutput(p) ==
    /\ Running
    /\ p \in rmt.up /\ ~policy.onWire
    /\ IF rmt.blocked[p]["out"] THEN UNCHANGED signals
       ELSE signals[p] < MaxSignals /\ signals' = [signals EXCEPT ![p] = @ + 1]
    /\ rmt' = SetReady([rmt EXCEPT !.blocked[p]["out"] = FALSE], p, "out")
    /\ UNCHANGED <<given, left>>

Next ==
    \/ \E f \in Flows : Arrive(f) \/ Write(f)
    \/ \E p \in Ports :
          \/ ProcessMessage(p)
          \/ Transmit(p)
          \/ PortTransmitEnd(p)
          \/ \E d \in Directions : Wake(p, d)
          \/ PostNM1FlowAllocation(p)
          \/ BlockOutput(p)
          \/ UnblockOutput(p)

Spec == Init /\ [][Next]_vars

----------------------------------------------------------------------------
\* Types and bounds; above all the counts of waiting PDUs never go below zero.
TypeOK ==
    /\ policy \in Policies
    /\ rmt \in Task
    /\ signals \in [Ports -> 0 .. MaxSignals]
    /\ given \in [Flows -> Nat]
    /\ left \in [Flows -> [Exits -> Nat]]

\* A port's count of waiting PDUs is the number of PDUs in its queues, and each queue has
\* as many turns with the monitor as it has PDUs, through drops and nested reads; the
\* schedulers dereference the queue that they get when the count is not zero.
CountersAgree ==
    rmt.aborted = "no" =>
      \A p \in Ports, d \in Directions :
        LET Turns(q) == {i \in DOMAIN rmt.tokens[p][d] : rmt.tokens[p][d][i] = q}
        IN  /\ rmt.waiting[p][d] =
                  Cardinality(UNION {{q} \X DOMAIN rmt.queue[p][d][q] : q \in Qids})
            /\ policy.scheduler = "DumbSch" =>
                  \A q \in Qids : Cardinality(Turns(q)) = Len(rmt.queue[p][d][q])

\* While a ReadRateReducer keeps the input of a port blocked, one of its output queues
\* is still over the threshold, so that the departure that unblocks it is to come.
BlockedInputMeansBacklog ==
    rmt.aborted = "no" =>
      \A p \in Ports :
        rmt.blocked[p]["in"] => \E q \in Qids : Len(rmt.queue[p]["out"][q]) >= ThreshLength

\* A PDU is never sent to a channel that still transmits another one, on which the
\* simulation would stop: the port is ready again only when the channel is.
ChannelIdle == rmt.aborted # "channel"

\* A port that the DIF below has stopped, and that stays stopped, releases no PDU,
\* whatever timers of earlier PDUs run out.
BlockedPortSilent ==
    [][\A p \in Ports :
         rmt.blocked[p]["out"] /\ rmt'.blocked[p]["out"] =>
           Len(rmt'.protect[p]) <= Len(rmt.protect[p])]_vars

\* Between its queues, ports and policies the task neither repeats, reorders nor
\* misdirects the PDUs of a flow.
Leaves == [f \in Flows |-> IF MatchesThisIPC(f) THEN {"efcp"} ELSE Range(Route[f])]
Promise == INSTANCE Relaying WITH ExitsOf <- Leaves
ImplementsRelaying == Promise!Spec

\* Whatever waits has something that will make it move: when no event is scheduled, no
\* (N-1)-flow is still to come and none is stopped from below, then nothing waits in a
\* queue, no input is blocked, and no user that was told to stop is still waiting to be
\* told to start.  A wake-up lost to a block, a drop or a nested read would leave a PDU
\* behind for good.
Due(p) ==
    \/ rmt.relay[p] # <<>> \/ rmt.protect[p] # <<>> \/ rmt.sending[p]
    \/ \E d \in Directions : rmt.wake[p][d] > 0
    \/ ~policy.onWire /\ p \notin rmt.up
    \/ rmt.blocked[p]["out"]

NoWakeUpLost ==
    rmt.aborted = "no" /\ (\A p \in Ports : ~Due(p)) =>
      /\ \A p \in Ports, d \in Directions : rmt.waiting[p][d] = 0
      /\ \A p \in Ports : ~rmt.blocked[p]["in"]
      /\ rmt.stopped = {}
=============================================================================
