# Formal models of RINASim

RINASim simulates the Recursive InterNetwork Architecture in OMNeT++.  A *DIF* is a layer: a
set of IPC processes (IPCPs) that offer flows to the layer above and use flows of the layer
below.  This directory holds TLA+ models of the parts of an IPCP in which interleaving, loss,
reordering and timers decide whether the code is right, the TLC configurations that check them,
and proofs that TLAPS checks.

All paths below are relative to the repository; `src/...` is the C++ of the framework and
`policies/...` its default policies.

## 1. The system

| Component | State it keeps | Operations | Interacts with |
|---|---|---|---|
| EFCP instance: DTP, DTCP (`src/DIF/EFCP`) | send and receive windows, closed window queue, retransmission queue, reassembly queue, control sequence numbers, five timers | write an SDU, receive a data PDU, receive a control PDU, each timer | Delimiting above, RMT below, its peer by PDUs |
| EFCP management, EFCPTable | the EFCPIs by flow and CEP-id | create, delete | FAI |
| Delimiting | the SDU being cut, the fragments being joined | cut, join | the user's port, DTP |
| Flow allocation: FA, FAI, NFlowTable | per flow: allocation status, ports, CEP-ids, pending flows | allocate, deallocate and their responses; create, delete and theirs; forward | IRM or FA above, RIBd, RA, EFCP, Enrollment |
| Enrollment, CACE | per neighbour: connection status, enrollment status | connect, authenticate, start, create, stop | RIBd, FA |
| RIB daemon, CDAP | sockets, message log | dispatch a CDAP message by object and operation | all management tasks |
| RMT: ports, queues, relay | port queues, waiting ports, relay status | receive from a port or an EFCPI, serve a queue, block and unblock | EFCP, (N-1)-EFCP, scheduler and monitor policies |
| RA, NM1FlowTable | (N-1)-flows and their bindings | bind, allocate and remove (N-1)-flows | FA, RMT, PDU forwarding generator |
| Routing, forwarding generators | distance or link state tables | receive an update, a neighbour comes or goes | RA, RIBd, RMT's forwarding table |
| AE, AP, IRM, DIF allocator | connection table, naming tables | application calls | FA |
| Policies, addons, channels | monitor and dropper counters, failures to inject | per policy | RMT, EFCP |

A simulation runs one event at a time: a handler of a module, with all the direct calls and
signals it makes, runs to completion before the next event.  What interleaves is *events*: PDUs
that arrive from the path in any order the channels and queues allow, timers, and calls of users.
An action of a model is therefore one event, with every call the handler makes.

Hard behaviours, component by component, and what makes each right:

* **EFCP**: loss, reordering, retransmission, delayed acknowledgement, window closing and
  opening, inactivity and new runs.  An SDU is handed up once and in order, never lost in
  silence; windows and queues stay within their bounds; writers are stopped and restarted.
* **Flow allocation**: deallocation racing allocation, both ends deallocating, retries,
  partial failure.  Both ends agree on the state of a flow, and a request gets an answer.
* **Enrollment**: both ends connecting at once, connect requests that come twice, authentication
  failure and retries, loss.  No IPCP takes part in a DIF before its member says so; an attempt
  that is over has ended the same way at both ends, and what was postponed to it goes on.
* **Applications**: requests that wait for the enrollment, tables that are searched by names
  which several flows share.  An application is told once, and only of what was accepted.
* **RMT**: a port blocked by its (N-1)-flow, bounded queues, relaying.  No PDU stays in a queue
  for ever, none overtakes one of its queue, a blocked port does not send.
* **Routing**: updates that cross, neighbours that leave.  Tables converge, no route to nowhere.
* **Delimiting**: joining undoes cutting.

`PROJECT.json` lists all components with their files, those not modelled yet as well, and the
hazards of the code line by line.

## 2. The modules

| Module | What it is | Code |
|---|---|---|
| `EFCPState` | the record of one EFCPI and the methods of its two state vectors | `DTPState.cc`, `DTCPState.cc`, `DataTransferPDU.msg`, `ControlPDU.msg` |
| `DTP` | every handler of an EFCPI as a function on that record, default policies included | `DTP.cc`, `DTCP.cc`, `policies/DIF/EFCP` (default policies) |
| `EFCPConnection` | two EFCPIs and a lossy, reordering path; one action per event; all properties | `DTP::handleMessage`, `DTCP::handleMessage`, the path |
| `ReliableFlow` | what a flow promises its users: SDUs handed up in order and once | abstract specification |
| `EFCPProofs` | type correctness, and both windows: the closed window queue and the receiver's credit, proved | |
| `EFCPCustodyProofs` | no SDU vanishes, proved | |
| `EFCPDeliveryProofs` | what is handed up, and `ReliableFlow`, proved | |
| `FAI` | the record of one flow, at both ends and at a relay, and every handler of an FAI as a function on it | `FAI.cc`, `FANotifier.cc`, `AE.cc`, the retry policies |
| `FlowAllocation` | flows that share (N-1)-flows and the enrollment; one action per event; all properties | `FA.cc`, `NFlowTable.cc`, the listeners, `RA.cc` |
| `FlowLifecycle` | what the two ends of a flow agree on | abstract specification |
| `MCFlowAllocation` | the small instances of `FlowAllocation` | |
| `FlowAllocationProofs` | all its safety properties and `FlowLifecycle`, proved | |
| `Enrollment` | enrollment into a DIF: state tables, CACE, the management (N-1)-flow, postponed flow requests | `src/DIF/Enrollment`, `FA.cc`, `RA.cc` |
| `Admission` | who counts whom as a member, and on whose word | abstract specification |
| `MCEnrollment` | the small instance of `Enrollment` | |
| `EnrollmentProofs` | all its safety properties and `Admission`, proved | |
| `RMT` | the ports and queues of a task, with its scheduling, monitoring and maximum queue policies | `src/DIF/RMT`, `policies/DIF/RMT` |
| `Relaying` | what a task promises to a flow's PDUs | abstract specification |
| `MCRMT` | the small instances of `RMT`, one for each combination of policies | |
| `RMTProofs` | all its safety properties and `Relaying`, proved | |
| `SimpleDV`, `SimpleLS` | a routing policy of one IPCP, as functions on its record | `policies/DIF/Routing/SimpleRouting` |
| `Routing` | IPCPs with routing, forwarding generator and forwarding table, joined by links that come and go | `IntRouting.cc`, `RoutingNotifier.cc`, `SimpleGenerator.cc`, `MiniTable.cc`, `RA.cc` |
| `MCRouting` | the networks, and link state trees compared with a definition of shortest ways | |
| `RoutingProofs` | its safety properties but two, proved | |
| `ApplicationState` | what the parts of an application process share: connection table, CACE's table, flows | `IRM.cc`, `ConnectionTable.cc`, `DAFEnrollmentStateTable.cc` |
| `DAFEnrollment` | CACE and enrollment of application processes, handler by handler | `src/DAF/Enrollment` |
| `Application` | a_open, the entities made for it, reads; one action per event; all properties | `AP.cc`, `AE.cc`, `AEMonitor.cc` |
| `Session` | what an application is promised of a connection | abstract specification |
| `MCApplication` | the small instance of `Application` | |
| `ApplicationProofs` | all its safety properties and `Session`, proved | |

### The connection

How state corresponds: a field of the record `EFCPI` has the name of the member it stands for
(`rcvLeftWinEdge`, `closedWindowQ`, `reassemblyPDUQ`, ...).  `outData`, `outCtrl`, `toUser` are
what a handler sends to the RMT and to Delimiting; they are empty between events.  `sdus`,
`empty`, `gaveUp`, `dropDup`, `error` are history: the code counts or logs them at most.

How actions correspond: `Write` is `handleMsgFromUp`, `RcvData` and `RcvCtrl` are
`handleMsgFromRMT` for the two kinds of PDU, `RxTimer`, `ATimer`, `RcvrInactivityTimer` and
`SenderInactivityTimer` are the timers, and `Lose` is the path.  `Handle` puts what the handler
has sent on the path and counts what it has handed up.

Abstractions: an SDU is a number, its rank among those put into PDUs; a user data field holds one
SDU.  The reassembly queue, which the code keeps sorted without duplicates, is a set; the
retransmission queue is a set whose entries carry their rank.  Sequence numbers do not wrap (a
run of 2^32 PDUs is not simulated).  The flow is not rate based; the receive buffer is never low
(the code never changes `rcvBuffersPercentFree`); rendezvous is off, as by default, and no
selective acknowledgements are sent, as the default policies do.

### Flow allocation

How state corresponds: `fl[f]` is everything the DIF holds about flow `f`.  `status` is
`NFlowTableEntry::getAllocateStatus` at the end that asked ("I") and at the one that answers
("R"); `efcpi`, `con` and `ae` are the EFCP instance, the IRM's connection and the gates of the
user's AE; `queued` is membership of `PendingFlows`; `chan` holds the CDAP messages on the way to
an end, `hop` those on the way to the relay, `relay` the relay's `NFlowTable`.  `told` is history:
the answers the user was given.  `broken` says that a handler did what aborts the simulation:
it connected a connected gate or used a deleted module.  `nm1[node][key]` is the `NM1FlowTable`
of an IPCP, by neighbor and QoS-id.

How actions correspond: `AllocateRequest` and `DeallocateRequest` are the calls of the IRM;
`EnrollmentFinished` is `LisFAAllocFinMgmt`, `HandlePendingFlows` the timer it starts;
`Nm1Established`, `Nm1Refused` and `RelayNm1Established` are the signals of the IPCP below, which
reach every FAI of an IPCP; `ReceiveX` are the CDAP messages as `FANotifier` hands them on; `Lose`
is the RMT, whose queues may drop a management PDU.  `HandlePendingFlows` and the two `Nm1` actions
change all the flows they concern in one step, as the loops of the code do.

Abstractions: a flow is its name, and its end `R` is one IPCP; that `NFlowTable` and CDAP find the
right flow is taken from ports and CEP-ids being different.  Whether a QoS cube satisfies a flow
is a parameter (`Unfit`).  One relay lies between the ends, or none; it answers nothing but passes
M_CREATE on, as answers and deletions go to the other end's address directly.  Messages between
two ends stay in order: management PDUs of a pair of IPCPs take one path and one queue.  Left out
are degenerate flows (both users on one computer), management flows, whose allocation is the
recursion of the same handlers one DIF below, and the RA's removal of (N-1)-flows.

`FlowLifecycle` knows of no message, IPCP or policy: it says that an end opens only when the
other has accepted, is refused only when the other has not, closes only when the other closes or
has closed, and never comes back.  `FlowAllocation` implements it through `PhaseOf` of the two
statuses.

### Enrollment into a DIF

`StateTable[i][j]` is the row of IPCP `i` for `j` in the `EnrollmentStateTable`, with the two
statuses under the code's names; `nm1` and `lower` are the management (N-1)-flow and its allocation
below; `postponed` is what `FA` keeps for `PendingFlows` until the end of an enrollment is
signalled, and `finished` the signals.  `Connect` is someone asking for the management flow, which
sends an M_CONNECT every time, also while the flow is being allocated: the port then holds it.
`Receive` is any of the seven messages as `EnrollmentNotifier` hands it on.

`Admission` knows no message: a peer vouches for another only if it trusts its credentials, nobody
is a member by a peer that does not vouch for it, and what was reached is not taken back.
`Enrollment` implements it through `StandingOf`.  Left out: enrollments that are not immediate
(their handlers have no body) and the release of a connection (there is none).

### The relaying and multiplexing task

A policy is called from inside a queue's event, changes ports and may set off further reads;
handlers are therefore operators on the record `rmt`, nested as the calls of the code are.
A departure may unblock an input, whose read is a departure again: what such a read does is the
parameter `read` of the handlers, `Reads[n]` are reads nested at most n deep, and `ProcessQueues`
takes as many as there are ports, because each unblocks an input (`ReadsAreWell` in `RMTProofs`: a
read that goes that deep leaves nothing it should have read).  `waiting`, `ready`, `blocked` are the members of `RMTPort`; `wake` counts the self-messages
readyToServe and readyForRead; `relay` and `protect` are PDUs that a queue has released and that
are on their way to the task or through SDU protection; `tokens` are the turns that BEMonitor and
DLMonitor remember.  Actions are events: a PDU arrives from below (`Arrive`) or from an EFCP
instance (`Write`), the task relays one (`ProcessMessage`), a port sends (`Transmit`), a timer
(`Wake`, `PortTransmitEnd`), and what the RA does for the DIF below (`PostNM1FlowAllocation`,
`BlockOutput`, `UnblockOutput`).

Abstractions: a PDU is its flow and its rank; where it goes and which queue it gets are functions
of its flow; a flow's ports differ from each other.  A task on the wire has one port to the medium,
the interface, so a PDU is for its IPC process or leaves through that port.  A PDU for this IPC
process, from a port or from an EFCP instance, goes to the instance it names if there is one.  A
REDDropper drops or does not, at its choice, above the threshold.  A port of a DIF that is not the
lowest hands a PDU down at once.  Queues and ports do not go away.

### Routing

`node[n]` is an IPCP: its routing policy's record, `SimpleGenerator`'s `neighbours`, and the
forwarding table.  A link is a flow of the DIF below with an end at two IPCPs: `phase` says how far
its allocation has got, and each end comes and goes in a step of its own.  `CreateNM1Flow` and
`CreateNM1FlowWithoutAllocate` are the two ends of an allocation (the asking RA tells the generator
before the flow is there), `RemoveNM1Flow` and `DeleteRequestFlow` those of a removal, `Time2Update`
the timer of a routing policy, `ReceiveRoutingUpdate` an update that the RIB daemon hands on.
`scheduledUpdate` of SimpleLS is not initialised by the code: the IPCPs with `garbage` start with
it true.

Abstractions: one QoS, metric 1 for every flow, as `SimpleGenerator` uses them; updates between two
ends of a link stay in order and are lost only with the port they were for; a flow that is refused
is one that is never accepted.

### Application processes

An application process has one management flow, to the process it enrolls with, and one flow for
each connection it opens; the DIF below is a party that grants a flow or does not.  `ConTable` is
the IRM's `ConnectionTable`, `StateTable` the table that CACE and enrollment share.  Both are
searched by name, first match first.  At the end that was asked every flow arrives at one name
(`mgmt`, 0 or the entity's, instance -1), which is what most of the properties are about.

`AOpen` is `AP::a_open`; only the first request enrolls, the others wait in `ConReqStack`.
`HandleMessage` is `IRM::handleMessage`, which hands a message to the entity at the other end of the
port's binding or discards it.  `ReceiveX` are the handlers of CACE, of the enrollment and of
AEMonitor.  A message of CACE that two management entities take up stops the simulation, as the
second cannot take it (`aborted`).

Abstractions: all processes run one type of entity (AEMonitor), names of asking entities are
different, the order of `ConReqStack` is not seen (each flow goes its own way), enrollments are
immediate.  Left out: closing, writing, and an AE instance "0", whose requests nobody takes.

## 3. The runs

Deadlock is not checked: a connection whose users have written all they want rightly stops, and
so does a DIF whose flows are all released.

### `EFCPConnection`

| Run | Question | Properties |
|---|---|---|
| `idle` | retransmission and a window, inactivity timers and new runs | `TypeOK`, `NoSilentLoss`, `PortBlockedIffQueueFull`, `ReassemblyBound` |
| `overtaking` | no retransmission, one SDU expendable, users at both ends write; reordered control PDUs make an end send a CONTROL_ACK_PDU, which opens the peer's window without serving the queue | `NoOvertaking`, `GapRespected` |
| `inorder` | the path is kind to the PDU with DRF; acknowledgements wait for the A-timer; two PDUs are lost | `InOrderDelivery`, `DropsOnlyDuplicates`, `ImplementsReliableFlow`, `EventuallyResolved` |
| `redelivery` | is a retransmitted DRF PDU handed up twice? yes | `InOrderDelivery` violated |

**Bounds.**  `MaxWrite`, `MaxSdu`: 3 or 4 SDUs, enough for an SDU in order, one in a gap, one out
of order and one that waits for the window.  `MaxLoss`: any one PDU lost, so also a retransmission
or the acknowledgement of one; two in `inorder`, as many as a PDU is sent times, so that an SDU
that is given up may be missing for good.  There the credit is 1 at first and 2 then, so that the
last of four SDUs waits for the first two.  `MaxEmpty`: one empty SDU, as each makes the peers
exchange more control PDUs.  `MaxIdle`: three expiries, which is a full cycle of both timers and
the start of another.  `DataReXmitMax` is 0, which the code turns into one retransmission.
`UIntMax` is 99, above every number a run reaches.

**Two worlds.**  With `DRFPduSafe = FALSE` the path may do anything to any PDU.  With
`DRFPduSafe = TRUE` it delivers the PDU with DRF before the rest of its run and its
acknowledgement in time.  `InOrderDelivery` needs the second world: in the first the code breaks
it, which is what `redelivery` shows.

**What `EventuallyResolved` says.**  Of each SDU, by its number, that it is handed up or is itself
given up: one that is stuck is not excused by another that was given up.  It names two cases in
which an SDU stays on the closed window queue for ever, and TLC finds a counterexample when either
is left out.  `CutOff`: the peer misses an earlier SDU that was given up; its left edge stays below
that SDU, and so does the credit.  `CreditLost`: the peer has given the credit, the PDUs that told
of it were lost, nothing is left to retransmit, and without rendezvous nobody asks; this takes as
many losses as a PDU is sent times.  `BoundReached` sets aside what the bounds cause: a control PDU
that reveals the loss of another makes an end send an empty SDU, and `MaxEmpty` or `MaxSdu` keeps it
from being received.

**Fairness.**  `FairSpec`, which `inorder` is checked under, assumes that *some* event of an end
occurs as long as one is scheduled: the simulation kernel never stops with events in its queue.  It
is weak fairness of all events together, so it favours no PDU and no timer; `Scheduled` says of the
state when one is enabled, which TLC decides faster than ENABLED.  That is enough because
retransmissions are bounded.  Users are not assumed to write.

### `FlowAllocation`

| Run | Question | Properties |
|---|---|---|
| `lifecycle` | three flows to two neighbors, one unfit, users that accept, refuse or stay silent, (N-1)-flows established or refused, a retry, one lost message | `TypeOK`, `NoAbort`, `OneAnswer`, `ImplementsLifecycle` |
| `settled` | four flows through a relay, asked for before or after the enrollment, one refused by the DIF at the other end, one malformed | `QuietEndsAgree`, `EveryRequestAnswered`, `EventuallyReleased` |
| `retries` | does `LimitedRetries` end an allocation? no | `RetriesDiscontinued` violated |
| `crossing` | is an accepted request answered when the answer has to wait? no | `AcceptedIsAnswered` violated |

**Bounds.**  Two flows are what it takes to share an (N-1)-flow or to be served by one event; a
third and a fourth go another way: over another neighbor, without a QoS cube, malformed.
`MaxCreateFlowRetries = 1`: the first retry meets the entry of the first request, and a second
one never happens.  `MaxLoss = 1` in `lifecycle`: any one message of the handshake.
`MaxCloses = 1` says that one of the users deallocates a flow.  This bound matters: when both do
before either M_DELETE arrives, each end ignores the other's, because it is no longer in TRANSFER,
and both stay in DEALLOC_PEND for ever.  `EventuallyReleased` is therefore true of flows that one
user closes, and of no more.  (N-1)-flows are refused in
`lifecycle` only: the refusal goes to all users of the IPCP, so that one who has a flow may hear a
second answer (`OneAnswer` names when) and have its AE disconnected twice (`NoAbort` does); one who
asks for an (N-1)-flow that was refused before is not answered.

**Fairness.**  Messages that are on the way arrive, the timer fires, an enrollment and the
allocation of an (N-1)-flow end.  Each is an event the simulation kernel has in its queue, or the
end of another such handshake.  Weak fairness per action is enough: each stays enabled until it
is taken.  Users and losses are not assumed to act.  `EveryRequestAnswered` and
`EventuallyReleased` are checked where nothing is lost, every user answers, and neighbors can be
resolved: with a lost message or a silent user the code waits for ever, as it has no timer of its
own (`creReqTimer` is commented out).

### `Enrollment`

| Run | Question | Properties |
|---|---|---|
| `enrollment` | two IPCPs ask for each other twice and at once, a third is enrolled by configuration; five cases of credentials; any one message lost | `TypeOK`, `QuietMeansSettled`, `PostponedOnlyAtResponder`, `ImplementsAdmission`, `EnrollmentEnds` |

**Bounds.**  Rows of different pairs do not touch each other, so two IPCPs that enroll are enough;
`MaxAsk = 2` makes a connect request come twice and after the enrollment.  `MaxConRetries = 1`:
one refusal that is retried and one that is final.  The credentials agree, differ in one end's
password or in type, are absent, or are of a type that `authenticate` does not know.

**Fairness.**  Messages arrive once the flow is up, and the allocation of the (N-1)-flow ends.

### `RMT`

| Run | Question | Properties |
|---|---|---|
| `relaying` | flows that pass through, start here, end here or do both, under five combinations of scheduler, monitor and maximum queue policy, on the wire or above a DIF that stops and restarts a port | `TypeOK`, `CountersAgree`, `BlockedInputMeansBacklog`, `ChannelIdle`, `NoWakeUpLost`, `BlockedPortSilent`, `ImplementsRelaying` |

**Bounds.**  Two ports with two queues each in both directions: an input that is blocked by the
output queue of another port, and queues that compete.  Threshold 2 and maximum 3 with two or three
PDUs of each of two flows cross every limit, from both sides; so do `StopAt = 2` and
`RestartAt = 1`.  `MaxSignals = 1`: one stop or one start without a stop for each port, between
any two events.  `NoWakeUpLost` says as an invariant what liveness would: where no event is left
that could move a PDU, none is waiting.

### `Routing`

| Run | Question | Properties |
|---|---|---|
| `routing` | rings, lines and pairs of IPCPs, whose links come, go and come again one end at a time | `TypeOK`, `DVForwardsItsRoutes`, `NoLoopWhileGrowing`, `ConvergesWhileGrowing`, `LSForwardsOnShortest`, `FloodReaches`, `Settles` |

**Bounds.**  `InfMetric = 4` is above every distance of the networks, and low enough for routes to
count up to it.  For distance vectors: a ring of three with one link that is removed, a line of four
whose last link is removed (routes to what is lost count to infinity), two links between one pair,
both removed, and one link that is asked for twice.  For link states the same with a ring in which
one IPCP starts with `scheduledUpdate` true, and a line of three.  `TreeIsShortest`, an assumption
of `MCRouting` that TLC evaluates, compares `ConstructTree` with a definition of shortest ways on
all networks of four IPCPs with symmetric links of length 1 or 2.

**Fairness.**  The exchange of updates goes on as long as a timer is set or an update is under way;
flows need not come or go.  The condition is stated over the steps that leave every flow's phase as
it is, all together, which needs no ENABLED over a large action.

### `Application`

| Run | Question | Properties |
|---|---|---|
| `application` | two requests among three processes in every relation the two can have, flows and credentials refused, any one message lost | `TypeOK`, `AbortMeansMutual`, `ImplementsSession`, `RequestsServed` |

**Bounds.**  The second request is for the same connection, from the same process to another one,
the other way, from the destination on, or to the same destination: what two requests can share is
a process, a name or a row.  Credentials are accepted, or refused for one enrollment or one
connection.  `MaxConRetries = 1`, and two reads per connection.

**Fairness.**  The simulation goes on as long as there is a flow asked for or a message under way.
Applications are not assumed to ask or read, nothing is assumed to be lost.  `RequestsServed` names
every reason for which an application may get nothing: a flow refused, credentials, a lost
message, the same request twice, another flow that came to a name of its flows.

## 4. The proofs

Each theorem holds for every value of the constants that meets the module's assumption
(`EFCPAssumption`, `ConnectionAssumption`, `FlowAllocationAssumption`, ...), which TLC evaluates in
every run.  A further hypothesis is part of the theorem's statement and is explained below.  Every invariant was first checked by TLC on a run's
instance.

| Module | Theorem | States | Hypotheses |
|---|---|---|---|
| `EFCPProofs` | `TypeCorrect` | `TypeOK` | |
| | `NeverOvertaken` | `NoOvertaking` | |
| | `StoppedWhileFull` | `PortBlockedIffQueueFull` | users honour the block |
| | `NeverMoreThanCredit` | `ReassemblyBound` | a window, until an idle timer expires |
| `EFCPCustodyProofs` | `NothingVanishes` | `NoSilentLoss` | retransmission, no allowed gap, no idle timer |
| `EFCPDeliveryProofs` | `UserMissesFew` | `GapRespected` | `SafeRun` |
| | `DeliversInOrder`, `NothingNewDropped` | `InOrderDelivery`, `DropsOnlyDuplicates` | `SafeRun`, no allowed gap |
| | `FlowImplemented` | `ImplementsReliableFlow` | `SafeRun`, no allowed gap |
| `FlowAllocationProofs` | `TypeCorrect` | `TypeOK` | |
| | `LifecycleImplemented`, `NeverAborts` | `ImplementsLifecycle`, `NoAbort` | `ClosedAtMostOnce` |
| | `AnsweredWithOneVoice`, `EndsAgree` | `OneAnswer`, `QuietEndsAgree` | `ClosedAtMostOnce`, `ResponderReachable` |
| `EnrollmentProofs` | `TypeCorrect`, `QuietIsSettled`, `PostponedAtResponder`, `AdmissionImplemented` | `TypeOK`, `QuietMeansSettled`, `PostponedOnlyAtResponder`, `ImplementsAdmission` | |
| `ApplicationProofs` | `TypeCorrect`, `AbortIsMutual`, `SessionImplemented` | `TypeOK`, `AbortMeansMutual`, `ImplementsSession` | |
| `RMTProofs` | `TypeCorrect`, `CountersAlwaysAgree`, `ChannelStaysIdle`, `BlockedPortStaysSilent`, `TaskKeepsItsPromise` | `TypeOK`, `CountersAgree`, `ChannelIdle`, `BlockedPortSilent`, `ImplementsRelaying` | |
| | `BlockedInputHasBacklog` | `BlockedInputMeansBacklog` | `OnePath` |
| | `NoWakeUpIsLost` | `NoWakeUpLost` | `OnePath`, `StopAt > 1` |
| `RoutingProofs` | `TypeCorrect`, `RoutesForwarded`, `LoopFree`, `FloodReached` | `TypeOK`, `DVForwardsItsRoutes`, `NoLoopWhileGrowing`, `FloodReaches` | |

### Types and custody of the connection

**`TypeCorrect`** (`EFCPProofs`).  The type of the reassembly queue is not inductive:
`updateRcvLWE` moves the left edge to the greatest entry it reaches, and an unbounded set has none.
The inductive invariant `SoundInv` adds that every queue is bounded.  There is one lemma per
handler, `XSound`, and `HandleSound` carries a handler's result over to the connection.  `LeastNat`
and `MaxBounded` give the least and greatest elements that the `CHOOSE` of `Max`, of
`UpdateSndLWE` and of `Postable` need.

**`NothingVanishes`** (`EFCPCustodyProofs`).  `NoSilentLoss` is about the sender's
queues; why an acknowledgement may remove an entry lies at the receiver, so the inductive
invariant `CustodyInv` ties both ends and the path together:

1. `Numbers`: every PDU held or on the path has the number of its SDU.
2. `EdgeBehind`: all SDUs up to the receiver's left edge are with the user.
3. `AcksBehind`: so are all SDUs up to any acknowledgement that is on the path.
4. `Keeps`: an SDU is held, has been given up or is with the peer's user.

The heart is `ReachedHasNoHole`: with no gap allowed, all numbers between the old left edge and
the new one are on the reassembly queue.  Between `updateRcvLWE` and `delimitFromRMT`, 2 holds
only if what is about to be delimited is counted (`Pending`); `SvUpdateSettles` shows that the
acknowledgement sent in between is true by the end of the handler.  With an allowed gap the
property is false on purpose; with inactivity it is only model-checked (run `idle`).

### The closed window queue

`NeverOvertaken` and `StoppedWhileFull` (`EFCPProofs`) look at one EFCPI.  `InLine` says that
PDUs wait only while the window is closed, in the order of their SDUs, and that every SDU after a
waiting one waits too or is empty; `Stopped` that the port is blocked exactly while the queue is
full.  A handler adds at the end when the window is closed, or takes from the front; `LineFrame`
disposes of the handlers that touch neither.  Nothing is assumed about loss,
order or timers.  `HonourBlock` is the hypothesis that a user who was stopped does not write: the
code does not enforce it.

### The receiver's credit

`NeverMoreThanCredit` (`EFCPProofs`) also looks at one EFCPI.  The first PDU of a run is kept
whatever its number, as the right edge is not known yet, so the queue may hold a PDU far beyond the
credit; that it never holds too many is because the number after the left edge is never on it
(`NextIsMissing`: `updateRcvLWE` would have moved over it).  `WithinCredit` counts: one PDU for each
number from the second after the left edge up to the right edge, and one beyond.  Nothing is
assumed about order, loss, retransmission or the first PDU.  `ResetRcvVars` sets both edges back and
keeps the queue, so the theorem speaks of the time before an inactivity timer expires: after it TLC
finds one PDU too many on a flow without retransmission whose first PDU was lost and the others
kept.

### What is handed up

`DeliveryInv` (`EFCPDeliveryProofs`) is about one direction: what the sender has put into PDUs
(`Sends`), the PDUs on the path, and what the receiver holds and has handed up (`Receives`).  PDUs
are numbered like the SDUs they carry; only the first has DRF, and nothing has been received before
it; from then on what waits on the reassembly queue is above the left edge, what has been handed up
is not, and the left edge never passes more than `MaxAllowGap` missing numbers.  A handler breaks
`Receives` between moving the edge and delimiting, so lemmas about the inner steps speak of
`Pending`.

`SafeRun` names the world of the run `inorder`: DTCP is present, the path delivers the first PDU
before the rest (`DRFPduSafe`), the initial credit and `UIntMax` are not 0, and no inactivity timer
has expired.  Without `DRFPduSafe` the property is false (run `redelivery`).  `FlowImplemented` maps
every handler to one `Put`, one `Get` or a stutter of `ReliableFlow`; that an arrival hands up
several SDUs in one step is a `Get` of all of them.

### Flow allocation

The handlers of `FAI` are functions on the record of a flow, some actions serve many flows at once
and a flow may go through two handlers in one event.  The first part of the module says of each
handler which fields it changes (`StatusChanged`, `CreateSent`, `Opens`, ...); `Served` names what an
event may do to one flow, and `Steps` that every event does that to each.  The invariants are then
about one record:

* `Agree`: the responder is asked only for what the initiator waits for (`AsksFirst`), the initiator
  waits as long as the one answer is under way and goes by it (`AnsweredOnce`), one user closes,
  and a message about that comes from an end that does (`ClosedOnce`).  `Moved` follows: the moves
  of the two statuses are moves of `FlowLifecycle`.
* `Works`: entity and EFCP instance are there as long as a handler may look at them; `AbortInv`
  names, as `NoAbort` does, when a refused (N-1)-flow or a second enrollment excuses it.
* `ToldInv` relates the answers that a user was told to the statuses and to refused (N-1)-flows,
  and `SettledInv` what two quiet ends are left with to the messages that brought them there.

`ClosedAtMostOnce`: one user deallocates, and a relay between the ends has a hop left.  A second
close, or a relay with none left, which refuses to the asking end while the other has opened,
undoes what the ends agree on.  `ResponderReachable`: the responder has its management (N-1)-flow
at the start.  Without it the answer waits for a flow that may be refused, which run `crossing` is
about.

### Enrollment

`IInv` (`EnrollmentProofs`) looks at two IPCPs: the row of each for the other and the messages both
ways.  `RowFits` ties the two statuses of a row; `Ahead` says that neither side gets ahead of the
other, whatever is lost, and `Awaited` that, where nothing was lost and credentials are accepted,
what a row waits for is on its way or will be sent by the other side; `FlowComes` that the
management flow that was asked for comes or is refused, and `Told` to whom the end of an enrollment
was signalled.  `AdmissionImplemented` and the invariants
follow from it.  `TypeCorrect` needs more, because the type bounds the retries: `LInv` counts
connect requests that are under way, have been refused since, or may yet be sent, of which there
are never more than the times the IPCP was asked to enroll and its retries.

### Application processes

`IInv` (`ApplicationProofs`) has two parts.  What holds always: types, that every row of a table was
brought by a flow (`RowsOfFlows`), how far a flow has got (`Stages`), that a read is answered by one message at
most (`ReadsCounted`), and that a connection the application was told of stays established
(`AnswersKept`).  What
holds while the simulation has not stopped (`Running`): two processes do not both
have a management flow to the other (`NotBoth`), a message of CACE goes to the end it is meant for
and a positive answer follows an acceptance (`MessagesSound`), and the connect requests of the flows
that share a row are no more than those flows and the retries (`RefusedOnce`), which bounds the
refusals.  `Evolves` states how a table may change, so that what is said of one row survives the
changes to another.

### Relaying and multiplexing

A handler of the task is a nest of calls: a PDU that leaves an output queue may unblock an input,
whose read takes a PDU out of an input queue, which may unblock the next.  `ReadsWell` states once
what such a read may do: it changes inputs only, keeps their books and order, unblocks but never
blocks, and leaves no PDU waiting at the ready input it was for.  `ReadsAreWell` proves it of
`Reads[n]` while fewer than n inputs are blocked; as a nested read has one blocked input less, as
many as there are ports always suffice.  Then come the departure of a PDU, the schedulers, an arrival, a drop and a relayed PDU, each with what it does
to the queues (`Sound`), to the ports (`Proceeds`: a ready output releases one PDU at most and is
not ready after it; `Calms`: a port at which nothing waits stays so) and to the places of PDUs
(`Keeps`: none comes from elsewhere).  The events put these together.

Between events `IInv` (`RMTProofs`) holds:

* `Sound`: the count of waiting PDUs and the monitor's turns agree with the queues (`Books`); what
  a port has released is older than what it has queued, and each queue is sorted by flow (`Line`);
  a PDU is where its flow passes (`Placed`); a stopped user has a PDU in its queue (`StoppedWait`);
  a blocked input has a long queue behind it (`Backlog`).
* `Settled`: no PDU waits at a ready port (`Quiet`), and a port that is not ready will be told to be
  (`Moving`).  Without it `NoWakeUpLost`, which speaks only of states that have no event left, says
  nothing of the step before.
* `PortsOK`: a stopped port is not ready, and on the wire a port is ready, has released a PDU, sends
  or waits for the end of a transmission, one of these at a time.  `ChannelIdle` follows.
* `InOrder`: of each flow, what has left is older than what the outputs hold, and that older than
  what the inputs hold.  `Relaying`, which sees only what enters and leaves, needs it.

`OnePath`: where a `ReadRateReducer` is used, a flow leaves through one port at most, as with
MiniTable, whose `lookup` names no more.  With several, the reducer blocks and unblocks the input
of the first port, whichever port's queue has grown.  `StopAt > 1` (the code's default is 3):
a user that is stopped for its first PDU, which the REDDropper then drops, has no departure to be
started by.

### Routing

`RoutingProofs` is about any network of flows and any number of IPCPs.  `RoutingHolds` has four
parts, each inductive with those before it:

* `PInv`: types, and which ends of a flow are there in each of its phases.
* `DVInv`: the route to a neighbor is the link to it, every other is by way of a neighbor, an
  update names its sender, and the forwarding table has a port to the next hop of every route.
* `Growing`, before any flow was removed: updates from one IPCP to another take one flow
  (`OneWay`), and are ordered.  None is better than what its sender has (`Behind`) or worse than a
  route taken from an earlier one (`Ahead`), and none is worse than those before it (`NoWorse`).
  Without that order `NoLoopWhileGrowing` is not inductive: an old update might be taken after a
  newer one, and the next hop not be nearer any more.
* `LSInv`: nobody holds or sends more of an IPCP than it has said of itself, it says what its
  neighbors are, and forwards to each over a link; the changes it has numbered are among the comings
  and goings of ends of flows (`Counted`), which are finitely many.  `FloodInv` is about the only
  flow between two IPCPs: each entry that is owed over it is known, on its way, or due (`Paid`).

The first part of the module says of each function of the two policies what it does to the record
of an IPCP (`DVGot`, `LSRelinked`, ...), the next what the actions do to ports and flows (`Gains`,
`Releases`, `Sending`, `Shifts`); the invariants are then proved action by action.  Of the shortest
path tree only the part is needed that no recursion computes: the hops to a neighbor.

### What stays with TLC

* Liveness, and any formula with ENABLED: `EventuallyResolved`, `EveryRequestAnswered`,
  `EventuallyReleased`, `EnrollmentEnds`, `Settles`, `RequestsServed`.
* `LSForwardsOnShortest` and `ConvergesWhileGrowing`: they compare routes with distances, which a
  breadth-first search computes, a recursive function over data; what it computes is out of reach.
* The connection's custody, order and credit after an inactivity timer has expired (run `idle`).
* The negative results (section 5), which are counterexamples.

## 5. What the runs found

* A retransmitted first PDU still carries DRF.  The receiver takes it for a new run, sets its
  left edge back and hands the SDU up again (`redelivery`).
* A retried M_CREATE keeps its invoke-id, so the other end ignores it as a duplicate: the retry
  policies other than `NoRetry` leave the requester waiting for ever (`retries`).
* A responder that has to wait for its (N-1)-flow later sends M_CREATE in place of its answer
  (`crossing`).

Properties that hold say at the same time where the code has a limit, and name it in their
statement:

* Two IPCPs that ask for each other at once may both wait for ever: each ignores the other's
  connect request (`Crossed`).  The member that answers an enrollment is not told of its end, so
  that what it postponed to that neighbor waits (`PostponedOnlyAtResponder`).
* Two application processes that enroll with each other stop the simulation (`AbortMeansMutual`);
  of two flows to one name of a process the first is silenced, and the second of two equal requests
  is never answered (`RequestsServed`).
* An SDU may wait on the closed window queue for ever: behind one that was given up, or for a
  credit that was lost with what told of it, as rendezvous is off (`EventuallyResolved`).
* A `ReadRateReducer` whose queue empties takes the front of an empty vector (`aborted` is
  "lookup"; the properties of `RMT` are about tasks that have not come to that).
* A link state IPCP whose memory holds the flag true never sends an update (`FloodReaches`).
* Distance vectors may loop once a flow was removed (`NoLoopWhileGrowing` is about the time
  before), but the exchange ends (`Settles`).

The bounds named in section 3 keep out further traces that the models have: both users
deallocating at once (both wait for ever), a second deallocation of a released flow
(`FA::receiveDeallocateRequest` changes any status to DEALLOC_PEND), the refusal of an (N-1)-flow
reaching flows that do not use it, a relay with one hop left, and a late first PDU that flushes
the reassembly queue.

## 6. Plan

1. EFCP connection, its abstract flow, types and custody (done).
2. Flow allocation and its abstract `FlowLifecycle` (done); left are management flows, local
   flows and a neighbor that cannot be resolved.
3. Enrollment and `Admission`; RMT and `Relaying`; distance vector and link state routing;
   application processes and `Session` (done).
4. Theorems about every safety property and every refinement of the connection, of flow
   allocation, of enrollment, of application processes and of the RMT, and about routing (done, but for what
   stays with TLC).
5. Rendezvous and the timers' order (2 and 3 delta).
6. Pure algorithms: Delimiting, QoS cube comparers, queue identifiers.
7. Composition: a connection of EFCP over two tasks and a relay.

## 7. What is not modelled

* EFCP: rate based flow control, rendezvous, the congestion policies (LG, TCP-like, DCTCP), whose
  window arithmetic is on real numbers; EFCPTable and the making of instances.
* RMT: WeightedFairQ (whose `getNextQueue` does not look at the port it is asked for), QTAMux, DQ,
  ModularMonitor, BLUE and the ECN markers; removal of queues and ports while PDUs wait; the gate of
  an EFCP instance (`efcpiOut[cepId]` makes an entry when it looks, after which `createEfcpiGate`
  finds one).  Forwarding tables other than MiniTable.
* Routing: DomainRouting, TSimpleRouting, CentralRouting, DCRouting, PortsLoadRouting, eRouting, and
  the generators other than SimpleGenerator.
* Applications: a_close, a_write, entities other than AEMonitor, and the flag `FLOW_PENDING` that
  `AE::sendAllocationRequest` sets after the answer may have come.
* RIB daemon: it hands messages on, and each model has them arrive where it would; CDAP's encoding
  and log.  Delimiting, QoS cubes, common types: data, of which the models keep what the properties
  tell apart.  DIF allocator: tables filled at the start.
* Statistics, display and configuration parsing; NSM and SDU protection, which keep no state;
  traffic generators, failure injection and channels, which the loss of the path stands for.
