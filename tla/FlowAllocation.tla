--------------------------- MODULE FlowAllocation ---------------------------
(***************************************************************************)
(* Flow allocation in a DIF: the flow allocator (FA) and its instances     *)
(* (FAI) at the IPCP that allocates flows and at those that answer, with   *)
(* the FA of a relay between them, over the (N-1)-flows that the resource  *)
(* allocators (RA) of the three ask for.                                   *)
(*                                                                         *)
(* What one flow does is in FAI.  This module has what flows share: one    *)
(* (N-1)-flow serves all flows to a neighbor with its QoS, its allocation  *)
(* is announced to every FAI of the IPCP, and requests wait together for   *)
(* the IPCP's enrollment.  Management messages need the enrollment only;   *)
(* they reach the other end in the order they were sent, unless lost.      *)
(***************************************************************************)
EXTENDS FAI

CONSTANTS
    Flows,
    Neighbors, NeighborOf,  \* NeighborOf[f], the next hop of flow f
    QoSIds, QoSOf,          \* QoSOf[f], the cube that satisfies f, unless
    Unfit,                  \* Unfit[e], the flows for which the DIF has none at end e
    Malformed,              \* the flows that isMalformedFlow recognizes
    Answers,                \* what users may do with a request
    Nm1Init,                \* Nm1Init[node], the state of the node's (N-1)-flows at first
    Nm1Outcomes,            \* how the allocation of an (N-1)-flow may end
    EnrolledAtStart,
    Closers, MaxCloses,     \* the ends whose users close flows, and how often per flow
    MaxLoss                 \* messages that may be lost

Nodes == Ends \cup {"relay"}
Nm1State == {"none", "unreachable", "pending", "established", "refused"}

ASSUME FlowAllocationAssumption ==
    /\ NeighborOf \in [Flows -> Neighbors]
    /\ QoSOf \in [Flows -> QoSIds]
    /\ Unfit \in [Ends -> SUBSET Flows]
    /\ Malformed \subseteq Flows
    /\ Answers \subseteq {"accept", "refuse", "silent"}
    /\ Nm1Init \in [Nodes -> Nm1State]
    /\ Nm1Outcomes \subseteq {"established", "refused"}
    /\ EnrolledAtStart \in BOOLEAN
    /\ Closers \subseteq Ends
    /\ MaxCloses \in Nat
    /\ MaxLoss \in Nat

VARIABLES
    fl,         \* fl[f], the record of flow f
    nm1,        \* nm1[node][key], the (N-1)-flows in the NM1FlowTables
    enrolled,   \* the initiating IPCP is a member of the DIF
    finished,   \* the neighbors whose enrollment of it has finished
    lost        \* how many messages have been lost

vars == <<fl, nm1, enrolled, finished, lost>>

\* RA finds an (N-1)-flow by the neighbor it leads to and its QoS.
KeySet == Neighbors \X QoSIds
KeyOf(f) == <<NeighborOf[f], QoSOf[f]>>

\* Whether a management message about flow f can be sent at once.
Established(node, f) == nm1[node][KeyOf(f)] = "established"

Fits(f, e) == f \notin Unfit[e]

\* Types and bounds: what the flow tables, the ports and the messages under way may hold.
TypeOK ==
    /\ fl \in [Flows -> FlowRecord]
    /\ nm1 \in [Nodes -> [KeySet -> Nm1State]]
    /\ enrolled \in BOOLEAN
    /\ finished \subseteq Neighbors
    /\ lost \in 0..MaxLoss

Init ==
    /\ fl = [f \in Flows |-> NewFlow]
    /\ nm1 = [node \in Nodes |-> [key \in KeySet |-> Nm1Init[node]]]
    /\ enrolled = EnrolledAtStart
    /\ finished = {}
    /\ lost = 0

Set(f, g) == fl' = [fl EXCEPT ![f] = g]

\* What aborts the simulation ends it.
Running == \A f \in Flows : ~fl[f].broken

\* bindNFlowToNM1Flow asks for the (N-1)-flows that are neither there nor asked for.
Bind(node, flows) ==
    nm1' = [nm1 EXCEPT ![node] =
               [key \in KeySet |-> IF @[key] = "none" /\ key \in {KeyOf(f) : f \in flows}
                                   THEN "pending" ELSE @[key]]]

-----------------------------------------------------------------------------
(* Requests at the initiating IPCP, and its enrollment.                     *)

\* The user's AE asks for the flow; without enrollment the request stays pending.
AllocateRequest(f) ==
    LET g == ChangeAllocStatus(AEInsertFlow(fl[f], "I"), "I", "ALLOC_PEND")
    IN /\ Running
       /\ fl[f].status["I"] = "NONE"
       /\ \/ /\ f \in Malformed
             /\ Set(f, ChangeAllocStatus(g, "I", "ALLOC_ERR"))
             /\ UNCHANGED nm1
          \/ /\ f \notin Malformed
             /\ enrolled
             /\ Set(f, ReceiveAllocateRequest(g, Fits(f, "I"), Established("I", f)))
             /\ Bind("I", {f} \ Unfit["I"])
          \/ /\ f \notin Malformed
             /\ ~enrolled
             /\ Set(f, g)
             /\ UNCHANGED nm1
       /\ UNCHANGED <<enrolled, finished, lost>>

\* Mutant: no flow is queued.
EnrollmentFinished_Forgets(n) ==
    /\ Running
    /\ n \notin finished
    /\ enrolled' = TRUE
    /\ finished' = finished \cup {n}
    /\ UNCHANGED <<fl, nm1, lost>>

\* The flows to neighbor n that are pending join PendingFlows.  An IPCP that is a member
\* from the start asks nobody to enroll it.
EnrollmentFinished(n) ==
    /\ Running
    /\ ~EnrolledAtStart
    /\ n \notin finished
    /\ enrolled' = TRUE
    /\ finished' = finished \cup {n}
    /\ fl' = [f \in Flows |->
                 IF NeighborOf[f] = n /\ fl[f].status["I"] = "ALLOC_PEND"
                 THEN [fl[f] EXCEPT !.queued = TRUE] ELSE fl[f]]
    /\ UNCHANGED <<nm1, lost>>

\* The timer TIM_FAPENDFLOWS.
HandlePendingFlows ==
    LET pending == {f \in Flows : fl[f].queued}
    IN /\ Running
       /\ pending # {}
       /\ fl' = [f \in Flows |->
                    IF f \in pending
                    THEN ReceiveAllocateRequest([fl[f] EXCEPT !.queued = FALSE],
                                                Fits(f, "I"), Established("I", f))
                    ELSE fl[f]]
       /\ Bind("I", {f \in pending \ Unfit["I"] : fl[f].status["I"] = "ALLOC_PEND"})
       /\ UNCHANGED <<enrolled, finished, lost>>

-----------------------------------------------------------------------------
(* The allocation of an (N-1)-flow ends.                                     *)

\* An FAI's flow has its QoS-id from the NewFlowRequest policy on, or from its peer.
HasQoS(f, e) == IF e = "I" THEN fl[f].efcpi["I"] # "none" ELSE fl[f].status["R"] # "NONE"

\* Every FAI of the IPCP compares the QoS-id only: not the neighbor, not its status.
Nm1Established(e, key) ==
    /\ Running
    /\ nm1[e][key] = "pending"
    /\ "established" \in Nm1Outcomes
    /\ nm1' = [nm1 EXCEPT ![e][key] = "established"]
    /\ fl' = [f \in Flows |->
                 IF QoSOf[f] = key[2] /\ HasQoS(f, e)
                 THEN CreateFlowResponsePositiveFromNminusOne(fl[f], e) ELSE fl[f]]
    /\ UNCHANGED <<enrolled, finished, lost>>

\* Mutant: the refused (N-1)-flow stays pending, and may be established yet.
Nm1Refused_StaysPending(e, key) ==
    /\ Running
    /\ nm1[e][key] = "pending"
    /\ "refused" \in Nm1Outcomes
    /\ fl' = [f \in Flows |->
                 IF fl[f].status[e] \notin {"NONE", "ALLOC_ERR"}
                 THEN AllocationResponseNegative(fl[f], e) ELSE fl[f]]
    /\ UNCHANGED <<nm1, enrolled, finished, lost>>

\* Every FAI of the IPCP tells its user; RA keeps the (N-1)-flow it was refused.
Nm1Refused(e, key) ==
    /\ Running
    /\ nm1[e][key] = "pending"
    /\ "refused" \in Nm1Outcomes
    /\ nm1' = [nm1 EXCEPT ![e][key] = "refused"]
    /\ fl' = [f \in Flows |->
                 IF fl[f].status[e] \notin {"NONE", "ALLOC_ERR"}
                 THEN AllocationResponseNegative(fl[f], e) ELSE fl[f]]
    /\ UNCHANGED <<enrolled, finished, lost>>

\* The relay forwards all it holds for that neighbor, whatever their QoS.
RelayNm1Established(key) ==
    /\ Running
    /\ nm1["relay"][key] = "pending"
    /\ nm1' = [nm1 EXCEPT !["relay"][key] = "established"]
    /\ fl' = [f \in Flows |->
                 IF NeighborOf[f] = key[1] THEN NM1FlowCreated(fl[f], "R", Waiting(fl[f], "R"))
                 ELSE fl[f]]
    /\ UNCHANGED <<enrolled, finished, lost>>

\* Towards the initiator the relay uses the (N-1)-flow it was reached by.
ReceiveCreateAtRelay(f, to) ==
    /\ Running
    /\ fl[f].hop[to] > 0
    /\ Set(f, ForwardCreateRequest(fl[f], to, to = "I" \/ Established("relay", f)))
    /\ IF to = "R" /\ HopCountAtRelay(to) > 0 THEN Bind("relay", {f}) ELSE UNCHANGED nm1
    /\ UNCHANGED <<enrolled, finished, lost>>

-----------------------------------------------------------------------------
(* Management messages about flow f reach its end e.                         *)

Arrives(f, e, msg) == fl[f].chan[e] # <<>> /\ Head(fl[f].chan[e]) = msg
Taken(f, e) == [fl[f] EXCEPT !.chan[e] = Tail(@)]

\* The invoke-id of an M_CREATE that comes again is in the NFlowTable.
ReceiveCreate(f, e) ==
    /\ Running
    /\ Arrives(f, e, "M_CREATE")
    /\ \/ /\ fl[f].status[e] # "NONE"
          /\ Set(f, Taken(f, e))
          /\ UNCHANGED nm1
       \/ /\ fl[f].status[e] = "NONE"
          /\ \E answer \in Answers :
                /\ Set(f, ReceiveCreateRequest(Taken(f, e), Fits(f, e), answer, Established(e, f)))
                /\ IF answer = "accept" /\ Fits(f, e) THEN Bind(e, {f}) ELSE UNCHANGED nm1
    /\ UNCHANGED <<enrolled, finished, lost>>

ReceiveCreateRPositive(f) ==
    /\ Running
    /\ Arrives(f, "I", "M_CREATE_R+")
    /\ Set(f, ReceiveCreateResponsePositive(Taken(f, "I")))
    /\ UNCHANGED <<nm1, enrolled, finished, lost>>

\* The responder has no FAI for a flow the relay refused.
ReceiveCreateRNegative(f, e) ==
    /\ Running
    /\ Arrives(f, e, "M_CREATE_R-")
    /\ Set(f, IF e = "I" THEN ReceiveCreateResponseNegative(Taken(f, e)) ELSE Taken(f, e))
    /\ UNCHANGED <<nm1, enrolled, finished, lost>>

ReceiveDelete(f, e) ==
    /\ Running
    /\ Arrives(f, e, "M_DELETE")
    /\ Set(f, ReceiveDeleteRequest(Taken(f, e), e))
    /\ UNCHANGED <<nm1, enrolled, finished, lost>>

ReceiveDeleteR(f, e) ==
    /\ Running
    /\ Arrives(f, e, "M_DELETE_R")
    /\ Set(f, ReceiveDeleteResponse(Taken(f, e), e))
    /\ UNCHANGED <<nm1, enrolled, finished, lost>>

Deliver(f, e) ==
    \/ ReceiveCreate(f, e)
    \/ e = "I" /\ ReceiveCreateRPositive(f)
    \/ ReceiveCreateRNegative(f, e)
    \/ ReceiveDelete(f, e)
    \/ ReceiveDeleteR(f, e)

\* Management PDUs pass through queues that drop, and are not retransmitted.
Lose(f, e) ==
    /\ Running
    /\ lost < MaxLoss
    /\ fl[f].chan[e] # <<>>
    /\ Set(f, Taken(f, e))
    /\ lost' = lost + 1
    /\ UNCHANGED <<nm1, enrolled, finished>>

\* The user's AE asks the IRM, which has bound the flow.
DeallocateRequest(f, e) ==
    /\ Running
    /\ e \in Closers
    /\ fl[f].closes < MaxCloses
    /\ fl[f].con[e] = "connectpending"
    /\ Set(f, ReceiveDeallocateRequest(fl[f], e))
    /\ UNCHANGED <<nm1, enrolled, finished, lost>>

-----------------------------------------------------------------------------
Next ==
    \/ \E f \in Flows : AllocateRequest(f)
    \/ \E n \in Neighbors : EnrollmentFinished(n)
    \/ HandlePendingFlows
    \/ \E e \in Ends, key \in KeySet : Nm1Established(e, key) \/ Nm1Refused(e, key)
    \/ \E key \in KeySet : RelayNm1Established(key)
    \/ \E f \in Flows, e \in Ends : ReceiveCreateAtRelay(f, e)
    \/ \E f \in Flows, e \in Ends : Deliver(f, e) \/ Lose(f, e) \/ DeallocateRequest(f, e)

Spec == Init /\ [][Next]_vars

\* The simulation handles every event it has scheduled: messages that are under way, the
\* timer, the end of an enrollment and of the allocation of an (N-1)-flow.
FairSpec ==
    /\ Spec
    /\ \A n \in Neighbors : WF_vars(EnrollmentFinished(n))
    /\ WF_vars(HandlePendingFlows)
    /\ \A e \in Ends, key \in KeySet :
          WF_vars(Nm1Established(e, key) \/ Nm1Refused(e, key))
    /\ \A key \in KeySet : WF_vars(RelayNm1Established(key))
    /\ \A f \in Flows, e \in Ends :
          WF_vars(ReceiveCreateAtRelay(f, e)) /\ WF_vars(Deliver(f, e))

-----------------------------------------------------------------------------
(* What allocation and deallocation do to the two ends of a flow.           *)

PhaseOf(status) ==
    CASE status = "NONE" -> "idle"
      [] status = "ALLOC_PEND" -> "waiting"
      [] status \in {"ALLOC_NEGA", "ALLOC_ERR"} -> "refused"
      [] status = "TRANSFER" -> "open"
      [] status = "DEALLOC_PEND" -> "closing"
      [] OTHER -> "closed"

LC == INSTANCE FlowLifecycle
          WITH phase <- [f \in Flows |-> [e \in Ends |-> PhaseOf(fl[f].status[e])]]

\* The two NFlowTables keep the promises of FlowLifecycle, however handlers, messages and
\* their loss interleave: FAI::receiveCreateResponsePositive opens an end without a look
\* at its status, and relies on the other end having accepted once.
ImplementsLifecycle == LC!Spec

\* A user is told both that its flow is allocated and that it is not only if an (N-1)-flow
\* was established or refused that its flow does not use: the listeners compare too little,
\* LisFAICreResPosiNminusOne the QoS-id and LisFAICreResNegaNminusOne nothing of the flow.
\* The (N-1)-flow it does use, the peer's answer and the retry policy never do both.
OneAnswer ==
    \A f \in Flows, e \in Ends :
        fl[f].told[e] = {"positive", "negative"} =>
            \E key \in KeySet \ {KeyOf(f)} : nm1[e][key] \in {"established", "refused"}

\* No handler connects gates that are connected, deletes an EFCP instance twice or
\* disconnects an AE twice, although none of createBindings, deleteBindings and
\* AE::deleteBindings checks.  Two histories abort a flow all the same: an (N-1)-flow was
\* refused, upon which users are told that they have no flow and may go on to close it; or
\* the IPCP was enrolled by one neighbor when the flow to another was asked for, whose
\* enrollment then ends and starts the pending flow a second time.
NoAbort ==
    \A f \in Flows : fl[f].broken =>
        \/ \E e \in Ends, key \in KeySet : nm1[e][key] = "refused"
        \/ NeighborOf[f] \in finished /\ finished # {NeighborOf[f]}

Quiet(f) ==
    \A e \in Ends : fl[f].chan[e] = <<>> /\ fl[f].hop[e] = 0 /\ Waiting(fl[f], e) = {}

\* When nothing about a flow is under way, and nothing was lost, the NFlowTables of its
\* ends agree whether data may flow and whether the flow is over.
QuietEndsAgree ==
    \A f \in Flows : Quiet(f) /\ lost = 0 =>
        \A s \in {"TRANSFER", "DEALLOCATED"} :
            fl[f].status["I"] = s <=> fl[f].status["R"] = s

\* A user whose request FA::receiveAllocateRequest took hears of it, whether it waited for
\* the enrollment, for an (N-1)-flow or for the other end.
EveryRequestAnswered ==
    \A f \in Flows : fl[f].status["I"] = "ALLOC_PEND" ~> fl[f].told["I"] # {}

\* A user that deallocates gets the flow released at both ends.
EventuallyReleased ==
    \A f \in Flows, e \in Ends :
        fl[f].status[e] = "DEALLOC_PEND" ~> \A end \in Ends : fl[f].status[end] = "DEALLOCATED"

-----------------------------------------------------------------------------
(* What comments and documents say of the code.                             *)

\* README: LimitedRetries discontinues the allocation when its threshold is met.
RetriesDiscontinued ==
    \A f \in Flows :
        fl[f].retries = MaxCreateFlowRetries ~> fl[f].status["I"] \in {"TRANSFER", "ALLOC_NEGA"}

\* FAI::receiveAllocateResponsePositive: an accepted request is answered, at the latest
\* when the (N-1)-flow the answer waits for is there.
AcceptedIsAnswered ==
    \A f \in Flows : fl[f].status["R"] = "TRANSFER" ~> fl[f].told["I"] # {}
=============================================================================
