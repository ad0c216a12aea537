--------------------------------- MODULE FAI ---------------------------------
(***************************************************************************)
(* One flow of a DIF: its entries in the NFlowTables of the two IPCPs at   *)
(* its ends, the flow allocator instances there, what their users and the  *)
(* EFCP hold for it, the management messages about it that are on their    *)
(* way, and its entries at an IPCP between the two.  Every handler is a    *)
(* function on that record; FlowAllocation says when each is called.       *)
(*                                                                         *)
(* "I" is the IPCP whose user requested the flow, "R" the one that answers.*)
(* Both users are application entities of their own; degenerate (local)    *)
(* flows are left out.                                                     *)
(***************************************************************************)
EXTENDS Naturals, Sequences, FiniteSets

CONSTANTS
    AllocateRetry,          \* the retry policy
    MaxCreateFlowRetries,   \* what LimitedRetries allows
    HasRelay,               \* an IPCP lies between the two ends
    MaxHopCount             \* VAL_MAXHOPCOUNT

ASSUME FAIAssumption ==
    /\ AllocateRetry \in {"NoRetry", "LimitedRetries", "UnlimitedRetries"}
    /\ MaxCreateFlowRetries \in Nat
    /\ HasRelay \in BOOLEAN
    /\ MaxHopCount \in Nat \ {0}

Ends == {"I", "R"}
Peer(e) == IF e = "I" THEN "R" ELSE "I"

Status == {"NONE", "ALLOC_PEND", "ALLOC_NEGA", "ALLOC_ERR", "TRANSFER",
           "DEALLOC_PEND", "DEALLOCATED"}
Message == {"M_CREATE", "M_CREATE_R+", "M_CREATE_R-", "M_DELETE", "M_DELETE_R"}
\* A relay keys an entry by the Flow, which an M_CREATE sent again differs in by its retries.
RelayEntry == [to : Ends, retries : Nat, status : {"ALLOC_ERR", "FORWARDING", "FORWARDED"}]

FlowRecord == [
    status  : [Ends -> Status],                          \* of the NFlowTableEntry
    efcpi   : [Ends -> {"none", "bound", "deleted"}],    \* the EFCP instance
    con     : [Ends -> {"none", "nil", "connectpending", "error"}],  \* the IRM's entry
    ae      : [Ends -> BOOLEAN],         \* the gates between the AE and the IRM are connected
    told    : [Ends -> SUBSET {"positive", "negative"}], \* answers the user was given
    queued  : BOOLEAN,                   \* the flow is in PendingFlows
    retries : Nat,                       \* createFlowRetries
    hop     : [Ends -> Nat],             \* M_CREATEs on the way to the relay, by target
    relay   : Seq(RelayEntry),           \* the relay's NFlowTable
    chan    : [Ends -> Seq(Message)],    \* messages on the way to an end
    closes  : Nat,                       \* how often users have asked to deallocate it
    broken  : BOOLEAN ]                  \* a handler did what aborts the simulation

NewFlow == [
    status  |-> [e \in Ends |-> "NONE"],
    efcpi   |-> [e \in Ends |-> "none"],
    con     |-> [e \in Ends |-> "none"],
    ae      |-> [e \in Ends |-> FALSE],
    told    |-> [e \in Ends |-> {}],
    queued  |-> FALSE,
    retries |-> 0,
    hop     |-> [e \in Ends |-> 0],
    relay   |-> <<>>,
    chan    |-> [e \in Ends |-> <<>>],
    closes  |-> 0,
    broken  |-> FALSE ]

ChangeAllocStatus(f, e, status) == [f EXCEPT !.status[e] = status]

-----------------------------------------------------------------------------
(* What an FAI tells its peer, by way of the FANotifier and the RIB daemon. *)

Send(f, to, msg) == [f EXCEPT !.chan[to] = Append(@, msg)]

\* An M_CREATE goes hop by hop, through the flow allocator of the relay.
SendCreateRequestFlow(f, to) ==
    IF HasRelay THEN [f EXCEPT !.hop[to] = @ + 1] ELSE Send(f, to, "M_CREATE")

-----------------------------------------------------------------------------
(* What an FAI does to the EFCP and tells the application entity at e.      *)

\* Connecting gates that are connected throws.
CreateBindings(f, e) ==
    IF f.efcpi[e] = "none" THEN [f EXCEPT !.efcpi[e] = "bound"] ELSE [f EXCEPT !.broken = TRUE]

\* The EFCPTable keeps its entry, so a second deletion uses deleted modules.
DeleteBindings(f, e) ==
    IF f.efcpi[e] = "bound" THEN [f EXCEPT !.efcpi[e] = "deleted"] ELSE [f EXCEPT !.broken = TRUE]

\* An AE that disconnects its gates a second time follows a null pointer.
DisconnectAE(f, e) ==
    IF f.ae[e] THEN [f EXCEPT !.ae[e] = FALSE] ELSE [f EXCEPT !.broken = TRUE]

AEInsertFlow(f, e) == [f EXCEPT !.con[e] = "nil", !.ae[e] = TRUE]

AllocationResponsePositive(f, e) ==
    [f EXCEPT !.con[e] = "connectpending", !.told[e] = @ \cup {"positive"}]

AllocationResponseNegative(f, e) ==
    IF f.con[e] = "none" THEN f
    ELSE DisconnectAE([f EXCEPT !.con[e] = "error", !.told[e] = @ \cup {"negative"}], e)

DeallocationRequestFromFAI(f, e) == DisconnectAE(f, e)

-----------------------------------------------------------------------------
(* The initiator allocates.  `fits' says that some QoS cube satisfies the   *)
(* flow, `nm1' that the (N-1)-flow it needs is established.                  *)

ReceiveAllocateRequest(f, fits, nm1) ==
    IF f.status["I"] # "ALLOC_PEND" THEN f
    ELSE IF ~fits
         THEN AllocationResponseNegative(ChangeAllocStatus(f, "I", "ALLOC_NEGA"), "I")
         ELSE LET g == CreateBindings(f, "I")
              IN IF nm1 /\ ~g.broken THEN SendCreateRequestFlow(g, "R") ELSE g

\* The (N-1)-flow has been allocated: every FAI with its QoS sends an M_CREATE.
CreateFlowResponsePositiveFromNminusOne(f, e) == SendCreateRequestFlow(f, Peer(e))

-----------------------------------------------------------------------------
(* The responder allocates.                                                  *)

ReceiveAllocateResponsePositive(f, nm1) ==
    LET g == ChangeAllocStatus(CreateBindings(f, "R"), "R", "TRANSFER")
    IN IF nm1 THEN Send(g, "I", "M_CREATE_R+") ELSE g

ReceiveAllocateResponseNegative(f) ==
    Send(ChangeAllocStatus(f, "R", "ALLOC_NEGA"), "I", "M_CREATE_R-")

\* The user's AE takes the flow; the AP may have none that does and stay silent; an
\* IPCP as the user may have no DIF below to reach back.
UserAnswers(f, answer, nm1) ==
    CASE answer = "accept" ->
            AllocationResponsePositive(
                AEInsertFlow(ReceiveAllocateResponsePositive(f, nm1), "R"), "R")
      [] answer = "refuse" -> ReceiveAllocateResponseNegative(f)
      [] OTHER -> f

ReceiveCreateRequest(f, fits, answer, nm1) ==
    LET g == ChangeAllocStatus(f, "R", "ALLOC_PEND")
    IN IF fits THEN UserAnswers(g, answer, nm1) ELSE ReceiveAllocateResponseNegative(g)

-----------------------------------------------------------------------------
(* The initiator gets the answer.                                            *)

ReceiveCreateResponsePositive(f) ==
    AllocationResponsePositive(ChangeAllocStatus(f, "I", "TRANSFER"), "I")

AllocateRetryPolicy(f) ==
    CASE AllocateRetry = "NoRetry" -> FALSE
      [] AllocateRetry = "LimitedRetries" -> f.retries + 1 <= MaxCreateFlowRetries
      [] OTHER -> TRUE

\* Mutant: counts down.
CountRetry_Down(f) == [f EXCEPT !.retries = @ - 1]

CountRetry(f) == IF AllocateRetry = "NoRetry" THEN f ELSE [f EXCEPT !.retries = @ + 1]

ReceiveCreateResponseNegative(f) ==
    IF AllocateRetryPolicy(f)
    THEN SendCreateRequestFlow(CountRetry(f), "R")
    ELSE AllocationResponseNegative(ChangeAllocStatus(CountRetry(f), "I", "ALLOC_NEGA"), "I")

-----------------------------------------------------------------------------
(* Deallocation, from either end.                                            *)

\* Mutant: the user's AE is disconnected at once, and again when the peer answers.
ReceiveDeallocateRequest_Notifies(f, e) ==
    Send(DisconnectAE(DeleteBindings(
            ChangeAllocStatus([f EXCEPT !.closes = @ + 1], e, "DEALLOC_PEND"), e), e),
         Peer(e), "M_DELETE")

\* FA's part, which asks for no status, and the FAI's.
ReceiveDeallocateRequest(f, e) ==
    Send(DeleteBindings(ChangeAllocStatus([f EXCEPT !.closes = @ + 1], e, "DEALLOC_PEND"), e),
         Peer(e), "M_DELETE")

\* Mutant: no look at the status.
ReceiveDeleteRequest_AnyStatus(f, e) ==
    ChangeAllocStatus(
       Send(DeleteBindings(DeallocationRequestFromFAI(f, e), e), Peer(e), "M_DELETE_R"),
       e, "DEALLOCATED")

\* Mutant: the NFlowTable is not updated.
ReceiveDeleteRequest_Keeps(f, e) ==
    IF f.status[e] # "TRANSFER" THEN f
    ELSE Send(DeleteBindings(DeallocationRequestFromFAI(f, e), e), Peer(e), "M_DELETE_R")

\* Mutant: the end waits for its user and forgets to answer.
ReceiveDeleteRequest_NoAnswer(f, e) ==
    IF f.status[e] # "TRANSFER" THEN f
    ELSE ChangeAllocStatus(DeleteBindings(DeallocationRequestFromFAI(f, e), e), e, "DEALLOC_PEND")

ReceiveDeleteRequest(f, e) ==
    IF f.status[e] # "TRANSFER" THEN f
    ELSE ChangeAllocStatus(
            Send(DeleteBindings(DeallocationRequestFromFAI(f, e), e), Peer(e), "M_DELETE_R"),
            e, "DEALLOCATED")

ReceiveDeleteResponse(f, e) ==
    IF f.status[e] # "DEALLOC_PEND" THEN f
    ELSE ChangeAllocStatus(DeallocationRequestFromFAI(f, e), e, "DEALLOCATED")

-----------------------------------------------------------------------------
(* The flow allocator of the relay.                                          *)

\* The responder's copy of the Flow has the hop count the relay left in it.
HopCountAtRelay(to) == (IF to = "R" THEN MaxHopCount ELSE MaxHopCount - 1) - 1

Key(entry) == [to |-> entry.to, retries |-> entry.retries]

\* changeAllocStatus finds the first entry whose Flow equals the given one.
SetFirst(table, keys, status) ==
    [i \in DOMAIN table |->
       IF Key(table[i]) \in keys /\ \A j \in 1..(i - 1) : Key(table[j]) # Key(table[i])
       THEN [table[i] EXCEPT !.status = status] ELSE table[i]]

Insert(f, to) ==
    [f EXCEPT !.hop[to] = @ - 1,
              !.relay = Append(@, [to |-> to, retries |-> IF to = "R" THEN f.retries ELSE 0,
                                   status |-> "FORWARDING"])]

\* The relay goes on with the entries, whose (N-1)-flow is established.
NM1FlowCreated(f, to, entries) ==
    [f EXCEPT !.relay = SetFirst(@, {Key(f.relay[i]) : i \in entries}, "FORWARDED"),
              !.chan[to] = @ \o [i \in 1..Cardinality(entries) |-> "M_CREATE"]]

Waiting(f, to) ==
    {i \in DOMAIN f.relay : f.relay[i].to = to /\ f.relay[i].status = "FORWARDING"}

\* With no hop left the refusal goes to the flow's destination, not to who asked.
ForwardCreateRequest(f, to, nm1) ==
    LET g == Insert(f, to)
        last == Len(g.relay)
    IN IF HopCountAtRelay(to) = 0
       THEN Send([g EXCEPT !.relay = SetFirst(@, {Key(g.relay[last])}, "ALLOC_ERR")],
                 to, "M_CREATE_R-")
       ELSE IF nm1 THEN NM1FlowCreated(g, to, {last}) ELSE g
=============================================================================
