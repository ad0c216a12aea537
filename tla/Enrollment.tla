----------------------------- MODULE Enrollment -----------------------------
(***************************************************************************)
(* Enrollment into a DIF: the state tables of its IPCPs, the common        *)
(* application connection (CACE) with its authentication, the enrollment   *)
(* protocol that follows on it, the management (N-1)-flow that carries     *)
(* both, and the flow requests that the flow allocator postpones until it  *)
(* hears that an enrollment has finished.                                  *)
(*                                                                         *)
(* An IPCP has at most one row for each other IPCP.  A connect request is  *)
(* sent whenever someone asks for the management flow, also when the flow  *)
(* is still being allocated: its port then holds the message.              *)
(***************************************************************************)
EXTENDS Naturals, Sequences, FiniteSets

CONSTANTS
    IPCPs,
    Credentials,    \* the credentials that the IPCPs may have, one function for each case
    Asked,          \* the pairs <<i, j>> such that i may be told to reach j
    FirstMembers,   \* the IPCPs that may be members from the start
    Configured,     \* the pairs that a configuration may have enrolled
    MaxConRetries,
    MaxAsk,         \* how often i is told to reach j
    MaxLoss         \* messages that may be lost

ASSUME EnrollmentAssumption ==
    /\ Credentials \subseteq
          [IPCPs -> [type : {"NONE", "PASSWD", "SSHRSA"}, password : {"", "secret", "wrong"}]]
    /\ Asked \subseteq {p \in IPCPs \X IPCPs : p[1] # p[2]}
    /\ FirstMembers \subseteq IPCPs
    /\ Configured \subseteq SUBSET IPCPs
    /\ MaxConRetries \in Nat
    /\ MaxAsk \in Nat
    /\ MaxLoss \in Nat

VARIABLES
    auth,       \* auth[i], the credentials of IPCP i
    first,      \* the IPCPs with parameter isSelfEnrolled
    StateTable, \* StateTable[i][j], i's row for j, or NoRow
    chan,       \* chan[i][j], the messages on the way from i to j
    nm1,        \* nm1[i][j], i's management (N-1)-flow to j
    lower,      \* lower[i][j], where the allocation that i asked for has got to
    asks,       \* asks[i][j], how often i has been told to reach j
    postponed,  \* postponed[i], the neighbors to which i has postponed flow requests
    finished,   \* finished[i], the neighbors whose enrollment of i was signalled at i
    lost        \* how many messages have been lost

vars == <<auth, first, StateTable, chan, nm1, lower, asks, postponed, finished, lost>>
rigid == <<auth, first>>

ConStatus == {"NONE", "NIL", "CONNECTPENDING", "AUTHENTICATING", "ESTABLISHED"}
EnrollStatus ==
    {"NIL", "WAIT_START", "WAIT_START_RESPONSE", "WAIT_STOP", "WAIT_STOP_RESPONSE",
     "WAIT_READ_RESPONSE", "WAIT_START_OPERATION", "ENROLLED"}
Message ==
    {"M_CONNECT", "M_CONNECT_R+", "M_CONNECT_R-", "M_START", "M_START_R", "M_STOP", "M_STOP_R"}

\* Every request to reach a neighbor may send two M_CONNECTs, and a refusal one more.
MaxRetries == 2 * MaxAsk + MaxConRetries

EnrollmentStateTableEntry ==
    [con : ConStatus, enroll : EnrollStatus, immediate : BOOLEAN, retries : 0..MaxRetries]

NoRow == [con |-> "NONE", enroll |-> "NIL", immediate |-> FALSE, retries |-> 0]

\* Types and bounds; above all the retries of a connect request end at MaxConRetries.
TypeOK ==
    /\ auth \in Credentials
    /\ first \subseteq FirstMembers
    /\ StateTable \in [IPCPs -> [IPCPs -> EnrollmentStateTableEntry]]
    /\ chan \in [IPCPs -> [IPCPs -> Seq(Message)]]
    /\ nm1 \in [IPCPs -> [IPCPs -> {"none", "pending", "up"}]]
    /\ lower \in [IPCPs -> [IPCPs -> {"idle", "request", "response", "refused"}]]
    /\ asks \in [IPCPs -> [IPCPs -> 0..MaxAsk]]
    /\ postponed \in [IPCPs -> SUBSET IPCPs]
    /\ finished \in [IPCPs -> SUBSET IPCPs]
    /\ lost \in 0..MaxLoss

\* EnrollmentStateTable::insert, which leaves a row that is there.
Insert(row, con) == IF row = NoRow THEN [NoRow EXCEPT !.con = con] ELSE row

\* The rows that EnrollmentStateTable::parseConfig inserts, with its defaults.
ParseConfig(pairs) ==
    [i \in IPCPs |-> [j \in IPCPs |->
        IF i # j /\ {i, j} \in pairs
        THEN [NoRow EXCEPT !.con = "ESTABLISHED", !.enroll = "ENROLLED"] ELSE NoRow]]

ForAll(value) == [i \in IPCPs |-> [j \in IPCPs |-> value]]

\* An IPCP over a medium has its interface port from the start; a DIF above asks for flows.
Init ==
    /\ auth \in Credentials
    /\ first \in SUBSET FirstMembers
    /\ \E pairs \in SUBSET Configured : StateTable = ParseConfig(pairs)
    /\ chan = ForAll(<<>>)
    /\ nm1 \in {ForAll("none"), ForAll("up")}
    /\ lower = ForAll("idle")
    /\ asks = ForAll(0)
    /\ postponed = [i \in IPCPs |-> {}]
    /\ finished = [i \in IPCPs |-> {}]
    /\ lost = 0

\* A self-enrolled IPCP has a row for itself.
IsEnrolled(i) == i \in first \/ \E j \in IPCPs : StateTable[i][j].enroll = "ENROLLED"

-----------------------------------------------------------------------------
(* A management flow is asked for.                                           *)

SetRow(i, j, row) == StateTable' = [StateTable EXCEPT ![i][j] = row]

Signalize(i, j, msg) == chan' = [chan EXCEPT ![i][j] = Append(@, msg)]

StartCACE(i, j) ==
    /\ SetRow(i, j, Insert(StateTable[i][j], "AUTHENTICATING"))
    /\ Signalize(i, j, "M_CONNECT")

\* RA::hasFlow is true of a flow that is still being allocated.
HasFlow(i, j) == nm1[i][j] # "none"

\* FA::receiveMgmtAllocateRequest; the allocation, when it ends, starts CACE by itself.
MgmtAllocateRequest(i, j) ==
    /\ <<i, j>> \in Asked
    /\ asks[i][j] < MaxAsk
    /\ asks' = [asks EXCEPT ![i][j] = @ + 1]
    /\ \/ /\ HasFlow(i, j)
          /\ StartCACE(i, j)
          /\ UNCHANGED <<nm1, lower>>
       \/ /\ ~HasFlow(i, j)
          /\ nm1' = [nm1 EXCEPT ![i][j] = "pending"]
          /\ lower' = [lower EXCEPT ![i][j] = "request"]
          /\ UNCHANGED <<StateTable, chan>>

\* A flow to neighbor j is requested at an IPCP that is not a member yet.
AllocateRequest(i, j) ==
    /\ ~IsEnrolled(i)
    /\ postponed' = [postponed EXCEPT ![i] = @ \cup {j}]
    /\ MgmtAllocateRequest(i, j)
    /\ UNCHANGED <<rigid, finished, lost>>

\* The timer of a configured Connect.
Connect(i, j) ==
    /\ StateTable[i][j] = NoRow
    /\ MgmtAllocateRequest(i, j)
    /\ UNCHANGED <<rigid, postponed, finished, lost>>

\* The DIF below tells j's RA that i wants a flow; a flow of j's own to i may be under way.
CreateNM1FlowWithoutAllocate(i, j) ==
    /\ lower[i][j] = "request"
    /\ lower' = [lower EXCEPT ![i][j] = "response"]
    /\ nm1' = [nm1 EXCEPT ![j][i] = "up"]
    /\ UNCHANGED <<rigid, StateTable, chan, asks, postponed, finished, lost>>

\* Mutant: the enrollment is not told that the flow it waits for is there.
PostNM1FlowAllocation_Silent(i, j) ==
    /\ lower[i][j] = "response"
    /\ lower' = [lower EXCEPT ![i][j] = "idle"]
    /\ nm1' = [nm1 EXCEPT ![i][j] = "up"]
    /\ UNCHANGED <<rigid, StateTable, chan, asks, postponed, finished, lost>>

PostNM1FlowAllocation(i, j) ==
    /\ lower[i][j] = "response"
    /\ lower' = [lower EXCEPT ![i][j] = "idle"]
    /\ nm1' = [nm1 EXCEPT ![i][j] = "up"]
    /\ StartCACE(i, j)
    /\ UNCHANGED <<rigid, asks, postponed, finished, lost>>

\* The DIF below has no such flow to give: nobody listens, and the port stays as it is.
NM1FlowRefused(i, j) ==
    /\ lower[i][j] = "request"
    /\ lower' = [lower EXCEPT ![i][j] = "refused"]
    /\ UNCHANGED <<rigid, StateTable, chan, nm1, asks, postponed, finished, lost>>

-----------------------------------------------------------------------------
(* Messages from j reach i.                                                  *)

Arrives(i, j, msg) ==
    /\ nm1[j][i] = "up"
    /\ chan[j][i] # <<>>
    /\ Head(chan[j][i]) = msg

\* The row after the message, and what is sent back.
Turn(i, j, row, out) ==
    /\ SetRow(i, j, row)
    /\ chan' = [chan EXCEPT ![j][i] = Tail(@), ![i][j] = @ \o out]

Ignore(i, j) == Turn(i, j, StateTable[i][j], <<>>)

\* Mutant: the enrollment status is left to the start request.
ProcessConResPosi_NotWaiting(i, j, row) ==
    Turn(i, j, [row EXCEPT !.con = "ESTABLISHED"], <<"M_CONNECT_R+">>)

ProcessConResPosi(i, j, row) ==
    Turn(i, j, [row EXCEPT !.con = "ESTABLISHED", !.enroll = "WAIT_START"], <<"M_CONNECT_R+">>)

ProcessConResNega(i, j, row) ==
    Turn(i, j, [row EXCEPT !.con = "CONNECTPENDING", !.retries = @ + 1], <<"M_CONNECT_R-">>)

\* Mutant: the password is not looked at.
Authentic_TypeOnly(mine, theirs) == theirs.type = mine.type

\* Other types of authentication are not supported.
Authentic(mine, theirs) ==
    /\ theirs.type = mine.type
    /\ \/ mine.type = "NONE"
       \/ mine.type = "PASSWD" /\ theirs.password = mine.password

Authenticate(i, j, row) ==
    IF Authentic(auth[i], auth[j]) THEN ProcessConResPosi(i, j, row)
                                   ELSE ProcessConResNega(i, j, row)

ReceiveConnectRequest(i, j) ==
    LET row == Insert(StateTable[i][j], "CONNECTPENDING")
    IN /\ Arrives(i, j, "M_CONNECT")
       /\ IF row.con = "CONNECTPENDING"
          THEN Authenticate(i, j, [row EXCEPT !.con = "AUTHENTICATING"])
          ELSE Ignore(i, j)
       /\ UNCHANGED <<postponed, finished>>

StartEnrollment(i, j, row) ==
    Turn(i, j, [row EXCEPT !.enroll = "WAIT_START_RESPONSE"], <<"M_START">>)

ReceivePositiveConnectResponse(i, j) ==
    /\ Arrives(i, j, "M_CONNECT_R+")
    /\ IF StateTable[i][j].con = "AUTHENTICATING"
       THEN StartEnrollment(i, j, [StateTable[i][j] EXCEPT !.con = "ESTABLISHED"])
       ELSE Ignore(i, j)
    /\ UNCHANGED <<postponed, finished>>

ProcessNewConReq(i, j, row) ==
    Turn(i, j, [row EXCEPT !.con = "AUTHENTICATING"], <<"M_CONNECT">>)

\* Mutant: the bound on retries is not looked at.
ReceiveNegativeConnectResponse_Forever(i, j) ==
    /\ Arrives(i, j, "M_CONNECT_R-")
    /\ ProcessNewConReq(i, j, StateTable[i][j])
    /\ UNCHANGED <<postponed, finished>>

ReceiveNegativeConnectResponse(i, j) ==
    LET row == StateTable[i][j]
    IN /\ Arrives(i, j, "M_CONNECT_R-")
       /\ CASE row.con # "AUTHENTICATING" -> Ignore(i, j)
            [] row.con = "AUTHENTICATING" /\ MaxConRetries <= row.retries ->
                 Turn(i, j, [row EXCEPT !.con = "NIL"], <<>>)
            [] OTHER -> ProcessNewConReq(i, j, [row EXCEPT !.retries = @ + 1])
       /\ UNCHANGED <<postponed, finished>>

ProcessStopEnrollmentImmediate(i, j, row) ==
    Turn(i, j, [row EXCEPT !.immediate = TRUE, !.enroll = "WAIT_STOP_RESPONSE"],
         <<"M_START_R", "M_STOP">>)

ReceiveStartEnrollmentRequest(i, j) ==
    /\ Arrives(i, j, "M_START")
    /\ IF StateTable[i][j].enroll = "WAIT_START"
       THEN ProcessStopEnrollmentImmediate(i, j, StateTable[i][j])
       ELSE Ignore(i, j)
    /\ UNCHANGED <<postponed, finished>>

ReceiveStartEnrollmentResponse(i, j) ==
    /\ Arrives(i, j, "M_START_R")
    /\ IF StateTable[i][j].enroll = "WAIT_START_RESPONSE"
       THEN Turn(i, j, [StateTable[i][j] EXCEPT !.enroll = "WAIT_STOP"], <<>>)
       ELSE Ignore(i, j)
    /\ UNCHANGED <<postponed, finished>>

\* Mutant: the flow allocator is not told.
SignalizeEnrollmentFinished_Silent(i, j) == UNCHANGED <<postponed, finished>>

\* The flow allocator takes up the requests it has postponed to this neighbor.
SignalizeEnrollmentFinished(i, j) ==
    /\ finished' = [finished EXCEPT ![i] = @ \cup {j}]
    /\ postponed' = [postponed EXCEPT ![i] = @ \ {j}]

ProcessStopEnrollmentResponse(i, j, row) ==
    IF row.immediate
    THEN /\ Turn(i, j, [row EXCEPT !.enroll = "ENROLLED"], <<"M_STOP_R">>)
         /\ SignalizeEnrollmentFinished(i, j)
    ELSE /\ Turn(i, j, [row EXCEPT !.enroll = "WAIT_START_OPERATION"], <<"M_STOP_R">>)
         /\ UNCHANGED <<postponed, finished>>

\* What the member sends is always an immediate transition to operation.
ReceiveStopEnrollmentRequest(i, j) ==
    LET row == StateTable[i][j]
    IN /\ Arrives(i, j, "M_STOP")
       /\ IF row.enroll = "WAIT_STOP"
          THEN ProcessStopEnrollmentResponse(i, j,
                  [row EXCEPT !.immediate = TRUE, !.enroll = "WAIT_READ_RESPONSE"])
          ELSE Ignore(i, j) /\ UNCHANGED <<postponed, finished>>

ReceiveStopEnrollmentResponse(i, j) ==
    LET row == StateTable[i][j]
    IN /\ Arrives(i, j, "M_STOP_R")
       /\ IF row.enroll = "WAIT_STOP_RESPONSE" /\ row.immediate
          THEN Turn(i, j, [row EXCEPT !.enroll = "ENROLLED"], <<>>)
          ELSE Ignore(i, j)
       /\ UNCHANGED <<postponed, finished>>

Receive(i, j) ==
    /\ \/ ReceiveConnectRequest(i, j)
       \/ ReceivePositiveConnectResponse(i, j)
       \/ ReceiveNegativeConnectResponse(i, j)
       \/ ReceiveStartEnrollmentRequest(i, j)
       \/ ReceiveStartEnrollmentResponse(i, j)
       \/ ReceiveStopEnrollmentRequest(i, j)
       \/ ReceiveStopEnrollmentResponse(i, j)
    /\ UNCHANGED <<rigid, nm1, lower, asks, lost>>

\* Management PDUs pass through queues that drop, and nothing is sent again.
Lose(i, j) ==
    /\ lost < MaxLoss
    /\ nm1[j][i] = "up"
    /\ chan[j][i] # <<>>
    /\ chan' = [chan EXCEPT ![j][i] = Tail(@)]
    /\ lost' = lost + 1
    /\ UNCHANGED <<rigid, StateTable, nm1, lower, asks, postponed, finished>>

-----------------------------------------------------------------------------
Next ==
    \E i, j \in IPCPs :
       \/ AllocateRequest(i, j) \/ Connect(i, j)
       \/ CreateNM1FlowWithoutAllocate(i, j)
       \/ PostNM1FlowAllocation(i, j) \/ NM1FlowRefused(i, j)
       \/ Receive(i, j) \/ Lose(i, j)

Spec == Init /\ [][Next]_vars

\* The simulation handles every message that is under way, in this DIF and in the one below.
FairSpec ==
    /\ Spec
    /\ \A i, j \in IPCPs :
          /\ WF_vars(Receive(i, j))
          /\ WF_vars(CreateNM1FlowWithoutAllocate(i, j) \/ NM1FlowRefused(i, j))
          /\ WF_vars(PostNM1FlowAllocation(i, j))

-----------------------------------------------------------------------------
(* What enrollment does to the two state tables of a pair.                  *)

StandingOf(enroll) ==
    CASE enroll \in {"WAIT_START", "WAIT_STOP_RESPONSE"} -> "vouching"
      [] enroll = "ENROLLED" -> "member"
      [] OTHER -> "stranger"

\* The credentials that i accepts: its own, if they are of a type that is supported.
Trusted(i, j) ==
    \/ auth[j].type = "PASSWD" /\ auth[j] = auth[i]
    \/ {auth[i].type, auth[j].type} = {"NONE"}

AD == INSTANCE Admission
         WITH Peers <- IPCPs,
              standing <- [i \in IPCPs |-> [j \in IPCPs |-> StandingOf(StateTable[i][j].enroll)]],
              trusts <- [i \in IPCPs |-> {j \in IPCPs : Trusted(i, j)}]

\* An IPCP is enrolled only by one that has accepted its credentials and is still at it,
\* that one counts it as enrolled only when it is, and neither goes back: the handlers look
\* at a status of their own row only, and connect requests come twice, cross and are lost.
ImplementsAdmission == AD!Spec

Quiet(i, j) ==
    /\ chan[i][j] = <<>> \/ nm1[i][j] # "up"
    /\ lower[i][j] \notin {"request", "response"}

\* Both ends sent a connect request before the other's arrived: each waits for an answer
\* to its own and ignores that of the other.
Crossed(i, j) ==
    /\ StateTable[i][j].con = "AUTHENTICATING"
    /\ StateTable[j][i].con = "AUTHENTICATING"

\* A pair that nothing is under way for, and nothing was lost of, is enrolled at both ends,
\* has been refused for its credentials or for want of a flow, or has crossed requests.
QuietMeansSettled ==
    \A i, j \in IPCPs : lost = 0 /\ asks[i][j] > 0 /\ Quiet(i, j) /\ Quiet(j, i) =>
        \/ StateTable[i][j].enroll = "ENROLLED" /\ StateTable[j][i].enroll = "ENROLLED"
        \/ ~Trusted(j, i)
        \/ "refused" \in {lower[i][j], lower[j][i]}
        \/ Crossed(i, j)

\* A flow request stays postponed to a neighbor with which the IPCP is enrolled only where
\* that neighbor asked first: who answers an enrollment is not told that it has finished.
PostponedOnlyAtResponder ==
    \A i \in IPCPs : \A j \in postponed[i] :
        StateTable[i][j].enroll = "ENROLLED" => i \in finished[j]

\* An IPCP that wants to reach another ends up enrolled with it, if nothing was lost,
\* refused or crossed; what it postponed is then taken up, unless the other asked first.
EnrollmentEnds ==
    \A i, j \in IPCPs : <<i, j>> \in Asked =>
        (asks[i][j] > 0 ~>
            \/ j \in finished[i] /\ j \notin postponed[i]
            \/ i \in finished[j]
            \/ ~Trusted(j, i) /\ StateTable[j][i].con # "ESTABLISHED"
            \/ "refused" \in {lower[i][j], lower[j][i]}
            \/ Crossed(i, j)
            \/ lost > 0)
=============================================================================
