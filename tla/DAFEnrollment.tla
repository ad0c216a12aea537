--------------------------- MODULE DAFEnrollment ----------------------------
(***************************************************************************)
(* Enrollment of an application process into a distributed application:    *)
(* the management flow, the common application connection over it (CACE,   *)
(* which connections of applications go through as well), and the          *)
(* exchange that makes the process a member.                               *)
(***************************************************************************)
EXTENDS ApplicationState

(* The management flow. *)

\* The entities for management are numbered as they are made, at either end of a flow.
CurrentMgmtAEInstance(i) == IF \E f \in APs : Arrived(f, i) THEN "mgmt_1" ELSE "mgmt_0"

\* What is looked up is the process's own name, which no row has: a flow is always asked for.
CheckEnrolled(i, j) ==
    /\ enrollTo' = [enrollTo EXCEPT ![i] = j]
    /\ mgmtName' = [mgmtName EXCEPT ![i] = CurrentMgmtAEInstance(i)]
    /\ alloc' = [alloc EXCEPT ![i] = "asked"]
    /\ UNCHANGED ConTable

\* IRM::newFlow and the bindings: the first entry with the name is set, a new one is not found.
Bind(f, i) == ConTable' = [ConTable EXCEPT ![i][LocalName(f, i)] = f]

\* The other side takes the flow; applications and management entities take every one.
ReceiveAllocationRequestFromFAI(f) ==
    /\ alloc[f] = "asked"
    /\ alloc' = [alloc EXCEPT ![f] = "accepted"]
    /\ Bind(f, Dst(f))
    /\ UNCHANGED <<rigid, app, enrollTo, mgmtName, StateTable, chan, lost, aborted>>

\* Nobody acts upon a refusal: the connection, or the process, stays as it is.
ReceiveAllocationResponseNegative(f) ==
    /\ alloc[f] = "asked"
    /\ alloc' = [alloc EXCEPT ![f] = "failed"]
    /\ UNCHANGED <<rigid, app, enrollTo, mgmtName, ConTable, StateTable, chan, lost, aborted>>

-----------------------------------------------------------------------------
(* CACE.                                                                     *)

\* The row that is found for the flow's name need not be the one that is inserted.
StartCACE(f) ==
    LET i == Src(f)
        row == NewRow(Dst(f), AskedName(f), OwnName(f), "AUTHENTICATING")
        table == Append(StateTable[i], row)
        entry == table[FindEntryByDstAPNI(table, row.ap, row.name)]
        request == <<Msg("M_CONNECT", entry.local)>>
    IN /\ StateTable' = [StateTable EXCEPT ![i] = table]
       /\ chan' = Sent(chan, Ports(f, i)', i, request)
       /\ aborted' = Fatal(Senders(f, i)', request)

\* The end that asked hears of it and starts CACE.
ReceiveAllocationResponsePositive(f) ==
    /\ alloc[f] = "accepted"
    /\ alloc' = [alloc EXCEPT ![f] = "up"]
    /\ Bind(f, Src(f))
    /\ UNCHANGED <<rigid, app, enrollTo, mgmtName, lost>>
    /\ StartCACE(f)

\* What follows a connect request that is met, on the row at n of table.
ProcessConResPosi(f, i, table, n) ==
    Turn(f, i,
         [table EXCEPT ![n].con = "ESTABLISHED",
                       ![n].enroll = IF IsMgmt(f) THEN "WAIT_START" ELSE @],
         <<Msg("M_CONNECT_R+", table[n].local)>>)

\* Mutant: the answer says success.
ProcessConResNega_Success(f, i, table, n) ==
    Turn(f, i, [table EXCEPT ![n].con = "CONNECTPENDING", ![n].retries = @ + 1],
         <<Msg("M_CONNECT_R+", table[n].local)>>)

ProcessConResNega(f, i, table, n) ==
    Turn(f, i, [table EXCEPT ![n].con = "CONNECTPENDING", ![n].retries = @ + 1],
         <<Msg("M_CONNECT_R-", table[n].local)>>)

Authenticate(f, i, table, n) ==
    IF f \in refusing THEN ProcessConResNega(f, i, table, n)
                      ELSE ProcessConResPosi(f, i, table, n)

\* Each request brings a row, and the first row for the sender's name decides.
ReceiveConnectRequest(f, i) ==
    LET msg == Head(chan[f][i])
        row == NewRow(Peer(f, i), msg.name, AskedName(f), "CONNECTPENDING")
        table == Append(StateTable[i], row)
        n == FindEntryByDstAPNI(table, row.ap, row.name)
    IN /\ Arrives(f, i, "M_CONNECT")
       /\ IF table[n].con = "CONNECTPENDING" THEN Authenticate(f, i, table, n)
                                             ELSE Turn(f, i, table, <<>>)
       /\ UNCHANGED app

\* The row that an answer on f is about.
Answered(f, i) ==
    FindEntryByDstAPNI(StateTable[i], Peer(f, i), Head(chan[f][i]).name)

ProcessNewConReq(f, i, table, n) ==
    Turn(f, i, [table EXCEPT ![n].con = "AUTHENTICATING"],
         <<Msg("M_CONNECT", table[n].local)>>)

\* Mutant: the bound on retries is not looked at.
ReceiveNegativeConnectResponse_Forever(f, i) ==
    LET n == Answered(f, i)
        table == StateTable[i]
    IN /\ Arrives(f, i, "M_CONNECT_R-")
       /\ IF table[n].con # "AUTHENTICATING" THEN Ignore(f, i)
          ELSE ProcessNewConReq(f, i, [table EXCEPT ![n].retries = @ + 1], n)
       /\ UNCHANGED app

ReceiveNegativeConnectResponse(f, i) ==
    LET n == Answered(f, i)
        table == StateTable[i]
    IN /\ Arrives(f, i, "M_CONNECT_R-")
       /\ CASE table[n].con # "AUTHENTICATING" -> Ignore(f, i)
            [] table[n].con = "AUTHENTICATING" /\ MaxConRetries <= table[n].retries ->
                 Turn(f, i, [table EXCEPT ![n].con = "NIL"], <<>>)
            [] OTHER -> ProcessNewConReq(f, i, [table EXCEPT ![n].retries = @ + 1], n)
       /\ UNCHANGED app

-----------------------------------------------------------------------------
(* Enrollment proper, over a management flow.                                *)

\* The row for the process at the other end, which the message names.
Entry(f, i) == FindEntryByDstAPN(StateTable[i], Peer(f, i))

\* A message is met only in one enrollment status of the row.
Expected(f, i, type, status) ==
    /\ Arrives(f, i, type)
    /\ StateTable[i][Entry(f, i)].enroll = status

Unexpected(f, i, type, status) ==
    /\ Arrives(f, i, type)
    /\ StateTable[i][Entry(f, i)].enroll # status
    /\ Ignore(f, i)
    /\ UNCHANGED app

Enrolls(f, i, status, out) ==
    Turn(f, i, [StateTable[i] EXCEPT ![Entry(f, i)].enroll = status], out)

Here(f, i, type) == Msg(type, LocalName(f, i))

StartEnrollment(f, i, n) ==
    Turn(f, i,
         [StateTable[i] EXCEPT ![n].con = "ESTABLISHED", ![n].enroll = "WAIT_START_RESPONSE"],
         <<Here(f, i, "M_START")>>)

\* The member answers and stops the exchange at once, with an immediate start of operation.
ReceiveStartEnrollmentRequest(f, i) ==
    \/ /\ Expected(f, i, "M_START", "WAIT_START")
       /\ Enrolls(f, i, "WAIT_STOP_RESPONSE",
                  <<Here(f, i, "M_START_R"), Here(f, i, "M_STOP")>>)
       /\ UNCHANGED app
    \/ Unexpected(f, i, "M_START", "WAIT_START")

ReceiveStartEnrollmentResponse(f, i) ==
    \/ /\ Expected(f, i, "M_START_R", "WAIT_START_RESPONSE")
       /\ Enrolls(f, i, "WAIT_STOP", <<>>)
       /\ UNCHANGED app
    \/ Unexpected(f, i, "M_START_R", "WAIT_START_RESPONSE")

\* The member's row is enrolled when the answer to its stop request comes.
ReceiveStopEnrollmentResponse(f, i) ==
    \/ /\ Expected(f, i, "M_STOP_R", "WAIT_STOP_RESPONSE")
       /\ Enrolls(f, i, "ENROLLED", <<>>)
       /\ UNCHANGED app
    \/ Unexpected(f, i, "M_STOP_R", "WAIT_STOP_RESPONSE")
=============================================================================
