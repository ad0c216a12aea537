-------------------------- MODULE ApplicationState --------------------------
(***************************************************************************)
(* What the parts of an application process share: the flows it has asked  *)
(* for, the connection table in which the IPC resource manager (IRM) binds *)
(* names to flows, the table of the common application connections (CACE), *)
(* and how messages get onto a flow and off it.                            *)
(*                                                                         *)
(* An application process has one management flow of its own, to the       *)
(* process it enrolls with, and one flow for each connection it opens.     *)
(* Both tables are searched by name and the first match is taken.  The     *)
(* name of an asking end is its own; at the other end every flow arrives   *)
(* at the name it was asked for: "mgmt", 0 or the entity's, instance -1.   *)
(***************************************************************************)
EXTENDS Integers, Sequences, FiniteSets, SequencesExt

CONSTANTS
    APs,
    Requests,       \* what the applications may ask for with a_open
    Plans,          \* plan[r], who asks for r and for a connection to whom
    Refusals,       \* the flows whose credentials are not accepted, one set for each case
    MaxConRetries,
    MaxReads,       \* reads of an application on one connection
    MaxLoss,        \* messages that may be lost
    None

ASSUME ApplicationAssumption ==
    /\ APs \cap Requests = {}
    /\ Requests \cap {"mgmt_0", "mgmt_1", "ae_any"} = {}
    /\ IsFiniteSet(Requests)
    /\ Plans \subseteq [Requests -> [from : APs, to : APs]]
    /\ \A p \in Plans, r \in Requests : p[r].from # p[r].to
    /\ Refusals \subseteq SUBSET (APs \cup Requests)
    /\ MaxConRetries \in Nat
    /\ MaxReads \in Nat
    /\ MaxLoss \in Nat
    /\ None \notin APs \cup Requests

VARIABLES
    plan,       \* the requests of this run
    refusing,   \* the flows of this run whose credentials are not accepted
    isEnrolled, \* isEnrolled[i], AP::isEnrolled
    ConReqStack,\* ConReqStack[i], the requests that wait for i's enrollment
    enrollTo,   \* enrollTo[i], the process with which i enrolls
    mgmtName,   \* mgmtName[i], the name of i's end of its management flow
    alloc,      \* alloc[f], where the allocation of flow f has got to
    ConTable,   \* ConTable[i][n], the flow to which i's IRM has bound the name n
    StateTable, \* StateTable[i], i's rows, enrollments and connections alike
    chan,       \* chan[f][i], the messages on flow f on their way to i
    asked,      \* the requests made with a_open
    answers,    \* answers[r], how often A_GET_OPEN told the application of r
    reads,      \* reads[r], the reads made on r
    results,    \* results[r], the A_GET_READs on r
    lost,       \* how many messages have been lost
    aborted     \* the simulation has stopped with an error

rigid == <<plan, refusing>>
app == <<isEnrolled, ConReqStack, asked, answers, reads, results>>
flows == <<enrollTo, mgmtName, alloc, ConTable>>
vars == <<rigid, app, flows, StateTable, chan, lost, aborted>>

\* The management flow of a process has the process's own identifier.
Flows == APs \cup Requests
IsMgmt(f) == f \in APs

Src(f) == IF IsMgmt(f) THEN f ELSE plan[f].from
Dst(f) == IF IsMgmt(f) THEN enrollTo[f] ELSE plan[f].to
Peer(f, i) == IF i = Src(f) THEN Dst(f) ELSE Src(f)

\* The names of application entities: the k-th management entity is "mgmt_k".
MgmtNames == {"mgmt_0", "mgmt_1"}
Names == MgmtNames \cup {"ae_any"} \cup Requests

AskedName(f) == IF IsMgmt(f) THEN "mgmt_0" ELSE "ae_any"
OwnName(f) == IF IsMgmt(f) THEN mgmtName[f] ELSE f
LocalName(f, i) == IF i = Src(f) THEN OwnName(f) ELSE AskedName(f)

\* The flow has an end at i.
Arrived(f, i) ==
    \/ i = Src(f) /\ alloc[f] = "up"
    \/ i = Dst(f) /\ alloc[f] \in {"accepted", "up"}

-----------------------------------------------------------------------------
(* The rows of CACE and enrollment.                                          *)

ConStatus == {"NIL", "CONNECTPENDING", "AUTHENTICATING", "ESTABLISHED"}
EnrollStatus ==
    {"NIL", "WAIT_START", "WAIT_START_RESPONSE", "WAIT_STOP", "WAIT_STOP_RESPONSE", "ENROLLED"}

\* Requests for one name share a row, and each may be refused once more than it is retried.
MaxRetries == MaxConRetries + Cardinality(Requests)

DAFEnrollmentStateTableEntry ==
    [ap : APs, name : Names, local : Names, con : ConStatus, enroll : EnrollStatus,
     retries : 0 .. MaxRetries]

NewRow(ap, name, local, con) ==
    [ap |-> ap, name |-> name, local |-> local, con |-> con,
     enroll |-> "NIL", retries |-> 0]

\* The first row for a name of another process, 0 if there is none.
FindEntryByDstAPNI(table, ap, name) ==
    SelectInSeq(table, LAMBDA row : row.ap = ap /\ row.name = name)

\* The first row for a management entity of another process.
FindEntryByDstAPN(table, ap) ==
    SelectInSeq(table, LAMBDA row : row.ap = ap /\ row.name \in MgmtNames)

-----------------------------------------------------------------------------
(* Messages.                                                                 *)

MessageType ==
    {"M_CONNECT", "M_CONNECT_R+", "M_CONNECT_R-", "M_START", "M_START_R", "M_STOP", "M_STOP_R",
     "M_READ", "M_READ_R"}

\* A connect request tells the name that the sender has for itself.
Message == [type : MessageType, name : Names]
Msg(type, name) == [type |-> type, name |-> name]
OfCACE(msg) == msg.type \in {"M_CONNECT", "M_CONNECT_R+", "M_CONNECT_R-"}

\* IRM::handleMessage discards what comes from or for gates that no entry has.
Bound(f, i) == ConTable[i][LocalName(f, i)] = f

\* Mutant: where the flow leads is not looked at.
Senders_Any(f, i) == IF IsMgmt(f) THEN {g \in APs : Arrived(g, i)} ELSE {f}

\* Every management entity of i whose flow leads to that process sends the message.
Senders(f, i) ==
    IF IsMgmt(f) THEN {g \in APs : Arrived(g, i) /\ Peer(g, i) = Peer(f, i)} ELSE {f}

Ports(f, i) == {g \in Senders(f, i) : Bound(g, i)}

\* The first of them takes a message of CACE itself away, and the next cannot.
Fatal(senders, out) == Cardinality(senders) > 1 /\ \E k \in DOMAIN out : OfCACE(out[k])

\* The messages c under way when i has sent more on these flows.
Sent(c, ports, i, out) ==
    [g \in Flows |-> IF g \in ports THEN [c[g] EXCEPT ![Peer(g, i)] = @ \o out] ELSE c[g]]

\* The first message for i on flow f; the bindings of i's end lead it to the entity.
Arrives(f, i, type) ==
    /\ Arrived(f, i)
    /\ Head(chan[f][i]).type = type

Taken(f, i) == [chan EXCEPT ![f][i] = Tail(@)]

\* The table of i after a message on f, and what i sends back.
Turn(f, i, table, out) ==
    /\ StateTable' = [StateTable EXCEPT ![i] = table]
    /\ chan' = Sent(Taken(f, i), Ports(f, i), i, out)
    /\ aborted' = Fatal(Senders(f, i), out)

Ignore(f, i) == Turn(f, i, StateTable[i], <<>>)
=============================================================================
