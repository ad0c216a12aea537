---------------------------- MODULE Application -----------------------------
(***************************************************************************)
(* Application processes that open connections to each other: a_open, the  *)
(* enrollment it may have to wait for, the application entity made for     *)
(* each connection at either end, and the reads of the application.        *)
(***************************************************************************)
EXTENDS DAFEnrollment

\* Types and bounds; above all an application hears once of its connection, a read is answered
\* at most as often as it is made, and no row is retried more often than its requests allow.
TypeOK ==
    /\ plan \in Plans /\ refusing \in Refusals
    /\ isEnrolled \in [APs -> {"NOT_ENROLLED", "ENROLLING", "ENROLLED"}]
    /\ ConReqStack \in [APs -> SUBSET Requests]
    /\ enrollTo \in [APs -> APs \cup {None}]
    /\ mgmtName \in [APs -> MgmtNames \cup {None}]
    /\ alloc \in [Flows -> {"none", "asked", "accepted", "up", "failed"}]
    /\ ConTable \in [APs -> [Names -> Flows \cup {None}]]
    /\ StateTable \in [APs -> Seq(DAFEnrollmentStateTableEntry)]
    /\ chan \in [Flows -> [APs -> Seq(Message)]]
    /\ asked \subseteq Requests
    /\ answers \in [Requests -> 0 .. 1]
    /\ reads \in [Requests -> 0 .. MaxReads]
    /\ results \in [Requests -> 0 .. MaxReads]
    /\ lost \in 0 .. MaxLoss
    /\ aborted \in BOOLEAN

Init ==
    /\ plan \in Plans
    /\ refusing \in Refusals
    /\ isEnrolled = [i \in APs |-> "NOT_ENROLLED"]
    /\ ConReqStack = [i \in APs |-> {}]
    /\ enrollTo = [i \in APs |-> None]
    /\ mgmtName = [i \in APs |-> None]
    /\ alloc = [f \in Flows |-> "none"]
    /\ ConTable = [i \in APs |-> [n \in Names |-> None]]
    /\ StateTable = [i \in APs |-> <<>>]
    /\ chan = [f \in Flows |-> [i \in APs |-> <<>>]]
    /\ asked = {}
    /\ answers = [r \in Requests |-> 0]
    /\ reads = [r \in Requests |-> 0]
    /\ results = [r \in Requests |-> 0]
    /\ lost = 0
    /\ aborted = FALSE

-----------------------------------------------------------------------------
(* The application process.                                                  *)

\* The entities of these requests are made, and each asks for its flow.
CreateIAE(requests) == alloc' = [f \in Flows |-> IF f \in requests THEN "asked" ELSE alloc[f]]

\* Only the first request of a process has it enroll, with whom that request is for.
AOpen(r) ==
    LET i == plan[r].from
    IN /\ r \notin asked
       /\ asked' = asked \cup {r}
       /\ \/ /\ isEnrolled[i] = "NOT_ENROLLED"
             /\ isEnrolled' = [isEnrolled EXCEPT ![i] = "ENROLLING"]
             /\ ConReqStack' = [ConReqStack EXCEPT ![i] = @ \cup {r}]
             /\ CheckEnrolled(i, plan[r].to)
          \/ /\ isEnrolled[i] = "ENROLLING"
             /\ ConReqStack' = [ConReqStack EXCEPT ![i] = @ \cup {r}]
             /\ UNCHANGED <<isEnrolled, flows>>
          \/ /\ isEnrolled[i] = "ENROLLED"
             /\ CreateIAE({r})
             /\ UNCHANGED <<isEnrolled, ConReqStack, enrollTo, mgmtName, ConTable>>
       /\ UNCHANGED <<rigid, answers, reads, results, StateTable, chan, lost, aborted>>

\* Mutant: one request is started, the others are forgotten.
StartRequestedConnections_One(i) ==
    /\ CreateIAE({CHOOSE r \in ConReqStack[i] : TRUE})
    /\ ConReqStack' = [ConReqStack EXCEPT ![i] = {}]
    /\ isEnrolled' = [isEnrolled EXCEPT ![i] = "ENROLLED"]
    /\ UNCHANGED <<asked, answers, reads, results>>

\* What waited for the enrollment; each flow goes its own way, so that their order is not seen.
StartRequestedConnections(i) ==
    /\ CreateIAE(ConReqStack[i])
    /\ ConReqStack' = [ConReqStack EXCEPT ![i] = {}]
    /\ isEnrolled' = [isEnrolled EXCEPT ![i] = "ENROLLED"]
    /\ UNCHANGED <<asked, answers, reads, results>>

ReceiveStopEnrollmentRequest(f, i) ==
    \/ /\ Expected(f, i, "M_STOP", "WAIT_STOP")
       /\ Enrolls(f, i, "ENROLLED", <<Here(f, i, "M_STOP_R")>>)
       /\ StartRequestedConnections(i)
    \/ /\ Unexpected(f, i, "M_STOP", "WAIT_STOP")
       /\ UNCHANGED alloc

-----------------------------------------------------------------------------
(* The application entities.                                                 *)

CACEFinished(r) ==
    /\ answers' = [answers EXCEPT ![r] = @ + 1]
    /\ UNCHANGED <<isEnrolled, ConReqStack, asked, reads, results>>

\* What CACE was for starts: an enrollment or the use of a connection.
ReceivePositiveConnectResponse(f, i) ==
    LET n == Answered(f, i)
    IN /\ Arrives(f, i, "M_CONNECT_R+")
       /\ \/ /\ StateTable[i][n].con # "AUTHENTICATING"
             /\ Ignore(f, i)
             /\ UNCHANGED app
          \/ /\ StateTable[i][n].con = "AUTHENTICATING"
             /\ IsMgmt(f)
             /\ StartEnrollment(f, i, n)
             /\ UNCHANGED app
          \/ /\ StateTable[i][n].con = "AUTHENTICATING"
             /\ ~IsMgmt(f)
             /\ Turn(f, i, [StateTable[i] EXCEPT ![n].con = "ESTABLISHED"], <<>>)
             /\ CACEFinished(f)

\* The entity of the connection that the request names takes it up.
ARead(r) ==
    /\ answers[r] > 0
    /\ reads[r] < MaxReads
    /\ reads' = [reads EXCEPT ![r] = @ + 1]
    /\ chan' = Sent(chan, Ports(r, Src(r)), Src(r), <<Here(r, Src(r), "M_READ")>>)
    /\ UNCHANGED <<rigid, isEnrolled, ConReqStack, asked, answers, results, flows>>
    /\ UNCHANGED <<StateTable, lost, aborted>>

ProcessMRead(f, i) ==
    /\ Arrives(f, i, "M_READ")
    /\ Turn(f, i, StateTable[i], <<Here(f, i, "M_READ_R")>>)
    /\ UNCHANGED app

ProcessMReadR(f, i) ==
    /\ Arrives(f, i, "M_READ_R")
    /\ Ignore(f, i)
    /\ results' = [results EXCEPT ![f] = @ + 1]
    /\ UNCHANGED <<isEnrolled, ConReqStack, asked, answers, reads>>

-----------------------------------------------------------------------------
Handled(f, i) ==
    \/ /\ \/ ReceiveConnectRequest(f, i)
          \/ ReceivePositiveConnectResponse(f, i)
          \/ ReceiveNegativeConnectResponse(f, i)
          \/ ReceiveStartEnrollmentRequest(f, i)
          \/ ReceiveStartEnrollmentResponse(f, i)
          \/ ReceiveStopEnrollmentResponse(f, i)
          \/ ProcessMRead(f, i)
          \/ ProcessMReadR(f, i)
       /\ UNCHANGED alloc
    \/ ReceiveStopEnrollmentRequest(f, i)

\* The IRM has no entry left for the port that a message comes from.
Discarded(f, i) ==
    /\ chan' = Taken(f, i)
    /\ UNCHANGED <<app, alloc, StateTable, aborted>>

\* The IRM hands a message to the entity at the other end of the port's binding.
HandleMessage(f, i) ==
    /\ chan[f][i] # <<>>
    /\ Arrived(f, i)
    /\ IF Bound(f, i) THEN Handled(f, i) ELSE Discarded(f, i)
    /\ UNCHANGED <<rigid, enrollTo, mgmtName, ConTable, lost>>

\* The flows of the DIF below may be unreliable, and nothing is sent again.
Lose(f, i) ==
    /\ lost < MaxLoss
    /\ chan[f][i] # <<>>
    /\ chan' = Taken(f, i)
    /\ lost' = lost + 1
    /\ UNCHANGED <<rigid, app, flows, StateTable, aborted>>

Allocation(f) ==
    \/ ReceiveAllocationRequestFromFAI(f)
    \/ ReceiveAllocationResponsePositive(f)
    \/ ReceiveAllocationResponseNegative(f)

Event(f) == Allocation(f) \/ \E i \in APs : HandleMessage(f, i)

Next ==
    /\ ~aborted
    /\ \/ \E r \in Requests : AOpen(r) \/ ARead(r)
       \/ \E f \in Flows : Event(f)
       \/ \E f \in Flows, i \in APs : Lose(f, i)

Spec == Init /\ [][Next]_vars

Quiet ==
    /\ \A f \in Flows : alloc[f] \notin {"asked", "accepted"}
    /\ \A f \in Flows, i \in APs : Arrived(f, i) => chan[f][i] = <<>>

\* Weak fairness of all Events together: the simulation goes on while there are requests or
\* messages under way.  Events are the steps that ask for nothing, read and lose nothing.
Fairness ==
    \/ []<>(Quiet \/ aborted)
    \/ []<><<UNCHANGED <<asked, reads, lost>>>>_vars

FairSpec == Spec /\ Fairness

-----------------------------------------------------------------------------
(* What the applications get.                                                *)

\* The connections that i has accepted: those of one name at the other end are one to it.
AcceptedBy(i) ==
    {[from |-> StateTable[i][n].ap, to |-> i] : n \in
        {n \in DOMAIN StateTable[i] : /\ StateTable[i][n].name \in Requests
                                      /\ StateTable[i][n].con = "ESTABLISHED"}}

SE == INSTANCE Session WITH
         accepted <- UNION {AcceptedBy(i) : i \in APs},
         waiting <- [r \in Requests |-> reads[r] - results[r]]

\* An application is told once that a connection is open, after the other side has accepted
\* one of its process, and gets one result for a read at most: connect requests find the
\* row of another request, are refused and retried, and come for entities with one name.
ImplementsSession == SE!Spec

\* Two requests of a process for connections to the same process.
Twins(r, s) == r # s /\ plan[r] = plan[s] /\ s \in asked

\* Another flow has come to the name that f has at i.
Displaced(f, i) ==
    \E g \in Flows \ {f} : Arrived(g, i) /\ LocalName(g, i) = LocalName(f, i)

Silenced(f) == Displaced(f, Src(f)) \/ Displaced(f, Dst(f))

\* Why an application may get nothing for what it asks.
Unserved(r) ==
    \/ "failed" \in {alloc[Src(r)], alloc[r]}
    \/ {Src(r), r} \cap refusing # {}
    \/ Silenced(r) \/ Silenced(Src(r))
    \/ \E s \in Requests : Twins(r, s)
    \/ lost > 0 \/ aborted

\* A request for a connection is answered and so is each read, also one that waited for the
\* enrollment, unless a flow was not to be had, a message was lost, the credentials were not
\* accepted, the same was requested twice, or another flow came to a name of its flows.
RequestsServed ==
    \A r \in Requests :
        /\ r \in asked ~> answers[r] > 0 \/ Unserved(r)
        /\ reads[r] > results[r] ~> results[r] = reads[r] \/ Unserved(r)

\* The simulation stops with an error only where two processes have enrolled with each
\* other: then each has two entities that take up the same message of CACE.
AbortMeansMutual ==
    aborted => \E i \in APs : enrollTo[i] # None /\ enrollTo[enrollTo[i]] = i
=============================================================================
