------------------------------ MODULE Session -------------------------------
(***************************************************************************)
(* What an application is promised when it opens a connection: the answer  *)
(* comes once, only after the other side has accepted a connection of this *)
(* one; an open connection answers reads, each read at most once.          *)
(***************************************************************************)
EXTENDS Naturals

CONSTANT Requests

VARIABLES
    plan,       \* plan[r], the processes between which r is
    asked,      \* the requests that an application has made
    accepted,   \* the processes between which connections have been accepted
    answers,    \* answers[r], how often the application was told that r is open
    waiting     \* waiting[r], the reads on r that have no answer yet

Init ==
    /\ asked = {}
    /\ accepted = {}
    /\ answers = [r \in Requests |-> 0]
    /\ waiting = [r \in Requests |-> 0]

Ask(r) ==
    /\ r \notin asked
    /\ asked' = asked \cup {r}
    /\ UNCHANGED <<accepted, answers, waiting>>

Accept(r) ==
    /\ r \in asked
    /\ accepted' = accepted \cup {plan[r]}
    /\ UNCHANGED <<asked, answers, waiting>>

Open(r) ==
    /\ r \in asked
    /\ plan[r] \in accepted
    /\ answers[r] = 0
    /\ answers' = [answers EXCEPT ![r] = 1]
    /\ UNCHANGED <<asked, accepted, waiting>>

Read(r) ==
    /\ answers[r] = 1
    /\ waiting' = [waiting EXCEPT ![r] = @ + 1]
    /\ UNCHANGED <<asked, accepted, answers>>

Result(r) ==
    /\ waiting[r] > 0
    /\ waiting' = [waiting EXCEPT ![r] = @ - 1]
    /\ UNCHANGED <<asked, accepted, answers>>

Next ==
    /\ \E r \in Requests : Ask(r) \/ Accept(r) \/ Open(r) \/ Read(r) \/ Result(r)
    /\ UNCHANGED plan

Spec == Init /\ [][Next]_<<plan, asked, accepted, answers, waiting>>
=============================================================================
