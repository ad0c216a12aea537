------------------------------ MODULE Relaying ------------------------------
(***************************************************************************)
(* What a relaying and multiplexing task promises to a flow: each of its   *)
(* PDUs leaves at most once through each exit of the flow, through no      *)
(* other exit, and after the flow's PDUs that were given before it.  PDUs  *)
(* may be dropped.                                                         *)
(***************************************************************************)
EXTENDS Naturals

CONSTANTS
    Flows,
    Exits,
    ExitsOf     \* ExitsOf[f], the exits through which the PDUs of f are to leave

VARIABLES
    given,      \* given[f], how many PDUs of f have been given to the task
    left        \* left[f][x], the last PDU of f that has left through x, 0 for none

vars == <<given, left>>

Init ==
    /\ given = [f \in Flows |-> 0]
    /\ left = [f \in Flows |-> [x \in Exits |-> 0]]

Take(f) ==
    /\ given' = [given EXCEPT ![f] = @ + 1]
    /\ UNCHANGED left

Leave(f, x) ==
    /\ \E n \in left[f][x] + 1 .. given[f] : left' = [left EXCEPT ![f][x] = n]
    /\ UNCHANGED given

\* A PDU that is not queued leaves as it is taken.
Pass(f, x) ==
    /\ given' = [given EXCEPT ![f] = @ + 1]
    /\ left' = [left EXCEPT ![f][x] = given'[f]]

Next ==
    \E f \in Flows :
        \/ Take(f)
        \/ \E x \in ExitsOf[f] : Leave(f, x) \/ Pass(f, x)

Spec == Init /\ [][Next]_vars
=============================================================================
