---------------------------- MODULE ReliableFlow ----------------------------
(***************************************************************************)
(* What a flow with retransmission control promises to the users at its    *)
(* two ends: the SDUs written at one end are handed up at the other, in    *)
(* the order they were written and each of them once.                      *)
(***************************************************************************)
EXTENDS Naturals

CONSTANT MaxSdu  \* SDUs are numbered 1..MaxSdu in the order they are written

VARIABLES
    written,     \* written[e]: how many SDUs have been written at end e
    handedUp     \* handedUp[e][n]: how often SDU n was handed to the user of e

End == 1..2

\* The first m SDUs, each once.
Prefix(m) == [n \in 1..MaxSdu |-> IF n <= m THEN 1 ELSE 0]

Init ==
    /\ written = [e \in End |-> 0]
    /\ handedUp = [e \in End |-> Prefix(0)]

Put(e) ==
    /\ written[e] < MaxSdu
    /\ written' = [written EXCEPT ![e] = @ + 1]

\* Any number of further SDUs is handed up at once, none that was not written.
Get(e) ==
    \E m, k \in 0..written[3 - e] :
        /\ m < k
        /\ handedUp[e] = Prefix(m)
        /\ handedUp' = [handedUp EXCEPT ![e] = Prefix(k)]

Next ==
    \E e \in End :
        \/ Put(e) /\ UNCHANGED handedUp
        \/ Get(e) /\ UNCHANGED written

Spec == Init /\ [][Next]_<<written, handedUp>>
=============================================================================
