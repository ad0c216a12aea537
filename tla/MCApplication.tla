---------------------------- MODULE MCApplication ---------------------------
(* A small instance of Application: two requests of three processes.         *)
EXTENDS Application, TLC

CONSTANTS a, b, c, r, s

Opens(x, y) == [from |-> x, to |-> y]

MCPlans ==
    {(r :> Opens(a, b)) @@ (s :> second) :
        second \in {Opens(a, b), Opens(a, c), Opens(b, a), Opens(b, c), Opens(c, b)}}

MCRefusals == {{}, {a}, {r}}
=============================================================================
