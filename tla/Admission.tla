----------------------------- MODULE Admission ------------------------------
(***************************************************************************)
(* What enrollment promises: two peers become members of one facility      *)
(* together.  A peer vouches for another only if it trusts what the other  *)
(* shows of itself, nobody is a member by a peer that does not vouch for   *)
(* it, a peer that vouches counts the other as a member only when the      *)
(* other is one, and what has been reached is not taken back.              *)
(***************************************************************************)
CONSTANT Peers

VARIABLES
    standing,   \* standing[p][q], what q is to p
    trusts      \* trusts[p], the peers whose credentials p accepts

Standing == {"stranger", "vouching", "member"}

Init ==
    /\ standing \in [Peers -> [Peers -> {"stranger", "member"}]]
    /\ \A p, q \in Peers : standing[p][q] = standing[q][p]
    /\ trusts \in [Peers -> SUBSET Peers]

Becomes(p, q, from, to) ==
    /\ standing[p][q] = from
    /\ standing' = [standing EXCEPT ![p][q] = to]

Vouch(p, q) == q \in trusts[p] /\ Becomes(p, q, "stranger", "vouching")

Join(p, q) == standing[q][p] = "vouching" /\ Becomes(p, q, "stranger", "member")

Confirm(p, q) == standing[q][p] = "member" /\ Becomes(p, q, "vouching", "member")

Next ==
    /\ \E p, q \in Peers : Vouch(p, q) \/ Join(p, q) \/ Confirm(p, q)
    /\ UNCHANGED trusts

Spec == Init /\ [][Next]_<<standing, trusts>>
=============================================================================
