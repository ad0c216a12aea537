------------------------------ MODULE MCRouting ------------------------------
(* A small instance of Routing: a ring of three IPCPs with a fourth behind one *)
(* of them, and a second link between two of them.                             *)
EXTENDS Routing, TLC

Between == 1 :> <<1, 2>> @@ 2 :> <<2, 3>> @@ 3 :> <<3, 1>> @@ 4 :> <<3, 4>> @@ 5 :> <<2, 1>>

Use(policy, links, unstable, garbage, maxOpens) ==
    [policy |-> policy, links |-> links, unstable |-> unstable, garbage |-> garbage,
     maxOpens |-> maxOpens]

Instances ==
    {Use("SimpleDV", {1, 2, 3}, {1}, {}, 1), Use("SimpleDV", {1, 2, 4}, {4}, {}, 1),
     Use("SimpleDV", {1, 5}, {1, 5}, {}, 1), Use("SimpleDV", {1}, {1}, {}, 2),
     Use("SimpleLS", {1, 2, 3}, {}, {3}, 1), Use("SimpleLS", {1, 2}, {2}, {}, 1),
     Use("SimpleLS", {1, 5}, {1, 5}, {}, 1), Use("SimpleLS", {1}, {1}, {}, 2)}

\* The link state trees of all networks with symmetric links of length 1 or 2 have the
\* metrics of shortest ways, and every first hop of one as a next hop.
Pairs == {p \in Nodes \X Nodes : p[1] < p[2]}
Networks ==
    {[k \in Nodes |->
        LET length(m) == lengths[IF k < m THEN <<k, m>> ELSE <<m, k>>]
            adjacent == {m \in Nodes \ {k} : length(m) # 0}
        IN  [sId |-> 1, links |-> [m \in adjacent |-> length(m)]]] :
            lengths \in [Pairs -> 0 .. 2]}

\* Least[k][d], the least length of a way from me to d of at most k links, 99 for none.
Lengths(net, me) ==
    LET least[k \in 0 .. Cardinality(Nodes)] ==
            IF k = 0 THEN [d \in Nodes |-> IF d = me THEN 0 ELSE 99]
            ELSE [d \in Nodes |-> First({least[k - 1][d]} \cup
                    {least[k - 1][x] + net[x].links[d] :
                        x \in {x \in Nodes : d \in DOMAIN net[x].links}})]
    IN  least[Cardinality(Nodes)]

ASSUME TreeIsShortest ==
    \A net \in Networks, me \in {1, 2} :
        LET tree == LS!ConstructTree(me, net)
            near == Lengths(net, me)
            links == net[me].links
        IN  \A d \in Nodes \ {me} :
                IF near[d] >= 99 THEN tree[d] = LS!Unreached
                ELSE /\ tree[d].metric = near[d]
                     /\ tree[d].nh = {h \in DOMAIN links :
                                        links[h] + Lengths(net, h)[d] = near[d]}
=============================================================================
