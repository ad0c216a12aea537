------------------------------ MODULE SimpleLS -------------------------------
(***************************************************************************)
(* The link state routing policy of one IPCP, as functions on its record.  *)
(* SimpleGenerator knows one QoS only, so that every map keyed by a QoS is *)
(* what it holds for that one.  An entry of netState that the code creates *)
(* by looking for it has number 0 and no links, as has one not there.      *)
(***************************************************************************)
EXTENDS Naturals, FiniteSets, FiniteSetsExt

CONSTANT Nodes  \* numbered from 1 as IPCP names are ordered

Unreached == [metric |-> 0, nh |-> {}]

\* scheduledUpdate is not initialised: garbage is what the memory holds.
OnPolicyInit(n, garbage) ==
    [me |-> n, neig |-> <<>>,
     netState |-> [k \in Nodes |-> [sId |-> 0, links |-> <<>>]],
     secId |-> 1, lastChanges |-> {}, table |-> [d \in Nodes |-> Unreached],
     changes |-> <<>>, scheduledUpdate |-> garbage, timer |-> FALSE]

\* A map with one more key, or another value for it; and one map laid over another.
With(f, x, v) == [y \in DOMAIN f \cup {x} |-> IF y = x THEN v ELSE f[y]]
Over(f, g) == [x \in DOMAIN f \cup DOMAIN g |-> IF x \in DOMAIN f THEN f[x] ELSE g[x]]

ScheduleUpdate(r) ==
    [r EXCEPT !.scheduledUpdate = TRUE, !.timer = IF r.scheduledUpdate THEN @ ELSE TRUE]

ChangeLinks(r, neig, links) ==
    ScheduleUpdate(
        [r EXCEPT !.neig = neig, !.lastChanges = @ \cup {r.me}, !.secId = @ + 1,
                  !.netState[r.me] = [sId |-> r.secId + 1, links |-> links]])

InsertFlow(r, dst, metric) ==
    ChangeLinks(r, With(r.neig, dst, metric), With(r.netState[r.me].links, dst, metric))

Without(f, x) == [y \in DOMAIN f \ {x} |-> f[y]]

RemoveFlow(r, dst) ==
    ChangeLinks(r, Without(r.neig, dst), Without(r.netState[r.me].links, dst))

\* Mutant: what a neighbor reported is not passed on.
ProcessUpdate_NotPassedOn(r, up) ==
    LET newer == {k \in DOMAIN up : r.netState[k].sId < up[k].sId}
        changed == [r EXCEPT
            !.netState = [k \in Nodes |-> IF k \in newer THEN up[k] ELSE @[k]]]
    IN  IF changed.lastChanges # {} \/ newer # {} THEN ScheduleUpdate(changed) ELSE changed

ProcessUpdate(r, up) ==
    LET newer == {k \in DOMAIN up : r.netState[k].sId < up[k].sId}
        changed == [r EXCEPT
            !.netState = [k \in Nodes |-> IF k \in newer THEN up[k] ELSE @[k]],
            !.lastChanges = @ \cup newer]
    IN  IF changed.lastChanges # {} THEN ScheduleUpdate(changed) ELSE changed

\* What ProcessUpdate returns: whether the forwarding table generator is told.
IsUpdated(r) == r.lastChanges # {}

-----------------------------------------------------------------------------
(* The shortest path tree.  Nodes wait with the least metric found for them *)
(* and the first hops of every way of that length; those that are nearest   *)
(* are added, and the links of each are followed.                           *)

Nearest(t) ==
    LET waiting == DOMAIN t.metric \ t.added
    IN  {d \in waiting : \A e \in waiting : t.metric[d] <= t.metric[e]}

Follow(t, net) ==
    LET mins == Nearest(t)
        ways(d) == {p \in mins : d \in DOMAIN net[p].links}
        length(d, p) == t.metric[p] + net[p].links[d]
        known(d) == IF d \in DOMAIN t.metric THEN {t.metric[d]} ELSE {}
        least(d) == Min(known(d) \cup {length(d, p) : p \in ways(d)})
        hops(d) == UNION {t.nh[p] : p \in {p \in ways(d) : length(d, p) = least(d)}}
        kept(d) == IF known(d) = {least(d)} THEN t.nh[d] ELSE {}
        found == {d \in Nodes \ t.added : ways(d) # {}}
    IN  [added |-> t.added \cup mins,
         metric |-> Over([d \in found |-> least(d)], t.metric),
         nh |-> Over([d \in found |-> hops(d) \cup kept(d)], t.nh)]

ConstructTree(me, net) ==
    LET links == net[me].links
        start == [added |-> {me}, metric |-> With(links, me, 0),
                  nh |-> With([d \in DOMAIN links |-> {d}], me, {})]
        tree[i \in 0 .. Cardinality(Nodes)] ==
            IF i = 0 THEN start ELSE Follow(tree[i - 1], net)
        all == tree[Cardinality(Nodes)]
    IN  [d \in Nodes |-> IF d \in DOMAIN all.metric \ {me}
                         THEN [metric |-> all.metric[d], nh |-> all.nh[d]] ELSE Unreached]

\* A destination that the tree has no more is a change without a next hop.
GetChanges(r) ==
    LET tree == ConstructTree(r.me, r.netState)
    IN  [r EXCEPT !.table = tree,
                  !.changes = [d \in {d \in Nodes : tree[d] # r.table[d]} |-> tree[d].nh]]

-----------------------------------------------------------------------------

\* What Time2Update sends, the same to every neighbor: the entries that changed, and
\* nothing of what was known before the neighbor came.
UpdateTo(r, m) == [k \in r.lastChanges |-> r.netState[k]]

AfterUpdate(r) ==
    [r EXCEPT !.scheduledUpdate = FALSE, !.timer = FALSE, !.lastChanges = {}]
=============================================================================
