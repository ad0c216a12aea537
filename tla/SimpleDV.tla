------------------------------ MODULE SimpleDV -------------------------------
(***************************************************************************)
(* The distance vector routing policy of one IPCP, as functions on its     *)
(* record.  SimpleGenerator knows one QoS only, so that every map keyed by *)
(* a QoS is what it holds for that one.  An rtEntry that the code creates  *)
(* by looking for it is NoEntry, as is one that is not there.              *)
(***************************************************************************)
EXTENDS Naturals

CONSTANTS
    Nodes,      \* numbered from 1 as IPCP names are ordered; 0 is no name
    InfMetric   \* less than the metric of NoEntry

NoEntry == [addr |-> 0, metric |-> 65535]

RtEntry == [addr : Nodes, metric : 1 .. InfMetric - 1] \cup {NoEntry}

\* An update says of each destination it lists how far it is by way of its sender.
Updates == {[src |-> s, entries |-> e] :
                s \in Nodes, e \in UNION {[D -> 1 .. InfMetric] : D \in SUBSET Nodes}}

OnPolicyInit(n) ==
    [me |-> n, neig |-> <<>>, table |-> [d \in Nodes |-> NoEntry], changes |-> <<>>,
     scheduledUpdate |-> TRUE, timer |-> TRUE]

\* A map with one more key, or another value for it; and one map laid over another.
With(f, x, v) == [y \in DOMAIN f \cup {x} |-> IF y = x THEN v ELSE f[y]]
Over(f, g) == [x \in DOMAIN f \cup DOMAIN g |-> IF x \in DOMAIN f THEN f[x] ELSE g[x]]

ScheduleUpdate(r) ==
    [r EXCEPT !.scheduledUpdate = TRUE, !.timer = IF r.scheduledUpdate THEN @ ELSE TRUE]

\* Mutant: the new neighbor is not sent an update.
InsertFlow_Unscheduled(r, dst, metric) ==
    LET old == r.table[dst]
        entryChangedDst == old.addr # dst /\ old.metric >= metric
        entry == IF old.addr = dst \/ entryChangedDst
                 THEN [addr |-> dst, metric |-> metric] ELSE old
        lost == entry.metric >= InfMetric
        nh == IF entryChangedDst /\ ~lost THEN {dst} ELSE {}
    IN  [r EXCEPT !.neig = With(@, dst, metric),
                  !.table[dst] = IF lost THEN NoEntry ELSE entry,
                  !.changes = With(@, dst, nh)]

InsertFlow(r, dst, metric) ==
    LET old == r.table[dst]
        entryChangedDst == old.addr # dst /\ old.metric >= metric
        entry == IF old.addr = dst \/ entryChangedDst
                 THEN [addr |-> dst, metric |-> metric] ELSE old
        lost == entry.metric >= InfMetric
        nh == IF entryChangedDst /\ ~lost THEN {dst} ELSE {}
    IN  ScheduleUpdate(
            [r EXCEPT !.neig = With(@, dst, metric),
                      !.table[dst] = IF lost THEN NoEntry ELSE entry,
                      !.changes = With(@, dst, nh)])

\* Mutant: the routes by way of the neighbor are kept.
RemoveFlow_KeepsRoutes(r, dst) ==
    ScheduleUpdate(
        [r EXCEPT !.neig = [m \in DOMAIN @ \ {dst} |-> @[m]],
                  !.table[dst] = NoEntry,
                  !.changes = With(@, dst, {})])

\* Every route by way of dst goes, but the change is recorded under dst only.
RemoveFlow(r, dst) ==
    LET via == {d \in Nodes : r.table[d].addr = dst}
    IN  ScheduleUpdate(
            [r EXCEPT !.neig = [m \in DOMAIN @ \ {dst} |-> @[m]],
                      !.table = [d \in Nodes |-> IF d \in via THEN NoEntry ELSE @[d]],
                      !.changes = IF via = {} THEN @ ELSE With(@, dst, {})])

Better(old, src, metric) == old.addr # src /\ old.metric > metric

\* Mutant: the IPCP takes routes to itself.
ProcessUpdate_OwnEntry(r, up) ==
    LET listed == DOMAIN up.entries
        better == {d \in listed : Better(r.table[d], up.src, up.entries[d])}
        same == {d \in listed : r.table[d].addr = up.src}
        table == [d \in Nodes |-> IF d \in better \cup same
                                  THEN [addr |-> up.src, metric |-> up.entries[d]]
                                  ELSE r.table[d]]
        lost == {d \in listed : table[d].metric >= InfMetric}
        changed == [r EXCEPT
            !.table = [d \in Nodes |-> IF d \in lost THEN NoEntry ELSE table[d]],
            !.changes = Over([d \in better \cup lost |->
                                 IF d \in lost THEN {} ELSE {up.src}], @)]
    IN  IF lost # {} \/ table # r.table THEN ScheduleUpdate(changed) ELSE changed

\* Mutant: an update is answered even when it changes nothing.
ProcessUpdate_AlwaysAnswers(r, up) ==
    LET listed == DOMAIN up.entries \ {r.me}
        better == {d \in listed : Better(r.table[d], up.src, up.entries[d])}
        same == {d \in listed : r.table[d].addr = up.src}
        table == [d \in Nodes |-> IF d \in better \cup same
                                  THEN [addr |-> up.src, metric |-> up.entries[d]]
                                  ELSE r.table[d]]
        lost == {d \in listed : table[d].metric >= InfMetric}
        changed == [r EXCEPT
            !.table = [d \in Nodes |-> IF d \in lost THEN NoEntry ELSE table[d]],
            !.changes = Over([d \in better \cup lost |->
                                 IF d \in lost THEN {} ELSE {up.src}], @)]
    IN  ScheduleUpdate(changed)

\* A change of the metric alone is passed on, and not recorded for the forwarding table.
ProcessUpdate(r, up) ==
    LET listed == DOMAIN up.entries \ {r.me}
        better == {d \in listed : Better(r.table[d], up.src, up.entries[d])}
        same == {d \in listed : r.table[d].addr = up.src}
        table == [d \in Nodes |-> IF d \in better \cup same
                                  THEN [addr |-> up.src, metric |-> up.entries[d]]
                                  ELSE r.table[d]]
        lost == {d \in listed : table[d].metric >= InfMetric}
        changed == [r EXCEPT
            !.table = [d \in Nodes |-> IF d \in lost THEN NoEntry ELSE table[d]],
            !.changes = Over([d \in better \cup lost |->
                                 IF d \in lost THEN {} ELSE {up.src}], @)]
    IN  IF lost # {} \/ table # r.table THEN ScheduleUpdate(changed) ELSE changed

\* What ProcessUpdate returns: whether the forwarding table generator is told.
IsUpdated(r) == DOMAIN r.changes # {}

GetChanges(r) == r

\* Mutant: the metric of the link is not added.
UpdateTo_NoLinkMetric(r, m) ==
    LET known == {d \in Nodes : r.table[d] # NoEntry}
    IN  [src |-> r.me,
         entries |-> With([d \in known |-> r.table[d].metric], r.me, r.neig[m])]

\* What Time2Update sends to each neighbor.
UpdateTo(r, m) ==
    LET known == {d \in Nodes : r.table[d] # NoEntry}
    IN  [src |-> r.me,
         entries |-> With([d \in known |-> r.table[d].metric + r.neig[m]], r.me, r.neig[m])]

AfterUpdate(r) == [r EXCEPT !.scheduledUpdate = FALSE, !.timer = FALSE]
=============================================================================
