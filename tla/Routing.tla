------------------------------- MODULE Routing -------------------------------
(***************************************************************************)
(* The IPCPs of a DIF that route by distance vectors or by link states:    *)
(* each has the routing policy, SimpleGenerator, which turns what routing  *)
(* has changed into entries of the forwarding table, and MiniTable.  The   *)
(* links between them are (N-1)-flows, which come and go one end at a time *)
(* and carry the updates in order.                                         *)
(***************************************************************************)
EXTENDS Naturals, Sequences, FiniteSets

CONSTANTS
    Nodes,      \* the IPCPs, numbered as their names are ordered
    Links,      \* numbered as the addresses of their ports are ordered
    Ends,       \* Ends[l], the IPCP that asks for the flow l, and the one it asks
    InfMetric,
    Cases       \* the policy, the links that may be used and those of them that may be
                \* removed, the IPCPs with garbage, and how often a link may be asked for

ASSUME RoutingAssumption ==
    /\ Nodes \subseteq Nat \ {0} /\ IsFiniteSet(Nodes)
    /\ Links \subseteq Nat \ {0} /\ IsFiniteSet(Links)
    /\ Ends \in [Links -> Nodes \X Nodes]
    /\ \A l \in Links : Ends[l][1] # Ends[l][2]
    /\ InfMetric \in Nat /\ 2 <= InfMetric /\ InfMetric < 65535
    /\ Cases \subseteq
          [policy : {"SimpleDV", "SimpleLS"}, links : SUBSET Links, unstable : SUBSET Links,
           garbage : SUBSET Nodes, maxOpens : Nat]

VARIABLES
    case,       \* one of Cases
    node,       \* node[n], what the policies of n hold
    phase,      \* phase[l], how far the flow has got
    chan,       \* chan[l][n], the updates on their way to n over l
    opens,      \* opens[l], how often l has been asked for
    cut,        \* history: a flow has been removed
    owed,       \* history: owed[n][m], whose entries n took or changed since it has m
    aborted     \* an update was given to a port that has been deleted

vars == <<case, node, phase, chan, opens, cut, owed, aborted>>

DV == INSTANCE SimpleDV
LS == INSTANCE SimpleLS

IsDV == case.policy = "SimpleDV"
NoPort == 0
NextTo(n, l) == IF Ends[l][1] = n THEN Ends[l][2] ELSE Ends[l][1]
Members == UNION {{Ends[l][1], Ends[l][2]} : l \in case.links}
LinksOf(n) == {l \in Links : n \in {Ends[l][1], Ends[l][2]}}

\* SimpleGenerator's neighbours and the forwarding table are kept with the routing policy.
NewNode(n) ==
    [routing |-> IF IsDV THEN DV!OnPolicyInit(n)
                 ELSE LS!OnPolicyInit(n, n \in case.garbage),
     neighbours |-> [m \in Nodes |-> {}],
     fwd |-> [d \in Nodes |-> NoPort]]

Init ==
    /\ case \in Cases
    /\ node = [n \in Nodes |-> NewNode(n)]
    /\ phase = [l \in Links |-> "none"]
    /\ chan = [l \in Links |-> [n \in {Ends[l][1], Ends[l][2]} |-> <<>>]]
    /\ opens = [l \in Links |-> 0]
    /\ cut = FALSE
    /\ owed = [n \in Nodes |-> [m \in Nodes |-> {}]]
    /\ aborted = FALSE

-----------------------------------------------------------------------------

First(S) == CHOOSE x \in S : \A y \in S : x <= y

PortOf(s, nh) ==
    IF nh = {} \/ s.neighbours[First(nh)] = {} THEN NoPort ELSE First(s.neighbours[First(nh)])

\* Mutant: an entry without a next hop is left as it is.
RoutingUpdated_KeepsLost(s) ==
    LET r == IF IsDV THEN DV!GetChanges(s.routing) ELSE LS!GetChanges(s.routing)
    IN  [s EXCEPT !.routing = [r EXCEPT !.changes = <<>>],
                  !.fwd = [d \in Nodes |-> IF d \in DOMAIN r.changes /\ r.changes[d] # {}
                                           THEN PortOf(s, r.changes[d]) ELSE @[d]]]

RoutingUpdated(s) ==
    LET r == IF IsDV THEN DV!GetChanges(s.routing) ELSE LS!GetChanges(s.routing)
    IN  [s EXCEPT !.routing = [r EXCEPT !.changes = <<>>],
                  !.fwd = [d \in Nodes |-> IF d \in DOMAIN r.changes
                                           THEN PortOf(s, r.changes[d]) ELSE @[d]]]

\* Routing hears of a neighbor with its first port, which every hop counts as 1.
InsertedFlow(s, dst, port) ==
    LET t == [s EXCEPT !.neighbours[dst] = @ \cup {port}]
    IN  IF Cardinality(t.neighbours[dst]) # 1 THEN t
        ELSE RoutingUpdated(
                [t EXCEPT !.routing = IF IsDV THEN DV!InsertFlow(@, dst, 1)
                                      ELSE LS!InsertFlow(@, dst, 1)])

\* ... and of its end with its last one; entries that name another port stay.
RemovedFlow(s, dst, port) ==
    LET t == [s EXCEPT !.neighbours[dst] = @ \ {port}]
    IN  IF t.neighbours[dst] # {} THEN t
        ELSE RoutingUpdated(
                [t EXCEPT !.routing = IF IsDV THEN DV!RemoveFlow(@, dst)
                                      ELSE LS!RemoveFlow(@, dst)])

ReceiveUpdate(s, up) ==
    LET r == IF IsDV THEN DV!ProcessUpdate(s.routing, up) ELSE LS!ProcessUpdate(s.routing, up)
        t == [s EXCEPT !.routing = r]
    IN  IF IF IsDV THEN DV!IsUpdated(r) ELSE LS!IsUpdated(r) THEN RoutingUpdated(t) ELSE t

\* Node n becomes s; the link states it takes or changes it owes to each of its neighbors.
Becomes(n, s) ==
    LET old == node[n].routing.netState
        changed == {k \in Nodes : s.routing.netState[k] # old[k]}
    IN  /\ node' = [node EXCEPT ![n] = s]
        /\ owed' = IF IsDV THEN owed
                   ELSE [owed EXCEPT ![n] = [m \in Nodes |->
                            IF m \in DOMAIN s.routing.neig THEN @[m] \cup changed ELSE {}]]

-----------------------------------------------------------------------------
(* The resource allocator: a flow is told to the generator by who asks for  *)
(* it before the request has been sent, by the other end when it arrives,   *)
(* and its end likewise, one end after the other.                           *)

CreateNM1Flow(l) ==
    LET n == Ends[l][1] IN
    /\ l \in case.links /\ phase[l] = "none" /\ opens[l] < case.maxOpens
    /\ Becomes(n, InsertedFlow(node[n], NextTo(n, l), l))
    /\ phase' = [phase EXCEPT ![l] = "requested"]
    /\ opens' = [opens EXCEPT ![l] = @ + 1]
    /\ UNCHANGED <<case, chan, cut, aborted>>

CreateNM1FlowWithoutAllocate(l) ==
    LET n == Ends[l][2] IN
    /\ phase[l] = "requested"
    /\ Becomes(n, InsertedFlow(node[n], NextTo(n, l), l))
    /\ phase' = [phase EXCEPT ![l] = "established"]
    /\ UNCHANGED <<case, chan, opens, cut, aborted>>

HasPort(n, l) == l \in node[n].neighbours[NextTo(n, l)]

\* What was on its way to a port is lost with it.
RemoveNM1FlowBindings(n, l) ==
    /\ Becomes(n, RemovedFlow(node[n], NextTo(n, l), l))
    /\ chan' = [chan EXCEPT ![l][n] = <<>>]
    /\ UNCHANGED <<case, opens, aborted>>

RemoveNM1Flow(l, n) ==
    /\ phase[l] = "established" /\ l \in case.unstable /\ n \in {Ends[l][1], Ends[l][2]}
    /\ RemoveNM1FlowBindings(n, l)
    /\ phase' = [phase EXCEPT ![l] = "released"]
    /\ cut' = TRUE

DeleteRequestFlow(l) ==
    \E n \in {Ends[l][1], Ends[l][2]} :
        /\ phase[l] = "released" /\ HasPort(n, l)
        /\ RemoveNM1FlowBindings(n, l)
        /\ phase' = [phase EXCEPT ![l] = "none"]
        /\ UNCHANGED cut

\* An update goes where the forwarding table sends what is for the neighbor.
Time2Update(n) ==
    LET s == node[n]
        neig == DOMAIN s.routing.neig
        update(m) == IF IsDV THEN DV!UpdateTo(s.routing, m) ELSE LS!UpdateTo(s.routing, m)
        sent(l, m) == IF m \in neig /\ s.fwd[m] = l THEN <<update(m)>> ELSE <<>>
        dangling == {m \in neig : s.fwd[m] # NoPort /\ ~HasPort(n, s.fwd[m])}
        carries(l) == l \in LinksOf(n) /\ phase[l] # "released"
    IN  /\ s.routing.timer
        /\ Becomes(n, [s EXCEPT !.routing = IF IsDV THEN DV!AfterUpdate(@) ELSE LS!AfterUpdate(@)])
        /\ aborted' = (dangling # {})
        /\ chan' = [l \in Links |->
               IF carries(l) THEN [chan[l] EXCEPT ![NextTo(n, l)] = @ \o sent(l, NextTo(n, l))]
                             ELSE chan[l]]
        /\ UNCHANGED <<case, phase, opens, cut>>

ReceiveRoutingUpdate(n, l) ==
    /\ l \in LinksOf(n) /\ HasPort(n, l) /\ chan[l][n] # <<>>
    /\ Becomes(n, ReceiveUpdate(node[n], Head(chan[l][n])))
    /\ chan' = [chan EXCEPT ![l][n] = Tail(@)]
    /\ UNCHANGED <<case, phase, opens, cut, aborted>>

Next ==
    /\ ~aborted
    /\ \/ \E l \in Links : CreateNM1Flow(l) \/ CreateNM1FlowWithoutAllocate(l)
       \/ \E l \in Links : DeleteRequestFlow(l)
       \/ \E l \in Links, n \in Nodes : RemoveNM1Flow(l, n) \/ ReceiveRoutingUpdate(n, l)
       \/ \E n \in Members : Time2Update(n)

Spec == Init /\ [][Next]_vars

Receivable(n, l) == l \in LinksOf(n) /\ HasPort(n, l) /\ chan[l][n] # <<>>

Quiet ==
    /\ \A n \in Members : ~node[n].routing.timer
    /\ \A n \in Members, l \in case.links : ~Receivable(n, l)

\* The simulation kernel takes timers and messages as long as there are any.  This is the
\* weak fairness of Time2Update and ReceiveRoutingUpdate, the two actions that leave phase
\* alone, stated without ENABLED: TLC would compute the routes to see if one can occur.
FairSpec ==
    /\ Spec
    /\ []<>(Quiet \/ aborted) \/ []<><<phase' = phase>>_vars

-----------------------------------------------------------------------------

\* Types and bounds; above all metrics stay within infinity and no IPCP has a route to itself.
TypeOK ==
    /\ case \in Cases
    /\ \A n \in Nodes : LET s == node[n] IN
        /\ s.neighbours \in [Nodes -> SUBSET LinksOf(n)]
        /\ s.fwd \in [Nodes -> LinksOf(n) \cup {NoPort}]
        /\ s.routing.changes = <<>>
        /\ s.routing.timer => s.routing.scheduledUpdate
        /\ DOMAIN s.routing.neig = {m \in Nodes : s.neighbours[m] # {}}
        /\ IF IsDV THEN s.routing.table \in [Nodes -> DV!RtEntry] /\ s.routing.table[n] = DV!NoEntry
           ELSE /\ s.routing.lastChanges \subseteq Nodes
                /\ s.routing.secId \in 1 .. 1 + 2 * case.maxOpens * Cardinality(Links)
    /\ phase \in [Links -> {"none", "requested", "established", "released"}]
    /\ cut \in BOOLEAN /\ aborted \in BOOLEAN

Table(n) == node[n].routing.table
Single(n, m) == Cardinality({l \in case.links : {Ends[l][1], Ends[l][2]} = {n, m}}) <= 1

\* A distance vector route is forwarded to its next hop, by a port that is there unless
\* another to the same neighbor has gone; and until a flow is removed, which leaves the
\* entries of the other routes by way of that neighbor behind, nothing else is forwarded.
DVForwardsItsRoutes ==
    IsDV => \A n, d \in Nodes :
        LET nh == Table(n)[d].addr
            port == node[n].fwd[d]
        IN  IF nh = 0 THEN port = NoPort \/ cut
            ELSE /\ port \in LinksOf(n) /\ NextTo(n, port) = nh
                 /\ HasPort(n, port) \/ ~Single(n, nh)

\* While no flow is removed, each next hop of a distance vector route is nearer to the
\* destination than the IPCP itself, whatever the order in which updates arrive.
NoLoopWhileGrowing ==
    IsDV /\ ~cut => \A n, d \in Nodes :
        LET route == Table(n)[d] IN
        route.addr \notin {0, d} => Table(route.addr)[d].metric < route.metric

Ball(next(_), n) ==
    LET ball[k \in 0 .. Cardinality(Nodes)] ==
            IF k = 0 THEN {n} ELSE ball[k - 1] \cup UNION {next(x) : x \in ball[k - 1]}
    IN  ball

\* The least number of hops from n to d, the number of IPCPs when there is no way.
Distance(next(_), n, d) ==
    LET ball == Ball(next, n)
        near == {k \in 0 .. Cardinality(Nodes) - 1 : d \in ball[k]}
    IN  IF near = {} THEN Cardinality(Nodes) ELSE First(near)

Neighbors(n) == {m \in Nodes : node[n].neighbours[m] # {}}

\* Once all is quiet, and every flow asked for is there, distance vector routes are the
\* shortest ones, to every destination nearer than infinity, if no flow was removed.
ConvergesWhileGrowing ==
    IsDV /\ ~cut /\ Quiet /\ (\A l \in Links : phase[l] # "requested") =>
        \A n \in Nodes : \A d \in Nodes \ {n} :
            LET distance == Distance(Neighbors, n, d)
                near == distance < Cardinality(Nodes) /\ distance < InfMetric
            IN  IF near THEN Table(n)[d].metric = distance ELSE Table(n)[d] = DV!NoEntry

\* A link state IPCP forwards to what lies on a shortest way through the links that it
\* knows of, as its own links and those that others told come, change and go.
LSForwardsOnShortest ==
    ~IsDV => \A n \in Nodes : \A d \in Nodes \ {n} :
        LET net == node[n].routing.netState
            links(x) == DOMAIN net[x].links
            distance(x) == Distance(links, x, d)
            hops == {h \in links(n) : distance(h) + 1 = distance(n)}
            port == node[n].fwd[d]
        IN  IF distance(n) = Cardinality(Nodes) THEN port = NoPort
            ELSE /\ port \in LinksOf(n) /\ NextTo(n, port) = First(hops)
                 /\ HasPort(n, port) \/ ~Single(n, First(hops))

OnTheWay(n, m, k) ==
    \E l \in LinksOf(m) : \E i \in DOMAIN chan[l][m] :
        /\ NextTo(m, l) = n
        /\ k \in DOMAIN chan[l][m][i]
        /\ chan[l][m][i][k].sId >= node[n].routing.netState[k].sId

\* What a link state IPCP has taken or changed since it has a neighbor, the neighbor knows,
\* or it is on the way, or will be with the next update; unless the memory of the flag that
\* says that an update is scheduled happened to hold true.
FloodReaches ==
    ~IsDV => \A n, m \in Nodes : \A k \in owed[n][m] :
        LET s == node[n].routing IN
        \/ node[m].routing.netState[k].sId >= s.netState[k].sId
        \/ OnTheWay(n, m, k)
        \/ k \in s.lastChanges /\ (s.timer \/ n \in case.garbage)
        \/ n \notin Neighbors(m)
        \/ ~Single(n, m)

\* Once the flows stay as they are the exchange of updates comes to an end: routes to what
\* is lost are counted up to infinity, and what is known already is not passed on again.
Settles == <>[](Quiet \/ aborted)
=============================================================================
