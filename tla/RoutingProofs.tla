---------------------------- MODULE RoutingProofs ----------------------------
(***************************************************************************)
(* Proofs about Routing, for any network, however flows come and go.       *)
(*                                                                         *)
(* The first part says of each function of the routing policies what it    *)
(* does to the record of an IPCP; the second what the actions do to ports  *)
(* and flows; the others follow distance vectors and link states from one  *)
(* IPCP to the next.                                                       *)
(***************************************************************************)
EXTENDS Routing, SequenceTheorems, FiniteSetTheorems, WellFoundedInduction, TLAPS

-----------------------------------------------------------------------------
(* Lemmas about the operators of the model.                                  *)

\* A nonempty set of natural numbers has a least one, and First is it.
LEMMA FirstIsLeast ==
    ASSUME NEW S \in SUBSET Nat, S # {}
    PROVE  First(S) \in S /\ \A m \in S : First(S) <= m
<1> DEFINE less == OpToRel(<, Nat)
<1>1. IsWellFoundedOn(less, Nat)
  BY NatLessThanWellFounded
<1>2. ASSUME NEW m \in Nat, NEW n \in Nat, m < n
      PROVE  <<m, n>> \in less
  BY <1>2 DEF OpToRel
<1> HIDE DEF less
<1>3. PICK n \in S : \A m \in S : ~(<<m, n>> \in less)
  BY <1>1, WFMin, Zenon
<1>4. ASSUME NEW m \in S, ~(n <= m)
      PROVE  FALSE
  <2>1. m \in Nat /\ n \in Nat /\ m < n
    BY <1>4
  <2>2. <<m, n>> \in less
    BY <1>2, <2>1
  <2> QED BY <1>3, <2>2
<1> QED BY <1>4 DEF First

LEMMA FirstOfOne ==
    ASSUME NEW n \in Nat
    PROVE  First({n}) = n
BY FirstIsLeast

\* Maps.
LEMMA NoKeys ==
    ASSUME NEW f, f = [x \in DOMAIN f |-> f[x]], DOMAIN f = {}
    PROVE  f = <<>>
OBVIOUS

LEMMA NoKeyYet ==
    /\ DOMAIN <<>> = {}
    /\ \A e : [x \in {} |-> e] = <<>>
OBVIOUS

-----------------------------------------------------------------------------
(* The invariants.                                                           *)

\* The fields of the records.
SNames == {"routing", "neighbours", "fwd"}
DVNames == {"me", "neig", "table", "changes", "scheduledUpdate", "timer"}
LSNames == {"me", "neig", "netState", "secId", "lastChanges", "table", "changes",
            "scheduledUpdate", "timer"}

Adjacent(s) == {m \in Nodes : s.neighbours[m] # {}}

Ways == {[m \in S |-> 1] : S \in SUBSET Nodes}
LinkState == [sId : Nat, links : Ways]
TreeEntry == [metric : Nat, nh : SUBSET Nodes]

Timed(r) ==
    /\ r.scheduledUpdate \in BOOLEAN /\ r.timer \in BOOLEAN
    /\ r.timer => r.scheduledUpdate

\* What routing holds when its neighbors are those of S.
DVFits(n, S, r) ==
    /\ DOMAIN r = DVNames
    /\ r.me = n /\ r.neig = [m \in S |-> 1] /\ r.changes = <<>>
    /\ r.table \in [Nodes -> DV!RtEntry]
    /\ Timed(r)

LSFits(n, S, r) ==
    /\ DOMAIN r = LSNames
    /\ r.me = n /\ r.neig = [m \in S |-> 1] /\ r.changes = <<>>
    /\ r.netState \in [Nodes -> LinkState] /\ r.secId \in Nat
    /\ r.lastChanges \subseteq Nodes /\ r.table \in [Nodes -> TreeEntry]
    /\ Timed(r)

PortsOf(n, s) ==
    /\ s.neighbours \in [Nodes -> SUBSET LinksOf(n)]
    /\ \A m \in Nodes : \A l \in s.neighbours[m] : NextTo(n, l) = m

IPCP(n, s) ==
    /\ DOMAIN s = SNames
    /\ PortsOf(n, s)
    /\ s.fwd \in [Nodes -> LinksOf(n) \cup {NoPort}]
    /\ IF IsDV THEN DVFits(n, Adjacent(s), s.routing) ELSE LSFits(n, Adjacent(s), s.routing)

Update == IF IsDV THEN DV!Updates ELSE UNION {[D -> LinkState] : D \in SUBSET Nodes}

Typed ==
    /\ case \in Cases
    /\ DOMAIN node = Nodes /\ \A n \in Nodes : IPCP(n, node[n])
    /\ phase \in [Links -> {"none", "requested", "established", "released"}]
    /\ DOMAIN chan = Links
    /\ \A l \in Links : chan[l] \in [{Ends[l][1], Ends[l][2]} -> Seq(Update)]
    /\ opens \in [Links -> Nat]
    /\ cut \in BOOLEAN /\ aborted \in BOOLEAN
    /\ owed \in [Nodes -> [Nodes -> SUBSET Nodes]]

\* Which ends of a flow are there.
PortsFit(l) ==
    LET a == HasPort(Ends[l][1], l)
        b == HasPort(Ends[l][2], l)
    IN  /\ phase[l] # "none" => l \in case.links /\ opens[l] >= 1
        /\ phase[l] = "none" => ~a /\ ~b
        /\ phase[l] = "requested" => a /\ ~b
        /\ phase[l] = "established" => a /\ b
        /\ phase[l] = "released" => (a <=> ~b) /\ cut
        /\ opens[l] <= case.maxOpens

PInv == Typed /\ \A l \in Links : PortsFit(l)

\* A distance vector route is by way of a neighbor, and forwarded to it.
Forwarded(n, s, d) ==
    LET nh == s.routing.table[d].addr
        port == s.fwd[d]
    IN  IF nh = 0 THEN port = NoPort \/ cut
        ELSE /\ nh \in Nodes /\ s.neighbours[nh] # {}
             /\ port \in LinksOf(n) \cap case.links /\ NextTo(n, port) = nh

\* The route to a neighbor is the link to it.
Direct(n, s) ==
    /\ s.routing.table[n] = DV!NoEntry
    /\ \A m \in Adjacent(s) : s.routing.table[m] = [addr |-> m, metric |-> 1]

FromNeighbor(m, up) ==
    up.src = m /\ (m \in DOMAIN up.entries => up.entries[m] = 1)

DVInv ==
    IsDV =>
      /\ \A n \in Nodes : Direct(n, node[n]) /\ \A d \in Nodes : Forwarded(n, node[n], d)
      /\ \A n \in Nodes : \A l \in LinksOf(n) : \A i \in 1 .. Len(chan[l][n]) :
            FromNeighbor(NextTo(n, l), chan[l][n][i])

\* While no flow is removed: updates of one IPCP to another take one way, each is no worse
\* than those before it, and neither it nor a route taken from one is better than what its
\* sender has.
Behind(table, m, up) == \A d \in DOMAIN up.entries : d # m => up.entries[d] > table[d].metric
Ahead(table, m, up) ==
    \A d \in DOMAIN up.entries : table[d].addr = m => up.entries[d] <= table[d].metric
NoWorse(up, next) ==
    \A d \in DOMAIN up.entries \cap DOMAIN next.entries : next.entries[d] <= up.entries[d]

OneWay(l, n) ==
    chan[l][n] # <<>> => LET s == node[NextTo(n, l)] IN s.fwd[n] = l /\ s.neighbours[n] # {}

InTurn(l, n) ==
    LET m == NextTo(n, l)
        c == chan[l][n]
    IN  \A i \in 1 .. Len(c) : /\ Behind(Table(m), m, c[i])
                               /\ Ahead(Table(n), m, c[i])
                               /\ \A j \in i .. Len(c) : NoWorse(c[i], c[j])

Nearer(n, d) ==
    LET route == Table(n)[d] IN
    route.addr \notin {0, d} => Table(route.addr)[d].metric < route.metric

Growing ==
    IsDV /\ ~cut =>
      /\ \A n \in Nodes : \A l \in LinksOf(n) : OneWay(l, n) /\ InTurn(l, n)
      /\ \A n, d \in Nodes : Nearer(n, d)

\* How often an end of a flow has come and gone, each of which a link state IPCP may count.
Came(n, l) ==
    IF n # Ends[l][1] /\ phase[l] = "requested" THEN opens[l] - 1 ELSE opens[l]
Went(n, l) == IF HasPort(n, l) THEN Came(n, l) - 1 ELSE Came(n, l)
Counted(n) ==
    {e \in Links \X ((1 .. case.maxOpens) \X {"came", "went"}) :
        /\ e[1] \in LinksOf(n)
        /\ e[2][1] <= IF e[2][2] = "came" THEN Came(n, e[1]) ELSE Went(n, e[1])}

\* Nobody knows more of an IPCP than it does itself.
NetState(n) == node[n].routing.netState
Known(k, state) == state.sId <= NetState(k)[k].sId

\* An IPCP forwards to its neighbors over its links.
Reaches(n, s, m) ==
    /\ s.routing.table[m].nh = {m}
    /\ s.fwd[m] \in LinksOf(n) \cap case.links /\ NextTo(n, s.fwd[m]) = m

OwnState(n, s) ==
    LET r == s.routing IN
    /\ r.netState[n].sId <= r.secId /\ r.netState[n].links = r.neig
    /\ r.secId >= 1
    /\ r.scheduledUpdate => r.timer \/ n \in case.garbage
    /\ \A d \in Nodes : r.table[d].nh \subseteq Adjacent(s)
    /\ \A m \in Adjacent(s) : Reaches(n, s, m)

LSInv ==
    ~IsDV =>
      /\ \A n \in Nodes : /\ OwnState(n, node[n])
                          /\ node[n].routing.secId <= 1 + Cardinality(Counted(n))
                          /\ \A k \in Nodes : Known(k, NetState(n)[k])
      /\ \A n \in Nodes : \A l \in LinksOf(n) : \A i \in 1 .. Len(chan[l][n]) :
            \A k \in DOMAIN chan[l][n][i] : Known(k, chan[l][n][i][k])

\* What is owed over the only flow between two IPCPs.
Paid(n, m, l, k) ==
    LET s == node[n].routing IN
    \/ NetState(m)[k].sId >= s.netState[k].sId
    \/ \E i \in 1 .. Len(chan[l][m]) :
          k \in DOMAIN chan[l][m][i] /\ chan[l][m][i][k].sId >= s.netState[k].sId
    \/ k \in s.lastChanges /\ (s.timer \/ n \in case.garbage)
    \/ phase[l] = "released"

FloodInv ==
    ~IsDV =>
      \A n, m \in Nodes : \A k \in owed[n][m] :
        /\ node[n].neighbours[m] # {}
        /\ Single(n, m) => \A l \in node[n].neighbours[m] : Paid(n, m, l, k)

-----------------------------------------------------------------------------
(* Ends of links, records and ports.                                         *)

LEMMA EndsOfLinks ==
    /\ Nodes \subseteq Nat /\ Links \subseteq Nat /\ NoPort \notin Links /\ 0 \notin Nodes
    /\ IsFiniteSet(Nodes) /\ IsFiniteSet(Links)
    /\ InfMetric \in Nat /\ InfMetric >= 2 /\ InfMetric < 65535
    /\ \A l \in Links : /\ Ends[l][1] \in Nodes /\ Ends[l][2] \in Nodes
                        /\ Ends[l][1] # Ends[l][2]
    /\ \A n : LinksOf(n) \subseteq Links
    /\ \A n : \A l \in LinksOf(n) :
          /\ n \in {Ends[l][1], Ends[l][2]}
          /\ NextTo(n, l) \in Nodes /\ NextTo(n, l) # n /\ l \in LinksOf(NextTo(n, l))
          /\ NextTo(NextTo(n, l), l) = n
    /\ \A l \in Links : l \in LinksOf(Ends[l][1]) /\ l \in LinksOf(Ends[l][2])
<1>1. /\ Nodes \subseteq Nat /\ Links \subseteq Nat /\ NoPort \notin Links /\ 0 \notin Nodes
      /\ IsFiniteSet(Nodes) /\ IsFiniteSet(Links)
      /\ InfMetric \in Nat /\ InfMetric >= 2 /\ InfMetric < 65535
  BY RoutingAssumption DEF NoPort
<1>2. ASSUME NEW l \in Links
      PROVE  Ends[l][1] \in Nodes /\ Ends[l][2] \in Nodes /\ Ends[l][1] # Ends[l][2]
  BY RoutingAssumption
<1>3. ASSUME NEW n, NEW l \in LinksOf(n)
      PROVE  /\ n \in {Ends[l][1], Ends[l][2]} /\ l \in Links
             /\ NextTo(n, l) \in Nodes /\ NextTo(n, l) # n /\ l \in LinksOf(NextTo(n, l))
             /\ NextTo(NextTo(n, l), l) = n
  BY <1>2 DEF NextTo, LinksOf
<1>4. \A l \in Links : l \in LinksOf(Ends[l][1]) /\ l \in LinksOf(Ends[l][2])
  BY DEF LinksOf
<1> QED BY <1>1, <1>2, <1>3, <1>4

LEMMA Numbers ==
    /\ Nodes \subseteq Nat /\ Links \subseteq Nat
    /\ \A n \in Nodes : LinksOf(n) \subseteq Nat
<1>1. Nodes \subseteq Nat /\ Links \subseteq Nat
  BY RoutingAssumption
<1>2. \A n \in Nodes : LinksOf(n) \subseteq Links
  BY DEF LinksOf
<1> QED BY <1>1, <1>2

LEMMA OnePort ==
    ASSUME NEW S, NEW p, NEW L, IsFiniteSet(L), S \subseteq L, p \notin S
    PROVE  Cardinality(S \cup {p}) = 1 <=> S = {}
<1>1. IsFiniteSet(S) /\ Cardinality(S) \in Nat
  BY FS_Subset, FS_CardinalityType
<1>2. Cardinality(S \cup {p}) = Cardinality(S) + 1
  BY <1>1, FS_AddElement
<1>3. Cardinality(S) = 0 <=> S = {}
  BY <1>1, FS_EmptySet
<1> QED BY <1>1, <1>2, <1>3

LEMMA EntryType ==
    /\ DV!NoEntry.addr = 0 /\ DV!NoEntry.metric = 65535 /\ DV!NoEntry \in DV!RtEntry
    /\ \A e \in DV!RtEntry : /\ e = [addr |-> e.addr, metric |-> e.metric]
                             /\ e.metric \in Nat /\ e.metric >= 1
                             /\ e # DV!NoEntry => e.addr \in Nodes /\ e.metric < InfMetric
                             /\ e.addr = 0 <=> e = DV!NoEntry
    /\ \A a \in Nodes, m \in Nat : m >= 1 /\ m < InfMetric =>
          [addr |-> a, metric |-> m] \in DV!RtEntry
BY EndsOfLinks DEF DV!NoEntry, DV!RtEntry

\* A port more, or one less.
MorePort(nb, m, l) == [nb EXCEPT ![m] = @ \cup {l}]
FewerPort(nb, m, l) == [nb EXCEPT ![m] = @ \ {l}]

LEMMA MorePorts ==
    ASSUME NEW n \in Nodes, NEW s, PortsOf(n, s), NEW m \in Nodes,
           NEW l \in LinksOf(n), NextTo(n, l) = m,
           NEW t, t.neighbours = MorePort(s.neighbours, m, l)
    PROVE  /\ PortsOf(n, t) /\ Adjacent(t) = Adjacent(s) \cup {m}
           /\ t.neighbours[m] = s.neighbours[m] \cup {l}
           /\ \A x \in Nodes \ {m} : t.neighbours[x] = s.neighbours[x]
<1>1. /\ s.neighbours \in [Nodes -> SUBSET LinksOf(n)]
      /\ \A x \in Nodes : \A k \in s.neighbours[x] : NextTo(n, k) = x
  BY DEF PortsOf
<1>2. /\ t.neighbours \in [Nodes -> SUBSET LinksOf(n)]
      /\ t.neighbours[m] = s.neighbours[m] \cup {l}
      /\ \A x \in Nodes \ {m} : t.neighbours[x] = s.neighbours[x]
  BY <1>1 DEF MorePort
<1>3. PortsOf(n, t)
  BY <1>1, <1>2 DEF PortsOf
<1>4. Adjacent(t) = Adjacent(s) \cup {m}
  BY <1>2 DEF Adjacent
<1> QED BY <1>2, <1>3, <1>4

FewerPortsIn(n, s, m, l, t) ==
    /\ PortsOf(n, t)
    /\ t.neighbours[m] # {} => Adjacent(t) = Adjacent(s)
    /\ t.neighbours[m] = {} => Adjacent(t) = Adjacent(s) \ {m}
    /\ t.neighbours[m] = s.neighbours[m] \ {l}
    /\ \A x \in Nodes \ {m} : t.neighbours[x] = s.neighbours[x]

LEMMA FewerPorts ==
    ASSUME NEW n \in Nodes, NEW s, PortsOf(n, s), NEW m \in Nodes, NEW l,
           NEW t, t.neighbours = FewerPort(s.neighbours, m, l)
    PROVE  FewerPortsIn(n, s, m, l, t)
<1>1. /\ s.neighbours \in [Nodes -> SUBSET LinksOf(n)]
      /\ \A x \in Nodes : \A k \in s.neighbours[x] : NextTo(n, k) = x
  BY DEF PortsOf
<1>2. /\ t.neighbours \in [Nodes -> SUBSET LinksOf(n)]
      /\ t.neighbours[m] = s.neighbours[m] \ {l}
      /\ \A x \in Nodes \ {m} : t.neighbours[x] = s.neighbours[x]
  BY <1>1 DEF FewerPort
<1>3. PortsOf(n, t)
  BY <1>1, <1>2 DEF PortsOf
<1>4. /\ t.neighbours[m] # {} => Adjacent(t) = Adjacent(s)
      /\ t.neighbours[m] = {} => Adjacent(t) = Adjacent(s) \ {m}
  BY <1>2 DEF Adjacent
<1> QED BY <1>2, <1>3, <1>4 DEF FewerPortsIn

LEMMA PortCount ==
    ASSUME NEW n \in Nodes, NEW s, PortsOf(n, s), NEW m \in Nodes, NEW l \in LinksOf(n),
           l \notin s.neighbours[m]
    PROVE  Cardinality(s.neighbours[m] \cup {l}) = 1 <=> s.neighbours[m] = {}
<1>1. s.neighbours[m] \subseteq Links /\ IsFiniteSet(Links)
  BY EndsOfLinks DEF PortsOf
<1> QED BY <1>1, OnePort

\* The entry of the forwarding table for a set of next hops.
LEMMA Ported ==
    ASSUME NEW n \in Nodes, NEW s, PortsOf(n, s)
    PROVE  /\ PortOf(s, {}) = NoPort
           /\ \A nh \in SUBSET Nodes : PortOf(s, nh) \in LinksOf(n) \cup {NoPort}
           /\ \A m \in Nodes : s.neighbours[m] # {} =>
                 /\ PortOf(s, {m}) \in s.neighbours[m]
                 /\ PortOf(s, {m}) \in LinksOf(n) /\ NextTo(n, PortOf(s, {m})) = m
<1>1. /\ s.neighbours \in [Nodes -> SUBSET LinksOf(n)]
      /\ \A m \in Nodes : \A l \in s.neighbours[m] : NextTo(n, l) = m
  BY DEF PortsOf
<1>2. ASSUME NEW m \in Nodes, s.neighbours[m] # {}
      PROVE  First(s.neighbours[m]) \in s.neighbours[m]
  <2>1. s.neighbours[m] \subseteq Nat
    BY <1>1, Numbers
  <2> QED BY <1>2, <2>1, FirstIsLeast
<1>3. ASSUME NEW nh \in SUBSET Nodes, nh # {}
      PROVE  First(nh) \in Nodes
  BY <1>3, Numbers, FirstIsLeast
<1>4. \A m \in Nodes : First({m}) = m
  BY FirstOfOne, EndsOfLinks
<1>5. PortOf(s, {}) = NoPort
  BY DEF PortOf
<1>6. ASSUME NEW nh \in SUBSET Nodes
      PROVE  PortOf(s, nh) \in LinksOf(n) \cup {NoPort}
  <2>1. CASE nh = {}
    BY <2>1, <1>5
  <2>2. CASE nh # {}
    <3>1. s.neighbours[First(nh)] # {} => First(s.neighbours[First(nh)]) \in LinksOf(n)
      BY <1>1, <1>2, <1>3, <2>2
    <3> QED BY <2>2, <3>1 DEF PortOf
  <2> QED BY <2>1, <2>2
<1>7. ASSUME NEW m \in Nodes, s.neighbours[m] # {}
      PROVE  PortOf(s, {m}) \in s.neighbours[m]
  BY <1>2, <1>4, <1>7 DEF PortOf
<1> QED BY <1>1, <1>5, <1>6, <1>7

-----------------------------------------------------------------------------
(* The functions of a distance vector IPCP.                                  *)

\* An update is under way, or will be unless one was said to be.
Scheduled(r, t) ==
    t.scheduledUpdate = TRUE /\ t.timer = IF r.scheduledUpdate THEN r.timer ELSE TRUE

LEMMA ScheduledTimed ==
    ASSUME NEW r, NEW t, Timed(r), Scheduled(r, t)
    PROVE  Timed(t)
BY DEF Timed, Scheduled

LEMMA DVScheduled ==
    ASSUME NEW r, DOMAIN r = DVNames, Timed(r), NEW t, t = DV!ScheduleUpdate(r)
    PROVE  /\ DOMAIN t = DVNames
           /\ t.me = r.me /\ t.neig = r.neig /\ t.table = r.table /\ t.changes = r.changes
           /\ Scheduled(r, t) /\ Timed(t)
<1>1. t = [r EXCEPT !.scheduledUpdate = TRUE, !.timer = IF r.scheduledUpdate THEN @ ELSE TRUE]
  BY DEF DV!ScheduleUpdate
<1>2. DOMAIN t = DVNames
  BY <1>1
<1>3. t.me = r.me /\ t.neig = r.neig /\ t.table = r.table /\ t.changes = r.changes
  BY <1>1 DEF DVNames
<1>4. t.scheduledUpdate = TRUE
  BY <1>1 DEF DVNames
<1>5. t.timer = IF r.scheduledUpdate THEN r.timer ELSE TRUE
  BY <1>1 DEF DVNames
<1>6. Scheduled(r, t)
  BY <1>4, <1>5 DEF Scheduled
<1> QED BY <1>2, <1>3, <1>6, ScheduledTimed

\* A neighbor more, and one less.
DVGot(n, S, r, m, t) ==
    /\ DOMAIN t = DVNames /\ t.me = n /\ t.neig = [x \in S \cup {m} |-> 1]
    /\ t.table = [r.table EXCEPT ![m] = [addr |-> m, metric |-> 1]]
    /\ t.changes = [d \in {m} |-> {m}]
    /\ Scheduled(r, t) /\ Timed(t)

WithoutVia(table, m) == [d \in Nodes |-> IF table[d].addr = m THEN DV!NoEntry ELSE table[d]]

DVLost(n, S, r, m, t) ==
    /\ DOMAIN t = DVNames /\ t.me = n /\ t.neig = [x \in S \ {m} |-> 1]
    /\ t.table = WithoutVia(r.table, m)
    /\ t.changes = [d \in {m} |-> {}]
    /\ Scheduled(r, t) /\ Timed(t)

LEMMA DVInsert ==
    ASSUME NEW n \in Nodes, NEW S, NEW r, DVFits(n, S, r), NEW m \in Nodes,
           r.table[m].addr # m
    PROVE  DVGot(n, S, r, m, DV!InsertFlow(r, m, 1))
<1> DEFINE t == DV!InsertFlow(r, m, 1)
           new == [addr |-> m, metric |-> 1]
           old == r.table[m]
           changed == old.addr # m /\ old.metric >= 1
           entry == IF old.addr = m \/ changed THEN new ELSE old
           lost == entry.metric >= InfMetric
           q == [r EXCEPT !.neig = DV!With(@, m, 1),
                          !.table[m] = IF lost THEN DV!NoEntry ELSE entry,
                          !.changes = DV!With(@, m, IF changed /\ ~lost THEN {m} ELSE {})]
<1>1. t = DV!ScheduleUpdate(q)
  BY DEF DV!InsertFlow
<1>2. /\ DOMAIN r = DVNames /\ r.me = n /\ r.neig = [x \in S |-> 1] /\ r.changes = <<>>
      /\ r.table \in [Nodes -> DV!RtEntry] /\ Timed(r)
  BY DEF DVFits
<1>3. changed
  BY <1>2, EntryType
<1>4. entry = new /\ ~lost
  <2>1. new.metric = 1 /\ ~(1 >= InfMetric)
    BY EndsOfLinks
  <2> QED BY <1>3, <2>1
<1>5. DV!With(r.neig, m, 1) = [x \in S \cup {m} |-> 1]
  BY <1>2 DEF DV!With
<1>6. DV!With(r.changes, m, {m}) = [d \in {m} |-> {m}]
  BY <1>2, NoKeyYet DEF DV!With
<1>7. q = [r EXCEPT !.neig = [x \in S \cup {m} |-> 1], !.table[m] = new,
                    !.changes = [d \in {m} |-> {m}]]
  BY <1>3, <1>4, <1>5, <1>6
<1> HIDE DEF t, q, new, old, changed, entry, lost
<1>8. /\ DOMAIN q = DVNames /\ q.me = n /\ q.neig = [x \in S \cup {m} |-> 1]
      /\ q.table = [r.table EXCEPT ![m] = new] /\ q.changes = [d \in {m} |-> {m}]
      /\ q.scheduledUpdate = r.scheduledUpdate /\ q.timer = r.timer
  BY <1>2, <1>7 DEF DVNames
<1>9. Timed(q)
  BY <1>2, <1>8 DEF Timed
<1>10. /\ DOMAIN t = DVNames
       /\ t.me = q.me /\ t.neig = q.neig /\ t.table = q.table /\ t.changes = q.changes
       /\ Scheduled(q, t) /\ Timed(t)
  BY <1>1, <1>8, <1>9, DVScheduled
<1>11. Scheduled(r, t)
  BY <1>8, <1>10, Zenon DEF Scheduled
<1> QED BY <1>8, <1>10, <1>11, Zenon DEF new, t, DVGot

LEMMA DVRemove ==
    ASSUME NEW n \in Nodes, NEW S, NEW r, DVFits(n, S, r), NEW m \in Nodes,
           r.table[m].addr = m
    PROVE  DVLost(n, S, r, m, DV!RemoveFlow(r, m))
<1> DEFINE t == DV!RemoveFlow(r, m)
           via == {d \in Nodes : r.table[d].addr = m}
           less == WithoutVia(r.table, m)
           q == [r EXCEPT !.neig = [x \in DOMAIN @ \ {m} |-> @[x]],
                          !.table = [d \in Nodes |-> IF d \in via THEN DV!NoEntry ELSE @[d]],
                          !.changes = IF via = {} THEN @ ELSE DV!With(@, m, {})]
<1>1. t = DV!ScheduleUpdate(q)
  BY DEF DV!RemoveFlow
<1>2. /\ DOMAIN r = DVNames /\ r.me = n /\ r.neig = [x \in S |-> 1] /\ r.changes = <<>>
      /\ r.table \in [Nodes -> DV!RtEntry] /\ Timed(r)
  BY DEF DVFits
<1>3. [x \in DOMAIN r.neig \ {m} |-> r.neig[x]] = [x \in S \ {m} |-> 1]
  BY <1>2
<1>4. [d \in Nodes |-> IF d \in via THEN DV!NoEntry ELSE r.table[d]] = less
  BY DEF WithoutVia
<1>5. (IF via = {} THEN r.changes ELSE DV!With(r.changes, m, {})) = [d \in {m} |-> {}]
  <2>1. via # {}
    OBVIOUS
  <2>2. DV!With(<<>>, m, {}) = [d \in {m} |-> {}]
    BY NoKeyYet DEF DV!With
  <2> HIDE DEF via
  <2> QED BY <1>2, <2>1, <2>2
<1>6. q = [r EXCEPT !.neig = [x \in S \ {m} |-> 1], !.table = less,
                    !.changes = [d \in {m} |-> {}]]
  BY <1>3, <1>4, <1>5, Zenon
<1> HIDE DEF t, q, less
<1>7. /\ DOMAIN q = DVNames /\ q.me = n /\ q.neig = [x \in S \ {m} |-> 1]
      /\ q.table = less /\ q.changes = [d \in {m} |-> {}]
      /\ q.scheduledUpdate = r.scheduledUpdate /\ q.timer = r.timer
  BY <1>2, <1>6 DEF DVNames
<1>8. Timed(q)
  BY <1>2, <1>7 DEF Timed
<1>9. /\ DOMAIN t = DVNames
      /\ t.me = q.me /\ t.neig = q.neig /\ t.table = q.table /\ t.changes = q.changes
      /\ Scheduled(q, t) /\ Timed(t)
  BY <1>1, <1>7, <1>8, DVScheduled
<1>10. Scheduled(r, t)
  BY <1>7, <1>9, Zenon DEF Scheduled
<1> QED BY <1>7, <1>9, <1>10, Zenon DEF less, t, DVLost

\* What one entry of an update does to the route it is about.
Kept(r, t, d) == t.table[d] = r.table[d] /\ d \notin DOMAIN t.changes

Lost(r, up, t, d) ==
    /\ d \in DOMAIN up.entries /\ d # r.me /\ up.entries[d] >= InfMetric
    /\ r.table[d].addr = up.src \/ r.table[d] = DV!NoEntry
    /\ t.table[d] = DV!NoEntry /\ d \in DOMAIN t.changes /\ t.changes[d] = {}

Same(r, up, t, d) ==
    /\ d \in DOMAIN up.entries /\ d # r.me /\ up.entries[d] < InfMetric
    /\ r.table[d].addr = up.src
    /\ t.table[d] = [addr |-> up.src, metric |-> up.entries[d]] /\ d \notin DOMAIN t.changes

Gained(r, up, t, d) ==
    /\ d \in DOMAIN up.entries /\ d # r.me /\ up.entries[d] < InfMetric
    /\ r.table[d].addr # up.src /\ r.table[d].metric > up.entries[d]
    /\ t.table[d] = [addr |-> up.src, metric |-> up.entries[d]]
    /\ d \in DOMAIN t.changes /\ t.changes[d] = {up.src}

LEMMA UpdateType ==
    ASSUME NEW up \in DV!Updates
    PROVE  /\ up.src \in Nodes /\ DOMAIN up.entries \subseteq Nodes
           /\ \A d \in DOMAIN up.entries : /\ up.entries[d] \in Nat
                                           /\ 1 <= up.entries[d] /\ up.entries[d] <= InfMetric
<1>1. PICK s \in Nodes, D \in SUBSET Nodes :
        \E e \in [D -> 1 .. InfMetric] : up = [src |-> s, entries |-> e]
  BY DEF DV!Updates
<1> QED BY <1>1, EndsOfLinks

LEMMA DVProcess ==
    ASSUME NEW n \in Nodes, NEW S, NEW r, DVFits(n, S, r), NEW up \in DV!Updates,
           NEW t, t = DV!ProcessUpdate(r, up)
    PROVE  /\ DOMAIN t = DVNames /\ t.me = n /\ t.neig = [x \in S |-> 1]
           /\ t.table \in [Nodes -> DV!RtEntry] /\ Timed(t)
           /\ t.changes = [d \in DOMAIN t.changes |-> t.changes[d]]
           /\ DOMAIN t.changes \subseteq Nodes
           /\ \A d \in Nodes : \/ Kept(r, t, d) \/ Lost(r, up, t, d)
                               \/ Same(r, up, t, d) \/ Gained(r, up, t, d)
<1> DEFINE listed == DOMAIN up.entries \ {r.me}
           better == {d \in listed : DV!Better(r.table[d], up.src, up.entries[d])}
           same == {d \in listed : r.table[d].addr = up.src}
           table == [d \in Nodes |-> IF d \in better \cup same
                                     THEN [addr |-> up.src, metric |-> up.entries[d]]
                                     ELSE r.table[d]]
           lost == {d \in listed : table[d].metric >= InfMetric}
           newTable == [d \in Nodes |-> IF d \in lost THEN DV!NoEntry ELSE table[d]]
           hops == [d \in better \cup lost |-> IF d \in lost THEN {} ELSE {up.src}]
           q == [r EXCEPT !.table = newTable, !.changes = DV!Over(hops, @)]
<1>1. t = IF lost # {} \/ table # r.table THEN DV!ScheduleUpdate(q) ELSE q
  BY Zenon DEF DV!ProcessUpdate
<1>2. /\ DOMAIN r = DVNames /\ r.me = n /\ r.neig = [x \in S |-> 1] /\ r.changes = <<>>
      /\ r.table \in [Nodes -> DV!RtEntry] /\ Timed(r)
  BY DEF DVFits
<1>3. /\ up.src \in Nodes /\ DOMAIN up.entries \subseteq Nodes
      /\ \A d \in DOMAIN up.entries : /\ up.entries[d] \in Nat
                                      /\ 1 <= up.entries[d] /\ up.entries[d] <= InfMetric
  BY UpdateType
<1>4. \A d \in Nodes : /\ r.table[d] \in DV!RtEntry /\ r.table[d].metric \in Nat
                       /\ r.table[d] # DV!NoEntry => r.table[d].metric < InfMetric
                       /\ r.table[d] = DV!NoEntry => r.table[d].metric = 65535
                                                     /\ r.table[d].addr = 0
  BY <1>2, EntryType
<1>5. DV!Over(hops, r.changes) = hops
  BY <1>2, NoKeyYet DEF DV!Over
<1>6. InfMetric \in Nat /\ InfMetric < 65535
  BY EndsOfLinks
<1>7. better \subseteq listed /\ lost \subseteq listed /\ listed \subseteq Nodes
  BY <1>3
<1>8. /\ DOMAIN q = DVNames /\ q.me = n /\ q.neig = [x \in S |-> 1]
      /\ q.table = newTable /\ q.changes = hops
      /\ q.scheduledUpdate = r.scheduledUpdate /\ q.timer = r.timer
  <2> HIDE DEF newTable, hops
  <2>1. q = [r EXCEPT !.table = newTable, !.changes = hops]
    BY <1>5, Zenon
  <2> HIDE DEF q
  <2> QED BY <1>2, <2>1 DEF DVNames
<1>9. Timed(q)
  BY <1>2, <1>8, Zenon DEF Timed
<1>10. /\ DOMAIN t = DVNames /\ t.me = n /\ t.neig = [x \in S |-> 1]
       /\ t.table = newTable /\ t.changes = hops /\ Timed(t)
  <2> HIDE DEF q, newTable, hops, lost, table
  <2>1. CASE t = q
    BY <2>1, <1>8, <1>9
  <2>2. CASE t = DV!ScheduleUpdate(q)
    <3>1. DOMAIN q = DVNames /\ Timed(q)
      BY <1>8, <1>9
    <3>2. /\ DOMAIN t = DVNames /\ t.me = q.me /\ t.neig = q.neig
          /\ t.table = q.table /\ t.changes = q.changes /\ Timed(t)
      BY <2>2, <3>1, DVScheduled
    <3> QED BY <1>8, <3>2
  <2> QED BY <1>1, <2>1, <2>2
<1>11. DOMAIN t.changes = better \cup lost /\ \A d \in better \cup lost :
         t.changes[d] = IF d \in lost THEN {} ELSE {up.src}
  <2> HIDE DEF better, lost
  <2>1. t.changes = [d \in better \cup lost |-> IF d \in lost THEN {} ELSE {up.src}]
    BY <1>10
  <2> QED BY <2>1
<1>12. \A d \in Nodes : t.table[d] = IF d \in lost THEN DV!NoEntry ELSE table[d]
  <2> HIDE DEF lost, table
  <2>1. t.table = [d \in Nodes |-> IF d \in lost THEN DV!NoEntry ELSE table[d]]
    BY <1>10
  <2> QED BY <2>1
<1>13. ASSUME NEW d \in Nodes
       PROVE  /\ table[d] = IF d \in better \cup same
                            THEN [addr |-> up.src, metric |-> up.entries[d]] ELSE r.table[d]
              /\ d \in listed <=> d \in DOMAIN up.entries /\ d # r.me
              /\ d \in better <=> d \in listed /\ r.table[d].addr # up.src
                                  /\ r.table[d].metric > up.entries[d]
              /\ d \in same <=> d \in listed /\ r.table[d].addr = up.src
              /\ d \in lost <=> d \in listed /\ table[d].metric >= InfMetric
  BY DEF DV!Better
<1> HIDE DEF better, same, lost, table, listed, newTable, hops
<1>14. ASSUME NEW d \in Nodes
       PROVE  /\ \/ Kept(r, t, d) \/ Lost(r, up, t, d) \/ Same(r, up, t, d)
                 \/ Gained(r, up, t, d)
              /\ t.table[d] \in DV!RtEntry
  <2>1. d \in listed => up.entries[d] \in Nat /\ 1 <= up.entries[d] /\ up.entries[d] <= InfMetric
    BY <1>3, <1>13
  <2>2. CASE d \notin better /\ d \notin same
    <3>1. table[d] = r.table[d]
      BY <1>13, <2>2
    <3>2. d \notin lost
      <4>1. ASSUME d \in lost
            PROVE  FALSE
        <5>1. d \in listed /\ r.table[d].metric >= InfMetric
          BY <4>1, <1>13, <3>1
        <5>2. r.table[d].metric = 65535
          BY <1>4, <1>6, <5>1
        <5>3. r.table[d].addr # up.src
          BY <1>13, <2>2, <5>1
        <5>4. ~(r.table[d].metric > up.entries[d])
          BY <1>13, <2>2, <5>1, <5>3
        <5> QED BY <1>6, <2>1, <5>1, <5>2, <5>4
      <4> QED BY <4>1
    <3> QED BY <1>4, <1>11, <1>12, <2>2, <3>1, <3>2 DEF Kept
  <2>3. CASE d \in better \cup same
    <3>1. /\ d \in listed /\ d \in DOMAIN up.entries /\ d # r.me
          /\ table[d] = [addr |-> up.src, metric |-> up.entries[d]]
          /\ table[d].metric = up.entries[d]
      BY <2>3, <1>13
    <3>2. CASE up.entries[d] >= InfMetric
      <4>1. d \in lost
        BY <1>13, <3>1, <3>2
      <4>2. r.table[d].addr = up.src \/ r.table[d] = DV!NoEntry
        BY <1>4, <1>6, <1>13, <2>1, <2>3, <3>1, <3>2
      <4> QED BY <1>11, <1>12, <3>1, <3>2, <4>1, <4>2, EntryType DEF Lost
    <3>3. CASE up.entries[d] < InfMetric
      <4>1. d \notin lost
        BY <1>6, <1>13, <2>1, <3>1, <3>3
      <4>2. [addr |-> up.src, metric |-> up.entries[d]] \in DV!RtEntry
        BY <1>3, <2>1, <3>1, <3>3, EntryType
      <4>3. t.table[d] = [addr |-> up.src, metric |-> up.entries[d]]
        BY <1>12, <3>1, <4>1
      <4>4. CASE d \in better
        BY <1>11, <1>13, <3>1, <3>3, <4>1, <4>2, <4>3, <4>4 DEF Gained
      <4>5. CASE d \in same
        BY <1>11, <1>13, <3>1, <3>3, <4>1, <4>2, <4>3, <4>5 DEF Same
      <4> QED BY <2>3, <4>4, <4>5
    <3> QED BY <1>6, <2>1, <3>1, <3>2, <3>3
  <2> QED BY <2>2, <2>3
<1>15. t.table \in [Nodes -> DV!RtEntry]
  BY <1>10, <1>14 DEF newTable
<1>16. t.changes = [d \in DOMAIN t.changes |-> t.changes[d]]
  BY <1>10 DEF hops
<1>17. DOMAIN t.changes \subseteq Nodes
  BY <1>7, <1>11
<1> QED BY <1>10, <1>14, <1>15, <1>16, <1>17, Zenon

\* The update for a neighbor.
LEMMA DVUpdateTo ==
    ASSUME NEW n \in Nodes, NEW S, NEW r, DVFits(n, S, r), NEW m \in S,
           r.table[n] = DV!NoEntry, NEW up, up = DV!UpdateTo(r, m)
    PROVE  /\ up \in DV!Updates /\ up.src = n
           /\ n \in DOMAIN up.entries /\ up.entries[n] = 1
           /\ \A d \in DOMAIN up.entries \ {n} :
                 /\ d \in Nodes /\ r.table[d] # DV!NoEntry
                 /\ up.entries[d] = r.table[d].metric + 1
<1> DEFINE known == {d \in Nodes : r.table[d] # DV!NoEntry}
           entries == DV!With([d \in known |-> r.table[d].metric + r.neig[m]], r.me, r.neig[m])
<1>1. up = [src |-> r.me, entries |-> entries]
  BY DEF DV!UpdateTo
<1>2. r.me = n /\ r.neig[m] = 1 /\ r.table \in [Nodes -> DV!RtEntry]
  BY DEF DVFits
<1>3. entries = [d \in known \cup {n} |-> IF d = n THEN 1 ELSE r.table[d].metric + 1]
  BY <1>2 DEF DV!With
<1>4. ASSUME NEW d \in known
      PROVE  r.table[d].metric + 1 \in 1 .. InfMetric
  BY <1>2, EntryType, EndsOfLinks
<1>5. n \notin known
  OBVIOUS
<1>6. 1 \in 1 .. InfMetric
  BY EndsOfLinks
<1>7. entries \in [known \cup {n} -> 1 .. InfMetric]
  BY <1>3, <1>4, <1>6
<1> HIDE DEF entries
<1>8. up \in DV!Updates
  <2>1. known \cup {n} \in SUBSET Nodes
    OBVIOUS
  <2> DEFINE D == known \cup {n}
             X == UNION {[E -> 1 .. InfMetric] : E \in SUBSET Nodes}
  <2>2. entries \in [D -> 1 .. InfMetric] /\ D \in SUBSET Nodes
    BY <1>7, <2>1
  <2> HIDE DEF D
  <2>3. entries \in X
    BY <2>2
  <2>4. DV!Updates = {[src |-> s, entries |-> e] : s \in Nodes, e \in X}
    BY DEF DV!Updates
  <2> HIDE DEF X
  <2>5. up = [src |-> n, entries |-> entries]
    BY <1>1, <1>2
  <2> QED BY <2>3, <2>4, <2>5
<1> QED BY <1>1, <1>2, <1>3, <1>8

LEMMA DVAfterUpdate ==
    ASSUME NEW n, NEW S, NEW r, DVFits(n, S, r), NEW t, t = DV!AfterUpdate(r)
    PROVE  DVFits(n, S, t) /\ t.table = r.table
<1>1. t = [r EXCEPT !.scheduledUpdate = FALSE, !.timer = FALSE]
  BY DEF DV!AfterUpdate
<1>2. DOMAIN r = DVNames
  BY DEF DVFits
<1>3. /\ DOMAIN t = DVNames /\ t.me = r.me /\ t.neig = r.neig /\ t.table = r.table
      /\ t.changes = r.changes
  BY <1>1, <1>2 DEF DVNames
<1>4. t.scheduledUpdate = FALSE /\ t.timer = FALSE
  BY <1>1, <1>2 DEF DVNames
<1> HIDE <1>1
<1>5. Timed(t)
  BY <1>4 DEF Timed
<1> QED BY <1>3, <1>5 DEF DVFits

-----------------------------------------------------------------------------
(* What the generator makes of it.                                           *)

\* PortOf looks at the ports only.
LEMMA SamePorts ==
    ASSUME NEW s, NEW t, t.neighbours = s.neighbours
    PROVE  /\ Adjacent(t) = Adjacent(s)
           /\ \A nh : PortOf(t, nh) = PortOf(s, nh)
           /\ \A n : PortsOf(n, t) <=> PortsOf(n, s)
BY DEF Adjacent, PortOf, PortsOf

LEMMA WithRouting ==
    ASSUME NEW s, DOMAIN s = SNames, NEW r, NEW t, t = [s EXCEPT !.routing = r]
    PROVE  /\ DOMAIN t = SNames /\ t.routing = r
           /\ t.neighbours = s.neighbours /\ t.fwd = s.fwd
BY DEF SNames

LEMMA WithPorts ==
    ASSUME NEW s, DOMAIN s = SNames, NEW nb, NEW t, t = [s EXCEPT !.neighbours = nb]
    PROVE  /\ DOMAIN t = SNames /\ t.neighbours = nb
           /\ t.routing = s.routing /\ t.fwd = s.fwd
BY DEF SNames

\* The entries of the forwarding table after changes.
Entries(s, changes) ==
    [d \in Nodes |-> IF d \in DOMAIN changes THEN PortOf(s, changes[d]) ELSE s.fwd[d]]

LEMMA Forwards ==
    ASSUME NEW n \in Nodes, NEW s, PortsOf(n, s), s.fwd \in [Nodes -> LinksOf(n) \cup {NoPort}],
           NEW changes, \A d \in DOMAIN changes : changes[d] \subseteq Nodes
    PROVE  Entries(s, changes) \in [Nodes -> LinksOf(n) \cup {NoPort}]
<1>1. ASSUME NEW d \in DOMAIN changes
      PROVE  PortOf(s, changes[d]) \in LinksOf(n) \cup {NoPort}
  BY <1>1, Ported
<1> QED BY <1>1 DEF Entries

\* A distance vector IPCP.
DVReady(n, s) ==
    /\ DOMAIN s = SNames /\ PortsOf(n, s)
    /\ s.fwd \in [Nodes -> LinksOf(n) \cup {NoPort}]
    /\ DOMAIN s.routing = DVNames /\ s.routing.me = n
    /\ s.routing.neig = [m \in Adjacent(s) |-> 1]
    /\ s.routing.table \in [Nodes -> DV!RtEntry] /\ Timed(s.routing)
    /\ \A d \in DOMAIN s.routing.changes : s.routing.changes[d] \subseteq Nodes

Told(s, t) ==
    /\ t.neighbours = s.neighbours /\ t.fwd = Entries(s, s.routing.changes)
    /\ t.routing.table = s.routing.table

LEMMA DVTold ==
    ASSUME IsDV, NEW n \in Nodes, NEW s, DVReady(n, s)
    PROVE  IPCP(n, RoutingUpdated(s)) /\ Told(s, RoutingUpdated(s))
<1> DEFINE r == s.routing
           q == [r EXCEPT !.changes = <<>>]
           fwd == Entries(s, r.changes)
           t == RoutingUpdated(s)
<1>1. t = [s EXCEPT !.routing = q, !.fwd = fwd]
  BY DEF RoutingUpdated, DV!GetChanges, Entries
<1> HIDE DEF t
<1>10. /\ DOMAIN s = SNames /\ PortsOf(n, s)
       /\ s.fwd \in [Nodes -> LinksOf(n) \cup {NoPort}]
       /\ DOMAIN r = DVNames /\ r.me = n
       /\ r.neig = [m \in Adjacent(s) |-> 1]
       /\ r.table \in [Nodes -> DV!RtEntry] /\ Timed(r)
       /\ \A d \in DOMAIN r.changes : r.changes[d] \subseteq Nodes
  BY DEF DVReady
<1>2. /\ DOMAIN q = DVNames /\ q.me = n /\ q.neig = [m \in Adjacent(s) |-> 1]
      /\ q.table = r.table /\ q.changes = <<>>
  <2> HIDE DEF r
  <2> QED BY <1>10 DEF DVNames
<1>3. q.scheduledUpdate = r.scheduledUpdate /\ q.timer = r.timer
  <2> HIDE DEF r
  <2> QED BY <1>10 DEF DVNames
<1>4. Timed(q)
  BY <1>3, <1>10 DEF Timed
<1>5. fwd \in [Nodes -> LinksOf(n) \cup {NoPort}]
  BY <1>10, Forwards
<1> HIDE DEF q, fwd
<1>6. DOMAIN t = SNames /\ t.routing = q /\ t.fwd = fwd /\ t.neighbours = s.neighbours
  BY <1>1, <1>10 DEF SNames
<1>7. PortsOf(n, t) /\ Adjacent(t) = Adjacent(s)
  BY <1>6, <1>10, SamePorts
<1>8. DVFits(n, Adjacent(t), q)
  BY <1>2, <1>4, <1>7, <1>10 DEF DVFits
<1>9. IPCP(n, t)
  BY <1>5, <1>6, <1>7, <1>8 DEF IPCP
<1> QED BY <1>2, <1>6, <1>9 DEF fwd, t, Told

Inserts(n, s, m, l, t) ==
    /\ IPCP(n, t) /\ t.neighbours[m] = s.neighbours[m] \cup {l}
    /\ Adjacent(t) = Adjacent(s) \cup {m}
    /\ \A x \in Nodes \ {m} : t.neighbours[x] = s.neighbours[x]

DVInserts(s, m, l, t) ==
    /\ s.neighbours[m] # {} => t.routing.table = s.routing.table /\ t.fwd = s.fwd
    /\ s.neighbours[m] = {} =>
          /\ t.routing.table = [s.routing.table EXCEPT ![m] = [addr |-> m, metric |-> 1]]
          /\ t.fwd = [s.fwd EXCEPT ![m] = l]

LEMMA DVInserted ==
    ASSUME IsDV, NEW n \in Nodes, NEW s, IPCP(n, s), NEW l \in LinksOf(n),
           NEW m, m = NextTo(n, l), l \notin s.neighbours[m],
           s.neighbours[m] = {} => s.routing.table[m].addr # m,
           NEW t, t = InsertedFlow(s, m, l)
    PROVE  Inserts(n, s, m, l, t) /\ DVInserts(s, m, l, t)
<1> DEFINE p == [s EXCEPT !.neighbours[m] = @ \cup {l}]
<1>1. /\ DOMAIN s = SNames /\ PortsOf(n, s) /\ DVFits(n, Adjacent(s), s.routing)
      /\ s.fwd \in [Nodes -> LinksOf(n) \cup {NoPort}] /\ m \in Nodes
  BY EndsOfLinks DEF IPCP
<1>2. /\ DOMAIN p = SNames /\ p.neighbours = MorePort(s.neighbours, m, l)
      /\ p.routing = s.routing /\ p.fwd = s.fwd
  BY <1>1, WithPorts DEF MorePort
<1>3. /\ Cardinality(p.neighbours[m]) # 1 => t = p
      /\ Cardinality(p.neighbours[m]) = 1 =>
            t = RoutingUpdated([p EXCEPT !.routing = DV!InsertFlow(@, m, 1)])
  BY DEF InsertedFlow
<1> HIDE DEF p
<1>4. /\ PortsOf(n, p) /\ Adjacent(p) = Adjacent(s) \cup {m}
      /\ p.neighbours[m] = s.neighbours[m] \cup {l}
      /\ \A x \in Nodes \ {m} : p.neighbours[x] = s.neighbours[x]
  BY <1>1, <1>2, MorePorts
<1>5. Cardinality(p.neighbours[m]) = 1 <=> s.neighbours[m] = {}
  BY <1>1, <1>4, PortCount
<1>6. CASE s.neighbours[m] # {}
  <2>1. Adjacent(p) = Adjacent(s)
    BY <1>1, <1>4, <1>6 DEF Adjacent
  <2>2. t = p
    BY <1>3, <1>5, <1>6
  <2>3. IPCP(n, p)
    BY <1>1, <1>2, <1>4, <2>1 DEF IPCP
  <2> QED BY <1>2, <1>4, <1>6, <2>1, <2>2, <2>3 DEF Inserts, DVInserts
<1>7. CASE s.neighbours[m] = {}
  <2> DEFINE r == DV!InsertFlow(p.routing, m, 1)
             q == [p EXCEPT !.routing = r]
             new == [addr |-> m, metric |-> 1]
  <2>1. t = RoutingUpdated(q)
    BY <1>3, <1>5, <1>7
  <2>13. DVGot(n, Adjacent(s), p.routing, m, r)
    BY <1>1, <1>2, <1>7, DVInsert
  <2> HIDE DEF r
  <2>2. /\ DOMAIN r = DVNames /\ r.me = n /\ r.neig = [x \in Adjacent(s) \cup {m} |-> 1]
        /\ r.table = [s.routing.table EXCEPT ![m] = new]
        /\ r.changes = [d \in {m} |-> {m}] /\ Timed(r)
    BY <1>2, <2>13, Zenon DEF DVGot
  <2>3. new \in DV!RtEntry /\ s.routing.table \in [Nodes -> DV!RtEntry]
    BY <1>1, EntryType, EndsOfLinks DEF DVFits
  <2> HIDE DEF r
  <2>4. DOMAIN q = SNames /\ q.routing = r /\ q.neighbours = p.neighbours /\ q.fwd = p.fwd
    BY <1>2, WithRouting
  <2>5. PortsOf(n, q) /\ Adjacent(q) = Adjacent(p)
    BY <1>4, <2>4, SamePorts
  <2> HIDE DEF q, new
  <2>6. r.table \in [Nodes -> DV!RtEntry]
    BY <2>2, <2>3
  <2>7. DOMAIN r.changes = {m} /\ r.changes[m] = {m}
    BY <2>2
  <2>14. q.routing.neig = [x \in Adjacent(q) |-> 1]
    BY <1>4, <2>2, <2>4, <2>5
  <2>15. DVReady(n, q)
    BY <1>1, <1>2, <2>2, <2>4, <2>5, <2>6, <2>7, <2>14 DEF DVReady
  <2>8. IPCP(n, t) /\ Told(q, t)
    BY <2>1, <2>15, DVTold
  <2>16. /\ t.neighbours = q.neighbours /\ t.routing.table = r.table
         /\ t.fwd = Entries(q, r.changes)
    BY <2>4, <2>8 DEF Told
  <2>9. q.neighbours[m] = {l}
    BY <1>4, <1>7, <2>4
  <2>10. PortOf(q, {m}) = l
    BY <1>1, <2>5, <2>9, Ported
  <2>11. t.fwd = [s.fwd EXCEPT ![m] = l]
    BY <1>1, <1>2, <2>4, <2>7, <2>10, <2>16 DEF Entries
  <2>12. Adjacent(t) = Adjacent(q)
    BY <2>16, SamePorts
  <2> QED BY <1>4, <1>7, <2>2, <2>4, <2>5, <2>8, <2>11, <2>12, <2>16
         DEF new, Inserts, DVInserts
<1> QED BY <1>6, <1>7

Removes(n, s, m, l, t) == IPCP(n, t) /\ FewerPortsIn(n, s, m, l, t)

DVRemoves(s, m, t) ==
    /\ t.neighbours[m] # {} => t.routing.table = s.routing.table /\ t.fwd = s.fwd
    /\ t.neighbours[m] = {} =>
          /\ t.routing.table = WithoutVia(s.routing.table, m)
          /\ t.fwd = [s.fwd EXCEPT ![m] = NoPort]

LEMMA DVRemoved ==
    ASSUME IsDV, NEW n \in Nodes, NEW s, IPCP(n, s), NEW m \in Nodes, NEW l,
           s.routing.table[m].addr = m, NEW t, t = RemovedFlow(s, m, l)
    PROVE  Removes(n, s, m, l, t) /\ DVRemoves(s, m, t)
<1> DEFINE p == [s EXCEPT !.neighbours[m] = @ \ {l}]
<1>1. /\ DOMAIN s = SNames /\ PortsOf(n, s) /\ DVFits(n, Adjacent(s), s.routing)
      /\ s.fwd \in [Nodes -> LinksOf(n) \cup {NoPort}]
  BY DEF IPCP
<1>2. /\ DOMAIN p = SNames /\ p.neighbours = FewerPort(s.neighbours, m, l)
      /\ p.routing = s.routing /\ p.fwd = s.fwd
  BY <1>1, WithPorts DEF FewerPort
<1>3. /\ p.neighbours[m] # {} => t = p
      /\ p.neighbours[m] = {} =>
            t = RoutingUpdated([p EXCEPT !.routing = DV!RemoveFlow(@, m)])
  BY DEF RemovedFlow
<1> HIDE DEF p
<1>4. /\ FewerPortsIn(n, s, m, l, p) /\ PortsOf(n, p)
      /\ p.neighbours[m] # {} => Adjacent(p) = Adjacent(s)
      /\ p.neighbours[m] = {} => Adjacent(p) = Adjacent(s) \ {m}
  <2>1. PortsOf(n, s) /\ p.neighbours = FewerPort(s.neighbours, m, l)
    BY <1>1, <1>2
  <2>2. FewerPortsIn(n, s, m, l, p)
    BY <2>1, FewerPorts
  <2> QED BY <2>2, Zenon DEF FewerPortsIn
<1>7. ASSUME t.neighbours = p.neighbours
      PROVE  FewerPortsIn(n, s, m, l, t)
  BY <1>4, <1>7, SamePorts DEF FewerPortsIn
<1>5. CASE p.neighbours[m] # {}
  <2>1. t = p
    BY <1>3, <1>5
  <2>2. IPCP(n, p)
    BY <1>1, <1>2, <1>4, <1>5 DEF IPCP
  <2> QED BY <1>2, <1>5, <1>7, <2>1, <2>2 DEF Removes, DVRemoves
<1>6. CASE p.neighbours[m] = {}
  <2> DEFINE r == DV!RemoveFlow(p.routing, m)
             q == [p EXCEPT !.routing = r]
             less == WithoutVia(s.routing.table, m)
  <2>1. t = RoutingUpdated(q)
    BY <1>3, <1>6
  <2>13. DVLost(n, Adjacent(s), p.routing, m, r)
    BY <1>1, <1>2, DVRemove
  <2> HIDE DEF r
  <2>2. /\ DOMAIN r = DVNames /\ r.me = n /\ r.neig = [x \in Adjacent(s) \ {m} |-> 1]
        /\ r.table = less
        /\ r.changes = [d \in {m} |-> {}] /\ Timed(r)
    BY <1>2, <2>13, Zenon DEF DVLost
  <2>3. DV!NoEntry \in DV!RtEntry /\ s.routing.table \in [Nodes -> DV!RtEntry]
    BY <1>1, EntryType DEF DVFits
  <2> HIDE DEF r
  <2>4. DOMAIN q = SNames /\ q.routing = r /\ q.neighbours = p.neighbours /\ q.fwd = p.fwd
    BY <1>2, WithRouting
  <2>5. PortsOf(n, q) /\ Adjacent(q) = Adjacent(s) \ {m}
    BY <1>4, <1>6, <2>4, SamePorts
  <2>6. r.table \in [Nodes -> DV!RtEntry]
    BY <2>2, <2>3 DEF WithoutVia
  <2> HIDE DEF q, less
  <2>7. DOMAIN r.changes = {m} /\ r.changes[m] = {}
    BY <2>2
  <2>14. q.routing.neig = [x \in Adjacent(q) |-> 1]
    BY <2>2, <2>4, <2>5
  <2>15. DVReady(n, q)
    BY <1>1, <1>2, <2>2, <2>4, <2>5, <2>6, <2>7, <2>14 DEF DVReady
  <2>8. IPCP(n, t) /\ Told(q, t)
    BY <2>1, <2>15, DVTold
  <2>16. /\ t.neighbours = q.neighbours /\ t.routing.table = r.table
         /\ t.fwd = Entries(q, r.changes)
    BY <2>4, <2>8 DEF Told
  <2>9. PortOf(q, {}) = NoPort
    BY <2>5, Ported
  <2>10. t.fwd = [s.fwd EXCEPT ![m] = NoPort]
    BY <1>1, <1>2, <2>4, <2>7, <2>9, <2>16 DEF Entries
  <2>11. t.neighbours = p.neighbours
    BY <2>4, <2>16
  <2> QED BY <1>6, <1>7, <2>2, <2>8, <2>10, <2>11, <2>16 DEF less, Removes, DVRemoves
<1> QED BY <1>5, <1>6

\* What an update that is received does to one route and its entry.
DVTook(n, s, up, t, d) ==
    LET old == s.routing.table[d]
        new == t.routing.table[d]
        e == up.entries[d]
        listed == d \in DOMAIN up.entries /\ d # n
        routed == listed /\ e < InfMetric /\ new = [addr |-> up.src, metric |-> e]
    IN  \/ new = old /\ t.fwd[d] = s.fwd[d]
        \/ /\ listed /\ e >= InfMetric /\ (old.addr = up.src \/ old = DV!NoEntry)
           /\ new = DV!NoEntry /\ t.fwd[d] = NoPort
        \/ routed /\ old.addr = up.src /\ t.fwd[d] = s.fwd[d]
        \/ routed /\ old.addr # up.src /\ old.metric > e /\ t.fwd[d] = PortOf(s, {up.src})

LEMMA DVReceived ==
    ASSUME IsDV, NEW n \in Nodes, NEW s, IPCP(n, s), NEW up \in DV!Updates,
           NEW t, t = ReceiveUpdate(s, up)
    PROVE  IPCP(n, t) /\ t.neighbours = s.neighbours /\ \A d \in Nodes : DVTook(n, s, up, t, d)
<1> DEFINE r == DV!ProcessUpdate(s.routing, up)
           q == [s EXCEPT !.routing = r]
<1>1. t = IF DOMAIN r.changes # {} THEN RoutingUpdated(q) ELSE q
  BY DEF ReceiveUpdate, DV!IsUpdated
<1>2. /\ DOMAIN s = SNames /\ PortsOf(n, s) /\ DVFits(n, Adjacent(s), s.routing)
      /\ s.fwd \in [Nodes -> LinksOf(n) \cup {NoPort}]
  BY DEF IPCP
<1>3. /\ DOMAIN r = DVNames /\ r.me = n /\ r.neig = [x \in Adjacent(s) |-> 1]
      /\ r.table \in [Nodes -> DV!RtEntry] /\ Timed(r)
      /\ r.changes = [d \in DOMAIN r.changes |-> r.changes[d]]
      /\ DOMAIN r.changes \subseteq Nodes
      /\ \A d \in Nodes : \/ Kept(s.routing, r, d) \/ Lost(s.routing, up, r, d)
                          \/ Same(s.routing, up, r, d) \/ Gained(s.routing, up, r, d)
  BY <1>2, DVProcess
<1> HIDE DEF r
<1>4. DOMAIN q = SNames /\ q.routing = r /\ q.neighbours = s.neighbours /\ q.fwd = s.fwd
  BY <1>2, WithRouting
<1> HIDE DEF q
<1>5. PortsOf(n, q) /\ Adjacent(q) = Adjacent(s)
  BY <1>2, <1>4, SamePorts
<1>6. ASSUME NEW d \in DOMAIN r.changes
      PROVE  r.changes[d] \subseteq Nodes
  <2>1. /\ d \in Nodes /\ up.src \in Nodes
        /\ Lost(s.routing, up, r, d) \/ Gained(s.routing, up, r, d)
    BY <1>3, <1>6, UpdateType DEF Kept, Same
  <2> QED BY <2>1 DEF Lost, Gained
<1>7. /\ IPCP(n, t) /\ t.neighbours = s.neighbours /\ t.routing.table = r.table
      /\ \A d \in Nodes : t.fwd[d] = IF d \in DOMAIN r.changes THEN PortOf(q, r.changes[d])
                                     ELSE s.fwd[d]
  <2>1. CASE DOMAIN r.changes # {}
    <3>1. q.routing.neig = [x \in Adjacent(q) |-> 1]
      BY <1>3, <1>4, <1>5
    <3>2. DVReady(n, q)
      BY <1>2, <1>3, <1>4, <1>5, <1>6, <3>1 DEF DVReady
    <3>3. IPCP(n, t) /\ Told(q, t)
      BY <1>1, <2>1, <3>2, DVTold
    <3> QED BY <1>4, <3>3 DEF Told, Entries
  <2>2. CASE DOMAIN r.changes = {}
    <3>1. r.changes = <<>>
      BY <1>3, <2>2, NoKeys
    <3>2. t = q
      BY <1>1, <2>2
    <3>3. DVFits(n, Adjacent(q), r)
      BY <1>3, <1>5, <3>1 DEF DVFits
    <3>4. IPCP(n, q)
      BY <1>2, <1>4, <1>5, <3>3 DEF IPCP
    <3> QED BY <1>4, <2>2, <3>2, <3>4
  <2> QED BY <2>1, <2>2
<1>8. /\ s.routing.me = n
      /\ PortOf(q, {}) = NoPort /\ PortOf(q, {up.src}) = PortOf(s, {up.src})
  BY <1>2, <1>4, <1>5, Ported, SamePorts DEF DVFits
<1>9. ASSUME NEW d \in Nodes
      PROVE  DVTook(n, s, up, t, d)
  <2>1. CASE Kept(s.routing, r, d)
    BY <1>7, <2>1 DEF Kept, DVTook
  <2>2. CASE Lost(s.routing, up, r, d)
    BY <1>7, <1>8, <2>2 DEF Lost, DVTook
  <2>3. CASE Same(s.routing, up, r, d)
    BY <1>7, <1>8, <2>3 DEF Same, DVTook
  <2>4. CASE Gained(s.routing, up, r, d)
    BY <1>7, <1>8, <2>4 DEF Gained, DVTook
  <2> QED BY <1>3, <2>1, <2>2, <2>3, <2>4
<1> QED BY <1>7, <1>9

DVSends(s, t) == t.routing.table = s.routing.table /\ t.fwd = s.fwd

LEMMA DVSent ==
    ASSUME IsDV, NEW n, NEW s, IPCP(n, s),
           NEW t, t = [s EXCEPT !.routing = DV!AfterUpdate(@)]
    PROVE  IPCP(n, t) /\ t.neighbours = s.neighbours /\ DVSends(s, t)
<1>1. /\ DOMAIN s = SNames /\ PortsOf(n, s) /\ DVFits(n, Adjacent(s), s.routing)
      /\ s.fwd \in [Nodes -> LinksOf(n) \cup {NoPort}]
  BY DEF IPCP
<1>2. /\ DOMAIN t = SNames /\ t.routing = DV!AfterUpdate(s.routing)
      /\ t.neighbours = s.neighbours /\ t.fwd = s.fwd
  BY <1>1, WithRouting
<1>3. DVFits(n, Adjacent(s), t.routing) /\ t.routing.table = s.routing.table
  BY <1>1, <1>2, DVAfterUpdate
<1>4. PortsOf(n, t) /\ Adjacent(t) = Adjacent(s)
  BY <1>1, <1>2, SamePorts
<1> QED BY <1>1, <1>2, <1>3, <1>4 DEF IPCP, DVSends

-----------------------------------------------------------------------------
(* The functions of a link state IPCP.                                       *)

LEMMA LSScheduled ==
    ASSUME NEW r, DOMAIN r = LSNames, Timed(r), NEW t, t = LS!ScheduleUpdate(r)
    PROVE  /\ DOMAIN t = LSNames
           /\ t.me = r.me /\ t.neig = r.neig /\ t.netState = r.netState /\ t.secId = r.secId
           /\ t.lastChanges = r.lastChanges /\ t.table = r.table /\ t.changes = r.changes
           /\ Scheduled(r, t) /\ Timed(t)
<1>1. t = [r EXCEPT !.scheduledUpdate = TRUE, !.timer = IF r.scheduledUpdate THEN @ ELSE TRUE]
  BY DEF LS!ScheduleUpdate
<1>2. DOMAIN t = LSNames
  BY <1>1
<1>3. /\ t.me = r.me /\ t.neig = r.neig /\ t.netState = r.netState /\ t.secId = r.secId
      /\ t.lastChanges = r.lastChanges /\ t.table = r.table /\ t.changes = r.changes
  BY <1>1 DEF LSNames
<1>4. t.scheduledUpdate = TRUE
  BY <1>1 DEF LSNames
<1>5. t.timer = IF r.scheduledUpdate THEN r.timer ELSE TRUE
  BY <1>1 DEF LSNames
<1>6. Scheduled(r, t)
  BY <1>4, <1>5 DEF Scheduled
<1> QED BY <1>2, <1>3, <1>6, ScheduledTimed

\* A link has come or gone.
LSChanged(n, r, neig, links, t) ==
    /\ DOMAIN t = LSNames /\ t.me = n /\ t.neig = neig
    /\ t.netState = [r.netState EXCEPT ![n] = [sId |-> r.secId + 1, links |-> links]]
    /\ t.secId = r.secId + 1 /\ t.lastChanges = r.lastChanges \cup {n}
    /\ t.table = r.table /\ t.changes = r.changes
    /\ Scheduled(r, t) /\ Timed(t)

LEMMA LSChange ==
    ASSUME NEW n, NEW S, NEW r, LSFits(n, S, r), NEW neig, NEW links
    PROVE  LSChanged(n, r, neig, links, LS!ChangeLinks(r, neig, links))
<1> DEFINE t == LS!ChangeLinks(r, neig, links)
           q == [r EXCEPT !.neig = neig, !.lastChanges = @ \cup {r.me}, !.secId = @ + 1,
                          !.netState[r.me] = [sId |-> r.secId + 1, links |-> links]]
<1>1. t = LS!ScheduleUpdate(q)
  BY DEF LS!ChangeLinks
<1>2. DOMAIN r = LSNames /\ r.me = n /\ Timed(r)
  BY DEF LSFits
<1>3. /\ DOMAIN q = LSNames /\ q.me = n /\ q.neig = neig
      /\ q.netState = [r.netState EXCEPT ![n] = [sId |-> r.secId + 1, links |-> links]]
      /\ q.secId = r.secId + 1 /\ q.lastChanges = r.lastChanges \cup {n}
      /\ q.table = r.table /\ q.changes = r.changes
      /\ q.scheduledUpdate = r.scheduledUpdate /\ q.timer = r.timer
  BY <1>2 DEF LSNames
<1> HIDE DEF q, t
<1>4. Timed(q)
  BY <1>2, <1>3 DEF Timed
<1>5. /\ DOMAIN t = LSNames
      /\ t.me = q.me /\ t.neig = q.neig /\ t.netState = q.netState /\ t.secId = q.secId
      /\ t.lastChanges = q.lastChanges /\ t.table = q.table /\ t.changes = q.changes
      /\ Scheduled(q, t) /\ Timed(t)
  BY <1>1, <1>3, <1>4, LSScheduled
<1>6. Scheduled(r, t)
  BY <1>3, <1>5, Zenon DEF Scheduled
<1> QED BY <1>3, <1>5, <1>6, Zenon DEF t, LSChanged

\* Every hop counts as 1.
Ones(S) == [x \in S |-> 1]

LEMMA WaysChanged ==
    /\ \A w \in Ways, m \in Nodes : LS!With(w, m, 1) \in Ways /\ LS!Without(w, m) \in Ways
    /\ \A S, m : /\ LS!With(Ones(S), m, 1) = Ones(S \cup {m})
                 /\ LS!Without(Ones(S), m) = Ones(S \ {m})
    /\ \A w \in Ways : w = Ones(DOMAIN w) /\ DOMAIN w \in SUBSET Nodes
<1>1. ASSUME NEW S, NEW m
      PROVE  /\ LS!With(Ones(S), m, 1) = Ones(S \cup {m})
             /\ LS!Without(Ones(S), m) = Ones(S \ {m})
  BY DEF LS!With, LS!Without, Ones
<1>2. ASSUME NEW w \in Ways
      PROVE  w = Ones(DOMAIN w) /\ DOMAIN w \in SUBSET Nodes
  BY DEF Ways, Ones
<1>3. ASSUME NEW S \in SUBSET Nodes
      PROVE  Ones(S) \in Ways
  BY DEF Ones, Ways
<1>4. ASSUME NEW w \in Ways, NEW m \in Nodes
      PROVE  LS!With(w, m, 1) \in Ways /\ LS!Without(w, m) \in Ways
  <2>1. PICK S \in SUBSET Nodes : w = Ones(S)
    BY <1>2
  <2>2. S \cup {m} \in SUBSET Nodes /\ S \ {m} \in SUBSET Nodes
    OBVIOUS
  <2> QED BY <1>1, <1>3, <2>1, <2>2
<1> QED BY <1>1, <1>2, <1>4

\* What others have reported.
Newer(net, up) == {k \in DOMAIN up : net[k].sId < up[k].sId}
Merged(net, up) == [k \in Nodes |-> IF k \in Newer(net, up) THEN up[k] ELSE net[k]]

LSProcessed(n, r, up, t) ==
    /\ DOMAIN t = LSNames /\ t.me = n /\ t.neig = r.neig /\ t.secId = r.secId
    /\ t.netState = Merged(r.netState, up)
    /\ t.lastChanges = r.lastChanges \cup Newer(r.netState, up)
    /\ t.table = r.table /\ t.changes = r.changes
    /\ t.lastChanges # {} => Scheduled(r, t)
    /\ t.lastChanges = {} =>
          t.scheduledUpdate = r.scheduledUpdate /\ t.timer = r.timer
    /\ Timed(t)

LEMMA LSProcess ==
    ASSUME NEW n, NEW S, NEW r, LSFits(n, S, r), NEW up
    PROVE  LSProcessed(n, r, up, LS!ProcessUpdate(r, up))
<1> DEFINE t == LS!ProcessUpdate(r, up)
           newer == Newer(r.netState, up)
           net == Merged(r.netState, up)
           q == [r EXCEPT !.netState = net, !.lastChanges = @ \cup newer]
<1>1. t = IF q.lastChanges # {} THEN LS!ScheduleUpdate(q) ELSE q
  BY DEF LS!ProcessUpdate, Newer, Merged
<1>2. DOMAIN r = LSNames /\ r.me = n /\ Timed(r)
  BY DEF LSFits
<1>3. /\ DOMAIN q = LSNames /\ q.me = n /\ q.neig = r.neig /\ q.secId = r.secId
      /\ q.netState = net /\ q.lastChanges = r.lastChanges \cup newer
      /\ q.table = r.table /\ q.changes = r.changes
      /\ q.scheduledUpdate = r.scheduledUpdate /\ q.timer = r.timer
  <2> HIDE DEF net, newer
  <2> QED BY <1>2 DEF LSNames
<1> HIDE DEF q, t
<1>5. Timed(q)
  BY <1>2, <1>3 DEF Timed
<1>6. CASE q.lastChanges = {}
  BY <1>1, <1>3, <1>5, <1>6, Zenon DEF t, LSProcessed
<1>7. CASE q.lastChanges # {}
  <2>1. t = LS!ScheduleUpdate(q)
    BY <1>1, <1>7
  <2>2. /\ DOMAIN t = LSNames
        /\ t.me = q.me /\ t.neig = q.neig /\ t.netState = q.netState /\ t.secId = q.secId
        /\ t.lastChanges = q.lastChanges /\ t.table = q.table /\ t.changes = q.changes
        /\ Scheduled(q, t) /\ Timed(t)
    BY <1>3, <1>5, <2>1, LSScheduled
  <2>3. Scheduled(r, t)
    BY <1>3, <2>2, Zenon DEF Scheduled
  <2> QED BY <1>3, <1>7, <2>2, <2>3, Zenon DEF t, LSProcessed
<1> QED BY <1>6, <1>7

LSAfter(n, S, r, t) ==
    /\ LSFits(n, S, t) /\ t.table = r.table /\ t.netState = r.netState
    /\ t.secId = r.secId /\ t.lastChanges = {}
    /\ t.scheduledUpdate = FALSE /\ t.neig = r.neig

LEMMA LSAfterUpdate ==
    ASSUME NEW n, NEW S, NEW r, LSFits(n, S, r)
    PROVE  LSAfter(n, S, r, LS!AfterUpdate(r))
<1> DEFINE t == LS!AfterUpdate(r)
<1>1. t = [r EXCEPT !.scheduledUpdate = FALSE, !.timer = FALSE, !.lastChanges = {}]
  BY DEF LS!AfterUpdate
<1>2. DOMAIN r = LSNames
  BY DEF LSFits
<1> HIDE DEF t
<1>3. /\ DOMAIN t = LSNames /\ t.me = r.me /\ t.neig = r.neig /\ t.table = r.table
      /\ t.changes = r.changes /\ t.netState = r.netState /\ t.secId = r.secId
      /\ t.lastChanges = {}
  BY <1>1, <1>2 DEF LSNames
<1>4. t.scheduledUpdate = FALSE /\ t.timer = FALSE
  BY <1>1, <1>2 DEF LSNames
<1> HIDE <1>1
<1>5. Timed(t)
  BY <1>4 DEF Timed
<1>6. LSFits(n, S, t)
  BY <1>3, <1>5 DEF LSFits
<1> QED BY <1>3, <1>4, <1>6 DEF LSAfter, t

-----------------------------------------------------------------------------
(* The tree of shortest ways.                                                *)

\* The steps of ConstructTree can be taken.
Grown(start, net, k, tree) ==
    tree = [i \in 0 .. k |-> IF i = 0 THEN start ELSE LS!Follow(tree[i - 1], net)]

LEMMA TreeGrows ==
    ASSUME NEW start, NEW net, NEW N \in Nat
    PROVE  \E tree : Grown(start, net, N, tree)
<1> DEFINE Bad == {k \in Nat : ~\E tree : Grown(start, net, k, tree)}
<1>1. ASSUME Bad # {}
      PROVE  FALSE
  <2>1. PICK k \in Bad : \A m \in Bad : k <= m
    BY <1>1, FirstIsLeast
  <2>2. CASE k = 0
    <3> DEFINE tree == [i \in 0 .. 0 |-> start]
    <3>1. tree = [i \in 0 .. 0 |-> IF i = 0 THEN start ELSE LS!Follow(tree[i - 1], net)]
      OBVIOUS
    <3>2. Grown(start, net, k, tree)
      BY <2>2, <3>1 DEF Grown
    <3> QED BY <3>2
  <2>3. CASE k # 0
    <3>1. k - 1 \in Nat /\ k - 1 \notin Bad
      BY <2>1, <2>3
    <3>2. PICK g : Grown(start, net, k - 1, g)
      BY <3>1
    <3>3. /\ DOMAIN g = 0 .. k - 1
          /\ \A i \in 0 .. k - 1 : g[i] = IF i = 0 THEN start ELSE LS!Follow(g[i - 1], net)
      BY <3>2 DEF Grown
    <3> DEFINE tree == [i \in 0 .. k |-> IF i = 0 THEN start ELSE LS!Follow(g[i - 1], net)]
    <3>4. ASSUME NEW i \in 0 .. k, i # 0
          PROVE  tree[i - 1] = g[i - 1]
      <4>1. i - 1 \in 0 .. k - 1 /\ i - 1 \in 0 .. k
        BY <3>1, <3>4
      <4> QED BY <3>3, <4>1
    <3>5. tree = [i \in 0 .. k |-> IF i = 0 THEN start ELSE LS!Follow(tree[i - 1], net)]
      <4>1. \A i \in 0 .. k : tree[i] = IF i = 0 THEN start ELSE LS!Follow(tree[i - 1], net)
        BY <3>4
      <4>2. tree = [i \in 0 .. k |-> tree[i]]
        OBVIOUS
      <4> HIDE DEF tree
      <4> QED BY <4>1, <4>2
    <3>6. Grown(start, net, k, tree)
      BY <3>5, Zenon DEF Grown
    <3> QED BY <3>6
  <2> QED BY <2>2, <2>3
<1> QED BY <1>1

\* A tree on its way: neighbors are one hop away, and what is not the root itself at
\* least that.
TreeOK(n, L, t) ==
    /\ n \in t.added /\ t.added \subseteq Nodes
    /\ DOMAIN t.metric \subseteq Nodes /\ DOMAIN t.nh = DOMAIN t.metric
    /\ \A d \in DOMAIN t.metric :
          t.metric[d] \in Nat /\ t.nh[d] \subseteq L /\ (d # n => t.metric[d] >= 1)
    /\ \A m \in L : m \in DOMAIN t.metric /\ t.metric[m] = 1 /\ t.nh[m] = {m}

LEMMA MinIsLeast ==
    ASSUME NEW S \in SUBSET Nat, S # {}
    PROVE  LS!Min(S) \in S /\ \A m \in S : LS!Min(S) <= m
<1>1. PICK n \in S : \A m \in S : n <= m
  BY FirstIsLeast
<1> QED BY <1>1 DEF LS!Min

LEMMA Follows ==
    ASSUME NEW n \in Nodes, NEW L, NEW net \in [Nodes -> LinkState], NEW t, TreeOK(n, L, t)
    PROVE  TreeOK(n, L, LS!Follow(t, net))
<1> DEFINE mins == LS!Nearest(t)
           ways(d) == {p \in mins : d \in DOMAIN net[p].links}
           length(d, p) == t.metric[p] + net[p].links[d]
           known(d) == IF d \in DOMAIN t.metric THEN {t.metric[d]} ELSE {}
           lengths(d) == known(d) \cup {length(d, p) : p \in ways(d)}
           least(d) == LS!Min(lengths(d))
           hops(d) == UNION {t.nh[p] : p \in {p \in ways(d) : length(d, p) = least(d)}}
           kept(d) == IF known(d) = {least(d)} THEN t.nh[d] ELSE {}
           found == {d \in Nodes \ t.added : ways(d) # {}}
           next == LS!Follow(t, net)
           leasts == [d \in found |-> least(d)]
           hopsOf == [d \in found |-> hops(d) \cup kept(d)]
<1>1. next = [added |-> t.added \cup mins, metric |-> LS!Over(leasts, t.metric),
              nh |-> LS!Over(hopsOf, t.nh)]
  BY DEF LS!Follow
<1>2. /\ n \in t.added /\ t.added \subseteq Nodes
      /\ DOMAIN t.metric \subseteq Nodes /\ DOMAIN t.nh = DOMAIN t.metric
      /\ \A d \in DOMAIN t.metric : t.metric[d] \in Nat /\ t.nh[d] \subseteq L
                                    /\ (d # n => t.metric[d] >= 1)
      /\ \A m \in L : m \in DOMAIN t.metric /\ t.metric[m] = 1 /\ t.nh[m] = {m}
  BY DEF TreeOK
<1>3. mins \subseteq DOMAIN t.metric \ t.added
  BY DEF LS!Nearest
<1>4. ASSUME NEW d, NEW p \in ways(d)
      PROVE  length(d, p) \in Nat /\ length(d, p) >= 2 /\ t.nh[p] \subseteq L
  <2>1. p \in mins /\ d \in DOMAIN net[p].links
    OBVIOUS
  <2>2. p \in DOMAIN t.metric /\ p \notin t.added
    BY <1>3, <2>1
  <2>3. p # n /\ p \in Nodes
    BY <1>2, <2>2
  <2>4. t.metric[p] \in Nat /\ t.metric[p] >= 1 /\ t.nh[p] \subseteq L
    BY <1>2, <2>2, <2>3
  <2>5. net[p].links \in Ways
    BY <2>3 DEF LinkState
  <2>6. net[p].links[d] = 1
    BY <2>1, <2>5, WaysChanged DEF Ones
  <2> QED BY <2>4, <2>6
<1> HIDE DEF mins
<1>5. ASSUME NEW d \in found
      PROVE  /\ least(d) \in Nat /\ least(d) \in lengths(d)
             /\ \A x \in lengths(d) : least(d) <= x
             /\ (d # n => least(d) >= 1)
  <2>1. \A x \in {length(d, p) : p \in ways(d)} : x \in Nat /\ x >= 2
    BY <1>4
  <2>2. \A x \in known(d) : x \in Nat /\ (d # n => x >= 1)
    BY <1>2
  <2>3. lengths(d) # {} /\ lengths(d) \in SUBSET Nat
    <3>1. PICK p \in ways(d) : TRUE
      OBVIOUS
    <3> HIDE DEF ways, length, known
    <3>2. length(d, p) \in lengths(d)
      OBVIOUS
    <3> QED BY <2>1, <2>2, <3>2
  <2>4. \A x \in lengths(d) : x \in Nat /\ (d # n => x >= 1)
    BY <2>1, <2>2
  <2> HIDE DEF lengths
  <2>5. least(d) \in lengths(d) /\ \A x \in lengths(d) : least(d) <= x
    BY <2>3, MinIsLeast
  <2> QED BY <2>3, <2>4, <2>5
<1>6. ASSUME NEW d \in found
      PROVE  hops(d) \cup kept(d) \subseteq L
  <2>1. hops(d) \subseteq L
    BY <1>4
  <2>2. kept(d) \subseteq L
    BY <1>2
  <2> QED BY <2>1, <2>2
<1>7. ASSUME NEW m \in L, m \in found
      PROVE  least(m) = 1 /\ hops(m) \cup kept(m) = {m}
  <2>1. m \in DOMAIN t.metric /\ t.metric[m] = 1 /\ t.nh[m] = {m}
    BY <1>2
  <2>2. known(m) = {1}
    BY <2>1
  <2>3. \A p \in ways(m) : length(m, p) \in Nat /\ length(m, p) >= 2
    BY <1>4
  <2>4. 1 \in lengths(m) /\ \A x \in lengths(m) : x = 1 \/ x >= 2
    BY <2>2, <2>3
  <2> HIDE DEF lengths, length, ways
  <2>5. least(m) = 1
    BY <1>5, <1>7, <2>4
  <2>6. \A p \in ways(m) : length(m, p) # least(m)
    BY <2>3, <2>5
  <2>7. hops(m) = {}
    BY <2>6
  <2>8. kept(m) = {m}
    BY <2>1, <2>2, <2>5
  <2> QED BY <2>5, <2>7, <2>8
<1>8. found \subseteq Nodes
  OBVIOUS
<1> HIDE DEF found, least, hops, kept
<1>9. /\ DOMAIN leasts = found /\ \A d \in found : leasts[d] = least(d)
      /\ DOMAIN hopsOf = found /\ \A d \in found : hopsOf[d] = hops(d) \cup kept(d)
  OBVIOUS
<1> HIDE DEF leasts, hopsOf, next
<1>10. /\ next.added = t.added \cup mins
       /\ DOMAIN next.metric = found \cup DOMAIN t.metric
       /\ DOMAIN next.nh = found \cup DOMAIN t.metric
       /\ \A d \in found \cup DOMAIN t.metric :
             /\ next.metric[d] = IF d \in found THEN least(d) ELSE t.metric[d]
             /\ next.nh[d] = IF d \in found THEN hops(d) \cup kept(d) ELSE t.nh[d]
  BY <1>1, <1>2, <1>9 DEF LS!Over
<1>11. ASSUME NEW d \in DOMAIN next.metric
       PROVE  /\ next.metric[d] \in Nat /\ next.nh[d] \subseteq L
              /\ d # n => next.metric[d] >= 1
  <2>1. CASE d \in found
    BY <1>5, <1>6, <1>10, <2>1
  <2>2. CASE d \notin found
    <3>1. d \in DOMAIN t.metric
      BY <1>10, <2>2
    <3>2. next.metric[d] = t.metric[d] /\ next.nh[d] = t.nh[d]
      BY <1>10, <2>2, <3>1
    <3> QED BY <1>2, <3>1, <3>2
  <2> QED BY <2>1, <2>2
<1>12. ASSUME NEW m \in L
       PROVE  m \in DOMAIN next.metric /\ next.metric[m] = 1 /\ next.nh[m] = {m}
  <2>1. m \in DOMAIN t.metric /\ t.metric[m] = 1 /\ t.nh[m] = {m}
    BY <1>2
  <2>2. /\ m \in DOMAIN next.metric
        /\ next.metric[m] = IF m \in found THEN least(m) ELSE t.metric[m]
        /\ next.nh[m] = IF m \in found THEN hops(m) \cup kept(m) ELSE t.nh[m]
    BY <1>10, <2>1
  <2>3. CASE m \in found
    BY <1>7, <2>2, <2>3
  <2>4. CASE m \notin found
    BY <2>1, <2>2, <2>4
  <2> QED BY <2>3, <2>4
<1>13. next.added \subseteq Nodes /\ n \in next.added
  BY <1>2, <1>3, <1>10
<1> QED BY <1>2, <1>8, <1>10, <1>11, <1>12, <1>13 DEF next, TreeOK

\* The next hops of the tree are neighbors, and the way to a neighbor is direct.
TreeOf(n, L, tree) ==
    /\ tree \in [Nodes -> TreeEntry]
    /\ \A m \in L : tree[m].nh = {m}
    /\ \A d \in Nodes : tree[d].nh \subseteq L

LEMMA Tree ==
    ASSUME NEW n \in Nodes, NEW net \in [Nodes -> LinkState]
    PROVE  TreeOf(n, DOMAIN net[n].links \ {n}, LS!ConstructTree(n, net))
<1> DEFINE links == net[n].links
           L == DOMAIN links \ {n}
           N == LS!Cardinality(Nodes)
           start == [added |-> {n}, metric |-> LS!With(links, n, 0),
                     nh |-> LS!With([d \in DOMAIN links |-> {d}], n, {})]
           tree[i \in 0 .. N] == IF i = 0 THEN start ELSE LS!Follow(tree[i - 1], net)
           all == tree[N]
           result == [d \in Nodes |-> IF d \in DOMAIN all.metric \ {n}
                                      THEN [metric |-> all.metric[d], nh |-> all.nh[d]]
                                      ELSE LS!Unreached]
<1>1. LS!ConstructTree(n, net) = result
  BY DEF LS!ConstructTree
<1>2. N \in Nat
  <2>1. LS!Cardinality(Nodes) = Cardinality(Nodes)
    BY DEF LS!Cardinality, Cardinality
  <2>2. Cardinality(Nodes) \in Nat
    BY EndsOfLinks, FS_CardinalityType
  <2> QED BY <2>1, <2>2
<1>3. links \in Ways
  BY DEF LinkState
<1>4. links = Ones(DOMAIN links) /\ DOMAIN links \subseteq Nodes
  BY <1>3, WaysChanged
<1>5. TreeOK(n, L, start)
  <2> HIDE DEF links
  <2>1. \A d \in DOMAIN links : links[d] = 1
    BY <1>4 DEF Ones
  <2>2. /\ start.added = {n}
        /\ DOMAIN start.metric = DOMAIN links \cup {n}
        /\ DOMAIN start.nh = DOMAIN links \cup {n}
        /\ \A d \in DOMAIN links \cup {n} :
              /\ start.metric[d] = IF d = n THEN 0 ELSE links[d]
              /\ start.nh[d] = IF d = n THEN {} ELSE {d}
    BY DEF LS!With
  <2> HIDE DEF start
  <2>3. \A d \in DOMAIN links \cup {n} :
          start.metric[d] \in Nat /\ start.nh[d] \subseteq L /\ (d # n => start.metric[d] >= 1)
    <3>1. ASSUME NEW d \in DOMAIN links \cup {n}
          PROVE  start.metric[d] \in Nat /\ start.nh[d] \subseteq L
                 /\ (d # n => start.metric[d] >= 1)
      <4>1. CASE d = n
        BY <2>2, <4>1
      <4>2. CASE d # n
        <5>1. d \in DOMAIN links /\ d \in Nodes /\ d \in L
          BY <1>4, <4>2 DEF links
        <5>2. start.metric[d] = links[d] /\ start.nh[d] = {d}
          BY <2>2, <4>2
        <5> QED BY <2>1, <5>1, <5>2
      <4> QED BY <4>1, <4>2
    <3> QED BY <3>1
  <2>4. ASSUME NEW m \in L
        PROVE  m \in DOMAIN start.metric /\ start.metric[m] = 1 /\ start.nh[m] = {m}
    <3>1. m \in DOMAIN links /\ m # n /\ m \in DOMAIN links \cup {n}
      OBVIOUS
    <3>2. start.metric[m] = links[m] /\ start.nh[m] = {m} /\ m \in DOMAIN start.metric
      BY <2>2, <3>1
    <3> QED BY <2>1, <3>1, <3>2
  <2> QED BY <1>4, <2>2, <2>3, <2>4 DEF TreeOK
<1> HIDE DEF start, links
<1>6. Grown(start, net, N, tree)
  <2> HIDE DEF N
  <2>1. \E f : f = [i \in 0 .. N |-> IF i = 0 THEN start ELSE LS!Follow(f[i - 1], net)]
    <3>1. PICK f : Grown(start, net, N, f)
      BY <1>2, TreeGrows
    <3> QED BY <3>1 DEF Grown
  <2> QED BY <2>1 DEF Grown
<1> HIDE DEF tree, N
<1>7. ASSUME {i \in 0 .. N : ~TreeOK(n, L, tree[i])} # {}
      PROVE  FALSE
  <2> DEFINE Bad == {i \in 0 .. N : ~TreeOK(n, L, tree[i])}
  <2>1. Bad \in SUBSET Nat
    OBVIOUS
  <2>2. PICK k \in Bad : \A j \in Bad : k <= j
    BY <1>7, <2>1, FirstIsLeast
  <2>3. k \in 0 .. N /\ ~TreeOK(n, L, tree[k])
    OBVIOUS
  <2>4. tree[k] = IF k = 0 THEN start ELSE LS!Follow(tree[k - 1], net)
    BY <1>6, <2>3 DEF Grown
  <2>5. k # 0
    BY <1>5, <2>3, <2>4
  <2>6. k - 1 \in 0 .. N /\ k - 1 \notin Bad
    BY <1>2, <2>2, <2>3, <2>5
  <2>7. TreeOK(n, L, tree[k - 1])
    BY <2>6
  <2> QED BY <2>3, <2>4, <2>5, <2>7, Follows
<1>8. TreeOK(n, L, all)
  <2>1. N \in 0 .. N
    BY <1>2
  <2> QED BY <1>7, <2>1
<1>9. /\ DOMAIN all.metric \subseteq Nodes
      /\ \A d \in DOMAIN all.metric : all.metric[d] \in Nat /\ all.nh[d] \subseteq L
      /\ \A m \in L : m \in DOMAIN all.metric /\ all.nh[m] = {m}
  BY <1>8 DEF TreeOK
<1> HIDE DEF all
<1>10. LS!Unreached \in TreeEntry
  BY DEF LS!Unreached, TreeEntry
<1>11. \A d \in DOMAIN all.metric : [metric |-> all.metric[d], nh |-> all.nh[d]] \in TreeEntry
  <2>1. L \subseteq Nodes
    BY <1>4 DEF L
  <2> HIDE DEF L
  <2> QED BY <1>9, <2>1 DEF TreeEntry
<1>12. result \in [Nodes -> TreeEntry]
  BY <1>10, <1>11
<1>13. /\ \A m \in L : result[m].nh = {m}
       /\ \A d \in Nodes : result[d].nh \subseteq L
  BY <1>9 DEF LS!Unreached
<1> HIDE DEF result
<1> QED BY <1>1, <1>12, <1>13 DEF TreeOf, links

-----------------------------------------------------------------------------
(* What the generator makes of it.                                           *)

LSReady(n, s) ==
    /\ DOMAIN s = SNames /\ PortsOf(n, s)
    /\ s.fwd \in [Nodes -> LinksOf(n) \cup {NoPort}]
    /\ DOMAIN s.routing = LSNames /\ s.routing.me = n
    /\ s.routing.neig = [m \in Adjacent(s) |-> 1]
    /\ s.routing.netState \in [Nodes -> LinkState] /\ s.routing.secId \in Nat
    /\ s.routing.lastChanges \subseteq Nodes /\ s.routing.table \in [Nodes -> TreeEntry]
    /\ Timed(s.routing)

\* The tree is that of the link states, and what has changed is forwarded by it.
Rerouted(n, s, t) ==
    /\ TreeOf(n, DOMAIN t.routing.netState[n].links \ {n}, t.routing.table)
    /\ \A d \in Nodes : t.fwd[d] = IF t.routing.table[d] # s.routing.table[d]
                                   THEN PortOf(t, t.routing.table[d].nh) ELSE s.fwd[d]

LSTold(n, s, t) ==
    /\ t.neighbours = s.neighbours
    /\ t.routing.netState = s.routing.netState /\ t.routing.secId = s.routing.secId
    /\ t.routing.lastChanges = s.routing.lastChanges
    /\ t.routing.scheduledUpdate = s.routing.scheduledUpdate
    /\ t.routing.timer = s.routing.timer
    /\ Rerouted(n, s, t)

LEMMA LSUpdated ==
    ASSUME ~IsDV, NEW n \in Nodes, NEW s, LSReady(n, s)
    PROVE  IPCP(n, RoutingUpdated(s)) /\ LSTold(n, s, RoutingUpdated(s))
<1> DEFINE r == s.routing
           tree == LS!ConstructTree(r.me, r.netState)
           changes == [d \in {d \in Nodes : tree[d] # r.table[d]} |-> tree[d].nh]
           g == [r EXCEPT !.table = tree, !.changes = changes]
           q == [g EXCEPT !.changes = <<>>]
           fwd == Entries(s, changes)
           t == RoutingUpdated(s)
<1>1. /\ DOMAIN s = SNames /\ PortsOf(n, s)
      /\ s.fwd \in [Nodes -> LinksOf(n) \cup {NoPort}]
      /\ DOMAIN r = LSNames /\ r.me = n
      /\ r.neig = [m \in Adjacent(s) |-> 1]
      /\ r.netState \in [Nodes -> LinkState] /\ r.secId \in Nat
      /\ r.lastChanges \subseteq Nodes /\ r.table \in [Nodes -> TreeEntry]
      /\ Timed(r)
  BY DEF LSReady
<1> DEFINE u == [s EXCEPT !.routing = [g EXCEPT !.changes = <<>>],
                          !.fwd = [d \in Nodes |-> IF d \in DOMAIN g.changes
                                                   THEN PortOf(s, g.changes[d]) ELSE @[d]]]
<1>2. t = u
  BY DEF RoutingUpdated, LS!GetChanges
<1> HIDE DEF t, r
<1>3. TreeOf(n, DOMAIN r.netState[n].links \ {n}, tree)
  BY <1>1, Tree
<1> HIDE DEF tree
<1>4. /\ DOMAIN changes = {d \in Nodes : tree[d] # r.table[d]}
      /\ \A d \in DOMAIN changes : changes[d] = tree[d].nh /\ tree[d].nh \subseteq Nodes
  BY <1>3 DEF TreeOf, TreeEntry
<1> HIDE DEF changes
<1>5. /\ DOMAIN g = LSNames /\ g.me = n /\ g.neig = r.neig /\ g.netState = r.netState
      /\ g.secId = r.secId /\ g.lastChanges = r.lastChanges
      /\ g.table = tree /\ g.changes = changes
      /\ g.scheduledUpdate = r.scheduledUpdate /\ g.timer = r.timer
  BY <1>1 DEF LSNames
<1>6. u = [s EXCEPT !.routing = q, !.fwd = fwd]
  BY <1>5 DEF Entries
<1> HIDE DEF g, u
<1>7. /\ DOMAIN q = LSNames /\ q.me = n /\ q.neig = r.neig /\ q.netState = r.netState
      /\ q.secId = r.secId /\ q.lastChanges = r.lastChanges
      /\ q.table = tree /\ q.changes = <<>>
      /\ q.scheduledUpdate = r.scheduledUpdate /\ q.timer = r.timer
  BY <1>5 DEF LSNames
<1>8. fwd \in [Nodes -> LinksOf(n) \cup {NoPort}]
  BY <1>1, <1>4, Forwards
<1> HIDE DEF q, fwd
<1>9. DOMAIN t = SNames /\ t.routing = q /\ t.fwd = fwd /\ t.neighbours = s.neighbours
  BY <1>1, <1>2, <1>6 DEF SNames
<1>10. /\ PortsOf(n, t) /\ Adjacent(t) = Adjacent(s)
       /\ \A nh : PortOf(t, nh) = PortOf(s, nh)
  BY <1>1, <1>9, SamePorts
<1>11. Timed(q)
  BY <1>1, <1>7 DEF Timed
<1>12. tree \in [Nodes -> TreeEntry]
  BY <1>3 DEF TreeOf
<1>13. LSFits(n, Adjacent(t), q)
  BY <1>1, <1>7, <1>10, <1>11, <1>12 DEF LSFits
<1>14. IPCP(n, t)
  BY <1>8, <1>9, <1>10, <1>13 DEF IPCP
<1>15. ASSUME NEW d \in Nodes
       PROVE  t.fwd[d] = IF tree[d] # r.table[d] THEN PortOf(t, tree[d].nh) ELSE s.fwd[d]
  BY <1>4, <1>9, <1>10 DEF fwd, Entries
<1>16. Rerouted(n, s, t)
  BY <1>3, <1>7, <1>9, <1>15 DEF Rerouted, r
<1>17. LSTold(n, s, t)
  BY <1>7, <1>9, <1>16 DEF LSTold, r
<1> QED BY <1>14, <1>17 DEF t

\* A neighbor more, or one less: the links of the IPCP have changed.
LSRelinked(n, s, links, t) ==
    /\ t.routing.netState = [s.routing.netState EXCEPT
                                ![n] = [sId |-> s.routing.secId + 1, links |-> links]]
    /\ t.routing.secId = s.routing.secId + 1
    /\ t.routing.lastChanges = s.routing.lastChanges \cup {n}
    /\ Scheduled(s.routing, t.routing)
    /\ Rerouted(n, s, t)

LSInserts(n, s, m, t) ==
    /\ s.neighbours[m] # {} => t.routing = s.routing /\ t.fwd = s.fwd
    /\ s.neighbours[m] = {} =>
          LSRelinked(n, s, LS!With(s.routing.netState[n].links, m, 1), t)

LSRemoves(n, s, m, t) ==
    /\ t.neighbours[m] # {} => t.routing = s.routing /\ t.fwd = s.fwd
    /\ t.neighbours[m] = {} =>
          LSRelinked(n, s, LS!Without(s.routing.netState[n].links, m), t)

\* How the change of the links reaches the generator.
LEMMA LSLinks ==
    ASSUME ~IsDV, NEW n \in Nodes, NEW s, IPCP(n, s), NEW p, DOMAIN p = SNames, PortsOf(n, p),
           p.fwd = s.fwd, p.routing = s.routing, NEW links \in Ways,
           NEW neig, neig = [x \in Adjacent(p) |-> 1],
           NEW q, q = [p EXCEPT !.routing = LS!ChangeLinks(p.routing, neig, links)]
    PROVE  /\ IPCP(n, RoutingUpdated(q)) /\ RoutingUpdated(q).neighbours = p.neighbours
           /\ LSRelinked(n, s, links, RoutingUpdated(q))
<1> DEFINE r == LS!ChangeLinks(p.routing, neig, links)
           new == [sId |-> s.routing.secId + 1, links |-> links]
<1>1. /\ LSFits(n, Adjacent(s), s.routing)
      /\ s.fwd \in [Nodes -> LinksOf(n) \cup {NoPort}]
  BY DEF IPCP
<1>2. LSChanged(n, s.routing, neig, links, r)
  BY <1>1, LSChange
<1> HIDE DEF r
<1>3. /\ DOMAIN r = LSNames /\ r.me = n /\ r.neig = neig
      /\ r.netState = [s.routing.netState EXCEPT ![n] = new]
      /\ r.secId = s.routing.secId + 1 /\ r.lastChanges = s.routing.lastChanges \cup {n}
      /\ r.table = s.routing.table /\ Scheduled(s.routing, r) /\ Timed(r)
  BY <1>2, Zenon DEF LSChanged
<1>4. /\ s.routing.netState \in [Nodes -> LinkState] /\ s.routing.secId \in Nat
      /\ s.routing.lastChanges \subseteq Nodes /\ s.routing.table \in [Nodes -> TreeEntry]
  BY <1>1 DEF LSFits
<1>5. DOMAIN q = SNames /\ q.routing = r /\ q.neighbours = p.neighbours /\ q.fwd = p.fwd
  BY WithRouting DEF r
<1> HIDE DEF new
<1>6. r.netState \in [Nodes -> LinkState]
  <2>1. new \in LinkState
    BY <1>4 DEF new, LinkState
  <2> QED BY <1>3, <1>4, <2>1
<1>7. PortsOf(n, q) /\ Adjacent(q) = Adjacent(p)
  BY <1>5, SamePorts
<1>8. q.routing.neig = [m \in Adjacent(q) |-> 1]
  BY <1>3, <1>5, <1>7
<1>9. LSReady(n, q)
  BY <1>1, <1>3, <1>4, <1>5, <1>6, <1>7, <1>8 DEF LSReady
<1> DEFINE t == RoutingUpdated(q)
<1>10. IPCP(n, t) /\ LSTold(n, q, t)
  BY <1>9, LSUpdated
<1> HIDE DEF t
<1>11. /\ t.neighbours = p.neighbours
       /\ t.routing.netState = r.netState /\ t.routing.secId = r.secId
       /\ t.routing.lastChanges = r.lastChanges
       /\ t.routing.scheduledUpdate = r.scheduledUpdate /\ t.routing.timer = r.timer
       /\ Rerouted(n, q, t)
  BY <1>5, <1>10 DEF LSTold
<1>12. Scheduled(s.routing, t.routing)
  BY <1>3, <1>11, Zenon DEF Scheduled
<1>13. Rerouted(n, s, t)
  BY <1>3, <1>5, <1>11 DEF Rerouted
<1> QED BY <1>3, <1>10, <1>11, <1>12, <1>13 DEF LSRelinked, t, new

LEMMA LSInserted ==
    ASSUME ~IsDV, NEW n \in Nodes, NEW s, IPCP(n, s), NEW l \in LinksOf(n),
           NEW m, m = NextTo(n, l), l \notin s.neighbours[m],
           NEW t, t = InsertedFlow(s, m, l)
    PROVE  Inserts(n, s, m, l, t) /\ LSInserts(n, s, m, t)
<1> DEFINE p == [s EXCEPT !.neighbours[m] = @ \cup {l}]
<1>1. /\ DOMAIN s = SNames /\ PortsOf(n, s) /\ LSFits(n, Adjacent(s), s.routing)
      /\ s.fwd \in [Nodes -> LinksOf(n) \cup {NoPort}] /\ m \in Nodes
  BY EndsOfLinks DEF IPCP
<1>2. /\ DOMAIN p = SNames /\ p.neighbours = MorePort(s.neighbours, m, l)
      /\ p.routing = s.routing /\ p.fwd = s.fwd
  BY <1>1, WithPorts DEF MorePort
<1>3. /\ Cardinality(p.neighbours[m]) # 1 => t = p
      /\ Cardinality(p.neighbours[m]) = 1 =>
            t = RoutingUpdated([p EXCEPT !.routing = LS!InsertFlow(@, m, 1)])
  BY DEF InsertedFlow
<1> HIDE DEF p
<1>4. /\ PortsOf(n, p) /\ Adjacent(p) = Adjacent(s) \cup {m}
      /\ p.neighbours[m] = s.neighbours[m] \cup {l}
      /\ \A x \in Nodes \ {m} : p.neighbours[x] = s.neighbours[x]
  BY <1>1, <1>2, MorePorts
<1>5. Cardinality(p.neighbours[m]) = 1 <=> s.neighbours[m] = {}
  BY <1>1, <1>4, PortCount
<1>6. CASE s.neighbours[m] # {}
  <2>1. Adjacent(p) = Adjacent(s)
    BY <1>1, <1>4, <1>6 DEF Adjacent
  <2>2. t = p
    BY <1>3, <1>5, <1>6
  <2>3. IPCP(n, p)
    BY <1>1, <1>2, <1>4, <2>1 DEF IPCP
  <2> QED BY <1>2, <1>4, <1>6, <2>1, <2>2, <2>3 DEF Inserts, LSInserts
<1>7. CASE s.neighbours[m] = {}
  <2> DEFINE neig == LS!With(p.routing.neig, m, 1)
             links == LS!With(p.routing.netState[p.routing.me].links, m, 1)
             q == [p EXCEPT !.routing = LS!ChangeLinks(p.routing, neig, links)]
  <2>1. t = RoutingUpdated(q)
    BY <1>3, <1>5, <1>7, Zenon DEF LS!InsertFlow
  <2>2. /\ p.routing.me = n /\ p.routing.neig = Ones(Adjacent(s))
        /\ s.routing.netState[n].links \in Ways
    BY <1>1, <1>2 DEF LSFits, Ones, LinkState
  <2>3. links = LS!With(s.routing.netState[n].links, m, 1) /\ links \in Ways
    <3>1. links = LS!With(s.routing.netState[n].links, m, 1)
      BY <1>2, <2>2, Zenon
    <3> HIDE DEF links
    <3>2. LS!With(s.routing.netState[n].links, m, 1) \in Ways
      BY <1>1, <2>2, WaysChanged
    <3> QED BY <3>1, <3>2
  <2>4. neig = [x \in Adjacent(p) |-> 1]
    <3>1. neig = LS!With(Ones(Adjacent(s)), m, 1)
      BY <2>2
    <3> HIDE DEF neig
    <3>2. neig = Ones(Adjacent(s) \cup {m})
      BY <3>1, WaysChanged, Zenon
    <3> QED BY <1>4, <3>2 DEF Ones
  <2> HIDE DEF neig, links
  <2>5. /\ IPCP(n, RoutingUpdated(q)) /\ RoutingUpdated(q).neighbours = p.neighbours
        /\ LSRelinked(n, s, links, RoutingUpdated(q))
    BY <1>2, <1>4, <2>3, <2>4, LSLinks
  <2> HIDE DEF q
  <2>6. IPCP(n, t) /\ t.neighbours = p.neighbours /\ LSRelinked(n, s, links, t)
    BY <2>1, <2>5
  <2>7. Adjacent(t) = Adjacent(p)
    BY <2>6, SamePorts
  <2> QED BY <1>4, <1>7, <2>3, <2>6, <2>7 DEF Inserts, LSInserts
<1> QED BY <1>6, <1>7

LEMMA LSRemoved ==
    ASSUME ~IsDV, NEW n \in Nodes, NEW s, IPCP(n, s), NEW m \in Nodes, NEW l,
           NEW t, t = RemovedFlow(s, m, l)
    PROVE  Removes(n, s, m, l, t) /\ LSRemoves(n, s, m, t)
<1> DEFINE p == [s EXCEPT !.neighbours[m] = @ \ {l}]
<1>1. /\ DOMAIN s = SNames /\ PortsOf(n, s) /\ LSFits(n, Adjacent(s), s.routing)
      /\ s.fwd \in [Nodes -> LinksOf(n) \cup {NoPort}]
  BY DEF IPCP
<1>2. /\ DOMAIN p = SNames /\ p.neighbours = FewerPort(s.neighbours, m, l)
      /\ p.routing = s.routing /\ p.fwd = s.fwd
  BY <1>1, WithPorts DEF FewerPort
<1>3. /\ p.neighbours[m] # {} => t = p
      /\ p.neighbours[m] = {} =>
            t = RoutingUpdated([p EXCEPT !.routing = LS!RemoveFlow(@, m)])
  BY DEF RemovedFlow
<1> HIDE DEF p
<1>4. /\ FewerPortsIn(n, s, m, l, p) /\ PortsOf(n, p)
      /\ p.neighbours[m] # {} => Adjacent(p) = Adjacent(s)
      /\ p.neighbours[m] = {} => Adjacent(p) = Adjacent(s) \ {m}
  <2>1. PortsOf(n, s) /\ p.neighbours = FewerPort(s.neighbours, m, l)
    BY <1>1, <1>2
  <2>2. FewerPortsIn(n, s, m, l, p)
    BY <2>1, FewerPorts
  <2> QED BY <2>2, Zenon DEF FewerPortsIn
<1>7. ASSUME t.neighbours = p.neighbours
      PROVE  FewerPortsIn(n, s, m, l, t)
  BY <1>4, <1>7, SamePorts DEF FewerPortsIn
<1>5. CASE p.neighbours[m] # {}
  <2>1. t = p
    BY <1>3, <1>5
  <2>2. IPCP(n, p)
    BY <1>1, <1>2, <1>4, <1>5 DEF IPCP
  <2> QED BY <1>2, <1>5, <1>7, <2>1, <2>2 DEF Removes, LSRemoves
<1>6. CASE p.neighbours[m] = {}
  <2> DEFINE neig == LS!Without(p.routing.neig, m)
             links == LS!Without(p.routing.netState[p.routing.me].links, m)
             q == [p EXCEPT !.routing = LS!ChangeLinks(p.routing, neig, links)]
  <2>1. t = RoutingUpdated(q)
    BY <1>3, <1>6 DEF LS!RemoveFlow
  <2>2. /\ p.routing.me = n /\ p.routing.neig = Ones(Adjacent(s))
        /\ s.routing.netState[n].links \in Ways
    BY <1>1, <1>2 DEF LSFits, Ones, LinkState
  <2>3. links = LS!Without(s.routing.netState[n].links, m) /\ links \in Ways
    <3>1. links = LS!Without(s.routing.netState[n].links, m)
      BY <1>2, <2>2, Zenon
    <3> HIDE DEF links
    <3>2. LS!Without(s.routing.netState[n].links, m) \in Ways
      BY <1>1, <2>2, WaysChanged
    <3> QED BY <3>1, <3>2
  <2>4. neig = [x \in Adjacent(p) |-> 1]
    <3>1. neig = Ones(Adjacent(s) \ {m})
      BY <2>2, WaysChanged
    <3> QED BY <1>4, <1>6, <3>1 DEF Ones
  <2> HIDE DEF neig, links
  <2>5. /\ IPCP(n, RoutingUpdated(q)) /\ RoutingUpdated(q).neighbours = p.neighbours
        /\ LSRelinked(n, s, links, RoutingUpdated(q))
    BY <1>2, <1>4, <2>3, <2>4, LSLinks
  <2> HIDE DEF q
  <2>6. IPCP(n, t) /\ t.neighbours = p.neighbours /\ LSRelinked(n, s, links, t)
    BY <2>1, <2>5
  <2> QED BY <1>6, <1>7, <2>3, <2>6 DEF Removes, LSRemoves
<1> QED BY <1>5, <1>6

LSReceives(n, s, up, t) ==
    /\ t.routing.netState = Merged(s.routing.netState, up)
    /\ t.routing.secId = s.routing.secId
    /\ t.routing.lastChanges = s.routing.lastChanges \cup Newer(s.routing.netState, up)
    /\ t.routing.lastChanges # {} => Scheduled(s.routing, t.routing) /\ Rerouted(n, s, t)
    /\ t.routing.lastChanges = {} =>
          /\ t.routing.scheduledUpdate = s.routing.scheduledUpdate
          /\ t.routing.timer = s.routing.timer
          /\ t.routing.table = s.routing.table /\ t.fwd = s.fwd

LSUpdate == UNION {[D -> LinkState] : D \in SUBSET Nodes}

LEMMA LSUpdateType ==
    ASSUME NEW up \in LSUpdate
    PROVE  DOMAIN up \subseteq Nodes /\ \A k \in DOMAIN up : up[k] \in LinkState
BY DEF LSUpdate

LEMMA LSReceived ==
    ASSUME ~IsDV, NEW n \in Nodes, NEW s, IPCP(n, s), NEW up \in LSUpdate,
           NEW t, t = ReceiveUpdate(s, up)
    PROVE  IPCP(n, t) /\ t.neighbours = s.neighbours /\ LSReceives(n, s, up, t)
<1> DEFINE r == LS!ProcessUpdate(s.routing, up)
           q == [s EXCEPT !.routing = r]
<1>1. t = IF r.lastChanges # {} THEN RoutingUpdated(q) ELSE q
  BY DEF ReceiveUpdate, LS!IsUpdated
<1>2. /\ DOMAIN s = SNames /\ PortsOf(n, s) /\ LSFits(n, Adjacent(s), s.routing)
      /\ s.fwd \in [Nodes -> LinksOf(n) \cup {NoPort}]
  BY DEF IPCP
<1>3. LSProcessed(n, s.routing, up, r)
  BY <1>2, LSProcess
<1> HIDE DEF r
<1>4. /\ DOMAIN r = LSNames /\ r.me = n /\ r.neig = s.routing.neig
      /\ r.secId = s.routing.secId
      /\ r.netState = Merged(s.routing.netState, up)
      /\ r.lastChanges = s.routing.lastChanges \cup Newer(s.routing.netState, up)
      /\ r.table = s.routing.table /\ r.changes = s.routing.changes
      /\ r.lastChanges # {} => Scheduled(s.routing, r)
      /\ r.lastChanges = {} => /\ r.scheduledUpdate = s.routing.scheduledUpdate
                               /\ r.timer = s.routing.timer
      /\ Timed(r)
  BY <1>3, Zenon DEF LSProcessed
<1>5. /\ s.routing.netState \in [Nodes -> LinkState] /\ s.routing.secId \in Nat
      /\ s.routing.lastChanges \subseteq Nodes /\ s.routing.table \in [Nodes -> TreeEntry]
      /\ s.routing.neig = [x \in Adjacent(s) |-> 1] /\ s.routing.changes = <<>>
  BY <1>2 DEF LSFits
<1>6. Newer(s.routing.netState, up) \subseteq Nodes
  BY LSUpdateType DEF Newer
<1>7. r.netState \in [Nodes -> LinkState]
  <2>1. ASSUME NEW k \in Newer(s.routing.netState, up)
        PROVE  up[k] \in LinkState
    BY LSUpdateType DEF Newer
  <2> QED BY <1>4, <1>5, <2>1 DEF Merged
<1>8. DOMAIN q = SNames /\ q.routing = r /\ q.neighbours = s.neighbours /\ q.fwd = s.fwd
  BY <1>2, WithRouting
<1> HIDE DEF q
<1>9. PortsOf(n, q) /\ Adjacent(q) = Adjacent(s)
  BY <1>2, <1>8, SamePorts
<1>10. q.routing.neig = [m \in Adjacent(q) |-> 1]
  BY <1>4, <1>5, <1>8, <1>9
<1>11. CASE r.lastChanges # {}
  <2>1. LSReady(n, q)
    BY <1>2, <1>4, <1>5, <1>6, <1>7, <1>8, <1>9, <1>10 DEF LSReady
  <2>2. t = RoutingUpdated(q)
    BY <1>1, <1>11
  <2>3. IPCP(n, t) /\ LSTold(n, q, t)
    BY <2>1, <2>2, LSUpdated
  <2>4. /\ t.neighbours = s.neighbours
        /\ t.routing.netState = r.netState /\ t.routing.secId = r.secId
        /\ t.routing.lastChanges = r.lastChanges
        /\ t.routing.scheduledUpdate = r.scheduledUpdate /\ t.routing.timer = r.timer
        /\ Rerouted(n, q, t)
    BY <1>8, <2>3 DEF LSTold
  <2>5. Scheduled(s.routing, t.routing)
    BY <1>4, <1>11, <2>4, Zenon DEF Scheduled
  <2>6. Rerouted(n, s, t)
    BY <1>4, <1>8, <2>4 DEF Rerouted
  <2> QED BY <1>4, <1>11, <2>3, <2>4, <2>5, <2>6, Zenon DEF LSReceives
<1>12. CASE r.lastChanges = {}
  <2>1. t = q
    BY <1>1, <1>12
  <2>2. LSFits(n, Adjacent(q), r)
    BY <1>4, <1>5, <1>6, <1>7, <1>8, <1>9, <1>10 DEF LSFits
  <2>3. IPCP(n, q)
    BY <1>2, <1>8, <1>9, <2>2 DEF IPCP
  <2>4. LSReceives(n, s, up, q)
    BY <1>4, <1>8, <1>12, Zenon DEF LSReceives
  <2> QED BY <1>8, <2>1, <2>3, <2>4
<1> QED BY <1>11, <1>12

LSSends(s, t) ==
    /\ t.routing.netState = s.routing.netState /\ t.routing.secId = s.routing.secId
    /\ t.routing.lastChanges = {} /\ t.routing.scheduledUpdate = FALSE
    /\ t.routing.neig = s.routing.neig
    /\ t.routing.table = s.routing.table /\ t.fwd = s.fwd

LEMMA LSSent ==
    ASSUME ~IsDV, NEW n, NEW s, IPCP(n, s),
           NEW t, t = [s EXCEPT !.routing = LS!AfterUpdate(@)]
    PROVE  IPCP(n, t) /\ t.neighbours = s.neighbours /\ LSSends(s, t)
<1>1. /\ DOMAIN s = SNames /\ PortsOf(n, s) /\ LSFits(n, Adjacent(s), s.routing)
      /\ s.fwd \in [Nodes -> LinksOf(n) \cup {NoPort}]
  BY DEF IPCP
<1>2. /\ DOMAIN t = SNames /\ t.routing = LS!AfterUpdate(s.routing)
      /\ t.neighbours = s.neighbours /\ t.fwd = s.fwd
  BY <1>1, WithRouting
<1>3. /\ LSFits(n, Adjacent(s), t.routing) /\ t.routing.table = s.routing.table
      /\ t.routing.netState = s.routing.netState /\ t.routing.secId = s.routing.secId
      /\ t.routing.lastChanges = {} /\ t.routing.scheduledUpdate = FALSE
      /\ t.routing.neig = s.routing.neig
  <2>1. LSAfter(n, Adjacent(s), s.routing, t.routing)
    BY <1>1, <1>2, LSAfterUpdate
  <2> QED BY <2>1, Zenon DEF LSAfter
<1>4. PortsOf(n, t) /\ Adjacent(t) = Adjacent(s)
  BY <1>1, <1>2, SamePorts
<1> QED BY <1>1, <1>2, <1>3, <1>4 DEF IPCP, LSSends

-----------------------------------------------------------------------------
(* What a step does to the IPCP that takes it.                               *)

LEMMA UpdateOf ==
    /\ IsDV => Update = DV!Updates
    /\ ~IsDV => Update = LSUpdate
BY DEF Update, LSUpdate

\* No route goes to a neighbor that is not there, and that to one that is, directly.
DirectOnly(s) ==
    \A m \in Nodes : s.neighbours[m] # {} <=> s.routing.table[m].addr = m

LEMMA Direction ==
    ASSUME PInv, DVInv, IsDV, NEW n \in Nodes
    PROVE  DirectOnly(node[n])
<1> DEFINE s == node[n]
<1>1. Direct(n, s) /\ \A d \in Nodes : Forwarded(n, s, d)
  BY DEF DVInv
<1> HIDE DEF s
<1>2. ASSUME NEW m \in Nodes
      PROVE  s.neighbours[m] # {} <=> s.routing.table[m].addr = m
  <2>1. ASSUME s.neighbours[m] # {}
        PROVE  s.routing.table[m].addr = m
    <3>1. s.routing.table[m] = [addr |-> m, metric |-> 1]
      BY <1>1, <2>1 DEF Direct, Adjacent
    <3> QED BY <3>1
  <2>2. ASSUME s.routing.table[m].addr = m
        PROVE  s.neighbours[m] # {}
    BY <1>1, <2>2, EndsOfLinks DEF Forwarded
  <2> QED BY <2>1, <2>2
<1> QED BY <1>2 DEF DirectOnly, s

OthersStay(n) == DOMAIN node' = Nodes /\ \A x \in Nodes \ {n} : node'[x] = node[x]

Gains(n, m, l) ==
    /\ Inserts(n, node[n], m, l, node'[n])
    /\ IsDV => DVInserts(node[n], m, l, node'[n])
    /\ ~IsDV => LSInserts(n, node[n], m, node'[n])
    /\ OthersStay(n)

Loses(n, m, l) ==
    /\ Removes(n, node[n], m, l, node'[n])
    /\ IsDV => DVRemoves(node[n], m, node'[n])
    /\ ~IsDV => LSRemoves(n, node[n], m, node'[n])
    /\ OthersStay(n)

Takes(n, up) ==
    /\ IPCP(n, node'[n]) /\ node'[n].neighbours = node[n].neighbours
    /\ IsDV => \A d \in Nodes : DVTook(n, node[n], up, node'[n], d)
    /\ ~IsDV => LSReceives(n, node[n], up, node'[n])
    /\ OthersStay(n)

Says(n) ==
    /\ IPCP(n, node'[n]) /\ node'[n].neighbours = node[n].neighbours
    /\ IsDV => DVSends(node[n], node'[n])
    /\ ~IsDV => LSSends(node[n], node'[n])
    /\ OthersStay(n)

LEMMA Becoming ==
    ASSUME Typed, NEW n \in Nodes, NEW t, Becomes(n, t)
    PROVE  OthersStay(n) /\ node'[n] = t /\ IPCP(n, node[n])
<1>1. DOMAIN node = Nodes /\ IPCP(n, node[n])
  BY DEF Typed
<1>2. node' = [node EXCEPT ![n] = t]
  BY DEF Becomes
<1> QED BY <1>1, <1>2 DEF OthersStay

LEMMA Gained1 ==
    ASSUME PInv, DVInv, NEW n \in Nodes, NEW l \in LinksOf(n), NEW m, m = NextTo(n, l),
           ~HasPort(n, l), Becomes(n, InsertedFlow(node[n], m, l))
    PROVE  Gains(n, m, l)
<1> DEFINE s == node[n]
           t == InsertedFlow(s, m, l)
<1>1. OthersStay(n) /\ node'[n] = t /\ IPCP(n, s)
  BY Becoming DEF PInv
<1>2. l \notin s.neighbours[m] /\ m \in Nodes
  BY EndsOfLinks DEF HasPort
<1>3. IsDV => (s.neighbours[m] = {} => s.routing.table[m].addr # m)
  BY <1>2, Direction DEF DirectOnly
<1> HIDE DEF s, t
<1>4. CASE IsDV
  <2>1. Inserts(n, s, m, l, t) /\ DVInserts(s, m, l, t)
    BY <1>1, <1>2, <1>3, <1>4, DVInserted DEF t
  <2> QED BY <1>1, <1>4, <2>1 DEF Gains, s
<1>5. CASE ~IsDV
  <2>1. Inserts(n, s, m, l, t) /\ LSInserts(n, s, m, t)
    BY <1>1, <1>2, <1>5, LSInserted DEF t
  <2> QED BY <1>1, <1>5, <2>1 DEF Gains, s
<1> QED BY <1>4, <1>5

LEMMA Lost1 ==
    ASSUME PInv, DVInv, NEW n \in Nodes, NEW l \in LinksOf(n), NEW m, m = NextTo(n, l),
           HasPort(n, l), Becomes(n, RemovedFlow(node[n], m, l))
    PROVE  Loses(n, m, l)
<1> DEFINE s == node[n]
           t == RemovedFlow(s, m, l)
<1>1. OthersStay(n) /\ node'[n] = t /\ IPCP(n, s)
  BY Becoming DEF PInv
<1>2. l \in s.neighbours[m] /\ m \in Nodes
  BY EndsOfLinks DEF HasPort
<1>3. IsDV => s.routing.table[m].addr = m
  BY <1>2, Direction DEF DirectOnly
<1> HIDE DEF s, t
<1>4. CASE IsDV
  <2>1. Removes(n, s, m, l, t) /\ DVRemoves(s, m, t)
    BY <1>1, <1>2, <1>3, <1>4, DVRemoved DEF t
  <2> QED BY <1>1, <1>4, <2>1 DEF Loses, s
<1>5. CASE ~IsDV
  <2>1. Removes(n, s, m, l, t) /\ LSRemoves(n, s, m, t)
    BY <1>1, <1>2, <1>5, LSRemoved DEF t
  <2> QED BY <1>1, <1>5, <2>1 DEF Loses, s
<1> QED BY <1>4, <1>5

LEMMA Took1 ==
    ASSUME Typed, NEW n \in Nodes, NEW up \in Update, Becomes(n, ReceiveUpdate(node[n], up))
    PROVE  Takes(n, up)
<1> DEFINE s == node[n]
           t == ReceiveUpdate(s, up)
<1>1. OthersStay(n) /\ node'[n] = t /\ IPCP(n, s)
  BY Becoming
<1> HIDE DEF s, t
<1>2. CASE IsDV
  <2>1. up \in DV!Updates
    BY <1>2, UpdateOf
  <2>2. IPCP(n, t) /\ t.neighbours = s.neighbours /\ \A d \in Nodes : DVTook(n, s, up, t, d)
    BY <1>1, <1>2, <2>1, DVReceived DEF t
  <2> QED BY <1>1, <1>2, <2>2 DEF Takes, s
<1>3. CASE ~IsDV
  <2>1. up \in LSUpdate
    BY <1>3, UpdateOf
  <2>2. IPCP(n, t) /\ t.neighbours = s.neighbours /\ LSReceives(n, s, up, t)
    BY <1>1, <1>3, <2>1, LSReceived DEF t
  <2> QED BY <1>1, <1>3, <2>2 DEF Takes, s
<1> QED BY <1>2, <1>3

LEMMA Said1 ==
    ASSUME Typed, NEW n \in Nodes,
           Becomes(n, [node[n] EXCEPT !.routing = IF IsDV THEN DV!AfterUpdate(@)
                                                  ELSE LS!AfterUpdate(@)])
    PROVE  Says(n)
<1> DEFINE s == node[n]
           t == [s EXCEPT !.routing = IF IsDV THEN DV!AfterUpdate(@) ELSE LS!AfterUpdate(@)]
<1>1. OthersStay(n) /\ node'[n] = t /\ IPCP(n, s)
  BY Becoming
<1> HIDE DEF s
<1>2. CASE IsDV
  <2>1. t = [s EXCEPT !.routing = DV!AfterUpdate(@)]
    BY <1>2
  <2> HIDE DEF t
  <2>2. IPCP(n, t) /\ t.neighbours = s.neighbours /\ DVSends(s, t)
    BY <1>1, <1>2, <2>1, DVSent
  <2> QED BY <1>1, <1>2, <2>2 DEF Says, s
<1>3. CASE ~IsDV
  <2>1. t = [s EXCEPT !.routing = LS!AfterUpdate(@)]
    BY <1>3
  <2> HIDE DEF t
  <2>2. IPCP(n, t) /\ t.neighbours = s.neighbours /\ LSSends(s, t)
    BY <1>1, <1>3, <2>1, LSSent
  <2> QED BY <1>1, <1>3, <2>2 DEF Says, s
<1> QED BY <1>2, <1>3

-----------------------------------------------------------------------------
(* Types, ports and flows.                                                   *)

LEMMA CaseKept ==
    ASSUME case' = case
    PROVE  /\ IsDV' <=> IsDV
           /\ Update' = Update
           /\ \A n \in Nodes : IPCP(n, node[n])' <=> IPCP(n, node'[n])
<1>1. IsDV' <=> IsDV
  BY DEF IsDV
<1>2. Update' = Update
  BY <1>1 DEF Update
<1>3. ASSUME NEW n \in Nodes
      PROVE  IPCP(n, node[n])' <=> IPCP(n, node'[n])
  BY <1>1 DEF IPCP
<1> QED BY <1>1, <1>2, <1>3

\* The parts of the type that an action changes.
ChanType(c) ==
    /\ DOMAIN c = Links
    /\ \A l \in Links : c[l] \in [{Ends[l][1], Ends[l][2]} -> Seq(Update)]

LEMMA TypedStep ==
    ASSUME Typed, case' = case, NEW n \in Nodes, NEW t, Becomes(n, t), IPCP(n, node'[n]),
           phase' \in [Links -> {"none", "requested", "established", "released"}],
           ChanType(chan'), opens' \in [Links -> Nat],
           cut' \in BOOLEAN, aborted' \in BOOLEAN
    PROVE  Typed'
<1>1. OthersStay(n) /\ case \in Cases /\ \A x \in Nodes : IPCP(x, node[x])
  BY Becoming DEF Typed
<1>2. /\ IsDV' <=> IsDV
      /\ Update' = Update
      /\ \A x \in Nodes : IPCP(x, node[x])' <=> IPCP(x, node'[x])
  BY CaseKept
<1>3. ASSUME NEW x \in Nodes
      PROVE  IPCP(x, node'[x])
  <2>1. CASE x = n
    BY <2>1
  <2>2. CASE x # n
    <3>1. node'[x] = node[x]
      BY <1>1, <2>2 DEF OthersStay
    <3> QED BY <1>1, <3>1
  <2> QED BY <2>1, <2>2
<1>4. owed' \in [Nodes -> [Nodes -> SUBSET Nodes]]
  <2>1. owed \in [Nodes -> [Nodes -> SUBSET Nodes]]
    BY DEF Typed
  <2> DEFINE old == node[n].routing.netState
             changed == {k \in Nodes : t.routing.netState[k] # old[k]}
             row == [m \in Nodes |-> IF m \in DOMAIN t.routing.neig
                                     THEN owed[n][m] \cup changed ELSE {}]
  <2>2. owed' = owed \/ owed' = [owed EXCEPT ![n] = row]
    BY DEF Becomes
  <2>3. changed \subseteq Nodes
    OBVIOUS
  <2> HIDE DEF changed
  <2>4. row \in [Nodes -> SUBSET Nodes]
    BY <2>1, <2>3
  <2> HIDE DEF row
  <2> QED BY <2>1, <2>2, <2>4
<1>5. \A x \in Nodes : IPCP(x, node[x])'
  BY <1>2, <1>3
<1>6. /\ DOMAIN chan' = Links
      /\ \A l \in Links : chan'[l] \in [{Ends[l][1], Ends[l][2]} -> Seq(Update')]
  BY <1>2 DEF ChanType
<1> QED BY <1>1, <1>4, <1>5, <1>6 DEF Typed, OthersStay

LEMMA PortsGained ==
    ASSUME NEW n \in Nodes, NEW l \in LinksOf(n), NEW m, m = NextTo(n, l), Gains(n, m, l)
    PROVE  \A x \in Nodes, k \in Links :
              HasPort(x, k)' <=> HasPort(x, k) \/ (x = n /\ k = l)
<1>1. /\ node'[n].neighbours[m] = node[n].neighbours[m] \cup {l}
      /\ \A x \in Nodes \ {m} : node'[n].neighbours[x] = node[n].neighbours[x]
      /\ \A x \in Nodes \ {n} : node'[x] = node[x]
  BY DEF Gains, Inserts, OthersStay
<1>2. ASSUME NEW x \in Nodes, NEW k \in Links
      PROVE  HasPort(x, k)' <=> HasPort(x, k) \/ (x = n /\ k = l)
  <2>1. NextTo(x, k) \in Nodes
    BY EndsOfLinks DEF NextTo
  <2>2. k = l /\ x = n => NextTo(x, k) = m
    OBVIOUS
  <2>3. CASE x = n
    BY <1>1, <2>1, <2>2, <2>3 DEF HasPort
  <2>4. CASE x # n
    BY <1>1, <2>4 DEF HasPort
  <2> QED BY <2>3, <2>4
<1> QED BY <1>2

LEMMA PortsLost ==
    ASSUME NEW n \in Nodes, NEW l \in LinksOf(n), NEW m, m = NextTo(n, l), Loses(n, m, l)
    PROVE  \A x \in Nodes, k \in Links :
              HasPort(x, k)' <=> HasPort(x, k) /\ ~(x = n /\ k = l)
<1>1. /\ node'[n].neighbours[m] = node[n].neighbours[m] \ {l}
      /\ \A x \in Nodes \ {m} : node'[n].neighbours[x] = node[n].neighbours[x]
      /\ \A x \in Nodes \ {n} : node'[x] = node[x]
  BY DEF Loses, Removes, FewerPortsIn, OthersStay
<1>2. ASSUME NEW x \in Nodes, NEW k \in Links
      PROVE  HasPort(x, k)' <=> HasPort(x, k) /\ ~(x = n /\ k = l)
  <2>1. NextTo(x, k) \in Nodes
    BY EndsOfLinks DEF NextTo
  <2>2. k = l /\ x = n => NextTo(x, k) = m
    OBVIOUS
  <2>3. CASE x = n
    BY <1>1, <2>1, <2>2, <2>3 DEF HasPort
  <2>4. CASE x # n
    BY <1>1, <2>4 DEF HasPort
  <2> QED BY <2>3, <2>4
<1> QED BY <1>2

LEMMA PortsKept ==
    ASSUME NEW n \in Nodes, node'[n].neighbours = node[n].neighbours, OthersStay(n)
    PROVE  \A x \in Nodes, k \in Links : HasPort(x, k)' <=> HasPort(x, k)
<1>1. ASSUME NEW x \in Nodes, NEW k \in Links
      PROVE  HasPort(x, k)' <=> HasPort(x, k)
  <2>1. node'[x].neighbours = node[x].neighbours
    BY DEF OthersStay
  <2> QED BY <2>1 DEF HasPort
<1> QED BY <1>1

\* A flow whose ports, phase and count stay.
LEMMA PortsFitKept ==
    ASSUME NEW l \in Links, PortsFit(l), case' = case, phase'[l] = phase[l],
           opens'[l] = opens[l], cut => cut',
           HasPort(Ends[l][1], l)' <=> HasPort(Ends[l][1], l),
           HasPort(Ends[l][2], l)' <=> HasPort(Ends[l][2], l)
    PROVE  PortsFit(l)'
BY DEF PortsFit

-----------------------------------------------------------------------------
(* The actions.                                                              *)

LEMMA Creates ==
    ASSUME PInv, DVInv, NEW l \in Links, CreateNM1Flow(l), NEW n, n = Ends[l][1],
           NEW m, m = NextTo(n, l)
    PROVE  /\ n \in Nodes /\ l \in LinksOf(n) /\ m \in Nodes /\ m # n
           /\ ~HasPort(n, l) /\ l \in case.links
           /\ Gains(n, m, l) /\ PInv'
<1>1. n \in Nodes /\ l \in LinksOf(n) /\ m \in Nodes /\ m # n
  BY EndsOfLinks
<1>2. /\ l \in case.links /\ phase[l] = "none" /\ opens[l] < case.maxOpens
      /\ Becomes(n, InsertedFlow(node[n], m, l))
      /\ phase' = [phase EXCEPT ![l] = "requested"]
      /\ opens' = [opens EXCEPT ![l] = @ + 1]
      /\ UNCHANGED <<case, chan, cut, aborted>>
  BY DEF CreateNM1Flow
<1>3. /\ phase \in [Links -> {"none", "requested", "established", "released"}]
      /\ ChanType(chan) /\ opens \in [Links -> Nat]
      /\ cut \in BOOLEAN /\ aborted \in BOOLEAN /\ Typed
      /\ case \in Cases
  BY DEF PInv, Typed, ChanType
<1>4. ~HasPort(n, l) /\ ~HasPort(Ends[l][2], l)
  BY <1>2 DEF PInv, PortsFit
<1>5. Gains(n, m, l)
  BY <1>1, <1>2, <1>4, Gained1
<1>6. IPCP(n, node'[n])
  BY <1>5 DEF Gains, Inserts
<1>7. Typed'
  <2>1. /\ phase' \in [Links -> {"none", "requested", "established", "released"}]
        /\ opens' \in [Links -> Nat]
    BY <1>2, <1>3
  <2>2. ChanType(chan') /\ cut' \in BOOLEAN /\ aborted' \in BOOLEAN /\ case' = case
    BY <1>2, <1>3
  <2> QED BY <1>1, <1>2, <1>3, <1>6, <2>1, <2>2, TypedStep
<1>8. \A x \in Nodes, k \in Links : HasPort(x, k)' <=> HasPort(x, k) \/ (x = n /\ k = l)
  BY <1>1, <1>5, PortsGained
<1>9. ASSUME NEW k \in Links
      PROVE  PortsFit(k)'
  <2>1. Ends[k][1] \in Nodes /\ Ends[k][2] \in Nodes /\ Ends[k][1] # Ends[k][2] /\ PortsFit(k)
    BY EndsOfLinks DEF PInv
  <2>2. CASE k = l
    <3>1. HasPort(Ends[l][1], l)' /\ ~HasPort(Ends[l][2], l)'
      BY <1>4, <1>8, <2>1, <2>2
    <3>2. phase'[l] = "requested" /\ opens'[l] = opens[l] + 1 /\ opens[l] \in Nat
      BY <1>2, <1>3
    <3>3. case' = case /\ case.maxOpens \in Nat
      BY <1>2, <1>3, RoutingAssumption
    <3> QED BY <1>2, <2>2, <3>1, <3>2, <3>3 DEF PortsFit
  <2>3. CASE k # l
    <3>1. phase'[k] = phase[k] /\ opens'[k] = opens[k] /\ case' = case /\ cut' = cut
      BY <1>2, <1>3, <2>3
    <3>2. /\ HasPort(Ends[k][1], k)' <=> HasPort(Ends[k][1], k)
          /\ HasPort(Ends[k][2], k)' <=> HasPort(Ends[k][2], k)
      BY <1>8, <2>1, <2>3
    <3> QED BY <2>1, <3>1, <3>2, PortsFitKept
  <2> QED BY <2>2, <2>3
<1> QED BY <1>1, <1>2, <1>4, <1>5, <1>7, <1>9 DEF PInv

LEMMA Accepts ==
    ASSUME PInv, DVInv, NEW l \in Links, CreateNM1FlowWithoutAllocate(l),
           NEW n, n = Ends[l][2], NEW m, m = NextTo(n, l)
    PROVE  /\ n \in Nodes /\ l \in LinksOf(n) /\ m \in Nodes /\ m # n
           /\ ~HasPort(n, l) /\ l \in case.links
           /\ Gains(n, m, l) /\ PInv'
<1>1. n \in Nodes /\ l \in LinksOf(n) /\ m \in Nodes /\ m # n
  BY EndsOfLinks
<1>2. /\ phase[l] = "requested"
      /\ Becomes(n, InsertedFlow(node[n], m, l))
      /\ phase' = [phase EXCEPT ![l] = "established"]
      /\ UNCHANGED <<case, chan, opens, cut, aborted>>
  BY DEF CreateNM1FlowWithoutAllocate
<1>3. /\ phase \in [Links -> {"none", "requested", "established", "released"}]
      /\ ChanType(chan) /\ opens \in [Links -> Nat]
      /\ cut \in BOOLEAN /\ aborted \in BOOLEAN /\ Typed
  BY DEF PInv, Typed, ChanType
<1>4. HasPort(Ends[l][1], l) /\ ~HasPort(n, l) /\ l \in case.links /\ PortsFit(l)
  BY <1>2 DEF PInv, PortsFit
<1>5. Gains(n, m, l)
  BY <1>1, <1>2, <1>4, Gained1
<1>6. IPCP(n, node'[n])
  BY <1>5 DEF Gains, Inserts
<1>7. Typed'
  <2>1. phase' \in [Links -> {"none", "requested", "established", "released"}]
    BY <1>2, <1>3
  <2>2. /\ ChanType(chan') /\ cut' \in BOOLEAN /\ aborted' \in BOOLEAN /\ case' = case
        /\ opens' \in [Links -> Nat]
    BY <1>2, <1>3
  <2> QED BY <1>1, <1>2, <1>3, <1>6, <2>1, <2>2, TypedStep
<1>8. \A x \in Nodes, k \in Links : HasPort(x, k)' <=> HasPort(x, k) \/ (x = n /\ k = l)
  BY <1>1, <1>5, PortsGained
<1>9. ASSUME NEW k \in Links
      PROVE  PortsFit(k)'
  <2>1. Ends[k][1] \in Nodes /\ Ends[k][2] \in Nodes /\ Ends[k][1] # Ends[k][2] /\ PortsFit(k)
    BY EndsOfLinks DEF PInv
  <2>2. CASE k = l
    <3>1. HasPort(Ends[l][1], l)' /\ HasPort(Ends[l][2], l)'
      BY <1>4, <1>8, <2>1, <2>2
    <3>2. phase'[l] = "established" /\ opens'[l] = opens[l] /\ case' = case
      BY <1>2, <1>3
    <3> QED BY <1>2, <1>4, <2>2, <3>1, <3>2 DEF PortsFit
  <2>3. CASE k # l
    <3>1. phase'[k] = phase[k] /\ opens'[k] = opens[k] /\ case' = case /\ cut' = cut
      BY <1>2, <1>3, <2>3
    <3>2. /\ HasPort(Ends[k][1], k)' <=> HasPort(Ends[k][1], k)
          /\ HasPort(Ends[k][2], k)' <=> HasPort(Ends[k][2], k)
      BY <1>8, <2>1, <2>3
    <3> QED BY <2>1, <3>1, <3>2, PortsFitKept
  <2> QED BY <2>2, <2>3
<1> QED BY <1>1, <1>4, <1>5, <1>7, <1>9 DEF PInv

\* An end of a flow goes, with what is on its way to it.
LEMMA Releases ==
    ASSUME PInv, DVInv, NEW l \in Links, NEW n \in {Ends[l][1], Ends[l][2]},
           NEW m, m = NextTo(n, l), HasPort(n, l), RemoveNM1FlowBindings(n, l),
           NEW p \in {"none", "released"}, phase' = [phase EXCEPT ![l] = p], cut' = TRUE,
           p = "none" => phase[l] = "released", p = "released" => phase[l] = "established"
    PROVE  /\ n \in Nodes /\ l \in LinksOf(n) /\ m \in Nodes /\ m # n
           /\ Loses(n, m, l) /\ PInv'
<1>1. n \in Nodes /\ l \in LinksOf(n) /\ m \in Nodes /\ m # n
  BY EndsOfLinks
<1>2. /\ Becomes(n, RemovedFlow(node[n], m, l))
      /\ chan' = [chan EXCEPT ![l][n] = <<>>]
      /\ UNCHANGED <<case, opens, aborted>>
  BY DEF RemoveNM1FlowBindings
<1>3. /\ phase \in [Links -> {"none", "requested", "established", "released"}]
      /\ ChanType(chan) /\ opens \in [Links -> Nat]
      /\ aborted \in BOOLEAN /\ Typed
  BY DEF PInv, Typed, ChanType
<1>4. PortsFit(l)
  BY DEF PInv
<1>5. Loses(n, m, l)
  BY <1>1, <1>2, Lost1
<1>6. IPCP(n, node'[n])
  BY <1>5 DEF Loses, Removes
<1>7. Typed'
  <2>1. phase' \in [Links -> {"none", "requested", "established", "released"}]
    BY <1>3
  <2>2. ChanType(chan')
    <3>1. <<>> \in Seq(Update)
      OBVIOUS
    <3> QED BY <1>2, <1>3, <3>1 DEF ChanType
  <2>3. /\ cut' \in BOOLEAN /\ aborted' \in BOOLEAN /\ case' = case /\ opens' \in [Links -> Nat]
    BY <1>2, <1>3
  <2> QED BY <1>1, <1>2, <1>3, <1>6, <2>1, <2>2, <2>3, TypedStep
<1>8. \A x \in Nodes, k \in Links : HasPort(x, k)' <=> HasPort(x, k) /\ ~(x = n /\ k = l)
  BY <1>1, <1>5, PortsLost
<1>9. ASSUME NEW k \in Links
      PROVE  PortsFit(k)'
  <2>1. Ends[k][1] \in Nodes /\ Ends[k][2] \in Nodes /\ Ends[k][1] # Ends[k][2] /\ PortsFit(k)
    BY EndsOfLinks DEF PInv
  <2>2. CASE k = l
    <3>1. phase'[l] = p /\ opens'[l] = opens[l] /\ case' = case
      BY <1>2, <1>3
    <3>2. CASE p = "none"
      <4>1. ~HasPort(Ends[l][1], l)' /\ ~HasPort(Ends[l][2], l)'
        BY <1>4, <1>8, <2>1, <2>2, <3>2 DEF PortsFit
      <4> QED BY <1>4, <2>2, <3>1, <3>2, <4>1 DEF PortsFit
    <3>3. CASE p = "released"
      <4>1. HasPort(Ends[l][1], l)' <=> ~HasPort(Ends[l][2], l)'
        BY <1>4, <1>8, <2>1, <2>2, <3>3 DEF PortsFit
      <4> QED BY <1>4, <2>2, <3>1, <3>3, <4>1 DEF PortsFit
    <3> QED BY <3>2, <3>3
  <2>3. CASE k # l
    <3>1. phase'[k] = phase[k] /\ opens'[k] = opens[k] /\ case' = case /\ cut'
      BY <1>2, <1>3, <2>3
    <3>2. /\ HasPort(Ends[k][1], k)' <=> HasPort(Ends[k][1], k)
          /\ HasPort(Ends[k][2], k)' <=> HasPort(Ends[k][2], k)
      BY <1>8, <2>1, <2>3
    <3> QED BY <2>1, <3>1, <3>2, PortsFitKept
  <2> QED BY <2>2, <2>3
<1> QED BY <1>1, <1>5, <1>7, <1>9 DEF PInv

\* Both ends of a flow go, one after the other, and both by Releases.
LEMMA Removal ==
    ASSUME PInv, NEW l \in Links, NEW n, RemoveNM1Flow(l, n)
    PROVE  /\ n \in {Ends[l][1], Ends[l][2]} /\ HasPort(n, l) /\ RemoveNM1FlowBindings(n, l)
           /\ phase' = [phase EXCEPT ![l] = "released"] /\ cut' = TRUE
           /\ phase[l] = "established"
<1>1. /\ phase[l] = "established" /\ n \in {Ends[l][1], Ends[l][2]}
      /\ RemoveNM1FlowBindings(n, l)
      /\ phase' = [phase EXCEPT ![l] = "released"] /\ cut' = TRUE
  BY DEF RemoveNM1Flow
<1>2. HasPort(n, l)
  BY <1>1 DEF PInv, PortsFit
<1> QED BY <1>1, <1>2

LEMMA Deletion ==
    ASSUME PInv, NEW l \in Links, DeleteRequestFlow(l)
    PROVE  \E n \in {Ends[l][1], Ends[l][2]} :
              /\ HasPort(n, l) /\ RemoveNM1FlowBindings(n, l)
              /\ phase' = [phase EXCEPT ![l] = "none"] /\ cut' = TRUE
              /\ phase[l] = "released"
<1>1. PICK n \in {Ends[l][1], Ends[l][2]} :
        /\ phase[l] = "released" /\ HasPort(n, l)
        /\ RemoveNM1FlowBindings(n, l)
        /\ phase' = [phase EXCEPT ![l] = "none"]
        /\ cut' = cut
  BY DEF DeleteRequestFlow
<1>2. cut = TRUE
  BY <1>1 DEF PInv, PortsFit, Typed
<1> QED BY <1>1, <1>2

\* The update for a neighbor.
UpdateFor(n, m) ==
    IF IsDV THEN DV!UpdateTo(node[n].routing, m) ELSE LS!UpdateTo(node[n].routing, m)

LEMMA UpdateForType ==
    ASSUME PInv, DVInv, NEW n \in Nodes, NEW m \in Adjacent(node[n])
    PROVE  UpdateFor(n, m) \in Update
<1>1. IPCP(n, node[n])
  BY DEF PInv, Typed
<1>2. CASE IsDV
  <2>1. DVFits(n, Adjacent(node[n]), node[n].routing) /\ node[n].routing.table[n] = DV!NoEntry
    BY <1>1, <1>2 DEF DVInv, Direct, IPCP
  <2>2. DV!UpdateTo(node[n].routing, m) \in DV!Updates
    BY <2>1, DVUpdateTo
  <2> QED BY <1>2, <2>2, UpdateOf DEF UpdateFor
<1>3. CASE ~IsDV
  <2> DEFINE r == node[n].routing
             up == LS!UpdateTo(r, m)
  <2>1. r.lastChanges \in SUBSET Nodes /\ r.netState \in [Nodes -> LinkState]
    BY <1>1, <1>3 DEF IPCP, LSFits
  <2>2. up \in [r.lastChanges -> LinkState]
    BY <2>1 DEF LS!UpdateTo
  <2> HIDE DEF up, r
  <2>3. up \in LSUpdate
    BY <2>1, <2>2 DEF LSUpdate
  <2> QED BY <1>3, <2>3, UpdateOf DEF UpdateFor, up, r
<1> QED BY <1>2, <1>3

SentOver(n, l) ==
    LET m == NextTo(n, l) IN
    IF m \in Adjacent(node[n]) /\ node[n].fwd[m] = l THEN <<UpdateFor(n, m)>> ELSE <<>>

\* What goes out over each link of an IPCP.
Sending(n) ==
    /\ DOMAIN chan' = Links
    /\ \A l \in Links :
          chan'[l] = IF l \in LinksOf(n) /\ phase[l] # "released"
                     THEN [chan[l] EXCEPT ![NextTo(n, l)] = @ \o SentOver(n, l)]
                     ELSE chan[l]

LEMMA Sends ==
    ASSUME PInv, DVInv, NEW n \in Nodes, Time2Update(n)
    PROVE  Says(n) /\ Sending(n) /\ PInv' /\ UNCHANGED <<case, phase, opens, cut>>
<1>1. /\ phase \in [Links -> {"none", "requested", "established", "released"}]
      /\ ChanType(chan) /\ opens \in [Links -> Nat]
      /\ cut \in BOOLEAN /\ aborted \in BOOLEAN /\ Typed
  BY DEF PInv, Typed, ChanType
<1> DEFINE s == node[n]
           t == [s EXCEPT !.routing = IF IsDV THEN DV!AfterUpdate(@) ELSE LS!AfterUpdate(@)]
           neig == DOMAIN s.routing.neig
           update(m) == IF IsDV THEN DV!UpdateTo(s.routing, m) ELSE LS!UpdateTo(s.routing, m)
           sent(l, m) == IF m \in neig /\ s.fwd[m] = l THEN <<update(m)>> ELSE <<>>
           dangling == {m \in neig : s.fwd[m] # NoPort /\ ~HasPort(n, s.fwd[m])}
           carries(l) == l \in LinksOf(n) /\ phase[l] # "released"
<1>2. /\ Becomes(n, t)
      /\ aborted' = (dangling # {})
      /\ chan' = [l \in Links |->
             IF carries(l) THEN [chan[l] EXCEPT ![NextTo(n, l)] = @ \o sent(l, NextTo(n, l))]
                           ELSE chan[l]]
      /\ UNCHANGED <<case, phase, opens, cut>>
  BY DEF Time2Update
<1>3. Says(n)
  BY <1>1, <1>2, Said1
<1> HIDE DEF t
<1>4. IPCP(n, s)
  BY <1>1 DEF Typed
<1>5. neig = Adjacent(s)
  <2>1. s.routing.neig = [m \in Adjacent(s) |-> 1]
    BY <1>4 DEF IPCP, DVFits, LSFits
  <2> QED BY <2>1
<1>6. ASSUME NEW l \in Links
      PROVE  sent(l, NextTo(n, l)) = SentOver(n, l)
  BY <1>5 DEF SentOver, UpdateFor
<1>7. Sending(n)
  <2> HIDE DEF sent
  <2>1. DOMAIN chan' = Links
    BY <1>2
  <2>2. ASSUME NEW l \in Links
        PROVE  chan'[l] = IF l \in LinksOf(n) /\ phase[l] # "released"
                          THEN [chan[l] EXCEPT ![NextTo(n, l)] = @ \o SentOver(n, l)]
                          ELSE chan[l]
    BY <1>2, <1>6
  <2> QED BY <2>1, <2>2 DEF Sending
<1>8. ChanType(chan')
  <2>1. ASSUME NEW l \in LinksOf(n)
        PROVE  SentOver(n, l) \in Seq(Update)
    BY UpdateForType DEF SentOver
  <2>2. ASSUME NEW l \in Links
        PROVE  chan'[l] \in [{Ends[l][1], Ends[l][2]} -> Seq(Update)]
    <3>1. chan[l] \in [{Ends[l][1], Ends[l][2]} -> Seq(Update)]
      BY <1>1 DEF ChanType
    <3>2. CASE l \in LinksOf(n) /\ phase[l] # "released"
      <4>1. chan'[l] = [chan[l] EXCEPT ![NextTo(n, l)] = chan[l][NextTo(n, l)] \o SentOver(n, l)]
        BY <1>7, <3>2 DEF Sending
      <4>2. NextTo(n, l) \in {Ends[l][1], Ends[l][2]}
        BY DEF NextTo
      <4>3. chan[l][NextTo(n, l)] \in Seq(Update)
        BY <3>1, <4>2
      <4>4. chan[l][NextTo(n, l)] \o SentOver(n, l) \in Seq(Update)
        BY <2>1, <3>2, <4>3
      <4> QED BY <3>1, <4>1, <4>4
    <3>3. CASE ~(l \in LinksOf(n) /\ phase[l] # "released")
      BY <1>7, <3>1, <3>3 DEF Sending
    <3> QED BY <3>2, <3>3
  <2> QED BY <1>7, <2>2 DEF ChanType, Sending
<1>9. Typed'
  <2>1. IPCP(n, node'[n])
    BY <1>3 DEF Says
  <2>2. /\ phase' \in [Links -> {"none", "requested", "established", "released"}]
        /\ opens' \in [Links -> Nat] /\ cut' \in BOOLEAN /\ case' = case
    BY <1>1, <1>2
  <2>3. aborted' \in BOOLEAN
    BY <1>2
  <2> QED BY <1>1, <1>2, <1>8, <2>1, <2>2, <2>3, TypedStep
<1>10. \A x \in Nodes, k \in Links : HasPort(x, k)' <=> HasPort(x, k)
  BY <1>3, PortsKept DEF Says
<1>11. ASSUME NEW k \in Links
       PROVE  PortsFit(k)'
  <2>1. Ends[k][1] \in Nodes /\ Ends[k][2] \in Nodes /\ PortsFit(k)
    BY EndsOfLinks DEF PInv
  <2>2. phase'[k] = phase[k] /\ opens'[k] = opens[k] /\ case' = case /\ cut' = cut
    BY <1>2
  <2> QED BY <1>10, <2>1, <2>2, PortsFitKept
<1> QED BY <1>2, <1>3, <1>7, <1>9, <1>11 DEF PInv

LEMMA Receives ==
    ASSUME PInv, DVInv, NEW n \in Nodes, NEW l, ReceiveRoutingUpdate(n, l)
    PROVE  /\ l \in LinksOf(n) /\ l \in Links /\ HasPort(n, l)
           /\ chan[l][n] \in Seq(Update) /\ chan[l][n] # <<>>
           /\ Head(chan[l][n]) \in Update /\ Takes(n, Head(chan[l][n]))
           /\ chan' = [chan EXCEPT ![l][n] = Tail(@)]
           /\ PInv' /\ UNCHANGED <<case, phase, opens, cut>>
<1> DEFINE c == chan[l][n]
<1>1. /\ l \in LinksOf(n) /\ HasPort(n, l) /\ c # <<>>
      /\ Becomes(n, ReceiveUpdate(node[n], Head(c)))
      /\ chan' = [chan EXCEPT ![l][n] = Tail(@)]
      /\ UNCHANGED <<case, phase, opens, cut, aborted>>
  BY DEF ReceiveRoutingUpdate
<1>2. /\ phase \in [Links -> {"none", "requested", "established", "released"}]
      /\ ChanType(chan) /\ opens \in [Links -> Nat]
      /\ cut \in BOOLEAN /\ aborted \in BOOLEAN /\ Typed
  BY DEF PInv, Typed, ChanType
<1>3. l \in Links /\ n \in {Ends[l][1], Ends[l][2]}
  <2>1. l \in LinksOf(n)
    BY <1>1
  <2> QED BY <2>1 DEF LinksOf
<1>4. c \in Seq(Update)
  BY <1>2, <1>3 DEF ChanType
<1> HIDE DEF c
<1>5. Head(c) \in Update /\ Tail(c) \in Seq(Update)
  BY <1>1, <1>4
<1>6. Takes(n, Head(c))
  BY <1>1, <1>2, <1>5, Took1
<1>7. ChanType(chan')
  BY <1>1, <1>2, <1>3, <1>5 DEF ChanType, c
<1>8. Typed'
  <2>1. IPCP(n, node'[n])
    BY <1>6 DEF Takes
  <2>2. /\ phase' \in [Links -> {"none", "requested", "established", "released"}]
        /\ opens' \in [Links -> Nat] /\ cut' \in BOOLEAN /\ case' = case /\ aborted' \in BOOLEAN
    BY <1>1, <1>2
  <2> QED BY <1>1, <1>2, <1>7, <2>1, <2>2, TypedStep
<1>9. \A x \in Nodes, k \in Links : HasPort(x, k)' <=> HasPort(x, k)
  BY <1>6, PortsKept DEF Takes
<1>10. ASSUME NEW k \in Links
       PROVE  PortsFit(k)'
  <2>1. Ends[k][1] \in Nodes /\ Ends[k][2] \in Nodes /\ PortsFit(k)
    BY EndsOfLinks DEF PInv
  <2>2. phase'[k] = phase[k] /\ opens'[k] = opens[k] /\ case' = case /\ cut' = cut
    BY <1>1
  <2> QED BY <1>9, <2>1, <2>2, PortsFitKept
<1> QED BY <1>1, <1>3, <1>4, <1>5, <1>6, <1>8, <1>10 DEF PInv, c

-----------------------------------------------------------------------------
(* Distance vector routes are forwarded to their next hops.                  *)

RoutesDV == \A n \in Nodes : Direct(n, node[n]) /\ \A d \in Nodes : Forwarded(n, node[n], d)

MessagesDV ==
    \A n \in Nodes : \A l \in LinksOf(n) : \A i \in 1 .. Len(chan[l][n]) :
        FromNeighbor(NextTo(n, l), chan[l][n][i])

LEMMA PartsOfDV ==
    /\ DVInv <=> (IsDV => RoutesDV /\ MessagesDV)
    /\ (DVInv <=> (IsDV => RoutesDV /\ MessagesDV))'
BY DEF DVInv, RoutesDV, MessagesDV

LEMMA ChanOf ==
    ASSUME Typed, NEW n, NEW l \in LinksOf(n)
    PROVE  chan[l][n] \in Seq(Update) /\ n \in {Ends[l][1], Ends[l][2]} /\ l \in Links
<1>1. l \in Links /\ n \in {Ends[l][1], Ends[l][2]}
  BY DEF LinksOf
<1> QED BY <1>1 DEF Typed

\* A route and its entry that stay.
LEMMA ForwardedKept ==
    ASSUME NEW n \in Nodes, NEW d \in Nodes, case' = case, cut => cut', Forwarded(n, node[n], d),
           node'[n].routing.table[d].addr = node[n].routing.table[d].addr,
           node'[n].fwd[d] = node[n].fwd[d],
           \A m \in Nodes : m = node[n].routing.table[d].addr /\ node[n].neighbours[m] # {}
                            => node'[n].neighbours[m] # {}
    PROVE  Forwarded(n, node[n], d)'
BY DEF Forwarded

LEMMA StillRoutes ==
    ASSUME NEW n \in Nodes, OthersStay(n), case' = case, cut => cut', RoutesDV,
           Direct(n, node'[n]), \A d \in Nodes : Forwarded(n, node[n], d)'
    PROVE  RoutesDV'
<1>1. ASSUME NEW x \in Nodes, NEW d \in Nodes
      PROVE  Direct(x, node'[x]) /\ Forwarded(x, node[x], d)'
  <2>1. CASE x = n
    BY <2>1
  <2>2. CASE x # n
    <3>1. node'[x] = node[x]
      BY <2>2 DEF OthersStay
    <3>2. Direct(x, node[x]) /\ Forwarded(x, node[x], d)
      BY DEF RoutesDV
    <3> QED BY <3>1, <3>2, ForwardedKept
  <2> QED BY <2>1, <2>2
<1>2. \A x \in Nodes : Direct(x, node[x])' <=> Direct(x, node'[x])
  BY DEF Direct
<1>3. ASSUME NEW x \in Nodes
      PROVE  Direct(x, node'[x])
  <2>1. CASE x = n
    BY <2>1
  <2>2. CASE x # n
    <3>1. node'[x] = node[x] /\ Direct(x, node[x])
      BY <2>2 DEF OthersStay, RoutesDV
    <3> QED BY <3>1
  <2> QED BY <2>1, <2>2
<1> QED BY <1>1, <1>2, <1>3 DEF RoutesDV

LEMMA DVTable ==
    ASSUME PInv, IsDV, NEW n \in Nodes
    PROVE  /\ IPCP(n, node[n]) /\ PortsOf(n, node[n])
           /\ node[n].routing.table \in [Nodes -> DV!RtEntry]
           /\ node[n].fwd \in [Nodes -> LinksOf(n) \cup {NoPort}]
BY DEF PInv, Typed, IPCP, DVFits

LEMMA RoutesGained ==
    ASSUME PInv, RoutesDV, IsDV, case' = case, cut' = cut,
           NEW n \in Nodes, NEW l \in LinksOf(n), l \in case.links,
           NEW m \in Nodes, m = NextTo(n, l), m # n, Gains(n, m, l)
    PROVE  RoutesDV'
<1> DEFINE s == node[n]
           t == node'[n]
<1>1. /\ Inserts(n, s, m, l, t) /\ DVInserts(s, m, l, t) /\ OthersStay(n)
      /\ s.routing.table \in [Nodes -> DV!RtEntry]
      /\ s.fwd \in [Nodes -> LinksOf(n) \cup {NoPort}]
  BY DVTable DEF Gains
<1>2. /\ Direct(n, s) /\ \A d \in Nodes : Forwarded(n, s, d)
  BY DEF RoutesDV
<1>3. /\ t.neighbours[m] = s.neighbours[m] \cup {l} /\ Adjacent(t) = Adjacent(s) \cup {m}
      /\ \A x \in Nodes \ {m} : t.neighbours[x] = s.neighbours[x]
      /\ \A x \in Nodes : s.neighbours[x] # {} => t.neighbours[x] # {}
  BY <1>1 DEF Inserts
<1>4. CASE s.neighbours[m] # {}
  <2>1. t.routing.table = s.routing.table /\ t.fwd = s.fwd
    BY <1>1, <1>4 DEF DVInserts
  <2>2. Adjacent(t) = Adjacent(s)
    BY <1>3, <1>4 DEF Adjacent
  <2>3. Direct(n, t)
    BY <1>2, <2>1, <2>2 DEF Direct
  <2>4. ASSUME NEW d \in Nodes
        PROVE  Forwarded(n, node[n], d)'
    BY <1>2, <1>3, <2>1, ForwardedKept
  <2> QED BY <1>1, <2>3, <2>4, StillRoutes
<1>5. CASE s.neighbours[m] = {}
  <2> DEFINE new == [addr |-> m, metric |-> 1]
  <2>1. t.routing.table = [s.routing.table EXCEPT ![m] = new] /\ t.fwd = [s.fwd EXCEPT ![m] = l]
    BY <1>1, <1>5 DEF DVInserts
  <2> HIDE DEF s, t, new
  <2>2. /\ t.routing.table[m] = new /\ t.fwd[m] = l
        /\ \A d \in Nodes \ {m} : /\ t.routing.table[d] = s.routing.table[d]
                                  /\ t.fwd[d] = s.fwd[d]
    BY <1>1, <2>1
  <2>3. Direct(n, t)
    BY <1>2, <1>3, <2>2 DEF Direct, new, Adjacent
  <2>4. ASSUME NEW d \in Nodes
        PROVE  Forwarded(n, node[n], d)'
    <3>1. CASE d = m
      <4>1. node'[n].routing.table[d].addr = m /\ node'[n].fwd[d] = l
        BY <2>2, <3>1 DEF t, new
      <4>2. node'[n].neighbours[m] # {}
        BY <1>3 DEF t
      <4>3. m # 0
        BY EndsOfLinks
      <4> QED BY <4>1, <4>2, <4>3 DEF Forwarded
    <3>2. CASE d # m
      <4>1. t.routing.table[d] = s.routing.table[d] /\ t.fwd[d] = s.fwd[d]
        BY <2>2, <3>2
      <4> QED BY <1>2, <1>3, <4>1, ForwardedKept DEF s, t
    <3> QED BY <3>1, <3>2
  <2> QED BY <1>1, <2>3, <2>4, StillRoutes DEF t
<1> QED BY <1>4, <1>5

LEMMA RoutesLost ==
    ASSUME PInv, RoutesDV, IsDV, case' = case, cut' = TRUE,
           NEW n \in Nodes, NEW l \in LinksOf(n),
           NEW m \in Nodes, m = NextTo(n, l), m # n, HasPort(n, l), Loses(n, m, l)
    PROVE  RoutesDV'
<1> DEFINE s == node[n]
           t == node'[n]
<1>1. /\ FewerPortsIn(n, s, m, l, t) /\ DVRemoves(s, m, t) /\ OthersStay(n)
      /\ s.routing.table \in [Nodes -> DV!RtEntry]
      /\ s.fwd \in [Nodes -> LinksOf(n) \cup {NoPort}]
  BY DVTable DEF Loses, Removes
<1>2. /\ Direct(n, s) /\ \A d \in Nodes : Forwarded(n, s, d)
  BY DEF RoutesDV
<1>3. /\ t.neighbours[m] # {} => Adjacent(t) = Adjacent(s)
      /\ t.neighbours[m] = {} => Adjacent(t) = Adjacent(s) \ {m}
      /\ \A x \in Nodes \ {m} : t.neighbours[x] = s.neighbours[x]
  BY <1>1 DEF FewerPortsIn
<1>4. CASE t.neighbours[m] # {}
  <2>1. t.routing.table = s.routing.table /\ t.fwd = s.fwd
    BY <1>1, <1>4 DEF DVRemoves
  <2>2. Direct(n, t)
    BY <1>2, <1>3, <1>4, <2>1 DEF Direct
  <2>3. ASSUME NEW d \in Nodes
        PROVE  Forwarded(n, node[n], d)'
    <3>1. \A x \in Nodes : s.neighbours[x] # {} => t.neighbours[x] # {}
      BY <1>3, <1>4
    <3> QED BY <1>2, <2>1, <3>1, ForwardedKept
  <2> QED BY <1>1, <2>2, <2>3, StillRoutes
<1>5. CASE t.neighbours[m] = {}
  <2>1. t.routing.table = WithoutVia(s.routing.table, m) /\ t.fwd = [s.fwd EXCEPT ![m] = NoPort]
    BY <1>1, <1>5 DEF DVRemoves
  <2> HIDE DEF s, t
  <2>2. /\ \A d \in Nodes : t.routing.table[d] = IF s.routing.table[d].addr = m THEN DV!NoEntry
                                                 ELSE s.routing.table[d]
        /\ \A d \in Nodes \ {m} : t.fwd[d] = s.fwd[d]
    BY <1>1, <2>1 DEF WithoutVia
  <2>3. s.routing.table[m].addr = m
    <3>1. s.neighbours[m] # {}
      BY DEF HasPort, s
    <3>2. s.routing.table[m] = [addr |-> m, metric |-> 1]
      BY <1>2, <3>1 DEF Direct, Adjacent
    <3> QED BY <3>2
  <2>4. Direct(n, t)
    <3>1. s.routing.table[n] = DV!NoEntry
      BY <1>2 DEF Direct
    <3>2. t.routing.table[n] = DV!NoEntry
      BY <2>2, <3>1
    <3>3. ASSUME NEW x \in Adjacent(t)
          PROVE  t.routing.table[x] = [addr |-> x, metric |-> 1]
      <4>1. x \in Adjacent(s) /\ x # m /\ x \in Nodes
        BY <1>3, <1>5 DEF Adjacent
      <4>2. s.routing.table[x] = [addr |-> x, metric |-> 1]
        BY <1>2, <4>1 DEF Direct
      <4>3. s.routing.table[x].addr # m
        BY <4>1, <4>2
      <4> QED BY <2>2, <4>1, <4>2, <4>3
    <3> QED BY <3>2, <3>3 DEF Direct
  <2>5. ASSUME NEW d \in Nodes
        PROVE  Forwarded(n, node[n], d)'
    <3>1. CASE s.routing.table[d].addr = m
      <4>1. node'[n].routing.table[d].addr = 0
        BY <2>2, <3>1, EntryType DEF t
      <4> QED BY <4>1 DEF Forwarded
    <3>2. CASE s.routing.table[d].addr # m
      <4>1. d # m
        BY <2>3, <3>2
      <4>2. t.routing.table[d] = s.routing.table[d] /\ t.fwd[d] = s.fwd[d]
        BY <2>2, <3>2, <4>1
      <4>3. \A x \in Nodes : x = s.routing.table[d].addr => t.neighbours[x] = s.neighbours[x]
        BY <1>3, <3>2
      <4> QED BY <1>2, <4>2, <4>3, ForwardedKept DEF s, t
    <3> QED BY <3>1, <3>2
  <2> QED BY <1>1, <2>4, <2>5, StillRoutes DEF t
<1> QED BY <1>4, <1>5

LEMMA RoutesSaid ==
    ASSUME PInv, RoutesDV, IsDV, case' = case, cut' = cut, NEW n \in Nodes, Says(n)
    PROVE  RoutesDV'
<1> DEFINE s == node[n]
           t == node'[n]
<1>1. /\ t.neighbours = s.neighbours /\ t.routing.table = s.routing.table /\ t.fwd = s.fwd
      /\ OthersStay(n)
  BY DEF Says, DVSends
<1>2. /\ Direct(n, s) /\ \A d \in Nodes : Forwarded(n, s, d)
  BY DEF RoutesDV
<1>3. Adjacent(t) = Adjacent(s)
  BY <1>1, SamePorts
<1>4. Direct(n, t)
  BY <1>1, <1>2, <1>3 DEF Direct
<1>5. ASSUME NEW d \in Nodes
      PROVE  Forwarded(n, node[n], d)'
  BY <1>1, <1>2, ForwardedKept
<1> QED BY <1>1, <1>4, <1>5, StillRoutes

LEMMA RoutesTaken ==
    ASSUME PInv, RoutesDV, IsDV, case' = case, cut' = cut,
           NEW n \in Nodes, NEW l \in LinksOf(n), HasPort(n, l),
           NEW m \in Nodes, m = NextTo(n, l), NEW up \in DV!Updates, FromNeighbor(m, up),
           Takes(n, up)
    PROVE  RoutesDV'
<1> DEFINE s == node[n]
           t == node'[n]
<1>1. /\ t.neighbours = s.neighbours /\ OthersStay(n)
      /\ \A d \in Nodes : DVTook(n, s, up, t, d)
      /\ s.routing.table \in [Nodes -> DV!RtEntry] /\ PortsOf(n, s)
  BY DVTable DEF Takes
<1>2. /\ Direct(n, s) /\ \A d \in Nodes : Forwarded(n, s, d)
  BY DEF RoutesDV
<1>3. up.src = m /\ (m \in DOMAIN up.entries => up.entries[m] = 1)
  BY DEF FromNeighbor
<1>4. /\ \A d \in DOMAIN up.entries : up.entries[d] \in Nat /\ 1 <= up.entries[d]
      /\ InfMetric \in Nat /\ InfMetric >= 2 /\ m # 0
  BY UpdateType, EndsOfLinks
<1>5. m \in Adjacent(s)
  BY DEF HasPort, Adjacent
<1>6. Adjacent(t) = Adjacent(s)
  BY <1>1, SamePorts
<1>7. ASSUME NEW d \in Nodes
      PROVE  \/ t.routing.table[d] = s.routing.table[d] /\ t.fwd[d] = s.fwd[d]
             \/ t.routing.table[d] = DV!NoEntry /\ t.fwd[d] = NoPort
             \/ /\ t.routing.table[d].addr = m /\ s.routing.table[d].addr = m
                /\ t.fwd[d] = s.fwd[d]
             \/ t.routing.table[d].addr = m /\ t.fwd[d] = PortOf(s, {m})
  <2> DEFINE new == t.routing.table[d]
             old == s.routing.table[d]
             e == up.entries[d]
  <2>1. \/ new = old /\ t.fwd[d] = s.fwd[d]
        \/ new = DV!NoEntry /\ t.fwd[d] = NoPort
        \/ /\ new = [addr |-> up.src, metric |-> e] /\ old.addr = up.src
           /\ t.fwd[d] = s.fwd[d]
        \/ new = [addr |-> up.src, metric |-> e] /\ t.fwd[d] = PortOf(s, {up.src})
    <3>1. DVTook(n, s, up, t, d)
      BY <1>1
    <3> QED BY <3>1, Zenon DEF DVTook
  <2> HIDE DEF new, old, e
  <2>2. [addr |-> up.src, metric |-> e].addr = m
    BY <1>3
  <2>3. \/ new = old /\ t.fwd[d] = s.fwd[d]
        \/ new = DV!NoEntry /\ t.fwd[d] = NoPort
        \/ new.addr = m /\ old.addr = m /\ t.fwd[d] = s.fwd[d]
        \/ new.addr = m /\ t.fwd[d] = PortOf(s, {m})
    BY <1>3, <2>1, <2>2, Zenon
  <2> QED BY <2>3, Zenon DEF new, old
<1>8. /\ PortOf(s, {m}) \in s.neighbours[m] /\ PortOf(s, {m}) \in LinksOf(n)
      /\ NextTo(n, PortOf(s, {m})) = m
  BY <1>1, <1>5, Ported DEF Adjacent
<1>9. PortOf(s, {m}) \in case.links
  <2>1. PortOf(s, {m}) \in Links /\ HasPort(n, PortOf(s, {m}))
    BY <1>8 DEF HasPort, LinksOf
  <2>2. n = Ends[PortOf(s, {m})][1] \/ n = Ends[PortOf(s, {m})][2]
    BY <1>8 DEF LinksOf
  <2> QED BY <2>1, <2>2 DEF PInv, PortsFit
<1>10. ASSUME NEW x \in Adjacent(s)
       PROVE  t.routing.table[x] = [addr |-> x, metric |-> 1]
  <2>1. x \in Nodes /\ x # 0 /\ s.routing.table[x] = [addr |-> x, metric |-> 1]
    BY <1>2, EndsOfLinks DEF Direct, Adjacent
  <2>2. s.routing.table[x].addr = x /\ s.routing.table[x].metric = 1 /\ DVTook(n, s, up, t, x)
        /\ s.routing.table[x] # DV!NoEntry
    BY <1>1, <2>1, EntryType
  <2>3. CASE x = m
    BY <1>3, <1>4, <2>1, <2>2, <2>3 DEF DVTook
  <2>4. CASE x # m
    BY <1>3, <1>4, <2>1, <2>2, <2>4 DEF DVTook
  <2> QED BY <2>3, <2>4
<1>11. t.routing.table[n] = DV!NoEntry
  BY <1>1, <1>2 DEF DVTook, Direct
<1>12. Direct(n, t)
  BY <1>6, <1>10, <1>11 DEF Direct
<1>13. ASSUME NEW d \in Nodes
       PROVE  Forwarded(n, node[n], d)'
  <2>1. Forwarded(n, s, d)
    BY <1>2
  <2>2. CASE t.routing.table[d] = s.routing.table[d] /\ t.fwd[d] = s.fwd[d]
    BY <1>1, <2>1, <2>2, ForwardedKept
  <2>3. CASE t.routing.table[d] = DV!NoEntry /\ t.fwd[d] = NoPort
    BY <2>3, EntryType DEF Forwarded
  <2>4. CASE /\ t.routing.table[d].addr = m /\ s.routing.table[d].addr = m
             /\ t.fwd[d] = s.fwd[d]
    BY <1>1, <2>1, <2>4, ForwardedKept
  <2>5. CASE t.routing.table[d].addr = m /\ t.fwd[d] = PortOf(s, {m})
    BY <1>1, <1>4, <1>8, <1>9, <2>5 DEF Forwarded
  <2> QED BY <1>7, <2>2, <2>3, <2>4, <2>5
<1> QED BY <1>1, <1>12, <1>13, StillRoutes

-----------------------------------------------------------------------------
(* What is on its way.                                                       *)

Replaces(n, l, c) == chan' = [chan EXCEPT ![l][n] = c]
Clears(n, l) == Replaces(n, l, <<>>)
Shifts(n, l) == Replaces(n, l, Tail(chan[l][n]))

LEMMA OneChanged ==
    ASSUME PInv, NEW n, NEW l \in LinksOf(n), NEW c, Replaces(n, l, c)
    PROVE  \A x \in Nodes : \A k \in LinksOf(x) :
              chan'[k][x] = IF k = l /\ x = n THEN c ELSE chan[k][x]
<1>1. ASSUME NEW x \in Nodes, NEW k \in LinksOf(x)
      PROVE  chan'[k][x] = IF k = l /\ x = n THEN c ELSE chan[k][x]
  <2>1. /\ DOMAIN chan = Links /\ k \in Links /\ l \in Links
        /\ n \in {Ends[l][1], Ends[l][2]} /\ x \in {Ends[k][1], Ends[k][2]}
        /\ chan[l] \in [{Ends[l][1], Ends[l][2]} -> Seq(Update)]
    <3>1. /\ k \in Links /\ l \in Links
          /\ n \in {Ends[l][1], Ends[l][2]} /\ x \in {Ends[k][1], Ends[k][2]}
      BY ChanOf DEF PInv
    <3> QED BY <3>1 DEF PInv, Typed
  <2>2. chan'[k] = IF k = l THEN [chan[l] EXCEPT ![n] = c] ELSE chan[k]
    BY <2>1 DEF Replaces
  <2> QED BY <2>1, <2>2
<1> QED BY <1>1

LEMMA NothingOnItsWay ==
    ASSUME PInv, NEW n, NEW l \in LinksOf(n), Clears(n, l)
    PROVE  \A x \in Nodes : \A k \in LinksOf(x) :
              chan'[k][x] = IF k = l /\ x = n THEN <<>> ELSE chan[k][x]
BY OneChanged DEF Clears

LEMMA OneLessOnItsWay ==
    ASSUME PInv, NEW n, NEW l \in LinksOf(n), Shifts(n, l)
    PROVE  \A x \in Nodes : \A k \in LinksOf(x) :
              chan'[k][x] = IF k = l /\ x = n THEN Tail(chan[l][n]) ELSE chan[k][x]
BY OneChanged DEF Shifts

LEMMA OneMoreOnItsWay ==
    ASSUME PInv, NEW n \in Nodes, Sending(n)
    PROVE  \A x \in Nodes : \A k \in LinksOf(x) :
              chan'[k][x] = IF k \in LinksOf(n) /\ phase[k] # "released" /\ x = NextTo(n, k)
                            THEN chan[k][x] \o SentOver(n, k) ELSE chan[k][x]
<1>1. ASSUME NEW x \in Nodes, NEW k \in LinksOf(x)
      PROVE  chan'[k][x] = IF k \in LinksOf(n) /\ phase[k] # "released" /\ x = NextTo(n, k)
                           THEN chan[k][x] \o SentOver(n, k) ELSE chan[k][x]
  <2>1. k \in Links /\ x \in {Ends[k][1], Ends[k][2]}
    BY ChanOf DEF PInv
  <2>2. chan[k] \in [{Ends[k][1], Ends[k][2]} -> Seq(Update)]
    BY <2>1 DEF PInv, Typed
  <2>3. chan'[k] = IF k \in LinksOf(n) /\ phase[k] # "released"
                   THEN [chan[k] EXCEPT ![NextTo(n, k)] = @ \o SentOver(n, k)]
                   ELSE chan[k]
    BY <2>1 DEF Sending
  <2> QED BY <2>1, <2>2, <2>3
<1> QED BY <1>1

\* The places in a queue of which one is taken, or to which one is added.
LEMMA Taken ==
    ASSUME NEW S, NEW c \in Seq(S), c # <<>>
    PROVE  /\ Tail(c) \in Seq(S) /\ Head(c) = c[1] /\ 1 \in 1 .. Len(c) /\ c[1] \in S
           /\ Len(Tail(c)) = Len(c) - 1
           /\ \A i \in 1 .. Len(Tail(c)) : i + 1 \in 1 .. Len(c) /\ Tail(c)[i] = c[i + 1]
           /\ \A i \in 1 .. Len(c) : i = 1 \/ (i - 1 \in 1 .. Len(Tail(c))
                                               /\ Tail(c)[i - 1] = c[i])
OBVIOUS

LEMMA Added ==
    ASSUME NEW S, NEW c \in Seq(S), NEW u \in S
    PROVE  /\ c \o <<u>> \in Seq(S) /\ Len(c \o <<u>>) = Len(c) + 1 /\ c \o <<u>> # <<>>
           /\ \A i \in 1 .. Len(c) : i \in 1 .. Len(c \o <<u>>) /\ (c \o <<u>>)[i] = c[i]
           /\ (c \o <<u>>)[Len(c) + 1] = u /\ Len(c) + 1 \in 1 .. Len(c \o <<u>>)
           /\ \A i \in 1 .. Len(c \o <<u>>) : i \in 1 .. Len(c) \/ i = Len(c) + 1
OBVIOUS

\* The update of a distance vector IPCP for a neighbor.
SaidDV(n, up) ==
    /\ up \in DV!Updates /\ up.src = n
    /\ n \in DOMAIN up.entries /\ up.entries[n] = 1
    /\ \A d \in DOMAIN up.entries \ {n} :
          /\ d \in Nodes /\ Table(n)[d] # DV!NoEntry
          /\ up.entries[d] = Table(n)[d].metric + 1

LEMMA UpdateDV ==
    ASSUME PInv, RoutesDV, IsDV, NEW n \in Nodes, NEW m \in Adjacent(node[n])
    PROVE  SaidDV(n, UpdateFor(n, m))
<1>1. DVFits(n, Adjacent(node[n]), node[n].routing)
  BY DEF PInv, Typed, IPCP
<1>2. node[n].routing.table[n] = DV!NoEntry
  BY DEF RoutesDV, Direct
<1> DEFINE up == DV!UpdateTo(node[n].routing, m)
<1>3. up = UpdateFor(n, m)
  BY DEF UpdateFor
<1> HIDE DEF up
<1>4. /\ up \in DV!Updates /\ up.src = n
      /\ n \in DOMAIN up.entries /\ up.entries[n] = 1
      /\ \A d \in DOMAIN up.entries \ {n} :
            /\ d \in Nodes /\ node[n].routing.table[d] # DV!NoEntry
            /\ up.entries[d] = node[n].routing.table[d].metric + 1
  BY <1>1, <1>2, DVUpdateTo DEF up
<1> QED BY <1>3, <1>4, Zenon DEF SaidDV, Table

LEMMA MessagesTaken ==
    ASSUME PInv, MessagesDV, NEW n, NEW l \in LinksOf(n), chan[l][n] # <<>>, Shifts(n, l)
    PROVE  MessagesDV'
<1>1. ASSUME NEW x \in Nodes, NEW k \in LinksOf(x), NEW i \in 1 .. Len(chan'[k][x])
      PROVE  FromNeighbor(NextTo(x, k), chan'[k][x][i])
  <2>1. chan[k][x] \in Seq(Update) /\ chan[l][n] \in Seq(Update)
    BY ChanOf DEF PInv
  <2>2. CASE k = l /\ x = n
    <3>2. chan'[k][x] = Tail(chan[l][n])
      BY <2>2, OneLessOnItsWay
    <3>1. i + 1 \in 1 .. Len(chan[l][n]) /\ chan'[k][x][i] = chan[l][n][i + 1]
      BY <2>1, <3>2, Taken
    <3> QED BY <2>2, <3>1 DEF MessagesDV
  <2>3. CASE ~(k = l /\ x = n)
    <3>1. chan'[k][x] = chan[k][x]
      BY <2>3, OneLessOnItsWay
    <3> QED BY <3>1 DEF MessagesDV
  <2> QED BY <2>2, <2>3
<1> QED BY <1>1 DEF MessagesDV

LEMMA MessagesLost ==
    ASSUME PInv, MessagesDV, NEW n, NEW l \in LinksOf(n), Clears(n, l)
    PROVE  MessagesDV'
<1>1. ASSUME NEW x \in Nodes, NEW k \in LinksOf(x), NEW i \in 1 .. Len(chan'[k][x])
      PROVE  FromNeighbor(NextTo(x, k), chan'[k][x][i])
  <2>1. chan'[k][x] = IF k = l /\ x = n THEN <<>> ELSE chan[k][x]
    BY NothingOnItsWay
  <2>2. ~(k = l /\ x = n)
    BY <2>1
  <2> QED BY <2>1, <2>2 DEF MessagesDV
<1> QED BY <1>1 DEF MessagesDV

LEMMA MessagesSent ==
    ASSUME PInv, MessagesDV, RoutesDV, IsDV, NEW n \in Nodes, Sending(n)
    PROVE  MessagesDV'
<1>1. ASSUME NEW x \in Nodes, NEW k \in LinksOf(x), NEW i \in 1 .. Len(chan'[k][x])
      PROVE  FromNeighbor(NextTo(x, k), chan'[k][x][i])
  <2>1. chan[k][x] \in Seq(Update)
    BY ChanOf DEF PInv
  <2>2. CASE chan'[k][x] = chan[k][x]
    BY <2>2 DEF MessagesDV
  <2>3. CASE chan'[k][x] # chan[k][x]
    <3>1. /\ k \in LinksOf(n) /\ x = NextTo(n, k)
          /\ chan'[k][x] = chan[k][x] \o SentOver(n, k)
      BY <2>3, OneMoreOnItsWay
    <3>2. NextTo(x, k) = n
      BY <3>1, EndsOfLinks
    <3>3. x \in Adjacent(node[n]) /\ SentOver(n, k) = <<UpdateFor(n, x)>>
      <4>1. chan[k][x] \o <<>> = chan[k][x]
        BY <2>1
      <4> QED BY <2>3, <3>1, <4>1 DEF SentOver
    <3>4. SaidDV(n, UpdateFor(n, x))
      BY <3>3, UpdateDV
    <3> DEFINE u == UpdateFor(n, x)
    <3> HIDE DEF u
    <3>5. u \in Update /\ FromNeighbor(n, u)
      BY <3>4, UpdateOf DEF SaidDV, u, FromNeighbor
    <3>6. chan'[k][x] = chan[k][x] \o <<u>>
      BY <3>1, <3>3 DEF u
    <3>7. CASE i \in 1 .. Len(chan[k][x])
      <4>1. chan'[k][x][i] = chan[k][x][i]
        BY <2>1, <3>5, <3>6, <3>7, Added
      <4> QED BY <3>7, <4>1 DEF MessagesDV
    <3>8. CASE i = Len(chan[k][x]) + 1
      <4>1. chan'[k][x][i] = u
        BY <2>1, <3>5, <3>6, <3>8, Added
      <4> QED BY <3>2, <3>5, <4>1
    <3> QED BY <2>1, <3>5, <3>6, <3>7, <3>8, Added
  <2> QED BY <2>2, <2>3
<1> QED BY <1>1 DEF MessagesDV

\* Every step preserves the ports, the routes and their entries.
DVStep == PInv' /\ DVInv'

LEMMA DVKept ==
    ASSUME PInv', case' = case, IsDV => RoutesDV' /\ MessagesDV'
    PROVE  DVStep
<1>1. IsDV' <=> IsDV
  BY CaseKept
<1> QED BY <1>1, PartsOfDV DEF DVStep

LEMMA DVCreates ==
    ASSUME PInv, DVInv, NEW l \in Links, CreateNM1Flow(l) \/ CreateNM1FlowWithoutAllocate(l)
    PROVE  DVStep
<1>1. chan' = chan /\ case' = case /\ cut' = cut
  BY DEF CreateNM1Flow, CreateNM1FlowWithoutAllocate
<1>2. PICK n \in Nodes : /\ l \in LinksOf(n) /\ NextTo(n, l) \in Nodes /\ NextTo(n, l) # n
                         /\ l \in case.links /\ Gains(n, NextTo(n, l), l) /\ PInv'
  <2>1. CASE CreateNM1Flow(l)
    BY <2>1, Creates
  <2>2. CASE CreateNM1FlowWithoutAllocate(l)
    BY <2>2, Accepts
  <2> QED BY <2>1, <2>2
<1>3. ASSUME IsDV
      PROVE  RoutesDV' /\ MessagesDV'
  <2>1. RoutesDV /\ MessagesDV
    BY <1>3, PartsOfDV
  <2>2. RoutesDV'
    BY <1>1, <1>2, <1>3, <2>1, RoutesGained
  <2>3. MessagesDV'
    BY <1>1, <2>1 DEF MessagesDV
  <2> QED BY <2>2, <2>3
<1> QED BY <1>1, <1>2, <1>3, DVKept

LEMMA DVReleases ==
    ASSUME PInv, DVInv, NEW l \in Links,
           DeleteRequestFlow(l) \/ \E n \in Nodes : RemoveNM1Flow(l, n)
    PROVE  DVStep
<1>1. PICK n \in {Ends[l][1], Ends[l][2]}, p \in {"none", "released"} :
        /\ HasPort(n, l) /\ RemoveNM1FlowBindings(n, l)
        /\ phase' = [phase EXCEPT ![l] = p] /\ cut' = TRUE
        /\ p = "none" => phase[l] = "released"
        /\ p = "released" => phase[l] = "established"
  <2>1. CASE DeleteRequestFlow(l)
    <3>1. PICK n \in {Ends[l][1], Ends[l][2]} :
            /\ HasPort(n, l) /\ RemoveNM1FlowBindings(n, l)
            /\ phase' = [phase EXCEPT ![l] = "none"] /\ cut' = TRUE
            /\ phase[l] = "released"
      BY <2>1, Deletion
    <3>2. "none" # "released"
      OBVIOUS
    <3> QED BY <3>1, <3>2
  <2>2. CASE \E n \in Nodes : RemoveNM1Flow(l, n)
    <3>1. PICK n \in Nodes : RemoveNM1Flow(l, n)
      BY <2>2
    <3>2. "none" # "released"
      OBVIOUS
    <3> QED BY <3>1, <3>2, Removal
  <2> QED BY <2>1, <2>2
<1>2. /\ n \in Nodes /\ l \in LinksOf(n) /\ NextTo(n, l) \in Nodes /\ NextTo(n, l) # n
      /\ Loses(n, NextTo(n, l), l) /\ PInv'
  BY <1>1, Releases
<1>3. Clears(n, l) /\ case' = case
  BY <1>1 DEF RemoveNM1FlowBindings, Clears, Replaces
<1>4. ASSUME IsDV
      PROVE  RoutesDV' /\ MessagesDV'
  <2>1. RoutesDV /\ MessagesDV
    BY <1>4, PartsOfDV
  <2>2. RoutesDV'
    BY <1>1, <1>2, <1>3, <1>4, <2>1, RoutesLost
  <2>3. MessagesDV'
    BY <1>2, <1>3, <2>1, MessagesLost
  <2> QED BY <2>2, <2>3
<1> QED BY <1>2, <1>3, <1>4, DVKept

LEMMA DVTells ==
    ASSUME PInv, DVInv, NEW n \in Nodes, Time2Update(n)
    PROVE  DVStep
<1>1. Says(n) /\ Sending(n) /\ PInv' /\ case' = case /\ cut' = cut
  BY Sends
<1>2. ASSUME IsDV
      PROVE  RoutesDV' /\ MessagesDV'
  <2>1. RoutesDV /\ MessagesDV
    BY <1>2, PartsOfDV
  <2> QED BY <1>1, <1>2, <2>1, RoutesSaid, MessagesSent
<1> QED BY <1>1, <1>2, DVKept

LEMMA DVHears ==
    ASSUME PInv, DVInv, NEW n \in Nodes, NEW l, ReceiveRoutingUpdate(n, l)
    PROVE  DVStep
<1> DEFINE up == Head(chan[l][n])
<1>1. /\ l \in LinksOf(n) /\ HasPort(n, l) /\ chan[l][n] \in Seq(Update) /\ chan[l][n] # <<>>
      /\ up \in Update /\ Takes(n, up)
      /\ Shifts(n, l) /\ PInv' /\ case' = case /\ cut' = cut
  BY Receives DEF Shifts, Replaces
<1>2. ASSUME IsDV
      PROVE  RoutesDV' /\ MessagesDV'
  <2>1. RoutesDV /\ MessagesDV
    BY <1>2, PartsOfDV
  <2>2. up = chan[l][n][1] /\ 1 \in 1 .. Len(chan[l][n])
    BY <1>1, Taken
  <2> HIDE DEF up
  <2>3. FromNeighbor(NextTo(n, l), up)
    BY <1>1, <2>1, <2>2 DEF MessagesDV
  <2>4. up \in DV!Updates /\ NextTo(n, l) \in Nodes
    BY <1>1, <1>2, UpdateOf, EndsOfLinks
  <2>5. RoutesDV'
    BY <1>1, <1>2, <2>1, <2>3, <2>4, RoutesTaken
  <2> QED BY <1>1, <2>1, <2>5, MessagesTaken
<1> QED BY <1>1, <1>2, DVKept

-----------------------------------------------------------------------------
(* While no flow is removed.                                                 *)

LEMMA TableType ==
    ASSUME PInv, IsDV
    PROVE  \A n \in Nodes : Table(n) \in [Nodes -> DV!RtEntry]
BY DVTable DEF Table

LEMMA Metrics ==
    ASSUME NEW T \in [Nodes -> DV!RtEntry], NEW d \in Nodes
    PROVE  /\ T[d].metric \in Nat /\ T[d].metric >= 1
           /\ T[d].addr # 0 => T[d].metric < InfMetric
BY EntryType

LEMMA OnTheWayDV ==
    ASSUME PInv, IsDV, NEW n \in Nodes, NEW l \in LinksOf(n), NEW i \in 1 .. Len(chan[l][n])
    PROVE  chan[l][n][i] \in DV!Updates
<1>1. chan[l][n] \in Seq(DV!Updates)
  BY ChanOf, UpdateOf DEF PInv
<1> QED BY <1>1

NoFarther(S, T) == \A d \in Nodes : T[d].metric <= S[d].metric

LEMMA StillBehind ==
    ASSUME NEW S \in [Nodes -> DV!RtEntry], NEW T \in [Nodes -> DV!RtEntry], NoFarther(S, T),
           NEW m, NEW up \in DV!Updates, Behind(S, m, up)
    PROVE  Behind(T, m, up)
<1>1. ASSUME NEW d \in DOMAIN up.entries, d # m
      PROVE  up.entries[d] > T[d].metric
  <2>1. d \in Nodes /\ up.entries[d] \in Nat
    BY UpdateType
  <2>2. S[d].metric \in Nat /\ T[d].metric \in Nat
    BY <2>1, Metrics
  <2>3. up.entries[d] > S[d].metric /\ T[d].metric <= S[d].metric
    BY <1>1, <2>1 DEF Behind, NoFarther
  <2> QED BY <2>1, <2>2, <2>3
<1> QED BY <1>1 DEF Behind

\* Routes that get better, by steps of one IPCP, which leave the others as they are.
LEMMA GettingBetter ==
    ASSUME PInv, PInv', IsDV, case' = case, NEW n \in Nodes, OthersStay(n),
           NoFarther(Table(n), Table(n)')
    PROVE  /\ \A x \in Nodes : Table(x) \in [Nodes -> DV!RtEntry]
           /\ \A x \in Nodes : Table(x)' \in [Nodes -> DV!RtEntry]
           /\ \A x \in Nodes : NoFarther(Table(x), Table(x)')
           /\ \A x \in Nodes \ {n} : Table(x)' = Table(x)
<1>1. \A x \in Nodes : Table(x) \in [Nodes -> DV!RtEntry]
  BY TableType
<1>2. \A x \in Nodes : Table(x)' \in [Nodes -> DV!RtEntry]
  <2>1. \A x \in Nodes : IPCP(x, node'[x])
    BY CaseKept DEF PInv, Typed
  <2> QED BY <2>1 DEF IPCP, DVFits, Table
<1>3. \A x \in Nodes \ {n} : Table(x)' = Table(x)
  BY DEF OthersStay, Table
<1>4. ASSUME NEW x \in Nodes
      PROVE  NoFarther(Table(x), Table(x)')
  <2>1. CASE x = n
    BY <2>1
  <2>2. CASE x # n
    <3>1. Table(x)' = Table(x) /\ Table(x) \in [Nodes -> DV!RtEntry]
      BY <1>1, <1>3, <2>2
    <3>2. ASSUME NEW d \in Nodes
          PROVE  Table(x)[d].metric <= Table(x)[d].metric
      <4>1. PICK T \in [Nodes -> DV!RtEntry] : T = Table(x)
        BY <3>1
      <4>2. T[d].metric \in Nat
        BY Metrics
      <4> QED BY <4>1, <4>2
    <3> QED BY <3>1, <3>2 DEF NoFarther
  <2> QED BY <2>1, <2>2
<1> QED BY <1>1, <1>2, <1>3, <1>4

Closer(n, T) ==
    \A d \in Nodes : LET route == T[d] IN
        route.addr \notin {0, d} => /\ route.addr \in Nodes \ {n}
                                    /\ Table(route.addr)[d].metric < route.metric

LEMMA StillNearer ==
    ASSUME PInv, PInv', IsDV, case' = case, NEW n \in Nodes, OthersStay(n),
           NoFarther(Table(n), Table(n)'), \A x, d \in Nodes : Nearer(x, d),
           RoutesDV, Closer(n, Table(n)')
    PROVE  \A x, d \in Nodes : Nearer(x, d)'
<1>1. /\ \A x \in Nodes : Table(x) \in [Nodes -> DV!RtEntry]
      /\ \A x \in Nodes : Table(x)' \in [Nodes -> DV!RtEntry]
      /\ \A x \in Nodes : NoFarther(Table(x), Table(x)')
      /\ \A x \in Nodes \ {n} : Table(x)' = Table(x)
  BY GettingBetter
<1>2. ASSUME NEW x \in Nodes, NEW d \in Nodes,
             NEW nh, nh = Table(x)'[d].addr, nh \notin {0, d}
      PROVE  Table(nh)'[d].metric < Table(x)'[d].metric
  <2>1. nh \in Nodes /\ Table(nh)[d].metric < Table(x)'[d].metric
    <3>1. CASE x = n
      BY <1>2, <3>1 DEF Closer
    <3>2. CASE x # n
      <4>1. Table(x)' = Table(x) /\ Nearer(x, d)
        BY <1>1, <3>2
      <4>2. Table(x)[d] \in DV!RtEntry /\ Table(x)[d].addr = nh
        BY <1>1, <1>2, <4>1
      <4>3. nh \in Nodes
        BY <1>2, <4>2, EntryType
      <4> QED BY <1>2, <4>1, <4>2, <4>3 DEF Nearer
    <3> QED BY <3>1, <3>2
  <2>2. /\ Table(nh)' \in [Nodes -> DV!RtEntry] /\ Table(nh) \in [Nodes -> DV!RtEntry]
        /\ Table(nh)'[d].metric <= Table(nh)[d].metric
    BY <1>1, <2>1 DEF NoFarther
  <2>3. Table(nh)'[d].metric \in Nat /\ Table(nh)[d].metric \in Nat /\ Table(x)'[d].metric \in Nat
    BY <1>1, <2>2, Metrics
  <2> QED BY <2>1, <2>2, <2>3
<1> QED BY <1>2, Zenon DEF Nearer, Table

OneWays == \A n \in Nodes : \A l \in LinksOf(n) : OneWay(l, n)
InTurns == \A n \in Nodes : \A l \in LinksOf(n) : InTurn(l, n)
AllNearer == \A n, d \in Nodes : Nearer(n, d)

LEMMA PartsOfGrowing ==
    /\ Growing <=> (IsDV /\ ~cut => OneWays /\ InTurns /\ AllNearer)
    /\ (Growing <=> (IsDV /\ ~cut => OneWays /\ InTurns /\ AllNearer))'
BY DEF Growing, OneWays, InTurns, AllNearer

\* Where there was nothing on its way there is nothing, and entries for neighbors stay.
LEMMA StillOneWay ==
    ASSUME OneWays,
           \A x \in Nodes : \A k \in LinksOf(x) : chan[k][x] = <<>> => chan'[k][x] = <<>>,
           \A y, x \in Nodes : node[y].neighbours[x] # {} =>
              node'[y].fwd[x] = node[y].fwd[x] /\ node'[y].neighbours[x] # {}
    PROVE  OneWays'
<1>1. ASSUME NEW x \in Nodes, NEW k \in LinksOf(x), NEW y, y = NextTo(x, k), chan'[k][x] # <<>>
      PROVE  node'[y].fwd[x] = k /\ node'[y].neighbours[x] # {}
  <2>1. y \in Nodes
    BY <1>1, EndsOfLinks
  <2>2. node[y].fwd[x] = k /\ node[y].neighbours[x] # {}
    BY <1>1 DEF OneWays, OneWay
  <2> QED BY <2>1, <2>2
<1> QED BY <1>1 DEF OneWays, OneWay

LEMMA TurnOf ==
    ASSUME PInv, IsDV, InTurns, MessagesDV, NEW x \in Nodes, NEW k \in LinksOf(x),
           NEW m, m = NextTo(x, k), NEW i \in 1 .. Len(chan[k][x]), NEW up, up = chan[k][x][i]
    PROVE  /\ m \in Nodes /\ m # x /\ m # 0
           /\ up \in DV!Updates /\ FromNeighbor(m, up)
           /\ Behind(Table(m), m, up) /\ Ahead(Table(x), m, up)
           /\ \A j \in i .. Len(chan[k][x]) : NoWorse(up, chan[k][x][j])
<1>1. up \in DV!Updates
  BY OnTheWayDV
<1>2. m \in Nodes /\ m # x /\ m # 0
  BY EndsOfLinks
<1>3. FromNeighbor(m, up)
  BY DEF MessagesDV
<1>4. InTurn(k, x)
  BY DEF InTurns
<1> QED BY <1>1, <1>2, <1>3, <1>4 DEF InTurn

\* The routes of the sender get better.
LEMMA StillBehindSender ==
    ASSUME PInv, PInv', IsDV, case' = case, NEW n \in Nodes, OthersStay(n),
           NoFarther(Table(n), Table(n)'), NEW m \in Nodes, NEW up \in DV!Updates,
           Behind(Table(m), m, up)
    PROVE  Behind(Table(m)', m, up)
<1>1. /\ Table(m) \in [Nodes -> DV!RtEntry] /\ Table(m)' \in [Nodes -> DV!RtEntry]
      /\ NoFarther(Table(m), Table(m)')
  BY GettingBetter
<1> QED BY <1>1, StillBehind

LEMMA GrowingGained ==
    ASSUME PInv, PInv', RoutesDV, MessagesDV, IsDV, case' = case, chan' = chan,
           OneWays, InTurns, AllNearer, NEW n \in Nodes, NEW l \in LinksOf(n),
           NEW m \in Nodes, m = NextTo(n, l), m # n, Gains(n, m, l)
    PROVE  OneWays' /\ InTurns' /\ AllNearer'
<1> DEFINE s == node[n]
           t == node'[n]
           S == Table(n)
           T == Table(n)'
           new == [addr |-> m, metric |-> 1]
<1>1. Inserts(n, s, m, l, t) /\ DVInserts(s, m, l, t) /\ OthersStay(n)
  BY DEF Gains
<1>2. /\ S = s.routing.table /\ T = t.routing.table /\ S \in [Nodes -> DV!RtEntry]
      /\ s.fwd \in [Nodes -> LinksOf(n) \cup {NoPort}]
  BY DVTable, TableType DEF Table
<1> HIDE DEF s, t, S, T
<1>3. /\ \A x \in Nodes : s.neighbours[x] # {} => t.neighbours[x] # {} /\ t.fwd[x] = s.fwd[x]
      /\ \A d \in Nodes : T[d] = S[d] \/ (d = m /\ T[d] = new)
  <2>1. \A x \in Nodes : s.neighbours[x] # {} => t.neighbours[x] # {}
    BY <1>1 DEF Inserts
  <2>2. CASE s.neighbours[m] # {}
    <3>1. t.routing.table = s.routing.table /\ t.fwd = s.fwd
      BY <1>1, <2>2 DEF DVInserts
    <3> QED BY <1>2, <2>1, <3>1
  <2>3. CASE s.neighbours[m] = {}
    <3>1. T = [S EXCEPT ![m] = new] /\ t.fwd = [s.fwd EXCEPT ![m] = l]
      BY <1>1, <1>2, <2>3 DEF DVInserts
    <3> HIDE DEF new
    <3> QED BY <1>2, <2>1, <2>3, <3>1
  <2> QED BY <2>2, <2>3
<1>4. NoFarther(S, T)
  <2>1. ASSUME NEW d \in Nodes
        PROVE  T[d].metric <= S[d].metric
    <3>1. S[d].metric \in Nat /\ S[d].metric >= 1 /\ new.metric = 1
      BY <1>2, Metrics
    <3> HIDE DEF new
    <3>2. T[d] = S[d] \/ T[d] = new
      BY <1>3
    <3> QED BY <3>1, <3>2
  <2> QED BY <2>1 DEF NoFarther
<1>5. OneWays'
  <2>1. ASSUME NEW y \in Nodes, NEW x \in Nodes, node[y].neighbours[x] # {}
        PROVE  node'[y].fwd[x] = node[y].fwd[x] /\ node'[y].neighbours[x] # {}
    <3>1. CASE y = n
      BY <1>3, <2>1, <3>1 DEF s, t
    <3>2. CASE y # n
      BY <1>1, <2>1, <3>2 DEF OthersStay
    <3> QED BY <3>1, <3>2
  <2> QED BY <2>1, StillOneWay
<1>6. Closer(n, T)
  <2>1. ASSUME NEW d \in Nodes, T[d].addr \notin {0, d}
        PROVE  T[d].addr \in Nodes \ {n} /\ Table(T[d].addr)[d].metric < T[d].metric
    <3>1. new.addr = m
      OBVIOUS
    <3> HIDE DEF new
    <3>2. T[d] = S[d]
      BY <1>3, <2>1, <3>1
    <3>3. S[d].addr \in Nodes
      BY <1>2, <2>1, <3>2, EntryType
    <3>4. Nearer(n, d)
      BY DEF AllNearer
    <3>5. Table(S[d].addr)[d].metric < S[d].metric
      BY <2>1, <3>2, <3>4 DEF Nearer, S
    <3>6. S[d].addr # n
      <4>1. S[d].metric \in Nat
        BY <1>2, Metrics
      <4> QED BY <3>5, <4>1 DEF S
    <3> QED BY <3>2, <3>3, <3>5, <3>6
  <2> QED BY <2>1 DEF Closer
<1>7. AllNearer'
  BY <1>1, <1>4, <1>6, StillNearer DEF S, T, AllNearer
<1>8. InTurns'
  <2>1. ASSUME NEW x \in Nodes, NEW k \in LinksOf(x), NEW y, y = NextTo(x, k),
               NEW i \in 1 .. Len(chan[k][x]), NEW up, up = chan[k][x][i]
        PROVE  /\ Behind(Table(y)', y, up) /\ Ahead(Table(x)', y, up)
               /\ \A j \in i .. Len(chan[k][x]) : NoWorse(up, chan[k][x][j])
    <3>1. /\ y \in Nodes /\ up \in DV!Updates /\ FromNeighbor(y, up)
          /\ Behind(Table(y), y, up) /\ Ahead(Table(x), y, up)
          /\ \A j \in i .. Len(chan[k][x]) : NoWorse(up, chan[k][x][j])
      BY <2>1, TurnOf
    <3>2. Behind(Table(y)', y, up)
      BY <1>1, <1>4, <3>1, StillBehindSender DEF S, T
    <3>3. Ahead(Table(x)', y, up)
      <4>1. CASE x = n
        <5>1. ASSUME NEW d \in DOMAIN up.entries, T[d].addr = y
              PROVE  up.entries[d] <= T[d].metric
          <6>1. d \in Nodes
            BY <3>1, UpdateType
          <6>2. CASE T[d] = S[d]
            BY <3>1, <4>1, <5>1, <6>2 DEF Ahead, S
          <6>3. CASE d = m /\ T[d] = new
            <7>1. y = d /\ T[d].metric = 1
              BY <5>1, <6>3
            <7>2. up.entries[d] = 1
              BY <3>1, <7>1 DEF FromNeighbor
            <7> QED BY <7>1, <7>2
          <6> QED BY <1>3, <6>1, <6>2, <6>3
        <5> QED BY <4>1, <5>1 DEF Ahead, T
      <4>2. CASE x # n
        <5>1. Table(x)' = Table(x)
          BY <1>1, <4>2 DEF OthersStay, Table
        <5> QED BY <3>1, <5>1
      <4> QED BY <4>1, <4>2
    <3> QED BY <3>1, <3>2, <3>3
  <2> QED BY <2>1 DEF InTurns, InTurn, Table
<1> QED BY <1>5, <1>7, <1>8

LEMMA GrowingSaid ==
    ASSUME PInv, PInv', RoutesDV, MessagesDV, IsDV, case' = case,
           OneWays, InTurns, AllNearer, NEW n \in Nodes, Says(n), Sending(n)
    PROVE  OneWays' /\ InTurns' /\ AllNearer'
<1>1. /\ OthersStay(n) /\ Table(n)' = Table(n) /\ node'[n].fwd = node[n].fwd
      /\ node'[n].neighbours = node[n].neighbours
  BY DEF Says, DVSends, Table
<1>2. \A x \in Nodes : /\ Table(x)' = Table(x) /\ node'[x].fwd = node[x].fwd
                       /\ node'[x].neighbours = node[x].neighbours
  <2>1. ASSUME NEW x \in Nodes, x # n
        PROVE  /\ Table(x)' = Table(x) /\ node'[x].fwd = node[x].fwd
               /\ node'[x].neighbours = node[x].neighbours
    BY <1>1, <2>1, Zenon DEF OthersStay, Table
  <2> QED BY <1>1, <2>1, Zenon
<1>3. AllNearer'
  <2>1. ASSUME NEW x \in Nodes, NEW d \in Nodes,
               NEW nh, nh = Table(x)'[d].addr, nh \notin {0, d}
        PROVE  Table(nh)'[d].metric < Table(x)'[d].metric
    <3>1. Table(x)[d] \in DV!RtEntry /\ Table(x)[d].addr = nh
      BY <1>2, <2>1, TableType
    <3>2. nh \in Nodes
      BY <2>1, <3>1, EntryType
    <3>3. Nearer(x, d)
      BY DEF AllNearer
    <3> QED BY <1>2, <2>1, <3>1, <3>2, <3>3 DEF Nearer
  <2> QED BY <2>1, Zenon DEF AllNearer, Nearer, Table
<1> DEFINE sent(x, k) == /\ k \in LinksOf(n) /\ x = NextTo(n, k) /\ NextTo(x, k) = n
                         /\ x \in Adjacent(node[n]) /\ node[n].fwd[x] = k
                         /\ chan'[k][x] = chan[k][x] \o <<UpdateFor(n, x)>>
<1>4. ASSUME NEW x \in Nodes, NEW k \in LinksOf(x)
      PROVE  chan'[k][x] = chan[k][x] \/ sent(x, k)
  <2>1. CASE /\ k \in LinksOf(n) /\ phase[k] # "released" /\ x = NextTo(n, k)
             /\ x \in Adjacent(node[n]) /\ node[n].fwd[x] = k
    <3>1. chan'[k][x] = chan[k][x] \o SentOver(n, k)
      BY <2>1, OneMoreOnItsWay
    <3>2. SentOver(n, k) = <<UpdateFor(n, x)>> /\ NextTo(x, k) = n
      BY <2>1, EndsOfLinks DEF SentOver
    <3> QED BY <2>1, <3>1, <3>2
  <2>2. CASE ~(/\ k \in LinksOf(n) /\ phase[k] # "released" /\ x = NextTo(n, k)
               /\ x \in Adjacent(node[n]) /\ node[n].fwd[x] = k)
    <3>1. chan[k][x] \in Seq(Update)
      BY ChanOf DEF PInv
    <3>2. chan[k][x] \o <<>> = chan[k][x]
      BY <3>1
    <3>3. CASE k \in LinksOf(n) /\ phase[k] # "released" /\ x = NextTo(n, k)
      <4>1. chan'[k][x] = chan[k][x] \o SentOver(n, k)
        BY <3>3, OneMoreOnItsWay
      <4>2. SentOver(n, k) = <<>>
        BY <2>2, <3>3 DEF SentOver
      <4> QED BY <3>2, <4>1, <4>2
    <3>4. CASE ~(k \in LinksOf(n) /\ phase[k] # "released" /\ x = NextTo(n, k))
      BY <3>4, OneMoreOnItsWay
    <3> QED BY <3>3, <3>4
  <2> QED BY <2>1, <2>2
<1>5. OneWays'
  <2>1. ASSUME NEW x \in Nodes, NEW k \in LinksOf(x), NEW y, y = NextTo(x, k), chan'[k][x] # <<>>
        PROVE  node'[y].fwd[x] = k /\ node'[y].neighbours[x] # {}
    <3>1. y \in Nodes
      BY <2>1, EndsOfLinks
    <3>2. CASE chan'[k][x] = chan[k][x]
      <4>1. node[y].fwd[x] = k /\ node[y].neighbours[x] # {}
        BY <2>1, <3>2 DEF OneWays, OneWay
      <4> QED BY <1>2, <3>1, <4>1
    <3>3. CASE sent(x, k)
      BY <1>2, <2>1, <3>3 DEF Adjacent
    <3> QED BY <1>4, <3>2, <3>3
  <2> QED BY <2>1 DEF OneWays, OneWay
<1>6. InTurns'
  <2>1. ASSUME NEW x \in Nodes, NEW k \in LinksOf(x), NEW y, y = NextTo(x, k),
               NEW i \in 1 .. Len(chan'[k][x]), NEW j \in i .. Len(chan'[k][x])
        PROVE  /\ Behind(Table(y), y, chan'[k][x][i]) /\ Ahead(Table(x), y, chan'[k][x][i])
               /\ NoWorse(chan'[k][x][i], chan'[k][x][j])
    <3> DEFINE c == chan[k][x]
               c1 == chan'[k][x]
               u == UpdateFor(n, x)
    <3>1. c \in Seq(DV!Updates)
      BY ChanOf, UpdateOf DEF PInv
    <3>2. ASSUME NEW h \in 1 .. Len(c)
          PROVE  /\ y \in Nodes /\ y # 0 /\ c[h] \in DV!Updates /\ FromNeighbor(y, c[h])
                 /\ Behind(Table(y), y, c[h]) /\ Ahead(Table(x), y, c[h])
                 /\ \A g \in h .. Len(c) : NoWorse(c[h], c[g])
      BY <2>1, TurnOf
    <3>3. CASE c1 = c
      BY <2>1, <3>2, <3>3
    <3>4. CASE sent(x, k)
      <4>1. /\ y = n /\ k \in LinksOf(n) /\ x \in Adjacent(node[n]) /\ c1 = c \o <<u>>
        BY <2>1, <3>4
      <4>2. SaidDV(n, u)
        BY <4>1, UpdateDV
      <4> HIDE DEF u, c, c1
      <4>3. /\ u \in DV!Updates /\ u.src = n /\ n \in DOMAIN u.entries /\ u.entries[n] = 1
            /\ \A d \in DOMAIN u.entries \ {n} : /\ d \in Nodes /\ Table(n)[d] # DV!NoEntry
                                                 /\ u.entries[d] = Table(n)[d].metric + 1
        BY <4>2 DEF SaidDV
      <4>4. /\ Table(n) \in [Nodes -> DV!RtEntry] /\ Table(x) \in [Nodes -> DV!RtEntry]
            /\ DOMAIN u.entries \subseteq Nodes
        BY <4>3, TableType, UpdateType
      <4>5. Behind(Table(n), n, u)
        <5>1. ASSUME NEW d \in DOMAIN u.entries, d # n
              PROVE  u.entries[d] > Table(n)[d].metric
          <6>1. Table(n)[d].metric \in Nat /\ u.entries[d] = Table(n)[d].metric + 1
            BY <4>3, <4>4, <5>1, Metrics
          <6> QED BY <6>1
        <5> QED BY <5>1 DEF Behind
      <4>6. Ahead(Table(x), n, u)
        <5>1. ASSUME NEW d \in DOMAIN u.entries, Table(x)[d].addr = n
              PROVE  u.entries[d] <= Table(x)[d].metric
          <6>1. /\ d \in Nodes /\ Table(n)[d].metric \in Nat
                /\ Table(x)[d].metric \in Nat /\ Table(x)[d].metric >= 1
            BY <4>4, Metrics
          <6>2. CASE d = n
            BY <4>3, <6>1, <6>2
          <6>3. CASE d # n
            <7>1. Nearer(x, d) /\ n # 0
              BY <6>1, EndsOfLinks DEF AllNearer
            <7>2. Table(n)[d].metric < Table(x)[d].metric
              BY <5>1, <6>3, <7>1 DEF Nearer
            <7> QED BY <4>3, <6>1, <6>3, <7>2
          <6> QED BY <6>2, <6>3
        <5> QED BY <5>1 DEF Ahead
      <4>7. ASSUME NEW h \in 1 .. Len(c)
            PROVE  NoWorse(c[h], u)
        <5>1. /\ c[h] \in DV!Updates /\ FromNeighbor(n, c[h]) /\ Behind(Table(n), n, c[h])
          BY <3>2, <4>1 DEF c
        <5>2. ASSUME NEW d \in DOMAIN c[h].entries \cap DOMAIN u.entries
              PROVE  u.entries[d] <= c[h].entries[d]
          <6>1. d \in Nodes /\ c[h].entries[d] \in Nat /\ Table(n)[d].metric \in Nat
            BY <4>4, <5>1, UpdateType, Metrics
          <6>2. CASE d = n
            BY <4>3, <5>1, <6>1, <6>2 DEF FromNeighbor
          <6>3. CASE d # n
            <7>1. c[h].entries[d] > Table(n)[d].metric
              BY <5>1, <6>3 DEF Behind
            <7> QED BY <4>3, <6>1, <6>3, <7>1
          <6> QED BY <6>2, <6>3
        <5> QED BY <5>2 DEF NoWorse
      <4>8. NoWorse(u, u)
        <5>1. \A d \in DOMAIN u.entries : u.entries[d] \in Nat
          BY <4>3, UpdateType
        <5> QED BY <5>1 DEF NoWorse
      <4>9. /\ i \in 1 .. Len(c) \/ i = Len(c) + 1
            /\ j \in i .. Len(c) \/ j = Len(c) + 1
            /\ i = Len(c) + 1 => j = Len(c) + 1
            /\ i \in 1 .. Len(c) => c1[i] = c[i]
            /\ i \in 1 .. Len(c) /\ j \in i .. Len(c) => c1[j] = c[j]
            /\ c1[Len(c) + 1] = u
        <5>1. i \in 1 .. Len(c1) /\ j \in i .. Len(c1)
          BY DEF c1
        <5>2. Len(c1) = Len(c) + 1 /\ Len(c) \in Nat
          BY <3>1, <4>1, <4>3, Added
        <5> QED BY <3>1, <4>1, <4>3, <5>1, <5>2, Added
      <4>10. CASE i \in 1 .. Len(c)
        <5>1. /\ Behind(Table(y), y, c1[i]) /\ Ahead(Table(x), y, c1[i])
              /\ \A g \in i .. Len(c) : NoWorse(c1[i], c[g])
          BY <3>2, <4>9, <4>10 DEF c
        <5>2. NoWorse(c1[i], u)
          BY <4>7, <4>9, <4>10
        <5>3. NoWorse(c1[i], c1[j])
          BY <4>9, <4>10, <5>1, <5>2
        <5> QED BY <5>1, <5>3 DEF c1
      <4>11. CASE i = Len(c) + 1
        BY <4>1, <4>5, <4>6, <4>8, <4>9, <4>11 DEF c1
      <4> QED BY <4>9, <4>10, <4>11
    <3> QED BY <1>4, <3>3, <3>4
  <2>2. ASSUME NEW x \in Nodes, NEW k \in LinksOf(x), NEW y, y = NextTo(x, k),
               NEW i \in 1 .. Len(chan'[k][x])
        PROVE  /\ Behind(Table(y)', y, chan'[k][x][i]) /\ Ahead(Table(x)', y, chan'[k][x][i])
               /\ \A j \in i .. Len(chan'[k][x]) : NoWorse(chan'[k][x][i], chan'[k][x][j])
    <3>1. y \in Nodes
      BY <2>2, EndsOfLinks
    <3>2. i \in i .. Len(chan'[k][x])
      OBVIOUS
    <3>3. Behind(Table(y), y, chan'[k][x][i]) /\ Ahead(Table(x), y, chan'[k][x][i])
      BY <2>1, <2>2, <3>2
    <3>4. \A j \in i .. Len(chan'[k][x]) : NoWorse(chan'[k][x][i], chan'[k][x][j])
      BY <2>1, <2>2
    <3> QED BY <1>2, <3>1, <3>3, <3>4
  <2> QED BY <2>2 DEF InTurns, InTurn, Table
<1> QED BY <1>3, <1>5, <1>6

LEMMA GrowingTaken ==
    ASSUME PInv, PInv', RoutesDV, MessagesDV, IsDV, ~cut, case' = case,
           OneWays, InTurns, AllNearer, NEW n \in Nodes, NEW l \in LinksOf(n), HasPort(n, l),
           NEW m \in Nodes, m = NextTo(n, l), chan[l][n] # <<>>,
           NEW up, up = chan[l][n][1], Takes(n, up), Shifts(n, l)
    PROVE  OneWays' /\ InTurns' /\ AllNearer'
<1> DEFINE s == node[n]
           t == node'[n]
           S == Table(n)
           T == Table(n)'
           c == chan[l][n]
<1>1. /\ OthersStay(n) /\ t.neighbours = s.neighbours
      /\ \A d \in Nodes : DVTook(n, s, up, t, d)
  BY DEF Takes
<1>2. /\ S = s.routing.table /\ T = t.routing.table /\ S \in [Nodes -> DV!RtEntry]
      /\ Direct(n, s) /\ \A d \in Nodes : Forwarded(n, s, d)
  BY TableType DEF Table, RoutesDV
<1>3. c \in Seq(DV!Updates) /\ 1 \in 1 .. Len(c)
  BY ChanOf, UpdateOf, Taken DEF PInv
<1>4. /\ m # n /\ m # 0 /\ up \in DV!Updates /\ FromNeighbor(m, up)
      /\ Behind(Table(m), m, up) /\ Ahead(S, m, up)
      /\ \A j \in 1 .. Len(c) : NoWorse(up, c[j])
  BY <1>3, TurnOf
<1>5. up.src = m /\ DOMAIN up.entries \subseteq Nodes
  BY <1>4, UpdateType DEF FromNeighbor
<1> HIDE DEF s, t, S, T, c
<1> DEFINE Took(d) == /\ d \in DOMAIN up.entries /\ d # n /\ up.entries[d] < InfMetric
                      /\ T[d].addr = m /\ T[d].metric = up.entries[d]
                      /\ up.entries[d] <= S[d].metric
                      /\ S[d].addr = m \/ S[d].metric > up.entries[d]
                      /\ S[d].addr = m => t.fwd[d] = s.fwd[d]
\* Nothing is lost, and what is taken is no farther.
<1>6. ASSUME NEW d \in Nodes
      PROVE  (T[d] = S[d] /\ t.fwd[d] = s.fwd[d]) \/ Took(d)
  <2> DEFINE e == up.entries[d]
             new == [addr |-> m, metric |-> e]
  <2>1. \/ T[d] = S[d] /\ t.fwd[d] = s.fwd[d]
        \/ /\ d \in DOMAIN up.entries /\ e >= InfMetric
           /\ S[d].addr = m \/ S[d] = DV!NoEntry
           /\ T[d] = DV!NoEntry /\ t.fwd[d] = NoPort
        \/ /\ d \in DOMAIN up.entries /\ d # n /\ e < InfMetric /\ T[d] = new
           /\ S[d].addr = m /\ t.fwd[d] = s.fwd[d]
        \/ /\ d \in DOMAIN up.entries /\ d # n /\ e < InfMetric /\ T[d] = new
           /\ S[d].addr # m /\ S[d].metric > e
    <3>1. DVTook(n, s, up, t, d)
      BY <1>1
    <3> QED BY <1>2, <1>5, <3>1, Zenon DEF DVTook
  <2>2. new.addr = m /\ new.metric = e
    OBVIOUS
  <2> HIDE DEF new
  <2>3. d \in DOMAIN up.entries => e \in Nat
    BY <1>4, UpdateType
  <2>4. S[d].metric \in Nat /\ (S[d].addr # 0 => S[d].metric < InfMetric) /\ InfMetric \in Nat
    <3>1. S[d].metric \in Nat /\ (S[d].addr # 0 => S[d].metric < InfMetric)
      BY <1>2, Metrics
    <3> QED BY <3>1, EndsOfLinks
  <2>5. d \in DOMAIN up.entries /\ S[d].addr = m => e <= S[d].metric
    BY <1>4 DEF Ahead
  <2>6. CASE /\ d \in DOMAIN up.entries /\ e >= InfMetric
             /\ S[d].addr = m \/ S[d] = DV!NoEntry
             /\ T[d] = DV!NoEntry /\ t.fwd[d] = NoPort
    <3>1. S[d].addr # m
      BY <1>4, <2>3, <2>4, <2>5, <2>6
    <3>2. T[d] = S[d] /\ S[d].addr = 0
      BY <2>6, <3>1, EntryType
    <3>3. s.fwd[d] = NoPort
      BY <1>2, <3>2 DEF Forwarded
    <3> QED BY <2>6, <3>2, <3>3
  <2>7. CASE /\ d \in DOMAIN up.entries /\ d # n /\ e < InfMetric /\ T[d] = new
             /\ S[d].addr = m /\ t.fwd[d] = s.fwd[d]
    BY <2>2, <2>5, <2>7
  <2>8. CASE /\ d \in DOMAIN up.entries /\ d # n /\ e < InfMetric /\ T[d] = new
             /\ S[d].addr # m /\ S[d].metric > e
    BY <2>2, <2>3, <2>4, <2>8
  <2> QED BY <2>1, <2>6, <2>7, <2>8
<1> HIDE DEF Took
<1>7. NoFarther(S, T)
  <2>1. ASSUME NEW d \in Nodes
        PROVE  T[d].metric <= S[d].metric
    <3>1. S[d].metric \in Nat
      BY <1>2, Metrics
    <3> QED BY <1>6, <3>1 DEF Took
  <2> QED BY <2>1 DEF NoFarther
<1>8. OneWays'
  <2>1. ASSUME NEW x \in Nodes, s.neighbours[x] # {}
        PROVE  t.fwd[x] = s.fwd[x] /\ t.neighbours[x] # {}
    <3>1. S[x] = [addr |-> x, metric |-> 1]
      BY <1>2, <2>1 DEF Direct, Adjacent
    <3>2. S[x].addr = x /\ S[x].metric = 1
      BY <3>1
    <3>3. x \in DOMAIN up.entries => up.entries[x] \in Nat /\ up.entries[x] >= 1
      BY <1>4, UpdateType
    <3>4. Took(x) => S[x].addr = m
      BY <3>2, <3>3 DEF Took
    <3> QED BY <1>1, <1>6, <2>1, <3>4 DEF Took
  <2>2. ASSUME NEW y \in Nodes, NEW x \in Nodes, node[y].neighbours[x] # {}
        PROVE  node'[y].fwd[x] = node[y].fwd[x] /\ node'[y].neighbours[x] # {}
    <3>1. CASE y = n
      BY <2>1, <2>2, <3>1 DEF s, t
    <3>2. CASE y # n
      BY <1>1, <2>2, <3>2 DEF OthersStay
    <3> QED BY <3>1, <3>2
  <2>3. ASSUME NEW x \in Nodes, NEW k \in LinksOf(x), chan[k][x] = <<>>
        PROVE  chan'[k][x] = <<>>
    <3>1. ~(k = l /\ x = n)
      BY <2>3
    <3> QED BY <2>3, <3>1, OneLessOnItsWay
  <2> QED BY <2>2, <2>3, StillOneWay
<1>9. Closer(n, T)
  <2>1. ASSUME NEW d \in Nodes, T[d].addr \notin {0, d}
        PROVE  T[d].addr \in Nodes \ {n} /\ Table(T[d].addr)[d].metric < T[d].metric
    <3>1. CASE T[d] = S[d]
      <4>1. S[d].addr \in Nodes
        BY <1>2, <2>1, <3>1, EntryType
      <4>2. Nearer(n, d)
        BY DEF AllNearer
      <4>3. Table(S[d].addr)[d].metric < S[d].metric
        BY <2>1, <3>1, <4>2 DEF Nearer, S
      <4>4. S[d].addr # n
        <5>1. S[d].metric \in Nat
          BY <1>2, Metrics
        <5> QED BY <4>3, <5>1 DEF S
      <4> QED BY <3>1, <4>1, <4>3, <4>4
    <3>2. CASE Took(d)
      <4>1. /\ d \in DOMAIN up.entries /\ T[d].addr = m /\ T[d].metric = up.entries[d]
        BY <3>2 DEF Took
      <4>2. up.entries[d] > Table(m)[d].metric
        BY <1>4, <2>1, <4>1 DEF Behind
      <4>3. up.entries[d] \in Nat /\ Table(m)[d].metric \in Nat
        BY <1>4, <4>1, UpdateType, TableType, Metrics
      <4>4. Table(m)[d].metric < T[d].metric
        BY <4>1, <4>2, <4>3
      <4> QED BY <1>4, <4>1, <4>4
    <3> QED BY <1>6, <3>1, <3>2
  <2> QED BY <2>1 DEF Closer
<1>10. AllNearer'
  BY <1>1, <1>7, <1>9, StillNearer DEF S, T, AllNearer
<1>11. ASSUME NEW x \in Nodes, NEW k \in LinksOf(x), NEW y, y = NextTo(x, k),
              NEW i \in 1 .. Len(chan[k][x]), NEW u, u = chan[k][x][i]
       PROVE  Behind(Table(y)', y, u) /\ Ahead(Table(x)', y, u)
  <2>1. /\ y \in Nodes /\ y # 0 /\ u \in DV!Updates
        /\ Behind(Table(y), y, u) /\ Ahead(Table(x), y, u)
    BY <1>11, TurnOf
  <2>2. Behind(Table(y)', y, u)
    BY <1>1, <1>7, <2>1, StillBehindSender DEF S, T
  <2>3. Ahead(Table(x)', y, u)
    <3>1. CASE x # n
      <4>1. Table(x)' = Table(x)
        BY <1>1, <3>1 DEF OthersStay, Table
      <4> QED BY <2>1, <4>1
    <3>2. CASE x = n
      <4>1. ASSUME NEW d \in DOMAIN u.entries, T[d].addr = y
            PROVE  u.entries[d] <= T[d].metric
        <5>1. d \in Nodes
          BY <2>1, UpdateType
        <5>2. CASE T[d] = S[d]
          BY <2>1, <3>2, <4>1, <5>2 DEF Ahead, S
        <5>3. CASE Took(d)
          <6>1. d \in DOMAIN up.entries /\ T[d].metric = up.entries[d] /\ y = m
            BY <4>1, <5>3 DEF Took
          <6>2. k = l
            <7>1. chan[k][x] # <<>>
              BY <1>11
            <7>2. OneWay(k, n) /\ OneWay(l, n) /\ NextTo(n, k) = m /\ chan[k][n] # <<>>
              BY <1>11, <3>2, <6>1, <7>1 DEF OneWays
            <7> QED BY <7>2, Zenon DEF OneWay
          <6>3. NoWorse(up, u)
            BY <1>4, <1>11, <3>2, <6>2 DEF c
          <6> QED BY <4>1, <6>1, <6>3 DEF NoWorse
        <5> QED BY <1>6, <5>1, <5>2, <5>3
      <4> QED BY <3>2, <4>1 DEF Ahead, T
    <3> QED BY <3>1, <3>2
  <2> QED BY <2>2, <2>3
<1>12. InTurns'
  <2>1. ASSUME NEW x \in Nodes, NEW k \in LinksOf(x), NEW y, y = NextTo(x, k),
               NEW i \in 1 .. Len(chan'[k][x]), NEW j \in i .. Len(chan'[k][x])
        PROVE  /\ Behind(Table(y)', y, chan'[k][x][i]) /\ Ahead(Table(x)', y, chan'[k][x][i])
               /\ NoWorse(chan'[k][x][i], chan'[k][x][j])
    <3>1. ASSUME NEW h \in 1 .. Len(chan[k][x]), NEW g \in h .. Len(chan[k][x])
          PROVE  NoWorse(chan[k][x][h], chan[k][x][g])
      BY <2>1, TurnOf
    <3>2. CASE k = l /\ x = n
      <4>1. chan'[k][x] = Tail(c)
        BY <3>2, OneLessOnItsWay DEF c
      <4>2. c # <<>> /\ c = chan[k][x]
        BY <3>2 DEF c
      <4>3. /\ i + 1 \in 1 .. Len(c) /\ Tail(c)[i] = c[i + 1] /\ Tail(c)[j] = c[j + 1]
            /\ j + 1 \in i + 1 .. Len(c)
        <5>1. i \in 1 .. Len(Tail(c)) /\ j \in 1 .. Len(Tail(c)) /\ j >= i
          BY <4>1
        <5> QED BY <1>3, <4>2, <5>1, Taken
      <4> QED BY <1>11, <2>1, <3>1, <4>1, <4>2, <4>3
    <3>3. CASE ~(k = l /\ x = n)
      <4>1. chan'[k][x] = chan[k][x]
        BY <3>3, OneLessOnItsWay
      <4> QED BY <1>11, <2>1, <3>1, <4>1
    <3> QED BY <3>2, <3>3
  <2>2. ASSUME NEW x \in Nodes, NEW k \in LinksOf(x), NEW y, y = NextTo(x, k),
               NEW i \in 1 .. Len(chan'[k][x])
        PROVE  /\ Behind(Table(y)', y, chan'[k][x][i]) /\ Ahead(Table(x)', y, chan'[k][x][i])
               /\ \A j \in i .. Len(chan'[k][x]) : NoWorse(chan'[k][x][i], chan'[k][x][j])
    <3>1. i \in i .. Len(chan'[k][x])
      OBVIOUS
    <3>2. Behind(Table(y)', y, chan'[k][x][i]) /\ Ahead(Table(x)', y, chan'[k][x][i])
      BY <2>1, <2>2, <3>1
    <3>3. \A j \in i .. Len(chan'[k][x]) : NoWorse(chan'[k][x][i], chan'[k][x][j])
      BY <2>1, <2>2
    <3> QED BY <3>2, <3>3
  <2> QED BY <2>2 DEF InTurns, InTurn, Table
<1> QED BY <1>8, <1>10, <1>12

LEMMA GrowingKept ==
    ASSUME case' = case, IsDV /\ ~cut' => OneWays' /\ InTurns' /\ AllNearer'
    PROVE  Growing'
<1>1. IsDV' <=> IsDV
  BY CaseKept
<1> QED BY <1>1, PartsOfGrowing

LEMMA GrowingCreates ==
    ASSUME PInv, DVInv, Growing, NEW l \in Links,
           CreateNM1Flow(l) \/ CreateNM1FlowWithoutAllocate(l)
    PROVE  Growing'
<1>1. chan' = chan /\ case' = case /\ cut' = cut
  BY DEF CreateNM1Flow, CreateNM1FlowWithoutAllocate
<1>2. PICK n \in Nodes : /\ l \in LinksOf(n) /\ NextTo(n, l) \in Nodes /\ NextTo(n, l) # n
                         /\ Gains(n, NextTo(n, l), l) /\ PInv'
  <2>1. CASE CreateNM1Flow(l)
    BY <2>1, Creates
  <2>2. CASE CreateNM1FlowWithoutAllocate(l)
    BY <2>2, Accepts
  <2> QED BY <2>1, <2>2
<1>3. ASSUME IsDV, ~cut'
      PROVE  OneWays' /\ InTurns' /\ AllNearer'
  <2>1. RoutesDV /\ MessagesDV /\ OneWays /\ InTurns /\ AllNearer
    BY <1>1, <1>3, PartsOfDV, PartsOfGrowing
  <2> QED BY <1>1, <1>2, <1>3, <2>1, GrowingGained
<1> QED BY <1>1, <1>3, GrowingKept

LEMMA GrowingReleases ==
    ASSUME PInv, NEW l \in Links, DeleteRequestFlow(l) \/ \E n \in Nodes : RemoveNM1Flow(l, n)
    PROVE  Growing'
<1>1. cut' = TRUE
  BY Deletion, Removal
<1> QED BY <1>1, PartsOfGrowing

LEMMA GrowingTells ==
    ASSUME PInv, DVInv, Growing, NEW n \in Nodes, Time2Update(n)
    PROVE  Growing'
<1>1. Says(n) /\ Sending(n) /\ PInv' /\ case' = case /\ cut' = cut
  BY Sends
<1>2. ASSUME IsDV, ~cut'
      PROVE  OneWays' /\ InTurns' /\ AllNearer'
  <2>1. RoutesDV /\ MessagesDV /\ OneWays /\ InTurns /\ AllNearer
    BY <1>1, <1>2, PartsOfDV, PartsOfGrowing
  <2> QED BY <1>1, <1>2, <2>1, GrowingSaid
<1> QED BY <1>1, <1>2, GrowingKept

LEMMA GrowingHears ==
    ASSUME PInv, DVInv, Growing, NEW n \in Nodes, NEW l, ReceiveRoutingUpdate(n, l)
    PROVE  Growing'
<1> DEFINE up == Head(chan[l][n])
<1>1. /\ l \in LinksOf(n) /\ HasPort(n, l) /\ chan[l][n] \in Seq(Update) /\ chan[l][n] # <<>>
      /\ Takes(n, up) /\ Shifts(n, l) /\ PInv' /\ case' = case /\ cut' = cut
  BY Receives DEF Shifts, Replaces
<1>2. up = chan[l][n][1] /\ NextTo(n, l) \in Nodes
  BY <1>1, Taken, EndsOfLinks
<1> HIDE DEF up
<1>3. ASSUME IsDV, ~cut'
      PROVE  OneWays' /\ InTurns' /\ AllNearer'
  <2>1. RoutesDV /\ MessagesDV /\ OneWays /\ InTurns /\ AllNearer
    BY <1>1, <1>3, PartsOfDV, PartsOfGrowing
  <2> QED BY <1>1, <1>2, <1>3, <2>1, GrowingTaken
<1> QED BY <1>1, <1>3, GrowingKept

-----------------------------------------------------------------------------
(* The initial states, steps that change nothing, and all steps.             *)

DVHolds == PInv /\ DVInv /\ Growing

LEMMA DVFirst ==
    ASSUME NEW n \in Nodes
    PROVE  /\ DVFits(n, {}, DV!OnPolicyInit(n))
           /\ DV!OnPolicyInit(n).table = [d \in Nodes |-> DV!NoEntry]
<1> DEFINE r == DV!OnPolicyInit(n)
<1>1. r = [me |-> n, neig |-> <<>>, table |-> [d \in Nodes |-> DV!NoEntry], changes |-> <<>>,
           scheduledUpdate |-> TRUE, timer |-> TRUE]
  BY DEF DV!OnPolicyInit
<1>2. [m \in {} |-> 1] = <<>>
  BY NoKeys
<1>3. /\ DOMAIN r = DVNames /\ r.me = n /\ r.neig = <<>> /\ r.changes = <<>>
      /\ r.table = [d \in Nodes |-> DV!NoEntry] /\ r.timer = TRUE /\ r.scheduledUpdate = TRUE
  BY <1>1 DEF DVNames
<1> HIDE DEF r
<1>4. r.table \in [Nodes -> DV!RtEntry]
  BY <1>3, EntryType
<1>5. Timed(r)
  BY <1>3 DEF Timed
<1>6. DVFits(n, {}, r)
  BY <1>2, <1>3, <1>4, <1>5 DEF DVFits
<1> QED BY <1>3, <1>6 DEF r

LEMMA LSFirst ==
    ASSUME NEW n \in Nodes, NEW g \in BOOLEAN
    PROVE  LET r == LS!OnPolicyInit(n, g)
           IN  /\ LSFits(n, {}, r) /\ r.secId = 1 /\ r.lastChanges = {}
               /\ r.scheduledUpdate = g /\ r.timer = FALSE
               /\ r.netState = [k \in Nodes |-> [sId |-> 0, links |-> <<>>]]
               /\ r.table = [d \in Nodes |-> LS!Unreached]
<1> DEFINE r == LS!OnPolicyInit(n, g)
           none == [sId |-> 0, links |-> <<>>]
           netState == [k \in Nodes |-> none]
           table == [d \in Nodes |-> LS!Unreached]
<1>1. r = [me |-> n, neig |-> <<>>, netState |-> netState, secId |-> 1, lastChanges |-> {},
           table |-> table, changes |-> <<>>, scheduledUpdate |-> g, timer |-> FALSE]
  BY DEF LS!OnPolicyInit
<1>2. [m \in {} |-> 1] = <<>>
  BY NoKeys
<1>3. <<>> \in Ways
  BY <1>2 DEF Ways
<1>4. none \in LinkState
  BY <1>3 DEF LinkState
<1>5. LS!Unreached \in TreeEntry
  BY DEF LS!Unreached, TreeEntry
<1> HIDE DEF none
<1>6. netState \in [Nodes -> LinkState] /\ table \in [Nodes -> TreeEntry]
  BY <1>4, <1>5
<1> HIDE DEF netState, table
<1>7. /\ DOMAIN r = LSNames /\ r.me = n /\ r.neig = <<>> /\ r.changes = <<>>
      /\ r.netState = netState /\ r.secId = 1 /\ r.lastChanges = {} /\ r.table = table
      /\ r.scheduledUpdate = g /\ r.timer = FALSE
  BY <1>1 DEF LSNames
<1> HIDE DEF r
<1>8. Timed(r)
  BY <1>7 DEF Timed
<1>9. LSFits(n, {}, r)
  BY <1>2, <1>6, <1>7, <1>8 DEF LSFits
<1> QED BY <1>7, <1>9 DEF r, netState, none, table

LEMMA NodeFirst ==
    ASSUME NEW n \in Nodes
    PROVE  LET s == NewNode(n)
           IN  /\ IPCP(n, s) /\ s.neighbours = [m \in Nodes |-> {}]
               /\ s.fwd = [d \in Nodes |-> NoPort]
               /\ IsDV => s.routing = DV!OnPolicyInit(n)
               /\ ~IsDV => s.routing = LS!OnPolicyInit(n, n \in case.garbage)
<1> DEFINE s == NewNode(n)
           r == IF IsDV THEN DV!OnPolicyInit(n) ELSE LS!OnPolicyInit(n, n \in case.garbage)
           nb == [m \in Nodes |-> {}]
           fwd == [d \in Nodes |-> NoPort]
<1>1. s = [routing |-> r, neighbours |-> nb, fwd |-> fwd]
  BY DEF NewNode
<1>2. IF IsDV THEN DVFits(n, {}, r) ELSE LSFits(n, {}, r)
  <2>1. (n \in case.garbage) \in BOOLEAN
    OBVIOUS
  <2> QED BY <2>1, DVFirst, LSFirst
<1> HIDE DEF r
<1>3. DOMAIN s = SNames /\ s.routing = r /\ s.neighbours = nb /\ s.fwd = fwd
  BY <1>1 DEF SNames
<1> HIDE DEF s
<1>4. PortsOf(n, s) /\ Adjacent(s) = {}
  BY <1>3 DEF PortsOf, Adjacent
<1>5. s.fwd \in [Nodes -> LinksOf(n) \cup {NoPort}]
  BY <1>3
<1>6. IPCP(n, s)
  BY <1>2, <1>3, <1>4, <1>5 DEF IPCP
<1> QED BY <1>3, <1>6 DEF s, r

LEMMA InitPorts ==
    ASSUME Init
    PROVE  /\ PInv
           /\ \A n \in Nodes : node[n] = NewNode(n) /\ \A l \in LinksOf(n) : chan[l][n] = <<>>
<1>1. /\ case \in Cases /\ node = [n \in Nodes |-> NewNode(n)]
      /\ phase = [l \in Links |-> "none"]
      /\ chan = [l \in Links |-> [n \in {Ends[l][1], Ends[l][2]} |-> <<>>]]
      /\ opens = [l \in Links |-> 0] /\ cut = FALSE
      /\ owed = [n \in Nodes |-> [m \in Nodes |-> {}]] /\ aborted = FALSE
  BY DEF Init
<1>2. \A n \in Nodes : node[n] = NewNode(n)
  BY <1>1
<1>3. \A n \in Nodes : IPCP(n, node[n]) /\ node[n].neighbours = [m \in Nodes |-> {}]
  BY <1>2, NodeFirst
<1>4. Typed
  <2>1. <<>> \in Seq(Update)
    OBVIOUS
  <2>2. \A l \in Links : chan[l] \in [{Ends[l][1], Ends[l][2]} -> Seq(Update)]
    BY <1>1, <2>1
  <2> QED BY <1>1, <1>3, <2>2 DEF Typed
<1>5. ASSUME NEW l \in Links
      PROVE  PortsFit(l)
  <2>1. ~HasPort(Ends[l][1], l) /\ ~HasPort(Ends[l][2], l)
    <3>1. ASSUME NEW n \in {Ends[l][1], Ends[l][2]}
          PROVE  ~HasPort(n, l)
      <4>1. n \in Nodes /\ NextTo(n, l) \in Nodes
        BY EndsOfLinks DEF NextTo
      <4> QED BY <1>3, <4>1 DEF HasPort
    <3> QED BY <3>1
  <2>2. phase[l] = "none" /\ opens[l] = 0 /\ case.maxOpens \in Nat
    BY <1>1, RoutingAssumption
  <2> QED BY <2>1, <2>2 DEF PortsFit
<1>6. ASSUME NEW n \in Nodes, NEW l \in LinksOf(n)
      PROVE  chan[l][n] = <<>>
  <2>1. l \in Links /\ n \in {Ends[l][1], Ends[l][2]}
    BY EndsOfLinks
  <2> QED BY <1>1, <2>1
<1> QED BY <1>2, <1>4, <1>5, <1>6 DEF PInv

LEMMA InitDV ==
    ASSUME Init
    PROVE  DVHolds
<1>1. /\ PInv
      /\ \A n \in Nodes : node[n] = NewNode(n) /\ \A l \in LinksOf(n) : chan[l][n] = <<>>
  BY InitPorts
<1>2. ASSUME IsDV, NEW n \in Nodes
      PROVE  /\ Table(n) = [d \in Nodes |-> DV!NoEntry]
             /\ node[n].neighbours = [m \in Nodes |-> {}]
             /\ node[n].fwd = [d \in Nodes |-> NoPort]
  BY <1>1, <1>2, NodeFirst, DVFirst DEF Table
<1>3. ASSUME IsDV
      PROVE  RoutesDV /\ MessagesDV
  <2>1. ASSUME NEW n \in Nodes
        PROVE  Direct(n, node[n]) /\ \A d \in Nodes : Forwarded(n, node[n], d)
    BY <1>2, <1>3, EntryType DEF Direct, Forwarded, Adjacent, Table
  <2>2. ASSUME NEW n \in Nodes, NEW l \in LinksOf(n), NEW i \in 1 .. Len(chan[l][n])
        PROVE  FALSE
    BY <1>1
  <2> QED BY <2>1, <2>2 DEF RoutesDV, MessagesDV
<1>4. ASSUME IsDV
      PROVE  OneWays /\ InTurns /\ AllNearer
  <2>1. OneWays
    BY <1>1 DEF OneWays, OneWay
  <2>2. ASSUME NEW n \in Nodes, NEW l \in LinksOf(n), NEW i \in 1 .. Len(chan[l][n])
        PROVE  FALSE
    BY <1>1
  <2>3. InTurns
    BY <2>2 DEF InTurns, InTurn
  <2>4. ASSUME NEW n \in Nodes, NEW d \in Nodes
        PROVE  Nearer(n, d)
    <3>1. Table(n)[d].addr = 0
      BY <1>2, <1>4, EntryType
    <3> QED BY <3>1 DEF Nearer
  <2> QED BY <2>1, <2>3, <2>4 DEF AllNearer
<1> QED BY <1>1, <1>3, <1>4, PartsOfDV, PartsOfGrowing DEF DVHolds

LEMMA DVStutters ==
    ASSUME DVHolds, UNCHANGED vars
    PROVE  DVHolds'
<1>1. /\ case' = case /\ node' = node /\ phase' = phase /\ chan' = chan
      /\ opens' = opens /\ cut' = cut /\ owed' = owed /\ aborted' = aborted
  BY DEF vars
<1>2. PInv /\ DVInv /\ Growing
  BY DEF DVHolds
<1>3. (IsDV' <=> IsDV) /\ Update' = Update /\ \A n \in Nodes : IPCP(n, node[n])' <=> IPCP(n, node'[n])
  BY <1>1, CaseKept
<1>4. PInv'
  <2>1. Typed'
    BY <1>1, <1>2, <1>3 DEF PInv, Typed
  <2>2. \A l \in Links : PortsFit(l)'
    BY <1>1, <1>2 DEF PInv, PortsFit, HasPort
  <2> QED BY <2>1, <2>2 DEF PInv
<1>5. IsDV => RoutesDV' /\ MessagesDV'
  <2>1. (RoutesDV <=> RoutesDV') /\ (MessagesDV <=> MessagesDV')
    BY <1>1 DEF RoutesDV, MessagesDV, Direct, Forwarded
  <2> QED BY <1>2, <2>1, PartsOfDV
<1>6. IsDV /\ ~cut' => OneWays' /\ InTurns' /\ AllNearer'
  <2>1. (OneWays <=> OneWays') /\ (InTurns <=> InTurns') /\ (AllNearer <=> AllNearer')
    BY <1>1 DEF OneWays, OneWay, InTurns, InTurn, AllNearer, Nearer, Table
  <2> QED BY <1>1, <1>2, <2>1, PartsOfGrowing
<1>7. DVInv'
  BY <1>3, <1>5, PartsOfDV
<1>8. Growing'
  BY <1>3, <1>6, PartsOfGrowing
<1> QED BY <1>4, <1>7, <1>8 DEF DVHolds

LEMMA MembersAreNodes ==
    ASSUME PInv
    PROVE  Members \subseteq Nodes
<1>1. case.links \subseteq Links
  BY RoutingAssumption DEF PInv, Typed
<1>2. \A l \in Links : {Ends[l][1], Ends[l][2]} \subseteq Nodes
  BY EndsOfLinks
<1> QED BY <1>1, <1>2 DEF Members

LEMMA DVSteps ==
    ASSUME DVHolds, [Next]_vars
    PROVE  DVHolds'
<1>1. PInv /\ DVInv /\ Growing
  BY DEF DVHolds
<1>2. ASSUME NEW l \in Links, CreateNM1Flow(l) \/ CreateNM1FlowWithoutAllocate(l)
      PROVE  DVHolds'
  BY <1>1, <1>2, DVCreates, GrowingCreates DEF DVHolds, DVStep
<1>3. ASSUME NEW l \in Links, DeleteRequestFlow(l) \/ \E n \in Nodes : RemoveNM1Flow(l, n)
      PROVE  DVHolds'
  BY <1>1, <1>3, DVReleases, GrowingReleases DEF DVHolds, DVStep
<1>4. ASSUME NEW n \in Nodes, Time2Update(n)
      PROVE  DVHolds'
  BY <1>1, <1>4, DVTells, GrowingTells DEF DVHolds, DVStep
<1>5. ASSUME NEW n \in Nodes, NEW l \in Links, ReceiveRoutingUpdate(n, l)
      PROVE  DVHolds'
  BY <1>1, <1>5, DVHears, GrowingHears DEF DVHolds, DVStep
<1>6. Members \subseteq Nodes
  BY <1>1, MembersAreNodes
<1>7. CASE Next
  BY <1>2, <1>3, <1>4, <1>5, <1>6, <1>7 DEF Next
<1>8. CASE UNCHANGED vars
  BY <1>8, DVStutters
<1> QED BY <1>7, <1>8

LEMMA DVAlways == Spec => []DVHolds
<1>1. Init => DVHolds
  BY InitDV
<1>2. DVHolds /\ [Next]_vars => DVHolds'
  BY DVSteps
<1> QED BY <1>1, <1>2, PTL DEF Spec

-----------------------------------------------------------------------------
(* Link states: what an IPCP holds of itself, and where it forwards.         *)

LimitOf(n) == node[n].routing.netState[n].sId
OwnStates == \A n \in Nodes : OwnState(n, node[n])
StatesKnown == \A n, k \in Nodes : NetState(n)[k].sId <= LimitOf(k)
MessagesKnown ==
    \A n \in Nodes : \A l \in LinksOf(n) : \A i \in 1 .. Len(chan[l][n]) :
        \A k \in DOMAIN chan[l][n][i] : chan[l][n][i][k].sId <= LimitOf(k)
ChangesCounted == \A n \in Nodes : node[n].routing.secId <= 1 + Cardinality(Counted(n))

LEMMA PartsOfLS ==
    /\ LSInv <=> (~IsDV => OwnStates /\ StatesKnown /\ MessagesKnown /\ ChangesCounted)
    /\ (LSInv <=> (~IsDV => OwnStates /\ StatesKnown /\ MessagesKnown /\ ChangesCounted))'
BY DEF LSInv, OwnStates, StatesKnown, MessagesKnown, ChangesCounted, Known, NetState, LimitOf

LEMMA LSTypes ==
    ASSUME ~IsDV, NEW n \in Nodes, NEW s, IPCP(n, s)
    PROVE  /\ PortsOf(n, s) /\ s.routing.neig = Ones(Adjacent(s))
           /\ Adjacent(s) \subseteq Nodes \ {n}
           /\ s.routing.netState \in [Nodes -> LinkState] /\ s.routing.secId \in Nat
           /\ s.routing.lastChanges \subseteq Nodes
           /\ s.fwd \in [Nodes -> LinksOf(n) \cup {NoPort}] /\ Timed(s.routing)
<1>1. PortsOf(n, s) /\ LSFits(n, Adjacent(s), s.routing)
      /\ s.fwd \in [Nodes -> LinksOf(n) \cup {NoPort}]
  BY DEF IPCP
<1>2. ASSUME NEW m \in Adjacent(s)
      PROVE  m \in Nodes \ {n}
  <2>1. m \in Nodes /\ s.neighbours[m] # {} /\ s.neighbours[m] \subseteq LinksOf(n)
        /\ \A l \in s.neighbours[m] : NextTo(n, l) = m
    BY <1>1 DEF Adjacent, PortsOf
  <2>2. PICK l \in s.neighbours[m] : TRUE
    BY <2>1
  <2>3. l \in LinksOf(n) /\ NextTo(n, l) = m
    BY <2>1
  <2>4. NextTo(n, l) # n
    BY <2>3, EndsOfLinks
  <2> QED BY <2>1, <2>3, <2>4
<1> QED BY <1>1, <1>2 DEF LSFits, Ones

\* The ports of an IPCP are those of links in use.
OverLinks(s) == \A m \in Nodes : s.neighbours[m] \subseteq case.links

LEMMA PortsOverLinks ==
    ASSUME PInv, NEW n \in Nodes
    PROVE  OverLinks(node[n])
<1>1. ASSUME NEW m \in Nodes, NEW l \in node[n].neighbours[m]
      PROVE  l \in case.links
  <2>1. PortsOf(n, node[n])
    BY DEF PInv, Typed, IPCP
  <2>2. l \in LinksOf(n) /\ NextTo(n, l) = m
    BY <2>1 DEF PortsOf
  <2>3. l \in Links /\ n \in {Ends[l][1], Ends[l][2]} /\ HasPort(n, l)
    BY <2>2, EndsOfLinks DEF HasPort
  <2>4. PortsFit(l) /\ phase[l] \in {"none", "requested", "established", "released"}
    BY <2>3 DEF PInv, Typed
  <2> QED BY <2>3, <2>4 DEF PortsFit
<1> QED BY <1>1 DEF OverLinks

\* The generator forwards to every neighbor over a link to it.
LEMMA ReroutedReaches ==
    ASSUME ~IsDV, NEW n \in Nodes, NEW s, IPCP(n, s), OwnState(n, s),
           NEW t, IPCP(n, t), OverLinks(t), t.routing.netState[n].links = t.routing.neig,
           Rerouted(n, s, t)
    PROVE  /\ \A d \in Nodes : t.routing.table[d].nh \subseteq Adjacent(t)
           /\ \A m \in Adjacent(t) : Reaches(n, t, m)
<1>1. /\ PortsOf(n, t) /\ Adjacent(t) \subseteq Nodes \ {n}
      /\ t.routing.neig = Ones(Adjacent(t))
  BY LSTypes
<1>2. DOMAIN t.routing.netState[n].links \ {n} = Adjacent(t)
  BY <1>1 DEF Ones
<1>3. TreeOf(n, Adjacent(t), t.routing.table)
  BY <1>2 DEF Rerouted
<1>4. ASSUME NEW m \in Adjacent(t)
      PROVE  Reaches(n, t, m)
  <2>1. t.routing.table[m].nh = {m} /\ m \in Nodes
    BY <1>1, <1>3 DEF TreeOf
  <2>2. t.fwd[m] = IF t.routing.table[m] # s.routing.table[m]
                   THEN PortOf(t, t.routing.table[m].nh) ELSE s.fwd[m]
    BY <2>1 DEF Rerouted
  <2>3. CASE t.routing.table[m] # s.routing.table[m]
    <3>1. t.neighbours[m] # {}
      BY DEF Adjacent
    <3>2. /\ PortOf(t, {m}) \in t.neighbours[m] /\ PortOf(t, {m}) \in LinksOf(n)
          /\ NextTo(n, PortOf(t, {m})) = m
      BY <1>1, <2>1, <3>1, Ported
    <3>3. t.fwd[m] = PortOf(t, {m})
      BY <2>1, <2>2, <2>3
    <3>4. t.fwd[m] \in case.links
      BY <2>1, <3>2, <3>3 DEF OverLinks
    <3> QED BY <2>1, <3>2, <3>3, <3>4 DEF Reaches
  <2>4. CASE t.routing.table[m] = s.routing.table[m]
    <3>1. m \in Adjacent(s)
      BY <2>1, <2>4 DEF OwnState
    <3>2. Reaches(n, s, m)
      BY <3>1 DEF OwnState
    <3> QED BY <2>1, <2>2, <2>4, <3>2 DEF Reaches
  <2> QED BY <2>3, <2>4
<1> QED BY <1>3, <1>4 DEF TreeOf

\* A step that leaves the table, the links and the neighbors alone.
LEMMA OwnStateKept ==
    ASSUME NEW n \in Nodes, NEW s, OwnState(n, s), NEW t,
           t.neighbours = s.neighbours \/ Adjacent(t) = Adjacent(s),
           t.routing.netState[n] = s.routing.netState[n], t.routing.secId = s.routing.secId,
           t.routing.neig = s.routing.neig, t.routing.table = s.routing.table, t.fwd = s.fwd,
           t.routing.scheduledUpdate => t.routing.timer \/ n \in case.garbage
    PROVE  OwnState(n, t)
<1>1. Adjacent(t) = Adjacent(s)
  BY SamePorts
<1> QED BY <1>1 DEF OwnState, Reaches

LEMMA Pending ==
    ASSUME NEW n, NEW s, OwnState(n, s), NEW t, Scheduled(s.routing, t.routing)
    PROVE  t.routing.timer \/ n \in case.garbage
BY DEF OwnState, Scheduled

\* The links of an IPCP have changed, and so has what it says of itself.
LEMMA OwnRelinked ==
    ASSUME ~IsDV, NEW n \in Nodes, NEW s, IPCP(n, s), OwnState(n, s),
           NEW t, IPCP(n, t), OverLinks(t), NEW links, links = Ones(Adjacent(t)),
           LSRelinked(n, s, links, t)
    PROVE  OwnState(n, t)
<1>1. /\ s.routing.netState \in [Nodes -> LinkState] /\ s.routing.secId \in Nat
      /\ t.routing.neig = Ones(Adjacent(t))
  BY LSTypes
<1> DEFINE new == [sId |-> s.routing.secId + 1, links |-> links]
<1>2. /\ t.routing.netState = [s.routing.netState EXCEPT ![n] = new]
      /\ t.routing.secId = s.routing.secId + 1
      /\ Scheduled(s.routing, t.routing) /\ Rerouted(n, s, t)
  BY DEF LSRelinked
<1>3. new.sId = s.routing.secId + 1 /\ new.links = links
  OBVIOUS
<1> HIDE DEF new
<1>4. t.routing.netState[n] = new
  BY <1>1, <1>2
<1>5. t.routing.netState[n].links = t.routing.neig
  BY <1>1, <1>3, <1>4
<1>6. /\ \A d \in Nodes : t.routing.table[d].nh \subseteq Adjacent(t)
      /\ \A m \in Adjacent(t) : Reaches(n, t, m)
  BY <1>2, <1>5, ReroutedReaches
<1>7. t.routing.timer \/ n \in case.garbage
  BY <1>2, Pending
<1>8. t.routing.netState[n].sId <= t.routing.secId /\ t.routing.secId >= 1
  BY <1>1, <1>2, <1>3, <1>4
<1> QED BY <1>5, <1>6, <1>7, <1>8 DEF OwnState

LEMMA OwnInserted ==
    ASSUME ~IsDV, NEW n \in Nodes, NEW s, IPCP(n, s), OwnState(n, s), NEW m \in Nodes, NEW l,
           NEW t, OverLinks(t), Inserts(n, s, m, l, t), LSInserts(n, s, m, t)
    PROVE  OwnState(n, t)
<1>1. IPCP(n, t) /\ Adjacent(t) = Adjacent(s) \cup {m}
  BY DEF Inserts
<1>2. CASE s.neighbours[m] # {}
  <2>1. t.routing = s.routing /\ t.fwd = s.fwd
    BY <1>2 DEF LSInserts
  <2>2. Adjacent(t) = Adjacent(s)
    BY <1>1, <1>2 DEF Adjacent
  <2>3. t.routing.scheduledUpdate => t.routing.timer \/ n \in case.garbage
    BY <2>1 DEF OwnState
  <2> QED BY <2>1, <2>2, <2>3, OwnStateKept
<1>3. CASE s.neighbours[m] = {}
  <2> DEFINE links == LS!With(s.routing.netState[n].links, m, 1)
  <2>1. LSRelinked(n, s, links, t)
    BY <1>3 DEF LSInserts
  <2>2. s.routing.netState[n].links = Ones(Adjacent(s))
    BY LSTypes DEF OwnState
  <2>3. links = Ones(Adjacent(t))
    BY <1>1, <2>2, WaysChanged
  <2> HIDE DEF links
  <2> QED BY <1>1, <2>1, <2>3, OwnRelinked
<1> QED BY <1>2, <1>3

LEMMA OwnRemoved ==
    ASSUME ~IsDV, NEW n \in Nodes, NEW s, IPCP(n, s), OwnState(n, s), NEW m \in Nodes, NEW l,
           NEW t, OverLinks(t), Removes(n, s, m, l, t), LSRemoves(n, s, m, t)
    PROVE  OwnState(n, t)
<1>1. /\ IPCP(n, t)
      /\ t.neighbours[m] # {} => Adjacent(t) = Adjacent(s)
      /\ t.neighbours[m] = {} => Adjacent(t) = Adjacent(s) \ {m}
  BY DEF Removes, FewerPortsIn
<1>2. CASE t.neighbours[m] # {}
  <2>1. t.routing = s.routing /\ t.fwd = s.fwd
    BY <1>2 DEF LSRemoves
  <2>2. t.routing.scheduledUpdate => t.routing.timer \/ n \in case.garbage
    BY <2>1 DEF OwnState
  <2> QED BY <1>1, <1>2, <2>1, <2>2, OwnStateKept
<1>3. CASE t.neighbours[m] = {}
  <2> DEFINE links == LS!Without(s.routing.netState[n].links, m)
  <2>1. LSRelinked(n, s, links, t)
    BY <1>3 DEF LSRemoves
  <2>2. s.routing.netState[n].links = Ones(Adjacent(s))
    BY LSTypes DEF OwnState
  <2>3. links = Ones(Adjacent(t))
    BY <1>1, <1>3, <2>2, WaysChanged
  <2> HIDE DEF links
  <2> QED BY <1>1, <2>1, <2>3, OwnRelinked
<1> QED BY <1>2, <1>3

\* What others say changes nothing of what an IPCP says of itself.
LEMMA OwnReceived ==
    ASSUME ~IsDV, NEW n \in Nodes, NEW s, IPCP(n, s), OwnState(n, s), NEW up \in LSUpdate,
           n \in DOMAIN up => up[n].sId <= s.routing.netState[n].sId,
           NEW t, IPCP(n, t), OverLinks(t), t.neighbours = s.neighbours, LSReceives(n, s, up, t)
    PROVE  OwnState(n, t) /\ t.routing.netState[n] = s.routing.netState[n]
<1>1. /\ s.routing.netState \in [Nodes -> LinkState]
      /\ s.routing.neig = Ones(Adjacent(s)) /\ t.routing.neig = Ones(Adjacent(t))
  BY LSTypes
<1>2. Adjacent(t) = Adjacent(s)
  BY SamePorts
<1>3. n \notin Newer(s.routing.netState, up)
  <2>1. s.routing.netState[n].sId \in Nat
    BY <1>1 DEF LinkState
  <2>2. n \in DOMAIN up => up[n].sId \in Nat
    BY LSUpdateType DEF LinkState
  <2> QED BY <2>1, <2>2 DEF Newer
<1>4. t.routing.netState[n] = s.routing.netState[n]
  BY <1>3 DEF LSReceives, Merged
<1>5. t.routing.secId = s.routing.secId
  BY DEF LSReceives
<1>6. CASE t.routing.lastChanges # {}
  <2>1. Scheduled(s.routing, t.routing) /\ Rerouted(n, s, t)
    BY <1>6 DEF LSReceives
  <2>2. t.routing.netState[n].links = t.routing.neig
    BY <1>1, <1>2, <1>4 DEF OwnState
  <2>3. /\ \A d \in Nodes : t.routing.table[d].nh \subseteq Adjacent(t)
        /\ \A m \in Adjacent(t) : Reaches(n, t, m)
    BY <2>1, <2>2, ReroutedReaches
  <2>4. t.routing.timer \/ n \in case.garbage
    BY <2>1, Pending
  <2>5. t.routing.netState[n].sId <= t.routing.secId /\ t.routing.secId >= 1
    BY <1>4, <1>5 DEF OwnState
  <2> QED BY <1>4, <2>2, <2>3, <2>4, <2>5 DEF OwnState
<1>7. CASE t.routing.lastChanges = {}
  <2>1. /\ t.routing.scheduledUpdate = s.routing.scheduledUpdate
        /\ t.routing.timer = s.routing.timer
        /\ t.routing.table = s.routing.table /\ t.fwd = s.fwd
    BY <1>7 DEF LSReceives
  <2>2. t.routing.scheduledUpdate => t.routing.timer \/ n \in case.garbage
    BY <2>1 DEF OwnState
  <2>3. t.routing.neig = s.routing.neig
    BY <1>1, <1>2
  <2> QED BY <1>2, <1>4, <1>5, <2>1, <2>2, <2>3, OwnStateKept
<1> QED BY <1>6, <1>7

LEMMA OwnSaid ==
    ASSUME ~IsDV, NEW n \in Nodes, NEW s, OwnState(n, s),
           NEW t, t.neighbours = s.neighbours, LSSends(s, t)
    PROVE  OwnState(n, t)
BY OwnStateKept DEF LSSends

-----------------------------------------------------------------------------
(* Link states: nobody knows more of an IPCP than it says itself.            *)

\* An IPCP forgets nothing, and has to say what it learns.
Learns(n, s, t) ==
    /\ \A k \in Nodes : s.routing.netState[k].sId <= t.routing.netState[k].sId
    /\ \A k \in Nodes : t.routing.netState[k] # s.routing.netState[k] =>
          k \in t.routing.lastChanges /\ (t.routing.timer \/ n \in case.garbage)
    /\ s.routing.lastChanges \subseteq t.routing.lastChanges
    /\ s.routing.timer => t.routing.timer

\* Only its own state changes when links do.
OwnOnly(n, s, t) == \A k \in Nodes \ {n} : t.routing.netState[k] = s.routing.netState[k]

LEMMA LearnsNothing ==
    ASSUME ~IsDV, NEW n \in Nodes, NEW s, IPCP(n, s), NEW t, t.routing = s.routing
    PROVE  Learns(n, s, t) /\ OwnOnly(n, s, t)
<1>1. s.routing.netState \in [Nodes -> LinkState]
  BY LSTypes
<1>2. \A k \in Nodes : s.routing.netState[k].sId \in Nat
  BY <1>1 DEF LinkState
<1> QED BY <1>2 DEF Learns, OwnOnly

LEMMA StillTimed ==
    ASSUME NEW r, NEW q, Timed(r), Scheduled(r, q), r.timer
    PROVE  q.timer
BY DEF Scheduled, Timed

LEMMA LearnsRelinked ==
    ASSUME ~IsDV, NEW n \in Nodes, NEW s, IPCP(n, s), OwnState(n, s), NEW links, NEW t,
           LSRelinked(n, s, links, t)
    PROVE  Learns(n, s, t) /\ OwnOnly(n, s, t)
<1>1. /\ s.routing.netState \in [Nodes -> LinkState] /\ s.routing.secId \in Nat
      /\ Timed(s.routing)
  BY LSTypes
<1> DEFINE new == [sId |-> s.routing.secId + 1, links |-> links]
<1>2. /\ t.routing.netState = [s.routing.netState EXCEPT ![n] = new]
      /\ t.routing.lastChanges = s.routing.lastChanges \cup {n}
      /\ Scheduled(s.routing, t.routing)
  BY DEF LSRelinked
<1>3. new.sId = s.routing.secId + 1
  OBVIOUS
<1> HIDE DEF new
<1>4. /\ t.routing.netState[n] = new
      /\ \A k \in Nodes \ {n} : t.routing.netState[k] = s.routing.netState[k]
  BY <1>1, <1>2
<1>5. \A k \in Nodes : s.routing.netState[k].sId \in Nat
  BY <1>1 DEF LinkState
<1>6. s.routing.netState[n].sId <= new.sId
  BY <1>1, <1>3, <1>5 DEF OwnState
<1>7. t.routing.timer \/ n \in case.garbage
  BY <1>2, Pending
<1>8. s.routing.timer => t.routing.timer
  BY <1>1, <1>2, StillTimed
<1>9. \A k \in Nodes : s.routing.netState[k].sId <= t.routing.netState[k].sId
  BY <1>4, <1>5, <1>6
<1> QED BY <1>2, <1>4, <1>7, <1>8, <1>9 DEF Learns, OwnOnly

LEMMA LearnsInserted ==
    ASSUME ~IsDV, NEW n \in Nodes, NEW s, IPCP(n, s), OwnState(n, s), NEW m, NEW t,
           LSInserts(n, s, m, t)
    PROVE  Learns(n, s, t) /\ OwnOnly(n, s, t)
BY LearnsNothing, LearnsRelinked DEF LSInserts

LEMMA LearnsRemoved ==
    ASSUME ~IsDV, NEW n \in Nodes, NEW s, IPCP(n, s), OwnState(n, s), NEW m, NEW t,
           LSRemoves(n, s, m, t)
    PROVE  Learns(n, s, t) /\ OwnOnly(n, s, t)
BY LearnsNothing, LearnsRelinked DEF LSRemoves

\* An update is remembered where it is newer.
Remembers(s, up, t) ==
    \A k \in Nodes : \/ t.routing.netState[k] = s.routing.netState[k]
                     \/ k \in DOMAIN up /\ t.routing.netState[k] = up[k]

LEMMA LearnsReceived ==
    ASSUME ~IsDV, NEW n \in Nodes, NEW s, IPCP(n, s), OwnState(n, s), NEW up \in LSUpdate, NEW t,
           LSReceives(n, s, up, t)
    PROVE  /\ Learns(n, s, t) /\ Remembers(s, up, t)
           /\ \A k \in DOMAIN up : up[k].sId <= t.routing.netState[k].sId
<1>1. s.routing.netState \in [Nodes -> LinkState] /\ Timed(s.routing)
  BY LSTypes
<1>2. \A k \in Nodes : s.routing.netState[k].sId \in Nat
  BY <1>1 DEF LinkState
<1>3. \A k \in DOMAIN up : k \in Nodes /\ up[k].sId \in Nat
  BY LSUpdateType DEF LinkState
<1>4. ASSUME NEW k \in Nodes
      PROVE  t.routing.netState[k] = IF k \in Newer(s.routing.netState, up)
                                     THEN up[k] ELSE s.routing.netState[k]
  BY DEF LSReceives, Merged
<1>5. /\ s.routing.lastChanges \subseteq t.routing.lastChanges
      /\ Newer(s.routing.netState, up) \subseteq t.routing.lastChanges
  BY DEF LSReceives
<1>6. ASSUME NEW k \in Newer(s.routing.netState, up)
      PROVE  t.routing.timer \/ n \in case.garbage
  <2>1. Scheduled(s.routing, t.routing)
    BY <1>5, <1>6 DEF LSReceives
  <2> QED BY <2>1, Pending
<1>7. s.routing.timer => t.routing.timer
  <2>1. CASE t.routing.lastChanges # {}
    <3>1. Scheduled(s.routing, t.routing)
      BY <2>1 DEF LSReceives
    <3> QED BY <1>1, <3>1, StillTimed
  <2>2. CASE t.routing.lastChanges = {}
    BY <2>2 DEF LSReceives
  <2> QED BY <2>1, <2>2
<1>8. \A k \in Nodes : s.routing.netState[k].sId <= t.routing.netState[k].sId
  BY <1>2, <1>3, <1>4 DEF Newer
<1>9. \A k \in Nodes : t.routing.netState[k] # s.routing.netState[k] =>
          k \in t.routing.lastChanges /\ (t.routing.timer \/ n \in case.garbage)
  BY <1>4, <1>5, <1>6
<1>10. Remembers(s, up, t)
  BY <1>4 DEF Remembers, Newer
<1>11. \A k \in DOMAIN up : up[k].sId <= t.routing.netState[k].sId
  BY <1>2, <1>3, <1>4 DEF Newer
<1> QED BY <1>5, <1>7, <1>8, <1>9, <1>10, <1>11 DEF Learns

\* All of it is numbers.
StatesType == \A n, k \in Nodes : NetState(n)[k].sId \in Nat /\ LimitOf(n) \in Nat

LEMMA StatesTyped ==
    /\ PInv /\ ~IsDV => StatesType
    /\ (PInv /\ ~IsDV => StatesType)'
<1>1. ASSUME PInv, ~IsDV
      PROVE  StatesType
  <2>1. ASSUME NEW n \in Nodes
        PROVE  node[n].routing.netState \in [Nodes -> LinkState]
    <3>1. IPCP(n, node[n])
      BY <1>1 DEF PInv, Typed
    <3> QED BY <1>1, <3>1, LSTypes
  <2> QED BY <2>1 DEF StatesType, NetState, LimitOf, LinkState
<1>2. ASSUME PInv', ~IsDV'
      PROVE  StatesType'
  <2>1. ASSUME NEW n \in Nodes
        PROVE  (node[n].routing.netState \in [Nodes -> LinkState])'
    <3>1. IPCP(n, node[n])'
      BY <1>2 DEF PInv, Typed
    <3> QED BY <1>2, <3>1 DEF IPCP, LSFits
  <2> QED BY <2>1 DEF StatesType, NetState, LimitOf, LinkState
<1> QED BY <1>1, <1>2

\* Limits only grow.
Rises == \A k \in Nodes : LimitOf(k) <= LimitOf(k)'

LEMMA LimitsRise ==
    ASSUME StatesType, NEW n \in Nodes, OthersStay(n), Learns(n, node[n], node'[n])
    PROVE  Rises
<1>1. ASSUME NEW k \in Nodes
      PROVE  LimitOf(k) <= LimitOf(k)'
  <2>1. CASE k = n
    BY <2>1 DEF Learns, LimitOf
  <2>2. CASE k # n
    <3>1. node'[k] = node[k]
      BY <2>2 DEF OthersStay
    <3>2. LimitOf(k)' = LimitOf(k) /\ LimitOf(k) \in Nat
      BY <3>1 DEF LimitOf, StatesType
    <3> QED BY <3>2
  <2> QED BY <2>1, <2>2
<1> QED BY <1>1 DEF Rises

\* What an IPCP knows of the others after a step is within their limits before it.
Within(n) == \A k \in Nodes \ {n} : node'[n].routing.netState[k].sId <= LimitOf(k)

LEMMA StatesKnownStep ==
    ASSUME StatesType, StatesType', StatesKnown, NEW n \in Nodes, OthersStay(n), Rises, Within(n)
    PROVE  StatesKnown'
<1>1. ASSUME NEW x \in Nodes, NEW k \in Nodes
      PROVE  NetState(x)'[k].sId <= LimitOf(k)'
  <2>1. /\ NetState(x)'[k].sId \in Nat /\ LimitOf(k) \in Nat /\ LimitOf(k)' \in Nat
        /\ LimitOf(k) <= LimitOf(k)' /\ NetState(x)[k].sId <= LimitOf(k)
    BY DEF StatesType, Rises, StatesKnown
  <2>2. CASE x = n /\ k = n
    <3>1. NetState(x)'[k].sId = LimitOf(k)'
      BY <2>2 DEF NetState, LimitOf
    <3> QED BY <2>1, <3>1
  <2>3. CASE x = n /\ k # n
    <3>1. NetState(x)'[k].sId <= LimitOf(k)
      BY <2>3 DEF Within, NetState
    <3> QED BY <2>1, <3>1
  <2>4. CASE x # n
    <3>1. NetState(x)' = NetState(x)
      BY <2>4 DEF OthersStay, NetState
    <3> QED BY <2>1, <3>1
  <2> QED BY <2>2, <2>3, <2>4
<1> QED BY <1>1 DEF StatesKnown

LEMMA WithinOwn ==
    ASSUME StatesKnown, NEW n \in Nodes, OwnOnly(n, node[n], node'[n])
    PROVE  Within(n)
BY DEF StatesKnown, NetState, OwnOnly, Within

LEMMA WithinSame ==
    ASSUME StatesKnown, NEW n \in Nodes, node'[n].routing.netState = node[n].routing.netState
    PROVE  Within(n)
BY DEF StatesKnown, NetState, Within

LEMMA WithinTaken ==
    ASSUME StatesKnown, NEW n \in Nodes, NEW up, Remembers(node[n], up, node'[n]),
           \A k \in DOMAIN up : up[k].sId <= LimitOf(k)
    PROVE  Within(n)
BY DEF StatesKnown, NetState, Remembers, Within

\* States that are on their way, where what is on its way is what was, or less.
LEMMA StatesOf ==
    ASSUME PInv, ~IsDV, NEW n, NEW l \in LinksOf(n), NEW i \in 1 .. Len(chan[l][n])
    PROVE  /\ chan[l][n] \in Seq(Update) /\ chan[l][n][i] \in LSUpdate
           /\ \A k \in DOMAIN chan[l][n][i] : k \in Nodes /\ chan[l][n][i][k].sId \in Nat
<1>1. chan[l][n] \in Seq(Update)
  BY ChanOf DEF PInv
<1>2. chan[l][n][i] \in LSUpdate
  BY <1>1, UpdateOf
<1> QED BY <1>1, <1>2, LSUpdateType DEF LinkState

\* Whatever is on its way in the next state was before, at some place, or is within limits.
LEMMA MessagesStep ==
    ASSUME PInv, ~IsDV, StatesType, StatesType', MessagesKnown, Rises,
           \A x \in Nodes : \A l \in LinksOf(x) : \A i \in 1 .. Len(chan'[l][x]) :
              \/ \E j \in 1 .. Len(chan[l][x]) : chan'[l][x][i] = chan[l][x][j]
              \/ \A k \in DOMAIN chan'[l][x][i] :
                    /\ k \in Nodes /\ chan'[l][x][i][k].sId \in Nat
                    /\ chan'[l][x][i][k].sId <= LimitOf(k)
    PROVE  MessagesKnown'
<1>1. ASSUME NEW x \in Nodes, NEW l \in LinksOf(x), NEW i \in 1 .. Len(chan'[l][x]),
             NEW k \in DOMAIN chan'[l][x][i]
      PROVE  chan'[l][x][i][k].sId <= LimitOf(k)'
  <2>1. /\ k \in Nodes /\ chan'[l][x][i][k].sId \in Nat
        /\ chan'[l][x][i][k].sId <= LimitOf(k)
    <3>1. CASE \E j \in 1 .. Len(chan[l][x]) : chan'[l][x][i] = chan[l][x][j]
      <4>1. PICK j \in 1 .. Len(chan[l][x]) : chan'[l][x][i] = chan[l][x][j]
        BY <3>1
      <4> QED BY <4>1, StatesOf DEF MessagesKnown
    <3> QED BY <3>1
  <2>2. LimitOf(k) <= LimitOf(k)' /\ LimitOf(k) \in Nat /\ LimitOf(k)' \in Nat
    BY <2>1 DEF Rises, StatesType
  <2> QED BY <2>1, <2>2
<1> QED BY <1>1 DEF MessagesKnown

-----------------------------------------------------------------------------
(* Link states: each change of an IPCP's links is one end of a flow more.    *)

Events == Links \X ((1 .. case.maxOpens) \X {"came", "went"})

LEMMA EventsCounted ==
    ASSUME case \in Cases
    PROVE  /\ case.maxOpens \in Nat /\ IsFiniteSet(Events) /\ Cardinality(Links) \in Nat
           /\ Cardinality(Events) = 2 * case.maxOpens * Cardinality(Links)
<1> DEFINE M == case.maxOpens
           C == Cardinality(Links)
           pairs == (1 .. M) \X {"came", "went"}
<1>1. M \in Nat /\ IsFiniteSet(Links) /\ C \in Nat
  BY RoutingAssumption, FS_CardinalityType
<1>2. IsFiniteSet({"came", "went"}) /\ Cardinality({"came", "went"}) = 2
  <2>1. IsFiniteSet({"came"}) /\ Cardinality({"came"}) = 1
    BY FS_Singleton
  <2>2. "went" \notin {"came"} /\ {"came", "went"} = {"came"} \cup {"went"}
    OBVIOUS
  <2> QED BY <2>1, <2>2, FS_AddElement
<1>3. IsFiniteSet(1 .. M) /\ Cardinality(1 .. M) = M
  <2> HIDE DEF M
  <2>1. IsFiniteSet(1 .. M) /\ Cardinality(1 .. M) = IF 1 > M THEN 0 ELSE M - 1 + 1
    BY <1>1, FS_Interval
  <2> QED BY <1>1, <2>1
<1>4. IsFiniteSet(pairs) /\ Cardinality(pairs) = M * 2
  <2> DEFINE S == 1 .. M
             T == {"came", "went"}
  <2> HIDE DEF M, S, T
  <2>1. IsFiniteSet(S) /\ IsFiniteSet(T) /\ Cardinality(S) = M /\ Cardinality(T) = 2
    BY <1>2, <1>3 DEF S, T
  <2>2. IsFiniteSet(S \X T) /\ Cardinality(S \X T) = M * 2
    BY <2>1, FS_Product
  <2> QED BY <2>2 DEF S, T
<1>5. IsFiniteSet(Events) /\ Cardinality(Events) = C * (M * 2)
  <2> HIDE DEF pairs
  <2>1. Events = Links \X pairs
    BY DEF Events, pairs
  <2> QED BY <1>1, <1>4, <2>1, FS_Product
<1>6. C * (M * 2) = 2 * M * C
  <2> HIDE DEF C, M
  <2> QED BY <1>1
<1> QED BY <1>1, <1>5, <1>6

LEMMA MoreElements ==
    ASSUME NEW A, NEW B, IsFiniteSet(B), A \subseteq B
    PROVE  /\ Cardinality(A) \in Nat /\ Cardinality(B) \in Nat
           /\ Cardinality(A) <= Cardinality(B)
           /\ \A e \in B : e \notin A => Cardinality(A) + 1 <= Cardinality(B)
<1>1. /\ IsFiniteSet(A) /\ Cardinality(A) <= Cardinality(B)
      /\ Cardinality(A) \in Nat /\ Cardinality(B) \in Nat
  BY FS_Subset, FS_CardinalityType
<1>2. ASSUME NEW e \in B, e \notin A
      PROVE  Cardinality(A) + 1 <= Cardinality(B)
  <2>1. Cardinality(A \cup {e}) = Cardinality(A) + 1
    BY <1>1, <1>2, FS_AddElement
  <2>2. A \cup {e} \subseteq B
    BY <1>2
  <2>3. Cardinality(A \cup {e}) <= Cardinality(B)
    BY <2>2, FS_Subset
  <2> QED BY <2>1, <2>3
<1> QED BY <1>1, <1>2

LEMMA CountedEvents ==
    ASSUME case \in Cases, case' = case, NEW n
    PROVE  /\ Counted(n) \subseteq Events /\ Counted(n)' \subseteq Events
           /\ IsFiniteSet(Counted(n)) /\ IsFiniteSet(Counted(n)')
<1>1. Counted(n) \subseteq Events /\ Counted(n)' \subseteq Events
  BY DEF Counted, Events
<1> QED BY <1>1, EventsCounted, FS_Subset

\* How often ends have come and gone, in a step.
Came1(n, l) == Came(n, l)' = Came(n, l) + 1 /\ Came(n, l)' \in 1 .. case.maxOpens
Went1(n, l) == Went(n, l)' = Went(n, l) + 1 /\ Went(n, l)' \in 1 .. case.maxOpens
NotFewer(n) ==
    \A l \in LinksOf(n) : /\ Came(n, l) \in Int /\ Came(n, l)' \in Int
                          /\ Went(n, l) \in Int /\ Went(n, l)' \in Int
                          /\ Came(n, l) <= Came(n, l)' /\ Went(n, l) <= Went(n, l)'

LEMMA CountedStep ==
    ASSUME case \in Cases, case' = case, NEW n, NotFewer(n)
    PROVE  /\ Cardinality(Counted(n)) \in Nat /\ Cardinality(Counted(n))' \in Nat
           /\ Cardinality(Counted(n)) <= Cardinality(Counted(n))'
           /\ \A l \in LinksOf(n) : Came1(n, l) \/ Went1(n, l) =>
                 Cardinality(Counted(n)) + 1 <= Cardinality(Counted(n))'
<1>1. IsFiniteSet(Counted(n)')
  BY CountedEvents
<1>2. ASSUME NEW e \in Counted(n)
      PROVE  e \in Counted(n)'
  <2>1. /\ e \in Links \X ((1 .. case.maxOpens) \X {"came", "went"}) /\ e[1] \in LinksOf(n)
        /\ e[2][1] <= IF e[2][2] = "came" THEN Came(n, e[1]) ELSE Went(n, e[1])
    BY DEF Counted
  <2>2. e[2][1] \in Int /\ case.maxOpens \in Nat
    BY <2>1, RoutingAssumption
  <2>3. e[2][1] <= IF e[2][2] = "came" THEN Came(n, e[1])' ELSE Went(n, e[1])'
    BY <2>1, <2>2 DEF NotFewer
  <2> QED BY <2>1, <2>3 DEF Counted
<1>3. ASSUME NEW l \in LinksOf(n), Came1(n, l) \/ Went1(n, l)
      PROVE  \E e \in Counted(n)' : e \notin Counted(n)
  <2>1. l \in Links /\ Came(n, l) \in Int /\ Went(n, l) \in Int
    BY EndsOfLinks DEF NotFewer
  <2>2. CASE Came1(n, l)
    <3> DEFINE e == <<l, <<Came(n, l)', "came">>>>
    <3>1. e \in Links \X ((1 .. case.maxOpens) \X {"came", "went"})
      BY <2>1, <2>2 DEF Came1
    <3>2. /\ e[1] = l /\ e[2][1] = Came(n, l)' /\ e[2][2] = "came"
      OBVIOUS
    <3>3. ~(Came(n, l)' <= Came(n, l)) /\ Came(n, l)' <= Came(n, l)'
      BY <2>1, <2>2 DEF Came1
    <3> HIDE DEF e
    <3>4. e \in Counted(n)'
      BY <3>1, <3>2, <3>3 DEF Counted
    <3>5. e \notin Counted(n)
      BY <3>2, <3>3 DEF Counted
    <3> QED BY <3>4, <3>5
  <2>3. CASE Went1(n, l)
    <3> DEFINE e == <<l, <<Went(n, l)', "went">>>>
    <3>1. e \in Links \X ((1 .. case.maxOpens) \X {"came", "went"})
      BY <2>1, <2>3 DEF Went1
    <3>2. /\ e[1] = l /\ e[2][1] = Went(n, l)' /\ e[2][2] = "went" /\ e[2][2] # "came"
      OBVIOUS
    <3>3. ~(Went(n, l)' <= Went(n, l)) /\ Went(n, l)' <= Went(n, l)'
      BY <2>1, <2>3 DEF Went1
    <3> HIDE DEF e
    <3>4. e \in Counted(n)'
      BY <3>1, <3>2, <3>3 DEF Counted
    <3>5. e \notin Counted(n)
      BY <3>2, <3>3 DEF Counted
    <3> QED BY <3>4, <3>5
  <2> QED BY <1>3, <2>2, <2>3
<1>4. Counted(n) \subseteq Counted(n)'
  BY <1>2
<1>5. /\ Cardinality(Counted(n)) \in Nat /\ Cardinality(Counted(n)') \in Nat
      /\ Cardinality(Counted(n)) <= Cardinality(Counted(n)')
      /\ \A e \in Counted(n)' : e \notin Counted(n) =>
            Cardinality(Counted(n)) + 1 <= Cardinality(Counted(n)')
  BY <1>1, <1>4, MoreElements
<1> QED BY <1>3, <1>5

\* What n does, if it does something, counts.
Counts(n) ==
    \/ node'[n].routing.secId = node[n].routing.secId
    \/ /\ node'[n].routing.secId = node[n].routing.secId + 1
       /\ \E l \in LinksOf(n) : Came1(n, l) \/ Went1(n, l)

LEMMA ChangesCountedStep ==
    ASSUME PInv, ~IsDV, ChangesCounted, case' = case, NEW n \in Nodes, OthersStay(n),
           \A x \in Nodes : NotFewer(x), Counts(n)
    PROVE  ChangesCounted'
<1>1. case \in Cases
  BY DEF PInv, Typed
<1>2. ASSUME NEW x \in Nodes
      PROVE  node'[x].routing.secId <= 1 + Cardinality(Counted(x))'
  <2>1. /\ node[x].routing.secId \in Nat
        /\ node[x].routing.secId <= 1 + Cardinality(Counted(x))
    BY LSTypes DEF PInv, Typed, ChangesCounted
  <2>2. /\ Cardinality(Counted(x)) \in Nat /\ Cardinality(Counted(x))' \in Nat
        /\ Cardinality(Counted(x)) <= Cardinality(Counted(x))'
        /\ \A l \in LinksOf(x) : Came1(x, l) \/ Went1(x, l) =>
              Cardinality(Counted(x)) + 1 <= Cardinality(Counted(x))'
    BY <1>1, CountedStep
  <2>3. CASE node'[x].routing.secId = node[x].routing.secId
    BY <2>1, <2>2, <2>3
  <2>4. CASE node'[x].routing.secId # node[x].routing.secId
    <3>1. x = n
      BY <2>4 DEF OthersStay
    <3>2. /\ node'[n].routing.secId = node[n].routing.secId + 1
          /\ \E l \in LinksOf(n) : Came1(n, l) \/ Went1(n, l)
      BY <2>4, <3>1 DEF Counts
    <3> QED BY <2>1, <2>2, <3>1, <3>2
  <2> QED BY <2>3, <2>4
<1> QED BY <1>2 DEF ChangesCounted

\* The ends of other flows stay as they were.
LEMMA CountsKept ==
    ASSUME PInv, NEW x \in Nodes, NEW k \in LinksOf(x), phase'[k] = phase[k],
           opens'[k] = opens[k], HasPort(x, k)' <=> HasPort(x, k)
    PROVE  /\ Came(x, k) \in Int /\ Came(x, k)' = Came(x, k)
           /\ Went(x, k) \in Int /\ Went(x, k)' = Went(x, k)
<1>1. opens[k] \in Nat
  <2>1. k \in Links
    BY EndsOfLinks
  <2> QED BY <2>1 DEF PInv, Typed
<1>2. Came(x, k) \in Int /\ Came(x, k)' = Came(x, k)
  BY <1>1 DEF Came
<1>3. Went(x, k) \in Int /\ Went(x, k)' = Went(x, k)
  BY <1>2 DEF Went
<1> QED BY <1>2, <1>3

LEMMA NoneFewer ==
    ASSUME PInv, NEW x \in Nodes, phase' = phase, opens' = opens,
           \A y \in Nodes, k \in Links : HasPort(y, k)' <=> HasPort(y, k)
    PROVE  NotFewer(x)
<1>1. ASSUME NEW k \in LinksOf(x)
      PROVE  /\ Came(x, k) \in Int /\ Came(x, k)' = Came(x, k)
             /\ Went(x, k) \in Int /\ Went(x, k)' = Went(x, k)
  <2>1. k \in Links
    BY EndsOfLinks
  <2> QED BY <2>1, CountsKept
<1> QED BY <1>1 DEF NotFewer

\* The ends of one flow, and those of the others.
LEMMA FewerByOne ==
    ASSUME PInv, NEW l \in Links, NEW x \in Nodes,
           \A k \in Links \ {l} : phase'[k] = phase[k] /\ opens'[k] = opens[k],
           \A k \in Links \ {l} : HasPort(x, k)' <=> HasPort(x, k),
           l \in LinksOf(x) =>
              /\ Came(x, l) \in Int /\ Came(x, l)' \in Int
              /\ Went(x, l) \in Int /\ Went(x, l)' \in Int
              /\ Came(x, l) <= Came(x, l)' /\ Went(x, l) <= Went(x, l)'
    PROVE  NotFewer(x)
<1>1. ASSUME NEW k \in LinksOf(x)
      PROVE  /\ Came(x, k) \in Int /\ Came(x, k)' \in Int
             /\ Went(x, k) \in Int /\ Went(x, k)' \in Int
             /\ Came(x, k) <= Came(x, k)' /\ Went(x, k) <= Went(x, k)'
  <2>1. k \in Links
    BY EndsOfLinks
  <2>2. CASE k # l
    <3>1. /\ Came(x, k) \in Int /\ Came(x, k)' = Came(x, k)
          /\ Went(x, k) \in Int /\ Went(x, k)' = Went(x, k)
      BY <2>1, <2>2, CountsKept
    <3> QED BY <3>1
  <2> QED BY <2>2
<1> QED BY <1>1 DEF NotFewer

LEMMA CountsCreated ==
    ASSUME PInv, DVInv, NEW l \in Links, CreateNM1Flow(l), NEW n, n = Ends[l][1]
    PROVE  Came1(n, l) /\ \A x \in Nodes : NotFewer(x)
<1> DEFINE m == NextTo(n, l)
<1>1. /\ n \in Nodes /\ l \in LinksOf(n) /\ Gains(n, m, l)
  BY Creates
<1>2. /\ phase[l] = "none" /\ opens[l] < case.maxOpens
      /\ phase' = [phase EXCEPT ![l] = "requested"]
      /\ opens' = [opens EXCEPT ![l] = @ + 1] /\ case' = case
  BY DEF CreateNM1Flow
<1>3. /\ phase \in [Links -> {"none", "requested", "established", "released"}]
      /\ opens \in [Links -> Nat] /\ PortsFit(l) /\ case.maxOpens \in Nat
  BY RoutingAssumption DEF PInv, Typed
<1>4. \A x \in Nodes, k \in Links : HasPort(x, k)' <=> HasPort(x, k) \/ (x = n /\ k = l)
  BY <1>1, PortsGained
<1>5. /\ phase'[l] = "requested" /\ opens'[l] = opens[l] + 1 /\ opens[l] \in Nat
      /\ \A k \in Links \ {l} : phase'[k] = phase[k] /\ opens'[k] = opens[k]
  BY <1>2, <1>3
<1>6. ~HasPort(Ends[l][1], l) /\ ~HasPort(Ends[l][2], l)
  BY <1>2, <1>3 DEF PortsFit
<1>7. /\ Came(n, l) = opens[l] /\ Came(n, l)' = opens[l] + 1
      /\ Went(n, l) = opens[l] /\ Went(n, l)' = opens[l]
  <2>1. Came(n, l) = opens[l] /\ Came(n, l)' = opens[l] + 1
    BY <1>5 DEF Came
  <2>2. ~HasPort(n, l) /\ HasPort(n, l)'
    BY <1>1, <1>4, <1>6
  <2> QED BY <1>5, <2>1, <2>2 DEF Went
<1>8. ASSUME NEW x \in Nodes, x # n, l \in LinksOf(x)
      PROVE  /\ Came(x, l) = opens[l] /\ Came(x, l)' = opens[l]
             /\ Went(x, l) = opens[l] /\ Went(x, l)' = opens[l]
  <2>1. x = Ends[l][2] /\ x # Ends[l][1]
    BY <1>8, EndsOfLinks
  <2>2. Came(x, l) = opens[l] /\ Came(x, l)' = opens[l]
    BY <1>2, <1>5, <2>1 DEF Came
  <2>3. ~HasPort(x, l) /\ ~HasPort(x, l)'
    BY <1>4, <1>6, <1>8, <2>1
  <2> QED BY <2>2, <2>3 DEF Went
<1>9. ASSUME NEW x \in Nodes
      PROVE  NotFewer(x)
  <2>1. \A k \in Links \ {l} : HasPort(x, k)' <=> HasPort(x, k)
    BY <1>4
  <2>2. l \in LinksOf(x) =>
              /\ Came(x, l) \in Int /\ Came(x, l)' \in Int
              /\ Went(x, l) \in Int /\ Went(x, l)' \in Int
              /\ Came(x, l) <= Came(x, l)' /\ Went(x, l) <= Went(x, l)'
    BY <1>5, <1>7, <1>8
  <2> QED BY <1>5, <2>1, <2>2, FewerByOne
<1> QED BY <1>2, <1>3, <1>5, <1>7, <1>9 DEF Came1

LEMMA CountsAccepted ==
    ASSUME PInv, DVInv, NEW l \in Links, CreateNM1FlowWithoutAllocate(l), NEW n, n = Ends[l][2]
    PROVE  Came1(n, l) /\ \A x \in Nodes : NotFewer(x)
<1> DEFINE m == NextTo(n, l)
<1>1. /\ n \in Nodes /\ l \in LinksOf(n) /\ Gains(n, m, l)
  BY Accepts
<1>2. /\ phase[l] = "requested" /\ phase' = [phase EXCEPT ![l] = "established"]
      /\ opens' = opens /\ case' = case
  BY DEF CreateNM1FlowWithoutAllocate
<1>3. /\ phase \in [Links -> {"none", "requested", "established", "released"}]
      /\ opens \in [Links -> Nat] /\ PortsFit(l) /\ case.maxOpens \in Nat
  BY RoutingAssumption DEF PInv, Typed
<1>4. \A x \in Nodes, k \in Links : HasPort(x, k)' <=> HasPort(x, k) \/ (x = n /\ k = l)
  BY <1>1, PortsGained
<1>5. /\ phase'[l] = "established" /\ opens'[l] = opens[l] /\ opens[l] \in Nat
      /\ opens[l] >= 1 /\ opens[l] <= case.maxOpens
      /\ \A k \in Links \ {l} : phase'[k] = phase[k] /\ opens'[k] = opens[k]
  BY <1>2, <1>3 DEF PortsFit
<1>6. HasPort(Ends[l][1], l) /\ ~HasPort(Ends[l][2], l) /\ n # Ends[l][1]
  BY <1>2, <1>3, EndsOfLinks DEF PortsFit
<1>7. /\ Came(n, l) = opens[l] - 1 /\ Came(n, l)' = opens[l]
      /\ Went(n, l) = opens[l] - 1 /\ Went(n, l)' = opens[l] - 1
  <2>1. Came(n, l) = opens[l] - 1 /\ Came(n, l)' = opens[l]
    BY <1>2, <1>5, <1>6 DEF Came
  <2>2. ~HasPort(n, l) /\ HasPort(n, l)'
    BY <1>1, <1>4, <1>6
  <2> QED BY <1>5, <2>1, <2>2 DEF Went
<1>8. ASSUME NEW x \in Nodes, x # n, l \in LinksOf(x)
      PROVE  /\ Came(x, l) = opens[l] /\ Came(x, l)' = opens[l]
             /\ Went(x, l) = opens[l] - 1 /\ Went(x, l)' = opens[l] - 1
  <2>1. x = Ends[l][1]
    BY <1>8, EndsOfLinks
  <2>2. Came(x, l) = opens[l] /\ Came(x, l)' = opens[l]
    BY <1>5, <2>1 DEF Came
  <2>3. HasPort(x, l) /\ HasPort(x, l)'
    BY <1>4, <1>6, <2>1
  <2> QED BY <2>2, <2>3 DEF Went
<1>9. ASSUME NEW x \in Nodes
      PROVE  NotFewer(x)
  <2>1. \A k \in Links \ {l} : HasPort(x, k)' <=> HasPort(x, k)
    BY <1>4
  <2>2. l \in LinksOf(x) =>
              /\ Came(x, l) \in Int /\ Came(x, l)' \in Int
              /\ Went(x, l) \in Int /\ Went(x, l)' \in Int
              /\ Came(x, l) <= Came(x, l)' /\ Went(x, l) <= Went(x, l)'
    BY <1>5, <1>7, <1>8
  <2> QED BY <1>5, <2>1, <2>2, FewerByOne
<1> QED BY <1>2, <1>3, <1>5, <1>7, <1>9 DEF Came1

LEMMA CountsReleased ==
    ASSUME PInv, NEW l \in Links, NEW n \in {Ends[l][1], Ends[l][2]}, n \in Nodes,
           HasPort(n, l), Loses(n, NextTo(n, l), l), l \in LinksOf(n),
           NEW p \in {"none", "released"}, phase' = [phase EXCEPT ![l] = p],
           opens' = opens, case' = case,
           p = "none" => phase[l] = "released", p = "released" => phase[l] = "established"
    PROVE  Went1(n, l) /\ \A x \in Nodes : NotFewer(x)
<1>3. /\ phase \in [Links -> {"none", "requested", "established", "released"}]
      /\ opens \in [Links -> Nat] /\ PortsFit(l) /\ case.maxOpens \in Nat
  BY RoutingAssumption DEF PInv, Typed
<1>4. \A x \in Nodes, k \in Links : HasPort(x, k)' <=> HasPort(x, k) /\ ~(x = n /\ k = l)
  BY PortsLost
<1>5. /\ phase[l] # "requested" /\ phase'[l] # "requested"
      /\ opens'[l] = opens[l] /\ opens[l] \in Nat
      /\ opens[l] >= 1 /\ opens[l] <= case.maxOpens
      /\ \A k \in Links \ {l} : phase'[k] = phase[k] /\ opens'[k] = opens[k]
  BY <1>3 DEF PortsFit
<1>6. \A x : Came(x, l) = opens[l] /\ Came(x, l)' = opens[l]
  BY <1>5 DEF Came
<1>7. Went(n, l) = opens[l] - 1 /\ Went(n, l)' = opens[l]
  <2>1. HasPort(n, l) /\ ~HasPort(n, l)'
    BY <1>4
  <2> QED BY <1>6, <2>1 DEF Went
<1>8. ASSUME NEW x \in Nodes, x # n
      PROVE  Went(x, l)' = Went(x, l) /\ Went(x, l) \in Int
  <2>1. HasPort(x, l)' <=> HasPort(x, l)
    BY <1>4, <1>8
  <2> QED BY <1>5, <1>6, <2>1 DEF Went
<1>9. ASSUME NEW x \in Nodes
      PROVE  NotFewer(x)
  <2>1. \A k \in Links \ {l} : HasPort(x, k)' <=> HasPort(x, k)
    BY <1>4
  <2>2. /\ Came(x, l) \in Int /\ Came(x, l)' \in Int
        /\ Went(x, l) \in Int /\ Went(x, l)' \in Int
        /\ Came(x, l) <= Came(x, l)' /\ Went(x, l) <= Went(x, l)'
    BY <1>5, <1>6, <1>7, <1>8
  <2> QED BY <1>5, <2>1, <2>2, FewerByOne
<1> QED BY <1>5, <1>7, <1>9 DEF Went1

\* The changes themselves.
LEMMA CountsInserted ==
    ASSUME NEW n, NEW m, NEW l \in LinksOf(n), LSInserts(n, node[n], m, node'[n]), Came1(n, l)
    PROVE  Counts(n)
BY DEF LSInserts, LSRelinked, Counts

LEMMA CountsRemoved ==
    ASSUME NEW n, NEW m, NEW l \in LinksOf(n), LSRemoves(n, node[n], m, node'[n]), Went1(n, l)
    PROVE  Counts(n)
BY DEF LSRemoves, LSRelinked, Counts

-----------------------------------------------------------------------------
(* Link states: the actions.                                                 *)

LEMMA OwnStatesStep ==
    ASSUME case' = case, OwnStates, NEW n \in Nodes, OthersStay(n), OwnState(n, node'[n])
    PROVE  OwnStates'
<1>1. ASSUME NEW x \in Nodes
      PROVE  OwnState(x, node'[x])
  <2>1. CASE x = n
    BY <2>1
  <2>2. CASE x # n
    <3>1. node'[x] = node[x] /\ OwnState(x, node[x])
      BY <2>2 DEF OthersStay, OwnStates
    <3> QED BY <3>1
  <2> QED BY <2>1, <2>2
<1>2. \A x \in Nodes : OwnState(x, node[x])' <=> OwnState(x, node'[x])
  BY DEF OwnState, Reaches
<1> QED BY <1>1, <1>2 DEF OwnStates

LEMMA NextOverLinks ==
    ASSUME PInv', case' = case, NEW n \in Nodes
    PROVE  OverLinks(node'[n])
<1>1. OverLinks(node[n])'
  <2>1. ASSUME NEW m \in Nodes, NEW l \in node'[n].neighbours[m]
        PROVE  l \in case'.links
    <3>1. PortsOf(n, node[n])'
      BY DEF PInv, Typed, IPCP
    <3>2. PortsOf(n, node'[n])
      BY <3>1 DEF PortsOf
    <3>3. l \in LinksOf(n) /\ NextTo(n, l) = m
      BY <3>2 DEF PortsOf
    <3>4. l \in Links /\ n \in {Ends[l][1], Ends[l][2]} /\ HasPort(n, l)'
      BY <3>3, EndsOfLinks DEF HasPort
    <3>5. PortsFit(l)' /\ phase'[l] \in {"none", "requested", "established", "released"}
      BY <3>4 DEF PInv, Typed
    <3> QED BY <3>4, <3>5 DEF PortsFit
  <2> QED BY <2>1 DEF OverLinks
<1> QED BY <1>1 DEF OverLinks

LEMMA LSKept ==
    ASSUME PInv', case' = case,
           ~IsDV => OwnStates' /\ StatesKnown' /\ MessagesKnown' /\ ChangesCounted'
    PROVE  LSInv'
<1>1. IsDV' <=> IsDV
  BY CaseKept
<1> QED BY <1>1, PartsOfLS

\* The states of both sides of a step, in numbers.
LEMMA StatesBoth ==
    ASSUME PInv, PInv', case' = case, ~IsDV
    PROVE  StatesType /\ StatesType'
<1>1. ~IsDV'
  BY CaseKept
<1> QED BY <1>1, StatesTyped

LEMMA LSCreates ==
    ASSUME PInv, DVInv, LSInv, NEW l \in Links,
           CreateNM1Flow(l) \/ CreateNM1FlowWithoutAllocate(l)
    PROVE  LSInv'
<1>1. chan' = chan /\ case' = case
  BY DEF CreateNM1Flow, CreateNM1FlowWithoutAllocate
<1>2. PICK n \in Nodes : /\ l \in LinksOf(n) /\ NextTo(n, l) \in Nodes
                         /\ Gains(n, NextTo(n, l), l) /\ PInv'
                         /\ Came1(n, l) /\ \A x \in Nodes : NotFewer(x)
  <2>1. CASE CreateNM1Flow(l)
    BY <2>1, Creates, CountsCreated
  <2>2. CASE CreateNM1FlowWithoutAllocate(l)
    BY <2>2, Accepts, CountsAccepted
  <2> QED BY <2>1, <2>2
<1>3. ASSUME ~IsDV
      PROVE  OwnStates' /\ StatesKnown' /\ MessagesKnown' /\ ChangesCounted'
  <2> DEFINE m == NextTo(n, l)
             s == node[n]
             t == node'[n]
  <2>1. OwnStates /\ StatesKnown /\ MessagesKnown /\ ChangesCounted
    BY <1>3, PartsOfLS
  <2>2. /\ Inserts(n, s, m, l, t) /\ LSInserts(n, s, m, t) /\ OthersStay(n)
    BY <1>2, <1>3 DEF Gains
  <2>3. IPCP(n, s) /\ OwnState(n, s) /\ OverLinks(t)
    BY <1>1, <1>2, <2>1, NextOverLinks DEF PInv, Typed, OwnStates
  <2>4. OwnState(n, t)
    BY <1>2, <1>3, <2>2, <2>3, OwnInserted
  <2>5. Learns(n, s, t) /\ OwnOnly(n, s, t)
    BY <1>3, <2>2, <2>3, LearnsInserted
  <2>6. StatesType /\ StatesType'
    BY <1>1, <1>2, <1>3, StatesBoth
  <2>7. Rises
    BY <2>2, <2>5, <2>6, LimitsRise
  <2>8. OwnStates'
    BY <1>1, <2>1, <2>2, <2>4, OwnStatesStep
  <2>9. StatesKnown'
    BY <2>1, <2>2, <2>5, <2>6, <2>7, WithinOwn, StatesKnownStep
  <2>10. MessagesKnown'
    BY <1>1, <1>3, <2>1, <2>6, <2>7, MessagesStep
  <2>11. Counts(n)
    BY <1>2, <2>2, CountsInserted
  <2>12. ChangesCounted'
    BY <1>1, <1>2, <1>3, <2>1, <2>2, <2>11, ChangesCountedStep
  <2> QED BY <2>8, <2>9, <2>10, <2>12
<1> QED BY <1>1, <1>2, <1>3, LSKept

\* An end goes, whichever is first.
LEMMA ReleasesOne ==
    ASSUME PInv, NEW l \in Links, DeleteRequestFlow(l) \/ \E n \in Nodes : RemoveNM1Flow(l, n)
    PROVE  \E n \in {Ends[l][1], Ends[l][2]}, p \in {"none", "released"} :
              /\ HasPort(n, l) /\ RemoveNM1FlowBindings(n, l)
              /\ phase' = [phase EXCEPT ![l] = p] /\ cut' = TRUE
              /\ p = "none" => phase[l] = "released"
              /\ p = "released" => phase[l] = "established"
<1>1. "none" # "released"
  OBVIOUS
<1>2. CASE DeleteRequestFlow(l)
  <2>1. PICK n \in {Ends[l][1], Ends[l][2]} :
          /\ HasPort(n, l) /\ RemoveNM1FlowBindings(n, l)
          /\ phase' = [phase EXCEPT ![l] = "none"] /\ cut' = TRUE
          /\ phase[l] = "released"
    BY <1>2, Deletion
  <2> QED BY <1>1, <2>1
<1>3. CASE \E n \in Nodes : RemoveNM1Flow(l, n)
  <2>1. PICK n \in Nodes : RemoveNM1Flow(l, n)
    BY <1>3
  <2> QED BY <1>1, <2>1, Removal
<1> QED BY <1>2, <1>3

LEMMA LSReleases ==
    ASSUME PInv, DVInv, LSInv, NEW l \in Links,
           DeleteRequestFlow(l) \/ \E n \in Nodes : RemoveNM1Flow(l, n)
    PROVE  LSInv'
<1>1. PICK n \in {Ends[l][1], Ends[l][2]}, p \in {"none", "released"} :
        /\ HasPort(n, l) /\ RemoveNM1FlowBindings(n, l)
        /\ phase' = [phase EXCEPT ![l] = p] /\ cut' = TRUE
        /\ p = "none" => phase[l] = "released"
        /\ p = "released" => phase[l] = "established"
  BY ReleasesOne
<1>2. /\ n \in Nodes /\ l \in LinksOf(n) /\ NextTo(n, l) \in Nodes
      /\ Loses(n, NextTo(n, l), l) /\ PInv'
  BY <1>1, Releases
<1>3. Clears(n, l) /\ case' = case /\ opens' = opens
  BY <1>1 DEF RemoveNM1FlowBindings, Clears, Replaces
<1>4. Went1(n, l) /\ \A x \in Nodes : NotFewer(x)
  BY <1>1, <1>2, <1>3, CountsReleased
<1>5. ASSUME ~IsDV
      PROVE  OwnStates' /\ StatesKnown' /\ MessagesKnown' /\ ChangesCounted'
  <2> DEFINE m == NextTo(n, l)
             s == node[n]
             t == node'[n]
  <2>1. OwnStates /\ StatesKnown /\ MessagesKnown /\ ChangesCounted
    BY <1>5, PartsOfLS
  <2>2. /\ Removes(n, s, m, l, t) /\ LSRemoves(n, s, m, t) /\ OthersStay(n)
    BY <1>2, <1>5 DEF Loses
  <2>3. IPCP(n, s) /\ OwnState(n, s) /\ OverLinks(t)
    BY <1>2, <1>3, <2>1, NextOverLinks DEF PInv, Typed, OwnStates
  <2>4. OwnState(n, t)
    BY <1>2, <1>5, <2>2, <2>3, OwnRemoved
  <2>5. Learns(n, s, t) /\ OwnOnly(n, s, t)
    BY <1>2, <1>5, <2>2, <2>3, LearnsRemoved
  <2>6. StatesType /\ StatesType'
    BY <1>2, <1>3, <1>5, StatesBoth
  <2>7. Rises
    BY <1>2, <2>2, <2>5, <2>6, LimitsRise
  <2>8. OwnStates'
    BY <1>2, <1>3, <2>1, <2>2, <2>4, OwnStatesStep
  <2>9. StatesKnown'
    BY <1>2, <2>1, <2>2, <2>5, <2>6, <2>7, WithinOwn, StatesKnownStep
  <2>10. MessagesKnown'
    <3>1. ASSUME NEW x \in Nodes, NEW k \in LinksOf(x), NEW i \in 1 .. Len(chan'[k][x])
          PROVE  \E j \in 1 .. Len(chan[k][x]) : chan'[k][x][i] = chan[k][x][j]
      <4>1. chan'[k][x] = IF k = l /\ x = n THEN <<>> ELSE chan[k][x]
        BY <1>2, <1>3, NothingOnItsWay
      <4>2. ~(k = l /\ x = n)
        BY <4>1
      <4>3. chan'[k][x] = chan[k][x]
        BY <4>1, <4>2
      <4> QED BY <4>3
    <3> QED BY <1>5, <2>1, <2>6, <2>7, <3>1, MessagesStep
  <2>11. Counts(n)
    BY <1>2, <1>4, <2>2, CountsRemoved
  <2>12. ChangesCounted'
    BY <1>2, <1>3, <1>4, <1>5, <2>1, <2>2, <2>11, ChangesCountedStep
  <2> QED BY <2>8, <2>9, <2>10, <2>12
<1> QED BY <1>2, <1>3, <1>5, LSKept

\* Steps in which no end comes or goes.
LEMMA NoneFewerKept ==
    ASSUME PInv, phase' = phase, opens' = opens, NEW n \in Nodes,
           node'[n].neighbours = node[n].neighbours, OthersStay(n)
    PROVE  \A x \in Nodes : NotFewer(x)
<1>1. \A x \in Nodes, k \in Links : HasPort(x, k)' <=> HasPort(x, k)
  BY PortsKept
<1> QED BY <1>1, NoneFewer

\* The update of a link state IPCP.
LEMMA UpdateLS ==
    ASSUME PInv, ~IsDV, StatesType, StatesKnown, NEW n \in Nodes, NEW m
    PROVE  LET up == UpdateFor(n, m)
           IN  /\ DOMAIN up = node[n].routing.lastChanges
               /\ up \in LSUpdate
               /\ \A k \in DOMAIN up : /\ k \in Nodes /\ up[k].sId \in Nat
                                       /\ up[k] = NetState(n)[k] /\ up[k].sId <= LimitOf(k)
<1> DEFINE up == UpdateFor(n, m)
           last == node[n].routing.lastChanges
<1>1. up = [k \in last |-> NetState(n)[k]]
  BY DEF UpdateFor, LS!UpdateTo, NetState
<1>2. last \in SUBSET Nodes /\ NetState(n) \in [Nodes -> LinkState]
  BY LSTypes DEF PInv, Typed, NetState
<1> HIDE DEF up, last
<1>3. DOMAIN up = last /\ \A k \in last : up[k] = NetState(n)[k]
  BY <1>1
<1>4. up \in [last -> LinkState]
  BY <1>1, <1>2
<1>5. up \in LSUpdate
  BY <1>2, <1>4 DEF LSUpdate
<1>6. \A k \in last : k \in Nodes /\ up[k].sId \in Nat /\ up[k].sId <= LimitOf(k)
  BY <1>2, <1>3 DEF StatesType, StatesKnown
<1> QED BY <1>3, <1>5, <1>6 DEF up, last

LEMMA LSTells ==
    ASSUME PInv, DVInv, LSInv, NEW n \in Nodes, Time2Update(n)
    PROVE  LSInv'
<1>1. Says(n) /\ Sending(n) /\ PInv' /\ case' = case /\ phase' = phase /\ opens' = opens
  BY Sends
<1>2. ASSUME ~IsDV
      PROVE  OwnStates' /\ StatesKnown' /\ MessagesKnown' /\ ChangesCounted'
  <2> DEFINE s == node[n]
             t == node'[n]
  <2>1. OwnStates /\ StatesKnown /\ MessagesKnown /\ ChangesCounted
    BY <1>2, PartsOfLS
  <2>2. t.neighbours = s.neighbours /\ LSSends(s, t) /\ OthersStay(n)
    BY <1>1, <1>2 DEF Says
  <2>3. OwnState(n, t)
    BY <1>2, <2>1, <2>2, OwnSaid DEF OwnStates
  <2>4. t.routing.netState = s.routing.netState /\ t.routing.secId = s.routing.secId
    BY <2>2 DEF LSSends
  <2>5. StatesType /\ StatesType'
    BY <1>1, <1>2, StatesBoth
  <2>6. Rises
    <3>1. ASSUME NEW k \in Nodes
          PROVE  LimitOf(k)' = LimitOf(k) /\ LimitOf(k) \in Nat
      BY <2>2, <2>4, <2>5 DEF LimitOf, OthersStay, StatesType
    <3> QED BY <3>1 DEF Rises
  <2>7. OwnStates'
    BY <1>1, <2>1, <2>2, <2>3, OwnStatesStep
  <2>8. StatesKnown'
    BY <2>1, <2>2, <2>4, <2>5, <2>6, WithinSame, StatesKnownStep
  <2>9. MessagesKnown'
    <3>1. ASSUME NEW x \in Nodes, NEW k \in LinksOf(x), NEW i \in 1 .. Len(chan'[k][x])
          PROVE  \/ \E j \in 1 .. Len(chan[k][x]) : chan'[k][x][i] = chan[k][x][j]
                 \/ \A d \in DOMAIN chan'[k][x][i] :
                       /\ d \in Nodes /\ chan'[k][x][i][d].sId \in Nat
                       /\ chan'[k][x][i][d].sId <= LimitOf(d)
      <4> DEFINE u == UpdateFor(n, x)
      <4>1. chan[k][x] \in Seq(Update)
        BY ChanOf DEF PInv
      <4>2. CASE chan'[k][x] = chan[k][x]
        BY <4>2
      <4>3. CASE chan'[k][x] # chan[k][x]
        <5>1. /\ x = NextTo(n, k) /\ chan'[k][x] = chan[k][x] \o SentOver(n, k)
          BY <1>1, <4>3, OneMoreOnItsWay
        <5>2. SentOver(n, k) = <<u>>
          <6>1. chan[k][x] \o <<>> = chan[k][x]
            BY <4>1
          <6> QED BY <4>3, <5>1, <6>1 DEF SentOver
        <5>3. /\ u \in LSUpdate
              /\ \A d \in DOMAIN u : d \in Nodes /\ u[d].sId \in Nat /\ u[d].sId <= LimitOf(d)
          BY <1>2, <2>1, <2>5, UpdateLS
        <5> HIDE DEF u
        <5>4. u \in Update
          BY <1>2, <5>3, UpdateOf
        <5>5. chan'[k][x] = chan[k][x] \o <<u>>
          BY <5>1, <5>2
        <5>6. CASE i \in 1 .. Len(chan[k][x])
          <6>1. chan'[k][x][i] = chan[k][x][i]
            BY <4>1, <5>4, <5>5, <5>6, Added
          <6> QED BY <5>6, <6>1
        <5>7. CASE i = Len(chan[k][x]) + 1
          <6>1. chan'[k][x][i] = u
            BY <4>1, <5>4, <5>5, <5>7, Added
          <6> QED BY <5>3, <6>1
        <5> QED BY <4>1, <5>4, <5>5, <5>6, <5>7, Added
      <4> QED BY <4>2, <4>3
    <3> QED BY <1>2, <2>1, <2>5, <2>6, <3>1, MessagesStep
  <2>10. ChangesCounted'
    <3>1. \A x \in Nodes : NotFewer(x)
      BY <1>1, <2>2, NoneFewerKept
    <3>2. Counts(n)
      BY <2>4 DEF Counts
    <3> QED BY <1>1, <1>2, <2>1, <2>2, <3>1, <3>2, ChangesCountedStep
  <2> QED BY <2>7, <2>8, <2>9, <2>10
<1> QED BY <1>1, <1>2, LSKept

\* The update that an IPCP takes.
LEMMA HeadKnown ==
    ASSUME PInv, ~IsDV, MessagesKnown, NEW n \in Nodes, NEW l \in LinksOf(n), chan[l][n] # <<>>,
           NEW up, up = Head(chan[l][n])
    PROVE  /\ up = chan[l][n][1] /\ 1 \in 1 .. Len(chan[l][n]) /\ up \in LSUpdate
           /\ \A k \in DOMAIN up : k \in Nodes /\ up[k].sId \in Nat /\ up[k].sId <= LimitOf(k)
<1>1. chan[l][n] \in Seq(Update)
  BY ChanOf DEF PInv
<1>2. up = chan[l][n][1] /\ 1 \in 1 .. Len(chan[l][n])
  BY <1>1, Taken
<1>3. up \in LSUpdate /\ \A k \in DOMAIN up : k \in Nodes /\ up[k].sId \in Nat
  BY <1>2, StatesOf
<1> QED BY <1>2, <1>3 DEF MessagesKnown

LEMMA LSHears ==
    ASSUME PInv, DVInv, LSInv, NEW n \in Nodes, NEW l, ReceiveRoutingUpdate(n, l)
    PROVE  LSInv'
<1> DEFINE up == Head(chan[l][n])
<1>1. /\ l \in LinksOf(n) /\ chan[l][n] \in Seq(Update) /\ chan[l][n] # <<>>
      /\ Takes(n, up) /\ Shifts(n, l) /\ PInv'
      /\ case' = case /\ phase' = phase /\ opens' = opens
  BY Receives DEF Shifts, Replaces
<1> HIDE DEF up
<1>2. ASSUME ~IsDV
      PROVE  OwnStates' /\ StatesKnown' /\ MessagesKnown' /\ ChangesCounted'
  <2> DEFINE s == node[n]
             t == node'[n]
  <2>1. OwnStates /\ StatesKnown /\ MessagesKnown /\ ChangesCounted
    BY <1>2, PartsOfLS
  <2>2. /\ IPCP(n, t) /\ t.neighbours = s.neighbours /\ LSReceives(n, s, up, t)
        /\ OthersStay(n)
    BY <1>1, <1>2 DEF Takes
  <2>3. IPCP(n, s) /\ OwnState(n, s) /\ OverLinks(t)
    BY <1>1, <2>1, NextOverLinks DEF PInv, Typed, OwnStates
  <2>4. /\ up \in LSUpdate
        /\ \A k \in DOMAIN up : k \in Nodes /\ up[k].sId \in Nat /\ up[k].sId <= LimitOf(k)
    BY <1>1, <1>2, <2>1, HeadKnown DEF up
  <2>5. OwnState(n, t)
    <3>1. n \in DOMAIN up => up[n].sId <= s.routing.netState[n].sId
      BY <2>4 DEF LimitOf
    <3> QED BY <1>2, <2>2, <2>3, <2>4, <3>1, OwnReceived
  <2>6. Learns(n, s, t) /\ Remembers(s, up, t)
    BY <1>2, <2>2, <2>3, <2>4, LearnsReceived
  <2>7. StatesType /\ StatesType'
    BY <1>1, <1>2, StatesBoth
  <2>8. Rises
    BY <2>2, <2>6, <2>7, LimitsRise
  <2>9. OwnStates'
    BY <1>1, <2>1, <2>2, <2>5, OwnStatesStep
  <2>10. StatesKnown'
    BY <2>1, <2>2, <2>4, <2>6, <2>7, <2>8, WithinTaken, StatesKnownStep
  <2>11. MessagesKnown'
    <3>1. ASSUME NEW x \in Nodes, NEW k \in LinksOf(x), NEW i \in 1 .. Len(chan'[k][x])
          PROVE  \E j \in 1 .. Len(chan[k][x]) : chan'[k][x][i] = chan[k][x][j]
      <4>1. CASE k = l /\ x = n
        <5>1. chan'[k][x] = Tail(chan[l][n])
          BY <1>1, <4>1, OneLessOnItsWay
        <5>2. i + 1 \in 1 .. Len(chan[l][n]) /\ chan'[k][x][i] = chan[l][n][i + 1]
          BY <1>1, <5>1, Taken
        <5> QED BY <4>1, <5>2
      <4>2. CASE ~(k = l /\ x = n)
        <5>1. chan'[k][x] = chan[k][x]
          BY <1>1, <4>2, OneLessOnItsWay
        <5> QED BY <5>1
      <4> QED BY <4>1, <4>2
    <3> QED BY <1>2, <2>1, <2>7, <2>8, <3>1, MessagesStep
  <2>12. ChangesCounted'
    <3>1. \A x \in Nodes : NotFewer(x)
      BY <1>1, <2>2, NoneFewerKept
    <3>2. Counts(n)
      BY <2>2 DEF Counts, LSReceives
    <3> QED BY <1>1, <1>2, <2>1, <2>2, <3>1, <3>2, ChangesCountedStep
  <2> QED BY <2>9, <2>10, <2>11, <2>12
<1> QED BY <1>1, <1>2, LSKept

-----------------------------------------------------------------------------
(* Link states: what an IPCP has learned since it has a neighbor.            *)

Owes(n, m) ==
    \A k \in owed[n][m] :
        /\ node[n].neighbours[m] # {}
        /\ Single(n, m) => \A l \in node[n].neighbours[m] : Paid(n, m, l, k)
Flooded == \A n, m \in Nodes : Owes(n, m)

LEMMA PartsOfFlood ==
    /\ FloodInv <=> (~IsDV => Flooded)
    /\ (FloodInv <=> (~IsDV => Flooded))'
BY DEF FloodInv, Flooded, Owes

\* The three ways in which it is on its way to the neighbor, or will be.
OnItsWay(l, m, k, v) ==
    \E i \in 1 .. Len(chan[l][m]) : k \in DOMAIN chan[l][m][i] /\ chan[l][m][i][k].sId >= v
ToSay(n, k) ==
    k \in node[n].routing.lastChanges /\ (node[n].routing.timer \/ n \in case.garbage)

LEMMA PaidIn ==
    ASSUME NEW n, NEW m, NEW l, NEW k, NEW v
    PROVE  /\ v = NetState(n)[k].sId =>
                (Paid(n, m, l, k) <=> \/ NetState(m)[k].sId >= v
                                      \/ OnItsWay(l, m, k, v)
                                      \/ ToSay(n, k)
                                      \/ phase[l] = "released")
           /\ v = NetState(n)'[k].sId =>
                (Paid(n, m, l, k)' <=> \/ NetState(m)'[k].sId >= v
                                       \/ OnItsWay(l, m, k, v)'
                                       \/ ToSay(n, k)'
                                       \/ phase'[l] = "released")
BY DEF Paid, OnItsWay, ToSay, NetState

\* No IPCP forgets what it knows, and nothing on its way is lost but with its flow.
NoneForgets == \A n, k \in Nodes : NetState(n)[k].sId <= NetState(n)'[k].sId

NoneLost ==
    \A n, m, k \in Nodes : \A l \in node'[n].neighbours[m] : \A v \in Nat :
        OnItsWay(l, m, k, v) => \/ OnItsWay(l, m, k, v)'
                                \/ NetState(m)'[k].sId >= v
                                \/ phase'[l] = "released"

NoneReturns ==
    \A n, m \in Nodes : \A l \in node'[n].neighbours[m] :
        phase[l] = "released" => phase'[l] = "released"

LEMMA PaidStep ==
    ASSUME StatesType, StatesType', NoneForgets, NoneLost, NoneReturns,
           NEW n \in Nodes, NEW m \in Nodes, NEW k \in Nodes, NEW l \in node'[n].neighbours[m],
           NEW v, v = NetState(n)[k].sId, v = NetState(n)'[k].sId, Paid(n, m, l, k),
           ToSay(n, k) => \/ ToSay(n, k)'
                          \/ OnItsWay(l, m, k, v)'
                          \/ phase'[l] = "released"
    PROVE  Paid(n, m, l, k)'
<1>1. /\ v \in Nat /\ NetState(m)[k].sId \in Nat /\ NetState(m)'[k].sId \in Nat
      /\ NetState(m)[k].sId <= NetState(m)'[k].sId
  BY DEF StatesType, NoneForgets
<1>2. /\ OnItsWay(l, m, k, v) => \/ OnItsWay(l, m, k, v)'
                                 \/ NetState(m)'[k].sId >= v
                                 \/ phase'[l] = "released"
      /\ phase[l] = "released" => phase'[l] = "released"
  BY <1>1 DEF NoneLost, NoneReturns
<1>3. NetState(m)[k].sId >= v => NetState(m)'[k].sId >= v
  BY <1>1
<1>4. \/ NetState(m)[k].sId >= v
      \/ OnItsWay(l, m, k, v)
      \/ ToSay(n, k)
      \/ phase[l] = "released"
  BY PaidIn
<1>5. \/ NetState(m)'[k].sId >= v
      \/ OnItsWay(l, m, k, v)'
      \/ ToSay(n, k)'
      \/ phase'[l] = "released"
  BY <1>2, <1>3, <1>4
<1> QED BY <1>5, PaidIn

\* What a step of n leaves owed.
Changed(n) ==
    {k \in Nodes : node'[n].routing.netState[k] # node[n].routing.netState[k]}
OwedNext(n) ==
    \A x, y \in Nodes :
        owed'[x][y] = IF x # n THEN owed[x][y]
                      ELSE IF y \in Adjacent(node'[n]) THEN owed[n][y] \cup Changed(n) ELSE {}

LEMMA OwedBecomes ==
    ASSUME Typed, ~IsDV, NEW n \in Nodes, NEW t, Becomes(n, t), IPCP(n, node'[n])
    PROVE  OwedNext(n)
<1>1. OthersStay(n) /\ node'[n] = t /\ IPCP(n, t)
  BY Becoming
<1>2. DOMAIN t.routing.neig = Adjacent(t)
  BY <1>1, LSTypes DEF Ones
<1>3. owed \in [Nodes -> [Nodes -> SUBSET Nodes]]
  BY DEF Typed
<1> DEFINE old == node[n].routing.netState
           changed == {k \in Nodes : t.routing.netState[k] # old[k]}
           row == [m \in Nodes |-> IF m \in DOMAIN t.routing.neig
                                   THEN owed[n][m] \cup changed ELSE {}]
<1>4. owed' = [owed EXCEPT ![n] = row]
  BY DEF Becomes
<1>5. changed = Changed(n)
  BY <1>1 DEF Changed
<1> HIDE DEF changed
<1>6. \A y \in Nodes : row[y] = IF y \in Adjacent(t) THEN owed[n][y] \cup Changed(n) ELSE {}
  BY <1>2, <1>5
<1> HIDE DEF row
<1> QED BY <1>1, <1>3, <1>4, <1>6 DEF OwedNext

LEMMA SingleKept ==
    ASSUME case' = case
    PROVE  \A n, m : Single(n, m)' <=> Single(n, m)
BY DEF Single

\* The others owe what they owed.
LEMMA OwesOther ==
    ASSUME PInv, StatesType, StatesType', NoneForgets, NoneLost, NoneReturns, case' = case, Flooded,
           NEW n \in Nodes, OthersStay(n), OwedNext(n), NEW x \in Nodes, x # n, NEW y \in Nodes
    PROVE  Owes(x, y)'
<1>1. node'[x] = node[x] /\ owed'[x][y] = owed[x][y]
  BY DEF OthersStay, OwedNext
<1>2. ASSUME NEW k \in owed'[x][y]
      PROVE  node'[x].neighbours[y] # {}
  BY <1>1 DEF Flooded, Owes
<1>3. ASSUME NEW k \in owed'[x][y], k \in Nodes, Single(x, y)', NEW l \in node'[x].neighbours[y]
      PROVE  Paid(x, y, l, k)'
  <2>1. Paid(x, y, l, k)
    BY <1>1, <1>3, SingleKept DEF Flooded, Owes
  <2>2. PICK v : v = NetState(x)[k].sId
    OBVIOUS
  <2>3. v = NetState(x)'[k].sId
    BY <1>1, <2>2 DEF NetState
  <2>4. ToSay(x, k) => ToSay(x, k)'
    BY <1>1 DEF ToSay
  <2> QED BY <1>3, <2>1, <2>2, <2>3, <2>4, PaidStep
<1>4. \A k \in owed'[x][y] : k \in Nodes
  BY <1>1 DEF PInv, Typed
<1> QED BY <1>2, <1>3, <1>4 DEF Owes

\* An IPCP owes what it learns to those that are its neighbors.
Narrows(n) ==
    \A y \in Nodes : node[n].neighbours[y] # {} /\ Single(n, y) =>
                        node'[n].neighbours[y] \subseteq node[n].neighbours[y]

LEMMA OwesLearner ==
    ASSUME PInv, PInv', ~IsDV, StatesType, StatesType', NoneForgets, NoneLost, NoneReturns,
           case' = case, Flooded, NEW n \in Nodes, OthersStay(n), OwedNext(n), Narrows(n),
           Learns(n, node[n], node'[n]), NEW y \in Nodes
    PROVE  Owes(n, y)'
<1>1. ASSUME NEW k \in owed'[n][y]
      PROVE  /\ node'[n].neighbours[y] # {} /\ k \in Nodes
             /\ k \in owed[n][y] \/ k \in Changed(n)
  <2>1. y \in Adjacent(node'[n]) /\ owed'[n][y] = owed[n][y] \cup Changed(n)
    BY DEF OwedNext
  <2>2. owed[n][y] \subseteq Nodes /\ Changed(n) \subseteq Nodes
    BY DEF PInv, Typed, Changed
  <2> QED BY <2>1, <2>2 DEF Adjacent
<1>2. ASSUME NEW k \in owed'[n][y], Single(n, y)', NEW l \in node'[n].neighbours[y]
      PROVE  Paid(n, y, l, k)'
  <2>1. k \in Nodes
    BY <1>1
  <2>2. CASE k \in Changed(n)
    <3>1. ToSay(n, k)'
      BY <2>1, <2>2 DEF Changed, Learns, ToSay
    <3>2. PICK v : v = NetState(n)'[k].sId
      OBVIOUS
    <3> QED BY <3>1, <3>2, PaidIn
  <2>3. CASE k \notin Changed(n)
    <3>1. k \in owed[n][y] /\ NetState(n)'[k] = NetState(n)[k]
      BY <1>1, <2>1, <2>3 DEF Changed, NetState
    <3>2. /\ node[n].neighbours[y] # {}
          /\ \A j \in node[n].neighbours[y] : Paid(n, y, j, k)
      BY <1>2, <3>1, SingleKept DEF Flooded, Owes
    <3>3. l \in node[n].neighbours[y]
      BY <1>2, <3>2, SingleKept DEF Narrows
    <3>4. PICK v : v = NetState(n)[k].sId
      OBVIOUS
    <3>5. v = NetState(n)'[k].sId
      BY <3>1, <3>4
    <3>6. ToSay(n, k) => ToSay(n, k)'
      BY DEF ToSay, Learns
    <3>7. Paid(n, y, l, k)
      BY <3>2, <3>3
    <3> QED BY <1>2, <2>1, <3>4, <3>5, <3>6, <3>7, PaidStep
  <2> QED BY <2>2, <2>3
<1> QED BY <1>1, <1>2 DEF Owes

LEMMA FloodLearns ==
    ASSUME PInv, PInv', ~IsDV, NoneLost, NoneReturns, case' = case, Flooded,
           NEW n \in Nodes, OthersStay(n), OwedNext(n), Narrows(n),
           Learns(n, node[n], node'[n])
    PROVE  Flooded'
<1>1. StatesType /\ StatesType'
  BY StatesBoth
<1>2. NoneForgets
  <2>1. ASSUME NEW x \in Nodes, NEW k \in Nodes
        PROVE  NetState(x)[k].sId <= NetState(x)'[k].sId
    <3>1. CASE x = n
      BY <3>1 DEF Learns, NetState
    <3>2. CASE x # n
      <4>1. NetState(x)' = NetState(x) /\ NetState(x)[k].sId \in Nat
        BY <1>1, <3>2 DEF OthersStay, NetState, StatesType
      <4> QED BY <4>1
    <3> QED BY <3>1, <3>2
  <2> QED BY <2>1 DEF NoneForgets
<1>3. ASSUME NEW x \in Nodes, NEW y \in Nodes
      PROVE  Owes(x, y)'
  <2>1. CASE x = n
    BY <1>1, <1>2, <2>1, OwesLearner
  <2>2. CASE x # n
    BY <1>1, <1>2, <2>2, OwesOther
  <2> QED BY <2>1, <2>2
<1> QED BY <1>3 DEF Flooded

\* There is one link between two IPCPs, or there are more.
LEMMA SingleLink ==
    ASSUME PInv, NEW n \in Nodes, NEW m \in Nodes, Single(n, m),
           NEW k \in LinksOf(n) \cap case.links, NEW l \in LinksOf(n) \cap case.links,
           NextTo(n, k) = m, NextTo(n, l) = m
    PROVE  k = l
<1> DEFINE S == {x \in case.links : {Ends[x][1], Ends[x][2]} = {n, m}}
<1>1. case.links \subseteq Links /\ IsFiniteSet(Links)
  BY RoutingAssumption DEF PInv, Typed
<1>2. IsFiniteSet(S) /\ Cardinality(S) <= 1 /\ Cardinality(S) \in Nat
  <2>1. IsFiniteSet(S)
    BY <1>1, FS_Subset
  <2> QED BY <2>1, FS_CardinalityType DEF Single
<1>3. k \in S /\ l \in S
  <2>1. ASSUME NEW x \in LinksOf(n) \cap case.links, NextTo(n, x) = m
        PROVE  x \in S
    BY <2>1 DEF LinksOf, NextTo
  <2> QED BY <2>1
<1> HIDE DEF S
<1>4. ASSUME k # l
      PROVE  FALSE
  <2>1. /\ IsFiniteSet({k}) /\ Cardinality({k}) = 1
    BY FS_Singleton
  <2>2. {k} \subseteq S
    BY <1>3
  <2>3. Cardinality({k}) + 1 <= Cardinality(S)
    BY <1>2, <1>3, <1>4, <2>2, MoreElements
  <2> QED BY <1>2, <2>1, <2>3
<1> QED BY <1>4

LEMMA PortsOfNode ==
    ASSUME PInv, NEW n \in Nodes, NEW m \in Nodes, NEW l \in node[n].neighbours[m]
    PROVE  /\ l \in LinksOf(n) \cap case.links /\ NextTo(n, l) = m /\ HasPort(n, l) /\ l \in Links
           /\ m # n /\ l \in LinksOf(m) /\ NextTo(m, l) = n
<1>1. PortsOf(n, node[n])
  BY DEF PInv, Typed, IPCP
<1>2. l \in LinksOf(n) /\ NextTo(n, l) = m
  BY <1>1 DEF PortsOf
<1>3. l \in case.links
  BY PortsOverLinks DEF OverLinks
<1>4. HasPort(n, l)
  BY <1>2 DEF HasPort
<1>5. l \in Links /\ m # n /\ l \in LinksOf(m) /\ NextTo(m, l) = n
  BY <1>2, EndsOfLinks
<1> QED BY <1>2, <1>3, <1>4, <1>5

LEMMA PortsOfNext ==
    ASSUME PInv', case' = case, NEW n \in Nodes, NEW m \in Nodes,
           NEW l \in node'[n].neighbours[m]
    PROVE  /\ l \in LinksOf(n) \cap case.links /\ NextTo(n, l) = m /\ HasPort(n, l)' /\ l \in Links
           /\ m # n /\ l \in LinksOf(m) /\ NextTo(m, l) = n
<1>1. PortsOf(n, node[n])'
  BY DEF PInv, Typed, IPCP
<1>2. l \in LinksOf(n) /\ NextTo(n, l) = m
  BY <1>1 DEF PortsOf
<1>3. l \in case.links
  BY NextOverLinks DEF OverLinks
<1>4. HasPort(n, l)'
  BY <1>2 DEF HasPort
<1>5. l \in Links /\ m # n /\ l \in LinksOf(m) /\ NextTo(m, l) = n
  BY <1>2, EndsOfLinks
<1> QED BY <1>2, <1>3, <1>4, <1>5

LEMMA FloodKept ==
    ASSUME case' = case, ~IsDV => Flooded'
    PROVE  FloodInv'
<1>1. IsDV' <=> IsDV
  BY CaseKept
<1> QED BY <1>1, PartsOfFlood

LEMMA FloodCreates ==
    ASSUME PInv, DVInv, LSInv, FloodInv, NEW l \in Links,
           CreateNM1Flow(l) \/ CreateNM1FlowWithoutAllocate(l)
    PROVE  FloodInv'
<1>1. chan' = chan /\ case' = case
  BY DEF CreateNM1Flow, CreateNM1FlowWithoutAllocate
<1>2. PICK n \in Nodes, p \in {"requested", "established"} :
        /\ l \in LinksOf(n) /\ l \in case.links /\ NextTo(n, l) \in Nodes
        /\ ~HasPort(n, l) /\ Gains(n, NextTo(n, l), l) /\ PInv'
        /\ Becomes(n, InsertedFlow(node[n], NextTo(n, l), l))
        /\ phase[l] # "released" /\ phase' = [phase EXCEPT ![l] = p]
  <2>1. CASE CreateNM1Flow(l)
    <3>1. /\ phase[l] = "none" /\ phase' = [phase EXCEPT ![l] = "requested"]
          /\ Becomes(Ends[l][1], InsertedFlow(node[Ends[l][1]], NextTo(Ends[l][1], l), l))
      BY <2>1 DEF CreateNM1Flow
    <3> QED BY <2>1, <3>1, Creates
  <2>2. CASE CreateNM1FlowWithoutAllocate(l)
    <3>1. /\ phase[l] = "requested" /\ phase' = [phase EXCEPT ![l] = "established"]
          /\ Becomes(Ends[l][2], InsertedFlow(node[Ends[l][2]], NextTo(Ends[l][2], l), l))
      BY <2>2 DEF CreateNM1FlowWithoutAllocate
    <3> QED BY <2>2, <3>1, Accepts
  <2> QED BY <2>1, <2>2
<1>3. ASSUME ~IsDV
      PROVE  Flooded'
  <2> DEFINE m == NextTo(n, l)
             s == node[n]
             t == node'[n]
  <2>1. OwnStates /\ Flooded
    BY <1>3, PartsOfLS, PartsOfFlood
  <2>2. Inserts(n, s, m, l, t) /\ LSInserts(n, s, m, t) /\ OthersStay(n)
    BY <1>2, <1>3 DEF Gains
  <2>3. Learns(n, s, t)
    <3>1. IPCP(n, s) /\ OwnState(n, s)
      BY <2>1 DEF PInv, Typed, OwnStates
    <3> QED BY <1>3, <2>2, <3>1, LearnsInserted
  <2>4. OwedNext(n)
    <3>1. IPCP(n, t)
      BY <2>2 DEF Inserts
    <3> QED BY <1>2, <1>3, <3>1, OwedBecomes DEF PInv
  <2>5. NoneLost
    BY <1>1 DEF NoneLost, OnItsWay
  <2>6. NoneReturns
    <3>1. ASSUME NEW x \in Nodes, NEW y \in Nodes, NEW k \in node'[x].neighbours[y],
                 phase[k] = "released"
          PROVE  phase'[k] = "released"
      <4>1. k \in Links
        BY <1>1, <1>2, PortsOfNext
      <4>2. phase \in [Links -> {"none", "requested", "established", "released"}]
        BY DEF PInv, Typed
      <4> QED BY <1>2, <3>1, <4>1, <4>2
    <3> QED BY <3>1 DEF NoneReturns
  <2>7. Narrows(n)
    <3>1. ASSUME NEW y \in Nodes, s.neighbours[y] # {}, Single(n, y)
          PROVE  t.neighbours[y] \subseteq s.neighbours[y]
      <4>1. PICK k \in s.neighbours[y] : TRUE
        BY <3>1
      <4>2. k \in LinksOf(n) \cap case.links /\ NextTo(n, k) = y /\ HasPort(n, k)
        BY PortsOfNode
      <4>3. y # m
        BY <1>2, <3>1, <4>2, SingleLink
      <4> QED BY <2>2, <4>3 DEF Inserts
    <3> QED BY <3>1 DEF Narrows
  <2> QED BY <1>1, <1>2, <1>3, <2>1, <2>2, <2>3, <2>4, <2>5, <2>6, <2>7, FloodLearns
<1> QED BY <1>1, <1>3, FloodKept

LEMMA FloodReleases ==
    ASSUME PInv, DVInv, LSInv, FloodInv, NEW l \in Links,
           DeleteRequestFlow(l) \/ \E n \in Nodes : RemoveNM1Flow(l, n)
    PROVE  FloodInv'
<1>1. PICK n \in {Ends[l][1], Ends[l][2]}, p \in {"none", "released"} :
        /\ HasPort(n, l) /\ RemoveNM1FlowBindings(n, l)
        /\ phase' = [phase EXCEPT ![l] = p] /\ cut' = TRUE
        /\ p = "none" => phase[l] = "released"
        /\ p = "released" => phase[l] = "established"
  BY ReleasesOne
<1>2. /\ n \in Nodes /\ l \in LinksOf(n) /\ NextTo(n, l) \in Nodes
      /\ Loses(n, NextTo(n, l), l) /\ PInv'
  BY <1>1, Releases
<1>3. /\ Clears(n, l) /\ case' = case
      /\ Becomes(n, RemovedFlow(node[n], NextTo(n, l), l))
  BY <1>1 DEF RemoveNM1FlowBindings, Clears, Replaces
<1>4. phase'[l] = p /\ \A k \in Links \ {l} : phase'[k] = phase[k]
  BY <1>1 DEF PInv, Typed
<1>5. ASSUME ~IsDV
      PROVE  Flooded'
  <2> DEFINE m == NextTo(n, l)
             s == node[n]
             t == node'[n]
  <2>1. OwnStates /\ Flooded
    BY <1>5, PartsOfLS, PartsOfFlood
  <2>2. Removes(n, s, m, l, t) /\ LSRemoves(n, s, m, t) /\ OthersStay(n)
    BY <1>2, <1>5 DEF Loses
  <2>3. Learns(n, s, t)
    <3>1. IPCP(n, s) /\ OwnState(n, s)
      BY <1>2, <2>1 DEF PInv, Typed, OwnStates
    <3> QED BY <1>2, <1>5, <2>2, <3>1, LearnsRemoved
  <2>4. OwedNext(n)
    <3>1. IPCP(n, t)
      BY <2>2 DEF Removes
    <3> QED BY <1>2, <1>3, <1>5, <3>1, OwedBecomes DEF PInv
  \* Where there is still a port, the flow has not gone altogether.
  <2>5. ASSUME NEW x \in Nodes, NEW y \in Nodes, l \in node'[x].neighbours[y]
        PROVE  phase'[l] = "released"
    <3>1. HasPort(x, l)' /\ x \in {Ends[l][1], Ends[l][2]}
      <4>1. HasPort(x, l)' /\ l \in LinksOf(x)
        BY <1>2, <1>3, <2>5, PortsOfNext
      <4> QED BY <4>1, EndsOfLinks
    <3>2. PortsFit(l)'
      BY <1>2 DEF PInv
    <3>3. phase'[l] # "none"
      BY <3>1, <3>2 DEF PortsFit
    <3> QED BY <1>4, <3>3
  <2>6. NoneLost
    <3>1. ASSUME NEW x \in Nodes, NEW y \in Nodes, NEW k \in node'[x].neighbours[y], k # l
          PROVE  chan'[k][y] = chan[k][y]
      <4>1. k \in LinksOf(y)
        BY <1>2, <1>3, PortsOfNext
      <4> QED BY <1>2, <1>3, <3>1, <4>1, NothingOnItsWay
    <3> QED BY <2>5, <3>1 DEF NoneLost, OnItsWay
  <2>7. NoneReturns
    <3>1. ASSUME NEW x \in Nodes, NEW y \in Nodes, NEW k \in node'[x].neighbours[y],
                 phase[k] = "released"
          PROVE  phase'[k] = "released"
      <4>1. k \in Links
        BY <1>2, <1>3, PortsOfNext
      <4> QED BY <1>4, <2>5, <3>1, <4>1
    <3> QED BY <3>1 DEF NoneReturns
  <2>8. Narrows(n)
    BY <2>2 DEF Narrows, Removes, FewerPortsIn
  <2> QED BY <1>2, <1>3, <1>5, <2>1, <2>2, <2>3, <2>4, <2>6, <2>7, <2>8, FloodLearns
<1> QED BY <1>3, <1>5, FloodKept

LEMMA FloodHears ==
    ASSUME PInv, DVInv, LSInv, FloodInv, NEW n \in Nodes, NEW l, ReceiveRoutingUpdate(n, l)
    PROVE  FloodInv'
<1> DEFINE up == Head(chan[l][n])
<1>1. /\ l \in LinksOf(n) /\ chan[l][n] \in Seq(Update) /\ chan[l][n] # <<>>
      /\ Takes(n, up) /\ Shifts(n, l) /\ PInv' /\ case' = case /\ phase' = phase
      /\ Becomes(n, ReceiveUpdate(node[n], up))
  BY Receives DEF Shifts, Replaces, ReceiveRoutingUpdate
<1> HIDE DEF up
<1>2. ASSUME ~IsDV
      PROVE  Flooded'
  <2> DEFINE s == node[n]
             t == node'[n]
  <2>1. OwnStates /\ MessagesKnown /\ Flooded
    BY <1>2, PartsOfLS, PartsOfFlood
  <2>2. /\ IPCP(n, t) /\ t.neighbours = s.neighbours /\ LSReceives(n, s, up, t)
        /\ OthersStay(n)
    BY <1>1, <1>2 DEF Takes
  <2>3. /\ up = chan[l][n][1] /\ up \in LSUpdate
        /\ \A k \in DOMAIN up : k \in Nodes /\ up[k].sId \in Nat
    BY <1>1, <1>2, <2>1, HeadKnown DEF up
  <2>4. /\ Learns(n, s, t)
        /\ \A k \in DOMAIN up : up[k].sId <= t.routing.netState[k].sId
    <3>1. IPCP(n, s) /\ OwnState(n, s)
      BY <2>1 DEF PInv, Typed, OwnStates
    <3> QED BY <1>2, <2>2, <2>3, <3>1, LearnsReceived
  <2>5. OwedNext(n)
    BY <1>1, <1>2, <2>2, OwedBecomes DEF PInv
  <2>6. StatesType'
    BY <1>1, <1>2, StatesBoth
  <2>7. NoneLost
    <3>1. ASSUME NEW x \in Nodes, NEW y \in Nodes, NEW k \in Nodes,
                 NEW j \in node'[x].neighbours[y], NEW v \in Nat, OnItsWay(j, y, k, v)
          PROVE  OnItsWay(j, y, k, v)' \/ NetState(y)'[k].sId >= v
      <4>1. j \in LinksOf(y)
        BY <1>1, PortsOfNext
      <4>2. PICK i \in 1 .. Len(chan[j][y]) :
              k \in DOMAIN chan[j][y][i] /\ chan[j][y][i][k].sId >= v
        BY <3>1 DEF OnItsWay
      <4>3. CASE ~(j = l /\ y = n)
        <5>1. chan'[j][y] = chan[j][y]
          BY <1>1, <4>1, <4>3, OneLessOnItsWay
        <5> QED BY <4>2, <5>1 DEF OnItsWay
      <4>4. CASE j = l /\ y = n /\ i = 1
        <5>1. k \in DOMAIN up /\ up[k].sId >= v /\ up[k].sId \in Nat
          BY <2>3, <4>2, <4>4
        <5>2. up[k].sId <= NetState(n)'[k].sId /\ NetState(n)'[k].sId \in Nat
          BY <2>4, <2>6, <5>1 DEF NetState, StatesType
        <5> QED BY <4>4, <5>1, <5>2
      <4>5. CASE j = l /\ y = n /\ i # 1
        <5>1. chan'[j][y] = Tail(chan[l][n])
          BY <1>1, <4>1, <4>5, OneLessOnItsWay
        <5>2. i - 1 \in 1 .. Len(Tail(chan[l][n])) /\ Tail(chan[l][n])[i - 1] = chan[l][n][i]
          BY <1>1, <4>2, <4>5, Taken
        <5>3. /\ i - 1 \in 1 .. Len(chan'[j][y]) /\ chan'[j][y][i - 1] = chan[j][y][i]
          BY <4>5, <5>1, <5>2
        <5> QED BY <4>2, <5>3 DEF OnItsWay
      <4> QED BY <4>3, <4>4, <4>5
    <3> QED BY <3>1 DEF NoneLost
  <2>8. NoneReturns
    BY <1>1 DEF NoneReturns
  <2>9. Narrows(n)
    BY <2>2 DEF Narrows
  <2> QED BY <1>1, <1>2, <2>1, <2>2, <2>4, <2>5, <2>7, <2>8, <2>9, FloodLearns
<1> QED BY <1>1, <1>2, FloodKept

\* What an IPCP had to say is on its way to each neighbor to which there is one link.
LEMMA FloodTells ==
    ASSUME PInv, DVInv, LSInv, FloodInv, NEW n \in Nodes, Time2Update(n)
    PROVE  FloodInv'
<1>1. Says(n) /\ Sending(n) /\ PInv' /\ case' = case /\ phase' = phase
  BY Sends
<1>2. ASSUME ~IsDV
      PROVE  Flooded'
  <2> DEFINE s == node[n]
             t == node'[n]
  <2>1. OwnStates /\ StatesKnown /\ Flooded
    BY <1>2, PartsOfLS, PartsOfFlood
  <2>2. IPCP(n, t) /\ t.neighbours = s.neighbours /\ LSSends(s, t) /\ OthersStay(n)
    BY <1>1, <1>2 DEF Says
  <2>3. t.routing.netState = s.routing.netState
    BY <2>2 DEF LSSends
  <2>4. OwedNext(n)
    <3>1. PICK q : Becomes(n, q)
      BY DEF Time2Update
    <3> QED BY <1>2, <2>2, <3>1, OwedBecomes DEF PInv
  <2>5. StatesType /\ StatesType'
    BY <1>1, <1>2, StatesBoth
  <2>6. NoneForgets
    <3>1. ASSUME NEW x \in Nodes, NEW k \in Nodes
          PROVE  NetState(x)[k].sId <= NetState(x)'[k].sId
      <4>1. NetState(x)' = NetState(x) /\ NetState(x)[k].sId \in Nat
        BY <2>2, <2>3, <2>5 DEF OthersStay, NetState, StatesType
      <4> QED BY <4>1
    <3> QED BY <3>1 DEF NoneForgets
  <2>7. ASSUME NEW y \in Nodes, NEW j \in LinksOf(y), NEW i \in 1 .. Len(chan[j][y])
        PROVE  i \in 1 .. Len(chan'[j][y]) /\ chan'[j][y][i] = chan[j][y][i]
    <3>1. chan[j][y] \in Seq(Update)
      BY ChanOf DEF PInv
    <3>2. CASE chan'[j][y] = chan[j][y]
      BY <3>2
    <3>3. CASE chan'[j][y] # chan[j][y]
      <4> DEFINE u == UpdateFor(n, y)
      <4>1. y = NextTo(n, j) /\ chan'[j][y] = chan[j][y] \o SentOver(n, j)
        BY <1>1, <3>3, OneMoreOnItsWay
      <4>2. SentOver(n, j) = <<u>>
        <5>1. chan[j][y] \o <<>> = chan[j][y]
          BY <3>1
        <5> QED BY <3>3, <4>1, <5>1 DEF SentOver
      <4>3. u \in Update
        BY <1>2, <2>1, <2>5, UpdateLS, UpdateOf
      <4> HIDE DEF u
      <4> QED BY <3>1, <4>1, <4>2, <4>3, Added
    <3> QED BY <3>2, <3>3
  <2>8. NoneLost
    <3>1. ASSUME NEW x \in Nodes, NEW y \in Nodes, NEW k \in Nodes,
                 NEW j \in node'[x].neighbours[y], NEW v \in Nat, OnItsWay(j, y, k, v)
          PROVE  OnItsWay(j, y, k, v)'
      <4>1. j \in LinksOf(y)
        BY <1>1, PortsOfNext
      <4>2. PICK i \in 1 .. Len(chan[j][y]) :
              k \in DOMAIN chan[j][y][i] /\ chan[j][y][i][k].sId >= v
        BY <3>1 DEF OnItsWay
      <4>3. i \in 1 .. Len(chan'[j][y]) /\ chan'[j][y][i] = chan[j][y][i]
        BY <2>7, <4>1
      <4> QED BY <4>2, <4>3 DEF OnItsWay
    <3> QED BY <3>1 DEF NoneLost
  <2>9. NoneReturns
    BY <1>1 DEF NoneReturns
  <2>10. ASSUME NEW y \in Nodes
         PROVE  Owes(n, y)'
    <3>1. ASSUME NEW k \in owed'[n][y]
          PROVE  y \in Adjacent(t) /\ k \in owed[n][y] /\ k \in Nodes
      <4>1. Changed(n) = {}
        BY <2>3 DEF Changed
      <4>2. y \in Adjacent(t) /\ k \in owed[n][y]
        BY <2>4, <4>1 DEF OwedNext
      <4> QED BY <4>2 DEF PInv, Typed
    <3>2. ASSUME NEW k \in owed'[n][y], Single(n, y)', NEW l \in node'[n].neighbours[y]
          PROVE  Paid(n, y, l, k)'
      <4>1. /\ l \in s.neighbours[y] /\ k \in Nodes /\ Single(n, y)
        BY <1>1, <2>2, <3>1, <3>2, SingleKept
      <4>2. Paid(n, y, l, k)
        BY <2>1, <3>1, <3>2, <4>1 DEF Flooded, Owes
      <4>3. PICK v : v = NetState(n)[k].sId
        OBVIOUS
      <4>4. v = NetState(n)'[k].sId
        BY <2>3, <4>3 DEF NetState
      <4>5. ASSUME ToSay(n, k), phase[l] # "released"
            PROVE  OnItsWay(l, y, k, v)'
        <5> DEFINE u == UpdateFor(n, y)
        <5>1. l \in LinksOf(n) \cap case.links /\ NextTo(n, l) = y /\ l \in LinksOf(y)
          BY <4>1, PortsOfNode
        <5>2. y \in Adjacent(s)
          BY <4>1 DEF Adjacent
        <5>3. s.fwd[y] \in LinksOf(n) \cap case.links /\ NextTo(n, s.fwd[y]) = y
          BY <2>1, <5>2 DEF OwnStates, OwnState, Reaches
        <5>4. s.fwd[y] = l
          BY <4>1, <5>1, <5>3, SingleLink
        <5>5. SentOver(n, l) = <<u>>
          BY <5>1, <5>2, <5>4 DEF SentOver
        <5>6. chan'[l][y] = chan[l][y] \o <<u>>
          BY <1>1, <4>5, <5>1, <5>5, OneMoreOnItsWay, Zenon
        <5>7. /\ DOMAIN u = s.routing.lastChanges /\ u \in LSUpdate
              /\ \A d \in DOMAIN u : u[d] = NetState(n)[d]
          BY <1>2, <2>1, <2>5, UpdateLS
        <5>8. k \in DOMAIN u /\ u[k].sId = v /\ u \in Update
          BY <1>2, <4>3, <4>5, <5>7, UpdateOf DEF ToSay
        <5> HIDE DEF u
        <5>9. chan[l][y] \in Seq(Update)
          BY <5>1, ChanOf DEF PInv
        <5>10. /\ Len(chan[l][y]) + 1 \in 1 .. Len(chan'[l][y])
               /\ chan'[l][y][Len(chan[l][y]) + 1] = u
          BY <5>6, <5>8, <5>9, Added
        <5>11. v \in Nat /\ u[k].sId >= v
          BY <2>5, <4>1, <4>3, <5>8 DEF StatesType
        <5> QED BY <5>8, <5>10, <5>11 DEF OnItsWay
      <4> QED BY <1>1, <2>5, <2>6, <2>8, <2>9, <3>2, <4>1, <4>2, <4>3, <4>4, <4>5, PaidStep
    <3>3. \A k \in owed'[n][y] : node'[n].neighbours[y] # {}
      BY <3>1 DEF Adjacent
    <3> QED BY <3>2, <3>3 DEF Owes
  <2>11. ASSUME NEW x \in Nodes, x # n, NEW y \in Nodes
         PROVE  Owes(x, y)'
    BY <1>1, <2>1, <2>2, <2>4, <2>5, <2>6, <2>8, <2>9, <2>11, OwesOther
  <2> QED BY <2>10, <2>11 DEF Flooded
<1> QED BY <1>1, <1>2, FloodKept

-----------------------------------------------------------------------------
(* All four invariants: of ports, of distance vectors, and of link states.   *)

RoutingHolds == DVHolds /\ LSInv /\ FloodInv

LEMMA InitLS ==
    ASSUME Init
    PROVE  LSInv /\ FloodInv
<1>1. /\ PInv
      /\ \A n \in Nodes : node[n] = NewNode(n) /\ \A l \in LinksOf(n) : chan[l][n] = <<>>
  BY InitPorts
<1>2. \A n, m \in Nodes : owed[n][m] = {}
  BY DEF Init
<1>3. ASSUME ~IsDV, NEW n \in Nodes
      PROVE  LET s == node[n]
                 r == s.routing
             IN  /\ s.neighbours = [m \in Nodes |-> {}] /\ LSFits(n, {}, r) /\ r.secId = 1
                 /\ r.netState = [k \in Nodes |-> [sId |-> 0, links |-> <<>>]]
                 /\ r.table = [d \in Nodes |-> LS!Unreached]
                 /\ r.scheduledUpdate = (n \in case.garbage)
  <2> DEFINE g == n \in case.garbage
  <2>1. g \in BOOLEAN
    OBVIOUS
  <2>2. /\ node[n].neighbours = [m \in Nodes |-> {}]
        /\ node[n].routing = LS!OnPolicyInit(n, g)
    BY <1>1, <1>3, NodeFirst
  <2> HIDE DEF g
  <2>3. LET r == LS!OnPolicyInit(n, g)
        IN  /\ LSFits(n, {}, r) /\ r.secId = 1
            /\ r.netState = [k \in Nodes |-> [sId |-> 0, links |-> <<>>]]
            /\ r.table = [d \in Nodes |-> LS!Unreached]
            /\ r.scheduledUpdate = g
    BY <2>1, LSFirst
  <2> QED BY <2>2, <2>3 DEF g
<1>4. ASSUME ~IsDV
      PROVE  OwnStates
  <2>1. ASSUME NEW n \in Nodes
        PROVE  OwnState(n, node[n])
    <3>1. /\ Adjacent(node[n]) = {} /\ node[n].routing.secId = 1
          /\ node[n].routing.netState[n] = [sId |-> 0, links |-> <<>>]
          /\ node[n].routing.scheduledUpdate = (n \in case.garbage)
      BY <1>3, <1>4 DEF Adjacent
    <3>2. node[n].routing.neig = <<>>
      <4>1. node[n].routing.neig = [m \in {} |-> 1]
        BY <1>3, <1>4 DEF LSFits
      <4> QED BY <4>1, NoKeys
    <3>3. \A d \in Nodes : node[n].routing.table[d].nh = {}
      BY <1>3, <1>4 DEF LS!Unreached
    <3>4. /\ node[n].routing.netState[n].sId = 0 /\ node[n].routing.netState[n].links = <<>>
      BY <3>1
    <3>5. 0 <= 1 /\ 1 >= 1
      OBVIOUS
    <3> QED BY <3>1, <3>2, <3>3, <3>4, <3>5, Zenon DEF OwnState
  <2> QED BY <2>1 DEF OwnStates
<1>5. ASSUME ~IsDV
      PROVE  StatesKnown
  BY <1>3, <1>5 DEF StatesKnown, LimitOf, NetState
<1>6. MessagesKnown
  <2>1. ASSUME NEW n \in Nodes, NEW l \in LinksOf(n), NEW i \in 1 .. Len(chan[l][n])
        PROVE  FALSE
    BY <1>1
  <2> QED BY <2>1 DEF MessagesKnown
<1>7. ASSUME ~IsDV
      PROVE  ChangesCounted
  <2>1. ASSUME NEW n \in Nodes
        PROVE  Cardinality(Counted(n)) \in Nat
    <3>1. case \in Cases
      BY <1>1 DEF PInv, Typed
    <3>2. Counted(n) \subseteq Events
      BY DEF Counted, Events
    <3> QED BY <3>1, <3>2, EventsCounted, MoreElements
  <2> QED BY <1>3, <1>7, <2>1 DEF ChangesCounted
<1>8. LSInv
  BY <1>4, <1>5, <1>6, <1>7, PartsOfLS
<1>9. FloodInv
  BY <1>2 DEF FloodInv
<1> QED BY <1>8, <1>9

LEMMA LSStutters ==
    ASSUME LSInv, FloodInv, UNCHANGED vars
    PROVE  LSInv' /\ FloodInv'
<1>1. /\ case' = case /\ node' = node /\ phase' = phase /\ chan' = chan
      /\ opens' = opens /\ cut' = cut /\ owed' = owed /\ aborted' = aborted
  BY DEF vars
<1>2. IsDV' <=> IsDV
  BY <1>1, CaseKept
<1>3. ASSUME ~IsDV
      PROVE  OwnStates' /\ StatesKnown' /\ MessagesKnown' /\ ChangesCounted'
  <2>1. OwnStates /\ StatesKnown /\ MessagesKnown /\ ChangesCounted
    BY <1>3, PartsOfLS
  <2>2. OwnStates' /\ StatesKnown' /\ MessagesKnown'
    BY <1>1, <2>1 DEF OwnStates, StatesKnown, MessagesKnown, OwnState, Reaches, LimitOf, NetState
  <2>3. \A n : Counted(n)' = Counted(n)
    BY <1>1 DEF Counted, Came, Went, HasPort
  <2>4. ChangesCounted'
    BY <1>1, <2>1, <2>3 DEF ChangesCounted
  <2> QED BY <2>2, <2>4
<1>4. LSInv'
  BY <1>2, <1>3, PartsOfLS
<1>5. FloodInv'
  <2>1. \A n, m, l, k : (Paid(n, m, l, k) <=> Paid(n, m, l, k)')
                       /\ (Single(n, m) <=> Single(n, m)')
    BY <1>1 DEF Paid, Single, NetState
  <2>2. node' = node /\ owed' = owed /\ (IsDV' <=> IsDV)
    BY <1>1, <1>2
  <2> QED BY <2>1, <2>2 DEF FloodInv
<1> QED BY <1>4, <1>5

LEMMA RoutingSteps ==
    ASSUME RoutingHolds, [Next]_vars
    PROVE  RoutingHolds'
<1>1. DVHolds /\ PInv /\ DVInv /\ LSInv /\ FloodInv
  BY DEF RoutingHolds, DVHolds
<1>2. DVHolds'
  BY <1>1, DVSteps
<1>3. ASSUME NEW l \in Links, CreateNM1Flow(l) \/ CreateNM1FlowWithoutAllocate(l)
      PROVE  LSInv' /\ FloodInv'
  BY <1>1, <1>3, LSCreates, FloodCreates
<1>4. ASSUME NEW l \in Links, DeleteRequestFlow(l) \/ \E n \in Nodes : RemoveNM1Flow(l, n)
      PROVE  LSInv' /\ FloodInv'
  BY <1>1, <1>4, LSReleases, FloodReleases
<1>5. ASSUME NEW n \in Nodes, Time2Update(n)
      PROVE  LSInv' /\ FloodInv'
  BY <1>1, <1>5, LSTells, FloodTells
<1>6. ASSUME NEW n \in Nodes, NEW l \in Links, ReceiveRoutingUpdate(n, l)
      PROVE  LSInv' /\ FloodInv'
  BY <1>1, <1>6, LSHears, FloodHears
<1>7. ASSUME Next
      PROVE  LSInv' /\ FloodInv'
  BY <1>1, <1>3, <1>4, <1>5, <1>6, <1>7, MembersAreNodes DEF Next
<1>8. ASSUME UNCHANGED vars
      PROVE  LSInv' /\ FloodInv'
  BY <1>1, <1>8, LSStutters
<1> QED BY <1>2, <1>7, <1>8 DEF RoutingHolds

LEMMA RoutingAlways == Spec => []RoutingHolds
<1>1. Init => RoutingHolds
  BY InitDV, InitLS DEF RoutingHolds
<1>2. RoutingHolds /\ [Next]_vars => RoutingHolds'
  BY RoutingSteps
<1> QED BY <1>1, <1>2, PTL DEF Spec

-----------------------------------------------------------------------------
(* What the runs check, for every network.                                   *)

LEMMA TypesHold ==
    ASSUME RoutingHolds
    PROVE  TypeOK
<1>1. PInv /\ DVInv /\ LSInv /\ Typed
  BY DEF RoutingHolds, DVHolds, PInv
<1>2. ASSUME NEW n \in Nodes, NEW s, s = node[n]
      PROVE  /\ s.neighbours \in [Nodes -> SUBSET LinksOf(n)]
             /\ s.fwd \in [Nodes -> LinksOf(n) \cup {NoPort}]
             /\ s.routing.changes = <<>>
             /\ s.routing.timer => s.routing.scheduledUpdate
             /\ DOMAIN s.routing.neig = {m \in Nodes : s.neighbours[m] # {}}
  <2>1. IPCP(n, s)
    BY <1>1, <1>2 DEF Typed
  <2> QED BY <2>1 DEF IPCP, PortsOf, DVFits, LSFits, Timed, Adjacent
<1>3. ASSUME IsDV, NEW n \in Nodes, NEW s, s = node[n]
      PROVE  s.routing.table \in [Nodes -> DV!RtEntry] /\ s.routing.table[n] = DV!NoEntry
  <2>1. DVFits(n, Adjacent(s), s.routing)
    BY <1>1, <1>3 DEF Typed, IPCP
  <2>2. Direct(n, s)
    BY <1>1, <1>3 DEF DVInv
  <2> QED BY <2>1, <2>2 DEF DVFits, Direct
<1>4. ASSUME ~IsDV, NEW n \in Nodes, NEW s, s = node[n]
      PROVE  /\ s.routing.lastChanges \subseteq Nodes
             /\ s.routing.secId \in 1 .. 1 + 2 * case.maxOpens * Cardinality(Links)
  <2>1. s.routing.lastChanges \subseteq Nodes /\ s.routing.secId \in Nat
    BY <1>1, <1>4 DEF Typed, IPCP, LSFits
  <2>2. s.routing.secId >= 1 /\ s.routing.secId <= 1 + Cardinality(Counted(n))
    <3>1. OwnStates /\ ChangesCounted
      BY <1>1, <1>4, PartsOfLS
    <3> QED BY <1>4, <3>1 DEF OwnStates, OwnState, ChangesCounted
  <2>3. case \in Cases /\ Counted(n) \subseteq Events
    BY <1>1 DEF Typed, Counted, Events
  <2>4. /\ Cardinality(Counted(n)) \in Nat /\ Cardinality(Events) \in Nat
        /\ Cardinality(Counted(n)) <= Cardinality(Events)
    BY <2>3, EventsCounted, MoreElements
  <2>5. Cardinality(Events) = 2 * case.maxOpens * Cardinality(Links)
    BY <2>3, EventsCounted
  <2>6. \A a, b, c \in Nat : c >= 1 /\ c <= 1 + a /\ a <= b => c \in 1 .. 1 + b
    OBVIOUS
  <2>7. s.routing.secId \in 1 .. 1 + Cardinality(Events)
    BY <2>1, <2>2, <2>4, <2>6
  <2> QED BY <2>1, <2>5, <2>7
<1>5. /\ case \in Cases /\ cut \in BOOLEAN /\ aborted \in BOOLEAN
      /\ phase \in [Links -> {"none", "requested", "established", "released"}]
  BY <1>1 DEF Typed
<1> QED BY <1>2, <1>3, <1>4, <1>5 DEF TypeOK

LEMMA ForwardsHold ==
    ASSUME RoutingHolds
    PROVE  DVForwardsItsRoutes
<1>1. PInv /\ DVInv
  BY DEF RoutingHolds, DVHolds
<1>2. ASSUME IsDV, NEW n \in Nodes, NEW d \in Nodes,
             NEW nh, nh = Table(n)[d].addr, NEW port, port = node[n].fwd[d]
      PROVE  IF nh = 0 THEN port = NoPort \/ cut
             ELSE /\ port \in LinksOf(n) /\ NextTo(n, port) = nh
                  /\ HasPort(n, port) \/ ~Single(n, nh)
  <2>1. Forwarded(n, node[n], d)
    BY <1>1, <1>2 DEF DVInv
  <2>2. CASE nh = 0
    BY <1>2, <2>1, <2>2 DEF Forwarded, Table
  <2>3. CASE nh # 0
    <3>1. /\ nh \in Nodes /\ node[n].neighbours[nh] # {}
          /\ port \in LinksOf(n) \cap case.links /\ NextTo(n, port) = nh
      BY <1>2, <2>1, <2>3 DEF Forwarded, Table
    <3>2. PICK l \in node[n].neighbours[nh] : TRUE
      BY <3>1
    <3>3. l \in LinksOf(n) \cap case.links /\ NextTo(n, l) = nh /\ HasPort(n, l)
      BY <1>1, <3>1, <3>2, PortsOfNode
    <3>4. Single(n, nh) => port = l
      BY <1>1, <3>1, <3>3, SingleLink
    <3> QED BY <2>3, <3>1, <3>3, <3>4
  <2> QED BY <2>2, <2>3
<1> QED BY <1>2 DEF DVForwardsItsRoutes

LEMMA FloodHolds ==
    ASSUME RoutingHolds
    PROVE  FloodReaches
<1>1. PInv /\ FloodInv
  BY DEF RoutingHolds, DVHolds
<1>2. ASSUME ~IsDV, NEW n \in Nodes, NEW m \in Nodes, NEW k \in owed[n][m],
             n \in Neighbors(m), Single(n, m)
      PROVE  LET s == node[n].routing
             IN  \/ node[m].routing.netState[k].sId >= s.netState[k].sId
                 \/ OnTheWay(n, m, k)
                 \/ k \in s.lastChanges /\ (s.timer \/ n \in case.garbage)
  <2>1. PICK l \in node[n].neighbours[m] : Paid(n, m, l, k)
    BY <1>1, <1>2 DEF FloodInv
  <2>2. /\ l \in LinksOf(n) \cap case.links /\ NextTo(n, l) = m /\ HasPort(n, l) /\ l \in Links
        /\ m # n /\ l \in LinksOf(m) /\ NextTo(m, l) = n
    BY <1>1, PortsOfNode
  <2>3. HasPort(m, l)
    <3>1. PICK j \in node[m].neighbours[n] : TRUE
      BY <1>2 DEF Neighbors
    <3>2. /\ j \in LinksOf(m) \cap case.links /\ HasPort(m, j)
          /\ j \in LinksOf(n) /\ NextTo(n, j) = m
      BY <1>1, <3>1, PortsOfNode
    <3>3. j = l
      BY <1>1, <1>2, <2>2, <3>2, SingleLink
    <3> QED BY <3>2, <3>3
  <2>4. phase[l] # "released"
    <3>1. {Ends[l][1], Ends[l][2]} = {n, m}
      BY <2>2, EndsOfLinks DEF NextTo
    <3>2. PortsFit(l)
      BY <1>1, <2>2 DEF PInv
    <3>3. HasPort(Ends[l][1], l) /\ HasPort(Ends[l][2], l)
      BY <2>2, <2>3, <3>1
    <3> QED BY <3>2, <3>3 DEF PortsFit
  <2>5. ASSUME NEW i \in 1 .. Len(chan[l][m]), k \in DOMAIN chan[l][m][i],
               chan[l][m][i][k].sId >= node[n].routing.netState[k].sId
        PROVE  OnTheWay(n, m, k)
    <3>1. chan[l][m] \in Seq(Update)
      BY <1>1, <2>2, ChanOf DEF PInv
    <3>2. i \in DOMAIN chan[l][m]
      BY <3>1
    <3> QED BY <2>2, <2>5, <3>2 DEF OnTheWay
  <2> QED BY <2>1, <2>4, <2>5 DEF Paid, NetState
<1> QED BY <1>2 DEF FloodReaches

\* However flows come and go: both policies keep their tables, maps and numbers within their
\* bounds; above all no distance vector route is to the IPCP itself or at infinity or beyond,
\* ProcessUpdate's checks leaving such entries out, and a link state IPCP numbers no more
\* changes than ends of flows have come and gone.
THEOREM TypeCorrect == Spec => []TypeOK
<1>1. RoutingHolds => TypeOK
  BY TypesHold
<1> QED BY <1>1, RoutingAlways, PTL

\* The forwarding table agrees with the distance vector routes: what routingUpdated writes
\* for a route leads over a flow to its next hop, and to an IPCP without a second flow to
\* there over one that still exists; without a route nothing is forwarded, until a flow has
\* been removed, after which RemoveFlow has left entries behind.
THEOREM RoutesForwarded == Spec => []DVForwardsItsRoutes
<1>1. RoutingHolds => DVForwardsItsRoutes
  BY ForwardsHold
<1> QED BY <1>1, RoutingAlways, PTL

\* While flows only come, distance vector routing has no loops, not even for a moment: the
\* next hop of every route knows a shorter one, in any network, whatever the order in which
\* timers and updates are taken.
THEOREM LoopFree == Spec => []NoLoopWhileGrowing
<1>1. RoutingHolds => NoLoopWhileGrowing
  BY PartsOfGrowing DEF RoutingHolds, DVHolds, NoLoopWhileGrowing, AllNearer, Nearer
<1> QED BY <1>1, RoutingAlways, PTL

\* What a link state IPCP has taken or changed since it has a neighbor reaches the neighbor,
\* over the only flow between the two: it is known there, or on its way, or in lastChanges
\* with the timer set, through every interleaving of updates, insertions and removals; only
\* the uninitialised flag of scheduledUpdate can keep it back.
THEOREM FloodReached == Spec => []FloodReaches
<1>1. RoutingHolds => FloodReaches
  BY FloodHolds
<1> QED BY <1>1, RoutingAlways, PTL
=============================================================================
