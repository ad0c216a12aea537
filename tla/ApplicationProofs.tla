-------------------------- MODULE ApplicationProofs --------------------------
(***************************************************************************)
(* Proofs about Application, for any number of processes and requests.     *)
(***************************************************************************)
EXTENDS Application, SequenceTheorems, FiniteSetTheorems, WellFoundedInduction, TLAPS

-----------------------------------------------------------------------------
(* Lemmas about the operators of the model.                                  *)

LEMMA SeveralSenders ==
    ASSUME NEW S, Cardinality(S) > 1
    PROVE \E g, h \in S : g # h
<1>1. CASE S = {}
  BY <1>1, FS_EmptySet
<1>2. CASE S # {}
  <2>1. PICK g \in S : TRUE
    BY <1>2
  <2>2. CASE S = {g}
    <3>1. Cardinality({g}) = 1
      BY FS_Singleton
    <3>2. Cardinality(S) = 1
      BY <3>1, <2>2, Zenon
    <3> QED
      BY <3>2
  <2>3. CASE S # {g}
    BY <2>1, <2>3, Zenon
  <2> QED
    BY <2>2, <2>3
<1> QED
  BY <1>1, <1>2

\* Two management entities whose flows lead from i to one process: one of the flows is i's
\* own, the other one is of that process.
LEMMA TwoEntitiesMutual ==
    ASSUME NEW f, NEW i \in APs, NEW out, Fatal(Senders(f, i), out), None \notin APs
    PROVE \E j \in APs : /\ enrollTo[i] = j /\ enrollTo[j] = i /\ alloc[i] = "up"
                         /\ alloc[j] \in {"accepted", "up"}
<1> DEFINE S == Senders(f, i)
<1>1. PICK g, h \in S : g # h
  BY SeveralSenders DEF Fatal
<1>2. f \in APs
  <2>1. CASE f \notin APs
    BY <2>1, <1>1 DEF Senders, IsMgmt
  <2> QED
    BY <2>1
<1>3. /\ g \in APs /\ Arrived(g, i) /\ Peer(g, i) = Peer(f, i)
      /\ h \in APs /\ Arrived(h, i) /\ Peer(h, i) = Peer(f, i)
  BY <1>2 DEF Senders, IsMgmt
<1>4. /\ Src(g) = g /\ Dst(g) = enrollTo[g] /\ Src(h) = h /\ Dst(h) = enrollTo[h]
  BY <1>3 DEF Src, Dst, IsMgmt
<1>5. ASSUME NEW x \in APs, NEW y \in APs, x # y, x = i, Arrived(x, i), Arrived(y, i),
             Src(x) = x, Dst(x) = enrollTo[x], Src(y) = y, Dst(y) = enrollTo[y],
             Peer(x, i) = Peer(y, i)
      PROVE  /\ enrollTo[i] = y /\ enrollTo[y] = i /\ alloc[i] = "up"
             /\ alloc[y] \in {"accepted", "up"}
  BY <1>5 DEF Arrived, Peer
<1>6. g = i \/ h = i
  BY <1>1, <1>3, <1>4 DEF Peer
<1> QED
  BY <1>1, <1>3, <1>4, <1>5, <1>6

-----------------------------------------------------------------------------
(* Tables: the first row for a name, and rows that change.                    *)

Row == [ap : APs, name : Names, local : Names, con : ConStatus, enroll : EnrollStatus,
        retries : Nat]

Of(row, ap, name) == row.ap = ap /\ row.name = name

LEMMA LeastExists ==
    ASSUME NEW S \in SUBSET Nat, S # {}
    PROVE /\ Min(S) \in S
          /\ \A y \in S : Min(S) <= y
<1> DEFINE less == OpToRel(<, Nat)
<1>a. IsWellFoundedOn(less, Nat)
  BY NatLessThanWellFounded
<1>b. ASSUME NEW m \in Nat, NEW n \in Nat, m < n
      PROVE  <<m, n>> \in less
  BY <1>b DEF OpToRel
<1> HIDE DEF less
<1>1. PICK m \in S : \A y \in S : ~(<<y, m>> \in less)
  BY <1>a, WFMin, Zenon
<1>2. ASSUME NEW y \in S PROVE m <= y
  <2>1. y \in Nat /\ m \in Nat
    OBVIOUS
  <2>2. ~(y < m)
    BY <1>b, <1>1, <2>1
  <2> QED
    BY <2>1, <2>2
<1>3. \E x \in S : \A y \in S : x =< y
  BY <1>2
<1> QED
  BY <1>3 DEF Min

LEMMA FindFirst ==
    ASSUME NEW t \in Seq(Row), NEW ap, NEW name
    PROVE LET n == FindEntryByDstAPNI(t, ap, name)
          IN  /\ n = 0 \/ n \in DOMAIN t
              /\ n \in DOMAIN t => Of(t[n], ap, name)
              /\ \A k \in DOMAIN t : Of(t[k], ap, name) => n # 0 /\ n <= k
<1> DEFINE I == {k \in 1 .. Len(t) : t[k].ap = ap /\ t[k].name = name}
<1>1. FindEntryByDstAPNI(t, ap, name) = IF I # {} THEN Min(I) ELSE 0
  BY DEF FindEntryByDstAPNI, SelectInSeq
<1>2. DOMAIN t = 1 .. Len(t) /\ Len(t) \in Nat
  OBVIOUS
<1>3. I \in SUBSET Nat
  BY <1>2
<1>4. ASSUME I # {} PROVE Min(I) \in I /\ \A y \in I : Min(I) <= y
  BY <1>3, <1>4, LeastExists
<1> HIDE DEF I
<1>5. \A k \in DOMAIN t : k \in I <=> Of(t[k], ap, name)
  BY <1>2 DEF I, Of
<1>6. I \subseteq DOMAIN t
  BY <1>2 DEF I
<1>7. 0 \notin DOMAIN t
  BY <1>2
<1>8. CASE I = {}
  <2>1. FindEntryByDstAPNI(t, ap, name) = 0
    BY <1>1, <1>8
  <2> QED
    BY <2>1, <1>8, <1>5, <1>7
<1>9. CASE I # {}
  <2>1. FindEntryByDstAPNI(t, ap, name) \in I
    BY <1>1, <1>4, <1>9
  <2>2. \A y \in I : FindEntryByDstAPNI(t, ap, name) <= y
    BY <1>1, <1>4, <1>9
  <2> QED
    BY <2>1, <2>2, <1>5, <1>6, <1>7
<1> QED
  BY <1>8, <1>9

\* Rows keep their place, whom they are about, and that they are established.
Evolves(t, u) ==
    /\ Len(t) <= Len(u)
    /\ \A k \in DOMAIN t :
        /\ u[k].ap = t[k].ap /\ u[k].name = t[k].name /\ u[k].local = t[k].local
        /\ t[k].con = "ESTABLISHED" => u[k].con = "ESTABLISHED"

LEMMA FindEvolves ==
    ASSUME NEW t \in Seq(Row), NEW u \in Seq(Row), Evolves(t, u), NEW ap, NEW name,
           \E k \in DOMAIN t : Of(t[k], ap, name)
    PROVE FindEntryByDstAPNI(u, ap, name) = FindEntryByDstAPNI(t, ap, name)
<1> DEFINE n == FindEntryByDstAPNI(t, ap, name)
           m == FindEntryByDstAPNI(u, ap, name)
<1>1. /\ n = 0 \/ n \in DOMAIN t
      /\ n \in DOMAIN t => Of(t[n], ap, name)
      /\ \A k \in DOMAIN t : Of(t[k], ap, name) => n # 0 /\ n <= k
  BY FindFirst
<1>2. /\ m = 0 \/ m \in DOMAIN u
      /\ m \in DOMAIN u => Of(u[m], ap, name)
      /\ \A k \in DOMAIN u : Of(u[k], ap, name) => m # 0 /\ m <= k
  BY FindFirst
<1> HIDE DEF n, m
<1>3. n \in DOMAIN t /\ Of(t[n], ap, name)
  BY <1>1
<1>4. DOMAIN t = 1 .. Len(t) /\ DOMAIN u = 1 .. Len(u) /\ Len(t) \in Nat /\ Len(u) \in Nat
  OBVIOUS
<1>5. \A k \in DOMAIN t : k \in DOMAIN u /\ (Of(u[k], ap, name) <=> Of(t[k], ap, name))
  BY <1>4 DEF Evolves, Of
<1>6. m \in DOMAIN u /\ m <= n /\ Of(u[m], ap, name)
  BY <1>2, <1>3, <1>5
<1>7. m \in DOMAIN t
  BY <1>3, <1>4, <1>6
<1>8. n <= m
  BY <1>1, <1>5, <1>6, <1>7
<1>9. m = n
  BY <1>3, <1>4, <1>6, <1>8
<1> QED
  BY <1>9 DEF m, n

LEMMA AppendRow ==
    ASSUME NEW t \in Seq(Row), NEW r \in Row
    PROVE /\ Append(t, r) \in Seq(Row)
          /\ Len(Append(t, r)) = Len(t) + 1
          /\ \A k \in DOMAIN t : Append(t, r)[k] = t[k] /\ k # Len(t) + 1
          /\ Append(t, r)[Len(t) + 1] = r
          /\ DOMAIN Append(t, r) = DOMAIN t \cup {Len(t) + 1}
          /\ Evolves(t, Append(t, r))
<1>1. /\ Append(t, r) \in Seq(Row)
      /\ Len(Append(t, r)) = Len(t) + 1
      /\ \A k \in DOMAIN t : Append(t, r)[k] = t[k]
      /\ Append(t, r)[Len(t) + 1] = r
  BY AppendProperties
<1>2. DOMAIN t = 1 .. Len(t) /\ Len(t) \in Nat /\ DOMAIN Append(t, r) = 1 .. Len(Append(t, r))
  BY <1>1
<1>3. Evolves(t, Append(t, r))
  BY <1>1, <1>2 DEF Evolves
<1> QED
  BY <1>1, <1>2, <1>3

\* One row is replaced by one about the same.
LEMMA ReplaceRow ==
    ASSUME NEW t \in Seq(Row), NEW n \in DOMAIN t, NEW r \in Row,
           r.ap = t[n].ap, r.name = t[n].name, r.local = t[n].local,
           t[n].con = "ESTABLISHED" => r.con = "ESTABLISHED"
    PROVE LET u == [t EXCEPT ![n] = r]
          IN  /\ u \in Seq(Row)
              /\ DOMAIN u = DOMAIN t
              /\ u[n] = r
              /\ \A k \in DOMAIN t : k # n => u[k] = t[k]
              /\ Evolves(t, u)
<1> DEFINE u == [t EXCEPT ![n] = r]
<1>1. n \in 1 .. Len(t) /\ DOMAIN t = 1 .. Len(t)
  OBVIOUS
<1>2. /\ u \in Seq(Row) /\ Len(u) = Len(t)
      /\ \A j \in 1 .. Len(t) : u[j] = IF j = n THEN r ELSE t[j]
  BY <1>1, ExceptSeq
<1>3. DOMAIN u = DOMAIN t
  BY <1>1, <1>2
<1> HIDE DEF u
<1>4. Evolves(t, u)
  BY <1>1, <1>2 DEF Evolves
<1> QED
  BY <1>1, <1>2, <1>3, <1>4 DEF u

LEMMA EvolvesTwice ==
    ASSUME NEW t \in Seq(Row), NEW u \in Seq(Row), NEW v \in Seq(Row),
           Evolves(t, u), Evolves(u, v)
    PROVE Evolves(t, v)
<1>1. DOMAIN t = 1 .. Len(t) /\ DOMAIN u = 1 .. Len(u) /\ Len(t) \in Nat /\ Len(u) \in Nat
      /\ Len(v) \in Nat
  OBVIOUS
<1>2. \A k \in DOMAIN t : k \in DOMAIN u
  BY <1>1 DEF Evolves
<1> QED
  BY <1>1, <1>2 DEF Evolves

\* A row gets another enrollment status, if there is one.
Enrolled(t, n, e) == [t EXCEPT ![n].enroll = e]

LEMMA EnrollRow ==
    ASSUME NEW t \in Seq(Row), NEW n, NEW e \in EnrollStatus
    PROVE /\ Enrolled(t, n, e) \in Seq(Row)
          /\ DOMAIN Enrolled(t, n, e) = DOMAIN t
          /\ Evolves(t, Enrolled(t, n, e))
          /\ \A k \in DOMAIN t : Enrolled(t, n, e)[k].retries = t[k].retries
<1> DEFINE u == [t EXCEPT ![n].enroll = e]
<1>1. CASE n \notin DOMAIN t
  <2>1. t = [k \in DOMAIN t |-> t[k]]
    OBVIOUS
  <2>2. u = [k \in DOMAIN t |-> t[k]]
    BY <1>1
  <2>3. u = t
    BY <2>1, <2>2, Zenon
  <2>4. Evolves(t, t)
    BY DEF Evolves
  <2> QED
    BY <2>3, <2>4 DEF Enrolled
<1>2. CASE n \in DOMAIN t
  <2> DEFINE r == [t[n] EXCEPT !.enroll = e]
  <2>1. t[n] \in Row
    BY <1>2, ElementOfSeq
  <2>2. /\ r \in Row /\ r.ap = t[n].ap /\ r.name = t[n].name /\ r.local = t[n].local
        /\ r.con = t[n].con /\ r.retries = t[n].retries
    BY <2>1 DEF Row
  <2>3. u = [t EXCEPT ![n] = r]
    OBVIOUS
  <2> HIDE DEF r, u
  <2>4. /\ u \in Seq(Row) /\ DOMAIN u = DOMAIN t /\ u[n] = r
        /\ \A k \in DOMAIN t : k # n => u[k] = t[k]
        /\ Evolves(t, u)
    BY <1>2, <2>2, <2>3, ReplaceRow
  <2>5. u \in Seq(Row) /\ DOMAIN u = DOMAIN t /\ Evolves(t, u)
        /\ \A k \in DOMAIN t : u[k].retries = t[k].retries
    BY <2>2, <2>4
  <2> QED
    BY <2>5 DEF u, Enrolled
<1> QED
  BY <1>1, <1>2

-----------------------------------------------------------------------------
(* Counting messages.                                                        *)

Places(s, T) == {k \in DOMAIN s : s[k].type \in T}
Count(s, T) == Cardinality(Places(s, T))

LEMMA CountType ==
    ASSUME NEW s \in Seq(Message), NEW T
    PROVE /\ IsFiniteSet(Places(s, T))
          /\ Count(s, T) \in Nat
          /\ Count(s, T) = 0 <=> \A k \in DOMAIN s : s[k].type \notin T
<1>1. IsFiniteSet(1 .. Len(s)) /\ DOMAIN s = 1 .. Len(s)
  BY FS_Interval
<1>2. IsFiniteSet(Places(s, T))
  BY <1>1, FS_Subset DEF Places
<1>3. Count(s, T) \in Nat /\ (Count(s, T) = 0 <=> Places(s, T) = {})
  BY <1>2, FS_CardinalityType, FS_EmptySet DEF Count
<1> QED
  BY <1>2, <1>3 DEF Places

LEMMA CountTail ==
    ASSUME NEW s \in Seq(Message), s # <<>>, NEW T
    PROVE Count(Tail(s), T) + (IF Head(s).type \in T THEN 1 ELSE 0) <= Count(s, T)
<1>1. /\ Tail(s) \in Seq(Message) /\ Len(Tail(s)) = Len(s) - 1 /\ Len(s) \in Nat
      /\ \A k \in 1 .. Len(Tail(s)) : Tail(s)[k] = s[k + 1]
  BY HeadTailProperties
<1>2. Len(s) >= 1 /\ s[1] = Head(s)
  BY EmptySeq
<1>3. DOMAIN s = 1 .. Len(s) /\ DOMAIN Tail(s) = 1 .. Len(Tail(s))
  BY <1>1
<1> DEFINE A == Places(Tail(s), T)
           B == Places(s, T) \ {1}
           up == [k \in A |-> k + 1]
<1>4. \A k \in A : k + 1 \in B
  BY <1>1, <1>3 DEF Places
<1>5. A \subseteq Nat
  BY <1>1, <1>3 DEF Places
<1> HIDE DEF A, B
<1>6. up \in Injection(A, B)
  <2>1. up \in [A -> B]
    BY <1>4
  <2>2. \A j, k \in A : up[j] = up[k] => j = k
    BY <1>5
  <2> HIDE DEF up
  <2> QED
    BY <2>1, <2>2 DEF Injection, IsInjective
<1>7. IsFiniteSet(Places(s, T))
  BY CountType
<1>8. IsFiniteSet(B)
        /\ Cardinality(B) = IF 1 \in Places(s, T) THEN Count(s, T) - 1 ELSE Count(s, T)
  BY <1>7, FS_RemoveElement DEF B, Count
<1> HIDE DEF up
<1>9. Cardinality(A) <= Cardinality(B)
  BY <1>6, <1>8, FS_Injection
<1>10. 1 \in Places(s, T) <=> Head(s).type \in T
  BY <1>2, <1>3 DEF Places
<1>11. Count(s, T) \in Nat /\ Cardinality(A) \in Nat
  BY <1>1, CountType DEF A, Count
<1> QED
  BY <1>8, <1>9, <1>10, <1>11 DEF A, Count

LEMMA CountSent ==
    ASSUME NEW s \in Seq(Message), NEW out \in Seq(Message), NEW T
    PROVE /\ (\A k \in DOMAIN out : out[k].type \notin T) => Count(s \o out, T) = Count(s, T)
          /\ Len(out) = 1 => Count(s \o out, T) <= Count(s, T) + 1
<1>1. /\ s \o out \in Seq(Message) /\ Len(s \o out) = Len(s) + Len(out)
      /\ \A k \in 1 .. Len(s) + Len(out) :
            (s \o out)[k] = IF k <= Len(s) THEN s[k] ELSE out[k - Len(s)]
  BY ConcatProperties
<1>2. /\ DOMAIN s = 1 .. Len(s) /\ DOMAIN out = 1 .. Len(out)
      /\ DOMAIN (s \o out) = 1 .. Len(s) + Len(out) /\ Len(s) \in Nat /\ Len(out) \in Nat
  BY <1>1
<1> DEFINE u == s \o out
<1> HIDE DEF u
<1>3. ASSUME \A k \in DOMAIN out : out[k].type \notin T
      PROVE  Places(u, T) = Places(s, T)
  <2>1. ASSUME NEW k \in Places(u, T) PROVE k \in Places(s, T)
    <3>1. k \in 1 .. Len(s) + Len(out) /\ u[k].type \in T
      BY <1>2 DEF Places, u
    <3>2. CASE k <= Len(s)
      BY <3>1, <3>2, <1>1, <1>2 DEF Places, u
    <3>3. CASE ~(k <= Len(s))
      <4>1. k - Len(s) \in DOMAIN out /\ u[k] = out[k - Len(s)]
        BY <3>1, <3>3, <1>1, <1>2 DEF u
      <4> QED
        BY <4>1, <3>1, <1>3
    <3> QED
      BY <3>2, <3>3
  <2>2. ASSUME NEW k \in Places(s, T) PROVE k \in Places(u, T)
    BY <1>1, <1>2 DEF Places, u
  <2> QED
    BY <2>1, <2>2
<1>4. ASSUME Len(out) = 1 PROVE Count(u, T) <= Count(s, T) + 1
  <2>1. Places(u, T) \subseteq Places(s, T) \cup {Len(s) + 1}
    BY <1>1, <1>2, <1>4 DEF Places, u
  <2>2. IsFiniteSet(Places(s, T)) /\ Count(s, T) \in Nat
    BY CountType
  <2>3. /\ IsFiniteSet(Places(s, T) \cup {Len(s) + 1})
        /\ Cardinality(Places(s, T) \cup {Len(s) + 1}) =
             IF Len(s) + 1 \in Places(s, T) THEN Count(s, T) ELSE Count(s, T) + 1
    BY <2>2, FS_AddElement DEF Count
  <2>4. Cardinality(Places(u, T)) <= Cardinality(Places(s, T) \cup {Len(s) + 1})
    BY <2>1, <2>3, FS_Subset
  <2>5. Cardinality(Places(u, T)) \in Nat
    BY <1>1, CountType DEF Count, u
  <2> QED
    BY <2>2, <2>3, <2>4, <2>5 DEF Count
<1> QED
  BY <1>3, <1>4 DEF Count, u

-----------------------------------------------------------------------------
(* The inductive invariant.                                                  *)

Types ==
    /\ plan \in Plans /\ refusing \in Refusals
    /\ plan \in [Requests -> [from : APs, to : APs]]
    /\ \A r \in Requests : plan[r].from # plan[r].to
    /\ isEnrolled \in [APs -> {"NOT_ENROLLED", "ENROLLING", "ENROLLED"}]
    /\ ConReqStack \in [APs -> SUBSET Requests]
    /\ enrollTo \in [APs -> APs \cup {None}]
    /\ mgmtName \in [APs -> MgmtNames \cup {None}]
    /\ alloc \in [Flows -> {"none", "asked", "accepted", "up", "failed"}]
    /\ ConTable \in [APs -> [Names -> Flows \cup {None}]]
    /\ StateTable \in [APs -> Seq(Row)]
    /\ chan \in [Flows -> [APs -> Seq(Message)]]
    /\ asked \subseteq Requests
    /\ answers \in [Requests -> 0 .. 1]
    /\ reads \in [Requests -> 0 .. MaxReads]
    /\ results \in [Requests -> Nat]
    /\ lost \in 0 .. MaxLoss
    /\ aborted \in BOOLEAN

\* How far the allocation of a flow has got says what its ends are.
Stages ==
    /\ \A i \in APs :
        alloc[i] # "none" =>
            /\ enrollTo[i] \in APs /\ enrollTo[i] # i /\ mgmtName[i] \in MgmtNames
            /\ isEnrolled[i] # "NOT_ENROLLED" /\ asked # {}
    /\ \A r \in Requests : alloc[r] # "none" => r \in asked
    /\ \A i \in APs, r \in Requests :
        r \in ConReqStack[i] => r \in asked /\ alloc[r] = "none" /\ plan[r].from = i
    /\ \A i \in APs : isEnrolled[i] # "NOT_ENROLLED" => asked # {}

Up(f) == alloc[f] = "up"

\* The rows that a flow brings to its two ends.
Mine(f, i, row) ==
    /\ i = Src(f) /\ row.ap = Dst(f) /\ row.name = AskedName(f) /\ row.local = OwnName(f)
Theirs(f, i, row) ==
    /\ i = Dst(f) /\ row.ap = Src(f) /\ row.name = OwnName(f) /\ row.local = AskedName(f)

Brought(i, row) == \E f \in Flows : Up(f) /\ (Mine(f, i, row) \/ Theirs(f, i, row))

RowsOfFlows == \A i \in APs : \A k \in DOMAIN StateTable[i] : Brought(i, StateTable[i][k])

\* The end that asked has a row for what it asked for.
Asking ==
    \A f \in Flows : Up(f) =>
        \E k \in DOMAIN StateTable[Src(f)] : Of(StateTable[Src(f)][k], Dst(f), AskedName(f))

FirstAt(f) == FindEntryByDstAPNI(StateTable[Src(f)], Dst(f), AskedName(f))
First(f) == StateTable[Src(f)][FirstAt(f)]

\* The second of two management flows between two processes stops the simulation.
NotBoth ==
    \A i, j \in APs : ~ (Up(i) /\ Up(j) /\ enrollTo[i] = j /\ enrollTo[j] = i)

Fellow(f, g) == (IsMgmt(f) <=> IsMgmt(g)) /\ Src(f) = Src(g) /\ Dst(f) = Dst(g)

Accepted == UNION {AcceptedBy(i) : i \in APs}

Answer == {"M_CONNECT_R+", "M_CONNECT_R-"}

\* A connect request goes to the end that was asked and names a flow with these ends; an
\* answer goes back and names what was asked for, a positive one after it was accepted.
Sound(f, e, m) ==
    OfCACE(m) =>
        /\ Up(f)
        /\ m.type = "M_CONNECT" =>
                e = Dst(f) /\ \E g \in Flows : Up(g) /\ Fellow(f, g) /\ m.name = OwnName(g)
        /\ m.type \in Answer => e = Src(f) /\ m.name = AskedName(f)
        /\ m.type = "M_CONNECT_R+" /\ ~IsMgmt(f) => plan[f] \in Accepted

MessagesSound ==
    \A f \in Flows, e \in APs : \A k \in DOMAIN chan[f][e] : Sound(f, e, chan[f][e][k])

CACETypes == {"M_CONNECT", "M_CONNECT_R+", "M_CONNECT_R-"}
ReadTypes == {"M_READ", "M_READ_R"}

\* Each flow carries one message of CACE at a time.
OneAtATime ==
    \A f \in Flows : Up(f) =>
        Count(chan[f][Src(f)], CACETypes) + Count(chan[f][Dst(f)], CACETypes) <= 1

ReadsCounted ==
    \A r \in Requests :
        results[r] + Count(chan[r][Src(r)], ReadTypes) + Count(chan[r][Dst(r)], ReadTypes)
            <= reads[r]

\* What the application has been told of is established, and stays so.
AnswersKept == \A r \in Requests : answers[r] > 0 => Up(r) /\ First(r).con = "ESTABLISHED"

Fellows(f) == {g \in Flows : Fellow(f, g) /\ Up(g)}
Carries(g) == \E k \in DOMAIN chan[g][Dst(g)] : chan[g][Dst(g)][k].type = "M_CONNECT"
Carrying(f) == {g \in Fellows(f) : Carries(g)}

\* As many requests have been refused or are under way as were sent, one for each flow and
\* one for each time that the first row was tried again.
RefusedOnce ==
    \A f \in Flows : Up(f) =>
        /\ Cardinality(Carrying(f)) <= Cardinality(Fellows(f)) + First(f).retries
        /\ \A k \in DOMAIN StateTable[Dst(f)] :
            Of(StateTable[Dst(f)][k], Src(f), OwnName(f)) =>
                StateTable[Dst(f)][k].retries + Cardinality(Carrying(f))
                    <= Cardinality(Fellows(f)) + First(f).retries

RetriesBounded ==
    \A i \in APs : \A k \in DOMAIN StateTable[i] : StateTable[i][k].retries <= MaxRetries

RetriedFew == \A f \in Flows : Up(f) => First(f).retries <= MaxConRetries

Running == NotBoth /\ MessagesSound /\ OneAtATime /\ RetriedFew /\ RefusedOnce

IInv ==
    /\ Types /\ Stages /\ RowsOfFlows /\ Asking /\ ReadsCounted /\ AnswersKept /\ RetriesBounded
    /\ ~aborted => Running

-----------------------------------------------------------------------------
(* Flows and their ends.                                                     *)

LEMMA Apart ==
    /\ APs \cap Requests = {} /\ None \notin APs \cup Requests /\ IsFiniteSet(Requests)
    /\ "mgmt_0" \notin Requests /\ "mgmt_1" \notin Requests /\ "ae_any" \notin Requests
    /\ MaxConRetries \in Nat /\ MaxReads \in Nat /\ MaxLoss \in Nat
<1>1. APs \cap Requests = {} /\ None \notin APs \cup Requests /\ IsFiniteSet(Requests)
      /\ MaxConRetries \in Nat /\ MaxReads \in Nat /\ MaxLoss \in Nat
      /\ Requests \cap {"mgmt_0", "mgmt_1", "ae_any"} = {}
  BY ApplicationAssumption, Zenon
<1> QED
  BY <1>1

LEMMA Kinds ==
    ASSUME NEW f \in Flows
    PROVE /\ IsMgmt(f) => f \in APs /\ Src(f) = f /\ Dst(f) = enrollTo[f]
                          /\ AskedName(f) = "mgmt_0" /\ OwnName(f) = mgmtName[f]
          /\ ~IsMgmt(f) => f \in Requests /\ Src(f) = plan[f].from /\ Dst(f) = plan[f].to
                           /\ AskedName(f) = "ae_any" /\ OwnName(f) = f
  BY DEF IsMgmt, Flows, Src, Dst, AskedName, OwnName

LEMMA EndsOf ==
    ASSUME Types, Stages, NEW f \in Flows, alloc[f] # "none"
    PROVE /\ Src(f) \in APs /\ Dst(f) \in APs /\ Src(f) # Dst(f)
          /\ OwnName(f) \in Names /\ AskedName(f) \in Names
          /\ IsMgmt(f) => OwnName(f) \in MgmtNames
<1>1. CASE IsMgmt(f)
  BY <1>1, Kinds DEF Stages, Types, Names, MgmtNames
<1>2. CASE ~IsMgmt(f)
  <2>1. f \in Requests /\ Src(f) = plan[f].from /\ Dst(f) = plan[f].to
                           /\ AskedName(f) = "ae_any" /\ OwnName(f) = f
    BY <1>2, Kinds
  <2>2. plan[f] \in [from : APs, to : APs] /\ plan[f].from # plan[f].to
    BY <2>1 DEF Types
  <2> QED
    BY <2>1, <2>2, <1>2 DEF Names
<1> QED
  BY <1>1, <1>2

LEMMA ArrivedEnd ==
    ASSUME Types, Stages, NEW f \in Flows, NEW i \in APs, Arrived(f, i)
    PROVE /\ alloc[f] \in {"accepted", "up"}
          /\ (i = Src(f) /\ Up(f) /\ Peer(f, i) = Dst(f)) \/ (i = Dst(f) /\ Peer(f, i) = Src(f))
          /\ Peer(f, i) \in APs /\ Peer(f, i) # i
          /\ LocalName(f, i) \in Names
<1>1. alloc[f] \in {"accepted", "up"} /\ ((i = Src(f) /\ Up(f)) \/ i = Dst(f))
  BY DEF Arrived, Up
<1>2. /\ Src(f) \in APs /\ Dst(f) \in APs /\ Src(f) # Dst(f)
      /\ OwnName(f) \in Names /\ AskedName(f) \in Names
  BY <1>1, EndsOf
<1> QED
  BY <1>1, <1>2 DEF Peer, LocalName

\* The rows for what was asked for are those of fellows, and their requests' names are not
\* asked for.
LEMMA MineOrTheirs ==
    ASSUME Types, Stages, NotBoth, NEW f \in Flows, NEW g \in Flows, Up(f), Up(g), NEW row
    PROVE /\ Mine(g, Src(f), row) /\ Of(row, Dst(f), AskedName(f)) => Fellow(f, g)
          /\ ~ (Theirs(g, Src(f), row) /\ Of(row, Dst(f), AskedName(f)))
<1>1. /\ IsMgmt(g) => g \in APs /\ Src(g) = g /\ Dst(g) = enrollTo[g]
                          /\ AskedName(g) = "mgmt_0" /\ OwnName(g) = mgmtName[g]
      /\ ~IsMgmt(g) => g \in Requests /\ AskedName(g) = "ae_any" /\ OwnName(g) = g
  BY Kinds
<1>2. /\ IsMgmt(f) => f \in APs /\ Src(f) = f /\ Dst(f) = enrollTo[f]
                          /\ AskedName(f) = "mgmt_0" /\ OwnName(f) = mgmtName[f]
      /\ ~IsMgmt(f) => f \in Requests /\ AskedName(f) = "ae_any" /\ OwnName(f) = f
  BY Kinds
<1>3. ASSUME Mine(g, Src(f), row), Of(row, Dst(f), AskedName(f)) PROVE Fellow(f, g)
  BY <1>3, <1>1, <1>2 DEF Mine, Of, Fellow
<1>4. ASSUME Theirs(g, Src(f), row), Of(row, Dst(f), AskedName(f)) PROVE FALSE
  <2>1. OwnName(g) = AskedName(f) /\ Src(g) = Dst(f) /\ Dst(g) = Src(f)
    BY <1>4 DEF Theirs, Of
  <2>2. IsMgmt(g)
    <3>1. CASE ~IsMgmt(g)
      BY <3>1, <2>1, <1>1, <1>2, Apart
    <3> QED
      BY <3>1
  <2>3. OwnName(g) \in MgmtNames
    BY <2>2, EndsOf DEF Up
  <2>4. IsMgmt(f)
    <3>1. CASE ~IsMgmt(f)
      BY <3>1, <2>1, <1>2, <2>3 DEF MgmtNames
    <3> QED
      BY <3>1
  <2> QED
    BY <2>1, <2>2, <2>4, <1>1, <1>2 DEF NotBoth
<1> QED
  BY <1>3, <1>4

\* The first row for what was asked for is one of a fellow.
LEMMA FirstRow ==
    ASSUME IInv, Running, NEW f \in Flows, Up(f)
    PROVE /\ FirstAt(f) \in DOMAIN StateTable[Src(f)] /\ First(f) \in Row
          /\ Of(First(f), Dst(f), AskedName(f))
          /\ \E g \in Flows : Up(g) /\ Fellow(f, g) /\ First(f).local = OwnName(g)
<1>1. Src(f) \in APs /\ StateTable[Src(f)] \in Seq(Row)
  BY EndsOf DEF IInv, Types, Up
<1>2. \E k \in DOMAIN StateTable[Src(f)] : Of(StateTable[Src(f)][k], Dst(f), AskedName(f))
  BY DEF IInv, Asking
<1>3. FirstAt(f) \in DOMAIN StateTable[Src(f)] /\ Of(First(f), Dst(f), AskedName(f))
  BY <1>1, <1>2, FindFirst DEF FirstAt, First
<1>4. First(f) \in Row
  BY <1>1, <1>3, ElementOfSeq DEF First
<1>5. PICK g \in Flows : Up(g) /\ (Mine(g, Src(f), First(f)) \/ Theirs(g, Src(f), First(f)))
  BY <1>1, <1>3 DEF IInv, RowsOfFlows, Brought, First
<1>6. Fellow(f, g) /\ Mine(g, Src(f), First(f))
  BY <1>3, <1>5, MineOrTheirs DEF IInv, Running
<1> QED
  BY <1>3, <1>4, <1>5, <1>6 DEF Mine

-----------------------------------------------------------------------------
(* What a step moves.                                                        *)

\* What is on its way to e on g when c was and i has sent out on ports.
Got(c, ports, i, out, g, e) ==
    IF g \in ports /\ e = Peer(g, i) THEN c[g][e] \o out ELSE c[g][e]

LEMMA SentAt ==
    ASSUME NEW c \in [Flows -> [APs -> Seq(Message)]], NEW ports \in SUBSET Flows,
           NEW i, NEW out \in Seq(Message),
           \A g \in ports : Peer(g, i) \in APs
    PROVE /\ Sent(c, ports, i, out) \in [Flows -> [APs -> Seq(Message)]]
          /\ \A g \in Flows, e \in APs :
                Sent(c, ports, i, out)[g][e] = Got(c, ports, i, out, g, e)
<1> DEFINE at(g) == IF g \in ports THEN [c[g] EXCEPT ![Peer(g, i)] = @ \o out] ELSE c[g]
<1>1. Sent(c, ports, i, out) = [g \in Flows |-> at(g)]
  BY DEF Sent
<1>2. ASSUME NEW g \in Flows
      PROVE  /\ at(g) \in [APs -> Seq(Message)]
             /\ \A e \in APs : at(g)[e] = Got(c, ports, i, out, g, e)
  <2>1. CASE g \notin ports
    BY <2>1 DEF Got
  <2>2. CASE g \in ports
    <3>1. c[g] \in [APs -> Seq(Message)] /\ Peer(g, i) \in APs
      BY <2>2
    <3>2. c[g][Peer(g, i)] \o out \in Seq(Message)
      BY <3>1, ConcatProperties
    <3>3. at(g) = [c[g] EXCEPT ![Peer(g, i)] = c[g][Peer(g, i)] \o out]
      BY <2>2
    <3> HIDE DEF at
    <3> QED
      BY <2>2, <3>1, <3>2, <3>3 DEF Got
  <2> QED
    BY <2>1, <2>2
<1> HIDE DEF at
<1>3. Sent(c, ports, i, out) \in [Flows -> [APs -> Seq(Message)]]
  BY <1>1, <1>2
<1>4. \A g \in Flows : Sent(c, ports, i, out)[g] = at(g)
  BY <1>1
<1> QED
  BY <1>2, <1>3, <1>4

LEMMA TakenAt ==
    ASSUME chan \in [Flows -> [APs -> Seq(Message)]], NEW f \in Flows, NEW i \in APs,
           chan[f][i] # <<>>
    PROVE /\ Taken(f, i) \in [Flows -> [APs -> Seq(Message)]]
          /\ \A g \in Flows, e \in APs :
                Taken(f, i)[g][e] = IF g = f /\ e = i THEN Tail(chan[f][i]) ELSE chan[g][e]
<1>1. chan[f][i] \in Seq(Message)
  OBVIOUS
<1>2. Tail(chan[f][i]) \in Seq(Message)
  BY <1>1, HeadTailProperties
<1> DEFINE q == Tail(chan[f][i])
<1>3. Taken(f, i) = [chan EXCEPT ![f] = [chan[f] EXCEPT ![i] = q]]
  BY DEF Taken
<1> HIDE DEF q
<1>4. [chan[f] EXCEPT ![i] = q] \in [APs -> Seq(Message)]
  BY <1>2 DEF q
<1> QED
  BY <1>3, <1>4 DEF q

\* What a process and its flows are does not change.
Fixed == plan' = plan /\ refusing' = refusing /\ enrollTo' = enrollTo /\ mgmtName' = mgmtName

LEMMA FixedEnds ==
    ASSUME Fixed, NEW f
    PROVE /\ (IsMgmt(f))' = IsMgmt(f) /\ (Src(f))' = Src(f) /\ (Dst(f))' = Dst(f)
          /\ (AskedName(f))' = AskedName(f) /\ (OwnName(f))' = OwnName(f)
  BY DEF Fixed, IsMgmt, Src, Dst, AskedName, OwnName

\* Flows that are requested may be new, no other is changed.
AllocKept ==
    /\ \A g \in Flows : alloc[g] # "none" => alloc'[g] = alloc[g]
    /\ \A g \in Flows : alloc'[g] = "up" => alloc[g] = "up"
    /\ alloc' \in [Flows -> {"none", "asked", "accepted", "up", "failed"}]

\* The process i takes the first message of f, changes its table and sends out on ports.
Handles(f, i, ports, table, out) ==
    /\ f \in Flows /\ i \in APs /\ chan[f][i] # <<>> /\ ~aborted
    /\ ports \subseteq Ports(f, i) /\ (Arrived(f, i) \/ ports = {})
    /\ out \in Seq(Message) /\ table \in Seq(Row)
    /\ Evolves(StateTable[i], table)
    /\ Fixed /\ AllocKept
    /\ chan' = Sent(Taken(f, i), ports, i, out)
    /\ StateTable' = [StateTable EXCEPT ![i] = table]
    /\ (\E k \in DOMAIN out : OfCACE(out[k])) /\ ~aborted' => ports \subseteq {f}

LEMMA PortsArrived ==
    ASSUME Types, Stages, NEW f \in Flows, NEW i \in APs, NEW g \in Ports(f, i),
           IsMgmt(f) \/ Arrived(f, i)
    PROVE g \in Flows /\ Arrived(g, i) /\ Peer(g, i) \in APs /\ Peer(g, i) # i
<1>1. g \in Flows /\ Arrived(g, i)
  BY Kinds DEF Ports, Senders, Flows
<1> QED
  BY <1>1, ArrivedEnd

LEMMA HandlesMoves ==
    ASSUME IInv, NEW f, NEW i, NEW ports, NEW table, NEW out, Handles(f, i, ports, table, out)
    PROVE /\ chan' \in [Flows -> [APs -> Seq(Message)]]
          /\ StateTable' \in [APs -> Seq(Row)]
          /\ StateTable'[i] = table
          /\ \A j \in APs : j # i => StateTable'[j] = StateTable[j]
          /\ \A j \in APs : Evolves(StateTable[j], StateTable'[j])
          /\ \A g \in ports : g \in Flows /\ Peer(g, i) \in APs /\ Peer(g, i) # i /\ Arrived(g, i)
          /\ \A g \in Flows, e \in APs :
                chan'[g][e] = IF g = f /\ e = i THEN Tail(chan[f][i])
                              ELSE IF g \in ports /\ e = Peer(g, i) THEN chan[g][e] \o out
                              ELSE chan[g][e]
<1> USE DEF Handles
<1>1. Types /\ Stages
  BY DEF IInv
<1>2. ASSUME NEW g \in ports
      PROVE  g \in Flows /\ Peer(g, i) \in APs /\ Peer(g, i) # i /\ Arrived(g, i)
  BY <1>1, PortsArrived
<1>3. /\ Taken(f, i) \in [Flows -> [APs -> Seq(Message)]]
      /\ \A g \in Flows, e \in APs :
            Taken(f, i)[g][e] = IF g = f /\ e = i THEN Tail(chan[f][i]) ELSE chan[g][e]
  BY <1>1, TakenAt DEF Types
<1> DEFINE c == Taken(f, i)
<1>4. /\ c \in [Flows -> [APs -> Seq(Message)]] /\ chan' = Sent(c, ports, i, out)
      /\ ports \in SUBSET Flows /\ out \in Seq(Message)
  BY <1>2, <1>3
<1> HIDE DEF c, Handles
<1>9. \A g \in ports : Peer(g, i) \in APs
  BY <1>2
<1>10. /\ Sent(c, ports, i, out) \in [Flows -> [APs -> Seq(Message)]]
      /\ \A g \in Flows, e \in APs :
            Sent(c, ports, i, out)[g][e] = Got(c, ports, i, out, g, e)
  BY <1>9, <1>4, SentAt
<1>5. /\ chan' \in [Flows -> [APs -> Seq(Message)]]
      /\ \A g \in Flows, e \in APs :
            chan'[g][e] = IF g \in ports /\ e = Peer(g, i) THEN c[g][e] \o out ELSE c[g][e]
  BY <1>4, <1>10 DEF Got
<1>6. \A g \in Flows, e \in APs :
                chan'[g][e] = IF g = f /\ e = i THEN Tail(chan[f][i])
                              ELSE IF g \in ports /\ e = Peer(g, i) THEN chan[g][e] \o out
                              ELSE chan[g][e]
  BY <1>2, <1>3, <1>5 DEF c
<1> USE DEF Handles
<1>7. /\ StateTable' \in [APs -> Seq(Row)]
      /\ StateTable'[i] = table
      /\ \A j \in APs : j # i => StateTable'[j] = StateTable[j]
  BY <1>1 DEF Types
<1>8. \A j \in APs : Evolves(StateTable[j], StateTable'[j])
  BY <1>7 DEF Evolves
<1> QED
  BY <1>2, <1>5, <1>6, <1>7, <1>8

-----------------------------------------------------------------------------
(* What every handler keeps.                                                 *)

LEMMA UpKept ==
    ASSUME AllocKept, NEW g \in Flows
    PROVE (Up(g))' <=> Up(g)
  BY DEF AllocKept, Up

LEMMA HandlesRows ==
    ASSUME IInv, NEW f, NEW i, NEW ports, NEW table, NEW out, Handles(f, i, ports, table, out),
           \A k \in DOMAIN table \ DOMAIN StateTable[i] : Brought(i, table[k])
    PROVE RowsOfFlows' /\ Asking'
<1>0. Fixed /\ AllocKept /\ i \in APs
  BY DEF Handles
<1>1. /\ StateTable'[i] = table
      /\ \A j \in APs : j # i => StateTable'[j] = StateTable[j]
      /\ \A j \in APs : Evolves(StateTable[j], StateTable'[j])
      /\ \A j \in APs : StateTable[j] \in Seq(Row) /\ StateTable'[j] \in Seq(Row)
  BY HandlesMoves DEF IInv, Types
<1>2. \A g \in Flows : alloc'[g] = "up" <=> alloc[g] = "up"
  BY <1>0 DEF AllocKept
<1>3. ASSUME NEW j \in APs, NEW k \in DOMAIN StateTable'[j]
      PROVE  (Brought(j, StateTable[j][k]))'
  <2>1. PICK row : /\ Brought(j, row) /\ StateTable'[j][k].ap = row.ap
                   /\ StateTable'[j][k].name = row.name /\ StateTable'[j][k].local = row.local
    <3>1. CASE k \in DOMAIN StateTable[j]
      BY <3>1, <1>1 DEF Evolves, IInv, RowsOfFlows
    <3>2. CASE k \notin DOMAIN StateTable[j]
      BY <3>2, <1>1
    <3> QED
      BY <3>1, <3>2
  <2>2. PICK g \in Flows : Up(g) /\ (Mine(g, j, row) \/ Theirs(g, j, row))
    BY <2>1 DEF Brought
  <2>3. /\ (Src(g))' = Src(g) /\ (Dst(g))' = Dst(g)
        /\ (AskedName(g))' = AskedName(g) /\ (OwnName(g))' = OwnName(g)
    BY <1>0, FixedEnds
  <2>4. /\ Mine(g, j, row) => (Mine(g, j, StateTable[j][k]))'
        /\ Theirs(g, j, row) => (Theirs(g, j, StateTable[j][k]))'
    BY <2>1, <2>3 DEF Mine, Theirs
  <2> QED
    BY <2>2, <2>4, <1>2 DEF Brought, Up
<1>4. ASSUME NEW g \in Flows, (Up(g))'
      PROVE  (\E k \in DOMAIN StateTable[Src(g)] :
                 Of(StateTable[Src(g)][k], Dst(g), AskedName(g)))'
  <2>1. Up(g)
    BY <1>4, <1>2 DEF Up
  <2>2. PICK k \in DOMAIN StateTable[Src(g)] : Of(StateTable[Src(g)][k], Dst(g), AskedName(g))
    BY <2>1 DEF IInv, Asking
  <2>3. Src(g) \in APs
    BY <2>1, EndsOf DEF IInv, Up
  <2>4. k \in DOMAIN StateTable'[Src(g)]
    BY <2>3, <1>1 DEF Evolves
  <2>5. Of(StateTable'[Src(g)][k], Dst(g), AskedName(g))
    BY <2>2, <2>3, <1>1 DEF Evolves, Of
  <2>6. (Src(g))' = Src(g) /\ (Dst(g))' = Dst(g) /\ (AskedName(g))' = AskedName(g)
    BY <1>0, FixedEnds
  <2> QED
    BY <2>4, <2>5, <2>6 DEF Of
<1>5. RowsOfFlows'
  BY <1>3 DEF RowsOfFlows
<1>6. Asking'
  BY <1>4 DEF Asking
<1> QED
  BY <1>5, <1>6

\* The first row of a flow stays the first, and stays as it is unless it is the one changed.
LEMMA FirstKept ==
    ASSUME IInv, NEW f, NEW i, NEW ports, NEW table, NEW out, Handles(f, i, ports, table, out),
           NEW g \in Flows, Up(g)
    PROVE /\ Src(g) \in APs
          /\ FirstAt(g) \in DOMAIN StateTable[Src(g)]
          /\ (FirstAt(g))' = FirstAt(g)
          /\ (First(g))' = StateTable'[Src(g)][FirstAt(g)]
          /\ Of(First(g), Dst(g), AskedName(g))
<1>0. Fixed /\ AllocKept /\ i \in APs
  BY DEF Handles
<1>1. /\ \A j \in APs : Evolves(StateTable[j], StateTable'[j])
      /\ \A j \in APs : StateTable[j] \in Seq(Row) /\ StateTable'[j] \in Seq(Row)
  BY HandlesMoves DEF IInv, Types
<1>2. Src(g) \in APs
  BY EndsOf DEF IInv, Up
<1>3. \E k \in DOMAIN StateTable[Src(g)] : Of(StateTable[Src(g)][k], Dst(g), AskedName(g))
  BY DEF IInv, Asking
<1>4. FirstAt(g) \in DOMAIN StateTable[Src(g)] /\ Of(First(g), Dst(g), AskedName(g))
  BY <1>1, <1>2, <1>3, FindFirst DEF FirstAt, First
<1>5. FindEntryByDstAPNI(StateTable'[Src(g)], Dst(g), AskedName(g)) = FirstAt(g)
  <2>1. /\ StateTable[Src(g)] \in Seq(Row) /\ StateTable'[Src(g)] \in Seq(Row)
        /\ Evolves(StateTable[Src(g)], StateTable'[Src(g)])
    BY <1>1, <1>2
  <2> QED
    BY <2>1, <1>3, FindEvolves DEF FirstAt
<1>6. (Src(g))' = Src(g) /\ (Dst(g))' = Dst(g) /\ (AskedName(g))' = AskedName(g)
  BY <1>0, FixedEnds
<1>7. (FirstAt(g))' = FindEntryByDstAPNI(StateTable'[Src(g)], Dst(g), AskedName(g))
  BY <1>6 DEF FirstAt
<1>8. (First(g))' = StateTable'[Src(g)][FirstAt(g)]
  BY <1>5, <1>6, <1>7 DEF First
<1> QED
  BY <1>2, <1>4, <1>5, <1>7, <1>8

LEMMA HandlesAnswers ==
    ASSUME IInv, NEW f, NEW i, NEW ports, NEW table, NEW out, Handles(f, i, ports, table, out),
           NEW r \in Requests, answers[r] > 0
    PROVE (Up(r) /\ First(r).con = "ESTABLISHED")'
<1>1. r \in Flows /\ Up(r) /\ First(r).con = "ESTABLISHED"
  BY DEF IInv, AnswersKept, Flows
<1>2. /\ Src(r) \in APs /\ FirstAt(r) \in DOMAIN StateTable[Src(r)]
      /\ (First(r))' = StateTable'[Src(r)][FirstAt(r)]
  BY <1>1, FirstKept
<1>3. Evolves(StateTable[Src(r)], StateTable'[Src(r)])
  BY <1>2, HandlesMoves
<1>4. (First(r))'.con = "ESTABLISHED"
  BY <1>1, <1>2, <1>3 DEF Evolves, First
<1>5. (Up(r))'
  BY <1>1, UpKept DEF Handles
<1> QED
  BY <1>4, <1>5

LEMMA AcceptedByAre ==
    ASSUME NEW i, NEW c
    PROVE c \in AcceptedBy(i) <=>
            \E n \in DOMAIN StateTable[i] :
                /\ StateTable[i][n].name \in Requests /\ StateTable[i][n].con = "ESTABLISHED"
                /\ c = [from |-> StateTable[i][n].ap, to |-> i]
  BY DEF AcceptedBy

LEMMA HandlesAccepted ==
    ASSUME IInv, NEW f, NEW i, NEW ports, NEW table, NEW out, Handles(f, i, ports, table, out)
    PROVE Accepted \subseteq Accepted'
<1>1. /\ \A j \in APs : Evolves(StateTable[j], StateTable'[j])
      /\ \A j \in APs : StateTable[j] \in Seq(Row) /\ StateTable'[j] \in Seq(Row)
  BY HandlesMoves DEF IInv, Types
<1>2. ASSUME NEW j \in APs, NEW c \in AcceptedBy(j) PROVE c \in (AcceptedBy(j))'
  <2>1. PICK n \in DOMAIN StateTable[j] :
                /\ StateTable[j][n].name \in Requests /\ StateTable[j][n].con = "ESTABLISHED"
                /\ c = [from |-> StateTable[j][n].ap, to |-> j]
    BY AcceptedByAre
  <2>2. n \in DOMAIN StateTable'[j]
    BY <1>1 DEF Evolves
  <2>3. /\ StateTable'[j][n].name \in Requests /\ StateTable'[j][n].con = "ESTABLISHED"
        /\ c = [from |-> StateTable'[j][n].ap, to |-> j]
    BY <1>1, <2>1 DEF Evolves
  <2> QED
    BY <2>2, <2>3 DEF AcceptedBy
<1> QED
  BY <1>2 DEF Accepted

LEMMA SoundKept ==
    ASSUME Fixed, AllocKept, Accepted \subseteq Accepted', NEW g \in Flows, NEW e, NEW m,
           Sound(g, e, m)
    PROVE (Sound(g, e, m))'
<1>1. /\ (IsMgmt(g))' = IsMgmt(g) /\ (Src(g))' = Src(g) /\ (Dst(g))' = Dst(g)
      /\ (AskedName(g))' = AskedName(g)
  BY FixedEnds
<1>2. (Up(g))' <=> Up(g)
  BY UpKept
<1>3. (\E h \in Flows : Up(h) /\ Fellow(g, h) /\ m.name = OwnName(h)) =>
            (\E h \in Flows : Up(h) /\ Fellow(g, h) /\ m.name = OwnName(h))'
  BY FixedEnds, UpKept DEF Fellow
<1>4. plan'[g] = plan[g]
  BY DEF Fixed
<1> QED
  BY <1>1, <1>2, <1>3, <1>4 DEF Sound

LEMMA HandlesMessages ==
    ASSUME IInv, Running, NEW f, NEW i, NEW ports, NEW table, NEW out,
           Handles(f, i, ports, table, out),
           \A g \in ports, e \in APs, k \in DOMAIN out :
                e = Peer(g, i) => (Sound(g, e, out[k]))'
    PROVE MessagesSound'
<1>1. /\ Fixed /\ AllocKept /\ i \in APs /\ f \in Flows /\ chan[f][i] # <<>>
      /\ out \in Seq(Message)
  BY DEF Handles
<1>2. Accepted \subseteq Accepted'
  BY HandlesAccepted
<1>3. /\ \A g \in Flows, e \in APs :
                chan'[g][e] = IF g = f /\ e = i THEN Tail(chan[f][i])
                              ELSE IF g \in ports /\ e = Peer(g, i) THEN chan[g][e] \o out
                              ELSE chan[g][e]
      /\ \A g \in Flows, e \in APs : chan[g][e] \in Seq(Message)
  BY HandlesMoves DEF IInv, Types
<1>4. ASSUME NEW g \in Flows, NEW e \in APs, NEW k \in DOMAIN chan'[g][e]
      PROVE  (Sound(g, e, chan[g][e][k]))'
  <2>1. ASSUME NEW j \in DOMAIN chan[g][e], chan'[g][e][k] = chan[g][e][j]
        PROVE  (Sound(g, e, chan[g][e][k]))'
    <3>1. PICK m : m = chan[g][e][j]
      OBVIOUS
    <3>2. Sound(g, e, m)
      BY <3>1 DEF Running, MessagesSound
    <3>3. (Sound(g, e, m))'
      BY <3>2, <1>1, <1>2, SoundKept
    <3>4. chan'[g][e][k] = m
      BY <3>1, <2>1
    <3> QED
      BY <3>3, <3>4
  <2>2. CASE g = f /\ e = i
    <3>1. chan'[g][e] = Tail(chan[g][e])
      BY <1>3, <2>2
    <3>2. /\ Tail(chan[g][e]) \in Seq(Message)
          /\ Len(Tail(chan[g][e])) = Len(chan[g][e]) - 1
          /\ \A j \in 1 .. Len(Tail(chan[g][e])) : Tail(chan[g][e])[j] = chan[g][e][j + 1]
      BY <1>1, <1>3, <2>2, HeadTailProperties
    <3>3. k \in 1 .. Len(Tail(chan[g][e])) /\ Len(chan[g][e]) \in Nat
      BY <1>3, <3>1, <3>2
    <3>4. k + 1 \in DOMAIN chan[g][e] /\ chan'[g][e][k] = chan[g][e][k + 1]
      BY <1>3, <3>1, <3>2, <3>3
    <3> QED
      BY <3>4, <2>1
  <2>3. CASE ~(g = f /\ e = i) /\ g \in ports /\ e = Peer(g, i)
    <3>1. chan'[g][e] = chan[g][e] \o out
      BY <1>3, <2>3
    <3>2. /\ Len(chan[g][e] \o out) = Len(chan[g][e]) + Len(out)
          /\ chan[g][e] \o out \in Seq(Message)
          /\ \A j \in 1 .. Len(chan[g][e]) + Len(out) : (chan[g][e] \o out)[j] =
                 IF j <= Len(chan[g][e]) THEN chan[g][e][j] ELSE out[j - Len(chan[g][e])]
      BY <1>1, <1>3, ConcatProperties
    <3>3. k \in 1 .. Len(chan[g][e]) + Len(out) /\ Len(chan[g][e]) \in Nat /\ Len(out) \in Nat
      BY <1>1, <1>3, <3>1, <3>2
    <3>4. CASE k <= Len(chan[g][e])
      <4>1. k \in DOMAIN chan[g][e] /\ chan'[g][e][k] = chan[g][e][k]
        BY <1>3, <3>1, <3>2, <3>3, <3>4
      <4> QED
        BY <4>1, <2>1
    <3>5. CASE ~(k <= Len(chan[g][e]))
      <4>1. /\ k - Len(chan[g][e]) \in DOMAIN out
            /\ chan'[g][e][k] = out[k - Len(chan[g][e])]
        BY <1>1, <1>3, <3>1, <3>2, <3>3, <3>5
      <4>2. PICK m : m = out[k - Len(chan[g][e])]
        OBVIOUS
      <4>3. (Sound(g, e, m))'
        BY <2>3, <4>1, <4>2
      <4>4. chan'[g][e][k] = m
        BY <4>1, <4>2
      <4> QED
        BY <4>3, <4>4
    <3> QED
      BY <3>4, <3>5
  <2>4. CASE ~(g = f /\ e = i) /\ ~(g \in ports /\ e = Peer(g, i))
    BY <1>3, <2>1, <2>4
  <2> QED
    BY <2>2, <2>3, <2>4
<1> QED
  BY <1>4 DEF MessagesSound

LEMMA HandlesNotBoth ==
    ASSUME IInv, Running, NEW f, NEW i, NEW ports, NEW table, NEW out,
           Handles(f, i, ports, table, out)
    PROVE NotBoth'
<1>1. \A g \in APs : g \in Flows
  BY DEF Flows
<1> QED
  BY <1>1, UpKept DEF Handles, Running, NotBoth, Fixed

\* The number of messages of some types that a flow carries.
LEMMA HandlesCount ==
    ASSUME IInv, NEW f, NEW i, NEW ports, NEW table, NEW out,
           Handles(f, i, ports, table, out),
           NEW g \in Flows, NEW e \in APs, NEW T
    PROVE /\ Count(chan[g][e], T) \in Nat /\ Count(chan'[g][e], T) \in Nat
          /\ g = f /\ e = i =>
                Count(chan'[g][e], T) + (IF Head(chan[f][i]).type \in T THEN 1 ELSE 0)
                    <= Count(chan[g][e], T)
          /\ ~(g = f /\ e = i) /\ (g \notin ports \/ \A k \in DOMAIN out : out[k].type \notin T)
                => Count(chan'[g][e], T) = Count(chan[g][e], T)
          /\ ~(g = f /\ e = i) /\ Len(out) = 1 => Count(chan'[g][e], T) <= Count(chan[g][e], T) + 1
<1>1. /\ i \in APs /\ f \in Flows /\ chan[f][i] # <<>> /\ out \in Seq(Message)
  BY DEF Handles
<1>2. chan[g][e] \in Seq(Message) /\ chan'[g][e] \in Seq(Message)
  BY HandlesMoves DEF IInv, Types
<1>3. Count(chan[g][e], T) \in Nat /\ Count(chan'[g][e], T) \in Nat
  BY <1>2, CountType
<1>7. \A h \in Flows, d \in APs :
                chan'[h][d] = IF h = f /\ d = i THEN Tail(chan[f][i])
                              ELSE IF h \in ports /\ d = Peer(h, i) THEN chan[h][d] \o out
                              ELSE chan[h][d]
  BY HandlesMoves
<1>4. CASE g = f /\ e = i
  <2>1. chan'[g][e] = Tail(chan[g][e])
    BY <1>4, <1>7
  <2>2. Count(Tail(chan[g][e]), T) + (IF Head(chan[g][e]).type \in T THEN 1 ELSE 0)
            <= Count(chan[g][e], T)
    BY <1>1, <1>2, <1>4, CountTail
  <2> QED
    BY <1>3, <1>4, <2>1, <2>2
<1>5. CASE ~(g = f /\ e = i) /\ g \in ports /\ e = Peer(g, i)
  <2>1. chan'[g][e] = chan[g][e] \o out
    BY <1>5, <1>7
  <2>2. /\ (\A k \in DOMAIN out : out[k].type \notin T) =>
                Count(chan[g][e] \o out, T) = Count(chan[g][e], T)
        /\ Len(out) = 1 => Count(chan[g][e] \o out, T) <= Count(chan[g][e], T) + 1
    BY <1>1, <1>2, CountSent
  <2> QED
    BY <1>3, <1>5, <2>1, <2>2
<1>6. CASE ~(g = f /\ e = i) /\ ~(g \in ports /\ e = Peer(g, i))
  <2>1. chan'[g][e] = chan[g][e]
    BY <1>6, <1>7
  <2> QED
    BY <1>3, <1>6, <2>1
<1> QED
  BY <1>4, <1>5, <1>6

\* Nothing is sent about reads, or one result for a read taken.
LEMMA HandlesReads ==
    ASSUME IInv, NEW f, NEW i, NEW ports, NEW table, NEW out,
           Handles(f, i, ports, table, out), reads' = reads, results' = results,
           \/ \A k \in DOMAIN out : out[k].type \notin ReadTypes
           \/ /\ Len(out) = 1 /\ Arrived(f, i) /\ Head(chan[f][i]).type \in ReadTypes
              /\ IsMgmt(f) \/ ports \subseteq {f}
    PROVE ReadsCounted'
<1>0. Fixed /\ f \in Flows /\ i \in APs /\ Types /\ Stages
  BY DEF Handles, IInv
<1>1. SUFFICES ASSUME NEW r \in Requests
      PROVE (results[r] + Count(chan[r][Src(r)], ReadTypes) + Count(chan[r][Dst(r)], ReadTypes)
                <= reads[r])'
  BY DEF ReadsCounted
<1>2. /\ r \in Flows /\ ~IsMgmt(r) /\ Src(r) = plan[r].from /\ Dst(r) = plan[r].to
      /\ Src(r) \in APs /\ Dst(r) \in APs /\ Src(r) # Dst(r)
  <2>1. r \in Flows /\ ~IsMgmt(r)
    BY Apart DEF Flows, IsMgmt
  <2>2. plan[r] \in [from : APs, to : APs] /\ plan[r].from # plan[r].to
    BY <1>0 DEF Types
  <2> QED
    BY <2>1, <2>2, Kinds
<1>3. (Src(r))' = Src(r) /\ (Dst(r))' = Dst(r)
  BY <1>0, FixedEnds
<1> DEFINE S == Src(r)
           D == Dst(r)
<1>4. results[r] \in Nat /\ reads[r] \in Nat
      /\ results[r] + Count(chan[r][S], ReadTypes) + Count(chan[r][D], ReadTypes) <= reads[r]
  BY <1>0, Apart DEF IInv, Types, ReadsCounted
<1>5. S \in APs /\ D \in APs /\ S # D
  BY <1>2
<1> HIDE DEF S, D
<1>6. /\ Count(chan[r][S], ReadTypes) \in Nat /\ Count(chan'[r][S], ReadTypes) \in Nat
      /\ r = f /\ S = i =>
            Count(chan'[r][S], ReadTypes) + (IF Head(chan[f][i]).type \in ReadTypes THEN 1 ELSE 0)
                <= Count(chan[r][S], ReadTypes)
      /\ ~(r = f /\ S = i) /\ (r \notin ports \/ \A k \in DOMAIN out : out[k].type \notin ReadTypes)
            => Count(chan'[r][S], ReadTypes) = Count(chan[r][S], ReadTypes)
      /\ ~(r = f /\ S = i) /\ Len(out) = 1 =>
            Count(chan'[r][S], ReadTypes) <= Count(chan[r][S], ReadTypes) + 1
  BY <1>2, <1>5, HandlesCount
<1>7. /\ Count(chan[r][D], ReadTypes) \in Nat /\ Count(chan'[r][D], ReadTypes) \in Nat
      /\ r = f /\ D = i =>
            Count(chan'[r][D], ReadTypes) + (IF Head(chan[f][i]).type \in ReadTypes THEN 1 ELSE 0)
                <= Count(chan[r][D], ReadTypes)
      /\ ~(r = f /\ D = i) /\ (r \notin ports \/ \A k \in DOMAIN out : out[k].type \notin ReadTypes)
            => Count(chan'[r][D], ReadTypes) = Count(chan[r][D], ReadTypes)
      /\ ~(r = f /\ D = i) /\ Len(out) = 1 =>
            Count(chan'[r][D], ReadTypes) <= Count(chan[r][D], ReadTypes) + 1
  BY <1>2, <1>5, HandlesCount
<1>8. results[r] + Count(chan'[r][S], ReadTypes) + Count(chan'[r][D], ReadTypes) <= reads[r]
  <2>1. CASE \A k \in DOMAIN out : out[k].type \notin ReadTypes
    BY <2>1, <1>4, <1>5, <1>6, <1>7
  <2>2. CASE /\ Len(out) = 1 /\ Arrived(f, i) /\ Head(chan[f][i]).type \in ReadTypes
             /\ IsMgmt(f) \/ ports \subseteq {f}
    <3>1. CASE r # f
      <4>1. r \notin ports
        <5>1. CASE IsMgmt(f)
          BY <5>1, <1>2 DEF Handles, Ports, Senders, IsMgmt
        <5> QED
          BY <5>1, <2>2, <3>1
      <4> QED
        BY <3>1, <4>1, <1>4, <1>6, <1>7
    <3>2. CASE r = f
      <4>1. i = S \/ i = D
        BY <1>0, <2>2, <3>2, ArrivedEnd DEF S, D
      <4> QED
        BY <2>2, <3>2, <4>1, <1>4, <1>5, <1>6, <1>7
    <3> QED
      BY <3>1, <3>2
  <2> QED
    BY <2>1, <2>2
<1> QED
  BY <1>3, <1>8 DEF S, D

LEMMA HandlesOneAtATime ==
    ASSUME IInv, Running, NEW f, NEW i, NEW ports, NEW table, NEW out,
           Handles(f, i, ports, table, out), ~aborted',
           \/ \A k \in DOMAIN out : out[k].type \notin CACETypes
           \/ Len(out) = 1 /\ Arrived(f, i) /\ Head(chan[f][i]).type \in CACETypes
    PROVE OneAtATime'
<1>0. Fixed /\ AllocKept /\ f \in Flows /\ i \in APs /\ Types /\ Stages
  BY DEF Handles, IInv
<1>1. SUFFICES ASSUME NEW r \in Flows, (Up(r))'
      PROVE (Count(chan[r][Src(r)], CACETypes) + Count(chan[r][Dst(r)], CACETypes) <= 1)'
  BY DEF OneAtATime
<1>2. Up(r) /\ Src(r) \in APs /\ Dst(r) \in APs /\ Src(r) # Dst(r)
  BY <1>0, <1>1, UpKept, EndsOf DEF Up
<1>3. (Src(r))' = Src(r) /\ (Dst(r))' = Dst(r)
  BY <1>0, FixedEnds
<1> DEFINE S == Src(r)
           D == Dst(r)
<1>4. Count(chan[r][S], CACETypes) + Count(chan[r][D], CACETypes) <= 1
  BY <1>2 DEF Running, OneAtATime
<1>5. S \in APs /\ D \in APs /\ S # D
  BY <1>2
<1> HIDE DEF S, D
<1>6. /\ Count(chan[r][S], CACETypes) \in Nat /\ Count(chan'[r][S], CACETypes) \in Nat
      /\ r = f /\ S = i =>
            Count(chan'[r][S], CACETypes) + (IF Head(chan[f][i]).type \in CACETypes THEN 1 ELSE 0)
                <= Count(chan[r][S], CACETypes)
      /\ ~(r = f /\ S = i) /\ (r \notin ports \/ \A k \in DOMAIN out : out[k].type \notin CACETypes)
            => Count(chan'[r][S], CACETypes) = Count(chan[r][S], CACETypes)
      /\ ~(r = f /\ S = i) /\ Len(out) = 1 =>
            Count(chan'[r][S], CACETypes) <= Count(chan[r][S], CACETypes) + 1
  BY <1>2, <1>5, HandlesCount
<1>7. /\ Count(chan[r][D], CACETypes) \in Nat /\ Count(chan'[r][D], CACETypes) \in Nat
      /\ r = f /\ D = i =>
            Count(chan'[r][D], CACETypes) + (IF Head(chan[f][i]).type \in CACETypes THEN 1 ELSE 0)
                <= Count(chan[r][D], CACETypes)
      /\ ~(r = f /\ D = i) /\ (r \notin ports \/ \A k \in DOMAIN out : out[k].type \notin CACETypes)
            => Count(chan'[r][D], CACETypes) = Count(chan[r][D], CACETypes)
      /\ ~(r = f /\ D = i) /\ Len(out) = 1 =>
            Count(chan'[r][D], CACETypes) <= Count(chan[r][D], CACETypes) + 1
  BY <1>2, <1>5, HandlesCount
<1>8. Count(chan'[r][S], CACETypes) + Count(chan'[r][D], CACETypes) <= 1
  <2>1. CASE \A k \in DOMAIN out : out[k].type \notin CACETypes
    BY <2>1, <1>4, <1>5, <1>6, <1>7
  <2>2. CASE /\ Len(out) = 1 /\ Arrived(f, i) /\ Head(chan[f][i]).type \in CACETypes
             /\ out[1].type \in CACETypes
    <3>0. ports \subseteq {f}
      BY <2>2 DEF Handles, OfCACE, CACETypes
    <3>1. CASE r # f
      BY <3>0, <3>1, <1>4, <1>6, <1>7
    <3>2. CASE r = f
      <4>1. i = S \/ i = D
        BY <1>0, <2>2, <3>2, ArrivedEnd DEF S, D
      <4> QED
        BY <2>2, <3>2, <4>1, <1>4, <1>5, <1>6, <1>7
    <3> QED
      BY <3>1, <3>2
  <2>3. CASE Len(out) = 1 /\ out[1].type \notin CACETypes
    <3>1. \A k \in DOMAIN out : out[k].type \notin CACETypes
      BY <2>3 DEF Handles
    <3> QED
      BY <2>1, <3>1
  <2> QED
    BY <2>1, <2>2, <2>3
<1> QED
  BY <1>3, <1>8 DEF S, D

-----------------------------------------------------------------------------
(* How often requests are refused and tried again.                           *)

LEMMA CountFewer ==
    ASSUME NEW s \in Seq(Message), NEW T, NEW U, T \subseteq U
    PROVE Count(s, T) <= Count(s, U)
<1>1. IsFiniteSet(Places(s, U)) /\ Places(s, T) \in SUBSET Places(s, U)
  BY CountType DEF Places
<1> QED
  BY <1>1, FS_Subset DEF Count

LEMMA FellowsFinite ==
    ASSUME IInv, NEW g \in Flows, Up(g)
    PROVE /\ IsFiniteSet(Fellows(g)) /\ Cardinality(Fellows(g)) \in Nat
          /\ Cardinality(Fellows(g)) <= Cardinality(Requests)
          /\ IsFiniteSet(Carrying(g)) /\ Cardinality(Carrying(g)) \in Nat
          /\ Cardinality(Requests) \in Nat /\ Cardinality(Requests) >= 1
<1>1. IsFiniteSet(Requests) /\ Cardinality(Requests) \in Nat
  BY Apart, FS_CardinalityType
<1>2. Requests # {}
  BY Kinds DEF IInv, Stages, Types, Up
<1>3. Cardinality(Requests) >= 1
  BY <1>1, <1>2, FS_EmptySet
<1>4. IsFiniteSet(Fellows(g)) /\ Cardinality(Fellows(g)) <= Cardinality(Requests)
  <2>1. CASE IsMgmt(g)
    <3>1. Fellows(g) \in SUBSET {g}
      BY <2>1, Kinds DEF Fellows, Fellow
    <3>2. IsFiniteSet({g}) /\ Cardinality({g}) = 1
      BY FS_Singleton
    <3>3. IsFiniteSet(Fellows(g)) /\ Cardinality(Fellows(g)) <= 1
      BY <3>1, <3>2, FS_Subset
    <3>4. Cardinality(Fellows(g)) \in Nat
      BY <3>3, FS_CardinalityType
    <3> QED
      BY <1>1, <1>3, <3>3, <3>4
  <2>2. CASE ~IsMgmt(g)
    <3>1. Fellows(g) \in SUBSET Requests
      BY <2>2, Kinds DEF Fellows, Fellow
    <3> QED
      BY <1>1, <3>1, FS_Subset
  <2> QED
    BY <2>1, <2>2
<1>5. Cardinality(Fellows(g)) \in Nat
  BY <1>4, FS_CardinalityType
<1>6. Carrying(g) \in SUBSET Fellows(g)
  BY DEF Carrying
<1>7. IsFiniteSet(Carrying(g))
  BY <1>4, <1>6, FS_Subset
<1>8. Cardinality(Carrying(g)) \in Nat
  BY <1>7, FS_CardinalityType
<1> QED
  BY <1>1, <1>3, <1>4, <1>5, <1>7, <1>8

LEMMA FellowsKept ==
    ASSUME Fixed, AllocKept, NEW g
    PROVE (Fellows(g))' = Fellows(g)
<1>1. ASSUME NEW h \in Flows PROVE (Fellow(g, h) /\ Up(h))' <=> Fellow(g, h) /\ Up(h)
  BY FixedEnds, UpKept DEF Fellow
<1> QED
  BY <1>1 DEF Fellows

LEMMA CarriesCounted ==
    ASSUME Types, NEW h \in Flows, Dst(h) \in APs
    PROVE Carries(h) <=> Count(chan[h][Dst(h)], {"M_CONNECT"}) # 0
<1>1. chan[h][Dst(h)] \in Seq(Message)
  BY DEF Types
<1> QED
  BY <1>1, CountType DEF Carries

LEMMA HandlesCarries ==
    ASSUME IInv, NEW f, NEW i, NEW ports, NEW table, NEW out, Handles(f, i, ports, table, out),
           NEW h \in Flows, Up(h)
    PROVE /\ (Carries(h))' => \/ Carries(h)
                              \/ h \in ports /\ \E k \in DOMAIN out : out[k].type = "M_CONNECT"
          /\ Running /\ h = f /\ i = Dst(f) /\ Head(chan[f][i]).type = "M_CONNECT"
                => Carries(h) /\ ~(Carries(h))'
<1>1. Fixed /\ f \in Flows /\ i \in APs /\ chan[f][i] # <<>>
  BY DEF Handles
<1>2. Dst(h) \in APs /\ Src(h) \in APs /\ Src(h) # Dst(h)
  BY EndsOf DEF IInv, Up
<1>3. (Dst(h))' = Dst(h)
  BY <1>1, FixedEnds
<1> DEFINE D == Dst(h)
           M == {"M_CONNECT"}
<1>4. chan[h][D] \in Seq(Message) /\ chan'[h][D] \in Seq(Message)
  BY <1>2, HandlesMoves DEF IInv, Types
<1>5. Carries(h) <=> Count(chan[h][D], M) # 0
  BY <1>2, CarriesCounted DEF IInv
<1>6. (Carries(h))' <=> Count(chan'[h][D], M) # 0
  <2>1. (Carries(h))' <=> \E k \in DOMAIN chan'[h][D] : chan'[h][D][k].type = "M_CONNECT"
    BY <1>3 DEF Carries
  <2> QED
    BY <2>1, <1>4, CountType
<1> HIDE DEF D, M
<1>7. /\ Count(chan[h][D], M) \in Nat /\ Count(chan'[h][D], M) \in Nat
      /\ h = f /\ D = i =>
            Count(chan'[h][D], M) + (IF Head(chan[f][i]).type \in M THEN 1 ELSE 0)
                <= Count(chan[h][D], M)
      /\ ~(h = f /\ D = i) /\ (h \notin ports \/ \A k \in DOMAIN out : out[k].type \notin M)
            => Count(chan'[h][D], M) = Count(chan[h][D], M)
  BY <1>2, HandlesCount DEF D
<1>8. (Carries(h))' => \/ Carries(h)
                       \/ h \in ports /\ \E k \in DOMAIN out : out[k].type = "M_CONNECT"
  BY <1>5, <1>6, <1>7 DEF M
<1>9. ASSUME Running, h = f, i = Dst(f), Head(chan[f][i]).type = "M_CONNECT"
      PROVE  Carries(h) /\ ~(Carries(h))'
  <2>1. Count(chan'[h][D], M) + 1 <= Count(chan[h][D], M)
    BY <1>7, <1>9 DEF M, D
  <2>2. Count(chan[h][D], CACETypes) \in Nat /\ Count(chan[h][Src(h)], CACETypes) \in Nat
    BY <1>2, CountType DEF IInv, Types, D
  <2>3. Count(chan[h][Src(h)], CACETypes) + Count(chan[h][D], CACETypes) <= 1
    BY <1>9 DEF Running, OneAtATime, D
  <2>4. Count(chan[h][D], M) <= Count(chan[h][D], CACETypes)
    BY <1>4, CountFewer DEF M, CACETypes
  <2> QED
    BY <1>5, <1>6, <1>7, <2>1, <2>2, <2>3, <2>4
<1> QED
  BY <1>8, <1>9

\* The balance of RefusedOnce for one flow, with d more attempts.
LEMMA Balance ==
    ASSUME IInv, Running, NEW f, NEW i, NEW ports, NEW table, NEW out,
           Handles(f, i, ports, table, out),
           NEW g \in Flows, Up(g), NEW d \in 0 .. 1,
           StateTable'[Src(g)][FirstAt(g)].retries = First(g).retries + d,
           Cardinality((Carrying(g))') <= Cardinality(Carrying(g)) + d,
           \A k \in DOMAIN StateTable'[Dst(g)] :
              Of(StateTable'[Dst(g)][k], Src(g), OwnName(g)) =>
                LET before == IF k \in DOMAIN StateTable[Dst(g)]
                              THEN StateTable[Dst(g)][k].retries ELSE 0
                IN  \/ StateTable'[Dst(g)][k].retries = before
                    \/ /\ StateTable'[Dst(g)][k].retries = before + 1
                       /\ Cardinality((Carrying(g))') + 1 <= Cardinality(Carrying(g))
    PROVE /\ (Cardinality(Carrying(g)) <= Cardinality(Fellows(g)) + First(g).retries)'
          /\ (\A k \in DOMAIN StateTable[Dst(g)] :
                Of(StateTable[Dst(g)][k], Src(g), OwnName(g)) =>
                    StateTable[Dst(g)][k].retries + Cardinality(Carrying(g))
                        <= Cardinality(Fellows(g)) + First(g).retries)'
<1>0. Fixed /\ AllocKept
  BY DEF Handles
<1> DEFINE C == Cardinality(Carrying(g))
           Cn == Cardinality((Carrying(g))')
           F == Cardinality(Fellows(g))
           A == First(g).retries
<1>1. C \in Nat /\ F \in Nat /\ IsFiniteSet(Fellows(g))
  BY FellowsFinite
<1>2. (Fellows(g))' = Fellows(g)
  BY <1>0, FellowsKept
<1>3. Cn \in Nat
  <2>1. (Carrying(g))' \in SUBSET Fellows(g)
    BY <1>2 DEF Carrying
  <2>2. IsFiniteSet((Carrying(g))')
    BY <1>1, <2>1, FS_Subset
  <2> QED
    BY <2>2, FS_CardinalityType
<1>4. A \in Nat
  BY FirstRow DEF Row
<1>5. (First(g))' = StateTable'[Src(g)][FirstAt(g)]
  BY FirstKept
<1>6. /\ C <= F + A
      /\ \A k \in DOMAIN StateTable[Dst(g)] :
            Of(StateTable[Dst(g)][k], Src(g), OwnName(g)) =>
                StateTable[Dst(g)][k].retries + C <= F + A
  BY DEF Running, RefusedOnce
<1>7. (First(g).retries)' = A + d /\ (Cardinality(Fellows(g)))' = F
      /\ (Cardinality(Carrying(g)))' = Cn
  BY <1>2, <1>5
<1>8. /\ (Src(g))' = Src(g) /\ (Dst(g))' = Dst(g) /\ (OwnName(g))' = OwnName(g)
  BY <1>0, FixedEnds
<1>9. Cn <= C + d
  OBVIOUS
<1> HIDE DEF C, Cn, F, A
<1>10. Cn <= F + (A + d)
  BY <1>1, <1>3, <1>4, <1>6, <1>9
<1>11. ASSUME NEW k \in DOMAIN StateTable'[Dst(g)],
              Of(StateTable'[Dst(g)][k], Src(g), OwnName(g))
       PROVE  StateTable'[Dst(g)][k].retries + Cn <= F + (A + d)
  <2>0. Dst(g) \in APs
    BY EndsOf DEF IInv, Up
  <2>1. CASE k \in DOMAIN StateTable[Dst(g)]
    <3>1. StateTable[Dst(g)] \in Seq(Row)
      BY <2>0 DEF IInv, Types
    <3>6. StateTable[Dst(g)][k] \in Row
      BY <3>1, <2>1, ElementOfSeq
    <3>2. StateTable[Dst(g)][k].retries \in Nat
      BY <3>6 DEF Row
    <3>3. Of(StateTable[Dst(g)][k], Src(g), OwnName(g))
      BY <1>11, <2>0, <2>1, HandlesMoves DEF Evolves, Of
    <3>4. StateTable[Dst(g)][k].retries + C <= F + A
      BY <1>6, <2>1, <3>3
    <3>5. \/ StateTable'[Dst(g)][k].retries = StateTable[Dst(g)][k].retries
          \/ /\ StateTable'[Dst(g)][k].retries = StateTable[Dst(g)][k].retries + 1
             /\ Cn + 1 <= C
      BY <1>11, <2>1 DEF Cn, C
    <3> QED
      BY <1>1, <1>3, <1>4, <1>9, <3>2, <3>4, <3>5
  <2>2. CASE k \notin DOMAIN StateTable[Dst(g)]
    <3>1. \/ StateTable'[Dst(g)][k].retries = 0
          \/ StateTable'[Dst(g)][k].retries = 0 + 1 /\ Cn + 1 <= C
      BY <1>11, <2>2 DEF Cn, C
    <3> QED
      BY <1>1, <1>3, <1>4, <1>6, <1>10, <3>1
  <2> QED
    BY <2>1, <2>2
<1> QED
  BY <1>7, <1>8, <1>10, <1>11 DEF Of

\* A handler that refuses nothing and asks for nothing again.
LEMMA HandlesRetries ==
    ASSUME IInv, Running, NEW f, NEW i, NEW ports, NEW table, NEW out,
           Handles(f, i, ports, table, out),
           \A k \in DOMAIN table :
              table[k].retries = IF k \in DOMAIN StateTable[i] THEN StateTable[i][k].retries ELSE 0,
           \A k \in DOMAIN out : out[k].type # "M_CONNECT"
    PROVE RetriesBounded' /\ RetriedFew' /\ RefusedOnce'
<1>0. Fixed /\ AllocKept /\ i \in APs
  BY DEF Handles
<1>1. /\ StateTable'[i] = table
      /\ \A j \in APs : j # i => StateTable'[j] = StateTable[j]
      /\ \A j \in APs : StateTable[j] \in Seq(Row) /\ StateTable'[j] \in Seq(Row)
  BY HandlesMoves DEF IInv, Types
<1>2. \A j \in APs : \A k \in DOMAIN StateTable'[j] :
            StateTable'[j][k].retries =
                IF k \in DOMAIN StateTable[j] THEN StateTable[j][k].retries ELSE 0
  BY <1>1
<1>3. RetriesBounded'
  <2>1. MaxRetries \in Nat
    BY Apart, FS_CardinalityType DEF MaxRetries
  <2> QED
    BY <1>2, <2>1 DEF RetriesBounded, IInv
<1>4. ASSUME NEW g \in Flows, Up(g)
      PROVE  /\ Src(g) \in APs
             /\ (First(g))' = StateTable'[Src(g)][FirstAt(g)]
             /\ StateTable'[Src(g)][FirstAt(g)].retries = First(g).retries
             /\ First(g).retries \in Nat
  <2>1. /\ Src(g) \in APs /\ FirstAt(g) \in DOMAIN StateTable[Src(g)]
        /\ (First(g))' = StateTable'[Src(g)][FirstAt(g)]
    BY <1>4, FirstKept
  <2>2. FirstAt(g) \in DOMAIN StateTable'[Src(g)]
    BY <2>1, HandlesMoves DEF Evolves
  <2>3. First(g).retries \in Nat
    BY <1>4, FirstRow DEF Row
  <2> QED
    BY <1>2, <2>1, <2>2, <2>3 DEF First
<1>5. RetriedFew'
  <2>1. ASSUME NEW g \in Flows, (Up(g))' PROVE (First(g).retries)' <= MaxConRetries
    <3>1. Up(g)
      BY <1>0, <2>1, UpKept
    <3> QED
      BY <1>4, <3>1 DEF Running, RetriedFew
  <2> QED
    BY <2>1 DEF RetriedFew
<1>6. RefusedOnce'
  <2>1. ASSUME NEW g \in Flows, (Up(g))'
        PROVE  /\ (Cardinality(Carrying(g)) <= Cardinality(Fellows(g)) + First(g).retries)'
               /\ (\A k \in DOMAIN StateTable[Dst(g)] :
                    Of(StateTable[Dst(g)][k], Src(g), OwnName(g)) =>
                        StateTable[Dst(g)][k].retries + Cardinality(Carrying(g))
                            <= Cardinality(Fellows(g)) + First(g).retries)'
    <3>1. Up(g) /\ Dst(g) \in APs
      BY <1>0, <2>1, UpKept, EndsOf DEF IInv, Up
    <3>2. Cardinality((Carrying(g))') <= Cardinality(Carrying(g)) + 0
      <4>1. (Fellows(g))' = Fellows(g)
        BY <1>0, FellowsKept
      <4>2. \A h \in Fellows(g) : (Carries(h))' => Carries(h)
        BY HandlesCarries DEF Fellows
      <4>3. (Carrying(g))' \in SUBSET Carrying(g)
        BY <4>1, <4>2 DEF Carrying
      <4>4. IsFiniteSet(Carrying(g)) /\ Cardinality(Carrying(g)) \in Nat
        BY <3>1, FellowsFinite
      <4>5. Cardinality((Carrying(g))') <= Cardinality(Carrying(g))
        BY <4>3, <4>4, FS_Subset
      <4> QED
        BY <4>4, <4>5
    <3>3. StateTable'[Src(g)][FirstAt(g)].retries = First(g).retries + 0
      BY <1>4, <3>1
    <3>4. \A k \in DOMAIN StateTable'[Dst(g)] :
              Of(StateTable'[Dst(g)][k], Src(g), OwnName(g)) =>
                LET before == IF k \in DOMAIN StateTable[Dst(g)]
                              THEN StateTable[Dst(g)][k].retries ELSE 0
                IN  \/ StateTable'[Dst(g)][k].retries = before
                    \/ /\ StateTable'[Dst(g)][k].retries = before + 1
                       /\ Cardinality((Carrying(g))') + 1 <= Cardinality(Carrying(g))
      BY <1>2, <3>1
    <3> QED
      BY <3>1, <3>2, <3>3, <3>4, Balance
  <2> QED
    BY <2>1 DEF RefusedOnce
<1> QED
  BY <1>3, <1>5, <1>6

\* Row n is refused, after the request of f has been taken.
LEMMA HandlesRefusal ==
    ASSUME IInv, Running, NEW f, NEW i, NEW ports, NEW table, NEW out, NEW n,
           Handles(f, i, ports, table, out),
           i = Dst(f), Up(f), Head(chan[f][i]).type = "M_CONNECT",
           NEW h \in Flows, Up(h), Fellow(f, h),
           n \in DOMAIN table, Of(table[n], Src(f), OwnName(h)),
           \A k \in DOMAIN table :
              table[k].retries =
                (IF k \in DOMAIN StateTable[i] THEN StateTable[i][k].retries ELSE 0)
                    + (IF k = n THEN 1 ELSE 0),
           \A k \in DOMAIN out : out[k].type # "M_CONNECT"
    PROVE RetriesBounded' /\ RetriedFew' /\ RefusedOnce'
<1>0. Fixed /\ AllocKept /\ i \in APs /\ f \in Flows
  BY DEF Handles
<1>b. StateTable \in [APs -> Seq(Row)]
  BY DEF IInv, Types
<1>c. /\ StateTable' \in [APs -> Seq(Row)]
      /\ StateTable'[i] = table
      /\ \A j \in APs : j # i => StateTable'[j] = StateTable[j]
      /\ \A j \in APs : Evolves(StateTable[j], StateTable'[j])
  BY HandlesMoves
<1>1. /\ StateTable'[i] = table
      /\ \A j \in APs : j # i => StateTable'[j] = StateTable[j]
      /\ \A j \in APs : StateTable[j] \in Seq(Row) /\ StateTable'[j] \in Seq(Row)
      /\ \A j \in APs : Evolves(StateTable[j], StateTable'[j])
  BY <1>b, <1>c
<1>a. \A j \in APs : \A k \in DOMAIN StateTable[j] : StateTable[j][k].retries \in Nat
  <2>1. ASSUME NEW j \in APs, NEW k \in DOMAIN StateTable[j] PROVE StateTable[j][k] \in Row
    <3>1. StateTable[j] \in Seq(Row)
      BY <1>1
    <3> QED
      BY <3>1, ElementOfSeq
  <2> QED
    BY <2>1 DEF Row
<1>2. \A j \in APs : \A k \in DOMAIN StateTable'[j] :
            StateTable'[j][k].retries =
                (IF k \in DOMAIN StateTable[j] THEN StateTable[j][k].retries ELSE 0)
                    + (IF j = i /\ k = n THEN 1 ELSE 0)
  <2>1. ASSUME NEW j \in APs, NEW k \in DOMAIN StateTable'[j], j # i
        PROVE  StateTable'[j][k].retries =
                (IF k \in DOMAIN StateTable[j] THEN StateTable[j][k].retries ELSE 0) + 0
    <3>1. k \in DOMAIN StateTable[j] /\ StateTable'[j][k] = StateTable[j][k]
      BY <1>1, <2>1
    <3> QED
      BY <1>a, <3>1
  <2> QED
    BY <1>1, <2>1
<1>3. /\ Carries(f) /\ ~(Carries(f))'
  BY <1>0, HandlesCarries
<1>4. /\ Src(f) \in APs /\ Src(f) # Dst(f) /\ Src(h) = Src(f) /\ Dst(h) = Dst(f)
      /\ IsMgmt(h) = IsMgmt(f) /\ Dst(f) \in APs
  BY <1>0, EndsOf DEF IInv, Up, Fellow, IsMgmt
<1>5. ASSUME NEW g \in Flows, Up(g), Src(g) = i, n \in DOMAIN StateTable[i]
      PROVE  FirstAt(g) # n
  <2>1. FirstAt(g) \in DOMAIN StateTable[i] /\ Of(First(g), Dst(g), AskedName(g))
    BY <1>5, FirstKept
  <2>2. ASSUME FirstAt(g) = n PROVE FALSE
    <3>1. Of(table[n], Dst(g), AskedName(g))
      BY <1>0, <1>1, <1>5, <2>1, <2>2 DEF First, Evolves, Of
    <3> DEFINE row == [ap |-> Src(h), name |-> OwnName(h), local |-> AskedName(h)]
    <3>2. Theirs(h, i, row) /\ Of(row, Dst(g), AskedName(g))
      BY <1>4, <3>1 DEF Theirs, Of
    <3> HIDE DEF row
    <3> QED
      BY <1>5, <3>2, MineOrTheirs DEF IInv, Running
  <2> QED
    BY <2>2
<1>6. ASSUME NEW g \in Flows, Up(g)
      PROVE  /\ Src(g) \in APs
             /\ (First(g))' = StateTable'[Src(g)][FirstAt(g)]
             /\ StateTable'[Src(g)][FirstAt(g)].retries = First(g).retries
             /\ First(g).retries \in Nat
  <2>1. /\ Src(g) \in APs /\ FirstAt(g) \in DOMAIN StateTable[Src(g)]
        /\ (First(g))' = StateTable'[Src(g)][FirstAt(g)]
    BY <1>6, FirstKept
  <2>2. FirstAt(g) \in DOMAIN StateTable'[Src(g)]
    BY <2>1, <1>1 DEF Evolves
  <2>3. First(g).retries \in Nat
    BY <1>6, FirstRow DEF Row
  <2>4. ~(Src(g) = i /\ FirstAt(g) = n)
    BY <1>5, <1>6, <2>1
  <2>5. StateTable'[Src(g)][FirstAt(g)].retries = First(g).retries + 0
    BY <1>2, <2>1, <2>2, <2>4 DEF First
  <2> QED
    BY <2>1, <2>3, <2>5
<1>7. RetriedFew'
  <2>1. ASSUME NEW g \in Flows, (Up(g))' PROVE (First(g).retries)' <= MaxConRetries
    <3>1. Up(g)
      BY <1>0, <2>1, UpKept
    <3> QED
      BY <1>6, <3>1 DEF Running, RetriedFew
  <2> QED
    BY <2>1 DEF RetriedFew
<1>8. RetriesBounded'
  <2>1. ASSUME NEW j \in APs, NEW k \in DOMAIN StateTable'[j]
        PROVE  StateTable'[j][k].retries <= MaxRetries
    <3>1. /\ Cardinality(Fellows(h)) \in Nat /\ Cardinality(Carrying(h)) \in Nat
          /\ IsFiniteSet(Carrying(h))
          /\ Cardinality(Fellows(h)) <= Cardinality(Requests)
          /\ Cardinality(Requests) \in Nat /\ Cardinality(Requests) >= 1
      BY FellowsFinite
    <3>2. MaxConRetries \in Nat
      BY Apart
    <3>3. First(h).retries <= MaxConRetries /\ First(h).retries \in Nat
      BY <1>6 DEF Running, RetriedFew
    <3>4. f \in Carrying(h)
      BY <1>0, <1>3, <1>4 DEF Carrying, Fellows, Fellow
    <3>5. Cardinality(Carrying(h)) >= 1
      BY <3>1, <3>4, FS_EmptySet
    <3>6. CASE j = i /\ k = n /\ k \in DOMAIN StateTable[j]
      <4>1. Of(StateTable[Dst(h)][n], Src(h), OwnName(h))
        BY <1>1, <1>4, <3>6 DEF Evolves, Of
      <4>2. StateTable[Dst(h)][n].retries + Cardinality(Carrying(h))
                        <= Cardinality(Fellows(h)) + First(h).retries
        BY <4>1, <1>4, <3>6 DEF Running, RefusedOnce
      <4>3. StateTable[j][k].retries \in Nat
        BY <1>a, <3>6
      <4>4. StateTable'[j][k].retries = StateTable[j][k].retries + 1
        BY <1>2, <3>6
      <4> QED
        BY <1>4, <3>1, <3>2, <3>3, <3>5, <3>6, <4>2, <4>3, <4>4 DEF MaxRetries
    <3>7. CASE j = i /\ k = n /\ k \notin DOMAIN StateTable[j]
      <4>1. StateTable'[j][k].retries = 0 + 1
        BY <1>2, <3>7
      <4> QED
        BY <3>1, <3>2, <4>1 DEF MaxRetries
    <3>8. CASE ~(j = i /\ k = n)
      <4>1. StateTable'[j][k].retries =
                IF k \in DOMAIN StateTable[j] THEN StateTable[j][k].retries ELSE 0
        BY <1>2, <1>a, <3>8
      <4>2. k \in DOMAIN StateTable[j] => StateTable[j][k].retries <= MaxRetries
        BY DEF IInv, RetriesBounded
      <4>3. 0 <= MaxRetries
        BY <3>1, <3>2 DEF MaxRetries
      <4> QED
        BY <4>1, <4>2, <4>3
    <3> QED
      BY <3>6, <3>7, <3>8
  <2> QED
    BY <2>1 DEF RetriesBounded
<1>9. RefusedOnce'
  <2>1. ASSUME NEW g \in Flows, (Up(g))'
        PROVE  /\ (Cardinality(Carrying(g)) <= Cardinality(Fellows(g)) + First(g).retries)'
               /\ (\A k \in DOMAIN StateTable[Dst(g)] :
                    Of(StateTable[Dst(g)][k], Src(g), OwnName(g)) =>
                        StateTable[Dst(g)][k].retries + Cardinality(Carrying(g))
                            <= Cardinality(Fellows(g)) + First(g).retries)'
    <3>1. Up(g) /\ Dst(g) \in APs
      BY <1>0, <2>1, UpKept, EndsOf DEF IInv, Up
    <3>2. (Fellows(g))' = Fellows(g)
      BY <1>0, FellowsKept
    <3>3. \A x \in Fellows(g) : (Carries(x))' => Carries(x)
      BY HandlesCarries DEF Fellows
    <3>4. IsFiniteSet(Carrying(g)) /\ Cardinality(Carrying(g)) \in Nat
      BY <3>1, FellowsFinite
    <3>5. (Carrying(g))' \in SUBSET Carrying(g)
      BY <3>2, <3>3 DEF Carrying
    <3>6. Cardinality((Carrying(g))') <= Cardinality(Carrying(g)) + 0
      <4>1. Cardinality((Carrying(g))') <= Cardinality(Carrying(g))
        BY <3>4, <3>5, FS_Subset
      <4> QED
        BY <3>4, <4>1
    <3>7. StateTable'[Src(g)][FirstAt(g)].retries = First(g).retries + 0
      BY <1>6, <3>1
    <3>8. ASSUME Dst(g) = i, Of(table[n], Src(g), OwnName(g))
          PROVE  Cardinality((Carrying(g))') + 1 <= Cardinality(Carrying(g))
      <4>1. Src(g) = Src(f) /\ OwnName(g) = OwnName(h)
        BY <3>8 DEF Of
      <4>2. IsMgmt(g) <=> IsMgmt(h)
        <5>1. /\ ~IsMgmt(g) => OwnName(g) \in Requests
              /\ ~IsMgmt(h) => OwnName(h) \in Requests
          BY Kinds
        <5>2. /\ IsMgmt(g) => OwnName(g) \in MgmtNames
              /\ IsMgmt(h) => OwnName(h) \in MgmtNames
          BY <3>1, EndsOf DEF IInv, Up
        <5> QED
          BY <4>1, <5>1, <5>2, Apart DEF MgmtNames
      <4>3. f \in Carrying(g)
        BY <1>0, <1>3, <1>4, <3>8, <4>1, <4>2 DEF Carrying, Fellows, Fellow
      <4>4. (Carrying(g))' \in SUBSET (Carrying(g) \ {f})
        BY <1>3, <3>5 DEF Carrying
      <4>5. /\ IsFiniteSet(Carrying(g) \ {f})
            /\ Cardinality(Carrying(g) \ {f}) = Cardinality(Carrying(g)) - 1
        BY <3>4, <4>3, FS_RemoveElement
      <4>6. Cardinality((Carrying(g))') <= Cardinality(Carrying(g) \ {f})
        BY <4>4, <4>5, FS_Subset
      <4>7. Cardinality((Carrying(g))') \in Nat
        <5>1. IsFiniteSet((Carrying(g))')
          BY <4>4, <4>5, FS_Subset
        <5> QED
          BY <5>1, FS_CardinalityType
      <4> QED
        BY <3>4, <4>5, <4>6, <4>7
    <3>9. ASSUME NEW k \in DOMAIN StateTable'[Dst(g)],
                 Of(StateTable'[Dst(g)][k], Src(g), OwnName(g))
          PROVE LET before == IF k \in DOMAIN StateTable[Dst(g)]
                              THEN StateTable[Dst(g)][k].retries ELSE 0
                IN  \/ StateTable'[Dst(g)][k].retries = before
                    \/ /\ StateTable'[Dst(g)][k].retries = before + 1
                       /\ Cardinality((Carrying(g))') + 1 <= Cardinality(Carrying(g))
      <4> DEFINE before == IF k \in DOMAIN StateTable[Dst(g)]
                              THEN StateTable[Dst(g)][k].retries ELSE 0
      <4>1. before \in Nat
        BY <1>a, <3>1
      <4>2. StateTable'[Dst(g)][k].retries = before + (IF Dst(g) = i /\ k = n THEN 1 ELSE 0)
        BY <1>2, <3>1, <3>9
      <4> HIDE DEF before
      <4>3. CASE Dst(g) = i /\ k = n
        <5>1. Of(table[n], Src(g), OwnName(g))
          BY <1>1, <3>9, <4>3
        <5>2. Cardinality((Carrying(g))') + 1 <= Cardinality(Carrying(g))
          BY <3>8, <4>3, <5>1
        <5>3. StateTable'[Dst(g)][k].retries = before + 1
          BY <4>2, <4>3
        <5> QED
          BY <5>2, <5>3 DEF before
      <4>4. CASE ~(Dst(g) = i /\ k = n)
        <5>1. StateTable'[Dst(g)][k].retries = before
          BY <4>1, <4>2, <4>4
        <5> QED
          BY <5>1 DEF before
      <4> QED
        BY <4>3, <4>4
    <3> QED
      BY <3>1, <3>6, <3>7, <3>9, Balance
  <2> QED
    BY <2>1 DEF RefusedOnce
<1> QED
  BY <1>7, <1>8, <1>9

\* The first row of f is tried again.
LEMMA HandlesAgain ==
    ASSUME IInv, Running, NEW f, NEW i, NEW ports, NEW table, NEW out,
           Handles(f, i, ports, table, out),
           i = Src(f), Up(f), First(f).retries < MaxConRetries,
           DOMAIN table = DOMAIN StateTable[i],
           \A k \in DOMAIN table :
              table[k].retries = StateTable[i][k].retries + (IF k = FirstAt(f) THEN 1 ELSE 0)
    PROVE RetriesBounded' /\ (ports \subseteq {f} => RetriedFew' /\ RefusedOnce')
<1>0. Fixed /\ AllocKept /\ i \in APs /\ f \in Flows
  BY DEF Handles
<1>b. StateTable \in [APs -> Seq(Row)]
  BY DEF IInv, Types
<1>c. /\ StateTable' \in [APs -> Seq(Row)]
      /\ StateTable'[i] = table
      /\ \A j \in APs : j # i => StateTable'[j] = StateTable[j]
      /\ \A j \in APs : Evolves(StateTable[j], StateTable'[j])
  BY HandlesMoves
<1>a. \A j \in APs : \A k \in DOMAIN StateTable[j] : StateTable[j][k].retries \in Nat
  <2>1. ASSUME NEW j \in APs, NEW k \in DOMAIN StateTable[j] PROVE StateTable[j][k] \in Row
    <3>1. StateTable[j] \in Seq(Row)
      BY <1>b
    <3> QED
      BY <3>1, ElementOfSeq
  <2> QED
    BY <2>1 DEF Row
<1>2. \A j \in APs : \A k \in DOMAIN StateTable'[j] :
            /\ k \in DOMAIN StateTable[j]
            /\ StateTable'[j][k].retries =
                StateTable[j][k].retries + (IF j = i /\ k = FirstAt(f) THEN 1 ELSE 0)
  <2>1. ASSUME NEW j \in APs, NEW k \in DOMAIN StateTable'[j], j # i
        PROVE  k \in DOMAIN StateTable[j]
               /\ StateTable'[j][k].retries = StateTable[j][k].retries + 0
    <3>1. k \in DOMAIN StateTable[j] /\ StateTable'[j][k] = StateTable[j][k]
      BY <1>c, <2>1
    <3> QED
      BY <1>a, <3>1
  <2> QED
    BY <1>c, <2>1
<1>3. /\ FirstAt(f) \in DOMAIN StateTable[i] /\ Of(First(f), Dst(f), AskedName(f))
      /\ First(f) = StateTable[i][FirstAt(f)] /\ First(f).retries \in Nat
  BY <1>0, FirstRow DEF Row, First
<1>4. RetriesBounded'
  <2>1. MaxRetries \in Nat /\ MaxConRetries \in Nat /\ MaxConRetries <= MaxRetries
    BY Apart, FS_CardinalityType DEF MaxRetries
  <2>2. ASSUME NEW j \in APs, NEW k \in DOMAIN StateTable'[j]
        PROVE  StateTable'[j][k].retries <= MaxRetries
    <3>1. CASE j = i /\ k = FirstAt(f)
      BY <1>2, <1>3, <2>1, <3>1
    <3>2. CASE ~(j = i /\ k = FirstAt(f))
      <4>1. StateTable'[j][k].retries = StateTable[j][k].retries /\ k \in DOMAIN StateTable[j]
        BY <1>a, <1>2, <3>2
      <4> QED
        BY <4>1 DEF IInv, RetriesBounded
    <3> QED
      BY <3>1, <3>2
  <2> QED
    BY <2>2 DEF RetriesBounded
<1>5. ASSUME NEW g \in Flows, Up(g), Src(g) = i, FirstAt(g) = FirstAt(f)
      PROVE  Fellow(g, f)
  <2>1. Of(First(g), Dst(g), AskedName(g)) /\ First(g) = First(f)
    BY <1>5, FirstRow DEF First
  <2>2. AskedName(g) = AskedName(f) /\ Dst(g) = Dst(f)
    BY <1>3, <2>1 DEF Of
  <2> QED
    BY <1>0, <1>5, <2>2, Kinds DEF Fellow
<1>6. ASSUME NEW g \in Flows, Up(g), Fellow(g, f)
      PROVE  Src(g) = i /\ FirstAt(g) = FirstAt(f)
  <2>1. Src(g) = Src(f) /\ Dst(g) = Dst(f) /\ AskedName(g) = AskedName(f)
    BY <1>0, <1>6, Kinds DEF Fellow
  <2> QED
    BY <2>1 DEF FirstAt
<1>7. ASSUME NEW g \in Flows, Up(g)
      PROVE  LET d == IF Fellow(g, f) THEN 1 ELSE 0
             IN  /\ Src(g) \in APs
                 /\ (First(g))' = StateTable'[Src(g)][FirstAt(g)]
                 /\ StateTable'[Src(g)][FirstAt(g)].retries = First(g).retries + d
                 /\ First(g).retries \in Nat
  <2>1. /\ Src(g) \in APs /\ FirstAt(g) \in DOMAIN StateTable[Src(g)]
        /\ (First(g))' = StateTable'[Src(g)][FirstAt(g)]
    BY <1>7, FirstKept
  <2>2. FirstAt(g) \in DOMAIN StateTable'[Src(g)]
    BY <2>1, <1>c DEF Evolves
  <2>3. First(g).retries \in Nat
    BY <1>7, FirstRow DEF Row
  <2>4. StateTable'[Src(g)][FirstAt(g)].retries =
            First(g).retries + (IF Src(g) = i /\ FirstAt(g) = FirstAt(f) THEN 1 ELSE 0)
    BY <1>2, <2>1, <2>2 DEF First
  <2>5. Src(g) = i /\ FirstAt(g) = FirstAt(f) <=> Fellow(g, f)
    BY <1>5, <1>6, <1>7
  <2> QED
    BY <2>1, <2>3, <2>4, <2>5
<1>8. RetriedFew'
  <2>1. ASSUME NEW g \in Flows, (Up(g))' PROVE (First(g).retries)' <= MaxConRetries
    <3>1. Up(g)
      BY <1>0, <2>1, UpKept
    <3>2. First(g).retries <= MaxConRetries /\ MaxConRetries \in Nat
      BY <3>1, Apart DEF Running, RetriedFew
    <3>3. CASE Fellow(g, f)
      <4>1. First(g) = First(f)
        BY <1>6, <3>1, <3>3 DEF First
      <4>2. (First(g).retries)' = First(f).retries + 1
        BY <1>7, <3>1, <3>3, <4>1
      <4> QED
        BY <1>3, <3>2, <4>2
    <3>4. CASE ~Fellow(g, f)
      <4>1. (First(g).retries)' = First(g).retries + 0 /\ First(g).retries \in Nat
        BY <1>7, <3>1, <3>4
      <4> QED
        BY <3>2, <4>1
    <3> QED
      BY <3>3, <3>4
  <2> QED
    BY <2>1 DEF RetriedFew
<1>9. ASSUME ports \subseteq {f} PROVE RefusedOnce'
  <2>1. ASSUME NEW g \in Flows, (Up(g))'
        PROVE  /\ (Cardinality(Carrying(g)) <= Cardinality(Fellows(g)) + First(g).retries)'
               /\ (\A k \in DOMAIN StateTable[Dst(g)] :
                    Of(StateTable[Dst(g)][k], Src(g), OwnName(g)) =>
                        StateTable[Dst(g)][k].retries + Cardinality(Carrying(g))
                            <= Cardinality(Fellows(g)) + First(g).retries)'
    <3> DEFINE d == IF Fellow(g, f) THEN 1 ELSE 0
    <3>1. Up(g) /\ Dst(g) \in APs /\ d \in 0 .. 1
      BY <1>0, <2>1, UpKept, EndsOf DEF IInv, Up
    <3>2. (Fellows(g))' = Fellows(g)
      BY <1>0, FellowsKept
    <3>3. \A x \in Fellows(g) : (Carries(x))' => Carries(x) \/ x = f
      BY <1>9, HandlesCarries DEF Fellows
    <3>4. IsFiniteSet(Carrying(g)) /\ Cardinality(Carrying(g)) \in Nat
      BY <3>1, FellowsFinite
    <3>5. Cardinality((Carrying(g))') <= Cardinality(Carrying(g)) + d
      <4>1. CASE Fellow(g, f)
        <5>1. (Carrying(g))' \in SUBSET (Carrying(g) \cup {f})
          BY <3>2, <3>3 DEF Carrying
        <5>2. /\ IsFiniteSet(Carrying(g) \cup {f})
              /\ Cardinality(Carrying(g) \cup {f}) =
                    IF f \in Carrying(g) THEN Cardinality(Carrying(g))
                                         ELSE Cardinality(Carrying(g)) + 1
          BY <3>4, FS_AddElement
        <5>3. /\ IsFiniteSet((Carrying(g))')
              /\ Cardinality((Carrying(g))') <= Cardinality(Carrying(g) \cup {f})
          BY <5>1, <5>2, FS_Subset
        <5>4. Cardinality((Carrying(g))') \in Nat
          BY <5>3, FS_CardinalityType
        <5> QED
          BY <3>4, <4>1, <5>2, <5>3, <5>4
      <4>2. CASE ~Fellow(g, f)
        <5>1. f \notin Fellows(g)
          BY <4>2 DEF Fellows
        <5>2. (Carrying(g))' \in SUBSET Carrying(g)
          BY <3>2, <3>3, <5>1 DEF Carrying
        <5>3. Cardinality((Carrying(g))') <= Cardinality(Carrying(g))
          BY <3>4, <5>2, FS_Subset
        <5> QED
          BY <3>4, <4>2, <5>3
      <4> QED
        BY <4>1, <4>2
    <3>6. StateTable'[Src(g)][FirstAt(g)].retries = First(g).retries + d
      BY <1>7, <3>1
    <3>7. ASSUME NEW k \in DOMAIN StateTable'[Dst(g)],
                 Of(StateTable'[Dst(g)][k], Src(g), OwnName(g))
          PROVE LET before == IF k \in DOMAIN StateTable[Dst(g)]
                              THEN StateTable[Dst(g)][k].retries ELSE 0
                IN  \/ StateTable'[Dst(g)][k].retries = before
                    \/ /\ StateTable'[Dst(g)][k].retries = before + 1
                       /\ Cardinality((Carrying(g))') + 1 <= Cardinality(Carrying(g))
      <4>1. /\ k \in DOMAIN StateTable[Dst(g)]
            /\ StateTable'[Dst(g)][k].retries = StateTable[Dst(g)][k].retries
                 + (IF Dst(g) = i /\ k = FirstAt(f) THEN 1 ELSE 0)
        BY <1>2, <3>1, <3>7
      <4>2. ASSUME Dst(g) = i, k = FirstAt(f) PROVE FALSE
        <5>3. Evolves(StateTable[i], StateTable'[i])
          BY <1>0, <1>c
        <5>4. /\ StateTable'[i][FirstAt(f)].ap = StateTable[i][FirstAt(f)].ap
              /\ StateTable'[i][FirstAt(f)].name = StateTable[i][FirstAt(f)].name
          BY <5>3, <1>3 DEF Evolves
        <5>5. Of(StateTable'[i][FirstAt(f)], Src(g), OwnName(g))
          BY <3>7, <4>2
        <5>1. Of(First(f), Src(g), OwnName(g))
          BY <1>3, <5>4, <5>5 DEF Of
        <5> DEFINE row == [ap |-> Src(g), name |-> OwnName(g), local |-> AskedName(g)]
        <5>2. Theirs(g, Src(f), row) /\ Of(row, Dst(f), AskedName(f))
          BY <1>3, <4>2, <5>1 DEF Theirs, Of
        <5> HIDE DEF row
        <5> QED
          BY <1>0, <3>1, <5>2, MineOrTheirs DEF IInv, Running
      <4>3. StateTable'[Dst(g)][k].retries = StateTable[Dst(g)][k].retries
        BY <1>a, <3>1, <4>1, <4>2
      <4> QED
        BY <4>1, <4>3
    <3> HIDE DEF d
    <3> QED
      BY <3>1, <3>5, <3>6, <3>7, Balance
  <2> QED
    BY <2>1 DEF RefusedOnce
<1> QED
  BY <1>4, <1>8, <1>9

-----------------------------------------------------------------------------
(* Steps that leave tables and messages alone.                                *)

\* What holds for every flow that is up is told by tables, messages and ends.
LEMMA Untouched ==
    ASSUME IInv, plan' = plan, StateTable' = StateTable, chan' = chan, answers' = answers,
           reads' = reads, results' = results, aborted' = aborted,
           \A g \in Flows : (Up(g))' <=> Up(g),
           \A g \in Flows : Up(g) => /\ (Dst(g))' = Dst(g) /\ (OwnName(g))' = OwnName(g)
                                     /\ (Src(g))' = Src(g)
    PROVE /\ RowsOfFlows' /\ Asking' /\ ReadsCounted' /\ AnswersKept' /\ RetriesBounded'
          /\ ~aborted' => MessagesSound' /\ OneAtATime' /\ RetriedFew' /\ RefusedOnce'
<1>1. \A g \in Flows : (IsMgmt(g))' = IsMgmt(g) /\ (AskedName(g))' = AskedName(g)
  BY DEF IsMgmt, AskedName
<1>2. RowsOfFlows'
  BY <1>1 DEF IInv, RowsOfFlows, Brought, Mine, Theirs
<1>3. Asking'
  BY <1>1 DEF IInv, Asking
<1>4. \A g \in Flows : Up(g) => (First(g))' = First(g) /\ (FirstAt(g))' = FirstAt(g)
  BY <1>1 DEF First, FirstAt
<1>5. AnswersKept'
  <2>1. \A r \in Requests : r \in Flows
    BY DEF Flows
  <2> QED
    BY <1>4, <2>1 DEF IInv, AnswersKept
<1>6. RetriesBounded'
  BY DEF IInv, RetriesBounded
<1>7. ReadsCounted'
  <2>1. ASSUME NEW r \in Requests PROVE (Src(r))' = Src(r) /\ (Dst(r))' = Dst(r)
    BY Apart DEF Src, Dst, IsMgmt
  <2> QED
    BY <2>1 DEF IInv, ReadsCounted
<1>8. ASSUME ~aborted' PROVE MessagesSound' /\ OneAtATime' /\ RetriedFew' /\ RefusedOnce'
  <2>0. Running
    BY <1>8 DEF IInv
  <2>1. Accepted' = Accepted
    BY DEF Accepted, AcceptedBy
  <2>2. \A g, h \in Flows : Up(g) /\ Up(h) => ((Fellow(g, h))' <=> Fellow(g, h))
    BY <1>1 DEF Fellow
  <2>3. ASSUME NEW g \in Flows, NEW e, NEW m, Sound(g, e, m) PROVE (Sound(g, e, m))'
    <3>1. OfCACE(m) => Up(g)
      BY <2>3 DEF Sound
    <3>2. Up(g) /\ (\E h \in Flows : Up(h) /\ Fellow(g, h) /\ m.name = OwnName(h)) =>
            (\E h \in Flows : Up(h) /\ Fellow(g, h) /\ m.name = OwnName(h))'
      BY <2>2
    <3> QED
      BY <1>1, <2>1, <2>3, <3>1, <3>2 DEF Sound
  <2>4. MessagesSound'
    BY <2>0, <2>3 DEF Running, MessagesSound
  <2>5. OneAtATime'
    BY <2>0 DEF Running, OneAtATime
  <2>6. RetriedFew'
    BY <2>0, <1>4 DEF Running, RetriedFew
  <2>7. \A g \in Flows : Up(g) => (Fellows(g))' = Fellows(g)
    BY <2>2 DEF Fellows
  <2>8. \A g \in Flows : Up(g) => ((Carries(g))' <=> Carries(g))
    BY DEF Carries
  <2>9. \A g \in Flows : Up(g) => (Carrying(g))' = Carrying(g)
    BY <2>7, <2>8 DEF Carrying, Fellows
  <2>10. RefusedOnce'
    BY <2>0, <1>4, <2>7, <2>9 DEF Running, RefusedOnce
  <2> QED
    BY <2>4, <2>5, <2>6, <2>10
<1> QED
  BY <1>2, <1>3, <1>5, <1>6, <1>7, <1>8

-----------------------------------------------------------------------------
(* The end that asked for a flow starts CACE.                                 *)

LEMMA OneSender ==
    ASSUME NEW S, NEW f \in S, NEW x, NEW y, S \subseteq {x, y}, ~(Cardinality(S) > 1)
    PROVE S = {f}
<1>1. IsFiniteSet({x}) /\ IsFiniteSet({x} \cup {y}) /\ {x} \cup {y} = {x, y}
  BY FS_Singleton, FS_AddElement
<1>2. IsFiniteSet(S)
  <2>1. IsFiniteSet({x, y})
    BY <1>1
  <2>2. S \in SUBSET {x, y}
    OBVIOUS
  <2> QED
    BY <2>1, <2>2, FS_Subset
<1>3. Cardinality(S) \in Nat
  BY <1>2, FS_CardinalityType
<1>4. {f} \in SUBSET S /\ Cardinality({f}) = 1
  BY FS_Singleton
<1>5. Cardinality({f}) <= Cardinality(S) /\ (Cardinality(S) = Cardinality({f}) => S = {f})
  BY <1>2, <1>4, FS_Subset
<1> QED
  BY <1>3, <1>4, <1>5

LEMMA TheirsMutual ==
    ASSUME Types, Stages, NEW f \in Flows, NEW g \in Flows, alloc[f] # "none", Up(g), NEW row
    PROVE /\ Mine(g, Src(f), row) /\ Of(row, Dst(f), AskedName(f)) => Fellow(f, g)
          /\ Theirs(g, Src(f), row) /\ Of(row, Dst(f), AskedName(f)) =>
                f \in APs /\ g \in APs /\ enrollTo[f] = g /\ enrollTo[g] = f
<1>1. /\ IsMgmt(g) => g \in APs /\ Src(g) = g /\ Dst(g) = enrollTo[g]
                          /\ AskedName(g) = "mgmt_0" /\ OwnName(g) = mgmtName[g]
      /\ ~IsMgmt(g) => g \in Requests /\ AskedName(g) = "ae_any" /\ OwnName(g) = g
  BY Kinds
<1>2. /\ IsMgmt(f) => f \in APs /\ Src(f) = f /\ Dst(f) = enrollTo[f]
                          /\ AskedName(f) = "mgmt_0" /\ OwnName(f) = mgmtName[f]
      /\ ~IsMgmt(f) => f \in Requests /\ AskedName(f) = "ae_any" /\ OwnName(f) = f
  BY Kinds
<1>3. ASSUME Mine(g, Src(f), row), Of(row, Dst(f), AskedName(f)) PROVE Fellow(f, g)
  BY <1>3, <1>1, <1>2 DEF Mine, Of, Fellow
<1>4. ASSUME Theirs(g, Src(f), row), Of(row, Dst(f), AskedName(f))
      PROVE  f \in APs /\ g \in APs /\ enrollTo[f] = g /\ enrollTo[g] = f
  <2>1. OwnName(g) = AskedName(f) /\ Src(g) = Dst(f) /\ Dst(g) = Src(f)
    BY <1>4 DEF Theirs, Of
  <2>2. IsMgmt(g)
    <3>1. CASE ~IsMgmt(g)
      BY <3>1, <2>1, <1>1, <1>2, Apart
    <3> QED
      BY <3>1
  <2>3. OwnName(g) \in MgmtNames
    BY <2>2, EndsOf DEF Up
  <2>4. IsMgmt(f)
    <3>1. CASE ~IsMgmt(f)
      BY <3>1, <2>1, <1>2, <2>3 DEF MgmtNames
    <3> QED
      BY <3>1
  <2> QED
    BY <2>1, <2>2, <2>4, <1>1, <1>2
<1> QED
  BY <1>3, <1>4

NewRowOf(f) == NewRow(Dst(f), AskedName(f), OwnName(f), "AUTHENTICATING")
Started(f) == Append(StateTable[Src(f)], NewRowOf(f))

\* The flow f is up, and a connect request that names the row at n goes out on ports.
Starts(f, n, ports) ==
    /\ f \in Flows /\ alloc[f] = "accepted" /\ ~aborted
    /\ alloc' = [alloc EXCEPT ![f] = "up"]
    /\ Fixed
    /\ StateTable' = [StateTable EXCEPT ![Src(f)] = Started(f)]
    /\ n = FindEntryByDstAPNI(Started(f), Dst(f), AskedName(f))
    /\ chan' = Sent(chan, ports, Src(f), <<Msg("M_CONNECT", Started(f)[n].local)>>)
    /\ ports \subseteq Flows /\ \A g \in ports : Peer(g, Src(f)) \in APs
    /\ ~aborted' => /\ ports \subseteq {f}
                    /\ ~ \E g \in APs : f \in APs /\ Up(g) /\ enrollTo[f] = g /\ enrollTo[g] = f

LEMMA PositiveStarts ==
    ASSUME IInv, ~aborted, NEW f \in Flows, ReceiveAllocationResponsePositive(f)
    PROVE \E n, ports : Starts(f, n, ports)
<1> DEFINE i == Src(f)
           S == (Senders(f, i))'
           P == (Ports(f, i))'
           n == FindEntryByDstAPNI(Started(f), Dst(f), AskedName(f))
           out == <<Msg("M_CONNECT", Started(f)[n].local)>>
<1>1. /\ alloc[f] = "accepted" /\ alloc' = [alloc EXCEPT ![f] = "up"]
      /\ plan' = plan /\ refusing' = refusing /\ enrollTo' = enrollTo /\ mgmtName' = mgmtName
      /\ StartCACE(f)
  BY DEF ReceiveAllocationResponsePositive, rigid
<1>2. /\ NewRowOf(f).ap = Dst(f) /\ NewRowOf(f).name = AskedName(f)
  BY DEF NewRowOf, NewRow
<1>3. /\ StateTable' = [StateTable EXCEPT ![i] = Started(f)]
      /\ chan' = Sent(chan, P, i, out)
      /\ aborted' = Fatal(S, out)
  BY <1>1, <1>2 DEF StartCACE, Started, NewRowOf
<1>4. /\ Src(f) \in APs /\ Dst(f) \in APs /\ Src(f) # Dst(f)
  BY <1>1, EndsOf DEF IInv
<1>5. Fixed
  BY <1>1 DEF Fixed
<1>6. \A g : (Src(g))' = Src(g) /\ (Dst(g))' = Dst(g) /\ (IsMgmt(g))' = IsMgmt(g)
  BY <1>5, FixedEnds
<1>7. alloc'[f] = "up" /\ \A g \in Flows : g # f => alloc'[g] = alloc[g]
  BY <1>1 DEF IInv, Types
<1>8. ASSUME NEW g \in Flows, (Arrived(g, i))'
      PROVE  Peer(g, i) \in APs /\ (Peer(g, i))' = Peer(g, i)
  <2>1. (Peer(g, i))' = Peer(g, i)
    BY <1>6 DEF Peer
  <2>2. CASE g = f
    BY <2>1, <2>2, <1>4 DEF Peer
  <2>3. CASE g # f
    <3>1. Arrived(g, i)
      BY <1>6, <1>7, <1>8, <2>3 DEF Arrived
    <3> QED
      BY <1>4, <2>1, <3>1, ArrivedEnd DEF IInv
  <2> QED
    BY <2>2, <2>3
<1>9. (Arrived(f, i))'
  BY <1>6, <1>7 DEF Arrived
<1>10. IsMgmt(f) => S = {g \in APs : (Arrived(g, i))' /\ (Peer(g, i))' = (Peer(f, i))'}
  BY <1>6 DEF Senders
<1>11. ~IsMgmt(f) => S = {f}
  BY <1>6 DEF Senders
<1>12. \A g \in APs : g \in Flows
  BY DEF Flows
<1>13. f \in S /\ P \subseteq S
  BY <1>9, <1>10, <1>11 DEF Ports, IsMgmt
<1>14. \A g \in S : g \in Flows /\ (Arrived(g, i))'
  BY <1>9, <1>10, <1>11, <1>12
<1>15. P \subseteq Flows /\ \A g \in P : Peer(g, i) \in APs
  BY <1>8, <1>13, <1>14
<1>16. ASSUME ~aborted' PROVE S = {f}
  <2>1. CASE ~IsMgmt(f)
    BY <2>1, <1>11
  <2>2. CASE IsMgmt(f)
    <3>1. DOMAIN out = {1} /\ OfCACE(out[1])
      BY DEF Msg, OfCACE
    <3> HIDE DEF out
    <3>2. ~(Cardinality(S) > 1)
      BY <1>3, <1>16, <3>1 DEF Fatal
    <3>3. \A g \in S : g = i \/ g = Peer(f, i)
      <4>1. ASSUME NEW g \in S PROVE g = i \/ g = Peer(f, i)
        <5>1. g \in APs /\ Peer(g, i) = Peer(f, i)
          BY <1>8, <1>9, <1>10, <1>12, <2>2
        <5>2. Src(g) = g
          BY <5>1 DEF Src, IsMgmt
        <5> QED
          BY <5>1, <5>2 DEF Peer
      <4> QED
        BY <4>1
    <3>4. S \subseteq {i, Peer(f, i)}
      BY <3>3
    <3> HIDE DEF S
    <3> QED
      BY <1>13, <3>2, <3>4, OneSender
  <2> QED
    BY <2>1, <2>2
<1>17. ASSUME ~aborted', NEW g \in APs, f \in APs, Up(g), enrollTo[f] = g, enrollTo[g] = f
       PROVE  FALSE
  <2>1. IsMgmt(f) /\ Src(f) = f /\ Dst(f) = g /\ Src(g) = g /\ Dst(g) = f
    BY <1>17 DEF Src, Dst, IsMgmt
  <2>2. g # f
    BY <1>4, <2>1
  <2>3. (Arrived(g, i))'
    BY <1>6, <1>7, <1>12, <1>17, <2>1, <2>2 DEF Arrived, Up
  <2>4. (Peer(g, i))' = g /\ (Peer(f, i))' = g
    BY <1>6, <2>1, <2>2 DEF Peer
  <2>5. g \in S
    BY <1>10, <2>1, <2>3, <2>4
  <2> QED
    BY <1>16, <1>17, <2>2, <2>5
<1>18. Starts(f, n, P)
  <2>1. P \subseteq S
    BY <1>13
  <2>2. ~aborted' => P \subseteq {f}
    BY <2>1, <1>16
  <2> HIDE DEF S, P
  <2> QED
    BY <1>1, <1>3, <1>5, <1>15, <1>17, <2>2 DEF Starts
<1> QED
  BY <1>18

LEMMA StartsMoves ==
    ASSUME IInv, NEW f, NEW n, NEW ports, Starts(f, n, ports)
    PROVE /\ f \in Flows /\ Src(f) \in APs /\ Dst(f) \in APs /\ Src(f) # Dst(f)
          /\ NewRowOf(f) \in Row /\ NewRowOf(f).retries = 0
          /\ Mine(f, Src(f), NewRowOf(f)) /\ Of(NewRowOf(f), Dst(f), AskedName(f))
          /\ StateTable \in [APs -> Seq(Row)] /\ StateTable' \in [APs -> Seq(Row)]
          /\ StateTable'[Src(f)] = Started(f)
          /\ \A j \in APs : j # Src(f) => StateTable'[j] = StateTable[j]
          /\ \A j \in APs : Evolves(StateTable[j], StateTable'[j])
          /\ \A k \in DOMAIN StateTable[Src(f)] : Started(f)[k] = StateTable[Src(f)][k]
          /\ \A k \in DOMAIN Started(f) :
                k \in DOMAIN StateTable[Src(f)] \/ Started(f)[k] = NewRowOf(f)
          /\ n \in DOMAIN Started(f) /\ Of(Started(f)[n], Dst(f), AskedName(f))
          /\ Started(f)[n] \in Row
          /\ ~Up(f) /\ \A g \in Flows : (Up(g))' <=> Up(g) \/ g = f
<1> DEFINE i == Src(f)
           t == StateTable[i]
           r == NewRowOf(f)
<1>1. /\ f \in Flows /\ alloc[f] = "accepted" /\ alloc' = [alloc EXCEPT ![f] = "up"]
      /\ StateTable' = [StateTable EXCEPT ![i] = Started(f)]
      /\ n = FindEntryByDstAPNI(Started(f), Dst(f), AskedName(f))
  BY DEF Starts
<1>2. /\ Src(f) \in APs /\ Dst(f) \in APs /\ Src(f) # Dst(f)
      /\ OwnName(f) \in Names /\ AskedName(f) \in Names
  BY <1>1, EndsOf DEF IInv
<1>3. /\ r \in Row /\ r.retries = 0 /\ Mine(f, i, r) /\ Of(r, Dst(f), AskedName(f))
  BY <1>2 DEF NewRowOf, NewRow, Row, ConStatus, EnrollStatus, Mine, Of
<1>4. StateTable \in [APs -> Seq(Row)] /\ alloc \in [Flows -> {"none", "asked", "accepted", "up", "failed"}]
  BY DEF IInv, Types
<1>5. t \in Seq(Row)
  BY <1>2, <1>4
<1> HIDE DEF r
<1>6. /\ Append(t, r) \in Seq(Row)
      /\ \A k \in DOMAIN t : Append(t, r)[k] = t[k]
      /\ Append(t, r)[Len(t) + 1] = r
      /\ DOMAIN Append(t, r) = DOMAIN t \cup {Len(t) + 1}
      /\ Evolves(t, Append(t, r))
  BY <1>3, <1>5, AppendRow
<1>7. Started(f) = Append(t, r)
  BY DEF Started, r
<1> DEFINE u == Started(f)
<1>8. /\ u \in Seq(Row) /\ \A k \in DOMAIN t : u[k] = t[k]
      /\ \A k \in DOMAIN u : k \in DOMAIN t \/ u[k] = r
      /\ Evolves(t, u) /\ Len(t) + 1 \in DOMAIN u /\ u[Len(t) + 1] = r
  BY <1>6, <1>7
<1> HIDE DEF u
<1>9. n \in DOMAIN u /\ Of(u[n], Dst(f), AskedName(f))
  <2>1. /\ n = 0 \/ n \in DOMAIN u
        /\ n \in DOMAIN u => Of(u[n], Dst(f), AskedName(f))
        /\ \A k \in DOMAIN u : Of(u[k], Dst(f), AskedName(f)) => n # 0 /\ n <= k
    BY <1>1, <1>8, FindFirst DEF u
  <2> QED
    BY <2>1, <1>3, <1>8
<1>10. u[n] \in Row
  BY <1>8, <1>9, ElementOfSeq
<1>11. /\ StateTable' \in [APs -> Seq(Row)] /\ StateTable'[i] = u
       /\ \A j \in APs : j # i => StateTable'[j] = StateTable[j]
  <2>1. StateTable' = [StateTable EXCEPT ![i] = u]
    BY <1>1 DEF u
  <2> QED
    BY <2>1, <1>2, <1>4, <1>8
<1>12. \A j \in APs : Evolves(StateTable[j], StateTable'[j])
  <2>1. \A j \in APs : j # i => Evolves(StateTable[j], StateTable'[j])
    BY <1>11 DEF Evolves
  <2> QED
    BY <2>1, <1>8, <1>11
<1>13. ~Up(f) /\ \A g \in Flows : (Up(g))' <=> Up(g) \/ g = f
  BY <1>1, <1>4 DEF Up
<1> QED
  BY <1>1, <1>2, <1>3, <1>4, <1>8, <1>9, <1>10, <1>11, <1>12, <1>13 DEF u, r

Request(f, n) == <<Msg("M_CONNECT", Started(f)[n].local)>>

LEMMA StartsSends ==
    ASSUME IInv, NEW f, NEW n, NEW ports, Starts(f, n, ports)
    PROVE /\ chan' \in [Flows -> [APs -> Seq(Message)]] /\ chan \in [Flows -> [APs -> Seq(Message)]]
          /\ Request(f, n) \in Seq(Message) /\ Len(Request(f, n)) = 1
          /\ Request(f, n)[1] = Msg("M_CONNECT", Started(f)[n].local)
          /\ \A g \in Flows, e \in APs :
                chan'[g][e] = Got(chan, ports, Src(f), Request(f, n), g, e)
<1>1. Started(f)[n].local \in Names
  BY StartsMoves DEF Row
<1>2. Request(f, n) \in Seq(Message) /\ Len(Request(f, n)) = 1
      /\ Request(f, n)[1] = Msg("M_CONNECT", Started(f)[n].local)
  BY <1>1 DEF Request, Msg, Message, MessageType
<1>3. /\ ports \in SUBSET Flows /\ \A g \in ports : Peer(g, Src(f)) \in APs
      /\ chan' = Sent(chan, ports, Src(f), Request(f, n))
  BY DEF Starts, Request
<1>4. chan \in [Flows -> [APs -> Seq(Message)]]
  BY DEF IInv, Types
<1> DEFINE out == Request(f, n)
<1> HIDE DEF out
<1>5. /\ Sent(chan, ports, Src(f), out) \in [Flows -> [APs -> Seq(Message)]]
      /\ \A g \in Flows, e \in APs :
            Sent(chan, ports, Src(f), out)[g][e] = Got(chan, ports, Src(f), out, g, e)
  BY <1>2, <1>3, <1>4, SentAt DEF out
<1> QED
  BY <1>2, <1>3, <1>4, <1>5 DEF out

LEMMA StartsRows ==
    ASSUME IInv, NEW f, NEW n, NEW ports, Starts(f, n, ports)
    PROVE RowsOfFlows' /\ Asking'
<1>0. Fixed
  BY DEF Starts
<1>1. /\ StateTable'[Src(f)] = Started(f)
      /\ \A j \in APs : j # Src(f) => StateTable'[j] = StateTable[j]
      /\ \A k \in DOMAIN StateTable[Src(f)] : Started(f)[k] = StateTable[Src(f)][k]
      /\ \A k \in DOMAIN Started(f) :
            k \in DOMAIN StateTable[Src(f)] \/ Started(f)[k] = NewRowOf(f)
      /\ n \in DOMAIN Started(f) /\ Of(Started(f)[n], Dst(f), AskedName(f))
      /\ \A g \in Flows : (Up(g))' <=> Up(g) \/ g = f
      /\ Mine(f, Src(f), NewRowOf(f)) /\ f \in Flows /\ Src(f) \in APs
  BY StartsMoves
<1>e. \A g : /\ (Src(g))' = Src(g) /\ (Dst(g))' = Dst(g)
             /\ (AskedName(g))' = AskedName(g) /\ (OwnName(g))' = OwnName(g)
  BY <1>0, FixedEnds
<1>2. ASSUME NEW j \in APs, NEW k \in DOMAIN StateTable'[j]
      PROVE  (Brought(j, StateTable[j][k]))'
  <2>1. PICK g \in Flows :
            (Up(g))' /\ (Mine(g, j, StateTable'[j][k]) \/ Theirs(g, j, StateTable'[j][k]))
    <3>1. CASE k \in DOMAIN StateTable[j]
      <4>1. StateTable'[j][k] = StateTable[j][k]
        BY <1>1, <3>1
      <4>2. Brought(j, StateTable'[j][k])
        BY <3>1, <4>1 DEF IInv, RowsOfFlows
      <4> QED
        BY <1>1, <4>2 DEF Brought
    <3>2. CASE k \notin DOMAIN StateTable[j]
      <4>1. j = Src(f) /\ StateTable'[j][k] = NewRowOf(f)
        BY <1>1, <3>2
      <4>2. Mine(f, j, StateTable'[j][k])
        BY <1>1, <4>1
      <4> QED
        BY <1>1, <4>2
    <3> QED
      BY <3>1, <3>2
  <2>2. (Mine(g, j, StateTable[j][k]))' \/ (Theirs(g, j, StateTable[j][k]))'
    BY <2>1, <1>e DEF Mine, Theirs
  <2> QED
    BY <2>1, <2>2 DEF Brought
<1>3. ASSUME NEW g \in Flows, (Up(g))'
      PROVE  \E k \in DOMAIN StateTable'[Src(g)] : Of(StateTable'[Src(g)][k], Dst(g), AskedName(g))
  <2>1. CASE g = f
    BY <1>1, <2>1
  <2>2. CASE g # f
    <3>1. Up(g) /\ Src(g) \in APs
      BY <1>1, <1>3, <2>2, EndsOf DEF IInv, Up
    <3>2. PICK k \in DOMAIN StateTable[Src(g)] : Of(StateTable[Src(g)][k], Dst(g), AskedName(g))
      BY <3>1 DEF IInv, Asking
    <3>3. Evolves(StateTable[Src(g)], StateTable'[Src(g)])
          /\ StateTable[Src(g)] \in Seq(Row) /\ StateTable'[Src(g)] \in Seq(Row)
      BY <3>1, StartsMoves
    <3>4. k \in DOMAIN StateTable'[Src(g)] /\ Of(StateTable'[Src(g)][k], Dst(g), AskedName(g))
      BY <3>2, <3>3 DEF Evolves, Of
    <3> QED
      BY <3>4
  <2> QED
    BY <2>1, <2>2
<1>4. RowsOfFlows'
  BY <1>2 DEF RowsOfFlows
<1>5. Asking'
  <2>1. ASSUME NEW g \in Flows, (Up(g))'
        PROVE (\E k \in DOMAIN StateTable[Src(g)] :
                 Of(StateTable[Src(g)][k], Dst(g), AskedName(g)))'
    BY <1>3, <1>e, <2>1 DEF Of
  <2> QED
    BY <2>1 DEF Asking
<1> QED
  BY <1>4, <1>5

LEMMA StartsFirst ==
    ASSUME IInv, NEW f, NEW n, NEW ports, Starts(f, n, ports), NEW g \in Flows, Up(g)
    PROVE (FirstAt(g))' = FirstAt(g) /\ (First(g))' = First(g)
          /\ FirstAt(g) \in DOMAIN StateTable[Src(g)] /\ First(g) \in Row
          /\ Of(First(g), Dst(g), AskedName(g)) /\ Src(g) \in APs
<1>0. Fixed
  BY DEF Starts
<1>1. Src(g) \in APs
  BY EndsOf DEF IInv, Up
<1>2. /\ StateTable[Src(g)] \in Seq(Row) /\ StateTable'[Src(g)] \in Seq(Row)
      /\ Evolves(StateTable[Src(g)], StateTable'[Src(g)])
  BY <1>1, StartsMoves
<1>3. \E k \in DOMAIN StateTable[Src(g)] : Of(StateTable[Src(g)][k], Dst(g), AskedName(g))
  BY DEF IInv, Asking
<1>4. FirstAt(g) \in DOMAIN StateTable[Src(g)] /\ Of(First(g), Dst(g), AskedName(g))
  BY <1>2, <1>3, FindFirst DEF FirstAt, First
<1>5. FindEntryByDstAPNI(StateTable'[Src(g)], Dst(g), AskedName(g)) = FirstAt(g)
  BY <1>2, <1>3, FindEvolves DEF FirstAt
<1>6. (Src(g))' = Src(g) /\ (Dst(g))' = Dst(g) /\ (AskedName(g))' = AskedName(g)
  BY <1>0, FixedEnds
<1>7. (FirstAt(g))' = FirstAt(g)
  BY <1>5, <1>6 DEF FirstAt
<1>8. \A k \in DOMAIN StateTable[Src(g)] : StateTable'[Src(g)][k] = StateTable[Src(g)][k]
  BY <1>1, StartsMoves
<1>9. (First(g))' = First(g)
  BY <1>4, <1>6, <1>7, <1>8 DEF First
<1>10. First(g) \in Row
  BY <1>2, <1>4, ElementOfSeq DEF First
<1> QED
  BY <1>1, <1>4, <1>7, <1>9, <1>10

\* What holds after the start whether the simulation has stopped or not.
LEMMA StartsKeeps ==
    ASSUME IInv, NEW f, NEW n, NEW ports, Starts(f, n, ports),
           answers' = answers, reads' = reads, results' = results
    PROVE AnswersKept' /\ RetriesBounded' /\ ReadsCounted'
<1>0. Fixed
  BY DEF Starts
<1>1. AnswersKept'
  <2>1. ASSUME NEW r \in Requests, answers[r] > 0 PROVE (Up(r) /\ First(r).con = "ESTABLISHED")'
    <3>1. r \in Flows /\ Up(r) /\ First(r).con = "ESTABLISHED"
      BY <2>1 DEF IInv, AnswersKept, Flows
    <3>2. (Up(r))'
      BY <3>1, StartsMoves
    <3>3. (First(r))' = First(r)
      BY <3>1, StartsFirst
    <3> QED
      BY <3>1, <3>2, <3>3
  <2> QED
    BY <2>1 DEF AnswersKept
<1>2. RetriesBounded'
  <2>1. MaxRetries \in Nat
    BY Apart, FS_CardinalityType DEF MaxRetries
  <2>2. /\ StateTable'[Src(f)] = Started(f)
        /\ \A j \in APs : j # Src(f) => StateTable'[j] = StateTable[j]
        /\ \A k \in DOMAIN StateTable[Src(f)] : Started(f)[k] = StateTable[Src(f)][k]
        /\ \A k \in DOMAIN Started(f) :
            k \in DOMAIN StateTable[Src(f)] \/ Started(f)[k] = NewRowOf(f)
        /\ NewRowOf(f).retries = 0
    BY StartsMoves
  <2>3. ASSUME NEW j \in APs, NEW k \in DOMAIN StateTable'[j]
        PROVE  StateTable'[j][k].retries <= MaxRetries
    <3>1. CASE k \in DOMAIN StateTable[j]
      <4>1. StateTable'[j][k] = StateTable[j][k]
        BY <2>2, <3>1
      <4> QED
        BY <3>1, <4>1 DEF IInv, RetriesBounded
    <3>2. CASE k \notin DOMAIN StateTable[j]
      <4>1. StateTable'[j][k] = NewRowOf(f)
        BY <2>2, <3>2
      <4> QED
        BY <2>1, <2>2, <4>1
    <3> QED
      BY <3>1, <3>2
  <2> QED
    BY <2>3 DEF RetriesBounded
<1>3. ReadsCounted'
  <2>1. /\ chan \in [Flows -> [APs -> Seq(Message)]]
        /\ Request(f, n) \in Seq(Message) /\ Len(Request(f, n)) = 1
        /\ Request(f, n)[1] = Msg("M_CONNECT", Started(f)[n].local)
        /\ \A g \in Flows, e \in APs :
              chan'[g][e] = Got(chan, ports, Src(f), Request(f, n), g, e)
    BY StartsSends
  <2>2. \A k \in DOMAIN Request(f, n) : Request(f, n)[k].type \notin ReadTypes
    BY <2>1 DEF Msg, ReadTypes
  <2>3. ASSUME NEW g \in Flows, NEW e \in APs
        PROVE  Count(chan'[g][e], ReadTypes) = Count(chan[g][e], ReadTypes)
    <3> DEFINE out == Request(f, n)
               s == chan[g][e]
    <3>1. s \in Seq(Message) /\ out \in Seq(Message)
      BY <2>1
    <3>2. chan'[g][e] = s \o out \/ chan'[g][e] = s
      BY <2>1 DEF Got
    <3>3. \A k \in DOMAIN out : out[k].type \notin ReadTypes
      BY <2>2
    <3> HIDE DEF out, s
    <3>4. Count(s \o out, ReadTypes) = Count(s, ReadTypes)
      BY <3>1, <3>3, CountSent
    <3>5. Count(chan'[g][e], ReadTypes) = Count(s, ReadTypes)
      BY <3>2, <3>4
    <3> QED
      BY <3>5 DEF s
  <2>4. ASSUME NEW r \in Requests
        PROVE (results[r] + Count(chan[r][Src(r)], ReadTypes)
                  + Count(chan[r][Dst(r)], ReadTypes) <= reads[r])'
    <3>1. r \in Flows /\ ~IsMgmt(r) /\ Src(r) = plan[r].from /\ Dst(r) = plan[r].to
      BY Apart, Kinds DEF Flows, IsMgmt
    <3>2. Src(r) \in APs /\ Dst(r) \in APs
      BY <3>1 DEF IInv, Types
    <3>3. (Src(r))' = Src(r) /\ (Dst(r))' = Dst(r)
      BY <1>0, FixedEnds
    <3>4. results[r] + Count(chan[r][Src(r)], ReadTypes) + Count(chan[r][Dst(r)], ReadTypes)
              <= reads[r]
      BY DEF IInv, ReadsCounted
    <3>5. /\ Count(chan'[r][Src(r)], ReadTypes) = Count(chan[r][Src(r)], ReadTypes)
          /\ Count(chan'[r][Dst(r)], ReadTypes) = Count(chan[r][Dst(r)], ReadTypes)
      BY <2>3, <3>1, <3>2
    <3> QED
      BY <3>3, <3>4, <3>5
  <2> QED
    BY <2>4 DEF ReadsCounted
<1> QED
  BY <1>1, <1>2, <1>3

\* What the row that the request names brought with it, when the simulation goes on.
LEMMA StartsRow ==
    ASSUME IInv, Running, NEW f, NEW n, NEW ports, Starts(f, n, ports), ~aborted'
    PROVE \/ n \notin DOMAIN StateTable[Src(f)] /\ Started(f)[n] = NewRowOf(f)
          \/ \E g \in Flows : /\ Up(g) /\ Fellow(f, g) /\ Started(f)[n].local = OwnName(g)
                              /\ Started(f)[n] = First(g)
<1>1. /\ f \in Flows /\ Src(f) \in APs
      /\ \A k \in DOMAIN StateTable[Src(f)] : Started(f)[k] = StateTable[Src(f)][k]
      /\ \A k \in DOMAIN Started(f) :
            k \in DOMAIN StateTable[Src(f)] \/ Started(f)[k] = NewRowOf(f)
      /\ n \in DOMAIN Started(f) /\ Of(Started(f)[n], Dst(f), AskedName(f))
      /\ StateTable'[Src(f)] = Started(f)
      /\ StateTable[Src(f)] \in Seq(Row) /\ StateTable'[Src(f)] \in Seq(Row)
      /\ Evolves(StateTable[Src(f)], StateTable'[Src(f)])
  BY StartsMoves
<1>2. CASE n \notin DOMAIN StateTable[Src(f)]
  BY <1>1, <1>2
<1>3. CASE n \in DOMAIN StateTable[Src(f)]
  <2> DEFINE row == StateTable[Src(f)][n]
  <2>1. row = Started(f)[n] /\ Of(row, Dst(f), AskedName(f))
    BY <1>1, <1>3
  <2>2. PICK g \in Flows : Up(g) /\ (Mine(g, Src(f), row) \/ Theirs(g, Src(f), row))
    BY <1>1, <1>3 DEF IInv, RowsOfFlows, Brought
  <2> HIDE DEF row
  <2>3. alloc[f] # "none"
    BY DEF Starts
  <2>4. /\ Mine(g, Src(f), row) => Fellow(f, g)
        /\ Theirs(g, Src(f), row) => f \in APs /\ g \in APs /\ enrollTo[f] = g /\ enrollTo[g] = f
    BY <1>1, <2>1, <2>2, <2>3, TheirsMutual DEF IInv
  <2>5. ~Theirs(g, Src(f), row)
    BY <2>2, <2>4 DEF Starts
  <2>6. Fellow(f, g) /\ row.local = OwnName(g)
    BY <2>2, <2>4, <2>5 DEF Mine
  <2>7. Src(g) = Src(f) /\ Dst(g) = Dst(f) /\ AskedName(g) = AskedName(f)
    BY <2>6 DEF Fellow, AskedName
  <2>8. \E k \in DOMAIN StateTable[Src(f)] :
            Of(StateTable[Src(f)][k], Dst(f), AskedName(f))
    BY <1>3, <2>1 DEF row
  <2>9. FindEntryByDstAPNI(StateTable'[Src(f)], Dst(f), AskedName(f))
            = FindEntryByDstAPNI(StateTable[Src(f)], Dst(f), AskedName(f))
    BY <1>1, <2>8, FindEvolves
  <2>10. n = FindEntryByDstAPNI(Started(f), Dst(f), AskedName(f))
    BY DEF Starts
  <2>11. FirstAt(g) = n
    BY <1>1, <2>7, <2>9, <2>10 DEF FirstAt
  <2>12. Started(f)[n] = First(g)
    BY <2>1, <2>7, <2>11 DEF First, row
  <2> QED
    BY <2>1, <2>2, <2>6, <2>12
<1> QED
  BY <1>2, <1>3

LEMMA StartsAccepted ==
    ASSUME IInv, NEW f, NEW n, NEW ports, Starts(f, n, ports)
    PROVE Accepted' = Accepted
<1>1. /\ \A j \in APs : j # Src(f) => StateTable'[j] = StateTable[j]
      /\ StateTable'[Src(f)] = Started(f)
      /\ \A k \in DOMAIN StateTable[Src(f)] : Started(f)[k] = StateTable[Src(f)][k]
      /\ \A k \in DOMAIN Started(f) :
            k \in DOMAIN StateTable[Src(f)] \/ Started(f)[k] = NewRowOf(f)
      /\ \A j \in APs : Evolves(StateTable[j], StateTable'[j])
      /\ \A j \in APs : StateTable[j] \in Seq(Row) /\ StateTable'[j] \in Seq(Row)
  BY StartsMoves
<1>2. NewRowOf(f).con # "ESTABLISHED"
  BY DEF NewRowOf, NewRow
<1>3. ASSUME NEW j \in APs, NEW c PROVE c \in (AcceptedBy(j))' <=> c \in AcceptedBy(j)
  <2>1. c \in (AcceptedBy(j))' <=>
            \E k \in DOMAIN StateTable'[j] :
                /\ StateTable'[j][k].name \in Requests /\ StateTable'[j][k].con = "ESTABLISHED"
                /\ c = [from |-> StateTable'[j][k].ap, to |-> j]
    BY DEF AcceptedBy
  <2>2. \A k \in DOMAIN StateTable'[j] : StateTable'[j][k].con = "ESTABLISHED" =>
            k \in DOMAIN StateTable[j] /\ StateTable'[j][k] = StateTable[j][k]
    BY <1>1, <1>2
  <2>3. \A k \in DOMAIN StateTable[j] : k \in DOMAIN StateTable'[j]
            /\ StateTable'[j][k] = StateTable[j][k]
    <3>1. \A k \in DOMAIN StateTable[j] : k \in DOMAIN StateTable'[j]
      BY <1>1 DEF Evolves
    <3> QED
      BY <1>1, <3>1
  <2>4. (\E k \in DOMAIN StateTable'[j] :
                /\ StateTable'[j][k].name \in Requests /\ StateTable'[j][k].con = "ESTABLISHED"
                /\ c = [from |-> StateTable'[j][k].ap, to |-> j])
        <=> (\E k \in DOMAIN StateTable[j] :
                /\ StateTable[j][k].name \in Requests /\ StateTable[j][k].con = "ESTABLISHED"
                /\ c = [from |-> StateTable[j][k].ap, to |-> j])
    BY <2>2, <2>3
  <2> QED
    BY <2>1, <2>4, AcceptedByAre
<1> QED
  BY <1>3 DEF Accepted

LEMMA StartsMessages ==
    ASSUME IInv, Running, NEW f, NEW n, NEW ports, Starts(f, n, ports), ~aborted'
    PROVE MessagesSound'
<1>0. Fixed /\ ports \subseteq {f}
  BY DEF Starts
<1>1. /\ f \in Flows /\ Src(f) \in APs /\ Dst(f) \in APs /\ Src(f) # Dst(f)
      /\ ~Up(f) /\ \A g \in Flows : (Up(g))' <=> Up(g) \/ g = f
  BY StartsMoves
<1>2. Accepted' = Accepted
  BY StartsAccepted
<1>3. ASSUME NEW g \in Flows, NEW e, NEW m, Sound(g, e, m) PROVE (Sound(g, e, m))'
  <2>1. /\ (IsMgmt(g))' = IsMgmt(g) /\ (Src(g))' = Src(g) /\ (Dst(g))' = Dst(g)
        /\ (AskedName(g))' = AskedName(g)
    BY <1>0, FixedEnds
  <2>2. (\E h \in Flows : Up(h) /\ Fellow(g, h) /\ m.name = OwnName(h)) =>
            (\E h \in Flows : Up(h) /\ Fellow(g, h) /\ m.name = OwnName(h))'
    BY <1>0, <1>1, FixedEnds DEF Fellow
  <2>3. plan'[g] = plan[g]
    BY <1>0 DEF Fixed
  <2>4. Up(g) => (Up(g))'
    BY <1>1
  <2> QED
    BY <1>2, <1>3, <2>1, <2>2, <2>3, <2>4 DEF Sound
<1>4. ASSUME NEW m, m = Request(f, n)[1], NEW e, e = Dst(f) PROVE (Sound(f, e, m))'
  <2>0. m = Msg("M_CONNECT", Started(f)[n].local)
    BY <1>4, StartsSends
  <2>1. m.type = "M_CONNECT" /\ m.name = Started(f)[n].local
    BY <2>0 DEF Msg
  <2>2. \E g \in Flows : (Up(g))' /\ Fellow(f, g) /\ m.name = OwnName(g)
    <3>1. CASE Started(f)[n] = NewRowOf(f)
      <4>1. m.name = OwnName(f)
        BY <2>1, <3>1 DEF NewRowOf, NewRow
      <4> QED
        BY <1>1, <4>1 DEF Fellow
    <3>2. CASE \E g \in Flows : /\ Up(g) /\ Fellow(f, g) /\ Started(f)[n].local = OwnName(g)
                              /\ Started(f)[n] = First(g)
      BY <1>1, <2>1, <3>2
    <3> QED
      BY <3>1, <3>2, StartsRow
  <2>3. \E g \in Flows : (Up(g) /\ Fellow(f, g) /\ m.name = OwnName(g))'
    BY <1>0, <2>2, FixedEnds DEF Fellow
  <2>4. (Up(f))' /\ (Dst(f))' = e
    BY <1>0, <1>1, <1>4, FixedEnds
  <2> QED
    BY <2>1, <2>3, <2>4 DEF Sound, Answer
<1>5. /\ \A g \in Flows, e \in APs :
            chan'[g][e] = Got(chan, ports, Src(f), Request(f, n), g, e)
      /\ Request(f, n) \in Seq(Message) /\ Len(Request(f, n)) = 1
      /\ chan \in [Flows -> [APs -> Seq(Message)]]
  BY StartsSends
<1>6. ASSUME NEW g \in Flows, NEW e \in APs, NEW k \in DOMAIN chan'[g][e]
      PROVE  (Sound(g, e, chan[g][e][k]))'
  <2> DEFINE s == chan[g][e]
             out == Request(f, n)
  <2>a. s \in Seq(Message) /\ out \in Seq(Message) /\ Len(out) = 1
    BY <1>5
  <2>1. ASSUME k \in DOMAIN s, chan'[g][e][k] = s[k] PROVE (Sound(g, e, chan[g][e][k]))'
    <3>1. PICK m : m = s[k]
      OBVIOUS
    <3>2. Sound(g, e, m)
      BY <2>1, <3>1 DEF Running, MessagesSound
    <3>3. (Sound(g, e, m))'
      BY <1>3, <3>2
    <3>4. chan'[g][e][k] = m
      BY <2>1, <3>1
    <3> QED
      BY <3>3, <3>4
  <2>2. CASE g \in ports /\ e = Peer(g, Src(f))
    <3>1. g = f /\ e = Dst(f)
      BY <1>0, <2>2 DEF Peer
    <3>2. chan'[g][e] = s \o out
      BY <1>5, <2>2 DEF Got
    <3> HIDE DEF s, out
    <3>3. /\ s \o out \in Seq(Message) /\ Len(s \o out) = Len(s) + Len(out)
          /\ \A j \in 1 .. Len(s) + Len(out) :
                (s \o out)[j] = IF j <= Len(s) THEN s[j] ELSE out[j - Len(s)]
      BY <2>a, ConcatProperties
    <3>4. k \in 1 .. Len(s) + 1 /\ Len(s) \in Nat
      BY <2>a, <3>2, <3>3
    <3>5. CASE k <= Len(s)
      BY <2>a, <2>1, <3>2, <3>3, <3>4, <3>5
    <3>6. CASE ~(k <= Len(s))
      <4>1. chan'[g][e][k] = out[1]
        BY <2>a, <3>2, <3>3, <3>4, <3>6
      <4>2. PICK m : m = out[1]
        OBVIOUS
      <4>3. (Sound(f, e, m))'
        BY <1>4, <3>1, <4>2 DEF out
      <4>4. chan'[g][e][k] = m
        BY <4>1, <4>2
      <4>5. (Sound(g, e, m))'
        BY <3>1, <4>3
      <4> QED
        BY <4>4, <4>5
    <3> QED
      BY <3>5, <3>6
  <2>3. CASE ~(g \in ports /\ e = Peer(g, Src(f)))
    <3>1. chan'[g][e] = s
      BY <1>5, <2>3 DEF Got
    <3> QED
      BY <2>1, <3>1
  <2> QED
    BY <2>2, <2>3
<1> QED
  BY <1>6 DEF MessagesSound

LEMMA StartsNotBoth ==
    ASSUME IInv, Running, NEW f, NEW n, NEW ports, Starts(f, n, ports), ~aborted'
    PROVE NotBoth'
<1>1. /\ f \in Flows /\ \A g \in Flows : (Up(g))' <=> Up(g) \/ g = f
      /\ Src(f) # Dst(f)
  BY StartsMoves
<1>2. \A g \in APs : g \in Flows
  BY DEF Flows
<1>3. enrollTo' = enrollTo
  BY DEF Starts, Fixed
<1>4. f \in APs => enrollTo[f] # f
  BY <1>1 DEF Src, Dst, IsMgmt
<1>5. ~ \E g \in APs : f \in APs /\ Up(g) /\ enrollTo[f] = g /\ enrollTo[g] = f
  BY DEF Starts
<1>6. ASSUME NEW a \in APs, NEW b \in APs, (Up(a))', (Up(b))', enrollTo[a] = b, enrollTo[b] = a
      PROVE  FALSE
  BY <1>1, <1>2, <1>4, <1>5, <1>6 DEF Running, NotBoth
<1> QED
  BY <1>3, <1>6 DEF NotBoth

LEMMA StartsOneAtATime ==
    ASSUME IInv, Running, NEW f, NEW n, NEW ports, Starts(f, n, ports), ~aborted'
    PROVE OneAtATime'
<1>0. Fixed /\ ports \subseteq {f}
  BY DEF Starts
<1>1. /\ f \in Flows /\ Src(f) \in APs /\ Dst(f) \in APs /\ Src(f) # Dst(f)
      /\ ~Up(f) /\ \A g \in Flows : (Up(g))' <=> Up(g) \/ g = f
  BY StartsMoves
<1>2. /\ \A g \in Flows, e \in APs :
            chan'[g][e] = Got(chan, ports, Src(f), Request(f, n), g, e)
      /\ Request(f, n) \in Seq(Message) /\ Len(Request(f, n)) = 1
      /\ chan \in [Flows -> [APs -> Seq(Message)]]
  BY StartsSends
<1>3. ASSUME NEW g \in Flows, (Up(g))'
      PROVE  Count(chan'[g][Src(g)], CACETypes) + Count(chan'[g][Dst(g)], CACETypes) <= 1
  <2>1. CASE g # f
    <3>1. Up(g) /\ Src(g) \in APs /\ Dst(g) \in APs
      BY <1>1, <1>3, <2>1, EndsOf DEF IInv, Up
    <3>2. chan'[g][Src(g)] = chan[g][Src(g)] /\ chan'[g][Dst(g)] = chan[g][Dst(g)]
      BY <1>0, <1>2, <2>1, <3>1 DEF Got
    <3> QED
      BY <3>1, <3>2 DEF Running, OneAtATime
  <2>2. CASE g = f
    <3> DEFINE S == Src(f)
               D == Dst(f)
               out == Request(f, n)
    <3>1. \A e \in APs : \A k \in DOMAIN chan[f][e] : chan[f][e][k].type \notin CACETypes
      BY <1>1 DEF Running, MessagesSound, Sound, OfCACE, CACETypes
    <3>2. chan[f][S] \in Seq(Message) /\ chan[f][D] \in Seq(Message) /\ out \in Seq(Message)
          /\ Len(out) = 1
      BY <1>1, <1>2
    <3>3. Count(chan[f][S], CACETypes) = 0 /\ Count(chan[f][D], CACETypes) = 0
      BY <1>1, <3>1, <3>2, CountType
    <3>4. /\ chan'[f][S] = chan[f][S]
          /\ chan'[f][D] = chan[f][D] \o out \/ chan'[f][D] = chan[f][D]
      BY <1>1, <1>2 DEF Got, Peer
    <3>5. Count(chan[f][D] \o out, CACETypes) <= Count(chan[f][D], CACETypes) + 1
          /\ Count(chan[f][D] \o out, CACETypes) \in Nat
      BY <3>2, CountSent, CountType, ConcatProperties
    <3> HIDE DEF S, D, out
    <3>7. Count(chan'[f][S], CACETypes) = 0
      BY <3>3, <3>4
    <3>8. \/ Count(chan'[f][D], CACETypes) = 0
          \/ Count(chan'[f][D], CACETypes) = Count(chan[f][D] \o out, CACETypes)
      BY <3>3, <3>4
    <3>6. Count(chan'[f][S], CACETypes) + Count(chan'[f][D], CACETypes) <= 1
      BY <3>3, <3>5, <3>7, <3>8
    <3> QED
      BY <2>2, <3>6 DEF S, D
  <2> QED
    BY <2>1, <2>2
<1>4. ASSUME NEW g \in Flows, (Up(g))'
      PROVE  (Count(chan[g][Src(g)], CACETypes) + Count(chan[g][Dst(g)], CACETypes) <= 1)'
  <2>1. (Src(g))' = Src(g) /\ (Dst(g))' = Dst(g)
    BY <1>0, FixedEnds
  <2> QED
    BY <1>3, <1>4, <2>1
<1> QED
  BY <1>4 DEF OneAtATime

\* Nothing at the other end is named after a flow that has not been up.
LEMMA StartsUnnamed ==
    ASSUME IInv, Running, NEW f, NEW n, NEW ports, Starts(f, n, ports), ~aborted',
           NEW k \in DOMAIN StateTable[Dst(f)]
    PROVE ~Of(StateTable[Dst(f)][k], Src(f), OwnName(f))
<1> DEFINE row == StateTable[Dst(f)][k]
<1>1. /\ f \in Flows /\ Src(f) \in APs /\ Dst(f) \in APs /\ Src(f) # Dst(f) /\ ~Up(f)
  BY StartsMoves
<1>2. PICK g \in Flows : Up(g) /\ (Mine(g, Dst(f), row) \/ Theirs(g, Dst(f), row))
  BY <1>1 DEF IInv, RowsOfFlows, Brought
<1> HIDE DEF row
<1>3. /\ IsMgmt(g) => g \in APs /\ Src(g) = g /\ Dst(g) = enrollTo[g]
                          /\ AskedName(g) = "mgmt_0" /\ OwnName(g) = mgmtName[g]
      /\ ~IsMgmt(g) => g \in Requests /\ AskedName(g) = "ae_any" /\ OwnName(g) = g
  BY Kinds
<1>4. /\ IsMgmt(f) => f \in APs /\ Src(f) = f /\ Dst(f) = enrollTo[f]
                          /\ AskedName(f) = "mgmt_0" /\ OwnName(f) = mgmtName[f]
      /\ ~IsMgmt(f) => f \in Requests /\ AskedName(f) = "ae_any" /\ OwnName(f) = f
  BY <1>1, Kinds
<1>5. (IsMgmt(f) => OwnName(f) \in MgmtNames) /\ (IsMgmt(g) => OwnName(g) \in MgmtNames)
  BY <1>1, <1>2, EndsOf DEF IInv, Up, Starts
<1>6. ASSUME Of(row, Src(f), OwnName(f)) PROVE FALSE
  <2>1. CASE Mine(g, Dst(f), row)
    <3>1. Src(g) = Dst(f) /\ Dst(g) = Src(f) /\ AskedName(g) = OwnName(f)
      BY <1>6, <2>1 DEF Mine, Of
    <3>2. IsMgmt(f)
      BY <1>3, <1>4, <3>1, Apart
    <3>3. IsMgmt(g)
      BY <1>3, <1>5, <3>1, <3>2 DEF MgmtNames
    <3>4. f \in APs /\ g \in APs /\ enrollTo[f] = g /\ enrollTo[g] = f
      BY <1>3, <1>4, <3>1, <3>2, <3>3
    <3> QED
      BY <1>2, <3>4 DEF Starts
  <2>2. CASE Theirs(g, Dst(f), row)
    <3>1. Src(g) = Src(f) /\ OwnName(g) = OwnName(f)
      BY <1>6, <2>2 DEF Theirs, Of
    <3>2. IsMgmt(g) <=> IsMgmt(f)
      BY <1>3, <1>4, <1>5, <3>1, Apart DEF MgmtNames
    <3>3. g = f
      BY <1>3, <1>4, <3>1, <3>2
    <3> QED
      BY <1>1, <1>2, <3>3
  <2> QED
    BY <1>2, <2>1, <2>2
<1> QED
  BY <1>6 DEF row

\* The fellows of a flow gain the one that starts, if it is one.
LEMMA StartsFellows ==
    ASSUME IInv, Running, NEW f, NEW n, NEW ports, Starts(f, n, ports), ~aborted',
           NEW g \in Flows, Up(g), NEW d, d = IF Fellow(g, f) THEN 1 ELSE 0
    PROVE /\ Cardinality((Fellows(g))') = Cardinality(Fellows(g)) + d
          /\ Cardinality((Carrying(g))') <= Cardinality(Carrying(g)) + d
          /\ Cardinality(Fellows(g)) \in Nat /\ Cardinality(Carrying(g)) \in Nat
          /\ Cardinality((Carrying(g))') \in Nat
<1>0. Fixed /\ ports \subseteq {f}
  BY DEF Starts
<1>1. /\ f \in Flows /\ ~Up(f) /\ \A h \in Flows : (Up(h))' <=> Up(h) \/ h = f
  BY StartsMoves
<1>2. /\ IsFiniteSet(Fellows(g)) /\ Cardinality(Fellows(g)) \in Nat
      /\ IsFiniteSet(Carrying(g)) /\ Cardinality(Carrying(g)) \in Nat
  BY FellowsFinite
<1>3. \A h \in Flows : (Fellow(g, h))' <=> Fellow(g, h)
  BY <1>0, FixedEnds DEF Fellow
<1>4. (Fellows(g))' = IF Fellow(g, f) THEN Fellows(g) \cup {f} ELSE Fellows(g)
  BY <1>1, <1>3 DEF Fellows
<1>5. f \notin Fellows(g) /\ f \notin Carrying(g)
  BY <1>1 DEF Fellows, Carrying
<1>6. Cardinality((Fellows(g))') = Cardinality(Fellows(g)) + d
  <2>1. CASE Fellow(g, f)
    BY <1>2, <1>4, <1>5, <2>1, FS_AddElement
  <2>2. CASE ~Fellow(g, f)
    BY <1>2, <1>4, <2>2
  <2> QED
    BY <2>1, <2>2
<1>7. ASSUME NEW h \in Fellows(g) PROVE (Carries(h))' <=> Carries(h)
  <2>1. h \in Flows /\ Up(h) /\ h # f
    BY <1>1, <1>7 DEF Fellows
  <2>2. Dst(h) \in APs /\ (Dst(h))' = Dst(h)
    BY <1>0, <2>1, FixedEnds, EndsOf DEF IInv, Up
  <2>3. chan'[h][Dst(h)] = Got(chan, ports, Src(f), Request(f, n), h, Dst(h))
    BY <2>1, <2>2, StartsSends
  <2>4. chan'[h][Dst(h)] = chan[h][Dst(h)]
    BY <1>0, <2>1, <2>3 DEF Got
  <2> QED
    BY <2>2, <2>4 DEF Carries
<1>8. (Carrying(g))' \in SUBSET (IF Fellow(g, f) THEN Carrying(g) \cup {f} ELSE Carrying(g))
  BY <1>4, <1>7 DEF Carrying
<1>9. /\ Cardinality((Carrying(g))') <= Cardinality(Carrying(g)) + d
      /\ Cardinality((Carrying(g))') \in Nat
  <2>1. CASE Fellow(g, f)
    <3>1. /\ IsFiniteSet(Carrying(g) \cup {f})
          /\ Cardinality(Carrying(g) \cup {f}) = Cardinality(Carrying(g)) + 1
      BY <1>2, <1>5, FS_AddElement
    <3>2. (Carrying(g))' \in SUBSET (Carrying(g) \cup {f})
      BY <1>8, <2>1
    <3>3. /\ IsFiniteSet((Carrying(g))')
          /\ Cardinality((Carrying(g))') <= Cardinality(Carrying(g) \cup {f})
      BY <3>1, <3>2, FS_Subset
    <3>4. Cardinality((Carrying(g))') \in Nat
      BY <3>3, FS_CardinalityType
    <3> QED
      BY <1>2, <2>1, <3>1, <3>3, <3>4
  <2>2. CASE ~Fellow(g, f)
    <3>2. (Carrying(g))' \in SUBSET Carrying(g)
      BY <1>8, <2>2
    <3>3. /\ IsFiniteSet((Carrying(g))')
          /\ Cardinality((Carrying(g))') <= Cardinality(Carrying(g))
      BY <1>2, <3>2, FS_Subset
    <3>4. Cardinality((Carrying(g))') \in Nat
      BY <3>3, FS_CardinalityType
    <3> QED
      BY <1>2, <2>2, <3>3, <3>4
  <2> QED
    BY <2>1, <2>2
<1> QED
  BY <1>2, <1>6, <1>9

LEMMA StartsRefused ==
    ASSUME IInv, Running, NEW f, NEW n, NEW ports, Starts(f, n, ports), ~aborted'
    PROVE RetriedFew' /\ RefusedOnce'
<1>0. Fixed /\ f \in Flows /\ n = FindEntryByDstAPNI(Started(f), Dst(f), AskedName(f))
  BY DEF Starts
<1>1. /\ Src(f) \in APs /\ Dst(f) \in APs /\ Src(f) # Dst(f)
      /\ StateTable'[Src(f)] = Started(f)
      /\ \A j \in APs : j # Src(f) => StateTable'[j] = StateTable[j]
      /\ \A k \in DOMAIN StateTable[Src(f)] : Started(f)[k] = StateTable[Src(f)][k]
      /\ \A k \in DOMAIN Started(f) :
            k \in DOMAIN StateTable[Src(f)] \/ Started(f)[k] = NewRowOf(f)
      /\ \A g \in Flows : (Up(g))' <=> Up(g) \/ g = f
      /\ NewRowOf(f).retries = 0
  BY StartsMoves
<1>e. \A g : /\ (Src(g))' = Src(g) /\ (Dst(g))' = Dst(g)
             /\ (AskedName(g))' = AskedName(g) /\ (OwnName(g))' = OwnName(g)
  BY <1>0, FixedEnds
<1>2. (First(f))' = Started(f)[n]
  BY <1>0, <1>1, <1>e DEF First, FirstAt
<1>3. Started(f)[n].retries \in Nat
  BY StartsMoves DEF Row
<1>4. Started(f)[n].retries <= MaxConRetries
  <2>1. CASE Started(f)[n] = NewRowOf(f)
    BY <1>1, <2>1, Apart
  <2>2. CASE \E g \in Flows : Up(g) /\ Started(f)[n] = First(g)
    BY <2>2 DEF Running, RetriedFew
  <2> QED
    BY <2>1, <2>2, StartsRow
<1>5. ASSUME NEW g \in Flows, Up(g)
      PROVE  (First(g))' = First(g) /\ First(g).retries \in Nat /\ Dst(g) \in APs
  BY <1>5, StartsFirst, EndsOf DEF Row, IInv, Up
<1>6. RetriedFew'
  <2>1. ASSUME NEW g \in Flows, (Up(g))' PROVE (First(g).retries <= MaxConRetries)'
    <3>1. CASE g = f
      BY <1>2, <1>4, <3>1
    <3>2. CASE g # f
      <4>1. Up(g)
        BY <1>1, <2>1, <3>2
      <4> QED
        BY <1>5, <4>1 DEF Running, RetriedFew
    <3> QED
      BY <3>1, <3>2
  <2> QED
    BY <2>1 DEF RetriedFew
<1>7. ASSUME NEW g \in Flows, (Up(g))'
      PROVE  /\ (Cardinality(Carrying(g)) <= Cardinality(Fellows(g)) + First(g).retries)'
             /\ (\A k \in DOMAIN StateTable[Dst(g)] :
                    Of(StateTable[Dst(g)][k], Src(g), OwnName(g)) =>
                        StateTable[Dst(g)][k].retries + Cardinality(Carrying(g))
                            <= Cardinality(Fellows(g)) + First(g).retries)'
  <2>1. CASE g # f
    <3> DEFINE d == IF Fellow(g, f) THEN 1 ELSE 0
               C == Cardinality(Carrying(g))
               Cn == Cardinality((Carrying(g))')
               F == Cardinality(Fellows(g))
               A == First(g).retries
    <3>1. Up(g)
      BY <1>1, <1>7, <2>1
    <3>2. (First(g))' = First(g) /\ A \in Nat /\ Dst(g) \in APs
      BY <1>5, <3>1
    <3>3. /\ Cardinality((Fellows(g))') = F + d
          /\ Cn <= C + d /\ F \in Nat /\ C \in Nat /\ Cn \in Nat
      BY <3>1, StartsFellows
    <3>4. /\ C <= F + A
          /\ \A k \in DOMAIN StateTable[Dst(g)] :
                Of(StateTable[Dst(g)][k], Src(g), OwnName(g)) =>
                    StateTable[Dst(g)][k].retries + C <= F + A
      BY <3>1 DEF Running, RefusedOnce
    <3>5. d \in Nat
      OBVIOUS
    <3>6. (First(g).retries)' = A /\ (Cardinality(Fellows(g)))' = F + d
          /\ (Cardinality(Carrying(g)))' = Cn
      BY <3>2, <3>3
    <3> HIDE DEF d, C, Cn, F, A
    <3>7. Cn <= (F + d) + A
      BY <3>2, <3>3, <3>4, <3>5
    <3>8. ASSUME NEW k \in DOMAIN StateTable'[Dst(g)],
                 Of(StateTable'[Dst(g)][k], Src(g), OwnName(g))
          PROVE  StateTable'[Dst(g)][k].retries + Cn <= (F + d) + A
      <4>1. CASE k \in DOMAIN StateTable[Dst(g)]
        <5>1. StateTable'[Dst(g)][k] = StateTable[Dst(g)][k]
          BY <1>1, <3>2, <4>1
        <5>2. StateTable[Dst(g)][k].retries + C <= F + A
          BY <3>4, <3>8, <4>1, <5>1
        <5>3. StateTable[Dst(g)][k].retries \in Nat
          <6>1. StateTable[Dst(g)] \in Seq(Row)
            BY <3>2 DEF IInv, Types
          <6>2. StateTable[Dst(g)][k] \in Row
            BY <4>1, <6>1, ElementOfSeq
          <6> QED
            BY <6>2 DEF Row
        <5> QED
          BY <3>2, <3>3, <3>5, <5>1, <5>2, <5>3
      <4>2. CASE k \notin DOMAIN StateTable[Dst(g)]
        <5>1. StateTable'[Dst(g)][k].retries = 0
          BY <1>1, <3>2, <3>8, <4>2
        <5> QED
          BY <3>2, <3>3, <3>5, <3>7, <5>1
      <4> QED
        BY <4>1, <4>2
    <3> QED
      BY <1>e, <3>6, <3>7, <3>8 DEF Of
  <2>2. CASE g = f
    <3>1. IsFiniteSet((Fellows(f))') /\ (Carrying(f))' \in SUBSET (Fellows(f))'
      <4>1. (Fellows(f))' = Fellows(f) \cup {f}
        BY <1>0, <1>1, FixedEnds DEF Fellows, Fellow
      <4>2. IsFiniteSet(Fellows(f))
        <5>1. CASE Fellows(f) = {}
          BY <5>1, FS_EmptySet
        <5>2. CASE Fellows(f) # {}
          <6>1. PICK g1 \in Flows : Up(g1) /\ Fellow(f, g1)
            BY <5>2 DEF Fellows
          <6>2. Fellows(f) = Fellows(g1)
            BY <6>1 DEF Fellows, Fellow
          <6> QED
            BY <6>1, <6>2, FellowsFinite
        <5> QED
          BY <5>1, <5>2
      <4> QED
        BY <4>1, <4>2, FS_AddElement DEF Carrying
    <3>2. /\ Cardinality((Carrying(f))') <= Cardinality((Fellows(f))')
          /\ Cardinality((Carrying(f))') \in Nat /\ Cardinality((Fellows(f))') \in Nat
      <4>1. /\ IsFiniteSet((Carrying(f))')
            /\ Cardinality((Carrying(f))') <= Cardinality((Fellows(f))')
        BY <3>1, FS_Subset
      <4> QED
        BY <3>1, <4>1, FS_CardinalityType
    <3>3. (Cardinality(Carrying(f)) <= Cardinality(Fellows(f)) + First(f).retries)'
      BY <1>2, <1>3, <3>2
    <3>4. StateTable'[Dst(f)] = StateTable[Dst(f)]
      BY <1>1
    <3>5. \A k \in DOMAIN StateTable'[Dst(f)] : ~Of(StateTable'[Dst(f)][k], Src(f), OwnName(f))
      BY <3>4, StartsUnnamed
    <3>6. \A k \in DOMAIN (StateTable[Dst(f)])' : ~(Of(StateTable[Dst(f)][k], Src(f), OwnName(f)))'
      BY <1>e, <3>5 DEF Of
    <3> QED
      BY <2>2, <3>3, <3>6
  <2> QED
    BY <2>1, <2>2
<1> QED
  BY <1>6, <1>7 DEF RefusedOnce

LEMMA StartsKept ==
    ASSUME IInv, NEW f, NEW n, NEW ports, Starts(f, n, ports),
           answers' = answers, reads' = reads, results' = results
    PROVE /\ RowsOfFlows' /\ Asking' /\ ReadsCounted' /\ AnswersKept' /\ RetriesBounded'
          /\ ~aborted' => Running'
<1>1. RowsOfFlows' /\ Asking' /\ ReadsCounted' /\ AnswersKept' /\ RetriesBounded'
  BY StartsRows, StartsKeeps
<1>2. ASSUME ~aborted' PROVE Running'
  <2>1. Running
    BY DEF Starts, IInv
  <2>2. NotBoth'
    BY <1>2, <2>1, StartsNotBoth
  <2>3. MessagesSound'
    BY <1>2, <2>1, StartsMessages
  <2>4. OneAtATime'
    BY <1>2, <2>1, StartsOneAtATime
  <2>5. RetriedFew' /\ RefusedOnce'
    BY <1>2, <2>1, StartsRefused
  <2> QED
    BY <2>2, <2>3, <2>4, <2>5 DEF Running
<1> QED
  BY <1>1, <1>2

-----------------------------------------------------------------------------
(* The handlers of messages.                                                 *)

\* Where the simulation goes on, only the flow itself gets messages of CACE.
LEMMA TurnHandles ==
    ASSUME IInv, ~aborted, NEW f \in Flows, NEW i \in APs, chan[f][i] # <<>>, Arrived(f, i),
           NEW table \in Seq(Row), NEW out \in Seq(Message), Turn(f, i, table, out),
           Evolves(StateTable[i], table), Fixed, AllocKept
    PROVE /\ Handles(f, i, Ports(f, i), table, out)
          /\ ~IsMgmt(f) => Ports(f, i) \subseteq {f}
          /\ aborted' \in BOOLEAN
<1> DEFINE S == Senders(f, i)
<1>1. /\ StateTable' = [StateTable EXCEPT ![i] = table]
      /\ chan' = Sent(Taken(f, i), Ports(f, i), i, out)
      /\ aborted' = Fatal(S, out)
  BY DEF Turn
<1>2. Ports(f, i) \subseteq S /\ (~IsMgmt(f) => S = {f}) /\ f \in S
  BY DEF Ports, Senders, IsMgmt
<1>3. ASSUME \E k \in DOMAIN out : OfCACE(out[k]), ~aborted', IsMgmt(f) PROVE S = {f}
  <2>1. ~(Cardinality(S) > 1)
    BY <1>1, <1>3 DEF Fatal
  <2>2. ASSUME NEW g \in S PROVE g = i \/ g = Peer(f, i)
    <3>1. g \in APs /\ Peer(g, i) = Peer(f, i)
      BY <1>3 DEF Senders
    <3>2. Src(g) = g
      BY <3>1 DEF Src, IsMgmt
    <3> QED
      BY <3>1, <3>2 DEF Peer
  <2>3. S \subseteq {i, Peer(f, i)}
    BY <2>2
  <2> HIDE DEF S
  <2> QED
    BY <1>2, <2>1, <2>3, OneSender
<1>4. aborted' \in BOOLEAN
  BY <1>1 DEF Fatal
<1>5. (\E k \in DOMAIN out : OfCACE(out[k])) /\ ~aborted' => Ports(f, i) \subseteq {f}
  BY <1>2, <1>3
<1>6. Handles(f, i, Ports(f, i), table, out)
  BY <1>1, <1>5 DEF Handles
<1> QED
  BY <1>2, <1>4, <1>6

\* What the invariant says beside types, stages and the answers.
Kept ==
    /\ RowsOfFlows /\ Asking /\ ReadsCounted /\ RetriesBounded
    /\ ~aborted => Running

LEMMA AnswersSame ==
    ASSUME IInv, NEW f, NEW i, NEW ports, NEW table, NEW out,
           Handles(f, i, ports, table, out), answers' = answers
    PROVE AnswersKept'
<1>1. ASSUME NEW r \in Requests, answers[r] > 0 PROVE (Up(r) /\ First(r).con = "ESTABLISHED")'
  BY <1>1, HandlesAnswers
<1> QED
  BY <1>1 DEF AnswersKept

\* A handler that adds no row and sends nothing of CACE.
LEMMA HandlesPlain ==
    ASSUME IInv, NEW f, NEW i, NEW ports, NEW table, NEW out,
           Handles(f, i, ports, table, out),
           DOMAIN table = DOMAIN StateTable[i],
           \A k \in DOMAIN table : table[k].retries = StateTable[i][k].retries,
           \A k \in DOMAIN out : out[k].type \notin CACETypes,
           ReadsCounted'
    PROVE Kept'
<1>0. Running /\ f \in Flows
  BY DEF Handles, IInv
<1>1. RowsOfFlows' /\ Asking'
  BY HandlesRows
<1>2. RetriesBounded' /\ RetriedFew' /\ RefusedOnce'
  BY <1>0, HandlesRetries DEF CACETypes
<1>3. NotBoth'
  BY <1>0, HandlesNotBoth
<1>4. MessagesSound'
  <2>1. ASSUME NEW g \in ports, NEW e \in APs, NEW k \in DOMAIN out PROVE (Sound(g, e, out[k]))'
    <3>1. PICK m : m = out[k]
      OBVIOUS
    <3>2. m.type \notin CACETypes
      BY <3>1
    <3>3. (Sound(g, e, m))'
      BY <3>2 DEF Sound, OfCACE, CACETypes
    <3> QED
      BY <3>1, <3>3
  <2> QED
    BY <2>1, <1>0, HandlesMessages
<1>5. ~aborted' => OneAtATime'
  BY <1>0, HandlesOneAtATime
<1> QED
  BY <1>1, <1>2, <1>3, <1>4, <1>5 DEF Kept, Running

\* The tables and messages after a step are what they should be.
Moved ==
    /\ chan' \in [Flows -> [APs -> Seq(Message)]] /\ StateTable' \in [APs -> Seq(Row)]
    /\ aborted' \in BOOLEAN

SameCounts == answers' = answers /\ reads' = reads /\ results' = results

LEMMA AllocSame ==
    ASSUME IInv, alloc' = alloc
    PROVE AllocKept
  BY DEF IInv, Types, AllocKept

LEMMA EvolvesSame ==
    ASSUME NEW t \in Seq(Row)
    PROVE Evolves(t, t)
  BY DEF Evolves

\* A message that nobody takes up, or that is lost.
LEMMA TakenKept ==
    ASSUME IInv, ~aborted, NEW f \in Flows, NEW i \in APs, chan[f][i] # <<>>,
           chan' = Taken(f, i), StateTable' = StateTable, aborted' = aborted,
           Fixed, AllocKept, SameCounts
    PROVE Kept' /\ AnswersKept' /\ Moved
<1> DEFINE c == Taken(f, i)
<1>1. c \in [Flows -> [APs -> Seq(Message)]]
  BY TakenAt DEF IInv, Types
<1>2. Sent(c, {}, i, <<>>) = c
  <2> HIDE DEF c
  <2>1. Sent(c, {}, i, <<>>) = [g \in Flows |-> c[g]]
    BY DEF Sent
  <2>2. c = [g \in Flows |-> c[g]]
    BY <1>1
  <2> QED
    BY <2>1, <2>2
<1>3. StateTable \in [APs -> Seq(Row)]
  BY DEF IInv, Types
<1>4. StateTable' = [StateTable EXCEPT ![i] = StateTable[i]]
  BY <1>3
<1>5. Handles(f, i, {}, StateTable[i], <<>>)
  <2>1. Evolves(StateTable[i], StateTable[i]) /\ StateTable[i] \in Seq(Row)
    BY <1>3, EvolvesSame
  <2>2. <<>> \in Seq(Message) /\ {} \subseteq Ports(f, i)
    OBVIOUS
  <2>3. chan' = Sent(Taken(f, i), {}, i, <<>>)
    BY <1>2
  <2> QED
    BY <1>4, <2>1, <2>2, <2>3 DEF Handles
<1>6. AnswersKept'
  BY <1>5, AnswersSame DEF SameCounts
<1>7. ReadsCounted'
  <2>1. \A k \in DOMAIN <<>> : <<>>[k].type \notin ReadTypes
    OBVIOUS
  <2> QED
    BY <1>5, <2>1, HandlesReads DEF SameCounts
<1>8. Kept'
  BY <1>5, <1>7, HandlesPlain
<1> QED
  BY <1>1, <1>3, <1>6, <1>8 DEF Moved, IInv, Types

\* A message that is taken up, where no row is new and nothing of CACE is sent.
LEMMA TurnPlain ==
    ASSUME IInv, ~aborted, NEW f \in Flows, NEW i \in APs, chan[f][i] # <<>>, Arrived(f, i),
           NEW table \in Seq(Row), NEW out \in Seq(Message), Turn(f, i, table, out),
           Evolves(StateTable[i], table), DOMAIN table = DOMAIN StateTable[i],
           \A k \in DOMAIN table : table[k].retries = StateTable[i][k].retries,
           \A k \in DOMAIN out : out[k].type \notin CACETypes,
           \/ \A k \in DOMAIN out : out[k].type \notin ReadTypes
           \/ Len(out) = 1 /\ Head(chan[f][i]).type \in ReadTypes,
           Fixed, AllocKept, SameCounts
    PROVE Kept' /\ AnswersKept' /\ Moved
<1>1. /\ Handles(f, i, Ports(f, i), table, out)
      /\ ~IsMgmt(f) => Ports(f, i) \subseteq {f}
      /\ aborted' \in BOOLEAN
  BY TurnHandles
<1>2. AnswersKept'
  BY <1>1, AnswersSame DEF SameCounts
<1>3. ReadsCounted'
  BY <1>1, HandlesReads DEF SameCounts
<1>4. Kept'
  BY <1>1, <1>3, HandlesPlain
<1>5. chan' \in [Flows -> [APs -> Seq(Message)]] /\ StateTable' \in [APs -> Seq(Row)]
  BY <1>1, HandlesMoves
<1> QED
  BY <1>1, <1>2, <1>4, <1>5 DEF Moved

\* A message that is ignored.
LEMMA IgnoreKept ==
    ASSUME IInv, ~aborted, NEW f \in Flows, NEW i \in APs, chan[f][i] # <<>>, Arrived(f, i),
           Ignore(f, i), Fixed, AllocKept, SameCounts
    PROVE Kept' /\ AnswersKept' /\ Moved
<1>1. StateTable[i] \in Seq(Row) /\ <<>> \in Seq(Message) /\ Turn(f, i, StateTable[i], <<>>)
  BY DEF IInv, Types, Ignore
<1>2. Evolves(StateTable[i], StateTable[i])
  BY <1>1, EvolvesSame
<1> DEFINE out == <<>>
<1>3. \A k \in DOMAIN out : out[k].type \notin CACETypes /\ out[k].type \notin ReadTypes
  OBVIOUS
<1>4. out \in Seq(Message) /\ Turn(f, i, StateTable[i], out)
  BY <1>1
<1> HIDE DEF out
<1> QED
  BY <1>1, <1>2, <1>3, <1>4, TurnPlain

\* A message of the enrollment that is met.
LEMMA EnrollsKept ==
    ASSUME IInv, ~aborted, NEW f \in Flows, NEW i \in APs, chan[f][i] # <<>>, Arrived(f, i),
           NEW status \in EnrollStatus, NEW out \in Seq(Message), Enrolls(f, i, status, out),
           \A k \in DOMAIN out : out[k].type \notin CACETypes \cup ReadTypes,
           Fixed, AllocKept, SameCounts
    PROVE Kept' /\ AnswersKept' /\ Moved
<1> DEFINE t == StateTable[i]
           n == Entry(f, i)
           u == Enrolled(t, n, status)
<1>1. t \in Seq(Row)
  BY DEF IInv, Types
<1>3. Turn(f, i, u, out)
  BY DEF Enrolls, Enrolled
<1> HIDE DEF t, n
<1>4. /\ u \in Seq(Row) /\ DOMAIN u = DOMAIN t /\ Evolves(t, u)
      /\ \A k \in DOMAIN t : u[k].retries = t[k].retries
  BY <1>1, EnrollRow
<1> HIDE DEF u
<1>5. /\ Evolves(StateTable[i], u) /\ DOMAIN u = DOMAIN StateTable[i]
      /\ \A k \in DOMAIN u : u[k].retries = StateTable[i][k].retries
  BY <1>4 DEF t
<1> QED
  BY <1>3, <1>4, <1>5, TurnPlain

LEMMA HereIs ==
    ASSUME IInv, NEW f \in Flows, NEW i \in APs, Arrived(f, i), NEW type \in MessageType
    PROVE Here(f, i, type) \in Message /\ Here(f, i, type).type = type
<1>1. LocalName(f, i) \in Names
  BY ArrivedEnd DEF IInv
<1> QED
  BY <1>1 DEF Here, Msg, Message

\* Enrollment and the reads that are answered.
Others(f, i) ==
    \/ ReceiveStartEnrollmentRequest(f, i)
    \/ ReceiveStartEnrollmentResponse(f, i)
    \/ ReceiveStopEnrollmentRequest(f, i)
    \/ ReceiveStopEnrollmentResponse(f, i)
    \/ ProcessMRead(f, i)

LEMMA OthersKept ==
    ASSUME IInv, ~aborted, NEW f \in Flows, NEW i \in APs, chan[f][i] # <<>>, Arrived(f, i),
           Others(f, i), Fixed, AllocKept, SameCounts
    PROVE Kept' /\ AnswersKept' /\ Moved
<1>1. CASE Ignore(f, i)
  BY <1>1, IgnoreKept
<1>2. ASSUME NEW status \in EnrollStatus, Enrolls(f, i, status, <<>>)
      PROVE  Kept' /\ AnswersKept' /\ Moved
  <2>1. <<>> \in Seq(Message)
    OBVIOUS
  <2>2. \A k \in DOMAIN <<>> : <<>>[k].type \notin CACETypes \cup ReadTypes
    OBVIOUS
  <2> QED
    BY <1>2, <2>1, <2>2, EnrollsKept
<1>3. CASE Enrolls(f, i, "WAIT_STOP_RESPONSE", <<Here(f, i, "M_START_R"), Here(f, i, "M_STOP")>>)
  <2> DEFINE a == Here(f, i, "M_START_R")
             b == Here(f, i, "M_STOP")
             out == <<a, b>>
  <2>1. a \in Message /\ b \in Message /\ a.type = "M_START_R" /\ b.type = "M_STOP"
    BY HereIs DEF MessageType
  <2> HIDE DEF a, b
  <2>2. out \in Seq(Message)
    BY <2>1
  <2>3. \A k \in DOMAIN out : out[k].type \notin CACETypes \cup ReadTypes
    BY <2>1 DEF CACETypes, ReadTypes
  <2>4. "WAIT_STOP_RESPONSE" \in EnrollStatus /\ Enrolls(f, i, "WAIT_STOP_RESPONSE", out)
    BY <1>3 DEF EnrollStatus, a, b
  <2> HIDE DEF out
  <2> QED
    BY <2>2, <2>3, <2>4, EnrollsKept
<1>4. CASE Enrolls(f, i, "ENROLLED", <<Here(f, i, "M_STOP_R")>>)
  <2> DEFINE a == Here(f, i, "M_STOP_R")
             out == <<a>>
  <2>1. a \in Message /\ a.type = "M_STOP_R"
    BY HereIs DEF MessageType
  <2> HIDE DEF a
  <2>2. out \in Seq(Message)
    BY <2>1
  <2>3. \A k \in DOMAIN out : out[k].type \notin CACETypes \cup ReadTypes
    BY <2>1 DEF CACETypes, ReadTypes
  <2>4. "ENROLLED" \in EnrollStatus /\ Enrolls(f, i, "ENROLLED", out)
    BY <1>4 DEF EnrollStatus, a
  <2> HIDE DEF out
  <2> QED
    BY <2>2, <2>3, <2>4, EnrollsKept
<1>5. CASE ProcessMRead(f, i)
  <2> DEFINE a == Here(f, i, "M_READ_R")
             out == <<a>>
             t == StateTable[i]
  <2>1. a \in Message /\ a.type = "M_READ_R"
    BY HereIs DEF MessageType
  <2>2. Turn(f, i, t, out) /\ Head(chan[f][i]).type \in ReadTypes
    BY <1>5 DEF ProcessMRead, Arrives, ReadTypes
  <2> HIDE DEF a
  <2>3. out \in Seq(Message) /\ Len(out) = 1
    BY <2>1
  <2>4. \A k \in DOMAIN out : out[k].type \notin CACETypes
    BY <2>1 DEF CACETypes
  <2>5. t \in Seq(Row) /\ Evolves(t, t)
    BY EvolvesSame DEF IInv, Types
  <2> HIDE DEF out
  <2> QED
    BY <2>2, <2>3, <2>4, <2>5, TurnPlain
<1>6. {"WAIT_STOP", "ENROLLED"} \subseteq EnrollStatus
  BY DEF EnrollStatus
<1>7. CASE ReceiveStartEnrollmentRequest(f, i)
  BY <1>7, <1>1, <1>3 DEF ReceiveStartEnrollmentRequest, Unexpected
<1>8. CASE ReceiveStartEnrollmentResponse(f, i)
  BY <1>8, <1>1, <1>2, <1>6 DEF ReceiveStartEnrollmentResponse, Unexpected
<1>9. CASE ReceiveStopEnrollmentRequest(f, i)
  BY <1>9, <1>1, <1>4 DEF ReceiveStopEnrollmentRequest, Unexpected
<1>10. CASE ReceiveStopEnrollmentResponse(f, i)
  BY <1>10, <1>1, <1>2, <1>6 DEF ReceiveStopEnrollmentResponse, Unexpected
<1> QED
  BY <1>5, <1>7, <1>8, <1>9, <1>10 DEF Others

LEMMA ResultCounted ==
    ASSUME IInv, NEW f, NEW i, NEW ports, NEW table, NEW out,
           Handles(f, i, ports, table, out), Arrived(f, i), Head(chan[f][i]).type = "M_READ_R",
           \A k \in DOMAIN out : out[k].type \notin ReadTypes,
           results' = [results EXCEPT ![f] = @ + 1], reads' = reads
    PROVE ReadsCounted' /\ (f \in Requests => results[f] < reads[f])
<1>1. ASSUME NEW r \in Requests
      PROVE /\ (results[r] + Count(chan[r][Src(r)], ReadTypes) + Count(chan[r][Dst(r)], ReadTypes)
                    <= reads[r])'
            /\ r = f => results[r] < reads[r]
  <2> DEFINE S == Src(r)
             D == Dst(r)
  <2>1. r \in Flows /\ ~IsMgmt(r) /\ S = plan[r].from /\ D = plan[r].to /\ S \in APs /\ D \in APs
    BY Apart, Kinds DEF Flows, IsMgmt, IInv, Types
  <2>2. S \in APs /\ D \in APs /\ S # D
    BY <2>1 DEF IInv, Types
  <2>3. (Src(r))' = S /\ (Dst(r))' = D
    BY FixedEnds DEF Handles
  <2>4. /\ results[r] \in Nat /\ reads[r] \in Nat
        /\ results[r] + Count(chan[r][S], ReadTypes) + Count(chan[r][D], ReadTypes) <= reads[r]
    BY Apart DEF IInv, Types, ReadsCounted
  <2>5. results'[r] = IF r = f THEN results[r] + 1 ELSE results[r]
    BY DEF IInv, Types
  <2>6. r = f => i = S \/ i = D
    BY DEF Arrived
  <2> HIDE DEF S, D
  <2>11. r \in Flows
    BY <2>1
  <2>12. S \in APs /\ D \in APs
    BY <2>2
  <2>7. /\ Count(chan[r][S], ReadTypes) \in Nat /\ Count(chan'[r][S], ReadTypes) \in Nat
        /\ r = f /\ S = i =>
              Count(chan'[r][S], ReadTypes) + (IF Head(chan[f][i]).type \in ReadTypes THEN 1 ELSE 0)
                  <= Count(chan[r][S], ReadTypes)
        /\ ~(r = f /\ S = i) /\ (r \notin ports \/ \A k \in DOMAIN out : out[k].type \notin ReadTypes)
              => Count(chan'[r][S], ReadTypes) = Count(chan[r][S], ReadTypes)
        /\ ~(r = f /\ S = i) /\ Len(out) = 1 =>
              Count(chan'[r][S], ReadTypes) <= Count(chan[r][S], ReadTypes) + 1
    BY <2>11, <2>12, HandlesCount
  <2>9. /\ Count(chan[r][D], ReadTypes) \in Nat /\ Count(chan'[r][D], ReadTypes) \in Nat
        /\ r = f /\ D = i =>
              Count(chan'[r][D], ReadTypes) + (IF Head(chan[f][i]).type \in ReadTypes THEN 1 ELSE 0)
                  <= Count(chan[r][D], ReadTypes)
        /\ ~(r = f /\ D = i) /\ (r \notin ports \/ \A k \in DOMAIN out : out[k].type \notin ReadTypes)
              => Count(chan'[r][D], ReadTypes) = Count(chan[r][D], ReadTypes)
        /\ ~(r = f /\ D = i) /\ Len(out) = 1 =>
              Count(chan'[r][D], ReadTypes) <= Count(chan[r][D], ReadTypes) + 1
    BY <2>11, <2>12, HandlesCount
  <2>10. Head(chan[f][i]).type \in ReadTypes
    BY DEF ReadTypes
  <2>8. /\ results'[r] + Count(chan'[r][S], ReadTypes) + Count(chan'[r][D], ReadTypes) <= reads[r]
        /\ r = f => results[r] < reads[r]
    <3>1. CASE r # f
      BY <2>2, <2>4, <2>5, <2>7, <2>9, <3>1
    <3>2. CASE r = f /\ i = S
      <4>1. Count(chan'[r][S], ReadTypes) + 1 <= Count(chan[r][S], ReadTypes)
            /\ Count(chan'[r][D], ReadTypes) = Count(chan[r][D], ReadTypes)
        BY <2>2, <2>7, <2>9, <2>10, <3>2
      <4> QED
        BY <2>2, <2>4, <2>5, <2>7, <2>9, <2>10, <3>2, <4>1
    <3>3. CASE r = f /\ i = D
      <4>1. Count(chan'[r][D], ReadTypes) + 1 <= Count(chan[r][D], ReadTypes)
            /\ Count(chan'[r][S], ReadTypes) = Count(chan[r][S], ReadTypes)
        BY <2>2, <2>7, <2>9, <2>10, <3>3
      <4> QED
        BY <2>2, <2>4, <2>5, <2>7, <2>9, <2>10, <3>3, <4>1
    <3> QED
      BY <2>6, <3>1, <3>2, <3>3
  <2> QED
    BY <2>3, <2>8
<1> QED
  BY <1>1 DEF ReadsCounted

\* A result of a read: one read that was made is answered.
LEMMA ResultKept ==
    ASSUME IInv, ~aborted, NEW f \in Flows, NEW i \in APs, chan[f][i] # <<>>, Arrived(f, i),
           ProcessMReadR(f, i), Fixed, AllocKept
    PROVE /\ Kept' /\ AnswersKept' /\ Moved
          /\ f \in Requests => results[f] < reads[f]
<1> DEFINE t == StateTable[i]
           out == <<>>
<1>1. /\ Head(chan[f][i]).type = "M_READ_R" /\ Turn(f, i, t, out)
      /\ results' = [results EXCEPT ![f] = @ + 1] /\ answers' = answers /\ reads' = reads
  BY DEF ProcessMReadR, Arrives, Ignore
<1>2. t \in Seq(Row) /\ Evolves(t, t) /\ out \in Seq(Message)
  BY EvolvesSame DEF IInv, Types
<1>3. \A k \in DOMAIN out : out[k].type \notin CACETypes /\ out[k].type \notin ReadTypes
  OBVIOUS
<1> HIDE DEF out
<1> DEFINE ports == Ports(f, i)
<1>4. Handles(f, i, ports, t, out) /\ aborted' \in BOOLEAN
  BY <1>1, <1>2, TurnHandles
<1> HIDE DEF ports, t
<1>5. AnswersKept'
  BY <1>1, <1>4, AnswersSame
<1>7. ReadsCounted' /\ (f \in Requests => results[f] < reads[f])
  BY <1>1, <1>3, <1>4, ResultCounted
<1>8. Kept'
  BY <1>3, <1>4, <1>7, HandlesPlain DEF t
<1>9. chan' \in [Flows -> [APs -> Seq(Message)]] /\ StateTable' \in [APs -> Seq(Row)]
  BY <1>4, HandlesMoves
<1> QED
  BY <1>4, <1>5, <1>7, <1>8, <1>9 DEF Moved

\* An answer is about the first row for what was asked for.
LEMMA AnswersFirst ==
    ASSUME IInv, ~aborted, NEW f \in Flows, NEW i \in APs, chan[f][i] # <<>>, Arrived(f, i),
           Head(chan[f][i]).type \in Answer
    PROVE /\ Up(f) /\ i = Src(f) /\ Answered(f, i) = FirstAt(f)
          /\ FirstAt(f) \in DOMAIN StateTable[i] /\ StateTable[i][FirstAt(f)] \in Row
          /\ First(f) = StateTable[i][FirstAt(f)]
          /\ Head(chan[f][i]).type = "M_CONNECT_R+" /\ ~IsMgmt(f) => plan[f] \in Accepted
          /\ \E g \in Flows : Up(g) /\ Fellow(f, g) /\ First(f).local = OwnName(g)
<1> DEFINE m == Head(chan[f][i])
<1>0. Running
  BY DEF IInv
<1>1. Sound(f, i, m)
  <2>1. chan[f][i] \in Seq(Message)
    BY DEF IInv, Types
  <2>2. 1 \in DOMAIN chan[f][i] /\ m = chan[f][i][1]
    BY <2>1, EmptySeq
  <2>3. Sound(f, i, chan[f][i][1])
    BY <1>0, <2>2 DEF Running, MessagesSound
  <2> QED
    BY <2>2, <2>3
<1>2. /\ Up(f) /\ i = Src(f) /\ m.name = AskedName(f)
      /\ m.type = "M_CONNECT_R+" /\ ~IsMgmt(f) => plan[f] \in Accepted
  BY <1>1 DEF Sound, Answer, OfCACE
<1>3. Answered(f, i) = FirstAt(f)
  BY <1>2 DEF Answered, FirstAt, Peer
<1>4. /\ FirstAt(f) \in DOMAIN StateTable[Src(f)] /\ First(f) \in Row
      /\ \E g \in Flows : Up(g) /\ Fellow(f, g) /\ First(f).local = OwnName(g)
  BY <1>0, <1>2, FirstRow
<1> QED
  BY <1>2, <1>3, <1>4 DEF First

\* The row at n of t with these values.
LEMMA RowSet ==
    ASSUME NEW t \in Seq(Row), NEW n \in DOMAIN t, NEW con \in ConStatus,
           NEW enroll \in EnrollStatus, NEW retries \in Nat,
           t[n].con = "ESTABLISHED" => con = "ESTABLISHED"
    PROVE LET r == [t[n] EXCEPT !.con = con, !.enroll = enroll, !.retries = retries]
              u == [t EXCEPT ![n] = r]
          IN  /\ u \in Seq(Row) /\ DOMAIN u = DOMAIN t /\ Evolves(t, u)
              /\ u[n].con = con /\ u[n].retries = retries
              /\ u[n].ap = t[n].ap /\ u[n].name = t[n].name /\ u[n].local = t[n].local
              /\ \A k \in DOMAIN t : k # n => u[k] = t[k]
<1> DEFINE r == [t[n] EXCEPT !.con = con, !.enroll = enroll, !.retries = retries]
           u == [t EXCEPT ![n] = r]
<1>1. t[n] \in Row
  BY ElementOfSeq
<1>2. /\ r \in Row /\ r.ap = t[n].ap /\ r.name = t[n].name /\ r.local = t[n].local
      /\ r.con = con /\ r.retries = retries
  BY <1>1 DEF Row
<1> HIDE DEF r
<1>3. /\ u \in Seq(Row) /\ DOMAIN u = DOMAIN t /\ u[n] = r
      /\ \A k \in DOMAIN t : k # n => u[k] = t[k]
      /\ Evolves(t, u)
  BY <1>2, ReplaceRow
<1> HIDE DEF u
<1>4. /\ u \in Seq(Row) /\ DOMAIN u = DOMAIN t /\ Evolves(t, u)
      /\ u[n].con = con /\ u[n].retries = retries
      /\ u[n].ap = t[n].ap /\ u[n].name = t[n].name /\ u[n].local = t[n].local
      /\ \A k \in DOMAIN t : k # n => u[k] = t[k]
  BY <1>2, <1>3
<1> QED
  BY <1>4 DEF u, r

\* u is t with another row at n about the same.
Changes(t, n, u, con, retries) ==
    /\ u \in Seq(Row) /\ DOMAIN u = DOMAIN t /\ Evolves(t, u)
    /\ u[n].con = con /\ u[n].retries = retries
    /\ u[n].ap = t[n].ap /\ u[n].name = t[n].name /\ u[n].local = t[n].local
    /\ \A k \in DOMAIN t : k # n => u[k] = t[k]

LEMMA RowsChanged ==
    ASSUME NEW t \in Seq(Row), NEW n \in DOMAIN t, NEW con \in ConStatus,
           t[n].con # "ESTABLISHED"
    PROVE /\ Changes(t, n, [t EXCEPT ![n].con = con], con, t[n].retries)
          /\ \A e \in EnrollStatus :
                Changes(t, n, [t EXCEPT ![n].con = con, ![n].enroll = e], con, t[n].retries)
          /\ Changes(t, n, [t EXCEPT ![n].con = con, ![n].retries = @ + 1], con, t[n].retries + 1)
          /\ Changes(t, n, [[t EXCEPT ![n].retries = @ + 1] EXCEPT ![n].con = con],
                     con, t[n].retries + 1)
          /\ [t EXCEPT ![n].retries = @ + 1][n].local = t[n].local
<1> DEFINE set(e, m) ==
        [t EXCEPT ![n] = [t[n] EXCEPT !.con = con, !.enroll = e, !.retries = m]]
<1>1. t[n] \in Row
  BY ElementOfSeq
<1>2. t[n].enroll \in EnrollStatus /\ t[n].retries \in Nat
  BY <1>1 DEF Row
<1>3. ASSUME NEW e \in EnrollStatus, NEW m \in Nat PROVE Changes(t, n, set(e, m), con, m)
  <2>1. LET r == [t[n] EXCEPT !.con = con, !.enroll = e, !.retries = m]
            u == [t EXCEPT ![n] = r]
        IN  /\ u \in Seq(Row) /\ DOMAIN u = DOMAIN t /\ Evolves(t, u)
            /\ u[n].con = con /\ u[n].retries = m
            /\ u[n].ap = t[n].ap /\ u[n].name = t[n].name /\ u[n].local = t[n].local
            /\ \A k \in DOMAIN t : k # n => u[k] = t[k]
    BY RowSet
  <2> QED
    BY <2>1, Zenon DEF Changes
<1>4. [t EXCEPT ![n].con = con] = set(t[n].enroll, t[n].retries)
  BY <1>1 DEF Row
<1>5. \A e \in EnrollStatus :
        [t EXCEPT ![n].con = con, ![n].enroll = e] = set(e, t[n].retries)
  BY <1>1 DEF Row
<1>6. [t EXCEPT ![n].con = con, ![n].retries = @ + 1] = set(t[n].enroll, t[n].retries + 1)
  BY <1>1 DEF Row
<1>11. /\ [[t EXCEPT ![n].retries = @ + 1] EXCEPT ![n].con = con]
             = set(t[n].enroll, t[n].retries + 1)
       /\ [t EXCEPT ![n].retries = @ + 1][n].local = t[n].local
  BY <1>1 DEF Row
<1> HIDE DEF set
<1>7. t[n].retries + 1 \in Nat
  BY <1>2
<1>8. Changes(t, n, [t EXCEPT ![n].con = con], con, t[n].retries)
  <2>1. Changes(t, n, set(t[n].enroll, t[n].retries), con, t[n].retries)
    BY <1>2, <1>3
  <2> QED
    BY <1>4, <2>1, Zenon
<1>9. ASSUME NEW e \in EnrollStatus
      PROVE  Changes(t, n, [t EXCEPT ![n].con = con, ![n].enroll = e], con, t[n].retries)
  <2>1. Changes(t, n, set(e, t[n].retries), con, t[n].retries)
    BY <1>2, <1>3
  <2> QED
    BY <1>5, <2>1, Zenon
<1>10. Changes(t, n, [t EXCEPT ![n].con = con, ![n].retries = @ + 1], con, t[n].retries + 1)
  <2>1. Changes(t, n, set(t[n].enroll, t[n].retries + 1), con, t[n].retries + 1)
    BY <1>2, <1>3, <1>7
  <2> QED
    BY <1>6, <2>1, Zenon
<1>12. Changes(t, n, [[t EXCEPT ![n].retries = @ + 1] EXCEPT ![n].con = con],
               con, t[n].retries + 1)
  <2>1. Changes(t, n, set(t[n].enroll, t[n].retries + 1), con, t[n].retries + 1)
    BY <1>2, <1>3, <1>7
  <2> QED
    BY <1>11, <2>1, Zenon
<1> QED
  BY <1>8, <1>9, <1>10, <1>11, <1>12, Zenon

LEMMA PositiveKept ==
    ASSUME IInv, ~aborted, NEW f \in Flows, NEW i \in APs, chan[f][i] # <<>>, Arrived(f, i),
           ReceivePositiveConnectResponse(f, i), Fixed, AllocKept
    PROVE /\ Kept' /\ AnswersKept' /\ Moved /\ reads' = reads /\ results' = results
          /\ \/ answers' = answers
             \/ /\ f \in Requests /\ answers[f] = 0 /\ plan[f] \in Accepted
                /\ answers' = [answers EXCEPT ![f] = @ + 1]
<1> DEFINE t == StateTable[i]
           n == Answered(f, i)
<1>1. Head(chan[f][i]).type = "M_CONNECT_R+"
  BY DEF ReceivePositiveConnectResponse, Arrives
<1>2. /\ Up(f) /\ i = Src(f) /\ n = FirstAt(f) /\ n \in DOMAIN t /\ t[n] \in Row
      /\ First(f) = t[n] /\ (~IsMgmt(f) => plan[f] \in Accepted)
  BY <1>1, AnswersFirst DEF Answer
<1>3. t \in Seq(Row) /\ <<>> \in Seq(Message)
  BY DEF IInv, Types
<1> HIDE DEF t, n
<1>4. CASE Ignore(f, i) /\ UNCHANGED app
  BY <1>4, IgnoreKept DEF SameCounts, app
<1>5. CASE t[n].con = "AUTHENTICATING" /\ StartEnrollment(f, i, n) /\ UNCHANGED app
  <2> DEFINE a == Here(f, i, "M_START")
             out == <<a>>
             u == [t EXCEPT ![n].con = "ESTABLISHED", ![n].enroll = "WAIT_START_RESPONSE"]
  <2>1. a \in Message /\ a.type = "M_START"
    BY HereIs DEF MessageType
  <2>2. Turn(f, i, u, out)
    BY <1>5 DEF StartEnrollment, t
  <2>3. Changes(t, n, u, "ESTABLISHED", t[n].retries)
    <3>1. "ESTABLISHED" \in ConStatus /\ "WAIT_START_RESPONSE" \in EnrollStatus
          /\ t[n].con # "ESTABLISHED"
      BY <1>5 DEF ConStatus, EnrollStatus
    <3> QED
      BY <1>2, <1>3, <3>1, RowsChanged
  <2> HIDE DEF a, u
  <2>4. out \in Seq(Message)
    BY <2>1
  <2>5. \A k \in DOMAIN out : out[k].type \notin CACETypes /\ out[k].type \notin ReadTypes
    BY <2>1 DEF CACETypes, ReadTypes
  <2>6. /\ u \in Seq(Row) /\ DOMAIN u = DOMAIN t /\ Evolves(t, u)
        /\ \A k \in DOMAIN u : u[k].retries = t[k].retries
    BY <2>3 DEF Changes
  <2>7. SameCounts
    BY <1>5 DEF SameCounts, app
  <2> HIDE DEF out
  <2>8. Kept' /\ AnswersKept' /\ Moved
    BY <2>2, <2>4, <2>5, <2>6, <2>7, TurnPlain DEF t
  <2> QED
    BY <2>7, <2>8 DEF SameCounts
<1>6. CASE /\ t[n].con = "AUTHENTICATING" /\ ~IsMgmt(f)
           /\ Turn(f, i, [t EXCEPT ![n].con = "ESTABLISHED"], <<>>)
           /\ CACEFinished(f)
  <2> DEFINE out == <<>>
             u == [t EXCEPT ![n].con = "ESTABLISHED"]
  <2>2. Turn(f, i, u, out) /\ out \in Seq(Message)
    BY <1>6
  <2>3. Changes(t, n, u, "ESTABLISHED", t[n].retries)
    <3>1. "ESTABLISHED" \in ConStatus /\ t[n].con # "ESTABLISHED"
      BY <1>6 DEF ConStatus
    <3> QED
      BY <1>2, <1>3, <3>1, RowsChanged
  <2> HIDE DEF u
  <2>5. \A k \in DOMAIN out : out[k].type \notin CACETypes /\ out[k].type \notin ReadTypes
    OBVIOUS
  <2>6. /\ u \in Seq(Row) /\ DOMAIN u = DOMAIN t /\ Evolves(t, u)
        /\ \A k \in DOMAIN u : u[k].retries = t[k].retries
    BY <2>3 DEF Changes
  <2>7. /\ reads' = reads /\ results' = results
        /\ answers' = [answers EXCEPT ![f] = @ + 1]
    BY <1>6 DEF CACEFinished
  <2> HIDE DEF out
  <2> DEFINE ports == Ports(f, i)
  <2>8. Handles(f, i, ports, u, out) /\ aborted' \in BOOLEAN
    BY <2>2, <2>6, TurnHandles DEF t
  <2>14. Handles(f, i, ports, u, out)
    BY <2>8
  <2> HIDE DEF ports
  <2>9. ReadsCounted'
    BY <2>5, <2>7, <2>14, HandlesReads
  <2>10. Kept'
    BY <2>5, <2>6, <2>9, <2>14, HandlesPlain DEF t
  <2>11. chan' \in [Flows -> [APs -> Seq(Message)]] /\ StateTable' \in [APs -> Seq(Row)]
         /\ StateTable'[i] = u
    BY <2>14, HandlesMoves
  <2>12. f \in Requests
    BY <1>6, Kinds
  <2>13. answers[f] = 0
    <3>1. First(f).con # "ESTABLISHED"
      BY <1>2, <1>6
    <3>2. ~(answers[f] > 0)
      BY <2>12, <3>1 DEF IInv, AnswersKept
    <3>3. answers[f] \in 0 .. 1
      BY <2>12 DEF IInv, Types
    <3> QED
      BY <3>2, <3>3
  <2>15. AnswersKept'
    <3>1. ASSUME NEW r \in Requests, answers'[r] > 0
          PROVE  (Up(r) /\ First(r).con = "ESTABLISHED")'
      <4>1. CASE r = f
        <5>1. (First(f))' = StateTable'[Src(f)][FirstAt(f)]
          BY <1>2, <2>14, FirstKept
        <5>2. (First(f))' = u[n]
          BY <1>2, <2>11, <5>1
        <5>3. (First(f))'.con = "ESTABLISHED"
          BY <2>3, <5>2 DEF Changes
        <5>4. (Up(f))'
          BY <1>2, UpKept
        <5> QED
          BY <4>1, <5>3, <5>4
      <4>2. CASE r # f
        <5>1. answers[r] > 0
          BY <2>7, <3>1, <4>2 DEF IInv, Types
        <5> QED
          BY <2>14, <5>1, HandlesAnswers
      <4> QED
        BY <4>1, <4>2
    <3> QED
      BY <3>1 DEF AnswersKept
  <2>16. Moved
    BY <2>8, <2>11 DEF Moved
  <2> QED
    BY <1>2, <1>6, <2>7, <2>10, <2>12, <2>13, <2>15, <2>16
<1> QED
  BY <1>4, <1>5, <1>6 DEF ReceivePositiveConnectResponse, t, n

LEMMA NegativeKept ==
    ASSUME IInv, ~aborted, NEW f \in Flows, NEW i \in APs, chan[f][i] # <<>>, Arrived(f, i),
           ReceiveNegativeConnectResponse(f, i), Fixed, AllocKept
    PROVE Kept' /\ AnswersKept' /\ Moved /\ SameCounts
<1> DEFINE t == StateTable[i]
           n == Answered(f, i)
<1>0. SameCounts
  BY DEF ReceiveNegativeConnectResponse, SameCounts, app
<1>1. Head(chan[f][i]).type = "M_CONNECT_R-"
  BY DEF ReceiveNegativeConnectResponse, Arrives
<1>2. /\ Up(f) /\ i = Src(f) /\ n = FirstAt(f) /\ n \in DOMAIN t /\ t[n] \in Row
      /\ First(f) = t[n] /\ \E g \in Flows : Up(g) /\ Fellow(f, g) /\ First(f).local = OwnName(g)
  BY <1>1, AnswersFirst DEF Answer
<1>3. t \in Seq(Row) /\ MaxConRetries \in Nat
  BY Apart DEF IInv, Types
<1> HIDE DEF t, n
<1>4. CASE Ignore(f, i)
  BY <1>0, <1>4, IgnoreKept
<1>5. CASE t[n].con = "AUTHENTICATING" /\ Turn(f, i, [t EXCEPT ![n].con = "NIL"], <<>>)
  <2> DEFINE out == <<>>
             u == [t EXCEPT ![n].con = "NIL"]
  <2>2. Turn(f, i, u, out) /\ out \in Seq(Message)
    BY <1>5
  <2>3. Changes(t, n, u, "NIL", t[n].retries)
    <3>1. "NIL" \in ConStatus /\ t[n].con # "ESTABLISHED"
      BY <1>5 DEF ConStatus
    <3> QED
      BY <1>2, <1>3, <3>1, RowsChanged
  <2> HIDE DEF u
  <2>5. \A k \in DOMAIN out : out[k].type \notin CACETypes /\ out[k].type \notin ReadTypes
    OBVIOUS
  <2>6. /\ u \in Seq(Row) /\ DOMAIN u = DOMAIN t /\ Evolves(t, u)
        /\ \A k \in DOMAIN u : u[k].retries = t[k].retries
    BY <2>3 DEF Changes
  <2> HIDE DEF out
  <2>8. Kept' /\ AnswersKept' /\ Moved
    BY <1>0, <2>2, <2>5, <2>6, TurnPlain DEF t
  <2> QED
    BY <1>0, <2>8
<1>6. CASE /\ t[n].con = "AUTHENTICATING" /\ ~(MaxConRetries <= t[n].retries)
           /\ ProcessNewConReq(f, i, [t EXCEPT ![n].retries = @ + 1], n)
  <2>a. PICK a : a = Msg("M_CONNECT", t[n].local)
    OBVIOUS
  <2>o. PICK out : out = <<a>>
    OBVIOUS
  <2> DEFINE u == [[t EXCEPT ![n].retries = @ + 1] EXCEPT ![n].con = "AUTHENTICATING"]
  <2>1. t[n].local \in Names /\ t[n].retries \in Nat
    BY <1>2 DEF Row
  <2>2. a \in Message /\ a.type = "M_CONNECT" /\ a.name = t[n].local
    BY <2>a, <2>1 DEF Msg, Message, MessageType
  <2>3. /\ Changes(t, n, u, "AUTHENTICATING", t[n].retries + 1)
        /\ [t EXCEPT ![n].retries = @ + 1][n].local = t[n].local
    <3>1. "AUTHENTICATING" \in ConStatus /\ t[n].con # "ESTABLISHED"
      BY <1>6 DEF ConStatus
    <3> QED
      BY <1>2, <1>3, <3>1, RowsChanged
  <2>4. Turn(f, i, u, out)
    BY <1>6, <2>a, <2>o, <2>3 DEF ProcessNewConReq
  <2> HIDE DEF u
  <2>5. out \in Seq(Message) /\ Len(out) = 1 /\ DOMAIN out = {1} /\ out[1] = a
    BY <2>2, <2>o
  <2>6. u \in Seq(Row) /\ DOMAIN u = DOMAIN t /\ Evolves(t, u)
    BY <2>3 DEF Changes
  <2>7. \A k \in DOMAIN u : u[k].retries = t[k].retries + (IF k = n THEN 1 ELSE 0)
    <3>1. ASSUME NEW k \in DOMAIN u, k # n PROVE u[k].retries = t[k].retries + 0
      <4>1. u[k] = t[k] /\ t[k] \in Row
        BY <1>3, <2>3, <2>6, <3>1, ElementOfSeq DEF Changes
      <4> QED
        BY <4>1 DEF Row
    <3>2. u[n].retries = t[n].retries + 1
      BY <2>3 DEF Changes
    <3> QED
      BY <3>1, <3>2
  <2> DEFINE ports == Ports(f, i)
  <2>8. Handles(f, i, ports, u, out) /\ aborted' \in BOOLEAN
    BY <2>4, <2>5, <2>6, TurnHandles DEF t
  <2>9. Handles(f, i, ports, u, out)
    BY <2>8
  <2> HIDE DEF ports
  <2>10. AnswersKept'
    BY <1>0, <2>9, AnswersSame DEF SameCounts
  <2>11. ReadsCounted'
    <3>1. \A k \in DOMAIN out : out[k].type \notin ReadTypes
      BY <2>2, <2>5 DEF ReadTypes
    <3> QED
      BY <1>0, <2>9, <3>1, HandlesReads DEF SameCounts
  <2>12. RowsOfFlows' /\ Asking'
    <3>1. DOMAIN u = DOMAIN StateTable[i]
      BY <2>6 DEF t
    <3> QED
      BY <2>9, <3>1, HandlesRows
  <2>13. Running
    BY DEF IInv
  <2>14. RetriesBounded' /\ (ports \subseteq {f} => RetriedFew' /\ RefusedOnce')
    <3>1. First(f).retries < MaxConRetries
      BY <1>2, <1>3, <1>6, <2>1
    <3>2. /\ DOMAIN u = DOMAIN StateTable[i]
          /\ \A k \in DOMAIN u :
                u[k].retries = StateTable[i][k].retries + (IF k = FirstAt(f) THEN 1 ELSE 0)
      BY <1>2, <2>6, <2>7 DEF t
    <3> QED
      BY <1>2, <2>9, <2>13, <3>1, <3>2, HandlesAgain
  <2>15. ASSUME ~aborted' PROVE Running'
    <3>1. ports \subseteq {f}
      BY <2>2, <2>5, <2>9, <2>15 DEF Handles, OfCACE
    <3>2. NotBoth'
      BY <2>9, <2>13, HandlesNotBoth
    <3>3. OneAtATime'
      <4>1. Head(chan[f][i]).type \in CACETypes
        BY <1>1 DEF CACETypes
      <4> QED
        BY <2>5, <2>9, <2>13, <2>15, <4>1, HandlesOneAtATime
    <3>4. ASSUME NEW g \in ports, NEW e \in APs, NEW k \in DOMAIN out, e = Peer(g, i)
          PROVE  (Sound(g, e, out[k]))'
      <4>1. PICK m : m = out[k]
        OBVIOUS
      <4>2. g = f /\ e = Dst(f) /\ m.type = "M_CONNECT" /\ m.name = First(f).local
        BY <1>2, <2>2, <2>5, <3>1, <3>4, <4>1 DEF Peer
      <4>3. Sound(f, e, m)
        BY <1>2, <4>2 DEF Sound, Answer
      <4>4. Fixed /\ AllocKept /\ Accepted \subseteq Accepted'
        BY <2>9, HandlesAccepted
      <4>5. (Sound(f, e, m))'
        BY <4>3, <4>4, SoundKept
      <4> QED
        BY <4>1, <4>2, <4>5
    <3>5. MessagesSound'
      BY <2>9, <2>13, <3>4, HandlesMessages
    <3> QED
      BY <2>14, <3>1, <3>2, <3>3, <3>5 DEF Running
  <2>16. Kept'
    BY <2>11, <2>12, <2>14, <2>15 DEF Kept
  <2>17. chan' \in [Flows -> [APs -> Seq(Message)]] /\ StateTable' \in [APs -> Seq(Row)]
    BY <2>9, HandlesMoves
  <2>18. Moved
    BY <2>8, <2>17 DEF Moved
  <2> QED
    BY <1>0, <2>10, <2>16, <2>18
<1>7. \/ Ignore(f, i)
      \/ t[n].con = "AUTHENTICATING" /\ Turn(f, i, [t EXCEPT ![n].con = "NIL"], <<>>)
      \/ /\ t[n].con = "AUTHENTICATING" /\ ~(MaxConRetries <= t[n].retries)
         /\ ProcessNewConReq(f, i, [t EXCEPT ![n].retries = @ + 1], n)
  BY DEF ReceiveNegativeConnectResponse, t, n
<1> QED
  BY <1>4, <1>5, <1>6, <1>7

\* The row that a connect request brings, the table with it, and the row that decides.
RowFor(f, i) == NewRow(Peer(f, i), Head(chan[f][i]).name, AskedName(f), "CONNECTPENDING")
TableFor(f, i) == Append(StateTable[i], RowFor(f, i))
Deciding(f, i) == FindEntryByDstAPNI(TableFor(f, i), RowFor(f, i).ap, RowFor(f, i).name)

LEMMA RequestFrom ==
    ASSUME IInv, ~aborted, NEW f \in Flows, NEW i \in APs, chan[f][i] # <<>>,
           Head(chan[f][i]).type = "M_CONNECT"
    PROVE /\ Up(f) /\ i = Dst(f) /\ Peer(f, i) = Src(f) /\ Src(f) \in APs /\ Src(f) # Dst(f)
          /\ \E g \in Flows : Up(g) /\ Fellow(f, g) /\ Head(chan[f][i]).name = OwnName(g)
<1> DEFINE m == Head(chan[f][i])
<1>1. Sound(f, i, m)
  <2>1. chan[f][i] \in Seq(Message)
    BY DEF IInv, Types
  <2>2. 1 \in DOMAIN chan[f][i] /\ m = chan[f][i][1]
    BY <2>1, EmptySeq
  <2>3. Sound(f, i, chan[f][i][1])
    BY <2>2 DEF IInv, Running, MessagesSound
  <2> QED
    BY <2>2, <2>3
<1>2. /\ Up(f) /\ i = Dst(f)
      /\ \E g \in Flows : Up(g) /\ Fellow(f, g) /\ m.name = OwnName(g)
  BY <1>1 DEF Sound, OfCACE
<1>3. Src(f) \in APs /\ Src(f) # Dst(f)
  BY <1>2, EndsOf DEF IInv, Up
<1> QED
  BY <1>2, <1>3 DEF Peer

LEMMA RequestRow ==
    ASSUME IInv, ~aborted, NEW f \in Flows, NEW i \in APs, chan[f][i] # <<>>,
           Head(chan[f][i]).type = "M_CONNECT", NEW g \in Flows, Up(g), Fellow(f, g),
           Head(chan[f][i]).name = OwnName(g)
    PROVE LET t == TableFor(f, i)
              n == Deciding(f, i)
          IN  /\ t \in Seq(Row) /\ n \in DOMAIN t /\ t[n] \in Row /\ Evolves(StateTable[i], t)
              /\ Of(t[n], Src(f), OwnName(g)) /\ t[n].local = AskedName(f)
              /\ \A k \in DOMAIN t : t[k].retries =
                    IF k \in DOMAIN StateTable[i] THEN StateTable[i][k].retries ELSE 0
              /\ \A k \in DOMAIN t \ DOMAIN StateTable[i] : Theirs(g, i, t[k])
<1> DEFINE s == StateTable[i]
           r == RowFor(f, i)
           t == TableFor(f, i)
           n == Deciding(f, i)
<1>0. /\ Running /\ Up(f) /\ i = Dst(f) /\ Peer(f, i) = Src(f) /\ Src(f) \in APs
      /\ Src(f) # Dst(f)
  BY RequestFrom DEF IInv
<1>1. OwnName(g) \in Names /\ AskedName(f) \in Names /\ AskedName(g) = AskedName(f)
      /\ Src(g) = Src(f) /\ Dst(g) = Dst(f) /\ (IsMgmt(g) <=> IsMgmt(f))
  BY <1>0, EndsOf DEF IInv, Up, Fellow, AskedName
<1>2. /\ r \in Row /\ r.retries = 0 /\ r.ap = Src(f) /\ r.name = OwnName(g)
      /\ Of(r, Src(f), OwnName(g)) /\ Theirs(g, i, r)
  BY <1>0, <1>1 DEF RowFor, NewRow, Row, ConStatus, EnrollStatus, Of, Theirs
<1>3. s \in Seq(Row)
  BY DEF IInv, Types
<1> HIDE DEF r, s
<1>4. /\ Append(s, r) \in Seq(Row)
      /\ \A k \in DOMAIN s : Append(s, r)[k] = s[k]
      /\ Append(s, r)[Len(s) + 1] = r
      /\ DOMAIN Append(s, r) = DOMAIN s \cup {Len(s) + 1}
      /\ Evolves(s, Append(s, r))
  BY <1>2, <1>3, AppendRow
<1>5. t = Append(s, r)
  BY DEF TableFor, s, r
<1> HIDE DEF t, n
<1>6. /\ t \in Seq(Row) /\ Evolves(s, t) /\ Len(s) + 1 \in DOMAIN t /\ t[Len(s) + 1] = r
      /\ \A k \in DOMAIN t : (k \in DOMAIN s /\ t[k] = s[k]) \/ t[k] = r
      /\ \A k \in DOMAIN s : t[k] = s[k]
  BY <1>4, <1>5
<1>7. n = FindEntryByDstAPNI(t, Src(f), OwnName(g))
  BY <1>2 DEF n, t, r, Deciding
<1>8. n \in DOMAIN t /\ Of(t[n], Src(f), OwnName(g))
  <2>1. /\ n = 0 \/ n \in DOMAIN t
        /\ n \in DOMAIN t => Of(t[n], Src(f), OwnName(g))
        /\ \A k \in DOMAIN t : Of(t[k], Src(f), OwnName(g)) => n # 0 /\ n <= k
    BY <1>6, <1>7, FindFirst
  <2> QED
    BY <2>1, <1>2, <1>6
<1>9. t[n] \in Row
  BY <1>6, <1>8, ElementOfSeq
<1>10. \A k \in DOMAIN t : t[k].retries = IF k \in DOMAIN s THEN s[k].retries ELSE 0
  BY <1>2, <1>6
<1>11. \A k \in DOMAIN t \ DOMAIN s : Theirs(g, i, t[k])
  BY <1>2, <1>6
<1>12. \E h \in Flows : Up(h) /\ (Mine(h, i, t[n]) \/ Theirs(h, i, t[n]))
  <2>1. CASE n \in DOMAIN s
    <3>1. Brought(i, s[n])
      BY <2>1 DEF s, IInv, RowsOfFlows
    <3>2. t[n] = s[n]
      BY <1>6, <2>1
    <3> QED
      BY <3>1, <3>2 DEF Brought
  <2>2. CASE n \notin DOMAIN s
    BY <1>8, <1>11, <2>2
  <2> QED
    BY <2>1, <2>2
<1>13. t[n].local = AskedName(f)
  <2> DEFINE row == t[n]
  <2> HIDE DEF row
  <2>1. PICK h \in Flows : Up(h) /\ (Mine(h, i, row) \/ Theirs(h, i, row))
    BY <1>12 DEF row
  <2>2. row.ap = Src(f) /\ row.name = OwnName(g)
    BY <1>8 DEF row, Of
  <2>3. ~Mine(h, i, row)
    <3>1. ASSUME Mine(h, i, row) PROVE FALSE
      <4> DEFINE x == [ap |-> Src(g), name |-> OwnName(g), local |-> AskedName(g)]
      <4>1. Src(h) = i /\ Dst(h) = Src(g) /\ AskedName(h) = OwnName(g)
        BY <1>1, <2>2, <3>1 DEF Mine
      <4>2. Theirs(g, Src(h), x) /\ Of(x, Dst(h), AskedName(h))
        BY <1>0, <1>1, <4>1 DEF Theirs, Of
      <4> HIDE DEF x
      <4> QED
        BY <1>0, <2>1, <4>2, MineOrTheirs DEF IInv, Running
    <3> QED
      BY <3>1
  <2>4. OwnName(h) = OwnName(g) /\ row.local = AskedName(h)
    BY <2>1, <2>2, <2>3 DEF Theirs
  <2>5. IsMgmt(h) <=> IsMgmt(g)
    <3>1. /\ ~IsMgmt(g) => OwnName(g) \in Requests
          /\ ~IsMgmt(h) => OwnName(h) \in Requests
      BY Kinds
    <3>2. /\ IsMgmt(g) => OwnName(g) \in MgmtNames
          /\ IsMgmt(h) => OwnName(h) \in MgmtNames
      BY <2>1, EndsOf DEF IInv, Up
    <3> QED
      BY <2>4, <3>1, <3>2, Apart DEF MgmtNames
  <2> QED
    BY <1>1, <2>4, <2>5 DEF AskedName, row
<1> QED
  BY <1>6, <1>8, <1>9, <1>10, <1>11, <1>13 DEF s, t, n

\* A connect request has been taken up: u follows the table with its row, out is the answer.
LEMMA RequestTurn ==
    ASSUME IInv, ~aborted, NEW f \in Flows, NEW i \in APs, chan[f][i] # <<>>, Arrived(f, i),
           Head(chan[f][i]).type = "M_CONNECT",
           NEW u \in Seq(Row), NEW out \in Seq(Message), Turn(f, i, u, out),
           DOMAIN u = DOMAIN TableFor(f, i), Evolves(TableFor(f, i), u),
           \A k \in DOMAIN out : out[k].type \in Answer /\ out[k].name = AskedName(f),
           out = <<>> \/ Len(out) = 1,
           \A k \in DOMAIN out :
                out[k].type = "M_CONNECT_R+" => u[Deciding(f, i)].con = "ESTABLISHED",
           \/ \A k \in DOMAIN u : u[k].retries = TableFor(f, i)[k].retries
           \/ \A k \in DOMAIN u : u[k].retries = TableFor(f, i)[k].retries
                                     + (IF k = Deciding(f, i) THEN 1 ELSE 0),
           Fixed, AllocKept, SameCounts
    PROVE Kept' /\ AnswersKept' /\ Moved
<1> DEFINE s == StateTable[i]
           t == TableFor(f, i)
           n == Deciding(f, i)
           ports == Ports(f, i)
<1>0. Running /\ s \in Seq(Row)
  BY DEF IInv, Types
<1>1. Up(f) /\ i = Dst(f) /\ Peer(f, i) = Src(f) /\ Src(f) \in APs /\ Src(f) # Dst(f)
  BY RequestFrom
<1>2. PICK g \in Flows : Up(g) /\ Fellow(f, g) /\ Head(chan[f][i]).name = OwnName(g)
  BY RequestFrom
<1>3. /\ t \in Seq(Row) /\ n \in DOMAIN t /\ t[n] \in Row /\ Evolves(s, t)
      /\ Of(t[n], Src(f), OwnName(g)) /\ t[n].local = AskedName(f)
      /\ \A k \in DOMAIN t : t[k].retries = IF k \in DOMAIN s THEN s[k].retries ELSE 0
      /\ \A k \in DOMAIN t \ DOMAIN s : Theirs(g, i, t[k])
  BY <1>2, RequestRow
<1> HIDE DEF t, n
<1>4. DOMAIN u = DOMAIN t /\ Evolves(t, u)
  BY DEF t
<1>5. Evolves(s, u)
  BY <1>0, <1>3, <1>4, EvolvesTwice
<1>6. Handles(f, i, ports, u, out) /\ aborted' \in BOOLEAN
  BY <1>5, TurnHandles DEF s
<1> HIDE DEF ports
<1>7. Handles(f, i, ports, u, out)
  BY <1>6
<1>8. AnswersKept'
  BY <1>7, AnswersSame DEF SameCounts
<1>9. ReadsCounted'
  <2>1. \A k \in DOMAIN out : out[k].type \notin ReadTypes
    BY DEF Answer, ReadTypes
  <2> QED
    BY <1>7, <2>1, HandlesReads DEF SameCounts
<1>10. RowsOfFlows' /\ Asking'
  <2>1. ASSUME NEW k \in DOMAIN u \ DOMAIN s PROVE Brought(i, u[k])
    <3>1. Theirs(g, i, t[k]) /\ k \in DOMAIN t
      BY <1>3, <1>4, <2>1
    <3>2. Theirs(g, i, u[k])
      BY <1>4, <3>1 DEF Evolves, Theirs
    <3> QED
      BY <1>2, <3>2 DEF Brought
  <2> QED
    BY <1>7, <2>1, HandlesRows DEF s
<1>11. RetriesBounded' /\ RetriedFew' /\ RefusedOnce'
  <2>0. \A k \in DOMAIN out : out[k].type # "M_CONNECT"
    BY DEF Answer
  <2>1. CASE \A k \in DOMAIN u : u[k].retries = t[k].retries
    <3>1. \A k \in DOMAIN u : u[k].retries =
                IF k \in DOMAIN StateTable[i] THEN StateTable[i][k].retries ELSE 0
      BY <1>3, <1>4, <2>1 DEF s
    <3> QED
      BY <1>0, <1>7, <2>0, <3>1, HandlesRetries
  <2>2. CASE \A k \in DOMAIN u : u[k].retries = t[k].retries + (IF k = n THEN 1 ELSE 0)
    <3>1. \A k \in DOMAIN u : u[k].retries =
                (IF k \in DOMAIN StateTable[i] THEN StateTable[i][k].retries ELSE 0)
                    + (IF k = n THEN 1 ELSE 0)
      BY <1>3, <1>4, <2>2 DEF s
    <3>2. n \in DOMAIN u /\ Of(u[n], Src(f), OwnName(g))
      BY <1>3, <1>4 DEF Evolves, Of
    <3> QED
      BY <1>0, <1>1, <1>2, <1>7, <2>0, <3>1, <3>2, HandlesRefusal
  <2> QED
    BY <2>1, <2>2 DEF t, n
<1>12. ASSUME ~aborted' PROVE Running'
  <2>2. NotBoth'
    BY <1>0, <1>7, HandlesNotBoth
  <2>3. OneAtATime'
    <3>1. Head(chan[f][i]).type \in CACETypes
      BY DEF CACETypes
    <3>2. CASE out = <<>>
      <4>1. \A k \in DOMAIN out : out[k].type \notin CACETypes
        BY <3>2
      <4> QED
        BY <1>0, <1>7, <1>12, <4>1, HandlesOneAtATime
    <3>3. CASE Len(out) = 1
      BY <1>0, <1>7, <1>12, <3>1, <3>3, HandlesOneAtATime
    <3> QED
      BY <3>2, <3>3
  <2>4. ASSUME NEW p \in ports, NEW e \in APs, NEW k \in DOMAIN out, e = Peer(p, i)
        PROVE  (Sound(p, e, out[k]))'
    <3>1. PICK m : m = out[k]
      OBVIOUS
    <3>2. m.type \in Answer /\ m.name = AskedName(f)
      BY <3>1
    <3>3. ports \subseteq {f}
      BY <1>7, <1>12, <3>1, <3>2 DEF Handles, OfCACE, Answer
    <3>4. p = f /\ e = Src(f)
      BY <1>1, <2>4, <3>3
    <3>5. m.type = "M_CONNECT_R+" /\ ~IsMgmt(f) => plan[f] \in Accepted'
      <4>1. ASSUME m.type = "M_CONNECT_R+", ~IsMgmt(f) PROVE plan[f] \in Accepted'
        <5>1. u[n].con = "ESTABLISHED" /\ n \in DOMAIN u
          BY <1>3, <1>4, <3>1, <4>1 DEF n
        <5>2. u[n].ap = Src(f) /\ u[n].name = OwnName(g)
          BY <1>3, <1>4 DEF Evolves, Of
        <5>3. ~IsMgmt(g)
          BY <1>2, <4>1 DEF Fellow
        <5>4. u[n].name \in Requests
          BY <5>2, <5>3, Kinds
        <5>5. f \in Requests /\ Src(f) = plan[f].from /\ Dst(f) = plan[f].to
          BY <4>1, Kinds
        <5>6. plan[f] \in [from : APs, to : APs]
          BY <5>5 DEF IInv, Types
        <5>7. plan[f] = [from |-> u[n].ap, to |-> i]
          BY <1>1, <5>2, <5>5, <5>6
        <5>8. StateTable'[i] = u
          BY <1>7, HandlesMoves
        <5>9. plan[f] \in (AcceptedBy(i))'
          BY <5>1, <5>4, <5>7, <5>8 DEF AcceptedBy
        <5> QED
          BY <5>9 DEF Accepted
      <4> QED
        BY <4>1
    <3>6. /\ (IsMgmt(f))' = IsMgmt(f) /\ (Src(f))' = Src(f)
          /\ (AskedName(f))' = AskedName(f) /\ (Up(f))' /\ plan' = plan
      BY <1>1, FixedEnds, UpKept DEF Fixed
    <3>7. (Sound(f, e, m))'
      BY <3>2, <3>4, <3>5, <3>6 DEF Sound, Answer
    <3> QED
      BY <3>1, <3>4, <3>7
  <2>5. MessagesSound'
    BY <1>0, <1>7, <2>4, HandlesMessages
  <2> QED
    BY <1>11, <2>2, <2>3, <2>5 DEF Running
<1>13. Kept'
  BY <1>9, <1>10, <1>11, <1>12 DEF Kept
<1>14. chan' \in [Flows -> [APs -> Seq(Message)]] /\ StateTable' \in [APs -> Seq(Row)]
  BY <1>7, HandlesMoves
<1> QED
  BY <1>6, <1>8, <1>13, <1>14 DEF Moved

LEMMA RequestKept ==
    ASSUME IInv, ~aborted, NEW f \in Flows, NEW i \in APs, chan[f][i] # <<>>, Arrived(f, i),
           ReceiveConnectRequest(f, i), Fixed, AllocKept
    PROVE Kept' /\ AnswersKept' /\ Moved /\ SameCounts
<1> DEFINE t == TableFor(f, i)
           n == Deciding(f, i)
<1>0. SameCounts /\ Head(chan[f][i]).type = "M_CONNECT"
  BY DEF ReceiveConnectRequest, SameCounts, app, Arrives
<1>1. PICK g \in Flows : Up(g) /\ Fellow(f, g) /\ Head(chan[f][i]).name = OwnName(g)
  BY <1>0, RequestFrom
<1>2. /\ t \in Seq(Row) /\ n \in DOMAIN t /\ t[n] \in Row /\ t[n].local = AskedName(f)
  BY <1>0, <1>1, RequestRow
<1>3. \/ Turn(f, i, t, <<>>)
      \/ t[n].con = "CONNECTPENDING" /\ ProcessConResNega(f, i, t, n)
      \/ t[n].con = "CONNECTPENDING" /\ ProcessConResPosi(f, i, t, n)
  BY DEF ReceiveConnectRequest, Authenticate, TableFor, Deciding, RowFor
<1> HIDE DEF t, n
<1>4. AskedName(f) \in Names
  BY <1>2 DEF Row
<1>5. ASSUME NEW u, NEW con, NEW retries, Changes(t, n, u, con, retries),
             NEW type \in Answer, NEW out, out = <<Msg(type, t[n].local)>>, Turn(f, i, u, out),
             type = "M_CONNECT_R+" => con = "ESTABLISHED",
             retries = t[n].retries \/ retries = t[n].retries + 1
      PROVE  Kept' /\ AnswersKept' /\ Moved
  <2>1. /\ out \in Seq(Message) /\ Len(out) = 1 /\ DOMAIN out = {1}
        /\ out[1].type = type /\ out[1].name = AskedName(f)
    BY <1>2, <1>4, <1>5 DEF Msg, Message, MessageType, Answer
  <2>2. /\ u \in Seq(Row) /\ DOMAIN u = DOMAIN t /\ Evolves(t, u) /\ u[n].con = con
        /\ u[n].retries = retries /\ \A k \in DOMAIN t : k # n => u[k] = t[k]
    BY <1>5 DEF Changes
  <2>3. \A k \in DOMAIN t : t[k].retries \in Nat
    <3>1. \A k \in DOMAIN t : t[k] \in Row
      BY <1>2, ElementOfSeq
    <3> QED
      BY <3>1 DEF Row
  <2>4. \/ \A k \in DOMAIN u : u[k].retries = t[k].retries
        \/ \A k \in DOMAIN u : u[k].retries = t[k].retries + (IF k = n THEN 1 ELSE 0)
    <3>1. CASE retries = t[n].retries
      BY <2>2, <3>1
    <3>2. CASE retries = t[n].retries + 1
      <4>1. ASSUME NEW k \in DOMAIN u
            PROVE  u[k].retries = t[k].retries + (IF k = n THEN 1 ELSE 0)
        BY <2>2, <2>3, <3>2
      <4> QED
        BY <4>1
    <3> QED
      BY <1>5, <3>1, <3>2
  <2>5. \A k \in DOMAIN out : /\ out[k].type \in Answer /\ out[k].name = AskedName(f)
                              /\ out[k].type = "M_CONNECT_R+" => u[n].con = "ESTABLISHED"
    BY <1>5, <2>1, <2>2
  <2> QED
    BY <1>0, <1>5, <2>1, <2>2, <2>4, <2>5, RequestTurn DEF t, n
<1>6. CASE Turn(f, i, t, <<>>)
  <2> DEFINE out == <<>>
  <2>1. out \in Seq(Message) /\ out = <<>> /\ Evolves(t, t) /\ Turn(f, i, t, out)
    BY <1>2, <1>6, EvolvesSame
  <2>2. \A k \in DOMAIN out : /\ out[k].type \in Answer /\ out[k].name = AskedName(f)
                              /\ out[k].type = "M_CONNECT_R+" => t[n].con = "ESTABLISHED"
    OBVIOUS
  <2> HIDE DEF out
  <2>3. Kept' /\ AnswersKept' /\ Moved
    BY <1>0, <1>2, <2>1, <2>2, RequestTurn, ZenonT(60) DEF t, n
  <2> QED
    BY <1>0, <2>3
<1>7. CASE t[n].con = "CONNECTPENDING" /\ ProcessConResNega(f, i, t, n)
  <2> DEFINE u == [t EXCEPT ![n].con = "CONNECTPENDING", ![n].retries = @ + 1]
  <2>1. Turn(f, i, u, <<Msg("M_CONNECT_R-", t[n].local)>>)
    BY <1>7 DEF ProcessConResNega
  <2>2. Changes(t, n, u, "CONNECTPENDING", t[n].retries + 1)
    <3>1. "CONNECTPENDING" \in ConStatus /\ t[n].con # "ESTABLISHED"
      BY <1>7 DEF ConStatus
    <3> QED
      BY <1>2, <3>1, RowsChanged
  <2> HIDE DEF u
  <2>3. "M_CONNECT_R-" \in Answer /\ "M_CONNECT_R-" # "M_CONNECT_R+"
    BY DEF Answer
  <2>4. Kept' /\ AnswersKept' /\ Moved
    BY <1>5, <2>1, <2>2, <2>3
  <2> QED
    BY <1>0, <2>4
<1>8. CASE t[n].con = "CONNECTPENDING" /\ ProcessConResPosi(f, i, t, n)
  <2> DEFINE v == [t EXCEPT ![n].con = "ESTABLISHED",
                            ![n].enroll = IF IsMgmt(f) THEN "WAIT_START" ELSE @]
             e == IF IsMgmt(f) THEN "WAIT_START" ELSE t[n].enroll
             u == [t EXCEPT ![n].con = "ESTABLISHED", ![n].enroll = e]
  <2>0. v = u
    BY <1>2 DEF Row
  <2>1. Turn(f, i, u, <<Msg("M_CONNECT_R+", t[n].local)>>)
    <3>1. Turn(f, i, v, <<Msg("M_CONNECT_R+", t[n].local)>>)
      BY <1>8 DEF ProcessConResPosi
    <3> HIDE DEF u, v
    <3> QED
      BY <2>0, <3>1
  <2>2. Changes(t, n, u, "ESTABLISHED", t[n].retries)
    <3>1. "ESTABLISHED" \in ConStatus /\ t[n].con # "ESTABLISHED"
      BY <1>8 DEF ConStatus
    <3>2. e \in EnrollStatus
      BY <1>2 DEF EnrollStatus, Row
    <3> HIDE DEF e
    <3> QED
      BY <1>2, <3>1, <3>2, RowsChanged
  <2> HIDE DEF u
  <2>3. "M_CONNECT_R+" \in Answer
    BY DEF Answer
  <2>4. Kept' /\ AnswersKept' /\ Moved
    BY <1>5, <2>1, <2>2, <2>3
  <2> QED
    BY <1>0, <2>4
<1> QED
  BY <1>3, <1>6, <1>7, <1>8, SMTT(30)

-----------------------------------------------------------------------------
(* Reads and requests of the application.                                     *)

\* What a read of r puts on its flow.
LEMMA ReadMoves ==
    ASSUME IInv, ~aborted, NEW r \in Requests, ARead(r)
    PROVE /\ r \in Flows /\ Up(r) /\ Src(r) \in APs /\ Dst(r) \in APs /\ Src(r) # Dst(r)
          /\ chan \in [Flows -> [APs -> Seq(Message)]] /\ chan' \in [Flows -> [APs -> Seq(Message)]]
          /\ \A g \in Flows, e \in APs :
                \/ chan'[g][e] = chan[g][e]
                \/ /\ g = r /\ e = Dst(r)
                   /\ \E m \in Message : m.type = "M_READ" /\ chan'[g][e] = chan[g][e] \o <<m>>
<1>1. r \in Flows /\ ~IsMgmt(r)
  BY Apart DEF Flows, IsMgmt
<1>2. Up(r)
  BY DEF ARead, IInv, AnswersKept
<1>3. Src(r) \in APs /\ Dst(r) \in APs /\ Src(r) # Dst(r)
  BY <1>1, <1>2, EndsOf DEF IInv, Up
<1>4. Arrived(r, Src(r)) /\ Peer(r, Src(r)) = Dst(r)
  BY <1>2 DEF Arrived, Up, Peer
<1>5. Ports(r, Src(r)) \subseteq {r}
  BY <1>1 DEF Ports, Senders
<1> DEFINE i == Src(r)
           ports == Ports(r, Src(r))
           m == Here(r, Src(r), "M_READ")
           out == <<m>>
<1>6. m \in Message /\ m.type = "M_READ"
  <2>1. "M_READ" \in MessageType
    BY DEF MessageType
  <2> QED
    BY <1>1, <1>3, <1>4, <2>1, HereIs
<1>7. chan' = Sent(chan, ports, i, out) /\ chan \in [Flows -> [APs -> Seq(Message)]]
  BY DEF ARead, IInv, Types
<1> HIDE DEF i, ports, m
<1>8. out \in Seq(Message) /\ ports \in SUBSET Flows /\ \A g \in ports : Peer(g, i) \in APs
  BY <1>1, <1>3, <1>4, <1>5, <1>6 DEF i, ports
<1> HIDE DEF out
<1>9. /\ Sent(chan, ports, i, out) \in [Flows -> [APs -> Seq(Message)]]
      /\ \A g \in Flows, e \in APs :
            Sent(chan, ports, i, out)[g][e] = Got(chan, ports, i, out, g, e)
  BY <1>7, <1>8, SentAt
<1>10. ASSUME NEW g \in Flows, NEW e \in APs
       PROVE  \/ chan'[g][e] = chan[g][e]
              \/ g = r /\ e = Dst(r) /\ chan'[g][e] = chan[g][e] \o out
  BY <1>4, <1>5, <1>7, <1>9 DEF Got, i, ports
<1> QED
  BY <1>1, <1>2, <1>3, <1>6, <1>7, <1>9, <1>10 DEF out

LEMMA ReadCounted ==
    ASSUME IInv, ~aborted, NEW r \in Requests, ARead(r)
    PROVE /\ ReadsCounted' /\ OneAtATime'
          /\ \A g \in Flows : Up(g) => ((Carries(g))' <=> Carries(g))
<1>1. /\ r \in Flows /\ Up(r) /\ Src(r) \in APs /\ Dst(r) \in APs /\ Src(r) # Dst(r)
      /\ chan \in [Flows -> [APs -> Seq(Message)]] /\ chan' \in [Flows -> [APs -> Seq(Message)]]
      /\ \A g \in Flows, e \in APs :
            \/ chan'[g][e] = chan[g][e]
            \/ /\ g = r /\ e = Dst(r)
               /\ \E m \in Message : m.type = "M_READ" /\ chan'[g][e] = chan[g][e] \o <<m>>
  BY ReadMoves
<1>2. Fixed /\ alloc' = alloc
  BY DEF ARead, Fixed, rigid, flows
<1>3. ASSUME NEW g \in Flows, NEW e \in APs, NEW T
      PROVE  /\ Count(chan[g][e], T) \in Nat /\ Count(chan'[g][e], T) \in Nat
             /\ "M_READ" \notin T \/ ~(g = r /\ e = Dst(r)) =>
                    Count(chan'[g][e], T) = Count(chan[g][e], T)
             /\ Count(chan'[g][e], T) <= Count(chan[g][e], T) + 1
  <2>1. chan[g][e] \in Seq(Message) /\ chan'[g][e] \in Seq(Message)
    BY <1>1
  <2>2. Count(chan[g][e], T) \in Nat /\ Count(chan'[g][e], T) \in Nat
    BY <2>1, CountType
  <2>3. CASE chan'[g][e] = chan[g][e]
    BY <2>2, <2>3
  <2>4. CASE chan'[g][e] # chan[g][e]
    <3>1. PICK m \in Message : m.type = "M_READ" /\ chan'[g][e] = chan[g][e] \o <<m>>
      BY <1>1, <2>4
    <3> DEFINE out == <<m>>
    <3>2. out \in Seq(Message) /\ Len(out) = 1
          /\ ("M_READ" \notin T => \A k \in DOMAIN out : out[k].type \notin T)
      BY <3>1
    <3>3. chan'[g][e] = chan[g][e] \o out
      BY <3>1
    <3> HIDE DEF out
    <3>4. /\ (\A k \in DOMAIN out : out[k].type \notin T)
                => Count(chan[g][e] \o out, T) = Count(chan[g][e], T)
          /\ Len(out) = 1 => Count(chan[g][e] \o out, T) <= Count(chan[g][e], T) + 1
      BY <2>1, <3>2, CountSent
    <3>5. g = r /\ e = Dst(r)
      BY <1>1, <2>4
    <3> QED
      BY <2>2, <3>2, <3>3, <3>4, <3>5
  <2> QED
    BY <2>3, <2>4
<1>4. \A g \in Flows : (Src(g))' = Src(g) /\ (Dst(g))' = Dst(g) /\ ((Up(g))' <=> Up(g))
  BY <1>2, FixedEnds DEF Up
<1>5. OneAtATime'
  <2>1. ASSUME NEW g \in Flows, Up(g)
        PROVE  Count(chan'[g][Src(g)], CACETypes) + Count(chan'[g][Dst(g)], CACETypes) <= 1
    <3>1. Src(g) \in APs /\ Dst(g) \in APs
      BY <2>1, EndsOf DEF IInv, Up
    <3>2. "M_READ" \notin CACETypes
      BY DEF CACETypes
    <3>3. /\ Count(chan'[g][Src(g)], CACETypes) = Count(chan[g][Src(g)], CACETypes)
          /\ Count(chan'[g][Dst(g)], CACETypes) = Count(chan[g][Dst(g)], CACETypes)
      BY <1>3, <3>1, <3>2
    <3> QED
      BY <2>1, <3>3 DEF IInv, Running, OneAtATime
  <2> QED
    BY <1>4, <2>1 DEF OneAtATime
<1>6. ReadsCounted'
  <2>1. ASSUME NEW s \in Requests
        PROVE  results[s] + Count(chan'[s][Src(s)], ReadTypes)
                   + Count(chan'[s][Dst(s)], ReadTypes) <= reads'[s]
    <3>1. s \in Flows /\ Src(s) \in APs /\ Dst(s) \in APs
      BY Kinds, Apart DEF Flows, IsMgmt, IInv, Types
    <3>2. results[s] \in Nat /\ reads[s] \in Nat
      BY Apart DEF IInv, Types
    <3>3. reads'[s] = IF s = r THEN reads[s] + 1 ELSE reads[s]
      BY DEF ARead, IInv, Types
    <3>4. results[s] + Count(chan[s][Src(s)], ReadTypes) + Count(chan[s][Dst(s)], ReadTypes)
            <= reads[s]
      BY DEF IInv, ReadsCounted
    <3> DEFINE a == Count(chan[s][Src(s)], ReadTypes)
               b == Count(chan[s][Dst(s)], ReadTypes)
               c == Count(chan'[s][Src(s)], ReadTypes)
               d == Count(chan'[s][Dst(s)], ReadTypes)
    <3>5. a \in Nat /\ b \in Nat /\ c \in Nat /\ d \in Nat
      BY <1>3, <3>1
    <3>6. c = a
      BY <1>1, <1>3, <3>1
    <3>7. d <= b + 1 /\ (s # r => d = b)
      BY <1>3, <3>1
    <3> HIDE DEF a, b, c, d
    <3>8. results[s] + a + b <= reads[s]
      BY <3>4 DEF a, b
    <3>9. results[s] + c + d <= reads'[s]
      BY <3>2, <3>3, <3>5, <3>6, <3>7, <3>8
    <3> QED
      BY <3>9 DEF c, d
  <2>2. results' = results /\ \A s \in Requests : s \in Flows
    BY DEF ARead, Flows
  <2> QED
    BY <1>4, <2>1, <2>2 DEF ReadsCounted
<1>7. ASSUME NEW g \in Flows, Up(g) PROVE (Carries(g))' <=> Carries(g)
  <2>1. Dst(g) \in APs /\ chan[g][Dst(g)] \in Seq(Message) /\ chan'[g][Dst(g)] \in Seq(Message)
    BY <1>1, <1>7, EndsOf DEF IInv, Up
  <2>2. Count(chan'[g][Dst(g)], {"M_CONNECT"}) = Count(chan[g][Dst(g)], {"M_CONNECT"})
    BY <1>3, <2>1
  <2>3. Carries(g) <=> Count(chan[g][Dst(g)], {"M_CONNECT"}) # 0
    BY <2>1, CarriesCounted DEF IInv
  <2>4. \A s \in Seq(Message) : Count(s, {"M_CONNECT"}) # 0
                                    <=> \E k \in DOMAIN s : s[k].type = "M_CONNECT"
    BY CountType
  <2>5. (Carries(g))' <=> Count(chan'[g][Dst(g)], {"M_CONNECT"}) # 0
    BY <1>4, <1>7, <2>1, <2>4 DEF Carries
  <2> QED
    BY <2>2, <2>3, <2>5
<1> QED
  BY <1>5, <1>6, <1>7

LEMMA ReadKept ==
    ASSUME IInv, ~aborted, NEW r \in Requests, ARead(r)
    PROVE Kept' /\ AnswersKept' /\ Moved
<1>1. /\ plan' = plan /\ StateTable' = StateTable /\ alloc' = alloc /\ enrollTo' = enrollTo
      /\ mgmtName' = mgmtName /\ answers' = answers /\ aborted' = aborted /\ Fixed
  BY DEF ARead, Fixed, rigid, flows
<1>2. \A g : /\ (IsMgmt(g))' = IsMgmt(g) /\ (Src(g))' = Src(g) /\ (Dst(g))' = Dst(g)
             /\ (AskedName(g))' = AskedName(g) /\ (OwnName(g))' = OwnName(g)
  BY <1>1, FixedEnds
<1>3. \A g : (Up(g))' <=> Up(g)
  BY <1>1 DEF Up
<1>4. RowsOfFlows' /\ Asking' /\ RetriesBounded'
  <2>1. RowsOfFlows'
    BY <1>1, <1>2, <1>3 DEF IInv, RowsOfFlows, Brought, Mine, Theirs
  <2>2. Asking'
    BY <1>1, <1>2, <1>3 DEF IInv, Asking
  <2>3. RetriesBounded'
    BY <1>1 DEF IInv, RetriesBounded
  <2> QED
    BY <2>1, <2>2, <2>3
<1>5. \A g : (First(g))' = First(g)
  BY <1>1, <1>2 DEF First, FirstAt
<1>6. AnswersKept'
  BY <1>1, <1>3, <1>5 DEF IInv, AnswersKept
<1>7. /\ ReadsCounted' /\ OneAtATime'
      /\ \A g \in Flows : Up(g) => ((Carries(g))' <=> Carries(g))
  BY ReadCounted
<1>8. Running'
  <2>0. Running
    BY DEF IInv
  <2>1. NotBoth'
    BY <1>1, <1>3, <2>0 DEF Running, NotBoth
  <2>2. \A g, h : (Fellow(g, h))' <=> Fellow(g, h)
    BY <1>2 DEF Fellow
  <2>3. \A g : (Fellows(g))' = Fellows(g)
    BY <1>3, <2>2 DEF Fellows
  <2>4. \A g : (Carrying(g))' = Carrying(g)
    BY <1>7, <2>3 DEF Carrying, Fellows
  <2>5. RetriedFew'
    BY <1>3, <1>5, <2>0 DEF Running, RetriedFew
  <2>6. RefusedOnce'
    BY <1>1, <1>2, <1>3, <1>5, <2>0, <2>3, <2>4 DEF Running, RefusedOnce
  <2>7. Accepted' = Accepted
    BY <1>1 DEF Accepted, AcceptedBy
  <2>8. ASSUME NEW g \in Flows, NEW e \in APs, NEW k \in DOMAIN chan'[g][e]
        PROVE  (Sound(g, e, chan[g][e][k]))'
    <3>1. CASE k \in DOMAIN chan[g][e] /\ chan'[g][e][k] = chan[g][e][k]
      <4>1. Sound(g, e, chan[g][e][k])
        BY <2>0, <3>1 DEF Running, MessagesSound
      <4> DEFINE m == chan[g][e][k]
      <4>2. chan'[g][e][k] = m /\ Sound(g, e, m)
        BY <3>1, <4>1
      <4>3. PICK n : n = m
        OBVIOUS
      <4>4. Sound(g, e, n) /\ chan'[g][e][k] = n
        BY <4>2, <4>3
      <4>5. AllocKept /\ Accepted \subseteq Accepted'
        BY <1>1, <2>7, AllocSame
      <4>6. (Sound(g, e, n))'
        BY <1>1, <4>4, <4>5, SoundKept
      <4> QED
        BY <4>4, <4>6 DEF Sound
    <3>2. CASE ~(k \in DOMAIN chan[g][e] /\ chan'[g][e][k] = chan[g][e][k])
      <4>1. PICK m \in Message : m.type = "M_READ" /\ chan'[g][e] = chan[g][e] \o <<m>>
        <5>1. chan'[g][e] # chan[g][e]
          BY <2>8, <3>2
        <5>2. \A x \in Flows, y \in APs :
                \/ chan'[x][y] = chan[x][y]
                \/ /\ x = r /\ y = Dst(r)
                   /\ \E m \in Message : m.type = "M_READ" /\ chan'[x][y] = chan[x][y] \o <<m>>
          BY ReadMoves
        <5> QED
          BY <2>8, <5>1, <5>2
      <4>2. chan[g][e] \in Seq(Message)
        BY DEF IInv, Types
      <4> DEFINE out == <<m>>
      <4>3. out \in Seq(Message) /\ Len(out) = 1 /\ out[1] = m /\ chan'[g][e] = chan[g][e] \o out
        BY <4>1
      <4> HIDE DEF out
      <4>4. /\ Len(chan[g][e] \o out) = Len(chan[g][e]) + Len(out)
            /\ chan[g][e] \o out \in Seq(Message)
            /\ \A x \in 1 .. Len(chan[g][e]) + Len(out) : (chan[g][e] \o out)[x] =
                    IF x <= Len(chan[g][e]) THEN chan[g][e][x] ELSE out[x - Len(chan[g][e])]
        BY <4>2, <4>3, ConcatProperties
      <4>5. k \in 1 .. Len(chan[g][e]) + 1 /\ Len(chan[g][e]) \in Nat
            /\ DOMAIN chan[g][e] = 1 .. Len(chan[g][e])
        BY <2>8, <4>2, <4>3, <4>4
      <4>6. k = Len(chan[g][e]) + 1
        BY <3>2, <4>3, <4>4, <4>5
      <4>7. chan'[g][e][k] = m
        BY <4>3, <4>4, <4>5, <4>6
      <4> QED
        BY <4>1, <4>7 DEF Sound, OfCACE
    <3> QED
      BY <3>1, <3>2
  <2>9. MessagesSound'
    BY <2>8 DEF MessagesSound
  <2> QED
    BY <1>7, <2>1, <2>5, <2>6, <2>9 DEF Running
<1>9. Moved
  BY <1>1, ReadMoves DEF Moved, IInv, Types
<1> QED
  BY <1>4, <1>6, <1>7, <1>8, <1>9 DEF Kept

\* What the variables are beside tables and messages.
Around ==
    /\ plan \in Plans /\ refusing \in Refusals
    /\ isEnrolled \in [APs -> {"NOT_ENROLLED", "ENROLLING", "ENROLLED"}]
    /\ ConReqStack \in [APs -> SUBSET Requests]
    /\ enrollTo \in [APs -> APs \cup {None}]
    /\ mgmtName \in [APs -> MgmtNames \cup {None}]
    /\ alloc \in [Flows -> {"none", "asked", "accepted", "up", "failed"}]
    /\ ConTable \in [APs -> [Names -> Flows \cup {None}]]
    /\ asked \subseteq Requests
    /\ answers \in [Requests -> 0 .. 1]
    /\ reads \in [Requests -> 0 .. MaxReads]
    /\ results \in [Requests -> Nat]
    /\ lost \in 0 .. MaxLoss

LEMMA PlanTyped ==
    ASSUME plan \in Plans
    PROVE /\ plan \in [Requests -> [from : APs, to : APs]]
          /\ \A r \in Requests : plan[r].from # plan[r].to
  BY ApplicationAssumption

LEMMA AroundTypes ==
    ASSUME Around', Moved
    PROVE Types'
<1>1. plan' \in Plans
  BY DEF Around
<1>2. /\ plan' \in [Requests -> [from : APs, to : APs]]
      /\ \A r \in Requests : plan'[r].from # plan'[r].to
  BY <1>1, ApplicationAssumption
<1> QED
  BY <1>2 DEF Around, Moved, Types

LEMMA NotBothKept ==
    ASSUME NotBoth, \A g \in Flows : (Up(g))' <=> Up(g),
           \A g \in APs : Up(g) => enrollTo'[g] = enrollTo[g]
    PROVE NotBoth'
<1>1. \A g \in APs : g \in Flows
  BY DEF Flows
<1> QED
  BY <1>1 DEF NotBoth

\* A flow that is asked for is taken by the other side, or refused.
Pending(f) == ReceiveAllocationRequestFromFAI(f) \/ ReceiveAllocationResponseNegative(f)

LEMMA PendingKept ==
    ASSUME IInv, ~aborted, NEW f \in Flows, Pending(f)
    PROVE IInv'
<1>1. /\ alloc[f] = "asked" /\ plan' = plan /\ refusing' = refusing /\ enrollTo' = enrollTo
      /\ mgmtName' = mgmtName /\ StateTable' = StateTable /\ chan' = chan /\ answers' = answers
      /\ reads' = reads /\ results' = results /\ aborted' = aborted /\ Fixed
      /\ isEnrolled' = isEnrolled /\ ConReqStack' = ConReqStack /\ asked' = asked /\ lost' = lost
  BY DEF Pending, ReceiveAllocationRequestFromFAI, ReceiveAllocationResponseNegative, rigid, app,
         Fixed
<1>2. PICK state \in {"accepted", "failed"} : alloc' = [alloc EXCEPT ![f] = state]
  BY DEF Pending, ReceiveAllocationRequestFromFAI, ReceiveAllocationResponseNegative
<1>3. Types /\ Stages
  BY DEF IInv
<1>4. /\ \A g \in Flows : alloc'[g] = IF g = f THEN state ELSE alloc[g]
      /\ alloc' \in [Flows -> {"none", "asked", "accepted", "up", "failed"}]
  BY <1>2, <1>3 DEF Types
<1>5. \A g \in Flows : (Up(g))' <=> Up(g)
  BY <1>1, <1>4 DEF Up
<1>6. /\ RowsOfFlows' /\ Asking' /\ ReadsCounted' /\ AnswersKept' /\ RetriesBounded'
      /\ ~aborted' => MessagesSound' /\ OneAtATime' /\ RetriedFew' /\ RefusedOnce'
  <2>1. \A g \in Flows : (Dst(g))' = Dst(g) /\ (OwnName(g))' = OwnName(g) /\ (Src(g))' = Src(g)
    BY <1>1, FixedEnds
  <2> QED
    BY <1>1, <1>5, <2>1, Untouched
<1>7. NotBoth'
  <2>1. NotBoth
    BY DEF IInv, Running
  <2> QED
    BY <1>1, <1>5, <2>1, NotBothKept
<1>8. ConTable' \in [APs -> [Names -> Flows \cup {None}]]
  <2>1. CASE ConTable' = ConTable
    BY <1>3, <2>1 DEF Types
  <2>2. CASE Bind(f, Dst(f))
    <3>1. Src(f) \in APs /\ Dst(f) \in APs /\ Src(f) # Dst(f) /\ AskedName(f) \in Names
      BY <1>1, <1>3, EndsOf
    <3>2. LocalName(f, Dst(f)) \in Names
      BY <3>1 DEF LocalName
    <3>3. ConTable \in [APs -> [Names -> Flows \cup {None}]]
      BY <1>3 DEF Types
    <3> DEFINE j == Dst(f)
               x == LocalName(f, Dst(f))
    <3>4. ConTable' = [ConTable EXCEPT ![j][x] = f] /\ j \in APs /\ x \in Names
      BY <2>2, <3>1, <3>2 DEF Bind
    <3> HIDE DEF j, x
    <3> QED
      BY <3>3, <3>4
  <2> QED
    BY <2>1, <2>2 DEF Pending, ReceiveAllocationRequestFromFAI, ReceiveAllocationResponseNegative
<1>9. Around'
  BY <1>1, <1>3, <1>4, <1>8 DEF Types, Around
<1>10. Stages'
  <2>1. \A i \in APs : i \in Flows
    BY DEF Flows
  <2>2. \A r \in Requests : r \in Flows
    BY DEF Flows
  <2>3. \A g \in Flows : alloc'[g] # "none" <=> alloc[g] # "none"
    BY <1>1, <1>4
  <2> QED
    BY <1>1, <1>3, <2>1, <2>2, <2>3 DEF Stages, Types
<1>11. Moved
  BY <1>1, <1>3 DEF Moved, Types
<1>12. Types'
  BY <1>9, <1>11, AroundTypes
<1> QED
  BY <1>6, <1>7, <1>10, <1>12 DEF IInv, Running

\* A request of an application, whether it has its process enroll, waits or is started.
LEMMA OpenChanges ==
    ASSUME IInv, NEW r \in Requests, AOpen(r)
    PROVE /\ Around' /\ Stages'
          /\ \A g \in Flows : (Up(g))' <=> Up(g)
          /\ \A g \in Flows : Up(g) => /\ (Dst(g))' = Dst(g) /\ (OwnName(g))' = OwnName(g)
                                       /\ (Src(g))' = Src(g)
          /\ \A g \in APs : Up(g) => enrollTo'[g] = enrollTo[g]
<1> DEFINE i == plan[r].from
<1>1. Types /\ Stages
  BY DEF IInv
<1>2. i \in APs /\ plan[r].to \in APs /\ plan[r].to # i /\ i \in Flows /\ r \in Flows
      /\ i \notin Requests
  BY <1>1, Apart DEF Types, Flows
<1>3. /\ r \notin asked /\ asked' = asked \cup {r} /\ plan' = plan /\ refusing' = refusing
      /\ answers' = answers /\ reads' = reads /\ results' = results /\ lost' = lost
  BY DEF AOpen, rigid
<1>4. alloc[r] = "none"
  BY <1>1, <1>3 DEF Stages, Types
<1>5. CASE isEnrolled[i] = "NOT_ENROLLED" /\ isEnrolled' = [isEnrolled EXCEPT ![i] = "ENROLLING"]
           /\ ConReqStack' = [ConReqStack EXCEPT ![i] = @ \cup {r}] /\ CheckEnrolled(i, plan[r].to)
  <2>1. alloc[i] = "none"
    BY <1>1, <1>2, <1>5 DEF Stages
  <2>2. /\ enrollTo' = [enrollTo EXCEPT ![i] = plan[r].to] /\ ConTable' = ConTable
        /\ alloc' = [alloc EXCEPT ![i] = "asked"]
        /\ \E x \in MgmtNames : mgmtName' = [mgmtName EXCEPT ![i] = x]
    BY <1>5 DEF CheckEnrolled, CurrentMgmtAEInstance, MgmtNames
  <2> HIDE DEF i
  <2>3. Around'
    BY <1>1, <1>2, <1>3, <1>5, <2>2 DEF Types, Around
  <2>4. /\ \A g \in Flows : alloc'[g] = IF g = i THEN "asked" ELSE alloc[g]
        /\ \A g \in APs : enrollTo'[g] = IF g = i THEN plan[r].to ELSE enrollTo[g]
        /\ \A g \in APs : g # i => mgmtName'[g] = mgmtName[g]
        /\ mgmtName'[i] \in MgmtNames
        /\ \A g \in APs : isEnrolled'[g] = IF g = i THEN "ENROLLING" ELSE isEnrolled[g]
        /\ \A g \in APs : ConReqStack'[g] = IF g = i THEN ConReqStack[i] \cup {r}
                                            ELSE ConReqStack[g]
    BY <1>1, <1>2, <1>5, <2>2 DEF Types
  <2>5. Stages'
    <3>1. \A g \in APs : g \in Flows
      BY DEF Flows
    <3>2. ASSUME NEW g \in APs, alloc'[g] # "none"
          PROVE  /\ enrollTo'[g] \in APs /\ enrollTo'[g] # g /\ mgmtName'[g] \in MgmtNames
                 /\ isEnrolled'[g] # "NOT_ENROLLED" /\ asked' # {}
      <4>1. CASE g = i
        BY <1>2, <1>3, <2>4, <4>1
      <4>2. CASE g # i
        BY <1>1, <1>3, <2>4, <3>1, <3>2, <4>2 DEF Stages
      <4> QED
        BY <4>1, <4>2
    <3>3. \A x \in Requests : alloc'[x] = alloc[x]
      BY <1>2, <2>4 DEF Flows
    <3>4. \A x \in Requests : alloc'[x] # "none" => x \in asked'
      BY <1>1, <1>3, <3>3 DEF Stages
    <3>5. ASSUME NEW g \in APs, NEW x \in Requests, x \in ConReqStack'[g]
          PROVE  x \in asked' /\ alloc'[x] = "none" /\ plan'[x].from = g
      <4>1. CASE g = i /\ x = r
        BY <1>3, <1>4, <3>3, <4>1 DEF i
      <4>2. CASE x \in ConReqStack[g]
        BY <1>1, <1>3, <3>3, <4>2 DEF Stages
      <4> QED
        BY <2>4, <3>5, <4>1, <4>2
    <3> QED
      BY <1>3, <3>2, <3>4, <3>5 DEF Stages
  <2>6. \A g \in Flows : (Up(g))' <=> Up(g)
    BY <2>1, <2>4 DEF Up
  <2>7. \A g \in Flows : Up(g) => g # i
    BY <2>1 DEF Up
  <2>8. ASSUME NEW g \in Flows, Up(g)
        PROVE  (Dst(g))' = Dst(g) /\ (OwnName(g))' = OwnName(g) /\ (Src(g))' = Src(g)
    BY <1>3, <2>4, <2>7, <2>8 DEF Dst, Src, OwnName, IsMgmt
  <2> QED
    BY <2>3, <2>4, <2>5, <2>6, <2>7, <2>8, <1>2 DEF Flows
<1>6. ASSUME enrollTo' = enrollTo, mgmtName' = mgmtName, ConTable' = ConTable,
             isEnrolled' = isEnrolled, isEnrolled[i] # "NOT_ENROLLED",
             \/ /\ alloc' = alloc /\ ConReqStack' = [ConReqStack EXCEPT ![i] = @ \cup {r}]
             \/ /\ CreateIAE({r}) /\ ConReqStack' = ConReqStack
      PROVE  /\ Around' /\ Stages'
             /\ \A g \in Flows : (Up(g))' <=> Up(g)
             /\ \A g \in Flows : /\ (Dst(g))' = Dst(g) /\ (OwnName(g))' = OwnName(g)
                                 /\ (Src(g))' = Src(g)
  <2>1. Fixed
    BY <1>3, <1>6 DEF Fixed
  <2>2. \A g \in Flows : /\ (Dst(g))' = Dst(g) /\ (OwnName(g))' = OwnName(g) /\ (Src(g))' = Src(g)
    BY <2>1, FixedEnds
  <2> HIDE DEF i
  <2>a. /\ alloc \in [Flows -> {"none", "asked", "accepted", "up", "failed"}]
        /\ ConReqStack \in [APs -> SUBSET Requests]
    BY <1>1 DEF Types
  <2>b. ASSUME alloc' = alloc, ConReqStack' = [ConReqStack EXCEPT ![i] = @ \cup {r}]
      PROVE  /\ alloc' \in [Flows -> {"none", "asked", "accepted", "up", "failed"}]
             /\ \A g \in Flows : g # r => alloc'[g] = alloc[g]
             /\ alloc'[r] \in {"none", "asked"}
             /\ ConReqStack' \in [APs -> SUBSET Requests]
             /\ alloc'[r] = "asked" => ConReqStack' = ConReqStack
             /\ \A g \in APs : \A x \in ConReqStack'[g] : x \in ConReqStack[g] \/ (x = r /\ g = i)
    <3>1. ConReqStack' \in [APs -> SUBSET Requests]
          /\ \A g \in APs : \A x \in ConReqStack'[g] : x \in ConReqStack[g] \/ (x = r /\ g = i)
      BY <1>2, <2>a, <2>b
    <3> QED
      BY <1>2, <1>4, <2>a, <2>b, <3>1
  <2>d. ASSUME CreateIAE({r}), ConReqStack' = ConReqStack
      PROVE  /\ alloc' \in [Flows -> {"none", "asked", "accepted", "up", "failed"}]
             /\ \A g \in Flows : g # r => alloc'[g] = alloc[g]
             /\ alloc'[r] \in {"none", "asked"}
             /\ ConReqStack' \in [APs -> SUBSET Requests]
             /\ alloc'[r] = "asked" => ConReqStack' = ConReqStack
             /\ \A g \in APs : \A x \in ConReqStack'[g] : x \in ConReqStack[g] \/ (x = r /\ g = i)
    <3>1. \A g \in Flows : alloc'[g] = IF g = r THEN "asked" ELSE alloc[g]
      BY <2>d DEF CreateIAE
    <3>2. alloc' \in [Flows -> {"none", "asked", "accepted", "up", "failed"}]
      BY <2>a, <2>d DEF CreateIAE
    <3> QED
      BY <1>2, <2>a, <2>d, <3>1, <3>2
  <2>c. /\ alloc' \in [Flows -> {"none", "asked", "accepted", "up", "failed"}]
        /\ \A g \in Flows : g # r => alloc'[g] = alloc[g]
        /\ alloc'[r] \in {"none", "asked"}
        /\ ConReqStack' \in [APs -> SUBSET Requests]
        /\ alloc'[r] = "asked" => ConReqStack' = ConReqStack
        /\ \A g \in APs : \A x \in ConReqStack'[g] : x \in ConReqStack[g] \/ (x = r /\ g = i)
    BY <1>6, <2>b, <2>d
  <2>3. /\ alloc' \in [Flows -> {"none", "asked", "accepted", "up", "failed"}]
        /\ \A g \in Flows : g # r => alloc'[g] = alloc[g]
        /\ alloc'[r] \in {"none", "asked"}
        /\ ConReqStack' \in [APs -> SUBSET Requests]
        /\ alloc'[r] = "asked" => ConReqStack' = ConReqStack
    BY <2>c
  <2>4. Around'
    BY <1>1, <1>3, <1>6, <2>3 DEF Types, Around
  <2>5. \A g \in Flows : (Up(g))' <=> Up(g)
    BY <1>4, <2>3 DEF Up
  <2>6. \A g \in APs : \A x \in ConReqStack'[g] : x \in ConReqStack[g] \/ (x = r /\ g = i)
    BY <1>1, <1>2, <2>c
  <2>7. \A g \in APs : r \notin ConReqStack[g]
    BY <1>1, <1>3 DEF Stages
  <2>8. Stages'
    <3>1. \A g \in APs : g \in Flows /\ g # r
      BY Apart DEF Flows
    <3>2. \A g \in APs : alloc'[g] # "none" =>
            /\ enrollTo'[g] \in APs /\ enrollTo'[g] # g /\ mgmtName'[g] \in MgmtNames
            /\ isEnrolled'[g] # "NOT_ENROLLED" /\ asked' # {}
      BY <1>1, <1>3, <1>6, <2>3, <3>1 DEF Stages
    <3>3. \A x \in Requests : x \in Flows
      BY DEF Flows
    <3>4. \A x \in Requests : alloc'[x] # "none" => x \in asked'
      BY <1>1, <1>3, <2>3, <3>3 DEF Stages
    <3>5. ASSUME NEW g \in APs, NEW x \in Requests, x \in ConReqStack'[g]
          PROVE  x \in asked' /\ alloc'[x] = "none" /\ plan'[x].from = g
      <4>1. CASE x = r
        <5>1. g = i /\ alloc'[r] # "asked"
          BY <2>3, <2>6, <2>7, <3>5, <4>1
        <5> QED
          BY <1>3, <2>3, <4>1, <5>1 DEF i
      <4>2. CASE x # r
        BY <1>1, <1>3, <2>3, <2>6, <3>3, <3>5, <4>2 DEF Stages
      <4> QED
        BY <4>1, <4>2
    <3>6. \A g \in APs : isEnrolled'[g] # "NOT_ENROLLED" => asked' # {}
      BY <1>3
    <3> QED
      BY <3>2, <3>4, <3>5, <3>6 DEF Stages
  <2> QED
    BY <2>2, <2>4, <2>5, <2>8
<1>7. CASE isEnrolled[i] = "ENROLLING" /\ UNCHANGED <<isEnrolled, flows>>
           /\ ConReqStack' = [ConReqStack EXCEPT ![i] = @ \cup {r}]
  BY <1>6, <1>7 DEF flows
<1>8. CASE isEnrolled[i] = "ENROLLED" /\ CreateIAE({r})
           /\ UNCHANGED <<isEnrolled, ConReqStack, enrollTo, mgmtName, ConTable>>
  BY <1>6, <1>8
<1> QED
  BY <1>5, <1>7, <1>8 DEF AOpen

LEMMA OpenKept ==
    ASSUME IInv, ~aborted, NEW r \in Requests, AOpen(r)
    PROVE IInv'
<1>1. /\ plan' = plan /\ StateTable' = StateTable /\ chan' = chan /\ answers' = answers
      /\ reads' = reads /\ results' = results /\ aborted' = aborted
  BY DEF AOpen, rigid
<1>2. /\ Around' /\ Stages'
      /\ \A g \in Flows : (Up(g))' <=> Up(g)
      /\ \A g \in Flows : Up(g) => /\ (Dst(g))' = Dst(g) /\ (OwnName(g))' = OwnName(g)
                                   /\ (Src(g))' = Src(g)
      /\ \A g \in APs : Up(g) => enrollTo'[g] = enrollTo[g]
  BY OpenChanges
<1>3. /\ RowsOfFlows' /\ Asking' /\ ReadsCounted' /\ AnswersKept' /\ RetriesBounded'
      /\ ~aborted' => MessagesSound' /\ OneAtATime' /\ RetriedFew' /\ RefusedOnce'
  BY <1>1, <1>2, Untouched
<1>4. NotBoth'
  <2>1. NotBoth
    BY DEF IInv, Running
  <2> QED
    BY <1>2, <2>1, NotBothKept
<1>5. Types'
  <2>1. Moved
    BY <1>1 DEF Moved, IInv, Types
  <2> QED
    BY <1>2, <2>1, AroundTypes
<1> QED
  BY <1>2, <1>3, <1>4, <1>5 DEF IInv, Running

-----------------------------------------------------------------------------
(* The invariant.                                                             *)

\* The flow is up for the end that asked.
LEMMA PositiveAllocated ==
    ASSUME IInv, ~aborted, NEW f \in Flows, ReceiveAllocationResponsePositive(f)
    PROVE IInv'
<1>1. /\ alloc[f] = "accepted" /\ plan' = plan /\ refusing' = refusing /\ enrollTo' = enrollTo
      /\ mgmtName' = mgmtName /\ answers' = answers
      /\ reads' = reads /\ results' = results /\ isEnrolled' = isEnrolled
      /\ ConReqStack' = ConReqStack /\ asked' = asked /\ lost' = lost
      /\ alloc' = [alloc EXCEPT ![f] = "up"]
  BY DEF ReceiveAllocationResponsePositive, rigid, app
<1>2. Types /\ Stages
  BY DEF IInv
<1>3. PICK n, ports : Starts(f, n, ports)
  BY PositiveStarts
<1>4. /\ RowsOfFlows' /\ Asking' /\ ReadsCounted' /\ AnswersKept' /\ RetriesBounded'
      /\ ~aborted' => Running'
  BY <1>1, <1>3, StartsKept
<1>5. ConTable' \in [APs -> [Names -> Flows \cup {None}]]
  <2> DEFINE j == Src(f)
             x == LocalName(f, Src(f))
  <2>1. j \in APs /\ x \in Names
    BY <1>1, <1>2, EndsOf DEF LocalName
  <2>2. ConTable' = [ConTable EXCEPT ![j][x] = f]
    BY DEF ReceiveAllocationResponsePositive, Bind
  <2>3. ConTable \in [APs -> [Names -> Flows \cup {None}]]
    BY <1>2 DEF Types
  <2> HIDE DEF j, x
  <2> QED
    BY <2>1, <2>2, <2>3
<1>6. /\ \A g \in Flows : alloc'[g] = IF g = f THEN "up" ELSE alloc[g]
      /\ alloc' \in [Flows -> {"none", "asked", "accepted", "up", "failed"}]
  BY <1>1, <1>2 DEF Types
<1>7. Around'
  BY <1>1, <1>2, <1>5, <1>6 DEF Types, Around
<1>8. Stages'
  <2>1. \A i \in APs : i \in Flows
    BY DEF Flows
  <2>2. \A r \in Requests : r \in Flows
    BY DEF Flows
  <2>3. \A g \in Flows : alloc'[g] # "none" <=> alloc[g] # "none"
    BY <1>1, <1>6
  <2> QED
    BY <1>1, <1>2, <2>1, <2>2, <2>3 DEF Stages, Types
<1>9. Moved
  <2>1. aborted' \in BOOLEAN
    BY DEF ReceiveAllocationResponsePositive, StartCACE, Fatal
  <2> QED
    BY <1>3, <2>1, StartsSends, StartsMoves DEF Moved
<1>10. Types'
  BY <1>7, <1>9, AroundTypes
<1> QED
  BY <1>4, <1>8, <1>10 DEF IInv

\* What a message does to the application process.
LEMMA HandledProcess ==
    ASSUME NEW f, NEW i, Handled(f, i) \/ Discarded(f, i)
    PROVE /\ asked' = asked
          /\ \/ UNCHANGED <<isEnrolled, ConReqStack, alloc>>
             \/ /\ alloc' = [g \in Flows |-> IF g \in ConReqStack[i] THEN "asked" ELSE alloc[g]]
                /\ ConReqStack' = [ConReqStack EXCEPT ![i] = {}]
                /\ isEnrolled' = [isEnrolled EXCEPT ![i] = "ENROLLED"]
<1>1. CASE Discarded(f, i)
  BY <1>1, SMTT(30) DEF Discarded, app
<1>2. CASE ReceiveConnectRequest(f, i) /\ UNCHANGED alloc
  BY <1>2 DEF ReceiveConnectRequest, app
<1>3. CASE ReceivePositiveConnectResponse(f, i) /\ UNCHANGED alloc
  BY <1>3 DEF ReceivePositiveConnectResponse, CACEFinished, app
<1>4. CASE ReceiveNegativeConnectResponse(f, i) /\ UNCHANGED alloc
  BY <1>4 DEF ReceiveNegativeConnectResponse, app
<1>5. CASE ReceiveStartEnrollmentRequest(f, i) /\ UNCHANGED alloc
  BY <1>5 DEF ReceiveStartEnrollmentRequest, Unexpected, app
<1>6. CASE ReceiveStartEnrollmentResponse(f, i) /\ UNCHANGED alloc
  BY <1>6 DEF ReceiveStartEnrollmentResponse, Unexpected, app
<1>7. CASE ReceiveStopEnrollmentResponse(f, i) /\ UNCHANGED alloc
  BY <1>7 DEF ReceiveStopEnrollmentResponse, Unexpected, app
<1>8. CASE ProcessMRead(f, i) /\ UNCHANGED alloc
  BY <1>8 DEF ProcessMRead, app
<1>9. CASE ProcessMReadR(f, i) /\ UNCHANGED alloc
  BY <1>9 DEF ProcessMReadR, app
<1>10. CASE ReceiveStopEnrollmentRequest(f, i)
  BY <1>10 DEF ReceiveStopEnrollmentRequest, Unexpected, app, StartRequestedConnections, CreateIAE
<1> QED
  BY <1>1, <1>2, <1>3, <1>4, <1>5, <1>6, <1>7, <1>8, <1>9, <1>10 DEF Handled

\* What waited for the enrollment is asked for once.
LEMMA ProcessKept ==
    ASSUME IInv, ~aborted, NEW f \in Flows, NEW i \in APs, HandleMessage(f, i)
    PROVE /\ Fixed /\ AllocKept /\ Stages'
          /\ isEnrolled' \in [APs -> {"NOT_ENROLLED", "ENROLLING", "ENROLLED"}]
          /\ ConReqStack' \in [APs -> SUBSET Requests]
<1>1. /\ plan' = plan /\ enrollTo' = enrollTo /\ mgmtName' = mgmtName /\ Fixed
      /\ Arrived(f, i)
  BY DEF HandleMessage, Fixed, rigid
<1>2. Types /\ Stages
  BY DEF IInv
<1>3. /\ asked' = asked
      /\ \/ UNCHANGED <<isEnrolled, ConReqStack, alloc>>
         \/ /\ alloc' = [g \in Flows |-> IF g \in ConReqStack[i] THEN "asked" ELSE alloc[g]]
            /\ ConReqStack' = [ConReqStack EXCEPT ![i] = {}]
            /\ isEnrolled' = [isEnrolled EXCEPT ![i] = "ENROLLED"]
  BY HandledProcess DEF HandleMessage
<1>4. asked # {}
  <2>1. alloc[f] # "none"
    BY <1>1, <1>2, ArrivedEnd
  <2>2. f \in APs \/ f \in Requests
    BY DEF Flows
  <2> QED
    BY <1>2, <2>1, <2>2 DEF Stages
<1>5. CASE UNCHANGED <<isEnrolled, ConReqStack, alloc>>
  <2>1. AllocKept
    BY <1>5, AllocSame
  <2>2. Stages'
    BY <1>1, <1>2, <1>3, <1>5 DEF Stages
  <2> QED
    BY <1>1, <1>2, <1>5, <2>1, <2>2 DEF Types
<1>6. CASE /\ alloc' = [g \in Flows |-> IF g \in ConReqStack[i] THEN "asked" ELSE alloc[g]]
           /\ ConReqStack' = [ConReqStack EXCEPT ![i] = {}]
           /\ isEnrolled' = [isEnrolled EXCEPT ![i] = "ENROLLED"]
  <2>1. /\ \A g \in Flows : alloc'[g] = IF g \in ConReqStack[i] THEN "asked" ELSE alloc[g]
        /\ \A j \in APs : ConReqStack'[j] = IF j = i THEN {} ELSE ConReqStack[j]
        /\ \A j \in APs : isEnrolled'[j] = IF j = i THEN "ENROLLED" ELSE isEnrolled[j]
        /\ \A j \in APs : ConReqStack[j] \subseteq Requests
    BY <1>2, <1>6 DEF Types
  <2>2. \A r \in ConReqStack[i] : r \in Requests /\ alloc[r] = "none" /\ r \in asked
    BY <1>2, <2>1 DEF Stages
  <2>3. AllocKept
    <3>1. alloc' \in [Flows -> {"none", "asked", "accepted", "up", "failed"}]
      BY <1>2, <1>6 DEF Types
    <3> QED
      BY <2>1, <2>2, <3>1 DEF AllocKept
  <2>4. Stages'
    <3>1. \A j \in APs : j \in Flows /\ j \notin ConReqStack[i]
      BY <2>1, Apart DEF Flows
    <3>2. \A r \in Requests : r \in Flows
      BY DEF Flows
    <3>3. \A j \in APs : alloc'[j] # "none" =>
            /\ enrollTo'[j] \in APs /\ enrollTo'[j] # j /\ mgmtName'[j] \in MgmtNames
            /\ isEnrolled'[j] # "NOT_ENROLLED" /\ asked' # {}
      BY <1>1, <1>2, <1>3, <2>1, <3>1 DEF Stages
    <3>4. \A r \in Requests : alloc'[r] # "none" => r \in asked'
      BY <1>2, <1>3, <2>1, <2>2, <3>2 DEF Stages
    <3>5. ASSUME NEW j \in APs, NEW r \in Requests, r \in ConReqStack'[j]
          PROVE  r \in asked' /\ alloc'[r] = "none" /\ plan'[r].from = j
      <4>1. j # i /\ r \in ConReqStack[j]
        BY <2>1, <3>5
      <4>2. r \in asked /\ alloc[r] = "none" /\ plan[r].from = j
        BY <1>2, <4>1 DEF Stages
      <4>3. r \notin ConReqStack[i]
        BY <1>2, <4>1, <4>2 DEF Stages
      <4> QED
        BY <1>1, <1>3, <2>1, <3>2, <4>2, <4>3
    <3>6. \A j \in APs : isEnrolled'[j] # "NOT_ENROLLED" => asked' # {}
      BY <1>3, <1>4
    <3> QED
      BY <3>3, <3>4, <3>5, <3>6 DEF Stages
  <2>5. /\ isEnrolled' \in [APs -> {"NOT_ENROLLED", "ENROLLING", "ENROLLED"}]
        /\ ConReqStack' \in [APs -> SUBSET Requests]
    BY <1>2, <1>6 DEF Types
  <2> QED
    BY <1>1, <2>3, <2>4, <2>5
<1> QED
  BY <1>3, <1>5, <1>6

\* What the applications hear with a message: that a connection is open or the result of a
\* read, or nothing.
Hears(f) ==
    \/ SameCounts
    \/ /\ f \in Requests /\ answers[f] = 0 /\ plan[f] \in Accepted
       /\ answers' = [answers EXCEPT ![f] = @ + 1] /\ reads' = reads /\ results' = results
    \/ /\ f \in Requests => results[f] < reads[f]
       /\ results' = [results EXCEPT ![f] = @ + 1] /\ reads' = reads /\ answers' = answers

LEMMA HandledKept ==
    ASSUME IInv, ~aborted, NEW f \in Flows, NEW i \in APs, HandleMessage(f, i), Fixed, AllocKept
    PROVE Kept' /\ AnswersKept' /\ Moved /\ Hears(f)
<1>1. chan[f][i] # <<>> /\ Arrived(f, i) /\ (Handled(f, i) \/ Discarded(f, i))
  BY DEF HandleMessage
<1>2. CASE Discarded(f, i)
  <2>1. SameCounts /\ chan' = Taken(f, i) /\ StateTable' = StateTable /\ aborted' = aborted
    BY <1>2 DEF Discarded, SameCounts, app
  <2> QED
    BY <1>1, <2>1, TakenKept DEF Hears
<1>3. CASE ReceiveConnectRequest(f, i)
  BY <1>1, <1>3, RequestKept DEF Hears
<1>4. CASE ReceivePositiveConnectResponse(f, i)
  <2>1. /\ Kept' /\ AnswersKept' /\ Moved /\ reads' = reads /\ results' = results
        /\ \/ answers' = answers
           \/ /\ f \in Requests /\ answers[f] = 0 /\ plan[f] \in Accepted
              /\ answers' = [answers EXCEPT ![f] = @ + 1]
    BY <1>1, <1>4, PositiveKept
  <2>2. Hears(f)
    BY <2>1 DEF Hears, SameCounts
  <2> QED
    BY <2>1, <2>2
<1>5. CASE ReceiveNegativeConnectResponse(f, i)
  BY <1>1, <1>5, NegativeKept DEF Hears
<1>6. CASE ProcessMReadR(f, i)
  <2>1. /\ Kept' /\ AnswersKept' /\ Moved
        /\ f \in Requests => results[f] < reads[f]
    BY <1>1, <1>6, ResultKept
  <2>2. Hears(f)
    BY <1>6, <2>1 DEF Hears, ProcessMReadR
  <2> QED
    BY <2>1, <2>2
<1>7. CASE Others(f, i)
  <2>1. SameCounts
    <3>1. CASE UNCHANGED app
      BY <3>1 DEF SameCounts, app
    <3>2. CASE StartRequestedConnections(i)
      BY <3>2 DEF SameCounts, StartRequestedConnections
    <3> QED
      BY <1>7, <3>1, <3>2 DEF Others, ReceiveStartEnrollmentRequest,
         ReceiveStartEnrollmentResponse, ReceiveStopEnrollmentRequest,
         ReceiveStopEnrollmentResponse, ProcessMRead, Unexpected
  <2> QED
    BY <1>1, <1>7, <2>1, OthersKept DEF Hears
<1> QED
  BY <1>1, <1>2, <1>3, <1>4, <1>5, <1>6, <1>7 DEF Handled, Others

LEMMA MessageKept ==
    ASSUME IInv, ~aborted, NEW f \in Flows, NEW i \in APs, HandleMessage(f, i)
    PROVE IInv'
<1>1. /\ Fixed /\ AllocKept /\ Stages'
      /\ isEnrolled' \in [APs -> {"NOT_ENROLLED", "ENROLLING", "ENROLLED"}]
      /\ ConReqStack' \in [APs -> SUBSET Requests]
  BY ProcessKept
<1>2. Kept' /\ AnswersKept' /\ Moved /\ Hears(f)
  BY <1>1, HandledKept
<1>3. Types
  BY DEF IInv
<1>4. answers' \in [Requests -> 0 .. 1] /\ results' \in [Requests -> Nat] /\ reads' = reads
  <2>1. answers \in [Requests -> 0 .. 1] /\ results \in [Requests -> Nat]
    BY <1>3 DEF Types
  <2>2. CASE SameCounts
    BY <2>1, <2>2 DEF SameCounts
  <2>3. CASE f \in Requests /\ answers[f] = 0 /\ answers' = [answers EXCEPT ![f] = @ + 1]
             /\ reads' = reads /\ results' = results
    BY <2>1, <2>3
  <2>4. CASE results' = [results EXCEPT ![f] = @ + 1] /\ reads' = reads /\ answers' = answers
    <3>1. CASE f \in Requests
      BY <2>1, <2>4, <3>1
    <3>2. CASE f \notin Requests
      <4>1. results' = [r \in Requests |-> results[r]]
        BY <2>1, <2>4, <3>2
      <4> QED
        BY <2>1, <2>4, <4>1
    <3> QED
      BY <3>1, <3>2
  <2> QED
    BY <1>2, <2>2, <2>3, <2>4 DEF Hears
<1>5. /\ ConTable' = ConTable /\ lost' = lost /\ asked' = asked
  BY HandledProcess DEF HandleMessage
<1>6. Around'
  BY <1>1, <1>3, <1>4, <1>5 DEF Types, Around, Fixed, AllocKept
<1>7. Types'
  BY <1>2, <1>6, AroundTypes
<1> QED
  BY <1>1, <1>2, <1>7 DEF Kept, IInv

LEMMA LossKept ==
    ASSUME IInv, ~aborted, NEW f \in Flows, NEW i \in APs, Lose(f, i)
    PROVE IInv'
<1>1. /\ Fixed /\ SameCounts /\ alloc' = alloc /\ ConTable' = ConTable /\ isEnrolled' = isEnrolled
      /\ ConReqStack' = ConReqStack /\ asked' = asked /\ lost' = lost + 1 /\ lost < MaxLoss
      /\ chan[f][i] # <<>> /\ chan' = Taken(f, i) /\ StateTable' = StateTable
      /\ aborted' = aborted
  BY DEF Lose, rigid, app, flows, Fixed, SameCounts
<1>2. AllocKept
  BY <1>1, AllocSame
<1>3. Kept' /\ AnswersKept' /\ Moved
  BY <1>1, <1>2, TakenKept
<1>4. Types /\ Stages
  BY DEF IInv
<1>5. Around'
  <2>1. lost' \in 0 .. MaxLoss
    BY <1>1, <1>4, Apart DEF Types
  <2> QED
    BY <1>1, <1>4, <2>1 DEF Types, Around, Fixed, SameCounts
<1>6. Stages'
  BY <1>1, <1>4 DEF Stages, Fixed
<1>7. Types'
  BY <1>3, <1>5, AroundTypes
<1> QED
  BY <1>3, <1>6, <1>7 DEF Kept, IInv

LEMMA ReadInvariant ==
    ASSUME IInv, ~aborted, NEW r \in Requests, ARead(r)
    PROVE IInv'
<1>1. Kept' /\ AnswersKept' /\ Moved
  BY ReadKept
<1>2. Types /\ Stages
  BY DEF IInv
<1>3. /\ Fixed /\ alloc' = alloc /\ ConTable' = ConTable /\ isEnrolled' = isEnrolled
      /\ ConReqStack' = ConReqStack /\ asked' = asked /\ lost' = lost
      /\ answers' = answers /\ results' = results
      /\ reads[r] < MaxReads /\ reads' = [reads EXCEPT ![r] = @ + 1]
  BY DEF ARead, rigid, flows, Fixed
<1>4. reads' \in [Requests -> 0 .. MaxReads]
  BY <1>2, <1>3, Apart DEF Types
<1>5. Around'
  BY <1>2, <1>3, <1>4 DEF Types, Around, Fixed
<1>6. Stages'
  BY <1>2, <1>3 DEF Stages, Fixed
<1>7. Types'
  BY <1>1, <1>5, AroundTypes
<1> QED
  BY <1>1, <1>6, <1>7 DEF Kept, IInv

LEMMA StutterKept ==
    ASSUME IInv, UNCHANGED vars
    PROVE IInv'
<1>1. /\ plan' = plan /\ StateTable' = StateTable /\ chan' = chan /\ answers' = answers
      /\ reads' = reads /\ results' = results /\ aborted' = aborted /\ alloc' = alloc
      /\ refusing' = refusing /\ enrollTo' = enrollTo /\ mgmtName' = mgmtName
      /\ isEnrolled' = isEnrolled /\ ConReqStack' = ConReqStack /\ ConTable' = ConTable
      /\ asked' = asked /\ lost' = lost
  BY DEF vars, rigid, app, flows
<1>2. Fixed /\ \A g \in Flows : (Up(g))' <=> Up(g)
  BY <1>1 DEF Fixed, Up
<1>3. \A g \in Flows : (Dst(g))' = Dst(g) /\ (OwnName(g))' = OwnName(g) /\ (Src(g))' = Src(g)
  BY <1>2, FixedEnds
<1>4. /\ RowsOfFlows' /\ Asking' /\ ReadsCounted' /\ AnswersKept' /\ RetriesBounded'
      /\ ~aborted' => MessagesSound' /\ OneAtATime' /\ RetriedFew' /\ RefusedOnce'
  BY <1>1, <1>2, <1>3, Untouched
<1>5. ~aborted' => NotBoth'
  BY <1>1, <1>2, NotBothKept DEF IInv, Running
<1>6. Types'
  BY <1>1 DEF IInv, Types
<1>7. Stages'
  BY <1>1 DEF IInv, Stages
<1> QED
  BY <1>4, <1>5, <1>6, <1>7 DEF IInv, Running

LEMMA InitHolds == Init => IInv
<1> SUFFICES ASSUME Init PROVE IInv
  OBVIOUS
<1>0. /\ plan \in Plans /\ refusing \in Refusals
      /\ isEnrolled = [i \in APs |-> "NOT_ENROLLED"]
      /\ ConReqStack = [i \in APs |-> {}]
      /\ enrollTo = [i \in APs |-> None]
      /\ mgmtName = [i \in APs |-> None]
      /\ alloc = [f \in Flows |-> "none"]
      /\ ConTable = [i \in APs |-> [n \in Names |-> None]]
      /\ StateTable = [i \in APs |-> <<>>]
      /\ chan = [f \in Flows |-> [i \in APs |-> <<>>]]
      /\ asked = {} /\ lost = 0 /\ aborted = FALSE
      /\ answers = [r \in Requests |-> 0]
      /\ reads = [r \in Requests |-> 0]
      /\ results = [r \in Requests |-> 0]
  BY DEF Init
<1>1. \A f \in Flows : ~Up(f)
  BY <1>0 DEF Up
<1>2. Types
  <2>1. plan \in [Requests -> [from : APs, to : APs]] /\ \A r \in Requests : plan[r].from # plan[r].to
    BY <1>0, PlanTyped
  <2>2. chan \in [Flows -> [APs -> Seq(Message)]]
    BY <1>0
  <2>3. StateTable \in [APs -> Seq(Row)]
    BY <1>0
  <2>4. answers \in [Requests -> 0 .. 1] /\ reads \in [Requests -> 0 .. MaxReads]
        /\ results \in [Requests -> Nat] /\ lost \in 0 .. MaxLoss
    BY <1>0, Apart
  <2> QED
    BY <1>0, <2>1, <2>2, <2>3, <2>4 DEF Types
<1>3. Stages
  <2>1. \A i \in APs : alloc[i] = "none"
    BY <1>0 DEF Flows
  <2>2. \A r \in Requests : alloc[r] = "none"
    BY <1>0 DEF Flows
  <2> QED
    BY <1>0, <2>1, <2>2 DEF Stages
<1>4. \A i \in APs : DOMAIN StateTable[i] = {}
  BY <1>0
<1>5. RowsOfFlows /\ RetriesBounded
  BY <1>4 DEF RowsOfFlows, RetriesBounded
<1>6. Asking /\ OneAtATime /\ RetriedFew /\ RefusedOnce
  BY <1>1 DEF Asking, OneAtATime, RetriedFew, RefusedOnce
<1>7. AnswersKept
  BY <1>0 DEF AnswersKept
<1>8. NotBoth
  BY <1>1 DEF NotBoth, Flows
<1>9. MessagesSound
  <2>1. \A f \in Flows, e \in APs : DOMAIN chan[f][e] = {}
    BY <1>0
  <2> QED
    BY <2>1 DEF MessagesSound
<1>10. ReadsCounted
  <2>1. ASSUME NEW r \in Requests
        PROVE  results[r] + Count(chan[r][Src(r)], ReadTypes)
                  + Count(chan[r][Dst(r)], ReadTypes) <= reads[r]
    <3>1. r \in Flows /\ Src(r) \in APs /\ Dst(r) \in APs
      BY <1>2, Kinds, Apart DEF Flows, IsMgmt, Types
    <3> DEFINE c == <<>>
    <3>2. c \in Seq(Message) /\ chan[r][Src(r)] = c /\ chan[r][Dst(r)] = c /\ DOMAIN c = {}
      BY <1>0, <3>1
    <3> HIDE DEF c
    <3>3. Count(c, ReadTypes) = 0
      BY <3>2, CountType
    <3>4. results[r] = 0 /\ reads[r] = 0
      BY <1>0
    <3> QED
      BY <3>2, <3>3, <3>4
  <2> QED
    BY <2>1 DEF ReadsCounted
<1> QED
  BY <1>2, <1>3, <1>5, <1>6, <1>7, <1>8, <1>9, <1>10 DEF IInv, Running

LEMMA NextKept ==
    ASSUME IInv, Next
    PROVE IInv'
<1>1. ~aborted
  BY DEF Next
<1>2. ASSUME NEW r \in Requests, AOpen(r) PROVE IInv'
  BY <1>1, <1>2, OpenKept
<1>3. ASSUME NEW r \in Requests, ARead(r) PROVE IInv'
  BY <1>1, <1>3, ReadInvariant
<1>4. ASSUME NEW f \in Flows, Allocation(f) PROVE IInv'
  BY <1>1, <1>4, PendingKept, PositiveAllocated DEF Allocation, Pending
<1>5. ASSUME NEW f \in Flows, NEW i \in APs, HandleMessage(f, i) PROVE IInv'
  BY <1>1, <1>5, MessageKept
<1>6. ASSUME NEW f \in Flows, NEW i \in APs, Lose(f, i) PROVE IInv'
  BY <1>1, <1>6, LossKept
<1> QED
  BY <1>2, <1>3, <1>4, <1>5, <1>6 DEF Next, Event

\* The tables of the application processes, the messages on their flows and what their
\* applications have heard always fit together.
THEOREM Invariance == Spec => []IInv
<1>1. Init => IInv
  BY InitHolds
<1>2. IInv /\ [Next]_vars => IInv'
  BY NextKept, StutterKept
<1> QED
  BY <1>1, <1>2, PTL DEF Spec

\* Every variable keeps to its values; above all an application is told once that its
\* connection is open, no more reads are answered than were made, and no row is tried again
\* more often than the requests that share it allow.
THEOREM TypeCorrect == Spec => []TypeOK
<1>1. IInv => TypeOK
  <2> SUFFICES ASSUME IInv PROVE TypeOK
    OBVIOUS
  <2>1. Types
    BY DEF IInv
  <2>2. results \in [Requests -> 0 .. MaxReads]
    <3>1. ASSUME NEW r \in Requests PROVE results[r] \in 0 .. MaxReads
      <4>1. r \in Flows /\ Src(r) \in APs /\ Dst(r) \in APs
        BY <2>1, Kinds, Apart DEF Flows, IsMgmt, Types
      <4>2. /\ Count(chan[r][Src(r)], ReadTypes) \in Nat
            /\ Count(chan[r][Dst(r)], ReadTypes) \in Nat
        <5>1. chan[r][Src(r)] \in Seq(Message) /\ chan[r][Dst(r)] \in Seq(Message)
          BY <2>1, <4>1 DEF Types
        <5> QED
          BY <5>1, CountType
      <4>3. results[r] + Count(chan[r][Src(r)], ReadTypes)
                + Count(chan[r][Dst(r)], ReadTypes) <= reads[r]
        BY DEF IInv, ReadsCounted
      <4>4. results[r] \in Nat /\ reads[r] \in Nat /\ reads[r] <= MaxReads /\ MaxReads \in Nat
        BY <2>1, Apart DEF Types
      <4> QED
        BY <4>2, <4>3, <4>4
    <3> QED
      BY <2>1, <3>1 DEF Types
  <2>3. StateTable \in [APs -> Seq(DAFEnrollmentStateTableEntry)]
    <3>1. MaxRetries \in Nat
      BY Apart, FS_CardinalityType DEF MaxRetries
    <3>2. ASSUME NEW i \in APs PROVE StateTable[i] \in Seq(DAFEnrollmentStateTableEntry)
      <4>1. StateTable[i] \in Seq(Row)
        BY <2>1 DEF Types
      <4>2. ASSUME NEW k \in 1 .. Len(StateTable[i])
            PROVE  StateTable[i][k] \in DAFEnrollmentStateTableEntry
        <5>1. StateTable[i][k] \in Row
          BY <4>1, <4>2, ElementOfSeq
        <5>2. StateTable[i][k].retries <= MaxRetries
          BY <4>1, <4>2 DEF IInv, RetriesBounded
        <5>3. StateTable[i][k].retries \in 0 .. MaxRetries
          BY <3>1, <5>1, <5>2 DEF Row
        <5> QED
          BY <5>1, <5>3 DEF Row, DAFEnrollmentStateTableEntry
      <4> QED
        BY <4>1, <4>2
    <3> QED
      BY <2>1, <3>2 DEF Types
  <2> QED
    BY <2>1, <2>2, <2>3 DEF Types, TypeOK
<1> QED
  BY <1>1, Invariance, PTL

-----------------------------------------------------------------------------
(* Where the simulation stops.                                                *)

LEMMA HandledTurns ==
    ASSUME NEW f, NEW i, Handled(f, i)
    PROVE \E table, out : Turn(f, i, table, out)
<1>1. CASE Ignore(f, i)
  BY <1>1 DEF Ignore
<1>2. ASSUME NEW status, NEW out, Enrolls(f, i, status, out)
      PROVE  \E t, o : Turn(f, i, t, o)
  BY <1>2 DEF Enrolls
<1>3. CASE ReceiveConnectRequest(f, i)
  BY <1>3 DEF ReceiveConnectRequest, Authenticate, ProcessConResPosi, ProcessConResNega
<1>4. CASE ReceivePositiveConnectResponse(f, i)
  BY <1>1, <1>4 DEF ReceivePositiveConnectResponse, StartEnrollment
<1>5. CASE ReceiveNegativeConnectResponse(f, i)
  <2>1. \/ Ignore(f, i)
        \/ Turn(f, i, [StateTable[i] EXCEPT ![Answered(f, i)].con = "NIL"], <<>>)
        \/ ProcessNewConReq(f, i, [StateTable[i] EXCEPT ![Answered(f, i)].retries = @ + 1],
                            Answered(f, i))
    BY <1>5 DEF ReceiveNegativeConnectResponse
  <2> QED
    BY <1>1, <2>1 DEF ProcessNewConReq
<1>6. CASE ReceiveStartEnrollmentRequest(f, i)
  BY <1>1, <1>2, <1>6 DEF ReceiveStartEnrollmentRequest, Unexpected
<1>7. CASE ReceiveStartEnrollmentResponse(f, i)
  BY <1>1, <1>2, <1>7 DEF ReceiveStartEnrollmentResponse, Unexpected
<1>8. CASE ReceiveStopEnrollmentResponse(f, i)
  BY <1>1, <1>2, <1>8 DEF ReceiveStopEnrollmentResponse, Unexpected
<1>9. CASE ReceiveStopEnrollmentRequest(f, i)
  BY <1>1, <1>2, <1>9 DEF ReceiveStopEnrollmentRequest, Unexpected
<1>10. CASE ProcessMRead(f, i)
  BY <1>10 DEF ProcessMRead
<1>11. CASE ProcessMReadR(f, i)
  BY <1>1, <1>11 DEF ProcessMReadR
<1> QED
  BY <1>3, <1>4, <1>5, <1>6, <1>7, <1>8, <1>9, <1>10, <1>11 DEF Handled

\* The flow that comes up is the second one between two processes.
LEMMA StartFatal ==
    ASSUME IInv, NEW f \in Flows, ReceiveAllocationResponsePositive(f), aborted'
    PROVE AbortMeansMutual'
<1> DEFINE i == Src(f)
           S == (Senders(f, i))'
<1>1. enrollTo' = enrollTo /\ plan' = plan
  BY DEF ReceiveAllocationResponsePositive, rigid
<1>2. Cardinality(S) > 1
  <2>1. PICK out : aborted' = Fatal(Senders(f, i)', out)
    BY DEF ReceiveAllocationResponsePositive, StartCACE
  <2> QED
    BY <2>1 DEF Fatal
<1> HIDE DEF S
<1>3. PICK g, h \in S : g # h
  BY <1>2, SeveralSenders
<1>4. f \in APs
  <2>1. CASE f \notin APs
    BY <2>1, <1>3 DEF S, Senders, IsMgmt
  <2> QED
    BY <2>1
<1>5. (Src(f))' = f
  BY <1>4 DEF Src, IsMgmt
<1>6. ASSUME NEW x \in S
      PROVE  x \in APs /\ (x = f \/ (enrollTo[x] = f /\ enrollTo[f] = x))
  <2>1. x \in APs /\ (Arrived(x, f))' /\ (Peer(x, f))' = (Peer(f, f))'
    BY <1>4, <1>5, <1>6 DEF S, Senders, IsMgmt
  <2>2. /\ (Src(x))' = x /\ (Dst(x))' = enrollTo[x] /\ (Src(f))' = f /\ (Dst(f))' = enrollTo[f]
    BY <1>1, <1>4, <2>1 DEF Src, Dst, IsMgmt
  <2>3. (Peer(f, f))' = enrollTo[f]
    BY <2>2 DEF Peer
  <2>4. x = f \/ f = enrollTo[x]
    BY <2>1, <2>2 DEF Arrived
  <2>5. x # f => (Peer(x, f))' = x
    BY <2>2 DEF Peer
  <2> QED
    BY <2>1, <2>3, <2>4, <2>5
<1>7. PICK x \in APs : enrollTo[x] = f /\ enrollTo[f] = x
  BY <1>3, <1>6
<1>8. x # None
  BY <1>7, Apart
<1> QED
  BY <1>1, <1>4, <1>7, <1>8 DEF AbortMeansMutual

\* The simulation stops with an error only where two processes have enrolled with each other,
\* each of which then has two management entities for the one other process: CACE's message
\* is taken away by the first and cannot be sent by the second.
THEOREM AbortIsMutual == Spec => []AbortMeansMutual
<1>1. Init => AbortMeansMutual
  BY DEF Init, AbortMeansMutual
<1>2. IInv /\ AbortMeansMutual /\ [Next]_vars => AbortMeansMutual'
  <2> SUFFICES ASSUME IInv, AbortMeansMutual, [Next]_vars, aborted' PROVE AbortMeansMutual'
    BY DEF AbortMeansMutual
  <2>1. CASE UNCHANGED vars
    BY <2>1 DEF vars, flows, AbortMeansMutual
  <2>2. ASSUME Next PROVE ~aborted
    BY <2>2 DEF Next
  <2>3. ASSUME NEW f \in Flows, NEW i \in APs, HandleMessage(f, i), ~aborted
        PROVE  AbortMeansMutual'
    <3>1. enrollTo' = enrollTo /\ (Handled(f, i) \/ Discarded(f, i))
      BY <2>3 DEF HandleMessage
    <3>2. Handled(f, i)
      BY <2>3, <3>1 DEF Discarded
    <3>3. PICK table, out : Turn(f, i, table, out)
      BY <3>2, HandledTurns
    <3>4. Fatal(Senders(f, i), out) /\ None \notin APs
      BY <3>3, Apart DEF Turn
    <3>5. PICK j \in APs : enrollTo[i] = j /\ enrollTo[j] = i
      BY <2>3, <3>4, TwoEntitiesMutual
    <3> QED
      BY <3>1, <3>4, <3>5 DEF AbortMeansMutual
  <2>4. ASSUME NEW f \in Flows, Allocation(f), ~aborted PROVE AbortMeansMutual'
    <3>1. CASE ReceiveAllocationResponsePositive(f)
      BY <3>1, StartFatal
    <3>2. CASE ReceiveAllocationRequestFromFAI(f) \/ ReceiveAllocationResponseNegative(f)
      BY <2>4, <3>2 DEF ReceiveAllocationRequestFromFAI, ReceiveAllocationResponseNegative
    <3> QED
      BY <2>4, <3>1, <3>2 DEF Allocation
  <2>5. ASSUME NEW r \in Requests, AOpen(r) \/ ARead(r), ~aborted PROVE FALSE
    BY <2>5 DEF AOpen, ARead
  <2>6. ASSUME NEW f, NEW i, Lose(f, i), ~aborted PROVE FALSE
    BY <2>6 DEF Lose
  <2> QED
    BY <2>1, <2>2, <2>3, <2>4, <2>5, <2>6 DEF Next, Event
<1> QED
  BY <1>1, <1>2, Invariance, PTL DEF Spec

-----------------------------------------------------------------------------
(* What the applications are promised.                                        *)

\* A row of a connection that has been accepted.
Shown(row) == row.name \in Requests /\ row.con = "ESTABLISHED"

LEMMA AcceptedGrows ==
    ASSUME IInv, NEW i \in APs, NEW u \in Seq(Row), Evolves(StateTable[i], u),
           StateTable' = [StateTable EXCEPT ![i] = u], NEW X,
           \A k \in DOMAIN u : Shown(u[k]) => \/ k \in DOMAIN StateTable[i] /\ Shown(StateTable[i][k])
                                              \/ [from |-> u[k].ap, to |-> i] \in X
    PROVE /\ Accepted \subseteq Accepted'
          /\ Accepted' \subseteq Accepted \cup X
<1>1. /\ StateTable'[i] = u /\ \A j \in APs : j # i => StateTable'[j] = StateTable[j]
      /\ StateTable \in [APs -> Seq(Row)]
  BY DEF IInv, Types
<1>2. /\ DOMAIN StateTable[i] \subseteq DOMAIN u
      /\ \A k \in DOMAIN StateTable[i] :
            /\ u[k].ap = StateTable[i][k].ap
            /\ Shown(StateTable[i][k]) => Shown(u[k])
  <2>1. StateTable[i] \in Seq(Row)
    BY <1>1
  <2> QED
    BY <2>1 DEF Evolves, Shown
<1>3. ASSUME NEW j \in APs, NEW c \in AcceptedBy(j) PROVE c \in (AcceptedBy(j))'
  <2>1. PICK n \in DOMAIN StateTable[j] :
                Shown(StateTable[j][n]) /\ c = [from |-> StateTable[j][n].ap, to |-> j]
    BY AcceptedByAre DEF Shown
  <2>2. /\ n \in DOMAIN StateTable'[j] /\ Shown(StateTable'[j][n])
        /\ c = [from |-> StateTable'[j][n].ap, to |-> j]
    BY <1>1, <1>2, <2>1
  <2> QED
    BY <2>2 DEF AcceptedBy, Shown
<1>4. ASSUME NEW j \in APs, NEW c \in (AcceptedBy(j))' PROVE c \in AcceptedBy(j) \/ c \in X
  <2>1. PICK n \in DOMAIN StateTable'[j] :
                Shown(StateTable'[j][n]) /\ c = [from |-> StateTable'[j][n].ap, to |-> j]
    BY <1>4 DEF AcceptedBy, Shown
  <2>2. CASE j # i
    BY <1>1, <2>1, <2>2, AcceptedByAre DEF Shown
  <2>3. CASE j = i /\ ~([from |-> u[n].ap, to |-> i] \in X)
    <3>1. n \in DOMAIN StateTable[j] /\ Shown(StateTable[j][n])
      BY <1>1, <2>1, <2>3
    <3>2. c = [from |-> StateTable[j][n].ap, to |-> j]
      BY <1>1, <1>2, <2>1, <2>3, <3>1
    <3> QED
      BY <3>1, <3>2, AcceptedByAre DEF Shown
  <2>4. CASE j = i /\ [from |-> u[n].ap, to |-> i] \in X
    BY <1>1, <2>1, <2>4
  <2> QED
    BY <2>2, <2>3, <2>4
<1> QED
  BY <1>3, <1>4 DEF Accepted

\* No row is accepted by a turn that shows no more of them.
LEMMA ShowsNoMore ==
    ASSUME IInv, NEW f, NEW i \in APs, NEW u \in Seq(Row), NEW out, Turn(f, i, u, out),
           Evolves(StateTable[i], u),
           \A k \in DOMAIN u : Shown(u[k]) => k \in DOMAIN StateTable[i] /\ Shown(StateTable[i][k])
    PROVE Accepted' = Accepted
<1>1. StateTable' = [StateTable EXCEPT ![i] = u]
  BY DEF Turn
<1>2. Accepted \subseteq Accepted' /\ Accepted' \subseteq Accepted \cup {}
  BY <1>1, AcceptedGrows
<1> QED
  BY <1>2

LEMMA EnrolledShows ==
    ASSUME NEW t \in Seq(Row), NEW n, NEW e, NEW k \in DOMAIN t
    PROVE Shown(Enrolled(t, n, e)[k]) <=> Shown(t[k])
<1>1. t[k] \in Row
  BY ElementOfSeq
<1>2. Enrolled(t, n, e)[k] = IF k = n THEN [t[k] EXCEPT !.enroll = e] ELSE t[k]
  BY DEF Enrolled
<1> QED
  BY <1>1, <1>2 DEF Shown, Row

LEMMA EnrollsAccepted ==
    ASSUME IInv, NEW f, NEW i \in APs, NEW e \in EnrollStatus, NEW out, Enrolls(f, i, e, out)
    PROVE Accepted' = Accepted
<1> DEFINE t == StateTable[i]
           n == Entry(f, i)
           u == Enrolled(t, n, e)
<1>1. t \in Seq(Row)
  BY DEF IInv, Types
<1>2. Turn(f, i, u, out)
  BY DEF Enrolls, Enrolled
<1> HIDE DEF t, n
<1>3. u \in Seq(Row) /\ DOMAIN u = DOMAIN t /\ Evolves(t, u)
  BY <1>1, EnrollRow
<1>4. \A k \in DOMAIN t : Shown(u[k]) <=> Shown(t[k])
  BY <1>1, EnrolledShows
<1> HIDE DEF u
<1>5. /\ Evolves(StateTable[i], u)
      /\ \A k \in DOMAIN u : Shown(u[k]) => k \in DOMAIN StateTable[i] /\ Shown(StateTable[i][k])
  BY <1>3, <1>4 DEF t
<1> QED
  BY <1>2, <1>3, <1>5, ShowsNoMore

LEMMA IgnoreAccepted ==
    ASSUME IInv, NEW f, NEW i \in APs, NEW out, Turn(f, i, StateTable[i], out)
    PROVE Accepted' = Accepted
<1>1. StateTable[i] \in Seq(Row)
  BY DEF IInv, Types
<1> QED
  BY <1>1, EvolvesSame, ShowsNoMore

LEMMA OthersAccepted ==
    ASSUME IInv, NEW f, NEW i \in APs, Others(f, i)
    PROVE Accepted' = Accepted
<1>1. CASE Ignore(f, i)
  BY <1>1, IgnoreAccepted DEF Ignore
<1>2. ASSUME NEW e \in EnrollStatus, NEW out, Enrolls(f, i, e, out)
      PROVE  Accepted' = Accepted
  BY <1>2, EnrollsAccepted
<1>3. {"WAIT_STOP", "ENROLLED", "WAIT_STOP_RESPONSE"} \subseteq EnrollStatus
  BY DEF EnrollStatus
<1>4. CASE ProcessMRead(f, i)
  BY <1>4, IgnoreAccepted DEF ProcessMRead
<1>5. CASE ReceiveStartEnrollmentRequest(f, i)
  BY <1>5, <1>1, <1>2, <1>3 DEF ReceiveStartEnrollmentRequest, Unexpected
<1>6. CASE ReceiveStartEnrollmentResponse(f, i)
  BY <1>6, <1>1, <1>2, <1>3 DEF ReceiveStartEnrollmentResponse, Unexpected
<1>7. CASE ReceiveStopEnrollmentRequest(f, i)
  BY <1>7, <1>1, <1>2, <1>3 DEF ReceiveStopEnrollmentRequest, Unexpected
<1>8. CASE ReceiveStopEnrollmentResponse(f, i)
  BY <1>8, <1>1, <1>2, <1>3 DEF ReceiveStopEnrollmentResponse, Unexpected
<1> QED
  BY <1>4, <1>5, <1>6, <1>7, <1>8 DEF Others

LEMMA ChangesShown ==
    ASSUME NEW t \in Seq(Row), NEW n \in DOMAIN t, NEW u, NEW con, NEW retries,
           Changes(t, n, u, con, retries), con # "ESTABLISHED" \/ t[n].name \notin Requests
    PROVE \A k \in DOMAIN u : Shown(u[k]) => k \in DOMAIN t /\ Shown(t[k])
<1>1. ~Shown(u[n])
  BY DEF Changes, Shown
<1> QED
  BY <1>1 DEF Changes

\* An answer to a connect request is about a row of what was asked for, which no request names.
LEMMA AnswerAccepted ==
    ASSUME IInv, ~aborted, NEW f \in Flows, NEW i \in APs, chan[f][i] # <<>>, Arrived(f, i),
           ReceivePositiveConnectResponse(f, i) \/ ReceiveNegativeConnectResponse(f, i)
    PROVE Accepted' = Accepted
<1> DEFINE t == StateTable[i]
           n == Answered(f, i)
<1>1. Head(chan[f][i]).type \in Answer
  BY DEF ReceivePositiveConnectResponse, ReceiveNegativeConnectResponse, Arrives, Answer
<1>2. /\ Up(f) /\ i = Src(f) /\ n = FirstAt(f) /\ n \in DOMAIN t /\ t[n] \in Row
      /\ First(f) = t[n]
  BY <1>1, AnswersFirst
<1>3. t \in Seq(Row)
  BY DEF IInv, Types
<1>4. t[n].name \notin Requests
  <2>1. Of(First(f), Dst(f), AskedName(f))
    BY <1>2, FirstRow DEF IInv
  <2> QED
    BY <1>2, <2>1, Apart DEF Of, AskedName
<1>5. ASSUME NEW u, NEW con, NEW retries, Changes(t, n, u, con, retries), NEW out,
             Turn(f, i, u, out)
      PROVE  Accepted' = Accepted
  <2>1. \A k \in DOMAIN u : Shown(u[k]) => k \in DOMAIN t /\ Shown(t[k])
    BY <1>2, <1>3, <1>4, <1>5, ChangesShown
  <2>2. u \in Seq(Row) /\ Evolves(t, u)
    BY <1>5 DEF Changes
  <2> QED
    BY <1>5, <2>1, <2>2, ShowsNoMore
<1>6. CASE Ignore(f, i)
  BY <1>6, IgnoreAccepted DEF Ignore
<1>7. {"ESTABLISHED", "AUTHENTICATING", "NIL"} \subseteq ConStatus
      /\ "WAIT_START_RESPONSE" \in EnrollStatus
  BY DEF ConStatus, EnrollStatus
<1>8. CASE t[n].con = "AUTHENTICATING"
  <2>0. t[n].con # "ESTABLISHED"
    BY <1>8
  <2>1. /\ \A con \in ConStatus : Changes(t, n, [t EXCEPT ![n].con = con], con, t[n].retries)
        /\ Changes(t, n, [t EXCEPT ![n].con = "ESTABLISHED", ![n].enroll = "WAIT_START_RESPONSE"],
                   "ESTABLISHED", t[n].retries)
        /\ Changes(t, n, [[t EXCEPT ![n].retries = @ + 1] EXCEPT ![n].con = "AUTHENTICATING"],
                   "AUTHENTICATING", t[n].retries + 1)
    <3> HIDE DEF t, n
    <3> QED
      BY <1>2, <1>3, <1>7, <2>0, RowsChanged
  <2>2. \/ \E con \in ConStatus : \E out : Turn(f, i, [t EXCEPT ![n].con = con], out)
        \/ \E out : Turn(f, i, [t EXCEPT ![n].con = "ESTABLISHED",
                                         ![n].enroll = "WAIT_START_RESPONSE"], out)
        \/ \E out : Turn(f, i, [[t EXCEPT ![n].retries = @ + 1]
                                    EXCEPT ![n].con = "AUTHENTICATING"], out)
    <3>1. CASE ReceivePositiveConnectResponse(f, i)
      BY <1>7, <1>8, <3>1 DEF ReceivePositiveConnectResponse, StartEnrollment
    <3>2. CASE ReceiveNegativeConnectResponse(f, i)
      BY <1>7, <1>8, <3>2 DEF ReceiveNegativeConnectResponse, ProcessNewConReq
    <3> QED
      BY <3>1, <3>2
  <2> HIDE DEF t, n
  <2> QED
    BY <1>5, <2>1, <2>2
<1>9. CASE t[n].con # "AUTHENTICATING"
  <2>1. Ignore(f, i)
    BY <1>9 DEF ReceivePositiveConnectResponse, ReceiveNegativeConnectResponse
  <2> QED
    BY <1>6, <2>1
<1> QED
  BY <1>8, <1>9

\* A request is met: what is accepted then is a connection that has been asked for.
LEMMA RequestAccepted ==
    ASSUME IInv, ~aborted, NEW f \in Flows, NEW i \in APs, chan[f][i] # <<>>, Arrived(f, i),
           ReceiveConnectRequest(f, i)
    PROVE Accepted' = Accepted \/ \E r \in asked : Accepted' = Accepted \cup {plan[r]}
<1> DEFINE s == StateTable[i]
           t == TableFor(f, i)
           n == Deciding(f, i)
<1>0. Head(chan[f][i]).type = "M_CONNECT"
  BY DEF ReceiveConnectRequest, Arrives
<1>1. /\ i = Dst(f) /\ Peer(f, i) = Src(f)
      /\ \E g \in Flows : Up(g) /\ Fellow(f, g) /\ Head(chan[f][i]).name = OwnName(g)
  BY <1>0, RequestFrom
<1>2. PICK g \in Flows : Up(g) /\ Fellow(f, g) /\ Head(chan[f][i]).name = OwnName(g)
  BY <1>1
<1>3. /\ t \in Seq(Row) /\ n \in DOMAIN t /\ t[n] \in Row /\ Evolves(s, t)
      /\ Of(t[n], Src(f), OwnName(g))
  BY <1>0, <1>2, RequestRow
<1>4. s \in Seq(Row)
  BY DEF IInv, Types
<1>5. \A k \in DOMAIN t : Shown(t[k]) => k \in DOMAIN s /\ Shown(s[k])
  <2>1. PICK row : row = RowFor(f, i)
    OBVIOUS
  <2>2. row \in Row
    <3>1. t[Len(s) + 1] = row /\ Len(s) + 1 \in DOMAIN t
      BY <1>4, <2>1, AppendProperties DEF TableFor
    <3> QED
      BY <1>3, <3>1, ElementOfSeq
  <2>3. t = Append(s, row) /\ row.con = "CONNECTPENDING"
    BY <2>1 DEF TableFor, RowFor, NewRow
  <2> HIDE DEF s, t
  <2>4. /\ \A k \in DOMAIN s : t[k] = s[k]
        /\ t[Len(s) + 1] = row
        /\ DOMAIN t = DOMAIN s \cup {Len(s) + 1}
    BY <1>4, <2>2, <2>3, AppendRow
  <2> QED
    BY <2>3, <2>4 DEF Shown
<1>6. \/ Turn(f, i, t, <<>>)
      \/ t[n].con = "CONNECTPENDING" /\ ProcessConResNega(f, i, t, n)
      \/ t[n].con = "CONNECTPENDING" /\ ProcessConResPosi(f, i, t, n)
  BY DEF ReceiveConnectRequest, Authenticate, TableFor, Deciding, RowFor
<1> HIDE DEF t, n
<1>7. CASE Turn(f, i, t, <<>>)
  BY <1>3, <1>5, <1>7, ShowsNoMore
<1>8. CASE t[n].con = "CONNECTPENDING" /\ ProcessConResNega(f, i, t, n)
  <2> DEFINE u == [t EXCEPT ![n].con = "CONNECTPENDING", ![n].retries = @ + 1]
  <2>1. Turn(f, i, u, <<Msg("M_CONNECT_R-", t[n].local)>>)
    BY <1>8 DEF ProcessConResNega
  <2>2. Changes(t, n, u, "CONNECTPENDING", t[n].retries + 1)
    <3>1. "CONNECTPENDING" \in ConStatus /\ t[n].con # "ESTABLISHED"
      BY <1>8 DEF ConStatus
    <3> QED
      BY <1>3, <3>1, RowsChanged
  <2> HIDE DEF u
  <2>3. \A k \in DOMAIN u : Shown(u[k]) => k \in DOMAIN t /\ Shown(t[k])
    BY <1>3, <2>2, ChangesShown
  <2>4. u \in Seq(Row) /\ Evolves(s, u)
    BY <1>3, <1>4, <2>2, EvolvesTwice DEF Changes
  <2> QED
    BY <1>5, <2>1, <2>3, <2>4, ShowsNoMore
<1>9. CASE t[n].con = "CONNECTPENDING" /\ ProcessConResPosi(f, i, t, n)
  <2> DEFINE e == IF IsMgmt(f) THEN "WAIT_START" ELSE t[n].enroll
             u == [t EXCEPT ![n].con = "ESTABLISHED", ![n].enroll = e]
  <2>0. [t EXCEPT ![n].con = "ESTABLISHED", ![n].enroll = IF IsMgmt(f) THEN "WAIT_START" ELSE @] = u
    BY <1>3 DEF Row
  <2>1. StateTable' = [StateTable EXCEPT ![i] = u]
    <3> HIDE DEF u
    <3> QED
      BY <1>9, <2>0 DEF ProcessConResPosi, Turn
  <2>2. Changes(t, n, u, "ESTABLISHED", t[n].retries)
    <3>1. "ESTABLISHED" \in ConStatus /\ t[n].con # "ESTABLISHED"
      BY <1>9 DEF ConStatus
    <3>2. e \in EnrollStatus
      BY <1>3 DEF EnrollStatus, Row
    <3> HIDE DEF e
    <3> QED
      BY <1>3, <3>1, <3>2, RowsChanged
  <2> HIDE DEF u
  <2>3. u \in Seq(Row) /\ Evolves(s, u)
    BY <1>3, <1>4, <2>2, EvolvesTwice DEF Changes
  <2>4. CASE OwnName(g) \notin Requests
    <3>1. \A k \in DOMAIN u : Shown(u[k]) => k \in DOMAIN t /\ Shown(t[k])
      BY <1>3, <2>2, <2>4, ChangesShown DEF Of
    <3>2. Accepted \subseteq Accepted' /\ Accepted' \subseteq Accepted \cup {}
      BY <1>5, <2>1, <2>3, <3>1, AcceptedGrows
    <3> QED
      BY <3>2
  <2>5. CASE OwnName(g) \in Requests
    <3>1. ~IsMgmt(g)
      <4>1. IsMgmt(g) => OwnName(g) \in MgmtNames
        BY <1>2, EndsOf DEF IInv, Up
      <4> QED
        BY <2>5, <4>1, Apart DEF MgmtNames
    <3>2. g \in Requests /\ Src(g) = plan[g].from /\ Dst(g) = plan[g].to
      BY <3>1, Kinds
    <3>3. g \in asked
      BY <1>2, <3>2 DEF IInv, Stages, Up
    <3>4. plan[g] = [from |-> Src(f), to |-> i]
      <4>1. plan[g] \in [from : APs, to : APs]
        BY <3>2 DEF IInv, Types
      <4>2. plan[g].from = Src(f) /\ plan[g].to = i
        BY <1>1, <1>2, <3>2 DEF Fellow
      <4> QED
        BY <4>1, <4>2
    <3>5. u[n].ap = Src(f)
      BY <1>3, <2>2 DEF Changes, Of
    <3>6. ASSUME NEW k \in DOMAIN u, Shown(u[k])
          PROVE  \/ k \in DOMAIN s /\ Shown(s[k])
                 \/ [from |-> u[k].ap, to |-> i] \in {plan[g]}
      BY <1>5, <2>2, <3>4, <3>5, <3>6 DEF Changes
    <3>7. Accepted \subseteq Accepted' /\ Accepted' \subseteq Accepted \cup {plan[g]}
      BY <2>1, <2>3, <3>6, AcceptedGrows
    <3>8. CASE plan[g] \in Accepted'
      BY <3>3, <3>7, <3>8
    <3>9. CASE plan[g] \notin Accepted'
      BY <3>7, <3>9
    <3> QED
      BY <3>8, <3>9
  <2> QED
    BY <2>4, <2>5
<1> QED
  BY <1>6, <1>7, <1>8, <1>9

\* What a step has been for the applications.
Waits == [r \in Requests |-> reads[r] - results[r]]
SessionStep ==
    \/ asked' = asked /\ Accepted' = Accepted /\ answers' = answers /\ Waits' = Waits
    \/ \E r \in Requests \ asked :
            asked' = asked \cup {r} /\ Accepted' = Accepted /\ answers' = answers /\ Waits' = Waits
    \/ \E r \in asked : /\ Accepted' = Accepted \cup {plan[r]}
                        /\ asked' = asked /\ answers' = answers /\ Waits' = Waits
    \/ \E r \in asked : /\ plan[r] \in Accepted /\ answers[r] = 0
                        /\ answers' = [answers EXCEPT ![r] = 1]
                        /\ asked' = asked /\ Accepted' = Accepted /\ Waits' = Waits
    \/ \E r \in Requests : /\ answers[r] = 1 /\ Waits' = [Waits EXCEPT ![r] = @ + 1]
                           /\ asked' = asked /\ Accepted' = Accepted /\ answers' = answers
    \/ \E r \in Requests : /\ Waits[r] > 0 /\ Waits' = [Waits EXCEPT ![r] = @ - 1]
                           /\ asked' = asked /\ Accepted' = Accepted /\ answers' = answers

LEMMA TablesAccepted ==
    ASSUME StateTable' = StateTable
    PROVE Accepted' = Accepted
  BY DEF Accepted, AcceptedBy

LEMMA OpenIsAsk ==
    ASSUME IInv, NEW r \in Requests, AOpen(r)
    PROVE SessionStep
<1>1. /\ r \notin asked /\ asked' = asked \cup {r} /\ answers' = answers
      /\ reads' = reads /\ results' = results /\ StateTable' = StateTable
  BY DEF AOpen
<1> QED
  BY <1>1, TablesAccepted DEF SessionStep, Waits

LEMMA ReadIsRead ==
    ASSUME IInv, NEW r \in Requests, ARead(r)
    PROVE SessionStep
<1>1. /\ answers[r] > 0 /\ asked' = asked /\ answers' = answers
      /\ reads' = [reads EXCEPT ![r] = @ + 1] /\ results' = results /\ StateTable' = StateTable
  BY DEF ARead
<1>2. /\ answers \in [Requests -> 0 .. 1] /\ reads \in [Requests -> 0 .. MaxReads]
      /\ results \in [Requests -> Nat] /\ MaxReads \in Nat
  BY Apart DEF IInv, Types
<1>3. answers[r] = 1
  BY <1>1, <1>2
<1>4. Waits' = [Waits EXCEPT ![r] = @ + 1]
  <2>1. ASSUME NEW s \in Requests
        PROVE  reads'[s] - results'[s] =
                  IF s = r THEN (reads[s] - results[s]) + 1 ELSE reads[s] - results[s]
    <3>1. reads[s] \in Nat /\ results[s] \in Nat
          /\ reads'[s] = IF s = r THEN reads[s] + 1 ELSE reads[s]
      BY <1>1, <1>2
    <3> QED
      BY <1>1, <3>1
  <2> QED
    BY <2>1 DEF Waits
<1> QED
  BY <1>1, <1>3, <1>4, TablesAccepted DEF SessionStep

LEMMA AllocationIsNothing ==
    ASSUME IInv, ~aborted, NEW f \in Flows, Allocation(f)
    PROVE SessionStep
<1>1. /\ asked' = asked /\ answers' = answers /\ reads' = reads /\ results' = results
  BY DEF Allocation, ReceiveAllocationRequestFromFAI, ReceiveAllocationResponsePositive,
         ReceiveAllocationResponseNegative, app
<1>2. Accepted' = Accepted
  <2>1. CASE ReceiveAllocationResponsePositive(f)
    BY <2>1, PositiveStarts, StartsAccepted
  <2>2. CASE ReceiveAllocationRequestFromFAI(f) \/ ReceiveAllocationResponseNegative(f)
    <3>1. StateTable' = StateTable
      BY <2>2 DEF ReceiveAllocationRequestFromFAI, ReceiveAllocationResponseNegative
    <3> QED
      BY <3>1, TablesAccepted
  <2> QED
    BY <2>1, <2>2 DEF Allocation
<1> QED
  BY <1>1, <1>2 DEF SessionStep, Waits

\* A message for which nothing is accepted, opened and answered at once.
LEMMA MessageIsStep ==
    ASSUME IInv, ~aborted, NEW f \in Flows, NEW i \in APs, HandleMessage(f, i)
    PROVE SessionStep
<1>1. chan[f][i] # <<>> /\ Arrived(f, i) /\ (Handled(f, i) \/ Discarded(f, i))
  BY DEF HandleMessage
<1>2. asked' = asked
  BY <1>1, HandledProcess
<1>3. Fixed /\ AllocKept
  BY ProcessKept
<1>4. Hears(f)
  BY <1>3, HandledKept
<1>5. /\ answers \in [Requests -> 0 .. 1] /\ reads \in [Requests -> 0 .. MaxReads]
      /\ results \in [Requests -> Nat] /\ MaxReads \in Nat
  BY Apart DEF IInv, Types
<1>6. CASE ReceiveConnectRequest(f, i)
  <2>1. Accepted' = Accepted \/ \E r \in asked : Accepted' = Accepted \cup {plan[r]}
    BY <1>1, <1>6, RequestAccepted
  <2>2. answers' = answers /\ reads' = reads /\ results' = results
    BY <1>6 DEF ReceiveConnectRequest, app
  <2> QED
    BY <1>2, <2>1, <2>2 DEF SessionStep, Waits
<1>7. CASE Accepted' = Accepted
  <2>1. CASE SameCounts
    BY <1>2, <1>7, <2>1 DEF SessionStep, Waits, SameCounts
  <2>2. CASE /\ f \in Requests /\ answers[f] = 0 /\ plan[f] \in Accepted
             /\ answers' = [answers EXCEPT ![f] = @ + 1] /\ reads' = reads /\ results' = results
    <3>1. answers' = [answers EXCEPT ![f] = 1] /\ Waits' = Waits
      BY <1>5, <2>2 DEF Waits
    <3>2. f \in asked
      <4>1. plan[f] \in Accepted /\ answers'[f] = 1
        BY <1>5, <2>2
      <4>2. AnswersKept'
        BY <1>3, HandledKept
      <4>3. (Up(f))'
        BY <2>2, <4>1, <4>2 DEF AnswersKept
      <4>4. Up(f)
        BY <1>3, <4>3, UpKept
      <4> QED
        BY <2>2, <4>4 DEF IInv, Stages, Up
    <3> QED
      BY <1>2, <1>7, <2>2, <3>1, <3>2 DEF SessionStep
  <2>3. CASE /\ f \in Requests => results[f] < reads[f]
             /\ results' = [results EXCEPT ![f] = @ + 1] /\ reads' = reads /\ answers' = answers
    <3>1. CASE f \in Requests
      <4>1. ASSUME NEW s \in Requests
            PROVE  reads'[s] - results'[s] =
                      IF s = f THEN (reads[s] - results[s]) - 1 ELSE reads[s] - results[s]
        <5>1. reads[s] \in Nat /\ results[s] \in Nat
              /\ results'[s] = IF s = f THEN results[s] + 1 ELSE results[s]
          BY <1>5, <2>3
        <5> QED
          BY <2>3, <5>1
      <4>2. Waits' = [Waits EXCEPT ![f] = @ - 1]
        BY <3>1, <4>1 DEF Waits
      <4>3. Waits[f] > 0
        <5>1. results[f] < reads[f] /\ reads[f] \in Nat /\ results[f] \in Nat
          BY <1>5, <2>3, <3>1
        <5>2. Waits[f] = reads[f] - results[f]
          BY <3>1 DEF Waits
        <5> QED
          BY <5>1, <5>2
      <4> QED
        BY <1>2, <1>7, <2>3, <3>1, <4>2, <4>3 DEF SessionStep
    <3>2. CASE f \notin Requests
      <4>1. \A s \in Requests : results'[s] = results[s]
        BY <1>5, <2>3, <3>2
      <4>2. Waits' = Waits
        BY <2>3, <4>1 DEF Waits
      <4> QED
        BY <1>2, <1>7, <2>3, <4>2 DEF SessionStep
    <3> QED
      BY <3>1, <3>2
  <2> QED
    BY <1>4, <2>1, <2>2, <2>3 DEF Hears
<1>8. CASE Discarded(f, i)
  <2>1. StateTable' = StateTable
    BY <1>8 DEF Discarded
  <2> QED
    BY <1>7, <2>1, TablesAccepted
<1>9. CASE ReceivePositiveConnectResponse(f, i) \/ ReceiveNegativeConnectResponse(f, i)
  <2>1. Accepted' = Accepted
    BY <1>1, <1>9, AnswerAccepted
  <2> QED
    BY <1>7, <2>1
<1>10. CASE Others(f, i)
  BY <1>7, <1>10, OthersAccepted
<1>11. CASE ProcessMReadR(f, i)
  <2>1. Accepted' = Accepted
    BY <1>11, IgnoreAccepted DEF ProcessMReadR, Ignore
  <2> QED
    BY <1>7, <2>1
<1> QED
  BY <1>1, <1>6, <1>8, <1>9, <1>10, <1>11 DEF Handled, Others

LEMMA NextIsSessionStep ==
    ASSUME IInv, [Next]_vars
    PROVE SessionStep
<1>1. CASE UNCHANGED vars
  <2>1. /\ asked' = asked /\ answers' = answers /\ reads' = reads /\ results' = results
        /\ StateTable' = StateTable
    BY <1>1 DEF vars, app
  <2> QED
    BY <2>1, TablesAccepted DEF SessionStep, Waits
<1>2. ASSUME Next PROVE ~aborted
  BY <1>2 DEF Next
<1>3. ASSUME NEW f, NEW i, Lose(f, i) PROVE SessionStep
  <2>1. /\ asked' = asked /\ answers' = answers /\ reads' = reads /\ results' = results
        /\ StateTable' = StateTable
    BY <1>3 DEF Lose, app
  <2> QED
    BY <2>1, TablesAccepted DEF SessionStep, Waits
<1>4. ASSUME NEW f \in Flows, NEW i \in APs, HandleMessage(f, i), ~aborted PROVE SessionStep
  BY <1>4, MessageIsStep
<1>5. ASSUME NEW f \in Flows, Allocation(f), ~aborted PROVE SessionStep
  BY <1>5, AllocationIsNothing
<1>6. ASSUME NEW r \in Requests, AOpen(r) \/ ARead(r) PROVE SessionStep
  BY <1>6, OpenIsAsk, ReadIsRead
<1> QED
  BY <1>1, <1>2, <1>3, <1>4, <1>5, <1>6 DEF Next, Event

\* An application is told once that its connection is open, and only after the other process
\* has accepted one of this process; a read has one result at most. It holds although connect
\* requests find the rows of others, are refused and sent again, and messages are lost.
THEOREM SessionImplemented == Spec => ImplementsSession
<1>1. Init => SE!Init
  <2> SUFFICES ASSUME Init PROVE SE!Init
    OBVIOUS
  <2>1. \A i \in APs : AcceptedBy(i) = {}
    <3>1. ASSUME NEW i \in APs, NEW c \in AcceptedBy(i) PROVE FALSE
      <4>1. DOMAIN StateTable[i] = {}
        BY DEF Init
      <4> QED
        BY <3>1, <4>1, AcceptedByAre
    <3> QED
      BY <3>1
  <2>2. UNION {AcceptedBy(i) : i \in APs} = {}
    BY <2>1
  <2>3. [r \in Requests |-> reads[r] - results[r]] = [r \in Requests |-> 0]
    BY DEF Init
  <2> QED
    BY <2>2, <2>3 DEF Init, SE!Init
<1>2. IInv /\ [Next]_vars =>
        [SE!Next]_<<plan, asked, UNION {AcceptedBy(i) : i \in APs}, answers,
                    [r \in Requests |-> reads[r] - results[r]]>>
  <2> SUFFICES ASSUME IInv, [Next]_vars
      PROVE [SE!Next]_<<plan, asked, Accepted, answers, Waits>>
    BY DEF Accepted, Waits
  <2>1. SessionStep
    BY NextIsSessionStep
  <2>2. plan' = plan
    BY DEF Next, vars, Event, Allocation, ReceiveAllocationRequestFromFAI,
           ReceiveAllocationResponsePositive, ReceiveAllocationResponseNegative, HandleMessage,
           AOpen, ARead, Lose, rigid
  <2>3. asked \subseteq Requests
    BY DEF IInv, Types
  <2>4. ASSUME NEW r \in Requests, SE!Ask(r) \/ SE!Accept(r) \/ SE!Open(r) \/ SE!Read(r)
                                     \/ SE!Result(r)
        PROVE  SE!Next
    BY <2>2, <2>4 DEF SE!Next
  <2>5. ASSUME NEW r \in Requests \ asked, asked' = asked \cup {r}, Accepted' = Accepted,
               answers' = answers, Waits' = Waits
        PROVE  SE!Ask(r)
    BY <2>5 DEF SE!Ask, Accepted, Waits
  <2>6. ASSUME NEW r \in asked, Accepted' = Accepted \cup {plan[r]}, asked' = asked,
               answers' = answers, Waits' = Waits
        PROVE  SE!Accept(r)
    BY <2>6 DEF SE!Accept, Accepted, Waits
  <2>7. ASSUME NEW r \in asked, plan[r] \in Accepted, answers[r] = 0,
               answers' = [answers EXCEPT ![r] = 1], asked' = asked, Accepted' = Accepted,
               Waits' = Waits
        PROVE  SE!Open(r)
    BY <2>7 DEF SE!Open, Accepted, Waits
  <2>8. ASSUME NEW r \in Requests, answers[r] = 1, Waits' = [Waits EXCEPT ![r] = @ + 1],
               asked' = asked, Accepted' = Accepted, answers' = answers
        PROVE  SE!Read(r)
    BY <2>8 DEF SE!Read, Accepted, Waits
  <2>9. ASSUME NEW r \in Requests, Waits[r] > 0, Waits' = [Waits EXCEPT ![r] = @ - 1],
               asked' = asked, Accepted' = Accepted, answers' = answers
        PROVE  SE!Result(r)
    BY <2>9 DEF SE!Result, Accepted, Waits
  <2> QED
    BY <2>1, <2>2, <2>3, <2>4, <2>5, <2>6, <2>7, <2>8, <2>9 DEF SessionStep
<1> QED
  BY <1>1, <1>2, Invariance, PTL DEF Spec, ImplementsSession, SE!Spec
=============================================================================
