----------------------------- MODULE RMTProofs ------------------------------
(***************************************************************************)
(* Theorems about the relaying and multiplexing task, for any number of    *)
(* ports, queues, flows and PDUs and every combination of policies: the    *)
(* queues' books agree, nothing is lost sight of, and the task keeps what  *)
(* it promises to a flow.                                                  *)
(*                                                                         *)
(* The argument follows the calls of the code.  What a nested read may do  *)
(* is said once (ReadsWell), and proved by the number of blocked inputs,   *)
(* which each nested read makes smaller; then what the departure of a PDU, *)
(* the scheduler, an arrival, a drop and a relayed PDU do to the queues    *)
(* (Sound) and to the ports (Proceeds, Calms); the events put these        *)
(* together.                                                               *)
(***************************************************************************)
EXTENDS RMT, SequenceTheorems, FiniteSetTheorems, WellFoundedInduction, TLAPS

-----------------------------------------------------------------------------
\* A nonempty set of natural numbers has a least one, and Min is it.
LEMMA MinOfNaturals ==
    ASSUME NEW S \in SUBSET Nat, S # {}
    PROVE  /\ Min(S) \in S
           /\ \A n \in S : Min(S) <= n
<1> DEFINE less == OpToRel(<, Nat)
<1>1. IsWellFoundedOn(less, Nat)
  BY NatLessThanWellFounded
<1>2. ASSUME NEW m \in Nat, NEW n \in Nat, m < n
      PROVE  <<m, n>> \in less
  BY <1>2 DEF OpToRel
<1> HIDE DEF less
<1>3. PICK n \in S : \A m \in S : ~(<<m, n>> \in less)
  BY <1>1, WFMin, Zenon
<1>4. ASSUME NEW m \in S PROVE n <= m
  <2>1. m \in Nat /\ n \in Nat
    OBVIOUS
  <2>2. CASE m < n
    BY <1>2, <1>3, <2>1, <2>2
  <2> QED BY <2>1, <2>2
<1> QED BY <1>3, <1>4 DEF Min

\* One of the values of a finite sequence of numbers is the greatest, and Max is it.
LEMMA MaxOfValues ==
    ASSUME NEW n \in Nat \ {0}, NEW f \in [1..n -> Nat],
           NEW S, S = {f[i] : i \in 1..n}
    PROVE  /\ Max(S) \in S
           /\ \A m \in S : m <= Max(S)
<1> DEFINE Top(k, i) == \A j \in 1..k : f[j] <= f[i]
           bad == {k \in 1..n : \A i \in 1..k : ~Top(k, i)}
<1>1. bad = {}
  <2>1. SUFFICES ASSUME bad # {} PROVE FALSE
    OBVIOUS
  <2> DEFINE k == Min(bad)
  <2>2. k \in bad /\ \A m \in bad : k <= m
    <3>1. bad \in SUBSET Nat
      OBVIOUS
    <3> QED BY <2>1, <3>1, MinOfNaturals
  <2> HIDE DEF k
  <2>3. CASE k = 1
    BY <2>2, <2>3
  <2>4. CASE k > 1
    <3>1. k - 1 \in 1..n /\ ~(k - 1 \in bad)
      <4>1. k \in 1..n
        BY <2>2
      <4>2. k - 1 \in 1..n /\ ~(k <= k - 1)
        BY <2>4, <4>1
      <4> HIDE DEF bad
      <4> QED BY <2>2, <4>2
    <3>2. PICK i \in 1..(k - 1) : Top(k - 1, i)
      BY <3>1
    <3>3. CASE f[k] <= f[i]
      <4>1. Top(k, i)
        BY <2>2, <2>4, <3>2, <3>3
      <4> QED BY <2>2, <2>4, <3>2, <4>1
    <3>4. CASE f[i] < f[k]
      <4>1. Top(k, k)
        BY <2>2, <2>4, <3>2, <3>4
      <4> QED BY <2>2, <2>4, <4>1
    <3> QED BY <2>2, <2>4, <3>2, <3>3, <3>4
  <2> QED BY <2>2, <2>3, <2>4
<1>2. PICK i \in 1..n : Top(n, i)
  <2>1. ~(n \in bad)
    <3> HIDE DEF bad
    <3> QED BY <1>1
  <2>2. n \in 1..n
    OBVIOUS
  <2>3. ~\A i \in 1..n : ~Top(n, i)
    BY <2>1, <2>2
  <2> HIDE DEF Top
  <2> QED BY <2>3
<1>3. f[i] \in S /\ \A m \in S : m <= f[i]
  BY <1>2
<1> QED BY <1>3 DEF Max

-----------------------------------------------------------------------------
\* What the books of a port and direction say.
InQueues(s, p, d) == {e \in Qids \X Nat : e[2] \in DOMAIN s.queue[p][d][e[1]]}
Places(u, q) == {i \in DOMAIN u : u[i] = q}
Turns(s, p, d, q) == Places(s.tokens[p][d], q)

Counted(s, p, d) ==
    /\ IsFiniteSet(InQueues(s, p, d))
    /\ s.waiting[p][d] = Cardinality(InQueues(s, p, d))
TurnsAgree(s, p, d) ==
    policy.scheduler = "DumbSch" =>
      \A q \in Qids : Cardinality(Turns(s, p, d, q)) = Len(s.queue[p][d][q])
Books(s, p, d) == Counted(s, p, d) /\ TurnsAgree(s, p, d)

\* The state in which a port has taken a turn and not yet released the PDU.
TurnTaken(s, t, p, d, q) ==
    /\ t \in Task
    /\ t.queue = s.queue /\ t.waiting = s.waiting /\ t.ready = s.ready
    /\ t.blocked = s.blocked /\ t.wake = s.wake /\ t.relay = s.relay
    /\ t.protect = s.protect /\ t.sending = s.sending /\ t.stopped = s.stopped
    /\ t.up = s.up /\ t.aborted = s.aborted
    /\ \A x \in Ports, e \in Directions : x # p \/ e # d => t.tokens[x][e] = s.tokens[x][e]
    /\ policy.scheduler = "DumbSch" =>
         \A r \in Qids : Cardinality(Turns(t, p, d, r)) =
                           IF r = q THEN Len(s.queue[p][d][r]) - 1 ELSE Len(s.queue[p][d][r])

LEMMA RemoveAtFacts ==
    ASSUME NEW T, NEW u \in Seq(T), NEW k \in 1..Len(u)
    PROVE  /\ RemoveAt(u, k) \in Seq(T)
           /\ Len(RemoveAt(u, k)) = Len(u) - 1
           /\ \A j \in 1..(Len(u) - 1) : RemoveAt(u, k)[j] = IF j < k THEN u[j] ELSE u[j + 1]
<1> DEFINE a == SubSeq(u, 1, k - 1)
           b == SubSeq(u, k + 1, Len(u))
<1>1. a \in Seq(T) /\ Len(a) = k - 1 /\ \A j \in 1..(k - 1) : a[j] = u[j]
  OBVIOUS
<1>2. b \in Seq(T) /\ Len(b) = Len(u) - k /\ \A j \in 1..(Len(u) - k) : b[j] = u[k + j]
  OBVIOUS
<1>3. RemoveAt(u, k) = a \o b
  BY DEF RemoveAt
<1> HIDE DEF a, b
<1>4. /\ a \o b \in Seq(T) /\ Len(a \o b) = Len(u) - 1
      /\ \A j \in 1..(Len(u) - 1) : (a \o b)[j] = IF j <= Len(a) THEN a[j] ELSE b[j - Len(a)]
  <2>1. Len(a) + Len(b) = Len(u) - 1
    BY <1>1, <1>2
  <2>2. /\ a \o b \in Seq(T) /\ Len(a \o b) = Len(a) + Len(b)
        /\ \A j \in 1..(Len(a) + Len(b)) :
             (a \o b)[j] = IF j <= Len(a) THEN a[j] ELSE b[j - Len(a)]
    BY <1>1, <1>2, ConcatProperties, Zenon
  <2> QED BY <2>1, <2>2
<1>5. ASSUME NEW j \in 1..(Len(u) - 1)
      PROVE  (a \o b)[j] = IF j < k THEN u[j] ELSE u[j + 1]
  BY <1>1, <1>2, <1>4
<1> QED BY <1>3, <1>4, <1>5

\* Of the value whose place is removed there is one less, of the others as many.
LEMMA RemoveAtCounts ==
    ASSUME NEW T, NEW u \in Seq(T), NEW k \in 1..Len(u), NEW q
    PROVE  /\ IsFiniteSet(Places(u, q))
           /\ Cardinality(Places(RemoveAt(u, k), q)) =
                IF u[k] = q THEN Cardinality(Places(u, q)) - 1 ELSE Cardinality(Places(u, q))
<1> USE DEF Places
<1> DEFINE v == RemoveAt(u, k)
           rest == Places(u, q) \ {k}
           f == [i \in rest |-> IF i < k THEN i ELSE i - 1]
<1>1. /\ v \in Seq(T) /\ Len(v) = Len(u) - 1
      /\ \A j \in 1..(Len(u) - 1) : v[j] = IF j < k THEN u[j] ELSE u[j + 1]
  BY RemoveAtFacts
<1> HIDE DEF v
<1>2. IsFiniteSet(Places(u, q))
  <2>1. IsFiniteSet(1..Len(u))
    BY FS_Interval
  <2>2. Places(u, q) \in SUBSET (1..Len(u))
    OBVIOUS
  <2> QED BY <2>1, <2>2, FS_Subset
<1>3. /\ IsFiniteSet(rest)
      /\ Cardinality(rest) = IF u[k] = q THEN Cardinality(Places(u, q)) - 1 ELSE Cardinality(Places(u, q))
  <2>1. k \in Places(u, q) <=> u[k] = q
    OBVIOUS
  <2> HIDE DEF Places
  <2> QED BY <1>2, <2>1, FS_RemoveElement
<1>4. f \in Bijection(rest, Places(v, q))
  <2>1. \A i \in rest : f[i] \in Places(v, q)
    BY <1>1
  <2>2. f \in [rest -> Places(v, q)]
    BY <2>1
  <2>3. \A i, j \in rest : f[i] = f[j] => i = j
    OBVIOUS
  <2>4. ASSUME NEW j \in Places(v, q) PROVE \E i \in rest : f[i] = j
    <3>1. j \in 1..(Len(u) - 1) /\ v[j] = q
      BY <1>1
    <3>2. CASE j < k
      <4>1. j \in rest /\ f[j] = j
        BY <1>1, <3>1, <3>2
      <4> QED BY <4>1
    <3>3. CASE ~(j < k)
      <4>1. j + 1 \in rest /\ f[j + 1] = j
        BY <1>1, <3>1, <3>3
      <4> QED BY <4>1
    <3> QED BY <3>2, <3>3
  <2> HIDE DEF f, rest, Places
  <2> QED BY <2>2, <2>3, <2>4 DEF Bijection, Injection, Surjection, IsInjective
<1>5. Cardinality(Places(v, q)) = Cardinality(rest)
  BY <1>3, <1>4, FS_Bijection DEF ExistsBijection
<1> QED BY <1>2, <1>3, <1>5 DEF v

-----------------------------------------------------------------------------
\* The schedulers

LEMMA TaskTypes ==
    ASSUME NEW s \in Task, NEW p \in Ports, NEW d \in Directions
    PROVE  /\ \A q \in Qids : s.queue[p][d][q] \in Seq(PDU)
           /\ s.waiting[p][d] \in Nat /\ s.wake[p][d] \in Nat
           /\ s.ready[p][d] \in BOOLEAN /\ s.blocked[p][d] \in BOOLEAN
           /\ s.tokens[p][d] \in Seq(Qids)
           /\ s.relay[p] \in Seq(PDU) /\ s.protect[p] \in Seq(PDU)
           /\ s.sending[p] \in BOOLEAN /\ s.lastQ[p] \in DOMAIN QueueIds
BY DEF Task

LEMMA SeqFacts ==
    ASSUME NEW T, NEW u \in Seq(T)
    PROVE  /\ Len(u) \in Nat /\ DOMAIN u = 1..Len(u)
           /\ \A i \in 1..Len(u) : u[i] \in T
           /\ u = <<>> <=> Len(u) = 0
BY EmptySeq, LenProperties

LEMMA QueueFacts ==
    ASSUME NEW s \in Task, NEW p \in Ports, NEW d \in Directions, NEW q \in Qids
    PROVE  /\ s.queue[p][d][q] \in Seq(PDU)
           /\ Len(s.queue[p][d][q]) \in Nat
           /\ DOMAIN s.queue[p][d][q] = 1..Len(s.queue[p][d][q])
           /\ \A i \in 1..Len(s.queue[p][d][q]) : s.queue[p][d][q][i] \in PDU
           /\ s.queue[p][d][q] = <<>> <=> Len(s.queue[p][d][q]) = 0
<1>1. s.queue[p][d][q] \in Seq(PDU)
  BY TaskTypes
<1> QED BY <1>1, SeqFacts

LEMMA QueueIdsFacts ==
    /\ Len(QueueIds) \in Nat \ {0}
    /\ DOMAIN QueueIds = 1..Len(QueueIds)
    /\ \A i \in 1..Len(QueueIds) : QueueIds[i] \in Qids
    /\ \A q \in Qids : \E i \in 1..Len(QueueIds) : QueueIds[i] = q
<1>1. QueueIds \in Seq(Qids) /\ QueueIds # <<>>
  BY RMTAssumption
<1>2. Len(QueueIds) \in Nat \ {0} /\ DOMAIN QueueIds = 1..Len(QueueIds)
  BY <1>1, EmptySeq, LenProperties
<1> QED BY <1>1, <1>2 DEF Qids, Range

LEMMA SomethingWaits ==
    ASSUME NEW s \in Task, NEW p \in Ports, NEW d \in Directions,
           Counted(s, p, d), s.waiting[p][d] # 0
    PROVE  \E q \in Qids : s.queue[p][d][q] # <<>>
<1>1. InQueues(s, p, d) # {}
  BY FS_EmptySet DEF Counted
<1>2. PICK q \in Qids, i \in Nat : i \in DOMAIN s.queue[p][d][q]
  BY <1>1 DEF InQueues
<1> DEFINE u == s.queue[p][d][q]
<1>3. Len(u) \in Nat /\ DOMAIN u = 1..Len(u) /\ (u = <<>> <=> Len(u) = 0)
  BY QueueFacts
<1>4. i \in DOMAIN u
  BY <1>2
<1> HIDE DEF u
<1>5. u # <<>>
  BY <1>3, <1>4
<1> QED BY <1>5 DEF u

LEMMA LongestWaits ==
    ASSUME NEW s \in Task, NEW p \in Ports, NEW d \in Directions,
           \E q \in Qids : s.queue[p][d][q] # <<>>
    PROVE  /\ GetLongestQueue(s, p, d) \in Qids
           /\ s.queue[p][d][GetLongestQueue(s, p, d)] # <<>>
<1> DEFINE n == Len(QueueIds)
           L(i) == Len(s.queue[p][d][QueueIds[i]])
           f == [i \in 1..n |-> L(i)]
           S == {L(i) : i \in DOMAIN QueueIds}
           best == {i \in DOMAIN QueueIds : L(i) = Max(S)}
<1>1. n \in Nat \ {0} /\ DOMAIN QueueIds = 1..n
  BY QueueIdsFacts
<1>2. \A i \in 1..n : QueueIds[i] \in Qids
  BY QueueIdsFacts
<1>3. GetLongestQueue(s, p, d) = QueueIds[Min(best)]
  BY DEF GetLongestQueue
<1>4. \A i \in 1..n : L(i) \in Nat /\ (L(i) = 0 <=> s.queue[p][d][QueueIds[i]] = <<>>)
  BY <1>2, QueueFacts
<1>5. PICK j \in 1..n : s.queue[p][d][QueueIds[j]] # <<>>
  BY QueueIdsFacts DEF n
<1>6. L(j) # 0
  BY <1>4, <1>5
<1> HIDE DEF n, L
<1>7. f \in [1..n -> Nat] /\ S = {f[i] : i \in 1..n}
  BY <1>1, <1>4
<1>8. /\ Max(S) \in S
      /\ \A m \in S : m <= Max(S)
  <2> HIDE DEF S, f
  <2> QED BY <1>1, <1>7, MaxOfValues
<1>9. L(j) \in S
  BY <1>1
<1>10. PICK i \in 1..n : Max(S) = L(i)
  BY <1>1, <1>8
<1> HIDE DEF f, S
<1>11. i \in best /\ best \in SUBSET Nat
  BY <1>1, <1>10
<1>12. Min(best) \in best
  <2> HIDE DEF best
  <2> QED BY <1>11, MinOfNaturals
<1> DEFINE m == Min(best)
<1>13. m \in 1..n /\ L(m) = L(i)
  BY <1>1, <1>10, <1>12
<1> HIDE DEF m
<1>14. L(m) # 0
  BY <1>4, <1>6, <1>8, <1>9, <1>10, <1>13
<1>15. QueueIds[m] \in Qids /\ s.queue[p][d][QueueIds[m]] # <<>>
  BY <1>2, <1>4, <1>13, <1>14
<1> QED BY <1>3, <1>15 DEF m

LEMMA NextWaits ==
    ASSUME NEW s \in Task, NEW p \in Ports,
           \E q \in Qids : s.queue[p]["out"][q] # <<>>
    PROVE  /\ IterativeScheduling_Next(s, p) \in 1..Len(QueueIds)
           /\ s.queue[p]["out"][QueueIds[IterativeScheduling_Next(s, p)]] # <<>>
<1> DEFINE n == Len(QueueIds)
           l == s.lastQ[p]
           after(k) == IF l + k <= n THEN l + k ELSE l + k - n
           steps == {k \in 0 .. n - 1 : s.queue[p]["out"][QueueIds[after(k)]] # <<>>}
<1>1. n \in Nat \ {0} /\ l \in 1..n
  BY QueueIdsFacts, TaskTypes DEF Directions
<1>2. PICK j \in 1..n : s.queue[p]["out"][QueueIds[j]] # <<>>
  BY QueueIdsFacts
<1>3. IterativeScheduling_Next(s, p) = after(Min(steps))
  BY DEF IterativeScheduling_Next
<1> HIDE DEF n, l
<1>4. steps # {} /\ steps \in SUBSET Nat
  <2>1. PICK k \in 0 .. n - 1 : after(k) = j
    <3>1. CASE j >= l
      <4>1. j - l \in 0 .. n - 1 /\ after(j - l) = j
        BY <1>1, <3>1
      <4> QED BY <4>1
    <3>2. CASE ~(j >= l)
      <4>1. j - l + n \in 0 .. n - 1 /\ after(j - l + n) = j
        BY <1>1, <3>2
      <4> QED BY <4>1
    <3> QED BY <3>1, <3>2
  <2> HIDE DEF after
  <2>2. k \in steps
    BY <1>2, <2>1
  <2>3. 0 .. n - 1 \in SUBSET Nat
    BY <1>1
  <2> QED BY <2>2, <2>3
<1>5. Min(steps) \in steps
  BY <1>4, MinOfNaturals
<1>6. after(Min(steps)) \in 1..n
  <2> DEFINE k == Min(steps)
  <2>1. k \in 0 .. n - 1
    BY <1>5
  <2> HIDE DEF k, steps
  <2>2. after(k) \in 1..n
    BY <1>1, <2>1
  <2> QED BY <2>2 DEF k
<1>7. s.queue[p]["out"][QueueIds[after(Min(steps))]] # <<>>
  BY <1>5
<1> HIDE DEF after, steps
<1> QED BY <1>3, <1>6, <1>7 DEF n

LEMMA TokenWaits ==
    ASSUME NEW s \in Task, NEW p \in Ports, NEW d \in Directions,
           policy.scheduler = "DumbSch", TurnsAgree(s, p, d),
           \E q \in Qids : s.queue[p][d][q] # <<>>
    PROVE  LET turn == NextToken(s, p, d)
           IN  /\ turn \in 1..Len(s.tokens[p][d])
               /\ s.tokens[p][d][turn] \in Qids
               /\ s.queue[p][d][s.tokens[p][d][turn]] # <<>>
<1> DEFINE tok == s.tokens[p][d]
           n == Len(tok)
           f == [i \in 1..n |-> Urgency[tok[i]]]
           S == {Urgency[tok[i]] : i \in DOMAIN tok}
           best == {i \in DOMAIN tok : Urgency[tok[i]] = Max(S)}
           turn == NextToken(s, p, d)
<1>1. tok \in Seq(Qids) /\ n \in Nat /\ DOMAIN tok = 1..n /\ \A i \in 1..n : tok[i] \in Qids
  <2>1. tok \in Seq(Qids)
    BY TaskTypes
  <2> HIDE DEF tok
  <2> QED BY <2>1, SeqFacts
<1> USE DEF Turns, Places
<1>2. n # 0
  <2>1. PICK q \in Qids : s.queue[p][d][q] # <<>>
    OBVIOUS
  <2>2. Len(s.queue[p][d][q]) # 0
    BY <2>1, QueueFacts
  <2>3. Turns(s, p, d, q) # {}
    BY <2>1, <2>2, FS_EmptySet DEF TurnsAgree
  <2>4. PICK i \in DOMAIN tok : TRUE
    BY <2>3
  <2> HIDE DEF n, tok
  <2> QED BY <1>1, <2>4
<1>3. turn \in 1..n
  <2>1. CASE d = "in"
    <3>1. turn = 1
      BY <2>1 DEF NextToken
    <3> HIDE DEF n, turn
    <3> QED BY <1>1, <1>2, <3>1
  <2>2. CASE d # "in"
    <3>1. turn = Min(best)
      BY <2>2 DEF NextToken
    <3>2. f \in [1..n -> Nat] /\ S = {f[i] : i \in 1..n}
      BY <1>1, RMTAssumption
    <3>3. Max(S) \in S
      <4> HIDE DEF S, f, n
      <4> QED BY <1>1, <1>2, <3>2, MaxOfValues
    <3>4. best # {} /\ best \in SUBSET Nat
      <4>1. PICK i \in DOMAIN tok : Max(S) = Urgency[tok[i]]
        BY <3>3
      <4> HIDE DEF n, tok, S
      <4> QED BY <1>1, <4>1
    <3>5. Min(best) \in best
      BY <3>4, MinOfNaturals
    <3> QED BY <1>1, <3>1, <3>5
  <2> QED BY <2>1, <2>2
<1> HIDE DEF turn
<1> DEFINE q == tok[turn]
<1>4. q \in Qids /\ turn \in Turns(s, p, d, q)
  BY <1>1, <1>3
<1>5. IsFiniteSet(Turns(s, p, d, q))
  <2>1. IsFiniteSet(1..n)
    <3> HIDE DEF n
    <3> QED BY <1>1, FS_Interval
  <2>2. Turns(s, p, d, q) \in SUBSET (1..n)
    BY <1>1
  <2> QED BY <2>1, <2>2, FS_Subset
<1>6. Len(s.queue[p][d][q]) # 0
  <2> HIDE DEF q
  <2>1. Cardinality(Turns(s, p, d, q)) # 0
    BY <1>4, <1>5, FS_EmptySet DEF TurnsAgree
  <2> QED BY <1>4, <2>1 DEF TurnsAgree
<1>7. s.queue[p][d][q] # <<>>
  BY <1>4, <1>6, EmptySeq
<1> QED BY <1>3, <1>4, <1>7 DEF turn

LEMMA ScheduleServes ==
    ASSUME policy \in Policies, NEW read,
           NEW s \in Task, NEW p \in Ports, NEW d \in Directions,
           Books(s, p, d), s.ready[p][d], s.waiting[p][d] # 0
    PROVE  \E q \in Qids, t \in Task :
              /\ Schedule(read, s, p, d) = ReleasePDU(read, t, p, d, q)
              /\ s.queue[p][d][q] # <<>>
              /\ TurnTaken(s, t, p, d, q)
<1>1. \E q \in Qids : s.queue[p][d][q] # <<>>
  BY SomethingWaits DEF Books
<1>2. policy.scheduler \in {"LongestQFirst", "IterativeScheduling", "DumbSch"}
  BY RMTAssumption
<1>3. CASE policy.scheduler = "DumbSch"
  <2> DEFINE turn == NextToken(s, p, d)
             q == s.tokens[p][d][turn]
             left_ == RemoveAt(s.tokens[p][d], turn)
             t == [s EXCEPT !.tokens[p][d] = left_]
  <2>1. turn \in 1..Len(s.tokens[p][d]) /\ q \in Qids /\ s.queue[p][d][q] # <<>>
    BY <1>1, <1>3, TokenWaits DEF Books
  <2>2. Schedule(read, s, p, d) = ReleasePDU(read, t, p, d, q)
    BY <1>3 DEF Schedule, DumbSch
  <2> HIDE DEF turn
  <2>3. s.tokens[p][d] \in Seq(Qids)
    BY TaskTypes
  <2>4. left_ \in Seq(Qids)
    BY <2>1, <2>3, RemoveAtFacts
  <2>5. \A r \in Qids : Cardinality(Places(left_, r)) =
            IF q = r THEN Cardinality(Turns(s, p, d, r)) - 1
                     ELSE Cardinality(Turns(s, p, d, r))
    <3> DEFINE tok == s.tokens[p][d]
    <3>1. tok \in Seq(Qids) /\ turn \in 1..Len(tok)
      BY <2>1, <2>3
    <3> HIDE DEF tok
    <3> QED BY <3>1, RemoveAtCounts DEF tok, Turns
  <2> HIDE DEF left_, q
  <2>6. t \in Task
    BY <2>4 DEF Task
  <2>7. t.tokens[p][d] = left_ /\ \A x \in Ports, e \in Directions :
            x # p \/ e # d => t.tokens[x][e] = s.tokens[x][e]
    BY DEF Task
  <2>8. \A r \in Qids : Cardinality(Turns(t, p, d, r)) =
            IF r = q THEN Len(s.queue[p][d][r]) - 1 ELSE Len(s.queue[p][d][r])
    <3>1. ASSUME NEW r \in Qids
          PROVE  Turns(t, p, d, r) = Places(left_, r)
      BY <2>7 DEF Turns
    <3>2. \A r \in Qids : Cardinality(Turns(s, p, d, r)) = Len(s.queue[p][d][r])
      BY <1>3 DEF Books, TurnsAgree
    <3> HIDE DEF t
    <3> QED BY <2>5, <3>1, <3>2
  <2>9. /\ t.queue = s.queue /\ t.waiting = s.waiting /\ t.ready = s.ready
        /\ t.blocked = s.blocked /\ t.wake = s.wake /\ t.relay = s.relay
        /\ t.protect = s.protect /\ t.sending = s.sending /\ t.stopped = s.stopped
        /\ t.up = s.up /\ t.aborted = s.aborted
    BY DEF Task
  <2> HIDE DEF t
  <2> QED BY <2>1, <2>2, <2>6, <2>7, <2>8, <2>9 DEF TurnTaken
<1>4. CASE policy.scheduler = "IterativeScheduling" /\ d = "out"
  <2> DEFINE turn == IterativeScheduling_Next(s, p)
             next == IF turn = Len(QueueIds) THEN 1 ELSE turn + 1
             t == [s EXCEPT !.lastQ[p] = next]
  <2>1. turn \in 1..Len(QueueIds) /\ s.queue[p]["out"][QueueIds[turn]] # <<>>
    BY <1>1, <1>4, NextWaits
  <2>2. Schedule(read, s, p, d) = ReleasePDU(read, t, p, d, QueueIds[turn])
    BY <1>4 DEF Schedule, IterativeScheduling
  <2> HIDE DEF turn
  <2>3. next \in DOMAIN QueueIds /\ QueueIds[turn] \in Qids
    BY <2>1, QueueIdsFacts
  <2> HIDE DEF next
  <2>4. t \in Task
    BY <2>3 DEF Task
  <2>5. TurnTaken(s, t, p, d, QueueIds[turn])
    BY <1>4, <2>4 DEF TurnTaken, Task
  <2> HIDE DEF t
  <2> QED BY <1>4, <2>1, <2>2, <2>3, <2>4, <2>5
<1>5. CASE policy.scheduler # "DumbSch" /\ ~(policy.scheduler = "IterativeScheduling" /\ d = "out")
  <2>1. Schedule(read, s, p, d) = ReleasePDU(read, s, p, d, GetLongestQueue(s, p, d))
    BY <1>5 DEF Schedule
  <2>2. /\ GetLongestQueue(s, p, d) \in Qids
        /\ s.queue[p][d][GetLongestQueue(s, p, d)] # <<>>
    BY <1>1, LongestWaits
  <2>3. TurnTaken(s, s, p, d, GetLongestQueue(s, p, d))
    BY <1>5 DEF TurnTaken
  <2> QED BY <2>1, <2>2, <2>3
<1> QED BY <1>3, <1>4, <1>5

-----------------------------------------------------------------------------
\* A PDU leaves its queue, and the books are brought up to date.
Released(s, p, d, q) ==
    [IterativeStop_PostPDURelease(SendFirst(s, p, d, q), p, d, q) EXCEPT
       !.waiting[p][d] = @ - 1]

Popped(s, t, p, d, q) ==
    /\ t.queue = [s.queue EXCEPT ![p][d][q] = Tail(@)]
    /\ t.waiting = [s.waiting EXCEPT ![p][d] = @ - 1]
    /\ t.relay = IF d = "in" THEN [s.relay EXCEPT ![p] = Append(@, Head(s.queue[p][d][q]))]
                 ELSE s.relay
    /\ t.protect = IF d = "in" THEN s.protect
                   ELSE [s.protect EXCEPT ![p] = Append(@, Head(s.queue[p][d][q]))]
    /\ t.ready = s.ready /\ t.blocked = s.blocked /\ t.wake = s.wake
    /\ t.sending = s.sending /\ t.up = s.up /\ t.aborted = s.aborted
    /\ \A x \in Ports, e \in Directions : x # p \/ e # d => t.tokens[x][e] = s.tokens[x][e]
    /\ t.stopped \subseteq s.stopped
    /\ d = "in" => t.stopped = s.stopped
    /\ d = "out" /\ policy.stop /\ <<p, q>> \in t.stopped =>
         Len(t.queue[p]["out"][q]) > RestartAt

LEMMA ReleasedPops ==
    ASSUME NEW s \in Task, NEW t \in Task, NEW p \in Ports, NEW d \in Directions,
           NEW q \in Qids, s.queue[p][d][q] # <<>>, TurnTaken(s, t, p, d, q),
           s.waiting[p][d] # 0
    PROVE  /\ Released(t, p, d, q) \in Task
           /\ Popped(s, Released(t, p, d, q), p, d, q)
           /\ Released(t, p, d, q).tokens = t.tokens
<1> DEFINE pdus == s.queue[p][d][q]
           u == SendFirst(t, p, d, q)
           v == IterativeStop_PostPDURelease(u, p, d, q)
           w == Released(t, p, d, q)
<1>1. pdus \in Seq(PDU) /\ Head(pdus) \in PDU /\ Tail(pdus) \in Seq(PDU) /\ Len(pdus) \in Nat
  <2>1. pdus \in Seq(PDU)
    BY TaskTypes
  <2> QED BY <2>1, HeadTailProperties, SeqFacts
<1>2. t.queue[p][d][q] = pdus
  BY DEF TurnTaken
<1> HIDE DEF pdus
<1>3. Append(s.relay[p], Head(pdus)) \in Seq(PDU) /\ Append(s.protect[p], Head(pdus)) \in Seq(PDU)
  BY <1>1, TaskTypes, AppendProperties
<1>4. /\ u \in Task
      /\ u.queue = [s.queue EXCEPT ![p][d][q] = Tail(pdus)]
      /\ u.relay = IF d = "in" THEN [s.relay EXCEPT ![p] = Append(@, Head(pdus))] ELSE s.relay
      /\ u.protect = IF d = "in" THEN s.protect
                     ELSE [s.protect EXCEPT ![p] = Append(@, Head(pdus))]
      /\ u.waiting = s.waiting /\ u.tokens = t.tokens /\ u.stopped = s.stopped
      /\ u.ready = s.ready /\ u.blocked = s.blocked /\ u.wake = s.wake
      /\ u.sending = s.sending /\ u.up = s.up /\ u.aborted = s.aborted
  <2> DEFINE popped == [t EXCEPT !.queue[p][d][q] = Tail(pdus)]
  <2>1. /\ popped \in Task
        /\ popped.queue = [s.queue EXCEPT ![p][d][q] = Tail(pdus)]
        /\ popped.relay = s.relay /\ popped.protect = s.protect
        /\ popped.waiting = s.waiting /\ popped.tokens = t.tokens /\ popped.stopped = s.stopped
        /\ popped.ready = s.ready /\ popped.blocked = s.blocked /\ popped.wake = s.wake
        /\ popped.sending = s.sending /\ popped.up = s.up /\ popped.aborted = s.aborted
    <3> DEFINE Q == [s.queue EXCEPT ![p][d][q] = Tail(pdus)]
    <3>1. s.queue \in [Ports -> [Directions -> [Qids -> Seq(PDU)]]]
      BY DEF Task
    <3>2. Q \in [Ports -> [Directions -> [Qids -> Seq(PDU)]]]
      <4>1. [s.queue[p][d] EXCEPT ![q] = Tail(pdus)] \in [Qids -> Seq(PDU)]
        BY <1>1, <3>1
      <4>2. [s.queue[p] EXCEPT ![d] = [s.queue[p][d] EXCEPT ![q] = Tail(pdus)]]
              \in [Directions -> [Qids -> Seq(PDU)]]
        BY <3>1, <4>1
      <4> QED BY <3>1, <4>2
    <3>3. t \in Task /\ t.queue = s.queue
      BY DEF TurnTaken
    <3>4. popped = [t EXCEPT !.queue = Q]
      BY <3>3
    <3> HIDE DEF Q, popped
    <3>5. popped \in Task /\ popped.queue = Q
      BY <3>2, <3>3, <3>4 DEF Task
    <3>6. /\ popped.relay = t.relay /\ popped.protect = t.protect
          /\ popped.waiting = t.waiting /\ popped.tokens = t.tokens /\ popped.stopped = t.stopped
          /\ popped.ready = t.ready /\ popped.blocked = t.blocked /\ popped.wake = t.wake
          /\ popped.sending = t.sending /\ popped.up = t.up /\ popped.aborted = t.aborted
      BY <3>3, <3>4 DEF Task
    <3> QED BY <3>5, <3>6 DEF TurnTaken, Q
  <2>2. u = IF d = "in" THEN [popped EXCEPT !.relay[p] = Append(@, Head(pdus))]
            ELSE [popped EXCEPT !.protect[p] = Append(@, Head(pdus))]
    BY <1>2 DEF SendFirst
  <2> HIDE DEF popped, u
  <2>3. CASE d = "in"
    <3>1. u = [popped EXCEPT !.relay[p] = Append(@, Head(pdus))]
      BY <2>2, <2>3
    <3> QED BY <1>3, <2>1, <2>3, <3>1 DEF Task
  <2>4. CASE d # "in"
    <3>1. u = [popped EXCEPT !.protect[p] = Append(@, Head(pdus))]
      BY <2>2, <2>4
    <3> QED BY <1>3, <2>1, <2>4, <3>1 DEF Task
  <2> QED BY <2>3, <2>4
<1> HIDE DEF u
<1>5. v = IF policy.stop /\ d = "out" /\ Len(u.queue[p][d][q]) <= RestartAt
          THEN [u EXCEPT !.stopped = @ \ {<<p, q>>}] ELSE u
  BY DEF IterativeStop_PostPDURelease
<1> HIDE DEF v
<1>6. /\ v \in Task /\ v.queue = u.queue /\ v.relay = u.relay /\ v.protect = u.protect
      /\ v.waiting = u.waiting /\ v.tokens = u.tokens
      /\ v.ready = u.ready /\ v.blocked = u.blocked /\ v.wake = u.wake
      /\ v.sending = u.sending /\ v.up = u.up /\ v.aborted = u.aborted
      /\ v.stopped \subseteq u.stopped
      /\ d = "in" => v.stopped = u.stopped
      /\ d = "out" /\ policy.stop /\ Len(u.queue[p]["out"][q]) <= RestartAt =>
           ~(<<p, q>> \in v.stopped)
  <2>1. CASE policy.stop /\ d = "out" /\ Len(u.queue[p][d][q]) <= RestartAt
    <3>1. v = [u EXCEPT !.stopped = @ \ {<<p, q>>}]
      BY <1>5, <2>1
    <3> QED BY <1>4, <2>1, <3>1 DEF Task
  <2>2. CASE ~(policy.stop /\ d = "out" /\ Len(u.queue[p][d][q]) <= RestartAt)
    BY <1>4, <1>5, <2>2
  <2> QED BY <2>1, <2>2
<1>7. w = [v EXCEPT !.waiting[p][d] = @ - 1]
  BY DEF Released, v, u
<1>8. s.waiting[p][d] - 1 \in Nat
  BY TaskTypes
<1> HIDE DEF w
<1>9. /\ w \in Task /\ w.queue = v.queue /\ w.relay = v.relay /\ w.protect = v.protect
      /\ w.waiting = [s.waiting EXCEPT ![p][d] = @ - 1] /\ w.tokens = v.tokens
      /\ w.ready = v.ready /\ w.blocked = v.blocked /\ w.wake = v.wake
      /\ w.sending = v.sending /\ w.up = v.up /\ w.aborted = v.aborted
      /\ w.stopped = v.stopped
  BY <1>4, <1>6, <1>7, <1>8, ZenonT(60) DEF Task
<1>10. d = "out" /\ policy.stop /\ <<p, q>> \in w.stopped => Len(w.queue[p]["out"][q]) > RestartAt
  <2>1. d = "out" => Len(w.queue[p]["out"][q]) \in Nat
    BY <1>9, QueueFacts
  <2> QED BY <1>6, <1>9, <2>1, RMTAssumption
<1>11. w.queue = [s.queue EXCEPT ![p][d][q] = Tail(@)]
  BY <1>4, <1>6, <1>9 DEF pdus
<1>12. \A x \in Ports, e \in Directions : x # p \/ e # d => w.tokens[x][e] = s.tokens[x][e]
  BY <1>4, <1>6, <1>9 DEF TurnTaken
<1> QED BY <1>4, <1>6, <1>9, <1>10, <1>11, <1>12 DEF Popped, pdus, w

\* Where the queues of a port and their books do not change, the books stay right.
LEMMA SameBooks ==
    ASSUME NEW s, NEW t, NEW x, NEW e, Books(s, x, e),
           t.queue[x][e] = s.queue[x][e], t.waiting[x][e] = s.waiting[x][e],
           t.tokens[x][e] = s.tokens[x][e]
    PROVE  Books(t, x, e)
<1>1. InQueues(t, x, e) = InQueues(s, x, e)
  BY DEF InQueues
<1>2. \A q \in Qids : Turns(t, x, e, q) = Turns(s, x, e, q)
  BY DEF Turns
<1> QED BY <1>1, <1>2 DEF Books, Counted, TurnsAgree

\* A PDU less at the end of a queue is one less in the queues.
LEMMA ShorterQueue ==
    ASSUME NEW s \in Task, NEW t \in Task, NEW p \in Ports, NEW d \in Directions,
           NEW q \in Qids, IsFiniteSet(InQueues(s, p, d)),
           Len(s.queue[p][d][q]) # 0,
           Len(t.queue[p][d][q]) = Len(s.queue[p][d][q]) - 1,
           \A r \in Qids : r # q => t.queue[p][d][r] = s.queue[p][d][r]
    PROVE  /\ IsFiniteSet(InQueues(t, p, d))
           /\ Cardinality(InQueues(t, p, d)) = Cardinality(InQueues(s, p, d)) - 1
<1> DEFINE n == Len(s.queue[p][d][q])
           S == InQueues(s, p, d)
           T == InQueues(t, p, d)
           last == <<q, n>>
<1>1. n \in Nat /\ n # 0
  BY QueueFacts
<1>2. \A r \in Qids : DOMAIN s.queue[p][d][r] = 1..Len(s.queue[p][d][r])
                      /\ DOMAIN t.queue[p][d][r] = 1..Len(t.queue[p][d][r])
                      /\ Len(s.queue[p][d][r]) \in Nat
  BY QueueFacts
<1>3. last \in S
  BY <1>1, <1>2 DEF InQueues
<1>4. T = S \ {last}
  <2>1. ASSUME NEW r \in Qids, NEW i \in Nat
        PROVE  i \in DOMAIN t.queue[p][d][r] <=>
                 i \in DOMAIN s.queue[p][d][r] /\ ~(r = q /\ i = n)
    <3>1. CASE r = q
      <4>1. DOMAIN s.queue[p][d][q] = 1..n /\ DOMAIN t.queue[p][d][q] = 1..(n - 1)
        BY <1>2
      <4> HIDE DEF n
      <4>2. i \in 1..(n - 1) <=> i \in 1..n /\ i # n
        BY <1>1
      <4> QED BY <3>1, <4>1, <4>2
    <3>2. CASE r # q
      BY <3>2
    <3> QED BY <3>1, <3>2
  <2> HIDE DEF n
  <2>2. ASSUME NEW e \in Qids \X Nat
        PROVE  e \in T <=> e \in S \ {last}
    <3>1. PICK r \in Qids, i \in Nat : e = <<r, i>>
      OBVIOUS
    <3>2. e \in T <=> i \in DOMAIN t.queue[p][d][r]
      BY <3>1 DEF InQueues
    <3>3. e \in S <=> i \in DOMAIN s.queue[p][d][r]
      BY <3>1 DEF InQueues
    <3>4. e = last <=> r = q /\ i = n
      BY <3>1
    <3> QED BY <2>1, <3>2, <3>3, <3>4
  <2>3. T \subseteq Qids \X Nat /\ S \subseteq Qids \X Nat
    BY DEF InQueues
  <2> HIDE DEF S, T, last
  <2> QED BY <2>2, <2>3
<1> HIDE DEF S, T, last
<1>5. IsFiniteSet(S \ {last}) /\ Cardinality(S \ {last}) = Cardinality(S) - 1
  BY <1>3, FS_RemoveElement DEF S
<1> QED BY <1>4, <1>5 DEF S, T

LEMMA LongerQueue ==
    ASSUME NEW s \in Task, NEW t \in Task, NEW p \in Ports, NEW d \in Directions,
           NEW q \in Qids, IsFiniteSet(InQueues(s, p, d)),
           Len(t.queue[p][d][q]) = Len(s.queue[p][d][q]) + 1,
           \A r \in Qids : r # q => t.queue[p][d][r] = s.queue[p][d][r]
    PROVE  /\ IsFiniteSet(InQueues(t, p, d))
           /\ Cardinality(InQueues(t, p, d)) = Cardinality(InQueues(s, p, d)) + 1
<1> DEFINE n == Len(t.queue[p][d][q])
           S == InQueues(s, p, d)
           T == InQueues(t, p, d)
           last == <<q, n>>
<1>1. n \in Nat /\ n # 0 /\ Len(s.queue[p][d][q]) = n - 1
  BY QueueFacts, SMTT(60)
<1>2. \A r \in Qids : DOMAIN s.queue[p][d][r] = 1..Len(s.queue[p][d][r])
                      /\ DOMAIN t.queue[p][d][r] = 1..Len(t.queue[p][d][r])
                      /\ Len(s.queue[p][d][r]) \in Nat
  BY QueueFacts
<1>3. ASSUME last \in S PROVE FALSE
  <2>1. n \in DOMAIN s.queue[p][d][q]
    BY <1>1, <1>3 DEF InQueues
  <2> QED BY <1>1, <1>2, <2>1
<1>4. T = S \cup {last}
  <2>1. ASSUME NEW r \in Qids, NEW i \in Nat
        PROVE  i \in DOMAIN t.queue[p][d][r] <=>
                 i \in DOMAIN s.queue[p][d][r] \/ (r = q /\ i = n)
    <3>1. CASE r = q
      <4>1. DOMAIN s.queue[p][d][q] = 1..(n - 1) /\ DOMAIN t.queue[p][d][q] = 1..n
        BY <1>1, <1>2
      <4> HIDE DEF n
      <4>2. i \in 1..n <=> i \in 1..(n - 1) \/ i = n
        BY <1>1
      <4> QED BY <3>1, <4>1, <4>2
    <3>2. CASE r # q
      BY <3>2
    <3> QED BY <3>1, <3>2
  <2> HIDE DEF n
  <2>2. ASSUME NEW e \in Qids \X Nat
        PROVE  e \in T <=> e \in S \cup {last}
    <3>1. PICK r \in Qids, i \in Nat : e = <<r, i>>
      OBVIOUS
    <3>2. e \in T <=> i \in DOMAIN t.queue[p][d][r]
      BY <3>1 DEF InQueues
    <3>3. e \in S <=> i \in DOMAIN s.queue[p][d][r]
      BY <3>1 DEF InQueues
    <3>4. e = last <=> r = q /\ i = n
      BY <3>1
    <3> QED BY <2>1, <3>2, <3>3, <3>4
  <2>3. T \subseteq Qids \X Nat /\ S \subseteq Qids \X Nat /\ last \in Qids \X Nat
    BY <1>1 DEF InQueues
  <2> HIDE DEF S, T, last
  <2> QED BY <2>2, <2>3
<1> HIDE DEF S, T, last
<1>5. IsFiniteSet(S \cup {last}) /\ Cardinality(S \cup {last}) = Cardinality(S) + 1
  BY <1>3, FS_AddElement DEF S
<1> QED BY <1>4, <1>5 DEF S, T

LEMMA PoppedBooks ==
    ASSUME NEW s \in Task, NEW t \in Task, NEW c \in Task,
           NEW p \in Ports, NEW d \in Directions, NEW q \in Qids,
           s.queue[p][d][q] # <<>>, s.waiting[p][d] # 0, TurnTaken(s, t, p, d, q),
           Popped(s, c, p, d, q), c.tokens = t.tokens
    PROVE  /\ Books(s, p, d) => Books(c, p, d)
           /\ \A x \in Ports, e \in Directions :
                (x # p \/ e # d) /\ Books(s, x, e) => Books(c, x, e)
<1>1. s.queue[p][d][q] \in Seq(PDU) /\ Len(s.queue[p][d][q]) \in Nat \ {0}
  BY QueueFacts
<1>2. /\ c.queue[p][d][q] = Tail(s.queue[p][d][q])
      /\ \A r \in Qids : r # q => c.queue[p][d][r] = s.queue[p][d][r]
  BY DEF Popped, Task
<1>3. Len(c.queue[p][d][q]) = Len(s.queue[p][d][q]) - 1
  BY <1>1, <1>2, HeadTailProperties
<1>4. ASSUME Books(s, p, d)
      PROVE  Books(c, p, d)
  <2>1. Counted(c, p, d)
    <3>1. c.waiting[p][d] = s.waiting[p][d] - 1
      BY DEF Popped, Task
    <3>2. /\ IsFiniteSet(InQueues(s, p, d))
          /\ s.waiting[p][d] = Cardinality(InQueues(s, p, d))
      BY <1>4 DEF Books, Counted
    <3>3. Len(s.queue[p][d][q]) # 0
      BY <1>1
    <3>4. /\ IsFiniteSet(InQueues(c, p, d))
          /\ Cardinality(InQueues(c, p, d)) = Cardinality(InQueues(s, p, d)) - 1
      BY <1>2, <1>3, <3>2, <3>3, ShorterQueue
    <3> QED BY <3>1, <3>2, <3>4 DEF Counted
  <2>2. TurnsAgree(c, p, d)
    <3>1. \A r \in Qids : Turns(c, p, d, r) = Turns(t, p, d, r)
      BY DEF Turns
    <3> QED BY <1>2, <1>3, <3>1 DEF TurnTaken, TurnsAgree
  <2> QED BY <2>1, <2>2 DEF Books
<1>5. ASSUME NEW x \in Ports, NEW e \in Directions, x # p \/ e # d, Books(s, x, e)
      PROVE  Books(c, x, e)
  <2>1. c.queue[x][e] = s.queue[x][e] /\ c.waiting[x][e] = s.waiting[x][e]
    <3>1. c.queue = [s.queue EXCEPT ![p][d][q] = Tail(@)]
          /\ c.waiting = [s.waiting EXCEPT ![p][d] = @ - 1]
      BY DEF Popped
    <3>2. s.queue \in [Ports -> [Directions -> [Qids -> Seq(PDU)]]]
          /\ s.waiting \in [Ports -> [Directions -> Nat]]
      BY DEF Task
    <3>3. CASE x # p
      BY <3>1, <3>2, <3>3
    <3>4. CASE e # d
      BY <3>1, <3>2, <3>4
    <3> QED BY <1>5, <3>3, <3>4
  <2>2. c.tokens[x][e] = s.tokens[x][e]
    BY <1>5 DEF Popped
  <2> QED BY <1>5, <2>1, <2>2, SameBooks
<1> QED BY <1>4, <1>5

-----------------------------------------------------------------------------
\* The order of the PDUs of a flow.  A port's input queues and what they have
\* released, and its output queues and what they have released, are a line each.
Sorted(u) ==
    \A i, j \in DOMAIN u : i < j /\ u[i].flow = u[j].flow => u[i].n < u[j].n
Precede(A, B) == \A u \in A, v \in B : u.flow = v.flow => u.n < v.n

Line(R, Q) ==
    /\ Sorted(R)
    /\ \A q \in Qids : /\ Sorted(Q[q])
                       /\ Precede(Range(R), Range(Q[q]))
                       /\ \A u \in Range(Q[q]) : QueueId[u.flow] = q
Content(R, Q) == Range(R) \cup UNION {Range(Q[q]) : q \in Qids}

LEMMA RangeFacts ==
    ASSUME NEW u \in Seq(PDU)
    PROVE  /\ \A e \in PDU : Range(Append(u, e)) = Range(u) \cup {e}
           /\ u # <<>> => /\ Range(u) = {Head(u)} \cup Range(Tail(u))
                          /\ Head(u) \in Range(u)
           /\ Range(u) \subseteq PDU
           /\ Range(<<>>) = {}
<1>1. ASSUME NEW e \in PDU
      PROVE  Range(Append(u, e)) = Range(u) \cup {e}
  <2> DEFINE v == Append(u, e)
  <2>1. /\ v \in Seq(PDU) /\ Len(v) = Len(u) + 1 /\ v[Len(u) + 1] = e
        /\ \A i \in 1..Len(u) : v[i] = u[i]
    BY AppendProperties
  <2>2. DOMAIN v = 1..(Len(u) + 1) /\ DOMAIN u = 1..Len(u) /\ Len(u) \in Nat
    BY <2>1, SeqFacts
  <2> HIDE DEF v
  <2>3. Range(v) = Range(u) \cup {e}
    BY <2>1, <2>2 DEF Range
  <2> QED BY <2>3 DEF v
<1>2. ASSUME u # <<>>
      PROVE  Range(u) = {Head(u)} \cup Range(Tail(u)) /\ Head(u) \in Range(u)
  <2> DEFINE v == Tail(u)
  <2>1. v \in Seq(PDU) /\ Len(v) = Len(u) - 1 /\ \A i \in 1..Len(v) : v[i] = u[i + 1]
    BY <1>2, HeadTailProperties
  <2>2. DOMAIN v = 1..Len(v) /\ DOMAIN u = 1..Len(u) /\ Len(u) \in Nat \ {0} /\ Head(u) = u[1]
    BY <1>2, <2>1, SeqFacts
  <2> HIDE DEF v
  <2>3. \A i \in 1..Len(u) : i = 1 \/ (i - 1 \in 1..Len(v) /\ u[i] = v[i - 1])
    <3> TAKE i \in 1..Len(u)
    <3>1. CASE i # 1
      <4>1. i - 1 \in 1..Len(v)
        BY <2>1, <2>2, <3>1
      <4>2. v[i - 1] = u[(i - 1) + 1] /\ (i - 1) + 1 = i
        BY <2>1, <2>2, <4>1
      <4> QED BY <4>1, <4>2
    <3> QED BY <3>1
  <2>4. \A i \in 1..Len(v) : i + 1 \in 1..Len(u)
    BY <2>1, <2>2
  <2>5. Range(u) = {Head(u)} \cup Range(v)
    <3>1. ASSUME NEW x \in Range(u)
          PROVE  x \in {Head(u)} \cup Range(v)
      <4>1. PICK i \in 1..Len(u) : x = u[i]
        BY <2>2 DEF Range
      <4> QED BY <2>2, <2>3, <4>1 DEF Range
    <3>2. ASSUME NEW x \in Range(v)
          PROVE  x \in Range(u)
      <4>1. PICK i \in 1..Len(v) : x = v[i]
        BY <2>2 DEF Range
      <4>2. x = u[i + 1]
        BY <2>1, <4>1
      <4> QED BY <2>2, <2>4, <4>2 DEF Range
    <3>3. Head(u) \in Range(u)
      BY <2>2 DEF Range
    <3> QED BY <3>1, <3>2, <3>3
  <2> QED BY <2>5 DEF v
<1>3. Range(u) \subseteq PDU
  BY SeqFacts DEF Range
<1>4. Range(<<>>) = {}
  BY DEF Range
<1> QED BY <1>1, <1>2, <1>3, <1>4

LEMMA SortedAppend ==
    ASSUME NEW u \in Seq(PDU), NEW e \in PDU, Sorted(u), Precede(Range(u), {e})
    PROVE  Sorted(Append(u, e))
<1> DEFINE v == Append(u, e)
<1>1. /\ v \in Seq(PDU) /\ Len(v) = Len(u) + 1 /\ v[Len(u) + 1] = e
      /\ \A i \in 1..Len(u) : v[i] = u[i]
  BY AppendProperties
<1>2. DOMAIN v = 1..(Len(u) + 1) /\ DOMAIN u = 1..Len(u) /\ Len(u) \in Nat
  BY <1>1, SeqFacts
<1>3. \A i \in 1..Len(u) : u[i].flow = e.flow => u[i].n < e.n
  BY <1>2 DEF Precede, Range
<1> HIDE DEF v
<1>4. ASSUME NEW i \in DOMAIN v, NEW j \in DOMAIN v, i < j, v[i].flow = v[j].flow
      PROVE  v[i].n < v[j].n
  <2>1. i \in 1..Len(u)
    BY <1>2, <1>4
  <2>2. CASE j \in 1..Len(u)
    BY <1>1, <1>2, <1>4, <2>1, <2>2 DEF Sorted
  <2>3. CASE j = Len(u) + 1
    BY <1>1, <1>3, <1>4, <2>1, <2>3
  <2> QED BY <1>2, <2>2, <2>3
<1> QED BY <1>4 DEF Sorted, v

LEMMA SortedTail ==
    ASSUME NEW u \in Seq(PDU), u # <<>>, Sorted(u)
    PROVE  Sorted(Tail(u)) /\ Precede({Head(u)}, Range(Tail(u)))
<1> DEFINE v == Tail(u)
<1>1. v \in Seq(PDU) /\ Len(v) = Len(u) - 1 /\ \A i \in 1..Len(v) : v[i] = u[i + 1]
  BY HeadTailProperties
<1>2. DOMAIN v = 1..Len(v) /\ DOMAIN u = 1..Len(u) /\ Len(u) \in Nat \ {0} /\ Head(u) = u[1]
  BY <1>1, SeqFacts
<1> HIDE DEF v
<1>3. \A i \in DOMAIN v : i \in Nat /\ i + 1 \in DOMAIN u /\ 1 \in DOMAIN u /\ 1 < i + 1
                          /\ v[i] = u[i + 1]
  BY <1>1, <1>2
<1>4. ASSUME NEW i \in DOMAIN v, NEW j \in DOMAIN v, i < j, v[i].flow = v[j].flow
      PROVE  v[i].n < v[j].n
  <2>1. i + 1 < j + 1 /\ i + 1 \in DOMAIN u /\ j + 1 \in DOMAIN u
    BY <1>3, <1>4
  <2> QED BY <1>3, <1>4, <2>1 DEF Sorted
<1>5. ASSUME NEW i \in DOMAIN v, Head(u).flow = v[i].flow
      PROVE  Head(u).n < v[i].n
  BY <1>2, <1>3, <1>5 DEF Sorted
<1> QED BY <1>4, <1>5 DEF Sorted, Precede, Range, v

\* The first PDU of a queue is released, or a PDU joins a queue.
MovesHead(R, Q, q, S, P) ==
    /\ R \in Seq(PDU) /\ Q \in [Qids -> Seq(PDU)] /\ q \in Qids /\ Q[q] # <<>>
    /\ S = Append(R, Head(Q[q])) /\ P[q] = Tail(Q[q])
    /\ \A r \in Qids : r # q => P[r] = Q[r]

Joins(R, Q, q, u, P) ==
    /\ R \in Seq(PDU) /\ Q \in [Qids -> Seq(PDU)] /\ q \in Qids /\ u \in PDU
    /\ P[q] = Append(Q[q], u)
    /\ \A r \in Qids : r # q => P[r] = Q[r]

LEMMA LineMoves ==
    ASSUME NEW R, NEW Q, NEW q, NEW S, NEW P, MovesHead(R, Q, q, S, P)
    PROVE  /\ Line(R, Q) => Line(S, P)
           /\ Content(S, P) = Content(R, Q)
<1> USE DEF MovesHead
<1> DEFINE h == Head(Q[q])
<1>0. S = Append(R, h)
  OBVIOUS
<1>1. h \in PDU /\ Q[q] \in Seq(PDU)
  BY HeadTailProperties
<1>2. Range(Q[q]) = {h} \cup Range(Tail(Q[q])) /\ h \in Range(Q[q])
  BY <1>1, RangeFacts
<1> HIDE DEF h
<1>3. Range(S) = Range(R) \cup {h}
  BY <1>0, <1>1, RangeFacts
<1>4. P[q] = Tail(Q[q]) /\ \A r \in Qids : r # q => P[r] = Q[r]
  OBVIOUS
<1>5. \A r \in Qids : Range(P[r]) \subseteq Range(Q[r])
  BY <1>2, <1>4
<1>6. Content(S, P) = Content(R, Q)
  <2>1. ASSUME NEW u \in Content(S, P) PROVE u \in Content(R, Q)
    BY <1>2, <1>3, <1>5 DEF Content
  <2>2. ASSUME NEW u \in Content(R, Q) PROVE u \in Content(S, P)
    <3>1. CASE u \in Range(R)
      BY <1>3, <3>1 DEF Content
    <3>2. CASE u \notin Range(R)
      <4>1. PICK r \in Qids : u \in Range(Q[r])
        BY <3>2 DEF Content
      <4>2. CASE r = q
        <5>1. u = h \/ u \in Range(P[q])
          BY <1>2, <1>4, <4>1, <4>2
        <5> QED BY <1>3, <5>1 DEF Content
      <4>3. CASE r # q
        BY <1>4, <4>1, <4>3 DEF Content
      <4> QED BY <4>2, <4>3
    <3> QED BY <3>1, <3>2
  <2> QED BY <2>1, <2>2
<1>7. ASSUME Line(R, Q) PROVE Line(S, P)
  <2>1. Precede(Range(R), {h})
    BY <1>2, <1>7 DEF Line, Precede
  <2>2. Sorted(S)
    BY <1>0, <1>1, <1>7, <2>1, SortedAppend DEF Line
  <2>3. Sorted(Q[q]) /\ QueueId[h.flow] = q
    BY <1>2, <1>7 DEF Line
  <2>4. Sorted(Tail(Q[q])) /\ Precede({h}, Range(Tail(Q[q])))
    BY <1>1, <2>3, SortedTail DEF h
  <2>5. ASSUME NEW r \in Qids
        PROVE  /\ Sorted(P[r])
               /\ Precede(Range(S), Range(P[r]))
               /\ \A u \in Range(P[r]) : QueueId[u.flow] = r
    <3>1. \A u \in Range(P[r]) : QueueId[u.flow] = r
      BY <1>5, <1>7 DEF Line
    <3>2. Sorted(P[r])
      BY <1>4, <1>7, <2>4 DEF Line
    <3>3. Precede(Range(R), Range(P[r]))
      BY <1>5, <1>7 DEF Line, Precede
    <3>4. Precede({h}, Range(P[r]))
      BY <1>4, <2>3, <2>4, <3>1 DEF Precede
    <3> QED BY <1>3, <3>1, <3>2, <3>3, <3>4 DEF Precede
  <2> QED BY <2>2, <2>5 DEF Line
<1> QED BY <1>6, <1>7

Adds(A, B, u) == B = A \cup {u}

LEMMA ContentAppends ==
    ASSUME NEW R, NEW Q, NEW q, NEW u, NEW P, Joins(R, Q, q, u, P)
    PROVE  Adds(Content(R, Q), Content(R, P), u)
<1> USE DEF Joins
<1>1. Range(Append(Q[q], u)) = Range(Q[q]) \cup {u}
  BY RangeFacts
<1>2. P[q] = Append(Q[q], u) /\ \A r \in Qids : r # q => P[r] = Q[r]
  OBVIOUS
<1>3. Content(R, P) = Content(R, Q) \cup {u}
  <2>1. \A r \in Qids : Range(P[r]) = IF r = q THEN Range(Q[r]) \cup {u} ELSE Range(Q[r])
    BY <1>1, <1>2
  <2> QED BY <2>1 DEF Content
<1> QED BY <1>3 DEF Adds

LEMMA LineAppends ==
    ASSUME NEW R, NEW Q, NEW q, NEW u, NEW P, Joins(R, Q, q, u, P),
           Line(R, Q), Precede(Content(R, Q), {u}), QueueId[u.flow] = q
    PROVE  Line(R, P)
<1> USE DEF Joins
<1>1. Range(Append(Q[q], u)) = Range(Q[q]) \cup {u}
  BY RangeFacts
<1>2. P[q] = Append(Q[q], u) /\ \A r \in Qids : r # q => P[r] = Q[r]
  OBVIOUS
<1>3. Precede(Range(R), {u}) /\ Precede(Range(Q[q]), {u})
  BY DEF Precede, Content
<1>4. Sorted(P[q])
  BY <1>2, <1>3, SortedAppend DEF Line
<1>5. ASSUME NEW r \in Qids
      PROVE  /\ Sorted(P[r])
             /\ Precede(Range(R), Range(P[r]))
             /\ \A v \in Range(P[r]) : QueueId[v.flow] = r
  <2>1. CASE r = q
    BY <1>1, <1>2, <1>3, <1>4, <2>1, ZenonT(60) DEF Line, Precede
  <2>2. CASE r # q
    BY <1>2, <2>2 DEF Line
  <2> QED BY <2>1, <2>2
<1> QED BY <1>5 DEF Line

-----------------------------------------------------------------------------
\* What a nested read may do, and what it needs: it reads inputs and nothing else.
Upstream(s, p) == Content(s.relay[p], s.queue[p]["in"])
Downstream(s, p) == Content(s.protect[p], s.queue[p]["out"])

InOK(s) == \A p \in Ports : Books(s, p, "in") /\ Line(s.relay[p], s.queue[p]["in"])

Quiet(s, p, d) == s.ready[p][d] => s.waiting[p][d] = 0
Moving(s, p, d) ==
    \/ s.ready[p][d] \/ s.blocked[p][d] \/ s.wake[p][d] > 0 \/ p \notin s.up
    \/ d = "out" /\ (s.protect[p] # <<>> \/ s.sending[p])

SameOut(s, t) ==
    /\ t.protect = s.protect /\ t.sending = s.sending /\ t.stopped = s.stopped /\ t.up = s.up
    /\ \A p \in Ports :
         /\ t.queue[p]["out"] = s.queue[p]["out"] /\ t.waiting[p]["out"] = s.waiting[p]["out"]
         /\ t.ready[p]["out"] = s.ready[p]["out"] /\ t.blocked[p]["out"] = s.blocked[p]["out"]
         /\ t.wake[p]["out"] = s.wake[p]["out"] /\ t.tokens[p]["out"] = s.tokens[p]["out"]

InMoves(s, t) ==
    /\ \A p \in Ports :
         /\ t.blocked[p]["in"] => s.blocked[p]["in"]
         /\ Upstream(t, p) \subseteq Upstream(s, p)
         /\ Quiet(s, p, "in") => Quiet(t, p, "in")
         /\ Moving(s, p, "in") => Moving(t, p, "in")
    /\ t.aborted = s.aborted \/ t.aborted = "lookup"

BlockedIns(s) == {p \in Ports : s.blocked[p]["in"]}

ReadsWell(read, n) ==
    \A u \in Task, x \in Ports :
      InOK(u) /\ Cardinality(BlockedIns(u)) < n =>
        /\ read[u][x] \in Task
        /\ InOK(read[u][x])
        /\ SameOut(u, read[u][x]) /\ InMoves(u, read[u][x])
        /\ Quiet(read[u][x], x, "in")

LEMMA BlockedInsFinite ==
    ASSUME NEW s
    PROVE  /\ IsFiniteSet(BlockedIns(s)) /\ Cardinality(BlockedIns(s)) \in Nat
           /\ Cardinality(BlockedIns(s)) <= Cardinality(Ports) /\ Cardinality(Ports) \in Nat
<1>1. IsFiniteSet(Ports) /\ BlockedIns(s) \in SUBSET Ports
  BY RMTAssumption DEF BlockedIns
<1> QED BY <1>1, FS_Subset, FS_CardinalityType

LEMMA LookupType ==
    ASSUME NEW f \in Flows
    PROVE  FwTableLookup(f) \in Seq(Ports)
<1>1. Interface \in Ports /\ Route[f] \in Seq(Ports)
  BY RMTAssumption
<1>2. <<Interface>> \in Seq(Ports)
  BY <1>1
<1> QED BY <1>1, <1>2 DEF FwTableLookup

LEMMA SameOutTrans ==
    ASSUME NEW s, NEW t, NEW u, SameOut(s, t), SameOut(t, u)
    PROVE  SameOut(s, u)
BY DEF SameOut

LEMMA InMovesTrans ==
    ASSUME NEW s, NEW t, NEW u, InMoves(s, t), InMoves(t, u)
    PROVE  InMoves(s, u)
BY DEF InMoves

\* The input that a drop of the length unblocks is read at once.
LEMMA DropUnblocks ==
    ASSUME NEW read, NEW n \in Nat, ReadsWell(read, n),
           NEW s \in Task, InOK(s), Cardinality(BlockedIns(s)) <= n,
           NEW p \in Ports, NEW d \in Directions, NEW q \in Qids
    PROVE  LET t == ReadRateReducer_OnQueueLengthDrop(read, s, p, d, q)
               rest == s.queue[p][d][q]
               ports == FwTableLookup(Last(rest).flow)
           IN  /\ t \in Task /\ InOK(t) /\ SameOut(s, t) /\ InMoves(s, t)
               /\ \/ t.aborted # "no"
                  \/ rest # <<>> /\ ports # <<>> /\ ~t.blocked[Head(ports)]["in"]
<1> DEFINE rest == s.queue[p][d][q]
           fw == FwTableLookup(Last(rest).flow)
           ports == IF rest = <<>> THEN <<>> ELSE fw
           t == ReadRateReducer_OnQueueLengthDrop(read, s, p, d, q)
           x == Head(ports)
           v == [s EXCEPT !.blocked[x]["in"] = FALSE, !.ready[x]["in"] = TRUE]
<1>1. CASE ports = <<>>
  <2>1. t = [s EXCEPT !.aborted = "lookup"]
    BY <1>1 DEF ReadRateReducer_OnQueueLengthDrop
  <2> HIDE DEF t
  <2>2. /\ t \in Task /\ t.aborted = "lookup"
        /\ t.queue = s.queue /\ t.waiting = s.waiting /\ t.ready = s.ready
        /\ t.blocked = s.blocked /\ t.wake = s.wake /\ t.relay = s.relay
        /\ t.protect = s.protect /\ t.sending = s.sending /\ t.tokens = s.tokens
        /\ t.stopped = s.stopped /\ t.up = s.up
    BY <2>1 DEF Task
  <2>3. InOK(t)
    BY <2>2, SameBooks DEF InOK
  <2>4. SameOut(s, t)
    BY <2>2 DEF SameOut
  <2>5. InMoves(s, t)
    BY <2>2 DEF InMoves, Upstream, Quiet, Moving
  <2> QED BY <2>2, <2>3, <2>4, <2>5 DEF t
<1>2. CASE ports # <<>>
  <2>1. rest # <<>> /\ ports = fw
    BY <1>2
  <2>2. x \in Ports
    <3>1. rest \in Seq(PDU) /\ Len(rest) \in 1..Len(rest)
      BY <2>1, QueueFacts
    <3>2. Last(rest) \in PDU
      BY <3>1 DEF Last
    <3>3. fw \in Seq(Ports)
      BY <3>2, LookupType DEF PDU
    <3> HIDE DEF fw, rest, ports
    <3> QED BY <1>2, <2>1, <3>3
  <2>3. t = IF s.blocked[x]["in"] THEN read[v][x] ELSE s
    BY <1>2 DEF ReadRateReducer_OnQueueLengthDrop, UnblockInput
  <2> HIDE DEF x, t, rest, fw, ports
  <2>4. CASE ~s.blocked[x]["in"]
    <3>1. t = s
      BY <2>3, <2>4
    <3>2. SameOut(s, s) /\ InMoves(s, s)
      BY DEF SameOut, InMoves
    <3> QED BY <1>2, <2>1, <2>4, <3>1, <3>2 DEF x, t, rest, fw, ports
  <2>5. CASE s.blocked[x]["in"]
    <3>1. /\ v \in Task /\ v.queue = s.queue /\ v.waiting = s.waiting
          /\ v.wake = s.wake /\ v.relay = s.relay
          /\ v.protect = s.protect /\ v.sending = s.sending /\ v.tokens = s.tokens
          /\ v.stopped = s.stopped /\ v.up = s.up /\ v.aborted = s.aborted
      BY <2>2 DEF Task, Directions
    <3>2. /\ \A y \in Ports : /\ v.ready[y]["out"] = s.ready[y]["out"]
                              /\ v.blocked[y]["out"] = s.blocked[y]["out"]
          /\ \A y \in Ports : y # x => /\ v.ready[y]["in"] = s.ready[y]["in"]
                                       /\ v.blocked[y]["in"] = s.blocked[y]["in"]
          /\ v.ready[x]["in"] = TRUE /\ v.blocked[x]["in"] = FALSE
      <4>1. /\ s.ready \in [Ports -> [Directions -> BOOLEAN]]
            /\ s.blocked \in [Ports -> [Directions -> BOOLEAN]]
            /\ v.ready = [s.ready EXCEPT ![x]["in"] = TRUE]
            /\ v.blocked = [s.blocked EXCEPT ![x]["in"] = FALSE]
        BY DEF Task
      <4> HIDE DEF v
      <4> QED BY <2>2, <4>1 DEF Directions
    <3>3. t = read[v][x]
      BY <2>3, <2>5
    <3> HIDE DEF v
    <3>4. InOK(v)
      BY <3>1, SameBooks DEF InOK
    <3>5. BlockedIns(v) = BlockedIns(s) \ {x} /\ x \in BlockedIns(s)
      BY <2>2, <2>5, <3>2 DEF BlockedIns
    <3>6. Cardinality(BlockedIns(v)) < n
      <4>1. /\ IsFiniteSet(BlockedIns(s)) /\ Cardinality(BlockedIns(s)) \in Nat
        BY BlockedInsFinite
      <4>2. Cardinality(BlockedIns(v)) = Cardinality(BlockedIns(s)) - 1
        BY <3>5, <4>1, FS_RemoveElement
      <4> QED BY <4>1, <4>2
    <3>7. /\ t \in Task /\ InOK(t) /\ SameOut(v, t) /\ InMoves(v, t)
          /\ Quiet(t, x, "in")
      BY <2>2, <3>1, <3>3, <3>4, <3>6 DEF ReadsWell
    <3>8. SameOut(s, t)
      BY <3>1, <3>2, <3>7 DEF SameOut
    <3>9. InMoves(s, t)
      <4>1. t.aborted = s.aborted \/ t.aborted = "lookup"
        BY <3>1, <3>7 DEF InMoves
      <4>2. ASSUME NEW y \in Ports
            PROVE  /\ t.blocked[y]["in"] => s.blocked[y]["in"]
                   /\ Upstream(t, y) \subseteq Upstream(s, y)
                   /\ Quiet(s, y, "in") => Quiet(t, y, "in")
                   /\ Moving(s, y, "in") => Moving(t, y, "in")
        <5>1. /\ t.blocked[y]["in"] => v.blocked[y]["in"]
              /\ Upstream(t, y) \subseteq Upstream(v, y)
              /\ Quiet(v, y, "in") => Quiet(t, y, "in")
              /\ Moving(v, y, "in") => Moving(t, y, "in")
          BY <3>7 DEF InMoves
        <5>2. Upstream(v, y) = Upstream(s, y)
          BY <3>1 DEF Upstream
        <5>3. y # x => (Quiet(s, y, "in") => Quiet(v, y, "in"))
          BY <3>1, <3>2 DEF Quiet
        <5>4. Moving(s, y, "in") => Moving(v, y, "in")
          BY <3>1, <3>2 DEF Moving
        <5>5. v.blocked[y]["in"] => s.blocked[y]["in"]
          BY <2>5, <3>2
        <5> QED BY <3>7, <5>1, <5>2, <5>3, <5>4, <5>5
      <4> QED BY <4>1, <4>2 DEF InMoves
    <3>10. ~t.blocked[x]["in"]
      BY <2>2, <3>2, <3>7 DEF InMoves
    <3> QED BY <1>2, <2>1, <3>7, <3>8, <3>9, <3>10 DEF x, t, rest, fw, ports
  <2> QED BY <2>4, <2>5
<1> QED BY <1>1, <1>2

Departed(e, p, d) ==
    [e EXCEPT !.ready[p][d] = FALSE, !.wake[p][d] = IF d = "in" THEN @ + 1 ELSE @]

\* The input that PDUs like the last one block.
Unblocked(e, rest) ==
    LET ports == FwTableLookup(Last(rest).flow)
    IN  rest # <<>> /\ ports # <<>> /\ ~e.blocked[Head(ports)]["in"]

\* The departure of a PDU: with the reads that it sets off, the inputs stay in order.
LEMMA Departs ==
    ASSUME NEW read, NEW n \in Nat, ReadsWell(read, n),
           NEW s \in Task, NEW t \in Task, NEW p \in Ports, NEW d \in Directions,
           NEW q \in Qids, s.queue[p][d][q] # <<>>, s.waiting[p][d] # 0,
           TurnTaken(s, t, p, d, q), InOK(s), Cardinality(BlockedIns(s)) <= n
    PROVE  LET c == Released(t, p, d, q)
           IN  \E e \in Task :
                 /\ InOK(c) /\ InOK(e) /\ SameOut(c, e) /\ InMoves(c, e)
                 /\ ReleasePDU(read, t, p, d, q) = Departed(e, p, d)
                 /\ policy.maxQ = "ReadRateReducer" /\ BackUnder(Len(c.queue[p][d][q])) =>
                      e.aborted # "no" \/ Unblocked(e, c.queue[p][d][q])
<1> DEFINE c == Released(t, p, d, q)
           u == SendFirst(t, p, d, q)
           rest == c.queue[p][d][q]
           e == IF policy.maxQ = "ReadRateReducer" /\ BackUnder(Len(rest))
                THEN ReadRateReducer_OnQueueLengthDrop(read, c, p, d, q) ELSE c
<1>1. c \in Task /\ Popped(s, c, p, d, q) /\ c.tokens = t.tokens
  BY ReleasedPops
<1>2. t.queue[p][d][q] # <<>>
  BY DEF TurnTaken
<1>3. u.queue[p][d][q] = c.queue[p][d][q]
  <2>1. u.queue = c.queue
    <3> DEFINE v == IterativeStop_PostPDURelease(u, p, d, q)
    <3>1. v = u \/ v = [u EXCEPT !.stopped = @ \ {<<p, q>>}]
      BY DEF IterativeStop_PostPDURelease
    <3>2. v.queue = u.queue
      <4>1. CASE v = u
        BY <4>1
      <4>2. CASE v = [u EXCEPT !.stopped = @ \ {<<p, q>>}]
        <5> HIDE DEF u, v
        <5> QED BY <4>2
      <4> QED BY <3>1, <4>1, <4>2
    <3>3. c = [v EXCEPT !.waiting[p][d] = @ - 1]
      BY DEF Released
    <3> HIDE DEF u, v, c
    <3> QED BY <3>2, <3>3
  <2> QED BY <2>1
<1>4. ReleasePDU(read, t, p, d, q) = Departed(e, p, d)
  <2>1. ReleasePDU(read, t, p, d, q) = PostQueueDeparture(read, u, p, d, q)
    BY <1>2 DEF ReleasePDU
  <2>2. e = IF policy.maxQ = "ReadRateReducer" /\ BackUnder(Len(u.queue[p][d][q]))
            THEN ReadRateReducer_OnQueueLengthDrop(read, c, p, d, q) ELSE c
    BY <1>3
  <2>3. c = [IterativeStop_PostPDURelease(u, p, d, q) EXCEPT !.waiting[p][d] = @ - 1]
    BY DEF Released
  <2> HIDE DEF u, c, e, rest
  <2> QED BY <2>1, <2>2, <2>3 DEF PostQueueDeparture, Departed
<1> HIDE DEF c, u
<1>5. InOK(c)
  <2> SUFFICES ASSUME NEW x \in Ports
               PROVE  Books(c, x, "in") /\ Line(c.relay[x], c.queue[x]["in"])
    BY DEF InOK
  <2>1. Books(s, x, "in") /\ Line(s.relay[x], s.queue[x]["in"])
    BY DEF InOK
  <2>2. Books(c, x, "in")
    BY <1>1, <2>1, PoppedBooks DEF Directions
  <2>3. /\ s.queue \in [Ports -> [Directions -> [Qids -> Seq(PDU)]]]
        /\ s.relay \in [Ports -> Seq(PDU)]
    BY DEF Task
  <2>4. CASE x = p /\ d = "in"
    <3> DEFINE Q == s.queue[p]["in"]
    <3>1. Q \in [Qids -> Seq(PDU)] /\ Q[q] # <<>> /\ s.relay[p] \in Seq(PDU)
      BY <2>3, <2>4
    <3>2. /\ c.queue[p]["in"][q] = Tail(Q[q])
          /\ \A r \in Qids : r # q => c.queue[p]["in"][r] = Q[r]
      BY <1>1, <2>3, <2>4 DEF Popped
    <3>3. c.relay[p] = Append(s.relay[p], Head(Q[q]))
      BY <1>1, <2>3, <2>4 DEF Popped
    <3>a. Line(s.relay[p], Q)
      BY <2>1, <2>4
    <3> HIDE DEF Q
    <3>b. MovesHead(s.relay[p], Q, q, c.relay[p], c.queue[p]["in"])
      BY <3>1, <3>2, <3>3 DEF MovesHead
    <3>4. Line(c.relay[p], c.queue[p]["in"])
      BY <3>a, <3>b, LineMoves
    <3> QED BY <2>2, <2>4, <3>4
  <2>5. CASE ~(x = p /\ d = "in")
    <3>1. c.queue[x]["in"] = s.queue[x]["in"]
      <4>1. CASE x # p
        BY <1>1, <2>3, <4>1 DEF Popped
      <4>2. CASE d # "in"
        BY <1>1, <2>3, <4>2 DEF Popped, Directions
      <4> QED BY <2>5, <4>1, <4>2
    <3>2. c.relay[x] = s.relay[x]
      BY <1>1, <2>3, <2>5 DEF Popped
    <3> QED BY <2>1, <2>2, <3>1, <3>2
  <2> QED BY <2>4, <2>5
<1>6. BlockedIns(c) = BlockedIns(s)
  BY <1>1 DEF Popped, BlockedIns
<1>7. /\ e \in Task /\ InOK(e) /\ SameOut(c, e) /\ InMoves(c, e)
      /\ policy.maxQ = "ReadRateReducer" /\ BackUnder(Len(rest)) =>
           e.aborted # "no" \/ Unblocked(e, rest)
  <2>1. CASE policy.maxQ = "ReadRateReducer" /\ BackUnder(Len(rest))
    BY <1>1, <1>5, <1>6, <2>1, DropUnblocks DEF Unblocked
  <2>2. CASE ~(policy.maxQ = "ReadRateReducer" /\ BackUnder(Len(rest)))
    <3>1. e = c
      BY <2>2
    <3>2. SameOut(c, c) /\ InMoves(c, c)
      BY DEF SameOut, InMoves
    <3> HIDE DEF e
    <3> QED BY <1>1, <1>5, <2>2, <3>1, <3>2
  <2> QED BY <2>1, <2>2
<1> HIDE DEF e
<1> QED BY <1>4, <1>5, <1>7 DEF c

\* A read of an input.
LEMMA ReadIn ==
    ASSUME policy \in Policies, NEW read, NEW n \in Nat, ReadsWell(read, n),
           NEW s \in Task, NEW p \in Ports, InOK(s), Cardinality(BlockedIns(s)) <= n
    PROVE  LET t == Schedule(read, s, p, "in")
           IN  t \in Task /\ InOK(t) /\ SameOut(s, t) /\ InMoves(s, t) /\ Quiet(t, p, "in")
<1> DEFINE t == Schedule(read, s, p, "in")
<1> USE DEF Directions
<1>1. CASE ~s.ready[p]["in"] \/ s.waiting[p]["in"] = 0
  <2>1. t = s
    BY <1>1 DEF Schedule
  <2>2. SameOut(s, s) /\ InMoves(s, s)
    BY DEF SameOut, InMoves
  <2>3. Quiet(s, p, "in")
    BY <1>1 DEF Quiet
  <2> QED BY <2>1, <2>2, <2>3
<1>2. CASE s.ready[p]["in"] /\ s.waiting[p]["in"] # 0
  <2>1. Books(s, p, "in")
    BY DEF InOK
  <2>2. PICK q \in Qids, v \in Task :
           /\ t = ReleasePDU(read, v, p, "in", q)
           /\ s.queue[p]["in"][q] # <<>>
           /\ TurnTaken(s, v, p, "in", q)
    BY <1>2, <2>1, ScheduleServes
  <2> DEFINE c == Released(v, p, "in", q)
  <2>3. PICK e \in Task :
           /\ InOK(c) /\ InOK(e) /\ SameOut(c, e) /\ InMoves(c, e)
           /\ t = Departed(e, p, "in")
    BY <1>2, <2>2, Departs
  <2>0. t = [e EXCEPT !.ready[p]["in"] = FALSE, !.wake[p]["in"] = @ + 1]
    BY <2>3 DEF Departed
  <2>4. c \in Task /\ Popped(s, c, p, "in", q) /\ c.tokens = v.tokens
    BY <1>2, <2>2, ReleasedPops
  <2> HIDE DEF t, c
  <2>5. /\ e.ready \in [Ports -> [Directions -> BOOLEAN]]
        /\ e.wake \in [Ports -> [Directions -> Nat]]
    BY DEF Task
  <2>6. /\ [e.ready EXCEPT ![p]["in"] = FALSE] \in [Ports -> [Directions -> BOOLEAN]]
        /\ [e.wake EXCEPT ![p]["in"] = @ + 1] \in [Ports -> [Directions -> Nat]]
    BY <2>5
  <2>7. /\ t \in Task
        /\ t.ready = [e.ready EXCEPT ![p]["in"] = FALSE]
        /\ t.wake = [e.wake EXCEPT ![p]["in"] = @ + 1]
        /\ t.queue = e.queue /\ t.waiting = e.waiting
        /\ t.blocked = e.blocked /\ t.relay = e.relay
        /\ t.protect = e.protect /\ t.sending = e.sending /\ t.tokens = e.tokens
        /\ t.stopped = e.stopped /\ t.up = e.up /\ t.aborted = e.aborted
    BY <2>0, <2>6 DEF Task
  <2>8. /\ t.ready[p]["in"] = FALSE /\ t.wake[p]["in"] > 0
        /\ \A x \in Ports : /\ t.ready[x]["out"] = e.ready[x]["out"]
                            /\ t.wake[x]["out"] = e.wake[x]["out"]
                            /\ x # p => t.ready[x]["in"] = e.ready[x]["in"]
                            /\ x # p => t.wake[x]["in"] = e.wake[x]["in"]
    <3>1. t.ready[p]["in"] = FALSE /\ t.wake[p]["in"] > 0
      <4>1. t.wake[p]["in"] = e.wake[p]["in"] + 1 /\ e.wake[p]["in"] \in Nat
        BY <2>5, <2>7
      <4> QED BY <2>5, <2>7, <4>1
    <3>2. ASSUME NEW x \in Ports
          PROVE  t.ready[x]["out"] = e.ready[x]["out"] /\ t.wake[x]["out"] = e.wake[x]["out"]
      BY <2>5, <2>7
    <3>3. ASSUME NEW x \in Ports, x # p
          PROVE  t.ready[x]["in"] = e.ready[x]["in"] /\ t.wake[x]["in"] = e.wake[x]["in"]
      BY <2>5, <2>7, <3>3
    <3> QED BY <3>1, <3>2, <3>3
  <2>9. InOK(t)
    BY <2>3, <2>7, SameBooks DEF InOK
  <2>10. SameOut(s, t)
    <3>1. SameOut(s, c)
      <4>1. /\ s.queue \in [Ports -> [Directions -> [Qids -> Seq(PDU)]]]
            /\ s.waiting \in [Ports -> [Directions -> Nat]]
        BY DEF Task
      <4>2. /\ c.queue = [s.queue EXCEPT ![p]["in"][q] = Tail(@)]
            /\ c.waiting = [s.waiting EXCEPT ![p]["in"] = @ - 1]
        BY <2>4 DEF Popped
      <4>3. \A x \in Ports : /\ c.queue[x]["out"] = s.queue[x]["out"]
                             /\ c.waiting[x]["out"] = s.waiting[x]["out"]
        BY <4>1, <4>2
      <4> QED BY <2>4, <4>3 DEF SameOut, Popped
    <3>2. SameOut(e, t)
      BY <2>7, <2>8 DEF SameOut
    <3> QED BY <2>3, <3>1, <3>2, SameOutTrans
  <2>11. Quiet(t, p, "in")
    BY <2>8 DEF Quiet
  <2>12. InMoves(s, t)
    <3>1. ASSUME NEW x \in Ports
          PROVE  /\ t.blocked[x]["in"] => s.blocked[x]["in"]
                 /\ Upstream(t, x) \subseteq Upstream(s, x)
                 /\ Quiet(s, x, "in") => Quiet(t, x, "in")
                 /\ Moving(s, x, "in") => Moving(t, x, "in")
      <4>1. t.blocked[x]["in"] => s.blocked[x]["in"]
        BY <2>3, <2>4, <2>7 DEF InMoves, Popped
      <4>2. Upstream(t, x) \subseteq Upstream(s, x)
        <5>1. Upstream(c, x) = Upstream(s, x)
          <6>1. /\ s.queue \in [Ports -> [Directions -> [Qids -> Seq(PDU)]]]
                /\ s.relay \in [Ports -> Seq(PDU)]
            BY DEF Task
          <6>2. /\ c.queue = [s.queue EXCEPT ![p]["in"][q] = Tail(@)]
                /\ c.relay = [s.relay EXCEPT ![p] = Append(@, Head(s.queue[p]["in"][q]))]
            BY <2>4 DEF Popped
          <6>3. CASE x # p
            <7>1. c.queue[x]["in"] = s.queue[x]["in"] /\ c.relay[x] = s.relay[x]
              BY <6>1, <6>2, <6>3
            <7> QED BY <7>1 DEF Upstream
          <6>4. CASE x = p
            <7> DEFINE Q == s.queue[p]["in"]
            <7>1. Q \in [Qids -> Seq(PDU)] /\ Q[q] # <<>> /\ s.relay[p] \in Seq(PDU)
              BY <2>2, <6>1
            <7>2. /\ c.queue[p]["in"][q] = Tail(Q[q])
                  /\ \A r \in Qids : r # q => c.queue[p]["in"][r] = Q[r]
                  /\ c.relay[p] = Append(s.relay[p], Head(Q[q]))
              BY <6>1, <6>2
            <7> HIDE DEF Q
            <7>3. MovesHead(s.relay[p], Q, q, c.relay[p], c.queue[p]["in"])
              BY <7>1, <7>2 DEF MovesHead
            <7>4. Content(c.relay[p], c.queue[p]["in"]) = Content(s.relay[p], Q)
              BY <7>3, LineMoves
            <7> QED BY <6>4, <7>4 DEF Upstream, Q
          <6> QED BY <6>3, <6>4
        <5>2. Upstream(t, x) = Upstream(e, x)
          BY <2>7 DEF Upstream
        <5> QED BY <2>3, <5>1, <5>2 DEF InMoves
      <4>3. CASE x = p
        <5>1. Moving(t, x, "in") /\ Quiet(t, x, "in")
          BY <2>8, <2>11, <4>3 DEF Moving
        <5> QED BY <4>1, <4>2, <5>1
      <4>4. CASE x # p
        <5>1. /\ Quiet(s, x, "in") => Quiet(c, x, "in")
              /\ Moving(s, x, "in") => Moving(c, x, "in")
          <6>1. c.waiting = [s.waiting EXCEPT ![p]["in"] = @ - 1]
                /\ s.waiting \in [Ports -> [Directions -> Nat]]
            BY <2>4 DEF Popped, Task
          <6>2. c.waiting[x]["in"] = s.waiting[x]["in"]
            BY <4>4, <6>1
          <6> QED BY <2>4, <6>2 DEF Popped, Quiet, Moving
        <5>2. /\ Quiet(c, x, "in") => Quiet(e, x, "in")
              /\ Moving(c, x, "in") => Moving(e, x, "in")
          BY <2>3 DEF InMoves
        <5>3. /\ Quiet(e, x, "in") => Quiet(t, x, "in")
              /\ Moving(e, x, "in") => Moving(t, x, "in")
          BY <2>7, <2>8, <4>4 DEF Quiet, Moving
        <5> QED BY <4>1, <4>2, <5>1, <5>2, <5>3
      <4> QED BY <4>3, <4>4
    <3>2. t.aborted = s.aborted \/ t.aborted = "lookup"
      BY <2>3, <2>4, <2>7 DEF InMoves, Popped
    <3> QED BY <3>1, <3>2 DEF InMoves
  <2> QED BY <2>7, <2>9, <2>10, <2>11, <2>12 DEF t
<1> QED BY <1>1, <1>2

(***************************************************************************)
(* The state of a task between events.                                     *)
(***************************************************************************)

\* The ReadRateReducer looks up one port for a PDU, the first.
OnePath ==
    \A c \in Policies :
      c.maxQ = "ReadRateReducer" => \A f \in c.flows : Len(Route[f]) <= 1

OutOK(s) == \A p \in Ports : Books(s, p, "out") /\ Line(s.protect[p], s.queue[p]["out"])

\* PDUs are where their flow passes.
Placed(s) ==
    \A p \in Ports :
      /\ \A u \in Upstream(s, p) : /\ u.flow \in policy.flows /\ Source[u.flow] = p
                                   /\ policy.onWire => p = Interface
      /\ \A u \in Downstream(s, p) : u.flow \in policy.flows /\ p \in Range(Route[u.flow])

StoppedWait(s) ==
    /\ ~policy.stop => s.stopped = {}
    /\ StopAt > 1 =>
         \A p \in Ports, q \in Qids : <<p, q>> \in s.stopped => s.queue[p]["out"][q] # <<>>

\* An input is blocked because a queue of its port is long.
Backlog(s) ==
    OnePath =>
      \A p \in Ports :
        s.blocked[p]["in"] /\ s.aborted = "no" =>
          /\ policy.maxQ = "ReadRateReducer"
          /\ \E q \in Qids : Len(s.queue[p]["out"][q]) >= ThreshLength

Sound(s) == InOK(s) /\ OutOK(s) /\ Placed(s) /\ StoppedWait(s) /\ Backlog(s)

\* No PDU waits at a ready port, and a port that is not ready will be told to be.
Settled(s) == \A p \in Ports, d \in Directions : Quiet(s, p, d) /\ Moving(s, p, d)

\* A port that is stopped is not ready, and one on the wire is ready, sends or waits for
\* the end of a transmission, one of these at a time.
One(b) == IF b THEN 1 ELSE 0
Tasks(s, p) ==
    One(s.ready[p]["out"]) + Len(s.protect[p]) + One(s.sending[p]) + s.wake[p]["out"]

PortsOK(s) ==
    \A p \in Ports :
      /\ s.blocked[p]["out"] => ~s.ready[p]["out"]
      /\ policy.onWire => Tasks(s, p) <= 1 /\ (p = Interface => p \in s.up)

\* Of the PDUs of a flow the task has those that have not left and have been given, and
\* an output has older ones than the inputs.
InOrder(s, g, l) ==
    /\ \A f \in Flows, x \in Exits : l[f][x] <= g[f]
    /\ \A p \in Ports :
         /\ \A u \in Upstream(s, p) :
              u.n <= g[u.flow] /\ \A x \in Exits : l[u.flow][x] < u.n
         /\ \A u \in Downstream(s, p) : l[u.flow][p] < u.n /\ u.n <= g[u.flow]
         /\ \A x \in Ports : Precede(Downstream(s, x), Upstream(s, p))

IInv ==
    /\ TypeOK
    /\ rmt.aborted # "channel"
    /\ Sound(rmt) /\ Settled(rmt) /\ PortsOK(rmt) /\ InOrder(rmt, given, left)

\* Where PDUs of a flow that goes through are sent.
LEMMA RouteFacts ==
    ASSUME NEW f \in Flows
    PROVE  /\ Route[f] \in Seq(Ports) /\ Len(Route[f]) \in Nat
           /\ DOMAIN Route[f] = 1..Len(Route[f])
           /\ \A i \in 1..Len(Route[f]) : Route[f][i] \in Ports
           /\ \A i, j \in 1..Len(Route[f]) : Route[f][i] = Route[f][j] => i = j
           /\ Source[f] \in Exits
<1>1. Route[f] \in Seq(Ports) /\ IsInjective(Route[f]) /\ Source[f] \in Exits
  BY RMTAssumption
<1>2. /\ Len(Route[f]) \in Nat /\ DOMAIN Route[f] = 1..Len(Route[f])
      /\ \A i \in 1..Len(Route[f]) : Route[f][i] \in Ports
  BY <1>1, SeqFacts
<1> QED BY <1>1, <1>2 DEF IsInjective

LEMMA RouteLookup ==
    ASSUME policy \in Policies, NEW f \in policy.flows, Route[f] # <<>>
    PROVE  f \in Flows /\ FwTableLookup(f) = Route[f]
<1>1. f \in Flows
  BY RMTAssumption
<1>2. CASE policy.onWire
  BY <1>1, <1>2, RMTAssumption DEF FwTableLookup
<1>3. CASE ~policy.onWire
  BY <1>1, <1>3 DEF FwTableLookup
<1> QED BY <1>2, <1>3

LEMMA OneRoute ==
    ASSUME policy \in Policies, OnePath, policy.maxQ = "ReadRateReducer",
           NEW f \in policy.flows, NEW p \in Range(Route[f])
    PROVE  FwTableLookup(f) # <<>> /\ Head(FwTableLookup(f)) = p
<1>0. f \in Flows
  BY RMTAssumption
<1>1. Route[f] # <<>> /\ Len(Route[f]) \in Nat /\ DOMAIN Route[f] = 1..Len(Route[f])
  BY <1>0, RouteFacts DEF Range
<1>2. Len(Route[f]) <= 1
  BY DEF OnePath
<1>3. PICK i \in 1..Len(Route[f]) : p = Route[f][i]
  BY <1>1 DEF Range
<1>4. i = 1
  BY <1>1, <1>2, <1>3
<1>5. Route[f] \in Seq(Ports)
  BY <1>0, RouteFacts
<1>6. Head(Route[f]) = p
  BY <1>1, <1>3, <1>4, <1>5, HeadTailProperties
<1> QED BY <1>1, <1>6, RouteLookup

(***************************************************************************)
(* The recursive functions: nested reads, and the ports of a relayed PDU.  *)
(***************************************************************************)

LEMMA PortCount == Cardinality(Ports) \in Nat
  BY RMTAssumption, FS_CardinalityType

\* A recursive function is what its equation says, because a function satisfies it.
LEMMA ReadsUnfold ==
    ASSUME NEW n \in 0 .. Cardinality(Ports), NEW s \in Task, NEW p \in Ports
    PROVE  Reads[n][s][p] = IF n = 0 THEN s ELSE Schedule(Reads[n - 1], s, p, "in")
<1> DEFINE Nested(g, i) == [u \in Task |-> [x \in Ports |->
                              IF i = 0 THEN u ELSE Schedule(g[i - 1], u, x, "in")]]
           Upto(g, m) == g = [i \in 0..m |-> Nested(g, i)]
           N == Cardinality(Ports)
           bad == {m \in Nat : \A g : ~Upto(g, m)}
<1>0. N \in Nat
  BY PortCount
<1>1. ASSUME NEW m \in Nat, m \in bad, \A i \in bad : m <= i
      PROVE  FALSE
  <2>1. CASE m = 0
    <3> DEFINE g == [i \in 0..0 |-> Nested(<<>>, i)]
    <3>1. \A i \in 0..0 : Nested(<<>>, i) = Nested(g, i)
      OBVIOUS
    <3>2. Upto(g, 0)
      <4> HIDE DEF Nested
      <4> QED BY <3>1
    <3> QED BY <1>1, <2>1, <3>2
  <2>2. CASE m # 0
    <3>0. m - 1 \in Nat /\ m - 1 \notin bad
      <4> HIDE DEF bad
      <4> QED BY <1>1, <2>2
    <3>1. PICK g : Upto(g, m - 1)
      BY <3>0
    <3> DEFINE h == [i \in 0..m |-> IF i < m THEN g[i] ELSE Nested(g, m)]
    <3>2. \A i \in 0..(m - 1) : g[i] = Nested(g, i)
      <4> HIDE DEF Nested
      <4> QED BY <3>1
    <3>3. \A i \in 0..m : h[i] = Nested(g, i)
      <4> HIDE DEF Nested
      <4> QED BY <3>2
    <3>4. \A i \in 0..m : Nested(g, i) = Nested(h, i)
      <4> SUFFICES ASSUME NEW i \in 0..m PROVE Nested(g, i) = Nested(h, i)
        OBVIOUS
      <4>1. CASE i = 0
        BY <4>1
      <4>2. CASE i # 0
        <5>1. i - 1 \in 0..m /\ i - 1 < m
          BY <4>2
        <5>2. g[i - 1] = h[i - 1]
          <6> HIDE DEF Nested
          <6> QED BY <5>1
        <5> HIDE DEF h
        <5> QED BY <5>2
      <4> QED BY <4>1, <4>2
    <3>5. Upto(h, m)
      <4>1. h = [i \in 0..m |-> h[i]]
        OBVIOUS
      <4> HIDE DEF Nested, h
      <4> QED BY <3>3, <3>4, <4>1
    <3> QED BY <1>1, <3>5
  <2> QED BY <2>1, <2>2
<1>2. bad = {}
  <2> DEFINE m == Min(bad)
  <2>1. ASSUME bad # {} PROVE m \in bad /\ \A i \in bad : m <= i
    <3>1. bad \in SUBSET Nat
      OBVIOUS
    <3> HIDE DEF bad
    <3> QED BY <2>1, <3>1, MinOfNaturals
  <2> HIDE DEF m
  <2>2. \A i \in bad : i \in Nat
    OBVIOUS
  <2> HIDE DEF bad
  <2> QED BY <1>1, <2>1, <2>2
<1>3. \E g : Upto(g, N)
  BY <1>0, <1>2
<1>4. Reads = CHOOSE g : Upto(g, N)
  BY DEF Reads
<1>5. Upto(Reads, N)
  <2> HIDE DEF Upto
  <2> QED BY <1>3, <1>4
<1>6. Reads[n] = Nested(Reads, n)
  <2> HIDE DEF Nested
  <2> QED BY <1>5
<1> QED BY <1>6

\* The PDU has been relayed to the first i of its ports.
Relayed(s, pdu, chance, g) ==
    /\ g[0] = s
    /\ \A i \in 1..Len(FwTableLookup(pdu.flow)) :
         g[i] = EnqueuePDU(g[i - 1], FwTableLookup(pdu.flow)[i], "out", pdu, chance)

LEMMA RelayUnfold ==
    ASSUME NEW s, NEW pdu, NEW chance, Len(FwTableLookup(pdu.flow)) \in Nat
    PROVE  \E g : /\ Relayed(s, pdu, chance, g)
                  /\ RelayPDUToPort(s, pdu, chance) = g[Len(FwTableLookup(pdu.flow))]
<1> DEFINE ports == FwTableLookup(pdu.flow)
           N == Len(ports)
           Body(g, i) == IF i = 0 THEN s ELSE EnqueuePDU(g[i - 1], ports[i], "out", pdu, chance)
           Upto(g, m) == g = [i \in 0..m |-> Body(g, i)]
           bad == {m \in Nat : \A g : ~Upto(g, m)}
<1>1. ASSUME NEW m \in Nat, m \in bad, \A i \in bad : m <= i
      PROVE  FALSE
  <2>1. CASE m = 0
    <3> DEFINE g == [i \in 0..0 |-> Body(<<>>, i)]
    <3>1. \A i \in 0..0 : Body(<<>>, i) = Body(g, i)
      OBVIOUS
    <3>2. Upto(g, 0)
      <4> HIDE DEF Body
      <4> QED BY <3>1
    <3> QED BY <1>1, <2>1, <3>2
  <2>2. CASE m # 0
    <3>0. m - 1 \in Nat /\ m - 1 \notin bad
      <4> HIDE DEF bad
      <4> QED BY <1>1, <2>2
    <3>1. PICK g : Upto(g, m - 1)
      BY <3>0
    <3> DEFINE h == [i \in 0..m |-> IF i < m THEN g[i] ELSE Body(g, m)]
    <3>2. \A i \in 0..(m - 1) : g[i] = Body(g, i)
      <4> HIDE DEF Body
      <4> QED BY <3>1
    <3>3. \A i \in 0..m : h[i] = Body(g, i)
      <4> HIDE DEF Body
      <4> QED BY <3>2
    <3>4. \A i \in 0..m : Body(g, i) = Body(h, i)
      <4> SUFFICES ASSUME NEW i \in 0..m PROVE Body(g, i) = Body(h, i)
        OBVIOUS
      <4>1. CASE i = 0
        BY <4>1
      <4>2. CASE i # 0
        <5>1. i - 1 \in 0..m /\ i - 1 < m
          BY <4>2
        <5>2. g[i - 1] = h[i - 1]
          <6> HIDE DEF Body
          <6> QED BY <5>1
        <5> HIDE DEF h
        <5> QED BY <5>2
      <4> QED BY <4>1, <4>2
    <3>5. Upto(h, m)
      <4>1. h = [i \in 0..m |-> h[i]]
        OBVIOUS
      <4> HIDE DEF Body, h
      <4> QED BY <3>3, <3>4, <4>1
    <3> QED BY <1>1, <3>5
  <2> QED BY <2>1, <2>2
<1>2. bad = {}
  <2> DEFINE m == Min(bad)
  <2>1. ASSUME bad # {} PROVE m \in bad /\ \A i \in bad : m <= i
    <3>1. bad \in SUBSET Nat
      OBVIOUS
    <3> HIDE DEF bad
    <3> QED BY <2>1, <3>1, MinOfNaturals
  <2> HIDE DEF m
  <2>2. \A i \in bad : i \in Nat
    OBVIOUS
  <2> HIDE DEF bad
  <2> QED BY <1>1, <2>1, <2>2
<1>3. \E g : Upto(g, N)
  BY <1>2
<1> DEFINE G == CHOOSE g : Upto(g, N)
<1>4. RelayPDUToPort(s, pdu, chance) = G[N]
  BY DEF RelayPDUToPort
<1>5. Upto(G, N)
  <2> HIDE DEF Upto
  <2> QED BY <1>3
<1> HIDE DEF G
<1>6. \A i \in 0..N : G[i] = Body(G, i)
  <2> HIDE DEF Body
  <2> QED BY <1>5
<1>7. Relayed(s, pdu, chance, G)
  BY <1>6 DEF Relayed
<1> QED BY <1>4, <1>7

\* Reads that may nest as deep as there are ports do what a read may do.
LEMMA ReadsAreWell ==
    ASSUME policy \in Policies
    PROVE  ReadsWell(Reads[Cardinality(Ports)], Cardinality(Ports))
<1> DEFINE N == Cardinality(Ports)
           bad == {n \in 0..N : ~ReadsWell(Reads[n], n)}
<1>0. N \in Nat
  BY PortCount
<1>1. ReadsWell(Reads[0], 0)
  <2>1. ASSUME NEW u \in Task PROVE ~(Cardinality(BlockedIns(u)) < 0)
    BY BlockedInsFinite
  <2> QED BY <2>1 DEF ReadsWell
<1>2. ASSUME NEW n \in 0..N, n # 0, ReadsWell(Reads[n - 1], n - 1)
      PROVE  ReadsWell(Reads[n], n)
  <2> SUFFICES ASSUME NEW u \in Task, NEW x \in Ports,
                      InOK(u), Cardinality(BlockedIns(u)) < n
               PROVE  /\ Reads[n][u][x] \in Task
                      /\ InOK(Reads[n][u][x])
                      /\ SameOut(u, Reads[n][u][x]) /\ InMoves(u, Reads[n][u][x])
                      /\ Quiet(Reads[n][u][x], x, "in")
    BY DEF ReadsWell
  <2>1. Reads[n][u][x] = Schedule(Reads[n - 1], u, x, "in")
    BY <1>2, ReadsUnfold
  <2>2. n - 1 \in Nat /\ Cardinality(BlockedIns(u)) <= n - 1
    BY <1>2, BlockedInsFinite
  <2> QED BY <1>2, <2>1, <2>2, ReadIn
<1>3. bad = {}
  <2>1. SUFFICES ASSUME bad # {} PROVE FALSE
    OBVIOUS
  <2> DEFINE n == Min(bad)
  <2>2. bad \in SUBSET Nat
    BY <1>0
  <2>3. n \in bad /\ \A i \in bad : n <= i
    <3> HIDE DEF bad
    <3> QED BY <2>1, <2>2, MinOfNaturals
  <2> HIDE DEF n
  <2>4. n \in 0..N /\ ~ReadsWell(Reads[n], n) /\ n # 0
    BY <1>1, <2>3
  <2>5. n - 1 \in 0..N /\ n - 1 < n
    BY <1>0, <2>4
  <2>6. ReadsWell(Reads[n - 1], n - 1)
    <3>1. n - 1 \notin bad
      <4> HIDE DEF bad
      <4> QED BY <2>2, <2>3, <2>5
    <3> QED BY <2>5, <3>1
  <2> QED BY <1>2, <2>4, <2>6
<1> QED BY <1>0, <1>3

(***************************************************************************)
(* What a scheduler may do at a port, in either direction.                 *)
(***************************************************************************)

\* Whatever an event sets off: a ready output may release one PDU, then it is not ready.
Proceeds(s, t) ==
    /\ t.sending = s.sending /\ t.up = s.up
    /\ t.aborted = s.aborted \/ t.aborted = "lookup"
    /\ \A x \in Ports :
         /\ t.blocked[x]["out"] = s.blocked[x]["out"] /\ t.wake[x]["out"] = s.wake[x]["out"]
         /\ \/ t.ready[x]["out"] = s.ready[x]["out"] /\ t.protect[x] = s.protect[x]
            \/ /\ s.ready[x]["out"] /\ ~t.ready[x]["out"]
               /\ Len(t.protect[x]) = Len(s.protect[x]) + 1
         /\ Moving(s, x, "in") => Moving(t, x, "in")

Keeps(s, t) ==
    \A x \in Ports : /\ Upstream(t, x) \subseteq Upstream(s, x)
                     /\ Downstream(t, x) \subseteq Downstream(s, x)

Calms(s, t) == \A x \in Ports, e \in Directions : Quiet(s, x, e) => Quiet(t, x, e)

LEMMA ProceedsTrans ==
    ASSUME NEW s, NEW t, NEW u, Proceeds(s, t), Proceeds(t, u)
    PROVE  Proceeds(s, u)
<1>1. /\ u.sending = s.sending /\ u.up = s.up
      /\ u.aborted = s.aborted \/ u.aborted = "lookup"
  BY DEF Proceeds
<1>2. ASSUME NEW x \in Ports
      PROVE  /\ u.blocked[x]["out"] = s.blocked[x]["out"]
             /\ u.wake[x]["out"] = s.wake[x]["out"]
             /\ Moving(s, x, "in") => Moving(u, x, "in")
  BY DEF Proceeds
<1>3. ASSUME NEW x \in Ports
      PROVE  \/ u.ready[x]["out"] = s.ready[x]["out"] /\ u.protect[x] = s.protect[x]
             \/ /\ s.ready[x]["out"] /\ ~u.ready[x]["out"]
                /\ Len(u.protect[x]) = Len(s.protect[x]) + 1
  <2>1. \/ t.ready[x]["out"] = s.ready[x]["out"] /\ t.protect[x] = s.protect[x]
        \/ /\ s.ready[x]["out"] /\ ~t.ready[x]["out"]
           /\ Len(t.protect[x]) = Len(s.protect[x]) + 1
    BY DEF Proceeds
  <2>2. \/ u.ready[x]["out"] = t.ready[x]["out"] /\ u.protect[x] = t.protect[x]
        \/ /\ t.ready[x]["out"] /\ ~u.ready[x]["out"]
           /\ Len(u.protect[x]) = Len(t.protect[x]) + 1
    BY DEF Proceeds
  <2> QED BY <2>1, <2>2
<1> QED BY <1>1, <1>2, <1>3 DEF Proceeds

LEMMA KeepsTrans ==
    ASSUME NEW s, NEW t, NEW u, Keeps(s, t), Keeps(t, u)
    PROVE  Keeps(s, u)
BY DEF Keeps

LEMMA CalmsTrans ==
    ASSUME NEW s, NEW t, NEW u, Calms(s, t), Calms(t, u)
    PROVE  Calms(s, u)
BY DEF Calms

LEMMA Reflexive ==
    ASSUME NEW s
    PROVE  Proceeds(s, s) /\ Keeps(s, s) /\ Calms(s, s)
BY DEF Proceeds, Keeps, Calms

LEMMA PlacedKeeps ==
    ASSUME NEW s, NEW t, Placed(s), Keeps(s, t)
    PROVE  Placed(t)
BY DEF Placed, Keeps

\* A read leaves the outputs alone.
LEMMA ReadSound ==
    ASSUME NEW s \in Task, NEW t \in Task, Sound(s), InOK(t), SameOut(s, t), InMoves(s, t)
    PROVE  Sound(t) /\ Proceeds(s, t) /\ Keeps(s, t) /\ Calms(s, t)
<1>1. Keeps(s, t)
  <2> SUFFICES ASSUME NEW x \in Ports
               PROVE  /\ Upstream(t, x) \subseteq Upstream(s, x)
                      /\ Downstream(t, x) \subseteq Downstream(s, x)
    BY DEF Keeps
  <2>1. Upstream(t, x) \subseteq Upstream(s, x)
    BY DEF InMoves
  <2>2. t.protect[x] = s.protect[x] /\ t.queue[x]["out"] = s.queue[x]["out"]
    BY DEF SameOut
  <2>3. Downstream(t, x) = Downstream(s, x)
    BY <2>2 DEF Downstream
  <2> QED BY <2>1, <2>3
<1>2. Calms(s, t)
  <2> SUFFICES ASSUME NEW x \in Ports, NEW e \in Directions, Quiet(s, x, e)
               PROVE  Quiet(t, x, e)
    BY DEF Calms
  <2>1. CASE e = "in"
    BY <2>1 DEF InMoves
  <2>2. CASE e = "out"
    BY <2>2 DEF SameOut, Quiet
  <2> QED BY <2>1, <2>2 DEF Directions
<1>3. Proceeds(s, t)
  BY DEF SameOut, InMoves, Proceeds
<1>4. OutOK(t)
  <2> SUFFICES ASSUME NEW x \in Ports
               PROVE  Books(t, x, "out") /\ Line(t.protect[x], t.queue[x]["out"])
    BY DEF OutOK
  <2>1. Books(s, x, "out") /\ Line(s.protect[x], s.queue[x]["out"])
    BY DEF Sound, OutOK
  <2>2. /\ t.protect[x] = s.protect[x] /\ t.queue[x]["out"] = s.queue[x]["out"]
        /\ t.waiting[x]["out"] = s.waiting[x]["out"] /\ t.tokens[x]["out"] = s.tokens[x]["out"]
    BY DEF SameOut
  <2>3. Books(t, x, "out")
    BY <2>1, <2>2, SameBooks
  <2> QED BY <2>1, <2>2, <2>3
<1>5. Placed(t)
  BY <1>1, PlacedKeeps DEF Sound
<1>6. StoppedWait(t)
  BY DEF Sound, StoppedWait, SameOut
<1>7. Backlog(t)
  <2> SUFFICES ASSUME OnePath, NEW x \in Ports, t.blocked[x]["in"], t.aborted = "no"
               PROVE  /\ policy.maxQ = "ReadRateReducer"
                      /\ \E q \in Qids : Len(t.queue[x]["out"][q]) >= ThreshLength
    BY DEF Backlog
  <2>1. s.blocked[x]["in"] /\ s.aborted = "no"
    BY DEF InMoves
  <2>2. t.queue[x]["out"] = s.queue[x]["out"]
    BY DEF SameOut
  <2> QED BY <2>1, <2>2 DEF Sound, Backlog
<1> QED BY <1>1, <1>2, <1>3, <1>4, <1>5, <1>6, <1>7 DEF Sound

\* A PDU of an output queue comes to be the last of those in SDU protection.
LEMMA OutPopped ==
    ASSUME NEW s \in Task, NEW v \in Task, NEW c \in Task, NEW p \in Ports, NEW q \in Qids,
           s.queue[p]["out"][q] # <<>>, s.waiting[p]["out"] # 0,
           TurnTaken(s, v, p, "out", q), Popped(s, c, p, "out", q), c.tokens = v.tokens,
           OutOK(s)
    PROVE  /\ OutOK(c)
           /\ \A x \in Ports : /\ Downstream(c, x) = Downstream(s, x)
                               /\ Upstream(c, x) = Upstream(s, x)
           /\ \A x \in Ports, r \in Qids : x # p \/ r # q =>
                c.queue[x]["out"][r] = s.queue[x]["out"][r]
           /\ c.queue[p]["out"][q] = Tail(s.queue[p]["out"][q])
           /\ \A x \in Ports : x # p => c.protect[x] = s.protect[x]
           /\ Len(c.protect[p]) = Len(s.protect[p]) + 1
           /\ \A x \in Ports, e \in Directions : x # p \/ e # "out" =>
                c.waiting[x][e] = s.waiting[x][e]
<1> USE DEF Directions
<1>1. /\ s.queue \in [Ports -> [Directions -> [Qids -> Seq(PDU)]]]
      /\ s.protect \in [Ports -> Seq(PDU)] /\ s.waiting \in [Ports -> [Directions -> Nat]]
  BY DEF Task
<1>2. /\ c.queue = [s.queue EXCEPT ![p]["out"][q] = Tail(@)]
      /\ c.protect = [s.protect EXCEPT ![p] = Append(@, Head(s.queue[p]["out"][q]))]
      /\ c.waiting = [s.waiting EXCEPT ![p]["out"] = @ - 1]
      /\ c.relay = s.relay
  BY DEF Popped
<1> DEFINE Q == s.queue[p]["out"]
<1>3. /\ c.queue[p]["out"][q] = Tail(Q[q])
      /\ \A r \in Qids : r # q => c.queue[p]["out"][r] = Q[r]
  BY <1>1, <1>2
<1>4. \A x \in Ports : x # p => c.queue[x]["out"] = s.queue[x]["out"]
  BY <1>1, <1>2
<1>5. \A x \in Ports : c.queue[x]["in"] = s.queue[x]["in"]
  BY <1>1, <1>2, SMTT(60)
<1>6. /\ c.protect[p] = Append(s.protect[p], Head(Q[q]))
      /\ \A x \in Ports : x # p => c.protect[x] = s.protect[x]
  BY <1>1, <1>2
<1>7. \A x \in Ports, e \in Directions : x # p \/ e # "out" =>
        c.waiting[x][e] = s.waiting[x][e]
  BY <1>1, <1>2
<1>8. Q \in [Qids -> Seq(PDU)] /\ Q[q] # <<>> /\ s.protect[p] \in Seq(PDU) /\ Head(Q[q]) \in PDU
  <2>1. Q \in [Qids -> Seq(PDU)] /\ Q[q] # <<>> /\ s.protect[p] \in Seq(PDU)
    BY <1>1
  <2>2. Q[q] \in Seq(PDU)
    BY <2>1
  <2> HIDE DEF Q
  <2> QED BY <2>1, <2>2, HeadTailProperties
<1> HIDE DEF Q
<1>9. MovesHead(s.protect[p], Q, q, c.protect[p], c.queue[p]["out"])
  BY <1>3, <1>6, <1>8 DEF MovesHead
<1>10. Len(c.protect[p]) = Len(s.protect[p]) + 1
  BY <1>6, <1>8, AppendProperties
<1>11. OutOK(c)
  <2> SUFFICES ASSUME NEW x \in Ports
               PROVE  Books(c, x, "out") /\ Line(c.protect[x], c.queue[x]["out"])
    BY DEF OutOK
  <2>1. Books(s, x, "out") /\ Line(s.protect[x], s.queue[x]["out"])
    BY DEF OutOK
  <2>2. Books(c, x, "out")
    BY <2>1, PoppedBooks
  <2>3. CASE x = p
    BY <1>9, <2>1, <2>2, <2>3, LineMoves DEF Q
  <2>4. CASE x # p
    BY <1>4, <1>6, <2>1, <2>2, <2>4
  <2> QED BY <2>3, <2>4
<1>12. ASSUME NEW x \in Ports
       PROVE  Downstream(c, x) = Downstream(s, x) /\ Upstream(c, x) = Upstream(s, x)
  <2>1. Upstream(c, x) = Upstream(s, x)
    BY <1>2, <1>5 DEF Upstream
  <2>2. CASE x = p
    <3>1. Content(c.protect[p], c.queue[p]["out"]) = Content(s.protect[p], Q)
      BY <1>9, LineMoves
    <3> QED BY <2>1, <2>2, <3>1 DEF Downstream, Q
  <2>3. CASE x # p
    BY <1>4, <1>6, <2>1, <2>3 DEF Downstream
  <2> QED BY <2>2, <2>3
<1>13. \A x \in Ports, r \in Qids : x # p \/ r # q =>
         c.queue[x]["out"][r] = s.queue[x]["out"][r]
  BY <1>3, <1>4 DEF Q
<1> QED BY <1>3, <1>6, <1>7, <1>10, <1>11, <1>12, <1>13 DEF Q

\* Nothing changes with the departure but that the port is not ready.
NotReady(e, t, p) ==
    /\ t \in Task
    /\ t.queue = e.queue /\ t.waiting = e.waiting /\ t.tokens = e.tokens
    /\ t.blocked = e.blocked /\ t.relay = e.relay /\ t.protect = e.protect
    /\ t.sending = e.sending /\ t.stopped = e.stopped /\ t.up = e.up
    /\ t.aborted = e.aborted
    /\ t.ready[p]["out"] = FALSE
    /\ \A x \in Ports, d \in Directions :
         /\ t.wake[x][d] = e.wake[x][d]
         /\ x # p \/ d # "out" => t.ready[x][d] = e.ready[x][d]

LEMMA DepartedOut ==
    ASSUME NEW e \in Task, NEW p \in Ports, NEW t, t = Departed(e, p, "out")
    PROVE  NotReady(e, t, p)
<1> USE DEF Directions
<1>1. t = [e EXCEPT !.ready[p]["out"] = FALSE, !.wake[p]["out"] = @]
  BY DEF Departed
<1>2. /\ e.ready \in [Ports -> [Directions -> BOOLEAN]]
      /\ e.wake \in [Ports -> [Directions -> Nat]]
  BY DEF Task
<1>3. /\ [e.ready EXCEPT ![p]["out"] = FALSE] \in [Ports -> [Directions -> BOOLEAN]]
      /\ [e.wake EXCEPT ![p]["out"] = @] \in [Ports -> [Directions -> Nat]]
  BY <1>2
<1>4. /\ t \in Task
      /\ t.ready = [e.ready EXCEPT ![p]["out"] = FALSE]
      /\ t.wake = [e.wake EXCEPT ![p]["out"] = @]
      /\ t.queue = e.queue /\ t.waiting = e.waiting /\ t.tokens = e.tokens
      /\ t.blocked = e.blocked /\ t.relay = e.relay /\ t.protect = e.protect
      /\ t.sending = e.sending /\ t.stopped = e.stopped /\ t.up = e.up
      /\ t.aborted = e.aborted
  BY <1>1, <1>3 DEF Task
<1>5. /\ t.ready[p]["out"] = FALSE
      /\ \A x \in Ports, d \in Directions :
           /\ t.wake[x][d] = e.wake[x][d]
           /\ x # p \/ d # "out" => t.ready[x][d] = e.ready[x][d]
  BY <1>2, <1>4
<1> QED BY <1>4, <1>5 DEF NotReady

\* A ready output releases a PDU.
LEMMA ServeOut ==
    ASSUME policy \in Policies, NEW read, NEW n \in Nat, ReadsWell(read, n),
           NEW s \in Task, NEW p \in Ports, Sound(s), Cardinality(BlockedIns(s)) <= n
    PROVE  LET t == Schedule(read, s, p, "out")
           IN  /\ t \in Task /\ Sound(t)
               /\ Proceeds(s, t) /\ Keeps(s, t) /\ Calms(s, t) /\ Quiet(t, p, "out")
<1> DEFINE t == Schedule(read, s, p, "out")
<1> USE DEF Directions
<1>1. CASE ~s.ready[p]["out"] \/ s.waiting[p]["out"] = 0
  <2>1. t = s
    BY <1>1 DEF Schedule
  <2>2. Quiet(s, p, "out")
    BY <1>1 DEF Quiet
  <2> QED BY <2>1, <2>2, Reflexive
<1>2. CASE s.ready[p]["out"] /\ s.waiting[p]["out"] # 0
  <2>0. InOK(s) /\ OutOK(s) /\ Books(s, p, "out")
    BY DEF Sound, OutOK
  <2>1. PICK q \in Qids, v \in Task :
           /\ t = ReleasePDU(read, v, p, "out", q)
           /\ s.queue[p]["out"][q] # <<>>
           /\ TurnTaken(s, v, p, "out", q)
    BY <1>2, <2>0, ScheduleServes
  <2> DEFINE c == Released(v, p, "out", q)
  <2>2. PICK e \in Task :
           /\ InOK(c) /\ InOK(e) /\ SameOut(c, e) /\ InMoves(c, e)
           /\ t = Departed(e, p, "out")
           /\ policy.maxQ = "ReadRateReducer" /\ BackUnder(Len(c.queue[p]["out"][q])) =>
                e.aborted # "no" \/ Unblocked(e, c.queue[p]["out"][q])
    BY <1>2, <2>0, <2>1, Departs
  <2>3. c \in Task /\ Popped(s, c, p, "out", q) /\ c.tokens = v.tokens
    BY <1>2, <2>1, ReleasedPops
  <2> HIDE DEF t, c
  <2>4. /\ OutOK(c)
        /\ \A x \in Ports : /\ Downstream(c, x) = Downstream(s, x)
                            /\ Upstream(c, x) = Upstream(s, x)
        /\ \A x \in Ports, r \in Qids : x # p \/ r # q =>
             c.queue[x]["out"][r] = s.queue[x]["out"][r]
        /\ c.queue[p]["out"][q] = Tail(s.queue[p]["out"][q])
        /\ \A x \in Ports : x # p => c.protect[x] = s.protect[x]
        /\ Len(c.protect[p]) = Len(s.protect[p]) + 1
        /\ \A x \in Ports, i \in Directions : x # p \/ i # "out" =>
             c.waiting[x][i] = s.waiting[x][i]
    BY <1>2, <2>0, <2>1, <2>3, OutPopped
  <2>5. /\ t \in Task
        /\ t.queue = e.queue /\ t.waiting = e.waiting /\ t.tokens = e.tokens
        /\ t.blocked = e.blocked /\ t.relay = e.relay /\ t.protect = e.protect
        /\ t.sending = e.sending /\ t.stopped = e.stopped /\ t.up = e.up
        /\ t.aborted = e.aborted
        /\ t.ready[p]["out"] = FALSE
        /\ \A x \in Ports, d \in Directions :
             /\ t.wake[x][d] = e.wake[x][d]
             /\ x # p \/ d # "out" => t.ready[x][d] = e.ready[x][d]
    <3>1. NotReady(e, t, p)
      BY <2>2, DepartedOut
    <3> QED BY <3>1 DEF NotReady
  <2>6. /\ c.ready = s.ready /\ c.blocked = s.blocked /\ c.wake = s.wake
        /\ c.sending = s.sending /\ c.up = s.up /\ c.aborted = s.aborted
        /\ c.stopped \subseteq s.stopped
        /\ policy.stop /\ <<p, q>> \in c.stopped => Len(c.queue[p]["out"][q]) > RestartAt
    BY <2>3 DEF Popped
  <2>7. InOK(t)
    BY <2>2, <2>5, SameBooks DEF InOK
  <2>8. OutOK(t)
    <3> SUFFICES ASSUME NEW x \in Ports
                 PROVE  Books(t, x, "out") /\ Line(t.protect[x], t.queue[x]["out"])
      BY DEF OutOK
    <3>1. Books(c, x, "out") /\ Line(c.protect[x], c.queue[x]["out"])
      BY <2>4 DEF OutOK
    <3>2. /\ t.protect[x] = c.protect[x] /\ t.queue[x]["out"] = c.queue[x]["out"]
          /\ t.waiting[x]["out"] = c.waiting[x]["out"]
          /\ t.tokens[x]["out"] = c.tokens[x]["out"]
      BY <2>2, <2>5 DEF SameOut
    <3>3. Books(t, x, "out")
      BY <3>1, <3>2, SameBooks
    <3> QED BY <3>1, <3>2, <3>3
  <2>9. Keeps(s, t)
    <3> SUFFICES ASSUME NEW x \in Ports
                 PROVE  /\ Upstream(t, x) \subseteq Upstream(s, x)
                        /\ Downstream(t, x) \subseteq Downstream(s, x)
      BY DEF Keeps
    <3>1. Upstream(t, x) = Upstream(e, x) /\ Downstream(t, x) = Downstream(e, x)
      BY <2>5 DEF Upstream, Downstream
    <3>2. Upstream(e, x) \subseteq Upstream(c, x)
      BY <2>2 DEF InMoves
    <3>3. Downstream(e, x) = Downstream(c, x)
      BY <2>2 DEF SameOut, Downstream
    <3> QED BY <2>4, <3>1, <3>2, <3>3
  <2>10. Placed(t)
    BY <2>9, PlacedKeeps DEF Sound
  <2>11. StoppedWait(t)
    <3>1. StoppedWait(s)
      BY DEF Sound
    <3>2. t.stopped \subseteq s.stopped
      BY <2>2, <2>5, <2>6 DEF SameOut
    <3>3. ~policy.stop => t.stopped = {}
      BY <3>1, <3>2 DEF StoppedWait
    <3>4. ASSUME StopAt > 1, NEW x \in Ports, NEW r \in Qids, <<x, r>> \in t.stopped
          PROVE  t.queue[x]["out"][r] # <<>>
      <4>0. t.queue[x]["out"] = c.queue[x]["out"] /\ t.stopped = c.stopped
        BY <2>2, <2>5 DEF SameOut
      <4>1. CASE x = p /\ r = q
        <5>1. Len(c.queue[p]["out"][q]) > RestartAt
          BY <2>6, <3>3, <3>4, <4>0, <4>1
        <5>2. Len(c.queue[p]["out"][q]) # 0
          BY <2>3, <5>1, QueueFacts, RMTAssumption
        <5> QED BY <2>3, <4>0, <4>1, <5>2, QueueFacts
      <4>2. CASE x # p \/ r # q
        BY <2>4, <3>1, <3>2, <3>4, <4>0, <4>2 DEF StoppedWait
      <4> QED BY <4>1, <4>2
    <3> QED BY <3>3, <3>4 DEF StoppedWait
  <2>12. Backlog(t)
    <3> SUFFICES ASSUME OnePath, NEW x \in Ports, t.blocked[x]["in"], t.aborted = "no"
                 PROVE  /\ policy.maxQ = "ReadRateReducer"
                        /\ \E r \in Qids : Len(t.queue[x]["out"][r]) >= ThreshLength
      BY DEF Backlog
    <3>1. e.blocked[x]["in"] /\ e.aborted = "no" /\ t.queue[x]["out"] = c.queue[x]["out"]
      BY <2>2, <2>5 DEF SameOut
    <3>2. s.blocked[x]["in"] /\ s.aborted = "no"
      BY <2>2, <2>6, <3>1 DEF InMoves
    <3>3. policy.maxQ = "ReadRateReducer"
      BY <3>2 DEF Sound, Backlog
    <3>4. PICK r \in Qids : Len(s.queue[x]["out"][r]) >= ThreshLength
      BY <3>2 DEF Sound, Backlog
    <3>5. CASE x # p \/ r # q
      BY <2>4, <3>1, <3>3, <3>4, <3>5
    <3>6. CASE x = p /\ r = q
      <4> DEFINE rest == c.queue[p]["out"][q]
      <4>1. Len(rest) = Len(s.queue[p]["out"][q]) - 1 /\ rest \in Seq(PDU) /\ Len(rest) \in Nat
        <5>1. s.queue[p]["out"][q] \in Seq(PDU)
          BY QueueFacts
        <5>2. rest = Tail(s.queue[p]["out"][q]) /\ rest \in Seq(PDU) /\ Len(rest) \in Nat
          BY <2>3, <2>4, QueueFacts
        <5> QED BY <2>1, <5>1, <5>2, HeadTailProperties
      <4>2. CASE Len(rest) >= ThreshLength
        BY <3>1, <3>3, <3>6, <4>2
      <4>3. CASE ~(Len(rest) >= ThreshLength)
        <5>1. BackUnder(Len(rest))
          <6>1. ThreshLength \in Nat
            BY RMTAssumption
          <6> HIDE DEF rest
          <6> QED BY <3>4, <3>6, <4>1, <4>3, <6>1 DEF BackUnder
        <5>2. Unblocked(e, rest)
          BY <2>2, <3>1, <3>3, <5>1
        <5> DEFINE f == Last(rest).flow
        <5>3. rest # <<>> /\ FwTableLookup(f) # <<>> /\ ~e.blocked[Head(FwTableLookup(f))]["in"]
          BY <5>2 DEF Unblocked
        <5>4. f \in policy.flows /\ p \in Range(Route[f])
          <6>1. Last(rest) \in Range(rest)
            <7>1. Len(rest) \in DOMAIN rest
              <8> HIDE DEF rest
              <8> QED BY <4>1, <5>3, SeqFacts
            <7> HIDE DEF rest
            <7> QED BY <7>1 DEF Last, Range
          <6>2. Last(rest) \in Downstream(c, p)
            BY <6>1 DEF Downstream, Content
          <6> QED BY <2>4, <6>2 DEF Sound, Placed
        <5>5. Head(FwTableLookup(f)) = p
          <6> HIDE DEF f
          <6> QED BY <3>3, <5>4, OneRoute
        <5> QED BY <3>1, <3>6, <5>3, <5>5
      <4> QED BY <4>2, <4>3
    <3> QED BY <3>5, <3>6
  <2>13. Proceeds(s, t)
    <3>1. /\ t.sending = s.sending /\ t.up = s.up
          /\ t.aborted = s.aborted \/ t.aborted = "lookup"
      BY <2>2, <2>5, <2>6 DEF SameOut, InMoves
    <3>2. ASSUME NEW x \in Ports
          PROVE  /\ t.blocked[x]["out"] = s.blocked[x]["out"]
                 /\ t.wake[x]["out"] = s.wake[x]["out"]
      BY <2>2, <2>5, <2>6 DEF SameOut
    <3>3. ASSUME NEW x \in Ports
          PROVE  \/ t.ready[x]["out"] = s.ready[x]["out"] /\ t.protect[x] = s.protect[x]
                 \/ /\ s.ready[x]["out"] /\ ~t.ready[x]["out"]
                    /\ Len(t.protect[x]) = Len(s.protect[x]) + 1
      <4>1. t.protect[x] = c.protect[x]
        BY <2>2, <2>5 DEF SameOut
      <4>2. CASE x = p
        BY <1>2, <2>4, <2>5, <4>1, <4>2
      <4>3. CASE x # p
        <5>1. t.ready[x]["out"] = s.ready[x]["out"]
          BY <2>2, <2>5, <2>6, <4>3 DEF SameOut
        <5> QED BY <2>4, <4>1, <4>3, <5>1
      <4> QED BY <4>2, <4>3
    <3>4. ASSUME NEW x \in Ports, Moving(s, x, "in")
          PROVE  Moving(t, x, "in")
      <4>1. Moving(c, x, "in")
        BY <2>6, <3>4 DEF Moving
      <4>2. Moving(e, x, "in")
        BY <2>2, <4>1 DEF InMoves
      <4>3. t.ready[x]["in"] = e.ready[x]["in"] /\ t.wake[x]["in"] = e.wake[x]["in"]
        BY <2>5
      <4> QED BY <2>5, <4>2, <4>3 DEF Moving
    <3> QED BY <3>1, <3>2, <3>3, <3>4 DEF Proceeds
  <2>14. Quiet(t, p, "out")
    BY <2>5 DEF Quiet
  <2>15. Calms(s, t)
    <3> SUFFICES ASSUME NEW x \in Ports, NEW i \in Directions, Quiet(s, x, i),
                        x # p \/ i # "out"
                 PROVE  Quiet(t, x, i)
      BY <2>14 DEF Calms
    <3>1. Quiet(c, x, i)
      BY <2>4, <2>6 DEF Quiet
    <3>2. Quiet(e, x, i)
      <4>1. CASE i = "in"
        BY <2>2, <3>1, <4>1 DEF InMoves
      <4>2. CASE i = "out"
        BY <2>2, <3>1, <4>2 DEF SameOut, Quiet
      <4> QED BY <4>1, <4>2
    <3>3. t.ready[x][i] = e.ready[x][i] /\ t.waiting = e.waiting
      BY <2>5
    <3> QED BY <3>2, <3>3 DEF Quiet
  <2> QED BY <2>5, <2>7, <2>8, <2>9, <2>10, <2>11, <2>12, <2>13, <2>14, <2>15 DEF Sound, t
<1> QED BY <1>1, <1>2

\* A handler's last step: the scheduler runs at a port.
LEMMA Processed ==
    ASSUME policy \in Policies, NEW s \in Task, NEW p \in Ports, NEW d \in Directions, Sound(s)
    PROVE  LET t == ProcessQueues(s, p, d)
           IN  /\ t \in Task /\ Sound(t)
               /\ Proceeds(s, t) /\ Keeps(s, t) /\ Calms(s, t) /\ Quiet(t, p, d)
<1> DEFINE N == Cardinality(Ports)
           read == Reads[N]
           t == ProcessQueues(s, p, d)
<1>1. N \in Nat /\ ReadsWell(read, N) /\ Cardinality(BlockedIns(s)) <= N
  BY ReadsAreWell, BlockedInsFinite
<1>2. t = Schedule(read, s, p, d)
  BY DEF ProcessQueues
<1> HIDE DEF N, read, t
<1>3. CASE d = "in"
  <2>0. InOK(s)
    BY DEF Sound
  <2>1. t \in Task /\ InOK(t) /\ SameOut(s, t) /\ InMoves(s, t) /\ Quiet(t, p, "in")
    BY <1>1, <1>2, <1>3, <2>0, ReadIn
  <2> QED BY <1>3, <2>1, ReadSound DEF t
<1>4. CASE d = "out"
  BY <1>1, <1>2, <1>4, ServeOut DEF t
<1> QED BY <1>3, <1>4 DEF Directions

(***************************************************************************)
(* A PDU enters a queue.                                                   *)
(***************************************************************************)

LEMMA FrontAppend ==
    ASSUME NEW T, NEW u \in Seq(T), NEW e \in T
    PROVE  Front(Append(u, e)) = u
<1> DEFINE v == Append(u, e)
<1>1. v \in Seq(T) /\ Len(v) = Len(u) + 1 /\ Len(u) \in Nat /\ \A i \in 1..Len(u) : v[i] = u[i]
  BY AppendProperties, LenProperties
<1>2. Front(v) = SubSeq(v, 1, Len(u))
  BY <1>1 DEF Front
<1> HIDE DEF v
<1>3. /\ SubSeq(v, 1, Len(u)) \in Seq(T) /\ Len(SubSeq(v, 1, Len(u))) = Len(u)
      /\ \A i \in 1..Len(u) : SubSeq(v, 1, Len(u))[i] = v[i]
  BY <1>1
<1>4. SubSeq(v, 1, Len(u)) = u
  BY <1>1, <1>3, SeqEqual
<1> QED BY <1>2, <1>4 DEF v

LEMMA AppendCounts ==
    ASSUME NEW T, NEW u \in Seq(T), NEW e \in T, NEW q
    PROVE  Cardinality(Places(Append(u, e), q)) =
             IF e = q THEN Cardinality(Places(u, q)) + 1 ELSE Cardinality(Places(u, q))
<1> DEFINE v == Append(u, e)
           n == Len(u) + 1
<1>1. v \in Seq(T) /\ Len(v) = n /\ Len(u) \in Nat /\ v[n] = e /\ \A i \in 1..Len(u) : v[i] = u[i]
  BY AppendProperties, LenProperties
<1>2. DOMAIN v = 1..n /\ DOMAIN u = 1..Len(u)
  BY <1>1, SeqFacts
<1> HIDE DEF v
<1>3. Places(v, q) = IF e = q THEN Places(u, q) \cup {n} ELSE Places(u, q)
  <2>1. \A i : i \in Places(v, q) <=> i \in 1..n /\ v[i] = q
    BY <1>2 DEF Places
  <2>2. \A i : i \in Places(u, q) <=> i \in 1..Len(u) /\ u[i] = q
    BY <1>2 DEF Places
  <2>3. \A i : i \in 1..n <=> i \in 1..Len(u) \/ i = n
    BY <1>1
  <2> QED BY <1>1, <2>1, <2>2, <2>3
<1>4. IsFiniteSet(Places(u, q))
  <2>1. IsFiniteSet(1..Len(u))
    BY <1>1, FS_Interval
  <2>2. Places(u, q) \subseteq 1..Len(u)
    BY <1>2 DEF Places
  <2> QED BY <2>1, <2>2, FS_Subset
<1>5. n \notin Places(u, q)
  BY <1>1, <1>2 DEF Places
<1>6. Cardinality(Places(u, q) \cup {n}) = Cardinality(Places(u, q)) + 1
  <2> HIDE DEF n
  <2> QED BY <1>4, <1>5, FS_AddElement
<1> QED BY <1>3, <1>6 DEF v

\* The state b in which u has joined a queue of s, and the monitor has been told.
Inserted(s, b, p, d, q, u) ==
    /\ b \in Task
    /\ b.queue[p][d][q] = Append(s.queue[p][d][q], u)
    /\ \A r \in Qids : r # q => b.queue[p][d][r] = s.queue[p][d][r]
    /\ b.tokens[p][d] = IF policy.scheduler = "DumbSch" THEN Append(s.tokens[p][d], q)
                        ELSE s.tokens[p][d]
    /\ \A x \in Ports, e \in Directions : x # p \/ e # d =>
         b.queue[x][e] = s.queue[x][e] /\ b.tokens[x][e] = s.tokens[x][e]
    /\ b.waiting = s.waiting /\ b.ready = s.ready /\ b.blocked = s.blocked
    /\ b.wake = s.wake /\ b.relay = s.relay /\ b.protect = s.protect
    /\ b.sending = s.sending /\ b.up = s.up /\ b.aborted = s.aborted
    /\ \/ b.stopped = s.stopped
       \/ /\ policy.stop /\ d = "out" /\ Len(b.queue[p][d][q]) >= StopAt
          /\ b.stopped = s.stopped \cup {<<p, q>>}

LEMMA Insertion ==
    ASSUME NEW s \in Task, NEW p \in Ports, NEW d \in Directions, NEW q \in Qids, NEW u \in PDU
    PROVE  LET a == [s EXCEPT !.queue[p][d][q] = Append(@, u)]
           IN  Inserted(s, PostPDUInsertion(a, p, d, q), p, d, q, u)
<1> DEFINE a == [s EXCEPT !.queue[p][d][q] = Append(@, u)]
           b == PostPDUInsertion(a, p, d, q)
           new == Append(s.queue[p][d][q], u)
           Q == [s.queue EXCEPT ![p][d][q] = new]
<1>1. /\ s.queue \in [Ports -> [Directions -> [Qids -> Seq(PDU)]]]
      /\ s.tokens \in [Ports -> [Directions -> Seq(Qids)]]
      /\ s.stopped \in SUBSET (Ports \X Qids)
  BY DEF Task
<1>2. new \in Seq(PDU)
  BY <1>1, AppendProperties
<1> HIDE DEF new
<1>3. Q \in [Ports -> [Directions -> [Qids -> Seq(PDU)]]]
  <2>1. [s.queue[p][d] EXCEPT ![q] = new] \in [Qids -> Seq(PDU)]
    BY <1>1, <1>2
  <2>2. [s.queue[p] EXCEPT ![d] = [s.queue[p][d] EXCEPT ![q] = new]]
          \in [Directions -> [Qids -> Seq(PDU)]]
    BY <1>1, <2>1
  <2> QED BY <1>1, <2>2
<1>4. a = [s EXCEPT !.queue = Q]
  BY DEF new
<1>5. /\ Q[p][d][q] = new
      /\ \A r \in Qids : r # q => Q[p][d][r] = s.queue[p][d][r]
      /\ \A x \in Ports, e \in Directions : x # p \/ e # d => Q[x][e] = s.queue[x][e]
  <2>1. Q[p][d][q] = new
    BY <1>1
  <2>2. \A r \in Qids : r # q => Q[p][d][r] = s.queue[p][d][r]
    BY <1>1
  <2>3. \A x \in Ports, e \in Directions : x # p \/ e # d => Q[x][e] = s.queue[x][e]
    BY <1>1
  <2> QED BY <2>1, <2>2, <2>3
<1> HIDE DEF Q, a
<1>6. /\ a \in Task /\ a.queue = Q /\ a.tokens = s.tokens /\ a.stopped = s.stopped
      /\ a.waiting = s.waiting /\ a.ready = s.ready /\ a.blocked = s.blocked
      /\ a.wake = s.wake /\ a.relay = s.relay /\ a.protect = s.protect
      /\ a.sending = s.sending /\ a.up = s.up /\ a.aborted = s.aborted
  BY <1>3, <1>4 DEF Task
<1> DEFINE tok == IF policy.scheduler = "DumbSch" THEN Append(s.tokens[p][d], q)
                  ELSE s.tokens[p][d]
           stop == IF policy.stop /\ d = "out" /\ Len(a.queue[p][d][q]) >= StopAt
                   THEN s.stopped \cup {<<p, q>>} ELSE s.stopped
           K == [s.tokens EXCEPT ![p][d] = tok]
<1>7. tok \in Seq(Qids) /\ stop \in SUBSET (Ports \X Qids)
  BY <1>1, AppendProperties
<1>8. b = [a EXCEPT !.tokens = K, !.stopped = stop]
  BY <1>6 DEF PostPDUInsertion
<1>9. stop = s.stopped \/ (/\ policy.stop /\ d = "out" /\ Len(a.queue[p][d][q]) >= StopAt
                           /\ stop = s.stopped \cup {<<p, q>>})
  OBVIOUS
<1> HIDE DEF tok, stop, b
<1>10. /\ K \in [Ports -> [Directions -> Seq(Qids)]] /\ K[p][d] = tok
       /\ \A x \in Ports, e \in Directions : x # p \/ e # d => K[x][e] = s.tokens[x][e]
  BY <1>1, <1>7
<1> HIDE DEF K
<1>11. /\ b \in Task /\ b.queue = Q /\ b.tokens = K /\ b.stopped = stop
       /\ b.waiting = s.waiting /\ b.ready = s.ready /\ b.blocked = s.blocked
       /\ b.wake = s.wake /\ b.relay = s.relay /\ b.protect = s.protect
       /\ b.sending = s.sending /\ b.up = s.up /\ b.aborted = s.aborted
  BY <1>6, <1>7, <1>8, <1>10 DEF Task
<1>12. /\ b.queue[p][d][q] = Append(s.queue[p][d][q], u)
       /\ \A r \in Qids : r # q => b.queue[p][d][r] = s.queue[p][d][r]
  BY <1>5, <1>11 DEF new
<1>13. b.tokens[p][d] = IF policy.scheduler = "DumbSch" THEN Append(s.tokens[p][d], q)
                        ELSE s.tokens[p][d]
  BY <1>10, <1>11 DEF tok
<1>14. \A x \in Ports, e \in Directions : x # p \/ e # d =>
         b.queue[x][e] = s.queue[x][e] /\ b.tokens[x][e] = s.tokens[x][e]
  BY <1>5, <1>10, <1>11
<1>15. \/ b.stopped = s.stopped
       \/ /\ policy.stop /\ d = "out" /\ Len(b.queue[p][d][q]) >= StopAt
          /\ b.stopped = s.stopped \cup {<<p, q>>}
  BY <1>6, <1>9, <1>11
<1>16. Inserted(s, b, p, d, q, u)
  BY <1>11, <1>12, <1>13, <1>14, <1>15 DEF Inserted
<1> QED BY <1>16 DEF a, b

LEMMA Restores ==
    ASSUME NEW S, NEW T, NEW f \in [S -> T], NEW g \in [S -> T], NEW q \in S,
           \A r \in S : r # q => f[r] = g[r]
    PROVE  [f EXCEPT ![q] = g[q]] = g
OBVIOUS

\* What is dropped leaves no trace, except that the user may have been told to stop.
Dropped(s, t, p, d, q) ==
    /\ t \in Task
    /\ \A x \in Ports, e \in Directions :
         t.queue[x][e] = s.queue[x][e] /\ t.tokens[x][e] = s.tokens[x][e]
    /\ t.waiting = s.waiting /\ t.ready = s.ready /\ t.blocked = s.blocked
    /\ t.wake = s.wake /\ t.relay = s.relay /\ t.protect = s.protect
    /\ t.sending = s.sending /\ t.up = s.up /\ t.aborted = s.aborted
    /\ \/ t.stopped = s.stopped
       \/ /\ policy.stop /\ d = "out" /\ Len(s.queue[p][d][q]) + 1 >= StopAt
          /\ t.stopped = s.stopped \cup {<<p, q>>}

LEMMA Dropping ==
    ASSUME NEW s \in Task, NEW b, NEW p \in Ports, NEW d \in Directions, NEW q \in Qids,
           NEW u \in PDU, Inserted(s, b, p, d, q, u)
    PROVE  Dropped(s, DropLast(b, p, d, q), p, d, q)
<1> DEFINE t == DropLast(b, p, d, q)
           Q == [b.queue EXCEPT ![p][d][q] = Front(@)]
           K == [b.tokens EXCEPT ![p][d] = IF policy.scheduler = "DumbSch" THEN Front(@) ELSE @]
<1>1. /\ s.queue \in [Ports -> [Directions -> [Qids -> Seq(PDU)]]]
      /\ s.tokens \in [Ports -> [Directions -> Seq(Qids)]]
      /\ b.queue \in [Ports -> [Directions -> [Qids -> Seq(PDU)]]]
      /\ b.tokens \in [Ports -> [Directions -> Seq(Qids)]]
      /\ b \in Task
  BY DEF Task, Inserted
<1>2. t = [b EXCEPT !.queue = Q, !.tokens = K]
  BY DEF DropLast
<1>3. /\ Front(b.queue[p][d][q]) = s.queue[p][d][q]
      /\ Len(b.queue[p][d][q]) = Len(s.queue[p][d][q]) + 1
  <2>1. s.queue[p][d][q] \in Seq(PDU) /\ b.queue[p][d][q] = Append(s.queue[p][d][q], u)
    BY <1>1 DEF Inserted
  <2> QED BY <2>1, FrontAppend, AppendProperties
<1>4. (IF policy.scheduler = "DumbSch" THEN Front(b.tokens[p][d]) ELSE b.tokens[p][d])
        = s.tokens[p][d]
  <2>1. s.tokens[p][d] \in Seq(Qids)
    BY <1>1
  <2>2. Front(Append(s.tokens[p][d], q)) = s.tokens[p][d]
    BY <2>1, FrontAppend
  <2> QED BY <2>2 DEF Inserted
<1>5. \A x \in Ports, e \in Directions :
        /\ b.queue[x][e] \in [Qids -> Seq(PDU)] /\ s.queue[x][e] \in [Qids -> Seq(PDU)]
        /\ x # p \/ e # d => b.queue[x][e] = s.queue[x][e] /\ b.tokens[x][e] = s.tokens[x][e]
  <2>0. ASSUME NEW F \in [Ports -> [Directions -> [Qids -> Seq(PDU)]]],
               NEW x \in Ports, NEW e \in Directions
        PROVE  F[x][e] \in [Qids -> Seq(PDU)]
    <3>1. F[x] \in [Directions -> [Qids -> Seq(PDU)]]
      OBVIOUS
    <3> QED BY <3>1
  <2>1. \A x \in Ports, e \in Directions :
          b.queue[x][e] \in [Qids -> Seq(PDU)] /\ s.queue[x][e] \in [Qids -> Seq(PDU)]
    BY <1>1, <2>0
  <2>2. \A x \in Ports, e \in Directions : x # p \/ e # d =>
          b.queue[x][e] = s.queue[x][e] /\ b.tokens[x][e] = s.tokens[x][e]
    BY DEF Inserted
  <2> QED BY <2>1, <2>2
<1>6. \A x \in Ports, e \in Directions : Q[x][e] = s.queue[x][e]
  <2>1. \A x \in Ports, e \in Directions : x # p \/ e # d => Q[x][e] = b.queue[x][e]
    BY <1>1
  <2>2. Q[p][d] = [b.queue[p][d] EXCEPT ![q] = s.queue[p][d][q]]
    BY <1>1, <1>3
  <2>3. Q[p][d] = s.queue[p][d]
    <3>1. \A r \in Qids : r # q => b.queue[p][d][r] = s.queue[p][d][r]
      BY DEF Inserted
    <3>2. b.queue[p][d] \in [Qids -> Seq(PDU)] /\ s.queue[p][d] \in [Qids -> Seq(PDU)]
      BY <1>5
    <3> DEFINE F == b.queue[p][d]
               G == s.queue[p][d]
    <3> HIDE DEF Q, F, G
    <3>3. F \in [Qids -> Seq(PDU)] /\ G \in [Qids -> Seq(PDU)] /\ \A r \in Qids : r # q => F[r] = G[r]
      BY <3>1, <3>2 DEF F, G
    <3>4. [F EXCEPT ![q] = G[q]] = G
      BY <3>3, Restores
    <3> QED BY <2>2, <3>4 DEF F, G
  <2> HIDE DEF Q
  <2> QED BY <1>5, <2>1, <2>3
<1>7. \A x \in Ports, e \in Directions : K[x][e] = s.tokens[x][e]
  BY <1>1, <1>4, <1>5, SMTT(60)
<1>8. /\ Q \in [Ports -> [Directions -> [Qids -> Seq(PDU)]]]
      /\ K \in [Ports -> [Directions -> Seq(Qids)]]
  <2>1. Q = [x \in Ports |-> [e \in Directions |-> Q[x][e]]]
    BY <1>1
  <2>2. K = [x \in Ports |-> [e \in Directions |-> K[x][e]]]
    BY <1>1
  <2> HIDE DEF Q, K
  <2>3. Q \in [Ports -> [Directions -> [Qids -> Seq(PDU)]]]
    BY <1>5, <1>6, <2>1, ZenonT(60)
  <2>4. K \in [Ports -> [Directions -> Seq(Qids)]]
    BY <1>1, <1>7, <2>2
  <2> QED BY <2>3, <2>4
<1> HIDE DEF Q, K, t
<1>9. /\ t \in Task /\ t.queue = Q /\ t.tokens = K /\ t.stopped = b.stopped
      /\ t.waiting = b.waiting /\ t.ready = b.ready /\ t.blocked = b.blocked
      /\ t.wake = b.wake /\ t.relay = b.relay /\ t.protect = b.protect
      /\ t.sending = b.sending /\ t.up = b.up /\ t.aborted = b.aborted
  BY <1>1, <1>2, <1>8 DEF Task
<1> QED BY <1>3, <1>6, <1>7, <1>9 DEF Inserted, Dropped, t

\* A dropped PDU disturbs nothing.
LEMMA DroppedSound ==
    ASSUME NEW s \in Task, NEW t, NEW p \in Ports, NEW d \in Directions, NEW q \in Qids,
           Sound(s), Dropped(s, t, p, d, q)
    PROVE  t \in Task /\ Sound(t) /\ Proceeds(s, t) /\ Keeps(s, t) /\ Calms(s, t)
<1> USE DEF Directions
<1>0. /\ t \in Task
      /\ t.waiting = s.waiting /\ t.ready = s.ready /\ t.blocked = s.blocked
      /\ t.wake = s.wake /\ t.relay = s.relay /\ t.protect = s.protect
      /\ t.sending = s.sending /\ t.up = s.up /\ t.aborted = s.aborted
  BY DEF Dropped
<1>1. \A x \in Ports, e \in Directions :
         t.queue[x][e] = s.queue[x][e] /\ t.tokens[x][e] = s.tokens[x][e]
  BY DEF Dropped
<1>2. Keeps(s, t)
  BY <1>0, <1>1 DEF Keeps, Upstream, Downstream
<1>3. Calms(s, t)
  BY <1>0 DEF Calms, Quiet
<1>4. Proceeds(s, t)
  BY <1>0 DEF Proceeds, Moving
<1>5. \A x \in Ports, e \in Directions : Books(s, x, e) => Books(t, x, e)
  BY <1>0, <1>1, SameBooks
<1>6. InOK(t)
  BY <1>0, <1>1, <1>5 DEF InOK, Sound
<1>7. OutOK(t)
  BY <1>0, <1>1, <1>5 DEF OutOK, Sound
<1>8. Placed(t)
  BY <1>2, PlacedKeeps DEF Sound
<1>9. Backlog(t)
  BY <1>0, <1>1 DEF Backlog, Sound
<1>10. StoppedWait(t)
  <2>1. StoppedWait(s)
    BY DEF Sound
  <2>2. CASE t.stopped = s.stopped
    BY <1>1, <2>1, <2>2 DEF StoppedWait
  <2>3. CASE /\ policy.stop /\ d = "out" /\ Len(s.queue[p][d][q]) + 1 >= StopAt
             /\ t.stopped = s.stopped \cup {<<p, q>>}
    <3>1. ASSUME StopAt > 1 PROVE s.queue[p]["out"][q] # <<>>
      BY <2>3, <3>1, QueueFacts, RMTAssumption, SMTT(60)
    <3> QED BY <1>1, <2>1, <2>3, <3>1 DEF StoppedWait
  <2> QED BY <2>2, <2>3 DEF Dropped
<1> QED BY <1>0, <1>2, <1>3, <1>4, <1>6, <1>7, <1>8, <1>9, <1>10 DEF Sound

\* The state w in which the PDU that has joined is counted, and may have blocked an input.
Joined(s, w, p, d, q, u) ==
    /\ w \in Task
    /\ w.queue[p][d][q] = Append(s.queue[p][d][q], u)
    /\ \A r \in Qids : r # q => w.queue[p][d][r] = s.queue[p][d][r]
    /\ w.tokens[p][d] = IF policy.scheduler = "DumbSch" THEN Append(s.tokens[p][d], q)
                        ELSE s.tokens[p][d]
    /\ w.waiting[p][d] = s.waiting[p][d] + 1
    /\ \A x \in Ports, e \in Directions : x # p \/ e # d =>
         /\ w.queue[x][e] = s.queue[x][e] /\ w.tokens[x][e] = s.tokens[x][e]
         /\ w.waiting[x][e] = s.waiting[x][e]
    /\ \A x \in Ports :
         /\ w.blocked[x]["out"] = s.blocked[x]["out"]
         /\ s.blocked[x]["in"] => w.blocked[x]["in"]
         /\ w.blocked[x]["in"] =>
              \/ s.blocked[x]["in"]
              \/ /\ policy.maxQ = "ReadRateReducer" /\ d = "out"
                 /\ Len(w.queue[p][d][q]) >= ThreshLength
                 /\ x = Head(FwTableLookup(u.flow))
    /\ w.ready = s.ready /\ w.wake = s.wake /\ w.relay = s.relay /\ w.protect = s.protect
    /\ w.sending = s.sending /\ w.up = s.up /\ w.aborted = s.aborted
    /\ \/ w.stopped = s.stopped
       \/ policy.stop /\ d = "out" /\ w.stopped = s.stopped \cup {<<p, q>>}

LEMMA Joining ==
    ASSUME NEW s \in Task, NEW b, NEW p \in Ports, NEW d \in Directions, NEW q \in Qids,
           NEW u \in PDU, Inserted(s, b, p, d, q, u)
    PROVE  Joined(s, [ReadRateReducer_Run(b, p, d, q) EXCEPT !.waiting[p][d] = @ + 1],
                  p, d, q, u)
<1> DEFINE pdus == b.queue[p][d][q]
           first == Head(FwTableLookup(Last(pdus).flow))
           full == /\ policy.maxQ = "ReadRateReducer" /\ d = "out"
                   /\ Len(pdus) >= MaxLength /\ Len(pdus) >= ThreshLength
           B == [b.blocked EXCEPT ![first]["in"] = TRUE]
           c == ReadRateReducer_Run(b, p, d, q)
           w == [c EXCEPT !.waiting[p][d] = @ + 1]
<1> USE DEF Directions
<1>1. /\ b \in Task /\ b.blocked \in [Ports -> [Directions -> BOOLEAN]]
      /\ b.blocked = s.blocked /\ b.waiting = s.waiting
      /\ s.waiting \in [Ports -> [Directions -> Nat]]
  BY DEF Inserted, Task
<1>2. Last(pdus) = u
  <2> DEFINE old == s.queue[p][d][q]
  <2>1. old \in Seq(PDU) /\ pdus = Append(old, u)
    BY QueueFacts DEF Inserted
  <2> HIDE DEF pdus, old
  <2>2. Len(pdus) = Len(old) + 1 /\ pdus[Len(old) + 1] = u
    BY <2>1, AppendProperties
  <2> QED BY <2>2 DEF Last
<1>3. c = IF full THEN [b EXCEPT !.blocked = B] ELSE b
  BY DEF ReadRateReducer_Run
<1>4. /\ B \in [Ports -> [Directions -> BOOLEAN]]
      /\ \A x \in Ports : /\ B[x]["out"] = b.blocked[x]["out"]
                          /\ b.blocked[x]["in"] => B[x]["in"]
                          /\ B[x]["in"] => b.blocked[x]["in"] \/ x = first
  <2> HIDE DEF first
  <2>1. CASE first \in Ports
    BY <1>1, <2>1
  <2>2. CASE first \notin Ports
    <3>1. B = b.blocked
      BY <1>1, <2>2
    <3> QED BY <1>1, <3>1
  <2> QED BY <2>1, <2>2
<1>5. first = Head(FwTableLookup(u.flow))
  BY <1>2
<1> HIDE DEF B, first, pdus
<1>6. /\ c \in Task /\ c.queue = b.queue /\ c.tokens = b.tokens /\ c.waiting = s.waiting
      /\ c.ready = b.ready /\ c.wake = b.wake /\ c.relay = b.relay /\ c.protect = b.protect
      /\ c.sending = b.sending /\ c.up = b.up /\ c.aborted = b.aborted /\ c.stopped = b.stopped
      /\ c.blocked = IF full THEN B ELSE b.blocked
  <2> HIDE DEF c
  <2>1. CASE full
    <3>1. c = [b EXCEPT !.blocked = B]
      BY <1>3, <2>1
    <3> QED BY <1>1, <1>4, <2>1, <3>1 DEF Task
  <2>2. CASE ~full
    BY <1>1, <1>3, <2>2
  <2> QED BY <2>1, <2>2
<1> HIDE DEF c
<1> DEFINE W == [s.waiting EXCEPT ![p][d] = @ + 1]
<1>7. /\ W \in [Ports -> [Directions -> Nat]]
      /\ W[p][d] = s.waiting[p][d] + 1
      /\ \A x \in Ports, e \in Directions : x # p \/ e # d => W[x][e] = s.waiting[x][e]
  <2>1. s.waiting[p][d] + 1 \in Nat
    BY <1>1
  <2> QED BY <1>1, <2>1
<1>8. w = [c EXCEPT !.waiting = W]
  BY <1>6
<1> HIDE DEF W, w
<1>9. /\ w \in Task /\ w.queue = b.queue /\ w.tokens = b.tokens /\ w.waiting = W
      /\ w.ready = b.ready /\ w.wake = b.wake /\ w.relay = b.relay /\ w.protect = b.protect
      /\ w.sending = b.sending /\ w.up = b.up /\ w.aborted = b.aborted /\ w.stopped = b.stopped
      /\ w.blocked = IF full THEN B ELSE b.blocked
  BY <1>6, <1>7, <1>8 DEF Task
<1>10. /\ w.queue[p][d][q] = Append(s.queue[p][d][q], u)
       /\ \A r \in Qids : r # q => w.queue[p][d][r] = s.queue[p][d][r]
       /\ w.tokens[p][d] = IF policy.scheduler = "DumbSch" THEN Append(s.tokens[p][d], q)
                           ELSE s.tokens[p][d]
  BY <1>9 DEF Inserted
<1>11. \A x \in Ports, e \in Directions : x # p \/ e # d =>
         /\ w.queue[x][e] = s.queue[x][e] /\ w.tokens[x][e] = s.tokens[x][e]
         /\ w.waiting[x][e] = s.waiting[x][e]
  BY <1>7, <1>9 DEF Inserted
<1>12. \A x \in Ports :
         /\ w.blocked[x]["out"] = s.blocked[x]["out"]
         /\ s.blocked[x]["in"] => w.blocked[x]["in"]
         /\ w.blocked[x]["in"] =>
              \/ s.blocked[x]["in"]
              \/ /\ policy.maxQ = "ReadRateReducer" /\ d = "out"
                 /\ Len(w.queue[p][d][q]) >= ThreshLength
                 /\ x = Head(FwTableLookup(u.flow))
  <2>1. CASE full
    <3>1. w.blocked = B
      BY <1>9, <2>1
    <3>2. /\ policy.maxQ = "ReadRateReducer" /\ d = "out"
          /\ Len(w.queue[p][d][q]) >= ThreshLength
      BY <1>9, <2>1 DEF pdus
    <3> QED BY <1>1, <1>4, <1>5, <3>1, <3>2
  <2>2. CASE ~full
    BY <1>1, <1>9, <2>2
  <2> QED BY <2>1, <2>2
<1>13. /\ w.ready = s.ready /\ w.wake = s.wake /\ w.relay = s.relay /\ w.protect = s.protect
       /\ w.sending = s.sending /\ w.up = s.up /\ w.aborted = s.aborted
       /\ w.stopped = s.stopped \/ (policy.stop /\ d = "out" /\ w.stopped = s.stopped \cup {<<p, q>>})
  BY <1>9 DEF Inserted
<1>14. w.waiting[p][d] = s.waiting[p][d] + 1
  BY <1>7, <1>9
<1>15. Joined(s, w, p, d, q, u)
  BY <1>9, <1>10, <1>11, <1>12, <1>13, <1>14 DEF Joined
<1> QED BY <1>15 DEF w, c

LEMMA JoinedBooks ==
    ASSUME NEW s \in Task, NEW w, NEW p \in Ports, NEW d \in Directions, NEW q \in Qids,
           NEW u \in PDU, Joined(s, w, p, d, q, u), NEW x \in Ports, NEW e \in Directions,
           Books(s, x, e)
    PROVE  Books(w, x, e)
<1>1. CASE x # p \/ e # d
  BY <1>1, SameBooks DEF Joined
<1>2. CASE x = p /\ e = d
  <2>1. s.queue[p][d][q] \in Seq(PDU) /\ s.tokens[p][d] \in Seq(Qids) /\ w \in Task
    BY TaskTypes DEF Joined
  <2>2. Len(w.queue[p][d][q]) = Len(s.queue[p][d][q]) + 1
    BY <2>1, AppendProperties DEF Joined
  <2>3. \A r \in Qids : r # q => w.queue[p][d][r] = s.queue[p][d][r]
    BY DEF Joined
  <2>4. IsFiniteSet(InQueues(s, p, d)) /\ s.waiting[p][d] = Cardinality(InQueues(s, p, d))
    BY <1>2 DEF Books, Counted
  <2>5. /\ IsFiniteSet(InQueues(w, p, d))
        /\ Cardinality(InQueues(w, p, d)) = Cardinality(InQueues(s, p, d)) + 1
    BY <2>1, <2>2, <2>3, <2>4, LongerQueue
  <2>6. Counted(w, p, d)
    BY <2>4, <2>5 DEF Counted, Joined
  <2>7. TurnsAgree(w, p, d)
    <3> SUFFICES ASSUME policy.scheduler = "DumbSch", NEW r \in Qids
                 PROVE  Cardinality(Turns(w, p, d, r)) = Len(w.queue[p][d][r])
      BY DEF TurnsAgree
    <3>1. Cardinality(Places(s.tokens[p][d], r)) = Len(s.queue[p][d][r])
      BY <1>2 DEF Books, TurnsAgree, Turns
    <3>2. w.tokens[p][d] = Append(s.tokens[p][d], q)
      BY DEF Joined
    <3>3. Cardinality(Places(w.tokens[p][d], r)) =
            IF q = r THEN Cardinality(Places(s.tokens[p][d], r)) + 1
            ELSE Cardinality(Places(s.tokens[p][d], r))
      BY <2>1, <3>2, AppendCounts
    <3> QED BY <2>2, <2>3, <3>1, <3>3 DEF Turns
  <2> QED BY <1>2, <2>6, <2>7 DEF Books
<1> QED BY <1>1, <1>2

\* The inputs and outputs that u is added to, at most one.
Gains(s, t, p, d, u) ==
    \A x \in Ports :
      /\ Upstream(t, x) \subseteq Upstream(s, x)
                                    \cup (IF x = p /\ d = "in" THEN {u} ELSE {})
      /\ Downstream(t, x) \subseteq Downstream(s, x)
                                    \cup (IF x = p /\ d = "out" THEN {u} ELSE {})

\* What the task does with a PDU is in order at p when it is newer than those before it.
MayJoin(s, p, d, u) ==
    /\ u \in PDU /\ u.flow \in policy.flows
    /\ d = "in" => /\ Source[u.flow] = p /\ (policy.onWire => p = Interface)
                   /\ Precede(Upstream(s, p), {u})
    /\ d = "out" => p \in Range(Route[u.flow]) /\ Precede(Downstream(s, p), {u})

LEMMA JoinedSound ==
    ASSUME policy \in Policies, NEW s \in Task, NEW w, NEW p \in Ports, NEW d \in Directions,
           NEW u, Sound(s), MayJoin(s, p, d, u), Joined(s, w, p, d, QueueId[u.flow], u)
    PROVE  /\ w \in Task /\ Sound(w) /\ Proceeds(s, w) /\ Gains(s, w, p, d, u)
           /\ \A x \in Ports, e \in Directions :
                (x # p \/ e # d) /\ Quiet(s, x, e) => Quiet(w, x, e)
<1> DEFINE q == QueueId[u.flow]
<1>0. u \in PDU /\ q \in Qids /\ u.flow \in policy.flows /\ u.flow \in Flows
  BY RMTAssumption DEF MayJoin, PDU
<1> HIDE DEF q
<1>j. Joined(s, w, p, d, q, u)
  BY DEF q
<1>4. ASSUME NEW x \in Ports, NEW e \in Directions, Books(s, x, e)
      PROVE  Books(w, x, e)
  BY <1>0, <1>4, <1>j, JoinedBooks
<1> USE DEF Directions
<1>1. /\ w \in Task
      /\ w.ready = s.ready /\ w.wake = s.wake /\ w.relay = s.relay /\ w.protect = s.protect
      /\ w.sending = s.sending /\ w.up = s.up /\ w.aborted = s.aborted
  BY <1>j DEF Joined
<1>2. /\ w.queue[p][d][q] = Append(s.queue[p][d][q], u)
      /\ \A r \in Qids : r # q => w.queue[p][d][r] = s.queue[p][d][r]
      /\ \A x \in Ports, e \in Directions : x # p \/ e # d =>
           w.queue[x][e] = s.queue[x][e] /\ w.waiting[x][e] = s.waiting[x][e]
  BY <1>j, ZenonT(60) DEF Joined
<1>3. s.queue[p][d] \in [Qids -> Seq(PDU)] /\ s.relay[p] \in Seq(PDU) /\ s.protect[p] \in Seq(PDU)
  BY DEF Task
<1>5. /\ d = "in" => Joins(s.relay[p], s.queue[p][d], q, u, w.queue[p][d])
      /\ d = "out" => Joins(s.protect[p], s.queue[p][d], q, u, w.queue[p][d])
  <2> DEFINE Q == s.queue[p][d]
             P == w.queue[p][d]
  <2>1. /\ P[q] = Append(Q[q], u) /\ \A r \in Qids : r # q => P[r] = Q[r]
        /\ Q \in [Qids -> Seq(PDU)]
    BY <1>2, <1>3
  <2> HIDE DEF Q, P
  <2>2. Joins(s.relay[p], Q, q, u, P) /\ Joins(s.protect[p], Q, q, u, P)
    BY <1>0, <1>3, <2>1 DEF Joins
  <2> QED BY <2>2 DEF Q, P
<1>6. Gains(s, w, p, d, u)
  <2> SUFFICES ASSUME NEW x \in Ports
               PROVE  /\ Upstream(w, x) \subseteq Upstream(s, x)
                                    \cup (IF x = p /\ d = "in" THEN {u} ELSE {})
                      /\ Downstream(w, x) \subseteq Downstream(s, x)
                                    \cup (IF x = p /\ d = "out" THEN {u} ELSE {})
    BY DEF Gains
  <2>1. CASE x = p /\ d = "in"
    <3>0. Joins(s.relay[p], s.queue[p]["in"], q, u, w.queue[p]["in"])
      BY <1>5, <2>1
    <3>1. Upstream(w, p) = Upstream(s, p) \cup {u}
      <4>1. Content(s.relay[p], w.queue[p]["in"]) = Content(s.relay[p], s.queue[p]["in"]) \cup {u}
        BY <3>0, ContentAppends DEF Adds
      <4> QED BY <1>1, <4>1 DEF Upstream
    <3>2. Downstream(w, p) = Downstream(s, p)
      BY <1>1, <1>2, <2>1 DEF Downstream
    <3> QED BY <2>1, <3>1, <3>2
  <2>2. CASE x = p /\ d = "out"
    <3>0. Joins(s.protect[p], s.queue[p]["out"], q, u, w.queue[p]["out"])
      BY <1>5, <2>2
    <3>1. Downstream(w, p) = Downstream(s, p) \cup {u}
      <4>1. Content(s.protect[p], w.queue[p]["out"])
              = Content(s.protect[p], s.queue[p]["out"]) \cup {u}
        BY <3>0, ContentAppends DEF Adds
      <4> QED BY <1>1, <4>1 DEF Downstream
    <3>2. Upstream(w, p) = Upstream(s, p)
      BY <1>1, <1>2, <2>2 DEF Upstream
    <3> QED BY <2>2, <3>1, <3>2
  <2>3. CASE x # p
    BY <1>1, <1>2, <2>3 DEF Upstream, Downstream
  <2> QED BY <2>1, <2>2, <2>3
<1>7. InOK(w)
  <2> SUFFICES ASSUME NEW x \in Ports
               PROVE  Books(w, x, "in") /\ Line(w.relay[x], w.queue[x]["in"])
    BY DEF InOK
  <2>1. Books(s, x, "in") /\ Line(s.relay[x], s.queue[x]["in"])
    BY DEF Sound, InOK
  <2>2. CASE x = p /\ d = "in"
    <3>1. Precede(Content(s.relay[p], s.queue[p]["in"]), {u})
      BY <2>2 DEF MayJoin, Upstream
    <3> QED BY <1>1, <1>4, <1>5, <2>1, <2>2, <3>1, LineAppends DEF q
  <2>3. CASE ~(x = p /\ d = "in")
    BY <1>1, <1>2, <1>4, <2>1, <2>3
  <2> QED BY <2>2, <2>3
<1>8. OutOK(w)
  <2> SUFFICES ASSUME NEW x \in Ports
               PROVE  Books(w, x, "out") /\ Line(w.protect[x], w.queue[x]["out"])
    BY DEF OutOK
  <2>1. Books(s, x, "out") /\ Line(s.protect[x], s.queue[x]["out"])
    BY DEF Sound, OutOK
  <2>2. CASE x = p /\ d = "out"
    <3>1. Precede(Content(s.protect[p], s.queue[p]["out"]), {u})
      BY <2>2 DEF MayJoin, Downstream
    <3> QED BY <1>1, <1>4, <1>5, <2>1, <2>2, <3>1, LineAppends DEF q
  <2>3. CASE ~(x = p /\ d = "out")
    BY <1>1, <1>2, <1>4, <2>1, <2>3
  <2> QED BY <2>2, <2>3
<1>9. Placed(w)
  <2>1. Placed(s)
    BY DEF Sound
  <2> SUFFICES ASSUME NEW x \in Ports
               PROVE  /\ \A v \in Upstream(w, x) :
                           /\ v.flow \in policy.flows /\ Source[v.flow] = x
                           /\ policy.onWire => x = Interface
                      /\ \A v \in Downstream(w, x) :
                           v.flow \in policy.flows /\ x \in Range(Route[v.flow])
    BY DEF Placed
  <2>2. ASSUME NEW v \in Upstream(w, x)
        PROVE  v.flow \in policy.flows /\ Source[v.flow] = x /\ (policy.onWire => x = Interface)
    <3>1. v \in Upstream(s, x) \/ (v = u /\ x = p /\ d = "in")
      BY <1>6, <2>2 DEF Gains
    <3> QED BY <2>1, <3>1 DEF Placed, MayJoin
  <2>3. ASSUME NEW v \in Downstream(w, x)
        PROVE  v.flow \in policy.flows /\ x \in Range(Route[v.flow])
    <3>1. v \in Downstream(s, x) \/ (v = u /\ x = p /\ d = "out")
      BY <1>6, <2>3 DEF Gains
    <3> QED BY <2>1, <3>1 DEF Placed, MayJoin
  <2> QED BY <2>2, <2>3
<1>10. w.queue[p][d][q] # <<>>
  <2>1. s.queue[p][d][q] \in Seq(PDU)
    BY <1>0, QueueFacts
  <2> HIDE DEF q
  <2> QED BY <1>0, <1>2, <2>1, AppendProperties, EmptySeq, SMTT(60)
<1>11. \A x \in Ports, e \in Directions, r \in Qids :
         s.queue[x][e][r] # <<>> => w.queue[x][e][r] # <<>>
  BY <1>2, <1>10
<1>12. StoppedWait(w)
  <2>1. StoppedWait(s)
    BY DEF Sound
  <2>2. \/ w.stopped = s.stopped
        \/ policy.stop /\ d = "out" /\ w.stopped = s.stopped \cup {<<p, q>>}
    BY <1>j DEF Joined
  <2> QED BY <1>10, <1>11, <2>1, <2>2 DEF StoppedWait
<1>13. Backlog(w)
  <2> SUFFICES ASSUME OnePath, NEW x \in Ports, w.blocked[x]["in"], w.aborted = "no"
               PROVE  /\ policy.maxQ = "ReadRateReducer"
                      /\ \E r \in Qids : Len(w.queue[x]["out"][r]) >= ThreshLength
    BY DEF Backlog
  <2>1. \/ s.blocked[x]["in"]
        \/ /\ policy.maxQ = "ReadRateReducer" /\ d = "out"
           /\ Len(w.queue[p][d][q]) >= ThreshLength
           /\ x = Head(FwTableLookup(u.flow))
    BY <1>j DEF Joined
  <2>2. CASE s.blocked[x]["in"]
    <3>1. PICK r \in Qids : Len(s.queue[x]["out"][r]) >= ThreshLength
      BY <1>1, <2>2 DEF Sound, Backlog
    <3>2. policy.maxQ = "ReadRateReducer"
      BY <1>1, <2>2 DEF Sound, Backlog
    <3>3. CASE x = p /\ d = "out" /\ r = q
      <4> DEFINE old == s.queue[p]["out"][q]
      <4>1. old \in Seq(PDU) /\ Len(old) \in Nat /\ ThreshLength \in Nat
        BY <1>0, QueueFacts, RMTAssumption
      <4>2. w.queue[p]["out"][q] = Append(old, u) /\ Len(old) >= ThreshLength
        BY <1>2, <3>1, <3>3
      <4> HIDE DEF old
      <4>3. Len(Append(old, u)) = Len(old) + 1
        BY <1>0, <4>1, AppendProperties
      <4>4. Len(w.queue[p]["out"][q]) >= ThreshLength
        BY <4>1, <4>2, <4>3
      <4> QED BY <1>0, <3>2, <3>3, <4>4
    <3>4. CASE ~(x = p /\ d = "out" /\ r = q)
      BY <1>2, <3>1, <3>2, <3>4
    <3> QED BY <3>3, <3>4
  <2>3. CASE /\ policy.maxQ = "ReadRateReducer" /\ d = "out"
             /\ Len(w.queue[p][d][q]) >= ThreshLength
             /\ x = Head(FwTableLookup(u.flow))
    <3>1. p \in Range(Route[u.flow])
      BY <2>3 DEF MayJoin
    <3>2. x = p
      BY <1>0, <2>3, <3>1, OneRoute
    <3> QED BY <1>0, <2>3, <3>2
  <2> QED BY <2>1, <2>2, <2>3
<1>14. Proceeds(s, w)
  <2>1. \A x \in Ports : /\ w.blocked[x]["out"] = s.blocked[x]["out"]
                         /\ s.blocked[x]["in"] => w.blocked[x]["in"]
    BY <1>j DEF Joined
  <2> QED BY <1>1, <2>1 DEF Proceeds, Moving
<1>15. ASSUME NEW x \in Ports, NEW e \in Directions, x # p \/ e # d, Quiet(s, x, e)
       PROVE  Quiet(w, x, e)
  BY <1>1, <1>2, <1>15 DEF Quiet
<1> QED BY <1>1, <1>6, <1>7, <1>8, <1>9, <1>12, <1>13, <1>14, <1>15 DEF Sound

LEMMA Enqueued ==
    ASSUME policy \in Policies, NEW s \in Task, NEW p \in Ports, NEW d \in Directions,
           NEW u, NEW chance, Sound(s), MayJoin(s, p, d, u)
    PROVE  LET t == EnqueuePDU(s, p, d, u, chance)
           IN  /\ t \in Task /\ Sound(t)
               /\ Proceeds(s, t) /\ Gains(s, t, p, d, u) /\ Calms(s, t)
<1> DEFINE t == EnqueuePDU(s, p, d, u, chance)
           q == QueueId[u.flow]
           b == PostPDUInsertion([s EXCEPT !.queue[p][d][q] = Append(@, u)], p, d, q)
           w == [ReadRateReducer_Run(b, p, d, q) EXCEPT !.waiting[p][d] = @ + 1]
<1>0. u \in PDU /\ q \in Qids
  BY RMTAssumption DEF MayJoin, PDU
<1>1. t = IF Drops(b, p, d, q, chance) THEN DropLast(b, p, d, q) ELSE ProcessQueues(w, p, d)
  BY DEF EnqueuePDU
<1>2. Inserted(s, b, p, d, q, u)
  <2> HIDE DEF q
  <2> QED BY <1>0, Insertion
<1> HIDE DEF t, b
<1>3. CASE Drops(b, p, d, q, chance)
  <2> HIDE DEF q
  <2>1. Dropped(s, t, p, d, q)
    BY <1>0, <1>1, <1>2, <1>3, Dropping
  <2>2. t \in Task /\ Sound(t) /\ Proceeds(s, t) /\ Keeps(s, t) /\ Calms(s, t)
    BY <1>0, <2>1, DroppedSound
  <2>3. Gains(s, t, p, d, u)
    BY <2>2 DEF Keeps, Gains
  <2> QED BY <2>2, <2>3 DEF t
<1>4. CASE ~Drops(b, p, d, q, chance)
  <2>1. Joined(s, w, p, d, q, u)
    <3> HIDE DEF q
    <3> QED BY <1>0, <1>2, Joining
  <2> HIDE DEF w
  <2>2. /\ w \in Task /\ Sound(w) /\ Proceeds(s, w) /\ Gains(s, w, p, d, u)
        /\ \A x \in Ports, e \in Directions :
             (x # p \/ e # d) /\ Quiet(s, x, e) => Quiet(w, x, e)
    BY <2>1, JoinedSound
  <2>3. t = ProcessQueues(w, p, d)
    BY <1>1, <1>4
  <2>4. /\ t \in Task /\ Sound(t)
        /\ Proceeds(w, t) /\ Keeps(w, t) /\ Calms(w, t) /\ Quiet(t, p, d)
    BY <2>2, <2>3, Processed
  <2>5. Proceeds(s, t)
    BY <2>2, <2>4, ProceedsTrans
  <2>6. Gains(s, t, p, d, u)
    BY <2>2, <2>4 DEF Keeps, Gains
  <2>7. Calms(s, t)
    BY <2>2, <2>4 DEF Calms
  <2> QED BY <2>4, <2>5, <2>6, <2>7 DEF t
<1> QED BY <1>3, <1>4

\* A PDU is relayed to all the ports of its flow.
Relays(s, t, u) ==
    \A x \in Ports :
      /\ Upstream(t, x) \subseteq Upstream(s, x)
      /\ Downstream(t, x) \subseteq Downstream(s, x)
                                    \cup (IF x \in Range(Route[u.flow]) THEN {u} ELSE {})

LEMMA RelayedSound ==
    ASSUME policy \in Policies, NEW s \in Task, NEW u \in PDU, NEW chance, Sound(s),
           u.flow \in policy.flows, FwTableLookup(u.flow) = Route[u.flow],
           \A x \in Ports : Precede(Downstream(s, x), {u})
    PROVE  LET t == RelayPDUToPort(s, u, chance)
           IN  t \in Task /\ Sound(t) /\ Proceeds(s, t) /\ Calms(s, t) /\ Relays(s, t, u)
<1> DEFINE ports == Route[u.flow]
           N == Len(ports)
           Through(x, i) == \E j \in 1..i : ports[j] = x
<1>0. u.flow \in Flows
  BY RMTAssumption
<1>1. /\ N \in Nat
      /\ \A i \in 1..N : ports[i] \in Ports /\ ports[i] \in Range(ports)
      /\ \A i, j \in 1..N : ports[i] = ports[j] => i = j
      /\ \A x : x \in Range(ports) <=> Through(x, N)
  BY <1>0, RouteFacts DEF Range
<1>2. PICK g : /\ Relayed(s, u, chance, g)
               /\ RelayPDUToPort(s, u, chance) = g[N]
  BY <1>1, RelayUnfold
<1>3. /\ g[0] = s
      /\ \A i \in 1..N : g[i] = EnqueuePDU(g[i - 1], ports[i], "out", u, chance)
  BY <1>2 DEF Relayed
<1> HIDE DEF ports, N, Through
<1> DEFINE Near(t, i) ==
              \A x \in Ports :
                /\ Upstream(t, x) \subseteq Upstream(s, x)
                /\ Downstream(t, x) \subseteq Downstream(s, x)
                                               \cup (IF Through(x, i) THEN {u} ELSE {})
           Done(i) == /\ g[i] \in Task /\ Sound(g[i])
                      /\ Proceeds(s, g[i]) /\ Calms(s, g[i]) /\ Near(g[i], i)
           bad == {i \in 0..N : ~Done(i)}
<1>4. Done(0)
  BY <1>3, Reflexive
<1>5. ASSUME NEW i \in 0..N, i # 0, Done(i - 1)
      PROVE  Done(i)
  <2> DEFINE r == g[i - 1]
             p == ports[i]
             t == g[i]
  <2>0. i \in 1..N /\ i - 1 \in Nat /\ p \in Ports /\ p \in Range(ports)
    BY <1>1, <1>5
  <2>1. ~Through(p, i - 1)
    <3>1. \A j \in 1..(i - 1) : j \in 1..N /\ j # i
      BY <1>1, <2>0
    <3> QED BY <1>1, <2>0, <3>1 DEF Through
  <2>2. t = EnqueuePDU(r, p, "out", u, chance)
    BY <1>3, <2>0
  <2> HIDE DEF p, r, t
  <2>3. /\ r \in Task /\ Sound(r) /\ Proceeds(s, r) /\ Calms(s, r) /\ Near(r, i - 1)
    BY <1>5 DEF r
  <2>4. MayJoin(r, p, "out", u)
    <3>1. Downstream(r, p) \subseteq Downstream(s, p)
      BY <2>0, <2>1, <2>3
    <3>2. Precede(Downstream(r, p), {u})
      BY <2>0, <3>1 DEF Precede
    <3> QED BY <2>0, <3>2 DEF MayJoin, ports
  <2>5. "out" \in Directions
    BY DEF Directions
  <2>6. /\ t \in Task /\ Sound(t)
        /\ Proceeds(r, t) /\ Gains(r, t, p, "out", u) /\ Calms(r, t)
    BY <2>0, <2>2, <2>3, <2>4, <2>5, Enqueued
  <2>7. Near(t, i)
    <3> SUFFICES ASSUME NEW x \in Ports
                 PROVE  /\ Upstream(t, x) \subseteq Upstream(s, x)
                        /\ Downstream(t, x) \subseteq Downstream(s, x)
                                             \cup (IF Through(x, i) THEN {u} ELSE {})
      OBVIOUS
    <3>1. /\ Upstream(t, x) \subseteq Upstream(r, x)
          /\ Downstream(t, x) \subseteq Downstream(r, x) \cup (IF x = p THEN {u} ELSE {})
      BY <2>6 DEF Gains
    <3>2. /\ Upstream(r, x) \subseteq Upstream(s, x)
          /\ Downstream(r, x) \subseteq Downstream(s, x)
                                         \cup (IF Through(x, i - 1) THEN {u} ELSE {})
      BY <2>3
    <3>3. x = p => Through(x, i)
      <4>1. i \in 1..i
        BY <2>0
      <4> QED BY <4>1 DEF Through, p
    <3>4. Through(x, i - 1) => Through(x, i)
      <4>1. \A j \in 1..(i - 1) : j \in 1..i
        BY <2>0
      <4> QED BY <4>1 DEF Through
    <3> QED BY <3>1, <3>2, <3>3, <3>4
  <2> HIDE DEF Near
  <2>8. Proceeds(s, t) /\ Calms(s, t)
    BY <2>3, <2>6, ProceedsTrans, CalmsTrans
  <2> QED BY <2>6, <2>7, <2>8 DEF t
<1>6. bad = {}
  <2>1. SUFFICES ASSUME bad # {} PROVE FALSE
    OBVIOUS
  <2> DEFINE n == Min(bad)
  <2>2. bad \in SUBSET Nat
    BY <1>1
  <2>3. n \in bad /\ \A i \in bad : n <= i
    <3> HIDE DEF bad
    <3> QED BY <2>1, <2>2, MinOfNaturals
  <2> HIDE DEF n
  <2>4. n \in 0..N /\ ~Done(n) /\ n # 0
    <3> HIDE DEF Done
    <3> QED BY <1>4, <2>3
  <2>5. n - 1 \in 0..N /\ n - 1 < n
    <3> HIDE DEF Done
    <3> QED BY <1>1, <2>4
  <2>6. Done(n - 1)
    <3>1. n - 1 \notin bad
      <4> HIDE DEF bad
      <4> QED BY <2>2, <2>3, <2>5
    <3> HIDE DEF Done
    <3> QED BY <2>5, <3>1
  <2> HIDE DEF Done
  <2> QED BY <1>5, <2>4, <2>6
<1>7. Done(N)
  <2> HIDE DEF Done
  <2> QED BY <1>1, <1>6
<1>8. Relays(s, g[N], u)
  BY <1>1, <1>7 DEF Relays, ports
<1> QED BY <1>2, <1>7, <1>8

(***************************************************************************)
(* From one event to the next.                                             *)
(***************************************************************************)

LEMMA Primes ==
    ASSUME policy' = policy
    PROVE  /\ Sound(rmt') => Sound(rmt)'
           /\ PortsOK(rmt') => PortsOK(rmt)'
<1>1. ASSUME NEW p \in Ports, NEW d \in Directions
      PROVE  Books(rmt, p, d)' <=> Books(rmt', p, d)
  BY DEF Books, Counted, TurnsAgree
<1>2. InOK(rmt)' <=> InOK(rmt')
  BY <1>1 DEF InOK, Directions
<1>3. OutOK(rmt)' <=> OutOK(rmt')
  BY <1>1 DEF OutOK, Directions
<1>4. Placed(rmt)' <=> Placed(rmt')
  BY DEF Placed
<1>5. StoppedWait(rmt)' <=> StoppedWait(rmt')
  BY DEF StoppedWait
<1>6. Backlog(rmt)' <=> Backlog(rmt')
  BY DEF Backlog
<1>7. PortsOK(rmt)' <=> PortsOK(rmt')
  BY DEF PortsOK
<1> QED BY <1>2, <1>3, <1>4, <1>5, <1>6, <1>7 DEF Sound

\* What the ports' state says of the queues is not changed by what it says of readiness.
SameQueues(s, t) ==
    /\ t.queue = s.queue /\ t.waiting = s.waiting /\ t.tokens = s.tokens
    /\ t.relay = s.relay /\ t.protect = s.protect /\ t.stopped = s.stopped
    /\ t.aborted = s.aborted
    /\ \A x \in Ports : t.blocked[x]["in"] = s.blocked[x]["in"]

LEMMA SameSound ==
    ASSUME NEW s, NEW t, Sound(s), SameQueues(s, t)
    PROVE  /\ Sound(t)
           /\ \A x \in Ports : Upstream(t, x) = Upstream(s, x) /\ Downstream(t, x) = Downstream(s, x)
<1>1. \A x \in Ports : Upstream(t, x) = Upstream(s, x) /\ Downstream(t, x) = Downstream(s, x)
  BY DEF SameQueues, Upstream, Downstream
<1>2. InOK(t) /\ OutOK(t)
  BY SameBooks DEF Sound, InOK, OutOK, SameQueues
<1>3. Placed(t)
  BY <1>1 DEF Sound, Placed
<1>4. StoppedWait(t) /\ Backlog(t)
  BY DEF Sound, StoppedWait, Backlog, SameQueues
<1> QED BY <1>1, <1>2, <1>3, <1>4 DEF Sound

LEMMA TasksFacts ==
    ASSUME NEW s \in Task, NEW x \in Ports
    PROVE  /\ One(s.ready[x]["out"]) \in 0..1 /\ One(s.sending[x]) \in 0..1
           /\ Len(s.protect[x]) \in Nat /\ s.wake[x]["out"] \in Nat
           /\ Tasks(s, x) \in Nat
<1>1. One(s.ready[x]["out"]) \in 0..1 /\ One(s.sending[x]) \in 0..1
  BY DEF One
<1>2. Len(s.protect[x]) \in Nat /\ s.wake[x]["out"] \in Nat
  <2>1. s.protect[x] \in Seq(PDU) /\ s.wake[x]["out"] \in Nat
    BY TaskTypes DEF Directions
  <2> QED BY <2>1, SeqFacts
<1>3. Tasks(s, x) \in Nat
  <2> DEFINE a == One(s.ready[x]["out"])
             b == Len(s.protect[x])
             c == One(s.sending[x])
             e == s.wake[x]["out"]
  <2>1. a \in Nat /\ b \in Nat /\ c \in Nat /\ e \in Nat
    BY <1>1, <1>2
  <2>2. Tasks(s, x) = a + b + c + e
    BY DEF Tasks
  <2> HIDE DEF a, b, c, e
  <2> QED BY <2>1, <2>2
<1> QED BY <1>1, <1>2, <1>3

\* What remains true of the ports: a stopped one releases nothing, and all go on moving.
Follows(s, t) ==
    /\ t.up = s.up /\ t.sending = s.sending
    /\ t.aborted = s.aborted \/ t.aborted = "lookup"
    /\ \A x \in Ports :
         /\ t.blocked[x]["out"] = s.blocked[x]["out"]
         /\ s.blocked[x]["out"] /\ ~s.ready[x]["out"] =>
              ~t.ready[x]["out"] /\ t.protect[x] = s.protect[x]
    /\ \A x \in Ports, e \in Directions : Moving(s, x, e) => Moving(t, x, e)

LEMMA ProceedsFollows ==
    ASSUME NEW s \in Task, NEW t \in Task, Proceeds(s, t)
    PROVE  Follows(s, t) /\ \A x \in Ports : Tasks(t, x) = Tasks(s, x)
<1>1. /\ t.up = s.up /\ t.sending = s.sending
      /\ t.aborted = s.aborted \/ t.aborted = "lookup"
      /\ \A x \in Ports :
         /\ t.blocked[x]["out"] = s.blocked[x]["out"]
         /\ s.blocked[x]["out"] /\ ~s.ready[x]["out"] =>
              ~t.ready[x]["out"] /\ t.protect[x] = s.protect[x]
  BY DEF Proceeds
<1>2. ASSUME NEW x \in Ports
      PROVE  /\ Tasks(t, x) = Tasks(s, x)
             /\ Moving(s, x, "in") => Moving(t, x, "in")
             /\ Moving(s, x, "out") => Moving(t, x, "out")
  <2>1. /\ t.wake[x]["out"] = s.wake[x]["out"] /\ t.sending[x] = s.sending[x]
        /\ t.blocked[x]["out"] = s.blocked[x]["out"] /\ t.up = s.up
        /\ Moving(s, x, "in") => Moving(t, x, "in")
    BY DEF Proceeds
  <2>2. \/ t.ready[x]["out"] = s.ready[x]["out"] /\ t.protect[x] = s.protect[x]
        \/ /\ s.ready[x]["out"] /\ ~t.ready[x]["out"]
           /\ Len(t.protect[x]) = Len(s.protect[x]) + 1
    BY DEF Proceeds
  <2>3. /\ s.protect[x] \in Seq(PDU) /\ t.protect[x] \in Seq(PDU) /\ s.wake[x]["out"] \in Nat
        /\ s.sending[x] \in BOOLEAN /\ s.ready[x]["out"] \in BOOLEAN
    BY TaskTypes DEF Directions
  <2>4. Len(s.protect[x]) \in Nat /\ (t.protect[x] = <<>> <=> Len(t.protect[x]) = 0)
    BY <2>3, SeqFacts
  <2>5. CASE t.ready[x]["out"] = s.ready[x]["out"] /\ t.protect[x] = s.protect[x]
    BY <2>1, <2>5 DEF Tasks, Moving
  <2>6. CASE /\ s.ready[x]["out"] /\ ~t.ready[x]["out"]
             /\ Len(t.protect[x]) = Len(s.protect[x]) + 1
    <3>1. t.protect[x] # <<>>
      BY <2>4, <2>6
    <3>2. Tasks(t, x) = Tasks(s, x)
      <4>1. One(t.ready[x]["out"]) = 0 /\ One(s.ready[x]["out"]) = 1
        BY <2>6 DEF One
      <4>2. One(t.sending[x]) = One(s.sending[x])
        BY <2>1
      <4> DEFINE b == Len(s.protect[x])
                 c == One(s.sending[x])
                 e == s.wake[x]["out"]
      <4>3. b \in Nat /\ c \in Nat /\ e \in Nat
        BY TasksFacts
      <4>4. Tasks(s, x) = 1 + b + c + e /\ Tasks(t, x) = 0 + (b + 1) + c + e
        BY <2>1, <2>6, <4>1, <4>2 DEF Tasks
      <4> HIDE DEF b, c, e
      <4> QED BY <4>3, <4>4
    <3> QED BY <2>1, <3>1, <3>2 DEF Moving
  <2> QED BY <2>2, <2>5, <2>6
<1> QED BY <1>1, <1>2 DEF Follows, Directions

LEMMA FollowsTrans ==
    ASSUME NEW s, NEW t, NEW u, Follows(s, t), Follows(t, u)
    PROVE  Follows(s, u)
<1>1. ASSUME NEW x \in Ports, NEW e \in Directions, Moving(s, x, e) PROVE Moving(u, x, e)
  BY <1>1 DEF Follows
<1>2. ASSUME NEW x \in Ports
      PROVE  /\ u.blocked[x]["out"] = s.blocked[x]["out"]
             /\ s.blocked[x]["out"] /\ ~s.ready[x]["out"] =>
                  ~u.ready[x]["out"] /\ u.protect[x] = s.protect[x]
  BY DEF Follows
<1> QED BY <1>1, <1>2 DEF Follows

\* A port is made ready, if it is not blocked.
LEMMA Readied ==
    ASSUME policy \in Policies, NEW s \in Task, NEW p \in Ports, NEW d \in Directions, Sound(s)
    PROVE  LET t == SetReady(s, p, d)
           IN  /\ t \in Task /\ Sound(t) /\ Keeps(s, t) /\ Calms(s, t) /\ Follows(s, t)
               /\ Moving(t, p, d)
               /\ \A x \in Ports :
                    Tasks(t, x) <= Tasks(s, x) + IF x = p /\ d = "out" THEN 1 ELSE 0
<1> DEFINE t == SetReady(s, p, d)
           r == [s EXCEPT !.ready[p][d] = TRUE]
           R == [s.ready EXCEPT ![p][d] = TRUE]
<1>0. \A x \in Ports : Tasks(s, x) \in Nat
  BY TasksFacts
<1>1. CASE s.blocked[p][d]
  <2>1. t = s
    BY <1>1 DEF SetReady
  <2>2. Follows(s, s)
    BY DEF Follows
  <2>3. Moving(s, p, d)
    BY <1>1 DEF Moving
  <2> HIDE DEF t
  <2> QED BY <1>0, <2>1, <2>2, <2>3, Reflexive DEF t
<1>2. CASE ~s.blocked[p][d]
  <2>1. t = ProcessQueues(r, p, d)
    BY <1>2 DEF SetReady
  <2>2. s.ready \in [Ports -> [Directions -> BOOLEAN]]
    BY DEF Task
  <2>3. /\ R \in [Ports -> [Directions -> BOOLEAN]] /\ R[p][d] = TRUE
        /\ \A x \in Ports, e \in Directions : x # p \/ e # d => R[x][e] = s.ready[x][e]
    BY <2>2
  <2>4. r = [s EXCEPT !.ready = R]
    OBVIOUS
  <2> HIDE DEF r, R, t
  <2>5. /\ r \in Task /\ r.ready = R /\ SameQueues(s, r)
        /\ r.blocked = s.blocked /\ r.wake = s.wake /\ r.sending = s.sending /\ r.up = s.up
    BY <2>3, <2>4 DEF Task, SameQueues
  <2>6. Sound(r) /\ \A x \in Ports : Upstream(r, x) = Upstream(s, x)
                                     /\ Downstream(r, x) = Downstream(s, x)
    BY <2>5, SameSound
  <2>7. /\ t \in Task /\ Sound(t)
        /\ Proceeds(r, t) /\ Keeps(r, t) /\ Calms(r, t) /\ Quiet(t, p, d)
    BY <2>1, <2>5, <2>6, Processed
  <2>8. Keeps(s, t)
    BY <2>6, <2>7 DEF Keeps
  <2>9. Calms(s, t)
    <3> SUFFICES ASSUME NEW x \in Ports, NEW e \in Directions, Quiet(s, x, e)
                 PROVE  Quiet(t, x, e)
      BY DEF Calms
    <3>1. CASE x = p /\ e = d
      BY <2>7, <3>1
    <3>2. CASE x # p \/ e # d
      <4>1. Quiet(r, x, e)
        BY <2>3, <2>5, <3>2 DEF Quiet, SameQueues
      <4> QED BY <2>7, <4>1 DEF Calms
    <3> QED BY <3>1, <3>2
  <2>10. Follows(r, t) /\ \A x \in Ports : Tasks(t, x) = Tasks(r, x)
    BY <2>5, <2>7, ProceedsFollows
  <2>11. \A x \in Ports, e \in Directions : Moving(s, x, e) => Moving(r, x, e)
    BY <2>3, <2>5 DEF Moving, SameQueues
  <2>12. Follows(s, t)
    <3>1. ASSUME NEW x \in Ports
          PROVE  /\ t.blocked[x]["out"] = s.blocked[x]["out"]
                 /\ s.blocked[x]["out"] /\ ~s.ready[x]["out"] =>
                      ~t.ready[x]["out"] /\ t.protect[x] = s.protect[x]
      <4>1. t.blocked[x]["out"] = s.blocked[x]["out"] /\ r.protect = s.protect
        BY <2>5, <2>10 DEF Follows, SameQueues
      <4>2. s.blocked[x]["out"] => r.ready[x]["out"] = s.ready[x]["out"]
        BY <1>2, <2>3, <2>5 DEF Directions
      <4> QED BY <2>5, <2>10, <4>1, <4>2 DEF Follows
    <3> QED BY <2>5, <2>10, <2>11, <3>1 DEF Follows, SameQueues
  <2>13. Moving(t, p, d)
    <3>1. Moving(r, p, d)
      BY <2>3, <2>5 DEF Moving
    <3> QED BY <2>10, <3>1 DEF Follows
  <2>14. ASSUME NEW x \in Ports
         PROVE  Tasks(t, x) <= Tasks(s, x) + IF x = p /\ d = "out" THEN 1 ELSE 0
    <3>1. /\ r.protect[x] = s.protect[x] /\ r.sending[x] = s.sending[x]
          /\ r.wake[x]["out"] = s.wake[x]["out"]
      BY <2>5 DEF SameQueues
    <3>2. Tasks(t, x) = Tasks(r, x) /\ Tasks(r, x) \in Nat /\ Tasks(s, x) \in Nat
      BY <2>5, <2>10, TasksFacts
    <3>3. CASE x = p /\ d = "out"
      <4>1. One(r.ready[x]["out"]) <= One(s.ready[x]["out"]) + 1
        BY <2>5, TasksFacts
      <4>2. Tasks(r, x) <= Tasks(s, x) + 1
        <5> DEFINE a == One(s.ready[x]["out"])
                   i == One(r.ready[x]["out"])
                   b == Len(s.protect[x])
                   c == One(s.sending[x])
                   e == s.wake[x]["out"]
        <5>0. i <= a + 1
          BY <4>1
        <5>1. a \in Nat /\ i \in Nat /\ b \in Nat /\ c \in Nat /\ e \in Nat
          BY <2>5, TasksFacts
        <5>2. Tasks(s, x) = a + b + c + e /\ Tasks(r, x) = i + b + c + e
          BY <3>1 DEF Tasks
        <5> HIDE DEF a, i, b, c, e
        <5> QED BY <5>0, <5>1, <5>2
      <4> QED BY <3>2, <3>3, <4>2
    <3>4. CASE ~(x = p /\ d = "out")
      <4>1. r.ready[x]["out"] = s.ready[x]["out"]
        BY <2>3, <2>5, <3>4 DEF Directions
      <4>2. Tasks(r, x) = Tasks(s, x)
        BY <3>1, <4>1 DEF Tasks
      <4> QED BY <3>2, <3>4, <4>2
    <3> QED BY <3>3, <3>4
  <2> QED BY <2>7, <2>8, <2>9, <2>12, <2>13, <2>14 DEF t
<1> QED BY <1>1, <1>2

-----------------------------------------------------------------------------
\* A port that is stopped, and stays stopped, releases nothing.
Silent ==
    \A p \in Ports :
      rmt.blocked[p]["out"] /\ rmt'.blocked[p]["out"] =>
        Len(rmt'.protect[p]) <= Len(rmt.protect[p])

Promised == [Promise!Next]_<<given, left>>

LEMMA InOrderKeeps ==
    ASSUME NEW s, NEW t, NEW g, NEW l, InOrder(s, g, l), Keeps(s, t)
    PROVE  InOrder(t, g, l)
BY DEF InOrder, Keeps, Precede

LEMMA Concluded ==
    ASSUME policy \in Policies, policy' = policy,
           rmt' \in Task, Sound(rmt'), Settled(rmt'), PortsOK(rmt'), rmt'.aborted # "channel",
           signals' \in [Ports -> 0 .. MaxSignals],
           given' \in [Flows -> Nat], left' \in [Flows -> [Exits -> Nat]],
           InOrder(rmt', given', left')
    PROVE  IInv'
<1>1. Sound(rmt)' /\ PortsOK(rmt)'
  BY Primes
<1>2. TypeOK'
  BY DEF TypeOK
<1>3. Settled(rmt)' /\ InOrder(rmt, given, left)'
  OBVIOUS
<1> QED BY <1>1, <1>2, <1>3 DEF IInv

\* The events that give no PDU and take none out.
LEMMA Internal ==
    ASSUME IInv, policy' = policy, given' = given, left' = left,
           signals' \in [Ports -> 0 .. MaxSignals],
           rmt' \in Task, Sound(rmt'), Keeps(rmt, rmt'),
           Settled(rmt'), PortsOK(rmt'), rmt'.aborted # "channel"
    PROVE  IInv' /\ Promised
<1>1. TypeOK /\ InOrder(rmt, given, left)
  BY DEF IInv
<1>2. InOrder(rmt', given, left)
  BY <1>1, InOrderKeeps
<1>3. IInv'
  BY <1>1, <1>2, Concluded DEF TypeOK
<1> QED BY <1>3 DEF Promised

LEMMA WakeStep ==
    ASSUME IInv, NEW p \in Ports, NEW d \in Directions, Wake(p, d)
    PROVE  IInv' /\ Silent /\ Promised
<1> DEFINE s == rmt
           a == [rmt EXCEPT !.wake[p][d] = @ - 1]
           t == SetReady(a, p, d)
           W == [rmt.wake EXCEPT ![p][d] = @ - 1]
<1>1. /\ rmt \in Task /\ policy \in Policies /\ Sound(rmt) /\ Settled(rmt) /\ PortsOK(rmt)
      /\ rmt.aborted # "channel" /\ signals \in [Ports -> 0 .. MaxSignals]
  BY DEF IInv, TypeOK
<1>2. /\ policy' = policy /\ given' = given /\ left' = left /\ signals' = signals
      /\ rmt.wake[p][d] > 0 /\ rmt' = t
  BY DEF Wake, Running
<1>3. /\ W \in [Ports -> [Directions -> Nat]] /\ W[p][d] = rmt.wake[p][d] - 1
      /\ \A x \in Ports, e \in Directions : x # p \/ e # d => W[x][e] = rmt.wake[x][e]
  <2>1. rmt.wake \in [Ports -> [Directions -> Nat]]
    BY <1>1 DEF Task
  <2>2. rmt.wake[p][d] - 1 \in Nat
    BY <1>2, <2>1
  <2> QED BY <2>1, <2>2
<1>4. a = [rmt EXCEPT !.wake = W]
  OBVIOUS
<1> HIDE DEF W, a
<1>5. /\ a \in Task /\ a.wake = W /\ SameQueues(rmt, a) /\ a.ready = rmt.ready
      /\ a.blocked = rmt.blocked /\ a.sending = rmt.sending /\ a.up = rmt.up
  BY <1>1, <1>3, <1>4 DEF Task, SameQueues
<1>6. /\ Sound(a)
      /\ \A x \in Ports : Upstream(a, x) = Upstream(rmt, x) /\ Downstream(a, x) = Downstream(rmt, x)
  BY <1>1, <1>5, SameSound
<1> HIDE DEF t
<1>7. /\ t \in Task /\ Sound(t) /\ Keeps(a, t) /\ Calms(a, t) /\ Follows(a, t)
      /\ Moving(t, p, d)
      /\ \A x \in Ports :
           Tasks(t, x) <= Tasks(a, x) + IF x = p /\ d = "out" THEN 1 ELSE 0
  BY <1>1, <1>5, <1>6, Readied DEF t
<1>8. Keeps(rmt, t)
  BY <1>6, <1>7 DEF Keeps
<1>9. Settled(t)
  <2> SUFFICES ASSUME NEW x \in Ports, NEW e \in Directions
               PROVE  Quiet(t, x, e) /\ Moving(t, x, e)
    BY DEF Settled
  <2>1. Quiet(rmt, x, e) /\ Moving(rmt, x, e)
    BY <1>1 DEF Settled
  <2>2. Quiet(a, x, e)
    BY <1>5, <2>1 DEF Quiet, SameQueues
  <2>3. Quiet(t, x, e)
    BY <1>7, <2>2 DEF Calms
  <2>4. CASE x # p \/ e # d
    <3>1. Moving(a, x, e)
      BY <1>3, <1>5, <2>1, <2>4 DEF Moving, SameQueues
    <3> QED BY <1>7, <2>3, <3>1 DEF Follows
  <2> QED BY <1>7, <2>3, <2>4
<1>10. \A x \in Ports : Tasks(t, x) <= Tasks(rmt, x)
  <2> SUFFICES ASSUME NEW x \in Ports PROVE Tasks(t, x) <= Tasks(rmt, x)
    OBVIOUS
  <2>0. Tasks(t, x) \in Nat /\ Tasks(a, x) \in Nat /\ Tasks(rmt, x) \in Nat
    BY <1>1, <1>5, <1>7, TasksFacts
  <2>1. CASE x = p /\ d = "out"
    <3> DEFINE i == One(rmt.ready[p]["out"])
               b == Len(rmt.protect[p])
               c == One(rmt.sending[p])
               w == rmt.wake[p]["out"]
    <3>1. i \in Nat /\ b \in Nat /\ c \in Nat /\ w \in Nat
      BY <1>1, TasksFacts
    <3>2. Tasks(rmt, p) = i + b + c + w /\ Tasks(a, p) = i + b + c + (w - 1)
      BY <1>3, <1>5, <2>1 DEF Tasks, SameQueues
    <3>3. Tasks(t, p) <= Tasks(a, p) + 1
      BY <1>7, <2>1
    <3> HIDE DEF i, b, c, w
    <3> QED BY <2>0, <2>1, <3>1, <3>2, <3>3
  <2>2. CASE ~(x = p /\ d = "out")
    <3>1. Tasks(a, x) = Tasks(rmt, x)
      BY <1>3, <1>5, <2>2 DEF Tasks, SameQueues, Directions
    <3>2. Tasks(t, x) <= Tasks(a, x) + 0
      BY <1>7, <2>2
    <3> QED BY <2>0, <3>1, <3>2
  <2> QED BY <2>1, <2>2
<1>11. PortsOK(t)
  <2> SUFFICES ASSUME NEW x \in Ports
               PROVE  /\ t.blocked[x]["out"] => ~t.ready[x]["out"]
                      /\ policy.onWire => Tasks(t, x) <= 1 /\ (x = Interface => x \in t.up)
    BY DEF PortsOK
  <2>1. /\ rmt.blocked[x]["out"] => ~rmt.ready[x]["out"]
        /\ policy.onWire => Tasks(rmt, x) <= 1 /\ (x = Interface => x \in rmt.up)
    BY <1>1 DEF PortsOK
  <2>2. t.blocked[x]["out"] => ~t.ready[x]["out"]
    BY <1>5, <1>7, <2>1 DEF Follows
  <2>3. Tasks(t, x) \in Nat /\ Tasks(rmt, x) \in Nat /\ Tasks(t, x) <= Tasks(rmt, x)
    BY <1>1, <1>7, <1>10, TasksFacts
  <2> QED BY <1>5, <1>7, <2>1, <2>2, <2>3 DEF Follows
<1>12. t.aborted # "channel"
  BY <1>1, <1>5, <1>7 DEF Follows, SameQueues
<1>13. Silent
  <2> SUFFICES ASSUME NEW x \in Ports, rmt.blocked[x]["out"]
               PROVE  Len(t.protect[x]) <= Len(rmt.protect[x])
    BY <1>2 DEF Silent
  <2>1. t.protect[x] = rmt.protect[x]
    BY <1>1, <1>5, <1>7 DEF PortsOK, Follows, SameQueues
  <2> QED BY <1>1, <2>1, TasksFacts
<1> QED BY <1>1, <1>2, <1>7, <1>8, <1>9, <1>11, <1>12, <1>13, Internal

LEMMA UnblockStep ==
    ASSUME IInv, NEW p \in Ports, UnblockOutput(p)
    PROVE  IInv' /\ Silent /\ Promised
<1> DEFINE a == [rmt EXCEPT !.blocked[p]["out"] = FALSE]
           t == SetReady(a, p, "out")
           B == [rmt.blocked EXCEPT ![p]["out"] = FALSE]
<1> USE DEF Directions
<1>1. /\ rmt \in Task /\ policy \in Policies /\ Sound(rmt) /\ Settled(rmt) /\ PortsOK(rmt)
      /\ rmt.aborted # "channel" /\ signals \in [Ports -> 0 .. MaxSignals]
  BY DEF IInv, TypeOK
<1>2. /\ policy' = policy /\ given' = given /\ left' = left /\ ~policy.onWire /\ rmt' = t
      /\ signals' = signals \/ (/\ signals[p] < MaxSignals
                                /\ signals' = [signals EXCEPT ![p] = @ + 1])
  BY DEF UnblockOutput, Running
<1>s. signals' \in [Ports -> 0 .. MaxSignals]
  <2>1. MaxSignals \in Nat
    BY RMTAssumption
  <2> QED BY <1>1, <1>2, <2>1
<1>3. /\ B \in [Ports -> [Directions -> BOOLEAN]] /\ B[p]["out"] = FALSE
      /\ \A x \in Ports, e \in Directions : x # p \/ e # "out" => B[x][e] = rmt.blocked[x][e]
  <2>1. rmt.blocked \in [Ports -> [Directions -> BOOLEAN]]
    BY <1>1 DEF Task
  <2> QED BY <2>1
<1>4. a = [rmt EXCEPT !.blocked = B]
  OBVIOUS
<1> HIDE DEF B, a
<1>5. /\ a \in Task /\ a.blocked = B /\ SameQueues(rmt, a) /\ a.ready = rmt.ready
      /\ a.wake = rmt.wake /\ a.sending = rmt.sending /\ a.up = rmt.up
  BY <1>1, <1>3, <1>4 DEF Task, SameQueues
<1>6. /\ Sound(a)
      /\ \A x \in Ports : Upstream(a, x) = Upstream(rmt, x) /\ Downstream(a, x) = Downstream(rmt, x)
  BY <1>1, <1>5, SameSound
<1> HIDE DEF t
<1>7. /\ t \in Task /\ Sound(t) /\ Keeps(a, t) /\ Calms(a, t) /\ Follows(a, t)
      /\ Moving(t, p, "out")
  BY <1>1, <1>5, <1>6, Readied DEF t
<1>8. Keeps(rmt, t)
  BY <1>6, <1>7 DEF Keeps
<1>9. Settled(t)
  <2> SUFFICES ASSUME NEW x \in Ports, NEW e \in Directions
               PROVE  Quiet(t, x, e) /\ Moving(t, x, e)
    BY DEF Settled
  <2>1. Quiet(rmt, x, e) /\ Moving(rmt, x, e)
    BY <1>1 DEF Settled
  <2>2. Quiet(a, x, e)
    BY <1>5, <2>1 DEF Quiet, SameQueues
  <2>3. Quiet(t, x, e)
    BY <1>7, <2>2 DEF Calms
  <2>4. CASE x # p \/ e # "out"
    <3>1. Moving(a, x, e)
      BY <1>3, <1>5, <2>1, <2>4 DEF Moving, SameQueues
    <3> QED BY <1>7, <2>3, <3>1 DEF Follows
  <2> QED BY <1>7, <2>3, <2>4
<1>10. PortsOK(t)
  <2> SUFFICES ASSUME NEW x \in Ports, t.blocked[x]["out"]
               PROVE  ~t.ready[x]["out"]
    BY <1>2 DEF PortsOK
  <2>1. a.blocked[x]["out"]
    BY <1>7 DEF Follows
  <2>2. rmt.blocked[x]["out"]
    BY <1>3, <1>5, <2>1
  <2>3. ~a.ready[x]["out"]
    BY <1>1, <1>5, <2>2 DEF PortsOK
  <2> QED BY <1>7, <2>1, <2>3 DEF Follows
<1>11. t.aborted # "channel"
  BY <1>1, <1>5, <1>7 DEF Follows, SameQueues
<1>12. Silent
  <2> SUFFICES ASSUME NEW x \in Ports, rmt.blocked[x]["out"], t.blocked[x]["out"]
               PROVE  Len(t.protect[x]) <= Len(rmt.protect[x])
    BY <1>2 DEF Silent
  <2>1. a.blocked[x]["out"]
    BY <1>7 DEF Follows
  <2>2. t.protect[x] = rmt.protect[x]
    BY <1>1, <1>5, <1>7, <2>1 DEF PortsOK, Follows, SameQueues
  <2> QED BY <1>1, <2>2, TasksFacts
<1> QED BY <1>1, <1>2, <1>s, <1>7, <1>8, <1>9, <1>10, <1>11, <1>12, Internal

LEMMA BlockStep ==
    ASSUME IInv, NEW p \in Ports, BlockOutput(p)
    PROVE  IInv' /\ Silent /\ Promised
<1> DEFINE a == [rmt EXCEPT !.blocked[p]["out"] = TRUE, !.ready[p]["out"] = FALSE]
           B == [rmt.blocked EXCEPT ![p]["out"] = TRUE]
           R == [rmt.ready EXCEPT ![p]["out"] = FALSE]
<1> USE DEF Directions
<1>1. /\ rmt \in Task /\ policy \in Policies /\ Sound(rmt) /\ Settled(rmt) /\ PortsOK(rmt)
      /\ rmt.aborted # "channel" /\ signals \in [Ports -> 0 .. MaxSignals]
  BY DEF IInv, TypeOK
<1>2. /\ policy' = policy /\ given' = given /\ left' = left /\ ~policy.onWire /\ rmt' = a
      /\ signals[p] < MaxSignals /\ signals' = [signals EXCEPT ![p] = @ + 1]
  BY DEF BlockOutput, Running
<1>s. signals' \in [Ports -> 0 .. MaxSignals]
  <2>1. MaxSignals \in Nat
    BY RMTAssumption
  <2> QED BY <1>1, <1>2, <2>1
<1>3. /\ B \in [Ports -> [Directions -> BOOLEAN]] /\ B[p]["out"] = TRUE
      /\ \A x \in Ports, e \in Directions : x # p \/ e # "out" => B[x][e] = rmt.blocked[x][e]
      /\ R \in [Ports -> [Directions -> BOOLEAN]] /\ R[p]["out"] = FALSE
      /\ \A x \in Ports, e \in Directions : x # p \/ e # "out" => R[x][e] = rmt.ready[x][e]
  <2>1. /\ rmt.blocked \in [Ports -> [Directions -> BOOLEAN]]
        /\ rmt.ready \in [Ports -> [Directions -> BOOLEAN]]
    BY <1>1 DEF Task
  <2> QED BY <2>1
<1>4. a = [rmt EXCEPT !.blocked = B, !.ready = R]
  OBVIOUS
<1> HIDE DEF B, R, a
<1>5. /\ a \in Task /\ a.blocked = B /\ a.ready = R /\ SameQueues(rmt, a)
      /\ a.wake = rmt.wake /\ a.sending = rmt.sending /\ a.up = rmt.up
  BY <1>1, <1>3, <1>4 DEF Task, SameQueues
<1>6. /\ Sound(a)
      /\ \A x \in Ports : Upstream(a, x) = Upstream(rmt, x) /\ Downstream(a, x) = Downstream(rmt, x)
  BY <1>1, <1>5, SameSound
<1>7. Keeps(rmt, a)
  BY <1>6 DEF Keeps
<1>8. Settled(a)
  <2> SUFFICES ASSUME NEW x \in Ports, NEW e \in Directions
               PROVE  Quiet(a, x, e) /\ Moving(a, x, e)
    BY DEF Settled
  <2>1. Quiet(rmt, x, e) /\ Moving(rmt, x, e)
    BY <1>1 DEF Settled
  <2>2. CASE x = p /\ e = "out"
    BY <1>3, <1>5, <2>2 DEF Quiet, Moving
  <2>3. CASE x # p \/ e # "out"
    BY <1>3, <1>5, <2>1, <2>3 DEF Quiet, Moving, SameQueues
  <2> QED BY <2>2, <2>3
<1>9. PortsOK(a)
  <2> SUFFICES ASSUME NEW x \in Ports, a.blocked[x]["out"]
               PROVE  ~a.ready[x]["out"]
    BY <1>2 DEF PortsOK
  <2>1. CASE x = p
    BY <1>3, <1>5, <2>1
  <2>2. CASE x # p
    BY <1>1, <1>3, <1>5, <2>2 DEF PortsOK
  <2> QED BY <2>1, <2>2
<1>10. a.aborted # "channel"
  BY <1>1, <1>5 DEF SameQueues
<1>11. Silent
  BY <1>1, <1>2, <1>5, TasksFacts DEF Silent, SameQueues
<1> QED BY <1>1, <1>2, <1>s, <1>5, <1>6, <1>7, <1>8, <1>9, <1>10, <1>11, Internal

LEMMA EndStep ==
    ASSUME IInv, NEW p \in Ports, PortTransmitEnd(p)
    PROVE  IInv' /\ Silent /\ Promised
<1> DEFINE a == [rmt EXCEPT !.sending[p] = FALSE, !.wake[p]["out"] = @ + 1]
           S == [rmt.sending EXCEPT ![p] = FALSE]
           W == [rmt.wake EXCEPT ![p]["out"] = @ + 1]
<1> USE DEF Directions
<1>1. /\ rmt \in Task /\ policy \in Policies /\ Sound(rmt) /\ Settled(rmt) /\ PortsOK(rmt)
      /\ rmt.aborted # "channel" /\ signals \in [Ports -> 0 .. MaxSignals]
  BY DEF IInv, TypeOK
<1>2. /\ policy' = policy /\ given' = given /\ left' = left /\ signals' = signals
      /\ rmt.sending[p] /\ rmt' = a
  BY DEF PortTransmitEnd, Running
<1>3. /\ S \in [Ports -> BOOLEAN] /\ S[p] = FALSE /\ \A x \in Ports : x # p => S[x] = rmt.sending[x]
      /\ W \in [Ports -> [Directions -> Nat]] /\ W[p]["out"] = rmt.wake[p]["out"] + 1
      /\ \A x \in Ports, e \in Directions : x # p \/ e # "out" => W[x][e] = rmt.wake[x][e]
  <2>1. rmt.sending \in [Ports -> BOOLEAN] /\ rmt.wake \in [Ports -> [Directions -> Nat]]
    BY <1>1 DEF Task
  <2>2. rmt.wake[p]["out"] + 1 \in Nat
    BY <2>1
  <2> QED BY <2>1, <2>2
<1>4. a = [rmt EXCEPT !.sending = S, !.wake = W]
  OBVIOUS
<1> HIDE DEF S, W, a
<1>5. /\ a \in Task /\ a.sending = S /\ a.wake = W /\ SameQueues(rmt, a)
      /\ a.ready = rmt.ready /\ a.blocked = rmt.blocked /\ a.up = rmt.up
  BY <1>1, <1>3, <1>4 DEF Task, SameQueues
<1>6. /\ Sound(a)
      /\ \A x \in Ports : Upstream(a, x) = Upstream(rmt, x) /\ Downstream(a, x) = Downstream(rmt, x)
  BY <1>1, <1>5, SameSound
<1>7. Keeps(rmt, a)
  BY <1>6 DEF Keeps
<1>8. Settled(a)
  <2> SUFFICES ASSUME NEW x \in Ports, NEW e \in Directions
               PROVE  Quiet(a, x, e) /\ Moving(a, x, e)
    BY DEF Settled
  <2>1. Quiet(rmt, x, e) /\ Moving(rmt, x, e)
    BY <1>1 DEF Settled
  <2>2. Quiet(a, x, e)
    BY <1>5, <2>1 DEF Quiet, SameQueues
  <2>3. CASE x = p /\ e = "out"
    <3>1. W[p]["out"] > 0
      BY <1>1, <1>3, TasksFacts
    <3> QED BY <1>5, <2>2, <2>3, <3>1 DEF Moving
  <2>4. CASE x # p \/ e # "out"
    <3>1. a.wake[x][e] = rmt.wake[x][e] /\ (e = "out" => a.sending[x] = rmt.sending[x])
      BY <1>3, <1>5, <2>4
    <3> QED BY <1>5, <2>1, <2>2, <3>1 DEF Moving, SameQueues
  <2> QED BY <2>3, <2>4
<1>9. PortsOK(a)
  <2> SUFFICES ASSUME NEW x \in Ports
               PROVE  /\ a.blocked[x]["out"] => ~a.ready[x]["out"]
                      /\ policy.onWire => Tasks(a, x) <= 1 /\ (x = Interface => x \in a.up)
    BY DEF PortsOK
  <2>1. /\ a.blocked[x]["out"] => ~a.ready[x]["out"]
        /\ policy.onWire => Tasks(rmt, x) <= 1 /\ (x = Interface => x \in a.up)
    BY <1>1, <1>5 DEF PortsOK
  <2>2. Tasks(a, x) = Tasks(rmt, x)
    <3>1. CASE x = p
      <4> DEFINE i == One(rmt.ready[p]["out"])
                 b == Len(rmt.protect[p])
                 w == rmt.wake[p]["out"]
      <4>1. i \in Nat /\ b \in Nat /\ w \in Nat
        BY <1>1, TasksFacts
      <4>2. One(rmt.sending[p]) = 1 /\ One(a.sending[p]) = 0
        BY <1>2, <1>3, <1>5 DEF One
      <4>3. Tasks(rmt, p) = i + b + 1 + w /\ Tasks(a, p) = i + b + 0 + (w + 1)
        BY <1>3, <1>5, <4>2 DEF Tasks, SameQueues
      <4> HIDE DEF i, b, w
      <4> QED BY <3>1, <4>1, <4>3
    <3>2. CASE x # p
      BY <1>3, <1>5, <3>2 DEF Tasks, SameQueues
    <3> QED BY <3>1, <3>2
  <2> QED BY <2>1, <2>2
<1>10. a.aborted # "channel"
  BY <1>1, <1>5 DEF SameQueues
<1>11. Silent
  BY <1>1, <1>2, <1>5, TasksFacts DEF Silent, SameQueues
<1> QED BY <1>1, <1>2, <1>5, <1>6, <1>7, <1>8, <1>9, <1>10, <1>11, Internal

LEMMA UpStep ==
    ASSUME IInv, NEW p \in Ports, PostNM1FlowAllocation(p)
    PROVE  IInv' /\ Silent /\ Promised
<1> DEFINE a == [rmt EXCEPT !.up = @ \cup {p}]
           t == SetReady(a, p, "out")
           u == SetReady(t, p, "in")
<1> USE DEF Directions
<1>1. /\ rmt \in Task /\ policy \in Policies /\ Sound(rmt) /\ Settled(rmt) /\ PortsOK(rmt)
      /\ rmt.aborted # "channel" /\ signals \in [Ports -> 0 .. MaxSignals]
  BY DEF IInv, TypeOK
<1>2. /\ policy' = policy /\ given' = given /\ left' = left /\ signals' = signals
      /\ ~policy.onWire /\ rmt' = u
  BY DEF PostNM1FlowAllocation, Running
<1>3. rmt.up \cup {p} \in SUBSET Ports
  BY <1>1 DEF Task
<1>4. a = [rmt EXCEPT !.up = rmt.up \cup {p}]
  OBVIOUS
<1> HIDE DEF a
<1>5. /\ a \in Task /\ SameQueues(rmt, a) /\ a.ready = rmt.ready /\ a.blocked = rmt.blocked
      /\ a.wake = rmt.wake /\ a.sending = rmt.sending /\ a.up = rmt.up \cup {p}
  BY <1>1, <1>3, <1>4 DEF Task, SameQueues
<1>6. /\ Sound(a)
      /\ \A x \in Ports : Upstream(a, x) = Upstream(rmt, x) /\ Downstream(a, x) = Downstream(rmt, x)
  BY <1>1, <1>5, SameSound
<1> HIDE DEF t
<1>7. /\ t \in Task /\ Sound(t) /\ Keeps(a, t) /\ Calms(a, t) /\ Follows(a, t)
      /\ Moving(t, p, "out")
  BY <1>1, <1>5, <1>6, Readied DEF t
<1> HIDE DEF u
<1>8. /\ u \in Task /\ Sound(u) /\ Keeps(t, u) /\ Calms(t, u) /\ Follows(t, u)
      /\ Moving(u, p, "in")
  BY <1>1, <1>7, Readied DEF u
<1>9. Follows(a, u) /\ Calms(a, u) /\ Keeps(a, u)
  BY <1>7, <1>8, FollowsTrans, CalmsTrans, KeepsTrans
<1>10. Keeps(rmt, u)
  BY <1>6, <1>9 DEF Keeps
<1>11. Settled(u)
  <2> SUFFICES ASSUME NEW x \in Ports, NEW e \in Directions
               PROVE  Quiet(u, x, e) /\ Moving(u, x, e)
    BY DEF Settled
  <2>1. Quiet(rmt, x, e) /\ Moving(rmt, x, e)
    BY <1>1 DEF Settled
  <2>2. Quiet(a, x, e)
    BY <1>5, <2>1 DEF Quiet, SameQueues
  <2>3. Quiet(u, x, e)
    BY <1>9, <2>2 DEF Calms
  <2>4. CASE x # p
    <3>1. Moving(a, x, e)
      BY <1>5, <2>1, <2>4 DEF Moving, SameQueues
    <3> QED BY <1>9, <2>3, <3>1 DEF Follows
  <2>5. CASE x = p
    <3>1. Moving(u, p, "out")
      BY <1>7, <1>8 DEF Follows
    <3> QED BY <1>8, <2>3, <2>5, <3>1
  <2> QED BY <2>4, <2>5
<1>12. PortsOK(u)
  <2> SUFFICES ASSUME NEW x \in Ports, u.blocked[x]["out"]
               PROVE  ~u.ready[x]["out"]
    BY <1>2 DEF PortsOK
  <2>1. a.blocked[x]["out"]
    BY <1>9 DEF Follows
  <2>2. ~a.ready[x]["out"]
    BY <1>1, <1>5, <2>1 DEF PortsOK
  <2> QED BY <1>9, <2>1, <2>2 DEF Follows
<1>13. u.aborted # "channel"
  BY <1>1, <1>5, <1>9 DEF Follows, SameQueues
<1>14. Silent
  <2> SUFFICES ASSUME NEW x \in Ports, rmt.blocked[x]["out"], u.blocked[x]["out"]
               PROVE  Len(u.protect[x]) <= Len(rmt.protect[x])
    BY <1>2 DEF Silent
  <2>1. u.protect[x] = rmt.protect[x]
    BY <1>1, <1>5, <1>9 DEF PortsOK, Follows, SameQueues
  <2> QED BY <1>1, <2>1, TasksFacts
<1> QED BY <1>1, <1>2, <1>8, <1>10, <1>11, <1>12, <1>13, <1>14, Internal

-----------------------------------------------------------------------------
\* A PDU leaves the task.
Sent(s, b, p) ==
    /\ b \in Task
    /\ b.queue = s.queue /\ b.waiting = s.waiting /\ b.tokens = s.tokens
    /\ b.relay = s.relay /\ b.stopped = s.stopped /\ b.aborted = s.aborted
    /\ b.blocked = s.blocked /\ b.up = s.up
    /\ b.protect[p] = Tail(s.protect[p]) /\ ~b.ready[p]["out"]
    /\ \A x \in Ports : x # p => b.protect[x] = s.protect[x]
    /\ \A x \in Ports, e \in Directions : x # p \/ e # "out" => b.ready[x][e] = s.ready[x][e]

LEMMA ContentTypes ==
    ASSUME NEW s \in Task, NEW p \in Ports
    PROVE  Upstream(s, p) \subseteq PDU /\ Downstream(s, p) \subseteq PDU
<1>1. s.relay[p] \in Seq(PDU) /\ s.protect[p] \in Seq(PDU)
  BY TaskTypes DEF Directions
<1>2. \A q \in Qids : s.queue[p]["in"][q] \in Seq(PDU) /\ s.queue[p]["out"][q] \in Seq(PDU)
  BY TaskTypes DEF Directions
<1> QED BY <1>1, <1>2, RangeFacts DEF Upstream, Downstream, Content

LEMMA SentSound ==
    ASSUME NEW s \in Task, NEW b, NEW p \in Ports,
           Sound(s), s.protect[p] # <<>>, Sent(s, b, p)
    PROVE  /\ Sound(b) /\ Keeps(s, b)
           /\ Head(s.protect[p]) \in Downstream(s, p)
           /\ Precede({Head(s.protect[p])}, Downstream(b, p))
<1> DEFINE u == s.protect[p]
<1>1. u \in Seq(PDU)
  BY TaskTypes DEF Directions
<1>2. /\ Sorted(Tail(u)) /\ Precede({Head(u)}, Range(Tail(u)))
      /\ Range(u) = {Head(u)} \cup Range(Tail(u)) /\ Head(u) \in Range(u)
  <2>1. Sorted(u) /\ u # <<>>
    BY DEF Sound, OutOK, Line
  <2> HIDE DEF u
  <2> QED BY <1>1, <2>1, SortedTail, RangeFacts
<1>3. Line(u, s.queue[p]["out"])
  BY DEF Sound, OutOK
<1>4. Head(u) \in Downstream(s, p)
  BY <1>2 DEF Downstream, Content
<1>5. Precede({Head(u)}, Downstream(b, p))
  <2>1. b.queue = s.queue /\ b.protect[p] = Tail(u)
    BY DEF Sent
  <2> HIDE DEF u
  <2>2. \A q \in Qids : Precede({Head(u)}, Range(s.queue[p]["out"][q]))
    BY <1>2, <1>3 DEF Line, Precede
  <2> QED BY <1>2, <2>1, <2>2 DEF Downstream, Content, Precede
<1>6. ASSUME NEW x \in Ports
      PROVE  /\ Upstream(b, x) \subseteq Upstream(s, x)
             /\ Downstream(b, x) \subseteq Downstream(s, x)
             /\ Line(b.protect[x], b.queue[x]["out"])
  <2>1. Upstream(b, x) = Upstream(s, x)
    BY DEF Upstream, Sent
  <2>2. CASE x # p
    BY <2>1, <2>2 DEF Downstream, Sent, Sound, OutOK
  <2>3. CASE x = p
    <3>1. b.queue = s.queue /\ b.protect[p] = Tail(u)
      BY DEF Sent
    <3> HIDE DEF u
    <3>2. Line(Tail(u), s.queue[p]["out"])
      BY <1>2, <1>3 DEF Line, Precede
    <3>3. Downstream(s, p) = Content(u, s.queue[p]["out"])
      BY DEF Downstream, u
    <3> QED BY <1>2, <2>1, <2>3, <3>1, <3>2, <3>3 DEF Downstream, Content
  <2> QED BY <2>2, <2>3
<1>7. InOK(b) /\ OutOK(b)
  BY <1>6, SameBooks DEF Sound, InOK, OutOK, Sent
<1>8. Keeps(s, b)
  BY <1>6 DEF Keeps
<1>9. Placed(b)
  BY <1>8, PlacedKeeps DEF Sound
<1>10. StoppedWait(b) /\ Backlog(b)
  BY DEF Sound, StoppedWait, Backlog, Sent
<1> QED BY <1>4, <1>5, <1>7, <1>8, <1>9, <1>10 DEF Sound

\* The last PDU that has left is now this one.
LEMMA SentInOrder ==
    ASSUME NEW s \in Task, NEW b \in Task, NEW g \in [Flows -> Nat],
           NEW l \in [Flows -> [Exits -> Nat]],
           NEW p \in Ports, NEW u, InOrder(s, g, l), Keeps(s, b),
           u \in Downstream(s, p), Precede({u}, Downstream(b, p))
    PROVE  LET m == [l EXCEPT ![u.flow][p] = u.n]
           IN  /\ InOrder(b, g, m)
               /\ m \in [Flows -> [Exits -> Nat]]
               /\ u.n \in l[u.flow][p] + 1 .. g[u.flow]
<1> DEFINE m == [l EXCEPT ![u.flow][p] = u.n]
<1>1. u \in PDU
  BY ContentTypes
<1>2. u.flow \in Flows /\ u.n \in Nat /\ p \in Exits
  BY <1>1 DEF PDU, Exits
<1>3. /\ m \in [Flows -> [Exits -> Nat]] /\ m[u.flow][p] = u.n
      /\ \A f \in Flows, x \in Exits : f # u.flow \/ x # p => m[f][x] = l[f][x]
  BY <1>2
<1> HIDE DEF m
<1>4. l[u.flow][p] < u.n /\ u.n <= g[u.flow]
  BY DEF InOrder
<1>5. \A f \in Flows, x \in Exits : m[f][x] <= g[f]
  BY <1>3, <1>4 DEF InOrder
<1>6. ASSUME NEW y \in Ports, NEW v \in Upstream(b, y)
      PROVE  v.n <= g[v.flow] /\ \A x \in Exits : m[v.flow][x] < v.n
  <2>1. v \in Upstream(s, y) /\ v \in PDU
    BY ContentTypes DEF Keeps
  <2>2. v.flow \in Flows
    BY <2>1 DEF PDU
  <2>3. v.n <= g[v.flow] /\ \A x \in Exits : l[v.flow][x] < v.n
    BY <2>1 DEF InOrder
  <2>4. v.flow = u.flow => u.n < v.n
    BY <2>1 DEF InOrder, Precede
  <2> QED BY <1>3, <2>2, <2>3, <2>4
<1>7. ASSUME NEW y \in Ports, NEW v \in Downstream(b, y)
      PROVE  m[v.flow][y] < v.n /\ v.n <= g[v.flow]
  <2>1. v \in Downstream(s, y) /\ v \in PDU
    BY ContentTypes DEF Keeps
  <2>2. v.flow \in Flows /\ y \in Exits
    BY <2>1 DEF PDU, Exits
  <2>3. l[v.flow][y] < v.n /\ v.n <= g[v.flow]
    BY <2>1 DEF InOrder
  <2>4. v.flow = u.flow /\ y = p => u.n < v.n
    BY DEF Precede
  <2> QED BY <1>3, <2>2, <2>3, <2>4
<1>8. \A y, x \in Ports : Precede(Downstream(b, x), Upstream(b, y))
  BY DEF InOrder, Keeps, Precede
<1>9. InOrder(b, g, m)
  BY <1>5, <1>6, <1>7, <1>8 DEF InOrder
<1>10. u.n \in l[u.flow][p] + 1 .. g[u.flow]
  <2>1. l[u.flow][p] \in Nat /\ g[u.flow] \in Nat
    BY <1>2
  <2> QED BY <1>2, <1>4, <2>1
<1> QED BY <1>3, <1>9, <1>10 DEF m

\* What leaves, leaves as the task promised.
LEMMA LeavesWell ==
    ASSUME NEW f \in Flows, NEW p \in Leaves[f], NEW n, n \in left[f][p] + 1 .. given[f],
           left' = [left EXCEPT ![f][p] = n], given' = given
    PROVE  Promised
BY DEF Promised, Promise!Next, Promise!Leave

LEMMA PassesWell ==
    ASSUME NEW f \in Flows, NEW p \in Leaves[f], given' = [given EXCEPT ![f] = @ + 1],
           left' = [left EXCEPT ![f][p] = given'[f]]
    PROVE  Promised
BY DEF Promised, Promise!Next, Promise!Pass

LEMMA TransmitStep ==
    ASSUME IInv, NEW p \in Ports, Transmit(p)
    PROVE  IInv' /\ Silent /\ Promised
<1> DEFINE s == rmt
           u == Head(rmt.protect[p])
           b == [rmt EXCEPT !.protect[p] = Tail(@), !.ready[p]["out"] = FALSE]
           w == [b EXCEPT !.wake[p]["out"] = @ + 1]
           v == [b EXCEPT !.sending[p] = TRUE]
           m == [left EXCEPT ![u.flow][p] = u.n]
           P == [rmt.protect EXCEPT ![p] = Tail(@)]
           R == [rmt.ready EXCEPT ![p]["out"] = FALSE]
           W == [rmt.wake EXCEPT ![p]["out"] = @ + 1]
           S == [rmt.sending EXCEPT ![p] = TRUE]
<1> USE DEF Directions
<1>1. /\ rmt \in Task /\ policy \in Policies /\ Sound(rmt) /\ Settled(rmt) /\ PortsOK(rmt)
      /\ rmt.aborted # "channel" /\ signals \in [Ports -> 0 .. MaxSignals]
      /\ given \in [Flows -> Nat] /\ left \in [Flows -> [Exits -> Nat]]
      /\ InOrder(rmt, given, left)
  BY DEF IInv, TypeOK
<1>2. /\ policy' = policy /\ given' = given /\ signals' = signals
      /\ rmt.protect[p] # <<>> /\ left' = m
      /\ rmt' = IF ~policy.onWire THEN ProcessQueues(w, p, "out")
                ELSE IF rmt.sending[p] THEN [b EXCEPT !.aborted = "channel"]
                ELSE v
  BY DEF Transmit, Running
<1>3. rmt.protect[p] \in Seq(PDU)
  BY <1>1, TaskTypes
<1>4. Tail(rmt.protect[p]) \in Seq(PDU) /\ Len(Tail(rmt.protect[p])) = Len(rmt.protect[p]) - 1
  BY <1>2, <1>3, HeadTailProperties
<1>5. /\ P \in [Ports -> Seq(PDU)] /\ P[p] = Tail(rmt.protect[p])
      /\ \A x \in Ports : x # p => P[x] = rmt.protect[x]
      /\ R \in [Ports -> [Directions -> BOOLEAN]] /\ R[p]["out"] = FALSE
      /\ \A x \in Ports, e \in Directions : x # p \/ e # "out" => R[x][e] = rmt.ready[x][e]
      /\ W \in [Ports -> [Directions -> Nat]] /\ W[p]["out"] = rmt.wake[p]["out"] + 1
      /\ \A x \in Ports, e \in Directions : x # p \/ e # "out" => W[x][e] = rmt.wake[x][e]
      /\ S \in [Ports -> BOOLEAN] /\ S[p] = TRUE
      /\ \A x \in Ports : x # p => S[x] = rmt.sending[x]
  <2>1. /\ rmt.protect \in [Ports -> Seq(PDU)] /\ rmt.sending \in [Ports -> BOOLEAN]
        /\ rmt.ready \in [Ports -> [Directions -> BOOLEAN]]
        /\ rmt.wake \in [Ports -> [Directions -> Nat]]
    BY <1>1 DEF Task
  <2>2. rmt.wake[p]["out"] + 1 \in Nat
    BY <2>1
  <2> QED BY <1>4, <2>1, <2>2
<1>6. b = [rmt EXCEPT !.protect = P, !.ready = R]
  OBVIOUS
<1>7. b.wake = rmt.wake /\ b.sending = rmt.sending
  BY <1>1 DEF Task
<1>8. w = [b EXCEPT !.wake = W] /\ v = [b EXCEPT !.sending = S]
  BY <1>7
<1> HIDE DEF P, R, W, S, w, v, b, m, u
<1>9. /\ Sent(rmt, b, p) /\ b.protect = P /\ b.ready = R
  BY <1>1, <1>5, <1>6 DEF Task, Sent
<1>10. b \in Task
  BY <1>9 DEF Sent
<1>11. /\ w \in Task /\ w.wake = W /\ SameQueues(b, w) /\ w.ready = b.ready
       /\ w.blocked = b.blocked /\ w.sending = b.sending /\ w.up = b.up
       /\ v \in Task /\ v.sending = S /\ SameQueues(b, v) /\ v.ready = b.ready
       /\ v.blocked = b.blocked /\ v.wake = b.wake /\ v.up = b.up
  BY <1>5, <1>8, <1>10 DEF Task, SameQueues
<1>12. /\ Sound(b) /\ Keeps(rmt, b) /\ u \in Downstream(rmt, p)
       /\ Precede({u}, Downstream(b, p))
  BY <1>1, <1>2, <1>9, SentSound DEF u
<1>13. /\ InOrder(b, given, m) /\ m \in [Flows -> [Exits -> Nat]]
       /\ u.n \in left[u.flow][p] + 1 .. given[u.flow]
  BY <1>1, <1>10, <1>12, SentInOrder DEF m
<1>14. Promised
  <2>1. u.flow \in policy.flows /\ p \in Range(Route[u.flow])
    BY <1>1, <1>12 DEF Sound, Placed
  <2>2. u.flow \in Flows
    BY <1>1, <2>1, RMTAssumption
  <2>3. Route[u.flow] # <<>>
    <3>1. DOMAIN Route[u.flow] # {} /\ DOMAIN Route[u.flow] = 1..Len(Route[u.flow])
      BY <2>1, <2>2, RouteFacts DEF Range
    <3>2. Route[u.flow] \in Seq(Ports)
      BY <2>2, RouteFacts
    <3> QED BY <3>1, <3>2, SeqFacts
  <2>4. p \in Leaves[u.flow]
    BY <2>1, <2>2, <2>3 DEF Leaves, MatchesThisIPC
  <2> QED BY <1>2, <1>13, <2>2, <2>4, LeavesWell DEF m
<1>15. /\ Sound(w) /\ Sound(v)
       /\ \A x \in Ports : /\ Upstream(w, x) = Upstream(b, x)
                           /\ Downstream(w, x) = Downstream(b, x)
                           /\ Upstream(v, x) = Upstream(b, x)
                           /\ Downstream(v, x) = Downstream(b, x)
  BY <1>11, <1>12, SameSound
<1>16. ASSUME NEW x \in Ports, NEW e \in Directions
       PROVE  /\ Quiet(w, x, e) /\ Quiet(v, x, e)
              /\ Moving(w, x, e) /\ Moving(v, x, e)
  <2>1. Quiet(rmt, x, e) /\ Moving(rmt, x, e)
    BY <1>1 DEF Settled
  <2>2. CASE x = p /\ e = "out"
    <3>1. W[p]["out"] > 0
      BY <1>1, <1>5, TasksFacts, SMTT(60)
    <3> QED BY <1>5, <1>9, <1>11, <2>2, <3>1 DEF Quiet, Moving
  <2>3. CASE x # p \/ e # "out"
    <3>1. /\ w.ready[x][e] = rmt.ready[x][e] /\ w.waiting[x][e] = rmt.waiting[x][e]
          /\ w.blocked[x][e] = rmt.blocked[x][e] /\ w.wake[x][e] = rmt.wake[x][e]
          /\ w.up = rmt.up /\ (e = "out" => w.protect[x] = rmt.protect[x])
          /\ w.sending = rmt.sending
      BY <1>5, <1>7, <1>9, <1>11, <2>3 DEF Sent, SameQueues
    <3>2. /\ v.ready[x][e] = rmt.ready[x][e] /\ v.waiting[x][e] = rmt.waiting[x][e]
          /\ v.blocked[x][e] = rmt.blocked[x][e] /\ v.wake[x][e] = rmt.wake[x][e]
          /\ v.up = rmt.up /\ (e = "out" => v.protect[x] = rmt.protect[x])
          /\ (e = "out" => v.sending[x] = rmt.sending[x])
      BY <1>5, <1>7, <1>9, <1>11, <2>3 DEF Sent, SameQueues
    <3> QED BY <2>1, <3>1, <3>2 DEF Quiet, Moving
  <2> QED BY <2>2, <2>3
<1>17. \A x \in Ports :
         /\ w.protect[x] = P[x] /\ v.protect[x] = P[x] /\ w.ready[x]["out"] = R[x]["out"]
         /\ w.blocked[x]["out"] = rmt.blocked[x]["out"]
         /\ v.blocked[x]["out"] = rmt.blocked[x]["out"]
         /\ Len(P[x]) <= Len(rmt.protect[x])
         /\ rmt.blocked[x]["out"] => ~w.ready[x]["out"] /\ ~v.ready[x]["out"]
  <2> SUFFICES ASSUME NEW x \in Ports
               PROVE  /\ w.protect[x] = P[x] /\ v.protect[x] = P[x]
                      /\ w.ready[x]["out"] = R[x]["out"]
                      /\ w.blocked[x]["out"] = rmt.blocked[x]["out"]
                      /\ v.blocked[x]["out"] = rmt.blocked[x]["out"]
                      /\ Len(P[x]) <= Len(rmt.protect[x])
                      /\ rmt.blocked[x]["out"] => ~w.ready[x]["out"] /\ ~v.ready[x]["out"]
    OBVIOUS
  <2>1. Len(P[x]) <= Len(rmt.protect[x])
    <3>1. Len(rmt.protect[x]) \in Nat
      BY <1>1, TasksFacts
    <3>2. CASE x = p
      BY <1>4, <1>5, <3>1, <3>2
    <3>3. CASE x # p
      BY <1>5, <3>1, <3>3
    <3> QED BY <3>2, <3>3
  <2>2. rmt.blocked[x]["out"] => ~rmt.ready[x]["out"]
    BY <1>1 DEF PortsOK
  <2>3. rmt.blocked[x]["out"] => ~R[x]["out"]
    BY <1>5, <2>2
  <2> QED BY <1>9, <1>11, <2>1, <2>3 DEF Sent, SameQueues
<1>18. CASE ~policy.onWire
  <2> DEFINE t == ProcessQueues(w, p, "out")
  <2> HIDE DEF t
  <2>1. t \in Task /\ Sound(t) /\ Proceeds(w, t) /\ Keeps(w, t) /\ Calms(w, t)
    BY <1>1, <1>11, <1>15, Processed DEF t
  <2>2. Follows(w, t)
    BY <1>11, <2>1, ProceedsFollows
  <2>3. Settled(t)
    BY <1>16, <2>1, <2>2 DEF Settled, Calms, Follows
  <2>4. PortsOK(t)
    BY <1>17, <1>18, <2>2 DEF PortsOK, Follows
  <2>5. InOrder(t, given, m)
    <3>1. Keeps(b, t)
      BY <1>15, <2>1 DEF Keeps
    <3> QED BY <1>13, <3>1, InOrderKeeps
  <2>6. t.aborted # "channel"
    BY <1>1, <1>9, <1>11, <2>2 DEF Follows, SameQueues, Sent
  <2>7. rmt' = t
    BY <1>2, <1>18 DEF t
  <2>8. Silent
    BY <1>17, <2>2, <2>7 DEF Silent, Follows
  <2>9. IInv'
    BY <1>1, <1>2, <1>13, <2>1, <2>3, <2>4, <2>5, <2>6, <2>7, Concluded
  <2> QED BY <1>14, <2>8, <2>9
<1>19. CASE policy.onWire
  <2> DEFINE i == One(rmt.ready[p]["out"])
             n == Len(rmt.protect[p])
             c == One(rmt.sending[p])
             k == rmt.wake[p]["out"]
  <2>1. /\ i \in Nat /\ n \in Nat /\ c \in Nat /\ k \in Nat /\ n # 0
        /\ Tasks(rmt, p) <= 1 /\ Tasks(rmt, p) = i + n + c + k
    <3>1. n # 0
      BY <1>2, <1>3, SeqFacts
    <3> QED BY <1>1, <1>19, <3>1, TasksFacts DEF PortsOK, Tasks
  <2>2. c = 0
    <3> HIDE DEF i, n, c, k
    <3> QED BY <2>1
  <2>3. ~rmt.sending[p]
    BY <2>2 DEF One
  <2>4. rmt' = v
    BY <1>2, <1>19, <2>3
  <2>5. ASSUME NEW x \in Ports PROVE Tasks(v, x) <= 1
    <3>1. CASE x = p
      <4>1. One(v.ready[p]["out"]) = 0 /\ One(v.sending[p]) = 1
        BY <1>5, <1>9, <1>11 DEF One
      <4>2. Len(v.protect[p]) = n - 1 /\ v.wake[p]["out"] = k
        BY <1>4, <1>5, <1>7, <1>11, <1>17, ZenonT(60)
      <4>3. Tasks(v, p) = 0 + (n - 1) + 1 + k
        BY <4>1, <4>2 DEF Tasks
      <4> HIDE DEF i, n, c, k
      <4> QED BY <2>1, <3>1, <4>3
    <3>2. CASE x # p
      <4>1. Tasks(v, x) = Tasks(rmt, x)
        BY <1>5, <1>7, <1>9, <1>11, <1>17, <3>2 DEF Tasks
      <4> QED BY <1>1, <1>19, <4>1 DEF PortsOK
    <3> QED BY <3>1, <3>2
  <2>6. PortsOK(v)
    BY <1>1, <1>9, <1>11, <1>17, <2>5 DEF PortsOK, Sent
  <2>7. Settled(v)
    BY <1>16 DEF Settled
  <2>8. InOrder(v, given, m)
    <3>1. Keeps(b, v)
      BY <1>15 DEF Keeps
    <3> QED BY <1>13, <3>1, InOrderKeeps
  <2>9. v.aborted # "channel"
    BY <1>1, <1>9, <1>11 DEF SameQueues, Sent
  <2>10. Silent
    BY <1>17, <2>4 DEF Silent
  <2>11. IInv'
    BY <1>1, <1>2, <1>11, <1>13, <1>15, <2>4, <2>6, <2>7, <2>8, <2>9, Concluded
  <2> QED BY <1>14, <2>10, <2>11
<1> QED BY <1>18, <1>19

-----------------------------------------------------------------------------
\* An event that calls the policies leaves the ports in order.
LEMMA Absorbed ==
    ASSUME NEW s \in Task, NEW t \in Task, Proceeds(s, t), Calms(s, t),
           Settled(s), PortsOK(s), s.aborted # "channel"
    PROVE  /\ Settled(t) /\ PortsOK(t) /\ t.aborted # "channel"
           /\ \A x \in Ports : s.blocked[x]["out"] => t.protect[x] = s.protect[x]
<1>1. Follows(s, t) /\ \A x \in Ports : Tasks(t, x) = Tasks(s, x)
  BY ProceedsFollows
<1>2. Settled(t)
  BY <1>1 DEF Settled, Calms, Follows
<1>3. PortsOK(t)
  BY <1>1 DEF PortsOK, Follows
<1> QED BY <1>1, <1>2, <1>3 DEF PortsOK, Follows

LEMMA SilentAfter ==
    ASSUME rmt \in Task, \A x \in Ports : rmt.blocked[x]["out"] => rmt'.protect[x] = rmt.protect[x]
    PROVE  Silent
BY TasksFacts DEF Silent

\* A new PDU is newer than all that the task has.
LEMMA NewerThanAll ==
    ASSUME NEW s \in Task, NEW p \in Ports, NEW f \in Flows, given \in [Flows -> Nat],
           InOrder(s, given, left)
    PROVE  /\ GivenPDU(f) \in PDU /\ GivenPDU(f).flow = f
           /\ Precede(Upstream(s, p), {GivenPDU(f)})
           /\ Precede(Downstream(s, p), {GivenPDU(f)})
<1> DEFINE n == given[f] + 1
<1>1. n \in Nat \ {0} /\ given[f] \in Nat /\ given[f] < n
  OBVIOUS
<1>2. GivenPDU(f) = [flow |-> f, n |-> n]
  BY DEF GivenPDU
<1> HIDE DEF n
<1>3. GivenPDU(f) \in PDU /\ GivenPDU(f).flow = f /\ GivenPDU(f).n = n
  BY <1>1, <1>2 DEF PDU
<1>4. ASSUME NEW v \in Upstream(s, p) \cup Downstream(s, p), v.flow = f
      PROVE  v.n < n
  <2>1. v.n <= given[f]
    BY <1>4 DEF InOrder
  <2>2. v.n \in Nat
    BY ContentTypes DEF PDU
  <2> QED BY <1>1, <2>1, <2>2
<1> QED BY <1>3, <1>4 DEF Precede

\* The task has taken a PDU, and put it where newer PDUs of the flow are not before it.
LEMMA TakenInOrder ==
    ASSUME NEW s \in Task, NEW t \in Task, NEW f \in Flows,
           given \in [Flows -> Nat], left \in [Flows -> [Exits -> Nat]],
           InOrder(s, given, left), given' = [given EXCEPT ![f] = @ + 1],
           \A x \in Ports : /\ Upstream(t, x) \subseteq Upstream(s, x) \cup {GivenPDU(f)}
                            /\ Downstream(t, x) \subseteq Downstream(s, x) \cup {GivenPDU(f)},
           \A x, y \in Ports : Precede(Downstream(t, x), Upstream(t, y))
    PROVE  InOrder(t, given', left) /\ given' \in [Flows -> Nat]
<1> DEFINE u == GivenPDU(f)
           h == [given EXCEPT ![f] = @ + 1]
<1>1. u.flow = f /\ u.n = given[f] + 1
  BY DEF GivenPDU
<1>2. /\ h \in [Flows -> Nat] /\ h[f] = given[f] + 1
      /\ \A g \in Flows : given[g] <= h[g] /\ given[g] \in Nat
      /\ given' = h
  OBVIOUS
<1> HIDE DEF u, h
<1>3. \A g \in Flows, x \in Exits : left[g][x] <= h[g] /\ left[g][x] \in Nat
  <2> SUFFICES ASSUME NEW g \in Flows, NEW x \in Exits
               PROVE  left[g][x] <= h[g] /\ left[g][x] \in Nat
    OBVIOUS
  <2>1. left[g][x] \in Nat /\ left[g][x] <= given[g]
    BY DEF InOrder
  <2>2. given[g] \in Nat /\ h[g] \in Nat /\ given[g] <= h[g]
    BY <1>2
  <2> QED BY <2>1, <2>2
<1>4. ASSUME NEW x \in Exits PROVE left[u.flow][x] < u.n
  <2>1. left[f][x] \in Nat /\ left[f][x] <= given[f] /\ given[f] \in Nat
    BY DEF InOrder
  <2> QED BY <1>1, <2>1
<1>5. ASSUME NEW y \in Ports, NEW v \in Upstream(t, y)
      PROVE  v.n <= h[v.flow] /\ \A x \in Exits : left[v.flow][x] < v.n
  <2>1. CASE v = u
    BY <1>1, <1>2, <1>4, <2>1
  <2>2. CASE v \in Upstream(s, y)
    <3>1. v.flow \in Flows /\ v.n \in Nat
      BY <2>2, ContentTypes DEF PDU
    <3>2. v.n <= given[v.flow] /\ \A x \in Exits : left[v.flow][x] < v.n
      BY <2>2 DEF InOrder
    <3>3. given[v.flow] \in Nat /\ h[v.flow] \in Nat /\ given[v.flow] <= h[v.flow]
      BY <1>2, <3>1
    <3> QED BY <3>1, <3>2, <3>3
  <2> QED BY <2>1, <2>2 DEF u
<1>6. ASSUME NEW y \in Ports, NEW v \in Downstream(t, y)
      PROVE  left[v.flow][y] < v.n /\ v.n <= h[v.flow]
  <2>0. y \in Exits
    BY DEF Exits
  <2>1. CASE v = u
    BY <1>1, <1>2, <1>4, <2>0, <2>1
  <2>2. CASE v \in Downstream(s, y)
    <3>1. v.flow \in Flows /\ v.n \in Nat
      BY <2>2, ContentTypes DEF PDU
    <3>2. v.n <= given[v.flow] /\ left[v.flow][y] < v.n
      BY <2>2 DEF InOrder
    <3>3. given[v.flow] \in Nat /\ h[v.flow] \in Nat /\ given[v.flow] <= h[v.flow]
      BY <1>2, <3>1
    <3> QED BY <3>1, <3>2, <3>3
  <2> QED BY <2>1, <2>2 DEF u
<1> QED BY <1>2, <1>3, <1>5, <1>6 DEF InOrder

LEMMA TakesWell ==
    ASSUME NEW f \in Flows, given' = [given EXCEPT ![f] = @ + 1], left' = left
    PROVE  Promised
BY DEF Promised, Promise!Next, Promise!Take

LEMMA ArriveStep ==
    ASSUME IInv, NEW f \in Flows, Arrive(f)
    PROVE  IInv' /\ Silent /\ Promised
<1> DEFINE p == Source[f]
           u == GivenPDU(f)
<1>1. /\ rmt \in Task /\ policy \in Policies /\ Sound(rmt) /\ Settled(rmt) /\ PortsOK(rmt)
      /\ rmt.aborted # "channel" /\ signals \in [Ports -> 0 .. MaxSignals]
      /\ given \in [Flows -> Nat] /\ left \in [Flows -> [Exits -> Nat]]
      /\ InOrder(rmt, given, left)
  BY DEF IInv, TypeOK
<1>2. /\ policy' = policy /\ given' = [given EXCEPT ![f] = @ + 1] /\ left' = left
      /\ signals' = signals /\ f \in policy.flows
      /\ Source[f] # "efcp" /\ (policy.onWire => Source[f] = Interface)
      /\ \/ \E chance \in Chance : rmt' = EnqueuePDU(rmt, p, "in", u, chance)
         \/ rmt' = rmt
  BY DEF Arrive, IsGiven, Running
<1>3. p \in Ports
  BY <1>2, RouteFacts DEF Exits
<1> HIDE DEF p, u
<1>4. /\ u \in PDU /\ u.flow = f
      /\ \A x \in Ports : Precede(Upstream(rmt, x), {u}) /\ Precede(Downstream(rmt, x), {u})
  <2>1. /\ GivenPDU(f) \in PDU /\ GivenPDU(f).flow = f
        /\ \A x \in Ports : /\ Precede(Upstream(rmt, x), {GivenPDU(f)})
                            /\ Precede(Downstream(rmt, x), {GivenPDU(f)})
    <3>1. Interface \in Ports
      BY RMTAssumption
    <3> QED BY <1>1, <3>1, NewerThanAll
  <2> QED BY <2>1 DEF u
<1>5. Promised
  BY <1>2, TakesWell
<1>6. CASE rmt' = rmt
  <2>1. InOrder(rmt, given', left) /\ given' \in [Flows -> Nat]
    <3>1. \A x, y \in Ports : Precede(Downstream(rmt, x), Upstream(rmt, y))
      BY <1>1 DEF InOrder
    <3> QED BY <1>1, <1>2, <3>1, TakenInOrder
  <2>2. IInv'
    BY <1>1, <1>2, <1>6, <2>1, Concluded
  <2>3. Silent
    BY <1>1, <1>6, SilentAfter
  <2> QED BY <1>5, <2>2, <2>3
<1>7. ASSUME NEW chance, rmt' = EnqueuePDU(rmt, p, "in", u, chance)
      PROVE  IInv' /\ Silent
  <2> DEFINE t == EnqueuePDU(rmt, p, "in", u, chance)
  <2> HIDE DEF t
  <2>1. MayJoin(rmt, p, "in", u)
    BY <1>2, <1>3, <1>4 DEF MayJoin, p
  <2>2. "in" \in Directions
    BY DEF Directions
  <2>3. /\ t \in Task /\ Sound(t) /\ Proceeds(rmt, t) /\ Gains(rmt, t, p, "in", u)
        /\ Calms(rmt, t)
    BY <1>1, <1>3, <2>1, <2>2, Enqueued DEF t
  <2>4. /\ Settled(t) /\ PortsOK(t) /\ t.aborted # "channel"
        /\ \A x \in Ports : rmt.blocked[x]["out"] => t.protect[x] = rmt.protect[x]
    BY <1>1, <2>3, Absorbed
  <2>5. \A x \in Ports : /\ Upstream(t, x) \subseteq Upstream(rmt, x) \cup {u}
                         /\ Downstream(t, x) \subseteq Downstream(rmt, x)
    BY <2>3 DEF Gains
  <2>6. \A x, y \in Ports : Precede(Downstream(t, x), Upstream(t, y))
    <3>1. \A x, y \in Ports : Precede(Downstream(rmt, x), Upstream(rmt, y))
      BY <1>1 DEF InOrder
    <3> QED BY <1>4, <2>5, <3>1 DEF Precede
  <2>7. InOrder(t, given', left) /\ given' \in [Flows -> Nat]
    BY <1>1, <1>2, <2>3, <2>5, <2>6, TakenInOrder DEF u
  <2>8. rmt' = t
    BY <1>7 DEF t
  <2>9. Silent
    BY <1>1, <2>4, <2>8, SilentAfter
  <2> QED BY <1>1, <1>2, <2>3, <2>4, <2>7, <2>8, <2>9, Concluded
<1> QED BY <1>2, <1>5, <1>6, <1>7

\* A PDU of an EFCP instance that goes to another IPC process.
LEMMA ForwardStep ==
    ASSUME IInv, NEW f \in Flows, Write(f), ~MatchesThisIPC(f)
    PROVE  IInv' /\ Silent /\ Promised
<1> DEFINE u == GivenPDU(f)
<1>1. /\ rmt \in Task /\ policy \in Policies /\ Sound(rmt) /\ Settled(rmt) /\ PortsOK(rmt)
      /\ rmt.aborted # "channel" /\ signals \in [Ports -> 0 .. MaxSignals]
      /\ given \in [Flows -> Nat] /\ left \in [Flows -> [Exits -> Nat]]
      /\ InOrder(rmt, given, left)
  BY DEF IInv, TypeOK
<1>2. /\ policy' = policy /\ given' = [given EXCEPT ![f] = @ + 1] /\ left' = left
      /\ signals' = signals /\ f \in policy.flows /\ Source[f] = "efcp"
  BY DEF Write, IsGiven, Running
<1>3. PICK chance : rmt' = RelayPDUToPort(rmt, u, chance)
  BY DEF Write
<1> DEFINE t == RelayPDUToPort(rmt, u, chance)
<1> HIDE DEF u, t
<1>4. /\ u \in PDU /\ u.flow = f
      /\ \A x \in Ports : Precede(Upstream(rmt, x), {u}) /\ Precede(Downstream(rmt, x), {u})
  <2>1. /\ GivenPDU(f) \in PDU /\ GivenPDU(f).flow = f
        /\ \A x \in Ports : /\ Precede(Upstream(rmt, x), {GivenPDU(f)})
                            /\ Precede(Downstream(rmt, x), {GivenPDU(f)})
    <3>1. Interface \in Ports
      BY RMTAssumption
    <3> QED BY <1>1, <3>1, NewerThanAll
  <2> QED BY <2>1 DEF u
<1>5. Promised
  BY <1>2, TakesWell
<1>6. FwTableLookup(f) = Route[f]
  BY <1>1, <1>2, RouteLookup DEF MatchesThisIPC
<1>7. t \in Task /\ Sound(t) /\ Proceeds(rmt, t) /\ Calms(rmt, t) /\ Relays(rmt, t, u)
  BY <1>1, <1>2, <1>4, <1>6, RelayedSound DEF t
<1>8. /\ Settled(t) /\ PortsOK(t) /\ t.aborted # "channel"
      /\ \A x \in Ports : rmt.blocked[x]["out"] => t.protect[x] = rmt.protect[x]
  BY <1>1, <1>7, Absorbed
<1>9. \A x \in Ports : /\ Upstream(t, x) \subseteq Upstream(rmt, x)
                       /\ Downstream(t, x) \subseteq Downstream(rmt, x) \cup {u}
  BY <1>7 DEF Relays
<1>10. ASSUME NEW y \in Ports, NEW v \in Upstream(t, y) PROVE v.flow # f
  <2>1. Source[v.flow] = y
    BY <1>1, <1>9 DEF Sound, Placed
  <2>2. y # "efcp"
    BY RMTAssumption
  <2> QED BY <1>2, <2>1, <2>2
<1>11. \A x, y \in Ports : Precede(Downstream(t, x), Upstream(t, y))
  <2>1. \A x, y \in Ports : Precede(Downstream(rmt, x), Upstream(rmt, y))
    BY <1>1 DEF InOrder
  <2> QED BY <1>4, <1>9, <1>10, <2>1 DEF Precede
<1>12. InOrder(t, given', left) /\ given' \in [Flows -> Nat]
  BY <1>1, <1>2, <1>7, <1>9, <1>11, TakenInOrder DEF u
<1>13. rmt' = t
  BY <1>3 DEF t
<1>14. Silent
  BY <1>1, <1>8, <1>13, SilentAfter
<1> QED BY <1>1, <1>2, <1>5, <1>7, <1>8, <1>12, <1>13, <1>14, Concluded

\* A PDU is taken from those on the way to the task.
Taken(s, b, p) ==
    /\ b \in Task
    /\ b.queue = s.queue /\ b.waiting = s.waiting /\ b.tokens = s.tokens
    /\ b.protect = s.protect /\ b.stopped = s.stopped /\ b.aborted = s.aborted
    /\ b.blocked = s.blocked /\ b.up = s.up /\ b.ready = s.ready /\ b.wake = s.wake
    /\ b.sending = s.sending
    /\ b.relay[p] = Tail(s.relay[p])
    /\ \A x \in Ports : x # p => b.relay[x] = s.relay[x]

LEMMA TakenSound ==
    ASSUME NEW s \in Task, NEW b, NEW p \in Ports,
           Sound(s), s.relay[p] # <<>>, Taken(s, b, p)
    PROVE  /\ Sound(b) /\ Keeps(s, b) /\ Proceeds(s, b) /\ Calms(s, b)
           /\ Head(s.relay[p]) \in Upstream(s, p)
           /\ \A x \in Ports : Precede({Head(s.relay[p])}, Upstream(b, x))
<1> DEFINE u == s.relay[p]
<1>1. u \in Seq(PDU)
  BY TaskTypes DEF Directions
<1>2. /\ Sorted(Tail(u)) /\ Precede({Head(u)}, Range(Tail(u)))
      /\ Range(u) = {Head(u)} \cup Range(Tail(u)) /\ Head(u) \in Range(u)
  <2>1. Sorted(u) /\ u # <<>>
    BY DEF Sound, InOK, Line
  <2> HIDE DEF u
  <2> QED BY <1>1, <2>1, SortedTail, RangeFacts
<1>3. Line(u, s.queue[p]["in"])
  BY DEF Sound, InOK
<1>4. Head(u) \in Upstream(s, p)
  BY <1>2 DEF Upstream, Content
<1>5. ASSUME NEW x \in Ports
      PROVE  /\ Upstream(b, x) \subseteq Upstream(s, x)
             /\ Downstream(b, x) \subseteq Downstream(s, x)
             /\ Line(b.relay[x], b.queue[x]["in"])
  <2>1. Downstream(b, x) = Downstream(s, x)
    BY DEF Downstream, Taken
  <2>2. CASE x # p
    BY <2>1, <2>2 DEF Upstream, Taken, Sound, InOK
  <2>3. CASE x = p
    <3>1. b.queue = s.queue /\ b.relay[p] = Tail(u)
      BY DEF Taken
    <3> HIDE DEF u
    <3>2. Line(Tail(u), s.queue[p]["in"])
      BY <1>2, <1>3 DEF Line, Precede
    <3>3. Upstream(s, p) = Content(u, s.queue[p]["in"])
      BY DEF Upstream, u
    <3> QED BY <1>2, <2>1, <2>3, <3>1, <3>2, <3>3 DEF Upstream, Content
  <2> QED BY <2>2, <2>3
<1>6. Keeps(s, b)
  BY <1>5 DEF Keeps
<1>7. Placed(b) /\ Placed(s)
  BY <1>6, PlacedKeeps DEF Sound
<1>8. ASSUME NEW x \in Ports PROVE Precede({Head(u)}, Upstream(b, x))
  <2>1. CASE x = p
    <3>1. b.queue = s.queue /\ b.relay[p] = Tail(u)
      BY DEF Taken
    <3> HIDE DEF u
    <3>2. \A q \in Qids : Precede({Head(u)}, Range(s.queue[p]["in"][q]))
      BY <1>2, <1>3 DEF Line, Precede
    <3> QED BY <1>2, <2>1, <3>1, <3>2 DEF Upstream, Content, Precede
  <2>2. CASE x # p
    <3>1. Source[Head(u).flow] = p
      BY <1>4, <1>7 DEF Placed
    <3>2. \A v \in Upstream(b, x) : Source[v.flow] = x
      BY <1>7 DEF Placed
    <3> HIDE DEF u
    <3> QED BY <2>2, <3>1, <3>2 DEF Precede
  <2> QED BY <2>1, <2>2
<1>9. InOK(b) /\ OutOK(b)
  BY <1>5, SameBooks DEF Sound, InOK, OutOK, Taken
<1>10. StoppedWait(b) /\ Backlog(b)
  BY DEF Sound, StoppedWait, Backlog, Taken
<1>11. Calms(s, b) /\ Proceeds(s, b)
  BY DEF Calms, Quiet, Proceeds, Moving, Taken
<1> QED BY <1>4, <1>6, <1>7, <1>8, <1>9, <1>10, <1>11 DEF Sound

\* The PDU goes to the EFCP instance.
LEMMA LocalInOrder ==
    ASSUME NEW b \in Task, NEW g \in [Flows -> Nat], NEW l \in [Flows -> [Exits -> Nat]],
           NEW u \in PDU, InOrder(b, g, l), u.n <= g[u.flow], l[u.flow]["efcp"] < u.n,
           \A y \in Ports : Precede({u}, Upstream(b, y))
    PROVE  LET m == [l EXCEPT ![u.flow]["efcp"] = u.n]
           IN  /\ InOrder(b, g, m)
               /\ m \in [Flows -> [Exits -> Nat]]
               /\ u.n \in l[u.flow]["efcp"] + 1 .. g[u.flow]
<1> DEFINE m == [l EXCEPT ![u.flow]["efcp"] = u.n]
<1>1. u.flow \in Flows /\ u.n \in Nat /\ "efcp" \in Exits /\ \A y \in Ports : y # "efcp"
  BY RMTAssumption DEF PDU, Exits
<1>2. /\ m \in [Flows -> [Exits -> Nat]] /\ m[u.flow]["efcp"] = u.n
      /\ \A f \in Flows, x \in Exits : f # u.flow \/ x # "efcp" => m[f][x] = l[f][x]
  BY <1>1
<1> HIDE DEF m
<1>3. \A f \in Flows, x \in Exits : m[f][x] <= g[f]
  BY <1>2 DEF InOrder
<1>4. ASSUME NEW y \in Ports, NEW v \in Upstream(b, y)
      PROVE  v.n <= g[v.flow] /\ \A x \in Exits : m[v.flow][x] < v.n
  <2>1. v.flow \in Flows
    BY ContentTypes DEF PDU
  <2>2. v.n <= g[v.flow] /\ \A x \in Exits : l[v.flow][x] < v.n
    BY DEF InOrder
  <2>3. v.flow = u.flow => u.n < v.n
    BY DEF Precede
  <2> QED BY <1>2, <2>1, <2>2, <2>3
<1>5. ASSUME NEW y \in Ports, NEW v \in Downstream(b, y)
      PROVE  m[v.flow][y] < v.n /\ v.n <= g[v.flow]
  <2>1. v.flow \in Flows /\ y \in Exits
    BY ContentTypes DEF PDU, Exits
  <2>2. l[v.flow][y] < v.n /\ v.n <= g[v.flow]
    BY DEF InOrder
  <2> QED BY <1>1, <1>2, <2>1, <2>2
<1>6. InOrder(b, g, m)
  BY <1>3, <1>4, <1>5 DEF InOrder
<1>7. u.n \in l[u.flow]["efcp"] + 1 .. g[u.flow]
  <2>1. l[u.flow]["efcp"] \in Nat /\ g[u.flow] \in Nat
    BY <1>1
  <2> QED BY <1>1, <2>1
<1> QED BY <1>2, <1>6, <1>7 DEF m

\* A PDU of an EFCP instance for another one of this IPC process, which takes it or not.
LEMMA LocalStep ==
    ASSUME IInv, NEW f \in Flows, Write(f), MatchesThisIPC(f)
    PROVE  IInv' /\ Silent /\ Promised
<1> DEFINE u == GivenPDU(f)
           h == [given EXCEPT ![f] = @ + 1]
           m == [left EXCEPT ![u.flow]["efcp"] = u.n]
<1>1. /\ rmt \in Task /\ policy \in Policies /\ Sound(rmt) /\ Settled(rmt) /\ PortsOK(rmt)
      /\ rmt.aborted # "channel" /\ signals \in [Ports -> 0 .. MaxSignals]
      /\ given \in [Flows -> Nat] /\ left \in [Flows -> [Exits -> Nat]]
      /\ InOrder(rmt, given, left)
  BY DEF IInv, TypeOK
<1>2. /\ policy' = policy /\ given' = h /\ signals' = signals /\ rmt' = rmt
      /\ Source[f] = "efcp" /\ (left' = left \/ left' = m)
  BY DEF Write, IsGiven, Running, RelayPDUToEFCPI
<1>3. u \in PDU /\ u.flow = f /\ u.n = given[f] + 1
  <2>1. GivenPDU(f) \in PDU /\ GivenPDU(f).flow = f
    <3>1. Interface \in Ports
      BY RMTAssumption
    <3> QED BY <1>1, <3>1, NewerThanAll
  <2>2. GivenPDU(f).n = given[f] + 1
    BY DEF GivenPDU
  <2> QED BY <2>1, <2>2
<1>4. h \in [Flows -> Nat] /\ h[f] = given[f] + 1 /\ given[f] \in Nat
  BY <1>1
<1> HIDE DEF u, h, m
<1>5. InOrder(rmt, h, left)
  <2>1. \A x, y \in Ports : Precede(Downstream(rmt, x), Upstream(rmt, y))
    BY <1>1 DEF InOrder
  <2>2. given' = [given EXCEPT ![f] = @ + 1]
    BY <1>2 DEF h
  <2> QED BY <1>1, <1>2, <2>1, <2>2, TakenInOrder
<1>6. ASSUME NEW y \in Ports PROVE Precede({u}, Upstream(rmt, y))
  <2>1. \A v \in Upstream(rmt, y) : Source[v.flow] = y
    BY <1>1 DEF Sound, Placed
  <2>2. y # "efcp"
    BY RMTAssumption
  <2> QED BY <1>2, <1>3, <2>1, <2>2 DEF Precede
<1>7. u.n <= h[u.flow] /\ left[u.flow]["efcp"] < u.n
  <2>1. left[f]["efcp"] \in Nat /\ left[f]["efcp"] <= given[f]
    BY <1>1 DEF InOrder, Exits
  <2> QED BY <1>3, <1>4, <2>1
<1>8. InOrder(rmt, h, m) /\ m \in [Flows -> [Exits -> Nat]]
  BY <1>1, <1>3, <1>4, <1>5, <1>6, <1>7, LocalInOrder DEF m
<1>9. IInv'
  <2>1. InOrder(rmt, h, left') /\ left' \in [Flows -> [Exits -> Nat]]
    BY <1>1, <1>2, <1>5, <1>8
  <2> QED BY <1>1, <1>2, <1>4, <2>1, Concluded
<1>10. Silent
  BY <1>1, <1>2, SilentAfter
<1>11. Promised
  <2>1. CASE left' = left
    BY <1>2, <2>1, TakesWell DEF h
  <2>2. CASE left' = m
    <3>1. "efcp" \in Leaves[f]
      BY DEF Leaves
    <3>2. given' = [given EXCEPT ![f] = @ + 1] /\ given'[f] = u.n
      BY <1>2, <1>3, <1>4 DEF h
    <3>3. left' = [left EXCEPT ![f]["efcp"] = given'[f]]
      BY <1>3, <2>2, <3>2 DEF m
    <3> QED BY <3>1, <3>2, <3>3, PassesWell
  <2> QED BY <1>2, <2>1, <2>2
<1> QED BY <1>9, <1>10, <1>11

LEMMA WriteStep ==
    ASSUME IInv, NEW f \in Flows, Write(f)
    PROVE  IInv' /\ Silent /\ Promised
BY ForwardStep, LocalStep

\* The PDU goes to the queues of its ports.
LEMMA RelayedInOrder ==
    ASSUME NEW b, NEW t, NEW g, NEW l, NEW u, InOrder(b, g, l), Relays(b, t, u),
           u.n <= g[u.flow], \A x \in Exits : l[u.flow][x] < u.n,
           \A y \in Ports : Precede({u}, Upstream(b, y))
    PROVE  InOrder(t, g, l)
<1>1. \A x \in Ports : /\ Upstream(t, x) \subseteq Upstream(b, x)
                       /\ Downstream(t, x) \subseteq Downstream(b, x) \cup {u}
  BY DEF Relays
<1>2. \A y \in Ports : y \in Exits
  BY DEF Exits
<1>3. \A y \in Ports : \A v \in Downstream(t, y) : l[v.flow][y] < v.n /\ v.n <= g[v.flow]
  BY <1>1, <1>2 DEF InOrder
<1>4. \A y, x \in Ports : Precede(Downstream(t, x), Upstream(t, y))
  BY <1>1 DEF InOrder, Precede
<1>5. \A y \in Ports : \A v \in Upstream(t, y) :
        v.n <= g[v.flow] /\ \A x \in Exits : l[v.flow][x] < v.n
  BY <1>1 DEF InOrder
<1>6. \A f \in Flows, x \in Exits : l[f][x] <= g[f]
  BY DEF InOrder
<1> QED BY <1>3, <1>4, <1>5, <1>6 DEF InOrder

LEMMA MessageStep ==
    ASSUME IInv, NEW p \in Ports, ProcessMessage(p)
    PROVE  IInv' /\ Silent /\ Promised
<1> DEFINE u == Head(rmt.relay[p])
           b == [rmt EXCEPT !.relay[p] = Tail(@)]
           m == [left EXCEPT ![u.flow]["efcp"] = u.n]
           R == [rmt.relay EXCEPT ![p] = Tail(@)]
<1>1. /\ rmt \in Task /\ policy \in Policies /\ Sound(rmt) /\ Settled(rmt) /\ PortsOK(rmt)
      /\ rmt.aborted # "channel" /\ signals \in [Ports -> 0 .. MaxSignals]
      /\ given \in [Flows -> Nat] /\ left \in [Flows -> [Exits -> Nat]]
      /\ InOrder(rmt, given, left)
  BY DEF IInv, TypeOK
<1>2. /\ policy' = policy /\ given' = given /\ signals' = signals
      /\ rmt.relay[p] # <<>>
      /\ \/ MatchesThisIPC(u.flow) /\ rmt' = b /\ left' \in {left, m}
         \/ /\ ~MatchesThisIPC(u.flow) /\ left' = left
            /\ \/ rmt' = b
               \/ \E chance \in Chance : rmt' = RelayPDUToPort(b, u, chance)
  BY DEF ProcessMessage, RelayPDUToEFCPI, Running
<1>3. rmt.relay \in [Ports -> Seq(PDU)] /\ rmt.relay[p] \in Seq(PDU)
  BY <1>1 DEF Task
<1>4. Tail(rmt.relay[p]) \in Seq(PDU)
  BY <1>2, <1>3, HeadTailProperties
<1>5. /\ R \in [Ports -> Seq(PDU)] /\ R[p] = Tail(rmt.relay[p])
      /\ \A x \in Ports : x # p => R[x] = rmt.relay[x]
  BY <1>3, <1>4
<1>6. b = [rmt EXCEPT !.relay = R]
  OBVIOUS
<1> HIDE DEF R, b, m, u
<1>7. Taken(rmt, b, p)
  BY <1>1, <1>5, <1>6 DEF Task, Taken
<1>8. b \in Task
  BY <1>7 DEF Taken
<1>9. /\ Sound(b) /\ Keeps(rmt, b) /\ Proceeds(rmt, b) /\ Calms(rmt, b)
      /\ u \in Upstream(rmt, p) /\ \A x \in Ports : Precede({u}, Upstream(b, x))
  BY <1>1, <1>2, <1>7, TakenSound DEF u
<1>10. u \in PDU /\ u.flow \in policy.flows /\ u.flow \in Flows
  BY <1>1, <1>9, ContentTypes DEF PDU, Sound, Placed
<1>11. /\ u.n <= given[u.flow] /\ \A x \in Exits : left[u.flow][x] < u.n
       /\ \A x \in Ports : Precede(Downstream(rmt, x), {u})
  BY <1>1, <1>9 DEF InOrder, Precede
<1>12. InOrder(b, given, left)
  BY <1>1, <1>9, InOrderKeeps
<1>13. /\ Settled(b) /\ PortsOK(b) /\ b.aborted # "channel"
       /\ \A x \in Ports : rmt.blocked[x]["out"] => b.protect[x] = rmt.protect[x]
  BY <1>1, <1>8, <1>9, Absorbed
<1>14. CASE rmt' = b /\ left' = left
  <2>1. IInv'
    BY <1>1, <1>2, <1>8, <1>9, <1>12, <1>13, <1>14, Concluded
  <2>2. Silent
    BY <1>1, <1>13, <1>14, SilentAfter
  <2> QED BY <1>2, <1>14, <2>1, <2>2 DEF Promised
<1>15. CASE MatchesThisIPC(u.flow) /\ rmt' = b /\ left' = m
  <2>0. "efcp" \in Exits
    BY DEF Exits
  <2>1. /\ InOrder(b, given, m) /\ m \in [Flows -> [Exits -> Nat]]
        /\ u.n \in left[u.flow]["efcp"] + 1 .. given[u.flow]
    BY <1>1, <1>8, <1>9, <1>10, <1>11, <1>12, <2>0, LocalInOrder DEF m
  <2>2. IInv'
    BY <1>1, <1>2, <1>8, <1>9, <1>13, <1>15, <2>1, Concluded
  <2>3. Silent
    BY <1>1, <1>13, <1>15, SilentAfter
  <2>4. "efcp" \in Leaves[u.flow]
    BY <1>10, <1>15 DEF Leaves
  <2>5. Promised
    BY <1>2, <1>10, <1>15, <2>1, <2>4, LeavesWell DEF m
  <2> QED BY <2>2, <2>3, <2>5
<1>16. ASSUME ~MatchesThisIPC(u.flow), left' = left,
              NEW chance, rmt' = RelayPDUToPort(b, u, chance)
       PROVE  IInv' /\ Silent /\ Promised
  <2> DEFINE t == RelayPDUToPort(b, u, chance)
  <2> HIDE DEF t
  <2>1. FwTableLookup(u.flow) = Route[u.flow]
    BY <1>1, <1>10, <1>16, RouteLookup DEF MatchesThisIPC
  <2>2. \A x \in Ports : Precede(Downstream(b, x), {u})
    BY <1>9, <1>11 DEF Keeps, Precede
  <2>3. t \in Task /\ Sound(t) /\ Proceeds(b, t) /\ Calms(b, t) /\ Relays(b, t, u)
    BY <1>1, <1>8, <1>9, <1>10, <2>1, <2>2, RelayedSound DEF t
  <2>4. Proceeds(rmt, t) /\ Calms(rmt, t)
    BY <1>9, <2>3, ProceedsTrans, CalmsTrans
  <2>5. /\ Settled(t) /\ PortsOK(t) /\ t.aborted # "channel"
        /\ \A x \in Ports : rmt.blocked[x]["out"] => t.protect[x] = rmt.protect[x]
    BY <1>1, <2>3, <2>4, Absorbed
  <2>6. InOrder(t, given, left)
    BY <1>9, <1>11, <1>12, <2>3, RelayedInOrder
  <2>7. rmt' = t
    BY <1>16 DEF t
  <2>8. IInv'
    BY <1>1, <1>2, <1>16, <2>3, <2>5, <2>6, <2>7, Concluded
  <2>9. Silent
    BY <1>1, <2>5, <2>7, SilentAfter
  <2> QED BY <1>2, <1>16, <2>8, <2>9 DEF Promised
<1> QED BY <1>2, <1>14, <1>15, <1>16

(***************************************************************************)
(* The theorems.                                                           *)
(***************************************************************************)

\* The count of waiting PDUs is zero exactly when the queues are empty.
LEMMA NoneWaits ==
    ASSUME NEW s \in Task, NEW p \in Ports, NEW d \in Directions, Counted(s, p, d)
    PROVE  s.waiting[p][d] = 0 <=> \A q \in Qids : s.queue[p][d][q] = <<>>
<1>1. s.waiting[p][d] = 0 <=> InQueues(s, p, d) = {}
  BY FS_EmptySet DEF Counted
<1>2. ASSUME NEW q \in Qids, s.queue[p][d][q] # <<>>
      PROVE  InQueues(s, p, d) # {}
  <2>1. 1 \in DOMAIN s.queue[p][d][q]
    BY <1>2, QueueFacts
  <2>2. <<q, 1>> \in InQueues(s, p, d)
    BY <2>1 DEF InQueues
  <2> QED BY <2>2
<1>3. ASSUME \A q \in Qids : s.queue[p][d][q] = <<>>
      PROVE  InQueues(s, p, d) = {}
  <2>1. \A q \in Qids : DOMAIN s.queue[p][d][q] = {}
    BY <1>3, QueueFacts
  <2> QED BY <2>1 DEF InQueues
<1> QED BY <1>1, <1>2, <1>3

LEMMA Begins == Init => IInv
<1> SUFFICES ASSUME Init PROVE IInv
  OBVIOUS
<1> DEFINE Z == [p \in Ports |-> [d \in Directions |-> 0]]
           F == [p \in Ports |-> [d \in Directions |-> FALSE]]
           T == [p \in Ports |-> [d \in Directions |-> <<>>]]
           Q == [p \in Ports |-> [d \in Directions |-> [q \in Qids |-> <<>>]]]
           E == [p \in Ports |-> <<>>]
           atStart == IF policy.onWire THEN {Interface} ELSE {}
           R == [p \in Ports |-> [d \in Directions |-> p \in atStart]]
<1>1. /\ policy \in Policies /\ signals = [p \in Ports |-> 0]
      /\ given = [f \in Flows |-> 0] /\ left = [f \in Flows |-> [x \in Exits |-> 0]]
  BY DEF Init
<1>2. rmt = [queue |-> Q, waiting |-> Z, wake |-> Z, tokens |-> T, ready |-> R,
             blocked |-> F, relay |-> E, protect |-> E,
             sending |-> [p \in Ports |-> FALSE], lastQ |-> [p \in Ports |-> 1],
             stopped |-> {}, up |-> atStart, aborted |-> "no"]
  BY DEF Init
<1>3. 1 \in DOMAIN QueueIds /\ Interface \in Ports /\ MaxSignals \in Nat
  BY QueueIdsFacts, RMTAssumption
<1>4. <<>> \in Seq(PDU) /\ <<>> \in Seq(Qids) /\ Len(<<>>) = 0 /\ DOMAIN <<>> = {}
  OBVIOUS
<1>5. /\ Q \in [Ports -> [Directions -> [Qids -> Seq(PDU)]]]
      /\ Z \in [Ports -> [Directions -> Nat]] /\ T \in [Ports -> [Directions -> Seq(Qids)]]
      /\ R \in [Ports -> [Directions -> BOOLEAN]] /\ F \in [Ports -> [Directions -> BOOLEAN]]
      /\ E \in [Ports -> Seq(PDU)] /\ [p \in Ports |-> FALSE] \in [Ports -> BOOLEAN]
      /\ [p \in Ports |-> 1] \in [Ports -> DOMAIN QueueIds] /\ atStart \in SUBSET Ports
  BY <1>3, <1>4
<1>6. \A p \in Ports, d \in Directions :
        /\ (\A q \in Qids : Q[p][d][q] = <<>>) /\ Z[p][d] = 0 /\ T[p][d] = <<>>
        /\ R[p][d] = (p \in atStart) /\ F[p][d] = FALSE
  OBVIOUS
<1>7. \A p \in Ports : E[p] = <<>> /\ [x \in Ports |-> FALSE][p] = FALSE
  OBVIOUS
<1> HIDE DEF Q, Z, T, R, F, E, atStart
<1>8. rmt \in Task
  BY <1>2, <1>5 DEF Task
<1>9. /\ \A p \in Ports, d \in Directions :
           /\ (\A q \in Qids : rmt.queue[p][d][q] = <<>>) /\ rmt.waiting[p][d] = 0
           /\ rmt.wake[p][d] = 0
           /\ rmt.tokens[p][d] = <<>> /\ rmt.ready[p][d] = (p \in atStart)
           /\ ~rmt.blocked[p][d]
      /\ \A p \in Ports : rmt.relay[p] = <<>> /\ rmt.protect[p] = <<>> /\ ~rmt.sending[p]
      /\ rmt.stopped = {} /\ rmt.up = atStart /\ rmt.aborted = "no"
  BY <1>2, <1>6, <1>7
<1>10. Range(<<>>) = {} /\ Sorted(<<>>)
  BY <1>4 DEF Range, Sorted
<1>11. ASSUME NEW p \in Ports, NEW d \in Directions PROVE Books(rmt, p, d)
  <2>1. InQueues(rmt, p, d) = {}
    BY <1>4, <1>9 DEF InQueues
  <2>2. Counted(rmt, p, d)
    BY <1>9, <2>1, FS_EmptySet DEF Counted
  <2>3. \A q \in Qids : Turns(rmt, p, d, q) = {}
    BY <1>4, <1>9 DEF Turns, Places
  <2>4. TurnsAgree(rmt, p, d)
    BY <1>4, <1>9, <2>3, FS_EmptySet, ZenonT(60) DEF TurnsAgree
  <2> QED BY <2>2, <2>4 DEF Books
<1>12. ASSUME NEW p \in Ports
       PROVE  /\ Line(rmt.relay[p], rmt.queue[p]["in"])
              /\ Line(rmt.protect[p], rmt.queue[p]["out"])
              /\ Upstream(rmt, p) = {} /\ Downstream(rmt, p) = {}
  BY <1>9, <1>10 DEF Line, Upstream, Downstream, Content, Precede, Directions
<1>13. Sound(rmt)
  <2>1. InOK(rmt) /\ OutOK(rmt)
    BY <1>11, <1>12 DEF InOK, OutOK, Directions
  <2>2. Placed(rmt)
    BY <1>12 DEF Placed
  <2>3. StoppedWait(rmt) /\ Backlog(rmt)
    BY <1>9 DEF StoppedWait, Backlog, Directions
  <2> QED BY <2>1, <2>2, <2>3 DEF Sound
<1>14. Settled(rmt)
  BY <1>9 DEF Settled, Quiet, Moving
<1>15. PortsOK(rmt)
  <2>1. ASSUME NEW p \in Ports PROVE Tasks(rmt, p) <= 1
    <3>1. /\ One(rmt.sending[p]) = 0 /\ Len(rmt.protect[p]) = 0 /\ rmt.wake[p]["out"] = 0
          /\ One(rmt.ready[p]["out"]) \in 0..1
      BY <1>4, <1>9 DEF One, Directions
    <3> DEFINE i == One(rmt.ready[p]["out"])
    <3>2. Tasks(rmt, p) = i + 0 + 0 + 0 /\ i \in 0..1
      BY <3>1 DEF Tasks
    <3> HIDE DEF i
    <3> QED BY <3>2
  <2>2. policy.onWire => Interface \in rmt.up
    BY <1>9 DEF atStart
  <2> QED BY <1>9, <2>1, <2>2 DEF PortsOK, Directions
<1>16. InOrder(rmt, given, left)
  <2>1. \A f \in Flows, x \in Exits : left[f][x] <= given[f]
    BY <1>1
  <2> QED BY <1>12, <2>1 DEF InOrder, Precede
<1>17. TypeOK
  BY <1>1, <1>3, <1>8 DEF TypeOK
<1> QED BY <1>9, <1>13, <1>14, <1>15, <1>16, <1>17 DEF IInv

\* Every event preserves the invariant, releases nothing at a stopped port and is a step
\* of what the task promises.
LEMMA Steps == IInv /\ [Next]_vars => IInv' /\ Silent /\ Promised
<1> SUFFICES ASSUME IInv, [Next]_vars PROVE IInv' /\ Silent /\ Promised
  OBVIOUS
<1>1. ASSUME NEW f \in Flows, Arrive(f) PROVE IInv' /\ Silent /\ Promised
  BY <1>1, ArriveStep
<1>2. ASSUME NEW f \in Flows, Write(f) PROVE IInv' /\ Silent /\ Promised
  BY <1>2, WriteStep
<1>3. ASSUME NEW p \in Ports, ProcessMessage(p) PROVE IInv' /\ Silent /\ Promised
  BY <1>3, MessageStep
<1>4. ASSUME NEW p \in Ports, Transmit(p) PROVE IInv' /\ Silent /\ Promised
  BY <1>4, TransmitStep
<1>5. ASSUME NEW p \in Ports, PortTransmitEnd(p) PROVE IInv' /\ Silent /\ Promised
  BY <1>5, EndStep
<1>6. ASSUME NEW p \in Ports, NEW d \in Directions, Wake(p, d)
      PROVE  IInv' /\ Silent /\ Promised
  BY <1>6, WakeStep
<1>7. ASSUME NEW p \in Ports, PostNM1FlowAllocation(p) PROVE IInv' /\ Silent /\ Promised
  BY <1>7, UpStep
<1>8. ASSUME NEW p \in Ports, BlockOutput(p) PROVE IInv' /\ Silent /\ Promised
  BY <1>8, BlockStep
<1>9. ASSUME NEW p \in Ports, UnblockOutput(p) PROVE IInv' /\ Silent /\ Promised
  BY <1>9, UnblockStep
<1>10. CASE UNCHANGED vars
  <2>1. /\ policy' = policy /\ rmt' = rmt /\ signals' = signals
        /\ given' = given /\ left' = left
    BY <1>10 DEF vars
  <2>2. IInv'
    BY <2>1, Concluded DEF IInv, TypeOK
  <2>3. Silent
    BY <2>1, SilentAfter DEF IInv, TypeOK
  <2> QED BY <2>1, <2>2, <2>3 DEF Promised
<1> QED BY <1>1, <1>2, <1>3, <1>4, <1>5, <1>6, <1>7, <1>8, <1>9, <1>10 DEF Next

\* The inductive invariant holds of every run of the task, for all ports, queues, flows,
\* policies and lengths.
THEOREM Invariant == Spec => []IInv
<1>1. Init => IInv
  BY Begins
<1>2. IInv /\ [Next]_vars => IInv'
  BY Steps
<1> QED BY <1>1, <1>2, PTL DEF Spec

\* The state keeps its types; above all the counts of waiting PDUs, which the policies
\* take down for each departure, never go below zero.
THEOREM TypeCorrect == Spec => []TypeOK
<1>1. IInv => TypeOK
  BY DEF IInv
<1> QED BY <1>1, Invariant, PTL

\* The count of waiting PDUs and the monitor's turns agree with the queues under every
\* scheduler and maximum queue policy, through drops and nested reads, so that the
\* scheduler always finds the queue that it looks for.
THEOREM CountersAlwaysAgree == Spec => []CountersAgree
<1>1. IInv => CountersAgree
  <2> SUFFICES ASSUME IInv, NEW p \in Ports, NEW d \in Directions
               PROVE  /\ rmt.waiting[p][d] = Cardinality(
                           UNION {{q} \X DOMAIN rmt.queue[p][d][q] : q \in Qids})
                      /\ policy.scheduler = "DumbSch" =>
                           \A q \in Qids :
                             Cardinality({i \in DOMAIN rmt.tokens[p][d] :
                                            rmt.tokens[p][d][i] = q})
                               = Len(rmt.queue[p][d][q])
    BY DEF CountersAgree
  <2>1. rmt \in Task /\ Books(rmt, p, d)
    BY DEF IInv, TypeOK, Sound, InOK, OutOK, Directions
  <2> DEFINE S == UNION {{q} \X DOMAIN rmt.queue[p][d][q] : q \in Qids}
  <2>2. S = InQueues(rmt, p, d)
    <3>1. \A q \in Qids : DOMAIN rmt.queue[p][d][q] \subseteq Nat
      <4> SUFFICES ASSUME NEW q \in Qids PROVE DOMAIN rmt.queue[p][d][q] \subseteq Nat
        OBVIOUS
      <4>1. DOMAIN rmt.queue[p][d][q] = 1..Len(rmt.queue[p][d][q])
        BY <2>1, QueueFacts
      <4> QED BY <4>1
    <3> QED BY <3>1 DEF InQueues
  <2>3. rmt.waiting[p][d] = Cardinality(S)
    BY <2>1, <2>2 DEF Books, Counted
  <2> QED BY <2>1, <2>3 DEF Books, TurnsAgree, Turns, Places
<1> QED BY <1>1, Invariant, PTL

\* A PDU is never sent to a channel that still transmits: a port on the wire is ready,
\* sends or waits for the end of a transmission, one of these at a time.
THEOREM ChannelStaysIdle == Spec => []ChannelIdle
<1>1. IInv => ChannelIdle
  BY DEF IInv, ChannelIdle
<1> QED BY <1>1, Invariant, PTL

\* A port that the DIF below has stopped releases no PDU while it stays stopped.
THEOREM BlockedPortStaysSilent == Spec => BlockedPortSilent
<1>1. IInv /\ [Next]_vars =>
        [\A p \in Ports :
           rmt.blocked[p]["out"] /\ rmt'.blocked[p]["out"] =>
             Len(rmt'.protect[p]) <= Len(rmt.protect[p])]_vars
  BY Steps DEF Silent
<1> QED BY <1>1, Invariant, PTL DEF Spec, BlockedPortSilent

\* When each PDU has at most one port to leave through, an input that a ReadRateReducer
\* has blocked has a long output queue behind it, whose departures will unblock it.
THEOREM BlockedInputHasBacklog ==
    ASSUME OnePath
    PROVE  Spec => []BlockedInputMeansBacklog
<1>1. IInv => BlockedInputMeansBacklog
  BY DEF IInv, Sound, Backlog, BlockedInputMeansBacklog
<1> QED BY <1>1, Invariant, PTL

\* On the wire nothing is queued at a port other than the interface.
LEMMA WireQueues ==
    ASSUME IInv, policy.onWire, NEW p \in Ports, p # Interface, NEW d \in Directions
    PROVE  rmt.waiting[p][d] = 0
<1>1. /\ rmt \in Task /\ policy \in Policies /\ Sound(rmt)
  BY DEF IInv, TypeOK
<1>2. Upstream(rmt, p) = {}
  BY <1>1 DEF Sound, Placed
<1>3. Downstream(rmt, p) = {}
  <2> SUFFICES ASSUME NEW u \in Downstream(rmt, p) PROVE FALSE
    OBVIOUS
  <2>1. u.flow \in policy.flows /\ p \in Range(Route[u.flow])
    BY <1>1 DEF Sound, Placed
  <2>2. Route[u.flow] = <<Interface>> \/ Route[u.flow] = <<>>
    BY <1>1, <2>1, RMTAssumption
  <2>3. Range(<<Interface>>) = {Interface} /\ Range(<<>>) = {}
    BY DEF Range
  <2> QED BY <2>1, <2>2, <2>3
<1>4. ASSUME NEW q \in Qids PROVE rmt.queue[p][d][q] = <<>>
  <2>1. rmt.queue[p][d][q] \in Seq(PDU)
    BY <1>1, QueueFacts
  <2>2. Range(rmt.queue[p][d][q]) = {}
    BY <1>2, <1>3 DEF Upstream, Downstream, Content, Directions
  <2> QED BY <2>1, <2>2, RangeFacts
<1>5. Counted(rmt, p, d)
  BY <1>1 DEF Sound, InOK, OutOK, Books, Directions
<1> QED BY <1>1, <1>4, <1>5, NoneWaits

\* No wake-up is lost, if each PDU has at most one port to leave through where a
\* ReadRateReducer blocks inputs, and no user is told to stop for a single PDU: whatever
\* waits in a queue, blocked or stopped, has an event that will make it move.
THEOREM NoWakeUpIsLost ==
    ASSUME OnePath, StopAt > 1
    PROVE  Spec => []NoWakeUpLost
<1>1. IInv => NoWakeUpLost
  <2> SUFFICES ASSUME IInv, rmt.aborted = "no", \A p \in Ports : ~Due(p)
               PROVE  /\ \A p \in Ports, d \in Directions : rmt.waiting[p][d] = 0
                      /\ \A p \in Ports : ~rmt.blocked[p]["in"]
                      /\ rmt.stopped = {}
    BY DEF NoWakeUpLost
  <2> USE DEF Directions
  <2>1. /\ rmt \in Task /\ policy \in Policies /\ Sound(rmt) /\ Settled(rmt) /\ PortsOK(rmt)
    BY DEF IInv, TypeOK
  <2>2. ASSUME NEW p \in Ports, NEW d \in Directions, ~rmt.blocked[p][d]
        PROVE  rmt.waiting[p][d] = 0
    <3>1. CASE p \in rmt.up
      BY <2>1, <2>2, <3>1 DEF Settled, Quiet, Moving, Due
    <3>2. CASE p \notin rmt.up
      <4>1. policy.onWire
        BY <3>2 DEF Due
      <4>2. p # Interface
        BY <2>1, <3>2, <4>1 DEF PortsOK
      <4> QED BY <4>1, <4>2, WireQueues
    <3> QED BY <3>1, <3>2
  <2>3. ASSUME NEW p \in Ports, NEW q \in Qids PROVE rmt.queue[p]["out"][q] = <<>>
    <3>1. rmt.waiting[p]["out"] = 0
      BY <2>2 DEF Due
    <3>2. Counted(rmt, p, "out")
      BY <2>1 DEF Sound, OutOK, Books
    <3> QED BY <2>1, <3>1, <3>2, NoneWaits
  <2>4. ASSUME NEW p \in Ports, rmt.blocked[p]["in"] PROVE FALSE
    <3>1. PICK q \in Qids : Len(rmt.queue[p]["out"][q]) >= ThreshLength
      BY <2>1, <2>4 DEF Sound, Backlog
    <3>2. Len(rmt.queue[p]["out"][q]) = 0
      BY <2>3
    <3>3. ThreshLength \in Nat \ {0}
      BY RMTAssumption
    <3> QED BY <3>1, <3>2, <3>3
  <2>5. rmt.stopped = {}
    <3>1. rmt.stopped \subseteq Ports \X Qids
      BY <2>1 DEF Task
    <3>2. \A p \in Ports, q \in Qids : <<p, q>> \notin rmt.stopped
      BY <2>1, <2>3 DEF Sound, StoppedWait
    <3> QED BY <3>1, <3>2
  <2>6. ASSUME NEW p \in Ports, NEW d \in Directions PROVE ~rmt.blocked[p][d]
    BY <2>4 DEF Due
  <2> QED BY <2>2, <2>5, <2>6
<1> QED BY <1>1, Invariant, PTL

\* Between its queues, ports and policies the task neither repeats, reorders nor
\* misdirects the PDUs of a flow.
THEOREM TaskKeepsItsPromise == Spec => ImplementsRelaying
<1>1. Init => Promise!Init
  BY DEF Init, Promise!Init
<1>2. IInv /\ [Next]_vars => [Promise!Next]_(Promise!vars)
  BY Steps DEF Promised, Promise!vars
<1> QED BY <1>1, <1>2, Invariant, PTL DEF Spec, ImplementsRelaying, Promise!Spec
=============================================================================
