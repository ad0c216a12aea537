------------------------ MODULE FlowAllocationProofs ------------------------
(***************************************************************************)
(* Proofs about FlowAllocation, for any number of flows that share         *)
(* (N-1)-flows, any retry policy, with a relay or without one.             *)
(*                                                                         *)
(* The handlers of FAI are functions on the record of one flow.  The first *)
(* part says of each what it does to the fields of the record; the second  *)
(* part proves of one record that the handlers keep what the two ends of a *)
(* flow promise each other; the third lifts that to the actions, which may *)
(* serve many flows at once.                                               *)
(***************************************************************************)
EXTENDS FlowAllocation, FiniteSetTheorems, SequenceTheorems, TLAPS

-----------------------------------------------------------------------------
(* Sequences of messages and of entries.                                    *)

Holds(c, m) == \E i \in 1..Len(c) : c[i] = m
Single(c, m) == \A i, j \in 1..Len(c) : c[i] = m /\ c[j] = m => i = j
Before(c, m, n) == \A i, j \in 1..Len(c) : c[i] = m /\ c[j] = n => i < j

\* A channel after one more message.
LEMMA Appended ==
    ASSUME NEW c \in Seq(Message), NEW msg \in Message
    PROVE  /\ Append(c, msg) \in Seq(Message)
           /\ Append(c, msg) # <<>>
           /\ Holds(Append(c, msg), msg)
           /\ \A m \in Message : Holds(c, m) => Holds(Append(c, msg), m)
           /\ \A m \in Message \ {msg} : Holds(Append(c, msg), m) => Holds(c, m)
           /\ \A m \in Message \ {msg} : Single(c, m) => Single(Append(c, msg), m)
           /\ ~Holds(c, msg) => Single(Append(c, msg), msg)
           /\ \A m \in Message, n \in Message \ {msg} :
                 Before(c, m, n) /\ (m = msg => ~Holds(c, n)) => Before(Append(c, msg), m, n)
           /\ \A m \in Message \ {msg} : Before(c, m, msg) => Before(Append(c, msg), m, msg)
<1> DEFINE d == Append(c, msg)
<1>1. /\ d \in Seq(Message)
      /\ Len(d) = Len(c) + 1
      /\ \A i \in 1..Len(c) : d[i] = c[i]
      /\ d[Len(c) + 1] = msg
      /\ Len(c) \in Nat
  OBVIOUS
<1> HIDE DEF d
<1>2. d # <<>>
  BY <1>1
<1>3. Holds(d, msg)
  BY <1>1 DEF Holds
<1>4. \A m \in Message : Holds(c, m) => Holds(d, m)
  BY <1>1 DEF Holds
<1>5. \A m \in Message \ {msg} : Holds(d, m) => Holds(c, m)
  BY <1>1 DEF Holds
<1>6. \A m \in Message \ {msg} : Single(c, m) => Single(d, m)
  BY <1>1 DEF Single
<1>7. ~Holds(c, msg) => Single(d, msg)
  BY <1>1 DEF Single, Holds
<1>8. \A m \in Message, n \in Message \ {msg} :
         Before(c, m, n) /\ (m = msg => ~Holds(c, n)) => Before(d, m, n)
  BY <1>1 DEF Before, Holds
<1>9. \A m \in Message \ {msg} : Before(c, m, msg) => Before(d, m, msg)
  BY <1>1 DEF Before
<1> QED
  BY <1>1, <1>2, <1>3, <1>4, <1>5, <1>6, <1>7, <1>8, <1>9 DEF d

\* A channel whose first message has been taken.
LEMMA Shortened ==
    ASSUME NEW c \in Seq(Message), c # <<>>
    PROVE  /\ Tail(c) \in Seq(Message)
           /\ Head(c) \in Message
           /\ Holds(c, Head(c))
           /\ \A m \in Message : Holds(Tail(c), m) => Holds(c, m)
           /\ \A m \in Message \ {Head(c)} : Holds(c, m) => Holds(Tail(c), m)
           /\ \A m \in Message : Single(c, m) => Single(Tail(c), m)
           /\ Single(c, Head(c)) => ~Holds(Tail(c), Head(c))
           /\ \A m, n \in Message : Before(c, m, n) => Before(Tail(c), m, n)
           /\ \A m \in Message \ {Head(c)} : Before(c, m, Head(c)) => ~Holds(c, m)
<1> DEFINE d == Tail(c)
<1>1. /\ d \in Seq(Message)
      /\ Len(c) \in Nat \ {0}
      /\ Len(d) = Len(c) - 1
      /\ \A i \in 1..Len(d) : d[i] = c[i + 1]
      /\ Head(c) = c[1]
      /\ c[1] \in Message
  OBVIOUS
<1>2. \A i \in 1..Len(c) : i = 1 \/ c[i] = d[i - 1]
  OBVIOUS
<1> HIDE DEF d
<1>3. Holds(c, Head(c))
  BY <1>1 DEF Holds
<1>4. \A m \in Message : Holds(d, m) => Holds(c, m)
  BY <1>1 DEF Holds
<1>5. \A m \in Message \ {Head(c)} : Holds(c, m) => Holds(d, m)
  <2> SUFFICES ASSUME NEW m \in Message \ {Head(c)}, NEW i \in 1..Len(c), c[i] = m
               PROVE  Holds(d, m)
    BY DEF Holds
  <2>1. i # 1 /\ d[i - 1] = m
    BY <1>1, <1>2
  <2>2. i - 1 \in 1..Len(d)
    BY <1>1, <2>1
  <2> QED
    BY <2>1, <2>2 DEF Holds
<1>6. \A m \in Message : Single(c, m) => Single(d, m)
  <2> SUFFICES ASSUME NEW m \in Message, Single(c, m),
                      NEW i \in 1..Len(d), NEW j \in 1..Len(d), d[i] = m, d[j] = m
               PROVE  i = j
    BY DEF Single
  <2>1. c[i + 1] = m /\ c[j + 1] = m /\ i + 1 \in 1..Len(c) /\ j + 1 \in 1..Len(c)
    BY <1>1
  <2>2. i + 1 = j + 1
    BY <2>1 DEF Single
  <2> QED
    BY <2>2
<1>7. Single(c, Head(c)) => ~Holds(d, Head(c))
  <2> SUFFICES ASSUME Single(c, Head(c)), NEW i \in 1..Len(d), d[i] = Head(c)
               PROVE  FALSE
    BY DEF Holds
  <2>1. c[i + 1] = Head(c) /\ i + 1 \in 1..Len(c) /\ 1 \in 1..Len(c) /\ c[1] = Head(c)
    BY <1>1
  <2>2. i + 1 = 1
    BY <2>1 DEF Single
  <2> QED
    BY <2>2
<1>8. \A m, n \in Message : Before(c, m, n) => Before(d, m, n)
  <2> SUFFICES ASSUME NEW m \in Message, NEW n \in Message, Before(c, m, n),
                      NEW i \in 1..Len(d), NEW j \in 1..Len(d), d[i] = m, d[j] = n
               PROVE  i < j
    BY DEF Before
  <2>1. c[i + 1] = m /\ c[j + 1] = n /\ i + 1 \in 1..Len(c) /\ j + 1 \in 1..Len(c)
    BY <1>1
  <2>2. i + 1 < j + 1
    BY <2>1 DEF Before
  <2> QED
    BY <2>2
<1>9. \A m \in Message \ {Head(c)} : Before(c, m, Head(c)) => ~Holds(c, m)
  BY <1>1 DEF Before, Holds
<1> QED
  BY <1>1, <1>3, <1>4, <1>5, <1>6, <1>7, <1>8, <1>9 DEF d

\* A channel after any number of M_CREATEs.
LEMMA Requested ==
    ASSUME NEW c \in Seq(Message), NEW n \in Nat,
           NEW d, d = c \o [i \in 1..n |-> "M_CREATE"]
    PROVE  /\ d \in Seq(Message)
           /\ \A m \in Message \ {"M_CREATE"} : Holds(d, m) <=> Holds(c, m)
           /\ \A m \in Message \ {"M_CREATE"} : Single(c, m) => Single(d, m)
           /\ \A m, next \in Message \ {"M_CREATE"} : Before(c, m, next) => Before(d, m, next)
           /\ n = 0 => d = c
<1> DEFINE t == [i \in 1..n |-> "M_CREATE"]
<1>1. t \in Seq(Message) /\ Len(t) = n /\ \A i \in 1..n : t[i] = "M_CREATE"
  BY DEF Message
<1> HIDE DEF t
<1>2. /\ c \o t \in Seq(Message)
      /\ Len(c \o t) = Len(c) + n
      /\ \A i \in 1..Len(c) : (c \o t)[i] = c[i]
      /\ \A i \in (Len(c) + 1)..(Len(c) + n) : (c \o t)[i] = t[i - Len(c)]
      /\ Len(c) \in Nat
  <2>1. /\ c \o t \in Seq(Message)
        /\ Len(c \o t) = Len(c) + Len(t)
        /\ \A i \in 1..Len(c) + Len(t) :
              (c \o t)[i] = IF i <= Len(c) THEN c[i] ELSE t[i - Len(c)]
    BY <1>1, ConcatProperties
  <2> QED
    BY <2>1, <1>1
<1>3. d = c \o t
  BY DEF t
<1>4. \A i \in (Len(c) + 1)..(Len(c) + n) : d[i] = "M_CREATE"
  BY <1>1, <1>2, <1>3
<1>5. \A m \in Message \ {"M_CREATE"} : Holds(d, m) <=> Holds(c, m)
  BY <1>2, <1>3, <1>4 DEF Holds
<1>6. n = 0 => d = c
  <2> SUFFICES ASSUME n = 0 PROVE d = c
    OBVIOUS
  <2>1. Len(d) = Len(c) /\ \A i \in 1..Len(c) : d[i] = c[i]
    BY <1>2, <1>3
  <2>2. d \in Seq(Message)
    BY <1>2, <1>3
  <2> QED
    BY <2>1, <2>2
<1>7. \A m \in Message \ {"M_CREATE"} : Single(c, m) => Single(d, m)
  BY <1>2, <1>3, <1>4 DEF Single
<1>8. \A m, next \in Message \ {"M_CREATE"} : Before(c, m, next) => Before(d, m, next)
  BY <1>2, <1>3, <1>4 DEF Before
<1> QED
  BY <1>2, <1>3, <1>5, <1>6, <1>7, <1>8

-----------------------------------------------------------------------------
(* What the parts of a handler do: h is the record of a flow after it, g    *)
(* the record before.                                                       *)

SameUsers(g, h) == h.con = g.con /\ h.ae = g.ae /\ h.told = g.told
SameBooks(g, h) == h.queued = g.queued /\ h.retries = g.retries /\ h.closes = g.closes
SameTransit(g, h) == h.hop = g.hop /\ h.relay = g.relay /\ h.chan = g.chan

\* NFlowTable::changeAllocStatus: the status of one end.
StatusChanged(g, h, e, status) ==
    /\ h.status = [g.status EXCEPT ![e] = status]
    /\ SameUsers(g, h) /\ SameBooks(g, h) /\ SameTransit(g, h)
    /\ h.efcpi = g.efcpi /\ h.broken = g.broken

\* A message that an FAI sends goes behind those that are under way.
Sent(g, h, to, msg) ==
    /\ h.chan = [g.chan EXCEPT ![to] = Append(g.chan[to], msg)]
    /\ SameUsers(g, h) /\ SameBooks(g, h) /\ h.status = g.status
    /\ h.efcpi = g.efcpi /\ h.hop = g.hop /\ h.relay = g.relay
    /\ h.broken = g.broken

\* An M_CREATE is on its way to the relay, or to the other end.
CreateSent(g, h, to) ==
    /\ h.hop = IF HasRelay THEN [g.hop EXCEPT ![to] = g.hop[to] + 1] ELSE g.hop
    /\ h.chan = IF HasRelay THEN g.chan
              ELSE [g.chan EXCEPT ![to] = Append(g.chan[to], "M_CREATE")]
    /\ SameUsers(g, h) /\ SameBooks(g, h) /\ h.status = g.status
    /\ h.efcpi = g.efcpi /\ h.relay = g.relay /\ h.broken = g.broken

\* FAI::createBindings binds the EFCP instance, or aborts.
BindingsCreated(g, h, e) ==
    /\ \A end \in Ends \ {e} : h.efcpi[end] = g.efcpi[end]
    /\ h.efcpi[e] # "none"
    /\ g.efcpi[e] = "none" => h.efcpi[e] = "bound" /\ h.broken = g.broken
    /\ g.efcpi[e] # "none" => h.efcpi[e] = g.efcpi[e]
    /\ SameUsers(g, h) /\ SameBooks(g, h) /\ SameTransit(g, h)
    /\ h.status = g.status

\* FAI::deleteBindings deletes the EFCP instance, or aborts.
BindingsDeleted(g, h, e) ==
    /\ \A end \in Ends \ {e} : h.efcpi[end] = g.efcpi[end]
    /\ h.efcpi[e] = "none" <=> g.efcpi[e] = "none"
    /\ g.efcpi[e] = "bound" => h.broken = g.broken
    /\ SameUsers(g, h) /\ SameBooks(g, h) /\ SameTransit(g, h)
    /\ h.status = g.status

\* AE::deleteBindings disconnects the AE, or aborts.
Disconnected(g, h, e) ==
    /\ \A end \in Ends \ {e} : h.ae[end] = g.ae[end]
    /\ g.ae[e] = TRUE => h.broken = g.broken
    /\ SameBooks(g, h) /\ SameTransit(g, h) /\ h.status = g.status
    /\ h.efcpi = g.efcpi /\ h.con = g.con /\ h.told = g.told

\* AE::insertFlow connects the AE.
Inserted(g, h, e) ==
    /\ h.con = [g.con EXCEPT ![e] = "nil"]
    /\ h.ae = [g.ae EXCEPT ![e] = TRUE]
    /\ SameBooks(g, h) /\ SameTransit(g, h) /\ h.status = g.status
    /\ h.efcpi = g.efcpi /\ h.told = g.told /\ h.broken = g.broken

\* IRM::createBindings, and the user hears that it has the flow.
Accepted(g, h, e) ==
    /\ h.con = [g.con EXCEPT ![e] = "connectpending"]
    /\ h.told = [g.told EXCEPT ![e] = g.told[e] \cup {"positive"}]
    /\ SameBooks(g, h) /\ SameTransit(g, h) /\ h.status = g.status
    /\ h.efcpi = g.efcpi /\ h.ae = g.ae /\ h.broken = g.broken

\* NFlowTable::insert at the relay, which takes an M_CREATE that has come.
Relayed(g, h, to) ==
    /\ h.hop = [g.hop EXCEPT ![to] = g.hop[to] - 1]
    /\ h.relay = Append(g.relay, [to |-> to, retries |-> IF to = "R" THEN g.retries ELSE 0,
                             status |-> "FORWARDING"])
    /\ SameUsers(g, h) /\ SameBooks(g, h) /\ h.status = g.status
    /\ h.efcpi = g.efcpi /\ h.chan = g.chan /\ h.broken = g.broken

\* A user has asked once more to deallocate the flow.
CloseCounted(g, h) ==
    /\ h.closes = g.closes + 1
    /\ SameUsers(g, h) /\ SameTransit(g, h) /\ h.status = g.status
    /\ h.efcpi = g.efcpi /\ h.queued = g.queued /\ h.retries = g.retries
    /\ h.broken = g.broken

\* The retry policy has counted.
RetryCounted(g, h) ==
    /\ h.retries = IF AllocateRetry = "NoRetry" THEN g.retries ELSE g.retries + 1
    /\ SameUsers(g, h) /\ SameTransit(g, h) /\ h.status = g.status
    /\ h.efcpi = g.efcpi /\ h.queued = g.queued /\ h.closes = g.closes
    /\ h.broken = g.broken

\* The flow joins PendingFlows or leaves it.
QueuedSet(g, h, queued) ==
    /\ h.queued = queued
    /\ SameUsers(g, h) /\ SameTransit(g, h) /\ h.status = g.status
    /\ h.efcpi = g.efcpi /\ h.retries = g.retries /\ h.closes = g.closes
    /\ h.broken = g.broken

\* A message reaches an end, or is lost.
MessageTaken(g, h, e) ==
    /\ h.chan = [g.chan EXCEPT ![e] = Tail(g.chan[e])]
    /\ SameUsers(g, h) /\ SameBooks(g, h) /\ h.status = g.status
    /\ h.efcpi = g.efcpi /\ h.hop = g.hop /\ h.relay = g.relay
    /\ h.broken = g.broken

\* AE::receiveAllocationResponseNegative, unless the AE knows of no flow.
Declined(g, h, e) ==
    /\ SameBooks(g, h) /\ SameTransit(g, h) /\ h.status = g.status /\ h.efcpi = g.efcpi
    /\ \A end \in Ends : h.con[end] = g.con[end] \/ h.con[end] = "error"
    /\ \A end \in Ends \ {e} : h.told[end] = g.told[end] /\ h.ae[end] = g.ae[end]
    /\ h.told[e] \subseteq g.told[e] \cup {"negative"}
    /\ g.ae[e] = TRUE => h.broken = g.broken

\* FA::receiveNM1FlowCreated at the relay: an M_CREATE for each of n entries.
Forwarded(g, h, to, n) ==
    /\ h.chan = [g.chan EXCEPT ![to] = g.chan[to] \o [i \in 1..n |-> "M_CREATE"]]
    /\ Len(h.relay) = Len(g.relay)
    /\ \A i \in 1..Len(g.relay) : h.relay[i].to = g.relay[i].to
    /\ SameUsers(g, h) /\ SameBooks(g, h) /\ h.status = g.status
    /\ h.efcpi = g.efcpi /\ h.hop = g.hop /\ h.broken = g.broken

LEMMA ChangeAllocStatusEffect ==
    ASSUME NEW g \in FlowRecord, NEW e \in Ends, NEW status \in Status
    PROVE  /\ ChangeAllocStatus(g, e, status) \in FlowRecord
           /\ StatusChanged(g, ChangeAllocStatus(g, e, status), e, status)
<1> DEFINE h == ChangeAllocStatus(g, e, status)
           newStatus == [g.status EXCEPT ![e] = status]
<1>1. newStatus \in [Ends -> Status]
  BY DEF FlowRecord
<1>2. h = [g EXCEPT !.status = newStatus]
  BY DEF ChangeAllocStatus
<1> HIDE DEF h, newStatus
<1>3. h \in FlowRecord
  BY <1>1, <1>2 DEF FlowRecord
<1>4. /\ h.status = newStatus
      /\ SameUsers(g, h) /\ SameBooks(g, h) /\ SameTransit(g, h)
      /\ h.efcpi = g.efcpi /\ h.broken = g.broken
  BY <1>2 DEF FlowRecord, SameUsers, SameBooks, SameTransit
<1>5. StatusChanged(g, h, e, status)
  BY <1>4 DEF StatusChanged, newStatus
<1> QED
  BY <1>3, <1>5 DEF h

LEMMA SendEffect ==
    ASSUME NEW g \in FlowRecord, NEW to \in Ends, NEW msg \in Message
    PROVE  /\ Send(g, to, msg) \in FlowRecord
           /\ Sent(g, Send(g, to, msg), to, msg)
<1> DEFINE h == Send(g, to, msg)
           newChan == [g.chan EXCEPT ![to] = Append(g.chan[to], msg)]
<1>1. newChan \in [Ends -> Seq(Message)]
  BY DEF FlowRecord
<1>2. h = [g EXCEPT !.chan = newChan]
  BY DEF Send
<1> HIDE DEF h, newChan
<1>3. h \in FlowRecord
  BY <1>1, <1>2 DEF FlowRecord
<1>4. /\ h.chan = newChan
      /\ SameUsers(g, h) /\ SameBooks(g, h) /\ h.status = g.status
      /\ h.efcpi = g.efcpi /\ h.hop = g.hop /\ h.relay = g.relay
      /\ h.broken = g.broken
  BY <1>2 DEF FlowRecord, SameUsers, SameBooks, SameTransit
<1>5. Sent(g, h, to, msg)
  BY <1>4 DEF Sent, newChan
<1> QED
  BY <1>3, <1>5 DEF h

LEMMA SendCreateRequestFlowEffect ==
    ASSUME NEW g \in FlowRecord, NEW to \in Ends
    PROVE  /\ SendCreateRequestFlow(g, to) \in FlowRecord
           /\ CreateSent(g, SendCreateRequestFlow(g, to), to)
<1> DEFINE h == SendCreateRequestFlow(g, to)
           newHop == IF HasRelay THEN [g.hop EXCEPT ![to] = g.hop[to] + 1] ELSE g.hop
           newChan == IF HasRelay THEN g.chan
              ELSE [g.chan EXCEPT ![to] = Append(g.chan[to], "M_CREATE")]
<1>1. /\ newHop \in [Ends -> Nat]
      /\ newChan \in [Ends -> Seq(Message)]
  BY DEF FlowRecord, Message
<1>2. CASE HasRelay
  <2>1. h = [g EXCEPT !.hop = newHop]
    BY <1>2 DEF SendCreateRequestFlow, Send
  <2> HIDE DEF h, newHop, newChan
  <2>2. h \in FlowRecord
    BY <1>1, <2>1 DEF FlowRecord
  <2>3. /\ h.hop = newHop
        /\ SameUsers(g, h) /\ SameBooks(g, h) /\ h.status = g.status
        /\ h.efcpi = g.efcpi /\ h.relay = g.relay /\ h.chan = g.chan
        /\ h.broken = g.broken
    BY <2>1 DEF FlowRecord, SameUsers, SameBooks, SameTransit
  <2>4. h.hop = IF HasRelay THEN [g.hop EXCEPT ![to] = g.hop[to] + 1] ELSE g.hop
    BY <1>1, <1>2, <2>3 DEF SameUsers, SameTransit, FlowRecord, newHop, newChan
  <2>5. h.chan = IF HasRelay THEN g.chan
              ELSE [g.chan EXCEPT ![to] = Append(g.chan[to], "M_CREATE")]
    BY <1>1, <1>2, <2>3 DEF SameUsers, SameTransit, FlowRecord, newHop, newChan
  <2>6. CreateSent(g, h, to)
    BY <2>3, <2>4, <2>5 DEF CreateSent, SameUsers, SameBooks, SameTransit
  <2> QED
    BY <2>2, <2>6 DEF h
<1>3. CASE ~HasRelay
  <2>1. h = [g EXCEPT !.chan = newChan]
    BY <1>3 DEF SendCreateRequestFlow, Send
  <2> HIDE DEF h, newHop, newChan
  <2>2. h \in FlowRecord
    BY <1>1, <2>1 DEF FlowRecord
  <2>3. /\ h.chan = newChan
        /\ SameUsers(g, h) /\ SameBooks(g, h) /\ h.status = g.status
        /\ h.efcpi = g.efcpi /\ h.hop = g.hop /\ h.relay = g.relay
        /\ h.broken = g.broken
    BY <2>1 DEF FlowRecord, SameUsers, SameBooks, SameTransit
  <2>4. h.hop = IF HasRelay THEN [g.hop EXCEPT ![to] = g.hop[to] + 1] ELSE g.hop
    BY <1>1, <1>3, <2>3 DEF SameUsers, SameTransit, FlowRecord, newHop, newChan
  <2>5. h.chan = IF HasRelay THEN g.chan
              ELSE [g.chan EXCEPT ![to] = Append(g.chan[to], "M_CREATE")]
    BY <1>1, <1>3, <2>3 DEF SameUsers, SameTransit, FlowRecord, newHop, newChan
  <2>6. CreateSent(g, h, to)
    BY <2>3, <2>4, <2>5 DEF CreateSent, SameUsers, SameBooks, SameTransit
  <2> QED
    BY <2>2, <2>6 DEF h
<1> QED
  BY <1>2, <1>3

LEMMA CreateBindingsEffect ==
    ASSUME NEW g \in FlowRecord, NEW e \in Ends
    PROVE  /\ CreateBindings(g, e) \in FlowRecord
           /\ BindingsCreated(g, CreateBindings(g, e), e)
<1> DEFINE h == CreateBindings(g, e)
           newEfcpi == IF g.efcpi[e] = "none" THEN [g.efcpi EXCEPT ![e] = "bound"] ELSE g.efcpi
           newBroken == IF g.efcpi[e] = "none" THEN g.broken ELSE TRUE
<1>1. /\ newEfcpi \in [Ends -> {"none", "bound", "deleted"}]
      /\ newBroken \in BOOLEAN
  BY DEF FlowRecord
<1>2. CASE g.efcpi[e] = "none"
  <2>1. h = [g EXCEPT !.efcpi = newEfcpi]
    BY <1>2 DEF CreateBindings
  <2> HIDE DEF h, newEfcpi, newBroken
  <2>2. h \in FlowRecord
    BY <1>1, <2>1 DEF FlowRecord
  <2>3. /\ h.efcpi = newEfcpi
        /\ SameUsers(g, h) /\ SameBooks(g, h) /\ SameTransit(g, h)
        /\ h.status = g.status /\ h.broken = g.broken
    BY <2>1 DEF FlowRecord, SameUsers, SameBooks, SameTransit
  <2>4. \A end \in Ends \ {e} : h.efcpi[end] = g.efcpi[end]
    BY <1>1, <1>2, <2>3 DEF SameUsers, SameTransit, FlowRecord, newEfcpi, newBroken
  <2>5. h.efcpi[e] # "none"
    BY <1>1, <1>2, <2>3 DEF SameUsers, SameTransit, FlowRecord, newEfcpi, newBroken
  <2>6. g.efcpi[e] = "none" => h.efcpi[e] = "bound" /\ h.broken = g.broken
    BY <1>1, <1>2, <2>3 DEF SameUsers, SameTransit, FlowRecord, newEfcpi, newBroken
  <2>7. g.efcpi[e] # "none" => h.efcpi[e] = g.efcpi[e]
    BY <1>1, <1>2, <2>3 DEF SameUsers, SameTransit, FlowRecord, newEfcpi, newBroken
  <2>8. BindingsCreated(g, h, e)
    BY <2>3, <2>4, <2>5, <2>6, <2>7 DEF BindingsCreated, SameUsers, SameBooks, SameTransit
  <2> QED
    BY <2>2, <2>8 DEF h
<1>3. CASE g.efcpi[e] # "none"
  <2>1. h = [g EXCEPT !.broken = newBroken]
    BY <1>3 DEF CreateBindings
  <2> HIDE DEF h, newEfcpi, newBroken
  <2>2. h \in FlowRecord
    BY <1>1, <2>1 DEF FlowRecord
  <2>3. /\ h.broken = newBroken
        /\ SameUsers(g, h) /\ SameBooks(g, h) /\ SameTransit(g, h)
        /\ h.status = g.status /\ h.efcpi = g.efcpi
    BY <2>1 DEF FlowRecord, SameUsers, SameBooks, SameTransit
  <2>4. \A end \in Ends \ {e} : h.efcpi[end] = g.efcpi[end]
    BY <1>1, <1>3, <2>3 DEF SameUsers, SameTransit, FlowRecord, newEfcpi, newBroken
  <2>5. h.efcpi[e] # "none"
    BY <1>1, <1>3, <2>3 DEF SameUsers, SameTransit, FlowRecord, newEfcpi, newBroken
  <2>6. g.efcpi[e] = "none" => h.efcpi[e] = "bound" /\ h.broken = g.broken
    BY <1>1, <1>3, <2>3 DEF SameUsers, SameTransit, FlowRecord, newEfcpi, newBroken
  <2>7. g.efcpi[e] # "none" => h.efcpi[e] = g.efcpi[e]
    BY <1>1, <1>3, <2>3 DEF SameUsers, SameTransit, FlowRecord, newEfcpi, newBroken
  <2>8. BindingsCreated(g, h, e)
    BY <2>3, <2>4, <2>5, <2>6, <2>7 DEF BindingsCreated, SameUsers, SameBooks, SameTransit
  <2> QED
    BY <2>2, <2>8 DEF h
<1> QED
  BY <1>2, <1>3

LEMMA DeleteBindingsEffect ==
    ASSUME NEW g \in FlowRecord, NEW e \in Ends
    PROVE  /\ DeleteBindings(g, e) \in FlowRecord
           /\ BindingsDeleted(g, DeleteBindings(g, e), e)
<1> DEFINE h == DeleteBindings(g, e)
           newEfcpi == IF g.efcpi[e] = "bound" THEN [g.efcpi EXCEPT ![e] = "deleted"] ELSE g.efcpi
           newBroken == IF g.efcpi[e] = "bound" THEN g.broken ELSE TRUE
<1>1. /\ newEfcpi \in [Ends -> {"none", "bound", "deleted"}]
      /\ newBroken \in BOOLEAN
  BY DEF FlowRecord
<1>2. CASE g.efcpi[e] = "bound"
  <2>1. h = [g EXCEPT !.efcpi = newEfcpi]
    BY <1>2 DEF DeleteBindings
  <2> HIDE DEF h, newEfcpi, newBroken
  <2>2. h \in FlowRecord
    BY <1>1, <2>1 DEF FlowRecord
  <2>3. /\ h.efcpi = newEfcpi
        /\ SameUsers(g, h) /\ SameBooks(g, h) /\ SameTransit(g, h)
        /\ h.status = g.status /\ h.broken = g.broken
    BY <2>1 DEF FlowRecord, SameUsers, SameBooks, SameTransit
  <2>4. \A end \in Ends \ {e} : h.efcpi[end] = g.efcpi[end]
    BY <1>1, <1>2, <2>3 DEF SameUsers, SameTransit, FlowRecord, newEfcpi, newBroken
  <2>5. h.efcpi[e] = "none" <=> g.efcpi[e] = "none"
    BY <1>1, <1>2, <2>3 DEF SameUsers, SameTransit, FlowRecord, newEfcpi, newBroken
  <2>6. g.efcpi[e] = "bound" => h.broken = g.broken
    BY <1>1, <1>2, <2>3 DEF SameUsers, SameTransit, FlowRecord, newEfcpi, newBroken
  <2>7. BindingsDeleted(g, h, e)
    BY <2>3, <2>4, <2>5, <2>6 DEF BindingsDeleted, SameUsers, SameBooks, SameTransit
  <2> QED
    BY <2>2, <2>7 DEF h
<1>3. CASE g.efcpi[e] # "bound"
  <2>1. h = [g EXCEPT !.broken = newBroken]
    BY <1>3 DEF DeleteBindings
  <2> HIDE DEF h, newEfcpi, newBroken
  <2>2. h \in FlowRecord
    BY <1>1, <2>1 DEF FlowRecord
  <2>3. /\ h.broken = newBroken
        /\ SameUsers(g, h) /\ SameBooks(g, h) /\ SameTransit(g, h)
        /\ h.status = g.status /\ h.efcpi = g.efcpi
    BY <2>1 DEF FlowRecord, SameUsers, SameBooks, SameTransit
  <2>4. \A end \in Ends \ {e} : h.efcpi[end] = g.efcpi[end]
    BY <1>1, <1>3, <2>3 DEF SameUsers, SameTransit, FlowRecord, newEfcpi, newBroken
  <2>5. h.efcpi[e] = "none" <=> g.efcpi[e] = "none"
    BY <1>1, <1>3, <2>3 DEF SameUsers, SameTransit, FlowRecord, newEfcpi, newBroken
  <2>6. g.efcpi[e] = "bound" => h.broken = g.broken
    BY <1>1, <1>3, <2>3 DEF SameUsers, SameTransit, FlowRecord, newEfcpi, newBroken
  <2>7. BindingsDeleted(g, h, e)
    BY <2>3, <2>4, <2>5, <2>6 DEF BindingsDeleted, SameUsers, SameBooks, SameTransit
  <2> QED
    BY <2>2, <2>7 DEF h
<1> QED
  BY <1>2, <1>3

LEMMA DisconnectAEEffect ==
    ASSUME NEW g \in FlowRecord, NEW e \in Ends
    PROVE  /\ DisconnectAE(g, e) \in FlowRecord
           /\ Disconnected(g, DisconnectAE(g, e), e)
<1> DEFINE h == DisconnectAE(g, e)
           newAe == IF g.ae[e] = TRUE THEN [g.ae EXCEPT ![e] = FALSE] ELSE g.ae
           newBroken == IF g.ae[e] = TRUE THEN g.broken ELSE TRUE
<1>1. /\ newAe \in [Ends -> BOOLEAN]
      /\ newBroken \in BOOLEAN
  BY DEF FlowRecord
<1>2. CASE g.ae[e] = TRUE
  <2>1. h = [g EXCEPT !.ae = newAe]
    BY <1>2 DEF DisconnectAE
  <2> HIDE DEF h, newAe, newBroken
  <2>2. h \in FlowRecord
    BY <1>1, <2>1 DEF FlowRecord
  <2>3. /\ h.ae = newAe
        /\ SameBooks(g, h) /\ SameTransit(g, h) /\ h.status = g.status
        /\ h.efcpi = g.efcpi /\ h.con = g.con /\ h.told = g.told
        /\ h.broken = g.broken
    BY <2>1 DEF FlowRecord, SameUsers, SameBooks, SameTransit
  <2>4. \A end \in Ends \ {e} : h.ae[end] = g.ae[end]
    BY <1>1, <1>2, <2>3 DEF SameUsers, SameTransit, FlowRecord, newAe, newBroken
  <2>5. g.ae[e] = TRUE => h.broken = g.broken
    BY <1>1, <1>2, <2>3 DEF SameUsers, SameTransit, FlowRecord, newAe, newBroken
  <2>6. Disconnected(g, h, e)
    BY <2>3, <2>4, <2>5 DEF Disconnected, SameUsers, SameBooks, SameTransit
  <2> QED
    BY <2>2, <2>6 DEF h
<1>3. CASE g.ae[e] # TRUE
  <2>1. h = [g EXCEPT !.broken = newBroken]
    BY <1>3 DEF DisconnectAE
  <2> HIDE DEF h, newAe, newBroken
  <2>2. h \in FlowRecord
    BY <1>1, <2>1 DEF FlowRecord
  <2>3. /\ h.broken = newBroken
        /\ SameUsers(g, h) /\ SameBooks(g, h) /\ SameTransit(g, h)
        /\ h.status = g.status /\ h.efcpi = g.efcpi
    BY <2>1 DEF FlowRecord, SameUsers, SameBooks, SameTransit
  <2>4. \A end \in Ends \ {e} : h.ae[end] = g.ae[end]
    BY <1>1, <1>3, <2>3 DEF SameUsers, SameTransit, FlowRecord, newAe, newBroken
  <2>5. g.ae[e] = TRUE => h.broken = g.broken
    BY <1>1, <1>3, <2>3 DEF SameUsers, SameTransit, FlowRecord, newAe, newBroken
  <2>6. Disconnected(g, h, e)
    BY <2>3, <2>4, <2>5 DEF Disconnected, SameUsers, SameBooks, SameTransit
  <2> QED
    BY <2>2, <2>6 DEF h
<1> QED
  BY <1>2, <1>3

LEMMA AEInsertFlowEffect ==
    ASSUME NEW g \in FlowRecord, NEW e \in Ends
    PROVE  /\ AEInsertFlow(g, e) \in FlowRecord
           /\ Inserted(g, AEInsertFlow(g, e), e)
<1> DEFINE h == AEInsertFlow(g, e)
           newCon == [g.con EXCEPT ![e] = "nil"]
           newAe == [g.ae EXCEPT ![e] = TRUE]
<1>1. /\ newCon \in [Ends -> {"none", "nil", "connectpending", "error"}]
      /\ newAe \in [Ends -> BOOLEAN]
  BY DEF FlowRecord
<1>2. h = [g EXCEPT !.con = newCon, !.ae = newAe]
  BY DEF AEInsertFlow
<1> HIDE DEF h, newCon, newAe
<1>3. h \in FlowRecord
  BY <1>1, <1>2 DEF FlowRecord
<1>4. /\ h.con = newCon
      /\ h.ae = newAe
      /\ SameBooks(g, h) /\ SameTransit(g, h) /\ h.status = g.status
      /\ h.efcpi = g.efcpi /\ h.told = g.told /\ h.broken = g.broken
  BY <1>2 DEF FlowRecord, SameUsers, SameBooks, SameTransit
<1>5. Inserted(g, h, e)
  BY <1>4 DEF Inserted, newCon, newAe
<1> QED
  BY <1>3, <1>5 DEF h

LEMMA AllocationResponsePositiveEffect ==
    ASSUME NEW g \in FlowRecord, NEW e \in Ends
    PROVE  /\ AllocationResponsePositive(g, e) \in FlowRecord
           /\ Accepted(g, AllocationResponsePositive(g, e), e)
<1> DEFINE h == AllocationResponsePositive(g, e)
           newCon == [g.con EXCEPT ![e] = "connectpending"]
           newTold == [g.told EXCEPT ![e] = g.told[e] \cup {"positive"}]
<1>1. /\ newCon \in [Ends -> {"none", "nil", "connectpending", "error"}]
      /\ newTold \in [Ends -> SUBSET {"positive", "negative"}]
  BY DEF FlowRecord
<1>2. h = [g EXCEPT !.con = newCon, !.told = newTold]
  BY DEF AllocationResponsePositive
<1> HIDE DEF h, newCon, newTold
<1>3. h \in FlowRecord
  BY <1>1, <1>2 DEF FlowRecord
<1>4. /\ h.con = newCon
      /\ h.told = newTold
      /\ SameBooks(g, h) /\ SameTransit(g, h) /\ h.status = g.status
      /\ h.efcpi = g.efcpi /\ h.ae = g.ae /\ h.broken = g.broken
  BY <1>2 DEF FlowRecord, SameUsers, SameBooks, SameTransit
<1>5. Accepted(g, h, e)
  BY <1>4 DEF Accepted, newCon, newTold
<1> QED
  BY <1>3, <1>5 DEF h

LEMMA InsertEffect ==
    ASSUME NEW g \in FlowRecord, NEW to \in Ends, g.hop[to] > 0
    PROVE  /\ Insert(g, to) \in FlowRecord
           /\ Relayed(g, Insert(g, to), to)
<1> DEFINE h == Insert(g, to)
           newHop == [g.hop EXCEPT ![to] = g.hop[to] - 1]
           newRelay == Append(g.relay, [to |-> to, retries |-> IF to = "R" THEN g.retries ELSE 0,
                             status |-> "FORWARDING"])
<1>1. /\ newHop \in [Ends -> Nat]
      /\ newRelay \in Seq(RelayEntry)
  <2>1. g.hop[to] \in Nat /\ g.retries \in Nat /\ g.relay \in Seq(RelayEntry)
    BY DEF FlowRecord
  <2>2. [to |-> to, retries |-> IF to = "R" THEN g.retries ELSE 0, status |-> "FORWARDING"]
           \in RelayEntry
    BY <2>1 DEF RelayEntry
  <2>3. newHop \in [Ends -> Nat]
    BY <2>1 DEF FlowRecord
  <2> QED
    BY <2>1, <2>2, <2>3
<1>2. h = [g EXCEPT !.hop = newHop, !.relay = newRelay]
  BY DEF Insert
<1> HIDE DEF h, newHop, newRelay
<1>3. h \in FlowRecord
  BY <1>1, <1>2 DEF FlowRecord
<1>4. /\ h.hop = newHop
      /\ h.relay = newRelay
      /\ SameUsers(g, h) /\ SameBooks(g, h) /\ h.status = g.status
      /\ h.efcpi = g.efcpi /\ h.chan = g.chan /\ h.broken = g.broken
  BY <1>2 DEF FlowRecord, SameUsers, SameBooks, SameTransit
<1>5. Relayed(g, h, to)
  BY <1>4 DEF Relayed, newHop, newRelay
<1> QED
  BY <1>3, <1>5 DEF h

LEMMA CloseCountedEffect ==
    ASSUME NEW g \in FlowRecord
    PROVE  /\ [g EXCEPT !.closes = @ + 1] \in FlowRecord
           /\ CloseCounted(g, [g EXCEPT !.closes = @ + 1])
<1> DEFINE h == [g EXCEPT !.closes = @ + 1]
           newCloses == g.closes + 1
<1>1. newCloses \in Nat
  BY DEF FlowRecord
<1>2. h = [g EXCEPT !.closes = newCloses]
  OBVIOUS
<1> HIDE DEF h, newCloses
<1>3. h \in FlowRecord
  BY <1>1, <1>2 DEF FlowRecord
<1>4. /\ h.closes = newCloses
      /\ SameUsers(g, h) /\ SameTransit(g, h) /\ h.status = g.status
      /\ h.efcpi = g.efcpi /\ h.queued = g.queued /\ h.retries = g.retries
      /\ h.broken = g.broken
  BY <1>2 DEF FlowRecord, SameUsers, SameBooks, SameTransit
<1>5. CloseCounted(g, h)
  BY <1>4 DEF CloseCounted, newCloses
<1> QED
  BY <1>3, <1>5 DEF h

LEMMA CountRetryEffect ==
    ASSUME NEW g \in FlowRecord
    PROVE  /\ CountRetry(g) \in FlowRecord
           /\ RetryCounted(g, CountRetry(g))
<1> DEFINE h == CountRetry(g)
           newRetries == IF AllocateRetry = "NoRetry" THEN g.retries ELSE g.retries + 1
<1>1. newRetries \in Nat
  BY DEF FlowRecord
<1>2. h = [g EXCEPT !.retries = newRetries]
  BY DEF CountRetry, FlowRecord
<1> HIDE DEF h, newRetries
<1>3. h \in FlowRecord
  BY <1>1, <1>2 DEF FlowRecord
<1>4. /\ h.retries = newRetries
      /\ SameUsers(g, h) /\ SameTransit(g, h) /\ h.status = g.status
      /\ h.efcpi = g.efcpi /\ h.queued = g.queued /\ h.closes = g.closes
      /\ h.broken = g.broken
  BY <1>2 DEF FlowRecord, SameUsers, SameBooks, SameTransit
<1>5. RetryCounted(g, h)
  BY <1>4 DEF RetryCounted, newRetries
<1> QED
  BY <1>3, <1>5 DEF h

LEMMA QueuedSetEffect ==
    ASSUME NEW g \in FlowRecord, NEW queued \in BOOLEAN
    PROVE  /\ [g EXCEPT !.queued = queued] \in FlowRecord
           /\ QueuedSet(g, [g EXCEPT !.queued = queued], queued)
<1> DEFINE h == [g EXCEPT !.queued = queued]
           newQueued == queued
<1>1. newQueued \in BOOLEAN
  BY DEF FlowRecord
<1>2. h = [g EXCEPT !.queued = newQueued]
  OBVIOUS
<1> HIDE DEF h, newQueued
<1>3. h \in FlowRecord
  BY <1>1, <1>2 DEF FlowRecord
<1>4. /\ h.queued = newQueued
      /\ SameUsers(g, h) /\ SameTransit(g, h) /\ h.status = g.status
      /\ h.efcpi = g.efcpi /\ h.retries = g.retries /\ h.closes = g.closes
      /\ h.broken = g.broken
  BY <1>2 DEF FlowRecord, SameUsers, SameBooks, SameTransit
<1>5. QueuedSet(g, h, queued)
  BY <1>4 DEF QueuedSet, newQueued
<1> QED
  BY <1>3, <1>5 DEF h

LEMMA MessageTakenEffect ==
    ASSUME NEW g \in FlowRecord, NEW e \in Ends, g.chan[e] # <<>>
    PROVE  /\ [g EXCEPT !.chan[e] = Tail(@)] \in FlowRecord
           /\ MessageTaken(g, [g EXCEPT !.chan[e] = Tail(@)], e)
<1> DEFINE h == [g EXCEPT !.chan[e] = Tail(@)]
           newChan == [g.chan EXCEPT ![e] = Tail(g.chan[e])]
<1>1. newChan \in [Ends -> Seq(Message)]
  BY DEF FlowRecord
<1>2. h = [g EXCEPT !.chan = newChan]
  OBVIOUS
<1> HIDE DEF h, newChan
<1>3. h \in FlowRecord
  BY <1>1, <1>2 DEF FlowRecord
<1>4. /\ h.chan = newChan
      /\ SameUsers(g, h) /\ SameBooks(g, h) /\ h.status = g.status
      /\ h.efcpi = g.efcpi /\ h.hop = g.hop /\ h.relay = g.relay
      /\ h.broken = g.broken
  BY <1>2 DEF FlowRecord, SameUsers, SameBooks, SameTransit
<1>5. MessageTaken(g, h, e)
  BY <1>4 DEF MessageTaken, newChan
<1> QED
  BY <1>3, <1>5 DEF h

LEMMA AllocationResponseNegativeEffect ==
    ASSUME NEW g \in FlowRecord, NEW e \in Ends
    PROVE  /\ AllocationResponseNegative(g, e) \in FlowRecord
           /\ Declined(g, AllocationResponseNegative(g, e), e)
<1> DEFINE h == AllocationResponseNegative(g, e)
<1>1. CASE g.con[e] = "none"
  <2>1. h = g
    BY <1>1 DEF AllocationResponseNegative
  <2> QED
    BY <2>1 DEF Declined, SameBooks, SameTransit
<1>2. CASE g.con[e] # "none"
  <2> DEFINE newCon == [g.con EXCEPT ![e] = "error"]
             newTold == [g.told EXCEPT ![e] = g.told[e] \cup {"negative"}]
             m == [g EXCEPT !.con = newCon, !.told = newTold]
  <2>1. /\ newCon \in [Ends -> {"none", "nil", "connectpending", "error"}]
        /\ newTold \in [Ends -> SUBSET {"positive", "negative"}]
    BY DEF FlowRecord
  <2>2. h = DisconnectAE(m, e)
    BY <1>2 DEF AllocationResponseNegative
  <2>3. /\ \A end \in Ends : newCon[end] = g.con[end] \/ newCon[end] = "error"
        /\ \A end \in Ends \ {e} : newTold[end] = g.told[end]
        /\ newTold[e] = g.told[e] \cup {"negative"}
    BY DEF FlowRecord
  <2> HIDE DEF h, newCon, newTold
  <2>4. m \in FlowRecord
    BY <2>1 DEF FlowRecord
  <2>5. /\ m.con = newCon /\ m.told = newTold
        /\ m.status = g.status /\ m.efcpi = g.efcpi /\ m.ae = g.ae
        /\ SameBooks(g, m) /\ SameTransit(g, m) /\ m.broken = g.broken
    BY DEF FlowRecord, SameBooks, SameTransit
  <2> HIDE DEF m
  <2>6. h \in FlowRecord /\ Disconnected(m, h, e)
    BY <2>2, <2>4, DisconnectAEEffect
  <2>7. /\ h.con = newCon /\ h.told = newTold /\ h.status = g.status /\ h.efcpi = g.efcpi
        /\ SameBooks(g, h) /\ SameTransit(g, h)
    BY <2>5, <2>6 DEF Disconnected, SameBooks, SameTransit
  <2>8. /\ \A end \in Ends \ {e} : h.ae[end] = g.ae[end]
        /\ g.ae[e] = TRUE => h.broken = g.broken
    BY <2>5, <2>6 DEF Disconnected
  <2>9. Declined(g, h, e)
    BY <2>3, <2>7, <2>8 DEF Declined
  <2> QED
    BY <2>6, <2>9 DEF h
<1> QED
  BY <1>1, <1>2

\* NFlowTable::changeAllocStatus at the relay.
LEMMA SetFirstKeeps ==
    ASSUME NEW table \in Seq(RelayEntry), NEW keys,
           NEW status \in {"ALLOC_ERR", "FORWARDING", "FORWARDED"}
    PROVE  /\ SetFirst(table, keys, status) \in Seq(RelayEntry)
           /\ Len(SetFirst(table, keys, status)) = Len(table)
           /\ \A i \in 1..Len(table) : SetFirst(table, keys, status)[i].to = table[i].to
<1> DEFINE entry(i) == IF Key(table[i]) \in keys
                             /\ \A j \in 1..(i - 1) : Key(table[j]) # Key(table[i])
                       THEN [table[i] EXCEPT !.status = status] ELSE table[i]
<1>1. DOMAIN table = 1..Len(table) /\ Len(table) \in Nat
  OBVIOUS
<1>2. SetFirst(table, keys, status) = [i \in 1..Len(table) |-> entry(i)]
  BY <1>1 DEF SetFirst
<1>3. ASSUME NEW i \in 1..Len(table)
      PROVE  entry(i) \in RelayEntry /\ entry(i).to = table[i].to
  <2>1. table[i] \in RelayEntry
    OBVIOUS
  <2>2. /\ [table[i] EXCEPT !.status = status] \in RelayEntry
        /\ [table[i] EXCEPT !.status = status].to = table[i].to
    BY <2>1 DEF RelayEntry
  <2> QED
    BY <2>1, <2>2
<1> HIDE DEF entry
<1> DEFINE after == [i \in 1..Len(table) |-> entry(i)]
<1>4. after \in Seq(RelayEntry) /\ Len(after) = Len(table)
  BY <1>1, <1>3
<1>5. \A i \in 1..Len(table) : after[i].to = table[i].to
  BY <1>3
<1> QED
  BY <1>2, <1>4, <1>5

LEMMA NM1FlowCreatedEffect ==
    ASSUME NEW g \in FlowRecord, NEW to \in Ends, NEW entries, IsFiniteSet(entries)
    PROVE  /\ NM1FlowCreated(g, to, entries) \in FlowRecord
           /\ Forwarded(g, NM1FlowCreated(g, to, entries), to, Cardinality(entries))
<1> DEFINE h == NM1FlowCreated(g, to, entries)
           newRelay == SetFirst(g.relay, {Key(g.relay[i]) : i \in entries}, "FORWARDED")
           n == Cardinality(entries)
           newChan == [g.chan EXCEPT ![to] = g.chan[to] \o [i \in 1..n |-> "M_CREATE"]]
<1>1. g.relay \in Seq(RelayEntry) /\ g.chan \in [Ends -> Seq(Message)]
  BY DEF FlowRecord
<1>2. n \in Nat /\ g.chan[to] \in Seq(Message)
  BY <1>1, FS_CardinalityType
<1>3. g.chan[to] \o [i \in 1..n |-> "M_CREATE"] \in Seq(Message)
  <2> DEFINE c == g.chan[to]
  <2> HIDE DEF n, c
  <2>1. c \o [i \in 1..n |-> "M_CREATE"] \in Seq(Message)
    <3>1. [i \in 1..n |-> "M_CREATE"] \in Seq(Message)
      BY <1>2 DEF Message
    <3>2. c \in Seq(Message)
      BY <1>2 DEF c
    <3> QED
      BY <3>1, <3>2
  <2> QED
    BY <2>1 DEF c
<1>4. newChan \in [Ends -> Seq(Message)]
  BY <1>1, <1>3
<1>5. /\ newRelay \in Seq(RelayEntry)
      /\ Len(newRelay) = Len(g.relay)
      /\ \A i \in 1..Len(g.relay) : newRelay[i].to = g.relay[i].to
  <2> DEFINE keys == {Key(g.relay[i]) : i \in entries}
  <2> HIDE DEF keys
  <2>1. /\ SetFirst(g.relay, keys, "FORWARDED") \in Seq(RelayEntry)
        /\ Len(SetFirst(g.relay, keys, "FORWARDED")) = Len(g.relay)
        /\ \A i \in 1..Len(g.relay) :
              SetFirst(g.relay, keys, "FORWARDED")[i].to = g.relay[i].to
    BY <1>1, SetFirstKeeps
  <2> QED
    BY <2>1 DEF keys
<1>6. h = [g EXCEPT !.relay = newRelay, !.chan = newChan]
  BY DEF NM1FlowCreated
<1> HIDE DEF h, newRelay, newChan
<1>7. h \in FlowRecord
  BY <1>4, <1>5, <1>6 DEF FlowRecord
<1>8. /\ h.relay = newRelay /\ h.chan = newChan
      /\ SameUsers(g, h) /\ SameBooks(g, h) /\ h.status = g.status
      /\ h.efcpi = g.efcpi /\ h.hop = g.hop /\ h.broken = g.broken
  BY <1>6 DEF FlowRecord, SameUsers, SameBooks
<1>9. Forwarded(g, h, to, n)
  BY <1>5, <1>8 DEF Forwarded, newChan
<1> QED
  BY <1>7, <1>9 DEF h

-----------------------------------------------------------------------------
(* What the handlers do.                                                     *)

\* FAI::receiveDeleteRequest at an end that is open.
Released(g, h, e) ==
    /\ h.status = [g.status EXCEPT ![e] = "DEALLOCATED"]
    /\ h.chan = [g.chan EXCEPT ![Peer(e)] = Append(g.chan[Peer(e)], "M_DELETE_R")]
    /\ \A end \in Ends \ {e} : h.ae[end] = g.ae[end]
    /\ \A end \in Ends \ {e} : h.efcpi[end] = g.efcpi[end]
    /\ h.efcpi[e] = "none" <=> g.efcpi[e] = "none"
    /\ g.ae[e] = TRUE /\ g.efcpi[e] = "bound" => h.broken = g.broken
    /\ h.con = g.con /\ h.told = g.told
    /\ h.hop = g.hop /\ h.relay = g.relay /\ SameBooks(g, h)

\* FAI::receiveDeleteResponse at an end that waits for it.
ReleaseAnswered(g, h, e) ==
    /\ h.status = [g.status EXCEPT ![e] = "DEALLOCATED"]
    /\ \A end \in Ends \ {e} : h.ae[end] = g.ae[end]
    /\ g.ae[e] = TRUE => h.broken = g.broken
    /\ h.con = g.con /\ h.told = g.told /\ h.efcpi = g.efcpi
    /\ SameTransit(g, h) /\ SameBooks(g, h)

\* FA::receiveAllocateRequest: the AE and the NFlowTable have the flow.
AllocationAsked(g, h) ==
    /\ h.status = [g.status EXCEPT !["I"] = "ALLOC_PEND"]
    /\ h.con = [g.con EXCEPT !["I"] = "nil"]
    /\ h.ae = [g.ae EXCEPT !["I"] = TRUE]
    /\ h.told = g.told /\ h.efcpi = g.efcpi /\ h.broken = g.broken
    /\ SameTransit(g, h) /\ SameBooks(g, h)

\* The initiating end is refused: the user of a flow that waits hears of it.
GivenUp(g, h) ==
    /\ h.status = [g.status EXCEPT !["I"] = "ALLOC_NEGA"]
    /\ \A end \in Ends : h.con[end] = g.con[end] \/ h.con[end] = "error"
    /\ h.told["R"] = g.told["R"] /\ h.told["I"] \subseteq g.told["I"] \cup {"negative"}
    /\ h.ae["R"] = g.ae["R"]
    /\ g.ae["I"] = TRUE => h.broken = g.broken
    /\ h.efcpi = g.efcpi /\ SameTransit(g, h) /\ h.queued = g.queued /\ h.closes = g.closes

\* FAI::receiveCreateResponsePositive.
Opens(g, h) ==
    /\ h.status = [g.status EXCEPT !["I"] = "TRANSFER"]
    /\ h.con = [g.con EXCEPT !["I"] = "connectpending"]
    /\ h.told = [g.told EXCEPT !["I"] = g.told["I"] \cup {"positive"}]
    /\ h.efcpi = g.efcpi /\ h.ae = g.ae /\ h.broken = g.broken
    /\ SameTransit(g, h) /\ SameBooks(g, h)

\* FAI::receiveAllocateResponseNegative.
RefusedByUser(g, h) ==
    /\ h.status = [g.status EXCEPT !["R"] = "ALLOC_NEGA"]
    /\ h.chan = [g.chan EXCEPT !["I"] = Append(g.chan["I"], "M_CREATE_R-")]
    /\ h.efcpi = g.efcpi /\ SameUsers(g, h) /\ h.broken = g.broken
    /\ SameBooks(g, h) /\ h.hop = g.hop /\ h.relay = g.relay

\* FA::receiveDeallocateRequest and FAI::receiveDeallocateRequest.
DeallocationAsked(g, h, e) ==
    /\ h.status = [g.status EXCEPT ![e] = "DEALLOC_PEND"]
    /\ h.chan = [g.chan EXCEPT ![Peer(e)] = Append(g.chan[Peer(e)], "M_DELETE")]
    /\ h.closes = g.closes + 1
    /\ \A end \in Ends \ {e} : h.efcpi[end] = g.efcpi[end]
    /\ h.efcpi[e] = "none" <=> g.efcpi[e] = "none"
    /\ g.efcpi[e] = "bound" => h.broken = g.broken
    /\ SameUsers(g, h) /\ h.hop = g.hop /\ h.relay = g.relay
    /\ h.queued = g.queued /\ h.retries = g.retries

\* The user accepts; its answer goes to the initiator.
AcceptedSending(g, h) ==
    /\ h.status = [g.status EXCEPT !["R"] = "TRANSFER"]
    /\ h.chan = [g.chan EXCEPT !["I"] = Append(g.chan["I"], "M_CREATE_R+")]
    /\ h.con = [g.con EXCEPT !["R"] = "connectpending"]
    /\ h.ae = [g.ae EXCEPT !["R"] = TRUE]
    /\ h.told = [g.told EXCEPT !["R"] = g.told["R"] \cup {"positive"}]
    /\ h.efcpi["I"] = g.efcpi["I"] /\ h.efcpi["R"] # "none"
    /\ g.efcpi["R"] = "none" => h.efcpi["R"] = "bound" /\ h.broken = g.broken
    /\ SameBooks(g, h) /\ h.hop = g.hop /\ h.relay = g.relay

\* The user accepts; its answer waits for the (N-1)-flow.
AcceptedHolding(g, h) ==
    /\ h.status = [g.status EXCEPT !["R"] = "TRANSFER"]
    /\ h.chan = g.chan
    /\ h.con = [g.con EXCEPT !["R"] = "connectpending"]
    /\ h.ae = [g.ae EXCEPT !["R"] = TRUE]
    /\ h.told = [g.told EXCEPT !["R"] = g.told["R"] \cup {"positive"}]
    /\ h.efcpi["I"] = g.efcpi["I"] /\ h.efcpi["R"] # "none"
    /\ g.efcpi["R"] = "none" => h.efcpi["R"] = "bound" /\ h.broken = g.broken
    /\ SameBooks(g, h) /\ h.hop = g.hop /\ h.relay = g.relay

\* An M_CREATE is sent again.
Retried(g, h) ==
    /\ h.hop = IF HasRelay THEN [g.hop EXCEPT !["R"] = g.hop["R"] + 1] ELSE g.hop
    /\ h.chan = IF HasRelay THEN g.chan
              ELSE [g.chan EXCEPT !["R"] = Append(g.chan["R"], "M_CREATE")]
    /\ h.status = g.status /\ h.efcpi = g.efcpi /\ SameUsers(g, h) /\ h.broken = g.broken
    /\ h.queued = g.queued /\ h.closes = g.closes /\ h.relay = g.relay

LEMMA DeleteRequestEffect ==
    ASSUME NEW g \in FlowRecord, NEW e \in Ends, g.status[e] = "TRANSFER"
    PROVE  /\ ReceiveDeleteRequest(g, e) \in FlowRecord
           /\ Released(g, ReceiveDeleteRequest(g, e), e)
<1> DEFINE m1 == DisconnectAE(g, e)
           m2 == DeleteBindings(m1, e)
           m3 == Send(m2, Peer(e), "M_DELETE_R")
           h == ChangeAllocStatus(m3, e, "DEALLOCATED")
<1>1. ReceiveDeleteRequest(g, e) = h
  BY DEF ReceiveDeleteRequest, DeallocationRequestFromFAI
<1>2. /\ Peer(e) \in Ends
      /\ "DEALLOCATED" \in Status
      /\ "M_DELETE_R" \in Message
      /\ "I" \in Ends /\ "R" \in Ends
  BY DEF Ends, Peer, Status, Message
<1>3. m1 \in FlowRecord /\ Disconnected(g, m1, e)
  BY <1>2, DisconnectAEEffect
<1> HIDE DEF m1
<1>4. m2 \in FlowRecord /\ BindingsDeleted(m1, m2, e)
  BY <1>2, <1>3, DeleteBindingsEffect
<1> HIDE DEF m2
<1>5. m3 \in FlowRecord /\ Sent(m2, m3, Peer(e), "M_DELETE_R")
  BY <1>2, <1>4, SendEffect
<1> HIDE DEF m3
<1>6. h \in FlowRecord /\ StatusChanged(m3, h, e, "DEALLOCATED")
  BY <1>2, <1>5, ChangeAllocStatusEffect
<1> HIDE DEF h
<1>7. Released(g, h, e)
  BY <1>2, <1>3, <1>4, <1>5, <1>6 DEF Released, Disconnected, BindingsDeleted, Sent, StatusChanged, SameUsers, SameBooks, SameTransit
<1> QED
  BY <1>1, <1>6, <1>7

LEMMA DeleteResponseEffect ==
    ASSUME NEW g \in FlowRecord, NEW e \in Ends, g.status[e] = "DEALLOC_PEND"
    PROVE  /\ ReceiveDeleteResponse(g, e) \in FlowRecord
           /\ ReleaseAnswered(g, ReceiveDeleteResponse(g, e), e)
<1> DEFINE m1 == DisconnectAE(g, e)
           h == ChangeAllocStatus(m1, e, "DEALLOCATED")
<1>1. ReceiveDeleteResponse(g, e) = h
  BY DEF ReceiveDeleteResponse, DeallocationRequestFromFAI
<1>2. /\ "DEALLOCATED" \in Status
      /\ "I" \in Ends /\ "R" \in Ends
  BY DEF Ends, Peer, Status, Message
<1>3. m1 \in FlowRecord /\ Disconnected(g, m1, e)
  BY <1>2, DisconnectAEEffect
<1> HIDE DEF m1
<1>4. h \in FlowRecord /\ StatusChanged(m1, h, e, "DEALLOCATED")
  BY <1>2, <1>3, ChangeAllocStatusEffect
<1> HIDE DEF h
<1>5. ReleaseAnswered(g, h, e)
  BY <1>2, <1>3, <1>4 DEF ReleaseAnswered, Disconnected, StatusChanged, SameUsers, SameBooks, SameTransit
<1> QED
  BY <1>1, <1>4, <1>5

LEMMA AskedEffect ==
    ASSUME NEW g \in FlowRecord
    PROVE  /\ ChangeAllocStatus(AEInsertFlow(g, "I"), "I", "ALLOC_PEND") \in FlowRecord
           /\ AllocationAsked(g, ChangeAllocStatus(AEInsertFlow(g, "I"), "I", "ALLOC_PEND"))
<1> DEFINE m1 == AEInsertFlow(g, "I")
           h == ChangeAllocStatus(m1, "I", "ALLOC_PEND")
<1>1. ChangeAllocStatus(AEInsertFlow(g, "I"), "I", "ALLOC_PEND") = h
  OBVIOUS
<1>2. /\ "ALLOC_PEND" \in Status
      /\ "I" \in Ends /\ "R" \in Ends
  BY DEF Ends, Peer, Status, Message
<1>3. m1 \in FlowRecord /\ Inserted(g, m1, "I")
  BY <1>2, AEInsertFlowEffect
<1> HIDE DEF m1
<1>4. h \in FlowRecord /\ StatusChanged(m1, h, "I", "ALLOC_PEND")
  BY <1>2, <1>3, ChangeAllocStatusEffect
<1> HIDE DEF h
<1>5. AllocationAsked(g, h)
  BY <1>2, <1>3, <1>4 DEF AllocationAsked, Inserted, StatusChanged, SameUsers, SameBooks, SameTransit
<1> QED
  BY <1>1, <1>4, <1>5

LEMMA GivenUpEffect ==
    ASSUME NEW g \in FlowRecord
    PROVE  /\ AllocationResponseNegative(ChangeAllocStatus(g, "I", "ALLOC_NEGA"), "I") \in FlowRecord
           /\ GivenUp(g, AllocationResponseNegative(ChangeAllocStatus(g, "I", "ALLOC_NEGA"), "I"))
<1> DEFINE m1 == ChangeAllocStatus(g, "I", "ALLOC_NEGA")
           h == AllocationResponseNegative(m1, "I")
<1>1. AllocationResponseNegative(ChangeAllocStatus(g, "I", "ALLOC_NEGA"), "I") = h
  OBVIOUS
<1>2. /\ "ALLOC_NEGA" \in Status
      /\ "I" \in Ends /\ "R" \in Ends
  BY DEF Ends, Peer, Status, Message
<1>3. m1 \in FlowRecord /\ StatusChanged(g, m1, "I", "ALLOC_NEGA")
  BY <1>2, ChangeAllocStatusEffect
<1> HIDE DEF m1
<1>4. h \in FlowRecord /\ Declined(m1, h, "I")
  BY <1>2, <1>3, AllocationResponseNegativeEffect
<1> HIDE DEF h
<1>5. GivenUp(g, h)
  BY <1>2, <1>3, <1>4 DEF GivenUp, StatusChanged, Declined, SameUsers, SameBooks, SameTransit, Ends
<1> QED
  BY <1>1, <1>4, <1>5

LEMMA OpenEffect ==
    ASSUME NEW g \in FlowRecord
    PROVE  /\ ReceiveCreateResponsePositive(g) \in FlowRecord
           /\ Opens(g, ReceiveCreateResponsePositive(g))
<1> DEFINE m1 == ChangeAllocStatus(g, "I", "TRANSFER")
           h == AllocationResponsePositive(m1, "I")
<1>1. ReceiveCreateResponsePositive(g) = h
  BY DEF ReceiveCreateResponsePositive
<1>2. /\ "TRANSFER" \in Status
      /\ "I" \in Ends /\ "R" \in Ends
  BY DEF Ends, Peer, Status, Message
<1>3. m1 \in FlowRecord /\ StatusChanged(g, m1, "I", "TRANSFER")
  BY <1>2, ChangeAllocStatusEffect
<1> HIDE DEF m1
<1>4. h \in FlowRecord /\ Accepted(m1, h, "I")
  BY <1>2, <1>3, AllocationResponsePositiveEffect
<1> HIDE DEF h
<1>5. Opens(g, h)
  BY <1>2, <1>3, <1>4 DEF Opens, StatusChanged, Accepted, SameUsers, SameBooks, SameTransit
<1> QED
  BY <1>1, <1>4, <1>5

LEMMA RefuseEffect ==
    ASSUME NEW g \in FlowRecord
    PROVE  /\ ReceiveAllocateResponseNegative(g) \in FlowRecord
           /\ RefusedByUser(g, ReceiveAllocateResponseNegative(g))
<1> DEFINE m1 == ChangeAllocStatus(g, "R", "ALLOC_NEGA")
           h == Send(m1, "I", "M_CREATE_R-")
<1>1. ReceiveAllocateResponseNegative(g) = h
  BY DEF ReceiveAllocateResponseNegative
<1>2. /\ "ALLOC_NEGA" \in Status
      /\ "M_CREATE_R-" \in Message
      /\ "I" \in Ends /\ "R" \in Ends
  BY DEF Ends, Peer, Status, Message
<1>3. m1 \in FlowRecord /\ StatusChanged(g, m1, "R", "ALLOC_NEGA")
  BY <1>2, ChangeAllocStatusEffect
<1> HIDE DEF m1
<1>4. h \in FlowRecord /\ Sent(m1, h, "I", "M_CREATE_R-")
  BY <1>2, <1>3, SendEffect
<1> HIDE DEF h
<1>5. RefusedByUser(g, h)
  BY <1>2, <1>3, <1>4 DEF RefusedByUser, StatusChanged, Sent, SameUsers, SameBooks, SameTransit
<1> QED
  BY <1>1, <1>4, <1>5

LEMMA DeallocateEffect ==
    ASSUME NEW g \in FlowRecord, NEW e \in Ends
    PROVE  /\ ReceiveDeallocateRequest(g, e) \in FlowRecord
           /\ DeallocationAsked(g, ReceiveDeallocateRequest(g, e), e)
<1> DEFINE m1 == [g EXCEPT !.closes = @ + 1]
           m2 == ChangeAllocStatus(m1, e, "DEALLOC_PEND")
           m3 == DeleteBindings(m2, e)
           h == Send(m3, Peer(e), "M_DELETE")
<1>1. ReceiveDeallocateRequest(g, e) = h
  BY DEF ReceiveDeallocateRequest
<1>2. /\ Peer(e) \in Ends
      /\ "DEALLOC_PEND" \in Status
      /\ "M_DELETE" \in Message
      /\ "I" \in Ends /\ "R" \in Ends
  BY DEF Ends, Peer, Status, Message
<1>3. m1 \in FlowRecord /\ CloseCounted(g, m1)
  BY <1>2, CloseCountedEffect
<1> HIDE DEF m1
<1>4. m2 \in FlowRecord /\ StatusChanged(m1, m2, e, "DEALLOC_PEND")
  BY <1>2, <1>3, ChangeAllocStatusEffect
<1> HIDE DEF m2
<1>5. m3 \in FlowRecord /\ BindingsDeleted(m2, m3, e)
  BY <1>2, <1>4, DeleteBindingsEffect
<1> HIDE DEF m3
<1>6. h \in FlowRecord /\ Sent(m3, h, Peer(e), "M_DELETE")
  BY <1>2, <1>5, SendEffect
<1> HIDE DEF h
<1>7. DeallocationAsked(g, h, e)
  BY <1>2, <1>3, <1>4, <1>5, <1>6 DEF DeallocationAsked, CloseCounted, StatusChanged, BindingsDeleted, Sent, SameUsers, SameBooks, SameTransit
<1> QED
  BY <1>1, <1>6, <1>7

LEMMA AcceptSent ==
    ASSUME NEW g \in FlowRecord
    PROVE  /\ UserAnswers(ChangeAllocStatus(g, "R", "ALLOC_PEND"), "accept", TRUE) \in FlowRecord
           /\ AcceptedSending(g, UserAnswers(ChangeAllocStatus(g, "R", "ALLOC_PEND"), "accept", TRUE))
<1> DEFINE m1 == ChangeAllocStatus(g, "R", "ALLOC_PEND")
           m2 == CreateBindings(m1, "R")
           m3 == ChangeAllocStatus(m2, "R", "TRANSFER")
           m4 == Send(m3, "I", "M_CREATE_R+")
           m5 == AEInsertFlow(m4, "R")
           h == AllocationResponsePositive(m5, "R")
<1>1. UserAnswers(ChangeAllocStatus(g, "R", "ALLOC_PEND"), "accept", TRUE) = h
  BY DEF UserAnswers, ReceiveAllocateResponsePositive
<1>2. /\ "ALLOC_PEND" \in Status
      /\ "TRANSFER" \in Status
      /\ "M_CREATE_R+" \in Message
      /\ "I" \in Ends /\ "R" \in Ends
  BY DEF Ends, Peer, Status, Message
<1>3. m1 \in FlowRecord /\ StatusChanged(g, m1, "R", "ALLOC_PEND")
  BY <1>2, ChangeAllocStatusEffect
<1> HIDE DEF m1
<1>4. m2 \in FlowRecord /\ BindingsCreated(m1, m2, "R")
  BY <1>2, <1>3, CreateBindingsEffect
<1> HIDE DEF m2
<1>5. m3 \in FlowRecord /\ StatusChanged(m2, m3, "R", "TRANSFER")
  BY <1>2, <1>4, ChangeAllocStatusEffect
<1> HIDE DEF m3
<1>6. m4 \in FlowRecord /\ Sent(m3, m4, "I", "M_CREATE_R+")
  BY <1>2, <1>5, SendEffect
<1> HIDE DEF m4
<1>7. m5 \in FlowRecord /\ Inserted(m4, m5, "R")
  BY <1>2, <1>6, AEInsertFlowEffect
<1> HIDE DEF m5
<1>8. h \in FlowRecord /\ Accepted(m5, h, "R")
  BY <1>2, <1>7, AllocationResponsePositiveEffect
<1> HIDE DEF h
<1>9. AcceptedSending(g, h)
  BY <1>2, <1>3, <1>4, <1>5, <1>6, <1>7, <1>8 DEF AcceptedSending, StatusChanged, BindingsCreated, Sent, Inserted, Accepted, SameUsers, SameBooks, SameTransit, Ends
<1> QED
  BY <1>1, <1>8, <1>9

LEMMA AcceptHeld ==
    ASSUME NEW g \in FlowRecord
    PROVE  /\ UserAnswers(ChangeAllocStatus(g, "R", "ALLOC_PEND"), "accept", FALSE) \in FlowRecord
           /\ AcceptedHolding(g, UserAnswers(ChangeAllocStatus(g, "R", "ALLOC_PEND"), "accept", FALSE))
<1> DEFINE m1 == ChangeAllocStatus(g, "R", "ALLOC_PEND")
           m2 == CreateBindings(m1, "R")
           m3 == ChangeAllocStatus(m2, "R", "TRANSFER")
           m4 == AEInsertFlow(m3, "R")
           h == AllocationResponsePositive(m4, "R")
<1>1. UserAnswers(ChangeAllocStatus(g, "R", "ALLOC_PEND"), "accept", FALSE) = h
  BY DEF UserAnswers, ReceiveAllocateResponsePositive
<1>2. /\ "ALLOC_PEND" \in Status
      /\ "TRANSFER" \in Status
      /\ "I" \in Ends /\ "R" \in Ends
  BY DEF Ends, Peer, Status, Message
<1>3. m1 \in FlowRecord /\ StatusChanged(g, m1, "R", "ALLOC_PEND")
  BY <1>2, ChangeAllocStatusEffect
<1> HIDE DEF m1
<1>4. m2 \in FlowRecord /\ BindingsCreated(m1, m2, "R")
  BY <1>2, <1>3, CreateBindingsEffect
<1> HIDE DEF m2
<1>5. m3 \in FlowRecord /\ StatusChanged(m2, m3, "R", "TRANSFER")
  BY <1>2, <1>4, ChangeAllocStatusEffect
<1> HIDE DEF m3
<1>6. m4 \in FlowRecord /\ Inserted(m3, m4, "R")
  BY <1>2, <1>5, AEInsertFlowEffect
<1> HIDE DEF m4
<1>7. h \in FlowRecord /\ Accepted(m4, h, "R")
  BY <1>2, <1>6, AllocationResponsePositiveEffect
<1> HIDE DEF h
<1>8. AcceptedHolding(g, h)
  BY <1>2, <1>3, <1>4, <1>5, <1>6, <1>7 DEF AcceptedHolding, StatusChanged, BindingsCreated, Inserted, Accepted, SameUsers, SameBooks, SameTransit, Ends
<1> QED
  BY <1>1, <1>7, <1>8

LEMMA RetryEffect ==
    ASSUME NEW g \in FlowRecord
    PROVE  /\ SendCreateRequestFlow(CountRetry(g), "R") \in FlowRecord
           /\ Retried(g, SendCreateRequestFlow(CountRetry(g), "R"))
<1> DEFINE m1 == CountRetry(g)
           h == SendCreateRequestFlow(m1, "R")
<1>1. SendCreateRequestFlow(CountRetry(g), "R") = h
  OBVIOUS
<1>2. /\ "I" \in Ends /\ "R" \in Ends
  BY DEF Ends, Peer, Status, Message
<1>3. m1 \in FlowRecord /\ RetryCounted(g, m1)
  BY <1>2, CountRetryEffect
<1> HIDE DEF m1
<1>4. h \in FlowRecord /\ CreateSent(m1, h, "R")
  BY <1>2, <1>3, SendCreateRequestFlowEffect
<1> HIDE DEF h
<1>5. Retried(g, h)
  BY <1>2, <1>3, <1>4 DEF Retried, RetryCounted, CreateSent, SameUsers, SameBooks, SameTransit
<1> QED
  BY <1>1, <1>4, <1>5

\* FA::receiveCreateFlowRequestFromRibd at the relay: the M_CREATE is refused, or forwarded,
\* or waits for the (N-1)-flow.
CreateRelayed(g, h, to) ==
    /\ SameUsers(g, h) /\ SameBooks(g, h) /\ h.status = g.status
    /\ h.efcpi = g.efcpi /\ h.broken = g.broken
    /\ h.hop = [g.hop EXCEPT ![to] = g.hop[to] - 1]
    /\ Len(h.relay) = Len(g.relay) + 1
    /\ h.relay[Len(g.relay) + 1].to = to
    /\ \A i \in 1..Len(g.relay) : h.relay[i].to = g.relay[i].to
    /\ \/ /\ HopCountAtRelay(to) = 0
          /\ h.chan = [g.chan EXCEPT ![to] = Append(g.chan[to], "M_CREATE_R-")]
       \/ h.chan = g.chan
       \/ h.chan = [g.chan EXCEPT ![to] = g.chan[to] \o [i \in 1..1 |-> "M_CREATE"]]

LEMMA ForwardEffect ==
    ASSUME NEW g \in FlowRecord, NEW to \in Ends, g.hop[to] > 0, NEW established \in BOOLEAN
    PROVE  /\ ForwardCreateRequest(g, to, established) \in FlowRecord
           /\ CreateRelayed(g, ForwardCreateRequest(g, to, established), to)
<1> DEFINE m == Insert(g, to)
           h == ForwardCreateRequest(g, to, established)
           last == Len(m.relay)
<1>1. m \in FlowRecord /\ Relayed(g, m, to)
  BY InsertEffect
<1> HIDE DEF m
<1>2. /\ SameUsers(g, m) /\ SameBooks(g, m) /\ m.status = g.status
      /\ m.efcpi = g.efcpi /\ m.broken = g.broken /\ m.chan = g.chan
      /\ m.hop = [g.hop EXCEPT ![to] = g.hop[to] - 1]
  BY <1>1 DEF Relayed
<1>3. /\ Len(m.relay) = Len(g.relay) + 1
      /\ m.relay[Len(g.relay) + 1].to = to
      /\ \A i \in 1..Len(g.relay) : m.relay[i].to = g.relay[i].to
  <2> DEFINE entry == [to |-> to, retries |-> IF to = "R" THEN g.retries ELSE 0,
                       status |-> "FORWARDING"]
  <2>1. m.relay = Append(g.relay, entry) /\ entry.to = to
    BY <1>1 DEF Relayed
  <2>2. g.relay \in Seq(RelayEntry)
    BY DEF FlowRecord
  <2> HIDE DEF entry
  <2> QED
    BY <2>1, <2>2
<1>4. CASE HopCountAtRelay(to) = 0
  <2> DEFINE k == [m EXCEPT !.relay = SetFirst(m.relay, {Key(m.relay[last])}, "ALLOC_ERR")]
  <2>1. h = Send(k, to, "M_CREATE_R-")
    BY <1>4 DEF ForwardCreateRequest, m
  <2> DEFINE newRelay == SetFirst(m.relay, {Key(m.relay[last])}, "ALLOC_ERR")
             keys == {Key(m.relay[last])}
  <2>2. /\ newRelay \in Seq(RelayEntry)
        /\ Len(newRelay) = Len(m.relay)
        /\ \A i \in 1..Len(m.relay) : newRelay[i].to = m.relay[i].to
    <3>1. m.relay \in Seq(RelayEntry)
      BY <1>1 DEF FlowRecord
    <3> HIDE DEF keys
    <3>2. /\ SetFirst(m.relay, keys, "ALLOC_ERR") \in Seq(RelayEntry)
          /\ Len(SetFirst(m.relay, keys, "ALLOC_ERR")) = Len(m.relay)
          /\ \A i \in 1..Len(m.relay) : SetFirst(m.relay, keys, "ALLOC_ERR")[i].to = m.relay[i].to
      BY <3>1, SetFirstKeeps
    <3> QED
      BY <3>2 DEF keys
  <2>3. k = [m EXCEPT !.relay = newRelay]
    OBVIOUS
  <2> HIDE DEF h, k, newRelay
  <2>4. k \in FlowRecord
    BY <1>1, <2>2, <2>3 DEF FlowRecord
  <2>5. /\ k.relay = newRelay /\ SameUsers(m, k) /\ SameBooks(m, k) /\ k.status = m.status
        /\ k.efcpi = m.efcpi /\ k.broken = m.broken /\ k.chan = m.chan /\ k.hop = m.hop
    BY <1>1, <2>3 DEF FlowRecord, SameUsers, SameBooks
  <2>6. "M_CREATE_R-" \in Message
    BY DEF Message
  <2>7. h \in FlowRecord /\ Sent(k, h, to, "M_CREATE_R-")
    BY <2>1, <2>4, <2>6, SendEffect
  <2>8. /\ SameUsers(g, h) /\ SameBooks(g, h) /\ h.status = g.status
        /\ h.efcpi = g.efcpi /\ h.broken = g.broken
        /\ h.hop = [g.hop EXCEPT ![to] = g.hop[to] - 1]
    BY <1>2, <2>5, <2>7 DEF Sent, SameUsers, SameBooks
  <2>9. /\ h.chan = [g.chan EXCEPT ![to] = Append(g.chan[to], "M_CREATE_R-")]
        /\ h.relay = newRelay
    BY <1>2, <2>5, <2>7 DEF Sent
  <2>10. /\ Len(h.relay) = Len(g.relay) + 1
         /\ h.relay[Len(g.relay) + 1].to = to
         /\ \A i \in 1..Len(g.relay) : h.relay[i].to = g.relay[i].to
    <3>1. Len(g.relay) \in Nat
      BY DEF FlowRecord
    <3> QED
      BY <3>1, <1>3, <2>2, <2>9
  <2>11. CreateRelayed(g, h, to)
    BY <1>4, <2>8, <2>9, <2>10 DEF CreateRelayed
  <2> QED
    BY <2>7, <2>11 DEF h
<1>5. CASE HopCountAtRelay(to) # 0 /\ ~established
  <2>1. h = m
    BY <1>5 DEF ForwardCreateRequest, m
  <2>2. CreateRelayed(g, m, to)
    BY <1>2, <1>3 DEF CreateRelayed
  <2> QED
    BY <1>1, <2>1, <2>2
<1>6. CASE HopCountAtRelay(to) # 0 /\ established
  <2>1. h = NM1FlowCreated(m, to, {last})
    BY <1>6 DEF ForwardCreateRequest, m
  <2>2. IsFiniteSet({last}) /\ Cardinality({last}) = 1
    BY FS_Singleton
  <2> HIDE DEF h
  <2>3. h \in FlowRecord /\ Forwarded(m, h, to, 1)
    <3>1. NM1FlowCreated(m, to, {last}) \in FlowRecord
      BY <1>1, <2>2, NM1FlowCreatedEffect
    <3>2. Forwarded(m, NM1FlowCreated(m, to, {last}), to, Cardinality({last}))
      BY <1>1, <2>2, NM1FlowCreatedEffect
    <3> QED
      BY <2>1, <2>2, <3>1, <3>2
  <2>4. /\ SameUsers(g, h) /\ SameBooks(g, h) /\ h.status = g.status
        /\ h.efcpi = g.efcpi /\ h.broken = g.broken
        /\ h.hop = [g.hop EXCEPT ![to] = g.hop[to] - 1]
    BY <1>2, <2>3 DEF Forwarded, SameUsers, SameBooks
  <2>5. h.chan = [g.chan EXCEPT ![to] = g.chan[to] \o [i \in 1..1 |-> "M_CREATE"]]
    BY <1>2, <2>3 DEF Forwarded
  <2>6. /\ Len(h.relay) = Len(g.relay) + 1
        /\ h.relay[Len(g.relay) + 1].to = to
        /\ \A i \in 1..Len(g.relay) : h.relay[i].to = g.relay[i].to
    <3>1. Len(g.relay) \in Nat
      BY DEF FlowRecord
    <3>2. /\ Len(h.relay) = Len(m.relay)
          /\ \A i \in 1..Len(m.relay) : h.relay[i].to = m.relay[i].to
      BY <2>3 DEF Forwarded
    <3> QED
      BY <3>1, <3>2, <1>3
  <2>7. CreateRelayed(g, h, to)
    BY <2>4, <2>5, <2>6 DEF CreateRelayed
  <2> QED
    BY <2>3, <2>7 DEF h
<1> QED
  BY <1>4, <1>5, <1>6

\* FAI::receiveAllocateRequest asks for the flow, refuses it or finds nothing to do.
RequestHandled(g, h) ==
    /\ \A end \in Ends \ {"I"} : h.efcpi[end] = g.efcpi[end]
    /\ h.efcpi["I"] # "none"
    /\ g.efcpi["I"] = "none" => h.efcpi["I"] = "bound" /\ h.broken = g.broken
    /\ g.efcpi["I"] # "none" => h.efcpi["I"] = g.efcpi["I"]
    /\ SameUsers(g, h) /\ SameBooks(g, h) /\ h.status = g.status /\ h.relay = g.relay
    /\ h.hop = g.hop \/ h.hop = [g.hop EXCEPT !["R"] = g.hop["R"] + 1]
    /\ h.chan = g.chan \/ h.chan = [g.chan EXCEPT !["R"] = Append(g.chan["R"], "M_CREATE")]

LEMMA RequestEffect ==
    ASSUME NEW g \in FlowRecord, NEW fits, NEW established
    PROVE  /\ ReceiveAllocateRequest(g, fits, established) \in FlowRecord
           /\ g.status["I"] # "ALLOC_PEND" => ReceiveAllocateRequest(g, fits, established) = g
           /\ g.status["I"] = "ALLOC_PEND" /\ ~fits =>
                 GivenUp(g, ReceiveAllocateRequest(g, fits, established))
           /\ g.status["I"] = "ALLOC_PEND" /\ fits =>
                 RequestHandled(g, ReceiveAllocateRequest(g, fits, established))
           /\ ~established => SameTransit(g, ReceiveAllocateRequest(g, fits, established))
<1> DEFINE m == CreateBindings(g, "I")
           h == ReceiveAllocateRequest(g, fits, established)
<1>1. m \in FlowRecord /\ BindingsCreated(g, m, "I")
  BY CreateBindingsEffect DEF Ends
<1>2. ~established => SameTransit(g, h)
  <2> SUFFICES ASSUME ~established PROVE SameTransit(g, h)
    OBVIOUS
  <2>1. CASE g.status["I"] # "ALLOC_PEND"
    BY <2>1 DEF ReceiveAllocateRequest, SameTransit
  <2>2. CASE g.status["I"] = "ALLOC_PEND" /\ ~fits
    <3>1. h = AllocationResponseNegative(ChangeAllocStatus(g, "I", "ALLOC_NEGA"), "I")
      BY <2>2 DEF ReceiveAllocateRequest
    <3> HIDE DEF h
    <3> QED
      BY <3>1, GivenUpEffect DEF GivenUp
  <2>3. CASE g.status["I"] = "ALLOC_PEND" /\ fits
    <3>1. h = m
      BY <2>3 DEF ReceiveAllocateRequest
    <3> QED
      BY <1>1, <3>1 DEF BindingsCreated
  <2> QED
    BY <2>1, <2>2, <2>3
<1>3. CASE g.status["I"] # "ALLOC_PEND"
  BY <1>2, <1>3 DEF ReceiveAllocateRequest
<1>4. CASE g.status["I"] = "ALLOC_PEND" /\ ~fits
  <2>1. h = AllocationResponseNegative(ChangeAllocStatus(g, "I", "ALLOC_NEGA"), "I")
    BY <1>4 DEF ReceiveAllocateRequest
  <2> HIDE DEF h
  <2>2. h \in FlowRecord /\ GivenUp(g, h)
    BY <2>1, GivenUpEffect
  <2> QED
    BY <1>2, <2>2, <1>4 DEF h
<1>5. CASE g.status["I"] = "ALLOC_PEND" /\ fits
  <2>1. \/ h = m
        \/ h = SendCreateRequestFlow(m, "R")
    BY <1>5 DEF ReceiveAllocateRequest
  <2> HIDE DEF m, h
  <2>2. CASE h = m
    <3>1. RequestHandled(g, h)
      BY <1>1, <2>2 DEF RequestHandled, BindingsCreated, SameTransit
    <3> QED
      BY <1>1, <1>2, <1>5, <2>2, <3>1 DEF h
  <2>3. CASE h = SendCreateRequestFlow(m, "R")
    <3>1. h \in FlowRecord /\ CreateSent(m, h, "R")
      BY <1>1, <2>3, SendCreateRequestFlowEffect DEF Ends
    <3>2. /\ SameUsers(g, h) /\ SameBooks(g, h) /\ h.status = g.status /\ h.relay = g.relay
          /\ h.efcpi = m.efcpi /\ h.broken = m.broken
      BY <1>1, <3>1 DEF CreateSent, BindingsCreated, SameUsers, SameBooks, SameTransit
    <3>3. /\ h.hop = g.hop \/ h.hop = [g.hop EXCEPT !["R"] = g.hop["R"] + 1]
          /\ h.chan = g.chan \/ h.chan = [g.chan EXCEPT !["R"] = Append(g.chan["R"], "M_CREATE")]
      BY <1>1, <3>1 DEF CreateSent, BindingsCreated, SameTransit
    <3>4. RequestHandled(g, h)
      BY <1>1, <3>2, <3>3 DEF RequestHandled, BindingsCreated
    <3> QED
      BY <1>2, <1>5, <3>1, <3>4 DEF h
  <2> QED
    BY <2>1, <2>2, <2>3
<1> QED
  BY <1>3, <1>4, <1>5

\* The user leaves the request alone.
Ignored(g, h) ==
    /\ h.status = [g.status EXCEPT !["R"] = "ALLOC_PEND"]
    /\ SameUsers(g, h) /\ SameBooks(g, h) /\ SameTransit(g, h)
    /\ h.efcpi = g.efcpi /\ h.broken = g.broken

\* FAI::receiveCreateRequest, and what becomes of the request.
LEMMA CreateEffect ==
    ASSUME NEW g \in FlowRecord, NEW fits, NEW established, NEW answer \in {"accept", "refuse", "silent"}
    PROVE  /\ ReceiveCreateRequest(g, fits, answer, established) \in FlowRecord
           /\ \/ AcceptedSending(g, ReceiveCreateRequest(g, fits, answer, established))
              \/ ~established /\ AcceptedHolding(g, ReceiveCreateRequest(g, fits, answer, established))
              \/ RefusedByUser(g, ReceiveCreateRequest(g, fits, answer, established))
              \/ Ignored(g, ReceiveCreateRequest(g, fits, answer, established))
<1> DEFINE m == ChangeAllocStatus(g, "R", "ALLOC_PEND")
           h == ReceiveCreateRequest(g, fits, answer, established)
<1>1. "R" \in Ends /\ "ALLOC_PEND" \in Status
  BY DEF Ends, Status
<1>2. m \in FlowRecord /\ StatusChanged(g, m, "R", "ALLOC_PEND")
  BY <1>1, ChangeAllocStatusEffect
<1>3. CASE ~fits \/ answer = "refuse"
  <2>1. h = ReceiveAllocateResponseNegative(m)
    BY <1>3 DEF ReceiveCreateRequest, UserAnswers
  <2> HIDE DEF m, h
  <2>2. h \in FlowRecord /\ RefusedByUser(m, h)
    BY <1>2, <2>1, RefuseEffect
  <2>3. h.status = [g.status EXCEPT !["R"] = "ALLOC_NEGA"]
    BY <1>1, <1>2, <2>2 DEF RefusedByUser, StatusChanged, FlowRecord
  <2>4. RefusedByUser(g, h)
    BY <1>2, <2>2, <2>3 DEF RefusedByUser, StatusChanged, SameUsers, SameBooks, SameTransit
  <2> QED
    BY <2>2, <2>4 DEF h
<1>4. CASE fits /\ answer = "silent"
  <2>1. h = m
    BY <1>4 DEF ReceiveCreateRequest, UserAnswers
  <2> HIDE DEF m, h
  <2>2. Ignored(g, h)
    BY <1>2, <2>1 DEF Ignored, StatusChanged
  <2> QED
    BY <1>2, <2>1, <2>2 DEF h
<1>5. CASE fits /\ answer = "accept" /\ established
  <2>1. h = UserAnswers(m, "accept", TRUE)
    BY <1>5 DEF ReceiveCreateRequest, UserAnswers, ReceiveAllocateResponsePositive
  <2>2. h \in FlowRecord /\ AcceptedSending(g, h)
    BY <2>1, AcceptSent
  <2> QED
    BY <2>2
<1>6. CASE fits /\ answer = "accept" /\ ~established
  <2>1. h = UserAnswers(m, "accept", FALSE)
    BY <1>6 DEF ReceiveCreateRequest, UserAnswers, ReceiveAllocateResponsePositive
  <2>2. h \in FlowRecord /\ AcceptedHolding(g, h)
    BY <2>1, AcceptHeld
  <2> QED
    BY <1>6, <2>2
<1> QED
  BY <1>3, <1>4, <1>5, <1>6

\* FAI::receiveCreateResponseNegative: the retry policy decides.
LEMMA CreateRefusedEffect ==
    ASSUME NEW g \in FlowRecord
    PROVE  /\ ReceiveCreateResponseNegative(g) \in FlowRecord
           /\ \/ Retried(g, ReceiveCreateResponseNegative(g))
              \/ GivenUp(g, ReceiveCreateResponseNegative(g))
<1> DEFINE h == ReceiveCreateResponseNegative(g)
           m == CountRetry(g)
<1>1. m \in FlowRecord /\ RetryCounted(g, m)
  BY CountRetryEffect
<1>2. CASE AllocateRetryPolicy(g)
  <2>1. h = SendCreateRequestFlow(CountRetry(g), "R")
    BY <1>2 DEF ReceiveCreateResponseNegative
  <2> QED
    BY <2>1, RetryEffect
<1>3. CASE ~AllocateRetryPolicy(g)
  <2>1. h = AllocationResponseNegative(ChangeAllocStatus(m, "I", "ALLOC_NEGA"), "I")
    BY <1>3 DEF ReceiveCreateResponseNegative
  <2> HIDE DEF m, h
  <2>2. h \in FlowRecord /\ GivenUp(m, h)
    BY <1>1, <2>1, GivenUpEffect
  <2>3. GivenUp(g, h)
    BY <1>1, <2>2 DEF GivenUp, RetryCounted, SameUsers, SameTransit
  <2> QED
    BY <2>2, <2>3 DEF h
<1> QED
  BY <1>2, <1>3

-----------------------------------------------------------------------------
(* What the two ends of a flow promise each other.                           *)

Opened == {"TRANSFER", "DEALLOC_PEND", "DEALLOCATED"}
Closing == {"DEALLOC_PEND", "DEALLOCATED"}

\* An M_CREATE towards e is at the relay or on its way to it.
RelayedTo(g, e) == g.hop[e] > 0 \/ \E i \in 1..Len(g.relay) : g.relay[i].to = e

\* The responder has been asked for the flow, or is about to be.
Asked(g) ==
    RelayedTo(g, "R") \/ Holds(g.chan["R"], "M_CREATE") \/ g.status["R"] # "NONE"

\* The responder is asked for what the initiator holds an EFCP instance for, the initiator
\* waits until then, and hears nothing from a responder that has not been asked.
AsksFirst(g) ==
    /\ Asked(g) => g.efcpi["I"] # "none"
    /\ g.efcpi["I"] # "none" => g.status["I"] \notin {"NONE", "ALLOC_ERR"}
    /\ g.efcpi["I"] # "none" /\ g.status["R"] = "NONE" => g.status["I"] = "ALLOC_PEND"
    /\ RelayedTo(g, "I") \/ g.chan["I"] # <<>> => g.status["R"] # "NONE"

\* The initiator waits for as long as the one answer is under way, and goes by it.
AnsweredOnce(g) ==
    /\ Holds(g.chan["I"], "M_CREATE_R+") =>
          g.status["I"] = "ALLOC_PEND" /\ g.status["R"] \in Opened
    /\ Holds(g.chan["I"], "M_CREATE_R-") =>
          g.status["I"] = "ALLOC_PEND" /\ g.status["R"] = "ALLOC_NEGA"
    /\ Single(g.chan["I"], "M_CREATE_R+") /\ Single(g.chan["I"], "M_CREATE_R-")
    /\ g.status["I"] \in Opened => g.status["R"] \in Opened
    /\ g.status["I"] = "ALLOC_NEGA" => g.status["R"] \notin Opened

\* One user closes the flow, and what is under way about it comes from an end that does.
ClosedOnce(g) ==
    /\ g.closes <= 1
    /\ \A e \in Ends :
          /\ g.con[e] = "connectpending" => g.status[e] \in Opened
          /\ g.closes = 0 => g.status[e] \notin Closing
          /\ Holds(g.chan[e], "M_DELETE") => g.status[Peer(e)] \in Closing
          /\ Holds(g.chan[e], "M_DELETE_R") => g.status[Peer(e)] = "DEALLOCATED"
          /\ g.status[e] = "DEALLOCATED" => g.status[Peer(e)] \in Closing
          /\ g.status[e] = "DEALLOC_PEND" => g.status[Peer(e)] # "DEALLOC_PEND"

Agree(g) == AsksFirst(g) /\ AnsweredOnce(g) /\ ClosedOnce(g)

\* From c to d the channels lose what has been taken and gain at most a msg to an end.
OneMore(c, d, to, msg) ==
    /\ \A e \in Ends : d[e] # <<>> => c[e] # <<>> \/ e = to
    /\ \A e \in Ends : \A m \in Message : Holds(d[e], m) => Holds(c[e], m) \/ (e = to /\ m = msg)
    /\ \A e \in Ends : \A m \in Message \ {"M_CREATE"} :
          Single(c[e], m) /\ (e = to /\ m = msg => ~Holds(c[e], m)) => Single(d[e], m)

LEMMA OneMoreAppended ==
    ASSUME NEW c \in [Ends -> Seq(Message)], NEW to \in Ends, NEW msg \in Message,
           NEW d, d = [c EXCEPT ![to] = Append(c[to], msg)]
    PROVE  OneMore(c, d, to, msg)
<1>1. c[to] \in Seq(Message) /\ d[to] = Append(c[to], msg) /\ \A e \in Ends \ {to} : d[e] = c[e]
  OBVIOUS
<1>2. /\ \A m \in Message \ {msg} : Holds(d[to], m) => Holds(c[to], m)
      /\ \A m \in Message \ {msg} : Single(c[to], m) => Single(d[to], m)
      /\ ~Holds(c[to], msg) => Single(d[to], msg)
  BY <1>1, Appended
<1> QED
  BY <1>1, <1>2 DEF OneMore

LEMMA OneMoreShortened ==
    ASSUME NEW c \in [Ends -> Seq(Message)], NEW from \in Ends, c[from] # <<>>,
           NEW d, d = [c EXCEPT ![from] = Tail(c[from])], NEW to, NEW msg
    PROVE  OneMore(c, d, to, msg)
<1>1. c[from] \in Seq(Message) /\ d[from] = Tail(c[from]) /\ \A e \in Ends \ {from} : d[e] = c[e]
  OBVIOUS
<1>2. /\ \A m \in Message : Holds(d[from], m) => Holds(c[from], m)
      /\ \A m \in Message : Single(c[from], m) => Single(d[from], m)
  BY <1>1, Shortened
<1> QED
  BY <1>1, <1>2 DEF OneMore

LEMMA OneMoreRequested ==
    ASSUME NEW c \in [Ends -> Seq(Message)], NEW to \in Ends, NEW n \in Nat,
           NEW d, d = [c EXCEPT ![to] = c[to] \o [i \in 1..n |-> "M_CREATE"]]
    PROVE  /\ OneMore(c, d, to, "M_CREATE")
           /\ n = 0 => d = c
<1> DEFINE t == c[to] \o [i \in 1..n |-> "M_CREATE"]
<1>1. c[to] \in Seq(Message) /\ d[to] = t /\ \A e \in Ends \ {to} : d[e] = c[e]
  OBVIOUS
<1>2. /\ \A m \in Message \ {"M_CREATE"} : Holds(t, m) <=> Holds(c[to], m)
      /\ \A m \in Message \ {"M_CREATE"} : Single(c[to], m) => Single(t, m)
      /\ n = 0 => t = c[to]
  BY <1>1, Requested
<1> HIDE DEF t
<1>3. n = 0 => d = c
  <2> SUFFICES ASSUME n = 0 PROVE d = c
    OBVIOUS
  <2>1. d = [e \in Ends |-> d[e]] /\ c = [e \in Ends |-> c[e]]
    BY DEF t
  <2>2. \A e \in Ends : d[e] = c[e]
    BY <1>1, <1>2
  <2> QED
    BY <2>1, <2>2, Zenon
<1> QED
  BY <1>1, <1>2, <1>3 DEF OneMore

LEMMA OneMoreSame ==
    ASSUME NEW c, NEW to, NEW msg
    PROVE  OneMore(c, c, to, msg)
BY DEF OneMore

\* The ends agree for as long as their statuses stay, whatever else becomes of the flow.
Stays(g, h) ==
    /\ h.status = g.status
    /\ h.closes = g.closes
    /\ \A e \in Ends : h.con[e] = "connectpending" => g.con[e] = "connectpending"
    /\ g.efcpi["I"] # "none" => h.efcpi["I"] # "none"
    /\ h.efcpi["I"] # "none" => g.efcpi["I"] # "none" \/ g.status["I"] = "ALLOC_PEND"
    /\ RelayedTo(h, "R") => RelayedTo(g, "R") \/ h.efcpi["I"] # "none"
    /\ RelayedTo(h, "I") => RelayedTo(g, "I") \/ g.status["R"] # "NONE"
    /\ \/ OneMore(g.chan, h.chan, "R", "M_CREATE") /\ h.efcpi["I"] # "none"
       \/ OneMore(g.chan, h.chan, "R", "M_CREATE_R-") /\ h.efcpi["I"] # "none"
       \/ OneMore(g.chan, h.chan, "I", "M_CREATE") /\ g.status["R"] # "NONE"
       \/ \A to \in Ends, msg \in Message : OneMore(g.chan, h.chan, to, msg)

LEMMA StaysAgreed ==
    ASSUME NEW g \in FlowRecord, NEW h \in FlowRecord, Stays(g, h), Agree(g)
    PROVE  Agree(h)
<1> USE DEF Stays, Opened, Closing
<1>1. PICK to \in Ends, msg \in {"M_CREATE", "M_CREATE_R-"} :
         /\ OneMore(g.chan, h.chan, to, msg)
         /\ msg = "M_CREATE_R-" => to = "R"
         /\ \/ to = "R" /\ h.efcpi["I"] # "none"
            \/ to = "I" /\ g.status["R"] # "NONE"
            \/ \A e \in Ends, m \in Message : OneMore(g.chan, h.chan, e, m)
  BY DEF Ends, Message
<1>2. \A e \in Ends, m \in Message \ {"M_CREATE", "M_CREATE_R-"} :
         /\ Holds(h.chan[e], m) => Holds(g.chan[e], m)
         /\ Single(g.chan[e], m) => Single(h.chan[e], m)
  BY <1>1, ZenonT(30) DEF OneMore, Message, Ends
<1>3. /\ Holds(h.chan["I"], "M_CREATE_R-") => Holds(g.chan["I"], "M_CREATE_R-")
      /\ Single(g.chan["I"], "M_CREATE_R-") => Single(h.chan["I"], "M_CREATE_R-")
  BY <1>1, ZenonT(30) DEF OneMore, Message, Ends
<1>4. Holds(h.chan["R"], "M_CREATE") => Holds(g.chan["R"], "M_CREATE") \/ h.efcpi["I"] # "none"
  <2>1. CASE \A e \in Ends, m \in Message : OneMore(g.chan, h.chan, e, m)
    BY <2>1, ZenonT(30) DEF OneMore, Message, Ends
  <2>2. CASE ~\A e \in Ends, m \in Message : OneMore(g.chan, h.chan, e, m)
    BY <1>1, <2>2, ZenonT(30) DEF OneMore, Message, Ends
  <2> QED
    BY <2>1, <2>2
<1>5. h.chan["I"] # <<>> => g.chan["I"] # <<>> \/ g.status["R"] # "NONE"
  <2>1. CASE \A e \in Ends, m \in Message : OneMore(g.chan, h.chan, e, m)
    <3>1. OneMore(g.chan, h.chan, "R", "M_CREATE")
      BY <2>1 DEF Ends, Message
    <3> QED
      BY <3>1 DEF OneMore, Ends
  <2>2. CASE ~\A e \in Ends, m \in Message : OneMore(g.chan, h.chan, e, m)
    BY <1>1, <2>2 DEF OneMore, Ends
  <2> QED
    BY <2>1, <2>2
<1>6. AsksFirst(h)
  BY <1>4, <1>5 DEF Agree, AsksFirst, Asked
<1>7. AnsweredOnce(h)
  BY <1>2, <1>3 DEF Agree, AnsweredOnce, Message, Ends
<1>8. ClosedOnce(h)
  BY <1>2 DEF Agree, ClosedOnce, Message
<1> QED
  BY <1>6, <1>7, <1>8 DEF Agree

\* What can become of a flow while the statuses of its ends stay.
LEMMA RequestStays ==
    ASSUME NEW g \in FlowRecord, NEW h \in FlowRecord,
           RequestHandled(g, h), g.status["I"] = "ALLOC_PEND"
    PROVE  Stays(g, h)
<1>1. \/ \A to \in Ends, msg \in Message : OneMore(g.chan, h.chan, to, msg)
      \/ OneMore(g.chan, h.chan, "R", "M_CREATE")
  <2>1. CASE h.chan = g.chan
    BY <2>1, OneMoreSame
  <2>2. CASE h.chan = [g.chan EXCEPT !["R"] = Append(g.chan["R"], "M_CREATE")]
    <3>1. g.chan \in [Ends -> Seq(Message)] /\ "R" \in Ends /\ "M_CREATE" \in Message
      BY DEF FlowRecord, Ends, Message
    <3>2. OneMore(g.chan, h.chan, "R", "M_CREATE")
      BY <2>2, <3>1, OneMoreAppended
    <3> QED
      BY <3>2
  <2> QED
    BY <2>1, <2>2 DEF RequestHandled
<1>2. RelayedTo(h, "I") => RelayedTo(g, "I")
  BY DEF RequestHandled, RelayedTo, FlowRecord, Ends
<1> QED
  BY <1>1, <1>2 DEF Stays, RequestHandled, SameUsers, SameBooks

LEMMA QueuedStays ==
    ASSUME NEW g \in FlowRecord, NEW h \in FlowRecord, NEW queued, QueuedSet(g, h, queued)
    PROVE  Stays(g, h)
<1>1. \A to \in Ends, msg \in Message : OneMore(g.chan, h.chan, to, msg)
  BY OneMoreSame DEF QueuedSet, SameTransit
<1> QED
  BY <1>1 DEF Stays, QueuedSet, SameUsers, SameTransit, RelayedTo

LEMMA DeclinedStays ==
    ASSUME NEW g \in FlowRecord, NEW h \in FlowRecord, NEW e \in Ends, Declined(g, h, e)
    PROVE  Stays(g, h)
<1>1. \A to \in Ends, msg \in Message : OneMore(g.chan, h.chan, to, msg)
  BY OneMoreSame DEF Declined, SameTransit
<1> QED
  BY <1>1 DEF Stays, Declined, SameBooks, SameTransit, RelayedTo

LEMMA TakenStays ==
    ASSUME NEW g \in FlowRecord, NEW h \in FlowRecord, NEW e \in Ends,
           g.chan[e] # <<>>, MessageTaken(g, h, e)
    PROVE  Stays(g, h)
<1>1. \A to \in Ends, msg \in Message : OneMore(g.chan, h.chan, to, msg)
  <2>1. g.chan \in [Ends -> Seq(Message)]
    BY DEF FlowRecord
  <2>2. h.chan = [g.chan EXCEPT ![e] = Tail(g.chan[e])]
    BY DEF MessageTaken
  <2> QED
    BY <2>1, <2>2, OneMoreShortened
<1> QED
  BY <1>1 DEF Stays, MessageTaken, SameUsers, SameBooks, RelayedTo

\* A further M_CREATE to an end is behind one that was sent before.
LEMMA CreateSentStays ==
    ASSUME NEW g \in FlowRecord, NEW h \in FlowRecord, NEW to \in Ends, CreateSent(g, h, to),
           to = "R" => g.efcpi["I"] # "none",
           to = "I" => g.status["R"] # "NONE"
    PROVE  Stays(g, h)
<1>1. \/ \A e \in Ends, msg \in Message : OneMore(g.chan, h.chan, e, msg)
      \/ OneMore(g.chan, h.chan, to, "M_CREATE")
  <2>1. CASE HasRelay
    BY <2>1, OneMoreSame DEF CreateSent
  <2>2. CASE ~HasRelay
    <3>1. g.chan \in [Ends -> Seq(Message)] /\ "M_CREATE" \in Message
      BY DEF FlowRecord, Message
    <3>2. h.chan = [g.chan EXCEPT ![to] = Append(g.chan[to], "M_CREATE")]
      BY <2>2 DEF CreateSent
    <3>3. OneMore(g.chan, h.chan, to, "M_CREATE")
      BY <3>1, <3>2, OneMoreAppended
    <3> QED
      BY <3>3
  <2> QED
    BY <2>1, <2>2
<1>2. /\ RelayedTo(h, "I") => RelayedTo(g, "I") \/ to = "I"
      /\ RelayedTo(h, "R") => RelayedTo(g, "R") \/ to = "R"
  BY DEF CreateSent, RelayedTo, FlowRecord, Ends
<1>3. to = "I" \/ to = "R"
  BY DEF Ends
<1> QED
  BY <1>1, <1>2, <1>3 DEF Stays, CreateSent, SameUsers, SameBooks

LEMMA RetriedStays ==
    ASSUME NEW g \in FlowRecord, NEW h \in FlowRecord, Retried(g, h), g.efcpi["I"] # "none"
    PROVE  Stays(g, h)
<1>1. \/ \A e \in Ends, msg \in Message : OneMore(g.chan, h.chan, e, msg)
      \/ OneMore(g.chan, h.chan, "R", "M_CREATE")
  <2>1. CASE HasRelay
    BY <2>1, OneMoreSame DEF Retried
  <2>2. CASE ~HasRelay
    <3>1. g.chan \in [Ends -> Seq(Message)] /\ "R" \in Ends /\ "M_CREATE" \in Message
      BY DEF FlowRecord, Message, Ends
    <3>2. h.chan = [g.chan EXCEPT !["R"] = Append(g.chan["R"], "M_CREATE")]
      BY <2>2 DEF Retried
    <3>3. OneMore(g.chan, h.chan, "R", "M_CREATE")
      BY <3>1, <3>2, OneMoreAppended
    <3> QED
      BY <3>3
  <2> QED
    BY <2>1, <2>2
<1>2. RelayedTo(h, "I") => RelayedTo(g, "I")
  BY DEF Retried, RelayedTo, FlowRecord, Ends
<1> QED
  BY <1>1, <1>2 DEF Stays, Retried, SameUsers

\* What the relay does depends on its having been asked.
LEMMA ForwardedStays ==
    ASSUME NEW g \in FlowRecord, NEW h \in FlowRecord, NEW to \in Ends, NEW n \in Nat,
           Forwarded(g, h, to, n), n # 0 => RelayedTo(g, to), AsksFirst(g)
    PROVE  Stays(g, h)
<1>1. /\ n # 0 /\ to = "R" => g.efcpi["I"] # "none"
      /\ n # 0 /\ to = "I" => g.status["R"] # "NONE"
  BY DEF AsksFirst, Asked
<1>2. \/ n = 0 /\ h.chan = g.chan
      \/ n # 0 /\ OneMore(g.chan, h.chan, to, "M_CREATE")
  <2>1. g.chan \in [Ends -> Seq(Message)]
    BY DEF FlowRecord
  <2>2. h.chan = [g.chan EXCEPT ![to] = g.chan[to] \o [i \in 1..n |-> "M_CREATE"]]
    BY DEF Forwarded
  <2> QED
    BY <2>1, <2>2, OneMoreRequested
<1>3. \/ \A e \in Ends, msg \in Message : OneMore(g.chan, h.chan, e, msg)
      \/ n # 0 /\ OneMore(g.chan, h.chan, to, "M_CREATE")
  BY <1>2, OneMoreSame
<1>4. \A e \in Ends : RelayedTo(h, e) => RelayedTo(g, e)
  BY DEF Forwarded, RelayedTo, FlowRecord
<1>5. to = "I" \/ to = "R"
  BY DEF Ends
<1> QED
  BY <1>1, <1>3, <1>4, <1>5 DEF Stays, Forwarded, SameUsers, SameBooks, Ends

LEMMA CreateRelayedStays ==
    ASSUME NEW g \in FlowRecord, NEW h \in FlowRecord, NEW to \in Ends,
           CreateRelayed(g, h, to), g.hop[to] > 0, HopCountAtRelay("I") # 0, AsksFirst(g)
    PROVE  Stays(g, h)
<1>1. /\ to = "R" => g.efcpi["I"] # "none"
      /\ to = "I" => g.status["R"] # "NONE"
  BY DEF AsksFirst, Asked, RelayedTo
<1>2. /\ g.chan \in [Ends -> Seq(Message)]
      /\ "M_CREATE" \in Message /\ "M_CREATE_R-" \in Message /\ 1 \in Nat
  BY DEF FlowRecord, Message
<1>3. \/ \A e \in Ends, msg \in Message : OneMore(g.chan, h.chan, e, msg)
      \/ OneMore(g.chan, h.chan, to, "M_CREATE")
      \/ to = "R" /\ OneMore(g.chan, h.chan, to, "M_CREATE_R-")
  <2>1. CASE h.chan = g.chan
    BY <2>1, OneMoreSame
  <2>2. CASE h.chan = [g.chan EXCEPT ![to] = g.chan[to] \o [i \in 1..1 |-> "M_CREATE"]]
    BY <2>2, <1>2, OneMoreRequested
  <2>3. CASE /\ HopCountAtRelay(to) = 0
             /\ h.chan = [g.chan EXCEPT ![to] = Append(g.chan[to], "M_CREATE_R-")]
    <3>1. to = "R"
      BY <2>3 DEF Ends
    <3>2. OneMore(g.chan, h.chan, to, "M_CREATE_R-")
      BY <2>3, <1>2, OneMoreAppended
    <3> QED
      BY <3>1, <3>2
  <2> QED
    BY <2>1, <2>2, <2>3 DEF CreateRelayed
<1>4. /\ RelayedTo(h, "I") => RelayedTo(g, "I") \/ to = "I"
      /\ RelayedTo(h, "R") => RelayedTo(g, "R") \/ to = "R"
  <2>1. /\ h.hop = [g.hop EXCEPT ![to] = g.hop[to] - 1]
        /\ g.hop \in [Ends -> Nat] /\ Len(g.relay) \in Nat
        /\ Len(h.relay) = Len(g.relay) + 1
        /\ h.relay[Len(g.relay) + 1].to = to
        /\ \A i \in 1..Len(g.relay) : h.relay[i].to = g.relay[i].to
    BY DEF CreateRelayed, FlowRecord
  <2>2. ASSUME NEW e \in Ends, RelayedTo(h, e), e # to
        PROVE  RelayedTo(g, e)
    <3>1. CASE h.hop[e] > 0
      BY <2>1, <2>2, <3>1 DEF RelayedTo
    <3>2. CASE ~(h.hop[e] > 0)
      <4>1. PICK i \in 1..Len(h.relay) : h.relay[i].to = e
        BY <2>2, <3>2 DEF RelayedTo
      <4>2. i \in 1..Len(g.relay)
        BY <2>1, <2>2, <4>1
      <4> QED
        BY <2>1, <4>1, <4>2 DEF RelayedTo
    <3> QED
      BY <3>1, <3>2
  <2> QED
    BY <2>2 DEF Ends
<1>5. to = "I" \/ to = "R"
  BY DEF Ends
<1> QED
  BY <1>1, <1>3, <1>4, <1>5 DEF Stays, CreateRelayed, SameUsers, SameBooks

\* What moves an end from one status to the next.
LEMMA AllocationAskedAgrees ==
    ASSUME NEW g \in FlowRecord, NEW h \in FlowRecord,
           AllocationAsked(g, h), g.status["I"] = "NONE", Agree(g)
    PROVE  Agree(h)
<1>1. /\ h.status["I"] = "ALLOC_PEND" /\ h.status["R"] = g.status["R"]
      /\ h.con["I"] # "connectpending" /\ h.con["R"] = g.con["R"]
      /\ h.chan = g.chan /\ h.efcpi = g.efcpi /\ h.closes = g.closes
      /\ Asked(h) <=> Asked(g)
      /\ RelayedTo(h, "I") <=> RelayedTo(g, "I")
  BY DEF AllocationAsked, SameTransit, SameBooks, FlowRecord, Ends, Asked, RelayedTo
<1> USE DEF Opened, Closing, Ends, Peer
<1>2. AsksFirst(h)
  BY <1>1 DEF Agree, AsksFirst
<1>3. AnsweredOnce(h)
  BY <1>1 DEF Agree, AnsweredOnce
<1>4. ClosedOnce(h)
  BY <1>1 DEF Agree, ClosedOnce
<1> QED
  BY <1>2, <1>3, <1>4 DEF Agree

LEMMA MalformedAgrees ==
    ASSUME NEW g \in FlowRecord, NEW h \in FlowRecord, StatusChanged(g, h, "I", "ALLOC_ERR"),
           g.status["I"] = "ALLOC_PEND", g.efcpi["I"] = "none", Agree(g)
    PROVE  Agree(h)
<1>1. /\ h.status["I"] = "ALLOC_ERR" /\ h.status["R"] = g.status["R"]
      /\ h.con = g.con /\ h.chan = g.chan /\ h.efcpi = g.efcpi /\ h.closes = g.closes
      /\ Asked(h) <=> Asked(g)
      /\ RelayedTo(h, "I") <=> RelayedTo(g, "I")
  BY DEF StatusChanged, SameUsers, SameTransit, SameBooks, FlowRecord, Ends, Asked, RelayedTo
<1>2. g.status["R"] = "NONE" /\ g.chan["I"] = <<>>
  BY DEF Agree, AsksFirst, Asked
<1>3. \A m \in Message : ~Holds(g.chan["I"], m)
  BY <1>2 DEF Holds
<1> USE DEF Opened, Closing, Ends, Peer
<1>4. AsksFirst(h)
  BY <1>1, <1>2 DEF Agree, AsksFirst
<1>5. AnsweredOnce(h)
  BY <1>1, <1>2, <1>3 DEF Agree, AnsweredOnce, Message
<1>6. ClosedOnce(h)
  BY <1>1, <1>2, <1>3 DEF Agree, ClosedOnce, Message
<1> QED
  BY <1>4, <1>5, <1>6 DEF Agree

LEMMA GivenUpAgrees ==
    ASSUME NEW g \in FlowRecord, NEW h \in FlowRecord, GivenUp(g, h),
           g.status["I"] = "ALLOC_PEND", g.status["R"] \notin Opened,
           ~Holds(g.chan["I"], "M_CREATE_R+"), ~Holds(g.chan["I"], "M_CREATE_R-"),
           g.efcpi["I"] = "none" \/ g.status["R"] # "NONE", Agree(g)
    PROVE  Agree(h)
<1>1. /\ h.status["I"] = "ALLOC_NEGA" /\ h.status["R"] = g.status["R"]
      /\ \A e \in Ends : h.con[e] = "connectpending" => g.con[e] = "connectpending"
      /\ h.chan = g.chan /\ h.efcpi = g.efcpi /\ h.closes = g.closes
      /\ Asked(h) <=> Asked(g)
      /\ RelayedTo(h, "I") <=> RelayedTo(g, "I")
  BY DEF GivenUp, SameTransit, FlowRecord, Ends, Asked, RelayedTo
<1> USE DEF Opened, Closing, Ends, Peer
<1>2. AsksFirst(h)
  BY <1>1 DEF Agree, AsksFirst, Asked
<1>3. AnsweredOnce(h)
  BY <1>1 DEF Agree, AnsweredOnce
<1>4. ClosedOnce(h)
  BY <1>1 DEF Agree, ClosedOnce
<1> QED
  BY <1>2, <1>3, <1>4 DEF Agree

\* What the responder makes of the request.
Considered(g, h) ==
    \/ AcceptedSending(g, h)
    \/ AcceptedHolding(g, h)
    \/ RefusedByUser(g, h)
    \/ Ignored(g, h)

LEMMA ConsideredAgrees ==
    ASSUME NEW g \in FlowRecord, NEW h \in FlowRecord, Considered(g, h),
           g.status["R"] = "NONE", g.efcpi["I"] # "none", Agree(g)
    PROVE  Agree(h)
<1>1. /\ h.status["I"] = g.status["I"]
      /\ h.con["I"] = g.con["I"] /\ h.closes = g.closes
      /\ h.efcpi["I"] = g.efcpi["I"]
      /\ h.status["R"] # "NONE"
      /\ h.status["R"] \notin Closing
      /\ h.chan["R"] = g.chan["R"]
      /\ h.hop = g.hop /\ h.relay = g.relay
  BY DEF Considered, AcceptedSending, AcceptedHolding, RefusedByUser, Ignored,
         SameUsers, SameBooks, SameTransit, FlowRecord, Ends, Closing
<1>2. /\ g.status["I"] = "ALLOC_PEND"
      /\ g.con["R"] # "connectpending"
      /\ g.chan["I"] = <<>>
  BY DEF Agree, AsksFirst, ClosedOnce, Opened, Ends
<1>3. \A m \in Message : ~Holds(g.chan["I"], m)
  BY <1>2 DEF Holds
<1>4. /\ g.chan \in [Ends -> Seq(Message)]
      /\ "I" \in Ends /\ "M_CREATE_R+" \in Message /\ "M_CREATE_R-" \in Message
  BY DEF FlowRecord, Ends, Message
<1>5. /\ \A m \in Message : Holds(h.chan["I"], m) =>
            \/ m = "M_CREATE_R+" /\ h.status["R"] = "TRANSFER"
            \/ m = "M_CREATE_R-" /\ h.status["R"] = "ALLOC_NEGA"
      /\ Single(h.chan["I"], "M_CREATE_R+") /\ Single(h.chan["I"], "M_CREATE_R-")
  <2>1. CASE AcceptedSending(g, h)
    <3>1. OneMore(g.chan, h.chan, "I", "M_CREATE_R+")
      BY <1>4, <2>1, OneMoreAppended DEF AcceptedSending
    <3>2. h.status["R"] = "TRANSFER"
      BY <2>1 DEF AcceptedSending, FlowRecord, Ends
    <3> QED
      BY <1>2, <1>3, <1>4, <3>1, <3>2 DEF OneMore, Single
  <2>2. CASE RefusedByUser(g, h)
    <3>1. OneMore(g.chan, h.chan, "I", "M_CREATE_R-")
      BY <1>4, <2>2, OneMoreAppended DEF RefusedByUser
    <3>2. h.status["R"] = "ALLOC_NEGA"
      BY <2>2 DEF RefusedByUser, FlowRecord, Ends
    <3> QED
      BY <1>2, <1>3, <1>4, <3>1, <3>2 DEF OneMore, Single
  <2>3. CASE AcceptedHolding(g, h) \/ Ignored(g, h)
    <3>1. h.chan = g.chan
      BY <2>3 DEF AcceptedHolding, Ignored, SameTransit
    <3> QED
      BY <1>2, <1>3, <3>1 DEF Single
  <2> QED
    BY <2>1, <2>2, <2>3 DEF Considered
<1>6. h.con["R"] = "connectpending" => h.status["R"] \in Opened
  BY <1>2 DEF Considered, AcceptedSending, AcceptedHolding, RefusedByUser, Ignored,
              SameUsers, FlowRecord, Ends, Opened
<1> USE DEF Opened, Closing, Ends, Peer
<1>7. AsksFirst(h)
  BY <1>1, <1>2 DEF Agree, AsksFirst
<1>8. AnsweredOnce(h)
  BY <1>1, <1>2, <1>5 DEF Agree, AnsweredOnce, Message
<1>9. ClosedOnce(h)
  BY <1>1, <1>2, <1>5, <1>6 DEF Agree, ClosedOnce, Message
<1> QED
  BY <1>7, <1>8, <1>9 DEF Agree

LEMMA OpensAgrees ==
    ASSUME NEW g \in FlowRecord, NEW h \in FlowRecord, Opens(g, h),
           g.status["I"] = "ALLOC_PEND", g.status["R"] \in Opened,
           ~Holds(g.chan["I"], "M_CREATE_R+"), Agree(g)
    PROVE  Agree(h)
<1>1. /\ h.status["I"] = "TRANSFER" /\ h.status["R"] = g.status["R"]
      /\ h.con["R"] = g.con["R"]
      /\ h.chan = g.chan /\ h.efcpi = g.efcpi /\ h.closes = g.closes
      /\ Asked(h) <=> Asked(g)
      /\ RelayedTo(h, "I") <=> RelayedTo(g, "I")
  BY DEF Opens, SameTransit, SameBooks, FlowRecord, Ends, Asked, RelayedTo
<1> USE DEF Opened, Closing, Ends, Peer
<1>2. AsksFirst(h)
  BY <1>1 DEF Agree, AsksFirst
<1>3. AnsweredOnce(h)
  BY <1>1 DEF Agree, AnsweredOnce
<1>4. ClosedOnce(h)
  BY <1>1 DEF Agree, ClosedOnce
<1> QED
  BY <1>2, <1>3, <1>4 DEF Agree

\* An end that releases the flow may have been asked to, or have asked itself.
LEMMA ReleasedAgrees ==
    ASSUME NEW g \in FlowRecord, NEW h \in FlowRecord, NEW e \in Ends, Released(g, h, e),
           g.status[e] = "TRANSFER", g.status[Peer(e)] \in Closing, Agree(g)
    PROVE  Agree(h)
<1>1. /\ h.status[e] = "DEALLOCATED" /\ h.status[Peer(e)] = g.status[Peer(e)]
      /\ h.con = g.con /\ h.closes = g.closes
      /\ h.efcpi["I"] = "none" <=> g.efcpi["I"] = "none"
      /\ h.hop = g.hop /\ h.relay = g.relay
      /\ Peer(e) \in Ends /\ Peer(Peer(e)) = e /\ Peer(e) # e
  BY DEF Released, SameBooks, FlowRecord, Ends, Peer
<1>2. OneMore(g.chan, h.chan, Peer(e), "M_DELETE_R")
  <2>1. g.chan \in [Ends -> Seq(Message)] /\ "M_DELETE_R" \in Message
    BY DEF FlowRecord, Message
  <2> QED
    BY <1>1, <2>1, OneMoreAppended DEF Released
<1>3. /\ \A m \in Message \ {"M_DELETE_R"}, end \in Ends :
            Holds(h.chan[end], m) => Holds(g.chan[end], m)
      /\ \A m \in {"M_CREATE_R+", "M_CREATE_R-"} :
            Single(g.chan["I"], m) => Single(h.chan["I"], m)
      /\ Holds(h.chan[e], "M_DELETE_R") => Holds(g.chan[e], "M_DELETE_R")
      /\ h.chan["I"] # <<>> => g.chan["I"] # <<>> \/ e = "R"
  BY <1>1, <1>2 DEF OneMore, Ends, Message
<1> USE DEF Opened, Closing
<1>4. AsksFirst(h)
  BY <1>1, <1>3 DEF Agree, AsksFirst, Asked, RelayedTo, Ends, Peer, Message
<1>5. AnsweredOnce(h)
  BY <1>1, <1>3 DEF Agree, AnsweredOnce, Ends, Peer, Message
<1>6. ClosedOnce(h)
  BY <1>1, <1>3 DEF Agree, ClosedOnce, Ends, Peer, Message
<1> QED
  BY <1>4, <1>5, <1>6 DEF Agree

LEMMA ReleaseAnsweredAgrees ==
    ASSUME NEW g \in FlowRecord, NEW h \in FlowRecord, NEW e \in Ends, ReleaseAnswered(g, h, e),
           g.status[e] = "DEALLOC_PEND", g.status[Peer(e)] = "DEALLOCATED", Agree(g)
    PROVE  Agree(h)
<1>1. /\ h.status[e] = "DEALLOCATED" /\ h.status[Peer(e)] = g.status[Peer(e)]
      /\ h.con = g.con /\ h.closes = g.closes /\ h.efcpi = g.efcpi
      /\ h.hop = g.hop /\ h.relay = g.relay /\ h.chan = g.chan
      /\ Peer(e) \in Ends /\ Peer(Peer(e)) = e /\ Peer(e) # e
  BY DEF ReleaseAnswered, SameBooks, SameTransit, FlowRecord, Ends, Peer
<1> USE DEF Opened, Closing
<1>2. AsksFirst(h)
  BY <1>1 DEF Agree, AsksFirst, Asked, RelayedTo, Ends, Peer, Message
<1>3. AnsweredOnce(h)
  BY <1>1 DEF Agree, AnsweredOnce, Ends, Peer, Message
<1>4. ClosedOnce(h)
  BY <1>1 DEF Agree, ClosedOnce, Ends, Peer, Message
<1> QED
  BY <1>2, <1>3, <1>4 DEF Agree

LEMMA DeallocationAskedAgrees ==
    ASSUME NEW g \in FlowRecord, NEW h \in FlowRecord, NEW e \in Ends,
           DeallocationAsked(g, h, e), g.con[e] = "connectpending", g.closes = 0, Agree(g)
    PROVE  /\ Agree(h)
           /\ g.status[e] = "TRANSFER"
           /\ g.status[Peer(e)] \in {"ALLOC_PEND", "TRANSFER"}
<1>1. /\ h.status[e] = "DEALLOC_PEND" /\ h.status[Peer(e)] = g.status[Peer(e)]
      /\ h.con = g.con /\ h.closes = 1
      /\ h.efcpi["I"] = "none" <=> g.efcpi["I"] = "none"
      /\ h.hop = g.hop /\ h.relay = g.relay
      /\ Peer(e) \in Ends /\ Peer(Peer(e)) = e /\ Peer(e) # e
  BY DEF DeallocationAsked, SameUsers, FlowRecord, Ends, Peer
<1>2. OneMore(g.chan, h.chan, Peer(e), "M_DELETE")
  <2>1. g.chan \in [Ends -> Seq(Message)] /\ "M_DELETE" \in Message
    BY DEF FlowRecord, Message
  <2> QED
    BY <1>1, <2>1, OneMoreAppended DEF DeallocationAsked
<1>3. /\ \A m \in Message \ {"M_DELETE"}, end \in Ends :
            Holds(h.chan[end], m) => Holds(g.chan[end], m)
      /\ \A m \in {"M_CREATE_R+", "M_CREATE_R-"} :
            Single(g.chan["I"], m) => Single(h.chan["I"], m)
      /\ Holds(h.chan[e], "M_DELETE") => Holds(g.chan[e], "M_DELETE")
      /\ h.chan["I"] # <<>> => g.chan["I"] # <<>> \/ e = "R"
  BY <1>1, <1>2 DEF OneMore, Ends, Message
<1> USE DEF Opened, Closing
<1>4. g.status[e] = "TRANSFER" /\ g.status[Peer(e)] \notin Closing
  BY <1>1 DEF Agree, ClosedOnce
<1>5. g.status[Peer(e)] \in {"ALLOC_PEND", "TRANSFER"}
  BY <1>4 DEF Agree, AsksFirst, AnsweredOnce, Asked, Ends, Peer, FlowRecord, Status
<1>6. AsksFirst(h)
  BY <1>1, <1>3, <1>4, <1>5 DEF Agree, AsksFirst, Asked, RelayedTo, Ends, Peer, Message
<1>7. AnsweredOnce(h)
  BY <1>1, <1>3, <1>4, <1>5 DEF Agree, AnsweredOnce, Ends, Peer, Message
<1>8. ClosedOnce(h)
  BY <1>1, <1>3, <1>4, <1>5 DEF Agree, ClosedOnce, Ends, Peer, Message
<1> QED
  BY <1>4, <1>5, <1>6, <1>7, <1>8 DEF Agree

-----------------------------------------------------------------------------
(* What the actions do to a flow, and to the (N-1)-flows.                    *)

\* FAI::receiveAllocateRequest for a flow that waits; an M_CREATE takes an (N-1)-flow.
Started(f, g, h) ==
    /\ g.status["I"] = "ALLOC_PEND"
    /\ Established("I", f) \/ SameTransit(g, h)
    /\ IF f \in Unfit["I"] THEN GivenUp(g, h) ELSE RequestHandled(g, h)

AskedFor(f, g, h) ==
    /\ g.status["I"] = "NONE"
    /\ \E k \in FlowRecord :
          /\ AllocationAsked(g, k)
          /\ \/ StatusChanged(k, h, "I", "ALLOC_ERR")
             \/ h = k
             \/ enrolled = TRUE /\ Started(f, k, h)

Queued(g, h) == g.status["I"] = "ALLOC_PEND" /\ QueuedSet(g, h, TRUE)

Resumed(f, g, h) ==
    /\ g.queued = TRUE
    /\ \E k \in FlowRecord : QueuedSet(g, k, FALSE) /\ (h = k \/ Started(f, k, h))

Announced(g, h, to) ==
    /\ CreateSent(g, h, to)
    /\ to = "R" => g.efcpi["I"] # "none"
    /\ to = "I" => g.status["R"] # "NONE"

HeldForwarded(g, h) ==
    \E n \in Nat : Forwarded(g, h, "R", n) /\ (n # 0 => RelayedTo(g, "R"))

ReachedRelay(g, h, to) == CreateRelayed(g, h, to) /\ g.hop[to] > 0

Took(g, h, e, msg) ==
    g.chan[e] # <<>> /\ Head(g.chan[e]) = msg /\ MessageTaken(g, h, e)

\* The answer waits only for an (N-1)-flow that is not there.
AnsweredTo(f, g, h) ==
    \/ AcceptedSending(g, h)
    \/ ~Established("R", f) /\ AcceptedHolding(g, h)
    \/ RefusedByUser(g, h)
    \/ Ignored(g, h)

CreateReceived(f, g, h, e) ==
    \E k \in FlowRecord :
        /\ Took(g, k, e, "M_CREATE")
        /\ \/ h = k
           \/ g.status[e] = "NONE" /\ (e = "R" => AnsweredTo(f, k, h))

OpeningReceived(g, h) ==
    \E k \in FlowRecord : Took(g, k, "I", "M_CREATE_R+") /\ Opens(k, h)

RefusalReceived(g, h, e) ==
    \E k \in FlowRecord :
        /\ Took(g, k, e, "M_CREATE_R-")
        /\ IF e = "I" THEN Retried(k, h) \/ GivenUp(k, h) ELSE h = k

DeleteReceived(g, h, e) ==
    \E k \in FlowRecord :
        /\ Took(g, k, e, "M_DELETE")
        /\ IF g.status[e] = "TRANSFER" THEN Released(k, h, e) ELSE h = k

DeleteRReceived(g, h, e) ==
    \E k \in FlowRecord :
        /\ Took(g, k, e, "M_DELETE_R")
        /\ IF g.status[e] = "DEALLOC_PEND" THEN ReleaseAnswered(k, h, e) ELSE h = k

Lost(g, h, e) == g.chan[e] # <<>> /\ MessageTaken(g, h, e)

CloseAsked(g, h, e) ==
    DeallocationAsked(g, h, e) /\ g.con[e] = "connectpending" /\ g.closes < MaxCloses

\* The allocation of an (N-1)-flow ends once.
Nm1Kept ==
    \A node \in Nodes, key \in KeySet : \A s \in {"established", "refused"} :
        nm1[node][key] = s => nm1'[node][key] = s

LEMMA KeyTyped ==
    ASSUME FlowAllocationAssumption, NEW f \in Flows
    PROVE  KeyOf(f) \in KeySet
BY DEF FlowAllocationAssumption, KeyOf, KeySet

LEMMA BindEffect ==
    ASSUME TypeOK, NEW node \in Nodes, NEW flows, Bind(node, flows)
    PROVE  nm1' \in [Nodes -> [KeySet -> Nm1State]] /\ Nm1Kept
<1> DEFINE row == [key \in KeySet |-> IF nm1[node][key] = "none" /\ key \in {KeyOf(f) : f \in flows}
                                      THEN "pending" ELSE nm1[node][key]]
<1>1. nm1' = [nm1 EXCEPT ![node] = row]
  BY DEF Bind
<1>2. nm1 \in [Nodes -> [KeySet -> Nm1State]]
  BY DEF TypeOK
<1>3. row \in [KeySet -> Nm1State]
  BY <1>2 DEF Nm1State
<1>4. \A key \in KeySet : \A s \in {"established", "refused"} : nm1[node][key] = s => row[key] = s
  OBVIOUS
<1> HIDE DEF row
<1> QED
  BY <1>1, <1>2, <1>3, <1>4 DEF Nm1Kept

LEMMA Nm1EndEffect ==
    ASSUME TypeOK, NEW node \in Nodes, NEW key \in KeySet, NEW s \in Nm1State,
           nm1[node][key] = "pending", nm1' = [nm1 EXCEPT ![node][key] = s]
    PROVE  nm1' \in [Nodes -> [KeySet -> Nm1State]] /\ Nm1Kept
<1> DEFINE row == [nm1[node] EXCEPT ![key] = s]
<1>1. nm1 \in [Nodes -> [KeySet -> Nm1State]]
  BY DEF TypeOK
<1>2. nm1' = [nm1 EXCEPT ![node] = row] /\ row \in [KeySet -> Nm1State]
  BY <1>1
<1>3. \A k \in KeySet : \A v \in {"established", "refused"} : nm1[node][k] = v => row[k] = v
  BY <1>1
<1> HIDE DEF row
<1> QED
  BY <1>1, <1>2, <1>3 DEF Nm1Kept

\* Every flow has its record, and other flows than f keep theirs.
LEMMA SetEffect ==
    ASSUME TypeOK, NEW f \in Flows, NEW h \in FlowRecord, Set(f, h)
    PROVE  /\ fl' \in [Flows -> FlowRecord]
           /\ fl'[f] = h
           /\ \A other \in Flows \ {f} : fl'[other] = fl[other]
BY DEF Set, TypeOK

\* FAI::receiveAllocateRequest for any flow.
LEMMA StartEffect ==
    ASSUME NEW f \in Flows, NEW g \in FlowRecord
    PROVE  /\ ReceiveAllocateRequest(g, Fits(f, "I"), Established("I", f)) \in FlowRecord
           /\ \/ ReceiveAllocateRequest(g, Fits(f, "I"), Established("I", f)) = g
              \/ Started(f, g, ReceiveAllocateRequest(g, Fits(f, "I"), Established("I", f)))
<1> DEFINE h == ReceiveAllocateRequest(g, Fits(f, "I"), Established("I", f))
<1>1. /\ h \in FlowRecord
      /\ g.status["I"] # "ALLOC_PEND" => h = g
      /\ g.status["I"] = "ALLOC_PEND" /\ ~Fits(f, "I") => GivenUp(g, h)
      /\ g.status["I"] = "ALLOC_PEND" /\ Fits(f, "I") => RequestHandled(g, h)
      /\ ~Established("I", f) => SameTransit(g, h)
  BY RequestEffect
<1> HIDE DEF h
<1>2. h = g \/ Started(f, g, h)
  BY <1>1 DEF Started, Fits
<1> QED
  BY <1>1, <1>2 DEF h

LEMMA AllocateRequestMoves ==
    ASSUME TypeOK, FlowAllocationAssumption, NEW f \in Flows, AllocateRequest(f)
    PROVE  /\ fl' \in [Flows -> FlowRecord]
           /\ AskedFor(f, fl[f], fl'[f])
           /\ \A other \in Flows \ {f} : fl'[other] = fl[other]
           /\ nm1' \in [Nodes -> [KeySet -> Nm1State]] /\ Nm1Kept
<1> DEFINE k == ChangeAllocStatus(AEInsertFlow(fl[f], "I"), "I", "ALLOC_PEND")
<1>1. fl[f] \in FlowRecord /\ fl[f].status["I"] = "NONE"
  BY DEF TypeOK, AllocateRequest
<1>2. k \in FlowRecord /\ AllocationAsked(fl[f], k)
  BY <1>1, AskedEffect
<1>3. \/ Set(f, ChangeAllocStatus(k, "I", "ALLOC_ERR")) /\ UNCHANGED nm1
      \/ /\ enrolled = TRUE
         /\ Set(f, ReceiveAllocateRequest(k, Fits(f, "I"), Established("I", f)))
         /\ Bind("I", {f} \ Unfit["I"])
      \/ Set(f, k) /\ UNCHANGED nm1
  BY DEF AllocateRequest, TypeOK
<1> HIDE DEF k
<1>4. "I" \in Nodes /\ "I" \in Ends /\ "ALLOC_ERR" \in Status
  BY DEF Nodes, Ends, Status
<1>5. nm1' \in [Nodes -> [KeySet -> Nm1State]] /\ Nm1Kept
  <2>1. CASE UNCHANGED nm1
    BY <2>1 DEF TypeOK, Nm1Kept
  <2>2. CASE Bind("I", {f} \ Unfit["I"])
    BY <2>2, <1>4, BindEffect
  <2> QED
    BY <1>3, <2>1, <2>2
<1>6. CASE Set(f, ChangeAllocStatus(k, "I", "ALLOC_ERR"))
  <2> DEFINE h == ChangeAllocStatus(k, "I", "ALLOC_ERR")
  <2>1. h \in FlowRecord /\ StatusChanged(k, h, "I", "ALLOC_ERR")
    BY <1>2, <1>4, ChangeAllocStatusEffect
  <2>2. Set(f, h)
    BY <1>6
  <2> HIDE DEF h
  <2>3. AskedFor(f, fl[f], h)
    BY <1>1, <1>2, <2>1 DEF AskedFor
  <2>4. fl' \in [Flows -> FlowRecord] /\ fl'[f] = h /\ \A other \in Flows \ {f} : fl'[other] = fl[other]
    BY <2>1, <2>2, SetEffect
  <2> QED
    BY <1>5, <2>3, <2>4
<1>7. CASE enrolled = TRUE /\ Set(f, ReceiveAllocateRequest(k, Fits(f, "I"), Established("I", f)))
  <2> DEFINE h == ReceiveAllocateRequest(k, Fits(f, "I"), Established("I", f))
  <2>1. h \in FlowRecord /\ (h = k \/ Started(f, k, h))
    BY <1>2, StartEffect
  <2>2. Set(f, h)
    BY <1>7
  <2> HIDE DEF h
  <2>3. AskedFor(f, fl[f], h)
    BY <1>1, <1>2, <1>7, <2>1 DEF AskedFor
  <2>4. fl' \in [Flows -> FlowRecord] /\ fl'[f] = h /\ \A other \in Flows \ {f} : fl'[other] = fl[other]
    BY <2>1, <2>2, SetEffect
  <2> QED
    BY <1>5, <2>3, <2>4
<1>8. CASE Set(f, k)
  <2>1. AskedFor(f, fl[f], k)
    BY <1>1, <1>2 DEF AskedFor
  <2>2. fl' \in [Flows -> FlowRecord] /\ fl'[f] = k /\ \A other \in Flows \ {f} : fl'[other] = fl[other]
    BY <1>2, <1>8, SetEffect
  <2> QED
    BY <1>5, <2>1, <2>2
<1> QED
  BY <1>3, <1>6, <1>7, <1>8

LEMMA EnrollmentFinishedMoves ==
    ASSUME TypeOK, NEW n \in Neighbors, EnrollmentFinished(n)
    PROVE  /\ fl' \in [Flows -> FlowRecord]
           /\ \A f \in Flows : fl'[f] = fl[f] \/ (NeighborOf[f] = n /\ Queued(fl[f], fl'[f]))
<1> DEFINE after(f) == IF NeighborOf[f] = n /\ fl[f].status["I"] = "ALLOC_PEND"
                       THEN [fl[f] EXCEPT !.queued = TRUE] ELSE fl[f]
<1>1. fl' = [f \in Flows |-> after(f)]
  BY DEF EnrollmentFinished
<1>2. ASSUME NEW f \in Flows
      PROVE  after(f) \in FlowRecord /\ (after(f) = fl[f] \/ (NeighborOf[f] = n /\ Queued(fl[f], after(f))))
  <2>1. fl[f] \in FlowRecord
    BY DEF TypeOK
  <2>2. /\ [fl[f] EXCEPT !.queued = TRUE] \in FlowRecord
        /\ QueuedSet(fl[f], [fl[f] EXCEPT !.queued = TRUE], TRUE)
    BY <2>1, QueuedSetEffect
  <2> QED
    BY <2>1, <2>2 DEF Queued
<1> HIDE DEF after
<1>3. fl' \in [Flows -> FlowRecord] /\ \A f \in Flows : fl'[f] = after(f)
  BY <1>1, <1>2
<1> QED
  BY <1>2, <1>3

LEMMA HandlePendingFlowsMoves ==
    ASSUME TypeOK, HandlePendingFlows
    PROVE  /\ fl' \in [Flows -> FlowRecord]
           /\ \A f \in Flows : fl'[f] = fl[f] \/ Resumed(f, fl[f], fl'[f])
           /\ nm1' \in [Nodes -> [KeySet -> Nm1State]] /\ Nm1Kept
<1> DEFINE k(f) == [fl[f] EXCEPT !.queued = FALSE]
           start(f) == ReceiveAllocateRequest(k(f), Fits(f, "I"), Established("I", f))
           after(f) == IF fl[f].queued THEN start(f) ELSE fl[f]
           pending == {f \in Flows : fl[f].queued}
<1>1. fl' = [f \in Flows |-> after(f)]
  <2>1. fl' = [f \in Flows |-> IF f \in pending THEN start(f) ELSE fl[f]]
    BY DEF HandlePendingFlows
  <2> HIDE DEF start
  <2> QED
    BY <2>1
<1>2. ASSUME NEW f \in Flows
      PROVE  after(f) \in FlowRecord /\ (after(f) = fl[f] \/ Resumed(f, fl[f], after(f)))
  <2>1. fl[f] \in FlowRecord
    BY DEF TypeOK
  <2>2. CASE ~fl[f].queued
    BY <2>1, <2>2
  <2>3. CASE fl[f].queued
    <3>1. fl[f].queued = TRUE /\ after(f) = start(f)
      BY <2>1, <2>3 DEF FlowRecord
    <3>2. k(f) \in FlowRecord /\ QueuedSet(fl[f], k(f), FALSE)
      BY <2>1, QueuedSetEffect
    <3> HIDE DEF k, after
    <3>3. start(f) \in FlowRecord /\ (start(f) = k(f) \/ Started(f, k(f), start(f)))
      BY <3>2, StartEffect
    <3> HIDE DEF start
    <3> QED
      BY <3>1, <3>2, <3>3 DEF Resumed
  <2> QED
    BY <2>2, <2>3
<1>3. nm1' \in [Nodes -> [KeySet -> Nm1State]] /\ Nm1Kept
  <2>1. PICK flows : Bind("I", flows)
    BY DEF HandlePendingFlows
  <2>2. "I" \in Nodes
    BY DEF Nodes, Ends
  <2> QED
    BY <2>1, <2>2, BindEffect
<1> HIDE DEF after
<1>4. fl' \in [Flows -> FlowRecord] /\ \A f \in Flows : fl'[f] = after(f)
  BY <1>1, <1>2
<1> QED
  BY <1>2, <1>3, <1>4

LEMMA Nm1EstablishedMoves ==
    ASSUME TypeOK, NEW e \in Ends, NEW key \in KeySet, Nm1Established(e, key)
    PROVE  /\ fl' \in [Flows -> FlowRecord]
           /\ \A f \in Flows : fl'[f] = fl[f] \/ Announced(fl[f], fl'[f], Peer(e))
           /\ nm1' \in [Nodes -> [KeySet -> Nm1State]] /\ Nm1Kept
           /\ nm1'[e][key] = "established"
<1> DEFINE after(f) == IF QoSOf[f] = key[2] /\ HasQoS(f, e)
                       THEN SendCreateRequestFlow(fl[f], Peer(e)) ELSE fl[f]
<1>1. fl' = [f \in Flows |-> after(f)]
  BY DEF Nm1Established, CreateFlowResponsePositiveFromNminusOne
<1>2. ASSUME NEW f \in Flows
      PROVE  after(f) \in FlowRecord /\ (after(f) = fl[f] \/ Announced(fl[f], after(f), Peer(e)))
  <2>1. fl[f] \in FlowRecord /\ Peer(e) \in Ends
    BY DEF TypeOK, Peer, Ends
  <2>2. CASE ~(QoSOf[f] = key[2] /\ HasQoS(f, e))
    BY <2>1, <2>2
  <2>3. CASE QoSOf[f] = key[2] /\ HasQoS(f, e)
    <3>1. /\ SendCreateRequestFlow(fl[f], Peer(e)) \in FlowRecord
          /\ CreateSent(fl[f], SendCreateRequestFlow(fl[f], Peer(e)), Peer(e))
      BY <2>1, SendCreateRequestFlowEffect
    <3>2. after(f) = SendCreateRequestFlow(fl[f], Peer(e))
      BY <2>3
    <3> HIDE DEF after
    <3>3. Announced(fl[f], after(f), Peer(e))
      BY <2>3, <3>1, <3>2 DEF Announced, HasQoS, Peer, Ends
    <3> QED
      BY <3>1, <3>2, <3>3
  <2> QED
    BY <2>2, <2>3
<1>3. nm1' \in [Nodes -> [KeySet -> Nm1State]] /\ Nm1Kept
  <2>1. e \in Nodes /\ "established" \in Nm1State
    BY DEF Nodes, Nm1State
  <2> QED
    BY <2>1, Nm1EndEffect DEF Nm1Established
<1>4. nm1'[e][key] = "established"
  BY DEF Nm1Established, TypeOK, Nodes
<1> HIDE DEF after
<1>5. fl' \in [Flows -> FlowRecord] /\ \A f \in Flows : fl'[f] = after(f)
  BY <1>1, <1>2
<1> QED
  BY <1>2, <1>3, <1>4, <1>5

LEMMA Nm1RefusedMoves ==
    ASSUME TypeOK, NEW e \in Ends, NEW key \in KeySet, Nm1Refused(e, key)
    PROVE  /\ fl' \in [Flows -> FlowRecord]
           /\ \A f \in Flows : fl'[f] = fl[f] \/ Declined(fl[f], fl'[f], e)
           /\ nm1' \in [Nodes -> [KeySet -> Nm1State]] /\ Nm1Kept
           /\ nm1'[e][key] = "refused"
<1> DEFINE after(f) == IF fl[f].status[e] \notin {"NONE", "ALLOC_ERR"}
                       THEN AllocationResponseNegative(fl[f], e) ELSE fl[f]
<1>1. fl' = [f \in Flows |-> after(f)]
  BY DEF Nm1Refused
<1>2. ASSUME NEW f \in Flows
      PROVE  after(f) \in FlowRecord /\ (after(f) = fl[f] \/ Declined(fl[f], after(f), e))
  <2>1. fl[f] \in FlowRecord
    BY DEF TypeOK
  <2>2. /\ AllocationResponseNegative(fl[f], e) \in FlowRecord
        /\ Declined(fl[f], AllocationResponseNegative(fl[f], e), e)
    BY <2>1, AllocationResponseNegativeEffect
  <2> QED
    BY <2>1, <2>2
<1>3. nm1' \in [Nodes -> [KeySet -> Nm1State]] /\ Nm1Kept
  <2>1. e \in Nodes /\ "refused" \in Nm1State
    BY DEF Nodes, Nm1State
  <2> QED
    BY <2>1, Nm1EndEffect DEF Nm1Refused
<1>4. nm1'[e][key] = "refused"
  BY DEF Nm1Refused, TypeOK, Nodes
<1> HIDE DEF after
<1>5. fl' \in [Flows -> FlowRecord] /\ \A f \in Flows : fl'[f] = after(f)
  BY <1>1, <1>2
<1> QED
  BY <1>2, <1>3, <1>4, <1>5

\* A relay holds finitely many M_CREATEs.
LEMMA WaitingFinite ==
    ASSUME NEW g \in FlowRecord, NEW to \in Ends
    PROVE  /\ IsFiniteSet(Waiting(g, to))
           /\ Cardinality(Waiting(g, to)) \in Nat
           /\ Cardinality(Waiting(g, to)) # 0 => RelayedTo(g, to)
<1>1. g.relay \in Seq(RelayEntry)
  BY DEF FlowRecord
<1>2. DOMAIN g.relay = 1..Len(g.relay) /\ Len(g.relay) \in Nat
  BY <1>1
<1>3. Waiting(g, to) \subseteq 1..Len(g.relay)
  BY <1>2 DEF Waiting
<1>4. IsFiniteSet(1..Len(g.relay))
  BY <1>2, FS_Interval
<1>5. IsFiniteSet(Waiting(g, to))
  BY <1>3, <1>4, FS_Subset
<1>6. Cardinality(Waiting(g, to)) \in Nat
  BY <1>5, FS_CardinalityType
<1>7. Waiting(g, to) = {} => Cardinality(Waiting(g, to)) = 0
  BY FS_EmptySet
<1>8. Waiting(g, to) # {} => RelayedTo(g, to)
  BY <1>3 DEF Waiting, RelayedTo
<1> QED
  BY <1>5, <1>6, <1>7, <1>8

LEMMA RelayNm1EstablishedMoves ==
    ASSUME TypeOK, NEW key \in KeySet, RelayNm1Established(key)
    PROVE  /\ fl' \in [Flows -> FlowRecord]
           /\ \A f \in Flows : fl'[f] = fl[f] \/ HeldForwarded(fl[f], fl'[f])
           /\ nm1' \in [Nodes -> [KeySet -> Nm1State]] /\ Nm1Kept
<1> DEFINE forward(f) == NM1FlowCreated(fl[f], "R", Waiting(fl[f], "R"))
           after(f) == IF NeighborOf[f] = key[1] THEN forward(f) ELSE fl[f]
<1>1. fl' = [f \in Flows |-> after(f)]
  BY DEF RelayNm1Established
<1>2. ASSUME NEW f \in Flows
      PROVE  after(f) \in FlowRecord /\ (after(f) = fl[f] \/ HeldForwarded(fl[f], after(f)))
  <2> DEFINE n == Cardinality(Waiting(fl[f], "R"))
  <2>1. fl[f] \in FlowRecord /\ "R" \in Ends
    BY DEF TypeOK, Ends
  <2>2. /\ IsFiniteSet(Waiting(fl[f], "R"))
        /\ n \in Nat
        /\ n # 0 => RelayedTo(fl[f], "R")
    BY <2>1, WaitingFinite
  <2>3. forward(f) \in FlowRecord /\ Forwarded(fl[f], forward(f), "R", n)
    BY <2>1, <2>2, NM1FlowCreatedEffect
  <2> HIDE DEF n, forward
  <2>4. HeldForwarded(fl[f], forward(f))
    BY <2>2, <2>3 DEF HeldForwarded
  <2> QED
    BY <2>1, <2>3, <2>4
<1>3. nm1' \in [Nodes -> [KeySet -> Nm1State]] /\ Nm1Kept
  <2>1. "relay" \in Nodes /\ "established" \in Nm1State
    BY DEF Nodes, Nm1State
  <2> QED
    BY <2>1, Nm1EndEffect DEF RelayNm1Established
<1> HIDE DEF after
<1>4. fl' \in [Flows -> FlowRecord] /\ \A f \in Flows : fl'[f] = after(f)
  BY <1>1, <1>2
<1> QED
  BY <1>2, <1>3, <1>4

LEMMA ReceiveCreateAtRelayMoves ==
    ASSUME TypeOK, NEW f \in Flows, NEW to \in Ends, ReceiveCreateAtRelay(f, to)
    PROVE  /\ fl' \in [Flows -> FlowRecord]
           /\ ReachedRelay(fl[f], fl'[f], to)
           /\ \A other \in Flows \ {f} : fl'[other] = fl[other]
           /\ nm1' \in [Nodes -> [KeySet -> Nm1State]] /\ Nm1Kept
<1> DEFINE there == to = "I" \/ Established("relay", f)
           h == ForwardCreateRequest(fl[f], to, there)
<1>1. fl[f] \in FlowRecord /\ fl[f].hop[to] > 0
  BY DEF TypeOK, ReceiveCreateAtRelay
<1>2. there \in BOOLEAN
  BY DEF Established
<1>3. Set(f, h)
  BY DEF ReceiveCreateAtRelay
<1>4. h \in FlowRecord /\ CreateRelayed(fl[f], h, to)
  <2> HIDE DEF there
  <2> QED
    BY <1>1, <1>2, ForwardEffect
<1>5. nm1' \in [Nodes -> [KeySet -> Nm1State]] /\ Nm1Kept
  <2>1. Bind("relay", {f}) \/ UNCHANGED nm1
    BY DEF ReceiveCreateAtRelay
  <2>2. "relay" \in Nodes
    BY DEF Nodes
  <2>3. CASE UNCHANGED nm1
    BY <2>3 DEF TypeOK, Nm1Kept
  <2>4. CASE Bind("relay", {f})
    BY <2>2, <2>4, BindEffect
  <2> QED
    BY <2>1, <2>3, <2>4
<1> HIDE DEF h
<1>6. fl' \in [Flows -> FlowRecord] /\ fl'[f] = h /\ \A other \in Flows \ {f} : fl'[other] = fl[other]
  BY <1>3, <1>4, SetEffect
<1> QED
  BY <1>1, <1>4, <1>5, <1>6 DEF ReachedRelay

LEMMA TakenEffect ==
    ASSUME TypeOK, NEW f \in Flows, NEW e \in Ends, NEW msg, Arrives(f, e, msg)
    PROVE  Taken(f, e) \in FlowRecord /\ Took(fl[f], Taken(f, e), e, msg)
<1>1. fl[f] \in FlowRecord /\ fl[f].chan[e] # <<>> /\ Head(fl[f].chan[e]) = msg
  BY DEF TypeOK, Arrives
<1>2. /\ [fl[f] EXCEPT !.chan[e] = Tail(@)] \in FlowRecord
      /\ MessageTaken(fl[f], [fl[f] EXCEPT !.chan[e] = Tail(@)], e)
  BY <1>1, MessageTakenEffect
<1> QED
  BY <1>1, <1>2 DEF Taken, Took

LEMMA ReceiveCreateMoves ==
    ASSUME TypeOK, FlowAllocationAssumption, NEW f \in Flows, NEW e \in Ends, ReceiveCreate(f, e)
    PROVE  /\ fl' \in [Flows -> FlowRecord]
           /\ CreateReceived(f, fl[f], fl'[f], e)
           /\ \A other \in Flows \ {f} : fl'[other] = fl[other]
           /\ nm1' \in [Nodes -> [KeySet -> Nm1State]] /\ Nm1Kept
<1> DEFINE k == Taken(f, e)
<1>1. k \in FlowRecord /\ Took(fl[f], k, e, "M_CREATE")
  BY TakenEffect DEF ReceiveCreate
<1>2. nm1' \in [Nodes -> [KeySet -> Nm1State]] /\ Nm1Kept
  <2>1. Bind(e, {f}) \/ UNCHANGED nm1
    BY DEF ReceiveCreate
  <2>2. CASE UNCHANGED nm1
    BY <2>2 DEF TypeOK, Nm1Kept
  <2>3. CASE Bind(e, {f})
    BY <2>3, BindEffect DEF Nodes
  <2> QED
    BY <2>1, <2>2, <2>3
<1>3. CASE Set(f, k)
  <2>1. fl' \in [Flows -> FlowRecord] /\ fl'[f] = k /\ \A other \in Flows \ {f} : fl'[other] = fl[other]
    <3> HIDE DEF k
    <3> QED
      BY <1>1, <1>3, SetEffect
  <2>2. CreateReceived(f, fl[f], k, e)
    BY <1>1 DEF CreateReceived
  <2> QED
    BY <1>2, <2>1, <2>2
<1>4. CASE /\ fl[f].status[e] = "NONE"
           /\ \E answer \in Answers :
                 Set(f, ReceiveCreateRequest(k, Fits(f, e), answer, Established(e, f)))
  <2>1. PICK answer \in {"accept", "refuse", "silent"} :
           Set(f, ReceiveCreateRequest(k, Fits(f, e), answer, Established(e, f)))
    BY <1>4 DEF FlowAllocationAssumption
  <2> DEFINE h == ReceiveCreateRequest(k, Fits(f, e), answer, Established(e, f))
  <2> HIDE DEF k
  <2>2. /\ h \in FlowRecord
        /\ \/ AcceptedSending(k, h)
           \/ ~Established(e, f) /\ AcceptedHolding(k, h)
           \/ RefusedByUser(k, h)
           \/ Ignored(k, h)
    BY <1>1, CreateEffect
  <2>3. Set(f, h)
    BY <2>1
  <2> HIDE DEF h
  <2>4. fl' \in [Flows -> FlowRecord] /\ fl'[f] = h /\ \A other \in Flows \ {f} : fl'[other] = fl[other]
    BY <2>2, <2>3, SetEffect
  <2>5. e = "R" => AnsweredTo(f, k, h)
    BY <2>2 DEF AnsweredTo
  <2>6. CreateReceived(f, fl[f], h, e)
    BY <1>1, <1>4, <2>5 DEF CreateReceived
  <2> QED
    BY <1>2, <2>4, <2>6
<1> QED
  BY <1>3, <1>4 DEF ReceiveCreate

LEMMA ReceiveCreateRPositiveMoves ==
    ASSUME TypeOK, NEW f \in Flows, ReceiveCreateRPositive(f)
    PROVE  /\ fl' \in [Flows -> FlowRecord]
           /\ OpeningReceived(fl[f], fl'[f])
           /\ \A other \in Flows \ {f} : fl'[other] = fl[other]
<1> DEFINE k == Taken(f, "I")
           h == ReceiveCreateResponsePositive(k)
<1>1. k \in FlowRecord /\ Took(fl[f], k, "I", "M_CREATE_R+")
  BY TakenEffect DEF ReceiveCreateRPositive, Ends
<1>2. Set(f, h)
  BY DEF ReceiveCreateRPositive
<1> HIDE DEF k
<1>3. h \in FlowRecord /\ Opens(k, h)
  BY <1>1, OpenEffect
<1> HIDE DEF h
<1>4. fl' \in [Flows -> FlowRecord] /\ fl'[f] = h /\ \A other \in Flows \ {f} : fl'[other] = fl[other]
  BY <1>2, <1>3, SetEffect
<1> QED
  BY <1>1, <1>3, <1>4 DEF OpeningReceived

LEMMA ReceiveCreateRNegativeMoves ==
    ASSUME TypeOK, NEW f \in Flows, NEW e \in Ends, ReceiveCreateRNegative(f, e)
    PROVE  /\ fl' \in [Flows -> FlowRecord]
           /\ RefusalReceived(fl[f], fl'[f], e)
           /\ \A other \in Flows \ {f} : fl'[other] = fl[other]
<1> DEFINE k == Taken(f, e)
           refused == ReceiveCreateResponseNegative(k)
           h == IF e = "I" THEN refused ELSE k
<1>1. k \in FlowRecord /\ Took(fl[f], k, e, "M_CREATE_R-")
  BY TakenEffect DEF ReceiveCreateRNegative
<1>2. Set(f, h)
  BY DEF ReceiveCreateRNegative
<1> HIDE DEF k
<1>3. refused \in FlowRecord /\ (Retried(k, refused) \/ GivenUp(k, refused))
  BY <1>1, CreateRefusedEffect
<1> HIDE DEF refused
<1>4. h \in FlowRecord /\ IF e = "I" THEN Retried(k, h) \/ GivenUp(k, h) ELSE h = k
  BY <1>1, <1>3
<1> HIDE DEF h
<1>5. fl' \in [Flows -> FlowRecord] /\ fl'[f] = h /\ \A other \in Flows \ {f} : fl'[other] = fl[other]
  BY <1>2, <1>4, SetEffect
<1> QED
  BY <1>1, <1>4, <1>5 DEF RefusalReceived

LEMMA ReceiveDeleteMoves ==
    ASSUME TypeOK, NEW f \in Flows, NEW e \in Ends, ReceiveDelete(f, e)
    PROVE  /\ fl' \in [Flows -> FlowRecord]
           /\ DeleteReceived(fl[f], fl'[f], e)
           /\ \A other \in Flows \ {f} : fl'[other] = fl[other]
<1> DEFINE k == Taken(f, e)
           h == ReceiveDeleteRequest(k, e)
<1>1. k \in FlowRecord /\ Took(fl[f], k, e, "M_DELETE")
  BY TakenEffect DEF ReceiveDelete
<1>2. Set(f, h)
  BY DEF ReceiveDelete
<1> HIDE DEF k
<1>3. k.status = fl[f].status
  BY <1>1 DEF Took, MessageTaken
<1>4. CASE fl[f].status[e] = "TRANSFER"
  <2>1. h \in FlowRecord /\ Released(k, h, e)
    BY <1>1, <1>3, <1>4, DeleteRequestEffect
  <2> HIDE DEF h
  <2>2. fl' \in [Flows -> FlowRecord] /\ fl'[f] = h /\ \A other \in Flows \ {f} : fl'[other] = fl[other]
    BY <1>2, <2>1, SetEffect
  <2> QED
    BY <1>1, <1>4, <2>1, <2>2 DEF DeleteReceived
<1>5. CASE fl[f].status[e] # "TRANSFER"
  <2>1. h = k
    BY <1>3, <1>5 DEF ReceiveDeleteRequest
  <2> HIDE DEF h
  <2>2. fl' \in [Flows -> FlowRecord] /\ fl'[f] = k /\ \A other \in Flows \ {f} : fl'[other] = fl[other]
    BY <1>1, <1>2, <2>1, SetEffect
  <2> QED
    BY <1>1, <1>5, <2>2 DEF DeleteReceived
<1> QED
  BY <1>4, <1>5

LEMMA ReceiveDeleteRMoves ==
    ASSUME TypeOK, NEW f \in Flows, NEW e \in Ends, ReceiveDeleteR(f, e)
    PROVE  /\ fl' \in [Flows -> FlowRecord]
           /\ DeleteRReceived(fl[f], fl'[f], e)
           /\ \A other \in Flows \ {f} : fl'[other] = fl[other]
<1> DEFINE k == Taken(f, e)
           h == ReceiveDeleteResponse(k, e)
<1>1. k \in FlowRecord /\ Took(fl[f], k, e, "M_DELETE_R")
  BY TakenEffect DEF ReceiveDeleteR
<1>2. Set(f, h)
  BY DEF ReceiveDeleteR
<1> HIDE DEF k
<1>3. k.status = fl[f].status
  BY <1>1 DEF Took, MessageTaken
<1>4. CASE fl[f].status[e] = "DEALLOC_PEND"
  <2>1. h \in FlowRecord /\ ReleaseAnswered(k, h, e)
    BY <1>1, <1>3, <1>4, DeleteResponseEffect
  <2> HIDE DEF h
  <2>2. fl' \in [Flows -> FlowRecord] /\ fl'[f] = h /\ \A other \in Flows \ {f} : fl'[other] = fl[other]
    BY <1>2, <2>1, SetEffect
  <2> QED
    BY <1>1, <1>4, <2>1, <2>2 DEF DeleteRReceived
<1>5. CASE fl[f].status[e] # "DEALLOC_PEND"
  <2>1. h = k
    BY <1>3, <1>5 DEF ReceiveDeleteResponse
  <2> HIDE DEF h
  <2>2. fl' \in [Flows -> FlowRecord] /\ fl'[f] = k /\ \A other \in Flows \ {f} : fl'[other] = fl[other]
    BY <1>1, <1>2, <2>1, SetEffect
  <2> QED
    BY <1>1, <1>5, <2>2 DEF DeleteRReceived
<1> QED
  BY <1>4, <1>5

LEMMA LoseMoves ==
    ASSUME TypeOK, NEW f \in Flows, NEW e \in Ends, Lose(f, e)
    PROVE  /\ fl' \in [Flows -> FlowRecord]
           /\ Lost(fl[f], fl'[f], e)
           /\ \A other \in Flows \ {f} : fl'[other] = fl[other]
<1> DEFINE k == Taken(f, e)
<1>1. fl[f] \in FlowRecord /\ fl[f].chan[e] # <<>>
  BY DEF TypeOK, Lose
<1>2. k \in FlowRecord /\ MessageTaken(fl[f], k, e)
  BY <1>1, MessageTakenEffect DEF Taken
<1>3. Set(f, k)
  BY DEF Lose
<1> HIDE DEF k
<1>4. fl' \in [Flows -> FlowRecord] /\ fl'[f] = k /\ \A other \in Flows \ {f} : fl'[other] = fl[other]
  BY <1>2, <1>3, SetEffect
<1> QED
  BY <1>1, <1>2, <1>4 DEF Lost

LEMMA DeallocateRequestMoves ==
    ASSUME TypeOK, NEW f \in Flows, NEW e \in Ends, DeallocateRequest(f, e)
    PROVE  /\ fl' \in [Flows -> FlowRecord]
           /\ CloseAsked(fl[f], fl'[f], e)
           /\ \A other \in Flows \ {f} : fl'[other] = fl[other]
<1> DEFINE h == ReceiveDeallocateRequest(fl[f], e)
<1>1. fl[f] \in FlowRecord
  BY DEF TypeOK
<1>2. h \in FlowRecord /\ DeallocationAsked(fl[f], h, e)
  BY <1>1, DeallocateEffect
<1>3. Set(f, h) /\ fl[f].con[e] = "connectpending" /\ fl[f].closes < MaxCloses
  BY DEF DeallocateRequest
<1> HIDE DEF h
<1>4. fl' \in [Flows -> FlowRecord] /\ fl'[f] = h /\ \A other \in Flows \ {f} : fl'[other] = fl[other]
  BY <1>2, <1>3, SetEffect
<1> QED
  BY <1>2, <1>3, <1>4 DEF CloseAsked

-----------------------------------------------------------------------------
(* Types.                                                                    *)

LEMMA NewFlowTyped == NewFlow \in FlowRecord
<1>1. /\ [e \in Ends |-> "NONE"] \in [Ends -> Status]
      /\ [e \in Ends |-> "none"] \in [Ends -> {"none", "bound", "deleted"}]
      /\ [e \in Ends |-> "none"] \in [Ends -> {"none", "nil", "connectpending", "error"}]
      /\ [e \in Ends |-> FALSE] \in [Ends -> BOOLEAN]
      /\ [e \in Ends |-> {}] \in [Ends -> SUBSET {"positive", "negative"}]
      /\ [e \in Ends |-> 0] \in [Ends -> Nat]
  BY DEF Status
<1>2. [e \in Ends |-> <<>>] \in [Ends -> Seq(Message)] /\ <<>> \in Seq(RelayEntry)
  OBVIOUS
<1>3. FALSE \in BOOLEAN /\ 0 \in Nat
  OBVIOUS
<1> QED
  BY <1>1, <1>2, <1>3 DEF NewFlow, FlowRecord

LEMMA InitTyped == Init /\ FlowAllocationAssumption => TypeOK
<1> SUFFICES ASSUME Init, FlowAllocationAssumption PROVE TypeOK
  OBVIOUS
<1>1. fl \in [Flows -> FlowRecord]
  <2>1. fl = [f \in Flows |-> NewFlow]
    BY DEF Init
  <2> QED
    BY <2>1, NewFlowTyped
<1>2. nm1 \in [Nodes -> [KeySet -> Nm1State]]
  BY DEF Init, FlowAllocationAssumption
<1>3. enrolled \in BOOLEAN /\ finished \subseteq Neighbors /\ lost \in 0..MaxLoss
  BY DEF Init, FlowAllocationAssumption
<1> QED
  BY <1>1, <1>2, <1>3 DEF TypeOK

LEMMA StepTyped ==
    ASSUME TypeOK, FlowAllocationAssumption, [Next]_vars
    PROVE  TypeOK'
<1>1. /\ fl \in [Flows -> FlowRecord]
      /\ nm1 \in [Nodes -> [KeySet -> Nm1State]]
      /\ enrolled \in BOOLEAN /\ finished \subseteq Neighbors /\ lost \in 0..MaxLoss
  BY DEF TypeOK
<1>2. ASSUME NEW f \in Flows, AllocateRequest(f) PROVE TypeOK'
  <2>1. UNCHANGED <<enrolled, finished, lost>>
    BY <1>2 DEF AllocateRequest
  <2> QED
    BY <1>1, <1>2, <2>1, AllocateRequestMoves DEF TypeOK
<1>3. ASSUME NEW n \in Neighbors, EnrollmentFinished(n) PROVE TypeOK'
  <2>1. enrolled' = TRUE /\ finished' = finished \cup {n} /\ UNCHANGED <<nm1, lost>>
    BY <1>3 DEF EnrollmentFinished
  <2> QED
    BY <1>1, <1>3, <2>1, EnrollmentFinishedMoves DEF TypeOK
<1>4. CASE HandlePendingFlows
  <2>1. UNCHANGED <<enrolled, finished, lost>>
    BY <1>4 DEF HandlePendingFlows
  <2> QED
    BY <1>1, <1>4, <2>1, HandlePendingFlowsMoves DEF TypeOK
<1>5. ASSUME NEW e \in Ends, NEW key \in KeySet, Nm1Established(e, key) PROVE TypeOK'
  <2>1. UNCHANGED <<enrolled, finished, lost>>
    BY <1>5 DEF Nm1Established
  <2> QED
    BY <1>1, <1>5, <2>1, Nm1EstablishedMoves DEF TypeOK
<1>6. ASSUME NEW e \in Ends, NEW key \in KeySet, Nm1Refused(e, key) PROVE TypeOK'
  <2>1. UNCHANGED <<enrolled, finished, lost>>
    BY <1>6 DEF Nm1Refused
  <2> QED
    BY <1>1, <1>6, <2>1, Nm1RefusedMoves DEF TypeOK
<1>7. ASSUME NEW key \in KeySet, RelayNm1Established(key) PROVE TypeOK'
  <2>1. UNCHANGED <<enrolled, finished, lost>>
    BY <1>7 DEF RelayNm1Established
  <2> QED
    BY <1>1, <1>7, <2>1, RelayNm1EstablishedMoves DEF TypeOK
<1>8. ASSUME NEW f \in Flows, NEW e \in Ends, ReceiveCreateAtRelay(f, e) PROVE TypeOK'
  <2>1. UNCHANGED <<enrolled, finished, lost>>
    BY <1>8 DEF ReceiveCreateAtRelay
  <2> QED
    BY <1>1, <1>8, <2>1, ReceiveCreateAtRelayMoves DEF TypeOK
<1>9. ASSUME NEW f \in Flows, NEW e \in Ends, Deliver(f, e) PROVE TypeOK'
  <2>1. CASE ReceiveCreate(f, e)
    <3>1. UNCHANGED <<enrolled, finished, lost>>
      BY <2>1 DEF ReceiveCreate
    <3> QED
      BY <1>1, <2>1, <3>1, ReceiveCreateMoves DEF TypeOK
  <2>2. CASE ReceiveCreateRPositive(f)
    <3>1. UNCHANGED <<nm1, enrolled, finished, lost>>
      BY <2>2 DEF ReceiveCreateRPositive
    <3> QED
      BY <1>1, <2>2, <3>1, ReceiveCreateRPositiveMoves DEF TypeOK
  <2>3. CASE ReceiveCreateRNegative(f, e)
    <3>1. UNCHANGED <<nm1, enrolled, finished, lost>>
      BY <2>3 DEF ReceiveCreateRNegative
    <3> QED
      BY <1>1, <2>3, <3>1, ReceiveCreateRNegativeMoves DEF TypeOK
  <2>4. CASE ReceiveDelete(f, e)
    <3>1. UNCHANGED <<nm1, enrolled, finished, lost>>
      BY <2>4 DEF ReceiveDelete
    <3> QED
      BY <1>1, <2>4, <3>1, ReceiveDeleteMoves DEF TypeOK
  <2>5. CASE ReceiveDeleteR(f, e)
    <3>1. UNCHANGED <<nm1, enrolled, finished, lost>>
      BY <2>5 DEF ReceiveDeleteR
    <3> QED
      BY <1>1, <2>5, <3>1, ReceiveDeleteRMoves DEF TypeOK
  <2> QED
    BY <1>9, <2>1, <2>2, <2>3, <2>4, <2>5 DEF Deliver
<1>10. ASSUME NEW f \in Flows, NEW e \in Ends, Lose(f, e) PROVE TypeOK'
  <2>1. lost' = lost + 1 /\ lost < MaxLoss /\ UNCHANGED <<nm1, enrolled, finished>>
    BY <1>10 DEF Lose
  <2>2. lost' \in 0..MaxLoss
    BY <1>1, <2>1 DEF FlowAllocationAssumption
  <2> QED
    BY <1>1, <1>10, <2>1, <2>2, LoseMoves DEF TypeOK
<1>11. ASSUME NEW f \in Flows, NEW e \in Ends, DeallocateRequest(f, e) PROVE TypeOK'
  <2>1. UNCHANGED <<nm1, enrolled, finished, lost>>
    BY <1>11 DEF DeallocateRequest
  <2> QED
    BY <1>1, <1>11, <2>1, DeallocateRequestMoves DEF TypeOK
<1>12. CASE UNCHANGED vars
  BY <1>12 DEF vars, TypeOK
<1> QED
  BY <1>2, <1>3, <1>4, <1>5, <1>6, <1>7, <1>8, <1>9, <1>10, <1>11, <1>12 DEF Next

\* The flow tables, the state of the AEs and of the EFCP, and the messages under way stay
\* what FA, FAI and RA can hold, for any number of flows, neighbors and QoS classes.
THEOREM TypeCorrect == Spec => []TypeOK
<1>1. Init => TypeOK
  BY InitTyped, FlowAllocationAssumption
<1>2. TypeOK /\ [Next]_vars => TypeOK'
  BY StepTyped, FlowAllocationAssumption
<1> QED
  BY <1>1, <1>2, PTL DEF Spec

-----------------------------------------------------------------------------
(* What the ends of a flow promise each other, step by step.                 *)

\* The QoS of a flow that no cube satisfies is never asked for.
Promise(f, g) == Agree(g) /\ (f \in Unfit["I"] => g.efcpi["I"] = "none")

\* The moves of an end's status that FlowLifecycle knows of.
MayMove(g, e, status) ==
    \/ /\ e = "I" /\ g.status["I"] = "NONE"
       /\ status \in {"ALLOC_PEND", "ALLOC_NEGA", "ALLOC_ERR"}
    \/ /\ e = "R" /\ g.status["R"] = "NONE" /\ g.status["I"] # "NONE"
       /\ status \in {"ALLOC_PEND", "TRANSFER", "ALLOC_NEGA"}
    \/ /\ e = "I" /\ g.status["I"] = "ALLOC_PEND" /\ status = "TRANSFER"
       /\ g.status["R"] \in {"TRANSFER", "DEALLOC_PEND"}
    \/ /\ e = "I" /\ g.status["I"] = "ALLOC_PEND" /\ status = "ALLOC_NEGA"
       /\ g.status["R"] \in {"NONE", "ALLOC_NEGA"}
    \/ g.status[e] = "TRANSFER" /\ status = "DEALLOC_PEND"
    \/ /\ g.status[e] \in {"TRANSFER", "DEALLOC_PEND"} /\ status = "DEALLOCATED"
       /\ g.status[Peer(e)] \in Closing

Moved(g, h) ==
    \/ h.status = g.status
    \/ \E e \in Ends, status \in Status :
          h.status = [g.status EXCEPT ![e] = status] /\ MayMove(g, e, status)

LEMMA StaysPromised ==
    ASSUME NEW f, NEW g \in FlowRecord, NEW h \in FlowRecord, Stays(g, h), Promise(f, g),
           f \in Unfit["I"] => h.efcpi["I"] = g.efcpi["I"]
    PROVE  Promise(f, h) /\ Moved(g, h)
BY StaysAgreed DEF Promise, Moved, Stays

LEMMA TookEffect ==
    ASSUME NEW g \in FlowRecord, NEW k \in FlowRecord, NEW e \in Ends, NEW msg \in Message,
           Took(g, k, e, msg)
    PROVE  /\ Holds(g.chan[e], msg)
           /\ Single(g.chan[e], msg) => ~Holds(k.chan[e], msg)
           /\ OneMore(g.chan, k.chan, e, msg)
           /\ \A m \in Message : Holds(k.chan[e], m) => Holds(g.chan[e], m)
           /\ k.status = g.status /\ k.efcpi = g.efcpi /\ k.con = g.con
           /\ Stays(g, k)
<1>1. /\ g.chan \in [Ends -> Seq(Message)] /\ g.chan[e] # <<>> /\ Head(g.chan[e]) = msg
      /\ k.chan = [g.chan EXCEPT ![e] = Tail(g.chan[e])]
      /\ k.status = g.status /\ k.efcpi = g.efcpi /\ k.con = g.con
  BY DEF Took, MessageTaken, FlowRecord, SameUsers
<1>2. g.chan[e] \in Seq(Message) /\ k.chan[e] = Tail(g.chan[e])
  BY <1>1
<1>3. /\ Holds(g.chan[e], msg)
      /\ Single(g.chan[e], msg) => ~Holds(k.chan[e], msg)
      /\ \A m \in Message : Holds(k.chan[e], m) => Holds(g.chan[e], m)
  BY <1>1, <1>2, Shortened
<1>4. OneMore(g.chan, k.chan, e, msg)
  BY <1>1, OneMoreShortened
<1>5. Stays(g, k)
  BY <1>1, TakenStays DEF Took
<1> QED
  BY <1>1, <1>3, <1>4, <1>5

LEMMA TookPromises ==
    ASSUME NEW f, NEW g \in FlowRecord, NEW k \in FlowRecord, NEW e \in Ends, NEW msg,
           Took(g, k, e, msg), Promise(f, g)
    PROVE  Promise(f, k) /\ Moved(g, k)
<1>1. Stays(g, k)
  BY TakenStays DEF Took
<1>2. k.efcpi = g.efcpi
  BY DEF Took, MessageTaken
<1> QED
  BY <1>1, <1>2, StaysPromised

LEMMA StartedPromises ==
    ASSUME NEW f, NEW g \in FlowRecord, NEW h \in FlowRecord, Started(f, g, h), Promise(f, g)
    PROVE  /\ Promise(f, h)
           /\ \/ h.status = g.status
              \/ h.status = [g.status EXCEPT !["I"] = "ALLOC_NEGA"] /\ g.status["R"] = "NONE"
<1>1. CASE f \in Unfit["I"]
  <2>1. GivenUp(g, h) /\ g.status["I"] = "ALLOC_PEND" /\ g.efcpi["I"] = "none"
    BY <1>1 DEF Started, Promise
  <2>2. g.status["R"] = "NONE" /\ g.chan["I"] = <<>>
    BY <2>1 DEF Promise, Agree, AsksFirst, Asked
  <2>3. ~Holds(g.chan["I"], "M_CREATE_R+") /\ ~Holds(g.chan["I"], "M_CREATE_R-")
    BY <2>2 DEF Holds
  <2>4. Agree(h)
    BY <2>1, <2>2, <2>3, GivenUpAgrees DEF Promise, Opened
  <2> QED
    BY <2>1, <2>2, <2>4 DEF Promise, GivenUp
<1>2. CASE f \notin Unfit["I"]
  <2>1. RequestHandled(g, h) /\ g.status["I"] = "ALLOC_PEND"
    BY <1>2 DEF Started
  <2>2. Agree(h)
    BY <2>1, RequestStays, StaysAgreed DEF Promise
  <2> QED
    BY <1>2, <2>1, <2>2 DEF Promise, RequestHandled
<1> QED
  BY <1>1, <1>2

LEMMA AskedForPromises ==
    ASSUME NEW f, NEW g \in FlowRecord, NEW h \in FlowRecord, AskedFor(f, g, h), Promise(f, g)
    PROVE  Promise(f, h) /\ Moved(g, h)
<1>1. PICK k \in FlowRecord :
         /\ g.status["I"] = "NONE"
         /\ AllocationAsked(g, k)
         /\ \/ StatusChanged(k, h, "I", "ALLOC_ERR")
            \/ h = k
            \/ Started(f, k, h)
  BY DEF AskedFor
<1>2. /\ k.status = [g.status EXCEPT !["I"] = "ALLOC_PEND"] /\ k.efcpi = g.efcpi
      /\ k.status["I"] = "ALLOC_PEND" /\ g.efcpi["I"] = "none"
  BY <1>1 DEF AllocationAsked, FlowRecord, Ends, Promise, Agree, AsksFirst
<1>3. Promise(f, k)
  BY <1>1, <1>2, AllocationAskedAgrees DEF Promise
<1>4. h.status \in [Ends -> Status] /\ "I" \in Ends
  BY DEF FlowRecord, Ends
<1>5. \A status \in {"ALLOC_PEND", "ALLOC_NEGA", "ALLOC_ERR"} :
         h.status = [g.status EXCEPT !["I"] = status] => Moved(g, h)
  BY <1>1, <1>4 DEF Moved, MayMove, Status
<1>6. CASE StatusChanged(k, h, "I", "ALLOC_ERR")
  <2>1. Agree(h)
    BY <1>2, <1>3, <1>6, MalformedAgrees DEF Promise
  <2>2. h.status = [k.status EXCEPT !["I"] = "ALLOC_ERR"] /\ h.efcpi = g.efcpi
    BY <1>2, <1>6 DEF StatusChanged
  <2>3. g.status \in [Ends -> Status]
    BY DEF FlowRecord
  <2>4. h.status = [g.status EXCEPT !["I"] = "ALLOC_ERR"]
    BY <1>2, <2>2, <2>3
  <2> QED
    BY <1>2, <1>5, <2>1, <2>2, <2>4 DEF Promise
<1>7. CASE h = k
  BY <1>2, <1>3, <1>5, <1>7
<1>8. CASE Started(f, k, h)
  <2>1. /\ Promise(f, h)
        /\ \/ h.status = k.status
           \/ h.status = [k.status EXCEPT !["I"] = "ALLOC_NEGA"]
    BY <1>3, <1>8, StartedPromises
  <2>2. \/ h.status = [g.status EXCEPT !["I"] = "ALLOC_PEND"]
        \/ h.status = [g.status EXCEPT !["I"] = "ALLOC_NEGA"]
    BY <1>2, <2>1 DEF FlowRecord
  <2> QED
    BY <1>5, <2>1, <2>2
<1> QED
  BY <1>1, <1>6, <1>7, <1>8

LEMMA QueuedPromises ==
    ASSUME NEW f, NEW g \in FlowRecord, NEW h \in FlowRecord, Queued(g, h), Promise(f, g)
    PROVE  Promise(f, h) /\ Moved(g, h)
<1>1. Stays(g, h)
  BY QueuedStays DEF Queued
<1> QED
  BY <1>1, StaysPromised DEF Queued, QueuedSet

LEMMA ResumedPromises ==
    ASSUME NEW f, NEW g \in FlowRecord, NEW h \in FlowRecord, Resumed(f, g, h), Promise(f, g)
    PROVE  Promise(f, h) /\ Moved(g, h)
<1>1. PICK k \in FlowRecord : QueuedSet(g, k, FALSE) /\ (h = k \/ Started(f, k, h))
  BY DEF Resumed
<1>2. Stays(g, k) /\ k.efcpi = g.efcpi /\ k.status = g.status
  BY <1>1, QueuedStays DEF QueuedSet
<1>3. Promise(f, k) /\ Moved(g, k)
  BY <1>2, StaysPromised
<1>4. CASE h = k
  BY <1>3, <1>4
<1>5. CASE Started(f, k, h)
  <2>1. /\ Promise(f, h)
        /\ \/ h.status = g.status
           \/ h.status = [g.status EXCEPT !["I"] = "ALLOC_NEGA"] /\ g.status["R"] = "NONE"
    BY <1>2, <1>3, <1>5, StartedPromises
  <2>2. g.status["I"] = "ALLOC_PEND"
    BY <1>2, <1>5 DEF Started
  <2> QED
    BY <2>1, <2>2 DEF Moved, MayMove, Ends, Status
<1> QED
  BY <1>1, <1>4, <1>5

LEMMA AnnouncedPromises ==
    ASSUME NEW f, NEW g \in FlowRecord, NEW h \in FlowRecord, NEW to \in Ends,
           Announced(g, h, to), Promise(f, g)
    PROVE  Promise(f, h) /\ Moved(g, h)
<1>1. Stays(g, h)
  BY CreateSentStays DEF Announced
<1> QED
  BY <1>1, StaysPromised DEF Announced, CreateSent

LEMMA DeclinedPromises ==
    ASSUME NEW f, NEW g \in FlowRecord, NEW h \in FlowRecord, NEW e \in Ends,
           Declined(g, h, e), Promise(f, g)
    PROVE  Promise(f, h) /\ Moved(g, h)
<1>1. Stays(g, h)
  BY DeclinedStays
<1> QED
  BY <1>1, StaysPromised DEF Declined

LEMMA HeldForwardedPromises ==
    ASSUME NEW f, NEW g \in FlowRecord, NEW h \in FlowRecord, HeldForwarded(g, h), Promise(f, g)
    PROVE  Promise(f, h) /\ Moved(g, h)
<1>1. PICK n \in Nat : Forwarded(g, h, "R", n) /\ (n # 0 => RelayedTo(g, "R"))
  BY DEF HeldForwarded
<1>2. Stays(g, h)
  BY <1>1, ForwardedStays DEF Promise, Agree, Ends
<1> QED
  BY <1>1, <1>2, StaysPromised DEF Forwarded

LEMMA ReachedRelayPromises ==
    ASSUME NEW f, NEW g \in FlowRecord, NEW h \in FlowRecord, NEW to \in Ends,
           ReachedRelay(g, h, to), HopCountAtRelay("I") # 0, Promise(f, g)
    PROVE  Promise(f, h) /\ Moved(g, h)
<1>1. Stays(g, h)
  BY CreateRelayedStays DEF ReachedRelay, Promise, Agree
<1> QED
  BY <1>1, StaysPromised DEF ReachedRelay, CreateRelayed

\* Only the responder can be asked for the first time.
LEMMA CreateReceivedPromises ==
    ASSUME NEW f, NEW g \in FlowRecord, NEW h \in FlowRecord, NEW e \in Ends,
           CreateReceived(f, g, h, e), Promise(f, g)
    PROVE  Promise(f, h) /\ Moved(g, h)
<1>1. PICK k \in FlowRecord :
         /\ Took(g, k, e, "M_CREATE")
         /\ h = k \/ (g.status[e] = "NONE" /\ (e = "R" => AnsweredTo(f, k, h)))
  BY DEF CreateReceived
<1>2. Promise(f, k) /\ Moved(g, k)
  BY <1>1, TookPromises
<1>3. CASE h = k
  BY <1>2, <1>3
<1>4. CASE g.status[e] = "NONE" /\ (e = "R" => AnsweredTo(f, k, h))
  <2>1. /\ Holds(g.chan[e], "M_CREATE")
        /\ k.status = g.status /\ k.efcpi = g.efcpi
    <3>1. "M_CREATE" \in Message
      BY DEF Message
    <3> QED
      BY <1>1, <3>1, TookEffect
  <2>2. g.chan[e] # <<>>
    BY <1>1 DEF Took
  <2>3. e = "R"
    BY <1>4, <2>2 DEF Promise, Agree, AsksFirst, Asked, Ends
  <2>4. AnsweredTo(f, k, h) /\ g.status["R"] = "NONE" /\ g.efcpi["I"] # "none"
    BY <1>4, <2>1, <2>3 DEF Promise, Agree, AsksFirst, Asked
  <2>5. Considered(k, h)
    BY <2>4 DEF AnsweredTo, Considered
  <2>6. Agree(h)
    BY <1>2, <2>1, <2>4, <2>5, ConsideredAgrees DEF Promise
  <2>7. /\ h.efcpi["I"] = g.efcpi["I"]
        /\ \E status \in {"ALLOC_PEND", "TRANSFER", "ALLOC_NEGA"} :
              h.status = [g.status EXCEPT !["R"] = status]
    BY <2>1, <2>5 DEF Considered, AcceptedSending, AcceptedHolding, RefusedByUser, Ignored
  <2>8. g.status["I"] # "NONE"
    BY <2>4 DEF Promise, Agree, AsksFirst
  <2>9. Moved(g, h)
    BY <2>4, <2>7, <2>8 DEF Moved, MayMove, Ends, Status
  <2> QED
    BY <1>2, <2>1, <2>6, <2>7, <2>9 DEF Promise
<1> QED
  BY <1>1, <1>3, <1>4

LEMMA OpeningReceivedPromises ==
    ASSUME NEW f, NEW g \in FlowRecord, NEW h \in FlowRecord, OpeningReceived(g, h), Promise(f, g)
    PROVE  Promise(f, h) /\ Moved(g, h)
<1>1. PICK k \in FlowRecord : Took(g, k, "I", "M_CREATE_R+") /\ Opens(k, h)
  BY DEF OpeningReceived
<1>2. Promise(f, k)
  BY <1>1, TookPromises DEF Ends
<1>3. /\ Holds(g.chan["I"], "M_CREATE_R+")
      /\ Single(g.chan["I"], "M_CREATE_R+") => ~Holds(k.chan["I"], "M_CREATE_R+")
      /\ k.status = g.status /\ k.efcpi = g.efcpi
  <2>1. "M_CREATE_R+" \in Message /\ "I" \in Ends
    BY DEF Message, Ends
  <2> QED
    BY <1>1, <2>1, TookEffect
<1>4. /\ g.status["I"] = "ALLOC_PEND" /\ g.status["R"] \in Opened
      /\ ~Holds(k.chan["I"], "M_CREATE_R+")
  BY <1>3 DEF Promise, Agree, AnsweredOnce
<1>5. Agree(h)
  BY <1>1, <1>2, <1>3, <1>4, OpensAgrees DEF Promise
<1>6. g.status["R"] # "DEALLOCATED"
  BY <1>4 DEF Promise, Agree, ClosedOnce, Ends, Peer, Closing
<1>7. h.status = [g.status EXCEPT !["I"] = "TRANSFER"] /\ h.efcpi = g.efcpi
  BY <1>1, <1>3 DEF Opens
<1>8. Moved(g, h)
  BY <1>4, <1>6, <1>7 DEF Moved, MayMove, Ends, Status, Opened
<1> QED
  BY <1>2, <1>3, <1>5, <1>7, <1>8 DEF Promise

LEMMA RefusalReceivedPromises ==
    ASSUME NEW f, NEW g \in FlowRecord, NEW h \in FlowRecord, NEW e \in Ends,
           RefusalReceived(g, h, e), Promise(f, g)
    PROVE  Promise(f, h) /\ Moved(g, h)
<1>1. PICK k \in FlowRecord :
         /\ Took(g, k, e, "M_CREATE_R-")
         /\ IF e = "I" THEN Retried(k, h) \/ GivenUp(k, h) ELSE h = k
  BY DEF RefusalReceived
<1>2. Promise(f, k) /\ Moved(g, k)
  BY <1>1, TookPromises
<1>3. CASE e # "I"
  BY <1>1, <1>2, <1>3
<1>4. CASE e = "I"
  <2>1. /\ Holds(g.chan["I"], "M_CREATE_R-")
        /\ Single(g.chan["I"], "M_CREATE_R-") => ~Holds(k.chan["I"], "M_CREATE_R-")
        /\ Holds(k.chan["I"], "M_CREATE_R+") => Holds(g.chan["I"], "M_CREATE_R+")
        /\ k.status = g.status /\ k.efcpi = g.efcpi
    <3>1. "M_CREATE_R-" \in Message /\ "M_CREATE_R+" \in Message
      BY DEF Message
    <3> QED
      BY <1>1, <1>4, <3>1, TookEffect
  <2>2. /\ g.status["I"] = "ALLOC_PEND" /\ g.status["R"] = "ALLOC_NEGA"
        /\ ~Holds(k.chan["I"], "M_CREATE_R-") /\ ~Holds(k.chan["I"], "M_CREATE_R+")
        /\ g.efcpi["I"] # "none"
    BY <2>1 DEF Promise, Agree, AnsweredOnce, AsksFirst, Asked, Opened
  <2>3. CASE Retried(k, h)
    <3>1. Stays(k, h)
      BY <2>1, <2>2, <2>3, RetriedStays
    <3>2. Promise(f, h)
      BY <1>2, <2>3, <3>1, StaysPromised DEF Retried
    <3> QED
      BY <2>1, <2>3, <3>2 DEF Retried, Moved
  <2>4. CASE GivenUp(k, h)
    <3>1. Agree(h)
      BY <1>2, <2>1, <2>2, <2>4, GivenUpAgrees DEF Promise, Opened
    <3>2. h.status = [g.status EXCEPT !["I"] = "ALLOC_NEGA"] /\ h.efcpi = g.efcpi
      BY <2>1, <2>4 DEF GivenUp
    <3>3. Moved(g, h)
      BY <2>2, <3>2 DEF Moved, MayMove, Ends, Status
    <3> QED
      BY <1>2, <2>1, <3>1, <3>2, <3>3 DEF Promise
  <2> QED
    BY <1>1, <1>4, <2>3, <2>4
<1> QED
  BY <1>3, <1>4

LEMMA DeleteReceivedPromises ==
    ASSUME NEW f, NEW g \in FlowRecord, NEW h \in FlowRecord, NEW e \in Ends,
           DeleteReceived(g, h, e), Promise(f, g)
    PROVE  Promise(f, h) /\ Moved(g, h)
<1>1. PICK k \in FlowRecord :
         /\ Took(g, k, e, "M_DELETE")
         /\ IF g.status[e] = "TRANSFER" THEN Released(k, h, e) ELSE h = k
  BY DEF DeleteReceived
<1>2. Promise(f, k) /\ Moved(g, k)
  BY <1>1, TookPromises
<1>3. CASE g.status[e] # "TRANSFER"
  BY <1>1, <1>2, <1>3
<1>4. CASE g.status[e] = "TRANSFER"
  <2>1. Holds(g.chan[e], "M_DELETE") /\ k.status = g.status /\ k.efcpi = g.efcpi
    <3>1. "M_DELETE" \in Message
      BY DEF Message
    <3> QED
      BY <1>1, <3>1, TookEffect
  <2>2. g.status[Peer(e)] \in Closing
    BY <2>1 DEF Promise, Agree, ClosedOnce
  <2>3. Released(k, h, e)
    BY <1>1, <1>4
  <2>4. Agree(h)
    BY <1>2, <1>4, <2>1, <2>2, <2>3, ReleasedAgrees DEF Promise
  <2>5. /\ h.status = [g.status EXCEPT ![e] = "DEALLOCATED"]
        /\ h.efcpi["I"] = "none" <=> g.efcpi["I"] = "none"
    BY <2>1, <2>3 DEF Released, Ends
  <2>6. Moved(g, h)
    BY <1>4, <2>2, <2>5 DEF Moved, MayMove, Status
  <2> QED
    BY <1>2, <2>1, <2>4, <2>5, <2>6 DEF Promise
<1> QED
  BY <1>3, <1>4

LEMMA DeleteRReceivedPromises ==
    ASSUME NEW f, NEW g \in FlowRecord, NEW h \in FlowRecord, NEW e \in Ends,
           DeleteRReceived(g, h, e), Promise(f, g)
    PROVE  Promise(f, h) /\ Moved(g, h)
<1>1. PICK k \in FlowRecord :
         /\ Took(g, k, e, "M_DELETE_R")
         /\ IF g.status[e] = "DEALLOC_PEND" THEN ReleaseAnswered(k, h, e) ELSE h = k
  BY DEF DeleteRReceived
<1>2. Promise(f, k) /\ Moved(g, k)
  BY <1>1, TookPromises
<1>3. CASE g.status[e] # "DEALLOC_PEND"
  BY <1>1, <1>2, <1>3
<1>4. CASE g.status[e] = "DEALLOC_PEND"
  <2>1. Holds(g.chan[e], "M_DELETE_R") /\ k.status = g.status /\ k.efcpi = g.efcpi
    <3>1. "M_DELETE_R" \in Message
      BY DEF Message
    <3> QED
      BY <1>1, <3>1, TookEffect
  <2>2. g.status[Peer(e)] = "DEALLOCATED"
    BY <2>1 DEF Promise, Agree, ClosedOnce
  <2>3. ReleaseAnswered(k, h, e)
    BY <1>1, <1>4
  <2>4. Agree(h)
    BY <1>2, <1>4, <2>1, <2>2, <2>3, ReleaseAnsweredAgrees DEF Promise
  <2>5. h.status = [g.status EXCEPT ![e] = "DEALLOCATED"] /\ h.efcpi = g.efcpi
    BY <2>1, <2>3 DEF ReleaseAnswered
  <2>6. Moved(g, h)
    BY <1>4, <2>2, <2>5 DEF Moved, MayMove, Status, Closing
  <2> QED
    BY <1>2, <2>1, <2>4, <2>5, <2>6 DEF Promise
<1> QED
  BY <1>3, <1>4

LEMMA LostPromises ==
    ASSUME NEW f, NEW g \in FlowRecord, NEW h \in FlowRecord, NEW e \in Ends,
           Lost(g, h, e), Promise(f, g)
    PROVE  Promise(f, h) /\ Moved(g, h)
<1>1. Stays(g, h)
  BY TakenStays DEF Lost
<1> QED
  BY <1>1, StaysPromised DEF Lost, MessageTaken

LEMMA CloseAskedPromises ==
    ASSUME NEW f, NEW g \in FlowRecord, NEW h \in FlowRecord, NEW e \in Ends,
           CloseAsked(g, h, e), MaxCloses \in Nat, MaxCloses <= 1, Promise(f, g)
    PROVE  Promise(f, h) /\ Moved(g, h)
<1>1. DeallocationAsked(g, h, e) /\ g.con[e] = "connectpending" /\ g.closes = 0
  BY DEF CloseAsked, FlowRecord
<1>2. /\ Agree(h)
      /\ g.status[e] = "TRANSFER"
      /\ g.status[Peer(e)] \in {"ALLOC_PEND", "TRANSFER"}
  BY <1>1, DeallocationAskedAgrees DEF Promise
<1>3. /\ h.status = [g.status EXCEPT ![e] = "DEALLOC_PEND"]
      /\ h.efcpi["I"] = "none" <=> g.efcpi["I"] = "none"
  BY <1>1 DEF DeallocationAsked, Ends
<1>4. Moved(g, h)
  BY <1>2, <1>3 DEF Moved, MayMove, Status
<1> QED
  BY <1>2, <1>3, <1>4 DEF Promise

-----------------------------------------------------------------------------
(* Every step, seen from each of the flows.                                  *)

\* What a step that serves flow f does to its record.
Served(f, g, h) ==
    \/ AskedFor(f, g, h)
    \/ /\ Queued(g, h) /\ ~EnrolledAtStart
       /\ NeighborOf[f] \notin finished /\ NeighborOf[f] \in finished'
    \/ Resumed(f, g, h)
    \/ \E e \in Ends, key \in KeySet : Announced(g, h, Peer(e)) /\ nm1'[e][key] = "established"
    \/ \E e \in Ends, key \in KeySet : Declined(g, h, e) /\ nm1'[e][key] = "refused"
    \/ HeldForwarded(g, h)
    \/ \E to \in Ends : ReachedRelay(g, h, to)
    \/ \E e \in Ends : CreateReceived(f, g, h, e)
    \/ OpeningReceived(g, h)
    \/ \E e \in Ends : RefusalReceived(g, h, e)
    \/ \E e \in Ends : DeleteReceived(g, h, e)
    \/ \E e \in Ends : DeleteRReceived(g, h, e)
    \/ \E e \in Ends : Lost(g, h, e) /\ lost' # 0
    \/ \E e \in Ends : CloseAsked(g, h, e)

FlowsServed ==
    \A f \in Flows : fl'[f] = fl[f] \/ (fl[f].broken = FALSE /\ Served(f, fl[f], fl'[f]))

EnrollmentKept ==
    \/ UNCHANGED <<enrolled, finished>>
    \/ /\ ~EnrolledAtStart /\ enrolled' = TRUE
       /\ \E n \in Neighbors \ finished : finished' = finished \cup {n}

\* A step leaves most flows alone and serves the others.
Steps ==
    /\ Nm1Kept
    /\ EnrollmentKept
    /\ lost' = 0 => lost = 0
    /\ FlowsServed

LEMMA OneServed ==
    ASSUME TypeOK, Running, NEW f \in Flows, Served(f, fl[f], fl'[f]),
           \A other \in Flows \ {f} : fl'[other] = fl[other]
    PROVE  FlowsServed
<1>1. fl[f].broken = FALSE
  BY DEF TypeOK, FlowRecord, Running
<1> QED
  BY <1>1 DEF FlowsServed

LEMMA StepServes ==
    ASSUME TypeOK, FlowAllocationAssumption, [Next]_vars
    PROVE  Steps
<1>1. ASSUME Running, NEW f \in Flows
      PROVE  fl[f].broken = FALSE
  BY <1>1 DEF TypeOK, FlowRecord, Running
<1>2. ASSUME UNCHANGED nm1 PROVE Nm1Kept
  BY <1>2 DEF Nm1Kept
<1>3. ASSUME NEW f \in Flows, AllocateRequest(f) PROVE Steps
  <2>1. Running /\ UNCHANGED <<enrolled, finished, lost>>
    BY <1>3 DEF AllocateRequest
  <2>2. /\ AskedFor(f, fl[f], fl'[f])
        /\ \A other \in Flows \ {f} : fl'[other] = fl[other]
        /\ Nm1Kept
    BY <1>3, AllocateRequestMoves
  <2>3. FlowsServed
    BY <2>1, <2>2, OneServed DEF Served
  <2> QED
    BY <2>1, <2>2, <2>3 DEF Steps, EnrollmentKept
<1>4. ASSUME NEW n \in Neighbors, EnrollmentFinished(n) PROVE Steps
  <2>1. /\ Running /\ ~EnrolledAtStart /\ n \notin finished
        /\ enrolled' = TRUE /\ finished' = finished \cup {n} /\ UNCHANGED <<nm1, lost>>
    BY <1>4 DEF EnrollmentFinished
  <2>2. \A f \in Flows : fl'[f] = fl[f] \/ (NeighborOf[f] = n /\ Queued(fl[f], fl'[f]))
    BY <1>4, EnrollmentFinishedMoves
  <2>3. FlowsServed
    <3> SUFFICES ASSUME NEW f \in Flows, fl'[f] # fl[f]
                 PROVE  fl[f].broken = FALSE /\ Served(f, fl[f], fl'[f])
      BY DEF FlowsServed
    <3>1. NeighborOf[f] = n /\ Queued(fl[f], fl'[f])
      BY <2>2
    <3> QED
      BY <1>1, <2>1, <3>1 DEF Served
  <2>4. Nm1Kept
    BY <1>2, <2>1
  <2> QED
    BY <2>1, <2>3, <2>4 DEF Steps, EnrollmentKept
<1>5. CASE HandlePendingFlows
  <2>1. Running /\ UNCHANGED <<enrolled, finished, lost>>
    BY <1>5 DEF HandlePendingFlows
  <2>2. Nm1Kept /\ \A f \in Flows : fl'[f] = fl[f] \/ Resumed(f, fl[f], fl'[f])
    BY <1>5, HandlePendingFlowsMoves
  <2>3. FlowsServed
    BY <1>1, <2>1, <2>2 DEF FlowsServed, Served
  <2> QED
    BY <2>1, <2>2, <2>3 DEF Steps, EnrollmentKept
<1>6. ASSUME NEW e \in Ends, NEW key \in KeySet, Nm1Established(e, key) PROVE Steps
  <2>1. Running /\ UNCHANGED <<enrolled, finished, lost>>
    BY <1>6 DEF Nm1Established
  <2>2. /\ Nm1Kept /\ nm1'[e][key] = "established"
        /\ \A f \in Flows : fl'[f] = fl[f] \/ Announced(fl[f], fl'[f], Peer(e))
    BY <1>6, Nm1EstablishedMoves
  <2>3. FlowsServed
    BY <1>1, <2>1, <2>2 DEF FlowsServed, Served
  <2> QED
    BY <2>1, <2>2, <2>3 DEF Steps, EnrollmentKept
<1>7. ASSUME NEW e \in Ends, NEW key \in KeySet, Nm1Refused(e, key) PROVE Steps
  <2>1. Running /\ UNCHANGED <<enrolled, finished, lost>>
    BY <1>7 DEF Nm1Refused
  <2>2. /\ Nm1Kept /\ nm1'[e][key] = "refused"
        /\ \A f \in Flows : fl'[f] = fl[f] \/ Declined(fl[f], fl'[f], e)
    BY <1>7, Nm1RefusedMoves
  <2>3. FlowsServed
    BY <1>1, <2>1, <2>2 DEF FlowsServed, Served
  <2> QED
    BY <2>1, <2>2, <2>3 DEF Steps, EnrollmentKept
<1>8. ASSUME NEW key \in KeySet, RelayNm1Established(key) PROVE Steps
  <2>1. Running /\ UNCHANGED <<enrolled, finished, lost>>
    BY <1>8 DEF RelayNm1Established
  <2>2. Nm1Kept /\ \A f \in Flows : fl'[f] = fl[f] \/ HeldForwarded(fl[f], fl'[f])
    BY <1>8, RelayNm1EstablishedMoves
  <2>3. FlowsServed
    BY <1>1, <2>1, <2>2 DEF FlowsServed, Served
  <2> QED
    BY <2>1, <2>2, <2>3 DEF Steps, EnrollmentKept
<1>9. ASSUME NEW f \in Flows, NEW e \in Ends, ReceiveCreateAtRelay(f, e) PROVE Steps
  <2>1. Running /\ UNCHANGED <<enrolled, finished, lost>>
    BY <1>9 DEF ReceiveCreateAtRelay
  <2>2. /\ ReachedRelay(fl[f], fl'[f], e)
        /\ \A other \in Flows \ {f} : fl'[other] = fl[other]
        /\ Nm1Kept
    BY <1>9, ReceiveCreateAtRelayMoves
  <2>3. FlowsServed
    BY <2>1, <2>2, OneServed DEF Served
  <2> QED
    BY <2>1, <2>2, <2>3 DEF Steps, EnrollmentKept
<1>10. ASSUME NEW f \in Flows, NEW e \in Ends, Deliver(f, e) PROVE Steps
  <2>1. ASSUME ReceiveCreate(f, e) PROVE Steps
    <3>1. Running /\ UNCHANGED <<enrolled, finished, lost>>
      BY <2>1 DEF ReceiveCreate
    <3>2. /\ CreateReceived(f, fl[f], fl'[f], e)
          /\ \A other \in Flows \ {f} : fl'[other] = fl[other]
          /\ Nm1Kept
      BY <2>1, ReceiveCreateMoves
    <3>3. FlowsServed
      BY <3>1, <3>2, OneServed DEF Served
    <3> QED
      BY <3>1, <3>2, <3>3 DEF Steps, EnrollmentKept
  <2>2. ASSUME ReceiveCreateRPositive(f) PROVE Steps
    <3>1. Running /\ UNCHANGED <<nm1, enrolled, finished, lost>>
      BY <2>2 DEF ReceiveCreateRPositive
    <3>2. /\ OpeningReceived(fl[f], fl'[f])
          /\ \A other \in Flows \ {f} : fl'[other] = fl[other]
      BY <2>2, ReceiveCreateRPositiveMoves
    <3>3. FlowsServed
      BY <3>1, <3>2, OneServed DEF Served
    <3> QED
      BY <1>2, <3>1, <3>2, <3>3 DEF Steps, EnrollmentKept
  <2>3. ASSUME ReceiveCreateRNegative(f, e) PROVE Steps
    <3>1. Running /\ UNCHANGED <<nm1, enrolled, finished, lost>>
      BY <2>3 DEF ReceiveCreateRNegative
    <3>2. /\ RefusalReceived(fl[f], fl'[f], e)
          /\ \A other \in Flows \ {f} : fl'[other] = fl[other]
      BY <2>3, ReceiveCreateRNegativeMoves
    <3>3. FlowsServed
      BY <3>1, <3>2, OneServed DEF Served
    <3> QED
      BY <1>2, <3>1, <3>2, <3>3 DEF Steps, EnrollmentKept
  <2>4. ASSUME ReceiveDelete(f, e) PROVE Steps
    <3>1. Running /\ UNCHANGED <<nm1, enrolled, finished, lost>>
      BY <2>4 DEF ReceiveDelete
    <3>2. /\ DeleteReceived(fl[f], fl'[f], e)
          /\ \A other \in Flows \ {f} : fl'[other] = fl[other]
      BY <2>4, ReceiveDeleteMoves
    <3>3. FlowsServed
      BY <3>1, <3>2, OneServed DEF Served
    <3> QED
      BY <1>2, <3>1, <3>2, <3>3 DEF Steps, EnrollmentKept
  <2>5. ASSUME ReceiveDeleteR(f, e) PROVE Steps
    <3>1. Running /\ UNCHANGED <<nm1, enrolled, finished, lost>>
      BY <2>5 DEF ReceiveDeleteR
    <3>2. /\ DeleteRReceived(fl[f], fl'[f], e)
          /\ \A other \in Flows \ {f} : fl'[other] = fl[other]
      BY <2>5, ReceiveDeleteRMoves
    <3>3. FlowsServed
      BY <3>1, <3>2, OneServed DEF Served
    <3> QED
      BY <1>2, <3>1, <3>2, <3>3 DEF Steps, EnrollmentKept
  <2> QED
    BY <1>10, <2>1, <2>2, <2>3, <2>4, <2>5 DEF Deliver
<1>11. ASSUME NEW f \in Flows, NEW e \in Ends, Lose(f, e) PROVE Steps
  <2>1. Running /\ lost' = lost + 1 /\ UNCHANGED <<nm1, enrolled, finished>>
    BY <1>11 DEF Lose
  <2>2. Lost(fl[f], fl'[f], e) /\ \A other \in Flows \ {f} : fl'[other] = fl[other]
    BY <1>11, LoseMoves
  <2>3. lost' # 0
    BY <2>1 DEF TypeOK
  <2>4. FlowsServed
    BY <2>1, <2>2, <2>3, OneServed DEF Served
  <2> QED
    BY <1>2, <2>1, <2>3, <2>4 DEF Steps, EnrollmentKept
<1>12. ASSUME NEW f \in Flows, NEW e \in Ends, DeallocateRequest(f, e) PROVE Steps
  <2>1. Running /\ UNCHANGED <<nm1, enrolled, finished, lost>>
    BY <1>12 DEF DeallocateRequest
  <2>2. CloseAsked(fl[f], fl'[f], e) /\ \A other \in Flows \ {f} : fl'[other] = fl[other]
    BY <1>12, DeallocateRequestMoves
  <2>3. FlowsServed
    BY <2>1, <2>2, OneServed DEF Served
  <2> QED
    BY <1>2, <2>1, <2>3 DEF Steps, EnrollmentKept
<1>13. ASSUME UNCHANGED vars PROVE Steps
  BY <1>13 DEF vars, Steps, EnrollmentKept, FlowsServed, Nm1Kept
<1> QED
  BY <1>3, <1>4, <1>5, <1>6, <1>7, <1>8, <1>9, <1>10, <1>11, <1>12, <1>13 DEF Next

-----------------------------------------------------------------------------
(* The two ends agree.                                                       *)

\* What the proofs below take for granted.  A user that closes its flow a second time makes
\* FA::receiveDeallocateRequest, which asks for no status, undo a deallocation or abort; and
\* a VAL_MAXHOPCOUNT of two makes the relay refuse, to the initiator, M_CREATEs that the
\* responder sends for an (N-1)-flow, whatever became of the flow.
ClosedAtMostOnce == MaxCloses <= 1 /\ HopCountAtRelay("I") # 0

Agreement == \A f \in Flows : Promise(f, fl[f])

LEMMA ServedPromises ==
    ASSUME FlowAllocationAssumption, ClosedAtMostOnce, NEW f \in Flows,
           NEW g \in FlowRecord, NEW h \in FlowRecord, Served(f, g, h), Promise(f, g)
    PROVE  Promise(f, h) /\ Moved(g, h)
<1>1. MaxCloses \in Nat /\ MaxCloses <= 1 /\ HopCountAtRelay("I") # 0
  BY DEF FlowAllocationAssumption, ClosedAtMostOnce
<1>2. CASE AskedFor(f, g, h) \/ Queued(g, h) \/ Resumed(f, g, h)
  BY <1>2, AskedForPromises, QueuedPromises, ResumedPromises
<1>3. ASSUME NEW e \in Ends, Announced(g, h, Peer(e)) PROVE Promise(f, h) /\ Moved(g, h)
  <2>1. Peer(e) \in Ends
    BY DEF Peer, Ends
  <2> QED
    BY <1>3, <2>1, AnnouncedPromises
<1>4. ASSUME NEW e \in Ends, Declined(g, h, e) PROVE Promise(f, h) /\ Moved(g, h)
  BY <1>4, DeclinedPromises
<1>5. CASE HeldForwarded(g, h)
  BY <1>5, HeldForwardedPromises
<1>6. ASSUME NEW to \in Ends, ReachedRelay(g, h, to) PROVE Promise(f, h) /\ Moved(g, h)
  BY <1>1, <1>6, ReachedRelayPromises
<1>7. ASSUME NEW e \in Ends, CreateReceived(f, g, h, e) PROVE Promise(f, h) /\ Moved(g, h)
  BY <1>7, CreateReceivedPromises
<1>8. CASE OpeningReceived(g, h)
  BY <1>8, OpeningReceivedPromises
<1>9. ASSUME NEW e \in Ends, RefusalReceived(g, h, e) PROVE Promise(f, h) /\ Moved(g, h)
  BY <1>9, RefusalReceivedPromises
<1>10. ASSUME NEW e \in Ends, DeleteReceived(g, h, e) PROVE Promise(f, h) /\ Moved(g, h)
  BY <1>10, DeleteReceivedPromises
<1>11. ASSUME NEW e \in Ends, DeleteRReceived(g, h, e) PROVE Promise(f, h) /\ Moved(g, h)
  BY <1>11, DeleteRReceivedPromises
<1>12. ASSUME NEW e \in Ends, Lost(g, h, e) PROVE Promise(f, h) /\ Moved(g, h)
  BY <1>12, LostPromises
<1>13. ASSUME NEW e \in Ends, CloseAsked(g, h, e) PROVE Promise(f, h) /\ Moved(g, h)
  BY <1>1, <1>13, CloseAskedPromises
<1> QED
  BY <1>2, <1>3, <1>4, <1>5, <1>6, <1>7, <1>8, <1>9, <1>10, <1>11, <1>12, <1>13 DEF Served

LEMMA NewFlowFields ==
    /\ \A e \in Ends : /\ NewFlow.status[e] = "NONE" /\ NewFlow.efcpi[e] = "none"
                       /\ NewFlow.con[e] = "none" /\ NewFlow.told[e] = {}
                       /\ NewFlow.hop[e] = 0 /\ NewFlow.chan[e] = <<>>
    /\ NewFlow.relay = <<>> /\ NewFlow.closes = 0
    /\ NewFlow.queued = FALSE /\ NewFlow.broken = FALSE
BY DEF NewFlow

LEMMA NewFlowPromises ==
    ASSUME NEW f PROVE Promise(f, NewFlow)
<1>1. \A e \in Ends, m \in Message : ~Holds(NewFlow.chan[e], m) /\ Single(NewFlow.chan[e], m)
  BY NewFlowFields DEF Holds, Single
<1>2. \A e \in Ends : ~RelayedTo(NewFlow, e)
  BY NewFlowFields DEF RelayedTo
<1>3. ~Asked(NewFlow)
  BY <1>1, <1>2, NewFlowFields DEF Asked, Ends, Message
<1>4. AsksFirst(NewFlow)
  BY <1>2, <1>3, NewFlowFields DEF AsksFirst, Ends
<1>5. AnsweredOnce(NewFlow)
  BY <1>1, NewFlowFields DEF AnsweredOnce, Ends, Message, Opened
<1>6. ClosedOnce(NewFlow)
  BY <1>1, NewFlowFields DEF ClosedOnce, Ends, Message, Opened, Closing, Peer
<1> QED
  BY <1>4, <1>5, <1>6, NewFlowFields DEF Promise, Agree, Ends

LEMMA InitAgrees == Init => Agreement
BY NewFlowPromises DEF Init, Agreement

LEMMA StepAgrees ==
    ASSUME TypeOK, TypeOK', Agreement, Steps, FlowAllocationAssumption, ClosedAtMostOnce
    PROVE  /\ Agreement'
           /\ \A f \in Flows : Moved(fl[f], fl'[f])
<1>1. ASSUME NEW f \in Flows
      PROVE  Promise(f, fl'[f]) /\ Moved(fl[f], fl'[f])
  <2>1. fl[f] \in FlowRecord /\ fl'[f] \in FlowRecord /\ Promise(f, fl[f])
    BY DEF TypeOK, Agreement
  <2>2. CASE fl'[f] = fl[f]
    BY <2>1, <2>2 DEF Moved
  <2>3. CASE Served(f, fl[f], fl'[f])
    BY <2>1, <2>3, ServedPromises
  <2> QED
    BY <2>2, <2>3 DEF Steps, FlowsServed
<1> QED
  BY <1>1 DEF Agreement

-----------------------------------------------------------------------------
(* The lifecycle of a flow.                                                  *)

Phases(g) == [e \in Ends |-> PhaseOf(g.status[e])]

LEMMA PhaseTable ==
    /\ PhaseOf("NONE") = "idle" /\ PhaseOf("ALLOC_PEND") = "waiting"
    /\ PhaseOf("ALLOC_NEGA") = "refused" /\ PhaseOf("ALLOC_ERR") = "refused"
    /\ PhaseOf("TRANSFER") = "open" /\ PhaseOf("DEALLOC_PEND") = "closing"
    /\ PhaseOf("DEALLOCATED") = "closed"
BY DEF PhaseOf

LEMMA PhasesTyped ==
    ASSUME NEW g \in FlowRecord
    PROVE  Phases(g) \in [{"I", "R"} -> LC!Phase]
<1>1. \A s \in Status : PhaseOf(s) \in LC!Phase
  BY PhaseTable DEF Status, LC!Phase
<1>2. \A e \in Ends : g.status[e] \in Status
  BY DEF FlowRecord
<1> QED
  BY <1>1, <1>2 DEF Phases, Ends

LEMMA PhaseChanged ==
    ASSUME NEW g \in FlowRecord, NEW h, NEW e \in Ends, NEW status,
           h.status = [g.status EXCEPT ![e] = status]
    PROVE  Phases(h) = [Phases(g) EXCEPT ![e] = PhaseOf(status)]
<1>1. \A end \in Ends : h.status[end] = IF end = e THEN status ELSE g.status[end]
  BY DEF FlowRecord
<1> QED
  BY <1>1 DEF Phases

LEMMA MoveIsFlowStep ==
    ASSUME TypeOK, TypeOK', NEW f \in Flows, Moved(fl[f], fl'[f])
    PROVE  \/ LC!FlowStep(f)
           \/ Phases(fl'[f]) = Phases(fl[f])
<1> DEFINE g == fl[f]
           h == fl'[f]
           before == [other \in Flows |-> [e \in Ends |-> PhaseOf(fl[other].status[e])]]
           after == [other \in Flows |-> [e \in Ends |-> PhaseOf(fl'[other].status[e])]]
<1>1. g \in FlowRecord /\ h \in FlowRecord
  BY DEF TypeOK
<1>2. /\ before[f] = Phases(g) /\ after[f] = Phases(h)
      /\ \A e \in Ends : Phases(g)[e] = PhaseOf(g.status[e])
  BY DEF Phases
<1>3. CASE h.status = g.status
  BY <1>3 DEF Phases
<1>4. CASE h.status # g.status
  <2>1. PICK e \in Ends, status \in Status :
           h.status = [g.status EXCEPT ![e] = status] /\ MayMove(g, e, status)
    BY <1>4 DEF Moved
  <2>2. Phases(h) = [Phases(g) EXCEPT ![e] = PhaseOf(status)]
    BY <1>1, <2>1, PhaseChanged
  <2> DEFINE from == PhaseOf(g.status[e])
             to == PhaseOf(status)
             mine == before[f]["I"]
             yours == before[f]["R"]
  <2>3. before[f][e] = from /\ after[f] = [before[f] EXCEPT ![e] = to]
    BY <1>2, <2>2
  <2>4. LC!Move(f, e, from, to)
    <3> HIDE DEF from, to
    <3> QED
      BY <2>3 DEF LC!Move
  <2>5. mine = PhaseOf(g.status["I"]) /\ yours = PhaseOf(g.status["R"])
    BY <1>2 DEF Ends
  <2>6. /\ LC!Answer(f) <=> /\ mine # "idle"
                            /\ \E next \in {"waiting", "open", "refused"} :
                                  LC!Move(f, "R", "idle", next)
        /\ LC!Open(f) <=> yours \in {"open", "closing"} /\ LC!Move(f, "I", "waiting", "open")
        /\ LC!Refuse(f) <=> yours \in {"idle", "refused"} /\ LC!Move(f, "I", "waiting", "refused")
    BY DEF LC!Answer, LC!Open, LC!Refuse
  <2>7. \A end \in Ends :
           LC!Release(f, end) <=>
              /\ before[f][Peer(end)] \in {"closing", "closed"}
              /\ \E was \in {"open", "closing"} : LC!Move(f, end, was, "closed")
    BY DEF LC!Release, LC!Other, Peer
  <2>8. before[f][Peer(e)] = PhaseOf(g.status[Peer(e)])
    BY <1>2 DEF Peer, Ends
  <2>9. \A s \in Status : PhaseOf(s) = "idle" => s = "NONE"
    BY PhaseTable DEF Status
  <2>10. g.status["I"] \in Status
    BY <1>1 DEF FlowRecord, Ends
  <2> HIDE DEF before, after, mine, yours
  <2>11. CASE e = "I" /\ g.status["I"] = "NONE" /\ status \in {"ALLOC_PEND", "ALLOC_NEGA", "ALLOC_ERR"}
    BY <2>4, <2>11, PhaseTable DEF LC!FlowStep, LC!Request
  <2>12. CASE /\ e = "R" /\ g.status["R"] = "NONE" /\ g.status["I"] # "NONE"
              /\ status \in {"ALLOC_PEND", "TRANSFER", "ALLOC_NEGA"}
    <3>1. mine # "idle"
      BY <2>5, <2>9, <2>10, <2>12
    <3>2. LC!Answer(f)
      BY <2>4, <2>6, <2>12, <3>1, PhaseTable
    <3> QED
      BY <3>2 DEF LC!FlowStep
  <2>13. CASE /\ e = "I" /\ g.status["I"] = "ALLOC_PEND" /\ status = "TRANSFER"
              /\ g.status["R"] \in {"TRANSFER", "DEALLOC_PEND"}
    <3>1. LC!Open(f)
      BY <2>4, <2>5, <2>6, <2>13, PhaseTable
    <3> QED
      BY <3>1 DEF LC!FlowStep
  <2>14. CASE /\ e = "I" /\ g.status["I"] = "ALLOC_PEND" /\ status = "ALLOC_NEGA"
              /\ g.status["R"] \in {"NONE", "ALLOC_NEGA"}
    <3>1. LC!Refuse(f)
      BY <2>4, <2>5, <2>6, <2>14, PhaseTable
    <3> QED
      BY <3>1 DEF LC!FlowStep
  <2>15. CASE g.status[e] = "TRANSFER" /\ status = "DEALLOC_PEND"
    <3>1. LC!Close(f, e)
      BY <2>4, <2>15, PhaseTable DEF LC!Close
    <3> QED
      BY <3>1 DEF LC!FlowStep, Ends
  <2>16. CASE /\ g.status[e] \in {"TRANSFER", "DEALLOC_PEND"} /\ status = "DEALLOCATED"
              /\ g.status[Peer(e)] \in Closing
    <3>1. LC!Release(f, e)
      BY <2>4, <2>7, <2>8, <2>16, PhaseTable DEF Closing
    <3> QED
      BY <3>1 DEF LC!FlowStep, Ends
  <2> QED
    BY <2>1, <2>11, <2>12, <2>13, <2>14, <2>15, <2>16 DEF MayMove
<1> QED
  BY <1>3, <1>4

\* The two NFlowTables implement the lifecycle of a flow, for any number of flows, however
\* messages are delayed or lost and whatever users answer: an end is open only when the other
\* has accepted, refused only when it has not, closed only when the other closes too.
THEOREM LifecycleImplemented ==
    ASSUME ClosedAtMostOnce
    PROVE  Spec => ImplementsLifecycle
<1>1. Init => LC!Init
  BY NewFlowFields, PhaseTable DEF Init, LC!Init, Ends
<1>2. ASSUME TypeOK, TypeOK', \A f \in Flows : Moved(fl[f], fl'[f])
      PROVE  LC!Next
  <2> DEFINE before == [f \in Flows |-> [e \in Ends |-> PhaseOf(fl[f].status[e])]]
             after == [f \in Flows |-> [e \in Ends |-> PhaseOf(fl'[f].status[e])]]
  <2>1. \A f \in Flows : before[f] = Phases(fl[f]) /\ after[f] = Phases(fl'[f])
    BY DEF Phases
  <2>2. after \in [Flows -> [{"I", "R"} -> LC!Phase]]
    <3>1. \A f \in Flows : Phases(fl'[f]) \in [{"I", "R"} -> LC!Phase]
      BY <1>2, PhasesTyped DEF TypeOK
    <3>2. after = [f \in Flows |-> Phases(fl'[f])]
      BY DEF Phases
    <3> HIDE DEF after
    <3> QED
      BY <3>1, <3>2
  <2>3. \A f \in Flows : LC!FlowStep(f) \/ after[f] = before[f]
    <3> HIDE DEF before, after
    <3> QED
      BY <1>2, <2>1, MoveIsFlowStep
  <2> QED
    BY <2>2, <2>3 DEF LC!Next
<1>3. TypeOK /\ TypeOK' /\ Agreement /\ Steps => Agreement' /\ LC!Next
  BY <1>2, StepAgrees, FlowAllocationAssumption
<1>4. TypeOK /\ [Next]_vars => Steps
  BY StepServes, FlowAllocationAssumption
<1>5. Init => Agreement
  BY InitAgrees
<1> QED
  BY <1>1, <1>3, <1>4, <1>5, TypeCorrect, PTL DEF Spec, ImplementsLifecycle, LC!Spec

-----------------------------------------------------------------------------
(* No handler aborts.                                                        *)

Refused == \E e \in Ends, key \in KeySet : nm1[e][key] = "refused"
Again(f) == NeighborOf[f] \in finished /\ finished # {NeighborOf[f]}

\* What createBindings, deleteBindings and AE::deleteBindings take for granted.
Alive(g) ==
    /\ g.status["I"] = "ALLOC_PEND" => g.ae["I"] = TRUE /\ g.efcpi["I"] # "deleted"
    /\ \A e \in Ends : g.status[e] \in {"TRANSFER", "DEALLOC_PEND"} => g.ae[e] = TRUE
    /\ \A e \in Ends : g.status[e] = "TRANSFER" => g.efcpi[e] = "bound"
    /\ g.status["R"] = "NONE" => g.efcpi["R"] = "none"

Works(g) == Alive(g) /\ g.broken = FALSE

\* The flow joins PendingFlows for a second time only with the enrollment of another neighbor.
Queueing(f, g) ==
    /\ g.queued = TRUE => NeighborOf[f] \in finished /\ g.status["I"] # "NONE"
    /\ NeighborOf[f] \notin finished /\ g.efcpi["I"] # "none" => enrolled = TRUE
    /\ g.queued = TRUE /\ g.efcpi["I"] # "none" => Again(f)

LEMMA SameWorks ==
    ASSUME NEW g \in FlowRecord, NEW h \in FlowRecord, Works(g), h.status = g.status,
           h.ae = g.ae, h.efcpi = g.efcpi, h.broken = g.broken
    PROVE  Works(h)
BY DEF Works, Alive

LEMMA StartedWorks ==
    ASSUME NEW f, NEW g \in FlowRecord, NEW h \in FlowRecord,
           Started(f, g, h), Works(g), Promise(f, g), g.efcpi["I"] = "none"
    PROVE  Works(h)
<1>0. g.status["I"] = "ALLOC_PEND" /\ g.ae["I"] = TRUE
  BY DEF Started, Works, Alive
<1>1. CASE GivenUp(g, h)
  BY <1>0, <1>1 DEF GivenUp, Works, Alive, FlowRecord, Ends
<1>2. CASE RequestHandled(g, h)
  <2>1. /\ h.efcpi["R"] = g.efcpi["R"] /\ h.efcpi["I"] = "bound" /\ h.broken = FALSE
        /\ h.status = g.status /\ h.ae = g.ae
    BY <1>2 DEF RequestHandled, Works, SameUsers, Ends
  <2> QED
    BY <1>0, <2>1 DEF Works, Alive, Ends
<1> QED
  BY <1>1, <1>2 DEF Started

LEMMA AskedForWorks ==
    ASSUME NEW f, NEW g \in FlowRecord, NEW h \in FlowRecord,
           AskedFor(f, g, h), Works(g), Promise(f, g)
    PROVE  Works(h)
<1>1. PICK k \in FlowRecord :
         /\ g.status["I"] = "NONE"
         /\ AllocationAsked(g, k)
         /\ \/ StatusChanged(k, h, "I", "ALLOC_ERR")
            \/ h = k
            \/ Started(f, k, h)
  BY DEF AskedFor
<1>2. g.efcpi["I"] = "none"
  BY <1>1 DEF Promise, Agree, AsksFirst
<1>3. /\ k.status["I"] = "ALLOC_PEND" /\ k.status["R"] = g.status["R"]
      /\ k.ae["I"] = TRUE /\ k.ae["R"] = g.ae["R"]
      /\ k.efcpi = g.efcpi /\ k.broken = g.broken
  BY <1>1 DEF AllocationAsked, FlowRecord, Ends
<1>4. Works(k)
  BY <1>2, <1>3 DEF Works, Alive, Ends
<1>5. Promise(f, k)
  BY <1>1, <1>2, <1>3, AllocationAskedAgrees DEF Promise
<1>6. CASE StatusChanged(k, h, "I", "ALLOC_ERR")
  <2>1. /\ h.status["I"] = "ALLOC_ERR" /\ h.status["R"] = k.status["R"]
        /\ h.ae = k.ae /\ h.efcpi = k.efcpi /\ h.broken = k.broken
    BY <1>6 DEF StatusChanged, SameUsers, FlowRecord, Ends
  <2> QED
    BY <1>4, <2>1 DEF Works, Alive, Ends
<1>7. CASE Started(f, k, h)
  BY <1>2, <1>3, <1>4, <1>5, <1>7, StartedWorks
<1> QED
  BY <1>1, <1>4, <1>6, <1>7

LEMMA ResumedWorks ==
    ASSUME NEW f, NEW g \in FlowRecord, NEW h \in FlowRecord,
           Resumed(f, g, h), Works(g), Promise(f, g), g.efcpi["I"] = "none"
    PROVE  Works(h)
<1>1. PICK k \in FlowRecord : QueuedSet(g, k, FALSE) /\ (h = k \/ Started(f, k, h))
  BY DEF Resumed
<1>2. k.status = g.status /\ k.ae = g.ae /\ k.efcpi = g.efcpi /\ k.broken = g.broken
  BY <1>1 DEF QueuedSet, SameUsers
<1>3. Works(k)
  BY <1>2, SameWorks
<1>4. Promise(f, k)
  BY <1>1, <1>2, QueuedStays, StaysPromised
<1> QED
  BY <1>1, <1>2, <1>3, <1>4, StartedWorks

LEMMA TookWorks ==
    ASSUME NEW g \in FlowRecord, NEW k \in FlowRecord, NEW e \in Ends, NEW msg,
           Took(g, k, e, msg), Works(g)
    PROVE  Works(k) /\ k.status = g.status
<1>1. k.status = g.status /\ k.ae = g.ae /\ k.efcpi = g.efcpi /\ k.broken = g.broken
  BY DEF Took, MessageTaken, SameUsers
<1> QED
  BY <1>1, SameWorks

LEMMA AnsweredWorks ==
    ASSUME NEW f, NEW g \in FlowRecord, NEW h \in FlowRecord,
           AnsweredTo(f, g, h), g.status["R"] = "NONE", Works(g)
    PROVE  Works(h)
<1>0. g.efcpi["R"] = "none"
  BY DEF Works, Alive
<1>1. CASE AcceptedSending(g, h) \/ AcceptedHolding(g, h)
  <2>1. /\ h.status["R"] = "TRANSFER" /\ h.status["I"] = g.status["I"]
        /\ h.ae["R"] = TRUE /\ h.ae["I"] = g.ae["I"]
        /\ h.efcpi["I"] = g.efcpi["I"] /\ h.efcpi["R"] = "bound" /\ h.broken = g.broken
    BY <1>0, <1>1 DEF AcceptedSending, AcceptedHolding, FlowRecord, Ends
  <2> QED
    BY <2>1 DEF Works, Alive, Ends
<1>2. CASE RefusedByUser(g, h) \/ Ignored(g, h)
  <2>1. /\ h.status["R"] \in {"ALLOC_NEGA", "ALLOC_PEND"} /\ h.status["I"] = g.status["I"]
        /\ h.ae = g.ae /\ h.efcpi = g.efcpi /\ h.broken = g.broken
    BY <1>2 DEF RefusedByUser, Ignored, SameUsers, FlowRecord, Ends
  <2> QED
    BY <2>1 DEF Works, Alive, Ends
<1> QED
  BY <1>1, <1>2 DEF AnsweredTo

LEMMA CreateReceivedWorks ==
    ASSUME NEW f, NEW g \in FlowRecord, NEW h \in FlowRecord, NEW e \in Ends,
           CreateReceived(f, g, h, e), Works(g), Promise(f, g)
    PROVE  Works(h)
<1>1. PICK k \in FlowRecord :
         /\ Took(g, k, e, "M_CREATE")
         /\ h = k \/ (g.status[e] = "NONE" /\ (e = "R" => AnsweredTo(f, k, h)))
  BY DEF CreateReceived
<1>2. Works(k) /\ k.status = g.status
  BY <1>1, TookWorks
<1>3. CASE h # k
  <2>1. g.chan[e] # <<>> /\ g.status[e] = "NONE"
    BY <1>1, <1>3 DEF Took
  <2>2. e = "R"
    <3>1. Holds(g.chan[e], "M_CREATE")
      BY <1>1, TookEffect DEF Message
    <3> QED
      BY <2>1 DEF Promise, Agree, AsksFirst, Asked, Ends
  <2> QED
    BY <1>1, <1>2, <1>3, <2>1, <2>2, AnsweredWorks
<1> QED
  BY <1>2, <1>3

LEMMA OpeningReceivedWorks ==
    ASSUME NEW f, NEW g \in FlowRecord, NEW h \in FlowRecord,
           OpeningReceived(g, h), Works(g), Promise(f, g)
    PROVE  Works(h)
<1>1. PICK k \in FlowRecord : Took(g, k, "I", "M_CREATE_R+") /\ Opens(k, h)
  BY DEF OpeningReceived
<1>2. Works(k) /\ k.status = g.status
  BY <1>1, TookWorks DEF Ends
<1>3. Holds(g.chan["I"], "M_CREATE_R+") /\ k.efcpi = g.efcpi
  BY <1>1, TookEffect DEF Message, Ends
<1>4. g.status["I"] = "ALLOC_PEND" /\ g.efcpi["I"] # "none"
  BY <1>3 DEF Promise, Agree, AnsweredOnce, AsksFirst, Asked, Opened
<1>5. k.ae["I"] = TRUE /\ k.efcpi["I"] = "bound"
  BY <1>2, <1>3, <1>4 DEF Works, Alive, FlowRecord, Ends
<1>6. /\ h.status["I"] = "TRANSFER" /\ h.status["R"] = k.status["R"]
      /\ h.ae = k.ae /\ h.efcpi = k.efcpi /\ h.broken = k.broken
  BY <1>1 DEF Opens, FlowRecord, Ends
<1> QED
  BY <1>2, <1>5, <1>6 DEF Works, Alive, Ends

LEMMA RefusalReceivedWorks ==
    ASSUME NEW f, NEW g \in FlowRecord, NEW h \in FlowRecord, NEW e \in Ends,
           RefusalReceived(g, h, e), Works(g), Promise(f, g)
    PROVE  Works(h)
<1>1. PICK k \in FlowRecord :
         /\ Took(g, k, e, "M_CREATE_R-")
         /\ IF e = "I" THEN Retried(k, h) \/ GivenUp(k, h) ELSE h = k
  BY DEF RefusalReceived
<1>2. Works(k) /\ k.status = g.status
  BY <1>1, TookWorks
<1>3. CASE Retried(k, h)
  BY <1>2, <1>3, SameWorks DEF Retried, SameUsers
<1>4. CASE e = "I" /\ GivenUp(k, h)
  <2>1. Holds(g.chan["I"], "M_CREATE_R-")
    BY <1>1, <1>4, TookEffect DEF Message
  <2>2. k.status["I"] = "ALLOC_PEND"
    BY <1>2, <2>1 DEF Promise, Agree, AnsweredOnce
  <2>3. k.ae["I"] = TRUE
    BY <1>2, <2>2 DEF Works, Alive
  <2> QED
    <3>1. /\ h.status["I"] = "ALLOC_NEGA" /\ h.status["R"] = k.status["R"]
          /\ h.ae["R"] = k.ae["R"] /\ h.efcpi = k.efcpi /\ h.broken = k.broken
      BY <1>4, <2>3 DEF GivenUp, FlowRecord, Ends
    <3> QED
      BY <1>2, <3>1 DEF Works, Alive, Ends
<1> QED
  BY <1>1, <1>2, <1>3, <1>4

LEMMA DeleteReceivedWorks ==
    ASSUME NEW f, NEW g \in FlowRecord, NEW h \in FlowRecord, NEW e \in Ends,
           DeleteReceived(g, h, e), Works(g)
    PROVE  Works(h)
<1>1. PICK k \in FlowRecord :
         /\ Took(g, k, e, "M_DELETE")
         /\ IF g.status[e] = "TRANSFER" THEN Released(k, h, e) ELSE h = k
  BY DEF DeleteReceived
<1>2. Works(k) /\ k.status = g.status
  BY <1>1, TookWorks
<1>3. CASE k.status[e] = "TRANSFER" /\ Released(k, h, e)
  <2>1. k.ae[e] = TRUE /\ k.efcpi[e] = "bound"
    BY <1>2, <1>3 DEF Works, Alive
  <2>2. /\ h.status[e] = "DEALLOCATED" /\ h.broken = k.broken
        /\ \A end \in Ends \ {e} : /\ h.status[end] = k.status[end] /\ h.ae[end] = k.ae[end]
                                   /\ h.efcpi[end] = k.efcpi[end]
    BY <1>3, <2>1 DEF Released, FlowRecord
  <2> QED
    BY <1>2, <1>3, <2>2 DEF Works, Alive, Ends
<1> QED
  BY <1>1, <1>2, <1>3

LEMMA DeleteRReceivedWorks ==
    ASSUME NEW f, NEW g \in FlowRecord, NEW h \in FlowRecord, NEW e \in Ends,
           DeleteRReceived(g, h, e), Works(g)
    PROVE  Works(h)
<1>1. PICK k \in FlowRecord :
         /\ Took(g, k, e, "M_DELETE_R")
         /\ IF g.status[e] = "DEALLOC_PEND" THEN ReleaseAnswered(k, h, e) ELSE h = k
  BY DEF DeleteRReceived
<1>2. Works(k) /\ k.status = g.status
  BY <1>1, TookWorks
<1>3. CASE k.status[e] = "DEALLOC_PEND" /\ ReleaseAnswered(k, h, e)
  <2>1. k.ae[e] = TRUE
    BY <1>2, <1>3 DEF Works, Alive
  <2>2. /\ h.status[e] = "DEALLOCATED" /\ h.broken = k.broken /\ h.efcpi = k.efcpi
        /\ \A end \in Ends \ {e} : h.status[end] = k.status[end] /\ h.ae[end] = k.ae[end]
    BY <1>3, <2>1 DEF ReleaseAnswered, FlowRecord
  <2> QED
    BY <1>2, <1>3, <2>2 DEF Works, Alive, Ends
<1> QED
  BY <1>1, <1>2, <1>3

LEMMA CloseAskedWorks ==
    ASSUME NEW f, NEW g \in FlowRecord, NEW h \in FlowRecord, NEW e \in Ends,
           CloseAsked(g, h, e), MaxCloses \in Nat, MaxCloses <= 1, Works(g), Promise(f, g)
    PROVE  Works(h)
<1>1. DeallocationAsked(g, h, e) /\ g.con[e] = "connectpending" /\ g.closes = 0
  BY DEF CloseAsked, FlowRecord
<1>2. g.status[e] = "TRANSFER"
  BY <1>1 DEF Promise, Agree, ClosedOnce, Opened, Closing
<1>3. g.ae[e] = TRUE /\ g.efcpi[e] = "bound"
  BY <1>2 DEF Works, Alive
<1>4. /\ h.status[e] = "DEALLOC_PEND" /\ h.broken = g.broken /\ h.ae = g.ae
      /\ \A end \in Ends \ {e} : h.status[end] = g.status[end] /\ h.efcpi[end] = g.efcpi[end]
  BY <1>1, <1>3 DEF DeallocationAsked, SameUsers, FlowRecord
<1> QED
  BY <1>2, <1>3, <1>4 DEF Works, Alive, Ends

LEMMA ServedWorks ==
    ASSUME FlowAllocationAssumption, ClosedAtMostOnce, NEW f \in Flows,
           NEW g \in FlowRecord, NEW h \in FlowRecord,
           Served(f, g, h), Promise(f, g), Works(g),
           g.queued = TRUE => g.efcpi["I"] = "none"
    PROVE  Works(h) \/ Refused'
<1>1. MaxCloses \in Nat /\ MaxCloses <= 1
  BY DEF FlowAllocationAssumption, ClosedAtMostOnce
<1>2. CASE AskedFor(f, g, h)
  BY <1>2, AskedForWorks
<1>3. CASE Queued(g, h)
  BY <1>3, SameWorks DEF Queued, QueuedSet, SameUsers
<1>4. CASE Resumed(f, g, h)
  <2>1. g.efcpi["I"] = "none"
    BY <1>4 DEF Resumed
  <2> QED
    BY <1>4, <2>1, ResumedWorks
<1>5. ASSUME NEW to, Announced(g, h, to) PROVE Works(h)
  BY <1>5, SameWorks DEF Announced, CreateSent, SameUsers
<1>6. ASSUME NEW e \in Ends, NEW key \in KeySet, nm1'[e][key] = "refused" PROVE Refused'
  BY <1>6 DEF Refused
<1>7. CASE HeldForwarded(g, h)
  BY <1>7, SameWorks DEF HeldForwarded, Forwarded, SameUsers
<1>8. ASSUME NEW to \in Ends, ReachedRelay(g, h, to) PROVE Works(h)
  BY <1>8, SameWorks DEF ReachedRelay, CreateRelayed, SameUsers
<1>9. ASSUME NEW e \in Ends, CreateReceived(f, g, h, e) PROVE Works(h)
  BY <1>9, CreateReceivedWorks
<1>10. CASE OpeningReceived(g, h)
  BY <1>10, OpeningReceivedWorks
<1>11. ASSUME NEW e \in Ends, RefusalReceived(g, h, e) PROVE Works(h)
  BY <1>11, RefusalReceivedWorks
<1>12. ASSUME NEW e \in Ends, DeleteReceived(g, h, e) PROVE Works(h)
  BY <1>12, DeleteReceivedWorks
<1>13. ASSUME NEW e \in Ends, DeleteRReceived(g, h, e) PROVE Works(h)
  BY <1>13, DeleteRReceivedWorks
<1>14. ASSUME NEW e \in Ends, Lost(g, h, e) PROVE Works(h)
  BY <1>14, SameWorks DEF Lost, MessageTaken, SameUsers
<1>15. ASSUME NEW e \in Ends, CloseAsked(g, h, e) PROVE Works(h)
  BY <1>1, <1>15, CloseAskedWorks
<1> QED
  BY <1>2, <1>3, <1>4, <1>5, <1>6, <1>7, <1>8, <1>9, <1>10, <1>11, <1>12, <1>13, <1>14, <1>15
     DEF Served

\* The flow neither joins PendingFlows nor leaves it, and gets no EFCP instance.
Unhurried(g, h) ==
    h.queued = g.queued /\ (h.efcpi["I"] = "none" <=> g.efcpi["I"] = "none")

LEMMA TookUnhurried ==
    ASSUME NEW g, NEW k, NEW e, NEW msg, Took(g, k, e, msg)
    PROVE  k.queued = g.queued /\ k.efcpi = g.efcpi
BY DEF Took, MessageTaken, SameBooks

LEMMA ServedUnhurried ==
    ASSUME NEW f \in Flows, NEW g \in FlowRecord, NEW h \in FlowRecord,
           Served(f, g, h), Promise(f, g)
    PROVE  \/ AskedFor(f, g, h)
           \/ /\ Queued(g, h) /\ ~EnrolledAtStart
              /\ NeighborOf[f] \notin finished /\ NeighborOf[f] \in finished'
           \/ Resumed(f, g, h)
           \/ Unhurried(g, h)
<1>5. ASSUME NEW to, Announced(g, h, to) PROVE Unhurried(g, h)
  BY <1>5 DEF Announced, CreateSent, SameBooks, Unhurried
<1>6. ASSUME NEW e \in Ends, Declined(g, h, e) PROVE Unhurried(g, h)
  BY <1>6 DEF Declined, SameBooks, Unhurried
<1>7. CASE HeldForwarded(g, h)
  BY <1>7 DEF HeldForwarded, Forwarded, SameBooks, Unhurried
<1>8. ASSUME NEW to \in Ends, ReachedRelay(g, h, to) PROVE Unhurried(g, h)
  BY <1>8 DEF ReachedRelay, CreateRelayed, SameBooks, Unhurried
<1>9. ASSUME NEW e \in Ends, CreateReceived(f, g, h, e) PROVE Unhurried(g, h)
  <2>1. PICK k \in FlowRecord :
           /\ Took(g, k, e, "M_CREATE")
           /\ h = k \/ (g.status[e] = "NONE" /\ (e = "R" => AnsweredTo(f, k, h)))
    BY <1>9 DEF CreateReceived
  <2>2. k.queued = g.queued /\ k.efcpi = g.efcpi
    BY <2>1, TookUnhurried
  <2>3. h # k => e = "R"
    <3>1. Holds(g.chan[e], "M_CREATE") /\ g.chan[e] # <<>>
      BY <2>1, TookEffect DEF Message, Took
    <3> QED
      BY <2>1, <3>1 DEF Promise, Agree, AsksFirst, Asked, Ends
  <2>4. AnsweredTo(f, k, h) => h.queued = k.queued /\ h.efcpi["I"] = k.efcpi["I"]
    BY DEF AnsweredTo, AcceptedSending, AcceptedHolding, RefusedByUser, Ignored, SameBooks
  <2> QED
    BY <2>1, <2>2, <2>3, <2>4 DEF Unhurried
<1>10. CASE OpeningReceived(g, h)
  BY <1>10, TookUnhurried DEF OpeningReceived, Opens, SameBooks, Unhurried
<1>11. ASSUME NEW e \in Ends, RefusalReceived(g, h, e) PROVE Unhurried(g, h)
  BY <1>11, TookUnhurried DEF RefusalReceived, Retried, GivenUp, Unhurried
<1>12. ASSUME NEW e \in Ends, DeleteReceived(g, h, e) PROVE Unhurried(g, h)
  BY <1>12, TookUnhurried DEF DeleteReceived, Released, SameBooks, Unhurried, Ends
<1>13. ASSUME NEW e \in Ends, DeleteRReceived(g, h, e) PROVE Unhurried(g, h)
  BY <1>13, TookUnhurried DEF DeleteRReceived, ReleaseAnswered, SameBooks, Unhurried
<1>14. ASSUME NEW e \in Ends, Lost(g, h, e) PROVE Unhurried(g, h)
  BY <1>14 DEF Lost, MessageTaken, SameBooks, Unhurried
<1>15. ASSUME NEW e \in Ends, CloseAsked(g, h, e) PROVE Unhurried(g, h)
  BY <1>15 DEF CloseAsked, DeallocationAsked, Unhurried, Ends
<1> QED
  BY <1>5, <1>6, <1>7, <1>8, <1>9, <1>10, <1>11, <1>12, <1>13, <1>14, <1>15 DEF Served

\* The IPCP is enrolled from the start or by one of its neighbors.
Enrolling ==
    /\ enrolled = TRUE <=> (EnrolledAtStart \/ finished # {})
    /\ EnrolledAtStart => finished = {}

LEMMA EnrollingKept ==
    ASSUME EnrollmentKept, Enrolling
    PROVE  Enrolling' /\ finished \subseteq finished' /\ (enrolled = TRUE => enrolled' = TRUE)
BY DEF EnrollmentKept, Enrolling

LEMMA ServedQueues ==
    ASSUME TypeOK, NEW f \in Flows, EnrollmentKept, Enrolling,
           NEW g \in FlowRecord, NEW h \in FlowRecord, h = g \/ Served(f, g, h),
           Promise(f, g), Moved(g, h), Queueing(f, g)
    PROVE  /\ h.queued = TRUE => NeighborOf[f] \in finished' /\ h.status["I"] # "NONE"
           /\ NeighborOf[f] \notin finished' /\ h.efcpi["I"] # "none" => enrolled' = TRUE
           /\ h.queued = TRUE /\ h.efcpi["I"] # "none" => Again(f)'
           /\ Again(f) => Again(f)'
<1>1. finished \subseteq finished' /\ (enrolled = TRUE => enrolled' = TRUE)
  BY EnrollingKept
<1>2. Again(f) => Again(f)'
  BY <1>1 DEF Again
<1>3. g.status["I"] # "NONE" => h.status["I"] # "NONE"
  <2>1. CASE h.status = g.status
    BY <2>1
  <2>2. CASE h.status # g.status
    <3>1. PICK e \in Ends, status \in Status :
             h.status = [g.status EXCEPT ![e] = status] /\ MayMove(g, e, status)
      BY <2>2 DEF Moved
    <3>2. status # "NONE"
      BY <3>1 DEF MayMove
    <3> QED
      BY <3>1, <3>2 DEF FlowRecord, Ends
  <2> QED
    BY <2>1, <2>2
<1>4. CASE h = g \/ Unhurried(g, h)
  BY <1>1, <1>2, <1>3, <1>4 DEF Unhurried, Queueing
<1>5. CASE AskedFor(f, g, h)
  <2>1. PICK k \in FlowRecord :
           /\ g.status["I"] = "NONE"
           /\ AllocationAsked(g, k)
           /\ \/ StatusChanged(k, h, "I", "ALLOC_ERR")
              \/ h = k
              \/ enrolled = TRUE /\ Started(f, k, h)
    BY <1>5 DEF AskedFor
  <2>2. g.queued = FALSE /\ g.efcpi["I"] = "none"
    BY <2>1 DEF Queueing, FlowRecord, Promise, Agree, AsksFirst
  <2>3. k.queued = FALSE /\ k.efcpi["I"] = "none"
    BY <2>1, <2>2 DEF AllocationAsked, SameBooks
  <2>4. h.queued = FALSE
    BY <2>1, <2>3 DEF StatusChanged, Started, GivenUp, RequestHandled, SameBooks
  <2>5. enrolled = TRUE \/ h.efcpi["I"] = "none"
    BY <2>1, <2>3 DEF StatusChanged
  <2> QED
    BY <1>1, <1>2, <2>4, <2>5
<1>6. CASE /\ Queued(g, h) /\ ~EnrolledAtStart
           /\ NeighborOf[f] \notin finished /\ NeighborOf[f] \in finished'
  <2>1. g.status["I"] = "ALLOC_PEND" /\ h.efcpi = g.efcpi
    BY <1>6 DEF Queued, QueuedSet
  <2>2. h.efcpi["I"] # "none" => finished # {}
    BY <1>6, <2>1 DEF Queueing, Enrolling
  <2>3. finished # {} => Again(f)'
    BY <1>1, <1>6 DEF Again
  <2> QED
    BY <1>2, <1>3, <1>6, <2>1, <2>2, <2>3
<1>7. CASE Resumed(f, g, h)
  <2>1. PICK k \in FlowRecord :
           g.queued = TRUE /\ QueuedSet(g, k, FALSE) /\ (h = k \/ Started(f, k, h))
    BY <1>7 DEF Resumed
  <2>2. h.queued = FALSE
    BY <2>1 DEF QueuedSet, Started, GivenUp, RequestHandled, SameBooks
  <2>3. NeighborOf[f] \in finished
    BY <2>1 DEF Queueing
  <2> QED
    BY <1>1, <1>2, <2>2, <2>3
<1> QED
  BY <1>4, <1>5, <1>6, <1>7, ServedUnhurried

AbortInv ==
    /\ Enrolling
    /\ \A f \in Flows : Queueing(f, fl[f])
    /\ \A f \in Flows : Refused \/ Again(f) \/ Works(fl[f])

LEMMA InitRuns ==
    ASSUME Init PROVE AbortInv
<1>1. \A f \in Flows : fl[f] = NewFlow /\ finished = {} /\ enrolled = EnrolledAtStart
  BY DEF Init
<1>2. NewFlow.queued = FALSE /\ NewFlow.broken = FALSE
  BY NewFlowFields
<1>3. \A e \in Ends : NewFlow.status[e] = "NONE" /\ NewFlow.efcpi[e] = "none"
  BY NewFlowFields
<1>4. Works(NewFlow) /\ \A f \in Flows : Queueing(f, NewFlow)
  BY <1>2, <1>3 DEF Works, Alive, Queueing, Ends
<1>5. Enrolling
  BY FlowAllocationAssumption DEF Init, Enrolling, FlowAllocationAssumption
<1> QED
  BY <1>1, <1>4, <1>5 DEF AbortInv

LEMMA StepRuns ==
    ASSUME TypeOK, TypeOK', Agreement, AbortInv, Steps,
           FlowAllocationAssumption, ClosedAtMostOnce
    PROVE  AbortInv'
<1>1. Nm1Kept /\ EnrollmentKept /\ FlowsServed /\ Enrolling
  BY DEF Steps, AbortInv
<1>2. Enrolling'
  BY <1>1, EnrollingKept
<1>3. Refused => Refused'
  BY <1>1 DEF Refused, Nm1Kept, Nodes
<1>4. ASSUME NEW f \in Flows
      PROVE  Queueing(f, fl[f])' /\ (Refused' \/ Again(f)' \/ Works(fl'[f]))
  <2> DEFINE g == fl[f]
             h == fl'[f]
  <2>1. g \in FlowRecord /\ h \in FlowRecord /\ Promise(f, g)
    BY DEF TypeOK, Agreement
  <2>2. Queueing(f, g) /\ (Refused \/ Again(f) \/ Works(g))
    BY DEF AbortInv
  <2>3. h = g \/ Served(f, g, h)
    BY <1>1 DEF FlowsServed
  <2>4. Moved(g, h)
    BY StepAgrees
  <2> HIDE DEF g, h
  <2>5. /\ h.queued = TRUE => NeighborOf[f] \in finished' /\ h.status["I"] # "NONE"
        /\ NeighborOf[f] \notin finished' /\ h.efcpi["I"] # "none" => enrolled' = TRUE
        /\ h.queued = TRUE /\ h.efcpi["I"] # "none" => Again(f)'
        /\ Again(f) => Again(f)'
    BY <1>1, <2>1, <2>2, <2>3, <2>4, ServedQueues
  <2>6. Queueing(f, fl[f])'
    BY <2>5 DEF Queueing, h
  <2>7. CASE Refused \/ Again(f)
    BY <1>3, <2>5, <2>6, <2>7
  <2>8. CASE Works(g) /\ ~Again(f) /\ ~Refused
    <3>1. g.queued = TRUE => g.efcpi["I"] = "none"
      BY <2>2, <2>8 DEF Queueing
    <3>2. Works(h) \/ Refused'
      BY <2>1, <2>3, <2>8, <3>1, ServedWorks
    <3> QED
      BY <2>6, <3>2 DEF h
  <2> QED
    BY <2>2, <2>7, <2>8
<1> QED
  BY <1>2, <1>4 DEF AbortInv

\* createBindings, deleteBindings and AE::deleteBindings never meet what they do not look
\* for, unless an (N-1)-flow was refused or the enrollment of another neighbor started a flow
\* twice: for any number of flows and neighbors, when a user closes its flow at most once.
THEOREM NeverAborts ==
    ASSUME ClosedAtMostOnce
    PROVE  Spec => []NoAbort
<1>1. Init => AbortInv
  BY InitRuns
<1>2. TypeOK /\ TypeOK' /\ Agreement /\ Steps => Agreement'
  BY StepAgrees, FlowAllocationAssumption
<1>3. TypeOK /\ TypeOK' /\ Agreement /\ AbortInv /\ Steps => AbortInv'
  BY StepRuns, FlowAllocationAssumption
<1>4. TypeOK /\ [Next]_vars => Steps
  BY StepServes, FlowAllocationAssumption
<1>5. Init => Agreement
  BY InitAgrees
<1>6. AbortInv => NoAbort
  BY DEF AbortInv, NoAbort, Works, Refused, Again
<1> QED
  BY <1>1, <1>2, <1>3, <1>4, <1>5, <1>6, TypeCorrect, PTL DEF Spec

-----------------------------------------------------------------------------
(* A user is answered once.                                                  *)

RefusedAt(e) == \E key \in KeySet : nm1[e][key] = "refused"
Reachable == \E key \in KeySet : nm1["I"][key] = "established"

\* The responder has the (N-1)-flows it answers by.
ResponderReachable == Nm1Init["R"] = "established"

Told(g) ==
    /\ \A e \in Ends : "positive" \in g.told[e] => g.status[e] \in Opened
    /\ "negative" \in g.told["I"] => g.status["I"] = "ALLOC_NEGA" \/ RefusedAt("I")
    /\ "negative" \in g.told["R"] => RefusedAt("R")
    /\ Asked(g) => Reachable

\* What users hear in one step.
Tells(g, h) ==
    /\ \A e \in Ends : "positive" \in h.told[e] => "positive" \in g.told[e] \/ h.status[e] \in Opened
    /\ "negative" \in h.told["I"] =>
          "negative" \in g.told["I"] \/ h.status["I"] = "ALLOC_NEGA" \/ RefusedAt("I")'
    /\ "negative" \in h.told["R"] => "negative" \in g.told["R"] \/ RefusedAt("R")'

LEMMA SameTells ==
    ASSUME NEW g, NEW h, h.told = g.told
    PROVE  Tells(g, h)
BY DEF Tells

LEMMA TookTells ==
    ASSUME NEW g, NEW k, NEW e, NEW msg, Took(g, k, e, msg)
    PROVE  k.told = g.told /\ k.status = g.status
BY DEF Took, MessageTaken, SameUsers

LEMMA GivenUpTells ==
    ASSUME NEW g \in FlowRecord, NEW h \in FlowRecord, GivenUp(g, h)
    PROVE  Tells(g, h)
<1>1. h.status["I"] = "ALLOC_NEGA"
  BY DEF GivenUp, FlowRecord, Ends
<1> QED
  BY <1>1 DEF GivenUp, Tells, Ends

LEMMA StartedTells ==
    ASSUME NEW f, NEW g \in FlowRecord, NEW h \in FlowRecord, Started(f, g, h)
    PROVE  Tells(g, h)
BY GivenUpTells, SameTells DEF Started, RequestHandled, SameUsers

LEMMA ServedTells ==
    ASSUME NEW f \in Flows, NEW g \in FlowRecord, NEW h \in FlowRecord,
           Served(f, g, h), Promise(f, g)
    PROVE  Tells(g, h)
<1>1. ASSUME NEW k, k.told = g.told, Tells(k, h) PROVE Tells(g, h)
  BY <1>1 DEF Tells
<1>2. CASE AskedFor(f, g, h)
  <2>1. PICK k \in FlowRecord :
           /\ AllocationAsked(g, k)
           /\ StatusChanged(k, h, "I", "ALLOC_ERR") \/ h = k \/ Started(f, k, h)
    BY <1>2 DEF AskedFor
  <2>2. k.told = g.told
    BY <2>1 DEF AllocationAsked
  <2>3. Tells(k, h)
    BY <2>1, StartedTells, SameTells DEF StatusChanged, SameUsers
  <2> QED
    BY <1>1, <2>2, <2>3
<1>3. CASE Queued(g, h)
  BY <1>3, SameTells DEF Queued, QueuedSet, SameUsers
<1>4. CASE Resumed(f, g, h)
  <2>1. PICK k \in FlowRecord : QueuedSet(g, k, FALSE) /\ (h = k \/ Started(f, k, h))
    BY <1>4 DEF Resumed
  <2>2. k.told = g.told
    BY <2>1 DEF QueuedSet, SameUsers
  <2>3. Tells(k, h)
    BY <2>1, StartedTells, SameTells
  <2> QED
    BY <1>1, <2>2, <2>3
<1>5. ASSUME NEW to, Announced(g, h, to) PROVE Tells(g, h)
  BY <1>5, SameTells DEF Announced, CreateSent, SameUsers
<1>6. ASSUME NEW e \in Ends, NEW key \in KeySet, Declined(g, h, e), nm1'[e][key] = "refused"
      PROVE  Tells(g, h)
  <2>1. RefusedAt(e)'
    BY <1>6 DEF RefusedAt
  <2> QED
    BY <1>6, <2>1 DEF Declined, Tells, Ends
<1>7. CASE HeldForwarded(g, h)
  BY <1>7, SameTells DEF HeldForwarded, Forwarded, SameUsers
<1>8. ASSUME NEW to \in Ends, ReachedRelay(g, h, to) PROVE Tells(g, h)
  BY <1>8, SameTells DEF ReachedRelay, CreateRelayed, SameUsers
<1>9. ASSUME NEW e \in Ends, CreateReceived(f, g, h, e) PROVE Tells(g, h)
  <2>1. PICK k \in FlowRecord :
           /\ Took(g, k, e, "M_CREATE")
           /\ h = k \/ (g.status[e] = "NONE" /\ (e = "R" => AnsweredTo(f, k, h)))
    BY <1>9 DEF CreateReceived
  <2>2. k.told = g.told
    BY <2>1, TookTells
  <2>3. h # k => AnsweredTo(f, k, h)
    <3>1. Holds(g.chan[e], "M_CREATE") /\ g.chan[e] # <<>>
      BY <2>1, TookEffect DEF Message, Took
    <3> QED
      BY <2>1, <3>1 DEF Promise, Agree, AsksFirst, Asked, Ends
  <2>4. CASE AcceptedSending(k, h) \/ AcceptedHolding(k, h)
    <3>1. /\ h.status["R"] = "TRANSFER" /\ h.told["I"] = k.told["I"]
          /\ h.told["R"] = k.told["R"] \cup {"positive"}
      BY <2>4, SMTT(30) DEF AcceptedSending, AcceptedHolding, FlowRecord, Ends
    <3>2. Tells(k, h)
      BY <3>1 DEF Tells, Ends, Opened
    <3> QED
      BY <1>1, <2>2, <3>2
  <2>5. CASE RefusedByUser(k, h) \/ Ignored(k, h) \/ h = k
    BY <1>1, <2>2, <2>5, SameTells DEF RefusedByUser, Ignored, SameUsers
  <2> QED
    BY <2>3, <2>4, <2>5 DEF AnsweredTo
<1>10. CASE OpeningReceived(g, h)
  <2>1. PICK k \in FlowRecord : Took(g, k, "I", "M_CREATE_R+") /\ Opens(k, h)
    BY <1>10 DEF OpeningReceived
  <2>2. k.told = g.told
    BY <2>1, TookTells
  <2>3. /\ h.status["I"] = "TRANSFER" /\ h.told["R"] = k.told["R"]
        /\ h.told["I"] = k.told["I"] \cup {"positive"}
    BY <2>1 DEF Opens, FlowRecord, Ends
  <2>4. Tells(k, h)
    BY <2>3 DEF Tells, Ends, Opened
  <2> QED
    BY <1>1, <2>2, <2>4
<1>11. ASSUME NEW e \in Ends, RefusalReceived(g, h, e) PROVE Tells(g, h)
  <2>1. PICK k \in FlowRecord :
           /\ Took(g, k, e, "M_CREATE_R-")
           /\ IF e = "I" THEN Retried(k, h) \/ GivenUp(k, h) ELSE h = k
    BY <1>11 DEF RefusalReceived
  <2>2. k.told = g.told
    BY <2>1, TookTells
  <2>3. Tells(k, h)
    BY <2>1, GivenUpTells, SameTells DEF Retried, SameUsers
  <2> QED
    BY <1>1, <2>2, <2>3
<1>12. ASSUME NEW e \in Ends, DeleteReceived(g, h, e) PROVE Tells(g, h)
  BY <1>12, TookTells, SameTells DEF DeleteReceived, Released
<1>13. ASSUME NEW e \in Ends, DeleteRReceived(g, h, e) PROVE Tells(g, h)
  BY <1>13, TookTells, SameTells DEF DeleteRReceived, ReleaseAnswered
<1>14. ASSUME NEW e \in Ends, Lost(g, h, e) PROVE Tells(g, h)
  BY <1>14, SameTells DEF Lost, MessageTaken, SameUsers
<1>15. ASSUME NEW e \in Ends, CloseAsked(g, h, e) PROVE Tells(g, h)
  BY <1>15, SameTells DEF CloseAsked, DeallocationAsked, SameUsers
<1> QED
  BY <1>2, <1>3, <1>4, <1>5, <1>6, <1>7, <1>8, <1>9, <1>10, <1>11, <1>12, <1>13, <1>14, <1>15
     DEF Served

\* The responder is asked for the first time only over an (N-1)-flow of the initiator.
LEMMA SameAsked ==
    ASSUME NEW g \in FlowRecord, NEW h \in FlowRecord,
           h.status["R"] = g.status["R"], h.hop = g.hop, h.relay = g.relay,
           h.chan["R"] = g.chan["R"], Asked(h)
    PROVE  Asked(g)
BY DEF Asked, RelayedTo

LEMMA StartedAsked ==
    ASSUME NEW f, NEW g \in FlowRecord, NEW h \in FlowRecord, Started(f, g, h), Asked(h)
    PROVE  Asked(g) \/ Established("I", f)
<1>1. h.status["R"] = g.status["R"]
  BY DEF Started, GivenUp, RequestHandled, FlowRecord, Ends
<1> QED
  BY <1>1, SameAsked DEF Started, SameTransit

LEMMA TookAsked ==
    ASSUME NEW g \in FlowRecord, NEW k \in FlowRecord, NEW e \in Ends, NEW msg \in Message,
           Took(g, k, e, msg), Asked(k)
    PROVE  Asked(g)
<1>1. \A m \in Message : Holds(k.chan["R"], m) => Holds(g.chan["R"], m)
  <2>1. OneMore(g.chan, k.chan, e, msg)
    BY TookEffect
  <2>2. e = "R" => \A m \in Message : Holds(k.chan[e], m) => Holds(g.chan[e], m)
    BY TookEffect
  <2> QED
    BY <2>1, <2>2 DEF OneMore, Ends
<1>2. k.status = g.status /\ k.hop = g.hop /\ k.relay = g.relay
  BY DEF Took, MessageTaken
<1> QED
  BY <1>1, <1>2 DEF Asked, RelayedTo, Message

LEMMA ServedAsked ==
    ASSUME NEW f \in Flows, NEW g \in FlowRecord, NEW h \in FlowRecord,
           Served(f, g, h), Promise(f, g), Asked(h)
    PROVE  Asked(g) \/ Established("I", f) \/ Reachable'
<1>2. CASE AskedFor(f, g, h)
  <2>1. PICK k \in FlowRecord :
           /\ AllocationAsked(g, k)
           /\ StatusChanged(k, h, "I", "ALLOC_ERR") \/ h = k \/ Started(f, k, h)
    BY <1>2 DEF AskedFor
  <2>2. Asked(k) => Asked(g)
    <3>1. k.status["R"] = g.status["R"]
      BY <2>1 DEF AllocationAsked, FlowRecord, Ends
    <3> QED
      BY <2>1, <3>1, SameAsked DEF AllocationAsked, SameTransit
  <2>3. StatusChanged(k, h, "I", "ALLOC_ERR") => Asked(k)
    <3> SUFFICES ASSUME StatusChanged(k, h, "I", "ALLOC_ERR") PROVE Asked(k)
      OBVIOUS
    <3>1. h.status["R"] = k.status["R"]
      BY DEF StatusChanged, FlowRecord, Ends
    <3> QED
      BY <3>1, SameAsked DEF StatusChanged, SameTransit
  <2> QED
    BY <2>1, <2>2, <2>3, StartedAsked
<1>3. CASE Queued(g, h)
  BY <1>3, SameAsked DEF Queued, QueuedSet, SameTransit
<1>4. CASE Resumed(f, g, h)
  <2>1. PICK k \in FlowRecord : QueuedSet(g, k, FALSE) /\ (h = k \/ Started(f, k, h))
    BY <1>4 DEF Resumed
  <2>2. Asked(k) => Asked(g)
    BY <2>1, SameAsked DEF QueuedSet, SameTransit
  <2> QED
    BY <2>1, <2>2, StartedAsked
<1>5. ASSUME NEW e \in Ends, NEW key \in KeySet,
             Announced(g, h, Peer(e)), nm1'[e][key] = "established"
      PROVE  Asked(g) \/ Reachable'
  <2>1. CASE e = "I"
    BY <1>5, <2>1 DEF Reachable
  <2>2. CASE e = "R"
    <3>1. g.status["R"] # "NONE"
      BY <1>5, <2>2 DEF Announced, Peer
    <3> QED
      BY <3>1 DEF Asked
  <2> QED
    BY <2>1, <2>2 DEF Ends
<1>6. ASSUME NEW e \in Ends, Declined(g, h, e) PROVE Asked(g)
  BY <1>6, SameAsked DEF Declined, SameTransit
<1>7. CASE HeldForwarded(g, h)
  <2>1. PICK n \in Nat : Forwarded(g, h, "R", n) /\ (n # 0 => RelayedTo(g, "R"))
    BY <1>7 DEF HeldForwarded
  <2>2. CASE n # 0
    BY <2>1, <2>2 DEF Asked
  <2>3. CASE n = 0
    <3>1. g.chan \in [Ends -> Seq(Message)] /\ "R" \in Ends
      BY DEF FlowRecord, Ends
    <3>2. h.chan = g.chan
      BY <2>1, <2>3, <3>1, OneMoreRequested, SMTT(30) DEF Forwarded
    <3>3. RelayedTo(h, "R") => RelayedTo(g, "R")
      BY <2>1 DEF Forwarded, RelayedTo
    <3> QED
      BY <2>1, <3>2, <3>3 DEF Forwarded, Asked
  <2> QED
    BY <2>2, <2>3
<1>8. ASSUME NEW to \in Ends, ReachedRelay(g, h, to) PROVE Asked(g)
  <2>1. CASE to = "R"
    BY <1>8, <2>1 DEF ReachedRelay, Asked, RelayedTo
  <2>2. CASE to = "I"
    BY <1>8, <2>2 DEF ReachedRelay, Promise, Agree, AsksFirst, RelayedTo, Asked
  <2> QED
    BY <2>1, <2>2 DEF Ends
<1>9. ASSUME NEW e \in Ends, CreateReceived(f, g, h, e) PROVE Asked(g)
  <2>1. PICK k \in FlowRecord :
           Took(g, k, e, "M_CREATE") /\ (h = k \/ g.status[e] = "NONE")
    BY <1>9 DEF CreateReceived
  <2>2. Holds(g.chan[e], "M_CREATE") /\ g.chan[e] # <<>>
    BY <2>1, TookEffect DEF Message, Took
  <2>3. CASE e = "R"
    BY <2>2, <2>3 DEF Asked
  <2>4. CASE e = "I"
    BY <2>2, <2>4 DEF Promise, Agree, AsksFirst, Asked
  <2> QED
    BY <2>3, <2>4 DEF Ends
<1>10. ASSUME g.chan["I"] # <<>> PROVE Asked(g)
  BY <1>10 DEF Promise, Agree, AsksFirst, Asked
<1>11. CASE OpeningReceived(g, h)
  BY <1>10, <1>11 DEF OpeningReceived, Took
<1>12. ASSUME NEW e \in Ends, RefusalReceived(g, h, e) PROVE Asked(g)
  <2>1. CASE e = "I"
    BY <1>10, <1>12, <2>1 DEF RefusalReceived, Took
  <2>2. CASE e # "I"
    BY <1>12, <2>2, TookAsked DEF RefusalReceived, Message
  <2> QED
    BY <2>1, <2>2
<1>13. ASSUME g.status["R"] # "NONE" PROVE Asked(g)
  BY <1>13 DEF Asked
<1>14. ASSUME g.status["I"] \in Opened PROVE Asked(g)
  BY <1>13, <1>14 DEF Promise, Agree, AnsweredOnce, Opened
<1>15. ASSUME NEW e \in Ends, DeleteReceived(g, h, e) PROVE Asked(g)
  <2>1. PICK k \in FlowRecord :
           /\ Took(g, k, e, "M_DELETE")
           /\ g.status[e] # "TRANSFER" => h = k
    BY <1>15 DEF DeleteReceived
  <2>2. CASE g.status[e] = "TRANSFER"
    BY <1>13, <1>14, <2>2 DEF Opened, Ends
  <2>3. CASE h = k
    BY <2>1, <2>3, TookAsked DEF Message
  <2> QED
    BY <2>1, <2>2, <2>3
<1>16. ASSUME NEW e \in Ends, DeleteRReceived(g, h, e) PROVE Asked(g)
  <2>1. PICK k \in FlowRecord :
           /\ Took(g, k, e, "M_DELETE_R")
           /\ g.status[e] # "DEALLOC_PEND" => h = k
    BY <1>16 DEF DeleteRReceived
  <2>2. CASE g.status[e] = "DEALLOC_PEND"
    BY <1>13, <1>14, <2>2 DEF Opened, Ends
  <2>3. CASE h = k
    BY <2>1, <2>3, TookAsked DEF Message
  <2> QED
    BY <2>1, <2>2, <2>3
<1>17. ASSUME NEW e \in Ends, Lost(g, h, e) PROVE Asked(g)
  <2>1. /\ g.chan \in [Ends -> Seq(Message)] /\ g.chan[e] # <<>>
        /\ h.chan = [g.chan EXCEPT ![e] = Tail(g.chan[e])]
        /\ h.status = g.status /\ h.hop = g.hop /\ h.relay = g.relay
    BY <1>17 DEF Lost, MessageTaken, FlowRecord
  <2>2. OneMore(g.chan, h.chan, "I", "M_DELETE")
    BY <2>1, OneMoreShortened
  <2>3. Holds(h.chan["R"], "M_CREATE") => Holds(g.chan["R"], "M_CREATE")
    BY <2>2 DEF OneMore, Ends, Message
  <2> QED
    BY <2>1, <2>3 DEF Asked, RelayedTo
<1>18. ASSUME NEW e \in Ends, CloseAsked(g, h, e) PROVE Asked(g)
  <2>1. g.status[e] \in Opened
    BY <1>18 DEF CloseAsked, Promise, Agree, ClosedOnce
  <2> QED
    BY <1>13, <1>14, <2>1 DEF Opened, Ends
<1> QED
  BY <1>2, <1>3, <1>4, <1>5, <1>6, <1>7, <1>8, <1>9, <1>11, <1>12, <1>15, <1>16, <1>17, <1>18
     DEF Served

\* An end that is open stays so until it is closed, and one that was refused stays refused.
LEMMA MovedOn ==
    ASSUME NEW g \in FlowRecord, NEW h \in FlowRecord, Moved(g, h)
    PROVE  /\ \A e \in Ends : g.status[e] \in Opened => h.status[e] \in Opened
           /\ g.status["I"] = "ALLOC_NEGA" => h.status["I"] = "ALLOC_NEGA"
<1>1. CASE h.status = g.status
  BY <1>1
<1>2. CASE h.status # g.status
  <2>1. PICK e \in Ends, status \in Status :
           h.status = [g.status EXCEPT ![e] = status] /\ MayMove(g, e, status)
    BY <1>2 DEF Moved
  <2>2. \A end \in Ends : h.status[end] = IF end = e THEN status ELSE g.status[end]
    BY <2>1 DEF FlowRecord
  <2>3. g.status[e] \in Opened => status \in Opened
    BY <2>1 DEF MayMove, Opened
  <2>4. g.status[e] = "ALLOC_NEGA" => e = "R" /\ FALSE
    BY <2>1 DEF MayMove
  <2> QED
    BY <2>2, <2>3, <2>4 DEF Ends
<1> QED
  BY <1>1, <1>2

ToldInv ==
    /\ \A key \in KeySet : nm1["R"][key] = "established"
    /\ \A f \in Flows : Told(fl[f])

LEMMA InitTold ==
    ASSUME Init, ResponderReachable PROVE ToldInv
<1>1. \A e \in Ends : NewFlow.told[e] = {} /\ NewFlow.status[e] = "NONE"
  BY NewFlowFields
<1>2. ~Asked(NewFlow)
  <2>1. NewFlow.chan["R"] = <<>> /\ NewFlow.hop["R"] = 0 /\ NewFlow.relay = <<>>
    BY NewFlowFields DEF Ends
  <2> QED
    BY <1>1, <2>1 DEF Asked, RelayedTo, Holds, Ends
<1>3. Told(NewFlow)
  BY <1>1, <1>2 DEF Told, Ends
<1> QED
  BY <1>3 DEF Init, ToldInv, ResponderReachable, Nodes, Ends

LEMMA StepTells ==
    ASSUME TypeOK, TypeOK', Agreement, ToldInv, Steps,
           FlowAllocationAssumption, ClosedAtMostOnce
    PROVE  ToldInv'
<1>1. Nm1Kept /\ FlowsServed
  BY DEF Steps
<1>2. \A key \in KeySet : nm1'["R"][key] = "established"
  BY <1>1 DEF ToldInv, Nm1Kept, Nodes, Ends
<1>3. /\ \A e \in Ends : RefusedAt(e) => RefusedAt(e)'
      /\ Reachable => Reachable'
  BY <1>1 DEF Nm1Kept, RefusedAt, Reachable, Nodes, Ends
<1>4. ASSUME NEW f \in Flows PROVE Told(fl[f])'
  <2> DEFINE g == fl[f]
             h == fl'[f]
  <2>1. g \in FlowRecord /\ h \in FlowRecord /\ Promise(f, g) /\ Told(g)
    BY DEF TypeOK, Agreement, ToldInv
  <2>2. Moved(g, h) /\ (h = g \/ Served(f, g, h))
    BY <1>1, StepAgrees DEF FlowsServed
  <2> HIDE DEF g, h
  <2>3. Tells(g, h)
    BY <2>1, <2>2, ServedTells, SameTells
  <2>4. Asked(h) => Reachable'
    <3>1. Established("I", f) => Reachable
      BY KeyTyped DEF Established, Reachable
    <3> QED
      BY <1>3, <2>1, <2>2, <3>1, ServedAsked DEF Told
  <2>5. /\ \A e \in Ends : g.status[e] \in Opened => h.status[e] \in Opened
        /\ g.status["I"] = "ALLOC_NEGA" => h.status["I"] = "ALLOC_NEGA"
    BY <2>1, <2>2, MovedOn
  <2>6. \A e \in Ends : "positive" \in h.told[e] => h.status[e] \in Opened
    BY <2>1, <2>3, <2>5 DEF Told, Tells
  <2>7. "negative" \in h.told["I"] => h.status["I"] = "ALLOC_NEGA" \/ RefusedAt("I")'
    BY <1>3, <2>1, <2>3, <2>5 DEF Told, Tells, Ends
  <2>8. "negative" \in h.told["R"] => RefusedAt("R")'
    BY <1>3, <2>1, <2>3 DEF Told, Tells, Ends
  <2> QED
    BY <2>4, <2>6, <2>7, <2>8 DEF Told, h
<1> QED
  BY <1>2, <1>4 DEF ToldInv

LEMMA ToldOnce ==
    ASSUME TypeOK, FlowAllocationAssumption, Agreement, ToldInv
    PROVE  OneAnswer
<1> SUFFICES ASSUME NEW f \in Flows, NEW e \in Ends, fl[f].told[e] = {"positive", "negative"}
             PROVE  \E key \in KeySet \ {KeyOf(f)} : nm1[e][key] \in {"established", "refused"}
  BY DEF OneAnswer
<1>1. Told(fl[f]) /\ Promise(f, fl[f])
  BY DEF ToldInv, Agreement
<1>2. "positive" \in fl[f].told[e] /\ "negative" \in fl[f].told[e]
  OBVIOUS
<1>3. fl[f].status[e] \in Opened
  BY <1>1, <1>2 DEF Told
<1>4. CASE e = "R"
  <2>1. RefusedAt("R")
    BY <1>1, <1>2, <1>4 DEF Told
  <2> QED
    BY <2>1 DEF RefusedAt, ToldInv
<1>5. CASE e = "I"
  <2>1. fl[f].status["I"] # "ALLOC_NEGA"
    BY <1>3, <1>5 DEF Opened
  <2>2. PICK refused \in KeySet : nm1["I"][refused] = "refused"
    BY <1>1, <1>2, <1>5, <2>1 DEF Told, RefusedAt
  <2>3. fl[f].status["R"] # "NONE"
    BY <1>1, <1>3, <1>5 DEF Promise, Agree, AnsweredOnce, Opened
  <2>4. PICK key \in KeySet : nm1["I"][key] = "established"
    BY <1>1, <2>3 DEF Told, Asked, Reachable
  <2>5. key # refused
    BY <2>2, <2>4
  <2> QED
    BY <1>5, <2>2, <2>4, <2>5
<1> QED
  BY <1>4, <1>5 DEF Ends

\* When the responder has its (N-1)-flows from the start and a flow is closed at most once,
\* a user hears both that it has the flow and that it has not only because of an (N-1)-flow
\* that its own flow does not use: for any number of flows, neighbors and QoS classes.
THEOREM AnsweredWithOneVoice ==
    ASSUME ClosedAtMostOnce, ResponderReachable
    PROVE  Spec => []OneAnswer
<1>1. Init => ToldInv
  BY InitTold
<1>2. TypeOK /\ TypeOK' /\ Agreement /\ Steps => Agreement'
  BY StepAgrees, FlowAllocationAssumption
<1>3. TypeOK /\ TypeOK' /\ Agreement /\ ToldInv /\ Steps => ToldInv'
  BY StepTells, FlowAllocationAssumption
<1>4. TypeOK /\ [Next]_vars => Steps
  BY StepServes, FlowAllocationAssumption
<1>5. Init => Agreement
  BY InitAgrees
<1>6. TypeOK /\ Agreement /\ ToldInv => OneAnswer
  BY ToldOnce, FlowAllocationAssumption
<1> QED
  BY <1>1, <1>2, <1>3, <1>4, <1>5, <1>6, TypeCorrect, PTL DEF Spec

-----------------------------------------------------------------------------
(* When nothing is under way, the ends agree.                                *)

Awaited == {"M_CREATE_R+", "M_DELETE", "M_DELETE_R"}

\* An end that does not know of the other's last move has a message about it on the way.
Settled(g) ==
    /\ g.status["I"] = "ALLOC_PEND" /\ g.status["R"] \in Opened => Holds(g.chan["I"], "M_CREATE_R+")
    /\ \A e \in Ends :
          /\ g.status[e] = "DEALLOC_PEND" /\ g.status[Peer(e)] \in {"ALLOC_PEND", "TRANSFER"} =>
                Holds(g.chan[Peer(e)], "M_DELETE")
          /\ g.status[e] = "DEALLOC_PEND" /\ g.status[Peer(e)] = "DEALLOCATED" =>
                Holds(g.chan[e], "M_DELETE_R")
    /\ Before(g.chan["I"], "M_CREATE_R+", "M_DELETE")

\* Nothing that is awaited has been taken, and the order has stayed.
Later(c, d) ==
    /\ \A e \in Ends, m \in Awaited : Holds(c[e], m) => Holds(d[e], m)
    /\ Before(c["I"], "M_CREATE_R+", "M_DELETE") => Before(d["I"], "M_CREATE_R+", "M_DELETE")

LEMMA LaterSame ==
    ASSUME NEW c PROVE Later(c, c)
BY DEF Later

LEMMA LaterAppended ==
    ASSUME NEW c \in [Ends -> Seq(Message)], NEW to \in Ends, NEW msg \in Message,
           msg \notin {"M_CREATE_R+", "M_DELETE"},
           NEW d, d = [c EXCEPT ![to] = Append(c[to], msg)]
    PROVE  Later(c, d)
<1>1. c[to] \in Seq(Message) /\ d[to] = Append(c[to], msg) /\ \A e \in Ends \ {to} : d[e] = c[e]
  OBVIOUS
<1>2. /\ \A m \in Message : Holds(c[to], m) => Holds(d[to], m)
      /\ Before(c[to], "M_CREATE_R+", "M_DELETE") => Before(d[to], "M_CREATE_R+", "M_DELETE")
  <2>1. "M_CREATE_R+" \in Message /\ "M_DELETE" \in Message \ {msg}
    BY DEF Message
  <2> QED
    BY <1>1, <2>1, Appended
<1> QED
  BY <1>1, <1>2 DEF Later, Awaited, Message, Ends

LEMMA LaterRequested ==
    ASSUME NEW c \in [Ends -> Seq(Message)], NEW to \in Ends, NEW n \in Nat,
           NEW d, d = [c EXCEPT ![to] = c[to] \o [i \in 1..n |-> "M_CREATE"]]
    PROVE  Later(c, d)
<1> DEFINE t == c[to] \o [i \in 1..n |-> "M_CREATE"]
<1>1. c[to] \in Seq(Message) /\ d[to] = t /\ \A e \in Ends \ {to} : d[e] = c[e]
  OBVIOUS
<1>2. /\ \A m \in Message \ {"M_CREATE"} : Holds(t, m) <=> Holds(c[to], m)
      /\ \A m, next \in Message \ {"M_CREATE"} : Before(c[to], m, next) => Before(t, m, next)
  BY <1>1, Requested
<1> HIDE DEF t
<1> QED
  BY <1>1, <1>2 DEF Later, Awaited, Message, Ends

LEMMA TookLater ==
    ASSUME NEW g \in FlowRecord, NEW k \in FlowRecord, NEW e \in Ends, NEW msg \in Message,
           Took(g, k, e, msg)
    PROVE  /\ \A end \in Ends, m \in Awaited :
                 (end # e \/ m # msg) /\ Holds(g.chan[end], m) => Holds(k.chan[end], m)
           /\ Before(g.chan["I"], "M_CREATE_R+", "M_DELETE") =>
                 Before(k.chan["I"], "M_CREATE_R+", "M_DELETE")
           /\ msg \notin Awaited => Later(g.chan, k.chan)
<1>1. /\ g.chan \in [Ends -> Seq(Message)] /\ g.chan[e] # <<>> /\ Head(g.chan[e]) = msg
      /\ k.chan = [g.chan EXCEPT ![e] = Tail(g.chan[e])]
  BY DEF Took, MessageTaken, FlowRecord
<1>2. /\ g.chan[e] \in Seq(Message) /\ k.chan[e] = Tail(g.chan[e])
      /\ \A end \in Ends \ {e} : k.chan[end] = g.chan[end]
  BY <1>1
<1>3. /\ \A m \in Message \ {msg} : Holds(g.chan[e], m) => Holds(k.chan[e], m)
      /\ \A m, n \in Message : Before(g.chan[e], m, n) => Before(k.chan[e], m, n)
  BY <1>1, <1>2, Shortened
<1>4. \A end \in Ends, m \in Awaited :
         (end # e \/ m # msg) /\ Holds(g.chan[end], m) => Holds(k.chan[end], m)
  BY <1>2, <1>3 DEF Awaited, Message
<1>5. Before(g.chan["I"], "M_CREATE_R+", "M_DELETE") =>
         Before(k.chan["I"], "M_CREATE_R+", "M_DELETE")
  BY <1>2, <1>3 DEF Message, Ends
<1> QED
  BY <1>4, <1>5 DEF Later

LEMMA LaterSettled ==
    ASSUME NEW g \in FlowRecord, NEW h \in FlowRecord, h.status = g.status,
           Later(g.chan, h.chan), Settled(g)
    PROVE  Settled(h)
BY DEF Settled, Later, Awaited, Ends, Peer

\* A flow that the responder knows nothing of is settled.
LEMMA UnknownSettled ==
    ASSUME NEW h \in FlowRecord, h.status["R"] \notin Opened, h.status["I"] # "DEALLOC_PEND",
           Before(h.chan["I"], "M_CREATE_R+", "M_DELETE")
    PROVE  Settled(h)
BY DEF Settled, Opened, Ends

LEMMA RequestSettled ==
    ASSUME NEW g \in FlowRecord, NEW h \in FlowRecord, RequestHandled(g, h)
    PROVE  h.status = g.status /\ Later(g.chan, h.chan)
<1>1. g.chan \in [Ends -> Seq(Message)] /\ "R" \in Ends /\ "M_CREATE" \in Message
  BY DEF FlowRecord, Ends, Message
<1>2. CASE h.chan = g.chan
  BY <1>2, LaterSame DEF RequestHandled
<1>3. CASE h.chan = [g.chan EXCEPT !["R"] = Append(g.chan["R"], "M_CREATE")]
  <2>1. Later(g.chan, h.chan)
    BY <1>1, <1>3, LaterAppended
  <2> QED
    BY <2>1 DEF RequestHandled
<1> QED
  BY <1>2, <1>3 DEF RequestHandled

LEMMA StartedSettled ==
    ASSUME NEW f, NEW g \in FlowRecord, NEW h \in FlowRecord, Started(f, g, h),
           Promise(f, g), Settled(g)
    PROVE  Settled(h)
<1>1. CASE f \in Unfit["I"]
  <2>1. GivenUp(g, h) /\ g.status["I"] = "ALLOC_PEND" /\ g.efcpi["I"] = "none"
    BY <1>1 DEF Started, Promise
  <2>2. g.status["R"] = "NONE"
    BY <2>1 DEF Promise, Agree, AsksFirst, Asked
  <2>3. /\ h.status["I"] = "ALLOC_NEGA" /\ h.status["R"] = "NONE" /\ h.chan = g.chan
    BY <2>1, <2>2 DEF GivenUp, SameTransit, FlowRecord, Ends
  <2> QED
    BY <2>3, UnknownSettled DEF Opened, Settled
<1>2. CASE f \notin Unfit["I"]
  BY <1>2, RequestSettled, LaterSettled DEF Started
<1> QED
  BY <1>1, <1>2

LEMMA AskedForSettled ==
    ASSUME NEW f, NEW g \in FlowRecord, NEW h \in FlowRecord, AskedFor(f, g, h),
           Promise(f, g), Settled(g)
    PROVE  Settled(h)
<1>1. PICK k \in FlowRecord :
         /\ g.status["I"] = "NONE"
         /\ AllocationAsked(g, k)
         /\ StatusChanged(k, h, "I", "ALLOC_ERR") \/ h = k \/ Started(f, k, h)
  BY DEF AskedFor
<1>2. g.status["R"] = "NONE" /\ g.efcpi["I"] = "none"
  BY <1>1 DEF Promise, Agree, AsksFirst, Asked
<1>3. /\ k.status["R"] = "NONE" /\ k.status["I"] = "ALLOC_PEND"
      /\ k.chan = g.chan /\ k.efcpi = g.efcpi
  BY <1>1, <1>2 DEF AllocationAsked, SameTransit, FlowRecord, Ends
<1>4. Settled(k)
  BY <1>3, UnknownSettled DEF Settled, Opened
<1>5. CASE StatusChanged(k, h, "I", "ALLOC_ERR")
  <2>1. h.status["R"] = "NONE" /\ h.status["I"] = "ALLOC_ERR" /\ h.chan = g.chan
    BY <1>3, <1>5 DEF StatusChanged, SameTransit, FlowRecord, Ends
  <2> QED
    BY <2>1, UnknownSettled DEF Settled, Opened
<1>6. CASE Started(f, k, h)
  <2>1. Promise(f, k)
    BY <1>1, <1>2, <1>3, AllocationAskedAgrees DEF Promise
  <2> QED
    BY <1>4, <1>6, <2>1, StartedSettled
<1> QED
  BY <1>1, <1>4, <1>5, <1>6

LEMMA ResumedSettled ==
    ASSUME NEW f, NEW g \in FlowRecord, NEW h \in FlowRecord, Resumed(f, g, h),
           Promise(f, g), Settled(g)
    PROVE  Settled(h)
<1>1. PICK k \in FlowRecord : QueuedSet(g, k, FALSE) /\ (h = k \/ Started(f, k, h))
  BY DEF Resumed
<1>2. k.status = g.status /\ k.chan = g.chan /\ k.efcpi = g.efcpi
  BY <1>1 DEF QueuedSet, SameTransit
<1>3. Settled(k)
  BY <1>2, LaterSame, LaterSettled
<1>4. Promise(f, k)
  BY <1>1, <1>2, QueuedStays, StaysPromised
<1> QED
  BY <1>1, <1>3, <1>4, StartedSettled

LEMMA CreateReceivedSettled ==
    ASSUME NEW f, NEW g \in FlowRecord, NEW h \in FlowRecord, NEW e \in Ends,
           CreateReceived(f, g, h, e), Promise(f, g), Settled(g), Established("R", f)
    PROVE  Settled(h)
<1>1. PICK k \in FlowRecord :
         /\ Took(g, k, e, "M_CREATE")
         /\ h = k \/ (g.status[e] = "NONE" /\ (e = "R" => AnsweredTo(f, k, h)))
  BY DEF CreateReceived
<1>2. /\ Later(g.chan, k.chan) /\ k.status = g.status
      /\ Holds(g.chan[e], "M_CREATE") /\ g.chan[e] # <<>>
  BY <1>1, TookLater, TookEffect DEF Message, Awaited, Took
<1>3. Settled(k)
  BY <1>2, LaterSettled
<1>4. CASE h # k
  <2>1. e = "R" /\ g.status["R"] = "NONE"
    BY <1>1, <1>2, <1>4 DEF Promise, Agree, AsksFirst, Asked, Ends
  <2>2. AnsweredTo(f, k, h)
    BY <1>1, <1>4, <2>1
  <2>3. g.efcpi["I"] # "none" /\ g.chan["I"] = <<>>
    BY <1>2, <2>1 DEF Promise, Agree, AsksFirst, Asked
  <2>4. g.status["I"] = "ALLOC_PEND"
    BY <2>1, <2>3 DEF Promise, Agree, AsksFirst
  <2>5. k.chan["I"] = <<>> /\ k.chan \in [Ends -> Seq(Message)]
    BY <1>1, <2>1, <2>3 DEF Took, MessageTaken, FlowRecord, Ends
  <2>6. CASE AcceptedSending(k, h)
    <3>1. /\ h.chan["I"] = Append(k.chan["I"], "M_CREATE_R+")
          /\ h.status["R"] = "TRANSFER" /\ h.status["I"] = "ALLOC_PEND"
      <4>1. /\ h.chan = [k.chan EXCEPT !["I"] = Append(k.chan["I"], "M_CREATE_R+")]
            /\ h.status = [k.status EXCEPT !["R"] = "TRANSFER"]
        BY <2>6 DEF AcceptedSending
      <4>2. k.status \in [Ends -> Status] /\ k.status["I"] = "ALLOC_PEND"
        BY <1>2, <2>4 DEF FlowRecord
      <4> QED
        BY <2>5, <4>1, <4>2 DEF Ends
    <3>2. ~Holds(k.chan["I"], "M_DELETE") /\ Before(k.chan["I"], "M_CREATE_R+", "M_DELETE")
      BY <2>5 DEF Holds, Before
    <3>3. Before(h.chan["I"], "M_CREATE_R+", "M_DELETE") /\ Holds(h.chan["I"], "M_CREATE_R+")
      <4>1. /\ k.chan["I"] \in Seq(Message) /\ "M_CREATE_R+" \in Message
            /\ "M_DELETE" \in Message \ {"M_CREATE_R+"}
        BY <2>5 DEF Message, Ends
      <4> QED
        BY <3>1, <3>2, <4>1, Appended
    <3> QED
      BY <3>1, <3>3 DEF Settled, Ends
  <2>7. CASE RefusedByUser(k, h)
    <3>1. h.status["R"] = "ALLOC_NEGA" /\ h.status["I"] = "ALLOC_PEND"
      BY <1>2, <2>4, <2>7 DEF RefusedByUser, FlowRecord, Ends
    <3>2. Later(k.chan, h.chan)
      BY <2>5, <2>7, LaterAppended DEF RefusedByUser, Message, Ends
    <3>3. Before(h.chan["I"], "M_CREATE_R+", "M_DELETE")
      BY <1>3, <3>2 DEF Settled, Later
    <3> QED
      BY <3>1, <3>3, UnknownSettled DEF Opened
  <2>8. CASE Ignored(k, h)
    <3>1. h.status["R"] = "ALLOC_PEND" /\ h.status["I"] = "ALLOC_PEND" /\ h.chan = k.chan
      BY <1>2, <2>4, <2>8 DEF Ignored, SameTransit, FlowRecord, Ends
    <3> QED
      BY <1>3, <3>1, UnknownSettled DEF Settled, Opened
  <2> QED
    BY <2>2, <2>6, <2>7, <2>8 DEF AnsweredTo
<1> QED
  BY <1>3, <1>4

LEMMA OpeningReceivedSettled ==
    ASSUME NEW f, NEW g \in FlowRecord, NEW h \in FlowRecord, OpeningReceived(g, h),
           Promise(f, g), Settled(g)
    PROVE  Settled(h)
<1>1. PICK k \in FlowRecord : Took(g, k, "I", "M_CREATE_R+") /\ Opens(k, h)
  BY DEF OpeningReceived
<1>2. "M_CREATE_R+" \in Message /\ "I" \in Ends
  BY DEF Message, Ends
<1>3. /\ Holds(g.chan["I"], "M_CREATE_R+") /\ k.status = g.status
      /\ \A end \in Ends, m \in Awaited :
            (end # "I" \/ m # "M_CREATE_R+") /\ Holds(g.chan[end], m) => Holds(k.chan[end], m)
      /\ Before(k.chan["I"], "M_CREATE_R+", "M_DELETE")
  BY <1>1, <1>2, TookLater, TookEffect DEF Settled
<1>4. g.status["I"] = "ALLOC_PEND"
  BY <1>3 DEF Promise, Agree, AnsweredOnce
<1>5. h.status["I"] = "TRANSFER" /\ h.status["R"] = g.status["R"] /\ h.chan = k.chan
  BY <1>1, <1>3 DEF Opens, SameTransit, FlowRecord, Ends
<1> QED
  BY <1>3, <1>4, <1>5 DEF Settled, Ends, Peer, Awaited

LEMMA RefusalReceivedSettled ==
    ASSUME NEW f, NEW g \in FlowRecord, NEW h \in FlowRecord, NEW e \in Ends,
           RefusalReceived(g, h, e), Promise(f, g), Settled(g)
    PROVE  Settled(h)
<1>1. PICK k \in FlowRecord :
         /\ Took(g, k, e, "M_CREATE_R-")
         /\ IF e = "I" THEN Retried(k, h) \/ GivenUp(k, h) ELSE h = k
  BY DEF RefusalReceived
<1>2. Later(g.chan, k.chan) /\ k.status = g.status /\ Holds(g.chan[e], "M_CREATE_R-")
  BY <1>1, TookLater, TookEffect DEF Message, Awaited
<1>3. Settled(k)
  BY <1>2, LaterSettled
<1>4. CASE Retried(k, h)
  <2>1. k.chan \in [Ends -> Seq(Message)] /\ "R" \in Ends /\ "M_CREATE" \in Message
    BY DEF FlowRecord, Ends, Message
  <2>2. Later(k.chan, h.chan)
    <3>1. CASE h.chan = k.chan
      BY <3>1, LaterSame
    <3>2. CASE h.chan = [k.chan EXCEPT !["R"] = Append(k.chan["R"], "M_CREATE")]
      BY <2>1, <3>2, LaterAppended
    <3> QED
      BY <1>4, <3>1, <3>2 DEF Retried
  <2> QED
    BY <1>3, <1>4, <2>2, LaterSettled DEF Retried
<1>5. CASE e = "I" /\ GivenUp(k, h)
  <2>1. g.status["R"] = "ALLOC_NEGA"
    BY <1>2, <1>5 DEF Promise, Agree, AnsweredOnce
  <2>2. h.status["I"] = "ALLOC_NEGA" /\ h.status["R"] = "ALLOC_NEGA" /\ h.chan = k.chan
    BY <1>2, <1>5, <2>1 DEF GivenUp, SameTransit, FlowRecord, Ends
  <2> QED
    BY <1>3, <2>2, UnknownSettled DEF Settled, Opened
<1> QED
  BY <1>1, <1>3, <1>4, <1>5

LEMMA DeleteReceivedSettled ==
    ASSUME NEW f, NEW g \in FlowRecord, NEW h \in FlowRecord, NEW e \in Ends,
           DeleteReceived(g, h, e), Promise(f, g), Settled(g)
    PROVE  Settled(h)
<1>1. PICK k \in FlowRecord :
         /\ Took(g, k, e, "M_DELETE")
         /\ IF g.status[e] = "TRANSFER" THEN Released(k, h, e) ELSE h = k
  BY DEF DeleteReceived
<1>2. /\ k.status = g.status /\ Holds(g.chan[e], "M_DELETE")
      /\ \A end \in Ends, m \in Awaited :
            (end # e \/ m # "M_DELETE") /\ Holds(g.chan[end], m) => Holds(k.chan[end], m)
      /\ Before(k.chan["I"], "M_CREATE_R+", "M_DELETE")
  BY <1>1, TookLater, TookEffect DEF Settled, Message
<1>3. Peer(e) \in Ends /\ Peer(e) # e /\ Peer(Peer(e)) = e /\ \A end \in Ends : end \in {e, Peer(e)}
  BY DEF Peer, Ends
<1>4. g.status[Peer(e)] \in Closing
  BY <1>2 DEF Promise, Agree, ClosedOnce
<1>5. CASE g.status[e] = "TRANSFER"
  <2>1. Released(k, h, e)
    BY <1>1, <1>5
  <2>2. /\ h.status[e] = "DEALLOCATED" /\ h.status[Peer(e)] = g.status[Peer(e)]
        /\ h.chan = [k.chan EXCEPT ![Peer(e)] = Append(k.chan[Peer(e)], "M_DELETE_R")]
        /\ k.chan \in [Ends -> Seq(Message)]
    BY <1>2, <1>3, <2>1 DEF Released, FlowRecord
  <2>3. Later(k.chan, h.chan)
    BY <1>3, <2>2, LaterAppended DEF Message
  <2>4. Holds(h.chan[Peer(e)], "M_DELETE_R")
    <3>1. k.chan[Peer(e)] \in Seq(Message) /\ "M_DELETE_R" \in Message
      BY <1>3, <2>2 DEF Message
    <3>2. h.chan[Peer(e)] = Append(k.chan[Peer(e)], "M_DELETE_R")
      BY <1>3, <2>2
    <3> QED
      BY <3>1, <3>2, Appended
  <2>5. Before(h.chan["I"], "M_CREATE_R+", "M_DELETE")
    BY <1>2, <2>3 DEF Later
  <2>6. h.status["I"] # "ALLOC_PEND"
    BY <1>4, <2>2 DEF Closing, Ends, Peer
  <2> QED
    BY <1>3, <2>2, <2>4, <2>5, <2>6 DEF Settled
<1>6. CASE g.status[e] # "TRANSFER"
  <2>1. h = k
    BY <1>1, <1>6
  <2>2. g.status[Peer(e)] = "DEALLOC_PEND" => g.status[e] # "ALLOC_PEND"
    <3> SUFFICES ASSUME g.status[Peer(e)] = "DEALLOC_PEND", g.status[e] = "ALLOC_PEND"
                 PROVE  FALSE
      OBVIOUS
    <3>1. CASE e = "R"
      <4>1. g.status["I"] = "DEALLOC_PEND" /\ g.status["R"] = "ALLOC_PEND"
        BY <3>1 DEF Peer
      <4> QED
        BY <4>1 DEF Promise, Agree, AnsweredOnce, Opened
    <3>2. CASE e = "I"
      <4>1. g.status["R"] = "DEALLOC_PEND" /\ g.status["I"] = "ALLOC_PEND"
        BY <3>2 DEF Peer
      <4>2. Holds(g.chan["I"], "M_CREATE_R+") /\ Before(g.chan["I"], "M_CREATE_R+", "M_DELETE")
        BY <4>1 DEF Settled, Opened
      <4>3. g.chan["I"] \in Seq(Message) /\ g.chan["I"] # <<>> /\ Head(g.chan["I"]) = "M_DELETE"
        BY <1>1, <3>2 DEF Took, FlowRecord
      <4>4. "M_CREATE_R+" \in Message \ {"M_DELETE"}
        BY DEF Message
      <4> QED
        BY <4>2, <4>3, <4>4, Shortened
    <3> QED
      BY <3>1, <3>2 DEF Ends
  <2>3. \A end \in Ends :
           g.status[end] = "DEALLOC_PEND" /\ g.status[Peer(end)] \in {"ALLOC_PEND", "TRANSFER"} =>
                Holds(k.chan[Peer(end)], "M_DELETE")
    <3> SUFFICES ASSUME NEW end \in Ends, g.status[end] = "DEALLOC_PEND",
                        g.status[Peer(end)] \in {"ALLOC_PEND", "TRANSFER"}
                 PROVE  Holds(k.chan[Peer(end)], "M_DELETE")
      OBVIOUS
    <3>1. end = e
      BY <1>3, <1>6, <2>2
    <3>2. Holds(g.chan[Peer(e)], "M_DELETE")
      BY <3>1 DEF Settled
    <3> QED
      BY <1>2, <1>3, <3>1, <3>2 DEF Awaited
  <2>4. \A end \in Ends :
           g.status[end] = "DEALLOC_PEND" /\ g.status[Peer(end)] = "DEALLOCATED" =>
                Holds(k.chan[end], "M_DELETE_R")
    BY <1>2 DEF Settled, Awaited
  <2>5. g.status["I"] = "ALLOC_PEND" /\ g.status["R"] \in Opened => Holds(k.chan["I"], "M_CREATE_R+")
    BY <1>2 DEF Settled, Awaited, Ends
  <2> QED
    BY <1>2, <2>1, <2>3, <2>4, <2>5 DEF Settled
<1> QED
  BY <1>5, <1>6

LEMMA DeleteRReceivedSettled ==
    ASSUME NEW f, NEW g \in FlowRecord, NEW h \in FlowRecord, NEW e \in Ends,
           DeleteRReceived(g, h, e), Promise(f, g), Settled(g)
    PROVE  Settled(h)
<1>1. PICK k \in FlowRecord :
         /\ Took(g, k, e, "M_DELETE_R")
         /\ IF g.status[e] = "DEALLOC_PEND" THEN ReleaseAnswered(k, h, e) ELSE h = k
  BY DEF DeleteRReceived
<1>2. /\ k.status = g.status
      /\ \A end \in Ends, m \in Awaited :
            (end # e \/ m # "M_DELETE_R") /\ Holds(g.chan[end], m) => Holds(k.chan[end], m)
      /\ Before(k.chan["I"], "M_CREATE_R+", "M_DELETE")
  BY <1>1, TookLater, TookEffect DEF Settled, Message
<1>3. Peer(e) \in Ends /\ Peer(e) # e /\ Peer(Peer(e)) = e /\ \A end \in Ends : end \in {e, Peer(e)}
  BY DEF Peer, Ends
<1>4. /\ g.status["I"] = "ALLOC_PEND" /\ g.status["R"] \in Opened => Holds(k.chan["I"], "M_CREATE_R+")
      /\ \A end \in Ends :
            g.status[end] = "DEALLOC_PEND" /\ g.status[Peer(end)] \in {"ALLOC_PEND", "TRANSFER"} =>
                Holds(k.chan[Peer(end)], "M_DELETE")
      /\ g.status[Peer(e)] = "DEALLOC_PEND" /\ g.status[e] = "DEALLOCATED" =>
            Holds(k.chan[Peer(e)], "M_DELETE_R")
  BY <1>2, <1>3 DEF Settled, Awaited, Ends
<1>5. CASE g.status[e] = "DEALLOC_PEND"
  <2>1. ReleaseAnswered(k, h, e)
    BY <1>1, <1>5
  <2>2. h.status[e] = "DEALLOCATED" /\ h.status[Peer(e)] = g.status[Peer(e)] /\ h.chan = k.chan
    BY <1>2, <1>3, <2>1 DEF ReleaseAnswered, SameTransit, FlowRecord
  <2>3. g.status[Peer(e)] # "DEALLOC_PEND"
    BY <1>5 DEF Promise, Agree, ClosedOnce
  <2>4. h.status["I"] = "ALLOC_PEND" /\ h.status["R"] \in Opened =>
           g.status["I"] = "ALLOC_PEND" /\ g.status["R"] \in Opened
    BY <1>5, <2>2 DEF Ends, Peer, Opened
  <2> QED
    BY <1>2, <1>3, <1>4, <2>2, <2>3, <2>4 DEF Settled
<1>6. CASE g.status[e] # "DEALLOC_PEND"
  <2>1. h = k
    BY <1>1, <1>6
  <2>2. \A end \in Ends :
           g.status[end] = "DEALLOC_PEND" /\ g.status[Peer(end)] = "DEALLOCATED" =>
                Holds(k.chan[end], "M_DELETE_R")
    BY <1>3, <1>4, <1>6
  <2> QED
    BY <1>2, <1>4, <2>1, <2>2 DEF Settled
<1> QED
  BY <1>5, <1>6

LEMMA CloseAskedSettled ==
    ASSUME NEW f, NEW g \in FlowRecord, NEW h \in FlowRecord, NEW e \in Ends,
           CloseAsked(g, h, e), MaxCloses \in Nat, MaxCloses <= 1, Promise(f, g), Settled(g)
    PROVE  Settled(h)
<1>1. DeallocationAsked(g, h, e) /\ g.con[e] = "connectpending" /\ g.closes = 0
  BY DEF CloseAsked, FlowRecord
<1>2. Peer(e) \in Ends /\ Peer(e) # e /\ Peer(Peer(e)) = e /\ \A end \in Ends : end \in {e, Peer(e)}
  BY DEF Peer, Ends
<1>3. g.status[e] = "TRANSFER" /\ g.status[Peer(e)] \notin Closing
  BY <1>1, <1>2 DEF Promise, Agree, ClosedOnce, Opened, Closing
<1>4. /\ h.status[e] = "DEALLOC_PEND" /\ h.status[Peer(e)] = g.status[Peer(e)]
      /\ h.chan = [g.chan EXCEPT ![Peer(e)] = Append(g.chan[Peer(e)], "M_DELETE")]
      /\ g.chan \in [Ends -> Seq(Message)]
  BY <1>1, <1>2 DEF DeallocationAsked, FlowRecord
<1>5. /\ g.chan[Peer(e)] \in Seq(Message) /\ h.chan[Peer(e)] = Append(g.chan[Peer(e)], "M_DELETE")
      /\ h.chan[e] = g.chan[e] /\ "M_DELETE" \in Message /\ "M_CREATE_R+" \in Message \ {"M_DELETE"}
  BY <1>2, <1>4 DEF Message
<1>6. /\ Holds(h.chan[Peer(e)], "M_DELETE")
      /\ Holds(g.chan[Peer(e)], "M_CREATE_R+") => Holds(h.chan[Peer(e)], "M_CREATE_R+")
      /\ Before(g.chan[Peer(e)], "M_CREATE_R+", "M_DELETE") =>
            Before(h.chan[Peer(e)], "M_CREATE_R+", "M_DELETE")
  BY <1>5, Appended
<1>7. Before(h.chan["I"], "M_CREATE_R+", "M_DELETE")
  BY <1>2, <1>5, <1>6 DEF Settled, Ends
<1>8. h.status["I"] = "ALLOC_PEND" /\ h.status["R"] \in Opened => Holds(h.chan["I"], "M_CREATE_R+")
  <2>1. CASE e = "I"
    BY <1>4, <2>1
  <2>2. CASE e = "R"
    <3>1. Peer(e) = "I" /\ g.status["R"] \in Opened
      BY <1>3, <2>2 DEF Peer, Opened
    <3> QED
      BY <1>4, <1>6, <3>1 DEF Settled
  <2> QED
    BY <2>1, <2>2 DEF Ends
<1> QED
  BY <1>2, <1>3, <1>4, <1>6, <1>7, <1>8 DEF Settled, Closing

LEMMA ServedSettled ==
    ASSUME FlowAllocationAssumption, ClosedAtMostOnce, NEW f \in Flows,
           NEW g \in FlowRecord, NEW h \in FlowRecord, Served(f, g, h),
           Promise(f, g), Settled(g), Established("R", f), lost' = 0
    PROVE  Settled(h)
<1>1. /\ MaxCloses \in Nat /\ MaxCloses <= 1
      /\ g.chan \in [Ends -> Seq(Message)] /\ "R" \in Ends
  BY DEF FlowAllocationAssumption, ClosedAtMostOnce, FlowRecord, Ends
<1>2. ASSUME h.status = g.status, h.chan = g.chan PROVE Settled(h)
  BY <1>2, LaterSame, LaterSettled
<1>3. CASE AskedFor(f, g, h) \/ Resumed(f, g, h)
  BY <1>3, AskedForSettled, ResumedSettled
<1>4. CASE Queued(g, h)
  BY <1>2, <1>4 DEF Queued, QueuedSet, SameTransit
<1>5. ASSUME NEW to \in Ends, Announced(g, h, to) PROVE Settled(h)
  <2>1. CASE h.chan = g.chan
    BY <1>2, <1>5, <2>1 DEF Announced, CreateSent
  <2>2. CASE h.chan = [g.chan EXCEPT ![to] = Append(g.chan[to], "M_CREATE")]
    <3>1. Later(g.chan, h.chan)
      BY <1>1, <2>2, LaterAppended DEF Message
    <3> QED
      BY <1>5, <3>1, LaterSettled DEF Announced, CreateSent
  <2> QED
    BY <1>5, <2>1, <2>2 DEF Announced, CreateSent
<1>6. ASSUME NEW e \in Ends, Declined(g, h, e) PROVE Settled(h)
  BY <1>2, <1>6 DEF Declined, SameTransit
<1>7. CASE HeldForwarded(g, h)
  <2>1. PICK n \in Nat : Forwarded(g, h, "R", n)
    BY <1>7 DEF HeldForwarded
  <2>2. Later(g.chan, h.chan)
    BY <1>1, <2>1, LaterRequested DEF Forwarded
  <2> QED
    BY <2>1, <2>2, LaterSettled DEF Forwarded
<1>8. ASSUME NEW to \in Ends, ReachedRelay(g, h, to) PROVE Settled(h)
  <2>1. CASE h.chan = g.chan
    BY <1>2, <1>8, <2>1 DEF ReachedRelay, CreateRelayed
  <2>2. CASE h.chan = [g.chan EXCEPT ![to] = Append(g.chan[to], "M_CREATE_R-")]
    <3>1. Later(g.chan, h.chan)
      BY <1>1, <2>2, LaterAppended DEF Message
    <3> QED
      BY <1>8, <3>1, LaterSettled DEF ReachedRelay, CreateRelayed
  <2>3. CASE h.chan = [g.chan EXCEPT ![to] = g.chan[to] \o [i \in 1..1 |-> "M_CREATE"]]
    <3>1. Later(g.chan, h.chan)
      BY <1>1, <2>3, LaterRequested
    <3> QED
      BY <1>8, <3>1, LaterSettled DEF ReachedRelay, CreateRelayed
  <2> QED
    BY <1>8, <2>1, <2>2, <2>3 DEF ReachedRelay, CreateRelayed
<1>9. ASSUME NEW e \in Ends, CreateReceived(f, g, h, e) PROVE Settled(h)
  BY <1>9, CreateReceivedSettled
<1>10. CASE OpeningReceived(g, h)
  BY <1>10, OpeningReceivedSettled
<1>11. ASSUME NEW e \in Ends, RefusalReceived(g, h, e) PROVE Settled(h)
  BY <1>11, RefusalReceivedSettled
<1>12. ASSUME NEW e \in Ends, DeleteReceived(g, h, e) PROVE Settled(h)
  BY <1>12, DeleteReceivedSettled
<1>13. ASSUME NEW e \in Ends, DeleteRReceived(g, h, e) PROVE Settled(h)
  BY <1>13, DeleteRReceivedSettled
<1>14. ASSUME NEW e \in Ends, CloseAsked(g, h, e) PROVE Settled(h)
  BY <1>1, <1>14, CloseAskedSettled
<1>15. \A e \in Ends : Peer(e) \in Ends
  BY DEF Peer, Ends
<1> QED
  BY <1>3, <1>4, <1>5, <1>6, <1>7, <1>8, <1>9, <1>10, <1>11, <1>12, <1>13, <1>14, <1>15 DEF Served

SettledInv ==
    /\ \A key \in KeySet : nm1["R"][key] = "established"
    /\ lost = 0 => \A f \in Flows : Settled(fl[f])

LEMMA InitSettled ==
    ASSUME Init, ResponderReachable PROVE SettledInv
<1>1. /\ \A e \in Ends : NewFlow.status[e] = "NONE"
      /\ NewFlow.chan["I"] = <<>>
  BY NewFlowFields DEF Ends
<1>2. Settled(NewFlow)
  BY <1>1 DEF Settled, Before, Ends
<1> QED
  BY <1>2 DEF Init, SettledInv, ResponderReachable, Nodes, Ends

LEMMA StepSettled ==
    ASSUME TypeOK, TypeOK', Agreement, SettledInv, Steps,
           FlowAllocationAssumption, ClosedAtMostOnce
    PROVE  SettledInv'
<1>1. Nm1Kept /\ FlowsServed /\ (lost' = 0 => lost = 0)
  BY DEF Steps
<1>2. \A key \in KeySet : nm1'["R"][key] = "established"
  BY <1>1 DEF SettledInv, Nm1Kept, Nodes, Ends
<1>3. ASSUME NEW f \in Flows, lost' = 0 PROVE Settled(fl'[f])
  <2> DEFINE g == fl[f]
             h == fl'[f]
  <2>1. g \in FlowRecord /\ h \in FlowRecord /\ Promise(f, g)
    BY DEF TypeOK, Agreement
  <2>2. Settled(g)
    BY <1>1, <1>3 DEF SettledInv
  <2>3. Established("R", f)
    BY KeyTyped DEF Established, SettledInv
  <2>4. h = g \/ Served(f, g, h)
    BY <1>1 DEF FlowsServed
  <2> HIDE DEF g, h
  <2>5. Settled(h)
    BY <1>3, <2>1, <2>2, <2>3, <2>4, ServedSettled
  <2> QED
    BY <2>5 DEF h
<1> QED
  BY <1>2, <1>3 DEF SettledInv

LEMMA QuietAgrees ==
    ASSUME TypeOK, Agreement, SettledInv
    PROVE  QuietEndsAgree
<1> SUFFICES ASSUME NEW f \in Flows, Quiet(f), lost = 0
             PROVE  \A s \in {"TRANSFER", "DEALLOCATED"} :
                       fl[f].status["I"] = s <=> fl[f].status["R"] = s
  BY DEF QuietEndsAgree
<1> DEFINE g == fl[f]
<1>1. g \in FlowRecord /\ Promise(f, g) /\ Settled(g)
  BY DEF TypeOK, Agreement, SettledInv
<1>2. \A e \in Ends, m \in Message : ~Holds(g.chan[e], m)
  BY DEF Quiet, Holds
<1> HIDE DEF g
<1>3. /\ ~(g.status["I"] = "ALLOC_PEND" /\ g.status["R"] \in Opened)
      /\ g.status["I"] = "DEALLOC_PEND" => g.status["R"] \notin {"ALLOC_PEND", "TRANSFER", "DEALLOCATED"}
      /\ g.status["R"] = "DEALLOC_PEND" => g.status["I"] \notin {"ALLOC_PEND", "TRANSFER", "DEALLOCATED"}
  BY <1>1, <1>2 DEF Settled, Message, Ends, Peer
<1>4. /\ g.status["I"] \in Opened => g.status["R"] \in Opened
      /\ g.status["I"] = "ALLOC_NEGA" => g.status["R"] \notin Opened
      /\ g.status["R"] # "NONE" => g.status["I"] \notin {"NONE", "ALLOC_ERR"}
  BY <1>1 DEF Promise, Agree, AnsweredOnce, AsksFirst, Asked
<1>5. /\ g.status["I"] = "DEALLOCATED" => g.status["R"] \in Closing
      /\ g.status["R"] = "DEALLOCATED" => g.status["I"] \in Closing
  BY <1>1 DEF Promise, Agree, ClosedOnce, Ends, Peer
<1>6. g.status["I"] \in Status /\ g.status["R"] \in Status
  BY <1>1 DEF FlowRecord, Ends
<1> QED
  BY <1>3, <1>4, <1>5, <1>6 DEF Status, Opened, Closing, g

\* When nothing about a flow is under way and nothing was lost, its two ends agree whether
\* it is open and whether it is over: for any number of flows, when the responder has its
\* (N-1)-flows from the start and a flow is closed at most once.
THEOREM EndsAgree ==
    ASSUME ClosedAtMostOnce, ResponderReachable
    PROVE  Spec => []QuietEndsAgree
<1>1. Init => SettledInv
  BY InitSettled
<1>2. TypeOK /\ TypeOK' /\ Agreement /\ Steps => Agreement'
  BY StepAgrees, FlowAllocationAssumption
<1>3. TypeOK /\ TypeOK' /\ Agreement /\ SettledInv /\ Steps => SettledInv'
  BY StepSettled, FlowAllocationAssumption
<1>4. TypeOK /\ [Next]_vars => Steps
  BY StepServes, FlowAllocationAssumption
<1>5. Init => Agreement
  BY InitAgrees
<1>6. TypeOK /\ Agreement /\ SettledInv => QuietEndsAgree
  BY QuietAgrees
<1> QED
  BY <1>1, <1>2, <1>3, <1>4, <1>5, <1>6, TypeCorrect, PTL DEF Spec
=============================================================================
