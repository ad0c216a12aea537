-------------------------- MODULE EnrollmentProofs ---------------------------
(***************************************************************************)
(* Enrollment implements Admission, and comes to an end that both sides    *)
(* know, for any number of IPCPs, whatever credentials they have.          *)
(*                                                                         *)
(* The argument looks at two IPCPs at a time: r is the row of the first    *)
(* for the second, s that of the second for the first, c what is on its    *)
(* way from the first to the second and d what is on its way back.         *)
(***************************************************************************)
EXTENDS Enrollment, SequenceTheorems, FiniteSetTheorems, TLAPS

-----------------------------------------------------------------------------
\* A message is on its way.
On(c, msg) == \E k \in 1 .. Len(c) : c[k] = msg

\* It is on its way at most once; and one is right behind another.
Once(c, msg) == \A k, l \in 1 .. Len(c) : c[k] = msg /\ c[l] = msg => k = l
Behind(c, msg, next) == \E k \in 1 .. Len(c) - 1 : c[k] = msg /\ c[k + 1] = next

\* Status and connection of a row fit together: enrollment has begun exactly when the
\* connection stands.
RowFits(r) ==
    /\ r.con = "NONE" => r = NoRow
    /\ r.con # "ESTABLISHED" => r.enroll = "NIL"
    /\ r.con = "ESTABLISHED" =>
          r.enroll \in {"WAIT_START", "WAIT_START_RESPONSE", "WAIT_STOP",
                        "WAIT_STOP_RESPONSE", "ENROLLED"}
    /\ r.enroll = "WAIT_STOP_RESPONSE" => r.immediate = TRUE

\* The second IPCP stops the exchange only when it has vouched for the first, is enrolled
\* with it only when the first has gone as far, and the first confirms only as a member.
Ahead(r, s, c, d) ==
    /\ On(d, "M_STOP") => s.enroll \in {"WAIT_STOP_RESPONSE", "ENROLLED"}
    /\ s.enroll = "ENROLLED" => r.enroll \in {"WAIT_STOP_RESPONSE", "ENROLLED"}
    /\ On(c, "M_STOP_R") => r.enroll = "ENROLLED"

\* Where nothing has been lost and credentials are accepted, whatever a row waits for is on
\* its way, or will be sent by the other side, which waits for something in turn.
Awaited(r, s, c, d) ==
    /\ r.con \in {"NONE", "AUTHENTICATING", "ESTABLISHED"}
    /\ ~On(c, "M_CONNECT_R-")
    /\ On(c, "M_CONNECT") => r.con # "NONE"
    /\ On(c, "M_CONNECT_R+") => r.con = "ESTABLISHED"
    /\ s.con = "ESTABLISHED" => r.con # "NONE"
    /\ r.con = "AUTHENTICATING" /\ s.con = "NONE" => On(c, "M_CONNECT")
    /\ r.con = "AUTHENTICATING" /\ s.con = "ESTABLISHED" => On(d, "M_CONNECT_R+")
    /\ s.enroll = "WAIT_START" => r.con = "AUTHENTICATING" \/ On(c, "M_START")
    /\ On(c, "M_START") => r.enroll = "WAIT_START_RESPONSE" /\ s.enroll = "WAIT_START"
    /\ Once(c, "M_START")
    /\ On(d, "M_START_R") => s.enroll \in {"WAIT_STOP_RESPONSE", "ENROLLED"}
    /\ r.enroll = "WAIT_START_RESPONSE" =>
          On(c, "M_START") \/ Behind(d, "M_START_R", "M_STOP")
    /\ r.enroll = "WAIT_STOP" => On(d, "M_STOP")
    /\ s.enroll = "WAIT_STOP_RESPONSE" =>
          r.enroll \in {"WAIT_START_RESPONSE", "WAIT_STOP"} \/ On(c, "M_STOP_R")

\* The management flow that an IPCP asks for comes or is refused, and brings the request.
FlowComes(i, j) ==
    /\ nm1[i][j] = "pending" => lower[i][j] # "idle"
    /\ nm1[i][j] = "none" => lower[i][j] = "idle"
    /\ lower[i][j] = "response" => nm1[j][i] = "up"
    /\ nm1[i][j] = "up" => nm1[j][i] = "up" \/ lower[j][i] = "response"
    /\ asks[i][j] > 0 => /\ StateTable[i][j].con # "NONE" \/ lower[i][j] # "idle"
                         /\ nm1[i][j] # "none"

\* What an IPCP is told of an enrollment that has finished.
Told(i, j) ==
    /\ On(chan[i][j], "M_STOP_R") => j \in finished[i]
    /\ StateTable[i][j].enroll = "ENROLLED" /\ j \in postponed[i] => i \in finished[j]

\* No IPCP asks for itself.
Alone(i) == StateTable[i][i] = NoRow /\ chan[i][i] = <<>> /\ lower[i][i] = "idle"

Entry == [con : ConStatus, enroll : EnrollStatus, immediate : BOOLEAN, retries : Nat]

\* The types, less the bound on retries.
Typed ==
    /\ auth \in Credentials
    /\ first \subseteq FirstMembers
    /\ StateTable \in [IPCPs -> [IPCPs -> Entry]]
    /\ chan \in [IPCPs -> [IPCPs -> Seq(Message)]]
    /\ nm1 \in [IPCPs -> [IPCPs -> {"none", "pending", "up"}]]
    /\ lower \in [IPCPs -> [IPCPs -> {"idle", "request", "response", "refused"}]]
    /\ asks \in [IPCPs -> [IPCPs -> 0 .. MaxAsk]]
    /\ postponed \in [IPCPs -> SUBSET IPCPs]
    /\ finished \in [IPCPs -> SUBSET IPCPs]
    /\ lost \in 0 .. MaxLoss

\* The rows and the messages of a pair agree.
Agreed(i, j) ==
    /\ RowFits(StateTable[i][j])
    /\ Ahead(StateTable[i][j], StateTable[j][i], chan[i][j], chan[j][i])
    /\ lost = 0 /\ Trusted(i, j) =>
          Awaited(StateTable[i][j], StateTable[j][i], chan[i][j], chan[j][i])

IInv ==
    /\ Typed
    /\ \A i \in IPCPs : Alone(i)
    /\ \A i, j \in IPCPs : Agreed(i, j) /\ FlowComes(i, j) /\ Told(i, j)

\* What bounds the retries: of the connect requests that i has for j, those under way, those
\* that j has refused since, and those that i may yet send.
Connects(c) == {k \in 1 .. Len(c) : c[k] = "M_CONNECT"}
UnderWay(c) == Cardinality(Connects(c))
Refused(s) == IF s.con = "CONNECTPENDING" THEN s.retries ELSE 0
Remaining(r) ==
    IF r.con = "NONE" THEN MaxConRetries
    ELSE IF r.con = "AUTHENTICATING" THEN MaxConRetries - r.retries ELSE 0
ToSend(i, j) == IF lower[i][j] \in {"request", "response"} THEN 1 ELSE 0

Limited(i, j) ==
    /\ StateTable[i][j].con = "CONNECTPENDING" => ~Trusted(i, j)
    /\ StateTable[i][j].con # "CONNECTPENDING" => StateTable[i][j].retries <= MaxConRetries
    /\ UnderWay(chan[i][j]) + Refused(StateTable[j][i])
          + Remaining(StateTable[i][j]) + ToSend(i, j) <= asks[i][j] + MaxConRetries

LInv == IInv /\ \A i, j \in IPCPs : Limited(i, j)

\* What a message does to the row of the IPCP that it reaches, and what is sent back.
Becomes(row, con, enroll, immediate, retries) ==
    row.con = con /\ row.enroll = enroll /\ row.immediate = immediate /\ row.retries = retries

Reaction(ok, r, msg, row, out) ==
    \/ /\ \/ msg = "M_CONNECT" /\ r.con \notin {"NONE", "CONNECTPENDING"}
          \/ msg \in {"M_CONNECT_R+", "M_CONNECT_R-"} /\ r.con # "AUTHENTICATING"
          \/ msg = "M_START" /\ r.enroll # "WAIT_START"
          \/ msg = "M_START_R" /\ r.enroll # "WAIT_START_RESPONSE"
          \/ msg = "M_STOP" /\ r.enroll # "WAIT_STOP"
          \/ msg = "M_STOP_R" /\ r.enroll # "WAIT_STOP_RESPONSE"
       /\ row = r /\ out = <<>>
    \/ /\ msg = "M_CONNECT" /\ r.con \in {"NONE", "CONNECTPENDING"} /\ ok
       /\ Becomes(row, "ESTABLISHED", "WAIT_START", r.immediate, r.retries)
       /\ out = <<"M_CONNECT_R+">>
    \/ /\ msg = "M_CONNECT" /\ r.con \in {"NONE", "CONNECTPENDING"} /\ ~ok
       /\ Becomes(row, "CONNECTPENDING", r.enroll, r.immediate, r.retries + 1)
       /\ out = <<"M_CONNECT_R-">>
    \/ /\ msg = "M_CONNECT_R+" /\ r.con = "AUTHENTICATING"
       /\ Becomes(row, "ESTABLISHED", "WAIT_START_RESPONSE", r.immediate, r.retries)
       /\ out = <<"M_START">>
    \/ /\ msg = "M_CONNECT_R-" /\ r.con = "AUTHENTICATING" /\ MaxConRetries <= r.retries
       /\ Becomes(row, "NIL", r.enroll, r.immediate, r.retries)
       /\ out = <<>>
    \/ /\ msg = "M_CONNECT_R-" /\ r.con = "AUTHENTICATING" /\ ~(MaxConRetries <= r.retries)
       /\ Becomes(row, "AUTHENTICATING", r.enroll, r.immediate, r.retries + 1)
       /\ out = <<"M_CONNECT">>
    \/ /\ msg = "M_START" /\ r.enroll = "WAIT_START"
       /\ Becomes(row, r.con, "WAIT_STOP_RESPONSE", TRUE, r.retries)
       /\ out = <<"M_START_R", "M_STOP">>
    \/ /\ msg = "M_START_R" /\ r.enroll = "WAIT_START_RESPONSE"
       /\ Becomes(row, r.con, "WAIT_STOP", r.immediate, r.retries)
       /\ out = <<>>
    \/ /\ msg = "M_STOP" /\ r.enroll = "WAIT_STOP"
       /\ Becomes(row, r.con, "ENROLLED", TRUE, r.retries)
       /\ out = <<"M_STOP_R">>
    \/ /\ msg = "M_STOP_R" /\ r.enroll = "WAIT_STOP_RESPONSE"
       /\ Becomes(row, r.con, "ENROLLED", r.immediate, r.retries)
       /\ out = <<>>

-----------------------------------------------------------------------------
(* Messages on their way.                                                    *)

LEMMA Short ==
    ASSUME NEW m, NEW n, NEW x
    PROVE  /\ ~On(<<>>, x) /\ Once(<<>>, x)
           /\ On(<<m>>, x) <=> x = m
           /\ Once(<<m>>, x)
           /\ On(<<m, n>>, x) <=> x = m \/ x = n
           /\ m # n => Once(<<m, n>>, x)
           /\ Behind(<<m, n>>, m, n)
<1>1. /\ Len(<<>>) = 0 /\ Len(<<m>>) = 1 /\ Len(<<m, n>>) = 2
      /\ <<m>>[1] = m /\ <<m, n>>[1] = m /\ <<m, n>>[2] = n
  OBVIOUS
<1>2. /\ \A k : ~(k \in 1 .. 0)
      /\ \A k : k \in 1 .. 1 <=> k = 1
      /\ \A k : k \in 1 .. 2 <=> k = 1 \/ k = 2
      /\ 1 \in 1 .. 2 - 1 /\ 1 + 1 = 2
  OBVIOUS
<1>3. ~On(<<>>, x) /\ Once(<<>>, x)
  BY <1>1, <1>2 DEF On, Once
<1>4. (On(<<m>>, x) <=> x = m) /\ Once(<<m>>, x)
  BY <1>1, <1>2 DEF On, Once
<1>5. (On(<<m, n>>, x) <=> x = m \/ x = n) /\ (m # n => Once(<<m, n>>, x))
  BY <1>1, <1>2 DEF On, Once
<1>6. Behind(<<m, n>>, m, n)
  BY <1>1, <1>2 DEF Behind
<1> QED BY <1>3, <1>4, <1>5, <1>6

LEMMA BehindOn ==
    ASSUME NEW c \in Seq(Message), NEW x, NEW y, Behind(c, x, y)
    PROVE  On(c, x) /\ On(c, y)
<1>1. PICK k \in 1 .. Len(c) - 1 : c[k] = x /\ c[k + 1] = y
  BY DEF Behind
<1>2. k \in 1 .. Len(c) /\ k + 1 \in 1 .. Len(c)
  OBVIOUS
<1> QED BY <1>1, <1>2 DEF On

\* What is sent comes after what is on its way.
LEMMA Sent ==
    ASSUME NEW c \in Seq(Message), NEW out \in Seq(Message)
    PROVE  /\ c \o out \in Seq(Message)
           /\ \A x : On(c \o out, x) <=> On(c, x) \/ On(out, x)
           /\ \A x : /\ Once(c, x) /\ Once(out, x)
                     /\ ~On(c, x) \/ ~On(out, x)
                     => Once(c \o out, x)
           /\ \A x, y : Behind(c, x, y) \/ Behind(out, x, y) => Behind(c \o out, x, y)
<1> DEFINE e == c \o out
<1>1. /\ e \in Seq(Message)
      /\ Len(e) = Len(c) + Len(out)
      /\ \A k \in 1 .. Len(c) : e[k] = c[k]
      /\ \A k \in 1 .. Len(out) : e[Len(c) + k] = out[k]
  OBVIOUS
<1>2. Len(c) \in Nat /\ Len(out) \in Nat
  OBVIOUS
<1> HIDE DEF e
<1>3. \A k \in 1 .. Len(e) : k \in 1 .. Len(c) \/ k - Len(c) \in 1 .. Len(out)
  BY <1>1, <1>2
<1>4. \A k \in 1 .. Len(out) : Len(c) + k \in 1 .. Len(e)
  BY <1>1, <1>2
<1>5. \A k \in 1 .. Len(c) : k \in 1 .. Len(e)
  BY <1>1, <1>2
<1>6. \A k \in 1 .. Len(e) : k - Len(c) \in 1 .. Len(out) => e[k] = out[k - Len(c)]
  BY <1>1, <1>2
<1>7. ASSUME NEW x
      PROVE  On(e, x) <=> On(c, x) \/ On(out, x)
  BY <1>1, <1>3, <1>4, <1>5, <1>6 DEF On
<1>8. ASSUME NEW x, Once(c, x), Once(out, x), ~On(c, x) \/ ~On(out, x),
             NEW k \in 1 .. Len(e), NEW l \in 1 .. Len(e), e[k] = x, e[l] = x
      PROVE  k = l
  <2>1. CASE k \in 1 .. Len(c) /\ l \in 1 .. Len(c)
    BY <1>1, <1>8, <2>1 DEF Once
  <2>2. CASE k - Len(c) \in 1 .. Len(out) /\ l - Len(c) \in 1 .. Len(out)
    <3>1. out[k - Len(c)] = x /\ out[l - Len(c)] = x
      BY <1>6, <1>8, <2>2
    <3>2. k - Len(c) = l - Len(c)
      BY <1>8, <2>2, <3>1 DEF Once
    <3> QED BY <1>2, <3>2
  <2>3. CASE k \in 1 .. Len(c) /\ l - Len(c) \in 1 .. Len(out)
    BY <1>1, <1>6, <1>8, <2>3 DEF On
  <2>4. CASE l \in 1 .. Len(c) /\ k - Len(c) \in 1 .. Len(out)
    BY <1>1, <1>6, <1>8, <2>4 DEF On
  <2> QED BY <1>3, <2>1, <2>2, <2>3, <2>4
<1>9. ASSUME NEW x, NEW y, Behind(c, x, y)
      PROVE  Behind(e, x, y)
  <2>1. PICK k \in 1 .. Len(c) - 1 : c[k] = x /\ c[k + 1] = y
    BY <1>9 DEF Behind
  <2>2. k \in 1 .. Len(e) - 1 /\ k \in 1 .. Len(c) /\ k + 1 \in 1 .. Len(c)
    BY <1>1, <1>2
  <2> QED BY <1>1, <2>1, <2>2 DEF Behind
<1>10. ASSUME NEW x, NEW y, Behind(out, x, y)
       PROVE  Behind(e, x, y)
  <2>1. PICK k \in 1 .. Len(out) - 1 : out[k] = x /\ out[k + 1] = y
    BY <1>10 DEF Behind
  <2>2. /\ Len(c) + k \in 1 .. Len(e) - 1
        /\ k \in 1 .. Len(out) /\ k + 1 \in 1 .. Len(out)
        /\ (Len(c) + k) + 1 = Len(c) + (k + 1)
    BY <1>1, <1>2
  <2>3. e[Len(c) + k] = x /\ e[(Len(c) + k) + 1] = y
    BY <1>1, <2>1, <2>2
  <2> QED BY <2>2, <2>3 DEF Behind
<1>11. \A x : Once(c, x) /\ Once(out, x) /\ (~On(c, x) \/ ~On(out, x)) => Once(e, x)
  BY <1>8 DEF Once
<1> QED BY <1>1, <1>7, <1>9, <1>10, <1>11 DEF e

\* What arrives is the first of what is on its way.
LEMMA Received ==
    ASSUME NEW d \in Seq(Message), d # <<>>
    PROVE  /\ Tail(d) \in Seq(Message) /\ Head(d) \in Message
           /\ \A x : On(d, x) <=> x = Head(d) \/ On(Tail(d), x)
           /\ \A x : Once(d, x) => Once(Tail(d), x) /\ (x = Head(d) => ~On(Tail(d), x))
           /\ \A x, y : Behind(d, x, y) =>
                 On(Tail(d), y) /\ (x = Head(d) \/ Behind(Tail(d), x, y))
<1> DEFINE e == Tail(d)
<1>1. /\ e \in Seq(Message) /\ Head(d) \in Message /\ Head(d) = d[1]
      /\ Len(e) = Len(d) - 1 /\ Len(d) \in Nat /\ Len(d) >= 1
      /\ \A k \in 1 .. Len(e) : e[k] = d[k + 1]
  OBVIOUS
<1> HIDE DEF e
<1>2. /\ 1 \in 1 .. Len(d)
      /\ \A k \in 1 .. Len(e) : k + 1 \in 1 .. Len(d)
      /\ \A k \in 1 .. Len(d) : k # 1 => k - 1 \in 1 .. Len(e) /\ e[k - 1] = d[k]
  BY <1>1
<1>3. ASSUME NEW x
      PROVE  On(d, x) <=> x = Head(d) \/ On(e, x)
  BY <1>1, <1>2 DEF On
<1>4. ASSUME NEW x, Once(d, x)
      PROVE  Once(e, x) /\ (x = Head(d) => ~On(e, x))
  <2>1. ASSUME NEW k \in 1 .. Len(e), NEW l \in 1 .. Len(e), e[k] = x, e[l] = x
        PROVE  k = l
    <3>1. k + 1 = l + 1
      BY <1>1, <1>2, <1>4, <2>1 DEF Once
    <3> QED BY <3>1
  <2>2. ASSUME x = Head(d), NEW k \in 1 .. Len(e), e[k] = x
        PROVE  FALSE
    <3>1. 1 = k + 1
      BY <1>1, <1>2, <1>4, <2>2 DEF Once
    <3> QED BY <3>1
  <2> QED BY <2>1, <2>2 DEF Once, On
<1>5. ASSUME NEW x, NEW y, Behind(d, x, y)
      PROVE  On(e, y) /\ (x = Head(d) \/ Behind(e, x, y))
  <2>1. PICK k \in 1 .. Len(d) - 1 : d[k] = x /\ d[k + 1] = y
    BY <1>5 DEF Behind
  <2>2. k \in 1 .. Len(e) /\ e[k] = y
    BY <1>1, <2>1
  <2>3. CASE k = 1
    BY <1>1, <2>1, <2>2, <2>3 DEF On
  <2>4. CASE k # 1
    <3>1. /\ k - 1 \in 1 .. Len(e) - 1 /\ k - 1 \in 1 .. Len(e)
          /\ (k - 1) + 1 = k /\ k \in 1 .. Len(d)
      BY <1>1, <2>4
    <3>2. e[k - 1] = x /\ e[(k - 1) + 1] = y
      BY <1>2, <2>1, <2>2, <2>4, <3>1
    <3> QED BY <2>2, <3>1, <3>2 DEF On, Behind
  <2> QED BY <2>3, <2>4
<1> QED BY <1>1, <1>3, <1>4, <1>5 DEF e

-----------------------------------------------------------------------------
(* One message, and the two rows.                                            *)

\* A row that is there stays, and a new one is at the beginning.
LEMMA Inserted ==
    ASSUME NEW r \in Entry, RowFits(r), NEW con \in ConStatus
    PROVE  /\ Insert(r, con) \in Entry
           /\ IF r.con = "NONE"
              THEN /\ Insert(r, con) = [con |-> con, enroll |-> "NIL",
                                        immediate |-> FALSE, retries |-> 0]
                   /\ r = NoRow
              ELSE Insert(r, con) = r
<1>1. CASE r = NoRow
  <2>1. Insert(r, con) = [con |-> con, enroll |-> "NIL", immediate |-> FALSE, retries |-> 0]
    BY <1>1 DEF Insert, NoRow
  <2>2. r.con = "NONE"
    BY <1>1 DEF NoRow
  <2>3. [con |-> con, enroll |-> "NIL", immediate |-> FALSE, retries |-> 0] \in Entry
    BY DEF Entry, EnrollStatus
  <2> QED BY <1>1, <2>1, <2>2, <2>3
<1>2. CASE r # NoRow
  <2>1. Insert(r, con) = r /\ r.con # "NONE"
    BY <1>2 DEF Insert, RowFits
  <2> QED BY <2>1
<1> QED BY <1>1, <1>2

LEMMA ReactionType ==
    ASSUME NEW ok, NEW r, NEW msg, NEW row, NEW out, Reaction(ok, r, msg, row, out)
    PROVE  out \in Seq(Message)
<1>1. /\ <<>> \in Seq(Message) /\ <<"M_CONNECT_R+">> \in Seq(Message)
      /\ <<"M_CONNECT_R-">> \in Seq(Message) /\ <<"M_START">> \in Seq(Message)
      /\ <<"M_CONNECT">> \in Seq(Message) /\ <<"M_START_R", "M_STOP">> \in Seq(Message)
      /\ <<"M_STOP_R">> \in Seq(Message)
  BY DEF Message
<1> QED BY <1>1 DEF Reaction

\* What the row becomes fits, and neither side gets ahead of the other.
LEMMA ReactionAhead ==
    ASSUME NEW ok \in BOOLEAN, NEW r \in Entry, NEW s \in Entry,
           NEW c \in Seq(Message), NEW d \in Seq(Message), d # <<>>,
           RowFits(r), RowFits(s), Ahead(r, s, c, d), Ahead(s, r, d, c),
           NEW row \in Entry, NEW out, Reaction(ok, r, Head(d), row, out)
    PROVE  /\ RowFits(row)
           /\ Ahead(row, s, c \o out, Tail(d))
           /\ Ahead(s, row, Tail(d), c \o out)
<1>1. out \in Seq(Message)
  BY Received, ReactionType
<1>2. RowFits(row)
  BY DEF Reaction, RowFits, NoRow, Becomes
<1>3. \A x : On(d, x) <=> x = Head(d) \/ On(Tail(d), x)
  BY Received
<1>4. \A x : On(c \o out, x) <=> On(c, x) \/ On(out, x)
  BY <1>1, Sent
<1>a. ASSUME NEW x \in {"M_STOP", "M_STOP_R"}
      PROVE  /\ ~On(<<>>, x) /\ ~On(<<"M_CONNECT">>, x) /\ ~On(<<"M_CONNECT_R+">>, x)
             /\ ~On(<<"M_CONNECT_R-">>, x) /\ ~On(<<"M_START">>, x)
             /\ On(<<"M_STOP_R">>, x) => x = "M_STOP_R"
             /\ On(<<"M_START_R", "M_STOP">>, x) => x = "M_STOP"
  BY Short
<1>5. /\ On(out, "M_STOP") => row.enroll = "WAIT_STOP_RESPONSE"
      /\ On(out, "M_STOP_R") => row.enroll = "ENROLLED"
  BY <1>a DEF Reaction, Becomes
<1>6. /\ row.enroll = "ENROLLED" =>
            r.enroll = "ENROLLED" \/ On(d, "M_STOP") \/ On(d, "M_STOP_R")
      /\ r.enroll \in {"WAIT_STOP_RESPONSE", "ENROLLED"} =>
            row.enroll \in {"WAIT_STOP_RESPONSE", "ENROLLED"}
      /\ r.enroll = "ENROLLED" => row.enroll = "ENROLLED"
  BY <1>3 DEF Reaction, RowFits, NoRow, Becomes
<1>7. Ahead(row, s, c \o out, Tail(d))
  BY <1>3, <1>4, <1>5, <1>6 DEF Ahead
<1>8. Ahead(s, row, Tail(d), c \o out)
  BY <1>3, <1>4, <1>5, <1>6 DEF Ahead
<1> QED BY <1>2, <1>7, <1>8

\* Where nothing has been lost and credentials are accepted, every wait keeps its answer.
LEMMA ReactionAwaited ==
    ASSUME NEW r \in Entry, NEW s \in Entry,
           NEW c \in Seq(Message), NEW d \in Seq(Message), d # <<>>,
           RowFits(r), RowFits(s), Ahead(r, s, c, d), Ahead(s, r, d, c),
           Awaited(r, s, c, d), Awaited(s, r, d, c),
           NEW row \in Entry, NEW out, Reaction(TRUE, r, Head(d), row, out)
    PROVE  /\ Awaited(row, s, c \o out, Tail(d))
           /\ Awaited(s, row, Tail(d), c \o out)
<1> DEFINE e == Tail(d)
           f == c \o out
           m == Head(d)
<1>1. out \in Seq(Message) /\ m \in Message
  BY Received, ReactionType
<1>2. /\ \A x : On(d, x) <=> x = m \/ On(e, x)
      /\ \A x : Once(d, x) => Once(e, x) /\ (x = m => ~On(e, x))
      /\ \A x, y : Behind(d, x, y) => On(e, y) /\ (x = m \/ Behind(e, x, y))
  BY Received
<1>3. /\ \A x : On(f, x) <=> On(c, x) \/ On(out, x)
      /\ \A x : Once(c, x) /\ Once(out, x) /\ (~On(c, x) \/ ~On(out, x)) => Once(f, x)
      /\ \A x, y : Behind(c, x, y) \/ Behind(out, x, y) => Behind(f, x, y)
  BY <1>1, Sent
<1>4. \A x : ~On(<<>>, x) /\ Once(<<>>, x)
  BY Short
<1>5. \A n, x : (On(<<n>>, x) <=> x = n) /\ Once(<<n>>, x)
  BY Short
<1>6. /\ \A x : On(<<"M_START_R", "M_STOP">>, x) <=> x = "M_START_R" \/ x = "M_STOP"
      /\ \A x : Once(<<"M_START_R", "M_STOP">>, x)
      /\ Behind(<<"M_START_R", "M_STOP">>, "M_START_R", "M_STOP")
  BY Short
<1> HIDE DEF e, f, m
<1>7. Reaction(TRUE, r, m, row, out)
  BY DEF m
<1>9. Behind(c, "M_START_R", "M_STOP") => On(c, "M_START_R") /\ On(c, "M_STOP")
  BY BehindOn
<1>8. Awaited(row, s, f, e) /\ Awaited(s, row, e, f)
  <2>1. CASE m = "M_CONNECT"
    BY <1>1, <1>2, <1>3, <1>4, <1>5, <1>7, <2>1
       DEF Awaited, Ahead, RowFits, Reaction, NoRow, Becomes
  <2>2. CASE m = "M_CONNECT_R+"
    <3>1. s.con = "ESTABLISHED"
      BY <1>2, <2>2 DEF Awaited
    <3>2. r.con = "AUTHENTICATING" => s.enroll = "WAIT_START"
      BY <1>9, <3>1 DEF Awaited, Ahead, RowFits
    <3> QED BY <3>1, <3>2, <1>1, <1>2, <1>3, <1>4, <1>5, <1>7, <2>2
       DEF Awaited, Ahead, RowFits, Reaction, NoRow, Becomes
  <2>3. CASE m = "M_CONNECT_R-"
    BY <1>2, <2>3 DEF Awaited
  <2>4. CASE m = "M_START"
    BY <1>1, <1>2, <1>3, <1>4, <1>6, <1>7, <2>4
       DEF Awaited, Ahead, RowFits, Reaction, NoRow, Becomes
  <2>5. CASE m = "M_START_R"
    BY <1>1, <1>2, <1>3, <1>4, <1>7, <2>5
       DEF Awaited, Ahead, RowFits, Reaction, NoRow, Becomes
  <2>6. CASE m = "M_STOP"
    BY <1>1, <1>2, <1>3, <1>4, <1>5, <1>7, <2>6
       DEF Awaited, Ahead, RowFits, Reaction, NoRow, Becomes
  <2>7. CASE m = "M_STOP_R"
    BY <1>1, <1>2, <1>3, <1>4, <1>7, <2>7
       DEF Awaited, Ahead, RowFits, Reaction, NoRow, Becomes
  <2> QED BY <1>1, <2>1, <2>2, <2>3, <2>4, <2>5, <2>6, <2>7 DEF Message
<1> QED BY <1>8 DEF e, f

\* A connect request is sent.
LEMMA ConnectKeeps ==
    ASSUME NEW r \in Entry, NEW s \in Entry, NEW c \in Seq(Message), NEW d \in Seq(Message),
           RowFits(r), RowFits(s), Ahead(r, s, c, d), Ahead(s, r, d, c)
    PROVE  LET row == Insert(r, "AUTHENTICATING")
               f == Append(c, "M_CONNECT")
           IN  /\ row \in Entry /\ f \in Seq(Message)
               /\ row.enroll = r.enroll /\ row.con # "NONE"
               /\ \A x : On(f, x) <=> On(c, x) \/ x = "M_CONNECT"
               /\ RowFits(row) /\ Ahead(row, s, f, d) /\ Ahead(s, row, d, f)
               /\ Awaited(r, s, c, d) /\ Awaited(s, r, d, c) =>
                     Awaited(row, s, f, d) /\ Awaited(s, row, d, f)
<1> DEFINE row == Insert(r, "AUTHENTICATING")
           f == Append(c, "M_CONNECT")
<1>1. <<"M_CONNECT">> \in Seq(Message) /\ f = c \o <<"M_CONNECT">>
  BY DEF Message
<1>2. /\ f \in Seq(Message)
      /\ \A x : On(f, x) <=> On(c, x) \/ x = "M_CONNECT"
      /\ Once(c, "M_START") => Once(f, "M_START")
      /\ \A x, y : Behind(c, x, y) => Behind(f, x, y)
  <2>1. /\ \A x : On(<<"M_CONNECT">>, x) <=> x = "M_CONNECT"
        /\ Once(<<"M_CONNECT">>, "M_START")
    BY Short
  <2> DEFINE g == c \o <<"M_CONNECT">>
  <2>2. /\ g \in Seq(Message)
        /\ \A x : On(g, x) <=> On(c, x) \/ On(<<"M_CONNECT">>, x)
        /\ Once(c, "M_START") => Once(g, "M_START")
        /\ \A x, y : Behind(c, x, y) => Behind(g, x, y)
    BY <1>1, <2>1, Sent
  <2> HIDE DEF g
  <2>3. f = g
    BY <1>1 DEF g
  <2> QED BY <2>1, <2>2, <2>3
<1>3. /\ row \in Entry
      /\ r.con = "NONE" => Becomes(row, "AUTHENTICATING", "NIL", FALSE, 0) /\ r.enroll = "NIL"
      /\ r.con # "NONE" => row = r
  <2>1. /\ row \in Entry
        /\ r.con = "NONE" => row = [con |-> "AUTHENTICATING", enroll |-> "NIL",
                                    immediate |-> FALSE, retries |-> 0]
        /\ r.con # "NONE" => row = r
    BY Inserted DEF ConStatus
  <2> QED BY <2>1 DEF RowFits, Becomes
<1>a. row.enroll = r.enroll /\ row.con # "NONE"
  BY <1>3 DEF Becomes
<1>4. RowFits(row)
  BY <1>3 DEF RowFits, Becomes
<1> HIDE DEF f, row
<1>5. Ahead(row, s, f, d) /\ Ahead(s, row, d, f)
  BY <1>2, <1>a DEF Ahead
<1>6. ASSUME Awaited(r, s, c, d), Awaited(s, r, d, c)
      PROVE  Awaited(row, s, f, d) /\ Awaited(s, row, d, f)
  BY <1>2, <1>3, <1>a, <1>6 DEF Awaited, Ahead, RowFits, Becomes
<1> QED BY <1>2, <1>3, <1>a, <1>4, <1>5, <1>6 DEF f, row

-----------------------------------------------------------------------------
(* The handlers.                                                             *)

\* Who has another's credentials of a supported type trusts it, and is trusted.
LEMMA TrustIsMutual ==
    ASSUME auth \in Credentials, NEW i \in IPCPs, NEW j \in IPCPs
    PROVE  /\ Authentic(auth[i], auth[j]) <=> Trusted(i, j)
           /\ Trusted(i, j) <=> Trusted(j, i)
<1> DEFINE Credential == [type : {"NONE", "PASSWD", "SSHRSA"},
                          password : {"", "secret", "wrong"}]
<1>1. auth[i] \in Credential /\ auth[j] \in Credential
  BY EnrollmentAssumption
<1>2. auth[i] = auth[j] <=>
         auth[i].type = auth[j].type /\ auth[i].password = auth[j].password
  <2>1. /\ auth[i] = [type |-> auth[i].type, password |-> auth[i].password]
        /\ auth[j] = [type |-> auth[j].type, password |-> auth[j].password]
    BY <1>1
  <2> QED BY <2>1
<1>3. {auth[i].type, auth[j].type} = {"NONE"} <=>
         auth[i].type = "NONE" /\ auth[j].type = "NONE"
  OBVIOUS
<1>4. {auth[j].type, auth[i].type} = {"NONE"} <=>
         auth[i].type = "NONE" /\ auth[j].type = "NONE"
  OBVIOUS
<1> HIDE DEF Credential
<1> QED BY <1>2, <1>3, <1>4 DEF Authentic, Trusted

\* The rows that the handlers write.
LEMMA Rows ==
    ASSUME NEW r \in Entry, NEW n \in Nat, n = r.retries
    PROVE  LET asked == [r EXCEPT !.con = "AUTHENTICATING"]
               yes == [asked EXCEPT !.con = "ESTABLISHED", !.enroll = "WAIT_START"]
               no == [asked EXCEPT !.con = "CONNECTPENDING", !.retries = @ + 1]
               starting == [[r EXCEPT !.con = "ESTABLISHED"]
                               EXCEPT !.enroll = "WAIT_START_RESPONSE"]
               given == [r EXCEPT !.con = "NIL"]
               again == [[r EXCEPT !.retries = @ + 1] EXCEPT !.con = "AUTHENTICATING"]
               vouching == [r EXCEPT !.immediate = TRUE, !.enroll = "WAIT_STOP_RESPONSE"]
               started == [r EXCEPT !.enroll = "WAIT_STOP"]
               told == [[r EXCEPT !.immediate = TRUE, !.enroll = "WAIT_READ_RESPONSE"]
                           EXCEPT !.enroll = "ENROLLED"]
               confirmed == [r EXCEPT !.enroll = "ENROLLED"]
           IN  /\ yes \in Entry
               /\ Becomes(yes, "ESTABLISHED", "WAIT_START", r.immediate, n)
               /\ no \in Entry
               /\ Becomes(no, "CONNECTPENDING", r.enroll, r.immediate, n + 1)
               /\ starting \in Entry
               /\ Becomes(starting, "ESTABLISHED", "WAIT_START_RESPONSE", r.immediate, n)
               /\ given \in Entry
               /\ Becomes(given, "NIL", r.enroll, r.immediate, n)
               /\ again \in Entry
               /\ Becomes(again, "AUTHENTICATING", r.enroll, r.immediate, n + 1)
               /\ vouching \in Entry
               /\ Becomes(vouching, r.con, "WAIT_STOP_RESPONSE", TRUE, n)
               /\ started \in Entry
               /\ Becomes(started, r.con, "WAIT_STOP", r.immediate, n)
               /\ told \in Entry
               /\ Becomes(told, r.con, "ENROLLED", TRUE, n)
               /\ confirmed \in Entry
               /\ Becomes(confirmed, r.con, "ENROLLED", r.immediate, n)
<1>1. n + 1 \in Nat
  OBVIOUS
<1>2. /\ {"AUTHENTICATING", "ESTABLISHED", "CONNECTPENDING", "NIL"} \subseteq ConStatus
      /\ {"WAIT_START", "WAIT_START_RESPONSE", "WAIT_STOP_RESPONSE", "WAIT_STOP",
          "WAIT_READ_RESPONSE", "ENROLLED"} \subseteq EnrollStatus
  BY DEF ConStatus, EnrollStatus
<1> DEFINE asked == [r EXCEPT !.con = "AUTHENTICATING"]
           yes == [asked EXCEPT !.con = "ESTABLISHED", !.enroll = "WAIT_START"]
           no == [asked EXCEPT !.con = "CONNECTPENDING", !.retries = @ + 1]
           starting == [[r EXCEPT !.con = "ESTABLISHED"]
                           EXCEPT !.enroll = "WAIT_START_RESPONSE"]
           given == [r EXCEPT !.con = "NIL"]
           again == [[r EXCEPT !.retries = @ + 1] EXCEPT !.con = "AUTHENTICATING"]
           vouching == [r EXCEPT !.immediate = TRUE, !.enroll = "WAIT_STOP_RESPONSE"]
           started == [r EXCEPT !.enroll = "WAIT_STOP"]
           told == [[r EXCEPT !.immediate = TRUE, !.enroll = "WAIT_READ_RESPONSE"]
                       EXCEPT !.enroll = "ENROLLED"]
           confirmed == [r EXCEPT !.enroll = "ENROLLED"]
<1>3. yes \in Entry
  BY <1>1, <1>2 DEF Entry
<1>4. Becomes(yes, "ESTABLISHED", "WAIT_START", r.immediate, n)
  BY DEF Entry, Becomes
<1>5. no \in Entry
  BY <1>1, <1>2 DEF Entry
<1>6. Becomes(no, "CONNECTPENDING", r.enroll, r.immediate, n + 1)
  BY DEF Entry, Becomes
<1>7. starting \in Entry
  BY <1>1, <1>2 DEF Entry
<1>8. Becomes(starting, "ESTABLISHED", "WAIT_START_RESPONSE", r.immediate, n)
  BY DEF Entry, Becomes
<1>9. given \in Entry
  BY <1>1, <1>2 DEF Entry
<1>10. Becomes(given, "NIL", r.enroll, r.immediate, n)
  BY DEF Entry, Becomes
<1>11. again \in Entry
  BY <1>1, <1>2 DEF Entry
<1>12. Becomes(again, "AUTHENTICATING", r.enroll, r.immediate, n + 1)
  BY DEF Entry, Becomes
<1>13. vouching \in Entry
  BY <1>1, <1>2 DEF Entry
<1>14. Becomes(vouching, r.con, "WAIT_STOP_RESPONSE", TRUE, n)
  BY DEF Entry, Becomes
<1>15. started \in Entry
  BY <1>1, <1>2 DEF Entry
<1>16. Becomes(started, r.con, "WAIT_STOP", r.immediate, n)
  BY DEF Entry, Becomes
<1>17. told \in Entry
  BY <1>1, <1>2 DEF Entry
<1>18. Becomes(told, r.con, "ENROLLED", TRUE, n)
  BY DEF Entry, Becomes
<1>19. confirmed \in Entry
  BY <1>1, <1>2 DEF Entry
<1>20. Becomes(confirmed, r.con, "ENROLLED", r.immediate, n)
  BY DEF Entry, Becomes
<1> HIDE DEF yes, no, starting, given, again, vouching, started, told, confirmed
<1> QED
  BY <1>3, <1>4, <1>5, <1>6, <1>7, <1>8, <1>9, <1>10, <1>11, <1>12,
     <1>13, <1>14, <1>15, <1>16, <1>17, <1>18, <1>19, <1>20
     DEF yes, no, starting, given, again, vouching, started, told, confirmed

\* Who is told that an enrollment has finished: only the one whose row is enrolled by an
\* M_STOP, and that one always.
Signals(i, j, r, msg) ==
    IF msg = "M_STOP" /\ r.enroll = "WAIT_STOP"
    THEN SignalizeEnrollmentFinished(i, j)
    ELSE UNCHANGED <<postponed, finished>>

\* Every handler is one reaction to the first message.
LEMMA ReceiveReacts ==
    ASSUME auth \in Credentials, NEW i \in IPCPs, NEW j \in IPCPs,
           StateTable[i][j] \in Entry, RowFits(StateTable[i][j]), Receive(i, j)
    PROVE  /\ nm1[j][i] = "up" /\ chan[j][i] # <<>>
           /\ Signals(i, j, StateTable[i][j], Head(chan[j][i]))
           /\ UNCHANGED <<rigid, nm1, lower, asks, lost>>
           /\ \E row \in Entry : \E out :
                 /\ Reaction(Trusted(i, j), StateTable[i][j], Head(chan[j][i]), row, out)
                 /\ Turn(i, j, row, out)
<1> DEFINE r == StateTable[i][j]
           msg == Head(chan[j][i])
           Answered == \E row \in Entry : \E out : Reaction(Trusted(i, j), r, msg, row, out)
                                                 /\ Turn(i, j, row, out)
<1>1. UNCHANGED <<rigid, nm1, lower, asks, lost>>
  BY DEF Receive
<1>2. r \in Entry /\ RowFits(r) /\ r.retries \in Nat
  BY DEF Entry
<1>3. Authentic(auth[i], auth[j]) <=> Trusted(i, j)
  BY TrustIsMutual
<1> SUFFICES nm1[j][i] = "up" /\ chan[j][i] # <<>> /\ Signals(i, j, r, msg) /\ Answered
  BY <1>1
<1>4. CASE ReceiveConnectRequest(i, j)
  <2> DEFINE new == Insert(r, "CONNECTPENDING")
             asked == [new EXCEPT !.con = "AUTHENTICATING"]
             yes == [asked EXCEPT !.con = "ESTABLISHED", !.enroll = "WAIT_START"]
             no == [asked EXCEPT !.con = "CONNECTPENDING", !.retries = @ + 1]
  <2>1. nm1[j][i] = "up" /\ chan[j][i] # <<>> /\ msg = "M_CONNECT"
        /\ UNCHANGED <<postponed, finished>>
    BY <1>4 DEF ReceiveConnectRequest, Arrives
  <2>2. /\ new \in Entry
        /\ r.con = "NONE" => r = NoRow
        /\ r.con = "NONE" =>
              new = [con |-> "CONNECTPENDING", enroll |-> "NIL", immediate |-> FALSE, retries |-> 0]
        /\ r.con # "NONE" => new = r
    BY <1>2, Inserted DEF ConStatus
  <2>3. /\ new.enroll = r.enroll /\ new.retries = r.retries
        /\ new.con = "CONNECTPENDING" <=> r.con \in {"NONE", "CONNECTPENDING"}
    BY <2>2 DEF NoRow
  <2>4. new.immediate = r.immediate
    <3>1. CASE r.con # "NONE"
      BY <2>2, <3>1
    <3>2. CASE r.con = "NONE"
      <4>1. NoRow.immediate = FALSE
        BY DEF NoRow
      <4>2. new.immediate = FALSE
        BY <2>2, <3>2
      <4> QED BY <2>2, <3>2, <4>1, <4>2
    <3> QED BY <3>1, <3>2
  <2>5. new.retries \in Nat
    BY <1>2, <2>3
  <2> HIDE DEF new
  <2>6. /\ yes \in Entry /\ Becomes(yes, "ESTABLISHED", "WAIT_START", new.immediate, new.retries)
        /\ no \in Entry
        /\ Becomes(no, "CONNECTPENDING", new.enroll, new.immediate, new.retries + 1)
    BY <2>2, <2>5, Rows
  <2> HIDE DEF yes, no
  <2>7. CASE new.con # "CONNECTPENDING"
    <3>1. Turn(i, j, r, <<>>)
      BY <1>4, <2>7 DEF ReceiveConnectRequest, Ignore, new
    <3> QED BY <1>2, <2>1, <2>3, <2>7, <3>1 DEF Reaction, Signals
  <2>8. CASE new.con = "CONNECTPENDING" /\ Trusted(i, j)
    <3>1. Turn(i, j, yes, <<"M_CONNECT_R+">>)
      BY <1>3, <1>4, <2>8 DEF ReceiveConnectRequest, Authenticate, ProcessConResPosi, new, yes
    <3>2. Becomes(yes, "ESTABLISHED", "WAIT_START", r.immediate, r.retries)
      BY <2>3, <2>4, <2>6
    <3> QED BY <2>1, <2>3, <2>6, <2>8, <3>1, <3>2 DEF Reaction, Signals
  <2>9. CASE new.con = "CONNECTPENDING" /\ ~Trusted(i, j)
    <3>1. Turn(i, j, no, <<"M_CONNECT_R-">>)
      BY <1>3, <1>4, <2>9 DEF ReceiveConnectRequest, Authenticate, ProcessConResNega, new, no
    <3>2. Becomes(no, "CONNECTPENDING", r.enroll, r.immediate, r.retries + 1)
      BY <2>3, <2>4, <2>6
    <3> QED BY <2>1, <2>3, <2>6, <2>9, <3>1, <3>2 DEF Reaction, Signals
  <2> QED BY <2>7, <2>8, <2>9
<1>5. CASE ReceivePositiveConnectResponse(i, j)
  <2> DEFINE starting == [[r EXCEPT !.con = "ESTABLISHED"]
                             EXCEPT !.enroll = "WAIT_START_RESPONSE"]
  <2>1. nm1[j][i] = "up" /\ chan[j][i] # <<>> /\ msg = "M_CONNECT_R+"
        /\ UNCHANGED <<postponed, finished>>
    BY <1>5 DEF ReceivePositiveConnectResponse, Arrives
  <2>2. starting \in Entry
        /\ Becomes(starting, "ESTABLISHED", "WAIT_START_RESPONSE", r.immediate, r.retries)
    BY <1>2, Rows
  <2> HIDE DEF starting
  <2>3. CASE r.con = "AUTHENTICATING"
    <3>1. Turn(i, j, starting, <<"M_START">>)
      BY <1>5, <2>3 DEF ReceivePositiveConnectResponse, StartEnrollment, starting
    <3> QED BY <2>1, <2>2, <2>3, <3>1 DEF Reaction, Signals
  <2>4. CASE r.con # "AUTHENTICATING"
    <3>1. Turn(i, j, r, <<>>)
      BY <1>5, <2>4 DEF ReceivePositiveConnectResponse, Ignore
    <3> QED BY <1>2, <2>1, <2>4, <3>1 DEF Reaction, Signals
  <2> QED BY <2>3, <2>4
<1>6. CASE ReceiveNegativeConnectResponse(i, j)
  <2> DEFINE given == [r EXCEPT !.con = "NIL"]
             again == [[r EXCEPT !.retries = @ + 1] EXCEPT !.con = "AUTHENTICATING"]
  <2>1. nm1[j][i] = "up" /\ chan[j][i] # <<>> /\ msg = "M_CONNECT_R-"
        /\ UNCHANGED <<postponed, finished>>
    BY <1>6 DEF ReceiveNegativeConnectResponse, Arrives
  <2>2. /\ given \in Entry /\ Becomes(given, "NIL", r.enroll, r.immediate, r.retries)
        /\ again \in Entry
        /\ Becomes(again, "AUTHENTICATING", r.enroll, r.immediate, r.retries + 1)
    BY <1>2, Rows
  <2> HIDE DEF given, again
  <2>3. CASE r.con # "AUTHENTICATING"
    <3>1. Turn(i, j, r, <<>>)
      BY <1>6, <2>3 DEF ReceiveNegativeConnectResponse, Ignore
    <3> QED BY <1>2, <2>1, <2>3, <3>1 DEF Reaction, Signals
  <2>4. CASE r.con = "AUTHENTICATING" /\ MaxConRetries <= r.retries
    <3>1. Turn(i, j, given, <<>>)
      BY <1>6, <2>4 DEF ReceiveNegativeConnectResponse, given
    <3> QED BY <2>1, <2>2, <2>4, <3>1 DEF Reaction, Signals
  <2>5. CASE r.con = "AUTHENTICATING" /\ ~(MaxConRetries <= r.retries)
    <3>1. Turn(i, j, again, <<"M_CONNECT">>)
      BY <1>6, <2>5 DEF ReceiveNegativeConnectResponse, ProcessNewConReq, again
    <3> QED BY <2>1, <2>2, <2>5, <3>1 DEF Reaction, Signals
  <2> QED BY <2>3, <2>4, <2>5
<1>7. CASE ReceiveStartEnrollmentRequest(i, j)
  <2> DEFINE vouching == [r EXCEPT !.immediate = TRUE, !.enroll = "WAIT_STOP_RESPONSE"]
  <2>1. nm1[j][i] = "up" /\ chan[j][i] # <<>> /\ msg = "M_START"
        /\ UNCHANGED <<postponed, finished>>
    BY <1>7 DEF ReceiveStartEnrollmentRequest, Arrives
  <2>2. vouching \in Entry /\ Becomes(vouching, r.con, "WAIT_STOP_RESPONSE", TRUE, r.retries)
    BY <1>2, Rows
  <2> HIDE DEF vouching
  <2>3. CASE r.enroll = "WAIT_START"
    <3>1. Turn(i, j, vouching, <<"M_START_R", "M_STOP">>)
      BY <1>7, <2>3 DEF ReceiveStartEnrollmentRequest, ProcessStopEnrollmentImmediate, vouching
    <3> QED BY <2>1, <2>2, <2>3, <3>1 DEF Reaction, Signals
  <2>4. CASE r.enroll # "WAIT_START"
    <3>1. Turn(i, j, r, <<>>)
      BY <1>7, <2>4 DEF ReceiveStartEnrollmentRequest, Ignore
    <3> QED BY <1>2, <2>1, <2>4, <3>1 DEF Reaction, Signals
  <2> QED BY <2>3, <2>4
<1>8. CASE ReceiveStartEnrollmentResponse(i, j)
  <2> DEFINE started == [r EXCEPT !.enroll = "WAIT_STOP"]
  <2>1. nm1[j][i] = "up" /\ chan[j][i] # <<>> /\ msg = "M_START_R"
        /\ UNCHANGED <<postponed, finished>>
    BY <1>8 DEF ReceiveStartEnrollmentResponse, Arrives
  <2>2. started \in Entry /\ Becomes(started, r.con, "WAIT_STOP", r.immediate, r.retries)
    BY <1>2, Rows
  <2> HIDE DEF started
  <2>3. CASE r.enroll = "WAIT_START_RESPONSE"
    <3>1. Turn(i, j, started, <<>>)
      BY <1>8, <2>3 DEF ReceiveStartEnrollmentResponse, started
    <3> QED BY <2>1, <2>2, <2>3, <3>1 DEF Reaction, Signals
  <2>4. CASE r.enroll # "WAIT_START_RESPONSE"
    <3>1. Turn(i, j, r, <<>>)
      BY <1>8, <2>4 DEF ReceiveStartEnrollmentResponse, Ignore
    <3> QED BY <1>2, <2>1, <2>4, <3>1 DEF Reaction, Signals
  <2> QED BY <2>3, <2>4
<1>9. CASE ReceiveStopEnrollmentRequest(i, j)
  <2> DEFINE read == [r EXCEPT !.immediate = TRUE, !.enroll = "WAIT_READ_RESPONSE"]
             told == [read EXCEPT !.enroll = "ENROLLED"]
  <2>1. nm1[j][i] = "up" /\ chan[j][i] # <<>> /\ msg = "M_STOP"
    BY <1>9 DEF ReceiveStopEnrollmentRequest, Arrives
  <2>2. told \in Entry /\ Becomes(told, r.con, "ENROLLED", TRUE, r.retries)
    BY <1>2, Rows
  <2>3. read.immediate
    BY <1>2 DEF Entry
  <2> HIDE DEF told
  <2>4. CASE r.enroll = "WAIT_STOP"
    <3>1. Turn(i, j, told, <<"M_STOP_R">>) /\ SignalizeEnrollmentFinished(i, j)
      BY <1>9, <2>3, <2>4
         DEF ReceiveStopEnrollmentRequest, ProcessStopEnrollmentResponse, told
    <3> QED BY <2>1, <2>2, <2>4, <3>1 DEF Reaction, Signals
  <2>5. CASE r.enroll # "WAIT_STOP"
    <3>1. Turn(i, j, r, <<>>) /\ UNCHANGED <<postponed, finished>>
      BY <1>9, <2>5 DEF ReceiveStopEnrollmentRequest, Ignore
    <3> QED BY <1>2, <2>1, <2>5, <3>1 DEF Reaction, Signals
  <2> QED BY <2>4, <2>5
<1>10. CASE ReceiveStopEnrollmentResponse(i, j)
  <2> DEFINE confirmed == [r EXCEPT !.enroll = "ENROLLED"]
  <2>1. nm1[j][i] = "up" /\ chan[j][i] # <<>> /\ msg = "M_STOP_R"
        /\ UNCHANGED <<postponed, finished>>
    BY <1>10 DEF ReceiveStopEnrollmentResponse, Arrives
  <2>2. confirmed \in Entry /\ Becomes(confirmed, r.con, "ENROLLED", r.immediate, r.retries)
    BY <1>2, Rows
  <2>3. r.enroll = "WAIT_STOP_RESPONSE" => r.immediate
    BY <1>2 DEF RowFits
  <2> HIDE DEF confirmed
  <2>4. CASE r.enroll = "WAIT_STOP_RESPONSE"
    <3>1. Turn(i, j, confirmed, <<>>)
      BY <1>10, <2>3, <2>4 DEF ReceiveStopEnrollmentResponse, confirmed
    <3> QED BY <2>1, <2>2, <2>4, <3>1 DEF Reaction, Signals
  <2>5. CASE r.enroll # "WAIT_STOP_RESPONSE"
    <3>1. Turn(i, j, r, <<>>)
      BY <1>10, <2>5 DEF ReceiveStopEnrollmentResponse, Ignore
    <3> QED BY <1>2, <2>1, <2>5, <3>1 DEF Reaction, Signals
  <2> QED BY <2>4, <2>5
<1> QED
  BY <1>4, <1>5, <1>6, <1>7, <1>8, <1>9, <1>10 DEF Receive

-----------------------------------------------------------------------------
(* What a step leaves alone.                                                 *)

\* One row and the messages of one pair change.
LEMMA TurnFrame ==
    ASSUME Typed, NEW i \in IPCPs, NEW j \in IPCPs, i # j, chan[j][i] # <<>>,
           NEW row \in Entry, NEW out \in Seq(Message), Turn(i, j, row, out)
    PROVE  /\ StateTable' \in [IPCPs -> [IPCPs -> Entry]]
           /\ chan' \in [IPCPs -> [IPCPs -> Seq(Message)]]
           /\ StateTable'[i][j] = row
           /\ chan'[j][i] = Tail(chan[j][i])
           /\ chan'[i][j] = chan[i][j] \o out
           /\ \A p, q \in IPCPs : p # i \/ q # j => StateTable'[p][q] = StateTable[p][q]
           /\ \A p, q \in IPCPs : (p # i \/ q # j) /\ (p # j \/ q # i) =>
                 chan'[p][q] = chan[p][q]
<1>1. /\ chan[i][j] \o out \in Seq(Message)
      /\ Tail(chan[j][i]) \in Seq(Message)
  <2>1. chan[i][j] \in Seq(Message) /\ chan[j][i] \in Seq(Message)
    BY DEF Typed
  <2> QED BY <2>1, Sent, Received
<1>2. /\ StateTable' = [StateTable EXCEPT ![i][j] = row]
      /\ chan' = [chan EXCEPT ![j][i] = Tail(chan[j][i]), ![i][j] = chan[i][j] \o out]
  BY DEF Turn, SetRow, Typed
<1> DEFINE c == chan[i][j] \o out
           d == Tail(chan[j][i])
<1> HIDE DEF c, d
<1>3. c \in Seq(Message) /\ d \in Seq(Message)
  BY <1>1 DEF c, d
<1>4. chan' = [chan EXCEPT ![j][i] = d, ![i][j] = c]
  BY <1>2 DEF c, d
<1>5. /\ StateTable' \in [IPCPs -> [IPCPs -> Entry]]
      /\ StateTable'[i][j] = row
      /\ \A p, q \in IPCPs : p # i \/ q # j => StateTable'[p][q] = StateTable[p][q]
  BY <1>2 DEF Typed
<1>6. /\ chan' \in [IPCPs -> [IPCPs -> Seq(Message)]]
      /\ chan'[j][i] = d
      /\ chan'[i][j] = c
      /\ \A p, q \in IPCPs : (p # i \/ q # j) /\ (p # j \/ q # i) =>
            chan'[p][q] = chan[p][q]
  BY <1>3, <1>4 DEF Typed
<1> QED BY <1>5, <1>6 DEF c, d

LEMMA StartFrame ==
    ASSUME Typed, NEW i \in IPCPs, NEW j \in IPCPs, StartCACE(i, j), RowFits(StateTable[i][j])
    PROVE  /\ StateTable' \in [IPCPs -> [IPCPs -> Entry]]
           /\ chan' \in [IPCPs -> [IPCPs -> Seq(Message)]]
           /\ StateTable'[i][j] = Insert(StateTable[i][j], "AUTHENTICATING")
           /\ chan'[i][j] = Append(chan[i][j], "M_CONNECT")
           /\ \A p, q \in IPCPs : p # i \/ q # j =>
                 StateTable'[p][q] = StateTable[p][q] /\ chan'[p][q] = chan[p][q]
<1> DEFINE row == Insert(StateTable[i][j], "AUTHENTICATING")
           c == Append(chan[i][j], "M_CONNECT")
<1>1. row \in Entry /\ c \in Seq(Message)
  BY Inserted DEF Typed, ConStatus, Message
<1>2. StateTable' = [StateTable EXCEPT ![i][j] = row]
  BY DEF StartCACE, SetRow
<1>3. chan' = [chan EXCEPT ![i][j] = c]
  BY DEF StartCACE, Signalize, Typed
<1> HIDE DEF row, c
<1>4. /\ StateTable' \in [IPCPs -> [IPCPs -> Entry]]
      /\ StateTable'[i][j] = row
      /\ \A p, q \in IPCPs : p # i \/ q # j => StateTable'[p][q] = StateTable[p][q]
  BY <1>1, <1>2 DEF Typed
<1>5. /\ chan' \in [IPCPs -> [IPCPs -> Seq(Message)]]
      /\ chan'[i][j] = c
      /\ \A p, q \in IPCPs : p # i \/ q # j => chan'[p][q] = chan[p][q]
  BY <1>1, <1>3 DEF Typed
<1> QED BY <1>4, <1>5 DEF row, c

LEMMA AgreedFrame ==
    ASSUME NEW p \in IPCPs, NEW q \in IPCPs, Agreed(p, q), lost' = 0 => lost = 0, auth' = auth,
           StateTable'[p][q] = StateTable[p][q], StateTable'[q][p] = StateTable[q][p],
           chan'[p][q] = chan[p][q], chan'[q][p] = chan[q][p]
    PROVE  Agreed(p, q)'
BY DEF Agreed, Trusted

-----------------------------------------------------------------------------
(* The invariant holds at first, and every step keeps it.                    *)

LEMMA Bounds ==
    /\ MaxConRetries \in Nat /\ MaxAsk \in Nat /\ MaxLoss \in Nat
    /\ \A i, j : <<i, j>> \in Asked => i # j
<1>1. MaxConRetries \in Nat /\ MaxAsk \in Nat /\ MaxLoss \in Nat
  BY EnrollmentAssumption, Zenon
<1>2. Asked \subseteq {p \in IPCPs \X IPCPs : p[1] # p[2]}
  BY EnrollmentAssumption, Zenon
<1>3. ASSUME NEW i, NEW j, <<i, j>> \in Asked
      PROVE  i # j
  <2>1. <<i, j>>[1] # <<i, j>>[2]
    BY <1>2, <1>3
  <2> QED BY <2>1
<1> QED BY <1>1, <1>3

LEMMA InitIInv == Init => IInv
<1> SUFFICES ASSUME Init
             PROVE  IInv
  OBVIOUS
<1>1. PICK pairs \in SUBSET Configured : StateTable = ParseConfig(pairs)
  BY DEF Init
<1> DEFINE enrolled == [NoRow EXCEPT !.con = "ESTABLISHED", !.enroll = "ENROLLED"]
<1>2. /\ NoRow \in Entry /\ RowFits(NoRow) /\ NoRow.con = "NONE" /\ NoRow.enroll = "NIL"
      /\ enrolled \in Entry /\ RowFits(enrolled)
      /\ enrolled.con = "ESTABLISHED" /\ enrolled.enroll = "ENROLLED"
  BY DEF NoRow, Entry, RowFits, ConStatus, EnrollStatus
<1> HIDE DEF enrolled
<1>3. \A i, j \in IPCPs :
         StateTable[i][j] = IF i # j /\ {i, j} \in pairs THEN enrolled ELSE NoRow
  BY <1>1 DEF ParseConfig, enrolled
<1>4. \A i, j \in IPCPs : StateTable[i][j] = StateTable[j][i]
  <2>1. \A i, j \in IPCPs : {i, j} = {j, i}
    OBVIOUS
  <2> QED BY <1>3, <2>1
<1>5. /\ \A i, j \in IPCPs : chan[i][j] = <<>> /\ lower[i][j] = "idle" /\ asks[i][j] = 0
      /\ \A i, j \in IPCPs : nm1[i][j] # "pending" /\ nm1[i][j] = nm1[j][i]
      /\ \A i \in IPCPs : postponed[i] = {}
  BY DEF Init, ForAll
<1>6. Typed
  <2>1. StateTable \in [IPCPs -> [IPCPs -> Entry]]
    BY <1>1, <1>2 DEF ParseConfig, enrolled
  <2>2. <<>> \in Seq(Message)
    OBVIOUS
  <2>3. chan \in [IPCPs -> [IPCPs -> Seq(Message)]]
    BY <2>2 DEF Init, ForAll
  <2>4. nm1 \in [IPCPs -> [IPCPs -> {"none", "pending", "up"}]]
    <3>1. ForAll("none") \in [IPCPs -> [IPCPs -> {"none", "pending", "up"}]]
      BY DEF ForAll
    <3>2. ForAll("up") \in [IPCPs -> [IPCPs -> {"none", "pending", "up"}]]
      BY DEF ForAll
    <3> QED BY <3>1, <3>2 DEF Init
  <2>5. lower \in [IPCPs -> [IPCPs -> {"idle", "request", "response", "refused"}]]
    BY DEF Init, ForAll
  <2>6. asks \in [IPCPs -> [IPCPs -> 0 .. MaxAsk]] /\ lost \in 0 .. MaxLoss
    <3>1. 0 \in 0 .. MaxAsk /\ 0 \in 0 .. MaxLoss
      BY Bounds
    <3> QED BY <3>1 DEF Init, ForAll
  <2>7. postponed \in [IPCPs -> SUBSET IPCPs] /\ finished \in [IPCPs -> SUBSET IPCPs]
    BY DEF Init
  <2> QED BY <2>1, <2>3, <2>4, <2>5, <2>6, <2>7 DEF Init, Typed
<1>7. \A i \in IPCPs : Alone(i)
  BY <1>3, <1>5 DEF Alone
<1>8. ASSUME NEW i \in IPCPs, NEW j \in IPCPs
      PROVE  Agreed(i, j) /\ FlowComes(i, j) /\ Told(i, j)
  <2>1. \A x : ~On(<<>>, x) /\ Once(<<>>, x)
    BY Short
  <2>2. StateTable[i][j] = StateTable[j][i] /\ StateTable[i][j] \in {enrolled, NoRow}
    BY <1>3, <1>4
  <2>3. Agreed(i, j)
    BY <1>2, <1>5, <2>1, <2>2 DEF Agreed, Ahead, Awaited
  <2>4. FlowComes(i, j)
    BY <1>5 DEF FlowComes
  <2>5. Told(i, j)
    BY <1>5, <2>1 DEF Told
  <2> QED BY <2>3, <2>4, <2>5
<1> QED BY <1>6, <1>7, <1>8 DEF IInv

LEMMA ReceiveKeeps ==
    ASSUME IInv, NEW i \in IPCPs, NEW j \in IPCPs, Receive(i, j)
    PROVE  IInv'
<1> DEFINE r == StateTable[i][j]
           s == StateTable[j][i]
           c == chan[i][j]
           d == chan[j][i]
<1>1. /\ Typed /\ r \in Entry /\ s \in Entry /\ c \in Seq(Message) /\ d \in Seq(Message)
      /\ auth \in Credentials
  BY DEF IInv, Typed
<1>2. RowFits(r) /\ RowFits(s) /\ Ahead(r, s, c, d) /\ Ahead(s, r, d, c)
  BY DEF IInv, Agreed
<1>3. /\ d # <<>> /\ Signals(i, j, r, Head(d))
      /\ UNCHANGED <<rigid, nm1, lower, asks, lost>>
  BY <1>1, <1>2, ReceiveReacts
<1>p. PICK row \in Entry : \E out : Reaction(Trusted(i, j), r, Head(d), row, out)
                                /\ Turn(i, j, row, out)
  BY <1>1, <1>2, ReceiveReacts, Zenon
<1>4. PICK out : Reaction(Trusted(i, j), r, Head(d), row, out) /\ Turn(i, j, row, out)
  BY <1>p
<1>5. i # j
  BY <1>3 DEF IInv, Alone
<1>6. out \in Seq(Message) /\ Trusted(i, j) \in BOOLEAN
  BY <1>4, ReactionType DEF Trusted
<1>7. /\ StateTable' \in [IPCPs -> [IPCPs -> Entry]]
      /\ chan' \in [IPCPs -> [IPCPs -> Seq(Message)]]
      /\ StateTable'[i][j] = row /\ StateTable'[j][i] = s
      /\ chan'[j][i] = Tail(d) /\ chan'[i][j] = c \o out
      /\ \A p, q \in IPCPs : p # i \/ q # j => StateTable'[p][q] = StateTable[p][q]
      /\ \A p, q \in IPCPs : (p # i \/ q # j) /\ (p # j \/ q # i) =>
            chan'[p][q] = chan[p][q]
  BY <1>1, <1>3, <1>4, <1>5, <1>6, TurnFrame
<1>8. RowFits(row) /\ Ahead(row, s, c \o out, Tail(d)) /\ Ahead(s, row, Tail(d), c \o out)
  BY <1>1, <1>2, <1>3, <1>4, <1>6, ReactionAhead
<1>9. ASSUME lost = 0, Trusted(i, j)
      PROVE  Awaited(row, s, c \o out, Tail(d)) /\ Awaited(s, row, Tail(d), c \o out)
  <2>1. Awaited(r, s, c, d)
    BY <1>9 DEF IInv, Agreed
  <2>2. Awaited(s, r, d, c)
    BY <1>1, <1>9, TrustIsMutual DEF IInv, Agreed
  <2>3. Reaction(TRUE, r, Head(d), row, out)
    BY <1>4, <1>9 DEF Reaction
  <2> QED BY <1>1, <1>2, <1>3, <2>1, <2>2, <2>3, ReactionAwaited
<1>10. /\ lost' = lost /\ auth' = auth
       /\ Trusted(i, j)' = Trusted(i, j) /\ Trusted(j, i)' = Trusted(j, i)
  BY <1>3 DEF rigid, Trusted
<1>11. ASSUME NEW p \in IPCPs, NEW q \in IPCPs
       PROVE  Agreed(p, q)'
  <2>1. CASE p = i /\ q = j
    BY <1>7, <1>8, <1>9, <1>10, <2>1 DEF Agreed
  <2>2. CASE p = j /\ q = i
    BY <1>1, <1>2, <1>7, <1>8, <1>9, <1>10, <2>2, TrustIsMutual DEF Agreed
  <2>3. CASE (p # i \/ q # j) /\ (p # j \/ q # i)
    BY <1>7, <1>10, <2>3, AgreedFrame DEF IInv
  <2> QED BY <2>1, <2>2, <2>3
<1>12. /\ r.con # "NONE" => row.con # "NONE"
       /\ row.enroll = "ENROLLED" =>
             \/ r.enroll = "ENROLLED"
             \/ Head(d) = "M_STOP" /\ r.enroll = "WAIT_STOP"
             \/ Head(d) = "M_STOP_R"
  BY <1>2, <1>4 DEF Reaction, RowFits, Becomes
<1>13. On(out, "M_STOP_R") => Head(d) = "M_STOP" /\ r.enroll = "WAIT_STOP"
  <2>1. /\ ~On(<<>>, "M_STOP_R") /\ ~On(<<"M_CONNECT">>, "M_STOP_R")
        /\ ~On(<<"M_CONNECT_R+">>, "M_STOP_R") /\ ~On(<<"M_CONNECT_R-">>, "M_STOP_R")
        /\ ~On(<<"M_START">>, "M_STOP_R") /\ ~On(<<"M_START_R", "M_STOP">>, "M_STOP_R")
    BY Short
  <2> QED BY <1>4, <2>1 DEF Reaction
<1>14. /\ postponed' \in [IPCPs -> SUBSET IPCPs] /\ finished' \in [IPCPs -> SUBSET IPCPs]
       /\ \A p \in IPCPs : postponed'[p] \subseteq postponed[p] /\ finished[p] \subseteq finished'[p]
       /\ Head(d) = "M_STOP" /\ r.enroll = "WAIT_STOP" =>
             j \in finished'[i] /\ j \notin postponed'[i]
  <2>1. CASE Head(d) = "M_STOP" /\ r.enroll = "WAIT_STOP"
    <3>1. /\ finished' = [finished EXCEPT ![i] = finished[i] \cup {j}]
          /\ postponed' = [postponed EXCEPT ![i] = postponed[i] \ {j}]
      BY <1>1, <1>3, <2>1 DEF Signals, SignalizeEnrollmentFinished, Typed
    <3>2. finished \in [IPCPs -> SUBSET IPCPs] /\ postponed \in [IPCPs -> SUBSET IPCPs]
      BY <1>1 DEF Typed
    <3> QED BY <3>1, <3>2
  <2>2. CASE ~(Head(d) = "M_STOP" /\ r.enroll = "WAIT_STOP")
    BY <1>1, <1>3, <2>2 DEF Signals, Typed
  <2> QED BY <2>1, <2>2
<1>15. Typed'
  BY <1>1, <1>3, <1>7, <1>14 DEF Typed, rigid
<1>16. ASSUME NEW p \in IPCPs
       PROVE  Alone(p)'
  BY <1>3, <1>5, <1>7 DEF IInv, Alone
<1>17. ASSUME NEW p \in IPCPs, NEW q \in IPCPs
       PROVE  FlowComes(p, q)'
  <2>1. StateTable[p][q].con # "NONE" => StateTable'[p][q].con # "NONE"
    BY <1>7, <1>12
  <2> QED BY <1>3, <2>1 DEF IInv, FlowComes
<1>18. ASSUME NEW p \in IPCPs, NEW q \in IPCPs
       PROVE  Told(p, q)'
  <2>1. Told(p, q) /\ Told(i, j) /\ Told(j, i)
    BY DEF IInv
  <2>2. /\ \A x : On(d, x) <=> x = Head(d) \/ On(Tail(d), x)
        /\ \A x : On(c \o out, x) <=> On(c, x) \/ On(out, x)
    BY <1>1, <1>3, <1>6, Received, Sent
  <2>3. CASE p = i /\ q = j
    BY <1>7, <1>12, <1>13, <1>14, <2>1, <2>2, <2>3 DEF Told
  <2>4. CASE p = j /\ q = i
    BY <1>7, <1>14, <2>1, <2>2, <2>4 DEF Told
  <2>5. CASE (p # i \/ q # j) /\ (p # j \/ q # i)
    BY <1>7, <1>14, <2>1, <2>5 DEF Told
  <2> QED BY <2>3, <2>4, <2>5
<1> QED
  BY <1>11, <1>15, <1>16, <1>17, <1>18 DEF IInv

\* A connect request is sent, and the row that waits for the answer is there.
LEMMA StartAgrees ==
    ASSUME IInv, NEW i \in IPCPs, NEW j \in IPCPs, i # j, StartCACE(i, j),
           UNCHANGED <<rigid, lost>>
    PROVE  /\ StateTable' \in [IPCPs -> [IPCPs -> Entry]]
           /\ chan' \in [IPCPs -> [IPCPs -> Seq(Message)]]
           /\ StateTable'[i][j].con # "NONE"
           /\ \A p, q \in IPCPs :
                 /\ p # i \/ q # j => StateTable'[p][q] = StateTable[p][q]
                 /\ p # i \/ q # j => chan'[p][q] = chan[p][q]
                 /\ StateTable'[p][q].enroll = StateTable[p][q].enroll
                 /\ On(chan'[p][q], "M_STOP_R") => On(chan[p][q], "M_STOP_R")
                 /\ Agreed(p, q)'
<1> DEFINE r == StateTable[i][j]
           s == StateTable[j][i]
           c == chan[i][j]
           d == chan[j][i]
           row == Insert(r, "AUTHENTICATING")
           f == Append(c, "M_CONNECT")
<1>1. /\ Typed /\ r \in Entry /\ s \in Entry /\ c \in Seq(Message) /\ d \in Seq(Message)
      /\ auth \in Credentials
  BY DEF IInv, Typed
<1>2. RowFits(r) /\ RowFits(s) /\ Ahead(r, s, c, d) /\ Ahead(s, r, d, c)
  BY DEF IInv, Agreed
<1>3. /\ StateTable' \in [IPCPs -> [IPCPs -> Entry]]
      /\ chan' \in [IPCPs -> [IPCPs -> Seq(Message)]]
      /\ StateTable'[i][j] = row /\ StateTable'[j][i] = s
      /\ chan'[i][j] = f /\ chan'[j][i] = d
      /\ \A p, q \in IPCPs : p # i \/ q # j =>
            StateTable'[p][q] = StateTable[p][q] /\ chan'[p][q] = chan[p][q]
  BY <1>1, <1>2, StartFrame
<1>4. /\ row.enroll = r.enroll /\ row.con # "NONE"
      /\ \A x : On(f, x) <=> On(c, x) \/ x = "M_CONNECT"
      /\ RowFits(row) /\ Ahead(row, s, f, d) /\ Ahead(s, row, d, f)
      /\ Awaited(r, s, c, d) /\ Awaited(s, r, d, c) =>
            Awaited(row, s, f, d) /\ Awaited(s, row, d, f)
  BY <1>1, <1>2, ConnectKeeps
<1>5. /\ lost' = lost /\ auth' = auth
      /\ Trusted(i, j)' = Trusted(i, j) /\ Trusted(j, i)' = Trusted(j, i)
      /\ Trusted(i, j) <=> Trusted(j, i)
  BY <1>1, TrustIsMutual DEF rigid, Trusted
<1>6. lost = 0 /\ Trusted(i, j) => Awaited(r, s, c, d) /\ Awaited(s, r, d, c)
  BY <1>5 DEF IInv, Agreed
<1> HIDE DEF row, f
<1>7. ASSUME NEW p \in IPCPs, NEW q \in IPCPs
      PROVE  Agreed(p, q)'
  <2>1. CASE p = i /\ q = j
    BY <1>3, <1>4, <1>5, <1>6, <2>1 DEF Agreed
  <2>2. CASE p = j /\ q = i
    BY <1>2, <1>3, <1>4, <1>5, <1>6, <2>2 DEF Agreed
  <2>3. CASE (p # i \/ q # j) /\ (p # j \/ q # i)
    <3>1. /\ StateTable'[p][q] = StateTable[p][q] /\ StateTable'[q][p] = StateTable[q][p]
          /\ chan'[p][q] = chan[p][q] /\ chan'[q][p] = chan[q][p]
      BY <1>3, <2>3
    <3> QED BY <1>5, <3>1, AgreedFrame DEF IInv
  <2> QED BY <2>1, <2>2, <2>3
<1>8. ASSUME NEW p \in IPCPs, NEW q \in IPCPs
      PROVE  /\ StateTable'[p][q].enroll = StateTable[p][q].enroll
             /\ On(chan'[p][q], "M_STOP_R") => On(chan[p][q], "M_STOP_R")
  BY <1>3, <1>4
<1> QED
  BY <1>3, <1>4, <1>7, <1>8

\* Whoever asks for the flow: a request is sent at once, or the allocation begins.
LEMMA AskKeeps ==
    ASSUME IInv, NEW i \in IPCPs, NEW j \in IPCPs, MgmtAllocateRequest(i, j),
           UNCHANGED <<rigid, finished, lost>>,
           postponed' \in [IPCPs -> SUBSET IPCPs],
           \A p, q \in IPCPs : q \in postponed'[p] =>
              q \in postponed[p] \/ StateTable[p][q].enroll # "ENROLLED"
    PROVE  IInv'
<1>1. Typed /\ auth' = auth /\ first' = first /\ lost' = lost /\ finished' = finished
  BY DEF IInv, rigid
<1>2. i # j /\ asks[i][j] < MaxAsk /\ asks' = [asks EXCEPT ![i][j] = @ + 1]
  BY Bounds DEF MgmtAllocateRequest
<1>3. /\ asks' \in [IPCPs -> [IPCPs -> 0 .. MaxAsk]]
      /\ \A p, q \in IPCPs : p # i \/ q # j => asks'[p][q] = asks[p][q]
  <2>1. asks \in [IPCPs -> [IPCPs -> 0 .. MaxAsk]]
    BY <1>1 DEF Typed
  <2>2. asks[i][j] + 1 \in 0 .. MaxAsk
    BY <1>2, <2>1, Bounds
  <2>3. asks' = [asks EXCEPT ![i][j] = asks[i][j] + 1]
    BY <1>2, <2>1
  <2> QED BY <2>1, <2>2, <2>3
<1>4. CASE HasFlow(i, j) /\ StartCACE(i, j) /\ UNCHANGED <<nm1, lower>>
  <2>1. UNCHANGED <<rigid, lost>>
    OBVIOUS
  <2>2. /\ StateTable' \in [IPCPs -> [IPCPs -> Entry]]
        /\ chan' \in [IPCPs -> [IPCPs -> Seq(Message)]]
        /\ StateTable'[i][j].con # "NONE"
        /\ \A p, q \in IPCPs :
              /\ p # i \/ q # j => StateTable'[p][q] = StateTable[p][q]
              /\ p # i \/ q # j => chan'[p][q] = chan[p][q]
              /\ StateTable'[p][q].enroll = StateTable[p][q].enroll
              /\ On(chan'[p][q], "M_STOP_R") => On(chan[p][q], "M_STOP_R")
              /\ Agreed(p, q)'
    BY <1>2, <1>4, <2>1, StartAgrees
  <2>3. Typed'
    BY <1>1, <1>3, <1>4, <2>2 DEF Typed
  <2>4. ASSUME NEW p \in IPCPs
        PROVE  Alone(p)'
    <3>1. StateTable'[p][p] = StateTable[p][p] /\ chan'[p][p] = chan[p][p]
      BY <1>2, <2>2
    <3> QED BY <1>4, <3>1 DEF IInv, Alone
  <2>5. ASSUME NEW p \in IPCPs, NEW q \in IPCPs
        PROVE  FlowComes(p, q)'
    <3>1. FlowComes(p, q)
      BY DEF IInv
    <3>2. asks'[p][q] > 0 => /\ StateTable'[p][q].con # "NONE" \/ lower[p][q] # "idle"
                             /\ nm1[p][q] # "none"
      <4>1. CASE p = i /\ q = j
        BY <1>4, <2>2, <4>1 DEF HasFlow
      <4>2. CASE p # i \/ q # j
        <5>1. StateTable'[p][q] = StateTable[p][q] /\ asks'[p][q] = asks[p][q]
          BY <1>3, <2>2, <4>2
        <5> QED BY <3>1, <5>1 DEF FlowComes
      <4> QED BY <4>1, <4>2
    <3> QED BY <1>4, <3>1, <3>2 DEF FlowComes
  <2>6. ASSUME NEW p \in IPCPs, NEW q \in IPCPs
        PROVE  Told(p, q)'
    <3>1. /\ StateTable'[p][q].enroll = StateTable[p][q].enroll
          /\ On(chan'[p][q], "M_STOP_R") => On(chan[p][q], "M_STOP_R")
      BY <2>2
    <3>2. Told(p, q)
      BY DEF IInv
    <3> QED BY <1>1, <3>1, <3>2 DEF Told
  <2> QED BY <2>2, <2>3, <2>4, <2>5, <2>6 DEF IInv
<1>5. CASE /\ ~HasFlow(i, j)
           /\ nm1' = [nm1 EXCEPT ![i][j] = "pending"]
           /\ lower' = [lower EXCEPT ![i][j] = "request"]
           /\ UNCHANGED <<StateTable, chan>>
  <2>1. /\ nm1' \in [IPCPs -> [IPCPs -> {"none", "pending", "up"}]]
        /\ nm1'[i][j] = "pending"
        /\ \A p, q \in IPCPs : p # i \/ q # j => nm1'[p][q] = nm1[p][q]
    BY <1>1, <1>5 DEF Typed
  <2>2. /\ lower' \in [IPCPs -> [IPCPs -> {"idle", "request", "response", "refused"}]]
        /\ lower'[i][j] = "request"
        /\ \A p, q \in IPCPs : p # i \/ q # j => lower'[p][q] = lower[p][q]
    BY <1>1, <1>5 DEF Typed
  <2>3. Typed'
    BY <1>1, <1>3, <1>5, <2>1, <2>2 DEF Typed
  <2>4. ASSUME NEW p \in IPCPs
        PROVE  Alone(p)'
    BY <1>2, <1>5, <2>2 DEF IInv, Alone
  <2>5. nm1[i][j] = "none"
    BY <1>5 DEF HasFlow
  <2>6. ASSUME NEW p \in IPCPs, NEW q \in IPCPs
        PROVE  Agreed(p, q)'
    BY <1>1, <1>5, AgreedFrame DEF IInv
  <2>7. ASSUME NEW p \in IPCPs, NEW q \in IPCPs
        PROVE  FlowComes(p, q)'
    <3>1. FlowComes(p, q) /\ FlowComes(i, j)
      BY DEF IInv
    <3>2. CASE p = i /\ q = j
      BY <1>2, <2>1, <2>2, <2>5, <3>1, <3>2 DEF FlowComes
    <3>3. CASE p = j /\ q = i
      BY <1>2, <1>3, <1>5, <2>1, <2>2, <2>5, <3>1, <3>3 DEF FlowComes
    <3>4. CASE (p # i \/ q # j) /\ (p # j \/ q # i)
      BY <1>3, <1>5, <2>1, <2>2, <3>1, <3>4 DEF FlowComes
    <3> QED BY <3>2, <3>3, <3>4
  <2>8. ASSUME NEW p \in IPCPs, NEW q \in IPCPs
        PROVE  Told(p, q)'
    BY <1>1, <1>5 DEF IInv, Told
  <2> QED BY <2>3, <2>4, <2>6, <2>7, <2>8 DEF IInv
<1> QED BY <1>4, <1>5 DEF MgmtAllocateRequest

LEMMA AllocateRequestKeeps ==
    ASSUME IInv, NEW i \in IPCPs, NEW j \in IPCPs, AllocateRequest(i, j)
    PROVE  IInv'
<1>1. /\ postponed \in [IPCPs -> SUBSET IPCPs]
      /\ postponed' = [postponed EXCEPT ![i] = postponed[i] \cup {j}]
  BY DEF IInv, Typed, AllocateRequest
<1>2. postponed' \in [IPCPs -> SUBSET IPCPs]
  BY <1>1
<1>3. \A q \in IPCPs : StateTable[i][q].enroll # "ENROLLED"
  BY DEF AllocateRequest, IsEnrolled
<1>4. \A p, q \in IPCPs : q \in postponed'[p] =>
         q \in postponed[p] \/ StateTable[p][q].enroll # "ENROLLED"
  BY <1>1, <1>3
<1>5. MgmtAllocateRequest(i, j) /\ UNCHANGED <<rigid, finished, lost>>
  BY DEF AllocateRequest
<1> QED BY <1>2, <1>4, <1>5, AskKeeps

LEMMA ConnectActionKeeps ==
    ASSUME IInv, NEW i \in IPCPs, NEW j \in IPCPs, Connect(i, j)
    PROVE  IInv'
<1>1. postponed \in [IPCPs -> SUBSET IPCPs] /\ postponed' = postponed
  BY DEF IInv, Typed, Connect
<1>2. MgmtAllocateRequest(i, j) /\ UNCHANGED <<rigid, finished, lost>>
  BY DEF Connect
<1> QED BY <1>1, <1>2, AskKeeps

LEMMA CreateKeeps ==
    ASSUME IInv, NEW i \in IPCPs, NEW j \in IPCPs, CreateNM1FlowWithoutAllocate(i, j)
    PROVE  IInv'
<1>1. /\ Typed /\ i # j
      /\ lower[i][j] = "request" /\ lower' = [lower EXCEPT ![i][j] = "response"]
      /\ nm1' = [nm1 EXCEPT ![j][i] = "up"]
      /\ UNCHANGED <<rigid, StateTable, chan, asks, postponed, finished, lost>>
  BY DEF IInv, Alone, CreateNM1FlowWithoutAllocate
<1>2. /\ nm1' \in [IPCPs -> [IPCPs -> {"none", "pending", "up"}]]
      /\ nm1'[j][i] = "up"
      /\ \A p, q \in IPCPs : p # j \/ q # i => nm1'[p][q] = nm1[p][q]
  BY <1>1 DEF Typed
<1>3. /\ lower' \in [IPCPs -> [IPCPs -> {"idle", "request", "response", "refused"}]]
      /\ lower'[i][j] = "response"
      /\ \A p, q \in IPCPs : p # i \/ q # j => lower'[p][q] = lower[p][q]
  BY <1>1 DEF Typed
<1>4. Typed'
  BY <1>1, <1>2, <1>3 DEF Typed, rigid
<1>5. ASSUME NEW p \in IPCPs
      PROVE  Alone(p)'
  BY <1>1, <1>3 DEF IInv, Alone
<1>6. ASSUME NEW p \in IPCPs, NEW q \in IPCPs
      PROVE  Agreed(p, q)'
  BY <1>1, AgreedFrame DEF IInv, rigid
<1>7. ASSUME NEW p \in IPCPs, NEW q \in IPCPs
      PROVE  FlowComes(p, q)'
  <2>1. FlowComes(p, q) /\ FlowComes(i, j)
    BY DEF IInv
  <2>2. CASE p = i /\ q = j
    BY <1>1, <1>2, <1>3, <2>1, <2>2 DEF FlowComes
  <2>3. CASE p = j /\ q = i
    BY <1>1, <1>2, <1>3, <2>1, <2>3 DEF FlowComes
  <2>4. CASE (p # i \/ q # j) /\ (p # j \/ q # i)
    BY <1>1, <1>2, <1>3, <2>1, <2>4 DEF FlowComes
  <2> QED BY <2>2, <2>3, <2>4
<1>8. ASSUME NEW p \in IPCPs, NEW q \in IPCPs
      PROVE  Told(p, q)'
  BY <1>1 DEF IInv, Told
<1> QED
  BY <1>4, <1>5, <1>6, <1>7, <1>8 DEF IInv

LEMMA PostKeeps ==
    ASSUME IInv, NEW i \in IPCPs, NEW j \in IPCPs, PostNM1FlowAllocation(i, j)
    PROVE  IInv'
<1>1. /\ Typed /\ i # j
      /\ lower[i][j] = "response" /\ lower' = [lower EXCEPT ![i][j] = "idle"]
      /\ nm1' = [nm1 EXCEPT ![i][j] = "up"]
      /\ StartCACE(i, j)
      /\ UNCHANGED <<rigid, asks, postponed, finished, lost>>
  BY DEF IInv, Alone, PostNM1FlowAllocation
<1>2. /\ nm1' \in [IPCPs -> [IPCPs -> {"none", "pending", "up"}]]
      /\ nm1'[i][j] = "up"
      /\ \A p, q \in IPCPs : p # i \/ q # j => nm1'[p][q] = nm1[p][q]
  BY <1>1 DEF Typed
<1>3. /\ lower' \in [IPCPs -> [IPCPs -> {"idle", "request", "response", "refused"}]]
      /\ lower'[i][j] = "idle"
      /\ \A p, q \in IPCPs : p # i \/ q # j => lower'[p][q] = lower[p][q]
  BY <1>1 DEF Typed
<1>4. UNCHANGED <<rigid, lost>>
  BY <1>1
<1>5. /\ StateTable' \in [IPCPs -> [IPCPs -> Entry]]
      /\ chan' \in [IPCPs -> [IPCPs -> Seq(Message)]]
      /\ StateTable'[i][j].con # "NONE"
      /\ \A p, q \in IPCPs :
            /\ p # i \/ q # j => StateTable'[p][q] = StateTable[p][q]
            /\ p # i \/ q # j => chan'[p][q] = chan[p][q]
            /\ StateTable'[p][q].enroll = StateTable[p][q].enroll
            /\ On(chan'[p][q], "M_STOP_R") => On(chan[p][q], "M_STOP_R")
            /\ Agreed(p, q)'
  BY <1>1, <1>4, StartAgrees
<1>6. Typed'
  BY <1>1, <1>2, <1>3, <1>5 DEF Typed, rigid
<1>7. ASSUME NEW p \in IPCPs
      PROVE  Alone(p)'
  <2>1. /\ StateTable'[p][p] = StateTable[p][p] /\ chan'[p][p] = chan[p][p]
        /\ lower'[p][p] = lower[p][p]
    BY <1>1, <1>3, <1>5
  <2> QED BY <2>1 DEF IInv, Alone
<1>8. ASSUME NEW p \in IPCPs, NEW q \in IPCPs
      PROVE  FlowComes(p, q)'
  <2>1. FlowComes(p, q) /\ FlowComes(i, j) /\ asks' = asks
    BY <1>1 DEF IInv
  <2>2. CASE p = i /\ q = j
    <3>1. StateTable'[p][q].con # "NONE"
      BY <1>5, <2>2
    <3> QED BY <1>1, <1>2, <1>3, <2>1, <2>2, <3>1 DEF FlowComes
  <2>3. CASE p # i \/ q # j
    <3>1. StateTable'[p][q] = StateTable[p][q]
      BY <1>5, <2>3
    <3>2. CASE p = j /\ q = i
      BY <1>1, <1>2, <1>3, <2>1, <3>1, <3>2 DEF FlowComes
    <3>3. CASE p # j \/ q # i
      BY <1>1, <1>2, <1>3, <2>1, <2>3, <3>1, <3>3 DEF FlowComes
    <3> QED BY <3>2, <3>3
  <2> QED BY <2>2, <2>3
<1>9. ASSUME NEW p \in IPCPs, NEW q \in IPCPs
      PROVE  Told(p, q)'
  <2>1. /\ StateTable'[p][q].enroll = StateTable[p][q].enroll
        /\ On(chan'[p][q], "M_STOP_R") => On(chan[p][q], "M_STOP_R")
    BY <1>5
  <2>2. Told(p, q)
    BY DEF IInv
  <2> QED BY <1>1, <2>1, <2>2 DEF Told
<1>10. \A p, q \in IPCPs : Agreed(p, q)'
  BY <1>5
<1> QED
  BY <1>6, <1>7, <1>8, <1>9, <1>10 DEF IInv

LEMMA RefusedKeeps ==
    ASSUME IInv, NEW i \in IPCPs, NEW j \in IPCPs, NM1FlowRefused(i, j)
    PROVE  IInv'
<1>1. /\ Typed
      /\ lower[i][j] = "request" /\ lower' = [lower EXCEPT ![i][j] = "refused"]
      /\ UNCHANGED <<rigid, StateTable, chan, nm1, asks, postponed, finished, lost>>
  BY DEF IInv, NM1FlowRefused
<1>2. /\ lower' \in [IPCPs -> [IPCPs -> {"idle", "request", "response", "refused"}]]
      /\ lower'[i][j] = "refused"
      /\ \A p, q \in IPCPs : p # i \/ q # j => lower'[p][q] = lower[p][q]
  BY <1>1 DEF Typed
<1>3. Typed'
  BY <1>1, <1>2 DEF Typed, rigid
<1>4. ASSUME NEW p \in IPCPs
      PROVE  Alone(p)'
  BY <1>1, <1>2 DEF IInv, Alone
<1>5. ASSUME NEW p \in IPCPs, NEW q \in IPCPs
      PROVE  Agreed(p, q)'
  BY <1>1, AgreedFrame DEF IInv, rigid
<1>6. ASSUME NEW p \in IPCPs, NEW q \in IPCPs
      PROVE  FlowComes(p, q)'
  <2>1. FlowComes(p, q) /\ FlowComes(i, j)
    BY DEF IInv
  <2> QED BY <1>1, <1>2, <2>1 DEF FlowComes
<1>7. ASSUME NEW p \in IPCPs, NEW q \in IPCPs
      PROVE  Told(p, q)'
  BY <1>1 DEF IInv, Told
<1> QED
  BY <1>3, <1>4, <1>5, <1>6, <1>7 DEF IInv

LEMMA LoseKeeps ==
    ASSUME IInv, NEW i \in IPCPs, NEW j \in IPCPs, Lose(i, j)
    PROVE  IInv'
<1>1. /\ Typed /\ chan[j][i] # <<>> /\ chan[j][i] \in Seq(Message)
      /\ chan' = [chan EXCEPT ![j][i] = Tail(chan[j][i])]
      /\ lost < MaxLoss /\ lost' = lost + 1
      /\ UNCHANGED <<rigid, StateTable, nm1, lower, asks, postponed, finished>>
  BY DEF IInv, Typed, Lose
<1>2. /\ Tail(chan[j][i]) \in Seq(Message)
      /\ \A x : On(Tail(chan[j][i]), x) => On(chan[j][i], x)
  BY <1>1, Received
<1> DEFINE d == Tail(chan[j][i])
<1> HIDE DEF d
<1>3. /\ chan' \in [IPCPs -> [IPCPs -> Seq(Message)]]
      /\ chan'[j][i] = d
      /\ \A p, q \in IPCPs : p # j \/ q # i => chan'[p][q] = chan[p][q]
  <2>1. d \in Seq(Message) /\ chan' = [chan EXCEPT ![j][i] = d]
    BY <1>1, <1>2 DEF d
  <2> QED BY <1>1, <2>1 DEF Typed
<1>4. lost' \in 0 .. MaxLoss /\ lost' # 0
  <2>1. lost \in 0 .. MaxLoss
    BY <1>1 DEF Typed
  <2> QED BY <1>1, <2>1, Bounds
<1>5. Typed'
  <2>1. /\ auth' = auth /\ first' = first /\ StateTable' = StateTable /\ nm1' = nm1
        /\ lower' = lower /\ asks' = asks /\ postponed' = postponed /\ finished' = finished
    BY <1>1 DEF rigid
  <2>2. Typed
    BY <1>1
  <2> QED BY <1>3, <1>4, <2>1, <2>2 DEF Typed
<1>6. \A p, q \in IPCPs : \A x : On(chan'[p][q], x) => On(chan[p][q], x)
  BY <1>2, <1>3, ZenonT(60) DEF d
<1>7. ASSUME NEW p \in IPCPs
      PROVE  Alone(p)'
  <2>1. j # i
    BY <1>1 DEF IInv, Alone
  <2>2. chan'[p][p] = chan[p][p]
    BY <1>3, <2>1
  <2> QED BY <1>1, <2>2 DEF IInv, Alone
<1>8. ASSUME NEW p \in IPCPs, NEW q \in IPCPs
      PROVE  Agreed(p, q)'
  <2>1. Agreed(p, q)
    BY DEF IInv
  <2> QED BY <1>1, <1>4, <1>6, <2>1 DEF Agreed, Ahead
<1>9. ASSUME NEW p \in IPCPs, NEW q \in IPCPs
      PROVE  FlowComes(p, q)'
  BY <1>1 DEF IInv, FlowComes
<1>10. ASSUME NEW p \in IPCPs, NEW q \in IPCPs
       PROVE  Told(p, q)'
  BY <1>1, <1>6 DEF IInv, Told
<1> QED
  BY <1>5, <1>7, <1>8, <1>9, <1>10 DEF IInv

LEMMA StutterKeeps ==
    ASSUME IInv, UNCHANGED vars
    PROVE  IInv'
<1>1. /\ auth' = auth /\ first' = first /\ StateTable' = StateTable /\ chan' = chan
      /\ nm1' = nm1 /\ lower' = lower /\ asks' = asks /\ postponed' = postponed
      /\ finished' = finished /\ lost' = lost
  BY DEF vars
<1>2. Typed'
  BY <1>1 DEF IInv, Typed
<1>3. \A p \in IPCPs : Alone(p)'
  BY <1>1 DEF IInv, Alone
<1>4. ASSUME NEW p \in IPCPs, NEW q \in IPCPs
      PROVE  Agreed(p, q)' /\ FlowComes(p, q)' /\ Told(p, q)'
  <2>1. Agreed(p, q)'
    BY <1>1, AgreedFrame DEF IInv
  <2>2. FlowComes(p, q)' /\ Told(p, q)'
    BY <1>1 DEF IInv, FlowComes, Told
  <2> QED BY <2>1, <2>2
<1> QED BY <1>2, <1>3, <1>4 DEF IInv

LEMMA NextKeeps ==
    ASSUME IInv, [Next]_vars
    PROVE  IInv'
<1>1. CASE UNCHANGED vars
  BY <1>1, StutterKeeps
<1>2. ASSUME NEW i \in IPCPs, NEW j \in IPCPs,
             \/ AllocateRequest(i, j) \/ Connect(i, j)
             \/ CreateNM1FlowWithoutAllocate(i, j)
             \/ PostNM1FlowAllocation(i, j) \/ NM1FlowRefused(i, j)
             \/ Receive(i, j) \/ Lose(i, j)
      PROVE  IInv'
  BY <1>2, AllocateRequestKeeps, ConnectActionKeeps, CreateKeeps, PostKeeps, RefusedKeeps,
     ReceiveKeeps, LoseKeeps
<1> QED BY <1>1, <1>2 DEF Next

\* The invariant that the theorems below rest on.
THEOREM Invariance == Spec => []IInv
<1>1. Init => IInv
  BY InitIInv
<1>2. IInv /\ [Next]_vars => IInv'
  BY NextKeeps
<1> QED BY <1>1, <1>2, PTL DEF Spec

-----------------------------------------------------------------------------
(* What follows.                                                             *)

\* A flow request that stays postponed to a neighbor with which the IPCP is enrolled is one
\* of the side that was asked: only ReceiveStopEnrollmentRequest tells the flow allocator.
THEOREM PostponedAtResponder == Spec => []PostponedOnlyAtResponder
<1>1. IInv => PostponedOnlyAtResponder
  BY DEF IInv, Typed, Told, PostponedOnlyAtResponder
<1> QED BY <1>1, Invariance, PTL

\* A pair that nothing is under way for, and nothing was lost of, has settled.
THEOREM QuietIsSettled == Spec => []QuietMeansSettled
<1>1. ASSUME IInv, NEW i \in IPCPs, NEW j \in IPCPs,
             lost = 0, asks[i][j] > 0, Quiet(i, j), Quiet(j, i),
             Trusted(j, i), "refused" \notin {lower[i][j], lower[j][i]}, ~Crossed(i, j)
      PROVE  StateTable[i][j].enroll = "ENROLLED" /\ StateTable[j][i].enroll = "ENROLLED"
  <2> DEFINE r == StateTable[i][j]
             s == StateTable[j][i]
             c == chan[i][j]
             d == chan[j][i]
  <2>1. lower[i][j] = "idle" /\ lower[j][i] = "idle"
    BY <1>1 DEF IInv, Typed, Quiet
  <2>2. nm1[i][j] = "up" /\ r.con # "NONE"
    BY <1>1, <2>1 DEF IInv, Typed, FlowComes
  <2>3. nm1[j][i] = "up"
    BY <1>1, <2>1, <2>2 DEF IInv, FlowComes
  <2>4. c = <<>> /\ d = <<>>
    BY <1>1, <2>2, <2>3 DEF Quiet
  <2>5. \A x : ~On(c, x) /\ ~On(d, x)
    BY <2>4, Short
  <2>6. c \in Seq(Message) /\ d \in Seq(Message)
    BY <1>1 DEF IInv, Typed
  <2>7. \A x, y : ~Behind(c, x, y) /\ ~Behind(d, x, y)
    BY <2>5, <2>6, BehindOn
  <2>8. RowFits(r) /\ RowFits(s) /\ Awaited(r, s, c, d) /\ Awaited(s, r, d, c)
    <3>1. Trusted(i, j)
      BY <1>1, TrustIsMutual DEF IInv, Typed
    <3> QED BY <1>1, <3>1 DEF IInv, Agreed
  <2>9. r.con = "ESTABLISHED" /\ s.con = "ESTABLISHED"
    BY <1>1, <2>2, <2>5, <2>8 DEF Awaited, Crossed
  <2> HIDE DEF r, s, c, d
  <2>10. r.enroll = "ENROLLED" /\ s.enroll = "ENROLLED"
    BY <2>5, <2>7, <2>8, <2>9 DEF Awaited, RowFits
  <2> QED BY <2>10 DEF r, s
<1>2. IInv => QuietMeansSettled
  BY <1>1 DEF QuietMeansSettled
<1> QED BY <1>2, Invariance, PTL

-----------------------------------------------------------------------------
(* Enrollment implements Admission.                                          *)

\* What each is to the other, and who trusts whom.
Standings == [i \in IPCPs |-> [j \in IPCPs |-> StandingOf(StateTable[i][j].enroll)]]
Trusts == [i \in IPCPs |-> {j \in IPCPs : Trusted(i, j)}]

LEMMA SameStanding ==
    ASSUME \A p, q \in IPCPs : StateTable'[p][q].enroll = StateTable[p][q].enroll,
           auth' = auth
    PROVE  Standings' = Standings /\ Trusts' = Trusts
<1>1. Standings' = Standings
  BY DEF Standings
<1>2. \A i, j \in IPCPs : Trusted(i, j)' = Trusted(i, j)
  BY DEF Trusted
<1>3. \A i \in IPCPs : {j \in IPCPs : Trusted(i, j)}' = {j \in IPCPs : Trusted(i, j)}
  BY <1>2
<1>4. Trusts' = Trusts
  BY <1>3 DEF Trusts
<1> QED BY <1>1, <1>4

\* One row goes from one standing to another.
LEMMA NewStanding ==
    ASSUME NEW i \in IPCPs, NEW j \in IPCPs, NEW to,
           StandingOf(StateTable'[i][j].enroll) = to,
           \A p, q \in IPCPs : p # i \/ q # j => StateTable'[p][q] = StateTable[p][q]
    PROVE  Standings' = [Standings EXCEPT ![i][j] = to]
<1> DEFINE new(p) == [q \in IPCPs |-> StandingOf(StateTable'[p][q].enroll)]
           old(p) == [q \in IPCPs |-> StandingOf(StateTable[p][q].enroll)]
<1>1. Standings' = [p \in IPCPs |-> new(p)] /\ Standings = [p \in IPCPs |-> old(p)]
  BY DEF Standings
<1>2. new(i) = [old(i) EXCEPT ![j] = to]
  OBVIOUS
<1>3. \A p \in IPCPs : p # i => new(p) = old(p)
  OBVIOUS
<1> HIDE DEF new, old
<1>4. [Standings EXCEPT ![i][j] = to] = [Standings EXCEPT ![i] = [old(i) EXCEPT ![j] = to]]
  BY <1>1
<1> QED BY <1>1, <1>2, <1>3, <1>4

\* Every reaction is one of the three steps, or none of them.
LEMMA ReceiveAdmits ==
    ASSUME IInv, NEW i \in IPCPs, NEW j \in IPCPs, Receive(i, j)
    PROVE  [AD!Next]_<<Standings, Trusts>>
<1> DEFINE r == StateTable[i][j]
           s == StateTable[j][i]
           c == chan[i][j]
           d == chan[j][i]
<1>1. /\ Typed /\ r \in Entry /\ s \in Entry /\ c \in Seq(Message) /\ d \in Seq(Message)
      /\ auth \in Credentials
  BY DEF IInv, Typed
<1>2. RowFits(r) /\ RowFits(s) /\ Ahead(r, s, c, d) /\ Ahead(s, r, d, c)
  BY DEF IInv, Agreed
<1>3. d # <<>> /\ UNCHANGED rigid
  BY <1>1, <1>2, ReceiveReacts
<1>p. PICK row \in Entry : \E out : Reaction(Trusted(i, j), r, Head(d), row, out)
                                /\ Turn(i, j, row, out)
  BY <1>1, <1>2, ReceiveReacts, Zenon
<1>4. PICK out : Reaction(Trusted(i, j), r, Head(d), row, out) /\ Turn(i, j, row, out)
  BY <1>p
<1>5. i # j /\ out \in Seq(Message)
  BY <1>3, <1>4, ReactionType DEF IInv, Alone
<1>6. /\ StateTable'[i][j] = row
      /\ \A p, q \in IPCPs : p # i \/ q # j => StateTable'[p][q] = StateTable[p][q]
  BY <1>1, <1>3, <1>4, <1>5, TurnFrame
<1>7. \A x : On(d, x) <=> x = Head(d) \/ On(Tail(d), x)
  BY <1>1, <1>3, Received
<1>8. Trusts' = Trusts
  <2>1. \A p, q \in IPCPs : Trusted(p, q)' = Trusted(p, q)
    BY <1>3 DEF rigid, Trusted
  <2>2. \A p \in IPCPs : {q \in IPCPs : Trusted(p, q)}' = {q \in IPCPs : Trusted(p, q)}
    BY <2>1
  <2> QED BY <2>2 DEF Trusts
<1>9. /\ Standings[i][j] = StandingOf(r.enroll) /\ Standings[j][i] = StandingOf(s.enroll)
      /\ j \in Trusts[i] <=> Trusted(i, j)
  BY DEF Standings, Trusts
<1> DEFINE to == StandingOf(row.enroll)
<1>10. Standings' = [Standings EXCEPT ![i][j] = to]
  BY <1>6, NewStanding
<1>11. \/ row.enroll = r.enroll
       \/ r.enroll = "NIL" /\ row.enroll = "WAIT_START" /\ Trusted(i, j)
       \/ r.enroll = "NIL" /\ row.enroll = "WAIT_START_RESPONSE"
       \/ r.enroll = "WAIT_START" /\ row.enroll = "WAIT_STOP_RESPONSE"
       \/ r.enroll = "WAIT_START_RESPONSE" /\ row.enroll = "WAIT_STOP"
       \/ r.enroll = "WAIT_STOP" /\ row.enroll = "ENROLLED" /\ On(d, "M_STOP")
       \/ r.enroll = "WAIT_STOP_RESPONSE" /\ row.enroll = "ENROLLED" /\ On(d, "M_STOP_R")
  BY <1>2, <1>4, <1>7 DEF Reaction, Becomes, RowFits
<1>12. CASE StandingOf(row.enroll) = StandingOf(r.enroll)
  <2>1. \A p, q \in IPCPs :
           StandingOf(StateTable'[p][q].enroll) = StandingOf(StateTable[p][q].enroll)
    BY <1>6, <1>12
  <2>2. Standings' = Standings
    BY <2>1 DEF Standings
  <2> QED BY <1>8, <2>2
<1>13. CASE r.enroll = "NIL" /\ row.enroll = "WAIT_START" /\ Trusted(i, j)
  <2>1. Standings[i][j] = "stranger" /\ to = "vouching" /\ j \in Trusts[i]
    BY <1>9, <1>13 DEF StandingOf
  <2>2. AD!Vouch(i, j)
    BY <1>10, <2>1 DEF AD!Vouch, AD!Becomes, Standings, Trusts
  <2> QED BY <1>8, <2>2 DEF AD!Next, Trusts
<1>14. CASE r.enroll = "WAIT_STOP" /\ row.enroll = "ENROLLED" /\ On(d, "M_STOP")
  <2>1. s.enroll = "WAIT_STOP_RESPONSE"
    BY <1>2, <1>14 DEF Ahead
  <2>2. Standings[i][j] = "stranger" /\ Standings[j][i] = "vouching" /\ to = "member"
    BY <1>9, <1>14, <2>1 DEF StandingOf
  <2>3. AD!Join(i, j)
    BY <1>10, <2>2 DEF AD!Join, AD!Becomes, Standings
  <2> QED BY <1>8, <2>3 DEF AD!Next, Trusts
<1>15. CASE r.enroll = "WAIT_STOP_RESPONSE" /\ row.enroll = "ENROLLED" /\ On(d, "M_STOP_R")
  <2>1. s.enroll = "ENROLLED"
    BY <1>2, <1>15 DEF Ahead
  <2>2. Standings[i][j] = "vouching" /\ Standings[j][i] = "member" /\ to = "member"
    BY <1>9, <1>15, <2>1 DEF StandingOf
  <2>3. AD!Confirm(i, j)
    BY <1>10, <2>2 DEF AD!Confirm, AD!Becomes, Standings
  <2> QED BY <1>8, <2>3 DEF AD!Next, Trusts
<1> QED
  BY <1>11, <1>12, <1>13, <1>14, <1>15 DEF StandingOf

LEMMA InitAdmits == Init => AD!Init
<1> SUFFICES ASSUME Init
             PROVE  AD!Init
  OBVIOUS
<1>1. PICK pairs \in SUBSET Configured : StateTable = ParseConfig(pairs)
  BY DEF Init
<1>2. \A i, j \in IPCPs : StateTable[i][j].enroll =
         IF i # j /\ {i, j} \in pairs THEN "ENROLLED" ELSE "NIL"
  BY <1>1 DEF ParseConfig, NoRow
<1>3. ASSUME NEW i \in IPCPs, NEW j \in IPCPs
      PROVE  /\ StandingOf(StateTable[i][j].enroll) \in {"stranger", "member"}
             /\ StandingOf(StateTable[i][j].enroll) = StandingOf(StateTable[j][i].enroll)
  <2>1. {i, j} = {j, i}
    OBVIOUS
  <2> QED BY <1>2, <2>1 DEF StandingOf
<1>4. /\ Standings \in [IPCPs -> [IPCPs -> {"stranger", "member"}]]
      /\ \A p, q \in IPCPs : Standings[p][q] = Standings[q][p]
      /\ Trusts \in [IPCPs -> SUBSET IPCPs]
  BY <1>3 DEF Standings, Trusts
<1> QED BY <1>4 DEF AD!Init, Standings, Trusts

LEMMA NextAdmits ==
    ASSUME IInv, [Next]_vars
    PROVE  [AD!Next]_<<Standings, Trusts>>
<1>1. ASSUME UNCHANGED StateTable, auth' = auth
      PROVE  [AD!Next]_<<Standings, Trusts>>
  BY <1>1, SameStanding
<1>2. ASSUME NEW i \in IPCPs, NEW j \in IPCPs, i # j, StartCACE(i, j), UNCHANGED <<rigid, lost>>
      PROVE  [AD!Next]_<<Standings, Trusts>>
  <2>1. \A p, q \in IPCPs : StateTable'[p][q].enroll = StateTable[p][q].enroll
    BY <1>2, StartAgrees
  <2> QED BY <1>2, <2>1, SameStanding DEF rigid
<1>3. ASSUME NEW i \in IPCPs, NEW j \in IPCPs, MgmtAllocateRequest(i, j), UNCHANGED <<rigid, lost>>
      PROVE  [AD!Next]_<<Standings, Trusts>>
  BY <1>1, <1>2, <1>3, Bounds DEF MgmtAllocateRequest, rigid
<1>4. CASE UNCHANGED vars
  BY <1>1, <1>4 DEF vars
<1>5. ASSUME NEW i \in IPCPs, NEW j \in IPCPs,
             \/ AllocateRequest(i, j) \/ Connect(i, j)
             \/ CreateNM1FlowWithoutAllocate(i, j)
             \/ PostNM1FlowAllocation(i, j) \/ NM1FlowRefused(i, j)
             \/ Receive(i, j) \/ Lose(i, j)
      PROVE  [AD!Next]_<<Standings, Trusts>>
  <2>1. CASE AllocateRequest(i, j)
    BY <1>3, <2>1 DEF AllocateRequest
  <2>2. CASE Connect(i, j)
    BY <1>3, <2>2 DEF Connect
  <2>3. CASE CreateNM1FlowWithoutAllocate(i, j)
    BY <1>1, <2>3 DEF CreateNM1FlowWithoutAllocate, rigid
  <2>4. CASE PostNM1FlowAllocation(i, j)
    <3>1. i # j
      BY <2>4 DEF PostNM1FlowAllocation, IInv, Alone
    <3> QED BY <1>2, <2>4, <3>1 DEF PostNM1FlowAllocation
  <2>5. CASE NM1FlowRefused(i, j)
    BY <1>1, <2>5 DEF NM1FlowRefused, rigid
  <2>6. CASE Receive(i, j)
    BY <2>6, ReceiveAdmits
  <2>7. CASE Lose(i, j)
    BY <1>1, <2>7 DEF Lose, rigid
  <2> QED BY <1>5, <2>1, <2>2, <2>3, <2>4, <2>5, <2>6, <2>7
<1> QED BY <1>4, <1>5 DEF Next

\* The protocol does what Admission promises: nobody is enrolled by one that does not vouch
\* for it, nobody is counted as enrolled that is not, and no standing is lost again.
THEOREM AdmissionImplemented == Spec => ImplementsAdmission
<1>1. Init => AD!Init
  BY InitAdmits
<1>2. IInv /\ [Next]_vars => [AD!Next]_<<Standings, Trusts>>
  BY NextAdmits
<1> QED BY <1>1, <1>2, Invariance, PTL DEF Spec, ImplementsAdmission, AD!Spec, Standings, Trusts

-----------------------------------------------------------------------------
(* The retries of a connect request end.                                     *)

LEMMA UnderWayType ==
    ASSUME NEW c \in Seq(Message)
    PROVE  IsFiniteSet(Connects(c)) /\ UnderWay(c) \in Nat
<1>1. IsFiniteSet(1 .. Len(c))
  BY FS_Interval
<1>2. Connects(c) \in SUBSET (1 .. Len(c))
  BY DEF Connects
<1>3. IsFiniteSet(Connects(c))
  BY <1>1, <1>2, FS_Subset
<1> QED BY <1>3, FS_CardinalityType DEF UnderWay

LEMMA NoneUnderWay == UnderWay(<<>>) = 0
<1>1. Connects(<<>>) = {}
  BY DEF Connects
<1> QED BY <1>1, FS_EmptySet DEF UnderWay

\* One more is sent.
LEMMA UnderWaySent ==
    ASSUME NEW c \in Seq(Message)
    PROVE  UnderWay(Append(c, "M_CONNECT")) = UnderWay(c) + 1
<1> DEFINE e == Append(c, "M_CONNECT")
<1>1. /\ Len(e) = Len(c) + 1 /\ Len(c) \in Nat
      /\ \A k \in 1 .. Len(c) : e[k] = c[k]
      /\ e[Len(c) + 1] = "M_CONNECT"
  OBVIOUS
<1> HIDE DEF e
<1>2. \A k \in 1 .. Len(e) : k \in 1 .. Len(c) \/ k = Len(c) + 1
  BY <1>1
<1>3. \A k \in 1 .. Len(c) : k \in 1 .. Len(e)
  BY <1>1
<1>4. Len(c) + 1 \in 1 .. Len(e) /\ Len(c) + 1 \notin 1 .. Len(c)
  BY <1>1
<1>5. Connects(e) = Connects(c) \cup {Len(c) + 1}
  BY <1>1, <1>2, <1>3, <1>4 DEF Connects
<1>6. Len(c) + 1 \notin Connects(c)
  BY <1>4 DEF Connects
<1> QED BY <1>5, <1>6, UnderWayType, FS_AddElement DEF UnderWay, e

\* Something else is sent.
LEMMA UnderWayOther ==
    ASSUME NEW c \in Seq(Message), NEW out \in Seq(Message), ~On(out, "M_CONNECT")
    PROVE  UnderWay(c \o out) = UnderWay(c)
<1> DEFINE e == c \o out
<1>1. /\ Len(e) = Len(c) + Len(out) /\ Len(c) \in Nat /\ Len(out) \in Nat
      /\ \A k \in 1 .. Len(c) : e[k] = c[k]
      /\ \A k \in 1 .. Len(out) : e[Len(c) + k] = out[k]
  OBVIOUS
<1> HIDE DEF e
<1>2. ASSUME NEW k \in 1 .. Len(e), e[k] = "M_CONNECT"
      PROVE  k \in 1 .. Len(c)
  <2>1. CASE ~(k \in 1 .. Len(c))
    <3>1. k - Len(c) \in 1 .. Len(out) /\ k = Len(c) + (k - Len(c))
      BY <1>1, <2>1
    <3>2. e[k] = out[k - Len(c)]
      BY <1>1, <3>1
    <3> QED BY <1>2, <3>1, <3>2 DEF On
  <2> QED BY <2>1
<1>3. \A k \in 1 .. Len(c) : k \in 1 .. Len(e)
  BY <1>1
<1>4. Connects(e) = Connects(c)
  BY <1>1, <1>2, <1>3 DEF Connects
<1> QED BY <1>4 DEF UnderWay, e

\* The first arrives.
LEMMA UnderWayReceived ==
    ASSUME NEW d \in Seq(Message), d # <<>>
    PROVE  UnderWay(Tail(d)) <= UnderWay(d) - (IF Head(d) = "M_CONNECT" THEN 1 ELSE 0)
<1> DEFINE e == Tail(d)
           S == Connects(d) \ {1}
           f == [k \in Connects(e) |-> k + 1]
<1>1. /\ e \in Seq(Message) /\ Head(d) = d[1]
      /\ Len(e) = Len(d) - 1 /\ Len(d) \in Nat /\ Len(d) >= 1
      /\ \A k \in 1 .. Len(e) : e[k] = d[k + 1]
  OBVIOUS
<1>2. /\ IsFiniteSet(Connects(d)) /\ IsFiniteSet(Connects(e))
      /\ UnderWay(d) \in Nat /\ UnderWay(e) \in Nat
  BY <1>1, UnderWayType
<1> HIDE DEF e
<1>3. ASSUME NEW k \in Connects(e)
      PROVE  k \in Nat /\ k + 1 \in S
  BY <1>1 DEF Connects
<1>4. f \in Injection(Connects(e), S)
  <2>1. f \in [Connects(e) -> S]
    BY <1>3
  <2>2. \A k, l \in Connects(e) : f[k] = f[l] => k = l
    BY <1>3
  <2> QED BY <2>1, <2>2 DEF Injection, IsInjective
<1>5. IsFiniteSet(S) /\ Cardinality(S) = IF 1 \in Connects(d) THEN UnderWay(d) - 1 ELSE UnderWay(d)
  BY <1>2, FS_RemoveElement DEF UnderWay
<1>6. UnderWay(e) <= Cardinality(S)
  BY <1>4, <1>5, FS_Injection DEF UnderWay
<1>7. 1 \in Connects(d) <=> Head(d) = "M_CONNECT"
  BY <1>1 DEF Connects
<1> HIDE DEF S
<1> QED BY <1>2, <1>5, <1>6, <1>7 DEF e

LEMMA LimitedTypes ==
    ASSUME Typed, NEW i \in IPCPs, NEW j \in IPCPs
    PROVE  /\ UnderWay(chan[i][j]) \in Nat /\ asks[i][j] \in Nat
           /\ StateTable[i][j] \in Entry /\ StateTable[i][j].retries \in Nat
           /\ Refused(StateTable[i][j]) \in Nat /\ Remaining(StateTable[i][j]) \in Int
           /\ ToSend(i, j) \in {0, 1}
<1>1. asks[i][j] \in Nat
  BY Bounds DEF Typed
<1>2. StateTable[i][j] \in Entry /\ StateTable[i][j].retries \in Nat
  BY DEF Typed, Entry
<1>3. UnderWay(chan[i][j]) \in Nat
  BY UnderWayType DEF Typed
<1> QED BY <1>1, <1>2, <1>3, Bounds DEF Refused, Remaining, ToSend

\* A pair whose rows stay, and which has no more to send than before.
LEMMA LimitedFrame ==
    ASSUME Typed, Typed', NEW p \in IPCPs, NEW q \in IPCPs, Limited(p, q), auth' = auth,
           StateTable'[p][q] = StateTable[p][q], StateTable'[q][p] = StateTable[q][p],
           UnderWay(chan'[p][q]) + ToSend(p, q)' - asks'[p][q] <=
              UnderWay(chan[p][q]) + ToSend(p, q) - asks[p][q]
    PROVE  Limited(p, q)'
<1>1. Trusted(p, q)' = Trusted(p, q)
  BY DEF Trusted
<1>2. UnderWay(chan'[p][q]) \in Nat /\ asks'[p][q] \in Nat /\ ToSend(p, q)' \in {0, 1}
  <2>1. asks'[p][q] \in Nat
    BY Bounds DEF Typed
  <2>2. chan'[p][q] \in Seq(Message)
    BY DEF Typed
  <2> QED BY <2>1, <2>2, UnderWayType DEF ToSend
<1>3. /\ UnderWay(chan[p][q]) \in Nat /\ asks[p][q] \in Nat /\ ToSend(p, q) \in {0, 1}
      /\ Refused(StateTable[q][p]) \in Nat /\ Remaining(StateTable[p][q]) \in Int
  BY LimitedTypes
<1>4. UnderWay(chan'[p][q]) + Refused(StateTable[q][p])
         + Remaining(StateTable[p][q]) + ToSend(p, q)' <= asks'[p][q] + MaxConRetries
  BY <1>2, <1>3, Bounds DEF Limited
<1>5. /\ StateTable'[p][q].con = "CONNECTPENDING" => ~Trusted(p, q)'
      /\ StateTable'[p][q].con # "CONNECTPENDING" =>
            StateTable'[p][q].retries <= MaxConRetries
  BY <1>1 DEF Limited
<1> QED BY <1>4, <1>5 DEF Limited

\* A reaction sends at most one connect request more, and then has one less to send; a
\* refusal is of a request that has arrived.
LEMMA ReactionLimited ==
    ASSUME NEW ok \in BOOLEAN, NEW r \in Entry, NEW row \in Entry,
           NEW c \in Seq(Message), NEW d \in Seq(Message), d # <<>>,
           NEW out \in Seq(Message), Reaction(ok, r, Head(d), row, out),
           RowFits(r), RowFits(row),
           r.con = "CONNECTPENDING" => ~ok,
           r.con # "CONNECTPENDING" => r.retries <= MaxConRetries
    PROVE  /\ row.con = "CONNECTPENDING" => ~ok
           /\ row.con # "CONNECTPENDING" => row.retries <= MaxConRetries
           /\ UnderWay(c \o out) + Remaining(row) <= UnderWay(c) + Remaining(r)
           /\ UnderWay(Tail(d)) + Refused(row) <= UnderWay(d) + Refused(r)
<1>1. r.retries \in Nat /\ row.retries \in Nat /\ UnderWay(c) \in Nat /\ UnderWay(d) \in Nat
      /\ UnderWay(Tail(d)) \in Nat
  BY UnderWayType, Received DEF Entry
<1>2. UnderWay(c \o out) = UnderWay(c) + (IF out = <<"M_CONNECT">> THEN 1 ELSE 0)
  <2>1. CASE out = <<"M_CONNECT">>
    <3>1. c \o out = Append(c, "M_CONNECT")
      BY <2>1 DEF Message
    <3> QED BY <2>1, <3>1, UnderWaySent
  <2>2. CASE out # <<"M_CONNECT">>
    <3>1. /\ ~On(<<>>, "M_CONNECT") /\ ~On(<<"M_CONNECT_R+">>, "M_CONNECT")
          /\ ~On(<<"M_CONNECT_R-">>, "M_CONNECT") /\ ~On(<<"M_START">>, "M_CONNECT")
          /\ ~On(<<"M_START_R", "M_STOP">>, "M_CONNECT") /\ ~On(<<"M_STOP_R">>, "M_CONNECT")
      BY Short
    <3>3. \/ out = <<>> \/ out = <<"M_CONNECT_R+">> \/ out = <<"M_CONNECT_R-">>
          \/ out = <<"M_START">> \/ out = <<"M_START_R", "M_STOP">> \/ out = <<"M_STOP_R">>
      BY <2>2, Zenon DEF Reaction
    <3>2. ~On(out, "M_CONNECT")
      BY <3>1, <3>3, Zenon
    <3> QED BY <1>1, <2>2, <3>2, UnderWayOther
  <2> QED BY <2>1, <2>2
<1>3. /\ row.con = "CONNECTPENDING" => ~ok
      /\ row.con # "CONNECTPENDING" => row.retries <= MaxConRetries
  BY <1>1, Bounds, SMTT(30) DEF Reaction, Becomes, RowFits
<1>4. (IF out = <<"M_CONNECT">> THEN 1 ELSE 0) + Remaining(row) <= Remaining(r)
  <2>1. CASE Head(d) = "M_CONNECT_R-" /\ r.con = "AUTHENTICATING" /\ ~(MaxConRetries <= r.retries)
    <3>1. row.con = "AUTHENTICATING" /\ row.retries = r.retries + 1
      BY <2>1 DEF Reaction, Becomes
    <3>2. Remaining(r) = MaxConRetries - r.retries
      BY <2>1 DEF Remaining
    <3>3. Remaining(row) = MaxConRetries - (r.retries + 1)
      BY <3>1 DEF Remaining
    <3> QED BY <1>1, <3>2, <3>3, Bounds
  <2>2. CASE ~(Head(d) = "M_CONNECT_R-" /\ r.con = "AUTHENTICATING" /\ ~(MaxConRetries <= r.retries))
    <3>1. out # <<"M_CONNECT">>
      <4>1. /\ <<>> # <<"M_CONNECT">> /\ <<"M_CONNECT_R+">> # <<"M_CONNECT">>
            /\ <<"M_CONNECT_R-">> # <<"M_CONNECT">> /\ <<"M_START">> # <<"M_CONNECT">>
            /\ <<"M_START_R", "M_STOP">> # <<"M_CONNECT">> /\ <<"M_STOP_R">> # <<"M_CONNECT">>
        OBVIOUS
      <4> QED BY <2>2, <4>1 DEF Reaction
    <3>2. row = r \/ (row.con \notin {"NONE", "AUTHENTICATING"})
      BY <2>2 DEF Reaction, Becomes, RowFits
    <3>3. Remaining(row) <= Remaining(r)
      BY <1>1, <3>2, Bounds DEF Remaining
    <3>4. Remaining(row) \in Int /\ Remaining(r) \in Int
      BY <1>1, Bounds DEF Remaining
    <3> QED BY <3>1, <3>3, <3>4
  <2> QED BY <2>1, <2>2
<1>5. Refused(row) <= Refused(r) + (IF Head(d) = "M_CONNECT" THEN 1 ELSE 0)
  <2>1. r.con = "NONE" => r.retries = 0
    BY DEF RowFits, NoRow
  <2>2. CASE row.con # "CONNECTPENDING" \/ row = r
    BY <1>1, <2>2 DEF Refused
  <2>3. CASE row.con = "CONNECTPENDING" /\ row # r
    <3>1. /\ Head(d) = "M_CONNECT" /\ r.con \in {"NONE", "CONNECTPENDING"}
          /\ row.retries = r.retries + 1
      BY <2>3 DEF Reaction, Becomes, RowFits
    <3>2. Refused(row) = r.retries + 1 /\ Refused(r) = r.retries
      BY <2>1, <2>3, <3>1 DEF Refused
    <3> QED BY <1>1, <3>1, <3>2
  <2> QED BY <2>2, <2>3
<1>6. UnderWay(Tail(d)) <= UnderWay(d) - (IF Head(d) = "M_CONNECT" THEN 1 ELSE 0)
  BY UnderWayReceived
<1>7. Refused(row) \in Nat /\ Refused(r) \in Nat /\ Remaining(row) \in Int /\ Remaining(r) \in Int
  BY <1>1, Bounds DEF Refused, Remaining
<1>8. UnderWay(c \o out) + Remaining(row) <= UnderWay(c) + Remaining(r)
  BY <1>1, <1>2, <1>4, <1>7
<1>9. UnderWay(Tail(d)) + Refused(row) <= UnderWay(d) + Refused(r)
  BY <1>1, <1>5, <1>6, <1>7
<1> QED BY <1>3, <1>8, <1>9

LEMMA ReceiveLimited ==
    ASSUME LInv, IInv', NEW i \in IPCPs, NEW j \in IPCPs, Receive(i, j)
    PROVE  \A p, q \in IPCPs : Limited(p, q)'
<1> DEFINE r == StateTable[i][j]
           s == StateTable[j][i]
           c == chan[i][j]
           d == chan[j][i]
<1>1. /\ Typed /\ Typed' /\ r \in Entry /\ s \in Entry
      /\ c \in Seq(Message) /\ d \in Seq(Message) /\ auth \in Credentials
  <2>1. Typed /\ Typed'
    BY DEF LInv, IInv
  <2>2. /\ r \in Entry /\ s \in Entry /\ c \in Seq(Message) /\ d \in Seq(Message)
        /\ auth \in Credentials
    BY <2>1 DEF Typed
  <2> QED BY <2>1, <2>2
<1>2. RowFits(r) /\ d # <<>> /\ UNCHANGED <<rigid, nm1, lower, asks, lost>>
  BY <1>1, ReceiveReacts DEF LInv, IInv, Agreed
<1>p. PICK row \in Entry : \E out : Reaction(Trusted(i, j), r, Head(d), row, out)
                                /\ Turn(i, j, row, out)
  BY <1>1, <1>2, ReceiveReacts, Zenon
<1>3. PICK out : Reaction(Trusted(i, j), r, Head(d), row, out) /\ Turn(i, j, row, out)
  BY <1>p
<1>4. i # j /\ out \in Seq(Message) /\ Trusted(i, j) \in BOOLEAN
  BY <1>2, <1>3, ReactionType DEF LInv, IInv, Alone, Trusted
<1>5. /\ StateTable'[i][j] = row /\ StateTable'[j][i] = s
      /\ chan'[j][i] = Tail(d) /\ chan'[i][j] = c \o out
      /\ \A p, q \in IPCPs : p # i \/ q # j => StateTable'[p][q] = StateTable[p][q]
      /\ \A p, q \in IPCPs : (p # i \/ q # j) /\ (p # j \/ q # i) =>
            chan'[p][q] = chan[p][q]
  BY <1>1, <1>2, <1>3, <1>4, TurnFrame
<1>6. RowFits(row)
  BY <1>5 DEF IInv, Agreed
<1>7. Limited(i, j) /\ Limited(j, i)
  BY DEF LInv
<1>8. /\ row.con = "CONNECTPENDING" => ~Trusted(i, j)
      /\ row.con # "CONNECTPENDING" => row.retries <= MaxConRetries
      /\ UnderWay(c \o out) + Remaining(row) <= UnderWay(c) + Remaining(r)
      /\ UnderWay(Tail(d)) + Refused(row) <= UnderWay(d) + Refused(r)
  BY <1>1, <1>2, <1>3, <1>4, <1>6, <1>7, ReactionLimited DEF Limited
<1>9. /\ UnderWay(c) \in Nat /\ UnderWay(d) \in Nat /\ asks[i][j] \in Nat /\ asks[j][i] \in Nat
      /\ Refused(r) \in Nat /\ Refused(s) \in Nat /\ Remaining(r) \in Int /\ Remaining(s) \in Int
      /\ ToSend(i, j) \in {0, 1} /\ ToSend(j, i) \in {0, 1}
  BY <1>1, LimitedTypes
<1>10. /\ UnderWay(c \o out) \in Nat /\ UnderWay(Tail(d)) \in Nat
       /\ Refused(row) \in Nat /\ Remaining(row) \in Int
  <2>1. c \o out \in Seq(Message) /\ Tail(d) \in Seq(Message)
    BY <1>1, <1>2, <1>4, Sent, Received
  <2>2. row.retries \in Nat
    BY DEF Entry
  <2>3. UnderWay(c \o out) \in Nat /\ UnderWay(Tail(d)) \in Nat
    BY <2>1, UnderWayType
  <2>4. Refused(row) \in Nat /\ Remaining(row) \in Int
    BY <2>2, Bounds DEF Refused, Remaining
  <2> QED BY <2>3, <2>4
<1>11. /\ auth' = auth /\ asks' = asks
       /\ \A p, q : Trusted(p, q)' = Trusted(p, q) /\ ToSend(p, q)' = ToSend(p, q)
  BY <1>2 DEF rigid, Trusted, ToSend
<1>12. ASSUME NEW p \in IPCPs, NEW q \in IPCPs
       PROVE  Limited(p, q)'
  <2>1. CASE p = i /\ q = j
    <3>1. UnderWay(c \o out) + Refused(s) + Remaining(row) + ToSend(i, j)
             <= asks[i][j] + MaxConRetries
      BY <1>7, <1>8, <1>9, <1>10, Bounds DEF Limited
    <3> QED BY <1>5, <1>8, <1>11, <2>1, <3>1 DEF Limited
  <2>2. CASE p = j /\ q = i
    <3>1. UnderWay(Tail(d)) + Refused(row) + Remaining(s) + ToSend(j, i)
             <= asks[j][i] + MaxConRetries
      BY <1>7, <1>8, <1>9, <1>10, Bounds DEF Limited
    <3> QED BY <1>5, <1>7, <1>11, <2>2, <3>1 DEF Limited
  <2>3. CASE (p # i \/ q # j) /\ (p # j \/ q # i)
    <3>1. /\ StateTable'[p][q] = StateTable[p][q] /\ StateTable'[q][p] = StateTable[q][p]
          /\ chan'[p][q] = chan[p][q]
      BY <1>5, <2>3
    <3>2. Limited(p, q)
      BY DEF LInv
    <3>3. /\ UnderWay(chan[p][q]) \in Nat /\ asks[p][q] \in Nat /\ ToSend(p, q) \in {0, 1}
          /\ ToSend(p, q)' = ToSend(p, q)
      BY <1>1, <1>11, LimitedTypes
    <3>4. UnderWay(chan'[p][q]) + ToSend(p, q)' - asks'[p][q] <=
             UnderWay(chan[p][q]) + ToSend(p, q) - asks[p][q]
      BY <1>11, <3>1, <3>3
    <3> QED BY <1>1, <1>11, <3>1, <3>2, <3>4, LimitedFrame
  <2> QED BY <2>1, <2>2, <2>3
<1> QED BY <1>12

\* A request more is sent, for an ask that is counted or a flow that has come.
LEMMA StartLimited ==
    ASSUME LInv, IInv', NEW i \in IPCPs, NEW j \in IPCPs, i # j, StartCACE(i, j), auth' = auth,
           ToSend(i, j)' - asks'[i][j] + 1 <= ToSend(i, j) - asks[i][j],
           \A p, q \in IPCPs : p # i \/ q # j =>
              ToSend(p, q)' = ToSend(p, q) /\ asks'[p][q] = asks[p][q]
    PROVE  \A p, q \in IPCPs : Limited(p, q)'
<1> DEFINE r == StateTable[i][j]
           s == StateTable[j][i]
           c == chan[i][j]
           row == Insert(r, "AUTHENTICATING")
           f == Append(c, "M_CONNECT")
<1>1. /\ Typed /\ Typed' /\ r \in Entry /\ s \in Entry /\ c \in Seq(Message) /\ RowFits(r)
  BY DEF LInv, IInv, Typed, Agreed
<1>2. /\ StateTable'[i][j] = row /\ chan'[i][j] = f
      /\ \A p, q \in IPCPs : p # i \/ q # j =>
            StateTable'[p][q] = StateTable[p][q] /\ chan'[p][q] = chan[p][q]
  BY <1>1, StartFrame
<1>3. UnderWay(f) = UnderWay(c) + 1
  BY <1>1, UnderWaySent
<1>4. /\ row.con # "NONE" /\ r.retries \in Nat
      /\ r.con = "NONE" => Becomes(row, "AUTHENTICATING", "NIL", FALSE, 0)
      /\ r.con # "NONE" => row = r
  <2>1. /\ r.con = "NONE" => row = [con |-> "AUTHENTICATING", enroll |-> "NIL",
                                    immediate |-> FALSE, retries |-> 0]
        /\ r.con # "NONE" => row = r
    BY <1>1, Inserted DEF ConStatus
  <2>2. r.retries \in Nat
    BY <1>1 DEF Entry
  <2> QED BY <2>1, <2>2 DEF Becomes
<1> HIDE DEF row, f
<1>5. Remaining(row) = Remaining(r) /\ Refused(row) = Refused(r)
  BY <1>4, Bounds DEF Remaining, Refused, Becomes
<1>6. /\ UnderWay(c) \in Nat /\ asks[i][j] \in Nat /\ Refused(s) \in Nat
      /\ Remaining(r) \in Int /\ ToSend(i, j) \in {0, 1} /\ UnderWay(chan[j][i]) \in Nat
      /\ asks[j][i] \in Nat /\ ToSend(j, i) \in {0, 1} /\ Refused(r) \in Nat
      /\ Remaining(s) \in Int
  BY <1>1, LimitedTypes
<1>7. asks'[i][j] \in Nat /\ ToSend(i, j)' \in {0, 1}
  BY <1>1, Bounds DEF Typed, ToSend
<1>8. Limited(i, j) /\ Limited(j, i) /\ \A p, q : Trusted(p, q)' = Trusted(p, q)
  BY DEF LInv, Trusted
<1>9. ASSUME NEW p \in IPCPs, NEW q \in IPCPs
      PROVE  Limited(p, q)'
  <2>1. CASE p = i /\ q = j
    <3>1. UnderWay(f) + Refused(s) + Remaining(row) + ToSend(i, j)'
             <= asks'[i][j] + MaxConRetries
      BY <1>3, <1>5, <1>6, <1>7, <1>8, Bounds DEF Limited
    <3>2. /\ row.con = "CONNECTPENDING" => ~Trusted(i, j)
          /\ row.con # "CONNECTPENDING" => row.retries <= MaxConRetries
      BY <1>4, <1>8, Bounds DEF Limited, Becomes
    <3>3. StateTable'[j][i] = s
      BY <1>2
    <3> QED BY <1>2, <1>8, <2>1, <3>1, <3>2, <3>3 DEF Limited
  <2>2. CASE p = j /\ q = i
    <3>1. /\ StateTable'[j][i] = s /\ chan'[j][i] = chan[j][i]
          /\ ToSend(j, i)' = ToSend(j, i) /\ asks'[j][i] = asks[j][i]
      BY <1>2
    <3> QED BY <1>2, <1>5, <1>8, <2>2, <3>1 DEF Limited
  <2>3. CASE (p # i \/ q # j) /\ (p # j \/ q # i)
    <3>1. /\ StateTable'[p][q] = StateTable[p][q] /\ StateTable'[q][p] = StateTable[q][p]
          /\ chan'[p][q] = chan[p][q]
          /\ ToSend(p, q)' = ToSend(p, q) /\ asks'[p][q] = asks[p][q]
      BY <1>2, <2>3
    <3>2. Limited(p, q)
      BY DEF LInv
    <3>3. UnderWay(chan[p][q]) \in Nat /\ asks[p][q] \in Nat /\ ToSend(p, q) \in {0, 1}
      BY <1>1, LimitedTypes
    <3>4. UnderWay(chan'[p][q]) + ToSend(p, q)' - asks'[p][q] <=
             UnderWay(chan[p][q]) + ToSend(p, q) - asks[p][q]
      BY <3>1, <3>3
    <3> QED BY <1>1, <3>1, <3>2, <3>4, LimitedFrame
  <2> QED BY <2>1, <2>2, <2>3
<1> QED BY <1>9

LEMMA AskLimited ==
    ASSUME LInv, IInv', NEW i \in IPCPs, NEW j \in IPCPs, MgmtAllocateRequest(i, j), auth' = auth
    PROVE  \A p, q \in IPCPs : Limited(p, q)'
<1>1. /\ Typed /\ Typed' /\ i # j /\ asks[i][j] \in Nat
      /\ asks' = [asks EXCEPT ![i][j] = asks[i][j] + 1]
  <2>1. Typed /\ Typed'
    BY DEF LInv, IInv
  <2>2. asks[i][j] \in Nat
    BY <2>1, LimitedTypes
  <2>3. i # j
    BY Bounds DEF MgmtAllocateRequest
  <2>4. asks' = [asks EXCEPT ![i][j] = asks[i][j] + 1]
    BY DEF MgmtAllocateRequest
  <2> QED BY <2>1, <2>2, <2>3, <2>4
<1>2. /\ asks'[i][j] = asks[i][j] + 1
      /\ \A p, q \in IPCPs : p # i \/ q # j => asks'[p][q] = asks[p][q]
  BY <1>1 DEF Typed
<1>3. CASE HasFlow(i, j) /\ StartCACE(i, j) /\ UNCHANGED <<nm1, lower>>
  <2>1. \A p, q \in IPCPs : ToSend(p, q)' = ToSend(p, q) /\ ToSend(p, q) \in {0, 1}
    BY <1>3 DEF ToSend
  <2>2. ToSend(i, j)' - asks'[i][j] + 1 <= ToSend(i, j) - asks[i][j]
    BY <1>1, <1>2, <2>1
  <2> QED BY <1>1, <1>2, <1>3, <2>1, <2>2, StartLimited
<1>4. CASE /\ lower' = [lower EXCEPT ![i][j] = "request"]
           /\ UNCHANGED <<StateTable, chan>>
  <2>1. \A p, q \in IPCPs : p # i \/ q # j => lower'[p][q] = lower[p][q]
    BY <1>1, <1>4 DEF Typed
  <2>2. ASSUME NEW p \in IPCPs, NEW q \in IPCPs
        PROVE  UnderWay(chan'[p][q]) + ToSend(p, q)' - asks'[p][q] <=
                  UnderWay(chan[p][q]) + ToSend(p, q) - asks[p][q]
    <3>1. /\ UnderWay(chan[p][q]) \in Nat /\ asks[p][q] \in Nat
          /\ ToSend(p, q) \in {0, 1} /\ ToSend(p, q)' \in {0, 1} /\ chan' = chan
      BY <1>1, <1>4, LimitedTypes DEF ToSend
    <3>2. CASE p = i /\ q = j
      BY <1>2, <3>1, <3>2
    <3>3. CASE p # i \/ q # j
      <4>1. asks'[p][q] = asks[p][q] /\ ToSend(p, q)' = ToSend(p, q)
        BY <1>2, <2>1, <3>3 DEF ToSend
      <4> QED BY <3>1, <4>1
    <3> QED BY <3>2, <3>3
  <2> QED BY <1>1, <1>4, <2>2, LimitedFrame DEF LInv
<1> QED BY <1>3, <1>4 DEF MgmtAllocateRequest

LEMMA PostLimited ==
    ASSUME LInv, IInv', NEW i \in IPCPs, NEW j \in IPCPs, PostNM1FlowAllocation(i, j)
    PROVE  \A p, q \in IPCPs : Limited(p, q)'
<1>1. /\ Typed /\ i # j /\ lower[i][j] = "response"
      /\ lower' = [lower EXCEPT ![i][j] = "idle"] /\ asks' = asks
      /\ StartCACE(i, j) /\ auth' = auth /\ asks[i][j] \in Nat
  <2>1. Typed /\ Alone(i)
    BY DEF LInv, IInv
  <2>2. asks[i][j] \in Nat
    BY <2>1, LimitedTypes
  <2>3. /\ lower[i][j] = "response" /\ lower' = [lower EXCEPT ![i][j] = "idle"]
        /\ asks' = asks /\ StartCACE(i, j) /\ auth' = auth
    BY DEF PostNM1FlowAllocation, rigid
  <2>4. i # j
    BY <2>1, <2>3 DEF Alone
  <2> QED BY <2>1, <2>2, <2>3, <2>4
<1>2. /\ lower'[i][j] = "idle"
      /\ \A p, q \in IPCPs : p # i \/ q # j => lower'[p][q] = lower[p][q]
  BY <1>1 DEF Typed
<1>3. \A p, q \in IPCPs : p # i \/ q # j =>
         ToSend(p, q)' = ToSend(p, q) /\ asks'[p][q] = asks[p][q]
  BY <1>1, <1>2 DEF ToSend
<1>4. ToSend(i, j)' = 0 /\ ToSend(i, j) = 1 /\ asks'[i][j] = asks[i][j]
  BY <1>1, <1>2 DEF ToSend
<1>5. ToSend(i, j)' - asks'[i][j] + 1 <= ToSend(i, j) - asks[i][j]
  BY <1>1, <1>4
<1> QED BY <1>1, <1>3, <1>5, StartLimited

\* No row changes, no message is sent and no flow is asked for.
LEMMA CalmLimited ==
    ASSUME LInv, IInv', auth' = auth, UNCHANGED <<StateTable, asks>>,
           \A p, q \in IPCPs : UnderWay(chan'[p][q]) <= UnderWay(chan[p][q]),
           \A p, q \in IPCPs : ToSend(p, q) = 0 => ToSend(p, q)' = 0
    PROVE  \A p, q \in IPCPs : Limited(p, q)'
<1>1. Typed /\ Typed'
  BY DEF LInv, IInv
<1>2. ASSUME NEW p \in IPCPs, NEW q \in IPCPs
      PROVE  UnderWay(chan'[p][q]) + ToSend(p, q)' - asks'[p][q] <=
                UnderWay(chan[p][q]) + ToSend(p, q) - asks[p][q]
  <2>1. /\ UnderWay(chan[p][q]) \in Nat /\ asks[p][q] \in Nat
        /\ ToSend(p, q) \in {0, 1} /\ ToSend(p, q)' \in {0, 1}
    BY <1>1, LimitedTypes DEF ToSend
  <2>2. UnderWay(chan'[p][q]) \in Nat
    BY <1>1, UnderWayType DEF Typed
  <2> QED BY <2>1, <2>2
<1> QED BY <1>1, <1>2, LimitedFrame DEF LInv

LEMMA NextLimited ==
    ASSUME LInv, [Next]_vars
    PROVE  LInv'
<1>1. IInv'
  BY NextKeeps DEF LInv
<1>2. Typed /\ \A p, q \in IPCPs : UnderWay(chan[p][q]) \in Nat
  BY LimitedTypes DEF LInv, IInv
<1>3. CASE UNCHANGED vars
  <2>1. auth' = auth /\ StateTable' = StateTable /\ asks' = asks /\ chan' = chan /\ lower' = lower
    BY <1>3 DEF vars
  <2> QED BY <1>1, <1>2, <2>1, CalmLimited DEF ToSend, LInv
<1>4. ASSUME NEW i \in IPCPs, NEW j \in IPCPs, CreateNM1FlowWithoutAllocate(i, j)
      PROVE  LInv'
  <2>1. /\ auth' = auth /\ StateTable' = StateTable /\ asks' = asks /\ chan' = chan
        /\ lower[i][j] = "request" /\ lower' = [lower EXCEPT ![i][j] = "response"]
    BY <1>4 DEF CreateNM1FlowWithoutAllocate, rigid
  <2>2. \A p, q \in IPCPs : ToSend(p, q) = 0 => ToSend(p, q)' = 0
    BY <1>2, <2>1 DEF ToSend, Typed
  <2> QED BY <1>1, <1>2, <2>1, <2>2, CalmLimited DEF LInv
<1>5. ASSUME NEW i \in IPCPs, NEW j \in IPCPs, NM1FlowRefused(i, j)
      PROVE  LInv'
  <2>1. /\ auth' = auth /\ StateTable' = StateTable /\ asks' = asks /\ chan' = chan
        /\ lower[i][j] = "request" /\ lower' = [lower EXCEPT ![i][j] = "refused"]
    BY <1>5 DEF NM1FlowRefused, rigid
  <2>2. \A p, q \in IPCPs : ToSend(p, q) = 0 => ToSend(p, q)' = 0
    BY <1>2, <2>1 DEF ToSend, Typed
  <2> QED BY <1>1, <1>2, <2>1, <2>2, CalmLimited DEF LInv
<1>6. ASSUME NEW i \in IPCPs, NEW j \in IPCPs, Lose(i, j)
      PROVE  LInv'
  <2>1. /\ auth' = auth /\ StateTable' = StateTable /\ asks' = asks /\ lower' = lower
        /\ chan[j][i] # <<>> /\ chan[j][i] \in Seq(Message)
        /\ chan' = [chan EXCEPT ![j][i] = Tail(chan[j][i])]
    BY <1>2, <1>6 DEF Lose, rigid, Typed
  <2>2. UnderWay(Tail(chan[j][i])) <= UnderWay(chan[j][i])
    <3>1. UnderWay(chan[j][i]) \in Nat /\ UnderWay(Tail(chan[j][i])) \in Nat
      BY <2>1, Received, UnderWayType
    <3> QED BY <2>1, <3>1, UnderWayReceived
  <2>3. \A p, q \in IPCPs :
           chan'[p][q] = IF p = j /\ q = i THEN Tail(chan[j][i]) ELSE chan[p][q]
    BY <1>2, <2>1 DEF Typed
  <2>4. \A p, q \in IPCPs : UnderWay(chan'[p][q]) <= UnderWay(chan[p][q])
    BY <1>2, <2>2, <2>3
  <2> QED BY <1>1, <2>1, <2>4, CalmLimited DEF LInv, ToSend
<1>7. ASSUME NEW i \in IPCPs, NEW j \in IPCPs, Receive(i, j)
      PROVE  LInv'
  BY <1>1, <1>7, ReceiveLimited DEF LInv
<1>8. ASSUME NEW i \in IPCPs, NEW j \in IPCPs, PostNM1FlowAllocation(i, j)
      PROVE  LInv'
  BY <1>1, <1>8, PostLimited DEF LInv
<1>9. ASSUME NEW i \in IPCPs, NEW j \in IPCPs, AllocateRequest(i, j) \/ Connect(i, j)
      PROVE  LInv'
  <2>1. MgmtAllocateRequest(i, j) /\ auth' = auth
    BY <1>9 DEF AllocateRequest, Connect, rigid
  <2> QED BY <1>1, <2>1, AskLimited DEF LInv
<1> QED BY <1>3, <1>4, <1>5, <1>6, <1>7, <1>8, <1>9 DEF Next

LEMMA InitLimited == Init => LInv
<1> SUFFICES ASSUME Init
             PROVE  LInv
  OBVIOUS
<1>1. IInv
  BY InitIInv
<1>2. PICK pairs \in SUBSET Configured : StateTable = ParseConfig(pairs)
  BY DEF Init
<1>3. \A i, j \in IPCPs : /\ StateTable[i][j].con \in {"NONE", "ESTABLISHED"}
                          /\ StateTable[i][j].retries = 0
  BY <1>2 DEF ParseConfig, NoRow
<1>4. \A i, j \in IPCPs : chan[i][j] = <<>> /\ lower[i][j] = "idle" /\ asks[i][j] = 0
  BY DEF Init, ForAll
<1>5. ASSUME NEW i \in IPCPs, NEW j \in IPCPs
      PROVE  Limited(i, j)
  BY <1>3, <1>4, NoneUnderWay, Bounds DEF Limited, Refused, Remaining, ToSend
<1> QED BY <1>1, <1>5 DEF LInv

\* Types and bounds hold; above all an IPCP that is refused asks a bounded number of times,
\* since ReceiveNegativeConnectResponse gives up at maxConRetries.
THEOREM TypeCorrect == Spec => []TypeOK
<1>1. Init => LInv
  BY InitLimited
<1>2. LInv /\ [Next]_vars => LInv'
  BY NextLimited
<1>3. ASSUME LInv
      PROVE  TypeOK
  <2>1. Typed
    BY <1>3 DEF LInv, IInv
  <2>2. ASSUME NEW i \in IPCPs, NEW j \in IPCPs
        PROVE  StateTable[i][j] \in EnrollmentStateTableEntry
    <3>1. Limited(i, j) /\ Limited(j, i)
      BY <1>3 DEF LInv
    <3>2. asks[j][i] \in 0 .. MaxAsk
      BY <2>1 DEF Typed
    <3>3. /\ UnderWay(chan[j][i]) \in Nat /\ Remaining(StateTable[j][i]) \in Int
          /\ StateTable[i][j] \in Entry /\ StateTable[i][j].retries \in Nat
          /\ StateTable[j][i].retries \in Nat /\ ToSend(j, i) \in {0, 1}
      BY <2>1, LimitedTypes
    <3>4. Remaining(StateTable[j][i]) >= 0
      BY <3>1, <3>3, Bounds DEF Limited, Remaining
    <3>5. StateTable[i][j].retries <= MaxAsk + MaxConRetries
      BY <3>1, <3>2, <3>3, <3>4, Bounds DEF Limited, Refused
    <3>6. StateTable[i][j].retries \in 0 .. MaxRetries
      BY <3>3, <3>5, Bounds DEF MaxRetries
    <3> QED BY <3>3, <3>6 DEF Entry, EnrollmentStateTableEntry
  <2>3. StateTable \in [IPCPs -> [IPCPs -> EnrollmentStateTableEntry]]
    BY <2>1, <2>2 DEF Typed
  <2> QED BY <2>1, <2>3 DEF Typed, TypeOK
<1> QED BY <1>1, <1>2, <1>3, PTL DEF Spec
=============================================================================
